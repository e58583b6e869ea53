---------------------------- MODULE MCDeblocker ----------------------------
(* Instances of Deblocker for TLC: two native sectors of one track.  The    *)
(* CP/M sectors asked for are two records of the first, one of the second   *)
(* and one beyond the disk; the second track is beyond it too.              *)
EXTENDS Deblocker

MCCpmSector == {0, 1, 5, 8}
MCCpmTrack  == {0, 1}
=============================================================================
