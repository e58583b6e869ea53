------------------------------ MODULE MCGetBlock ------------------------------
(* Instances of GetBlock for TLC: the last block of a track, with both its    *)
(* records, and the first two blocks of the next one.                         *)
EXTENDS GetBlock

MCAddress == {<<3, 22>>, <<3, 23>>, <<4, 0>>, <<4, 2>>}

\* All is well; or anything may happen, in mode 2 or without it.
MCEnvironment == {{}, {"read fails", "write fails"},
                  {"read fails", "write fails", "mode 2"}}
=============================================================================
