------------------------------ MODULE FdcStatus ------------------------------
(***************************************************************************)
(* How the four drivers of uPD765-like floppy controllers decide from the  *)
(* status bytes ST0 and ST1 whether a sector transfer has worked:          *)
(* fd765_complete_transfer of nc200/supervisor/floppy.inc (a table) and of *)
(* arch/common/utils/upd765.lib, used by the WP2450DS (a bitmap, result in *)
(* the zero flag), FDCENDRW of brother/pn8800/hd63266.z80 (a bitmap, result*)
(* in the carry) and change_track of brother/pn8510/floppy.z80 (a mask).   *)
(***************************************************************************)
EXTENDS Integers, Sequences

CONSTANTS Driver,      \* the drivers looked at
          Byte0, Byte1  \* the values of ST0 (without SE, which only a seek sets) and ST1

ASSUME DriverAssumption == Driver \subseteq {"nc200", "wp2450", "pn8800", "pn8510"}
ASSUME ByteAssumption == Byte0 \subseteq 0..255 /\ Byte1 \subseteq 0..255

\* The controller: a transfer that has met an equipment check (bit 4 of ST0) does not
\* end normally, and bit 5 is SE.
ASSUME NormalAssumption == \A s0 \in Byte0 : s0 \div 64 = 0 => s0 \div 16 = 0

VARIABLES driver, st0, st1, verdict

fdcVars == <<driver, st0, st1, verdict>>

\* The rotations: EN (bit 7 of ST1), IC7 and IC6 (bits 7 and 6 of ST0).
Code(s0, s1) == 4 * (s1 \div 128) + s0 \div 64

\* What n times "add a" multiply by, for n in 0..8.
Doubled(n) == <<1, 2, 4, 8, 16, 32, 64, 128, 256>>[n + 1]

\* "add a" repeated n times on an 8-bit value: what is left and the carry.
Shifted(value, n) == (value * Doubled(n)) % 256
Carry(value, n)   == ((value * Doubled(n)) \div 256) % 2

\* data.fd765_status_codes: nonzero entries.
Nc200Ok(s0, s1) == Code(s0, s1) \in {0, 4, 5}

\* The loop's last "add a" sets the zero flag, which "rla" leaves alone.
Wp2450Ok(s0, s1) == Shifted(140, Code(s0, s1) + 1) # 0

\* Mutant: the bitmap is shifted once less ("inc a" forgotten).
Pn8800OkShort(s0, s1) == Carry(115, Code(s0, s1)) = 0

Pn8800Ok(s0, s1) == Carry(115, Code(s0, s1) + 1) = 0

\* "and 0xf0"
Pn8510Ok(s0, s1) == s0 \div 16 = 0

Accepted(m, s0, s1) ==
  \/ m = "nc200" /\ Nc200Ok(s0, s1)
  \/ m = "wp2450" /\ Wp2450Ok(s0, s1)
  \/ m = "pn8800" /\ Pn8800Ok(s0, s1)
  \/ m = "pn8510" /\ Pn8510Ok(s0, s1)

FdcInit ==
  /\ driver \in Driver
  /\ st0 \in Byte0 /\ st1 \in Byte1
  /\ verdict = "none"

\* The controller ends a transfer; the driver judges it.
Ends(s0, s1) ==
  /\ st0' = s0 /\ st1' = s1
  /\ verdict' = IF Accepted(driver, s0, s1) THEN "ok" ELSE "error"
  /\ UNCHANGED driver

FdcNext == \E s0 \in Byte0, s1 \in Byte1 : Ends(s0, s1)

FdcSpec == FdcInit /\ [][FdcNext]_fdcVars

-----------------------------------------------------------------------------
\* The controller's own terms: a transfer fails unless its interrupt code is
\* "normal", or "abnormal" because the end of the track was reached.
Failed(s0, s1) ==
  LET ic == s0 \div 64
      en == s1 \div 128 = 1
  IN  ~(ic = 0 \/ (ic = 1 /\ en))

\* No driver takes a failed transfer for a success: the table of upd765.lib:205-216
\* ("this gives us a number from 0..7 which is our error") and its siblings.
FailureSeen == verdict = "ok" => ~Failed(st0, st1)

\* No driver rejects a transfer that ended normally, nor, except for the mask of
\* the PN-8510, one that ended at the end of the track.
SuccessSeen ==
  verdict = "error" => Failed(st0, st1) \/ (driver = "pn8510" /\ st0 \div 64 = 1)

\* Each driver's decoding is right both ways, for each status a transfer can end with.
VerdictRight == FailureSeen /\ SuccessSeen
=============================================================================
