------------------------------ MODULE MCEmuBdos ------------------------------
EXTENDS EmuBdos
\* Four names for three places; f4 is a second block on A, on the default drive.
MCFcbBase  == [f \in Fcb |-> CASE f \in {1, 4} -> "A" [] f = 2 -> "B" [] f = 3 -> "C" [] f = 5 -> "D"]
MCFcbDrive == [f \in Fcb |-> IF f = 4 THEN 0 ELSE 1]
MCMark     == [f \in Fcb |-> f]
MCPatterns == {Base}
\* A file of one record; one that may not be written and one of a full extent.
MCHosts ==
  {[dir |-> [b \in {"A"} |-> 1], ino |-> [i \in {1} |-> [data |-> <<9>>, ro |-> FALSE]]],
   [dir |-> [b \in {"A", "B"} |-> IF b = "A" THEN 1 ELSE 2],
    ino |-> [i \in {1, 2} |-> IF i = 1 THEN [data |-> <<9>>, ro |-> TRUE]
                                       ELSE [data |-> <<8, 8>>, ro |-> FALSE]]]}
\* A program that reads and writes one file while others take its place in the
\* list; one that reads it while files are deleted and replaced; one that searches the
\* directory; one that uses random records and the default drive.
Program(c) == [f \in Fcb |-> IF f \in DOMAIN c THEN c[f] ELSE {}]
MCPrograms ==
  {Program(<<{"open", "read", "write"}, {"open"}, {"make"}, {}, {"make"}>>),
   Program(<<{"open", "make", "close", "read", "write", "delete"}, {"rename"}, {}, {"read", "close"}>>),
   Program(<<{"find", "delete", "rename", "make"}, {}, {"make"}>>),
   Program(<<{"open", "write", "random", "length"}, {}, {}, {"read", "close", "select"}>>)}
===============================================================================
