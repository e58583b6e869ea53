------------------------------ MODULE MCPrograms ------------------------------
(* Small instances of the programs. *)
EXTENDS Programs

\* Submit: the script's name has two bytes, "$2" has four.
MCSbParams == [d \in {"0", "2"} |-> IF d = "0" THEN 2 ELSE 4]

\* Copy: names have one character, and "?" and "??" match all of them, the second
\* with a wildcard that is seen.  Everything to another drive, one file from each of
\* two drives, a file onto a name (its own and "?" included), "?" onto a name, and
\* what is refused.
Names1(n) == IF n \in {"?", "??"} THEN CpNames ELSE {n} \cap CpNames
Marks(n)  == CASE n = "?" -> {0} [] n = "??" -> {0, 1} [] OTHER -> {}
Command(specs, to, name, e, s) ==
  [specs |-> specs, to |-> to, name |-> name, hits |-> Names1(name), marks |-> Marks(name),
   erase |-> e, single |-> s]
Spec1(d, u, n) == [drive |-> d, user |-> u, names |-> Names1(n), marks |-> Marks(n)]
MCCpCommands ==
  {Command(<<Spec1("A", 0, "??")>>, CpAt("B", 0), "*", e, FALSE) : e \in BOOLEAN}
  \cup {Command(<<Spec1("A", u, "x"), Spec1("B", u, "y")>>, CpAt("A", 1), "*", e, TRUE) :
          u \in {0, 1}, e \in BOOLEAN}
  \cup {Command(<<Spec1("A", 0, "x")>>, CpAt("A", 0), n, e, FALSE) : n \in CpNames, e \in BOOLEAN}
  \cup {Command(<<Spec1("A", 0, "x")>>, CpAt("B", 0), "?", TRUE, FALSE),
        Command(<<Spec1("A", 0, "?")>>, CpAt("A", 0), "x", TRUE, FALSE),
        Command(<<Spec1("A", 0, "??")>>, CpAt("A", 0), "x", FALSE, FALSE)}
Long == <<"r", "s", "t">>
MCCpContents == {<<>>, Long}
MCCpDisks ==
  {[p \in CpPlace |-> [n \in CpNames |->
      CASE p = CpAt("A", 0) /\ n = "x" -> ax
        [] p = CpAt("A", 0) /\ n = "y" -> ay
        [] p = CpAt("A", 1) /\ n = "x" -> a1
        [] p = CpAt("B", 0) /\ n = "x" -> bx
        [] p = CpAt("B", 0) /\ n = "y" -> by
        [] OTHER -> CpNone]] :
     ax \in {CpNone, <<>>, Long}, ay \in {CpNone, Long}, a1 \in {CpNone, <<>>},
     bx \in {CpNone, <<>>}, by \in {CpNone, Long}}

\* Stat: up to three entries of three files, the first of 129 records; and up to two
\* assignments and their kin.
Extent(n, r, b) == [name |-> n, ro |-> n = "x", sys |-> n = "y", records |-> r, blocks |-> b]
MCStDirectories ==
  UNION {[1..n -> {Extent("x", 128, 2), Extent("x", 1, 1), Extent("y", 3, 1), Extent("z", 0, 0)}] :
           n \in 0..3}
MCStItems ==
  UNION {[1..n -> {[device |-> d, to |-> t] : d \in {0, 2, 3}, t \in {0, 2, StBad}}
                    \cup {[device |-> 0, to |-> StShow]}] : n \in 1..3}

\* Asm: programs of up to three statements, and those with an IF on a label that may
\* be defined later, with something before, in and after both its parts.
St(l, o, f, n) == [label |-> l, op |-> o, of |-> f, plus |-> n]
MCStatements ==
  {St("a", "none", "", 0), St("b", "one", "", 0), St("", "jump", "a", 0), St("", "db", "b", 1),
   St("", "ds", "a", 1), St("", "org", "b", 2), St("a", "equ", "b", 0), St("b", "set", "", 3),
   St("b", "set", "b", 1), St("", "if", "b", 0), St("", "else", "", 0), St("", "endif", "", 0),
   St("a", "end", "", 0), St("", "end", "", 0)}
MCInner ==
  {St("a", "none", "", 0), St("", "jump", "a", 0), St("b", "equ", "", 1), St("", "ds", "b", 1),
   St("b", "none", "", 0), St("", "db", "a", 1)}
MCAsPrograms ==
  UNION {[1..n -> MCStatements] : n \in 0..3}
  \cup {<<w, St("", "if", "b", 0), x, St("", "else", "", 0), y, St("", "endif", "", 0), z>> :
          w, x, y, z \in MCInner}

\* XModem: no file, one of three blocks, or one with an EOT or a SOH in its data, and the
\* troubles one at a time and together.  The control bytes are those of the code modulo
\* Bytes, and the first block's number is SOH, as in the code.
MCFiles == {<<>>, <<<<2, 3>>, <<3, 3>>, <<3, 2>>>>, <<<<2, 4>>, <<3, 3>>>>, <<<<2, 1>>, <<3, 3>>>>}
MCTroubles == {{}, {"slow"}, {"noise"}, {"answer"}, {"slow", "answer"}, {"slow", "key"},
               {"full"}, {"key"}}
===============================================================================
