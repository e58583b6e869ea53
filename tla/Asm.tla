---------------------------------- MODULE Asm ----------------------------------
(***************************************************************************)
(* The two passes of the assembler cpmtools/asm.c over a program, one      *)
(* statement at a time.  A statement is [label, op, of, plus]: its label   *)
(* or "", what it does, and an operand, the value of the symbol "of" (""   *)
(* for none) plus a number.  How operands are computed is AsmExpr's.  The  *)
(* bytes of the output are [op], an operation code, [lo] and [hi] of a     *)
(* value, or 0.                                                            *)
(*                                                                         *)
(* The source may become unreadable, which looks like its end, and the     *)
(* output may become unwritable.                                           *)
(***************************************************************************)
EXTENDS Integers, Sequences, SequencesExt

CONSTANTS
  AsPrograms,  \* programs, as sequences of statements
  AsLabels,
  AsRecord     \* 128: bytes of the output buffer

AsNone == ""
AsOps == {"none", "one", "jump", "db", "ds", "org", "equ", "set", "if", "else", "endif", "end"}
ASSUME AsAssumption ==
  /\ AsRecord \in Nat \ {0} /\ AsNone \notin AsLabels
  /\ AsPrograms \subseteq
       Seq([label : AsLabels \cup {AsNone}, op : AsOps, of : AsLabels \cup {AsNone}, plus : Nat])

VARIABLES
  asPc,       \* "off", "run", "close", "done", "fatal"
  asProgram,
  asPass, asAt,
  asSymbols,  \* of each label [kind, value], kind "undef", "equ" or "set"
  asCounter,  \* program_counter
  asBase,     \* of emit8: where the first byte was put, -1 before (program_counter_fixed)
  asNext,     \* old_program_counter
  asFile,     \* the records of the output file
  asFill,     \* the bytes in its buffer
  asPlaced,   \* history: bytes emitted in pass 2, <<address, byte>>
  asRefs,     \* history: labels' values used in pass 2, <<label, value>>
  asFirst,    \* history: the labels to which pass 1 has given a value for good
  asCut       \* history: the source became unreadable

asVars == <<asPc, asProgram, asPass, asAt, asSymbols, asCounter, asBase, asNext, asFile,
            asFill, asPlaced, asRefs, asFirst, asCut>>
asOutput == <<asBase, asNext, asFile, asFill, asPlaced>>

AsTypeOK ==
  /\ asPc \in {"off", "run", "close", "done", "fatal"}
  /\ asPass \in {0, 1} /\ asAt \in 1..Len(asProgram) + 1
  /\ \A l \in AsLabels : asSymbols[l].kind \in {"undef", "equ", "set"} /\ asSymbols[l].value \in Nat
  /\ asCounter \in Nat /\ asBase \in {-1} \cup Nat /\ asNext \in Nat
  /\ Len(asFill) < AsRecord /\ \A i \in 1..Len(asFile) : Len(asFile[i]) = AsRecord

AsNow(program) ==
  /\ asProgram = program
  /\ asPass = 0 /\ asAt = 1 /\ asCounter = 0 /\ asBase = -1 /\ asNext = 0
  /\ asSymbols = [l \in AsLabels |-> [kind |-> "undef", value |-> 0]]
  /\ asFile = <<>> /\ asFill = <<>> /\ asPlaced = {} /\ asRefs = {} /\ asFirst = {}
  /\ asCut = FALSE
AsStart == asPc = "run" /\ \E p \in AsPrograms : AsNow(p)
AsOff   == asPc = "off" /\ AsNow(<<>>)

-----------------------------------------------------------------------------
Statement == asProgram[asAt]
Operand(symbols) ==
  (IF Statement.of = AsNone THEN 0 ELSE symbols[Statement.of].value) + Statement.plus

\* fatal: no output file but the listing is closed.
AsFatal ==
  /\ asPc' = "fatal"
  /\ UNCHANGED <<asProgram, asPass, asAt, asSymbols, asCounter, asOutput, asRefs, asFirst, asCut>>

\* set_implicit_label.  Mutant: pass 2 does not compare.
AsLabelledBlind(counter) ==
  IF Statement.label = AsNone THEN asSymbols
  ELSE [asSymbols EXCEPT ![Statement.label] = [kind |-> "equ", value |-> counter]]

AsLabelled(counter) ==
  IF Statement.label = AsNone THEN asSymbols
  ELSE [asSymbols EXCEPT ![Statement.label] =
          IF @.kind # "undef" /\ @.value # counter THEN [kind |-> "bad", value |-> 0]
          ELSE [kind |-> "equ", value |-> counter]]
Clash(symbols) == \E l \in AsLabels : symbols[l].kind = "bad"

\* emit8_to_output_file, for each of some bytes.
AsPut(bytes) ==
  LET all  == asFill \o bytes
      full == Len(all) \div AsRecord
  IN  /\ asFile' = asFile \o [i \in 1..full |-> SubSeq(all, (i - 1) * AsRecord + 1, i * AsRecord)]
      /\ asFill' = SubSeq(all, full * AsRecord + 1, Len(all))

\* emit8, for the bytes of a statement: first what "ds" and "org" have skipped since
\* the last byte.
AsEmit(bytes) ==
  /\ asCounter' = asCounter + Len(bytes) /\ asNext' = asCounter'
  /\ IF asPass = 0 THEN UNCHANGED <<asBase, asFile, asFill, asPlaced>>
     ELSE /\ asBase' = IF asBase = -1 THEN asCounter ELSE asBase
          /\ AsPut([i \in 1..IF asBase = -1 THEN 0 ELSE asCounter - asNext |-> "0"] \o bytes)
          /\ asPlaced' = asPlaced \cup {<<asCounter + i - 1, bytes[i]>> : i \in 1..Len(bytes)}

\* What becomes of the rest when a statement is done.
AsGoesOn(to) ==
  /\ asAt' = to
  /\ UNCHANGED <<asPc, asProgram, asPass, asFirst, asCut>>
AsUses(symbols) ==
  asRefs' = IF asPass = 1 /\ Statement.of # AsNone
            THEN asRefs \cup {<<Statement.of, symbols[Statement.of].value>>} ELSE asRefs

AsRunning == asPc = "run" /\ asAt <= Len(asProgram)

-----------------------------------------------------------------------------
(* Statements *)

\* A label alone, "title" or an "endif" that is come to.
AsPlain ==
  /\ AsRunning /\ Statement.op \in {"none", "endif"}
  /\ IF Clash(AsLabelled(asCounter)) THEN AsFatal
     ELSE asSymbols' = AsLabelled(asCounter) /\ AsGoesOn(asAt + 1)
          /\ UNCHANGED <<asCounter, asOutput, asRefs>>

\* The instructions, by their length; db gives one byte.  Writing may fail.
Code(value) ==
  CASE Statement.op = "one"  -> <<"op">>
    [] Statement.op = "jump" -> <<"op", <<"lo", value>>, <<"hi", value>>>>
    [] Statement.op = "db"   -> <<<<"lo", value>>>>

AsInstruction ==
  /\ AsRunning /\ Statement.op \in {"one", "jump", "db"}
  /\ LET symbols == AsLabelled(asCounter)
     IN  IF Clash(symbols) THEN AsFatal
         ELSE \/ /\ AsEmit(Code(Operand(symbols)))
                 /\ asSymbols' = symbols
                 /\ IF Statement.op = "one" THEN UNCHANGED asRefs ELSE AsUses(symbols)
                 /\ AsGoesOn(asAt + 1)
              \/ asPass = 1 /\ AsFatal

AsSpace ==
  /\ AsRunning /\ Statement.op \in {"ds", "org"}
  /\ LET symbols == AsLabelled(asCounter)
         value   == Operand(symbols)
     IN  IF Clash(symbols) \/ (Statement.op = "org" /\ value < asCounter) THEN AsFatal
         ELSE /\ asCounter' = IF Statement.op = "org" THEN value ELSE asCounter + value
              /\ asSymbols' = symbols /\ AsUses(symbols)
              /\ AsGoesOn(asAt + 1)
              /\ UNCHANGED asOutput

AsEqu ==
  /\ AsRunning /\ Statement.op = "equ"
  /\ LET symbols == AsLabelled(Operand(asSymbols))
     IN  IF Statement.label = AsNone \/ Clash(symbols) THEN AsFatal
         ELSE /\ asSymbols' = symbols /\ AsUses(asSymbols)
              /\ AsGoesOn(asAt + 1)
              /\ UNCHANGED <<asCounter, asOutput>>

AsSet ==
  /\ AsRunning /\ Statement.op = "set"
  /\ IF Statement.label = AsNone THEN AsFatal
     ELSE IF asSymbols[Statement.label].kind = "equ" THEN AsFatal
     ELSE /\ asSymbols' = [asSymbols EXCEPT ![Statement.label] =
                             [kind |-> "set", value |-> Operand(asSymbols)]]
          /\ AsUses(asSymbols)
          /\ AsGoesOn(asAt + 1)
          /\ UNCHANGED <<asCounter, asOutput>>

\* The statement after the next one that ends the part that is skipped.
Skipped(ends) ==
  LET stops == {k \in asAt + 1..Len(asProgram) : asProgram[k].op \in ends}
  IN  IF stops = {} THEN 0 ELSE 1 + CHOOSE k \in stops : \A l \in stops : k <= l

AsIf ==
  /\ AsRunning /\ Statement.op \in {"if", "else"}
  /\ LET symbols == AsLabelled(asCounter)
         true    == Statement.op = "if" /\ Operand(symbols) # 0
         to      == IF Statement.op = "if" THEN Skipped({"else", "endif"}) ELSE Skipped({"endif"})
     IN  IF Clash(symbols) \/ (~true /\ to = 0) THEN AsFatal
         ELSE /\ asSymbols' = symbols
              /\ IF Statement.op = "if" THEN AsUses(symbols) ELSE UNCHANGED asRefs
              /\ AsGoesOn(IF true THEN asAt + 1 ELSE to)
              /\ UNCHANGED <<asCounter, asOutput>>

\* The end of a pass: the file's, END, which a label in front of it hides, or a
\* record that cannot be read.
AsPassEnd ==
  /\ asPc = "run"
  /\ \/ asAt = Len(asProgram) + 1 /\ UNCHANGED asCut
     \/ AsRunning /\ Statement.op = "end" /\ Statement.label = AsNone /\ UNCHANGED asCut
     \/ AsRunning /\ asCut' = TRUE
  /\ IF asPass = 0
     THEN /\ asPass' = 1 /\ asAt' = 1 /\ asCounter' = 0
          /\ asFirst' = {l \in AsLabels : asSymbols[l].kind = "equ"}
          /\ UNCHANGED asPc
     ELSE asPc' = "close" /\ UNCHANGED <<asPass, asAt, asCounter, asFirst>>
  /\ UNCHANGED <<asProgram, asSymbols, asOutput, asRefs>>

AsHiddenEnd ==
  /\ AsRunning /\ Statement.op = "end" /\ Statement.label # AsNone
  /\ IF Clash(AsLabelled(asCounter)) THEN AsFatal
     ELSE asSymbols' = AsLabelled(asCounter) /\ AsGoesOn(asAt + 1)
          /\ UNCHANGED <<asCounter, asOutput, asRefs>>

\* close_output_file fills the last record up.
AsClose ==
  /\ asPc = "close"
  /\ \/ /\ asPc' = "done"
        /\ AsPut([i \in 1..IF asFill = <<>> THEN 0 ELSE AsRecord - Len(asFill) |-> "0"])
     \/ asPc' = "fatal" /\ UNCHANGED <<asFile, asFill>>
  /\ UNCHANGED <<asProgram, asPass, asAt, asSymbols, asCounter, asBase, asNext, asPlaced,
                 asRefs, asFirst, asCut>>

AsStep ==
  \/ AsPlain \/ AsInstruction \/ AsSpace \/ AsEqu \/ AsSet \/ AsIf \/ AsPassEnd \/ AsHiddenEnd
  \/ AsClose

-----------------------------------------------------------------------------
\* When the assembler reports success every byte is in the file where a program
\* loaded at the first byte's address expects it, and all others are zero
\* (emit8, close_output_file).
AsImageRight ==
  asPc = "done" =>
    LET image == FlattenSeq(asFile)
    IN  /\ \A p \in asPlaced : p[1] - asBase + 1 <= Len(image) /\ image[p[1] - asBase + 1] = p[2]
        /\ \A k \in 1..Len(image) : image[k] = "0" \/ <<asBase + k - 1, image[k]>> \in asPlaced

\* And every value that the second pass took from a label that the first had given a
\* value is the label's, backwards and forwards, whatever was conditional and however
\* much space the first pass made for want of a value (set_implicit_label, equ_cb).  A
\* label that is SET has no one value.
AsReferencesHold ==
  asPc = "done" =>
    \A r \in asRefs : r[1] \in asFirst
                        => asSymbols[r[1]].kind = "equ" /\ r[2] = asSymbols[r[1]].value

\* A successful assembly has every byte and every reference in its place.
AsOutputRight == AsImageRight /\ AsReferencesHold
===============================================================================
