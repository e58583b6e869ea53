--------------------------------- MODULE Copy ---------------------------------
(***************************************************************************)
(* cpmtools/copy.c: one file to another, or the files that match some      *)
(* specifications to a drive, through a buffer of some records.  A file is *)
(* a sequence of records at a place, a drive and a user; which user a BDOS *)
(* call means is set before it.  Any call may fail, and a key that is      *)
(* pressed ends the program between two records.                           *)
(***************************************************************************)
EXTENDS Integers, Sequences, FiniteSets, SequencesExt

CONSTANTS
  CpDrives, CpUsers, CpNames,
  CpContents,   \* the files there can be, as sequences of records
  CpDisks,      \* what is on the disks: at each place and name a file or CpNone
  CpCommands,   \* command lines: [specs, to, name, hits, marks, erase, single]
  CpBuffer      \* records that fit into the buffer

CpPlace == [drive : CpDrives, user : CpUsers]
CpAt(d, u) == [drive |-> d, user |-> u]
CpNone  == <<"none">>

\* A specification is [drive, user, names, marks]: the names it matches, and the
\* positions in its name, 0 to 10, of a "?".  "to" is the destination's place, "name"
\* its name or "*" for a drive alone; "hits" and "marks" are to the destination's name
\* what "names" and "marks" are to a specification's.  No file begins like CpNone.
Pattern(names, marks) ==
  /\ names # {} /\ names \subseteq CpNames
  /\ marks \subseteq 0..10 /\ (marks = {} => Cardinality(names) = 1)
ASSUME CpAssumption ==
  /\ CpBuffer \in Nat \ {0} /\ "*" \notin CpNames
  /\ IsFiniteSet(CpNames) /\ CpUsers # {} /\ CpCommands # {}
  /\ \A c \in CpContents : c \in Seq(Range(c)) /\ ~IsPrefix(CpNone, c)
  /\ CpDisks \subseteq [CpPlace -> [CpNames -> CpContents \cup {CpNone}]]
  /\ \A c \in CpCommands :
       /\ c.to \in CpPlace /\ c.name \in CpNames \cup {"*"}
       /\ c.erase \in BOOLEAN /\ c.single \in BOOLEAN
       /\ c.specs \in Seq([drive : CpDrives, user : CpUsers, names : SUBSET CpNames,
                           marks : SUBSET (0..10)])
       /\ \A i \in 1..Len(c.specs) : Pattern(c.specs[i].names, c.specs[i].marks)
       /\ c.name # "*" => c.name \in c.hits /\ Pattern(c.hits, c.marks)

VARIABLES
  cpPc,      \* "off", "search", "next", "check", "open", "make", "read", "write",
             \* "close", "done", "failed"
  cpDisk,    \* the contents at each place and name, CpNone if there is no such file
  cpUser,    \* the current user
  cpCommand,
  cpOld,     \* olduser
  cpArgs,    \* multicopy: specifications still to be searched for
  cpJobs,    \* the table of source files still to be copied
  cpBuf,     \* records read and not yet written
  cpPos,     \* records read from the source
  cpEof,
  cpBefore   \* history: the disk when the program started

cpVars == <<cpPc, cpDisk, cpUser, cpCommand, cpOld, cpArgs, cpJobs, cpBuf, cpPos, cpEof,
            cpBefore>>
cpFixed == <<cpCommand, cpOld, cpBefore>>

CpTypeOK ==
  /\ cpPc \in {"off", "search", "next", "check", "open", "make", "read", "write", "close",
               "done", "failed"}
  /\ \A p \in CpPlace, n \in CpNames :
       cpDisk[p][n] = CpNone \/ \E c \in CpContents : IsPrefix(cpDisk[p][n], c)
  /\ cpUser \in CpUsers /\ cpOld \in CpUsers /\ cpEof \in BOOLEAN
  /\ Len(cpBuf) <= IF cpCommand.single THEN 1 ELSE CpBuffer
  /\ cpPos \in Nat

CpNow(disk, user, command) ==
  /\ cpDisk = disk /\ cpBefore = disk /\ cpUser = user /\ cpOld = user
  /\ cpCommand = command /\ cpArgs = command.specs
  /\ cpJobs = <<>> /\ cpBuf = <<>> /\ cpPos = 0 /\ cpEof = FALSE

CpStart ==
  /\ cpPc = "search"
  /\ \E disk \in CpDisks, user \in CpUsers, command \in CpCommands : CpNow(disk, user, command)
CpOff ==
  /\ cpPc = "off"
  /\ CpNow([p \in CpPlace |-> [n \in CpNames |-> CpNone]],
           CHOOSE u \in CpUsers : TRUE, CHOOSE c \in CpCommands : TRUE)

-----------------------------------------------------------------------------
\* fatal and abort put the user back.
CpFatal ==
  /\ cpPc' = "failed" /\ cpUser' = cpOld
  /\ UNCHANGED <<cpDisk, cpArgs, cpJobs, cpBuf, cpPos, cpEof, cpFixed>>

\* multicopy searches as the current user, whatever user the specification names;
\* files come in the order of the directory, which is not said here.
Found(spec) ==
  {[drive |-> spec.drive, name |-> n] :
     n \in {m \in spec.names : cpDisk[CpAt(spec.drive, cpUser)][m] # CpNone}}

CpSearch ==
  /\ cpPc = "search" /\ cpCommand.name = "*" /\ cpArgs # <<>>
  /\ \E order \in SetToSeqs(Found(Head(cpArgs))) : cpJobs' = cpJobs \o order
  /\ cpArgs' = Tail(cpArgs)
  /\ UNCHANGED <<cpPc, cpDisk, cpUser, cpBuf, cpPos, cpEof, cpFixed>>

CpSearched ==
  /\ cpPc = "search" /\ cpCommand.name = "*" /\ cpArgs = <<>>
  /\ IF cpJobs = <<>> THEN CpFatal
     ELSE /\ cpPc' = "next"
          /\ UNCHANGED <<cpDisk, cpUser, cpArgs, cpJobs, cpBuf, cpPos, cpEof, cpFixed>>

\* does_fcb_have_wildcards: the loop ends before the first character.
HasWildcards(marks) == marks \cap 1..10 # {}

\* singlecopy.  A name whose "?" comes first goes through; which file it is, if it is
\* the source's, will be known when the file is opened.
CpSingle ==
  /\ cpPc = "search" /\ cpCommand.name # "*"
  /\ IF \/ Len(cpArgs) # 1
        \/ HasWildcards(cpArgs[1].marks) \/ HasWildcards(cpCommand.marks)
     THEN CpFatal
     ELSE /\ cpPc' = "next"
          /\ cpJobs' = <<[drive |-> cpArgs[1].drive, name |-> CHOOSE n \in cpArgs[1].names : TRUE]>>
          /\ UNCHANGED <<cpDisk, cpUser, cpArgs, cpBuf, cpPos, cpEof, cpFixed>>

CpNext ==
  /\ cpPc = "next"
  /\ IF cpJobs = <<>> THEN cpPc' = "done" /\ cpUser' = cpOld
     ELSE cpPc' = "check" /\ UNCHANGED cpUser
  /\ UNCHANGED <<cpDisk, cpArgs, cpJobs, cpBuf, cpPos, cpEof, cpFixed>>

-----------------------------------------------------------------------------
(* copy_one_file *)

\* The user of the last specification is the source's, for every file.
SourceUser == Last(cpCommand.specs).user
Source == CpAt(Head(cpJobs).drive, SourceUser)
TargetName == IF cpCommand.name = "*" THEN Head(cpJobs).name ELSE cpCommand.name

\* The files that a call with the destination's name, or with the source's, means.
Hits    == IF cpCommand.name = "*" THEN {Head(cpJobs).name} ELSE cpCommand.hits
Sources == IF cpCommand.name = "*" THEN {Head(cpJobs).name} ELSE cpCommand.specs[1].names

\* The source and the destination, as far as the current user sees them.
In  == cpDisk[CpAt(Head(cpJobs).drive, cpUser')][Head(cpJobs).name]
Out == CpAt(cpCommand.to.drive, cpUser')

\* Mutant: no look at the destination.
CpCheckNothing ==
  /\ cpPc = "check"
  /\ cpUser' = cpCommand.to.user
  /\ cpPc' = "open"
  /\ UNCHANGED <<cpDisk, cpArgs, cpJobs, cpBuf, cpPos, cpEof, cpFixed>>

\* A search finds any file that the destination's name matches, and a deletion takes
\* all of them.
Erased == [n \in CpNames |-> IF n \in Hits THEN CpNone ELSE cpDisk[cpCommand.to][n]]
CpCheck ==
  /\ cpPc = "check"
  /\ \/ (\E n \in Hits : cpDisk[cpCommand.to][n] # CpNone) /\ CpFatal
     \/ /\ (\A n \in Hits : cpDisk[cpCommand.to][n] = CpNone) \/ cpCommand.erase
        /\ cpDisk' = [cpDisk EXCEPT ![cpCommand.to] = Erased]
        /\ cpUser' = cpCommand.to.user
        /\ cpPc' = "open"
        /\ UNCHANGED <<cpArgs, cpJobs, cpBuf, cpPos, cpEof, cpFixed>>

\* The BDOS opens one of the files that match, and its name is in the FCB from then on.
CpOpen ==
  /\ cpPc = "open"
  /\ LET there == {n \in Sources : cpDisk[Source][n] # CpNone}
     IN  IF there = {} THEN CpFatal
         ELSE /\ \E n \in there : cpJobs' = [cpJobs EXCEPT ![1].name = n]
              /\ cpPc' = "make" /\ cpUser' = SourceUser
              /\ cpPos' = 0 /\ cpBuf' = <<>> /\ cpEof' = FALSE
              /\ UNCHANGED <<cpDisk, cpArgs, cpFixed>>

\* A name with a "?" is refused, or made as it stands.
CpMake ==
  /\ cpPc = "make"
  /\ \/ CpFatal
     \/ /\ cpUser' = cpCommand.to.user
        /\ cpDisk' = [cpDisk EXCEPT ![Out][TargetName] = <<>>]
        /\ cpPc' = "read"
        /\ UNCHANGED <<cpArgs, cpJobs, cpBuf, cpPos, cpEof, cpFixed>>

Full == Len(cpBuf) = IF cpCommand.single THEN 1 ELSE CpBuffer

\* One record; an error or a key ends the program.
CpRead ==
  /\ cpPc = "read" /\ ~Full
  /\ \/ CpFatal
     \/ /\ cpUser' = SourceUser
        /\ cpPos < Len(In)
        /\ cpBuf' = Append(cpBuf, In[cpPos + 1]) /\ cpPos' = cpPos + 1
        /\ UNCHANGED <<cpPc, cpDisk, cpArgs, cpJobs, cpEof, cpFixed>>

\* The read phase is over: the buffer is full, or the file has ended.
CpReadEnd ==
  /\ cpPc = "read"
  /\ \/ Full /\ UNCHANGED <<cpUser, cpEof>>
     \/ /\ ~Full /\ cpUser' = SourceUser
        /\ cpPos >= Len(In) /\ cpEof' = TRUE
  /\ cpPc' = "write"
  /\ UNCHANGED <<cpDisk, cpArgs, cpJobs, cpBuf, cpPos, cpFixed>>

CpWrite ==
  /\ cpPc = "write" /\ cpBuf # <<>>
  /\ \/ CpFatal
     \/ /\ cpUser' = cpCommand.to.user
        /\ cpDisk' = [cpDisk EXCEPT ![Out][TargetName] = Append(@, Head(cpBuf))]
        /\ cpBuf' = Tail(cpBuf)
        /\ UNCHANGED <<cpPc, cpArgs, cpJobs, cpPos, cpEof, cpFixed>>

CpWriteEnd ==
  /\ cpPc = "write" /\ cpBuf = <<>>
  /\ cpPc' = IF cpEof THEN "close" ELSE "read"
  /\ UNCHANGED <<cpDisk, cpUser, cpArgs, cpJobs, cpBuf, cpPos, cpEof, cpFixed>>

CpClose ==
  /\ cpPc = "close"
  /\ \/ CpFatal
     \/ /\ cpPc' = "next" /\ cpJobs' = Tail(cpJobs)
        /\ UNCHANGED <<cpDisk, cpUser, cpArgs, cpBuf, cpPos, cpEof, cpFixed>>

CpStep ==
  \/ CpSearch \/ CpSearched \/ CpSingle \/ CpNext \/ CpCheck \/ CpOpen \/ CpMake
  \/ CpRead \/ CpReadEnd \/ CpWrite \/ CpWriteEnd \/ CpClose

-----------------------------------------------------------------------------
\* The names a command's copies are to have, and all names that its destination means:
\* another one only where the destination begins with a "?", which is let through.
Copies == IF cpCommand.name = "*"
          THEN UNION {cpCommand.specs[i].names : i \in 1..Len(cpCommand.specs)}
          ELSE {cpCommand.name}
Targets == Copies \cup (IF cpCommand.name = "*" THEN {} ELSE cpCommand.hits)

\* Every specification is of the current user: only then are the files that are
\* found the ones that are opened.
OneUser == \A i \in 1..Len(cpCommand.specs) : cpCommand.specs[i].user = cpOld

\* The sources of the copy that name n at the destination should become.
SourcesOf(n) ==
  IF cpCommand.name = "*"
  THEN {cpBefore[CpAt(cpCommand.specs[i].drive, cpOld)][n] :
          i \in {j \in 1..Len(cpCommand.specs) : n \in cpCommand.specs[j].names}} \ {CpNone}
  ELSE {cpBefore[CpAt(cpCommand.specs[1].drive, cpOld)][m] : m \in cpCommand.specs[1].names}
         \ {CpNone}

\* When the program ends well every copy is, record by record, a source as it was
\* before, whatever the buffer's size (copy_one_file, multicopy).
CpCopiesWhole ==
  cpPc = "done" /\ OneUser =>
    \A n \in Copies :
      SourcesOf(n) # {} => cpDisk[cpCommand.to][n] \in SourcesOf(n)

\* Nothing but what the destination means ever changes, and that only with /F if it was
\* there before, even if the program gives up in the middle.  For a destination with a
\* "?" as its first character that is every file it matches, in spite of "you can't use
\* wildcards in this mode" (copy.c:82); for any other name it is that file alone.
CpOthersKept ==
  \A p \in CpPlace, n \in CpNames :
    cpDisk[p][n] # cpBefore[p][n] =>
      /\ p = cpCommand.to /\ n \in Targets
      /\ cpCommand.erase \/ cpBefore[p][n] = CpNone

\* However the program ends, the user is the one who started it (main, fatal).
CpUserRestored == cpPc \in {"done", "failed"} => cpUser = cpOld

\* A copy is whole when the program says so, and however it ends the files that the
\* command does not mean and the user number are as before.
CpCopiesOnly == CpCopiesWhole /\ CpOthersKept /\ CpUserRestored
===============================================================================
