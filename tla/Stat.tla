--------------------------------- MODULE Stat ---------------------------------
(***************************************************************************)
(* cpmtools/stat.c: device assignments in the I/O byte, and files, whose   *)
(* directory entries (extents) are gathered into a table before they are   *)
(* listed or their attributes set.  A key that is pressed ends the program *)
(* between two files.                                                      *)
(***************************************************************************)
EXTENDS Integers, Sequences, FiniteSets, SequencesExt

CONSTANTS
  StNames,
  StDirectories,  \* directories, as sequences of entries [name, ro, sys, records, blocks]
  StItems,        \* command lines that are about devices, as sequences of items
  StCount         \* FCB_COUNT

\* An item is [device, to], to = StBad for a name the device has no use for and StShow
\* for the items that only print.  The extents of a file have the same attributes.
StBad  == 4
StShow == 5

ASSUME StAssumption ==
  /\ StCount \in Nat \ {0}
  /\ StDirectories \subseteq
       Seq([name : StNames, ro : BOOLEAN, sys : BOOLEAN, records : Nat, blocks : Nat])
  /\ \A d \in StDirectories : \A i, j \in 1..Len(d) :
       d[i].name = d[j].name => d[i].ro = d[j].ro /\ d[i].sys = d[j].sys
  /\ StItems \subseteq Seq([device : 0..3, to : 0..3 \cup {StBad, StShow}])

VARIABLES
  stPc,       \* "off", "devices", "search", "files", "done", "stopped"
  stItems,    \* items still to be done
  stIo,       \* the I/O byte
  stDir, stAt,
  stTable,    \* files[]
  stWanted,   \* the names the file specification matches
  stCommand,
  stIoBefore, stItemsBefore, stDirBefore    \* history: as the program found them

stVars == <<stPc, stItems, stIo, stDir, stAt, stTable, stWanted, stCommand, stIoBefore,
            stItemsBefore, stDirBefore>>
stGiven   == <<stWanted, stCommand, stIoBefore, stItemsBefore, stDirBefore>>
stFiles   == <<stDir, stAt, stTable>>
stDevices == <<stItems, stIo>>

StCommands == {"list", "R/O", "R/W", "SYS", "DIR"}
StTypeOK ==
  /\ stPc \in {"off", "devices", "search", "files", "done", "stopped"}
  /\ stIo \in 0..255
  /\ stAt \in 1..Len(stDir) + 1
  /\ Len(stTable) <= StCount

StNow(io, items, dir, wanted, command) ==
  /\ stIo = io /\ stIoBefore = io /\ stItems = items /\ stItemsBefore = items
  /\ stDir = dir /\ stDirBefore = dir /\ stAt = 1 /\ stTable = <<>>
  /\ stWanted = wanted /\ stCommand = command

StStart ==
  \/ /\ stPc = "devices"
     /\ \E io \in {0, 27, 228, 255}, items \in StItems : StNow(io, items, <<>>, {}, "list")
  \/ /\ stPc = "search"
     /\ \E dir \in StDirectories, wanted \in SUBSET StNames, command \in StCommands :
          StNow(0, <<>>, dir, wanted, command)
StOff == stPc = "off" /\ StNow(0, <<>>, <<>>, {}, "list")

-----------------------------------------------------------------------------
\* change_device_assignment: a byte's field, two bits for each device.
StUnit(device) == <<1, 4, 16, 64>>[device + 1]
StField(io, device) == (io \div StUnit(device)) % 4
Assigned(io, device, to) == io + StUnit(device) * (to - StField(io, device))

\* One item of device_manipulation; anything that is wrong ends the program.
StDevice ==
  /\ stPc = "devices" /\ stItems # <<>>
  /\ LET item == Head(stItems)
     IN  CASE item.to = StBad  -> stPc' = "stopped" /\ UNCHANGED stDevices
           [] item.to = StShow -> stItems' = Tail(stItems) /\ UNCHANGED <<stPc, stIo>>
           [] item.to \in 0..3 ->
                /\ stIo' = Assigned(stIo, item.device, item.to)
                /\ stItems' = Tail(stItems)
                /\ UNCHANGED stPc
  /\ UNCHANGED <<stFiles, stGiven>>

StDevicesDone ==
  /\ stPc = "devices" /\ stItems = <<>>
  /\ stPc' = "done"
  /\ UNCHANGED <<stDevices, stFiles, stGiven>>

\* An entry of the directory, counted to its file.
Entry == stDir[stAt]

\* Mutant: every extent is a file.
CountedAlone(table) ==
  Append(table, [name |-> Entry.name, ro |-> Entry.ro, sys |-> Entry.sys,
                 extents |-> 1, records |-> Entry.records, blocks |-> Entry.blocks])

Counted(table) ==
  LET same == {i \in 1..Len(table) : table[i].name = Entry.name
                  /\ table[i].ro = Entry.ro /\ table[i].sys = Entry.sys}
      i    == CHOOSE k \in same : TRUE
  IN  IF same = {}
      THEN Append(table, [name |-> Entry.name, ro |-> Entry.ro, sys |-> Entry.sys,
                          extents |-> 1, records |-> Entry.records, blocks |-> Entry.blocks])
      ELSE [table EXCEPT ![i].extents = @ + 1, ![i].records = @ + Entry.records,
                         ![i].blocks = @ + Entry.blocks]

\* file_manipulation's search.  The table is "full" when its last place is taken.
StSearch ==
  /\ stPc = "search" /\ stAt <= Len(stDir)
  /\ stAt' = stAt + 1
  /\ stTable' = IF Entry.name \in stWanted THEN Counted(stTable) ELSE stTable
  /\ stPc' = IF Len(stTable') = StCount /\ Len(stTable) < StCount THEN "stopped" ELSE stPc
  /\ UNCHANGED <<stDir, stDevices, stGiven>>

\* Listing changes nothing.
StSearched ==
  /\ stPc = "search" /\ stAt = Len(stDir) + 1
  /\ stPc' = IF stCommand = "list" THEN "done" ELSE "files"
  /\ stAt' = 1
  /\ UNCHANGED <<stDir, stTable, stDevices, stGiven>>

\* The attributes of a file when it is set; the other one is what the table says.
With(f) == [ro  |-> IF stCommand \in {"R/O", "R/W"} THEN stCommand = "R/O" ELSE f.ro,
            sys |-> IF stCommand \in {"SYS", "DIR"} THEN stCommand = "SYS" ELSE f.sys]

\* The BDOS sets the attributes of all of a file's extents.
BdosSets(dir, f) ==
  [i \in 1..Len(dir) |->
     IF dir[i].name = f.name THEN [dir[i] EXCEPT !.ro = With(f).ro, !.sys = With(f).sys] ELSE dir[i]]

\* stAt counts the files of the table now.
StSet ==
  /\ stPc = "files" /\ stAt <= Len(stTable)
  /\ stDir' = BdosSets(stDir, stTable[stAt])
  /\ stAt' = stAt + 1
  /\ stPc' \in {"files", "stopped"}
  /\ UNCHANGED <<stTable, stDevices, stGiven>>

StFilesDone ==
  /\ stPc = "files" /\ stAt = Len(stTable) + 1
  /\ stPc' = "done"
  /\ UNCHANGED <<stFiles, stDevices, stGiven>>

StStep == StDevice \/ StDevicesDone \/ StSearch \/ StSearched \/ StSet \/ StFilesDone

-----------------------------------------------------------------------------
\* However many assignments a line makes and wherever it goes wrong, each device has
\* what the last assignment to it that was made says, or what it had
\* (change_device_assignment).
StLastAssignmentHolds ==
  LET done == Len(stItemsBefore) - Len(stItems)
  IN  \A d \in 0..3 :
        LET own == {i \in 1..done : stItemsBefore[i].device = d /\ stItemsBefore[i].to # StShow}
            to  == IF own = {} THEN StField(stIoBefore, d)
                   ELSE stItemsBefore[CHOOSE i \in own : \A k \in own : k <= i].to
        IN  StField(stIo, d) = to

\* What the extents of a file add up to, of the first k entries of the directory: their
\* number, their records or their blocks.
StCounts(e) == [extents |-> 1, records |-> e.records, blocks |-> e.blocks]
StSum(name, of) ==
  LET sum[k \in 0..Len(stDirBefore)] ==
        IF k = 0 THEN 0
        ELSE sum[k - 1] + IF stDirBefore[k].name = name THEN StCounts(stDirBefore[k])[of] ELSE 0
  IN  sum

\* The table has one entry for each file that is looked for, with the sums of its
\* extents, in whatever order the directory holds them (file_manipulation).
StTableOf(k) ==
  \A n \in stWanted :
    LET own == {i \in 1..Len(stTable) : stTable[i].name = n}
    IN  IF \A i \in 1..k : stDirBefore[i].name # n THEN own = {}
        ELSE \E f \in own :
               /\ own = {f}
               /\ \A of \in {"extents", "records", "blocks"} : stTable[f][of] = StSum(n, of)[k]
StTableAddsUp == stPc \in {"files", "done"} => StTableOf(Len(stDirBefore))

StWished(old) ==
  CASE stCommand = "R/O" -> [old EXCEPT !.ro = TRUE]
    [] stCommand = "R/W" -> [old EXCEPT !.ro = FALSE]
    [] stCommand = "SYS" -> [old EXCEPT !.sys = TRUE]
    [] stCommand = "DIR" -> [old EXCEPT !.sys = FALSE]
    [] stCommand = "list" -> old

\* Setting one attribute leaves the other and all other files alone; at the end
\* every extent of every file that was named has it.
StAttributesSet ==
  \A i \in 1..Len(stDir) :
    LET old == stDirBefore[i]
        new == StWished(old)
    IN  /\ stDir[i] \in {old, new}
        /\ stDir[i] # old => old.name \in stWanted
        /\ stPc = "done" /\ old.name \in stWanted => stDir[i] = new

\* Assignments, sums and attributes are what the command line asked for.
StDoesAsTold == StLastAssignmentHolds /\ StTableAddsUp /\ StAttributesSet
===============================================================================
