-------------------------------- MODULE EmuBdos --------------------------------
(***************************************************************************)
(* The BDOS calls on files of the CP/M emulator, utils/emu/biosbdos.c: the *)
(* program in the machine makes calls on its file control blocks, each call*)
(* an action.  A block's name is given when the program sets it up; its    *)
(* position and its record count are what the calls leave there.  A record *)
(* is a number: the mark the program writes through that block.            *)
(***************************************************************************)
EXTENDS EmuFiles

CONSTANTS
  Fcb,             \* the program's file control blocks
  FcbBase,         \* [Fcb -> Base]
  FcbDrive,        \* [Fcb -> drive set up by the program, 0 for the default]
  Mark,            \* [Fcb -> the record it writes]
  Patterns,        \* wildcards: sets of names
  Hosts,           \* the host's directories to start from: [dir, ino]
  ExtentRecords,   \* 128
  Extents,         \* 256, extent being a byte
  Programs,        \* bound: what a program does, [Fcb -> the calls made with it]
  RandomRecords,   \* bound: random records asked for
  MaxCalls         \* bound: calls of the program

Ops == {"open", "make", "close", "read", "write", "random", "length", "delete",
        "rename", "find", "select"}

ASSUME EmBdosAssumption ==
  /\ FcbBase \in [Fcb -> Base] /\ FcbDrive \in [Fcb -> Drives \cup {0}]
  /\ Mark \in [Fcb -> Nat \ {0}] /\ Patterns \subseteq SUBSET Base
  /\ ExtentRecords \in Nat \ {0} /\ Extents \in Nat \ {0} /\ MaxCalls \in Nat
  /\ Programs \subseteq [Fcb -> SUBSET Ops] /\ RandomRecords \subseteq Nat
  /\ \A h \in Hosts :
       /\ IsFiniteSet(DOMAIN h.ino) /\ DOMAIN h.ino \subseteq Nat \ {0}
       /\ h.ino \in [DOMAIN h.ino -> [data : Seq(Nat), ro : BOOLEAN]]
       /\ DOMAIN h.dir \subseteq Base /\ h.dir \in [DOMAIN h.dir -> DOMAIN h.ino]
       /\ IsInjective(h.dir)

VARIABLES
  program,   \* never changes
  fs,        \* files and host (EmuFiles)
  fcb,       \* Fcb -> [drive, extent, count, record]
  disk,      \* ram[4] + 1, the default drive
  search,    \* currentdir and currentpattern
  ret,       \* the last call: its name, block, result and data
  crashed,   \* a NULL file was used: the emulator is gone
  loose,     \* history: names deleted, renamed or replaced while they were kept open
  fresh,     \* history: blocks that know the length of their file
  calls      \* calls made

emVars == <<program, fs, fcb, disk, search, ret, crashed, loose, fresh, calls>>

NoSearch == [dir |-> FALSE, pattern |-> {}, left |-> {}, due |-> {}, calm |-> FALSE]
NoCall   == [op |-> "none", f |-> 0, r |-> 0, at |-> 0, data |-> 0]

EmTypeOK ==
  /\ DOMAIN fs.dir \subseteq Base
  /\ fs.first \in Slot
  /\ fs.file \in [Slot -> [prev : Slot \cup {0}, next : Slot \cup {0}, name : CpmName,
                           fd : 0..NumFiles, rw : BOOLEAN]]
  /\ \A d \in DOMAIN fs.fds : fs.fds[d].ino \in DOMAIN fs.ino
  /\ \A b \in DOMAIN fs.dir : fs.dir[b] \in DOMAIN fs.ino
  /\ fcb \in [Fcb -> [drive : Drives \cup {0}, extent : 0..Extents - 1,
                      count : 0..ExtentRecords, record : 0..ExtentRecords - 1]]
  /\ disk \in Drives /\ crashed \in BOOLEAN /\ loose \subseteq Base /\ fresh \subseteq Fcb
  /\ search.left \subseteq Base /\ search.due \subseteq Base
  /\ calls \in 0..MaxCalls

EmInit ==
  /\ program \in Programs
  /\ \E h \in Hosts : fs = FilesInit(h.dir, h.ino)
  /\ fcb = [f \in Fcb |-> [drive |-> FcbDrive[f], extent |-> 0, count |-> 0, record |-> 0]]
  /\ disk = MappedDrive
  /\ search = NoSearch
  /\ ret = NoCall
  /\ crashed = FALSE
  /\ loose = {}
  /\ fresh = {}
  /\ calls = 0

Turn ==
  /\ ~crashed
  /\ calls < MaxCalls
  /\ calls' = calls + 1
  /\ UNCHANGED program
Call(op, f) == Turn /\ op \in program[f]
Makes(op)   == \E f \in Fcb : op \in program[f]

\* fcb_at: the default drive is put into the block, for good.
DriveOf(f) == IF fcb[f].drive = 0 THEN disk ELSE fcb[f].drive
NameOf(f)  == [drive |-> DriveOf(f), base |-> FcbBase[f]]
At(f)      == [fcb[f] EXCEPT !.drive = DriveOf(f)]

Sized(f)   == fcb' = [fcb EXCEPT ![f] = At(f)]

CurrentRecord(f) == fcb[f].extent * ExtentRecords + fcb[f].record

\* set_current_record; the extent is a byte.
Placed(b, record, total) ==
  LET e == (record \div ExtentRecords) % Extents
  IN  [b EXCEPT !.extent = e, !.record = record % ExtentRecords,
                !.count = IF e < total \div ExtentRecords THEN ExtentRecords
                          ELSE total % ExtentRecords]

Garbage == {0, ExtentRecords}
Reply(op, f, r, at, data) == ret' = [op |-> op, f |-> f, r |-> r, at |-> at, data |-> data]
Result(op, f, r, data)    == Reply(op, f, r, 0, data)

\* The files as the directory shows them.
Files(s) == [b \in DOMAIN s.dir |-> s.ino[s.dir[b]].data]

\* A name is loose from the moment the directory changes under an entry that
\* keeps it open, until no entry does.  A block is fresh from a call that left
\* its file's length in it until the file has another length.
Kept(s)    == {s.file[i].name.base : i \in {j \in Slot : s.file[j].fd # 0}}
SameLength(b) == b \in DOMAIN fs.dir \cap DOMAIN fs'.dir
                 /\ Len(Files(fs)[b]) = Len(Files(fs')[b])
Placing    == {"open", "make", "close", "read", "write"}
Learns(f)  == ret'.op \in {"open", "read", "write"} /\ ret'.r # 255
              /\ FcbBase[f] \notin loose' /\ DriveOf(f) = MappedDrive
History(f, names) ==
  /\ loose' = (loose \cup names) \cap Kept(fs')
  /\ fresh' = {g \in fresh \ {f} : SameLength(FcbBase[g])}
                 \cup {g \in {f} : Learns(g)
                                   \/ (g \in fresh /\ ret'.op \notin Placing
                                      /\ SameLength(FcbBase[g]))}

\* Dereferencing NULL.
Crash(f) ==
  /\ crashed' = TRUE
  /\ Result("crash", f, 255, 0)
  /\ UNCHANGED search

Runs == crashed' = FALSE

-----------------------------------------------------------------------------
OpenFile(f) ==
  /\ Call("open", f) /\ Runs
  /\ LET o == FileOpen(fs, NameOf(f)) IN
       IF IsOpen(o)
       THEN /\ fs' = Counted(o.fs, o.i)
            /\ \E n \in RecordCounts(o.fs, o.i, Garbage) :
                 fcb' = [fcb EXCEPT ![f] = Placed(At(f), 0, n)]
            /\ Result("open", f, 0, 0)
       ELSE /\ fs' = o.fs
            /\ Sized(f)
            /\ Result("open", f, 255, 0)
  /\ History(f, {})
  /\ UNCHANGED <<disk, search>>

\* The directory may show the new name to a search that is under way.
Appears(b) ==
  /\ b \in DOMAIN fs'.dir \ DOMAIN fs.dir
  /\ search' \in {[search EXCEPT !.calm = FALSE],
                  [search EXCEPT !.calm = FALSE, !.left = @ \cup {b}]}

MakeFile(f) ==
  /\ Call("make", f) /\ Runs
  /\ LET o == FileCreate(fs, NameOf(f)) IN
       /\ fs' = o.fs
       /\ IF IsOpen(o)
          THEN fcb' = [fcb EXCEPT ![f] = Placed(At(f), 0, 0)] /\ Result("make", f, 0, 0)
          ELSE Sized(f) /\ Result("make", f, 255, 0)
  /\ History(f, {})
  /\ Appears(FcbBase[f]) \/ (DOMAIN fs'.dir = DOMAIN fs.dir /\ UNCHANGED search)
  /\ UNCHANGED disk

\* Mutant: the record count of the block is taken for any file.
CloseFileAlways(f) ==
  /\ Call("close", f)
  /\ LET o == FileOpen(fs, NameOf(f)) IN
       IF IsOpen(o)
       THEN /\ Runs
            /\ \E n \in RecordCounts(o.fs, o.i, Garbage) :
                 fs' = FileClose(FileSetRecordCount(o.fs, o.i, fcb[f].count, n), NameOf(f))
            /\ Sized(f) /\ Result("close", f, 0, 0)
            /\ UNCHANGED search
       ELSE fs' = o.fs /\ Sized(f) /\ Crash(f)
  /\ History(f, {})
  /\ UNCHANGED disk

\* A file of less than an extent gets the length its block says.
CloseFile(f) ==
  /\ Call("close", f)
  /\ LET o == FileOpen(fs, NameOf(f)) IN
       IF IsOpen(o)
       THEN /\ Runs
            /\ \E n \in RecordCounts(o.fs, o.i, Garbage) :
                 fs' = FileClose(IF n < ExtentRecords
                                 THEN FileSetRecordCount(o.fs, o.i, fcb[f].count, n)
                                 ELSE o.fs,
                                 NameOf(f))
            /\ Sized(f) /\ Result("close", f, 0, 0)
            /\ UNCHANGED search
       ELSE fs' = o.fs /\ Sized(f) /\ Crash(f)
  /\ History(f, {})
  /\ UNCHANGED disk

\* readwrite: the record is read or written at "here"; the block moves to
\* "next" whatever came of it.
Transfer(call, op, f, here, next) ==
  /\ Call(call, f)
  /\ LET o == FileOpen(fs, NameOf(f)) IN
       IF IsOpen(o)
       THEN LET t == IF op = "read" THEN FileRead(o.fs, o.i, here)
                                    ELSE FileWrite(o.fs, o.i, here, Mark[f])
            IN  /\ Runs
                /\ fs' = Counted(t.fs, o.i)
                /\ \E n \in RecordCounts(t.fs, o.i, Garbage) :
                     fcb' = [fcb EXCEPT ![f] = Placed(At(f), next, n)]
                /\ Reply(op, f, CASE t.n = -1 -> 255 [] t.n = 0 -> 1 [] t.n = 1 -> 0, here, t.data)
                /\ UNCHANGED search
       ELSE fs' = o.fs /\ Sized(f) /\ Crash(f)
  /\ History(f, {})
  /\ UNCHANGED disk

ReadSequential(f)  == Transfer("read", "read", f, CurrentRecord(f), CurrentRecord(f) + 1)
WriteSequential(f) == Transfer("write", "write", f, CurrentRecord(f), CurrentRecord(f) + 1)
ReadRandom(f)      == \E r \in RandomRecords : Transfer("random", "read", f, r, r)
WriteRandom(f)     == \E r \in RandomRecords : Transfer("random", "write", f, r, r)

\* filelength: the random record becomes the length (returned here as data).
FileLength(f) ==
  /\ Call("length", f)
  /\ LET o == FileOpen(fs, NameOf(f)) IN
       IF IsOpen(o)
       THEN /\ Runs
            /\ fs' = Counted(o.fs, o.i)
            /\ \E n \in RecordCounts(o.fs, o.i, Garbage) : Result("length", f, 0, n)
            /\ UNCHANGED search
       ELSE fs' = o.fs /\ Crash(f)
  /\ Sized(f)
  /\ History(f, {})
  /\ UNCHANGED disk

\* The directory's position is shared with the search under way: what the
\* search had not read yet may be passed over.
Unsettled == \E rest \in SUBSET search.left :
                search' = [search EXCEPT !.left = rest, !.calm = FALSE]

DeleteFile(f) ==
  /\ Call("delete", f) /\ Runs
  /\ \E p \in Patterns \cup {{FcbBase[f]}} :
       LET gone == Matching(fs, DriveOf(f), p) IN
       /\ fs' = FileDelete(fs, DriveOf(f), p)
       /\ Result("delete", f, IF gone = {} THEN 255 ELSE 0, 0)
       /\ History(f, gone)
  /\ Sized(f)
  /\ IF DriveOf(f) = MappedDrive THEN Unsettled ELSE UNCHANGED search
  /\ UNCHANGED disk

\* The drive of the second name is not looked at; a file that has the new name
\* is replaced.
RenameFile(f) ==
  /\ Call("rename", f) /\ Runs
  /\ \E b \in Base :
       IF CanRename(fs, DriveOf(f), FcbBase[f])
       THEN /\ fs' = FileRename(fs, FcbBase[f], b)
            /\ Result("rename", f, 0, 0)
            /\ History(f, IF b = FcbBase[f] THEN {} ELSE {b, FcbBase[f]})
            /\ Appears(b) \/ (b \in DOMAIN fs.dir
                              /\ search' = [search EXCEPT !.calm = FALSE])
       ELSE /\ UNCHANGED <<fs, search>>
            /\ Result("rename", f, 255, 0)
            /\ History(f, {})
  /\ Sized(f)
  /\ UNCHANGED disk

\* file_findnext: files that are no longer there, or do not match, are skipped.
FindNextIn(s) ==
  LET hits == s.left \cap s.pattern \cap DOMAIN fs.dir IN
  IF ~s.dir \/ hits = {}
  THEN /\ search' = [s EXCEPT !.dir = FALSE, !.left = {}]
       /\ Result("find", 0, 255, 0)
  ELSE \E b \in hits :
         /\ search' = [s EXCEPT !.left = @ \ {b}, !.due = @ \ {b}]
         /\ Result("find", 0, 0, b)

FindNext ==
  /\ Turn /\ Makes("find") /\ Runs
  /\ FindNextIn(search)
  /\ UNCHANGED <<fs, fcb, disk, loose, fresh>>

\* file_findfirst: only the mapped drive has a directory, which is rewound.
FileFindFirst(drive, p) ==
  [dir |-> drive = MappedDrive, pattern |-> p, left |-> DOMAIN fs.dir,
   due |-> Matching(fs, drive, p), calm |-> TRUE]

\* Mutant: the directory is not rewound, so that a search goes on where the one
\* before it stopped.
FindFirstOn(f) ==
  /\ Call("find", f) /\ Runs
  /\ \E p \in Patterns \cup {{FcbBase[f]}} :
       FindNextIn([FileFindFirst(DriveOf(f), p) EXCEPT
                     !.left = IF search.dir THEN search.left ELSE @])
  /\ Sized(f)
  /\ UNCHANGED <<fs, disk, loose, fresh>>

FindFirst(f) ==
  /\ Call("find", f) /\ Runs
  /\ \E p \in Patterns \cup {{FcbBase[f]}} : FindNextIn(FileFindFirst(DriveOf(f), p))
  /\ Sized(f)
  /\ UNCHANGED <<fs, disk, loose, fresh>>

SelectDisk ==
  /\ Turn /\ Makes("select") /\ Runs
  /\ disk' \in Drives
  /\ ret' = NoCall
  /\ UNCHANGED <<fs, fcb, search, loose, fresh>>

ResetDisk ==
  /\ Turn /\ Makes("select") /\ Runs
  /\ disk' = 1
  /\ ret' = NoCall
  /\ UNCHANGED <<fs, fcb, search, loose, fresh>>

EmStop == (crashed \/ calls = MaxCalls) /\ UNCHANGED emVars

EmNext ==
  \/ \E f \in Fcb :
       \/ OpenFile(f) \/ MakeFile(f) \/ CloseFile(f)
       \/ ReadSequential(f) \/ WriteSequential(f) \/ ReadRandom(f) \/ WriteRandom(f)
       \/ FileLength(f) \/ DeleteFile(f) \/ RenameFile(f) \/ FindFirst(f)
  \/ FindNext \/ SelectDisk \/ ResetDisk \/ EmStop

EmSpec == EmInit /\ [][EmNext]_emVars

-----------------------------------------------------------------------------
\* The list of open files (fileio.c:84): every entry is in it once, the links
\* back are those forward reversed, and no two entries have the same file.
EmListWhole ==
  /\ {Order(fs)[k] : k \in Slot} = Slot
  /\ fs.file[fs.first].prev = 0
  /\ \A i, j \in Slot : fs.file[i].next = j <=> fs.file[j].prev = i
  /\ \A i, j \in Slot : fs.file[i].name = fs.file[j].name => i = j \/ fs.file[i].name.base = Blank

\* Every descriptor the emulator holds belongs to one entry, open the way the
\* entry says: none is lost when an entry is reopened, closed or given up.
EmDescriptorsOwned ==
  /\ DOMAIN fs.fds = {fs.file[i].fd : i \in Slot} \ {0}
  /\ \A i, j \in Slot : fs.file[i].fd # 0 /\ fs.file[i].fd = fs.file[j].fd => i = j
  /\ \A i \in Slot : fs.file[i].fd # 0 => fs.fds[fs.file[i].fd].rw = fs.file[i].rw

\* An entry's descriptor is that of the file the directory has under its name,
\* unless the name was deleted, renamed or replaced while the entry kept it.
EmStaleOnlyWhenLoose ==
  \A i \in Slot :
    LET e == fs.file[i] IN
    e.fd # 0 /\ e.name.base \notin loose
      => e.name.base \in DOMAIN fs.dir /\ fs.dir[e.name.base] = fs.fds[e.fd].ino

Called(op) == calls' # calls /\ ret'.op = op
Shown(f)   == Files(fs')[FcbBase[f]]

\* Across evictions, reopenings and the other blocks' calls, a read returns what
\* the file in the directory holds at the block's place, and its end only there.
EmReadsTheFile ==
  [][Called("read") /\ FcbBase[ret'.f] \notin loose'
       => /\ ret'.r = 0 => ret'.data = Shown(ret'.f)[ret'.at + 1]
          /\ ret'.r = 1 => ret'.at >= Len(Shown(ret'.f))]_emVars

\* A write that reports success has put the record into the file in the
\* directory, and one that fails has changed nothing.
EmWritesReachTheFile ==
  [][Called("write") =>
       /\ ret'.r = 0 /\ FcbBase[ret'.f] \notin loose'
            => /\ Len(Shown(ret'.f)) > ret'.at
               /\ Shown(ret'.f)[ret'.at + 1] = Mark[ret'.f]
       /\ ret'.r # 0 => Files(fs') = Files(fs)]_emVars

\* A call brings the emulator down only if its own file is not in the directory
\* (file_open's NULL is not looked at when reading, writing or closing).
EmCrashNeedsMissingFile ==
  [][crashed' # crashed =>
       FcbBase[ret'.f] \notin DOMAIN fs.dir \/ DriveOf(ret'.f) # MappedDrive]_emVars

\* A make that reports success leaves a file of that name in the directory, unless
\* an entry was still open on one that was deleted: that one is kept
\* (fileio.c:206) and nothing is made.
EmMakeMakes ==
  [][Called("make") /\ ret'.r = 0 /\ FcbBase[ret'.f] \notin loose'
       => FcbBase[ret'.f] \in DOMAIN fs'.dir]_emVars

\* A close gives the file the length in the block: it shortens or lengthens a
\* file only if the file had another length when the block last learnt it.
EmCloseKeepsTheFile ==
  [][Called("close") /\ ret'.f \in fresh => Files(fs') = Files(fs)]_emVars

\* While no name is added, deleted or changed, a search returns every name that
\* matches once: those it has yet to return are those it has yet to read.
EmSearchComplete ==
  search.calm => search.due = search.left \cap search.pattern \cap DOMAIN fs.dir

\* The list of open files is one list of all entries, each with a descriptor of its
\* own, after every sequence of opening, reopening, closing and giving up entries.
EmListSound == EmTypeOK /\ EmListWhole /\ EmDescriptorsOwned

\* A call that makes, reads, writes or closes does to the file what it reports, unless
\* the name was changed under it, and only a missing file brings the emulator down.
EmCallsHonest ==
  /\ EmMakeMakes /\ EmReadsTheFile /\ EmWritesReachTheFile
  /\ EmCloseKeepsTheFile /\ EmCrashNeedsMissingFile
================================================================================
