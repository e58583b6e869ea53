------------------------------- MODULE EmuFiles -------------------------------
(***************************************************************************)
(* The host files behind the CP/M emulator, utils/emu/fileio.c: a list of  *)
(* NumFiles files kept open, the one used last first, and the searches in  *)
(* the host's directory.  The operators take and return the record fs:     *)
(*   dir    the host's directory: name -> inode                            *)
(*   ino    the host's inodes: inode -> [data, ro], a record per 128 bytes *)
(*   fds    the host's descriptors: number -> [ino, rw]                    *)
(*   file   files[], a doubly linked list (0 is NULL); fd 0 is -1          *)
(*   first  firstfile                                                      *)
(* A CP/M filename is [drive, base]; drive MappedDrive is mapped to the    *)
(* directory, and no other drive is.                                       *)
(***************************************************************************)
EXTENDS Integers, Sequences, FiniteSets, Functions

CONSTANTS
  Base,           \* file names
  Blank,          \* eleven spaces
  Drives,         \* drive numbers, 1 for A:
  MappedDrive,    \* the drive given a directory by -p
  NumFiles        \* NUM_FILES: 16

ASSUME EmFileAssumption ==
  /\ Blank \notin Base /\ MappedDrive \in Drives
  /\ Drives \subseteq Nat \ {0} /\ 1 \in Drives /\ NumFiles \in Nat \ {0}

Slot  == 1..NumFiles
CpmName == [drive : Drives \cup {0}, base : Base \cup {Blank}]

\* files_init
FilesInit(dir, ino) ==
  [dir |-> dir, ino |-> ino, fds |-> <<>>, first |-> 1,
   file |-> [i \in Slot |->
     [prev |-> i - 1, next |-> IF i = NumFiles THEN 0 ELSE i + 1,
      name |-> [drive |-> 0, base |-> Blank], fd |-> 0, rw |-> FALSE]]]

-----------------------------------------------------------------------------
\* The host (external): open, close, pread, pwrite, ftruncate.
Referred(fs) == {fs.dir[n] : n \in DOMAIN fs.dir} \cup {fs.fds[d].ino : d \in DOMAIN fs.fds}
Collect(fs)  == [fs EXCEPT !.ino = Restrict(@, Referred(fs))]
Lowest(used) == CHOOSE k \in 1..Cardinality(used) + 1 :
                   k \notin used /\ 1..k - 1 \subseteq used
Bind(f, k, v) == [x \in DOMAIN f \cup {k} |-> IF x = k THEN v ELSE f[x]]

HostClose(fs, d) == Collect([fs EXCEPT !.fds = Restrict(@, DOMAIN @ \ {d})])

\* openat: the lowest free descriptor, or 0 when the file is not there or may
\* not be written.
HostOpen(fs, base, rw, creat) ==
  LET d == Lowest(DOMAIN fs.fds)
      i == Lowest(DOMAIN fs.ino)
  IN  IF base \in DOMAIN fs.dir
      THEN IF rw /\ fs.ino[fs.dir[base]].ro THEN [fs |-> fs, fd |-> 0]
           ELSE [fd |-> d, fs |-> [fs EXCEPT !.fds =
                   Bind(@, d, [ino |-> fs.dir[base], rw |-> rw])]]
      ELSE IF ~creat THEN [fs |-> fs, fd |-> 0]
           ELSE [fd |-> d, fs |-> [fs EXCEPT
                   !.dir = Bind(@, base, i),
                   !.ino = Bind(@, i, [data |-> <<>>, ro |-> FALSE]),
                   !.fds = Bind(@, d, [ino |-> i, rw |-> rw])]]

Data(fs, d) == fs.ino[fs.fds[d].ino].data

\* Records past the end are zero.
HostWrite(fs, d, r, v) ==
  [fs EXCEPT !.ino[fs.fds[d].ino].data =
     [k \in 1..IF r >= Len(@) THEN r + 1 ELSE Len(@) |->
        IF k = r + 1 THEN v ELSE IF k <= Len(@) THEN @[k] ELSE 0]]
HostTruncate(fs, d, n) ==
  [fs EXCEPT !.ino[fs.fds[d].ino].data =
     [k \in 1..n |-> IF k <= Len(@) THEN @[k] ELSE 0]]

-----------------------------------------------------------------------------
\* Mutant: the successor keeps its old prev.
BumpForward(fs, i) ==
  IF i = fs.first THEN fs
  ELSE LET f == fs.file
           p == f[i].prev
           a == IF p # 0 THEN [f EXCEPT ![p].next = f[i].next] ELSE f
       IN  [fs EXCEPT !.first = i,
              !.file = [a EXCEPT ![fs.first].prev = i, ![i].prev = 0, ![i].next = fs.first]]

\* bump: an entry is moved to the front.
Bump(fs, i) ==
  IF i = fs.first THEN fs
  ELSE LET f == fs.file
           p == f[i].prev
           n == f[i].next
           a == IF p # 0 THEN [f EXCEPT ![p].next = n] ELSE f
           b == IF n # 0 THEN [a EXCEPT ![n].prev = p] ELSE a
       IN  [fs EXCEPT !.first = i,
              !.file = [b EXCEPT ![fs.first].prev = i, ![i].prev = 0, ![i].next = fs.first]]

\* reopen: opened if it is not open, and again if it is open for reading and the
\* flags are O_RDWR, which those of file_create are not.  It may end up closed.
Reopen(fs, i, rw, creat) ==
  LET f == fs.file[i]
      c == IF f.fd # 0 THEN HostClose(fs, f.fd) ELSE fs
  IN  IF f.fd # 0 /\ (f.rw \/ ~rw \/ creat) THEN fs
      ELSE IF f.name.drive # MappedDrive THEN c
      ELSE LET o == HostOpen(c, f.name.base, rw, creat)
           IN  [o.fs EXCEPT !.file[i].rw = rw, !.file[i].fd = o.fd]

\* The list from its head; 0 past its end.
Order(fs) ==
  LET at[k \in Slot] ==
        IF k = 1 THEN fs.first
        ELSE IF at[k-1] = 0 THEN 0 ELSE fs.file[at[k-1]].next
  IN  at

\* The entry of a name: the first in the list that bears it, else the last,
\* moved to the front and given the name.
Hits(fs, name) == {k \in Slot : Order(fs)[k] # 0 /\ fs.file[Order(fs)[k]].name = name}
Victim(fs) == CHOOSE i \in {Order(fs)[k] : k \in Slot} \ {0} : fs.file[i].next = 0

\* Mutant: the entry keeps the descriptor of the file that had it before.
FindFileKeeps(fs, name) ==
  IF Hits(fs, name) # {}
  THEN [fs |-> fs, i |-> Order(fs)[CHOOSE k \in Hits(fs, name) : \A j \in Hits(fs, name) : k <= j]]
  ELSE LET i == Victim(fs)
       IN  [i |-> i, fs |-> [Bump(fs, i) EXCEPT !.file[i].name = name]]

\* find_file
FindFile(fs, name) ==
  IF Hits(fs, name) # {}
  THEN [fs |-> fs, i |-> Order(fs)[CHOOSE k \in Hits(fs, name) : \A j \in Hits(fs, name) : k <= j]]
  ELSE LET i == Victim(fs)
           b == Bump(fs, i)
           c == IF b.file[i].fd # 0 THEN HostClose(b, b.file[i].fd) ELSE b
       IN  [i |-> i, fs |-> [c EXCEPT !.file[i].fd = 0, !.file[i].name = name,
                                      !.file[i].rw = FALSE]]

\* file_open and file_create return an entry, whose fd is 0 where the code
\* returns NULL.
FileOpen(fs, name) ==
  LET f == FindFile(fs, name) IN [f EXCEPT !.fs = Reopen(@, f.i, FALSE, FALSE)]
FileCreate(fs, name) ==
  LET f == FindFile(fs, name) IN [f EXCEPT !.fs = Reopen(@, f.i, TRUE, TRUE)]

IsOpen(f) == f.fs.file[f.i].fd # 0

\* file_close: the drive of the entry's name stays.
FileClose(fs, name) ==
  LET f == FindFile(fs, name)
      d == f.fs.file[f.i].fd
      c == IF d # 0 THEN HostClose(f.fs, d) ELSE f.fs
  IN  [c EXCEPT !.file[f.i].name.base = Blank, !.file[f.i].fd = 0, !.file[f.i].rw = FALSE]

\* file_read: 1 for a record, 0 at the end of the file, -1 for an error.
FileRead(fs, i, r) ==
  LET a == Bump(Reopen(fs, i, FALSE, FALSE), i)
      d == a.file[i].fd
      n == IF d = 0 THEN -1 ELSE IF r < Len(Data(a, d)) THEN 1 ELSE 0
  IN  [fs |-> a, n |-> n, data |-> IF n = 1 THEN Data(a, d)[r + 1] ELSE 0]

\* file_write
FileWrite(fs, i, r, v) ==
  LET a == Bump(Reopen(fs, i, TRUE, FALSE), i)
      d == a.file[i].fd
  IN  IF d = 0 THEN [fs |-> a, n |-> -1, data |-> v]
      ELSE [fs |-> HostWrite(a, d, r, v), n |-> 1, data |-> v]

\* file_getrecordcount: what fstat leaves is unknown when the file is not open.
Counted(fs, i) == Reopen(fs, i, FALSE, FALSE)
RecordCounts(fs, i, garbage) ==
  LET a == Counted(fs, i) IN
  IF a.file[i].fd = 0 THEN garbage ELSE {Len(Data(a, a.file[i].fd))}

\* file_setrecordcount
FileSetRecordCount(fs, i, n, count) ==
  LET a == Counted(fs, i) IN
  IF n = count THEN a
  ELSE LET b == Reopen(a, i, TRUE, FALSE) IN
       IF b.file[i].fd = 0 THEN b ELSE HostTruncate(b, b.file[i].fd, n)

\* file_delete and file_rename: the list of open files is not told.
Matching(fs, drive, pattern) == IF drive = MappedDrive THEN pattern \cap DOMAIN fs.dir ELSE {}
FileDelete(fs, drive, pattern) ==
  Collect([fs EXCEPT !.dir = Restrict(@, DOMAIN @ \ Matching(fs, drive, pattern))])
CanRename(fs, drive, base) == drive = MappedDrive /\ base \in DOMAIN fs.dir
FileRename(fs, base, new) ==
  IF base = new THEN fs
  ELSE Collect([fs EXCEPT !.dir = Restrict(Bind(@, new, @[base]),
                                           (DOMAIN @ \cup {new}) \ {base})])
===============================================================================
