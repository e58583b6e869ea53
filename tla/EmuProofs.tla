------------------------------ MODULE EmuProofs ------------------------------
(***************************************************************************)
(* What is proved of the emulator's files (EmuFiles, EmuBdos): the host,   *)
(* the list of open files, the operators on entries one by one, and then   *)
(* the calls of the program.                                               *)
(***************************************************************************)
EXTENDS EmuBdos, FiniteSetTheorems, TLAPS

(***************************************************************************)
(* Induction over the natural numbers.                                     *)
(***************************************************************************)
Less == {ss \in Nat \X Nat : ss[1] < ss[2]}

\* The natural numbers have no infinite way down.
LEMMA LessWF == IsWellFoundedOn(Less, Nat)
<1>1. Less = OpToRel(<, Nat)
  BY Zenon DEF Less, OpToRel
<1>2. QED
  BY <1>1, NatLessThanWellFounded, Zenon

\* So every nonempty set of them has a least element.
LEMMA NatMin ==
  ASSUME NEW T \in SUBSET Nat, T # {}
  PROVE \E m \in T : \A k \in T : m <= k
<1>1. \A k \in T : k \in Nat
  OBVIOUS
<1>2. T \subseteq Nat
  OBVIOUS
<1>3. PICK m \in T : \A k \in T : ~ (<<k, m>> \in Less)
  BY <1>2, LessWF, WFMin, Zenon
<1>4. \A k \in T : ~ (k < m)
  BY <1>1, <1>3 DEF Less
<1>5. QED
  BY <1>1, <1>4

\* A set that holds 0 and each number up to n behind one of its own holds them all.
LEMMA UpTo ==
  ASSUME NEW n \in Nat, NEW G, 0 \in G, \A k \in 1..n : k - 1 \in G => k \in G
  PROVE  0..n \subseteq G
<1> DEFINE T == {k \in 0..n : k \notin G}
<1>1. CASE T = {}
  BY <1>1
<1>2. CASE T # {}
  <2>1. T \in SUBSET Nat
    OBVIOUS
  <2>2. PICK m \in T : \A k \in T : m <= k
    BY <1>2, <2>1, NatMin
  <2>3. m \in 1..n /\ m - 1 \in 0..n /\ m - 1 \notin T
    BY <2>2
  <2> QED
    BY <2>2, <2>3
<1> QED
  BY <1>1, <1>2

-----------------------------------------------------------------------------
(* The host *)

\* The lowest number that is not in use, and how large it may be.
LEMMA LowestIs ==
  ASSUME NEW U, IsFiniteSet(U)
  PROVE  /\ Lowest(U) \in Nat \ {0} /\ Lowest(U) \notin U
         /\ Lowest(U) <= Cardinality(U) + 1
<1> PICK c : c = Cardinality(U)
  OBVIOUS
<1>1. c \in Nat
  BY FS_CardinalityType
<1> DEFINE free == {k \in 1..c + 1 : k \notin U}
<1>2. free # {}
  <2>1. ASSUME free = {} PROVE FALSE
    <3>1. 1..c + 1 \in SUBSET U
      BY <2>1
    <3>2. Cardinality(1..c + 1) <= c
      BY <3>1, FS_Subset
    <3>3. Cardinality(1..c + 1) = c + 1
      <4>1. Cardinality(1..c + 1) = IF 1 > c + 1 THEN 0 ELSE c + 1 - 1 + 1
        BY <1>1, FS_Interval
      <4> QED
        BY <1>1, <4>1
    <3> QED
      BY <1>1, <3>2, <3>3
  <2> QED
    BY <2>1
<1>3. free \in SUBSET Nat
  BY <1>1
<1>4. PICK k \in free : \A j \in free : k <= j
  BY <1>2, <1>3, NatMin
<1>5. k \in 1..Cardinality(U) + 1 /\ k \notin U /\ 1..k - 1 \subseteq U
  <2>1. ASSUME NEW j \in 1..k - 1, j \notin U PROVE FALSE
    <3>1. j \in 1..c + 1 /\ j < k
      BY <1>1, <1>4, <2>1
    <3> QED
      BY <1>4, <2>1, <3>1
  <2> QED
    BY <1>4, <2>1
<1>6. Lowest(U) \in 1..Cardinality(U) + 1 /\ Lowest(U) \notin U
  BY <1>5, Zenon DEF Lowest
<1> QED
  BY <1>1, <1>6

\* A store has a directory, inodes, descriptors and the list.
Inode      == [data : Seq(Nat), ro : BOOLEAN]
Descriptor == [ino : Nat \ {0}, rw : BOOLEAN]
Entry == [prev : Slot \cup {0}, next : Slot \cup {0}, name : CpmName, fd : Nat, rw : BOOLEAN]
Dirs == UNION {[D -> Nat \ {0}] : D \in SUBSET Base}
Inos == UNION {[D -> Inode] : D \in SUBSET (Nat \ {0})}
Fds  == UNION {[D -> Descriptor] : D \in SUBSET (Nat \ {0})}
Lists == [Slot -> Entry]
Store == [dir : Dirs, ino : Inos, fds : Fds, file : Lists, first : Slot]

\* A directory maps names to inodes.
LEMMA DirsAre ==
  ASSUME NEW d
  PROVE  d \in Dirs <=> DOMAIN d \subseteq Base /\ d \in [DOMAIN d -> Nat \ {0}]
<1>1. ASSUME d \in Dirs PROVE DOMAIN d \subseteq Base /\ d \in [DOMAIN d -> Nat \ {0}]
  <2>1. PICK D \in SUBSET Base : d \in [D -> Nat \ {0}]
    BY <1>1, Zenon DEF Dirs
  <2> QED
    BY <2>1
<1>2. ASSUME DOMAIN d \subseteq Base, d \in [DOMAIN d -> Nat \ {0}] PROVE d \in Dirs
  BY <1>2, Zenon DEF Dirs
<1> QED
  BY <1>1, <1>2

\* Inodes are numbered from 1.
LEMMA InosAre ==
  ASSUME NEW d
  PROVE  d \in Inos <=> DOMAIN d \subseteq Nat \ {0} /\ d \in [DOMAIN d -> Inode]
<1>1. ASSUME d \in Inos PROVE DOMAIN d \subseteq Nat \ {0} /\ d \in [DOMAIN d -> Inode]
  <2>1. PICK D \in SUBSET (Nat \ {0}) : d \in [D -> Inode]
    BY <1>1, Zenon DEF Inos
  <2> QED
    BY <2>1
<1>2. ASSUME DOMAIN d \subseteq Nat \ {0}, d \in [DOMAIN d -> Inode] PROVE d \in Inos
  BY <1>2, Zenon DEF Inos
<1> QED
  BY <1>1, <1>2

\* And so are descriptors.
LEMMA FdsAre ==
  ASSUME NEW d
  PROVE  d \in Fds <=> DOMAIN d \subseteq Nat \ {0} /\ d \in [DOMAIN d -> Descriptor]
<1>1. ASSUME d \in Fds PROVE DOMAIN d \subseteq Nat \ {0} /\ d \in [DOMAIN d -> Descriptor]
  <2>1. PICK D \in SUBSET (Nat \ {0}) : d \in [D -> Descriptor]
    BY <1>1, Zenon DEF Fds
  <2> QED
    BY <2>1
<1>2. ASSUME DOMAIN d \subseteq Nat \ {0}, d \in [DOMAIN d -> Descriptor] PROVE d \in Fds
  BY <1>2, Zenon DEF Fds
<1> QED
  BY <1>1, <1>2

\* The fields of a store, and of one in which some are exchanged.
LEMMA StoreFields ==
  ASSUME NEW s \in Store
  PROVE  s.dir \in Dirs /\ s.ino \in Inos /\ s.fds \in Fds /\ s.file \in Lists /\ s.first \in Slot
BY DEF Store

\* Other inodes in a store.
LEMMA PutIno ==
  ASSUME NEW s \in Store, NEW x \in Inos,
         NEW t, t = [s EXCEPT !.ino = x]
  PROVE  t \in Store /\ t.dir = s.dir /\ t.ino = x /\ t.fds = s.fds /\ t.file = s.file /\ t.first = s.first
BY DEF Store

\* Other descriptors in a store.
LEMMA PutFds ==
  ASSUME NEW s \in Store, NEW x \in Fds,
         NEW t, t = [s EXCEPT !.fds = x]
  PROVE  t \in Store /\ t.dir = s.dir /\ t.ino = s.ino /\ t.fds = x /\ t.file = s.file /\ t.first = s.first
BY DEF Store

\* What the host holds: every name and every descriptor has its inode, and no two
\* names have one.
Housed(s) ==
  /\ s \in Store /\ IsFiniteSet(DOMAIN s.ino) /\ IsFiniteSet(DOMAIN s.fds)
  /\ \A b \in DOMAIN s.dir : s.dir[b] \in DOMAIN s.ino
  /\ \A d \in DOMAIN s.fds : s.fds[d].ino \in DOMAIN s.ino
  /\ \A b, c \in DOMAIN s.dir : s.dir[b] = s.dir[c] => b = c

\* The directory is the same, and so is what its files hold.
SameHost(s, t) ==
  /\ t.dir = s.dir
  /\ \A j \in DOMAIN t.ino : j \in DOMAIN s.ino /\ t.ino[j] = s.ino[j]

SameList(s, t) == t.file = s.file /\ t.first = s.first

\* Part of a function.
LEMMA RestrictIs ==
  ASSUME NEW f, NEW S
  PROVE  DOMAIN Restrict(f, S) = S /\ \A x \in S : Restrict(f, S)[x] = f[x]
BY DEF Restrict

\* A function with one more place.
LEMMA BindIn ==
  ASSUME NEW V, NEW f, NEW k, NEW v \in V, f \in [DOMAIN f -> V]
  PROVE  Bind(f, k, v) \in [DOMAIN f \cup {k} -> V]
BY DEF Bind

\* Inodes that nobody refers to go, and nothing else changes.
LEMMA CollectIs ==
  ASSUME NEW s \in Store, NEW t, t = Collect(s), IsFiniteSet(DOMAIN s.ino), IsFiniteSet(DOMAIN s.fds),
         \A b \in DOMAIN s.dir : s.dir[b] \in DOMAIN s.ino,
         \A d \in DOMAIN s.fds : s.fds[d].ino \in DOMAIN s.ino,
         \A b, c \in DOMAIN s.dir : s.dir[b] = s.dir[c] => b = c
  PROVE  /\ Housed(t) /\ SameHost(s, t) /\ SameList(s, t) /\ t.fds = s.fds
<1> PICK r : r = Referred(s)
  OBVIOUS
<1>1. /\ \A b \in DOMAIN s.dir : s.dir[b] \in r
      /\ \A d \in DOMAIN s.fds : s.fds[d].ino \in r
      /\ \A x \in r : x \in DOMAIN s.ino
  BY DEF Referred
<1> PICK x : x = Restrict(s.ino, r)
  OBVIOUS
<1>2. DOMAIN x = r /\ \A j \in r : x[j] = s.ino[j]
  BY RestrictIs
<1>3. DOMAIN s.ino \subseteq Nat \ {0} /\ s.ino \in [DOMAIN s.ino -> Inode]
  BY StoreFields, InosAre
<1>4. x \in Inos
  <2>1. x = [j \in r |-> s.ino[j]]
    BY DEF Restrict
  <2>2. x \in [r -> Inode] /\ r \subseteq Nat \ {0}
    BY <1>1, <1>3, <2>1
  <2> QED
    BY <1>2, <2>2, InosAre
<1>5. t = [s EXCEPT !.ino = x]
  BY DEF Collect
<1>6. t \in Store /\ t.dir = s.dir /\ t.ino = x /\ t.fds = s.fds /\ t.file = s.file /\ t.first = s.first
  BY <1>4, <1>5, PutIno
<1>7. IsFiniteSet(DOMAIN t.ino)
  <2>1. r \in SUBSET DOMAIN s.ino
    BY <1>1
  <2> QED
    BY <1>2, <1>6, <2>1, FS_Subset
<1>8. Housed(t)
  BY <1>1, <1>2, <1>6, <1>7 DEF Housed
<1>9. SameHost(s, t)
  BY <1>1, <1>2, <1>6 DEF SameHost
<1> QED
  BY <1>6, <1>8, <1>9 DEF SameList

\* A descriptor is closed.
LEMMA HostCloseIs ==
  ASSUME NEW s, Housed(s), NEW d, NEW t, t = HostClose(s, d)
  PROVE  /\ Housed(t) /\ SameHost(s, t) /\ SameList(s, t)
         /\ DOMAIN t.fds = DOMAIN s.fds \ {d}
         /\ \A e \in DOMAIN t.fds : t.fds[e] = s.fds[e]
<1> PICK x : x = Restrict(s.fds, DOMAIN s.fds \ {d})
  OBVIOUS
<1>1. DOMAIN x = DOMAIN s.fds \ {d} /\ \A e \in DOMAIN s.fds \ {d} : x[e] = s.fds[e]
  BY RestrictIs
<1>2. s \in Store /\ DOMAIN s.fds \subseteq Nat \ {0} /\ s.fds \in [DOMAIN s.fds -> Descriptor]
  BY StoreFields, FdsAre DEF Housed
<1>3. x \in Fds
  <2>1. x = [e \in DOMAIN s.fds \ {d} |-> s.fds[e]]
    BY DEF Restrict
  <2>2. x \in [DOMAIN s.fds \ {d} -> Descriptor]
    BY <1>2, <2>1
  <2>3. x \in [DOMAIN x -> Descriptor] /\ DOMAIN x \subseteq Nat \ {0}
    BY <1>1, <1>2, <2>2
  <2> QED
    BY <2>3, FdsAre
<1> PICK u : u = [s EXCEPT !.fds = x]
  OBVIOUS
<1>4. u \in Store /\ u.dir = s.dir /\ u.ino = s.ino /\ u.fds = x /\ u.file = s.file /\ u.first = s.first
  BY <1>2, <1>3, PutFds
<1>5. IsFiniteSet(DOMAIN u.fds)
  <2>1. DOMAIN u.fds \in SUBSET DOMAIN s.fds
    BY <1>1, <1>4
  <2> QED
    BY <2>1, FS_Subset DEF Housed
<1>6. t = Collect(u)
  BY DEF HostClose
<1>7. Housed(t) /\ SameHost(u, t) /\ SameList(u, t) /\ t.fds = u.fds
  <2>1. /\ IsFiniteSet(DOMAIN u.ino)
        /\ \A b \in DOMAIN u.dir : u.dir[b] \in DOMAIN u.ino
        /\ \A e \in DOMAIN u.fds : u.fds[e].ino \in DOMAIN u.ino
        /\ \A b, c \in DOMAIN u.dir : u.dir[b] = u.dir[c] => b = c
    BY ONLY Housed(s), <1>1, <1>4 DEF Housed
  <2> QED
    BY <1>4, <1>5, <1>6, <2>1, CollectIs
<1>8. SameHost(s, t) /\ SameList(s, t)
  BY <1>4, <1>7 DEF SameHost, SameList
<1> QED
  BY <1>1, <1>4, <1>7, <1>8

\* What creating a file leaves: the names there were, and one that is new.
Grows(s, t, base) ==
  /\ \A j \in DOMAIN s.ino : j \in DOMAIN t.ino /\ t.ino[j] = s.ino[j]
  /\ \A b \in DOMAIN s.dir : b \in DOMAIN t.dir /\ t.dir[b] = s.dir[b]
  /\ \A b \in DOMAIN t.dir : b \in DOMAIN s.dir \/ (b = base /\ t.dir[b] \notin DOMAIN s.ino)

\* Descriptor d is opened on a name.
Opens(s, t, base, rw, d) ==
  /\ d = Lowest(DOMAIN s.fds) /\ d \in Nat \ {0} /\ d \notin DOMAIN s.fds
  /\ DOMAIN t.fds = DOMAIN s.fds \cup {d}
  /\ \A e \in DOMAIN s.fds : t.fds[e] = s.fds[e]
  /\ base \in DOMAIN t.dir /\ t.fds[d].ino = t.dir[base] /\ t.fds[d].rw = rw

\* A descriptor is added.
LEMMA AddFd ==
  ASSUME NEW s, Housed(s), NEW i \in Nat \ {0}, NEW rw \in BOOLEAN, NEW d, d = Lowest(DOMAIN s.fds),
         NEW x, x = Bind(s.fds, d, [ino |-> i, rw |-> rw])
  PROVE  /\ d \in Nat \ {0} /\ d \notin DOMAIN s.fds
         /\ x \in Fds /\ DOMAIN x = DOMAIN s.fds \cup {d} /\ IsFiniteSet(DOMAIN x)
         /\ \A e \in DOMAIN s.fds : x[e] = s.fds[e]
         /\ x[d].ino = i /\ x[d].rw = rw
<1>1. d \in Nat \ {0} /\ d \notin DOMAIN s.fds
  BY LowestIs DEF Housed
<1> PICK v : v = [ino |-> i, rw |-> rw]
  OBVIOUS
<1>2. v \in Descriptor /\ v.ino = i /\ v.rw = rw
  BY DEF Descriptor
<1> PICK f : f = s.fds
  OBVIOUS
<1>3. x = Bind(f, d, v)
  OBVIOUS
<1>4. /\ DOMAIN x = DOMAIN f \cup {d} /\ x[d] = v
      /\ \A e \in DOMAIN f : e # d => x[e] = f[e]
  BY ONLY <1>3 DEF Bind
<1>5. DOMAIN f \subseteq Nat \ {0} /\ f \in [DOMAIN f -> Descriptor]
  BY StoreFields, FdsAre DEF Housed
<1>6. x \in [DOMAIN f \cup {d} -> Descriptor]
  BY ONLY <1>2, <1>3, <1>5, BindIn, Zenon
<1>7. x \in [DOMAIN x -> Descriptor] /\ DOMAIN x \subseteq Nat \ {0}
  BY <1>1, <1>4, <1>5, <1>6
<1>8. x \in Fds
  BY <1>7, FdsAre
<1>9. IsFiniteSet(DOMAIN x)
  <2> PICK D : D = DOMAIN f
    OBVIOUS
  <2>1. IsFiniteSet(D)
    BY DEF Housed
  <2>2. IsFiniteSet(D \cup {d})
    BY <2>1, FS_AddElement
  <2> QED
    BY <1>4, <2>2
<1> QED
  BY <1>1, <1>2, <1>4, <1>8, <1>9

\* A file that is there is opened.
LEMMA HostOpens ==
  ASSUME NEW s, Housed(s), NEW base \in DOMAIN s.dir, NEW rw \in BOOLEAN,
         NEW d, d = Lowest(DOMAIN s.fds),
         NEW t, t = [s EXCEPT !.fds = Bind(s.fds, d, [ino |-> s.dir[base], rw |-> rw])]
  PROVE  /\ Housed(t) /\ SameList(s, t) /\ t.dir = s.dir /\ t.ino = s.ino
         /\ Grows(s, t, base) /\ Opens(s, t, base, rw, d)
<1> PICK i : i = s.dir[base]
  OBVIOUS
<1>1. s \in Store /\ i \in Nat \ {0} /\ i \in DOMAIN s.ino
  BY StoreFields, DirsAre DEF Housed
<1> PICK x : x = Bind(s.fds, d, [ino |-> i, rw |-> rw])
  OBVIOUS
<1>2. /\ d \in Nat \ {0} /\ d \notin DOMAIN s.fds
      /\ x \in Fds /\ DOMAIN x = DOMAIN s.fds \cup {d} /\ IsFiniteSet(DOMAIN x)
      /\ \A e \in DOMAIN s.fds : x[e] = s.fds[e]
      /\ x[d].ino = i /\ x[d].rw = rw
  BY <1>1, AddFd
<1>3. t = [s EXCEPT !.fds = x]
  OBVIOUS
<1>4. t \in Store /\ t.dir = s.dir /\ t.ino = s.ino /\ t.fds = x /\ t.file = s.file /\ t.first = s.first
  BY <1>1, <1>2, <1>3, PutFds
<1>5. Housed(t)
  <2>1. \A e \in DOMAIN t.fds : t.fds[e].ino \in DOMAIN t.ino
    BY <1>1, <1>2, <1>4 DEF Housed
  <2> QED
    BY <1>2, <1>4, <2>1 DEF Housed
<1> QED
  BY <1>2, <1>4, <1>5 DEF SameList, Grows, Opens

\* A file that is not there is made.
LEMMA HostMakes ==
  ASSUME NEW s, Housed(s), NEW base \in Base, base \notin DOMAIN s.dir, NEW rw \in BOOLEAN,
         NEW d, d = Lowest(DOMAIN s.fds), NEW i, i = Lowest(DOMAIN s.ino),
         NEW t, t = [s EXCEPT !.dir = Bind(s.dir, base, i),
                              !.ino = Bind(s.ino, i, [data |-> <<>>, ro |-> FALSE]),
                              !.fds = Bind(s.fds, d, [ino |-> i, rw |-> rw])]
  PROVE  Housed(t) /\ SameList(s, t) /\ Grows(s, t, base) /\ Opens(s, t, base, rw, d)
<1>1. s \in Store /\ i \in Nat \ {0} /\ i \notin DOMAIN s.ino
  BY LowestIs DEF Housed
<1> PICK x : x = Bind(s.fds, d, [ino |-> i, rw |-> rw])
  OBVIOUS
<1>2. /\ d \in Nat \ {0} /\ d \notin DOMAIN s.fds
      /\ x \in Fds /\ DOMAIN x = DOMAIN s.fds \cup {d} /\ IsFiniteSet(DOMAIN x)
      /\ \A e \in DOMAIN s.fds : x[e] = s.fds[e]
      /\ x[d].ino = i /\ x[d].rw = rw
  BY <1>1, AddFd
<1> PICK f : f = s.dir
  OBVIOUS
<1> PICK y : y = Bind(f, base, i)
  OBVIOUS
<1>a. /\ DOMAIN y = DOMAIN f \cup {base} /\ y[base] = i
      /\ \A b \in DOMAIN f : b # base => y[b] = f[b]
  BY ONLY y = Bind(f, base, i) DEF Bind
<1>3. /\ DOMAIN y = DOMAIN s.dir \cup {base} /\ y[base] = i
      /\ \A b \in DOMAIN s.dir : y[b] = s.dir[b]
  BY <1>a
<1>4. y \in Dirs
  <2>1. DOMAIN s.dir \subseteq Base /\ s.dir \in [DOMAIN s.dir -> Nat \ {0}]
    BY <1>1, StoreFields, DirsAre
  <2>2. y \in [DOMAIN f \cup {base} -> Nat \ {0}]
    <3>1. f \in [DOMAIN f -> Nat \ {0}] /\ i \in Nat \ {0}
      BY <1>1, <2>1
    <3> QED
      BY ONLY <3>1, y = Bind(f, base, i), BindIn, Zenon
  <2>3. y \in [DOMAIN y -> Nat \ {0}] /\ DOMAIN y \subseteq Base
    BY <1>3, <2>1, <2>2
  <2> QED
    BY <2>3, DirsAre
<1> PICK v : v = [data |-> <<>>, ro |-> FALSE]
  OBVIOUS
<1>5. v \in Inode
  BY DEF Inode
<1> PICK h : h = s.ino
  OBVIOUS
<1> PICK z : z = Bind(h, i, v)
  OBVIOUS
<1>b. /\ DOMAIN z = DOMAIN h \cup {i} /\ z[i] = v
      /\ \A j \in DOMAIN h : j # i => z[j] = h[j]
  BY ONLY z = Bind(h, i, v) DEF Bind
<1>6. /\ DOMAIN z = DOMAIN s.ino \cup {i} /\ z[i] = v
      /\ \A j \in DOMAIN s.ino : z[j] = s.ino[j]
  BY <1>1, <1>b
<1>7. z \in Inos
  <2>1. DOMAIN s.ino \subseteq Nat \ {0} /\ s.ino \in [DOMAIN s.ino -> Inode]
    BY <1>1, StoreFields, InosAre
  <2>2. z \in [DOMAIN h \cup {i} -> Inode]
    <3>1. h \in [DOMAIN h -> Inode]
      BY <2>1
    <3> QED
      BY ONLY <1>5, <3>1, z = Bind(h, i, v), BindIn, Zenon
  <2>3. z \in [DOMAIN z -> Inode] /\ DOMAIN z \subseteq Nat \ {0}
    BY <1>1, <1>6, <2>1, <2>2
  <2> QED
    BY <2>3, InosAre
<1>8. t = [s EXCEPT !.dir = y, !.ino = z, !.fds = x]
  OBVIOUS
<1>9. t \in Store /\ t.dir = y /\ t.ino = z /\ t.fds = x /\ t.file = s.file /\ t.first = s.first
  <2>1. x \in Fds
    BY <1>2
  <2> QED
    BY ONLY <1>1, <1>4, <1>7, <1>8, <2>1 DEF Store
<1>10. IsFiniteSet(DOMAIN z)
  BY <1>6, FS_AddElement DEF Housed
<1>11. Housed(t)
  <2>1. \A e \in DOMAIN t.fds : t.fds[e].ino \in DOMAIN t.ino
    BY <1>2, <1>6, <1>9 DEF Housed
  <2>2. \A b \in DOMAIN t.dir : t.dir[b] \in DOMAIN t.ino
    BY <1>3, <1>6, <1>9 DEF Housed
  <2>3. \A b \in DOMAIN s.dir : t.dir[b] # i
    BY <1>1, <1>3, <1>9 DEF Housed
  <2>4. \A b, c \in DOMAIN t.dir : t.dir[b] = t.dir[c] => b = c
    BY <1>3, <1>9, <2>3 DEF Housed
  <2> QED
    BY <1>2, <1>9, <1>10, <2>1, <2>2, <2>4 DEF Housed
<1>12. Grows(s, t, base)
  BY <1>1, <1>3, <1>6, <1>9 DEF Grows
<1>13. Opens(s, t, base, rw, d)
  BY <1>2, <1>3, <1>9 DEF Opens
<1> QED
  BY <1>9, <1>11, <1>12, <1>13 DEF SameList

\* openat: nothing, or a descriptor on the file that the directory then has.
LEMMA HostOpenIs ==
  ASSUME NEW s, Housed(s), NEW base \in Base, NEW rw \in BOOLEAN, NEW creat \in BOOLEAN,
         NEW o, o = HostOpen(s, base, rw, creat), NEW t, t = o.fs, NEW d, d = o.fd
  PROVE  \/ d = 0 /\ t = s /\ (base \notin DOMAIN s.dir \/ rw)
         \/ /\ Housed(t) /\ SameList(s, t) /\ Opens(s, t, base, rw, d) /\ Grows(s, t, base)
            /\ ~creat => t.dir = s.dir /\ t.ino = s.ino
<1> PICK e : e = Lowest(DOMAIN s.fds)
  OBVIOUS
<1> PICK i : i = Lowest(DOMAIN s.ino)
  OBVIOUS
<1>1. CASE base \in DOMAIN s.dir /\ rw /\ s.ino[s.dir[base]].ro
  <2>1. o = [fs |-> s, fd |-> 0]
    BY <1>1 DEF HostOpen
  <2>2. d = 0 /\ t = s
    BY <2>1
  <2>3. rw
    BY <1>1
  <2> QED
    BY <2>2, <2>3, Zenon
<1>2. CASE base \in DOMAIN s.dir /\ ~(rw /\ s.ino[s.dir[base]].ro)
  <2> PICK u : u = [s EXCEPT !.fds = Bind(s.fds, e, [ino |-> s.dir[base], rw |-> rw])]
    OBVIOUS
  <2>1. o = [fd |-> e, fs |-> u]
    BY <1>2, Zenon DEF HostOpen
  <2>2. d = e /\ t = u
    BY <2>1
  <2>3. base \in DOMAIN s.dir
    BY <1>2
  <2>4. Housed(u) /\ SameList(s, u) /\ u.dir = s.dir /\ u.ino = s.ino /\ Grows(s, u, base) /\ Opens(s, u, base, rw, e)
    BY <2>3, HostOpens
  <2> QED
    BY <2>2, <2>4
<1>3. CASE base \notin DOMAIN s.dir /\ ~creat
  <2>1. o = [fs |-> s, fd |-> 0]
    BY <1>3 DEF HostOpen
  <2>2. d = 0 /\ t = s
    BY <2>1
  <2>3. base \notin DOMAIN s.dir
    BY <1>3
  <2> QED
    BY <2>2, <2>3
<1>4. CASE base \notin DOMAIN s.dir /\ creat
  <2> PICK u : u = [s EXCEPT !.dir = Bind(s.dir, base, i),
                              !.ino = Bind(s.ino, i, [data |-> <<>>, ro |-> FALSE]),
                              !.fds = Bind(s.fds, e, [ino |-> i, rw |-> rw])]
    OBVIOUS
  <2>1. o = [fd |-> e, fs |-> u]
    BY <1>4, Zenon DEF HostOpen
  <2>2. d = e /\ t = u
    BY <2>1
  <2>3. base \notin DOMAIN s.dir
    BY <1>4
  <2>4. Housed(u) /\ SameList(s, u) /\ Grows(s, u, base) /\ Opens(s, u, base, rw, e)
    BY <2>3, HostMakes
  <2> QED
    BY <1>4, <2>2, <2>4
<1> QED
  BY <1>1, <1>2, <1>3, <1>4

-----------------------------------------------------------------------------
(* The list of open files *)

\* p is the order of the list.
Chain(s, p) ==
  /\ p \in [Slot -> Slot]
  /\ \A k, l \in Slot : p[k] = p[l] => k = l
  /\ \A i \in Slot : \E k \in Slot : p[k] = i
  /\ s.first = p[1]
  /\ \A k \in Slot : k > 1 => s.file[p[k]].prev = p[k - 1]
  /\ s.file[p[1]].prev = 0
  /\ \A k \in Slot : k < NumFiles => s.file[p[k]].next = p[k + 1]
  /\ s.file[p[NumFiles]].next = 0

Listed(s) == \E p : Chain(s, p)

\* Two entries have the same name only when neither has one.
Named(s) ==
  \A i, j \in Slot : s.file[i].name = s.file[j].name => i = j \/ s.file[i].name.base = Blank

\* Every descriptor has its one entry, and no number is larger than there are entries.
Owned(s) ==
  /\ \A i \in Slot : s.file[i].fd # 0 =>
       /\ s.file[i].fd \in DOMAIN s.fds /\ s.file[i].fd <= NumFiles
       /\ s.fds[s.file[i].fd].rw = s.file[i].rw
  /\ \A d \in DOMAIN s.fds : \E i \in Slot : s.file[i].fd = d
  /\ \A i, j \in Slot : s.file[i].fd = s.file[j].fd => i = j \/ s.file[i].fd = 0

\* Only files of the mapped drive are opened.
Mapped(s) ==
  \A i \in Slot : s.file[i].fd # 0 => s.file[i].name.drive = MappedDrive /\ s.file[i].name.base # Blank

Sound(s) == Housed(s) /\ Listed(s) /\ Named(s) /\ Owned(s) /\ Mapped(s)

\* What is left of s in t: the links, and all of the entries but i.
Alters(s, t, i, name, d, rw) ==
  /\ t \in Store /\ t.dir = s.dir /\ t.ino = s.ino /\ t.fds = s.fds /\ t.first = s.first
  /\ \A j \in Slot : t.file[j].prev = s.file[j].prev /\ t.file[j].next = s.file[j].next
  /\ \A j \in Slot : j # i => t.file[j].name = s.file[j].name /\ t.file[j].fd = s.file[j].fd
                              /\ t.file[j].rw = s.file[j].rw
  /\ t.file[i].name = name /\ t.file[i].fd = d /\ t.file[i].rw = rw

\* Giving entry i a descriptor (reopen) alters nothing else.
LEMMA AlterOpened ==
  ASSUME NEW s \in Store, NEW i \in Slot, NEW d \in Nat, NEW rw \in BOOLEAN,
         NEW t, t = [s EXCEPT !.file[i].rw = rw, !.file[i].fd = d]
  PROVE  Alters(s, t, i, s.file[i].name, d, rw)
<1> PICK a : a = [s.file EXCEPT ![i].rw = rw]
  OBVIOUS
<1>1. a \in Lists /\ a[i].prev = s.file[i].prev /\ a[i].next = s.file[i].next /\ a[i].name = s.file[i].name
      /\ a[i].rw = rw /\ \A j \in Slot : j # i => a[j] = s.file[j]
  BY DEF Store, Lists, Entry
<1> PICK b : b = [a EXCEPT ![i].fd = d]
  OBVIOUS
<1>2. b \in Lists /\ b[i].prev = a[i].prev /\ b[i].next = a[i].next /\ b[i].name = a[i].name
      /\ b[i].rw = a[i].rw /\ b[i].fd = d /\ \A j \in Slot : j # i => b[j] = a[j]
  BY ONLY <1>1, d \in Nat, b = [a EXCEPT ![i].fd = d] DEF Lists, Entry
<1>3. t.file = b
  BY DEF Store
<1>4. t \in Store /\ t.dir = s.dir /\ t.ino = s.ino /\ t.fds = s.fds /\ t.first = s.first
  <2>1. t.dir = s.dir /\ t.ino = s.ino /\ t.fds = s.fds /\ t.first = s.first
    BY DEF Store
  <2> QED
    BY <1>2, <1>3, <2>1 DEF Store
<1>5. /\ \A j \in Slot : t.file[j].prev = s.file[j].prev /\ t.file[j].next = s.file[j].next
      /\ \A j \in Slot : j # i => t.file[j] = s.file[j]
      /\ t.file[i].name = s.file[i].name /\ t.file[i].fd = d
  BY ONLY <1>1, <1>2, <1>3
<1>6. t.file[i].rw = rw
  BY ONLY <1>1, <1>2, <1>3
<1> QED
  BY <1>4, <1>5, <1>6, Zenon DEF Alters

\* Nor does giving it a name (find_file).
LEMMA AlterNamed ==
  ASSUME NEW s \in Store, NEW i \in Slot, NEW name \in CpmName,
         NEW t, t = [s EXCEPT !.file[i].fd = 0, !.file[i].name = name, !.file[i].rw = FALSE]
  PROVE  Alters(s, t, i, name, 0, FALSE)
<1> PICK a : a = [s.file EXCEPT ![i].fd = 0]
  OBVIOUS
<1>1. a \in Lists /\ a[i].prev = s.file[i].prev /\ a[i].next = s.file[i].next /\ a[i].fd = 0
      /\ \A j \in Slot : j # i => a[j] = s.file[j]
  BY DEF Store, Lists, Entry
<1> PICK b : b = [a EXCEPT ![i].name = name]
  OBVIOUS
<1>2. b \in Lists /\ b[i].prev = a[i].prev /\ b[i].next = a[i].next /\ b[i].fd = a[i].fd /\ b[i].name = name
      /\ \A j \in Slot : j # i => b[j] = a[j]
  BY <1>1 DEF Lists, Entry
<1> PICK no \in BOOLEAN : no = FALSE
  OBVIOUS
<1> PICK c : c = [b EXCEPT ![i].rw = no]
  OBVIOUS
<1>3. c \in Lists /\ c[i].prev = b[i].prev /\ c[i].next = b[i].next /\ c[i].fd = b[i].fd /\ c[i].name = b[i].name
      /\ c[i].rw = no /\ \A j \in Slot : j # i => c[j] = b[j]
  BY ONLY no \in BOOLEAN, c = [b EXCEPT ![i].rw = no], <1>2 DEF Lists, Entry
<1>4. t.file = c
  BY DEF Store
<1>5. t \in Store /\ t.dir = s.dir /\ t.ino = s.ino /\ t.fds = s.fds /\ t.first = s.first
  <2>1. t.dir = s.dir /\ t.ino = s.ino /\ t.fds = s.fds /\ t.first = s.first
    BY DEF Store
  <2> QED
    BY <1>3, <1>4, <2>1 DEF Store
<1>6. /\ \A j \in Slot : t.file[j].prev = s.file[j].prev /\ t.file[j].next = s.file[j].next
      /\ \A j \in Slot : j # i => t.file[j] = s.file[j]
      /\ t.file[i].name = name /\ t.file[i].fd = 0
  BY ONLY <1>1, <1>2, <1>3, <1>4
<1>7. t.file[i].rw = FALSE
  BY ONLY <1>3, <1>4, no = FALSE
<1> QED
  BY <1>5, <1>6, <1>7, Zenon DEF Alters

\* Nor does taking its name away (file_close).
LEMMA AlterBlank ==
  ASSUME NEW s \in Store, NEW i \in Slot,
         NEW t, t = [s EXCEPT !.file[i].name.base = Blank, !.file[i].fd = 0, !.file[i].rw = FALSE]
  PROVE  Alters(s, t, i, [drive |-> s.file[i].name.drive, base |-> Blank], 0, FALSE)
<1> PICK n : n = s.file[i].name
  OBVIOUS
<1> PICK m : m = [n EXCEPT !.base = Blank]
  OBVIOUS
<1>0. n \in CpmName /\ m \in CpmName /\ m = [drive |-> n.drive, base |-> Blank]
  BY DEF Store, Lists, Entry, CpmName
<1> PICK a : a = [s.file EXCEPT ![i].name = m]
  OBVIOUS
<1>1. a \in Lists /\ a[i].prev = s.file[i].prev /\ a[i].next = s.file[i].next /\ a[i].name = m
      /\ \A j \in Slot : j # i => a[j] = s.file[j]
  BY <1>0 DEF Store, Lists, Entry
<1> PICK b : b = [a EXCEPT ![i].fd = 0]
  OBVIOUS
<1>2. b \in Lists /\ b[i].prev = a[i].prev /\ b[i].next = a[i].next /\ b[i].fd = 0 /\ b[i].name = m
      /\ \A j \in Slot : j # i => b[j] = a[j]
  BY ONLY <1>1, b = [a EXCEPT ![i].fd = 0] DEF Lists, Entry
<1> PICK no \in BOOLEAN : no = FALSE
  OBVIOUS
<1> PICK c : c = [b EXCEPT ![i].rw = no]
  OBVIOUS
<1>3. c \in Lists /\ c[i].prev = b[i].prev /\ c[i].next = b[i].next /\ c[i].fd = b[i].fd /\ c[i].name = b[i].name
      /\ c[i].rw = no /\ \A j \in Slot : j # i => c[j] = b[j]
  BY ONLY no \in BOOLEAN, c = [b EXCEPT ![i].rw = no], <1>2 DEF Lists, Entry
<1>4. t.file = c
  BY DEF Store, Lists, Entry, CpmName
<1>5. t \in Store /\ t.dir = s.dir /\ t.ino = s.ino /\ t.fds = s.fds /\ t.first = s.first
  <2>1. t.dir = s.dir /\ t.ino = s.ino /\ t.fds = s.fds /\ t.first = s.first
    BY DEF Store
  <2> QED
    BY <1>3, <1>4, <2>1, ZenonT(30) DEF Store
<1>6. /\ \A j \in Slot : t.file[j].prev = s.file[j].prev /\ t.file[j].next = s.file[j].next
      /\ \A j \in Slot : j # i => t.file[j] = s.file[j]
      /\ t.file[i].name = m /\ t.file[i].fd = 0
  BY ONLY <1>1, <1>2, <1>3, <1>4
<1>7. t.file[i].rw = FALSE
  BY ONLY <1>3, <1>4, no = FALSE
<1>8. Alters(s, t, i, m, 0, FALSE)
  BY <1>5, <1>6, <1>7, Zenon DEF Alters
<1> QED
  BY <1>0, <1>8, ZenonT(30)

\* One link of the chain.
LEMMA ChainAt ==
  ASSUME NEW s, NEW p, Chain(s, p), NEW k \in Slot
  PROVE  /\ p[k] \in Slot /\ p[k] # 0
         /\ \A j : j = k + 1 /\ k < NumFiles => s.file[p[k]].next = p[j]
         /\ \A j : j = k - 1 /\ k > 1 => s.file[p[k]].prev = p[j]
         /\ k = NumFiles => s.file[p[k]].next = 0
         /\ k = 1 => s.file[p[k]].prev = 0 /\ p[k] = s.first
<1>1. p \in [Slot -> Slot]
  BY DEF Chain
<1>2. p[k] \in Slot /\ p[k] # 0
  BY <1>1, EmFileAssumption DEF Slot
<1>3. k < NumFiles => s.file[p[k]].next = p[k + 1]
  BY DEF Chain
<1>4. k > 1 => s.file[p[k]].prev = p[k - 1]
  BY DEF Chain
<1>5. s.file[p[NumFiles]].next = 0 /\ s.file[p[1]].prev = 0 /\ s.first = p[1]
  BY DEF Chain
<1> QED
  BY <1>2, <1>3, <1>4, <1>5

\* The list from its head is the chain.
LEMMA OrderIs ==
  ASSUME NEW s \in Store, NEW p, Chain(s, p)
  PROVE  Order(s) = p
<1> DEFINE Body(w) == [k \in Slot |-> IF k = 1 THEN s.first
                                     ELSE IF w[k-1] = 0 THEN 0 ELSE s.file[w[k-1]].next]
           done == CHOOSE w : w = Body(w)
<1>1. Order(s) = done
  BY Zenon DEF Order
<1>2. NumFiles \in Nat \ {0} /\ Slot = 1..NumFiles /\ 0 \notin Slot
  BY EmFileAssumption DEF Slot
<1>3. p = Body(p)
  <2>1. p = [k \in Slot |-> p[k]]
    BY DEF Chain
  <2>2. ASSUME NEW k \in Slot, k # 1 PROVE p[k] = s.file[p[k - 1]].next /\ p[k - 1] # 0
    <3> PICK j : j = k - 1
      OBVIOUS
    <3>1. j \in Slot /\ j < NumFiles /\ k = j + 1
      BY <1>2, <2>2
    <3> QED
      BY <3>1, ChainAt
  <2>3. \A k \in Slot : p[k] = IF k = 1 THEN s.first ELSE IF p[k - 1] = 0 THEN 0 ELSE s.file[p[k - 1]].next
    BY <2>2 DEF Chain
  <2> QED
    BY <2>1, <2>3
<1> HIDE DEF Body
<1>4. done = Body(done)
  BY <1>3, Zenon
<1> HIDE DEF done
<1> USE DEF Body
<1>5. \A k \in Slot : done[k] = IF k = 1 THEN s.first ELSE IF done[k - 1] = 0 THEN 0 ELSE s.file[done[k - 1]].next
  BY <1>4
<1> DEFINE G == {0} \cup {k \in Slot : done[k] = p[k]}
<1>6. ASSUME NEW k \in 1..NumFiles, k - 1 \in G PROVE k \in G
  <2>1. CASE k = 1
    BY <1>2, <1>5, <2>1 DEF Chain
  <2>2. CASE k # 1
    <3> PICK j : j = k - 1
      OBVIOUS
    <3>1. j \in Slot /\ j < NumFiles /\ k = j + 1 /\ k \in Slot /\ done[j] = p[j]
      BY <1>2, <1>6, <2>2
    <3>2. p[k] = s.file[p[j]].next /\ p[j] # 0
      BY <3>1, ChainAt
    <3>3. done[k] = p[k]
      BY <1>5, <2>2, <3>1, <3>2
    <3> QED
      BY <3>1, <3>3
  <2> QED
    BY <2>1, <2>2
<1>7. 0..NumFiles \subseteq G
  BY <1>2, <1>6, UpTo
<1>8. \A k \in Slot : done[k] = p[k]
  BY <1>2, <1>7
<1>9. done = [k \in Slot |-> p[k]]
  <2> DEFINE V(k) == IF k = 1 THEN s.first ELSE IF done[k - 1] = 0 THEN 0 ELSE s.file[done[k - 1]].next
  <2>1. done = [k \in Slot |-> V(k)]
    BY <1>4
  <2>2. \A k \in Slot : V(k) = p[k]
    BY <1>5, <1>8
  <2> HIDE DEF V
  <2> QED
    BY <2>1, <2>2
<1> QED
  BY <1>1, <1>9 DEF Chain

\* What the list of open files promises of itself.
LEMMA ChainWhole ==
  ASSUME NEW s \in Store, NEW p, Chain(s, p)
  PROVE  /\ {p[k] : k \in Slot} = Slot /\ s.file[s.first].prev = 0
         /\ \A i, j \in Slot : s.file[i].next = j <=> s.file[j].prev = i
<1>1. NumFiles \in Nat \ {0} /\ Slot = 1..NumFiles /\ 0 \notin Slot
  BY EmFileAssumption DEF Slot
<1>2. {p[k] : k \in Slot} = Slot /\ s.file[s.first].prev = 0
  BY DEF Chain
<1>3. ASSUME NEW i \in Slot, NEW j \in Slot PROVE s.file[i].next = j <=> s.file[j].prev = i
  <2>1. PICK k \in Slot, l \in Slot : p[k] = i /\ p[l] = j
    BY DEF Chain
  <2>2. ASSUME s.file[i].next = j PROVE s.file[j].prev = i
    <3>1. k # NumFiles
      BY <1>1, <2>1, <2>2, ChainAt
    <3> PICK m : m = k + 1
      OBVIOUS
    <3>2. k < NumFiles /\ m \in Slot /\ k = m - 1 /\ m > 1
      BY <1>1, <3>1
    <3>3. p[m] = j
      BY <2>1, <2>2, <3>2, ChainAt
    <3> QED
      BY <2>1, <3>2, <3>3, ChainAt
  <2>3. ASSUME s.file[j].prev = i PROVE s.file[i].next = j
    <3>1. l # 1
      BY <1>1, <2>1, <2>3, ChainAt
    <3> PICK m : m = l - 1
      OBVIOUS
    <3>2. l > 1 /\ m \in Slot /\ m < NumFiles /\ l = m + 1
      BY <1>1, <3>1
    <3>3. p[m] = i
      BY <2>1, <2>3, <3>2, ChainAt
    <3> QED
      BY <2>1, <3>2, <3>3, ChainAt
  <2> QED
    BY <2>2, <2>3
<1> QED
  BY <1>2, <1>3

\* The rest of the entries is the same.
SameEntries(f, g) ==
  \A j \in Slot : g[j].name = f[j].name /\ g[j].fd = f[j].fd /\ g[j].rw = f[j].rw


\* One link is set.
NextPut(f, g, k, v) ==
  /\ g \in Lists /\ SameEntries(f, g)
  /\ \A j \in Slot : g[j].next = (IF j = k THEN v ELSE f[j].next) /\ g[j].prev = f[j].prev
PrevPut(f, g, k, v) ==
  /\ g \in Lists /\ SameEntries(f, g)
  /\ \A j \in Slot : g[j].prev = (IF j = k THEN v ELSE f[j].prev) /\ g[j].next = f[j].next

\* An EXCEPT on one entry's next.
LEMMA SetNext ==
  ASSUME NEW f \in Lists, NEW k \in Slot, NEW v \in Slot \cup {0}, NEW g, g = [f EXCEPT ![k].next = v]
  PROVE  NextPut(f, g, k, v)
<1>1. g \in Lists
  BY DEF Lists, Entry
<1>2. \A j \in Slot : g[j].next = (IF j = k THEN v ELSE f[j].next) /\ g[j].prev = f[j].prev
  BY DEF Lists, Entry
<1>3. SameEntries(f, g)
  BY DEF Lists, Entry, SameEntries
<1> QED
  BY <1>1, <1>2, <1>3 DEF NextPut

\* An EXCEPT on one entry's prev.
LEMMA SetPrev ==
  ASSUME NEW f \in Lists, NEW k \in Slot, NEW v \in Slot \cup {0}, NEW g, g = [f EXCEPT ![k].prev = v]
  PROVE  PrevPut(f, g, k, v)
<1>1. g \in Lists
  BY DEF Lists, Entry
<1>2. \A j \in Slot : g[j].prev = (IF j = k THEN v ELSE f[j].prev) /\ g[j].next = f[j].next
  BY DEF Lists, Entry
<1>3. SameEntries(f, g)
  BY DEF Lists, Entry, SameEntries
<1> QED
  BY <1>1, <1>2, <1>3 DEF PrevPut

\* Entry i, between a and n, has gone to the head, before h.
BumpsTo(s, t, i, h, a, n) ==
  /\ t \in Store /\ t.dir = s.dir /\ t.ino = s.ino /\ t.fds = s.fds /\ t.first = i
  /\ SameEntries(s.file, t.file)
  /\ \A j \in Slot : t.file[j].next = IF j = i THEN h ELSE IF j = a THEN n ELSE s.file[j].next
  /\ \A j \in Slot : t.file[j].prev = IF j = i THEN 0 ELSE IF j = h THEN i
                                      ELSE IF j = n THEN a ELSE s.file[j].prev

\* An entry that is not the first is unlinked and linked in again at the head.
LEMMA BumpLinks ==
  ASSUME NEW s \in Store, NEW i \in Slot, i # s.first,
         NEW h, h = s.first, NEW a \in Slot, a = s.file[i].prev, a # i,
         NEW n \in Slot \cup {0}, n = s.file[i].next, n # i, n # h, NEW t, t = Bump(s, i)
  PROVE  BumpsTo(s, t, i, h, a, n)
<1> PICK f : f = s.file
  OBVIOUS
<1>0. f \in Lists /\ h \in Slot /\ a # 0 /\ 0 \notin Slot /\ h # i /\ i # a
  BY StoreFields, EmFileAssumption DEF Slot
<1>a. h \in Slot \cup {0} /\ i \in Slot \cup {0} /\ a \in Slot \cup {0} /\ 0 \in Slot \cup {0}
  BY <1>0
<1> PICK f1 : f1 = [f EXCEPT ![a].next = n]
  OBVIOUS
<1>1. NextPut(f, f1, a, n)
  BY <1>0, SetNext, Zenon
<1> PICK f2 : f2 = IF n # 0 THEN [f1 EXCEPT ![n].prev = a] ELSE f1
  BY ONLY Zenon
<1>2. PrevPut(f1, f2, n, a)
  <2>0. f1 \in Lists
    BY ONLY <1>1 DEF NextPut
  <2>1. CASE n # 0
    <3>1. n \in Slot /\ f2 = [f1 EXCEPT ![n].prev = a]
      BY <2>1
    <3> QED
      BY <2>0, <1>a, <3>1, SetPrev, Zenon
  <2>2. CASE n = 0
    BY <1>0, <2>0, <2>2 DEF SameEntries, PrevPut
  <2> QED
    BY ONLY <2>1, <2>2
<1> PICK f3 : f3 = [f2 EXCEPT ![h].prev = i]
  BY ZenonT(30)
<1>3. PrevPut(f2, f3, h, i)
  <2>0. f2 \in Lists
    BY <1>2, ZenonT(30) DEF PrevPut
  <2> QED
    BY ONLY <2>0, <1>0, <1>a, f3 = [f2 EXCEPT ![h].prev = i], SetPrev
<1> PICK f4 : f4 = [f3 EXCEPT ![i].prev = 0]
  BY ZenonT(30)
<1>4. PrevPut(f3, f4, i, 0)
  <2>0. f3 \in Lists
    BY <1>3, ZenonT(30) DEF PrevPut
  <2> QED
    BY ONLY <2>0, i \in Slot, <1>a, f4 = [f3 EXCEPT ![i].prev = 0], SetPrev
<1> PICK f5 : f5 = [f4 EXCEPT ![i].next = h]
  BY ZenonT(30)
<1>5. NextPut(f4, f5, i, h)
  <2>0. f4 \in Lists
    BY <1>4, ZenonT(30) DEF PrevPut
  <2> QED
    BY ONLY <2>0, i \in Slot, <1>a, f5 = [f4 EXCEPT ![i].next = h], SetNext
<1>6. t = [s EXCEPT !.first = i, !.file = f5]
  <2>1. t = [s EXCEPT !.first = i, !.file = [f2 EXCEPT ![h].prev = i, ![i].prev = 0, ![i].next = h]]
    BY <1>0, ZenonT(60) DEF Bump
  <2> QED
    BY <2>1, ZenonT(30)
<1>7. t \in Store /\ t.dir = s.dir /\ t.ino = s.ino /\ t.fds = s.fds /\ t.file = f5 /\ t.first = i
  <2>1. f5 \in Lists
    BY <1>5, ZenonT(30) DEF NextPut
  <2> QED
    BY ONLY s \in Store, i \in Slot, <1>6, <2>1 DEF Store
<1>8. SameEntries(f, f5)
  BY ONLY <1>1, <1>2, <1>3, <1>4, <1>5 DEF NextPut, PrevPut, SameEntries
<1>9. /\ \A j \in Slot : f5[j].next = IF j = i THEN h ELSE IF j = a THEN n ELSE f[j].next
      /\ \A j \in Slot : f5[j].prev = IF j = i THEN 0 ELSE IF j = h THEN i ELSE IF j = n THEN a ELSE f[j].prev
  BY ONLY <1>1, <1>2, <1>3, <1>4, <1>5, <1>0 DEF NextPut, PrevPut
<1> QED
  BY ONLY <1>7, <1>8, <1>9, f = s.file DEF BumpsTo

\* The list that bump leaves is still one list of all entries.
LEMMA BumpIs ==
  ASSUME NEW s \in Store, Listed(s), NEW i \in Slot, NEW t, t = Bump(s, i)
  PROVE  /\ t \in Store /\ t.dir = s.dir /\ t.ino = s.ino /\ t.fds = s.fds
         /\ SameEntries(s.file, t.file) /\ Listed(t)
<1>1. NumFiles \in Nat \ {0} /\ Slot = 1..NumFiles /\ 0 \notin Slot
  BY EmFileAssumption DEF Slot
<1>2. CASE i = s.first
  BY <1>2 DEF Bump, SameEntries
<1>3. CASE i # s.first
  <2> PICK p : Chain(s, p)
    BY DEF Listed
  <2>1. p \in [Slot -> Slot] /\ \A k, l \in Slot : p[k] = p[l] => k = l
    BY DEF Chain
  <2>2. PICK m \in Slot : p[m] = i
    BY DEF Chain
  <2>3. m > 1 /\ 1 \in Slot
    BY <1>1, <1>3, <2>2, ChainAt
  <2> PICK m0 : m0 = m - 1
    OBVIOUS
  <2> PICK m1 : m1 = m + 1
    OBVIOUS
  <2>4. m0 \in Slot /\ m0 # m
    BY <1>1, <2>3
  <2> PICK h : h = s.first
    OBVIOUS
  <2> PICK a : a = s.file[i].prev
    OBVIOUS
  <2> PICK n : n = s.file[i].next
    OBVIOUS
  <2>5. h = p[1] /\ h \in Slot
    BY <2>3, ChainAt
  <2>6. a = p[m0] /\ a \in Slot /\ a # i
    BY <2>1, <2>2, <2>3, <2>4, ChainAt
  <2>7. n \in Slot \cup {0} /\ n # i /\ n # h /\ (m < NumFiles => n = p[m1]) /\ (m = NumFiles => n = 0)
    <3>1. CASE m = NumFiles
      BY <1>1, <2>2, <2>5, <3>1, ChainAt
    <3>2. CASE m # NumFiles
      <4>1. m < NumFiles /\ m1 \in Slot /\ m1 # m /\ m1 # 1
        BY <1>1, <2>3, <3>2
      <4>2. n = p[m1]
        BY <2>2, <4>1, ChainAt
      <4>3. p[m1] # p[m] /\ p[m1] # p[1] /\ p[m1] \in Slot
        BY ONLY <2>1, <2>3, <4>1, m \in Slot
      <4> QED
        BY ONLY <2>2, <2>5, <3>2, <4>1, <4>2, <4>3
    <3> QED
      BY <3>1, <3>2
  <2>8. /\ t \in Store /\ t.dir = s.dir /\ t.ino = s.ino /\ t.fds = s.fds /\ t.first = i
        /\ SameEntries(s.file, t.file)
        /\ \A j \in Slot : t.file[j].next = IF j = i THEN h ELSE IF j = a THEN n ELSE s.file[j].next
        /\ \A j \in Slot : t.file[j].prev = IF j = i THEN 0 ELSE IF j = h THEN i
                                            ELSE IF j = n THEN a ELSE s.file[j].prev
    <3>1. BumpsTo(s, t, i, h, a, n)
      BY ONLY <1>3, <2>6, <2>7, s \in Store, i \in Slot, t = Bump(s, i), h = s.first, a = s.file[i].prev,
              n = s.file[i].next, BumpLinks
    <3> QED
      BY <3>1 DEF BumpsTo
  <2> DEFINE q == [k \in Slot |-> IF k = 1 THEN i ELSE IF k <= m THEN p[k - 1] ELSE p[k]]
  <2>9. q \in [Slot -> Slot]
    <3>1. ASSUME NEW k \in Slot, k # 1 PROVE k - 1 \in Slot
      BY <1>1, <3>1
    <3> QED
      BY <2>1, <3>1
  <2>10. /\ q[1] = i
         /\ \A k \in Slot : k > 1 /\ k <= m => q[k] = p[k - 1]
         /\ \A k \in Slot : k > m => q[k] = p[k]
    BY <1>1, <2>3
  <2> HIDE DEF q
  <2>11. ASSUME NEW k \in Slot, NEW l \in Slot, q[k] = q[l] PROVE k = l
    <3> DEFINE Old(j) == IF j = 1 THEN m ELSE IF j <= m THEN j - 1 ELSE j
    <3>1. ASSUME NEW j \in Slot PROVE Old(j) \in Slot /\ q[j] = p[Old(j)]
      <4>1. CASE j = 1
        BY <2>2, <2>10, <4>1
      <4>2. CASE j > 1 /\ j <= m
        BY <1>1, <2>10, <4>2
      <4>3. CASE j > m
        BY <1>1, <2>3, <2>10, <4>3
      <4> QED
        BY <1>1, <4>1, <4>2, <4>3
    <3>2. Old(k) = Old(l)
      BY <2>1, <2>11, <3>1
    <3> QED
      BY ONLY <1>1, <2>3, <3>2, m \in Slot, k \in Slot, l \in Slot
  <2>12. ASSUME NEW j \in Slot PROVE \E k \in Slot : q[k] = j
    <3>1. PICK k \in Slot : p[k] = j
      BY DEF Chain
    <3>2. CASE k = m
      BY <2>2, <2>3, <2>10, <3>1, <3>2
    <3>3. CASE k < m
      <4> PICK l : l = k + 1
        OBVIOUS
      <4>1. l \in Slot /\ l > 1 /\ l <= m /\ l - 1 = k
        BY <1>1, <3>3
      <4> QED
        BY <2>10, <3>1, <4>1
    <3>4. CASE k > m
      BY <2>10, <3>1, <3>4
    <3> QED
      BY <1>1, <3>2, <3>3, <3>4
  <2>13. t.file[q[1]].prev = 0 /\ t.first = q[1]
    BY <2>8, <2>10
  <2>14. ASSUME NEW k \in Slot, k > 1 PROVE t.file[q[k]].prev = q[k - 1]
    <3> PICK k0 : k0 = k - 1
      OBVIOUS
    <3>0. k0 \in Slot /\ k0 < k
      BY <1>1, <2>14
    <3>1. CASE k = 2
      <4>1. q[k] = h /\ q[k0] = i
        BY <2>3, <2>5, <2>10, <3>1
      <4> QED
        BY <1>3, <2>5, <2>8, <4>1
    <3>2. CASE k > 2 /\ k <= m
      <4>1. q[k] = p[k0] /\ k0 # m /\ k0 > 1 /\ k0 <= m
        BY <1>1, <2>10, <3>0, <3>2
      <4> PICK k1 : k1 = k0 - 1
        OBVIOUS
      <4>2. k1 \in Slot /\ q[k0] = p[k1]
        BY <1>1, <2>10, <3>0, <4>1
      <4>3. s.file[p[k0]].prev = p[k1]
        BY <3>0, <4>1, ChainAt
      <4>4. p[k0] # i /\ p[k0] # h /\ p[k0] # n /\ p[k0] \in Slot
        <5>1. p[k0] # i /\ p[k0] # h /\ p[k0] \in Slot
          BY <2>1, <2>2, <2>3, <2>5, <3>0, <4>1
        <5>2. p[k0] # n
          <6>1. CASE m = NumFiles
            BY <1>1, <2>7, <5>1, <6>1
          <6>2. CASE m # NumFiles
            <7>1. m < NumFiles /\ m1 \in Slot /\ k0 # m1
              BY <1>1, <4>1, <6>2
            <7> QED
              BY <2>1, <2>7, <3>0, <7>1
          <6> QED
            BY <6>1, <6>2
        <5> QED
          BY <5>1, <5>2
      <4>5. t.file[p[k0]].prev = s.file[p[k0]].prev
        BY <2>8, <4>4
      <4> QED
        BY <4>1, <4>2, <4>3, <4>5
    <3>3. CASE k = m1
      <4>1. m < NumFiles /\ q[k] = p[m1] /\ k0 = m /\ q[k0] = p[m0]
        BY <1>1, <2>3, <2>10, <3>0, <3>3
      <4>2. q[k] = n /\ q[k0] = a /\ n \in Slot
        BY <2>1, <2>6, <2>7, <3>3, <4>1
      <4> QED
        BY <2>7, <2>8, <4>2
    <3>4. CASE k > m1
      <4>1. q[k] = p[k] /\ q[k0] = p[k0] /\ k0 > m /\ k # m /\ k # 1
        BY <1>1, <2>3, <2>10, <3>0, <3>4
      <4>2. s.file[p[k]].prev = p[k0]
        BY <2>14, ChainAt
      <4>3. p[k] # i /\ p[k] # h /\ p[k] # n /\ p[k] \in Slot
        <5>1. p[k] # i /\ p[k] # h /\ p[k] \in Slot
          BY <2>1, <2>2, <2>3, <2>5, <4>1
        <5>2. m < NumFiles /\ m1 \in Slot /\ k # m1
          BY <1>1, <3>4
        <5> QED
          BY <2>1, <2>7, <5>1, <5>2
      <4>4. t.file[p[k]].prev = s.file[p[k]].prev
        BY <2>8, <4>3
      <4> QED
        BY <4>1, <4>2, <4>4
    <3> QED
      BY <1>1, <2>14, <3>1, <3>2, <3>3, <3>4
  <2>15. ASSUME NEW k \in Slot, k < NumFiles PROVE t.file[q[k]].next = q[k + 1]
    <3> PICK k1 : k1 = k + 1
      OBVIOUS
    <3>0. k1 \in Slot /\ k1 > k
      BY <1>1, <2>15
    <3>1. CASE k = 1
      <4>1. q[k] = i /\ q[k1] = h
        BY <1>1, <2>3, <2>5, <2>10, <3>0, <3>1
      <4> QED
        BY <2>8, <4>1
    <3>2. CASE k > 1 /\ k < m
      <4> PICK k0 : k0 = k - 1
        OBVIOUS
      <4>1. k0 \in Slot /\ q[k] = p[k0] /\ q[k1] = p[k] /\ k0 # m /\ k0 # m0 /\ k = k0 + 1 /\ k0 < NumFiles
        BY <1>1, <2>10, <3>0, <3>2
      <4>2. p[k0] # i /\ p[k0] # a /\ p[k0] \in Slot
        BY <2>1, <2>2, <2>4, <2>6, <4>1
      <4>3. s.file[p[k0]].next = p[k]
        BY <4>1, ChainAt
      <4>4. t.file[p[k0]].next = s.file[p[k0]].next
        BY <2>8, <4>2
      <4> QED
        BY <4>1, <4>3, <4>4
    <3>3. CASE k = m
      <4>1. q[k] = a /\ q[k1] = n
        BY <1>1, <2>3, <2>6, <2>7, <2>10, <2>15, <3>0, <3>3
      <4> QED
        BY <2>6, <2>8, <4>1
    <3>4. CASE k > m
      <4>1. q[k] = p[k] /\ q[k1] = p[k1] /\ k # m /\ k # m0
        BY <1>1, <2>10, <3>0, <3>4
      <4>2. p[k] # i /\ p[k] # a /\ p[k] \in Slot
        BY <2>1, <2>2, <2>4, <2>6, <4>1
      <4>3. s.file[p[k]].next = p[k1]
        BY <2>15, ChainAt
      <4>4. t.file[p[k]].next = s.file[p[k]].next
        BY <2>8, <4>2
      <4> QED
        BY <4>1, <4>3, <4>4
    <3> QED
      BY <1>1, <3>1, <3>2, <3>3, <3>4
  <2>16. t.file[q[NumFiles]].next = 0
    <3> PICK k : k = NumFiles
      OBVIOUS
    <3>0. k \in Slot
      BY <1>1
    <3>1. CASE k = m
      <4>1. q[k] = a /\ n = 0
        BY <1>1, <2>3, <2>6, <2>7, <2>10, <3>0, <3>1
      <4> QED
        BY <2>6, <2>8, <4>1
    <3>2. CASE k # m
      <4>1. q[k] = p[k] /\ k # m0
        BY <1>1, <2>4, <2>10, <3>0, <3>2
      <4>2. p[k] # i /\ p[k] # a /\ p[k] \in Slot
        BY <2>1, <2>2, <2>4, <2>6, <3>0, <3>2, <4>1
      <4>3. s.file[p[k]].next = 0
        BY <3>0, ChainAt
      <4> QED
        BY <2>8, <4>1, <4>2, <4>3
    <3> QED
      BY <3>1, <3>2
  <2>17. Chain(t, q)
    BY <2>9, <2>11, <2>12, <2>13, <2>14, <2>15, <2>16 DEF Chain
  <2> QED
    BY <2>8, <2>17 DEF Listed
<1> QED
  BY <1>2, <1>3

\* The descriptors that belong to entries other than i leave a number for it.
LEMMA RoomForOne ==
  ASSUME NEW s \in Store, Owned(s), NEW i \in Slot, NEW C, C = DOMAIN s.fds \ {s.file[i].fd}
  PROVE  IsFiniteSet(C) /\ Lowest(C) \in Nat \ {0} /\ Lowest(C) \notin C /\ Lowest(C) <= NumFiles
<1>1. NumFiles \in Nat \ {0} /\ Slot = 1..NumFiles
  BY EmFileAssumption DEF Slot
<1> PICK R : R = Slot \ {i}
  OBVIOUS
<1> PICK N : N = NumFiles
  OBVIOUS
<1>2. IsFiniteSet(R) /\ Cardinality(R) = N - 1
  <2>1. IsFiniteSet(1..N) /\ Cardinality(1..N) = N
    <3>1. IsFiniteSet(1..N) /\ Cardinality(1..N) = IF 1 > N THEN 0 ELSE N - 1 + 1
      BY <1>1, FS_Interval
    <3> QED
      BY <1>1, <3>1
  <2>2. i \in 1..N /\ R = 1..N \ {i}
    BY <1>1
  <2>3. IsFiniteSet(R) /\ Cardinality(R) = IF i \in 1..N THEN Cardinality(1..N) - 1 ELSE Cardinality(1..N)
    BY <2>1, <2>2, FS_RemoveElement, ZenonT(30)
  <2> QED
    BY <2>1, <2>2, <2>3
<1> DEFINE g == [j \in R |-> s.file[j].fd]
           I == {g[j] : j \in R}
<1>3. IsFiniteSet(I) /\ Cardinality(I) <= Cardinality(R)
  <2>1. g \in Surjection(R, I)
    BY DEF Surjection
  <2> QED
    BY <1>2, <2>1, FS_Surjection
<1>4. C \in SUBSET I
  <2>1. ASSUME NEW d \in C PROVE \E j \in R : g[j] = d
    <3>1. PICK j \in Slot : s.file[j].fd = d
      BY DEF Owned
    <3>2. j \in R
      BY <3>1
    <3> QED
      BY <3>1, <3>2
  <2> QED
    BY <2>1
<1>5. IsFiniteSet(C) /\ Cardinality(C) <= Cardinality(I)
  BY <1>3, <1>4, FS_Subset
<1>6. Lowest(C) \in Nat \ {0} /\ Lowest(C) \notin C /\ Lowest(C) <= Cardinality(C) + 1
  BY <1>5, LowestIs
<1>7. Cardinality(C) \in Nat /\ Cardinality(I) \in Nat
  BY <1>3, <1>5, FS_CardinalityType
<1> QED
  BY <1>1, <1>2, <1>3, <1>5, <1>6, <1>7

\* The store is sound when an entry has been given a name of its own and a descriptor,
\* or none, and the one it had is gone.
LEMMA AltersSound ==
  ASSUME NEW s, Sound(s), NEW u, Housed(u), SameEntries(s.file, u.file), Listed(u), NEW i \in Slot,
         NEW name \in CpmName, NEW d \in Nat, NEW rw \in BOOLEAN,
         NEW t, Alters(u, t, i, name, d, rw),
         NEW C, C = DOMAIN s.fds \ {s.file[i].fd},
         \A e \in C : e \in DOMAIN u.fds /\ u.fds[e] = s.fds[e],
         \A j \in Slot : j # i /\ s.file[j].name = name => name.base = Blank,
         d = 0 => DOMAIN u.fds = C,
         d # 0 => /\ d = Lowest(C) /\ DOMAIN u.fds = C \cup {d} /\ u.fds[d].rw = rw
                  /\ name.drive = MappedDrive /\ name.base # Blank
  PROVE  Sound(t)
<1>1. s \in Store /\ u \in Store /\ Owned(s) /\ Named(s) /\ Mapped(s)
  BY DEF Sound, Housed
<1>2. IsFiniteSet(C) /\ Lowest(C) \in Nat \ {0} /\ Lowest(C) \notin C /\ Lowest(C) <= NumFiles
  BY <1>1, RoomForOne
<1>3. /\ \A j \in Slot : j # i => t.file[j].name = s.file[j].name /\ t.file[j].fd = s.file[j].fd
                                  /\ t.file[j].rw = s.file[j].rw
      /\ t.file[i].name = name /\ t.file[i].fd = d /\ t.file[i].rw = rw
  BY DEF Alters, SameEntries
<1>4. t \in Store /\ t.dir = u.dir /\ t.ino = u.ino /\ t.fds = u.fds
  BY DEF Alters
<1>5. Housed(t)
  BY <1>4 DEF Housed
<1>6. Listed(t)
  <2> PICK p : Chain(u, p)
    BY DEF Listed
  <2>1. \A k \in Slot : p[k] \in Slot
    BY DEF Chain
  <2>2. Chain(t, p)
    <3>1. t.first = u.first /\ \A j \in Slot : t.file[j].prev = u.file[j].prev /\ t.file[j].next = u.file[j].next
      BY DEF Alters
    <3>2. 1 \in Slot /\ NumFiles \in Slot
      BY EmFileAssumption DEF Slot
    <3> QED
      BY <2>1, <3>1, <3>2 DEF Chain
  <2> QED
    BY <2>2 DEF Listed
<1>7. Named(t)
  <2>1. ASSUME NEW j \in Slot, NEW k \in Slot, t.file[j].name = t.file[k].name, j # k
        PROVE  t.file[j].name.base = Blank
    <3>1. CASE j # i /\ k # i
      BY <1>1, <1>3, <2>1, <3>1 DEF Named
    <3>2. CASE j = i
      <4>1. k # i
        BY <2>1, <3>2
      <4> QED
        BY <1>3, <2>1, <3>2, <4>1
    <3>3. CASE k = i
      <4>1. j # i
        BY <2>1, <3>3
      <4> QED
        BY <1>3, <2>1, <3>3, <4>1
    <3> QED
      BY <3>1, <3>2, <3>3
  <2> QED
    BY <2>1 DEF Named
<1>8. \A j \in Slot : j # i /\ s.file[j].fd # 0 => s.file[j].fd \in C
  BY <1>1 DEF Owned
<1>9. Owned(t)
  <2>1. ASSUME NEW j \in Slot, t.file[j].fd # 0
        PROVE  /\ t.file[j].fd \in DOMAIN t.fds /\ t.file[j].fd <= NumFiles
               /\ t.fds[t.file[j].fd].rw = t.file[j].rw
    <3>1. CASE j = i
      <4>1. d # 0
        BY <1>3, <2>1, <3>1
      <4> QED
        BY <1>2, <1>3, <1>4, <3>1, <4>1, ZenonT(30)
    <3>2. CASE j # i
      <4> PICK e : e = s.file[j].fd
        OBVIOUS
      <4>1. e \in C /\ t.file[j].fd = e /\ e # 0
        BY <1>3, <1>8, <2>1, <3>2
      <4>2. e <= NumFiles /\ s.fds[e].rw = s.file[j].rw
        BY <1>1, <4>1 DEF Owned
      <4>3. e \in DOMAIN t.fds /\ t.fds[e] = s.fds[e]
        BY <1>4, <4>1
      <4> QED
        BY <1>3, <3>2, <4>1, <4>2, <4>3
    <3> QED
      BY <3>1, <3>2
  <2>2. ASSUME NEW e \in DOMAIN t.fds PROVE \E j \in Slot : t.file[j].fd = e
    <3>1. CASE e \in C
      <4>1. PICK j \in Slot : s.file[j].fd = e
        BY <1>1, <3>1 DEF Owned
      <4>2. j # i
        BY <3>1, <4>1
      <4> QED
        BY <1>3, <4>1, <4>2
    <3>2. CASE e \notin C
      <4>1. d # 0 /\ e = d
        BY <1>4, <3>2
      <4> QED
        BY <1>3, <4>1
    <3> QED
      BY <3>1, <3>2
  <2>3. ASSUME NEW j \in Slot, NEW k \in Slot, t.file[j].fd = t.file[k].fd, j # k PROVE t.file[j].fd = 0
    <3>1. ASSUME NEW l \in Slot, l # i, t.file[l].fd = d PROVE d = 0
      <4>1. t.file[l].fd = s.file[l].fd
        BY <1>3, <3>1
      <4>2. s.file[l].fd = 0 \/ s.file[l].fd \in C
        BY <1>8, <3>1
      <4> QED
        BY <1>2, <3>1, <4>1, <4>2
    <3>2. CASE j # i /\ k # i
      BY <1>1, <1>3, <2>3, <3>2 DEF Owned
    <3>3. CASE j = i
      <4>1. k # i /\ t.file[k].fd = d /\ t.file[j].fd = d
        BY <1>3, <2>3, <3>3
      <4> QED
        BY <3>1, <4>1
    <3>4. CASE k = i
      <4>1. j # i /\ t.file[j].fd = d
        BY <1>3, <2>3, <3>4
      <4> QED
        BY <3>1, <4>1
    <3> QED
      BY <3>2, <3>3, <3>4
  <2> QED
    BY <2>1, <2>2, <2>3 DEF Owned
<1>10. Mapped(t)
  <2>1. ASSUME NEW j \in Slot, t.file[j].fd # 0
        PROVE  t.file[j].name.drive = MappedDrive /\ t.file[j].name.base # Blank
    <3>1. CASE j = i
      BY <1>3, <2>1, <3>1
    <3>2. CASE j # i
      BY <1>1, <1>3, <2>1, <3>2 DEF Mapped
    <3> QED
      BY <3>1, <3>2
  <2> QED
    BY <2>1 DEF Mapped
<1> QED
  BY <1>5, <1>6, <1>7, <1>9, <1>10 DEF Sound

-----------------------------------------------------------------------------
(* From one state of the files to the next *)

\* The inode of an open entry; those that have a name; and whether it is that of the
\* entry's name.
Ino(s, i)     == s.fds[s.file[i].fd].ino
Linked(s)     == {s.dir[b] : b \in DOMAIN s.dir}
Current(s, i) == s.file[i].name.base \in DOMAIN s.dir /\ s.dir[s.file[i].name.base] = Ino(s, i)
Length(s, x)  == Len(s.ino[x].data)

\* The entry is open on the same inode.  One without a name does not get one, and is
\* made shorter only when it was less than an extent.
Remains(s, t, i) ==
  /\ s.file[i].fd # 0 /\ t.file[i].name = s.file[i].name /\ Ino(t, i) = Ino(s, i)
  /\ Ino(s, i) \notin Linked(s) =>
       /\ Ino(s, i) \notin Linked(t)
       /\ Length(t, Ino(s, i)) >= Length(s, Ino(s, i)) \/ Length(s, Ino(s, i)) < ExtentRecords

DirKept(s, t) == \A b \in DOMAIN s.dir : b \in DOMAIN t.dir /\ t.dir[b] = s.dir[b]

\* Every entry that is open in t is open on the file of its name, or as it was in s.
Follows(s, t) == \A i \in Slot : t.file[i].fd # 0 => Current(t, i) \/ Remains(s, t, i)

Steps(s, t) == Sound(t) /\ DirKept(s, t) /\ Follows(s, t)

\* Where nothing changes, everything follows.
LEMMA StepsSame ==
  ASSUME NEW s, Sound(s)
  PROVE  Steps(s, s)
<1>1. s \in Store
  BY DEF Sound, Housed
<1>2. ASSUME NEW i \in Slot, s.file[i].fd # 0
      PROVE  Length(s, Ino(s, i)) \in Nat
  <2> PICK e : e = s.file[i].fd
    OBVIOUS
  <2>1. e \in DOMAIN s.fds
    BY <1>2 DEF Sound, Owned
  <2> PICK x : x = s.fds[e].ino
    OBVIOUS
  <2>2. x \in DOMAIN s.ino
    BY <2>1 DEF Sound, Housed
  <2>3. s.ino \in [DOMAIN s.ino -> Inode]
    BY <1>1, StoreFields, InosAre
  <2>4. s.ino[x] \in Inode
    BY <2>2, <2>3
  <2>5. Len(s.ino[x].data) \in Nat
    BY ONLY <2>4 DEF Inode
  <2> QED
    BY ONLY <2>5, x = s.fds[e].ino, e = s.file[i].fd, Zenon DEF Length, Ino
<1>3. Follows(s, s)
  BY <1>2 DEF Follows, Remains
<1> QED
  BY <1>3 DEF Steps, DirKept

\* A step of a step is a step.
LEMMA StepsOn ==
  ASSUME NEW s, NEW t, NEW u, Sound(s), Steps(s, t), Steps(t, u)
  PROVE  Steps(s, u)
<1>1. DirKept(s, u) /\ Sound(u)
  BY DEF Steps, DirKept
<1>2. ASSUME NEW v, Sound(v), NEW i \in Slot, v.file[i].fd # 0
      PROVE  Length(v, Ino(v, i)) \in Nat
  <2> PICK e : e = v.file[i].fd
    OBVIOUS
  <2>1. e \in DOMAIN v.fds
    BY <1>2 DEF Sound, Owned
  <2> PICK x : x = v.fds[e].ino
    OBVIOUS
  <2>2. x \in DOMAIN v.ino
    BY <1>2, <2>1 DEF Sound, Housed
  <2>3. v.ino \in [DOMAIN v.ino -> Inode]
    BY <1>2, StoreFields, InosAre DEF Sound, Housed
  <2>4. v.ino[x] \in Inode
    BY <2>2, <2>3
  <2>5. Len(v.ino[x].data) \in Nat
    BY ONLY <2>4 DEF Inode
  <2> QED
    BY ONLY <2>5, x = v.fds[e].ino, e = v.file[i].fd, Zenon DEF Length, Ino
<1>3. ASSUME NEW i \in Slot, u.file[i].fd # 0, ~Current(u, i)
      PROVE  Remains(s, u, i)
  <2>1. Remains(t, u, i)
    BY <1>3 DEF Steps, Follows
  <2>2. ~Current(t, i)
    BY <1>3, <2>1 DEF Current, Remains, Steps, DirKept
  <2>3. Remains(s, t, i)
    BY <2>1, <2>2 DEF Remains, Steps, Follows
  <2> PICK x : x = Ino(s, i)
    OBVIOUS
  <2>4. Ino(t, i) = x /\ Ino(u, i) = x /\ s.file[i].fd # 0 /\ t.file[i].fd # 0 /\ u.file[i].name = s.file[i].name
    BY <2>1, <2>3 DEF Remains
  <2> PICK a : a = Length(s, x)
    OBVIOUS
  <2> PICK b : b = Length(t, x)
    OBVIOUS
  <2> PICK c : c = Length(u, x)
    OBVIOUS
  <2>5. a \in Nat /\ b \in Nat /\ c \in Nat /\ ExtentRecords \in Nat
    <3>1. Sound(s) /\ Sound(t) /\ Sound(u)
      BY DEF Steps
    <3> QED
      BY <1>2, <1>3, <2>4, <3>1, EmBdosAssumption
  <2>6. x \notin Linked(s) => x \notin Linked(t) /\ (b >= a \/ a < ExtentRecords)
    BY <2>3, <2>4 DEF Remains
  <2>7. x \notin Linked(t) => x \notin Linked(u) /\ (c >= b \/ b < ExtentRecords)
    BY <2>1, <2>4 DEF Remains
  <2>8. x \notin Linked(s) => x \notin Linked(u) /\ (c >= a \/ a < ExtentRecords)
    BY ONLY <2>5, <2>6, <2>7
  <2> QED
    BY <2>4, <2>8 DEF Remains
<1>4. Follows(s, u)
  BY <1>3 DEF Follows
<1> QED
  BY <1>1, <1>4 DEF Steps

\* The inodes open as the descriptors C hold the same, and those without a name get none.
InoKept(s, u, C) ==
  \A e \in C :
    /\ u.ino[s.fds[e].ino] = s.ino[s.fds[e].ino]
    /\ s.fds[e].ino \notin Linked(s) => s.fds[e].ino \notin Linked(u)

\* So they follow when one entry is altered.
LEMMA AltersFollows ==
  ASSUME NEW s, Sound(s), NEW u, SameEntries(s.file, u.file), NEW i \in Slot,
         DirKept(s, u), NEW name, NEW d, NEW rw,
         NEW t, Alters(u, t, i, name, d, rw),
         NEW C, C = DOMAIN s.fds \ {s.file[i].fd},
         \A e \in C : e \in DOMAIN u.fds /\ u.fds[e] = s.fds[e],
         InoKept(s, u, C), d # 0 => Current(t, i)
  PROVE  DirKept(s, t) /\ Follows(s, t)
<1>1. t.dir = u.dir /\ t.ino = u.ino /\ t.fds = u.fds
  BY DEF Alters
<1>2. DirKept(s, t)
  BY <1>1 DEF DirKept
<1>3. ASSUME NEW j \in Slot, j # i, t.file[j].fd # 0 PROVE Remains(s, t, j)
  <2> PICK e : e = s.file[j].fd
    OBVIOUS
  <2>1. t.file[j].fd = e /\ t.file[j].name = s.file[j].name /\ e # 0
    BY <1>3 DEF Alters, SameEntries
  <2>2. e \in C
    BY <1>3, <2>1 DEF Sound, Owned
  <2> PICK x : x = s.fds[e].ino
    OBVIOUS
  <2>3. Ino(s, j) = x /\ Ino(t, j) = x
    BY <1>1, <2>1, <2>2 DEF Ino
  <2>4. u.ino[x] = s.ino[x] /\ (x \notin Linked(s) => x \notin Linked(u))
    BY ONLY <2>2, InoKept(s, u, C), x = s.fds[e].ino DEF InoKept
  <2>5. Linked(t) = Linked(u)
    BY <1>1 DEF Linked
  <2>6. Length(t, x) = Length(s, x) /\ Length(s, x) \in Nat
    <3>1. x \in DOMAIN s.ino /\ s.ino \in [DOMAIN s.ino -> Inode]
      BY <2>2, StoreFields, InosAre DEF Sound, Housed
    <3>2. s.ino[x] \in Inode
      BY <3>1
    <3>3. Len(s.ino[x].data) \in Nat
      BY ONLY <3>2 DEF Inode
    <3> QED
      BY <1>1, <2>4, <3>3, ZenonT(30) DEF Length
  <2>7. Length(t, x) >= Length(s, x)
    BY ONLY <2>6
  <2> QED
    BY ONLY <2>1, e = s.file[j].fd, <2>3, <2>4, <2>5, <2>7 DEF Remains
<1>4. t.file[i].fd = d
  BY DEF Alters
<1> QED
  BY <1>2, <1>3, <1>4 DEF Follows

\* An entry's descriptor, if it has one, is closed.
Closed(s, i) == IF s.file[i].fd # 0 THEN HostClose(s, s.file[i].fd) ELSE s
Closes(s, c, i) ==
  /\ Housed(c) /\ SameHost(s, c) /\ SameList(s, c)
  /\ DOMAIN c.fds = DOMAIN s.fds \ {s.file[i].fd}
  /\ \A e \in DOMAIN c.fds : c.fds[e] = s.fds[e]

\* What closing leaves of the host and the list.
LEMMA ClosedIs ==
  ASSUME NEW s, Housed(s), NEW i \in Slot, NEW c, c = Closed(s, i)
  PROVE  Closes(s, c, i)
<1> PICK d : d = s.file[i].fd
  OBVIOUS
<1>1. CASE d # 0
  <2>1. c = HostClose(s, d)
    BY <1>1 DEF Closed
  <2> QED
    BY <2>1, HostCloseIs DEF Closes
<1>2. CASE d = 0
  <2>1. c = s
    BY <1>2 DEF Closed
  <2>2. DOMAIN s.fds \subseteq Nat \ {0}
    BY StoreFields, FdsAre DEF Housed
  <2> QED
    BY <1>2, <2>1, <2>2 DEF Closes, SameHost, SameList
<1> QED
  BY <1>1, <1>2

\* What a host keeps that changes no more than that it has fewer inodes, or a name more.
LEMMA SameHostKeeps ==
  ASSUME NEW s, NEW u, SameHost(s, u), Housed(u), NEW C, \A e \in C : e \in DOMAIN u.fds /\ u.fds[e] = s.fds[e]
  PROVE  DirKept(s, u) /\ InoKept(s, u, C)
<1>1. Linked(u) = Linked(s)
  BY DEF SameHost, Linked
<1>2. \A e \in C : s.fds[e].ino \in DOMAIN u.ino
  BY DEF Housed
<1> QED
  BY <1>1, <1>2 DEF SameHost, DirKept, InoKept

\* And one that a file was created in.
LEMMA GrowsKeeps ==
  ASSUME NEW s, NEW c, NEW u, SameHost(s, c), Housed(c), NEW base, Grows(c, u, base),
         NEW C, \A e \in C : e \in DOMAIN c.fds /\ c.fds[e] = s.fds[e]
  PROVE  DirKept(s, u) /\ InoKept(s, u, C)
<1>1. DirKept(s, u)
  BY DEF SameHost, Grows, DirKept
<1>2. ASSUME NEW e \in C
      PROVE  /\ u.ino[s.fds[e].ino] = s.ino[s.fds[e].ino]
             /\ s.fds[e].ino \notin Linked(s) => s.fds[e].ino \notin Linked(u)
  <2> PICK x : x = s.fds[e].ino
    OBVIOUS
  <2>1. x \in DOMAIN c.ino
    BY <1>2 DEF Housed
  <2>2. u.ino[x] = c.ino[x] /\ c.ino[x] = s.ino[x]
    BY <2>1 DEF Grows, SameHost
  <2>3. ASSUME x \in Linked(u) PROVE x \in Linked(s)
    <3>1. PICK b \in DOMAIN u.dir : u.dir[b] = x
      BY <2>3 DEF Linked
    <3>2. b \in DOMAIN c.dir
      BY <2>1, <3>1 DEF Grows
    <3>3. c.dir[b] = x /\ c.dir = s.dir
      BY <3>1, <3>2 DEF Grows, SameHost
    <3> QED
      BY <3>2, <3>3 DEF Linked
  <2> QED
    BY <2>2, <2>3
<1> QED
  BY <1>1, <1>2 DEF InoKept

\* What reopen does for entry i.
Reopens(s, t, i, rw, creat) ==
  /\ Steps(s, t)
  /\ \A j \in Slot : t.file[j].name = s.file[j].name
  /\ ~creat => SameHost(s, t)
  /\ s.file[i].fd # 0 /\ ~rw => t = s
  /\ s.file[i].fd = 0 /\ ~rw /\ s.file[i].name.drive = MappedDrive /\ s.file[i].name.base \in DOMAIN s.dir
       => t.file[i].fd # 0
  /\ t = s \/ (t.file[i].fd # 0 => Current(t, i))

\* reopen: the files stay sound, and what it opens is the file of the entry's name.
LEMMA ReopenIs ==
  ASSUME NEW s, Sound(s), NEW i \in Slot, s.file[i].name.base \in Base,
         NEW rw \in BOOLEAN, NEW creat \in BOOLEAN, NEW t, t = Reopen(s, i, rw, creat)
  PROVE  Reopens(s, t, i, rw, creat)
<1> PICK e : e = s.file[i]
  OBVIOUS
<1> PICK c : c = Closed(s, i)
  OBVIOUS
<1>0. Housed(s) /\ s \in Store
  BY DEF Sound, Housed
<1>1. Closes(s, c, i)
  BY <1>0, ClosedIs
<1>2. SameHost(s, s)
  BY DEF SameHost
<1>3. ASSUME t = s, s.file[i].fd # 0 \/ s.file[i].name.drive # MappedDrive PROVE Reopens(s, t, i, rw, creat)
  BY <1>2, <1>3, StepsSame DEF Reopens
<1>4. CASE e.fd # 0 /\ (e.rw \/ ~rw \/ creat)
  <2>1. t = s
    BY ONLY <1>4, e = s.file[i], t = Reopen(s, i, rw, creat), ZenonT(30) DEF Reopen
  <2>2. s.file[i].fd # 0
    BY <1>4
  <2> QED
    BY <1>3, <2>1, <2>2
<1>5. CASE ~(e.fd # 0 /\ (e.rw \/ ~rw \/ creat)) /\ e.name.drive # MappedDrive
  <2>1. e.fd = 0
    BY <1>5 DEF Sound, Mapped
  <2>2. t = s
    BY <1>5, <2>1 DEF Reopen
  <2> QED
    BY <1>3, <1>5, <2>2
<1>6. CASE ~(e.fd # 0 /\ (e.rw \/ ~rw \/ creat)) /\ e.name.drive = MappedDrive
  <2> PICK base \in Base : base = e.name.base
    OBVIOUS
  <2> PICK o : o = HostOpen(c, base, rw, creat)
    OBVIOUS
  <2> PICK u : u = o.fs
    OBVIOUS
  <2> PICK d : d = o.fd
    OBVIOUS
  <2>1. t = [u EXCEPT !.file[i].rw = rw, !.file[i].fd = d]
    <3>1. t = [o.fs EXCEPT !.file[i].rw = rw, !.file[i].fd = o.fd]
      BY <1>6, ZenonT(30) DEF Reopen, Closed
    <3> QED
      BY <3>1, ZenonT(30)
  <2> PICK C : C = DOMAIN s.fds \ {s.file[i].fd}
    OBVIOUS
  <2>2. /\ Housed(c) /\ SameHost(s, c) /\ SameList(s, c) /\ DOMAIN c.fds = C
        /\ \A f \in C : c.fds[f] = s.fds[f]
    BY <1>1 DEF Closes
  <2>3. \/ d = 0 /\ u = c /\ (base \notin DOMAIN c.dir \/ rw)
        \/ /\ Housed(u) /\ SameList(c, u) /\ Opens(c, u, base, rw, d) /\ Grows(c, u, base)
           /\ ~creat => u.dir = c.dir /\ u.ino = c.ino
    BY <2>2, HostOpenIs
  <2>4. /\ Housed(u) /\ SameList(s, u) /\ d \in Nat
        /\ \A f \in C : f \in DOMAIN u.fds /\ u.fds[f] = s.fds[f]
        /\ d = 0 => DOMAIN u.fds = C /\ u = c /\ (base \notin DOMAIN c.dir \/ rw)
        /\ d # 0 => /\ d = Lowest(C) /\ DOMAIN u.fds = C \cup {d} /\ u.fds[d].rw = rw /\ d \notin C
                    /\ base \in DOMAIN u.dir /\ u.fds[d].ino = u.dir[base]
        /\ ~creat => u.dir = c.dir /\ u.ino = c.ino
    <3>1. CASE d = 0 /\ u = c /\ (base \notin DOMAIN c.dir \/ rw)
      BY <2>2, <3>1 DEF SameList
    <3>2. CASE /\ Housed(u) /\ SameList(c, u) /\ Opens(c, u, base, rw, d) /\ Grows(c, u, base)
               /\ ~creat => u.dir = c.dir /\ u.ino = c.ino
      <4>1. Housed(u) /\ SameList(s, u)
        BY <2>2, <3>2, ZenonT(30) DEF SameList
      <4>2. /\ d = Lowest(C) /\ d \in Nat \ {0} /\ d \notin C
            /\ DOMAIN u.fds = C \cup {d}
            /\ \A f \in C : u.fds[f] = c.fds[f]
            /\ base \in DOMAIN u.dir /\ u.fds[d].ino = u.dir[base] /\ u.fds[d].rw = rw
        BY <2>2, <3>2, ZenonT(30) DEF Opens
      <4>3. \A f \in C : f \in DOMAIN u.fds /\ u.fds[f] = s.fds[f]
        BY ONLY <2>2, <4>2
      <4>4. ~creat => u.dir = c.dir /\ u.ino = c.ino
        BY <3>2, ZenonT(30)
      <4> QED
        BY <4>1, <4>2, <4>3, <4>4, ZenonT(30)
    <3> QED
      BY <2>3, <3>1, <3>2, ZenonT(30)
  <2>5. DirKept(s, u) /\ InoKept(s, u, C)
    <3>0. \A f \in C : f \in DOMAIN c.fds /\ c.fds[f] = s.fds[f]
      BY <2>2
    <3>1. CASE u = c
      BY ONLY <2>2, <2>4, <3>1, SameHostKeeps
    <3>2. CASE Grows(c, u, base)
      BY ONLY <2>2, <3>0, <3>2, GrowsKeeps
    <3> QED
      BY ONLY <2>3, <3>1, <3>2
  <2> PICK name : name = e.name
    OBVIOUS
  <2>6. u \in Store /\ u.file = s.file /\ u.first = s.first /\ name \in CpmName /\ u.file[i].name = name
    <3>1. u \in Store /\ u.file = s.file /\ u.first = s.first
      BY <2>4, ZenonT(30) DEF Housed, SameList
    <3>2. s.file[i] \in Entry
      BY <1>0, StoreFields DEF Lists
    <3> QED
      BY <3>1, <3>2 DEF Entry
  <2>7. Alters(u, t, i, name, d, rw)
    <3>1. u \in Store /\ d \in Nat /\ name = u.file[i].name
      BY <2>4, <2>6, ZenonT(30)
    <3>2. Alters(u, t, i, u.file[i].name, d, rw)
      BY ONLY <3>1, <2>1, i \in Slot, rw \in BOOLEAN, AlterOpened
    <3> QED
      BY ONLY <3>1, <3>2
  <2>8. SameEntries(s.file, u.file) /\ Listed(u)
    <3>1. SameEntries(s.file, u.file)
      BY <2>6 DEF SameEntries
    <3> PICK p : Chain(s, p)
      BY DEF Sound, Listed
    <3>2. Chain(u, p)
      BY <2>6 DEF Chain
    <3> QED
      BY ONLY <3>1, <3>2 DEF Listed
  <2>9. \A j \in Slot : t.file[j].name = s.file[j].name
    BY ONLY <2>6, <2>7 DEF Alters
  <2>10. t.file[i].fd = d /\ t.dir = u.dir /\ t.ino = u.ino /\ t.fds = u.fds /\ t.file[i].name = name
    BY <2>7, ZenonT(30) DEF Alters
  <2>11. d # 0 => Current(t, i)
    <3>1. d # 0 => base \in DOMAIN u.dir /\ u.fds[d].ino = u.dir[base]
      BY <2>4, ZenonT(30)
    <3>2. name.base = base
      OBVIOUS
    <3> QED
      BY ONLY <3>1, <3>2, <2>10 DEF Current, Ino
  <2>12. Sound(t)
    <3>1. \A j \in Slot : j # i /\ s.file[j].name = name => name.base = Blank
      BY DEF Sound, Named
    <3>2. name.drive = MappedDrive /\ name.base # Blank
      BY <1>6, EmFileAssumption
    <3>3. Housed(u) /\ d \in Nat /\ (\A f \in C : f \in DOMAIN u.fds /\ u.fds[f] = s.fds[f])
      BY ONLY <2>4
    <3>4. d = 0 => DOMAIN u.fds = C
      BY ONLY <2>4
    <3>5. d # 0 => /\ d = Lowest(C) /\ DOMAIN u.fds = C \cup {d} /\ u.fds[d].rw = rw
                   /\ name.drive = MappedDrive /\ name.base # Blank
      BY ONLY <2>4, <3>2
    <3>6. name \in CpmName
      BY ONLY <2>6
    <3> QED
      BY ONLY Sound(s), i \in Slot, rw \in BOOLEAN, C = DOMAIN s.fds \ {s.file[i].fd},
              <2>7, <2>8, <3>1, <3>3, <3>4, <3>5, <3>6, AltersSound, SMTT(30)
  <2>13. Follows(s, t) /\ DirKept(s, t)
    <3>1. \A f \in C : f \in DOMAIN u.fds /\ u.fds[f] = s.fds[f]
      BY ONLY <2>4
    <3> QED
      BY ONLY Sound(s), i \in Slot, C = DOMAIN s.fds \ {s.file[i].fd},
              <3>1, <2>5, <2>7, <2>8, <2>11, AltersFollows
  <2>14. ~creat => SameHost(s, t)
    <3>1. ~creat => t.dir = c.dir /\ t.ino = c.ino
      BY <2>4, <2>10, ZenonT(30)
    <3> QED
      BY ONLY <2>2, <3>1 DEF SameHost
  <2>15. ~(s.file[i].fd # 0 /\ ~rw)
    BY <1>6
  <2>16. s.file[i].fd = 0 /\ ~rw /\ s.file[i].name.base \in DOMAIN s.dir => t.file[i].fd # 0
    BY <2>2, <2>4, <2>10, ZenonT(30) DEF SameHost
  <2> QED
    BY <2>9, <2>10, <2>11, <2>12, <2>13, <2>14, <2>15, <2>16 DEF Reopens, Steps
<1> QED
  BY <1>4, <1>5, <1>6

\* Moving an entry to the front changes nothing but the order.
Bumps(s, t) ==
  /\ Steps(s, t) /\ t.dir = s.dir /\ t.ino = s.ino /\ t.fds = s.fds /\ SameEntries(s.file, t.file)

\* bump: only the order changes, and it is still one list.
LEMMA BumpSteps ==
  ASSUME NEW s, Sound(s), NEW i \in Slot, NEW t, t = Bump(s, i)
  PROVE  Bumps(s, t)
<1>1. s \in Store /\ Listed(s)
  BY DEF Sound, Housed
<1>2. /\ t \in Store /\ t.dir = s.dir /\ t.ino = s.ino /\ t.fds = s.fds
      /\ SameEntries(s.file, t.file) /\ Listed(t)
  BY <1>1, BumpIs
<1>3. Housed(t)
  BY <1>2 DEF Sound, Housed
<1>4. Named(t) /\ Owned(t) /\ Mapped(t)
  <2>1. \A j \in Slot : t.file[j].name = s.file[j].name /\ t.file[j].fd = s.file[j].fd /\ t.file[j].rw = s.file[j].rw
    BY <1>2 DEF SameEntries
  <2>2. Named(t)
    BY <2>1 DEF Sound, Named
  <2>3. Owned(t)
    BY <1>2, <2>1 DEF Sound, Owned
  <2>4. Mapped(t)
    BY <2>1 DEF Sound, Mapped
  <2> QED
    BY <2>2, <2>3, <2>4
<1>5. Follows(s, t)
  <2>1. Follows(s, s)
    BY StepsSame DEF Steps
  <2>2. ASSUME NEW j \in Slot, t.file[j].fd # 0 PROVE Current(t, j) \/ Remains(s, t, j)
    <3>1. /\ t.file[j].name = s.file[j].name /\ t.file[j].fd = s.file[j].fd
          /\ Ino(t, j) = Ino(s, j) /\ Linked(t) = Linked(s) /\ Length(t, Ino(s, j)) = Length(s, Ino(s, j))
      BY <1>2 DEF SameEntries, Ino, Linked, Length
    <3>2. CASE Current(s, j)
      BY <1>2, <3>1, <3>2 DEF Current
    <3>3. CASE Remains(s, s, j)
      BY <3>1, <3>3 DEF Remains
    <3> QED
      BY <2>1, <2>2, <3>1, <3>2, <3>3 DEF Follows
  <2> QED
    BY <2>2 DEF Follows
<1> QED
  BY <1>2, <1>3, <1>4, <1>5 DEF Bumps, Steps, Sound, DirKept

\* An entry's descriptor is closed, and it is given a name that no other has.
LEMMA GivenUp ==
  ASSUME NEW s, Sound(s), NEW c, NEW i \in Slot, Closes(s, c, i), NEW name \in CpmName,
         \A j \in Slot : j # i /\ s.file[j].name = name => name.base = Blank,
         NEW t, Alters(c, t, i, name, 0, FALSE)
  PROVE  Steps(s, t) /\ SameHost(s, t)
<1> PICK C : C = DOMAIN s.fds \ {s.file[i].fd}
  OBVIOUS
<1>1. /\ Housed(c) /\ SameHost(s, c) /\ c.file = s.file /\ c.first = s.first /\ DOMAIN c.fds = C
      /\ \A e \in C : e \in DOMAIN c.fds /\ c.fds[e] = s.fds[e]
  BY DEF Closes, SameList
<1>2. SameEntries(s.file, c.file) /\ Listed(c)
  <2>1. SameEntries(s.file, c.file)
    BY <1>1 DEF SameEntries
  <2> PICK p : Chain(s, p)
    BY DEF Sound, Listed
  <2>2. Chain(c, p)
    BY <1>1 DEF Chain
  <2> QED
    BY <2>1, <2>2 DEF Listed
<1>3. DirKept(s, c) /\ InoKept(s, c, C)
  BY <1>1, SameHostKeeps
<1> PICK d \in Nat : d = 0
  OBVIOUS
<1> PICK no \in BOOLEAN : no = FALSE
  OBVIOUS
<1>4. Alters(c, t, i, name, d, no)
  OBVIOUS
<1>5. Sound(t)
  BY ONLY Sound(s), i \in Slot, C = DOMAIN s.fds \ {s.file[i].fd}, name \in CpmName, d \in Nat, d = 0, no \in BOOLEAN,
          \A j \in Slot : j # i /\ s.file[j].name = name => name.base = Blank,
          <1>1, <1>2, <1>4, AltersSound
<1>6. DirKept(s, t) /\ Follows(s, t)
  BY ONLY Sound(s), i \in Slot, C = DOMAIN s.fds \ {s.file[i].fd}, d = 0,
          <1>1, <1>2, <1>3, <1>4, AltersFollows
<1>7. SameHost(s, t)
  BY <1>1 DEF SameHost, Alters
<1> QED
  BY <1>5, <1>6, <1>7 DEF Steps

\* What find_file finds.
Finds(s, t, i, name) ==
  i \in Slot /\ Steps(s, t) /\ SameHost(s, t) /\ t.file[i].name = name

CpmFile == [drive : Drives, base : Base]

\* find_file: the entry it returns bears the name, alone, and the host is as it was.
LEMMA FindFileIs ==
  ASSUME NEW s, Sound(s), NEW name \in CpmFile, NEW f, f = FindFile(s, name), NEW i, i = f.i, NEW t, t = f.fs
  PROVE  Finds(s, t, i, name) /\ f = [fs |-> t, i |-> i]
<1>1. s \in Store /\ 0 \notin Slot
  BY EmFileAssumption DEF Sound, Housed, Slot
<1> PICK p : Chain(s, p)
  BY DEF Sound, Listed
<1>2. Order(s) = p
  BY <1>1, OrderIs
<1>3. \A k \in Slot : p[k] \in Slot /\ p[k] # 0
  BY <1>1 DEF Chain
<1> PICK H : H = Hits(s, name)
  OBVIOUS
<1>4. H = {k \in Slot : p[k] # 0 /\ s.file[p[k]].name = name}
  BY <1>2 DEF Hits
<1>5. CASE H # {}
  <2> DEFINE k == CHOOSE x \in H : \A j \in H : x <= j
  <2>1. H \in SUBSET Nat
    BY <1>4, EmFileAssumption DEF Slot
  <2>2. \E x \in H : \A j \in H : x <= j
    BY <1>5, <2>1, NatMin
  <2>3. k \in H
    BY <2>2
  <2> HIDE DEF k
  <2>4. f = [fs |-> s, i |-> Order(s)[k]]
    BY <1>5, SMTT(30) DEF FindFile, k
  <2>5. t = s /\ i = p[k]
    BY <1>2, <2>4
  <2>6. i \in Slot /\ s.file[i].name = name
    BY <1>3, <1>4, <2>3, <2>5
  <2>7. Steps(s, s) /\ SameHost(s, s)
    BY StepsSame DEF SameHost
  <2>8. f = [fs |-> t, i |-> i]
    BY <2>4
  <2> QED
    BY <2>5, <2>6, <2>7, <2>8 DEF Finds
<1>6. CASE H = {}
  <2> PICK v : v = Victim(s)
    OBVIOUS
  <2>1. v \in Slot
    <3>1. NumFiles \in Slot
      BY EmFileAssumption DEF Slot
    <3> DEFINE V == {Order(s)[k] : k \in Slot} \ {0}
    <3>2. p[NumFiles] \in V /\ s.file[p[NumFiles]].next = 0
      BY <1>2, <1>3, <3>1 DEF Chain
    <3>3. v \in V
      BY <3>2 DEF Victim
    <3> QED
      BY <1>2, <1>3, <3>3
  <2> PICK b : b = Bump(s, v)
    OBVIOUS
  <2>2. Bumps(s, b)
    BY <2>1, BumpSteps
  <2>3. Sound(b) /\ b.dir = s.dir /\ b.ino = s.ino /\ b.fds = s.fds /\ SameEntries(s.file, b.file)
    BY <2>2 DEF Bumps, Steps
  <2> PICK c : c = Closed(b, v)
    OBVIOUS
  <2>4. Closes(b, c, v)
    BY <2>1, <2>3, ClosedIs DEF Sound
  <2> PICK u : u = [c EXCEPT !.file[v].fd = 0, !.file[v].name = name, !.file[v].rw = FALSE]
    OBVIOUS
  <2>5. f = [i |-> v, fs |-> u]
    BY <1>6, Zenon DEF FindFile, Closed
  <2>6. t = u /\ i = v
    BY <2>5
  <2>7. f = [fs |-> t, i |-> i]
    BY <2>5, <2>6
  <2>8. c \in Store /\ name \in CpmName
    BY <2>4 DEF Closes, Housed, CpmFile, CpmName
  <2>9. Alters(c, t, v, name, 0, FALSE)
    BY ONLY <2>1, <2>6, <2>8, u = [c EXCEPT !.file[v].fd = 0, !.file[v].name = name, !.file[v].rw = FALSE], AlterNamed
  <2>10. \A j \in Slot : b.file[j].name # name
    <3>1. ASSUME NEW j \in Slot, s.file[j].name = name PROVE FALSE
      <4>1. PICK k \in Slot : p[k] = j
        BY DEF Chain
      <4>2. k \in H
        BY <1>3, <1>4, <3>1, <4>1
      <4> QED
        BY <1>6, <4>2
    <3> QED
      BY <2>3, <3>1 DEF SameEntries
  <2>11. Steps(b, t) /\ SameHost(b, t)
    BY ONLY <2>1, <2>3, <2>4, <2>8, <2>9, <2>10, GivenUp
  <2>12. Steps(s, t)
    BY <2>2, <2>11, StepsOn DEF Bumps
  <2>13. SameHost(s, t)
    BY <2>3, <2>11 DEF SameHost
  <2>14. t.file[i].name = name
    BY <2>6, <2>9, ZenonT(30) DEF Alters
  <2> QED
    BY <2>1, <2>6, <2>7, <2>12, <2>13, <2>14, ZenonT(30) DEF Finds
<1> QED
  BY <1>5, <1>6

\* What a call has when it has opened an entry, or tried to.
Opened(s, t, i, name) ==
  /\ Finds(s, t, i, name)
  /\ name.drive = MappedDrive /\ name.base \in DOMAIN s.dir => t.file[i].fd # 0

\* Two steps that leave the host alone.
LEMMA StepsBoth ==
  ASSUME NEW s, NEW t, NEW u, Sound(s), Steps(s, t), SameHost(s, t), Steps(t, u), SameHost(t, u)
  PROVE  Steps(s, u) /\ SameHost(s, u)
<1>1. Steps(s, u)
  BY StepsOn
<1>2. SameHost(s, u)
  BY DEF SameHost
<1> QED
  BY <1>1, <1>2

\* file_open: NULL only when the file is not there or the drive is not mapped.
LEMMA FileOpenIs ==
  ASSUME NEW s, Sound(s), NEW name \in CpmFile, NEW o, o = FileOpen(s, name), NEW i, i = o.i, NEW t, t = o.fs
  PROVE  Opened(s, t, i, name)
<1> PICK f : f = FindFile(s, name)
  OBVIOUS
<1> PICK u : u = f.fs
  OBVIOUS
<1> PICK v : v = f.i
  OBVIOUS
<1>1. Finds(s, u, v, name) /\ f = [fs |-> u, i |-> v]
  BY FindFileIs
<1> PICK w : w = Reopen(u, v, FALSE, FALSE)
  OBVIOUS
<1>2. o = [f EXCEPT !.fs = w]
  BY DEF FileOpen
<1>3. t = w /\ i = v
  BY <1>1, <1>2
<1> PICK no \in BOOLEAN : no = FALSE
  OBVIOUS
<1>4. Reopens(u, t, i, no, no)
  <2>1. Sound(u) /\ v \in Slot /\ u.file[v].name.base \in Base
    BY <1>1 DEF Finds, Steps, CpmFile
  <2>2. w = Reopen(u, v, no, no)
    OBVIOUS
  <2>3. Reopens(u, w, v, no, no)
    BY ONLY <2>1, <2>2, no \in BOOLEAN, ReopenIs
  <2> QED
    BY <1>3, <2>3
<1>5. Steps(s, t) /\ SameHost(s, t)
  BY <1>1, <1>4, StepsBoth DEF Finds, Reopens
<1>6. t.file[i].name = name /\ i \in Slot
  BY <1>1, <1>3, <1>4, ZenonT(30) DEF Finds, Reopens
<1>7. ASSUME name.drive = MappedDrive, name.base \in DOMAIN s.dir PROVE t.file[i].fd # 0
  <2>1. u.dir = s.dir /\ u.file[i].name = name
    BY <1>1, <1>3 DEF Finds, SameHost
  <2>2. CASE u.file[i].fd # 0
    BY <1>4, <2>2 DEF Reopens
  <2>3. CASE u.file[i].fd = 0
    BY <1>4, <1>7, <2>1, <2>3 DEF Reopens
  <2> QED
    BY <2>2, <2>3
<1> QED
  BY <1>5, <1>6, <1>7 DEF Opened, Finds

\* file_create.
LEMMA FileCreateIs ==
  ASSUME NEW s, Sound(s), NEW name \in CpmFile, NEW o, o = FileCreate(s, name), NEW i, i = o.i, NEW t, t = o.fs
  PROVE  Steps(s, t) /\ i \in Slot /\ t.file[i].name = name
<1> PICK f : f = FindFile(s, name)
  OBVIOUS
<1> PICK u : u = f.fs
  OBVIOUS
<1> PICK v : v = f.i
  OBVIOUS
<1>1. Finds(s, u, v, name) /\ f = [fs |-> u, i |-> v]
  BY FindFileIs
<1> PICK w : w = Reopen(u, v, TRUE, TRUE)
  OBVIOUS
<1>2. o = [f EXCEPT !.fs = w]
  BY DEF FileCreate
<1>3. t = w /\ i = v
  BY <1>1, <1>2
<1> PICK yes \in BOOLEAN : yes = TRUE
  OBVIOUS
<1>4. Reopens(u, w, v, yes, yes)
  <2>1. Sound(u) /\ v \in Slot /\ u.file[v].name.base \in Base
    BY <1>1 DEF Finds, Steps, CpmFile
  <2>2. w = Reopen(u, v, yes, yes)
    OBVIOUS
  <2> QED
    BY ONLY <2>1, <2>2, yes \in BOOLEAN, ReopenIs
<1>5. Steps(s, t)
  BY ONLY Sound(s), <1>1, <1>3, <1>4, StepsOn DEF Finds, Reopens
<1>6. i \in Slot /\ t.file[i].name = name
  BY ONLY <1>1, <1>3, <1>4 DEF Finds, Reopens
<1> QED
  BY ONLY <1>5, <1>6

\* file_close: the name and the descriptor go, the host's files stay.
LEMMA FileCloseIs ==
  ASSUME NEW s, Sound(s), NEW name \in CpmFile, NEW t, t = FileClose(s, name)
  PROVE  Steps(s, t) /\ SameHost(s, t)
<1> PICK f : f = FindFile(s, name)
  OBVIOUS
<1> PICK u : u = f.fs
  OBVIOUS
<1> PICK i : i = f.i
  OBVIOUS
<1>1. Finds(s, u, i, name)
  BY FindFileIs
<1>2. i \in Slot /\ Sound(u) /\ Housed(u)
  BY <1>1 DEF Finds, Steps, Sound
<1> PICK c : c = Closed(u, i)
  OBVIOUS
<1>3. Closes(u, c, i)
  BY <1>2, ClosedIs
<1>4. t = [c EXCEPT !.file[i].name.base = Blank, !.file[i].fd = 0, !.file[i].rw = FALSE]
  BY Zenon DEF FileClose, Closed
<1> PICK m : m = [drive |-> c.file[i].name.drive, base |-> Blank]
  OBVIOUS
<1>5. c \in Store
  BY ONLY <1>3 DEF Closes, Housed
<1>6. Alters(c, t, i, m, 0, FALSE)
  BY ONLY <1>2, <1>4, <1>5, m = [drive |-> c.file[i].name.drive, base |-> Blank], AlterBlank
<1>7. m \in CpmName /\ m.base = Blank
  <2>1. c.file[i].name.drive \in Drives \cup {0}
    BY <1>2, <1>5 DEF Store, Lists, Entry, CpmName
  <2> QED
    BY <2>1 DEF CpmName
<1>8. Steps(u, t) /\ SameHost(u, t)
  BY <1>2, <1>3, <1>6, <1>7, GivenUp, ZenonT(30)
<1> QED
  BY <1>1, <1>8, StepsBoth DEF Finds

\* Reading through an open entry.
Reads(s, t, i, r, n, data) ==
  /\ Bumps(s, t)
  /\ \/ n = 1 /\ r < Length(t, Ino(t, i)) /\ data = t.ino[Ino(t, i)].data[r + 1]
     \/ n = 0 /\ r >= Length(t, Ino(t, i))

\* An open entry has an inode, and that a length.
LEMMA OpenLength ==
  ASSUME NEW s, Sound(s), NEW i \in Slot, s.file[i].fd # 0
  PROVE  Ino(s, i) \in DOMAIN s.ino /\ s.ino[Ino(s, i)].data \in Seq(Nat) /\ Length(s, Ino(s, i)) \in Nat
<1> PICK e : e = s.file[i].fd
  OBVIOUS
<1>1. e \in DOMAIN s.fds
  BY DEF Sound, Owned
<1> PICK x : x = s.fds[e].ino
  OBVIOUS
<1>2. x \in DOMAIN s.ino
  BY <1>1 DEF Sound, Housed
<1>3. s.ino \in [DOMAIN s.ino -> Inode]
  BY StoreFields, InosAre DEF Sound, Housed
<1>4. s.ino[x] \in Inode
  BY <1>2, <1>3
<1>5. s.ino[x].data \in Seq(Nat)
  BY ONLY <1>4 DEF Inode
<1>6. Len(s.ino[x].data) \in Nat
  BY ONLY <1>5
<1>7. Ino(s, i) = x
  BY DEF Ino
<1> QED
  BY <1>2, <1>5, <1>6, <1>7, ZenonT(30) DEF Length

\* Counting the records of an open entry does not reopen it.
LEMMA CountedOpen ==
  ASSUME NEW s, Sound(s), NEW i \in Slot, s.file[i].fd # 0
  PROVE  Counted(s, i) = s
BY DEF Counted, Reopen

\* file_read: a record inside the file, and the end only outside it.
LEMMA FileReadIs ==
  ASSUME NEW s, Sound(s), NEW i \in Slot, s.file[i].fd # 0, NEW r \in Nat,
         NEW x, x = FileRead(s, i, r), NEW t, t = x.fs, NEW n, n = x.n, NEW data, data = x.data
  PROVE  Reads(s, t, i, r, n, data)
<1>1. Reopen(s, i, FALSE, FALSE) = s
  BY DEF Reopen
<1> PICK a : a = Bump(s, i)
  OBVIOUS
<1>2. Bumps(s, a)
  BY BumpSteps
<1> PICK d : d = a.file[i].fd
  OBVIOUS
<1>3. d # 0
  BY <1>2 DEF Bumps, SameEntries
<1> PICK g : g = Data(a, d)
  OBVIOUS
<1>4. g = a.ino[Ino(a, i)].data /\ Len(g) = Length(a, Ino(a, i))
  BY ONLY g = Data(a, d), d = a.file[i].fd, Zenon DEF Data, Ino, Length
<1>5. Length(a, Ino(a, i)) \in Nat
  BY <1>2, <1>3, OpenLength DEF Bumps, Steps
<1>6. CASE r < Len(g)
  <2>1. x = [fs |-> a, n |-> 1, data |-> g[r + 1]]
    BY <1>1, <1>3, <1>6 DEF FileRead
  <2> QED
    BY <1>2, <1>4, <1>6, <2>1 DEF Reads
<1>7. CASE ~(r < Len(g))
  <2>0. ~(r < Len(Data(a, d)))
    BY <1>7
  <2>1. x.fs = a /\ x.n = 0
    BY <1>1, <1>3, <2>0 DEF FileRead
  <2>2. r >= Length(a, Ino(a, i))
    BY <1>4, <1>5, <1>7
  <2>3. t = a /\ n = 0
    BY <2>1
  <2> QED
    BY <1>2, <2>2, <2>3 DEF Reads
<1> QED
  BY <1>6, <1>7

\* An inode is given other data.
DataSet(s, t, x, g) ==
  /\ Steps(s, t) /\ t.dir = s.dir /\ t.fds = s.fds /\ t.file = s.file
  /\ DOMAIN t.ino = DOMAIN s.ino /\ t.ino[x].data = g
  /\ \A y \in DOMAIN s.ino : y # x => t.ino[y] = s.ino[y]

\* The store stays sound, and entries follow, when an inode's data are replaced.
LEMMA SetData ==
  ASSUME NEW s, Sound(s), NEW x \in DOMAIN s.ino, NEW g \in Seq(Nat),
         x \notin Linked(s) => Len(g) >= Length(s, x) \/ Length(s, x) < ExtentRecords,
         NEW t, t = [s EXCEPT !.ino[x].data = g]
  PROVE  DataSet(s, t, x, g)
<1>1. s \in Store /\ s.ino \in [DOMAIN s.ino -> Inode] /\ DOMAIN s.ino \subseteq Nat \ {0}
  BY StoreFields, InosAre DEF Sound, Housed
<1> PICK z : z = [s.ino EXCEPT ![x].data = g]
  OBVIOUS
<1> PICK h : h = s.ino
  OBVIOUS
<1>2. z \in [DOMAIN h -> Inode] /\ z[x].data = g /\ \A y \in DOMAIN h : y # x => z[y] = h[y]
  <2>1. h \in [DOMAIN h -> Inode] /\ x \in DOMAIN h
    BY <1>1
  <2>2. z = [h EXCEPT ![x].data = g]
    OBVIOUS
  <2> QED
    BY ONLY <2>1, <2>2, g \in Seq(Nat) DEF Inode
<1>3. DOMAIN z = DOMAIN h
  BY ONLY <1>2
<1>4. z \in Inos
  BY <1>1, <1>2, <1>3, InosAre
<1>5. t = [s EXCEPT !.ino = z]
  OBVIOUS
<1>6. t \in Store /\ t.dir = s.dir /\ t.ino = z /\ t.fds = s.fds /\ t.file = s.file /\ t.first = s.first
  BY ONLY <1>1, <1>4, <1>5, PutIno
<1>7. Housed(t)
  BY <1>3, <1>6 DEF Sound, Housed
<1>8. Sound(t)
  <2> PICK p : Chain(s, p)
    BY DEF Sound, Listed
  <2>1. Chain(t, p)
    BY <1>6 DEF Chain
  <2>2. Named(t) /\ Mapped(t)
    BY <1>6 DEF Sound, Named, Mapped
  <2>3. Owned(t)
    BY <1>6 DEF Sound, Owned
  <2> QED
    BY <1>7, <2>1, <2>2, <2>3 DEF Sound, Listed
<1>9. Follows(s, t)
  <2>1. ASSUME NEW j \in Slot, t.file[j].fd # 0 PROVE Remains(s, t, j)
    <3> PICK y : y = Ino(s, j)
      OBVIOUS
    <3>1. y \in DOMAIN s.ino /\ Length(s, y) \in Nat
      BY <1>6, <2>1, OpenLength
    <3>2. s.file[j].fd # 0 /\ t.file[j].name = s.file[j].name /\ Ino(t, j) = y /\ Linked(t) = Linked(s)
      BY <1>6, <2>1 DEF Ino, Linked
    <3>3. y \notin Linked(s) => Length(t, y) >= Length(s, y) \/ Length(s, y) < ExtentRecords
      <4>1. CASE y = x
        BY <1>2, <1>6, <4>1 DEF Length
      <4>2. CASE y # x
        <5>1. Length(t, y) = Length(s, y)
          BY <1>2, <1>6, <3>1, <4>2 DEF Length
        <5> QED
          BY <3>1, <5>1
      <4> QED
        BY <4>1, <4>2
    <3> QED
      BY <3>2, <3>3 DEF Remains
  <2> QED
    BY <2>1 DEF Follows
<1> QED
  BY <1>2, <1>3, <1>6, <1>8, <1>9 DEF DataSet, Steps, DirKept

\* A record is written through an open entry: the file holds it, and is no shorter.
HostWrites(s, t, i, r, v) ==
  \E g \in Seq(Nat) : DataSet(s, t, Ino(s, i), g) /\ r < Len(g) /\ g[r + 1] = v

\* pwrite.
LEMMA HostWriteIs ==
  ASSUME NEW s, Sound(s), NEW i \in Slot, s.file[i].fd # 0, NEW r \in Nat, NEW v \in Nat,
         NEW t, t = HostWrite(s, s.file[i].fd, r, v)
  PROVE  HostWrites(s, t, i, r, v)
<1> PICK x : x = Ino(s, i)
  OBVIOUS
<1> PICK h : h = s.ino[x].data
  OBVIOUS
<1>1. x \in DOMAIN s.ino /\ h \in Seq(Nat) /\ Length(s, x) = Len(h)
  BY OpenLength DEF Length
<1> PICK n : n = IF r >= Len(h) THEN r + 1 ELSE Len(h)
  OBVIOUS
<1> DEFINE g == [k \in 1..n |-> IF k = r + 1 THEN v ELSE IF k <= Len(h) THEN h[k] ELSE 0]
<1>2. Len(h) \in Nat
  BY ONLY <1>1
<1>3. n \in Nat /\ r < n /\ n >= Len(h)
  BY ONLY <1>2, r \in Nat, n = IF r >= Len(h) THEN r + 1 ELSE Len(h)
<1>4. g \in [1..n -> Nat]
  <2>1. \A k \in 1..n : k <= Len(h) => h[k] \in Nat
    BY ONLY <1>1, <1>2, <1>3
  <2> QED
    BY ONLY <2>1, v \in Nat
<1>5. g \in Seq(Nat) /\ Len(g) = n /\ g[r + 1] = v
  <2>1. g \in Seq(Nat) /\ DOMAIN g = 1..n
    BY <1>3, <1>4
  <2>2. Len(g) = n
    BY ONLY <1>3, <2>1
  <2>3. g[r + 1] = v
    BY <1>3
  <2> QED
    BY <2>1, <2>2, <2>3
<1>6. t = [s EXCEPT !.ino[x].data = g]
  BY ZenonT(30) DEF HostWrite, Ino
<1> HIDE DEF g
<1>7. DataSet(s, t, x, g)
  <2>1. Len(g) >= Length(s, x)
    BY ONLY <1>1, <1>2, <1>3, <1>5
  <2> QED
    BY <1>1, <1>5, <1>6, <2>1, SetData
<1> QED
  BY <1>3, <1>5, <1>7 DEF HostWrites

\* A file is cut, or filled up with zeros.
LEMMA HostTruncateIs ==
  ASSUME NEW s, Sound(s), NEW i \in Slot, s.file[i].fd # 0, NEW n \in Nat,
         Ino(s, i) \notin Linked(s) => Length(s, Ino(s, i)) < ExtentRecords,
         NEW t, t = HostTruncate(s, s.file[i].fd, n)
  PROVE  \E g \in Seq(Nat) : /\ DataSet(s, t, Ino(s, i), g)
                             /\ n = Length(s, Ino(s, i)) => g = s.ino[Ino(s, i)].data
<1> PICK x : x = Ino(s, i)
  OBVIOUS
<1> PICK h : h = s.ino[x].data
  OBVIOUS
<1>1. x \in DOMAIN s.ino /\ h \in Seq(Nat) /\ Length(s, x) = Len(h)
  BY OpenLength DEF Length
<1> DEFINE g == [k \in 1..n |-> IF k <= Len(h) THEN h[k] ELSE 0]
<1>2. Len(h) \in Nat
  BY ONLY <1>1
<1>3. g \in [1..n -> Nat]
  <2>1. \A k \in 1..n : k <= Len(h) => h[k] \in Nat
    BY ONLY <1>1, <1>2
  <2> QED
    BY ONLY <2>1
<1>4. g \in Seq(Nat)
  BY <1>3
<1>5. ASSUME n = Length(s, x) PROVE g = h
  <2>1. n = Len(h)
    BY <1>1, <1>5
  <2>2. h = [k \in 1..n |-> h[k]]
    BY ONLY <1>1, <2>1
  <2>3. \A k \in 1..n : k <= Len(h)
    BY ONLY <2>1, n \in Nat
  <2> QED
    BY <2>2, <2>3
<1>6. t = [s EXCEPT !.ino[x].data = g]
  BY ZenonT(30) DEF HostTruncate, Ino
<1> HIDE DEF g
<1>7. DataSet(s, t, x, g)
  BY <1>1, <1>4, <1>6, SetData
<1> QED
  BY <1>4, <1>5, <1>7

\* Writing through an open entry: it fails and no file is touched, or it is done.
Writes(s, t, i, r, v, n) ==
  /\ Steps(s, t) /\ t.file[i].name = s.file[i].name
  /\ \/ n = -1 /\ SameHost(s, t)
     \/ /\ n = 1 /\ t.dir = s.dir /\ t.file[i].fd # 0
        /\ r < Length(t, Ino(t, i)) /\ t.ino[Ino(t, i)].data[r + 1] = v

\* file_write, with the reopening for writing.
LEMMA FileWriteIs ==
  ASSUME NEW s, Sound(s), NEW i \in Slot, s.file[i].fd # 0, s.file[i].name.base \in Base,
         NEW r \in Nat, NEW v \in Nat,
         NEW x, x = FileWrite(s, i, r, v), NEW t, t = x.fs, NEW n, n = x.n
  PROVE  Writes(s, t, i, r, v, n)
<1> PICK no \in BOOLEAN : no = FALSE
  OBVIOUS
<1> PICK yes \in BOOLEAN : yes = TRUE
  OBVIOUS
<1> PICK b : b = Reopen(s, i, TRUE, FALSE)
  OBVIOUS
<1>1. Reopens(s, b, i, yes, no)
  <2>1. b = Reopen(s, i, yes, no)
    OBVIOUS
  <2> QED
    BY ONLY <2>1, Sound(s), i \in Slot, s.file[i].name.base \in Base, yes \in BOOLEAN, no \in BOOLEAN, ReopenIs
<1> PICK a : a = Bump(b, i)
  OBVIOUS
<1>2. Bumps(b, a)
  BY <1>1, BumpSteps DEF Reopens, Steps
<1>3. Steps(s, b) /\ SameHost(s, b) /\ b.file[i].name = s.file[i].name
  BY <1>1 DEF Reopens
<1>4. Steps(s, a) /\ SameHost(s, a) /\ a.file[i].name = s.file[i].name /\ Sound(a)
  <2>1. Steps(b, a) /\ SameHost(b, a) /\ a.file[i].name = b.file[i].name
    BY <1>2 DEF Bumps, SameHost, SameEntries
  <2> QED
    BY <1>3, <2>1, StepsBoth DEF Steps
<1> PICK d : d = a.file[i].fd
  OBVIOUS
<1>5. CASE d = 0
  <2>1. x = [fs |-> a, n |-> -1, data |-> v]
    BY <1>5 DEF FileWrite
  <2>2. t = a /\ n = -1
    BY <2>1
  <2> QED
    BY ONLY <1>4, <2>2 DEF Writes
<1>6. CASE d # 0
  <2> PICK w : w = HostWrite(a, d, r, v)
    OBVIOUS
  <2>1. x = [fs |-> w, n |-> 1, data |-> v]
    BY <1>6 DEF FileWrite
  <2>2. t = w /\ n = 1
    BY <2>1
  <2>3. HostWrites(a, w, i, r, v)
    <3>1. w = HostWrite(a, a.file[i].fd, r, v) /\ a.file[i].fd # 0
      BY <1>6
    <3>2. Sound(a)
      BY <1>4
    <3> QED
      BY ONLY <3>1, <3>2, i \in Slot, r \in Nat, v \in Nat, HostWriteIs
  <2> PICK g \in Seq(Nat) : DataSet(a, w, Ino(a, i), g) /\ r < Len(g) /\ g[r + 1] = v
    BY <2>3 DEF HostWrites
  <2>0. r < Len(g) /\ g[r + 1] = v
    OBVIOUS
  <2>4. Steps(a, w) /\ w.dir = a.dir /\ w.fds = a.fds /\ w.file = a.file /\ w.ino[Ino(a, i)].data = g
    BY ZenonT(30) DEF DataSet
  <2>5. Ino(w, i) = Ino(a, i) /\ Length(w, Ino(a, i)) = Len(g)
    BY <2>4, ZenonT(30) DEF Ino, Length
  <2>6. Steps(s, w)
    BY ONLY Sound(s), <1>4, <2>4, StepsOn
  <2>7. w.file[i].fd # 0 /\ w.file[i].name = s.file[i].name /\ w.dir = s.dir
    BY <1>4, <1>6, <2>4, ZenonT(30) DEF SameHost
  <2> QED
    BY ONLY <2>0, <2>2, <2>4, <2>5, <2>6, <2>7 DEF Writes
<1> QED
  BY <1>5, <1>6

\* Giving an open file a length that is not the one it has: what is changed is the inode
\* of the entry, or that of its name.
SetsCount(s, t, i, n) ==
  /\ Steps(s, t) /\ t.file[i].name = s.file[i].name /\ t.dir = s.dir
  /\ \A y \in DOMAIN t.ino :
       /\ y \in DOMAIN s.ino
       /\ t.ino[y].data # s.ino[y].data =>
            /\ n # Length(s, Ino(s, i)) /\ n # Length(s, y)
            /\ y = Ino(s, i) \/ (s.file[i].name.base \in DOMAIN s.dir /\ y = s.dir[s.file[i].name.base])

\* file_setrecordcount.
LEMMA FileSetRecordCountIs ==
  ASSUME NEW s, Sound(s), NEW i \in Slot, s.file[i].fd # 0, s.file[i].name.base \in Base,
         NEW n \in Nat, NEW count, count = Length(s, Ino(s, i)), count < ExtentRecords,
         NEW t, t = FileSetRecordCount(s, i, n, count)
  PROVE  SetsCount(s, t, i, n)
<1>1. Counted(s, i) = s
  BY CountedOpen
<1>2. Steps(s, s)
  BY StepsSame
<1>3. CASE n = count
  <2>1. t = s
    BY <1>1, <1>3 DEF FileSetRecordCount
  <2> QED
    BY <1>2, <2>1 DEF SetsCount
<1>4. CASE n # count
  <2> PICK no \in BOOLEAN : no = FALSE
    OBVIOUS
  <2> PICK yes \in BOOLEAN : yes = TRUE
    OBVIOUS
  <2> PICK b : b = Reopen(s, i, TRUE, FALSE)
    OBVIOUS
  <2>1. Reopens(s, b, i, yes, no)
    <3>1. b = Reopen(s, i, yes, no)
      OBVIOUS
    <3> QED
      BY ONLY <3>1, Sound(s), i \in Slot, s.file[i].name.base \in Base, yes \in BOOLEAN, no \in BOOLEAN, ReopenIs
  <2>2. Steps(s, b) /\ Sound(b) /\ SameHost(s, b) /\ b.file[i].name = s.file[i].name
        /\ (b = s \/ (b.file[i].fd # 0 => Current(b, i)))
    BY <2>1 DEF Reopens, Steps
  <2>3. CASE b.file[i].fd = 0
    <3>1. t = b
      BY <1>1, <1>4, <2>3 DEF FileSetRecordCount
    <3> QED
      BY <2>2, <3>1 DEF SetsCount, SameHost
  <2>4. CASE b.file[i].fd # 0
    <3>1. t = HostTruncate(b, b.file[i].fd, n)
      BY <1>1, <1>4, <2>4 DEF FileSetRecordCount
    <3> PICK x : x = Ino(b, i)
      OBVIOUS
    <3>2. x \notin Linked(b) => Length(b, x) < ExtentRecords
      <4>1. CASE b = s
        BY <4>1
      <4>2. CASE Current(b, i)
        BY <4>2 DEF Current, Linked
      <4> QED
        BY <2>2, <2>4, <4>1, <4>2
    <3>3. \E g \in Seq(Nat) : DataSet(b, t, x, g) /\ (n = Length(b, x) => g = b.ino[x].data)
      BY <2>2, <2>4, <3>1, <3>2, HostTruncateIs
    <3> PICK g \in Seq(Nat) : DataSet(b, t, x, g) /\ (n = Length(b, x) => g = b.ino[x].data)
      BY <3>3
    <3>4. /\ Steps(b, t) /\ t.dir = b.dir /\ t.file = b.file
          /\ DOMAIN t.ino = DOMAIN b.ino /\ t.ino[x].data = g
          /\ \A y \in DOMAIN b.ino : y # x => t.ino[y] = b.ino[y]
      BY DEF DataSet
    <3>5. Steps(s, t) /\ t.file[i].name = s.file[i].name /\ t.dir = s.dir
      BY <2>2, <3>4, StepsOn DEF SameHost
    <3>6. ASSUME NEW y \in DOMAIN t.ino
          PROVE  /\ y \in DOMAIN s.ino
                 /\ t.ino[y].data # s.ino[y].data =>
                      /\ n # Length(s, Ino(s, i)) /\ n # Length(s, y)
                      /\ y = Ino(s, i) \/ (s.file[i].name.base \in DOMAIN s.dir /\ y = s.dir[s.file[i].name.base])
      <4>1. y \in DOMAIN b.ino /\ y \in DOMAIN s.ino /\ b.ino[y] = s.ino[y]
        BY <2>2, <3>4, <3>6 DEF SameHost
      <4>2. ASSUME t.ino[y].data # s.ino[y].data
            PROVE  /\ n # Length(s, Ino(s, i)) /\ n # Length(s, y)
                   /\ y = Ino(s, i) \/ (s.file[i].name.base \in DOMAIN s.dir /\ y = s.dir[s.file[i].name.base])
        <5>1. y = x
          BY <3>4, <4>1, <4>2
        <5>2. n # Length(s, y)
          BY <3>4, <4>1, <4>2, <5>1, ZenonT(30) DEF Length
        <5>3. n # Length(s, Ino(s, i))
          BY <1>4
        <5>4. CASE b = s
          BY <5>1, <5>2, <5>3, <5>4
        <5>5. CASE Current(b, i)
          <6>1. b.file[i].name.base \in DOMAIN b.dir /\ b.dir[b.file[i].name.base] = x
            BY <5>5 DEF Current
          <6>2. s.file[i].name.base \in DOMAIN s.dir /\ s.dir[s.file[i].name.base] = x
            BY <2>2, <6>1 DEF SameHost
          <6> QED
            BY <5>1, <5>2, <5>3, <6>2
        <5> QED
          BY <2>2, <2>4, <5>4, <5>5
      <4> QED
        BY <4>1, <4>2
    <3> QED
      BY <3>5, <3>6 DEF SetsCount
  <2> QED
    BY <2>3, <2>4
<1> QED
  BY <1>3, <1>4

-----------------------------------------------------------------------------
(* Names that change, and what the blocks know *)

\* The directory becomes another one of the same files.
Redirects(s, t, D) ==
  /\ Sound(t) /\ Follows(s, t) /\ t.dir = D
  /\ \A x \in DOMAIN t.ino : x \in DOMAIN s.ino /\ t.ino[x] = s.ino[x]

\* So the store stays sound, and the inodes that lost their names are gone or kept open.
LEMMA RedirectIs ==
  ASSUME NEW s, Sound(s), NEW D \in Dirs, \A b \in DOMAIN D : D[b] \in Linked(s),
         \A b, c \in DOMAIN D : D[b] = D[c] => b = c, NEW t, t = Collect([s EXCEPT !.dir = D])
  PROVE  Redirects(s, t, D)
<1>1. s \in Store
  BY DEF Sound, Housed
<1> PICK u : u = [s EXCEPT !.dir = D]
  OBVIOUS
<1>2. u \in Store /\ u.dir = D /\ u.ino = s.ino /\ u.fds = s.fds /\ u.file = s.file /\ u.first = s.first
  BY ONLY <1>1, D \in Dirs, u = [s EXCEPT !.dir = D] DEF Store
<1>3. \A x \in Linked(s) : x \in DOMAIN s.ino
  BY DEF Linked, Sound, Housed
<1>4. Housed(t) /\ SameHost(u, t) /\ SameList(u, t) /\ t.fds = u.fds
  <2>1. /\ IsFiniteSet(DOMAIN u.ino) /\ IsFiniteSet(DOMAIN u.fds)
        /\ \A b \in DOMAIN u.dir : u.dir[b] \in DOMAIN u.ino
        /\ \A d \in DOMAIN u.fds : u.fds[d].ino \in DOMAIN u.ino
        /\ \A b, c \in DOMAIN u.dir : u.dir[b] = u.dir[c] => b = c
    BY <1>2, <1>3 DEF Sound, Housed
  <2>2. t = Collect(u)
    OBVIOUS
  <2> QED
    BY ONLY <1>2, <2>1, <2>2, CollectIs
<1>5. /\ t.dir = D /\ t.fds = s.fds /\ t.file = s.file /\ t.first = s.first
      /\ \A x \in DOMAIN t.ino : x \in DOMAIN s.ino /\ t.ino[x] = s.ino[x]
  BY <1>2, <1>4 DEF SameHost, SameList
<1>6. Sound(t)
  <2> PICK p : Chain(s, p)
    BY DEF Sound, Listed
  <2>1. Chain(t, p)
    BY ONLY <1>5, Chain(s, p) DEF Chain
  <2>2. Named(t) /\ Mapped(t)
    BY <1>5 DEF Sound, Named, Mapped
  <2>3. Owned(t)
    BY <1>5 DEF Sound, Owned
  <2> QED
    BY <1>4, <2>1, <2>2, <2>3 DEF Sound, Listed
<1>7. ASSUME NEW i \in Slot, t.file[i].fd # 0 PROVE Remains(s, t, i)
  <2> PICK x : x = Ino(t, i)
    OBVIOUS
  <2>1. x \in DOMAIN t.ino /\ Length(t, x) \in Nat
    BY <1>6, <1>7, OpenLength
  <2>2. Ino(s, i) = x /\ s.file[i].fd # 0 /\ t.file[i].name = s.file[i].name
    BY <1>5, <1>7 DEF Ino
  <2>3. Length(t, x) = Length(s, x)
    BY <1>5, <2>1 DEF Length
  <2>4. x \in Linked(t) => x \in Linked(s)
    BY <1>5 DEF Linked
  <2> QED
    BY <2>1, <2>2, <2>3, <2>4 DEF Remains
<1> QED
  BY <1>5, <1>6, <1>7 DEF Redirects, Follows

\* A step under which only some names change: one of these that is still there has had
\* its file replaced by another.
Moves(s, t, names) ==
  /\ Sound(t) /\ Follows(s, t)
  /\ \A b \in DOMAIN s.dir : b \notin names => b \in DOMAIN t.dir /\ t.dir[b] = s.dir[b]
  /\ \A b \in DOMAIN s.dir : b \in names /\ b \in DOMAIN t.dir =>
       /\ s.dir[b] \notin Linked(t)
       /\ s.dir[b] \in DOMAIN t.ino => Length(t, s.dir[b]) = Length(s, s.dir[b])

\* A step under which no name changes.
LEMMA StepsMoves ==
  ASSUME NEW s, NEW t, Steps(s, t)
  PROVE  Moves(s, t, {})
BY DEF Steps, DirKept, Moves

\* file_delete: the names that match are gone.
LEMMA FileDeleteIs ==
  ASSUME NEW s, Sound(s), NEW drive, NEW pattern, NEW t, t = FileDelete(s, drive, pattern),
         NEW gone, gone = Matching(s, drive, pattern)
  PROVE  Moves(s, t, gone) /\ DOMAIN t.dir = DOMAIN s.dir \ gone
<1> PICK D : D = Restrict(s.dir, DOMAIN s.dir \ gone)
  OBVIOUS
<1>1. DOMAIN D = DOMAIN s.dir \ gone /\ \A b \in DOMAIN s.dir \ gone : D[b] = s.dir[b]
  BY RestrictIs
<1>2. s \in Store /\ DOMAIN s.dir \subseteq Base /\ s.dir \in [DOMAIN s.dir -> Nat \ {0}]
  BY StoreFields, DirsAre DEF Sound, Housed
<1>3. D \in Dirs
  <2>1. D = [b \in DOMAIN s.dir \ gone |-> s.dir[b]]
    BY DEF Restrict
  <2>2. D \in [DOMAIN s.dir \ gone -> Nat \ {0}]
    BY <1>2, <2>1
  <2>3. D \in [DOMAIN D -> Nat \ {0}] /\ DOMAIN D \subseteq Base
    BY <1>1, <1>2, <2>2
  <2> QED
    BY <2>3, DirsAre
<1>4. t = Collect([s EXCEPT !.dir = D])
  BY DEF FileDelete
<1>5. \A b \in DOMAIN D : D[b] \in Linked(s)
  BY <1>1 DEF Linked
<1>6. \A b, c \in DOMAIN D : D[b] = D[c] => b = c
  BY <1>1 DEF Sound, Housed
<1>7. Redirects(s, t, D)
  BY ONLY Sound(s), <1>3, <1>4, <1>5, <1>6, RedirectIs
<1>8. t.dir = D /\ Sound(t) /\ Follows(s, t)
  BY <1>7 DEF Redirects
<1>9. Moves(s, t, gone)
  BY ONLY <1>1, <1>8 DEF Moves
<1> QED
  BY <1>1, <1>8, <1>9

\* file_rename: the old name is gone, and the new one, if it had a file, has another.
LEMMA FileRenameIs ==
  ASSUME NEW s, Sound(s), NEW base \in DOMAIN s.dir, NEW new \in Base, new # base,
         NEW t, t = FileRename(s, base, new)
  PROVE  Moves(s, t, {new, base}) /\ DOMAIN t.dir = (DOMAIN s.dir \cup {new}) \ {base}
<1> PICK E : E = (DOMAIN s.dir \cup {new}) \ {base}
  OBVIOUS
<1> PICK D : D = Restrict(Bind(s.dir, new, s.dir[base]), E)
  OBVIOUS
<1>1. DOMAIN D = E /\ D[new] = s.dir[base] /\ \A b \in E : b # new => D[b] = s.dir[b]
  <2>1. D = [b \in E |-> Bind(s.dir, new, s.dir[base])[b]]
    BY DEF Restrict
  <2>2. D = [b \in E |-> IF b = new THEN s.dir[base] ELSE s.dir[b]]
    BY <2>1 DEF Bind
  <2> QED
    BY <2>2
<1>2. s \in Store /\ DOMAIN s.dir \subseteq Base /\ s.dir \in [DOMAIN s.dir -> Nat \ {0}]
  BY StoreFields, DirsAre DEF Sound, Housed
<1>3. D \in Dirs
  <2>1. D = [b \in E |-> D[b]]
    <3>1. D = [b \in E |-> Bind(s.dir, new, s.dir[base])[b]]
      BY DEF Restrict
    <3> QED
      BY <3>1
  <2>2. \A b \in E : D[b] \in Nat \ {0}
    BY <1>1, <1>2
  <2>3. D \in [E -> Nat \ {0}]
    BY ONLY <2>1, <2>2
  <2>4. D \in [DOMAIN D -> Nat \ {0}] /\ DOMAIN D \subseteq Base
    BY <1>1, <1>2, <2>3
  <2> QED
    BY <2>4, DirsAre
<1>4. t = Collect([s EXCEPT !.dir = D])
  BY DEF FileRename
<1>5. \A b \in DOMAIN D : D[b] \in Linked(s)
  BY <1>1 DEF Linked
<1>6. \A b, c \in DOMAIN s.dir : s.dir[b] = s.dir[c] => b = c
  BY DEF Sound, Housed
<1>7. \A b, c \in DOMAIN D : D[b] = D[c] => b = c
  BY <1>1, <1>6
<1>8. Redirects(s, t, D)
  BY ONLY Sound(s), <1>3, <1>4, <1>5, <1>7, RedirectIs
<1>9. t.dir = D /\ Sound(t) /\ Follows(s, t) /\ \A x \in DOMAIN t.ino : t.ino[x] = s.ino[x]
  BY <1>8 DEF Redirects
<1>10. \A b \in DOMAIN s.dir : b \notin {new, base} => b \in DOMAIN t.dir /\ t.dir[b] = s.dir[b]
  BY <1>1, <1>9
<1>11. ASSUME NEW b \in DOMAIN s.dir, b \in {new, base}, b \in DOMAIN t.dir
       PROVE  /\ s.dir[b] \notin Linked(t)
              /\ s.dir[b] \in DOMAIN t.ino => Length(t, s.dir[b]) = Length(s, s.dir[b])
  <2>1. b = new
    BY <1>1, <1>9, <1>11
  <2>2. ASSUME NEW c \in DOMAIN t.dir, t.dir[c] = s.dir[b] PROVE FALSE
    <3>1. c \in E /\ D[c] = s.dir[b]
      BY <1>1, <1>9, <2>2
    <3>2. CASE c = new
      BY <1>1, <1>6, <1>11, <2>1, <3>1, <3>2
    <3>3. CASE c # new
      BY <1>1, <1>6, <1>11, <2>1, <3>1, <3>3
    <3> QED
      BY <3>2, <3>3
  <2>3. s.dir[b] \notin Linked(t)
    BY <2>2 DEF Linked
  <2> QED
    BY <1>9, <2>3 DEF Length
<1> QED
  BY <1>1, <1>9, <1>10, <1>11 DEF Moves

\* A block with count n knows the length of the file of name b: it is the file's when that
\* is less than an extent.  An entry that is open under the name is open on the file, or
\* on one without a name that is less than an extent only if the file is.
FreshOf(s, b, n) ==
  /\ b \in DOMAIN s.dir
  /\ Length(s, s.dir[b]) < ExtentRecords => n = Length(s, s.dir[b])
  /\ \A i \in Slot : s.file[i].fd # 0 /\ s.file[i].name.base = b =>
       \/ Current(s, i)
       \/ /\ Ino(s, i) \notin Linked(s)
          /\ Length(s, Ino(s, i)) < ExtentRecords => Length(s, s.dir[b]) < ExtentRecords

\* So it does after a step that leaves the file its name and a file of that length.
LEMMA FreshMoves ==
  ASSUME NEW s, Sound(s), NEW t, NEW names, Moves(s, t, names), NEW b, NEW n, FreshOf(s, b, n),
         b \in DOMAIN t.dir, Length(t, t.dir[b]) = Length(s, s.dir[b])
  PROVE  FreshOf(t, b, n)
<1>1. Sound(t) /\ ExtentRecords \in Nat
  BY EmBdosAssumption DEF Moves
<1>2. b \in DOMAIN s.dir
  BY DEF FreshOf
<1>3. ASSUME NEW i \in Slot, t.file[i].fd # 0, t.file[i].name.base = b, ~Current(t, i)
      PROVE  /\ Ino(t, i) \notin Linked(t)
             /\ Length(t, Ino(t, i)) < ExtentRecords => Length(t, t.dir[b]) < ExtentRecords
  <2> PICK x : x = Ino(s, i)
    OBVIOUS
  <2>1. Remains(s, t, i)
    BY <1>3 DEF Moves, Follows
  <2>2. Ino(t, i) = x /\ s.file[i].fd # 0 /\ s.file[i].name.base = b
    BY <1>3, <2>1 DEF Remains
  <2>3. Length(t, x) \in Nat /\ x \in DOMAIN t.ino
    BY <1>1, <1>3, <2>2, OpenLength
  <2>4. Length(s, x) \in Nat
    BY <2>2, OpenLength
  <2>5. CASE Current(s, i)
    <3>1. s.dir[b] = x
      BY <2>2, <2>5 DEF Current
    <3>2. CASE b \notin names
      <4>1. t.dir[b] = x
        BY <1>2, <3>1, <3>2 DEF Moves
      <4> QED
        BY <1>3, <2>2, <4>1 DEF Current
    <3>3. CASE b \in names
      <4>1. x \notin Linked(t) /\ Length(t, x) = Length(s, x)
        BY <1>2, <2>3, <3>1, <3>3 DEF Moves
      <4> QED
        BY <2>2, <3>1, <4>1
    <3> QED
      BY <3>2, <3>3
  <2>6. CASE ~Current(s, i)
    <3>1. x \notin Linked(s) /\ (Length(s, x) < ExtentRecords => Length(s, s.dir[b]) < ExtentRecords)
      BY <2>2, <2>6 DEF FreshOf
    <3>2. x \notin Linked(t) /\ (Length(t, x) >= Length(s, x) \/ Length(s, x) < ExtentRecords)
      BY <2>1, <3>1 DEF Remains
    <3>3. Length(t, x) < ExtentRecords => Length(s, x) < ExtentRecords
      BY ONLY <1>1, <2>3, <2>4, <3>2
    <3> QED
      BY <2>2, <3>1, <3>2, <3>3
  <2> QED
    BY <2>5, <2>6
<1>4. Length(t, t.dir[b]) < ExtentRecords => n = Length(t, t.dir[b])
  BY DEF FreshOf
<1> QED
  BY <1>3, <1>4 DEF FreshOf

\* Every open entry whose name is not in L is open on the file of its name.
AllCurrent(s, L) == \A i \in Slot : s.file[i].fd # 0 /\ s.file[i].name.base \notin L => Current(s, i)

\* So it is when the names that change are counted in.
LEMMA StaleMoves ==
  ASSUME NEW s, NEW t, NEW names, Moves(s, t, names), NEW L, AllCurrent(s, L)
  PROVE  AllCurrent(t, (L \cup names) \cap Kept(t))
<1> SUFFICES ASSUME NEW i \in Slot, t.file[i].fd # 0,
                    t.file[i].name.base \notin (L \cup names) \cap Kept(t), ~Current(t, i)
             PROVE  FALSE
  BY DEF AllCurrent
<1> PICK b : b = t.file[i].name.base
  OBVIOUS
<1>1. b \in Kept(t)
  BY SMTT(30) DEF Kept
<1>2. b \notin L /\ b \notin names
  BY <1>1
<1>3. Remains(s, t, i)
  BY DEF Moves, Follows
<1>4. Current(s, i) /\ s.file[i].name.base = b /\ Ino(t, i) = Ino(s, i)
  BY <1>2, <1>3 DEF Remains, AllCurrent
<1>5. b \in DOMAIN s.dir /\ s.dir[b] = Ino(s, i)
  BY <1>4 DEF Current
<1>6. b \in DOMAIN t.dir /\ t.dir[b] = s.dir[b]
  BY <1>2, <1>5 DEF Moves
<1> QED
  BY <1>4, <1>5, <1>6 DEF Current

\* The files to start from are sound: no entry is open.
LEMMA FilesInitIs ==
  ASSUME NEW h \in Hosts, NEW s, s = FilesInit(h.dir, h.ino)
  PROVE  Sound(s) /\ \A L : AllCurrent(s, L)
<1> PICK D : D = h.dir
  OBVIOUS
<1> PICK I : I = h.ino
  OBVIOUS
<1>1. /\ IsFiniteSet(DOMAIN I) /\ DOMAIN I \subseteq Nat \ {0} /\ I \in [DOMAIN I -> Inode]
      /\ DOMAIN D \subseteq Base /\ D \in [DOMAIN D -> DOMAIN I] /\ IsInjective(D)
  BY EmBdosAssumption DEF Inode
<1>2. s.dir = D /\ s.ino = I /\ s.fds = <<>> /\ s.first = 1
  BY DEF FilesInit
<1>3. \A i \in Slot : /\ s.file[i].prev = i - 1
                      /\ s.file[i].next = IF i = NumFiles THEN 0 ELSE i + 1
                      /\ s.file[i].name = [drive |-> 0, base |-> Blank]
                      /\ s.file[i].fd = 0 /\ s.file[i].rw = FALSE
  BY DEF FilesInit
<1>4. NumFiles \in Nat \ {0} /\ Slot = 1..NumFiles
  BY EmFileAssumption DEF Slot
<1>5. s.file \in Lists
  <2>1. \A i \in Slot : i - 1 \in Slot \cup {0} /\ (IF i = NumFiles THEN 0 ELSE i + 1) \in Slot \cup {0}
    BY <1>4
  <2>2. [drive |-> 0, base |-> Blank] \in CpmName
    BY DEF CpmName
  <2>3. \A i \in Slot : [prev |-> i - 1, next |-> IF i = NumFiles THEN 0 ELSE i + 1,
                         name |-> [drive |-> 0, base |-> Blank], fd |-> 0, rw |-> FALSE] \in Entry
    BY <2>1, <2>2 DEF Entry
  <2>4. s.file = [i \in Slot |-> [prev |-> i - 1, next |-> IF i = NumFiles THEN 0 ELSE i + 1,
                                  name |-> [drive |-> 0, base |-> Blank], fd |-> 0, rw |-> FALSE]]
    BY DEF FilesInit
  <2> QED
    BY ONLY <2>3, <2>4 DEF Lists
<1>6. DOMAIN s.fds = {} /\ s.fds \in Fds
  <2>1. DOMAIN s.fds = {} /\ s.fds \in [DOMAIN s.fds -> Descriptor]
    BY ONLY <1>2
  <2> QED
    BY <2>1, FdsAre
<1>7. D \in Dirs /\ I \in Inos
  BY <1>1, DirsAre, InosAre
<1>8. s \in Store
  <2>1. 1 \in Slot
    BY <1>4
  <2>2. s = [dir |-> s.dir, ino |-> s.ino, fds |-> s.fds, first |-> s.first, file |-> s.file]
    BY DEF FilesInit
  <2> QED
    BY ONLY <1>2, <1>5, <1>6, <1>7, <2>1, <2>2 DEF Store
<1>9. Housed(s)
  <2>1. IsFiniteSet(DOMAIN s.fds)
    BY <1>6, FS_EmptySet
  <2>2. \A b, c \in DOMAIN D : D[b] = D[c] => b = c
    BY <1>1 DEF IsInjective
  <2> QED
    BY <1>1, <1>2, <1>6, <1>8, <2>1, <2>2 DEF Housed
<1>10. Listed(s)
  <2> PICK p : p = [k \in Slot |-> k]
    OBVIOUS
  <2>1. Chain(s, p)
    BY <1>2, <1>3, <1>4 DEF Chain
  <2> QED
    BY <2>1 DEF Listed
<1>11. Named(s) /\ Owned(s) /\ Mapped(s)
  BY <1>3, <1>6 DEF Named, Owned, Mapped
<1> QED
  BY <1>3, <1>9, <1>10, <1>11 DEF Sound, AllCurrent

-----------------------------------------------------------------------------
(* The calls of the program *)

Block  == [drive : Drives \cup {0}, extent : 0..Extents - 1, count : 0..ExtentRecords,
           record : 0..ExtentRecords - 1]
Search == [dir : BOOLEAN, pattern : SUBSET Base, left : SUBSET Base, due : SUBSET Base,
           calm : BOOLEAN]

EmTyped ==
  /\ fcb \in [Fcb -> Block] /\ disk \in Drives /\ crashed \in BOOLEAN
  /\ loose \subseteq Base /\ fresh \subseteq Fcb /\ calls \in 0..MaxCalls

\* A search that was not disturbed has yet to return what it has yet to read; one that
\* has reached the end has read everything.
SearchSound(q, D) ==
  /\ q \in Search
  /\ q.calm => q.due = q.left \cap q.pattern \cap D /\ (~q.dir => q.left = {})

Knows(f) == fcb[f].drive = MappedDrive /\ FreshOf(fs, FcbBase[f], fcb[f].count)

\* The inductive invariant: the files are sound, only loose names have entries that are
\* open on another file, and a fresh block knows the length of its file.
EmInv ==
  /\ Sound(fs) /\ EmTyped /\ AllCurrent(fs, loose) /\ SearchSound(search, DOMAIN fs.dir)
  /\ \A f \in fresh : Knows(f)

\* A block's place and count, wherever it is put.
LEMMA PlacedIs ==
  ASSUME NEW b \in Block, NEW r \in Nat, NEW n \in Nat, NEW v, v = Placed(b, r, n)
  PROVE  v \in Block /\ v.drive = b.drive /\ (n < ExtentRecords => v.count = n)
<1> PICK E : E = ExtentRecords
  OBVIOUS
<1>1. E \in Nat \ {0} /\ Extents \in Nat \ {0}
  BY EmBdosAssumption
<1> PICK e : e = (r \div E) % Extents
  OBVIOUS
<1> PICK c : c = IF e < n \div E THEN E ELSE n % E
  OBVIOUS
<1>2. e \in 0..Extents - 1 /\ r % E \in 0..E - 1
  <2>1. r \div E \in Nat
    BY <1>1
  <2> QED
    BY <1>1, <2>1
<1>3. c \in 0..E /\ (n < E => c = n)
  <2>1. n \div E \in Nat /\ n % E \in 0..E - 1
    BY <1>1
  <2>2. n < E => n \div E = 0 /\ n % E = n
    BY <1>1
  <2> QED
    BY <1>1, <1>2, <2>1, <2>2
<1>4. v = [b EXCEPT !.extent = e, !.record = r % E, !.count = c]
  BY DEF Placed
<1>5. v.drive = b.drive /\ v.count = c
  BY ONLY b \in Block, <1>4 DEF Block
<1>6. v \in Block
  BY ONLY b \in Block, <1>2, <1>3, <1>4, E = ExtentRecords DEF Block
<1> QED
  BY <1>3, <1>5, <1>6

\* The block as a call first leaves it, and the name it is for.
LEMMA BlockAt ==
  ASSUME EmTyped, NEW f \in Fcb
  PROVE  /\ At(f) \in Block /\ At(f).drive = DriveOf(f) /\ At(f).count = fcb[f].count
         /\ DriveOf(f) \in Drives /\ NameOf(f) \in CpmFile /\ CurrentRecord(f) \in Nat
         /\ NameOf(f).base = FcbBase[f] /\ NameOf(f).drive = DriveOf(f) /\ FcbBase[f] \in Base
         /\ fcb[f].drive = MappedDrive => DriveOf(f) = MappedDrive
         /\ fcb[f].count \in 0..ExtentRecords
<1> PICK b : b = fcb[f]
  OBVIOUS
<1>1. b \in Block /\ disk \in Drives /\ FcbBase[f] \in Base
  BY EmBdosAssumption DEF EmTyped
<1>2. DriveOf(f) \in Drives
  BY <1>1 DEF DriveOf, Block
<1> PICK d : d = DriveOf(f)
  OBVIOUS
<1>3. At(f) = [b EXCEPT !.drive = d]
  BY DEF At
<1>4. At(f) \in Block /\ At(f).drive = d /\ At(f).count = b.count
  BY <1>1, <1>2, <1>3 DEF Block
<1>5. NameOf(f) \in CpmFile /\ NameOf(f).base = FcbBase[f] /\ NameOf(f).drive = DriveOf(f)
  BY <1>1, <1>2 DEF NameOf, CpmFile
<1>6. CurrentRecord(f) \in Nat
  <2>1. b.extent \in Nat /\ b.record \in Nat /\ ExtentRecords \in Nat
    BY <1>1, EmBdosAssumption DEF Block
  <2>2. b.extent * ExtentRecords + b.record \in Nat
    BY ONLY <2>1
  <2> QED
    BY <2>2 DEF CurrentRecord
<1>7. fcb[f].drive = MappedDrive => DriveOf(f) = MappedDrive
  BY EmFileAssumption DEF DriveOf
<1>8. fcb[f].count \in 0..ExtentRecords
  BY <1>1 DEF Block
<1> QED
  BY <1>1, <1>2, <1>4, <1>5, <1>6, <1>7, <1>8

\* What a call with block f leaves: v in the block, and names changed.
Leaves(f, v, names) ==
  /\ v \in Block /\ v.drive = DriveOf(f) /\ fcb' = [fcb EXCEPT ![f] = v]
  /\ ret'.op \notin Placing => v.count = fcb[f].count
  /\ Learns(f) => FreshOf(fs', FcbBase[f], v.count)
  /\ names \subseteq Base /\ Moves(fs, fs', names) /\ History(f, names)
  /\ calls' \in 0..MaxCalls /\ crashed' \in BOOLEAN /\ disk' = disk
  /\ SearchSound(search', DOMAIN fs'.dir)

\* The names kept open.
LEMMA SameLengthIs ==
  ASSUME NEW b, SameLength(b)
  PROVE  /\ b \in DOMAIN fs.dir /\ b \in DOMAIN fs'.dir
         /\ Length(fs', fs'.dir[b]) = Length(fs, fs.dir[b])
BY DEF SameLength, Files, Length

\* What is loose after a call is what was, and what it changed.
LEMMA LooseStays ==
  ASSUME AllCurrent(fs, loose), NEW f, NEW names, Moves(fs, fs', names), History(f, names)
  PROVE  AllCurrent(fs', loose')
<1> PICK s : s = fs
  OBVIOUS
<1> PICK t : t = fs'
  OBVIOUS
<1> PICK L : L = loose
  OBVIOUS
<1>1. AllCurrent(t, (L \cup names) \cap Kept(t))
  BY StaleMoves
<1>2. loose' = (L \cup names) \cap Kept(t)
  BY DEF History
<1> QED
  BY <1>1, <1>2

\* Every call that leaves no more than that keeps the invariant.
LEMMA LeavesKeeps ==
  ASSUME EmInv, NEW f \in Fcb, NEW v, NEW names, Leaves(f, v, names)
  PROVE  EmInv'
<1>1. Sound(fs) /\ EmTyped /\ AllCurrent(fs, loose)
  BY DEF EmInv
<1>2. Moves(fs, fs', names) /\ History(f, names)
  BY DEF Leaves
<1>3. Sound(fs)'
  BY <1>2 DEF Moves
<1>4. AllCurrent(fs, loose)'
  BY <1>1, <1>2, LooseStays
<1>5. EmTyped'
  <2>1. loose' \subseteq Base /\ fresh' \subseteq Fcb
    BY <1>1, <1>2 DEF History, Leaves, EmTyped
  <2>2. fcb' \in [Fcb -> Block]
    BY <1>1 DEF EmTyped, Leaves
  <2> QED
    BY <1>1, <2>1, <2>2 DEF EmTyped, Leaves
<1>6. ASSUME NEW g \in fresh', g # f PROVE Knows(g)'
  <2>1. g \in fresh /\ SameLength(FcbBase[g])
    BY <1>2, <1>6 DEF History
  <2>2. Knows(g) /\ fcb'[g] = fcb[g]
    BY <1>1, <1>6, <2>1 DEF EmInv, EmTyped, Leaves
  <2>3. FreshOf(fs', FcbBase[g], fcb[g].count)
    BY <1>1, <1>2, <2>1, <2>2, SameLengthIs, FreshMoves DEF Knows
  <2> QED
    BY <2>2, <2>3 DEF Knows
<1>7. ASSUME f \in fresh' PROVE Knows(f)'
  <2>1. fcb'[f] = v
    BY <1>1 DEF EmTyped, Leaves
  <2>2. CASE Learns(f)
    BY <2>1, <2>2 DEF Leaves, Knows, Learns
  <2>3. CASE ~Learns(f)
    <3>1. f \in fresh /\ ret'.op \notin Placing /\ SameLength(FcbBase[f])
      BY <1>2, <1>7, <2>3 DEF History
    <3>2. Knows(f)
      BY <3>1 DEF EmInv
    <3>3. v.count = fcb[f].count /\ v.drive = MappedDrive
      BY <1>1, <3>1, <3>2, BlockAt DEF Leaves, Knows
    <3>4. FreshOf(fs', FcbBase[f], fcb[f].count)
      BY <1>1, <1>2, <3>1, <3>2, SameLengthIs, FreshMoves DEF Knows
    <3> QED
      BY <2>1, <3>3, <3>4 DEF Knows
  <2> QED
    BY <2>2, <2>3
<1>8. SearchSound(search, DOMAIN fs.dir)'
  BY DEF Leaves
<1> QED
  BY <1>3, <1>4, <1>5, <1>6, <1>7, <1>8 DEF EmInv

\* What the action properties say of one step.
ReadsFile ==
  Called("read") /\ FcbBase[ret'.f] \notin loose'
    => /\ ret'.r = 0 => ret'.data = Shown(ret'.f)[ret'.at + 1]
       /\ ret'.r = 1 => ret'.at >= Len(Shown(ret'.f))
WritesFile ==
  Called("write") =>
    /\ ret'.r = 0 /\ FcbBase[ret'.f] \notin loose'
         => /\ Len(Shown(ret'.f)) > ret'.at
            /\ Shown(ret'.f)[ret'.at + 1] = Mark[ret'.f]
    /\ ret'.r # 0 => Files(fs') = Files(fs)
CloseKeeps == Called("close") /\ ret'.f \in fresh => Files(fs') = Files(fs)
CrashMisses ==
  crashed' # crashed => FcbBase[ret'.f] \notin DOMAIN fs.dir \/ DriveOf(ret'.f) # MappedDrive
MakesFile ==
  Called("make") /\ ret'.r = 0 /\ FcbBase[ret'.f] \notin loose' => FcbBase[ret'.f] \in DOMAIN fs'.dir
Honest == ReadsFile /\ WritesFile /\ CloseKeeps /\ CrashMisses /\ MakesFile

\* A step that is none of these calls and does not bring the emulator down.
LEMMA QuietIsHonest ==
  ASSUME ret'.op \notin {"read", "write", "close", "make"} \/ calls' = calls, crashed' = crashed
  PROVE  Honest
BY DEF Honest, ReadsFile, WritesFile, CloseKeeps, CrashMisses, MakesFile, Called

\* The turn of the program.
LEMMA TurnIs ==
  ASSUME EmTyped, Turn
  PROVE  calls' \in 0..MaxCalls /\ crashed = FALSE
<1>1. calls \in 0..MaxCalls /\ MaxCalls \in Nat /\ calls < MaxCalls /\ calls' = calls + 1
  BY EmBdosAssumption DEF EmTyped, Turn
<1>2. calls' \in 0..MaxCalls
  BY ONLY <1>1
<1>3. crashed = FALSE
  BY DEF EmTyped, Turn
<1> QED
  BY <1>2, <1>3

\* The record count of an entry that is open.
LEMMA CountIs ==
  ASSUME NEW s, Sound(s), NEW i \in Slot, s.file[i].fd # 0, NEW G, NEW n \in RecordCounts(s, i, G)
  PROVE  n = Length(s, Ino(s, i)) /\ n \in Nat
<1>1. Counted(s, i) = s
  BY CountedOpen
<1>2. n = Len(Data(s, s.file[i].fd))
  BY <1>1 DEF RecordCounts
<1>3. n = Length(s, Ino(s, i))
  BY ONLY <1>2, Zenon DEF Data, Length, Ino
<1> QED
  BY <1>3, OpenLength

\* A block that is given the count of an entry on the file of its name knows its length.
LEMMA LearntIs ==
  ASSUME NEW s, NEW L, AllCurrent(s, L), NEW b, b \notin L, NEW i \in Slot, s.file[i].fd # 0,
         s.file[i].name.base = b, NEW c, Length(s, Ino(s, i)) < ExtentRecords => c = Length(s, Ino(s, i))
  PROVE  FreshOf(s, b, c)
<1>1. b \in DOMAIN s.dir /\ s.dir[b] = Ino(s, i)
  BY DEF AllCurrent, Current
<1>2. \A j \in Slot : s.file[j].fd # 0 /\ s.file[j].name.base = b => Current(s, j)
  BY DEF AllCurrent
<1> QED
  BY <1>1, <1>2 DEF FreshOf

\* A search that nothing disturbs.
LEMMA SearchStays ==
  ASSUME EmInv, search' = search, DOMAIN fs'.dir = DOMAIN fs.dir
  PROVE  SearchSound(search', DOMAIN fs'.dir)
BY DEF EmInv, SearchSound

\* A block opens its file.
LEMMA OpensFile ==
  ASSUME EmInv, NEW f \in Fcb, NEW s, s = fs, NEW o, o = FileOpen(s, NameOf(f)),
         NEW i, i = o.i, NEW t, t = o.fs
  PROVE  /\ Sound(s) /\ Opened(s, t, i, NameOf(f)) /\ i \in Slot /\ Steps(s, t) /\ Sound(t)
         /\ SameHost(s, t) /\ t.dir = s.dir
         /\ t.file[i].name.base = FcbBase[f] /\ FcbBase[f] \in Base
         /\ IsOpen(o) <=> t.file[i].fd # 0
<1> PICK nm : nm = NameOf(f)
  OBVIOUS
<1>1. Sound(s) /\ EmTyped /\ nm \in CpmFile /\ nm.base = FcbBase[f] /\ FcbBase[f] \in Base
  BY BlockAt DEF EmInv
<1>2. Opened(s, t, i, nm)
  BY <1>1, FileOpenIs
<1>3. i \in Slot /\ Steps(s, t) /\ SameHost(s, t) /\ t.file[i].name = nm
  BY <1>2 DEF Opened, Finds
<1>4. t.dir = s.dir /\ Sound(t)
  BY <1>3 DEF Steps, SameHost
<1> QED
  BY <1>1, <1>2, <1>3, <1>4 DEF IsOpen

\* Opening a file.
LEMMA OpenFileKeeps ==
  ASSUME EmInv, NEW f \in Fcb, OpenFile(f)
  PROVE  EmInv' /\ Honest
<1> PICK s : s = fs
  OBVIOUS
<1> PICK o : o = FileOpen(s, NameOf(f))
  OBVIOUS
<1> PICK i : i = o.i
  OBVIOUS
<1> PICK t : t = o.fs
  OBVIOUS
<1> PICK b : b = FcbBase[f]
  OBVIOUS
<1>1. EmTyped /\ AllCurrent(fs, loose) /\ Turn /\ Runs /\ History(f, {}) /\ disk' = disk /\ search' = search
  BY DEF EmInv, OpenFile, Call
<1>2. /\ Sound(s) /\ i \in Slot /\ Steps(s, t) /\ Sound(t) /\ t.dir = s.dir
      /\ t.file[i].name.base = b /\ (IsOpen(o) <=> t.file[i].fd # 0)
  BY OpensFile
<1>3. calls' \in 0..MaxCalls /\ crashed' = crashed /\ crashed' \in BOOLEAN
  BY <1>1, TurnIs DEF Runs
<1>4. At(f) \in Block /\ At(f).drive = DriveOf(f) /\ At(f).count = fcb[f].count
  BY <1>1, BlockAt
<1>5. CASE IsOpen(o)
  <2>1. Counted(t, i) = t /\ fs' = Counted(o.fs, o.i)
    BY <1>2, <1>5, CountedOpen DEF OpenFile
  <2>2. \E n \in RecordCounts(t, i, Garbage) : fcb' = [fcb EXCEPT ![f] = Placed(At(f), 0, n)]
    BY <1>5 DEF OpenFile
  <2> PICK n \in RecordCounts(t, i, Garbage) : fcb' = [fcb EXCEPT ![f] = Placed(At(f), 0, n)]
    BY <2>2
  <2> PICK v : v = Placed(At(f), 0, n)
    OBVIOUS
  <2>3. ret'.op = "open"
    BY <1>5 DEF OpenFile, Result, Reply
  <2>4. n = Length(t, Ino(t, i)) /\ n \in Nat
    BY <1>2, <1>5, CountIs
  <2>5. v \in Block /\ v.drive = DriveOf(f) /\ (n < ExtentRecords => v.count = n)
    BY <1>4, <2>4, PlacedIs
  <2>6. fs' = t /\ Moves(fs, fs', {})
    BY <1>2, <2>1, StepsMoves
  <2>7. AllCurrent(t, loose')
    BY <1>1, <2>6, LooseStays
  <2>8. Learns(f) => FreshOf(t, b, v.count)
    BY <1>2, <1>5, <2>4, <2>5, <2>7, LearntIs DEF Learns
  <2>9. SearchSound(search', DOMAIN fs'.dir)
    BY <1>1, <1>2, <2>6, SearchStays
  <2>10. Leaves(f, v, {})
    BY <1>1, <1>3, <2>3, <2>5, <2>6, <2>8, <2>9 DEF Leaves, Placing
  <2> QED
    BY <1>3, <2>3, <2>10, LeavesKeeps, QuietIsHonest
<1>6. CASE ~IsOpen(o)
  <2>1. fs' = t /\ fcb' = [fcb EXCEPT ![f] = At(f)] /\ ret'.op = "open" /\ ret'.r = 255
    BY <1>6 DEF OpenFile, Sized, Result, Reply
  <2>2. Moves(fs, fs', {})
    BY <1>2, <2>1, StepsMoves
  <2>3. SearchSound(search', DOMAIN fs'.dir)
    BY <1>1, <1>2, <2>1, SearchStays
  <2>4. Leaves(f, At(f), {})
    BY <1>1, <1>3, <1>4, <2>1, <2>2, <2>3 DEF Leaves, Placing, Learns
  <2> QED
    BY <1>3, <2>1, <2>4, LeavesKeeps, QuietIsHonest
<1> QED
  BY <1>5, <1>6

\* A search that is disturbed promises nothing.
LEMMA SearchDisturbed ==
  ASSUME NEW q \in Search, NEW D, NEW left \in SUBSET Base, NEW p,
         p = [q EXCEPT !.calm = FALSE] \/ p = [q EXCEPT !.calm = FALSE, !.left = left]
  PROVE  SearchSound(p, D)
<1>1. p \in Search /\ p.calm = FALSE
  BY DEF Search
<1> QED
  BY <1>1 DEF SearchSound

\* Making a file.
LEMMA MakeFileKeeps ==
  ASSUME EmInv, NEW f \in Fcb, MakeFile(f)
  PROVE  EmInv' /\ Honest
<1> PICK s : s = fs
  OBVIOUS
<1> PICK o : o = FileCreate(s, NameOf(f))
  OBVIOUS
<1> PICK i : i = o.i
  OBVIOUS
<1> PICK t : t = o.fs
  OBVIOUS
<1> PICK q : q = search
  OBVIOUS
<1>1. EmTyped /\ Sound(s) /\ Turn /\ Runs /\ History(f, {}) /\ disk' = disk /\ q \in Search /\ fs' = t
  BY DEF EmInv, MakeFile, Call, SearchSound
<1>2. At(f) \in Block /\ At(f).drive = DriveOf(f) /\ NameOf(f) \in CpmFile /\ FcbBase[f] \in Base
  BY <1>1, BlockAt
<1>3. Steps(s, t) /\ i \in Slot /\ t.file[i].name = NameOf(f)
  BY <1>1, <1>2, FileCreateIs
<1>4. calls' \in 0..MaxCalls /\ crashed' = crashed /\ crashed' \in BOOLEAN
  BY <1>1, TurnIs DEF Runs
<1>5. Moves(fs, fs', {})
  BY <1>1, <1>3, StepsMoves
<1>6. SearchSound(search', DOMAIN fs'.dir)
  <2>1. CASE Appears(FcbBase[f])
    <3>1. q.left \cup {FcbBase[f]} \in SUBSET Base
      BY <1>1, <1>2 DEF Search
    <3>2. \/ search' = [q EXCEPT !.calm = FALSE]
          \/ search' = [q EXCEPT !.calm = FALSE, !.left = q.left \cup {FcbBase[f]}]
      BY <2>1 DEF Appears
    <3> QED
      BY <1>1, <3>1, <3>2, SearchDisturbed
  <2>2. CASE DOMAIN fs'.dir = DOMAIN fs.dir /\ search' = search
    BY <2>2, SearchStays
  <2> QED
    BY <2>1, <2>2 DEF MakeFile
<1>7. ret'.op = "make" /\ ret'.f = f /\ (ret'.r = 0 => IsOpen(o))
  BY DEF MakeFile, Result, Reply
<1>8. \E v \in Block : v.drive = DriveOf(f) /\ fcb' = [fcb EXCEPT ![f] = v]
  <2>1. CASE IsOpen(o)
    <3>1. fcb' = [fcb EXCEPT ![f] = Placed(At(f), 0, 0)]
      BY <2>1 DEF MakeFile
    <3> QED
      BY <1>2, <3>1, PlacedIs, ZenonT(30)
  <2>2. CASE ~IsOpen(o)
    BY <1>2, <2>2 DEF MakeFile, Sized
  <2> QED
    BY <2>1, <2>2
<1> PICK v \in Block : v.drive = DriveOf(f) /\ fcb' = [fcb EXCEPT ![f] = v]
  BY <1>8
<1>9. Leaves(f, v, {})
  BY <1>1, <1>4, <1>5, <1>6, <1>7 DEF Leaves, Placing, Learns
<1>10. EmInv'
  BY <1>9, LeavesKeeps
<1>11. ASSUME IsOpen(o), FcbBase[f] \notin loose'
       PROVE  FcbBase[f] \in DOMAIN fs'.dir
  <2>1. AllCurrent(t, loose')
    BY <1>1, <1>10 DEF EmInv
  <2>2. t.file[i].fd # 0
    BY <1>11 DEF IsOpen
  <2>3. t.file[i].name.base = FcbBase[f]
    BY <1>3 DEF NameOf
  <2> QED
    BY <1>1, <1>3, <1>11, <2>1, <2>2, <2>3 DEF AllCurrent, Current
<1>12. Honest
  BY <1>4, <1>7, <1>11 DEF Honest, ReadsFile, WritesFile, CloseKeeps, CrashMisses, MakesFile, Called
<1> QED
  BY <1>10, <1>12

\* The end of the emulator: the block's file is not to be had.
LEMMA CrashKeeps ==
  ASSUME EmInv, NEW f \in Fcb, Turn, NEW o, o = FileOpen(fs, NameOf(f)), ~IsOpen(o),
         fs' = o.fs, Sized(f), Crash(f), History(f, {}), disk' = disk
  PROVE  EmInv' /\ Honest
<1> PICK s : s = fs
  OBVIOUS
<1> PICK i : i = o.i
  OBVIOUS
<1> PICK t : t = o.fs
  OBVIOUS
<1>1. /\ Sound(s) /\ Opened(s, t, i, NameOf(f)) /\ Steps(s, t) /\ t.dir = s.dir /\ fs' = t
      /\ t.file[i].fd = 0
  BY OpensFile
<1>2. EmTyped
  BY DEF EmInv
<1>3. At(f) \in Block /\ At(f).drive = DriveOf(f) /\ At(f).count = fcb[f].count
      /\ NameOf(f).base = FcbBase[f] /\ NameOf(f).drive = DriveOf(f)
  BY <1>2, BlockAt
<1>4. calls' \in 0..MaxCalls /\ crashed' = TRUE /\ ret'.op = "crash" /\ ret'.f = f /\ search' = search
  BY <1>2, TurnIs DEF Crash, Result, Reply
<1>5. Moves(fs, fs', {})
  BY <1>1, StepsMoves
<1>6. SearchSound(search', DOMAIN fs'.dir)
  BY <1>1, <1>4, SearchStays
<1>7. Leaves(f, At(f), {})
  BY <1>3, <1>4, <1>5, <1>6 DEF Leaves, Placing, Learns, Sized
<1>8. FcbBase[f] \notin DOMAIN fs.dir \/ DriveOf(f) # MappedDrive
  BY <1>1, <1>3 DEF Opened
<1>9. Honest
  BY <1>4, <1>8 DEF Honest, ReadsFile, WritesFile, CloseKeeps, CrashMisses, MakesFile, Called
<1> QED
  BY <1>7, <1>9, LeavesKeeps

\* Asking for the length of a file.
LEMMA FileLengthKeeps ==
  ASSUME EmInv, NEW f \in Fcb, FileLength(f)
  PROVE  EmInv' /\ Honest
<1> PICK s : s = fs
  OBVIOUS
<1> PICK o : o = FileOpen(s, NameOf(f))
  OBVIOUS
<1> PICK i : i = o.i
  OBVIOUS
<1> PICK t : t = o.fs
  OBVIOUS
<1>1. EmTyped /\ Turn /\ History(f, {}) /\ disk' = disk /\ Sized(f)
  BY DEF EmInv, FileLength, Call
<1>2. CASE ~IsOpen(o)
  BY <1>1, <1>2, CrashKeeps DEF FileLength
<1>3. CASE IsOpen(o)
  <2>1. /\ Sound(s) /\ i \in Slot /\ Steps(s, t) /\ Sound(t) /\ t.dir = s.dir /\ t.file[i].fd # 0
    BY <1>3, OpensFile
  <2>2. Counted(t, i) = t
    BY <2>1, CountedOpen
  <2>3. fs' = t /\ Runs /\ search' = search
    BY <1>3, <2>2 DEF FileLength
  <2>4. ret'.op = "length"
    BY <1>3 DEF FileLength, Result, Reply
  <2>5. At(f) \in Block /\ At(f).drive = DriveOf(f) /\ At(f).count = fcb[f].count
    BY <1>1, BlockAt
  <2>6. calls' \in 0..MaxCalls /\ crashed' = crashed /\ crashed' \in BOOLEAN
    BY <1>1, <2>3, TurnIs DEF Runs
  <2>7. Moves(fs, fs', {})
    BY <2>1, <2>3, StepsMoves
  <2>8. SearchSound(search', DOMAIN fs'.dir)
    BY <2>1, <2>3, SearchStays
  <2>9. Leaves(f, At(f), {})
    BY <1>1, <2>4, <2>5, <2>6, <2>7, <2>8 DEF Leaves, Learns, Sized
  <2> QED
    BY <2>4, <2>6, <2>9, LeavesKeeps, QuietIsHonest
<1> QED
  BY <1>2, <1>3

\* Two states in which the directory has the same files.
SameFiles(s, t) == t.dir = s.dir /\ \A b \in DOMAIN s.dir : t.ino[s.dir[b]].data = s.ino[s.dir[b]].data

\* They show the same.
LEMMA SameFilesAre ==
  ASSUME NEW s, NEW t, SameFiles(s, t)
  PROVE  Files(t) = Files(s)
BY DEF SameFiles, Files

\* So do two states of a host that is the same.
LEMMA SameHostFiles ==
  ASSUME NEW s, NEW t, Sound(t), SameHost(s, t)
  PROVE  SameFiles(s, t)
BY DEF Sound, Housed, SameHost, SameFiles

\* Closing with the length that a fresh block has does nothing to the files.
LEMMA FreshCloses ==
  ASSUME NEW s, Sound(s), NEW i \in Slot, s.file[i].fd # 0, NEW b, s.file[i].name.base = b,
         NEW c, FreshOf(s, b, c), NEW n, n = Length(s, Ino(s, i)), n < ExtentRecords,
         NEW t, SetsCount(s, t, i, c)
  PROVE  SameFiles(s, t)
<1> PICK x : x = Ino(s, i)
  OBVIOUS
<1>1. t.dir = s.dir /\ Sound(t)
  BY DEF SetsCount, Steps
<1> SUFFICES ASSUME NEW a \in DOMAIN s.dir, t.ino[s.dir[a]].data # s.ino[s.dir[a]].data
             PROVE  FALSE
  BY <1>1 DEF SameFiles
<1> PICK y : y = s.dir[a]
  OBVIOUS
<1>2. y \in DOMAIN t.ino
  BY <1>1 DEF Sound, Housed
<1>3. /\ c # n /\ c # Length(s, y)
      /\ y = x \/ (b \in DOMAIN s.dir /\ y = s.dir[b])
  BY <1>2 DEF SetsCount
<1>4. CASE Current(s, i)
  <2>1. s.dir[b] = x
    BY <1>4 DEF Current
  <2> QED
    BY <1>3, <2>1 DEF FreshOf
<1>5. CASE ~Current(s, i)
  <2>1. x \notin Linked(s) /\ Length(s, s.dir[b]) < ExtentRecords
    BY <1>5 DEF FreshOf
  <2>2. y \in Linked(s)
    BY DEF Linked
  <2> QED
    BY <1>3, <2>1, <2>2 DEF FreshOf
<1> QED
  BY <1>4, <1>5

\* What is left of a file that is closed: the files are those that a fresh block knows.
LEMMA ClosesFile ==
  ASSUME NEW s, Sound(s), NEW i \in Slot, s.file[i].fd # 0, NEW nm \in CpmFile, s.file[i].name = nm,
         NEW c \in Nat, NEW n, n = Length(s, Ino(s, i)),
         NEW t, t = FileClose(IF n < ExtentRecords THEN FileSetRecordCount(s, i, c, n) ELSE s, nm)
  PROVE  /\ Steps(s, t) /\ t.dir = s.dir
         /\ FreshOf(s, nm.base, c) => SameFiles(s, t)
<1> PICK u : u = IF n < ExtentRecords THEN FileSetRecordCount(s, i, c, n) ELSE s
  OBVIOUS
<1>1. nm.base \in Base
  BY DEF CpmFile
<1>2. Steps(s, u) /\ u.dir = s.dir /\ (FreshOf(s, nm.base, c) => SameFiles(s, u))
  <2>1. CASE n < ExtentRecords
    <3>1. SetsCount(s, u, i, c)
      BY <1>1, <2>1, FileSetRecordCountIs
    <3>2. FreshOf(s, nm.base, c) => SameFiles(s, u)
      BY <2>1, <3>1, FreshCloses
    <3> QED
      BY <3>1, <3>2 DEF SetsCount
  <2>2. CASE ~(n < ExtentRecords)
    BY <2>2, StepsSame DEF SameFiles
  <2> QED
    BY <2>1, <2>2
<1>3. Sound(u)
  BY <1>2 DEF Steps
<1>4. t = FileClose(u, nm)
  OBVIOUS
<1>5. Steps(u, t) /\ SameHost(u, t)
  BY ONLY <1>3, <1>4, nm \in CpmFile, FileCloseIs
<1>6. Steps(s, t)
  BY <1>2, <1>5, StepsOn
<1>7. SameFiles(u, t)
  BY <1>5, SameHostFiles DEF Steps
<1> QED
  BY <1>2, <1>6, <1>7 DEF SameFiles

\* Closing a file: with a block that is fresh, the files stay as they are.
LEMMA CloseFileKeeps ==
  ASSUME EmInv, NEW f \in Fcb, CloseFile(f)
  PROVE  EmInv' /\ Honest
<1> PICK s : s = fs
  OBVIOUS
<1> PICK nm : nm = NameOf(f)
  OBVIOUS
<1> PICK o : o = FileOpen(s, nm)
  OBVIOUS
<1> PICK i : i = o.i
  OBVIOUS
<1> PICK t : t = o.fs
  OBVIOUS
<1> PICK b : b = FcbBase[f]
  OBVIOUS
<1> PICK c : c = fcb[f].count
  OBVIOUS
<1>1. EmTyped /\ Turn /\ History(f, {}) /\ disk' = disk
  BY DEF EmInv, CloseFile, Call
<1>2. CASE ~IsOpen(o)
  BY <1>1, <1>2, CrashKeeps DEF CloseFile
<1>3. CASE IsOpen(o)
  <2>1. /\ Sound(s) /\ i \in Slot /\ Steps(s, t) /\ Sound(t) /\ t.dir = s.dir /\ t.file[i].fd # 0
        /\ SameHost(s, t) /\ t.file[i].name = nm
    BY <1>3, OpensFile DEF Opened, Finds
  <2>2. nm \in CpmFile /\ nm.base = b /\ c \in Nat
    BY <1>1, BlockAt
  <2>3. /\ Runs /\ search' = search /\ Sized(f)
        /\ \E n \in RecordCounts(t, i, Garbage) :
             fs' = FileClose(IF n < ExtentRecords THEN FileSetRecordCount(t, i, c, n) ELSE t, nm)
    BY <1>3 DEF CloseFile
  <2>4. ret'.op = "close" /\ ret'.f = f
    BY <1>3 DEF CloseFile, Result, Reply
  <2> PICK n \in RecordCounts(t, i, Garbage) :
        fs' = FileClose(IF n < ExtentRecords THEN FileSetRecordCount(t, i, c, n) ELSE t, nm)
    BY <2>3
  <2> PICK w : w = fs'
    OBVIOUS
  <2>5. n = Length(t, Ino(t, i))
    BY <2>1, CountIs
  <2>6. /\ Steps(t, w) /\ w.dir = t.dir
        /\ FreshOf(t, b, c) => SameFiles(t, w)
    BY <2>1, <2>2, <2>5, ClosesFile
  <2>7. Steps(s, w) /\ w.dir = s.dir
    BY ONLY <2>1, <2>6, StepsOn
  <2>8. Moves(fs, fs', {})
    BY <2>7, StepsMoves
  <2>9. At(f) \in Block /\ At(f).drive = DriveOf(f) /\ At(f).count = fcb[f].count
    BY <1>1, BlockAt
  <2>10. calls' \in 0..MaxCalls /\ crashed' = crashed /\ crashed' \in BOOLEAN
    BY <1>1, <2>3, TurnIs DEF Runs
  <2>11. SearchSound(search', DOMAIN fs'.dir)
    BY <2>3, <2>7, SearchStays
  <2>12. Leaves(f, At(f), {})
    BY <1>1, <2>3, <2>4, <2>8, <2>9, <2>10, <2>11 DEF Leaves, Learns, Sized, Placing
  <2>13. ASSUME f \in fresh PROVE Files(w) = Files(s)
    <3>1. FreshOf(s, b, c)
      BY <2>13 DEF EmInv, Knows
    <3>2. b \in DOMAIN s.dir
      BY <3>1 DEF FreshOf
    <3>3. Length(t, t.dir[b]) = Length(s, s.dir[b])
      BY ONLY <2>1, <3>2, SameHostFiles DEF SameFiles, Length
    <3>4. Moves(s, t, {})
      BY <2>1, StepsMoves
    <3>5. FreshOf(t, b, c)
      BY <2>1, <3>1, <3>2, <3>3, <3>4, FreshMoves
    <3>6. SameFiles(s, w)
      BY ONLY <2>1, <2>6, <3>5, SameHostFiles DEF SameFiles
    <3> QED
      BY <3>6, SameFilesAre
  <2>14. Honest
    BY <2>4, <2>10, <2>13 DEF Honest, ReadsFile, WritesFile, CloseKeeps, CrashMisses, MakesFile, Called
  <2> QED
    BY <2>12, <2>14, LeavesKeeps
<1> QED
  BY <1>2, <1>3

\* What the file of an entry that is open on it shows.
LEMMA Shows ==
  ASSUME NEW s, NEW i, Current(s, i), NEW b, b = s.file[i].name.base
  PROVE  Files(s)[b] = s.ino[Ino(s, i)].data
BY Zenon DEF Current, Files

\* The same files, twice.
LEMMA SameFilesOn ==
  ASSUME NEW s, NEW t, NEW u, SameFiles(s, t), SameFiles(t, u)
  PROVE  SameFiles(s, u)
<1>1. t.dir = s.dir /\ u.dir = s.dir
  BY DEF SameFiles
<1>2. \A b \in DOMAIN s.dir : u.ino[s.dir[b]].data = t.ino[s.dir[b]].data
  BY <1>1 DEF SameFiles
<1>3. \A b \in DOMAIN s.dir : t.ino[s.dir[b]].data = s.ino[s.dir[b]].data
  BY DEF SameFiles
<1> QED
  BY <1>1, <1>2, <1>3 DEF SameFiles

\* Reading a record, in sequence or at random.
LEMMA ReadKeeps ==
  ASSUME EmInv, NEW f \in Fcb, NEW call, NEW here \in Nat, NEW next \in Nat,
         Transfer(call, "read", f, here, next)
  PROVE  EmInv' /\ Honest
<1> PICK s : s = fs
  OBVIOUS
<1> PICK o : o = FileOpen(s, NameOf(f))
  OBVIOUS
<1> PICK i : i = o.i
  OBVIOUS
<1> PICK t : t = o.fs
  OBVIOUS
<1> PICK b : b = FcbBase[f]
  OBVIOUS
<1> PICK x : x = FileRead(t, i, here)
  OBVIOUS
<1> PICK u : u = x.fs
  OBVIOUS
<1>1. EmTyped /\ AllCurrent(fs, loose) /\ Turn /\ History(f, {}) /\ disk' = disk
  BY DEF EmInv, Transfer, Call
<1>2. CASE ~IsOpen(o)
  BY <1>1, <1>2, CrashKeeps DEF Transfer
<1>3. CASE IsOpen(o)
  <2>1. /\ Sound(s) /\ i \in Slot /\ Steps(s, t) /\ Sound(t) /\ t.dir = s.dir /\ t.file[i].fd # 0
        /\ t.file[i].name.base = b
    BY <1>3, OpensFile
  <2>2. Reads(t, u, i, here, x.n, x.data)
    BY <2>1, FileReadIs
  <2>3. /\ Steps(t, u) /\ u.dir = t.dir /\ u.file[i].fd # 0 /\ u.file[i].name.base = b
    BY <2>1, <2>2, ZenonT(30) DEF Reads, Bumps, SameEntries
  <2>4. Sound(u)
    BY <2>3 DEF Steps
  <2>5. Counted(u, i) = u
    BY <2>1, <2>3, <2>4, CountedOpen
  <2>6. /\ Runs /\ fs' = u /\ search' = search
        /\ \E n \in RecordCounts(u, i, Garbage) : fcb' = [fcb EXCEPT ![f] = Placed(At(f), next, n)]
    BY <1>3, <2>5 DEF Transfer
  <2>7. /\ ret'.op = "read" /\ ret'.f = f /\ ret'.at = here /\ ret'.data = x.data
        /\ (x.n = -1 => ret'.r = 255) /\ (x.n = 0 => ret'.r = 1) /\ (x.n = 1 => ret'.r = 0)
    <3>1. Reply("read", f, CASE x.n = -1 -> 255 [] x.n = 0 -> 1 [] x.n = 1 -> 0, here, x.data)
      BY <1>3 DEF Transfer
    <3> QED
      BY <3>1 DEF Reply
  <2>8. \/ ret'.r = 0 /\ here < Length(u, Ino(u, i)) /\ x.data = u.ino[Ino(u, i)].data[here + 1]
        \/ ret'.r = 1 /\ here >= Length(u, Ino(u, i))
    BY <2>2, <2>7 DEF Reads
  <2> PICK n \in RecordCounts(u, i, Garbage) : fcb' = [fcb EXCEPT ![f] = Placed(At(f), next, n)]
    BY <2>6
  <2> PICK v : v = Placed(At(f), next, n)
    OBVIOUS
  <2>9. n = Length(u, Ino(u, i)) /\ n \in Nat
    BY ONLY <2>1, <2>3, <2>4, n \in RecordCounts(u, i, Garbage), CountIs
  <2>10. v \in Block /\ v.drive = DriveOf(f) /\ (n < ExtentRecords => v.count = n)
    <3> PICK a : a = At(f)
      OBVIOUS
    <3>1. a \in Block /\ a.drive = DriveOf(f)
      BY <1>1, BlockAt
    <3>2. v = Placed(a, next, n) /\ n \in Nat
      BY <2>9
    <3>3. v \in Block /\ v.drive = a.drive /\ (n < ExtentRecords => v.count = n)
      BY ONLY <3>1, <3>2, next \in Nat, PlacedIs
    <3> QED
      BY <3>1, <3>3
  <2>11. Moves(fs, fs', {})
    <3>1. Steps(s, u)
      BY ONLY <2>1, <2>3, StepsOn
    <3> QED
      BY <2>6, <3>1, StepsMoves
  <2>12. AllCurrent(u, loose')
    BY <1>1, <2>6, <2>11, LooseStays
  <2>13. Learns(f) => FreshOf(u, b, v.count)
    <3>1. Learns(f) => b \notin loose'
      BY DEF Learns
    <3>2. Length(u, Ino(u, i)) < ExtentRecords => v.count = Length(u, Ino(u, i))
      BY <2>9, <2>10
    <3>3. i \in Slot /\ u.file[i].fd # 0 /\ u.file[i].name.base = b
      BY ONLY <2>1, <2>3
    <3> QED
      BY ONLY <2>12, <3>1, <3>2, <3>3, LearntIs
  <2>14. calls' \in 0..MaxCalls /\ crashed' = crashed /\ crashed' \in BOOLEAN
    BY <1>1, <2>6, TurnIs DEF Runs
  <2>15. SearchSound(search', DOMAIN fs'.dir)
    BY <2>1, <2>3, <2>6, SearchStays
  <2>16. Leaves(f, v, {})
    BY <1>1, <2>6, <2>7, <2>10, <2>11, <2>13, <2>14, <2>15 DEF Leaves, Placing
  <2>17. ASSUME b \notin loose' PROVE Shown(f) = u.ino[Ino(u, i)].data
    <3>1. Current(u, i)
      BY <2>1, <2>3, <2>12, <2>17, ZenonT(30) DEF AllCurrent
    <3> QED
      BY ONLY <2>3, <2>6, <3>1, b = FcbBase[f], Shows DEF Shown
  <2>18. Honest
    <3>1. ASSUME b \notin loose'
          PROVE  /\ ret'.r = 0 => ret'.data = Shown(f)[ret'.at + 1]
                 /\ ret'.r = 1 => ret'.at >= Len(Shown(f))
      <4>1. Shown(f) = u.ino[Ino(u, i)].data
        BY <2>17, <3>1
      <4>2. Len(Shown(f)) = Length(u, Ino(u, i))
        BY <4>1 DEF Length
      <4> QED
        BY ONLY <2>7, <2>8, <4>1, <4>2
    <3>2. ReadsFile
      BY <2>7, <3>1 DEF ReadsFile
    <3> QED
      BY <2>7, <2>14, <3>2 DEF Honest, WritesFile, CloseKeeps, CrashMisses, MakesFile, Called
  <2> QED
    BY <2>16, <2>18, LeavesKeeps
<1> QED
  BY <1>2, <1>3

\* The record count of an entry, open or not.
LEMMA CountNat ==
  ASSUME NEW s, Sound(s), NEW i \in Slot, s.file[i].name.base \in Base, NEW n \in RecordCounts(s, i, Garbage)
  PROVE  n \in Nat
<1> PICK a : a = Counted(s, i)
  OBVIOUS
<1>1. Reopens(s, a, i, FALSE, FALSE)
  BY ReopenIs DEF Counted
<1>2. Sound(a)
  BY <1>1 DEF Reopens, Steps
<1>3. CASE a.file[i].fd = 0
  BY <1>3, EmBdosAssumption DEF RecordCounts, Garbage
<1>4. CASE a.file[i].fd # 0
  <2>1. n = Len(Data(a, a.file[i].fd))
    BY <1>4 DEF RecordCounts
  <2>2. n = Length(a, Ino(a, i))
    BY <2>1, ZenonT(30) DEF Data, Length, Ino
  <2> QED
    BY <1>2, <1>4, <2>2, OpenLength
<1> QED
  BY <1>3, <1>4

\* Writing a record, in sequence or at random.
LEMMA WriteKeeps ==
  ASSUME EmInv, NEW f \in Fcb, NEW call, NEW here \in Nat, NEW next \in Nat,
         Transfer(call, "write", f, here, next)
  PROVE  EmInv' /\ Honest
<1> PICK s : s = fs
  OBVIOUS
<1> PICK o : o = FileOpen(s, NameOf(f))
  OBVIOUS
<1> PICK i : i = o.i
  OBVIOUS
<1> PICK t : t = o.fs
  OBVIOUS
<1> PICK b : b = FcbBase[f]
  OBVIOUS
<1> PICK m : m = Mark[f]
  OBVIOUS
<1> PICK x : x = FileWrite(t, i, here, m)
  OBVIOUS
<1> PICK u : u = x.fs
  OBVIOUS
<1> PICK w : w = Counted(u, i)
  OBVIOUS
<1>1. EmTyped /\ AllCurrent(fs, loose) /\ Turn /\ History(f, {}) /\ disk' = disk
  BY DEF EmInv, Transfer, Call
<1>2. CASE ~IsOpen(o)
  BY <1>1, <1>2, CrashKeeps DEF Transfer
<1>3. CASE IsOpen(o)
  <2>1. /\ Sound(s) /\ i \in Slot /\ Steps(s, t) /\ Sound(t) /\ t.dir = s.dir /\ t.file[i].fd # 0
        /\ t.file[i].name.base = b /\ b \in Base /\ SameHost(s, t)
    BY <1>3, OpensFile
  <2>2. Writes(t, u, i, here, m, x.n)
    <3>1. m \in Nat
      BY EmBdosAssumption
    <3> QED
      BY <2>1, <3>1, FileWriteIs
  <2>3. Steps(t, u) /\ u.file[i].name.base = b /\ Sound(u)
    BY ONLY <2>1, <2>2 DEF Writes, Steps
  <2>4. Steps(u, w) /\ SameHost(u, w) /\ w.file[i].name.base = b /\ (u.file[i].fd # 0 => w = u)
    <3>1. Reopens(u, w, i, FALSE, FALSE)
      <4>1. w = Reopen(u, i, FALSE, FALSE)
        BY ONLY w = Counted(u, i) DEF Counted
      <4> QED
        BY ONLY <2>1, <2>3, <4>1, FALSE \in BOOLEAN, ReopenIs
    <3> QED
      BY <2>1, <2>3, <3>1, ZenonT(30) DEF Reopens
  <2>5. /\ Runs /\ fs' = w /\ search' = search
        /\ \E n \in RecordCounts(u, i, Garbage) : fcb' = [fcb EXCEPT ![f] = Placed(At(f), next, n)]
    BY <1>3 DEF Transfer
  <2>6. /\ ret'.op = "write" /\ ret'.f = f /\ ret'.at = here
        /\ (x.n = -1 => ret'.r = 255) /\ (x.n = 0 => ret'.r = 1) /\ (x.n = 1 => ret'.r = 0)
    <3>1. Reply("write", f, CASE x.n = -1 -> 255 [] x.n = 0 -> 1 [] x.n = 1 -> 0, here, x.data)
      BY <1>3 DEF Transfer
    <3> QED
      BY <3>1 DEF Reply
  <2>7. \/ ret'.r = 255 /\ SameHost(t, u)
        \/ /\ ret'.r = 0 /\ u.dir = t.dir /\ u.file[i].fd # 0 /\ w = u
           /\ here < Length(u, Ino(u, i)) /\ u.ino[Ino(u, i)].data[here + 1] = m
    BY <2>2, <2>4, <2>6, ZenonT(30) DEF Writes
  <2> PICK n \in RecordCounts(u, i, Garbage) : fcb' = [fcb EXCEPT ![f] = Placed(At(f), next, n)]
    BY <2>5
  <2> PICK v : v = Placed(At(f), next, n)
    OBVIOUS
  <2>8. n \in Nat /\ (u.file[i].fd # 0 => n = Length(u, Ino(u, i)))
    BY ONLY <2>1, <2>3, n \in RecordCounts(u, i, Garbage), CountIs, CountNat
  <2>9. v \in Block /\ v.drive = DriveOf(f) /\ (n < ExtentRecords => v.count = n)
    <3> PICK a : a = At(f)
      OBVIOUS
    <3>1. a \in Block /\ a.drive = DriveOf(f)
      BY <1>1, BlockAt
    <3>2. v = Placed(a, next, n) /\ n \in Nat
      BY <2>8
    <3>3. v \in Block /\ v.drive = a.drive /\ (n < ExtentRecords => v.count = n)
      BY ONLY <3>1, <3>2, next \in Nat, PlacedIs
    <3> QED
      BY <3>1, <3>3
  <2>10. Moves(fs, fs', {}) /\ w.dir = s.dir
    <3>1. Steps(s, u)
      BY ONLY <2>1, <2>3, StepsOn
    <3>2. Steps(s, w)
      BY ONLY <2>1, <2>4, <3>1, StepsOn
    <3>3. u.dir = t.dir
      BY ONLY <2>7, ZenonT(30) DEF SameHost
    <3> QED
      BY ONLY fs = s, <2>1, <2>4, <2>5, <3>2, <3>3, StepsMoves DEF SameHost
  <2>11. AllCurrent(w, loose')
    BY <1>1, <2>5, <2>10, LooseStays
  <2>12. Learns(f) => FreshOf(w, b, v.count)
    <3>1. Learns(f) => b \notin loose' /\ u.file[i].fd # 0 /\ w = u
      BY ONLY <2>7, b = FcbBase[f] DEF Learns
    <3>2. Learns(f) => (Length(u, Ino(u, i)) < ExtentRecords => v.count = Length(u, Ino(u, i)))
      BY <2>8, <2>9, <3>1
    <3>3. i \in Slot /\ u.file[i].name.base = b
      BY ONLY <2>1, <2>3
    <3> QED
      BY ONLY <2>11, <3>1, <3>2, <3>3, LearntIs
  <2>13. calls' \in 0..MaxCalls /\ crashed' = crashed /\ crashed' \in BOOLEAN
    BY <1>1, <2>5, TurnIs DEF Runs
  <2>14. SearchSound(search', DOMAIN fs'.dir)
    BY <2>5, <2>10, SearchStays
  <2>15. Leaves(f, v, {})
    BY <1>1, <2>5, <2>6, <2>9, <2>10, <2>12, <2>13, <2>14 DEF Leaves, Placing
  <2>16. ASSUME ret'.r = 0, b \notin loose' PROVE Len(Shown(f)) > here /\ Shown(f)[here + 1] = m
    <3>1. w = u /\ u.file[i].fd # 0 /\ here < Length(u, Ino(u, i)) /\ u.ino[Ino(u, i)].data[here + 1] = m
      BY ONLY <2>7, <2>16
    <3>2. Current(u, i)
      BY ONLY <2>1, <2>3, <2>11, <2>16, <3>1 DEF AllCurrent
    <3>3. Shown(f) = u.ino[Ino(u, i)].data
      <4>1. Files(u)[b] = u.ino[Ino(u, i)].data
        BY ONLY <2>3, <3>2, Shows
      <4>2. fs' = u
        BY <2>5, <3>1
      <4> QED
        BY <4>1, <4>2 DEF Shown
    <3>4. Len(Shown(f)) = Length(u, Ino(u, i)) /\ Length(u, Ino(u, i)) \in Nat
      BY ONLY <2>1, <2>3, <3>1, <3>3, OpenLength DEF Length
    <3> QED
      BY ONLY <3>1, <3>3, <3>4, here \in Nat
  <2>17. ASSUME ret'.r # 0 PROVE Files(w) = Files(s)
    <3>1. SameHost(t, u)
      BY ONLY <2>7, <2>17
    <3>2. SameFiles(s, t) /\ SameFiles(t, u) /\ SameFiles(u, w)
      BY <2>1, <2>3, <2>4, <3>1, SameHostFiles, ZenonT(30) DEF Steps
    <3>3. SameFiles(s, w)
      BY ONLY <3>2, SameFilesOn
    <3> QED
      BY <3>3, SameFilesAre
  <2>18. WritesFile
    BY <2>5, <2>6, <2>16, <2>17 DEF WritesFile
  <2>19. Honest
    BY <2>6, <2>13, <2>18 DEF Honest, ReadsFile, CloseKeeps, CrashMisses, MakesFile, Called
  <2> QED
    BY <2>15, <2>19, LeavesKeeps
<1> QED
  BY <1>2, <1>3

\* Deleting files: the names are loose, and a search is disturbed.
LEMMA DeleteFileKeeps ==
  ASSUME EmInv, NEW f \in Fcb, DeleteFile(f)
  PROVE  EmInv' /\ Honest
<1> PICK s : s = fs
  OBVIOUS
<1> PICK t : t = fs'
  OBVIOUS
<1> PICK q : q = search
  OBVIOUS
<1> PICK d : d = DriveOf(f)
  OBVIOUS
<1>1. EmTyped /\ Sound(s) /\ q \in Search /\ Turn /\ Runs /\ disk' = disk /\ Sized(f)
  BY DEF EmInv, DeleteFile, Call, SearchSound
<1>2. \E p : LET gone == Matching(s, d, p) IN
         t = FileDelete(s, d, p) /\ ret'.op = "delete" /\ History(f, gone)
  BY DEF DeleteFile, Result, Reply
<1> PICK p : LET gone == Matching(s, d, p) IN
         t = FileDelete(s, d, p) /\ ret'.op = "delete" /\ History(f, gone)
  BY <1>2
<1> PICK gone : gone = Matching(s, d, p)
  OBVIOUS
<1>3. t = FileDelete(s, d, p) /\ ret'.op = "delete" /\ History(f, gone)
  OBVIOUS
<1>4. Moves(s, t, gone) /\ DOMAIN t.dir = DOMAIN s.dir \ gone
  BY <1>1, <1>3, FileDeleteIs
<1>5. gone \subseteq Base /\ (d # MappedDrive => gone = {})
  <2>1. DOMAIN s.dir \subseteq Base
    BY <1>1, StoreFields, DirsAre DEF Sound, Housed
  <2> QED
    BY <2>1 DEF Matching
<1>6. SearchSound(search', DOMAIN fs'.dir)
  <2>1. CASE d = MappedDrive
    <3>1. Unsettled
      BY <2>1 DEF DeleteFile
    <3> PICK rest \in SUBSET q.left : search' = [q EXCEPT !.left = rest, !.calm = FALSE]
      BY <3>1 DEF Unsettled
    <3> PICK r : r = search'
      OBVIOUS
    <3>2. rest \in SUBSET Base
      BY <1>1 DEF Search
    <3>3. r \in Search /\ r.calm = FALSE
      BY <1>1, <3>2 DEF Search
    <3>4. SearchSound(r, DOMAIN t.dir)
      BY <3>3 DEF SearchSound
    <3> QED
      BY <3>4
  <2>2. CASE d # MappedDrive
    <3>1. search' = search
      BY <2>2 DEF DeleteFile
    <3>2. DOMAIN t.dir = DOMAIN s.dir
      BY <1>4, <1>5, <2>2
    <3> QED
      BY <3>1, <3>2, SearchStays
  <2> QED
    BY <2>1, <2>2
<1>7. At(f) \in Block /\ At(f).drive = DriveOf(f) /\ At(f).count = fcb[f].count
  BY <1>1, BlockAt
<1>8. calls' \in 0..MaxCalls /\ crashed' = crashed /\ crashed' \in BOOLEAN
  BY <1>1, TurnIs DEF Runs
<1>9. Leaves(f, At(f), gone)
  BY <1>1, <1>3, <1>4, <1>5, <1>6, <1>7, <1>8 DEF Leaves, Learns, Sized
<1> QED
  BY <1>3, <1>8, <1>9, LeavesKeeps, QuietIsHonest

\* Renaming a file: both names are loose, and a search is disturbed.
LEMMA RenameFileKeeps ==
  ASSUME EmInv, NEW f \in Fcb, RenameFile(f)
  PROVE  EmInv' /\ Honest
<1> PICK s : s = fs
  OBVIOUS
<1> PICK t : t = fs'
  OBVIOUS
<1> PICK q : q = search
  OBVIOUS
<1> PICK a : a = FcbBase[f]
  OBVIOUS
<1>1. EmTyped /\ Sound(s) /\ q \in Search /\ Turn /\ Runs /\ disk' = disk /\ Sized(f)
  BY DEF EmInv, RenameFile, Call, SearchSound
<1>2. At(f) \in Block /\ At(f).drive = DriveOf(f) /\ At(f).count = fcb[f].count /\ a \in Base
  BY <1>1, BlockAt
<1>3. calls' \in 0..MaxCalls /\ crashed' = crashed /\ crashed' \in BOOLEAN
  BY <1>1, TurnIs DEF Runs
<1>4. ret'.op = "rename"
  BY DEF RenameFile, Result, Reply
<1>5. CASE ~CanRename(s, DriveOf(f), a)
  <2>1. t = s /\ search' = search /\ History(f, {})
    BY <1>5 DEF RenameFile
  <2>2. Moves(fs, fs', {})
    BY <1>1, <2>1, StepsSame, StepsMoves
  <2>3. SearchSound(search', DOMAIN fs'.dir)
    BY <2>1, SearchStays
  <2>4. Leaves(f, At(f), {})
    BY <1>1, <1>2, <1>3, <1>4, <2>1, <2>2, <2>3 DEF Leaves, Learns, Sized
  <2> QED
    BY <1>3, <1>4, <2>4, LeavesKeeps, QuietIsHonest
<1>6. CASE CanRename(s, DriveOf(f), a)
  <2>1. \E b \in Base :
           /\ t = FileRename(s, a, b) /\ History(f, IF b = a THEN {} ELSE {b, a})
           /\ Appears(b) \/ (b \in DOMAIN fs.dir /\ search' = [search EXCEPT !.calm = FALSE])
    BY <1>6 DEF RenameFile
  <2> PICK b \in Base :
           /\ t = FileRename(s, a, b) /\ History(f, IF b = a THEN {} ELSE {b, a})
           /\ Appears(b) \/ (b \in DOMAIN fs.dir /\ search' = [search EXCEPT !.calm = FALSE])
    BY <2>1
  <2> PICK names : names = IF b = a THEN {} ELSE {b, a}
    OBVIOUS
  <2>2. Moves(s, t, names)
    <3>1. CASE b = a
      <4>1. t = s
        BY <3>1 DEF FileRename
      <4> QED
        BY <1>1, <3>1, <4>1, StepsSame, StepsMoves
    <3>2. CASE b # a
      <4>1. a \in DOMAIN s.dir
        BY <1>6 DEF CanRename
      <4> QED
        BY <1>1, <3>2, <4>1, FileRenameIs
    <3> QED
      BY <3>1, <3>2
  <2>3. SearchSound(search', DOMAIN fs'.dir)
    <3>1. q.left \cup {b} \in SUBSET Base
      BY <1>1 DEF Search
    <3>2. \/ search' = [q EXCEPT !.calm = FALSE]
          \/ search' = [q EXCEPT !.calm = FALSE, !.left = q.left \cup {b}]
      BY DEF Appears
    <3> QED
      BY <1>1, <3>1, <3>2, SearchDisturbed
  <2>4. names \subseteq Base /\ History(f, names)
    BY <1>2
  <2>5. Leaves(f, At(f), names)
    BY <1>1, <1>2, <1>3, <1>4, <2>2, <2>3, <2>4 DEF Leaves, Learns, Sized
  <2> QED
    BY <1>3, <1>4, <2>5, LeavesKeeps, QuietIsHonest
<1> QED
  BY <1>5, <1>6

\* A step that leaves the files alone.
LEMMA RestsKeeps ==
  ASSUME EmInv, fs' = fs, loose' = loose, fresh' = fresh,
         fcb' = fcb \/ \E f \in Fcb : Sized(f),
         disk' \in Drives, calls' \in 0..MaxCalls, crashed' \in BOOLEAN,
         SearchSound(search', DOMAIN fs.dir)
  PROVE  EmInv'
<1>1. EmTyped
  BY DEF EmInv
<1>2. fcb' \in [Fcb -> Block] /\ \A f \in fresh : fcb'[f].drive = MappedDrive /\ fcb'[f].count = fcb[f].count
  <2>1. CASE fcb' = fcb
    BY <1>1, <2>1 DEF EmTyped, EmInv, Knows
  <2>2. ASSUME NEW f \in Fcb, Sized(f)
        PROVE  /\ fcb' \in [Fcb -> Block]
               /\ \A g \in fresh : fcb'[g].drive = MappedDrive /\ fcb'[g].count = fcb[g].count
    <3>1. At(f) \in Block /\ At(f).drive = DriveOf(f) /\ At(f).count = fcb[f].count
          /\ (fcb[f].drive = MappedDrive => DriveOf(f) = MappedDrive)
      BY <1>1, BlockAt
    <3>2. fcb' \in [Fcb -> Block]
      BY <1>1, <2>2, <3>1 DEF EmTyped, Sized
    <3>3. ASSUME NEW g \in fresh PROVE fcb'[g].drive = MappedDrive /\ fcb'[g].count = fcb[g].count
      <4>1. fcb[g].drive = MappedDrive /\ g \in Fcb
        BY <1>1 DEF EmInv, Knows, EmTyped
      <4>2. CASE g = f
        BY <1>1, <2>2, <3>1, <4>1, <4>2 DEF EmTyped, Sized
      <4>3. CASE g # f
        BY <1>1, <2>2, <4>1, <4>3 DEF EmTyped, Sized
      <4> QED
        BY <4>2, <4>3
    <3> QED
      BY <3>2, <3>3
  <2> QED
    BY <2>1, <2>2
<1>3. EmTyped'
  BY <1>1, <1>2 DEF EmTyped
<1>4. Sound(fs)' /\ AllCurrent(fs, loose)' /\ SearchSound(search, DOMAIN fs.dir)'
  BY DEF EmInv
<1>5. ASSUME NEW f \in fresh' PROVE Knows(f)'
  <2>1. Knows(f) /\ f \in fresh
    BY <1>5 DEF EmInv
  <2> QED
    BY <1>2, <2>1 DEF Knows
<1> QED
  BY <1>3, <1>4, <1>5 DEF EmInv

\* A search goes on: it returns a name that it had yet to return, or none when there is none.
LEMMA FindNextIs ==
  ASSUME NEW q \in Search, q.calm => q.due = IF q.dir THEN q.left \cap q.pattern \cap DOMAIN fs.dir ELSE {},
         FindNextIn(q)
  PROVE  SearchSound(search', DOMAIN fs.dir) /\ ret'.op = "find"
<1> PICK D : D = DOMAIN fs.dir
  OBVIOUS
<1> PICK hits : hits = q.left \cap q.pattern \cap D
  OBVIOUS
<1> PICK p : p = search'
  OBVIOUS
<1>1. CASE ~q.dir \/ hits = {}
  <2>1. p = [q EXCEPT !.dir = FALSE, !.left = {}] /\ ret'.op = "find"
    <3>1. search' = [q EXCEPT !.dir = FALSE, !.left = {}] /\ Result("find", 0, 255, 0)
      BY ONLY <1>1, FindNextIn(q), hits = q.left \cap q.pattern \cap D, D = DOMAIN fs.dir DEF FindNextIn
    <3> QED
      BY <3>1 DEF Result, Reply
  <2>2. p \in Search /\ p.left = {} /\ p.due = q.due /\ p.calm = q.calm
    BY <2>1 DEF Search
  <2> QED
    BY <1>1, <2>1, <2>2 DEF SearchSound
<1>2. CASE ~(~q.dir \/ hits = {})
  <2>1. \E b \in hits : /\ search' = [q EXCEPT !.left = q.left \ {b}, !.due = q.due \ {b}]
                        /\ Result("find", 0, 0, b)
    BY ONLY <1>2, FindNextIn(q), hits = q.left \cap q.pattern \cap D, D = DOMAIN fs.dir DEF FindNextIn
  <2> PICK b \in hits : /\ search' = [q EXCEPT !.left = q.left \ {b}, !.due = q.due \ {b}]
                        /\ Result("find", 0, 0, b)
    BY <2>1
  <2>2. /\ p \in Search /\ p.left = q.left \ {b} /\ p.due = q.due \ {b} /\ p.calm = q.calm
        /\ p.dir = q.dir /\ p.pattern = q.pattern
    BY DEF Search
  <2>3. ret'.op = "find"
    BY DEF Result, Reply
  <2> QED
    BY <1>2, <2>2, <2>3 DEF SearchSound
<1> QED
  BY <1>1, <1>2

\* A search begins.
LEMMA FindFirstKeeps ==
  ASSUME EmInv, NEW f \in Fcb, FindFirst(f)
  PROVE  EmInv' /\ Honest
<1> PICK d : d = DriveOf(f)
  OBVIOUS
<1> PICK D : D = DOMAIN fs.dir
  OBVIOUS
<1>1. EmTyped /\ Sound(fs) /\ Turn /\ Runs /\ disk' = disk /\ Sized(f)
      /\ fs' = fs /\ loose' = loose /\ fresh' = fresh
  BY DEF EmInv, FindFirst, Call
<1>2. \E p \in Patterns \cup {{FcbBase[f]}} : FindNextIn(FileFindFirst(d, p))
  BY DEF FindFirst
<1> PICK p \in Patterns \cup {{FcbBase[f]}} : FindNextIn(FileFindFirst(d, p))
  BY <1>2
<1>3. p \subseteq Base
  BY EmBdosAssumption
<1>4. D \subseteq Base
  <2> PICK s : s = fs
    OBVIOUS
  <2>1. s \in Store
    BY <1>1 DEF Sound, Housed
  <2> QED
    BY <2>1, StoreFields, DirsAre
<1> PICK q : q = FileFindFirst(d, p)
  OBVIOUS
<1>5. /\ q.dir = (d = MappedDrive) /\ q.pattern = p /\ q.left = D /\ q.due = Matching(fs, d, p)
      /\ q.calm = TRUE
  BY DEF FileFindFirst
<1>6. q \in Search
  <2>1. Matching(fs, d, p) \in SUBSET Base
    BY <1>3 DEF Matching
  <2>2. q = [dir |-> d = MappedDrive, pattern |-> p, left |-> D, due |-> Matching(fs, d, p), calm |-> TRUE]
    BY DEF FileFindFirst
  <2> QED
    BY ONLY <1>3, <1>4, <2>1, <2>2 DEF Search
<1>7. q.due = IF q.dir THEN q.left \cap q.pattern \cap DOMAIN fs.dir ELSE {}
  BY <1>5 DEF Matching
<1>8. SearchSound(search', DOMAIN fs.dir) /\ ret'.op = "find"
  BY <1>6, <1>7, FindNextIs
<1>9. calls' \in 0..MaxCalls /\ crashed' = crashed /\ crashed' \in BOOLEAN
  BY <1>1, TurnIs DEF Runs
<1> QED
  BY <1>1, <1>8, <1>9, RestsKeeps, QuietIsHonest DEF EmTyped

\* A search goes on.
LEMMA FindNextKeeps ==
  ASSUME EmInv, FindNext
  PROVE  EmInv' /\ Honest
<1> PICK q : q = search
  OBVIOUS
<1>1. EmTyped /\ Turn /\ Runs /\ disk' = disk /\ fcb' = fcb /\ FindNextIn(q)
      /\ fs' = fs /\ loose' = loose /\ fresh' = fresh
  BY DEF EmInv, FindNext
<1>2. q \in Search /\ (q.calm => q.due = IF q.dir THEN q.left \cap q.pattern \cap DOMAIN fs.dir ELSE {})
  BY DEF EmInv, SearchSound
<1>3. SearchSound(search', DOMAIN fs.dir) /\ ret'.op = "find"
  BY <1>1, <1>2, FindNextIs
<1>4. calls' \in 0..MaxCalls /\ crashed' = crashed /\ crashed' \in BOOLEAN
  BY <1>1, TurnIs DEF Runs
<1> QED
  BY <1>1, <1>3, <1>4, RestsKeeps, QuietIsHonest DEF EmTyped

\* The default drive changes.
LEMMA SelectKeeps ==
  ASSUME EmInv, SelectDisk \/ ResetDisk
  PROVE  EmInv' /\ Honest
<1>1. EmTyped /\ Turn /\ Runs /\ fcb' = fcb /\ search' = search
      /\ fs' = fs /\ loose' = loose /\ fresh' = fresh /\ ret'.op = "none"
  BY DEF EmInv, SelectDisk, ResetDisk, NoCall
<1>2. disk' \in Drives
  BY EmFileAssumption DEF SelectDisk, ResetDisk
<1>3. SearchSound(search', DOMAIN fs.dir)
  BY <1>1, SearchStays
<1>4. calls' \in 0..MaxCalls /\ crashed' = crashed /\ crashed' \in BOOLEAN
  BY <1>1, TurnIs DEF Runs
<1> QED
  BY <1>1, <1>2, <1>3, <1>4, RestsKeeps, QuietIsHonest

\* The invariant holds at the start.
LEMMA EmStarts ==
  ASSUME EmInit
  PROVE  EmInv
<1>1. \E h \in Hosts : fs = FilesInit(h.dir, h.ino)
  BY DEF EmInit
<1> PICK h \in Hosts : fs = FilesInit(h.dir, h.ino)
  BY <1>1
<1>2. Sound(fs) /\ AllCurrent(fs, loose)
  <2> PICK s : s = fs
    OBVIOUS
  <2> PICK L : L = loose
    OBVIOUS
  <2>1. Sound(s) /\ AllCurrent(s, L)
    BY FilesInitIs
  <2> QED
    BY <2>1
<1>3. EmTyped
  <2>1. \A f \in Fcb : [drive |-> FcbDrive[f], extent |-> 0, count |-> 0, record |-> 0] \in Block
    BY EmBdosAssumption DEF Block
  <2> QED
    <3>1. fcb \in [Fcb -> Block]
      BY <2>1 DEF EmInit
    <3>2. 0 \in 0..MaxCalls
      BY EmBdosAssumption
    <3> QED
      BY <3>1, <3>2, EmFileAssumption DEF EmInit, EmTyped
<1>4. SearchSound(search, DOMAIN fs.dir)
  BY DEF EmInit, NoSearch, SearchSound, Search
<1> QED
  BY <1>2, <1>3, <1>4 DEF EmInv, EmInit

\* Every step keeps the invariant, and its call is an honest one.
LEMMA EmKeeps ==
  ASSUME EmInv, [EmNext]_emVars
  PROVE  EmInv' /\ (Honest \/ UNCHANGED emVars)
<1>1. ASSUME NEW f \in Fcb, OpenFile(f) \/ MakeFile(f) \/ CloseFile(f) \/ FileLength(f)
      PROVE  EmInv' /\ Honest
  BY <1>1, OpenFileKeeps, MakeFileKeeps, CloseFileKeeps, FileLengthKeeps
<1>2. ASSUME NEW f \in Fcb,
             ReadSequential(f) \/ WriteSequential(f) \/ ReadRandom(f) \/ WriteRandom(f)
      PROVE  EmInv' /\ Honest
  <2> PICK r : r = CurrentRecord(f)
    OBVIOUS
  <2>1. r \in Nat /\ r + 1 \in Nat
    <3>1. r \in Nat
      BY BlockAt DEF EmInv
    <3> QED
      BY ONLY <3>1
  <2>2. RandomRecords \subseteq Nat
    BY EmBdosAssumption
  <2>3. CASE ReadSequential(f)
    BY <2>1, <2>3, ReadKeeps DEF ReadSequential
  <2>4. CASE WriteSequential(f)
    BY <2>1, <2>4, WriteKeeps DEF WriteSequential
  <2>5. CASE ReadRandom(f)
    BY <2>2, <2>5, ReadKeeps DEF ReadRandom
  <2>6. CASE WriteRandom(f)
    BY <2>2, <2>6, WriteKeeps DEF WriteRandom
  <2> QED
    BY <1>2, <2>3, <2>4, <2>5, <2>6
<1>3. ASSUME NEW f \in Fcb, DeleteFile(f) \/ RenameFile(f) \/ FindFirst(f)
      PROVE  EmInv' /\ Honest
  BY <1>3, DeleteFileKeeps, RenameFileKeeps, FindFirstKeeps
<1>4. ASSUME FindNext \/ SelectDisk \/ ResetDisk
      PROVE  EmInv' /\ Honest
  BY <1>4, FindNextKeeps, SelectKeeps
<1>5. CASE UNCHANGED emVars
  <2>1. disk' \in Drives /\ calls' \in 0..MaxCalls /\ crashed' \in BOOLEAN
    BY <1>5 DEF EmInv, EmTyped, emVars
  <2>2. SearchSound(search', DOMAIN fs.dir)
    BY <1>5 DEF EmInv, emVars
  <2> QED
    BY <1>5, <2>1, <2>2, RestsKeeps DEF emVars
<1> QED
  BY <1>1, <1>2, <1>3, <1>4, <1>5 DEF EmNext, EmStop

\* The invariant holds in every state.
THEOREM EmInvariant == EmSpec => []EmInv
<1>1. EmInit => EmInv
  BY EmStarts
<1>2. EmInv /\ [EmNext]_emVars => EmInv'
  BY EmKeeps
<1> QED
  BY <1>1, <1>2, PTL DEF EmSpec

\* The list of open files of a sound store is one list, with a descriptor for each entry.
LEMMA SoundIsListed ==
  ASSUME EmInv
  PROVE  EmListSound
<1> PICK s : s = fs
  OBVIOUS
<1>1. Sound(s) /\ s \in Store /\ EmTyped /\ search \in Search
  BY DEF EmInv, Sound, Housed, SearchSound
<1>2. /\ DOMAIN s.dir \subseteq Base /\ s.file \in Lists /\ s.first \in Slot
  BY <1>1, StoreFields, DirsAre
<1>3. EmTypeOK
  <2>1. ASSUME NEW i \in Slot PROVE s.file[i].fd \in 0..NumFiles
    <3>1. s.file[i].fd \in Nat /\ NumFiles \in Nat
      BY <1>2, EmFileAssumption DEF Lists, Entry
    <3>2. s.file[i].fd = 0 \/ s.file[i].fd <= NumFiles
      BY <1>1 DEF Sound, Owned
    <3> QED
      BY ONLY <3>1, <3>2
  <2>2. s.file \in [Slot -> [prev : Slot \cup {0}, next : Slot \cup {0}, name : CpmName,
                             fd : 0..NumFiles, rw : BOOLEAN]]
    BY <1>2, <2>1 DEF Lists, Entry
  <2>3. /\ \A d \in DOMAIN s.fds : s.fds[d].ino \in DOMAIN s.ino
        /\ \A b \in DOMAIN s.dir : s.dir[b] \in DOMAIN s.ino
    BY <1>1 DEF Sound, Housed
  <2>4. search.left \subseteq Base /\ search.due \subseteq Base
    BY <1>1 DEF Search
  <2> QED
    BY <1>1, <1>2, <2>2, <2>3, <2>4 DEF EmTypeOK, EmTyped, Block
<1>4. EmListWhole
  <2> PICK p : Chain(s, p)
    BY <1>1 DEF Sound, Listed
  <2>1. Order(s) = p
    BY <1>1, OrderIs
  <2>2. /\ {p[k] : k \in Slot} = Slot /\ s.file[s.first].prev = 0
        /\ \A i, j \in Slot : s.file[i].next = j <=> s.file[j].prev = i
    BY <1>1, ChainWhole
  <2>3. Named(s)
    BY <1>1 DEF Sound
  <2> QED
    BY <2>1, <2>2, <2>3 DEF EmListWhole, Named
<1>5. EmDescriptorsOwned
  <2>1. Owned(s)
    BY <1>1 DEF Sound
  <2>2. \A d \in DOMAIN s.fds : d # 0
    BY <1>1, StoreFields, FdsAre
  <2>3. DOMAIN s.fds = {s.file[i].fd : i \in Slot} \ {0}
    BY <2>1, <2>2 DEF Owned
  <2> QED
    BY <2>1, <2>3 DEF EmDescriptorsOwned, Owned
<1> QED
  BY <1>3, <1>4, <1>5 DEF EmListSound

\* The list of open files (fileio.c:84) is one list of all entries however entries are
\* opened, reopened, closed and given up, and no descriptor is lost or shared.
THEOREM EmListStaysSound == EmSpec => []EmListSound
<1>1. EmInv => EmListSound
  BY SoundIsListed
<1> QED
  BY <1>1, EmInvariant, PTL

\* An entry that is kept open is open on the file the directory has under its name, unless
\* a delete, a rename or a replacement went by the list (fileio.c:389).
THEOREM EmStaleIsLoose == EmSpec => []EmStaleOnlyWhenLoose
<1>1. EmInv => EmStaleOnlyWhenLoose
  <2> SUFFICES ASSUME EmInv PROVE EmStaleOnlyWhenLoose
    OBVIOUS
  <2>1. AllCurrent(fs, loose)
    BY DEF EmInv
  <2> QED
    BY <2>1 DEF AllCurrent, Current, Ino, EmStaleOnlyWhenLoose
<1> QED
  BY <1>1, EmInvariant, PTL

\* A search that no name was added to, deleted from or renamed under returns every name
\* that matches, and returns it once.
THEOREM EmSearchIsComplete == EmSpec => []EmSearchComplete
<1>1. EmInv => EmSearchComplete
  BY DEF EmInv, SearchSound, EmSearchComplete
<1> QED
  BY <1>1, EmInvariant, PTL

\* Reads return what the file holds, writes that succeed reach it and those that fail leave
\* it, a close with a block that knows the length changes nothing, a make that succeeds
\* leaves a file of that name, all unless the name is loose; and only a call on a missing
\* file brings the emulator down.
THEOREM EmCallsAreHonest == EmSpec => EmCallsHonest
<1>1. EmInv /\ [EmNext]_emVars => [ReadsFile]_emVars
  BY EmKeeps DEF Honest
<1>2. EmInv /\ [EmNext]_emVars => [WritesFile]_emVars
  BY EmKeeps DEF Honest
<1>3. EmInv /\ [EmNext]_emVars => [CloseKeeps]_emVars
  BY EmKeeps DEF Honest
<1>4. EmInv /\ [EmNext]_emVars => [CrashMisses]_emVars
  BY EmKeeps DEF Honest
<1>5. EmInv /\ [EmNext]_emVars => [MakesFile]_emVars
  BY EmKeeps DEF Honest
<1>6. EmSpec => /\ [][ReadsFile]_emVars /\ [][WritesFile]_emVars /\ [][CloseKeeps]_emVars
                /\ [][CrashMisses]_emVars /\ [][MakesFile]_emVars
  BY <1>1, <1>2, <1>3, <1>4, <1>5, EmInvariant, PTL DEF EmSpec
<1> QED
  BY <1>6 DEF EmCallsHonest, EmReadsTheFile, EmWritesReachTheFile, EmCloseKeepsTheFile,
              EmCrashNeedsMissingFile, EmMakeMakes, ReadsFile, WritesFile, CloseKeeps,
              CrashMisses, MakesFile
===============================================================================
