-------------------------------- MODULE P9Proofs -------------------------------
(***************************************************************************)
(* What the operations of fs_disk do to the host directory and to the      *)
(* descriptor of a fid, and that the table of fids and the descriptors     *)
(* held on the host agree with each other and with what the guest was      *)
(* told, for every set of fids, names and objects and every length of path.*)
(***************************************************************************)
EXTENDS P9, FsDisk, FiniteSetTheorems, SequenceTheorems, WellFoundedInduction, TLAPS

(***************************************************************************)
(* The operations of fs_disk.                                              *)
(***************************************************************************)
\* A set of numbers that is not empty has a least one.
LEMMA Least ==
    ASSUME NEW S \in SUBSET Nat, S # {}
    PROVE  \E x \in S : \A y \in S : x <= y
<1> DEFINE R == OpToRel(<, Nat)
<1>1. IsWellFoundedOn(R, Nat)
  BY NatLessThanWellFounded
<1>2. R = {ss \in Nat \X Nat : ss[1] < ss[2]}
  BY DEF OpToRel
<1> HIDE DEF R
<1>3. PICK x \in S : \A y \in S : ~(<<y, x>> \in R)
  BY <1>1, WFMin, Zenon
<1>4. \A y \in S : x <= y
  <2> SUFFICES ASSUME NEW y \in S, y < x PROVE FALSE
    OBVIOUS
  <2>1. <<y, x>> \in R
    BY <1>2
  <2> QED
    BY <1>3, <2>1
<1> QED
  BY <1>4

\* Paths are the sequences of names that are not too long.
LEMMA PathIsSeq ==
    /\ \A p \in Paths : p \in Seq(Names) /\ Len(p) \in Nat /\ Len(p) <= Depth
    /\ \A p \in Seq(Names) : Len(p) <= Depth => p \in Paths
    /\ <<>> \in Paths
<1> USE FsDiskAssumption
<1>1. ASSUME NEW p \in Paths PROVE p \in Seq(Names) /\ Len(p) \in Nat /\ Len(p) <= Depth
  <2>1. PICK n \in 0..Depth : p \in [1..n -> Names]
    BY DEF Paths
  <2>2. p \in Seq(Names)
    BY <2>1, SeqDef
  <2>3. Len(p) = n
    BY <2>1, <2>2, LenProperties
  <2> QED
    BY <2>2, <2>3
<1>2. ASSUME NEW p \in Seq(Names), Len(p) <= Depth PROVE p \in Paths
  <2>1. p \in [1..Len(p) -> Names] /\ Len(p) \in 0..Depth
    BY <1>2, LenProperties
  <2> QED
    BY <2>1, Zenon DEF Paths
<1>3. <<>> \in Paths
  <2>1. <<>> \in Seq(Names) /\ Len(<<>>) <= Depth
    BY EmptySeq
  <2> QED
    BY <1>2, <2>1, Zenon
<1> QED
  BY <1>1, <1>2, <1>3

\* compose_path stays within the longest path.
LEMMA ComposedPath ==
    ASSUME NEW p \in Paths, NEW name \in Names, Len(p) < Depth
    PROVE  compose_path(p, name) \in Paths
<1> USE FsDiskAssumption
<1>1. p \in Seq(Names) /\ Len(p) \in Nat
  BY PathIsSeq
<1>2. Append(p, name) \in Seq(Names) /\ Len(Append(p, name)) = Len(p) + 1
  BY <1>1
<1>3. Len(Append(p, name)) <= Depth
  BY <1>1, <1>2
<1> QED
  BY <1>2, <1>3, PathIsSeq, Zenon DEF compose_path

\* A path and the beginning of another one below it.
LEMMA WalkedPath ==
    ASSUME NEW p \in Paths, NEW names \in Paths, Len(p) + Len(names) <= Depth,
           NEW n \in 0..Len(names)
    PROVE  p \o SubSeq(names, 1, n) \in Paths
<1> USE FsDiskAssumption
<1>1. p \in Seq(Names) /\ names \in Seq(Names) /\ Len(p) \in Nat /\ Len(names) \in Nat
  BY PathIsSeq
<1>2. \A i \in 1..n : names[i] \in Names
  BY <1>1
<1>3. SubSeq(names, 1, n) \in Seq(Names) /\ Len(SubSeq(names, 1, n)) <= n
  BY <1>1, <1>2, SubSeqProperties
<1>4. Len(SubSeq(names, 1, n)) \in Nat
  BY <1>3
<1>5. p \o SubSeq(names, 1, n) \in Seq(Names) /\ Len(p \o SubSeq(names, 1, n)) <= Depth
  BY <1>1, <1>3, <1>4, ConcatProperties
<1> QED
  BY <1>5, PathIsSeq, Zenon

\* fs_walk stops at a number of names.
LEMMA WalkStops ==
    ASSUME NEW h, NEW p, NEW names \in Paths
    PROVE  WalkLen(h, p, names) \in 0..Len(names)
<1> DEFINE N == Len(names)
           S == {n \in 0..N : n = N \/ ~lstat(h, p \o SubSeq(names, 1, n + 1))}
<1>1. N \in Nat
  BY PathIsSeq
<1>2. S \in SUBSET Nat /\ N \in S
  BY <1>1
<1>3. PICK n \in S : \A m \in S : n <= m
  BY <1>2, Least, Zenon
<1>4. n \in 0..N /\ (n < N => ~lstat(h, p \o SubSeq(names, 1, n + 1)))
  BY <1>1, <1>3
<1>5. ASSUME NEW i \in 1..n PROVE lstat(h, p \o SubSeq(names, 1, i))
  <2> HIDE DEF S
  <2>1. i - 1 \notin S
    <3>1. ~(n <= i - 1)
      BY <1>1, <1>4
    <3> QED
      BY <1>3, <3>1, Zenon
  <2> USE DEF S
  <2>2. i - 1 \in 0..N /\ i - 1 # N /\ (i - 1) + 1 = i
    BY <1>1, <1>4
  <2> QED
    BY <2>1, <2>2
<1> QED
  BY <1>4, <1>5 DEF WalkLen

FileRecords == [path : Paths, opened : {Closed, "file", "dir"}, fd : Nat]

\* A tree of live objects, and finitely many descriptors of live objects.
GoodHost(h) ==
    /\ h = [tree |-> h.tree, type |-> h.type, fds |-> h.fds]
    /\ DOMAIN h.tree \subseteq Paths /\ <<>> \in DOMAIN h.tree
    /\ \A p \in DOMAIN h.tree : h.tree[p] \in DOMAIN h.type
    /\ DOMAIN h.type \subseteq Objects \cup {Root}
    /\ IsFiniteSet(DOMAIN h.fds)
    /\ \A d \in DOMAIN h.fds : h.fds[d] \in DOMAIN h.type

\* What is left after an operation keeps the objects that are in use.
LEMMA Collected ==
    ASSUME NEW tree, NEW type, NEW fds,
           DOMAIN tree \subseteq Paths, <<>> \in DOMAIN tree,
           \A p \in DOMAIN tree : tree[p] \in DOMAIN type,
           DOMAIN type \subseteq Objects \cup {Root}, IsFiniteSet(DOMAIN fds),
           \A d \in DOMAIN fds : fds[d] \in DOMAIN type
    PROVE  /\ GoodHost(Collect(tree, type, fds))
           /\ Collect(tree, type, fds).fds = fds
           /\ Collect(tree, type, fds).tree = tree
BY DEF GoodHost, Collect, Used

\* There is a descriptor that is not in use.
LEMMA NewFdFree ==
    ASSUME NEW h, GoodHost(h)
    PROVE  NewFd(h) \in Nat /\ NewFd(h) \notin DOMAIN h.fds
<1> DEFINE D == DOMAIN h.fds
           n == Cardinality(D)
           S == {d \in 1..(n + 1) : d \notin D}
<1>1. IsFiniteSet(D) /\ n \in Nat
  BY FS_CardinalityType DEF GoodHost
<1>2. S # {}
  <2> SUFFICES ASSUME S = {} PROVE FALSE
    OBVIOUS
  <2>1. 1..(n + 1) \in SUBSET D
    BY Zenon
  <2>2. Cardinality(1..(n + 1)) <= n
    BY <1>1, <2>1, FS_Subset
  <2>3. Cardinality(1..(n + 1)) = n + 1
    BY <1>1, FS_Interval
  <2> QED
    BY <1>1, <2>2, <2>3
<1>3. PICK d \in S : \A e \in S : d <= e
  <2>1. S \in SUBSET Nat
    BY <1>1
  <2> QED
    BY <1>2, <2>1, Least, Zenon
<1>4. d \in 1..(n + 1) /\ d \notin D
  BY <1>3
<1>5. ASSUME NEW e \in 1..(d - 1) PROVE e \in D
  <2>1. ~(d <= e) /\ e \in 1..(n + 1)
    BY <1>1, <1>4
  <2> QED
    BY <1>3, <2>1
<1>6. \E c \in 1..(n + 1) : c \notin D /\ \A e \in 1..(c - 1) : e \in D
  BY <1>4, <1>5
<1>7. NewFd(h) \in 1..(n + 1) /\ NewFd(h) \notin D
  BY <1>6 DEF NewFd
<1> QED
  BY <1>1, <1>7

\* HostOpen adds one descriptor.
LEMMA Opens ==
    ASSUME NEW h, GoodHost(h), NEW path \in DOMAIN h.tree
    PROVE  /\ GoodHost(HostOpen(h, path))
           /\ DOMAIN HostOpen(h, path).fds = DOMAIN h.fds \cup {NewFd(h)}
           /\ HostOpen(h, path).tree = h.tree
<1> DEFINE new == Put(h.fds, NewFd(h), h.tree[path])
<1>1. HostOpen(h, path) = [tree |-> h.tree, type |-> h.type, fds |-> new]
  BY DEF HostOpen, GoodHost
<1>2. DOMAIN new = DOMAIN h.fds \cup {NewFd(h)}
  BY DEF Put
<1>3. IsFiniteSet(DOMAIN new)
  BY <1>2, FS_AddElement DEF GoodHost
<1>4. \A d \in DOMAIN new : new[d] \in DOMAIN h.type
  BY DEF Put, GoodHost
<1> HIDE DEF new
<1> QED
  BY <1>1, <1>2, <1>3, <1>4 DEF GoodHost

\* HostClose takes one away.
LEMMA Closes ==
    ASSUME NEW h, GoodHost(h), NEW fd
    PROVE  /\ GoodHost(HostClose(h, fd))
           /\ DOMAIN HostClose(h, fd).fds = DOMAIN h.fds \ {fd}
           /\ HostClose(h, fd).tree = h.tree
<1> DEFINE new == [d \in DOMAIN h.fds \ {fd} |-> h.fds[d]]
<1>1. DOMAIN new = DOMAIN h.fds \ {fd}
  OBVIOUS
<1>2. IsFiniteSet(DOMAIN new)
  BY <1>1, FS_RemoveElement DEF GoodHost
<1>3. \A d \in DOMAIN new : new[d] \in DOMAIN h.type
  BY DEF GoodHost
<1>4. HostClose(h, fd) = Collect(h.tree, h.type, new)
  BY DEF HostClose
<1> HIDE DEF new
<1> QED
  BY <1>1, <1>2, <1>3, <1>4, Collected DEF GoodHost

\* HostMake takes an inode number that is free.
LEMMA Makes ==
    ASSUME NEW h, GoodHost(h), NEW path \in Paths, NEW type, Unused(h) # {}
    PROVE  /\ GoodHost(HostMake(h, path, type))
           /\ HostMake(h, path, type).fds = h.fds
           /\ path \in DOMAIN HostMake(h, path, type).tree
<1> DEFINE ino == CHOOSE i \in Unused(h) : \A j \in Unused(h) : i <= j
           tree == Put(h.tree, path, ino)
           types == Put(h.type, ino, type)
<1>1. Unused(h) \in SUBSET Nat /\ Unused(h) \subseteq Objects
  BY FsDiskAssumption, Zenon DEF Unused
<1>2. ino \in Objects
  <2>1. \E i \in Unused(h) : \A j \in Unused(h) : i <= j
    BY <1>1, Least
  <2> QED
    BY <1>1, <2>1
<1>3. HostMake(h, path, type) = [tree |-> tree, type |-> types, fds |-> h.fds]
  <2>1. HostMake(h, path, type) = [h EXCEPT !.tree = Put(@, path, ino), !.type = Put(@, ino, type)]
    BY DEF HostMake
  <2> HIDE DEF ino
  <2> QED
    BY <2>1, Zenon DEF GoodHost
<1> HIDE DEF ino
<1>4. DOMAIN tree = DOMAIN h.tree \cup {path} /\ DOMAIN types = DOMAIN h.type \cup {ino}
  BY DEF Put
<1>5. \A p \in DOMAIN tree : tree[p] \in DOMAIN types
  BY DEF Put, GoodHost
<1> HIDE DEF tree, types
<1> QED
  BY <1>2, <1>3, <1>4, <1>5 DEF GoodHost

\* The descriptor a file holds, and that it went from f to k as the host went
\* from h to g.
Fd(f) == IF f.opened = Closed THEN {} ELSE {f.fd}

Exchanges(h, f, g, k) ==
    /\ DOMAIN g.fds = (DOMAIN h.fds \ Fd(f)) \cup Fd(k)
    /\ Fd(k) \cap (DOMAIN h.fds \ Fd(f)) = {}

\* What every operation on the file f of a fid leaves.
Sound(h, f, r) == GoodHost(r.h) /\ r.f \in FileRecords /\ Exchanges(h, f, r.h, r.f)

\* An operation that leaves descriptors and file alone.
LEMMA SameFile ==
    ASSUME NEW h, NEW f \in FileRecords, Fd(f) \subseteq DOMAIN h.fds,
           NEW r, GoodHost(r.h), r.h.fds = h.fds, r.f = f
    PROVE  Sound(h, f, r)
BY DEF Sound, Exchanges

\* fs_close gives the descriptor back.
LEMMA CloseSound ==
    ASSUME NEW h, GoodHost(h), NEW f \in FileRecords
    PROVE  /\ GoodHost(fs_close(h, f).h) /\ fs_close(h, f).f \in FileRecords
           /\ fs_close(h, f).h.tree = h.tree
           /\ fs_close(h, f).f.path = f.path /\ fs_close(h, f).f.opened = Closed
           /\ DOMAIN fs_close(h, f).h.fds = DOMAIN h.fds \ Fd(f)
<1>1. CASE f.opened = Closed
  BY <1>1 DEF fs_close, Done, Fd
<1>2. CASE f.opened # Closed
  <2>1. fs_close(h, f) = Done(HostClose(h, f.fd), [f EXCEPT !.opened = Closed, !.fd = 0])
    BY <1>2 DEF fs_close
  <2>2. Fd(f) = {f.fd}
    BY <1>2 DEF Fd
  <2> DEFINE c == fs_close(h, f)
             k == [f EXCEPT !.opened = Closed, !.fd = 0]
  <2>3. c.h = HostClose(h, f.fd) /\ c.f = k
    BY <2>1 DEF Done
  <2>4. k \in FileRecords /\ k.path = f.path /\ k.opened = Closed
    BY Zenon DEF FileRecords
  <2> HIDE DEF c, k
  <2> QED
    BY <2>2, <2>3, <2>4, Closes DEF c
<1> QED
  BY <1>1, <1>2

\* fs_open closes the file first and holds one descriptor if it succeeds.
LEMMA OpenSound ==
    ASSUME NEW h, GoodHost(h), NEW f \in FileRecords, NEW directory \in BOOLEAN, NEW fault
    PROVE  /\ Sound(h, f, fs_open(h, f, directory, fault))
           /\ Mode(fs_open(h, f, directory, fault).f) =
                 [path |-> f.path,
                  opened |-> IF fs_open(h, f, directory, fault).err THEN Closed
                             ELSE IF directory THEN "dir" ELSE "file"]
<1> DEFINE g == fs_close(h, f).h
           k == fs_close(h, f).f
           r == fs_open(h, f, directory, fault)
           kind == IF directory THEN "dir" ELSE "file"
<1>1. /\ GoodHost(g) /\ k \in FileRecords /\ k.path = f.path /\ k.opened = Closed
      /\ DOMAIN g.fds = DOMAIN h.fds \ Fd(f)
  BY CloseSound
<1>2. \/ r = Error(g, k)
      \/ k.path \in DOMAIN g.tree /\ r = Done(HostOpen(g, k.path), [k EXCEPT !.opened = kind, !.fd = NewFd(g)])
  BY DEF fs_open, stat, lstat
<1> HIDE DEF g, k, r
<1>3. CASE r = Error(g, k)
  BY <1>1, <1>3 DEF Error, Sound, Exchanges, Fd, Mode, r
<1>4. CASE k.path \in DOMAIN g.tree /\ r = Done(HostOpen(g, k.path), [k EXCEPT !.opened = kind, !.fd = NewFd(g)])
  <2>1. r.err = FALSE /\ r.h = HostOpen(g, k.path) /\ r.f = [k EXCEPT !.opened = kind, !.fd = NewFd(g)]
    BY <1>4 DEF Done
  <2>2. NewFd(g) \in Nat /\ NewFd(g) \notin DOMAIN g.fds
    BY <1>1, NewFdFree
  <2>3. GoodHost(HostOpen(g, k.path)) /\ DOMAIN HostOpen(g, k.path).fds = DOMAIN g.fds \cup {NewFd(g)}
    BY <1>1, <1>4, Opens
  <2>4. r.f \in FileRecords /\ r.f.path = k.path /\ r.f.opened = kind /\ r.f.fd = NewFd(g)
    BY <1>1, <2>1, <2>2, Zenon DEF FileRecords
  <2>5. Fd(r.f) = {NewFd(g)}
    BY <2>4 DEF Fd, Closed
  <2>6. Sound(h, f, r)
    BY <1>1, <2>1, <2>2, <2>3, <2>4, <2>5 DEF Sound, Exchanges
  <2> QED
    BY <1>1, <2>1, <2>4, <2>6 DEF Mode, r
<1> QED
  BY <1>2, <1>3, <1>4

\* fs_create likewise, also when the lstat after the open fails.
LEMMA CreateSound ==
    ASSUME NEW h, GoodHost(h), NEW f \in FileRecords, NEW name \in Names, NEW fault,
           Len(f.path) < Depth
    PROVE  /\ Sound(h, f, fs_create(h, f, name, fault))
           /\ Mode(fs_create(h, f, name, fault).f) =
                 IF fs_create(h, f, name, fault).err THEN [path |-> f.path, opened |-> Closed]
                 ELSE [path |-> Append(f.path, name), opened |-> "file"]
<1> DEFINE g == fs_close(h, f).h
           k == fs_close(h, f).f
           r == fs_create(h, f, name, fault)
           path == compose_path(f.path, name)
           made == IF lstat(g, path) THEN g ELSE HostMake(g, path, "file")
<1>1. /\ GoodHost(g) /\ k \in FileRecords /\ k.path = f.path /\ k.opened = Closed
      /\ DOMAIN g.fds = DOMAIN h.fds \ Fd(f)
  BY CloseSound
<1>2. \/ r = Error(g, k)
      \/ /\ lstat(g, path) \/ CanMake(g, path)
         /\ \/ r = Error(HostClose(HostOpen(made, path), NewFd(made)), k)
            \/ r = Done(HostOpen(made, path), [path |-> path, opened |-> "file", fd |-> NewFd(made)])
  BY <1>1, Zenon DEF fs_create
<1>3. path \in Paths /\ path = Append(f.path, name)
  BY ComposedPath DEF FileRecords, compose_path
<1> HIDE DEF g, k, r, path
<1>4. CASE r = Error(g, k)
  BY <1>1, <1>4 DEF Error, Sound, Exchanges, Fd, Mode, r
<1>5. CASE lstat(g, path) \/ CanMake(g, path)
  <2>1. GoodHost(made) /\ made.fds = g.fds /\ path \in DOMAIN made.tree
    <3>1. CASE lstat(g, path)
      BY <1>1, <3>1 DEF lstat
    <3>2. CASE ~lstat(g, path)
      BY <1>1, <1>3, <1>5, <3>2, Makes DEF CanMake
    <3> QED
      BY <3>1, <3>2
  <2> HIDE DEF made
  <2>2. NewFd(made) \in Nat /\ NewFd(made) \notin DOMAIN g.fds
    BY <2>1, NewFdFree
  <2>3. /\ GoodHost(HostOpen(made, path))
        /\ DOMAIN HostOpen(made, path).fds = DOMAIN g.fds \cup {NewFd(made)}
    BY <2>1, Opens
  <2>4. CASE r = Error(HostClose(HostOpen(made, path), NewFd(made)), k)
    <3>1. /\ GoodHost(HostClose(HostOpen(made, path), NewFd(made)))
          /\ DOMAIN HostClose(HostOpen(made, path), NewFd(made)).fds = DOMAIN g.fds
      <4>1. (DOMAIN g.fds \cup {NewFd(made)}) \ {NewFd(made)} = DOMAIN g.fds
        BY <2>2
      <4> DEFINE open == HostOpen(made, path)
      <4>2. GoodHost(open) /\ DOMAIN open.fds = DOMAIN g.fds \cup {NewFd(made)}
        BY <2>3
      <4> HIDE DEF open
      <4>3. /\ GoodHost(HostClose(open, NewFd(made)))
            /\ DOMAIN HostClose(open, NewFd(made)).fds = DOMAIN open.fds \ {NewFd(made)}
        BY <4>2, Closes
      <4> QED
        BY <4>1, <4>2, <4>3 DEF open
    <3> QED
      BY <1>1, <2>4, <3>1 DEF Error, Sound, Exchanges, Fd, Mode, r
  <2>5. CASE r = Done(HostOpen(made, path), [path |-> path, opened |-> "file", fd |-> NewFd(made)])
    <3>1. /\ r.err = FALSE /\ r.h = HostOpen(made, path)
          /\ r.f = [path |-> path, opened |-> "file", fd |-> NewFd(made)]
      BY <2>5 DEF Done
    <3>2. r.f \in FileRecords /\ Fd(r.f) = {NewFd(made)}
      BY <1>3, <2>2, <3>1 DEF FileRecords, Fd, Closed
    <3>3. Sound(h, f, r)
      BY <1>1, <2>2, <2>3, <3>1, <3>2 DEF Sound, Exchanges
    <3> QED
      BY <1>3, <3>1, <3>3 DEF Mode, r
  <2> QED
    BY <1>2, <1>4, <2>4, <2>5
<1> QED
  BY <1>2, <1>4, <1>5

\* fs_mkdir, fs_symlink and fs_mknod.
LEMMA MakeSound ==
    ASSUME NEW h, GoodHost(h), NEW f \in FileRecords, NEW name \in Names, NEW type, NEW fault,
           Len(f.path) < Depth, Fd(f) \subseteq DOMAIN h.fds
    PROVE  Sound(h, f, MakeObject(h, f, name, type, fault)) /\ MakeObject(h, f, name, type, fault).f = f
<1> DEFINE path == compose_path(f.path, name)
           r == MakeObject(h, f, name, type, fault)
<1>1. path \in Paths
  BY ComposedPath DEF FileRecords
<1>2. \/ r.h = h /\ r.f = f
      \/ CanMake(h, path) /\ r.h = HostMake(h, path, type) /\ r.f = f
  BY DEF MakeObject, Error, Done
<1> HIDE DEF path, r
<1>3. GoodHost(r.h) /\ r.h.fds = h.fds
  BY <1>1, <1>2, Makes DEF CanMake
<1> QED
  BY <1>2, <1>3, SameFile DEF r

\* A path with a name is not the root.
LEMMA ComposedNotRoot ==
    ASSUME NEW p \in Paths, NEW name
    PROVE  compose_path(p, name) # <<>> /\ Len(compose_path(p, name)) = Len(p) + 1
<1>1. p \in Seq(Names \cup {name})
  <2>1. p \in Seq(Names)
    BY PathIsSeq
  <2> QED
    BY <2>1, SeqMonotonic
<1>2. Len(Append(p, name)) = Len(p) + 1 /\ Len(p) \in Nat
  BY <1>1
<1>3. Len(<<>>) = 0
  OBVIOUS
<1>4. ASSUME Append(p, name) = <<>> PROVE FALSE
  <2>1. Len(Append(p, name)) = 0
    BY <1>3, <1>4, Zenon
  <2> QED
    BY <1>2, <2>1
<1> QED
  BY <1>2, <1>4 DEF compose_path

\* fs_link gives an object another name.
LEMMA LinkSound ==
    ASSUME NEW h, GoodHost(h), NEW df \in FileRecords, NEW f \in FileRecords, NEW name \in Names,
           NEW fault, Len(df.path) < Depth, Fd(df) \subseteq DOMAIN h.fds
    PROVE  Sound(h, df, fs_link(h, df, f, name, fault)) /\ fs_link(h, df, f, name, fault).f = df
<1> DEFINE path == compose_path(df.path, name)
           tree == Put(h.tree, path, h.tree[f.path])
           r == fs_link(h, df, f, name, fault)
<1>1. path \in Paths
  BY ComposedPath DEF FileRecords
<1>2. \/ r.h = h /\ r.f = df
      \/ f.path \in DOMAIN h.tree /\ r.h = [h EXCEPT !.tree = tree] /\ r.f = df
  BY DEF fs_link, Error, Done, lstat
<1> HIDE DEF path, r
<1>3. CASE f.path \in DOMAIN h.tree /\ r.h = [h EXCEPT !.tree = tree] /\ r.f = df
  <2>1. r.h = [tree |-> tree, type |-> h.type, fds |-> h.fds]
    BY <1>3 DEF GoodHost
  <2>2. DOMAIN tree = DOMAIN h.tree \cup {path}
    BY DEF Put
  <2>3. \A p \in DOMAIN tree : tree[p] \in DOMAIN h.type
    BY <1>3 DEF Put, GoodHost
  <2> HIDE DEF tree
  <2>4. GoodHost(r.h) /\ r.h.fds = h.fds
    BY <1>1, <2>1, <2>2, <2>3 DEF GoodHost
  <2> QED
    BY <1>3, <2>4, SameFile, Zenon DEF r
<1>4. CASE r.h = h /\ r.f = df
  BY <1>4, SameFile, Zenon DEF r
<1> QED
  BY <1>2, <1>3, <1>4

\* fs_unlinkat takes a name away, never the root's.
LEMMA UnlinkSound ==
    ASSUME NEW h, GoodHost(h), NEW f \in FileRecords, NEW name \in Names,
           NEW fault, Fd(f) \subseteq DOMAIN h.fds
    PROVE  Sound(h, f, fs_unlinkat(h, f, name, fault)) /\ fs_unlinkat(h, f, name, fault).f = f
<1> DEFINE path == compose_path(f.path, name)
           tree == [p \in DOMAIN h.tree \ {path} |-> h.tree[p]]
           r == fs_unlinkat(h, f, name, fault)
<1>1. path # <<>>
  BY ComposedNotRoot DEF FileRecords
<1>2. (r.h = h \/ r.h = Collect(tree, h.type, h.fds)) /\ r.f = f
  BY DEF fs_unlinkat, HostRemove, Error, Done
<1> HIDE DEF path, r
<1>3. DOMAIN tree = DOMAIN h.tree \ {path} /\ \A p \in DOMAIN tree : tree[p] \in DOMAIN h.type
  BY DEF GoodHost
<1> HIDE DEF tree
<1>4. DOMAIN tree \subseteq Paths /\ <<>> \in DOMAIN tree
  BY <1>1, <1>3 DEF GoodHost
<1>5. GoodHost(r.h) /\ r.h.fds = h.fds
  BY <1>2, <1>3, <1>4, Collected DEF GoodHost
<1> QED
  BY <1>2, <1>5, SameFile DEF r

\* What is below a renamed path stays within the longest path.
LEMMA MovedPath ==
    ASSUME NEW from \in Seq(Names), NEW to \in Paths, NEW p \in Paths,
           Within(from, p), Len(p) - Len(from) + Len(to) <= Depth
    PROVE  to \o SubSeq(p, Len(from) + 1, Len(p)) \in Paths
<1> USE FsDiskAssumption
<1> DEFINE a == Len(from) + 1
           b == Len(p)
           q == SubSeq(p, a, b)
<1>1. to \in Seq(Names) /\ p \in Seq(Names) /\ Len(to) \in Nat /\ b \in Nat /\ Len(from) \in Nat
  BY PathIsSeq
<1>2. Len(from) <= b
  BY DEF Within
<1>3. \A i \in a..b : p[i] \in Names
  BY <1>1
<1>4. q \in Seq(Names) /\ Len(q) = b - Len(from)
  BY <1>1, <1>2, <1>3, SubSeqProperties
<1> HIDE DEF q
<1>5. to \o q \in Seq(Names) /\ Len(to \o q) = Len(to) + Len(q)
  BY <1>1, <1>4, ConcatProperties, Zenon
<1>6. Len(to \o q) <= Depth
  BY <1>1, <1>4, <1>5
<1> QED
  BY <1>5, <1>6, PathIsSeq, Zenon DEF q

\* fs_renameat moves what is below along and keeps the root.
LEMMA RenameSound ==
    ASSUME NEW h, GoodHost(h), NEW f \in FileRecords, NEW new_f \in FileRecords,
           NEW name \in Names, NEW new_name \in Names, NEW fault,
           Len(f.path) < Depth, Len(new_f.path) < Depth, Fd(f) \subseteq DOMAIN h.fds
    PROVE  /\ Sound(h, f, fs_renameat(h, f, name, new_f, new_name, fault))
           /\ fs_renameat(h, f, name, new_f, new_name, fault).f = f
<1> DEFINE from == compose_path(f.path, name)
           to == compose_path(new_f.path, new_name)
           r == fs_renameat(h, f, name, new_f, new_name, fault)
           Moved(p) == to \o SubSeq(p, Len(from) + 1, Len(p))
           moving == {p \in DOMAIN h.tree : Within(from, p)}
           staying == {p \in DOMAIN h.tree : ~Within(from, p) /\ p # to}
           old(p) == CHOOSE q \in moving : Moved(q) = p
           tree == [p \in staying \cup {Moved(q) : q \in moving} |->
                       IF p \in staying THEN h.tree[p] ELSE h.tree[old(p)]]
<1>1. from \in Paths /\ to \in Paths
  BY ComposedPath DEF FileRecords
<1>2. from # <<>> /\ to # <<>> /\ Len(from) = Len(f.path) + 1
  BY ComposedNotRoot DEF FileRecords
<1>3. Len(f.path) \in Nat /\ from \in Seq(Names)
  BY <1>1, PathIsSeq DEF FileRecords
<1>4. /\ r.h = h \/ (CanRename(h, from, to) /\ r.h = Collect(tree, h.type, h.fds))
      /\ r.f = f
  BY Zenon DEF fs_renameat, HostRename, Error, Done
<1> HIDE DEF from, to, r
<1>5. CASE CanRename(h, from, to) /\ r.h = Collect(tree, h.type, h.fds)
  <2>1. <<>> \in staying
    <3>1. Len(<<>>) = 0
      OBVIOUS
    <3>2. ~Within(from, <<>>)
      BY <1>2, <1>3, <3>1 DEF Within
    <3> QED
      BY <1>2, <3>2 DEF GoodHost
  <2>2. \A q \in moving : Moved(q) \in Paths
    <3> TAKE q \in moving
    <3>1. q \in Paths /\ Within(from, q)
      BY DEF GoodHost
    <3>2. Len(q) - Len(from) + Len(to) <= Depth
      BY <1>5, <3>1 DEF CanRename
    <3> QED
      BY <1>1, <1>3, <3>1, <3>2, MovedPath
  <2>3. DOMAIN tree = staying \cup {Moved(q) : q \in moving}
    OBVIOUS
  <2>4. \A p \in DOMAIN tree : tree[p] \in DOMAIN h.type
    <3> TAKE p \in DOMAIN tree
    <3> HIDE DEF Moved
    <3>1. CASE p \in staying
      BY <3>1 DEF GoodHost
    <3>2. CASE p \notin staying
      <4>1. \E q \in moving : Moved(q) = p
        BY <3>2
      <4>2. old(p) \in moving
        BY <4>1
      <4>3. tree[p] = h.tree[old(p)]
        BY <3>2
      <4> QED
        BY <4>2, <4>3 DEF GoodHost
    <3> QED
      BY <3>1, <3>2
  <2>5. DOMAIN tree \subseteq Paths /\ <<>> \in DOMAIN tree
    BY <2>1, <2>2, <2>3, Zenon DEF GoodHost
  <2> HIDE DEF tree
  <2>6. GoodHost(r.h) /\ r.h.fds = h.fds
    BY <1>5, <2>4, <2>5, Collected DEF GoodHost
  <2> QED
    BY <1>4, <2>6, SameFile, Zenon DEF r
<1>6. CASE r.h = h
  BY <1>4, <1>6, SameFile, Zenon DEF r
<1> QED
  BY <1>4, <1>5, <1>6, Zenon

(***************************************************************************)
(* The table of fids.                                                      *)
(***************************************************************************)
\* DescriptorsExact of a table t and a host h.
Exact(t, h) ==
    /\ \A d \in DOMAIN h.fds : \E g \in DOMAIN t : d \in Fd(t[g])
    /\ \A g \in DOMAIN t : Fd(t[g]) \subseteq DOMAIN h.fds
    /\ \A g, k \in DOMAIN t : g # k => Fd(t[g]) \cap Fd(t[k]) = {}

\* Exact is DescriptorsExact, said of every fid.
LEMMA ExactIsDescriptorsExact == DescriptorsExact <=> Exact(fids, host)
BY DEF DescriptorsExact, Exact, Fd, Bound

\* A fid takes a file whose descriptor is new or the one it held.
LEMMA PutExact ==
    ASSUME NEW t, NEW h, NEW x, NEW f, NEW g, Exact(t, h),
           NEW old, old = IF x \in DOMAIN t THEN Fd(t[x]) ELSE {},
           DOMAIN g.fds = (DOMAIN h.fds \ old) \cup Fd(f),
           Fd(f) \cap (DOMAIN h.fds \ old) = {}
    PROVE  Exact(Put(t, x, f), g)
<1> DEFINE u == Put(t, x, f)
<1>1. /\ DOMAIN u = DOMAIN t \cup {x} /\ u[x] = f
      /\ \A y \in DOMAIN t \ {x} : u[y] = t[y]
  BY DEF Put
<1> HIDE DEF u
<1>2. \A y \in DOMAIN t \ {x} : Fd(t[y]) \cap old = {} /\ Fd(t[y]) \subseteq DOMAIN h.fds \ old
  BY DEF Exact
<1>3. \A y \in DOMAIN u : Fd(u[y]) \subseteq DOMAIN g.fds
  BY <1>1, <1>2
<1>4. \A y, z \in DOMAIN u : y # z => Fd(u[y]) \cap Fd(u[z]) = {}
  BY <1>1, <1>2 DEF Exact
<1>5. \A d \in DOMAIN g.fds : \E y \in DOMAIN u : d \in Fd(u[y])
  BY <1>1 DEF Exact
<1> QED
  BY <1>3, <1>4, <1>5 DEF Exact, u

\* A fid goes with its descriptor.
LEMMA DropExact ==
    ASSUME NEW t, NEW h, NEW x \in DOMAIN t, NEW g, Exact(t, h),
           DOMAIN g.fds = DOMAIN h.fds \ Fd(t[x])
    PROVE  Exact(Drop(t, x), g)
<1> DEFINE u == Drop(t, x)
<1>1. DOMAIN u = DOMAIN t \ {x} /\ \A y \in DOMAIN u : u[y] = t[y]
  BY DEF Drop
<1> HIDE DEF u
<1> QED
  BY <1>1 DEF Exact, u

\* The inductive invariant: the host's state is needed for a fresh descriptor
\* and for the files that a later request opens.
P9Inv ==
    /\ GoodHost(host)
    /\ Bound \subseteq Fids
    /\ \A fid \in Bound : fids[fid] \in FileRecords
    /\ Exact(fids, host)
    /\ RepliesTrue

\* A request on one fid.
LEMMA Becomes ==
    ASSUME P9Inv, NEW fid \in Bound, NEW r, Sound(host, fids[fid], r), Become(fid, r),
           \A g \in DOMAIN view' : g \in Bound /\ view'[g] = Mode(IF g = fid THEN r.f ELSE fids[g])
    PROVE  P9Inv'
<1>1. host' = r.h /\ fids' = [fids EXCEPT ![fid] = r.f]
  BY DEF Become
<1>2. GoodHost(host')
  BY <1>1 DEF Sound
<1>3. Bound' = Bound /\ \A g \in Bound : fids'[g] = IF g = fid THEN r.f ELSE fids[g]
  BY <1>1 DEF Bound
<1>4. fids' = Put(fids, fid, r.f)
  BY <1>1, Zenon DEF Put, Bound
<1>5. Exact(fids', host')
  <2> DEFINE old == IF fid \in DOMAIN fids THEN Fd(fids[fid]) ELSE {}
  <2>1. old = Fd(fids[fid])
    BY DEF Bound
  <2>2. /\ DOMAIN r.h.fds = (DOMAIN host.fds \ old) \cup Fd(r.f)
        /\ Fd(r.f) \cap (DOMAIN host.fds \ old) = {}
    BY <2>1 DEF Sound, Exchanges
  <2>3. Exact(fids, host)
    BY DEF P9Inv
  <2>4. Exact(Put(fids, fid, r.f), r.h)
    BY <2>2, <2>3, PutExact, Zenon
  <2> QED
    BY <1>1, <1>4, <2>4, Zenon
<1>6. \A g \in Bound' : fids'[g] \in FileRecords
  BY <1>3 DEF P9Inv, Sound
<1>7. RepliesTrue'
  BY <1>3 DEF RepliesTrue
<1> QED
  BY <1>2, <1>3, <1>5, <1>6, <1>7 DEF P9Inv

\* Attach and walk bind a fid to a file that is not open.
LEMMA Binds ==
    ASSUME P9Inv, NEW fid \in Fids, NEW f \in FileRecords, f.opened = Closed,
           host' = fid_set(host, fids, fid, f).h, fids' = fid_set(host, fids, fid, f).table,
           \A g \in DOMAIN view' : g \in Bound \cup {fid} /\ view'[g] = Mode(IF g = fid THEN f ELSE fids[g])
    PROVE  P9Inv'
<1> DEFINE old == IF fid \in DOMAIN fids THEN Fd(fids[fid]) ELSE {}
<1>1. GoodHost(host') /\ DOMAIN host'.fds = DOMAIN host.fds \ old
  <2>1. CASE fid \in Bound
    <3>1. host' = fs_close(host, fids[fid]).h
      BY <2>1 DEF fid_set, fs_delete, Bound
    <3>2. fids[fid] \in FileRecords
      BY <2>1 DEF P9Inv
    <3> QED
      BY <2>1, <3>1, <3>2, CloseSound DEF P9Inv, Bound
  <2>2. CASE fid \notin Bound
    BY <2>2 DEF fid_set, P9Inv, Bound
  <2> QED
    BY <2>1, <2>2
<1>2. fids' = Put(fids, fid, f)
  BY DEF fid_set
<1>3. Bound' = Bound \cup {fid} /\ \A g \in Bound' : fids'[g] = IF g = fid THEN f ELSE fids[g]
  BY <1>2 DEF Bound, Put
<1>4. Fd(f) = {}
  BY DEF Fd
<1>5. Exact(fids', host')
  <2>1. /\ DOMAIN host'.fds = (DOMAIN host.fds \ old) \cup Fd(f)
        /\ Fd(f) \cap (DOMAIN host.fds \ old) = {}
    BY <1>1, <1>4
  <2>2. Exact(fids, host)
    BY DEF P9Inv
  <2>3. Exact(Put(fids, fid, f), host')
    BY <2>1, <2>2, PutExact, Zenon
  <2> QED
    BY <1>2, <2>3
<1>6. \A g \in Bound' : fids'[g] \in FileRecords
  BY <1>3 DEF P9Inv
<1>7. RepliesTrue'
  BY <1>3 DEF RepliesTrue
<1> QED
  BY <1>1, <1>3, <1>5, <1>6, <1>7 DEF P9Inv

\* A request that leaves file and view of its fid alone.
LEMMA Keeps ==
    ASSUME P9Inv, NEW fid \in Bound, NEW r, Sound(host, fids[fid], r), Become(fid, r),
           r.f = fids[fid], UNCHANGED view
    PROVE  P9Inv'
BY Becomes DEF P9Inv, RepliesTrue

\* The descriptor of a bound fid is one of the host's.
LEMMA BoundFile ==
    ASSUME P9Inv, NEW fid \in Bound
    PROVE  GoodHost(host) /\ fids[fid] \in FileRecords /\ Fd(fids[fid]) \subseteq DOMAIN host.fds
BY DEF P9Inv, Exact, Bound

\* Attach binds a fid to the root, or fails without a trace.
LEMMA AttachStep ==
    ASSUME P9Inv, NEW fid \in Fids, NEW fault, Attach(fid, fault)
    PROVE  P9Inv'
<1> DEFINE f == fid_create(<<>>)
<1>1. f \in FileRecords /\ f.opened = Closed /\ Mode(f) = [path |-> <<>>, opened |-> Closed]
  BY PathIsSeq DEF fid_create, FileRecords, Mode
<1> HIDE DEF f
<1>2. CASE UNCHANGED p9vars
  BY <1>2 DEF p9vars, P9Inv, Bound, RepliesTrue
<1>3. CASE /\ host' = fid_set(host, fids, fid, f).h /\ fids' = fid_set(host, fids, fid, f).table
           /\ view' = Put(view, fid, Mode(f))
  <2>1. \A g \in DOMAIN view' : g \in Bound \cup {fid} /\ view'[g] = Mode(IF g = fid THEN f ELSE fids[g])
    BY <1>3 DEF Put, P9Inv, RepliesTrue
  <2> QED
    BY <1>1, <1>3, <2>1, Binds
<1> QED
  BY <1>1, <1>2, <1>3 DEF Attach, fs_attach, Error, Done, f

\* A walk binds a fid as far as it got; the guest uses it if that is all the way.
LEMMA WalkStep ==
    ASSUME P9Inv, NEW fid \in Fids, NEW newfid \in Fids, NEW names \in Paths, Walk(fid, newfid, names)
    PROVE  P9Inv'
<1> DEFINE n == WalkLen(host, fids[fid].path, names)
           f == fid_create(fids[fid].path \o SubSeq(names, 1, n))
<1>1. fid \in Bound /\ Len(fids[fid].path) + Len(names) <= Depth /\ fids[fid] \in FileRecords
  BY DEF Walk, P9Inv
<1>2. n \in 0..Len(names) /\ names \in Seq(Names) /\ Len(names) \in Nat
  BY WalkStops, PathIsSeq
<1>3. /\ host' = fid_set(host, fids, newfid, f).h /\ fids' = fid_set(host, fids, newfid, f).table
      /\ \/ view' = Drop(view, newfid)
         \/ /\ ~(n < Len(names)) /\ fid \in DOMAIN view
            /\ view' = Put(view, newfid, [path |-> view[fid].path \o names, opened |-> Closed])
  BY Zenon DEF Walk, fs_walk
<1> HIDE DEF n
<1>4. f \in FileRecords /\ f.opened = Closed /\ f.path = fids[fid].path \o SubSeq(names, 1, n)
  <2>1. fids[fid].path \o SubSeq(names, 1, n) \in Paths
    BY <1>1, <1>2, WalkedPath DEF FileRecords
  <2> QED
    BY <2>1, Zenon DEF fid_create, FileRecords
<1> HIDE DEF f
<1>5. \A g \in DOMAIN view' : g \in Bound \cup {newfid} /\ view'[g] = Mode(IF g = newfid THEN f ELSE fids[g])
  <2>1. CASE view' = Drop(view, newfid)
    BY <2>1 DEF Drop, P9Inv, RepliesTrue
  <2>2. CASE /\ ~(n < Len(names)) /\ fid \in DOMAIN view
             /\ view' = Put(view, newfid, [path |-> view[fid].path \o names, opened |-> Closed])
    <3>1. SubSeq(names, 1, n) = names
      <4>1. n = Len(names)
        BY <1>2, <2>2
      <4> QED
        BY <1>2, <4>1, SubSeqFull
    <3>2. view[fid].path = fids[fid].path
      BY <2>2 DEF P9Inv, RepliesTrue, Mode
    <3>3. Mode(f) = [path |-> view[fid].path \o names, opened |-> Closed]
      BY <1>4, <3>1, <3>2, Zenon DEF Mode
    <3> QED
      BY <2>2, <3>3, Zenon DEF Put, P9Inv, RepliesTrue
  <2> QED
    BY <1>3, <2>1, <2>2
<1> QED
  BY <1>3, <1>4, <1>5, Binds

\* An open that fails leaves the fid closed, as its reply says.
LEMMA LopenStep ==
    ASSUME P9Inv, NEW fid \in Fids, NEW directory \in BOOLEAN, NEW fault, Lopen(fid, directory, fault)
    PROVE  P9Inv'
<1> DEFINE r == fs_open(host, fids[fid], directory, fault)
           kind == IF r.err THEN Closed ELSE IF directory THEN "dir" ELSE "file"
<1>1. fid \in Bound
  BY DEF Lopen
<1>2. Sound(host, fids[fid], r) /\ Mode(r.f) = [path |-> fids[fid].path, opened |-> kind]
  BY <1>1, BoundFile, OpenSound
<1>3. /\ Become(fid, r)
      /\ view' = IF fid \notin DOMAIN view THEN view ELSE [view EXCEPT ![fid].opened = kind]
  BY DEF Lopen
<1> HIDE DEF r, kind
<1>4. \A g \in DOMAIN view : g \in Bound /\ view[g] = Mode(fids[g])
  BY DEF P9Inv, RepliesTrue
<1>5. fid \in DOMAIN view => [view[fid] EXCEPT !.opened = kind] = Mode(r.f)
  BY <1>2, <1>4 DEF Mode
<1>6. \A g \in DOMAIN view' : g \in Bound /\ view'[g] = Mode(IF g = fid THEN r.f ELSE fids[g])
  BY <1>3, <1>4, <1>5
<1> QED
  BY <1>1, <1>2, <1>3, <1>6, Becomes

\* A create moves the fid to the new file, or leaves it closed where it was.
LEMMA LcreateStep ==
    ASSUME P9Inv, NEW fid \in Fids, NEW name \in Names, NEW fault, Lcreate(fid, name, fault)
    PROVE  P9Inv'
<1> DEFINE r == fs_create(host, fids[fid], name, fault)
<1>1. fid \in Bound /\ Len(fids[fid].path) < Depth
  BY DEF Lcreate
<1>2. /\ Sound(host, fids[fid], r)
      /\ Mode(r.f) = IF r.err THEN [path |-> fids[fid].path, opened |-> Closed]
                     ELSE [path |-> Append(fids[fid].path, name), opened |-> "file"]
  BY <1>1, BoundFile, CreateSound, Zenon
<1>3. /\ Become(fid, r)
      /\ view' = IF fid \notin DOMAIN view THEN view
                 ELSE IF r.err THEN [view EXCEPT ![fid].opened = Closed]
                 ELSE [view EXCEPT ![fid] = [path |-> Append(@.path, name), opened |-> "file"]]
  BY DEF Lcreate
<1> HIDE DEF r
<1>4. \A g \in DOMAIN view : g \in Bound /\ view[g] = Mode(fids[g])
  BY DEF P9Inv, RepliesTrue
<1>5. ASSUME fid \in DOMAIN view
      PROVE  IF r.err THEN [view[fid] EXCEPT !.opened = Closed] = Mode(r.f)
             ELSE [path |-> Append(view[fid].path, name), opened |-> "file"] = Mode(r.f)
  <2>1. view[fid] = [path |-> fids[fid].path, opened |-> fids[fid].opened]
    BY <1>4, <1>5 DEF Mode
  <2>2. CASE r.err
    BY <1>2, <2>1, <2>2
  <2>3. CASE ~r.err
    BY <1>2, <2>1, <2>3
  <2> QED
    BY <2>2, <2>3
<1>6. \A g \in DOMAIN view' : g \in Bound /\ view'[g] = Mode(IF g = fid THEN r.f ELSE fids[g])
  BY <1>3, <1>4, <1>5
<1> QED
  BY <1>1, <1>2, <1>3, <1>6, Becomes, Zenon

\* A clunk gives the descriptor back and forgets the fid.
LEMMA ClunkStep ==
    ASSUME P9Inv, NEW fid \in Fids, Clunk(fid)
    PROVE  P9Inv'
<1>1. DOMAIN view' = DOMAIN view \ {fid} /\ \A g \in DOMAIN view' : view'[g] = view[g]
  BY DEF Clunk, Drop
<1>2. CASE fid \in Bound
  <2>1. host' = fs_close(host, fids[fid]).h /\ fids' = Drop(fids, fid)
    BY <1>2 DEF Clunk, fid_delete, fs_delete, Bound
  <2>2. GoodHost(host') /\ DOMAIN host'.fds = DOMAIN host.fds \ Fd(fids[fid])
    BY <1>2, <2>1, BoundFile, CloseSound
  <2>3. Bound' = Bound \ {fid} /\ \A g \in Bound' : fids'[g] = fids[g]
    BY <2>1 DEF Bound, Drop
  <2>4. Exact(fids', host')
    <3>1. fid \in DOMAIN fids /\ Exact(fids, host)
      BY <1>2 DEF P9Inv, Bound
    <3> QED
      BY <2>1, <2>2, <3>1, DropExact
  <2>5. \A g \in Bound' : fids'[g] \in FileRecords
    BY <2>3 DEF P9Inv
  <2>6. RepliesTrue'
    BY <1>1, <2>3 DEF P9Inv, RepliesTrue
  <2> QED
    BY <2>2, <2>3, <2>4, <2>5, <2>6 DEF P9Inv
<1>3. CASE fid \notin Bound
  <2>1. host' = host /\ fids' = fids
    BY <1>3 DEF Clunk, fid_delete, Bound
  <2> QED
    BY <1>1, <2>1 DEF P9Inv, RepliesTrue, Bound
<1> QED
  BY <1>2, <1>3

\* The requests that change the directory only.
LEMMA TreeStep ==
    ASSUME P9Inv, NEW fid \in Fids, NEW other \in Fids, NEW name \in Names, NEW newname \in Names,
           NEW fault,
           \/ Mkdir(fid, name, fault) \/ Symlink(fid, name, fault) \/ Mknod(fid, name, fault)
           \/ Link(fid, other, name, fault) \/ Unlinkat(fid, name, fault)
           \/ Renameat(fid, name, other, newname, fault)
    PROVE  P9Inv'
<1>1. fid \in Bound /\ Len(fids[fid].path) < Depth /\ UNCHANGED view
  BY DEF Mkdir, Symlink, Mknod, OnFid, Link, Unlinkat, Renameat
<1>2. GoodHost(host) /\ fids[fid] \in FileRecords /\ Fd(fids[fid]) \subseteq DOMAIN host.fds
  BY <1>1, BoundFile
<1>3. CASE Mkdir(fid, name, fault)
  BY <1>1, <1>2, <1>3, MakeSound, Keeps DEF Mkdir, OnFid, fs_mkdir
<1>4. CASE Symlink(fid, name, fault)
  BY <1>1, <1>2, <1>4, MakeSound, Keeps DEF Symlink, OnFid, fs_symlink
<1>5. CASE Mknod(fid, name, fault)
  BY <1>1, <1>2, <1>5, MakeSound, Keeps DEF Mknod, OnFid, fs_mknod
<1>6. CASE Link(fid, other, name, fault)
  <2>1. other \in Bound /\ fids[other] \in FileRecords
    BY <1>6 DEF Link, P9Inv
  <2> QED
    BY <1>1, <1>2, <1>6, <2>1, LinkSound, Keeps DEF Link
<1>7. CASE Unlinkat(fid, name, fault)
  BY <1>1, <1>2, <1>7, UnlinkSound, Keeps DEF Unlinkat
<1>8. CASE Renameat(fid, name, other, newname, fault)
  <2>1. other \in Bound /\ fids[other] \in FileRecords /\ Len(fids[other].path) < Depth
    BY <1>8 DEF Renameat, P9Inv
  <2> QED
    BY <1>1, <1>2, <1>8, <2>1, RenameSound, Keeps DEF Renameat
<1> QED
  BY <1>3, <1>4, <1>5, <1>6, <1>7, <1>8

\* The requests that change nothing.
LEMMA ReadStep ==
    ASSUME P9Inv, NEW fid \in Fids, NEW fault,
           \/ Readlink(fid) \/ Getattr(fid) \/ Setattr(fid)
           \/ Readdir(fid, fault) \/ Read(fid, fault) \/ Write(fid, fault)
           \/ Lock(fid, fault) \/ Getlock(fid, fault)
    PROVE  P9Inv'
<1>1. PICK r : OnFid(fid, r) /\ r.h = host /\ r.f = fids[fid]
  BY DEF Readlink, Getattr, Setattr, Readdir, Read, Write, Lock, Getlock, fs_readlink, fs_stat,
         fs_readdir, fs_read, fs_write, fs_lock, fs_getlock, OnDescriptor, Error, Done
<1>2. fid \in Bound /\ Become(fid, r) /\ UNCHANGED view
  BY <1>1 DEF OnFid
<1>3. Sound(host, fids[fid], r)
  BY <1>1, <1>2, BoundFile, SameFile, Zenon
<1> QED
  BY <1>1, <1>2, <1>3, Keeps

\* The directory is empty and no fid is bound.
LEMMA P9Initially == P9Init => P9Inv
<1> SUFFICES ASSUME P9Init PROVE P9Inv
  OBVIOUS
<1>1. DOMAIN host.fds = {} /\ DOMAIN fids = {} /\ DOMAIN view = {}
  BY DEF P9Init, EmptyHost
<1>2. GoodHost(host)
  BY <1>1, PathIsSeq, FS_EmptySet DEF P9Init, EmptyHost, GoodHost
<1> QED
  BY <1>1, <1>2 DEF P9Inv, Exact, RepliesTrue, Bound

\* Every request preserves the invariant.
LEMMA P9Step ==
    ASSUME P9Inv, [P9Next]_p9vars
    PROVE  P9Inv'
<1>1. CASE NoEffect \/ UNCHANGED p9vars
  BY <1>1 DEF NoEffect, p9vars, P9Inv, Bound, RepliesTrue
<1>2. CASE \E fid \in Fids, fault \in {"none", "first"} : Attach(fid, fault)
  BY <1>2, AttachStep
<1>3. CASE \E fid, newfid \in Fids, names \in UNION {[1..n -> Names] : n \in 0..Depth} :
              Walk(fid, newfid, names)
  BY <1>3, WalkStep DEF Paths
<1>4. CASE \E fid \in Fids, directory \in BOOLEAN, fault \in {"none", "first"} : Lopen(fid, directory, fault)
  BY <1>4, LopenStep
<1>5. CASE \E fid \in Fids, name \in Names, fault \in Faults : Lcreate(fid, name, fault)
  BY <1>5, LcreateStep
<1>6. CASE \E fid \in Fids, name \in Names, fault \in {"none", "second"} :
              Mkdir(fid, name, fault) \/ Symlink(fid, name, fault) \/ Mknod(fid, name, fault)
  BY <1>6, TreeStep
<1>7. CASE \E fid \in Fids :
              \/ Readlink(fid) \/ Getattr(fid) \/ Setattr(fid)
              \/ Readdir(fid, "none") \/ Read(fid, "none") \/ Write(fid, "none")
              \/ Lock(fid, "none") \/ Getlock(fid, "none")
  BY <1>7, ReadStep
<1>8. CASE \E dfid, fid \in Fids, name \in Names : Link(dfid, fid, name, "none")
  BY <1>8, TreeStep
<1>9. CASE \E fid, newfid \in Fids, name, newname \in Names : Renameat(fid, name, newfid, newname, "none")
  BY <1>9, TreeStep
<1>10. CASE \E fid \in Fids, name \in Names : Unlinkat(fid, name, "none")
  BY <1>10, TreeStep
<1>11. CASE \E fid \in Fids : Clunk(fid)
  BY <1>11, ClunkStep
<1> QED
  BY <1>1, <1>2, <1>3, <1>4, <1>5, <1>6, <1>7, <1>8, <1>9, <1>10, <1>11 DEF P9Next

\* For every directory, set of fids and sequence of 9p requests, the descriptors
\* held on the host are those of the opened fids, one each, and every fid is
\* bound to the path and opened the way the replies said, on all error paths
\* (fid_set, fid_delete, fs_close, fs_open, fs_create).
THEOREM FidsRight == P9Spec => []FidsExact
<1>1. P9Init => P9Inv
  BY P9Initially
<1>2. P9Inv /\ [P9Next]_p9vars => P9Inv'
  BY P9Step
<1>3. P9Inv => FidsExact
  <2> SUFFICES ASSUME P9Inv PROVE FidsExact
    OBVIOUS
  <2>1. DescriptorsExact /\ RepliesTrue
    BY ExactIsDescriptorsExact DEF P9Inv
  <2>2. \A fid \in Bound : Mode(fids[fid]) \in [path : Paths, opened : {Closed, "file", "dir"}]
    BY DEF P9Inv, Mode, FileRecords
  <2>3. P9TypeOK
    BY <2>2 DEF P9TypeOK, P9Inv, GoodHost
  <2> QED
    BY <2>1, <2>3 DEF FidsExact
<1> QED
  BY <1>1, <1>2, <1>3, PTL DEF P9Spec
================================================================================
