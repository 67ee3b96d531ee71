------------------------------- MODULE FsDisk -------------------------------
(***************************************************************************)
(* The host directory behind the 9p device (fs_disk.cpp).  Every operation *)
(* is an operator from the host state h and the file f of a fid to the     *)
(* result [err, h, f].  The host (external) is a tree of paths, the types  *)
(* of the objects they name, and the descriptors the program holds; a call *)
(* may also fail for a reason of the host's own: fault names that call.    *)
(* Object attributes are in SetAttr; file contents are left out.           *)
(***************************************************************************)
EXTENDS Integers, Sequences, FiniteSets

CONSTANTS Names,     \* file names
          Depth,     \* longest path
          Objects    \* inode numbers of the objects below the root

Root == 0

ASSUME FsDiskAssumption == Depth \in Nat /\ Objects \subseteq Nat \ {Root}

Paths == UNION {[1..n -> Names] : n \in 0..Depth}

Parent(path) == SubSeq(path, 1, Len(path) - 1)

\* q is path itself or below it.
Within(path, q) == Len(path) <= Len(q) /\ SubSeq(q, 1, Len(path)) = path

Closed == "closed"

Faults == {"none", "first", "second"}

\* FSFile: the union member u is the descriptor of an opened file.
fid_create(path) == [path |-> path, opened |-> Closed, fd |-> 0]

\* What a fid is bound to, without the descriptor.
Mode(f) == [path |-> f.path, opened |-> f.opened]

Done(h, f) == [err |-> FALSE, h |-> h, f |-> f]

Error(h, f) == [err |-> TRUE, h |-> h, f |-> f]

compose_path(path, name) == Append(path, name)

(***************************************************************************)
(* The host.                                                               *)
(***************************************************************************)
Put(fun, x, v) == [y \in DOMAIN fun \cup {x} |-> IF y = x THEN v ELSE fun[y]]

EmptyHost == [tree |-> [p \in {<<>>} |-> Root], type |-> [i \in {Root} |-> "dir"], fds |-> <<>>]

lstat(h, path) == path \in DOMAIN h.tree

TypeAt(h, path) == h.type[h.tree[path]]

\* The symbolic links point nowhere.
stat(h, path) == lstat(h, path) /\ TypeAt(h, path) /= "link"

NothingBelow(h, path) == \A q \in DOMAIN h.tree : Within(path, q) => q = path

HostDir(h, path) == lstat(h, path) /\ TypeAt(h, path) = "dir"

\* A new name can be made at path.
Free(h, path) == Len(path) \in 1..Depth /\ ~lstat(h, path) /\ HostDir(h, Parent(path))

Unused(h) == Objects \ DOMAIN h.type

Used(tree, fds) == {tree[p] : p \in DOMAIN tree} \cup {fds[d] : d \in DOMAIN fds}

\* An object without a name and without a descriptor is gone.
Collect(tree, type, fds) ==
    [tree |-> tree, type |-> [i \in Used(tree, fds) |-> type[i]], fds |-> fds]

HostMake(h, path, type) ==
    LET ino == CHOOSE i \in Unused(h) : \A j \in Unused(h) : i <= j
    IN  [h EXCEPT !.tree = Put(@, path, ino), !.type = Put(@, ino, type)]

CanMake(h, path) == Free(h, path) /\ Unused(h) /= {}

HostRemove(h, path) ==
    Collect([p \in DOMAIN h.tree \ {path} |-> h.tree[p]], h.type, h.fds)

\* rename() of an existing path: what was at "to" goes, what is below moves along.
HostRename(h, from, to) ==
    LET Moved(p) == to \o SubSeq(p, Len(from) + 1, Len(p))
        moving == {p \in DOMAIN h.tree : Within(from, p)}
        staying == {p \in DOMAIN h.tree : ~Within(from, p) /\ p /= to}
        old(p) == CHOOSE q \in moving : Moved(q) = p
    IN  Collect([p \in staying \cup {Moved(q) : q \in moving} |->
                    IF p \in staying THEN h.tree[p] ELSE h.tree[old(p)]], h.type, h.fds)

CanRename(h, from, to) ==
    /\ lstat(h, from) /\ from /= <<>> /\ Len(to) \in 1..Depth
    /\ HostDir(h, Parent(to))
    /\ ~Within(from, to)
    /\ \A p \in DOMAIN h.tree : Within(from, p) => Len(p) - Len(from) + Len(to) <= Depth
    /\ lstat(h, to) => /\ NothingBelow(h, to)
                       /\ (TypeAt(h, to) = "dir") <=> (TypeAt(h, from) = "dir")

NewFd(h) == CHOOSE d \in 1..(Cardinality(DOMAIN h.fds) + 1) :
                d \notin DOMAIN h.fds /\ \A e \in 1..(d - 1) : e \in DOMAIN h.fds

HostOpen(h, path) == [h EXCEPT !.fds = Put(@, NewFd(h), h.tree[path])]

HostClose(h, fd) == Collect(h.tree, h.type, [d \in DOMAIN h.fds \ {fd} |-> h.fds[d]])

(***************************************************************************)
(* fs_disk.cpp                                                             *)
(***************************************************************************)

fs_close(h, f) ==
    IF f.opened = Closed THEN Done(h, f)
    ELSE Done(HostClose(h, f.fd), [f EXCEPT !.opened = Closed, !.fd = 0])

fs_delete(h, f) == fs_close(h, f).h

fs_attach(h, fault) ==
    IF fault /= "none" THEN Error(h, fid_create(<<>>)) ELSE Done(h, fid_create(<<>>))

\* The longest prefix of names that exists; always gives a file.
WalkLen(h, path, names) ==
    CHOOSE n \in 0..Len(names) :
        /\ \A i \in 1..n : lstat(h, path \o SubSeq(names, 1, i))
        /\ n < Len(names) => ~lstat(h, path \o SubSeq(names, 1, n + 1))

fs_walk(h, f, names) ==
    LET n == WalkLen(h, f.path, names)
    IN  [count |-> n, f |-> fid_create(f.path \o SubSeq(names, 1, n))]

fs_open(h0, f0, directory, fault) ==
    LET h == fs_close(h0, f0).h
        f == fs_close(h0, f0).f
    IN  IF ~stat(h, f.path) \/ fault /= "none" THEN Error(h, f)
        ELSE IF directory /\ TypeAt(h, f.path) /= "dir" THEN Error(h, f)
        ELSE Done(HostOpen(h, f.path), [f EXCEPT !.opened = IF directory THEN "dir" ELSE "file", !.fd = NewFd(h)])

\* Mutant: the fid stays on the directory.
MutCreateStays(h0, f0, name, fault) ==
    LET h == fs_close(h0, f0).h
        f == fs_close(h0, f0).f
        path == compose_path(f.path, name)
        made == IF lstat(h, path) THEN h ELSE HostMake(h, path, "file")
        open == HostOpen(made, path)
    IN  IF fault /= "none" THEN Error(h, f)
        ELSE IF ~(IF lstat(h, path) THEN TypeAt(h, path) = "file" ELSE CanMake(h, path)) THEN Error(h, f)
        ELSE Done(open, [f EXCEPT !.opened = "file", !.fd = NewFd(made)])

\* Mutant: the name is added to the path twice.
MutCreateTwice(h0, f0, name, fault) ==
    LET r == MutCreateStays(h0, f0, name, fault)
    IN  IF r.err THEN r ELSE [r EXCEPT !.f.path = Append(Append(@, name), name)]

\* open(O_CREAT), then lstat, whose failure closes the new descriptor.
fs_create(h0, f0, name, fault) ==
    LET h == fs_close(h0, f0).h
        f == fs_close(h0, f0).f
        path == compose_path(f.path, name)
        made == IF lstat(h, path) THEN h ELSE HostMake(h, path, "file")
        open == HostOpen(made, path)
    IN  IF fault = "first" THEN Error(h, f)
        ELSE IF ~(IF lstat(h, path) THEN TypeAt(h, path) = "file" ELSE CanMake(h, path)) THEN Error(h, f)
        ELSE IF fault = "second" THEN Error(HostClose(open, NewFd(made)), f)
        ELSE Done(open, [path |-> path, opened |-> "file", fd |-> NewFd(made)])

\* Make the object, then lstat it.
MakeObject(h, f, name, type, fault) ==
    LET path == compose_path(f.path, name)
    IN  IF fault = "first" \/ ~CanMake(h, path) THEN Error(h, f)
        ELSE IF fault = "second" THEN Error(HostMake(h, path, type), f)
        ELSE Done(HostMake(h, path, type), f)

fs_mkdir(h, f, name, fault) == MakeObject(h, f, name, "dir", fault)

fs_symlink(h, f, name, fault) == MakeObject(h, f, name, "link", fault)

fs_mknod(h, f, name, fault) == MakeObject(h, f, name, "file", fault)

\* The operations on a descriptor need a file opened the right way.
OnDescriptor(h, f, opened, fault) ==
    IF f.opened /= opened \/ fault /= "none" THEN Error(h, f) ELSE Done(h, f)

fs_read(h, f, fault) == OnDescriptor(h, f, "file", fault)

fs_write(h, f, fault) == OnDescriptor(h, f, "file", fault)

fs_readdir(h, f, fault) == OnDescriptor(h, f, "dir", fault)

fs_lock(h, f, fault) == OnDescriptor(h, f, "file", fault)

fs_getlock(h, f, fault) == OnDescriptor(h, f, "file", fault)

fs_stat(h, f) == IF lstat(h, f.path) THEN Done(h, f) ELSE Error(h, f)

fs_readlink(h, f) == IF lstat(h, f.path) /\ TypeAt(h, f.path) = "link" THEN Done(h, f) ELSE Error(h, f)

fs_link(h, df, f, name, fault) ==
    LET path == compose_path(df.path, name)
    IN  IF fault /= "none" \/ ~lstat(h, f.path) \/ ~Free(h, path) THEN Error(h, df)
        ELSE IF TypeAt(h, f.path) = "dir" THEN Error(h, df)
        ELSE Done([h EXCEPT !.tree = Put(@, path, h.tree[f.path])], df)

fs_renameat(h, f, name, new_f, new_name, fault) ==
    LET from == compose_path(f.path, name)
        to == compose_path(new_f.path, new_name)
    IN  IF fault = "none" /\ lstat(h, from) /\ from = to THEN Done(h, f)
        ELSE IF fault = "none" /\ CanRename(h, from, to) THEN Done(HostRename(h, from, to), f)
        ELSE Error(h, f)

fs_unlinkat(h, f, name, fault) ==
    LET path == compose_path(f.path, name)
    IN  IF fault = "none" /\ lstat(h, path) /\ NothingBelow(h, path)
        THEN Done(HostRemove(h, path), f) ELSE Error(h, f)
=============================================================================
