--------------------------------- MODULE P9 ---------------------------------
(***************************************************************************)
(* The 9p file system device: the requests of virtio_9p_recv_request, the  *)
(* table of fids, and the host directory (FsDisk).  The guest sends any    *)
(* request on any fid and keeps a view of its fids from the replies alone; *)
(* fs_disk answers at once, so a request and its one reply are one step.   *)
(***************************************************************************)
EXTENDS FsDisk

CONSTANTS Fids

VARIABLES host,   \* tree, object types and descriptors of the host
          fids,   \* fid_list: the file of each bound fid
          view    \* what the replies told the guest: path and open mode of a fid

p9vars == <<host, fids, view>>

Bound == DOMAIN fids

Drop(fun, x) == [y \in DOMAIN fun \ {x} |-> fun[y]]

\* Mutant: a fid that is bound again keeps the descriptor of its old file open.
MutFidSet(h, table, fid, f) == [h |-> h, table |-> Put(table, fid, f)]

fid_set(h, table, fid, f) ==
    [h |-> IF fid \in DOMAIN table THEN fs_delete(h, table[fid]) ELSE h, table |-> Put(table, fid, f)]

fid_delete(h, table, fid) ==
    IF fid \in DOMAIN table THEN [h |-> fs_delete(h, table[fid]), table |-> Drop(table, fid)]
    ELSE [h |-> h, table |-> table]

\* The table and the host take the result r of an operation on fid.
Become(fid, r) ==
    /\ host' = r.h
    /\ fids' = [fids EXCEPT ![fid] = r.f]

Attach(fid, fault) ==
    LET r == fs_attach(host, fault)
        s == fid_set(host, fids, fid, r.f)
    IN  IF r.err THEN UNCHANGED p9vars
        ELSE /\ host' = s.h
             /\ fids' = s.table
             /\ view' = Put(view, fid, [path |-> <<>>, opened |-> Closed])

\* A walk that stops half way still binds newfid; the reply tells how far it
\* got, and the guest does not use newfid then.
Walk(fid, newfid, names) ==
    /\ fid \in Bound
    /\ Len(fids[fid].path) + Len(names) <= Depth
    /\ LET r == fs_walk(host, fids[fid], names)
           s == fid_set(host, fids, newfid, r.f)
       IN  /\ host' = s.h
           /\ fids' = s.table
           /\ view' = IF r.count < Len(names) THEN Drop(view, newfid)
                      ELSE IF fid \in DOMAIN view
                      THEN Put(view, newfid, [path |-> view[fid].path \o names, opened |-> Closed])
                      ELSE Drop(view, newfid)

Lopen(fid, directory, fault) ==
    /\ fid \in Bound
    /\ LET r == fs_open(host, fids[fid], directory, fault)
       IN  /\ Become(fid, r)
           /\ view' = IF fid \notin DOMAIN view THEN view
                      ELSE [view EXCEPT ![fid].opened =
                                IF r.err THEN Closed ELSE IF directory THEN "dir" ELSE "file"]

Lcreate(fid, name, fault) ==
    /\ fid \in Bound
    /\ Len(fids[fid].path) < Depth
    /\ LET r == fs_create(host, fids[fid], name, fault)
       IN  /\ Become(fid, r)
           /\ view' = IF fid \notin DOMAIN view THEN view
                      ELSE IF r.err THEN [view EXCEPT ![fid].opened = Closed]
                      ELSE [view EXCEPT ![fid] = [path |-> Append(@.path, name), opened |-> "file"]]

\* A request on one bound fid that leaves the table alone.
OnFid(fid, r) ==
    /\ fid \in Bound
    /\ Become(fid, r)
    /\ UNCHANGED view

Mkdir(fid, name, fault) ==
    /\ fid \in Bound /\ Len(fids[fid].path) < Depth
    /\ OnFid(fid, fs_mkdir(host, fids[fid], name, fault))

Symlink(fid, name, fault) ==
    /\ fid \in Bound /\ Len(fids[fid].path) < Depth
    /\ OnFid(fid, fs_symlink(host, fids[fid], name, fault))

Mknod(fid, name, fault) ==
    /\ fid \in Bound /\ Len(fids[fid].path) < Depth
    /\ OnFid(fid, fs_mknod(host, fids[fid], name, fault))

Readlink(fid) == fid \in Bound /\ OnFid(fid, fs_readlink(host, fids[fid]))

Getattr(fid) == fid \in Bound /\ OnFid(fid, fs_stat(host, fids[fid]))

\* The attributes themselves are in SetAttr.
Setattr(fid) == fid \in Bound /\ OnFid(fid, fs_stat(host, fids[fid]))

Readdir(fid, fault) == fid \in Bound /\ OnFid(fid, fs_readdir(host, fids[fid], fault))

Read(fid, fault) == fid \in Bound /\ OnFid(fid, fs_read(host, fids[fid], fault))

Write(fid, fault) == fid \in Bound /\ OnFid(fid, fs_write(host, fids[fid], fault))

Lock(fid, fault) == fid \in Bound /\ OnFid(fid, fs_lock(host, fids[fid], fault))

Getlock(fid, fault) == fid \in Bound /\ OnFid(fid, fs_getlock(host, fids[fid], fault))

Link(dfid, fid, name, fault) ==
    /\ dfid \in Bound /\ fid \in Bound
    /\ Len(fids[dfid].path) < Depth
    /\ Become(dfid, fs_link(host, fids[dfid], fids[fid], name, fault))
    /\ UNCHANGED view

Renameat(fid, name, newfid, newname, fault) ==
    /\ fid \in Bound /\ newfid \in Bound
    /\ Len(fids[fid].path) < Depth /\ Len(fids[newfid].path) < Depth
    /\ Become(fid, fs_renameat(host, fids[fid], name, fids[newfid], newname, fault))
    /\ UNCHANGED view

Unlinkat(fid, name, fault) ==
    /\ fid \in Bound
    /\ Len(fids[fid].path) < Depth
    /\ Become(fid, fs_unlinkat(host, fids[fid], name, fault))
    /\ UNCHANGED view

\* A clunk of an unknown fid is answered like any other.
Clunk(fid) ==
    LET s == fid_delete(host, fids, fid)
    IN  /\ host' = s.h
        /\ fids' = s.table
        /\ view' = Drop(view, fid)

\* statfs, fsync, flush, version, xattrwalk, an unknown operation, a request
\* that is too short, and every request on an unknown fid but attach and clunk.
NoEffect == UNCHANGED p9vars

P9Init ==
    /\ host = EmptyHost
    /\ fids = <<>>
    /\ view = <<>>

P9Next ==
    \/ \E fid \in Fids, fault \in {"none", "first"} : Attach(fid, fault)
    \/ \E fid, newfid \in Fids, names \in UNION {[1..n -> Names] : n \in 0..Depth} : Walk(fid, newfid, names)
    \/ \E fid \in Fids, directory \in BOOLEAN, fault \in {"none", "first"} : Lopen(fid, directory, fault)
    \/ \E fid \in Fids, name \in Names, fault \in Faults : Lcreate(fid, name, fault)
    \/ \E fid \in Fids, name \in Names, fault \in {"none", "second"} :
           Mkdir(fid, name, fault) \/ Symlink(fid, name, fault) \/ Mknod(fid, name, fault)
    \/ \E fid \in Fids : Readlink(fid) \/ Getattr(fid) \/ Setattr(fid)
    \/ \E fid \in Fids : Readdir(fid, "none") \/ Read(fid, "none") \/ Write(fid, "none")
    \/ \E fid \in Fids : Lock(fid, "none") \/ Getlock(fid, "none")
    \/ \E dfid, fid \in Fids, name \in Names : Link(dfid, fid, name, "none")
    \/ \E fid, newfid \in Fids, name, newname \in Names : Renameat(fid, name, newfid, newname, "none")
    \/ \E fid \in Fids, name \in Names : Unlinkat(fid, name, "none")
    \/ \E fid \in Fids : Clunk(fid)
    \/ NoEffect

P9Spec == P9Init /\ [][P9Next]_p9vars

(***************************************************************************)
(* Properties                                                              *)
(***************************************************************************)
\* The host tree names live objects and the fids hold well-formed files.
P9TypeOK ==
    /\ DOMAIN host.tree \subseteq Paths /\ <<>> \in DOMAIN host.tree
    /\ \A p \in DOMAIN host.tree : host.tree[p] \in DOMAIN host.type
    /\ DOMAIN host.type \subseteq Objects \cup {Root}
    /\ Bound \subseteq Fids
    /\ \A fid \in Bound : Mode(fids[fid]) \in [path : Paths, opened : {Closed, "file", "dir"}]

\* The descriptors the program holds on the host are exactly those of its
\* opened fids, one each: no request sequence leaks one or closes one twice
\* (fs_close before every open, fs_delete in fid_set and fid_delete, close on
\* the error path of fs_create).
DescriptorsExact ==
    LET open == {fid \in Bound : fids[fid].opened /= Closed}
    IN  /\ DOMAIN host.fds = {fids[fid].fd : fid \in open}
        /\ \A f, g \in open : f /= g => fids[f].fd /= fids[g].fd

\* Every fid the guest may use according to the replies is bound, to the path
\* it was walked or created to and opened as the last reply said, whatever
\* happened to other fids and on the error paths in between.
RepliesTrue ==
    \A fid \in DOMAIN view : fid \in Bound /\ Mode(fids[fid]) = view[fid]

\* The host descriptors are exactly those of the opened fids, with no leak and
\* no double close (fs_close, fid_set, fid_delete, the error path of
\* fs_create), and the fid table is what the 9p replies told the guest.
FidsExact == P9TypeOK /\ DescriptorsExact /\ RepliesTrue
=============================================================================
