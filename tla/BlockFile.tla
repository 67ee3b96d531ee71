------------------------------ MODULE BlockFile ------------------------------
(***************************************************************************)
(* The disk behind the virtio block device (BlockDeviceFile in             *)
(* dromajo_main.cpp): a file opened read-only, read-write, or as a         *)
(* snapshot, whose writes stay in memory.  The driver's requests lie       *)
(* within the capacity, except that a write may run past the end.          *)
(***************************************************************************)
EXTENDS Integers

CONSTANTS Sectors,   \* nb_sectors
          Contents   \* contents of a sector

None == -1   \* not a sector content

ASSUME DiskAssumption == Sectors \in Nat /\ None \notin Contents

Modes == {"RO", "RW", "SNAPSHOT"}

Numbers == 0..(Sectors - 1)

VARIABLES mode,
          file,          \* contents of the file
          sector_table,  \* the snapshot's sectors, or None
          seen           \* what the guest last wrote successfully or the file held at the start

diskvars == <<mode, file, sector_table, seen>>

\* Mutant: only the first sector of a request comes from the snapshot.
MutRead(first, n) ==
    [i \in 0..(n - 1) |->
        IF mode = "SNAPSHOT" /\ sector_table[first] /= None THEN sector_table[first + i] ELSE file[first + i]]

bf_read_async(first, n) ==
    [i \in 0..(n - 1) |->
        IF mode = "SNAPSHOT" /\ sector_table[first + i] /= None THEN sector_table[first + i] ELSE file[first + i]]

Written(old, first, n, data) == [s \in Numbers |-> IF s - first \in 0..(n - 1) THEN data ELSE old[s]]

\* Mutant: the snapshot is written through.
MutWriteThrough(first, n, data) ==
    IF mode = "RO" \/ first + n > Sectors THEN UNCHANGED diskvars
    ELSE /\ file' = Written(file, first, n, data)
         /\ seen' = Written(seen, first, n, data)
         /\ UNCHANGED <<mode, sector_table>>

bf_write_async(first, n, data) ==
    CASE mode = "RO" -> UNCHANGED diskvars
      [] mode = "RW" -> /\ first + n <= Sectors
                        /\ file' = Written(file, first, n, data)
                        /\ seen' = Written(seen, first, n, data)
                        /\ UNCHANGED <<mode, sector_table>>
      [] mode = "SNAPSHOT" -> IF first + n > Sectors THEN UNCHANGED diskvars
                              ELSE /\ sector_table' = Written(sector_table, first, n, data)
                                   /\ seen' = Written(seen, first, n, data)
                                   /\ UNCHANGED <<mode, file>>

DiskInit ==
    /\ mode \in Modes
    /\ file \in [Numbers -> Contents]
    /\ sector_table = [s \in Numbers |-> None]
    /\ seen = file

DiskNext == \E first \in Numbers, n \in 1..Sectors, data \in Contents : bf_write_async(first, n, data)

DiskSpec == DiskInit /\ [][DiskNext]_diskvars

(***************************************************************************)
(* Properties                                                              *)
(***************************************************************************)

\* Every read of the device returns what was last written to each sector, in
\* every mode and for every mixture of written and untouched sectors; a write
\* that was refused left no trace.
ReadsLatest ==
    \A first \in Numbers, n \in 1..Sectors :
        first + n <= Sectors => \A i \in 0..(n - 1) : bf_read_async(first, n)[i] = seen[first + i]

KeepsFile == mode /= "RW" => file' = file

\* Every read of the disk returns what was last written, in every mode, and a
\* read-only disk or a snapshot leaves the file as it was.
DiskExact == []ReadsLatest /\ [][KeepsFile]_diskvars
=============================================================================
