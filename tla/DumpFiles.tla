------------------------------- MODULE DumpFiles -------------------------------
(***************************************************************************)
(* The files of a checkpoint (riscv_cpu.cpp serialize_memory,              *)
(* deserialize_memory, riscv_cpu_serialize, riscv_cpu_deserialize): RAM    *)
(* and boot ROM are two files, written one after the other and piecewise,  *)
(* and the simulator may be killed at any point.  A load reads both and    *)
(* gives up if one is missing or has another size than the memory.  A      *)
(* piece of a file says which piece of the memory it is and from when.     *)
(***************************************************************************)
EXTENDS Naturals, Sequences

CONSTANTS
  Size,      \* pieces of a file
  MaxDumps   \* bound on the dumps made under one name

ASSUME DumpAssumption == Size \in Nat /\ MaxDumps \in Nat

VARIABLES
  moment,    \* how far the guest is
  files,     \* files[f]: the pieces of the file; empty if it does not exist
  writing,   \* the file being written, or "none"
  dumps,     \* dumps begun
  whole,     \* history: the last dump was finished
  short,     \* history: a file of the last dump took more than one write
  loaded     \* what the last load brought back, empty if it gave up

dumpvars == <<moment, files, writing, dumps, whole, short, loaded>>

DumpNames == {"mainram", "bootram"}

DumpInit ==
  /\ moment = 1
  /\ files = [f \in DumpNames |-> <<>>]
  /\ writing = "none" /\ dumps = 0 /\ whole = TRUE /\ short = FALSE
  /\ loaded = <<>>

DumpTypeOK ==
  /\ moment \in Nat /\ dumps \in 0..MaxDumps /\ whole \in BOOLEAN /\ short \in BOOLEAN
  /\ DOMAIN files = DumpNames /\ \A f \in DumpNames : Len(files[f]) <= Size
  /\ writing \in DumpNames \cup {"none"}
  /\ Len(loaded) \in {0, 2 * Size}

--------------------------------------------------------------------------------

\* The guest runs.
Advance ==
  /\ writing = "none" /\ moment <= MaxDumps
  /\ moment' = moment + 1
  /\ UNCHANGED <<files, writing, dumps, whole, short, loaded>>

\* riscv_cpu_serialize opens the RAM file, which truncates it.
Dump ==
  /\ writing = "none" /\ dumps < MaxDumps
  /\ dumps' = dumps + 1 /\ whole' = FALSE /\ short' = FALSE
  /\ writing' = "mainram"
  /\ files' = [files EXCEPT !["mainram"] = <<>>]
  /\ UNCHANGED <<moment, loaded>>

\* One write call of serialize_memory that takes n pieces, at most what is left.
\* It starts at base, which does not move: a second call for the same file
\* writes the beginning of the memory again.  After the last call the next
\* file is opened, or the dump is done.
WriteSome(n) ==
  LET all == files[writing] \o [k \in 1..n |-> [piece |-> k, of |-> moment]]
      full == Len(all) = Size
  IN  /\ writing # "none" /\ n <= Size - Len(files[writing])
      /\ files' = [f \in DumpNames |-> IF f = writing THEN all
                                   ELSE IF full /\ writing = "mainram" THEN <<>> ELSE files[f]]
      /\ writing' = IF ~full THEN writing ELSE IF writing = "mainram" THEN "bootram" ELSE "none"
      /\ whole' = (full /\ writing = "bootram")
      /\ short' = (short \/ files[writing] # <<>>)
      /\ UNCHANGED <<moment, dumps, loaded>>

\* The simulator dies while it writes.
Killed ==
  /\ writing # "none"
  /\ writing' = "none"
  /\ UNCHANGED <<moment, files, dumps, whole, short, loaded>>

\* deserialize_memory: what is read of a file, if it has the memory's size.
AcceptsShort(f) == Len(files[f]) > 0
Accepts(f) == Len(files[f]) = Size

\* Another simulator loads the checkpoint.
LoadDump ==
  /\ writing = "none"
  /\ loaded' = IF \A f \in DumpNames : Accepts(f)
               THEN [k \in 1..(2 * Size) |->
                       LET file == files[IF k <= Size THEN "mainram" ELSE "bootram"]
                           p == IF k <= Size THEN k ELSE k - Size
                       IN  IF p <= Len(file) THEN file[p] ELSE [piece |-> p, of |-> 0]]
               ELSE <<>>
  /\ UNCHANGED <<moment, files, writing, dumps, whole, short>>

DumpNext ==
  \/ Advance \/ Dump \/ Killed \/ LoadDump
  \/ \E n \in 1..Size : WriteSome(n)

DumpSpec == DumpInit /\ [][DumpNext]_dumpvars

--------------------------------------------------------------------------------

OneMoment ==
  loaded' # loaded /\ loaded' # <<>> /\ ~short /\ (whole \/ dumps <= 1) =>
    \A k \in DOMAIN loaded' :
      /\ loaded'[k].of = loaded'[1].of
      /\ loaded'[k].piece = IF k <= Size THEN k ELSE k - Size

\* A load brings back one moment of the guest, every piece of RAM and boot ROM
\* in its place, or gives up, also from the files of a dump that was cut short:
\* unless that dump went over the files of an earlier one, or a write call took
\* less than the whole memory.
LoadsOneMoment == [][OneMoment]_dumpvars
================================================================================
