------------------------------ MODULE LoadReserve ------------------------------
(***************************************************************************)
(* Loads, stores, AMOs, LR and SC of several harts on one memory           *)
(* (dromajo_template.h OP_A, riscv_cpu.cpp target_read/target_write and    *)
(* riscv_cpu_read_memory/riscv_cpu_write_memory).  The machine counts      *)
(* every hart's store to RAM in memseqno; a hart's reservation is an       *)
(* address and a copy of that counter, which the hart's own stores advance *)
(* as well.  An SC succeeds while both still agree.                        *)
(*                                                                         *)
(* One action is one instruction: the simulator runs harts in turn on one  *)
(* host thread, so instructions of different harts interleave but never    *)
(* overlap.  Translation is fixed: an address stands for a virtual address *)
(* and the physical word it maps to.  Accesses are aligned (a misaligned   *)
(* store is a loop of byte stores).  The counter is 64 bits wide and does  *)
(* not wrap in any run; MaxSeq bounds it here.                             *)
(***************************************************************************)
EXTENDS Integers

CONSTANTS
  Harts,
  Ram,        \* RAM words, all aligned
  Dev,        \* aligned addresses outside RAM: a device, or no range at all
  Val,
  None,       \* load_res = ~0, which no aligned address equals
  Trap,
  ResetAddr,  \* address 0: hart states are allocated zeroed
  MaxSeq      \* bound on memseqno

Addr == Ram \cup Dev

ASSUME LoadReserveAssumption ==
  /\ {0, 1} \subseteq Val
  /\ None \notin Addr
  /\ Trap \notin Val
  /\ ResetAddr \in Addr
  /\ MaxSeq \in Nat

VARIABLES
  mem,
  memseqno,
  load_res,
  load_res_memseqno,
  rd,         \* rd[h]: what the last memory instruction of h returned
  foreign,    \* history: foreign[h] iff another hart stored to RAM since the
              \* LR of h (since reset, if there was none)
  outside     \* history: outside[h] iff an agent that is not a hart wrote RAM
              \* since then

lrvars == <<mem, memseqno, load_res, load_res_memseqno, rd, foreign, outside>>
resvars == <<load_res, load_res_memseqno, foreign, outside>>

LrTypeOK ==
  /\ mem \in [Ram -> Val]
  /\ memseqno \in Nat
  /\ load_res \in [Harts -> Addr \cup {None}]
  /\ load_res_memseqno \in [Harts -> Nat]
  /\ rd \in [Harts -> Val \cup {Trap}]
  /\ foreign \in [Harts -> BOOLEAN]
  /\ outside \in [Harts -> BOOLEAN]

LrInit ==
  /\ mem \in [Ram -> Val]
  /\ memseqno = 0
  /\ load_res = [h \in Harts |-> ResetAddr]
  /\ load_res_memseqno = [h \in Harts |-> 0]
  /\ rd = [h \in Harts |-> 0]
  /\ foreign = [h \in Harts |-> FALSE]
  /\ outside = [h \in Harts |-> FALSE]

Returns(h, v) == rd' = [rd EXCEPT ![h] = v]

\* target_read_u##size: RAM gives the word, a device any value, an address
\* without a range gives 0.
MayRead(a, v) == a \in Ram => v = mem[a]

\* The counters after one store of hart h to a: bumped only for RAM.
NoBump(h, a) ==
  /\ memseqno' = memseqno
  /\ foreign' = [g \in Harts |-> foreign[g] \/ (g # h /\ a \in Ram)]

Bump(h, a) ==
  /\ memseqno' = IF a \in Ram THEN memseqno + 1 ELSE memseqno
  /\ foreign' = [g \in Harts |-> foreign[g] \/ (g # h /\ a \in Ram)]

\* The hart's own copy of the counter follows its own store.
OwnSeqnoKept(h, a) == load_res_memseqno[h]

OwnSeqno(h, a) ==
  IF a \in Ram THEN load_res_memseqno[h] + 1 ELSE load_res_memseqno[h]

\* target_write_u##size: the word is written, then both counters move.
target_write(h, a, v) ==
  /\ memseqno < MaxSeq
  /\ mem' = IF a \in Ram THEN [mem EXCEPT ![a] = v] ELSE mem
  /\ Bump(h, a)

Load(h, a, v) ==
  /\ MayRead(a, v)
  /\ Returns(h, v)
  /\ UNCHANGED <<mem, memseqno, resvars>>

Store(h, a, v) ==
  /\ target_write(h, a, v)
  /\ load_res_memseqno' = [load_res_memseqno EXCEPT ![h] = OwnSeqno(h, a)]
  /\ UNCHANGED <<load_res, rd, outside>>

Amo(h, a, old, v) ==
  /\ MayRead(a, old)
  /\ target_write(h, a, v)
  /\ load_res_memseqno' = [load_res_memseqno EXCEPT ![h] = OwnSeqno(h, a)]
  /\ Returns(h, old)
  /\ UNCHANGED <<load_res, outside>>

LrKeepsSeqno(h, a, v) ==
  /\ MayRead(a, v)
  /\ load_res' = [load_res EXCEPT ![h] = a]
  /\ foreign' = [foreign EXCEPT ![h] = FALSE]
  /\ outside' = [outside EXCEPT ![h] = FALSE]
  /\ Returns(h, v)
  /\ UNCHANGED <<mem, memseqno, load_res_memseqno>>

LR(h, a, v) ==
  /\ MayRead(a, v)
  /\ load_res' = [load_res EXCEPT ![h] = a]
  /\ load_res_memseqno' = [load_res_memseqno EXCEPT ![h] = memseqno]
  /\ foreign' = [foreign EXCEPT ![h] = FALSE]
  /\ outside' = [outside EXCEPT ![h] = FALSE]
  /\ Returns(h, v)
  /\ UNCHANGED <<mem, memseqno>>

\* The test that decides an SC.
ReservedByAddress(h, a) == load_res[h] = a

Reserved(h, a) ==
  /\ load_res[h] = a
  /\ load_res_memseqno[h] = memseqno

\* A successful SC drops the reservation; the counter of the hart is reset
\* after target_write advanced it.
ScKeepsAddress(h, a, v) ==
  /\ Reserved(h, a)
  /\ target_write(h, a, v)
  /\ load_res_memseqno' = [load_res_memseqno EXCEPT ![h] = OwnSeqno(h, a)]
  /\ Returns(h, 0)
  /\ UNCHANGED <<load_res, outside>>

ScOk(h, a, v) ==
  /\ Reserved(h, a)
  /\ target_write(h, a, v)
  /\ load_res' = [load_res EXCEPT ![h] = None]
  /\ load_res_memseqno' = [load_res_memseqno EXCEPT ![h] = 0]
  /\ Returns(h, 0)
  /\ UNCHANGED outside

\* A failed SC leaves the reservation as it was.
ScFail(h, a) ==
  /\ ~Reserved(h, a)
  /\ Returns(h, 1)
  /\ UNCHANGED <<mem, memseqno, resvars>>

\* Any of them may trap (misaligned, page fault, access fault, trigger) before
\* it changes anything; an SC whose write faults keeps its reservation.
Fault(h) ==
  /\ Returns(h, Trap)
  /\ UNCHANGED <<mem, memseqno, resvars>>

\* A virtio device filling a queue buffer, or the co-simulation overriding a
\* RAM word: RAM changes, no counter does.
ExternalWrite(a, v) ==
  /\ mem' = [mem EXCEPT ![a] = v]
  /\ outside' = [h \in Harts |-> TRUE]
  /\ UNCHANGED <<memseqno, load_res, load_res_memseqno, rd, foreign>>

HartStep(h) ==
  \/ Fault(h)
  \/ \E a \in Addr : ScFail(h, a)
  \/ \E a \in Addr, v \in Val :
       \/ Load(h, a, v)
       \/ Store(h, a, v)
       \/ LR(h, a, v)
       \/ ScOk(h, a, v)
       \/ \E old \in Val : Amo(h, a, old, v)

LrNext ==
  \/ \E h \in Harts : HartStep(h)
  \/ \E a \in Ram, v \in Val : ExternalWrite(a, v)

LrSpec == LrInit /\ [][LrNext]_lrvars

--------------------------------------------------------------------------------

\* The reservation's counter tracks the memory's exactly as long as no other
\* hart stored to RAM (riscv_cpu.h: "As long as the reservation tracks the
\* global number, we know no other hart has written memory"), and it never
\* overtakes it, so a lost reservation cannot become valid again by counting.
ReservationTracksMemory ==
  \A h \in Harts :
    /\ load_res_memseqno[h] <= memseqno
    /\ load_res[h] # None =>
         (load_res_memseqno[h] = memseqno <=> ~foreign[h])

UndisturbedSc ==
  \A h \in Harts : load_res[h] # None /\ load_res'[h] = None => ~foreign[h]

\* "The SC must fail if a store to the reservation set from another hart can
\* be observed to occur between the LR and SC": an SC that returns 0 runs in a
\* state where no other hart stored since its LR.  (A hart's SC is the only
\* step that takes its reservation to None.)
ScOnlyUndisturbed == [][UndisturbedSc]_lrvars

\* The machine's side of the promise (riscv_machine.h, memseqno): "We use this
\* to enable SC to invalidate a load reservation if memory has been written by
\* an external agent (including another hart)".
ExternalWriteInvalidates ==
  \A h \in Harts, a \in Addr : Reserved(h, a) => ~outside[h]

\* The sequence numbers implement reservations that other harts' stores
\* cancel.
Abstract == INSTANCE Reservation WITH
  resv <- [h \in Harts |->
             IF load_res_memseqno[h] = memseqno THEN load_res[h] ELSE None]

ImplementsReservation == Abstract!Spec
================================================================================
