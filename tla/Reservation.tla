------------------------------ MODULE Reservation ------------------------------
(***************************************************************************)
(* What load-reserved / store-conditional promises to the harts of one     *)
(* machine, independent of how dromajo implements it: every hart holds at  *)
(* most one reserved address, a store to RAM by one hart takes the         *)
(* reservation of every other hart away, and a store-conditional writes    *)
(* only while its hart still holds a reservation for that very address.    *)
(* Writes by an agent that is not a hart are left open: they may or may    *)
(* not take reservations away.                                             *)
(*                                                                         *)
(* LoadReserve implements this module with one sequence number for the     *)
(* whole memory and one per hart.                                          *)
(***************************************************************************)
CONSTANTS
  Harts,      \* the harts of the machine
  Ram,        \* RAM words
  Dev,        \* addresses that are not RAM: devices, or nothing at all
  Val,        \* what a word or a register can hold
  None,       \* not an address: no reservation
  Trap,       \* not a value: the instruction raised an exception
  ResetAddr   \* the address every hart's reservation names at reset

VARIABLES
  mem,        \* the contents of RAM
  resv,       \* resv[h]: the address hart h has reserved, or None
  rd          \* rd[h]: what the last memory instruction of h returned

vars == <<mem, resv, rd>>

Addr == Ram \cup Dev

Init ==
  /\ mem \in [Ram -> Val]
  /\ resv = [h \in Harts |-> ResetAddr]
  /\ rd = [h \in Harts |-> 0]

Poke(a, v) == mem' = IF a \in Ram THEN [mem EXCEPT ![a] = v] ELSE mem

Returns(h, v) == rd' = [rd EXCEPT ![h] = v]

\* A hart's own reservation survives its own store, nobody else's does.
Cancelled(h, a) ==
  [g \in Harts |-> IF g # h /\ a \in Ram THEN None ELSE resv[g]]

Read(h, a, v) ==
  /\ a \in Ram => v = mem[a]
  /\ Returns(h, v)
  /\ UNCHANGED <<mem, resv>>

Write(h, a, v) ==
  /\ Poke(a, v)
  /\ resv' = Cancelled(h, a)
  /\ UNCHANGED rd

Exchange(h, a, old, v) ==
  /\ a \in Ram => old = mem[a]
  /\ Poke(a, v)
  /\ resv' = Cancelled(h, a)
  /\ Returns(h, old)

Reserve(h, a, v) ==
  /\ a \in Ram => v = mem[a]
  /\ resv' = [resv EXCEPT ![h] = a]
  /\ Returns(h, v)
  /\ UNCHANGED mem

ConditionalOk(h, a, v) ==
  /\ resv[h] = a
  /\ Poke(a, v)
  /\ resv' = [Cancelled(h, a) EXCEPT ![h] = None]
  /\ Returns(h, 0)

ConditionalFail(h, a) ==
  /\ resv[h] # a
  /\ Returns(h, 1)
  /\ UNCHANGED <<mem, resv>>

Fault(h) ==
  /\ Returns(h, Trap)
  /\ UNCHANGED <<mem, resv>>

External(a, v) ==
  /\ Poke(a, v)
  /\ resv' \in {resv, [h \in Harts |-> None]}
  /\ UNCHANGED rd

Next ==
  \/ \E h \in Harts :
       \/ Fault(h)
       \/ \E a \in Addr : ConditionalFail(h, a)
       \/ \E a \in Addr, v \in Val :
            \/ Read(h, a, v)
            \/ Write(h, a, v)
            \/ Reserve(h, a, v)
            \/ ConditionalOk(h, a, v)
            \/ \E old \in Val : Exchange(h, a, old, v)
  \/ \E a \in Ram, v \in Val : External(a, v)

Spec == Init /\ [][Next]_vars
================================================================================
