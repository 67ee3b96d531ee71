----------------------------- MODULE LrScIncrement -----------------------------
(***************************************************************************)
(* What guests use LR and SC for: every hart adds 1 to a shared counter    *)
(* Rounds times with the loop                                              *)
(*                                                                         *)
(*     retry: lr t, (counter); addi t, t, 1; sc s, t, (counter);           *)
(*            bnez s, retry                                                *)
(*                                                                         *)
(* while a hart may store to other words at any point in between, as       *)
(* interrupt handlers and unrelated code do.  The instructions are those   *)
(* of LoadReserve.                                                         *)
(***************************************************************************)
EXTENDS LoadReserve, FiniteSets

CONSTANTS
  Counter,   \* the shared word
  Rounds     \* increments each hart makes

ASSUME LrScIncrementAssumption ==
  /\ Counter \in Ram
  /\ Rounds \in Nat
  /\ 0..(Rounds * Cardinality(Harts)) \subseteq Val

VARIABLES
  at,        \* at[h]: the instruction hart h executes next
  seen,      \* seen[h]: the value read by its last LR
  done,      \* done[h]: increments hart h believes it has made
  successes  \* history: the SCs of all harts that reported success

loopvars == <<lrvars, at, seen, done, successes>>

LoopInit ==
  /\ LrInit
  /\ mem = [a \in Ram |-> 0]
  /\ at = [h \in Harts |-> IF Rounds = 0 THEN "done" ELSE "lr"]
  /\ seen = [h \in Harts |-> 0]
  /\ done = [h \in Harts |-> 0]
  /\ successes = 0

DoLr(h) ==
  /\ at[h] = "lr"
  /\ LR(h, Counter, mem[Counter])
  /\ seen' = [seen EXCEPT ![h] = mem[Counter]]
  /\ at' = [at EXCEPT ![h] = "sc"]
  /\ UNCHANGED <<done, successes>>

DoScOk(h) ==
  /\ at[h] = "sc"
  /\ ScOk(h, Counter, seen[h] + 1)
  /\ done' = [done EXCEPT ![h] = @ + 1]
  /\ successes' = successes + 1
  /\ at' = [at EXCEPT ![h] = IF done[h] + 1 = Rounds THEN "done" ELSE "lr"]
  /\ UNCHANGED seen

DoScFail(h) ==
  /\ at[h] = "sc"
  /\ ScFail(h, Counter)
  /\ at' = [at EXCEPT ![h] = "lr"]
  /\ UNCHANGED <<seen, done, successes>>

\* A store to an unrelated word; the last Rounds * Cardinality(Harts) values
\* of the sequence number are kept for the successful SCs.
DoStore(h) ==
  /\ at[h] # "done"
  /\ memseqno - successes < MaxSeq - Rounds * Cardinality(Harts)
  /\ \E a \in Addr \ {Counter} : Store(h, a, 1)
  /\ UNCHANGED <<at, seen, done, successes>>

Loop(h) == DoLr(h) \/ DoScOk(h) \/ DoScFail(h)

AllDone == \A h \in Harts : at[h] = "done"

LoopNext ==
  \/ \E h \in Harts : Loop(h) \/ DoStore(h)
  \/ AllDone /\ UNCHANGED loopvars

\* The main loop of the simulator calls iterate_core for every hart in every
\* round, so each hart keeps executing its loop.
LoopSpec ==
  /\ LoopInit
  /\ [][LoopNext]_loopvars
  /\ \A h \in Harts : WF_loopvars(Loop(h))

--------------------------------------------------------------------------------

\* Every SC that reported success took effect on the value its LR read: the
\* counter is the number of increments the harts were told they have made, so
\* no update is lost and none is made twice.
NoLostUpdate == mem[Counter] = successes
================================================================================
