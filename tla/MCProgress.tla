------------------------------ MODULE MCProgress -------------------------------
(***************************************************************************)
(* Progress of harts that share something, checked side by side: a counter *)
(* incremented with LR and SC (LrScIncrement) and the timers of the        *)
(* core-local interruptor (Clint).  unit selects the one that runs.        *)
(***************************************************************************)
EXTENDS LrScIncrement, Clint

VARIABLE unit

allvars == <<unit, loopvars, clintvars>>

MCInit ==
  /\ unit \in {"loop", "clint"}
  /\ LoopInit /\ ClintInit

LoopStep(A) == unit = "loop" /\ A /\ UNCHANGED <<unit, clintvars>>
ClintStep(A) == unit = "clint" /\ A /\ UNCHANGED <<unit, loopvars>>

MCNext == LoopStep(LoopNext) \/ ClintStep(ClintNext)

\* The fairness of LoopSpec and of FairClintSpec.
MCSpec ==
  /\ MCInit /\ [][MCNext]_allvars
  /\ \A h \in Harts : WF_allvars(LoopStep(Loop(h)))
  /\ WF_allvars(ClintStep(SliceStart))
  /\ WF_allvars(ClintStep(SliceEnd))
  /\ WF_allvars(ClintStep(Plain))

--------------------------------------------------------------------------------

\* Reservations are taken away only by stores, so the harts cannot keep each
\* other from succeeding for ever: once unrelated stores stop, every hart
\* finishes its increments.
LoopFinishes == (unit = "loop") ~> AllDone
================================================================================
