----------------------------- MODULE MainLoopProofs ----------------------------
(***************************************************************************)
(* The properties of MainLoop for any number of harts, any slice length    *)
(* and every command line.  SliceInv says what a running slice looks like; *)
(* each property is an invariant of its own on top of it.                  *)
(***************************************************************************)
EXTENDS MainLoop, TLAPS

\* A slice executes at most NCycles instructions, begins without an exception
\* on record, and is one instruction long while a trace is written: tracing
\* that begins in it ends it.
SliceInv ==
  /\ phase = "run" => delta + n_cycles <= NCycles
  /\ phase = "run" => ~pending_exception[hart]
  /\ phase = "run" /\ tracing_enabled => n_cycles <= 1 /\ ~moved
  /\ ~setup.stf_trace => ~tracing_enabled

\* In a slice minstret lags behind by what the slice has executed.
Plain == ~setup.stf_trace /\ setup.kinds \cap {"csr", "badcsr"} = {}

MinstretInv ==
  Plain => \A h \in Harts :
    retired[h] = minstret[h] + (IF phase = "run" /\ h = hart THEN delta ELSE 0)

\* After a slice its instruction still has to be recorded, if it is one that
\* stf_trace_element records.
Recording ==
  /\ phase = "tail" /\ moved
  /\ tracing_enabled /\ ~is_start_opc /\ ~is_stop_opc /\ ~pending_exception[hart]

RecordInv ==
  "wfi" \notin setup.kinds => region = recorded + (IF Recording THEN 1 ELSE 0)

\* A traced STOP marker was the last instruction of its slice.
StopInv ==
  setup.ncpus = 1 /\ setup.exit_on_stop_opc /\ stopped = "traced" =>
    has_exit_pending /\ (phase \in {"tail", "exit"} \/ (phase = "run" /\ n_cycles = 0))

\* The instructions a slice may still execute are taken off the threshold.
DumpInv ==
  undumped + trace + (IF phase = "run" /\ ~do_trace THEN n_cycles ELSE 0) <= setup.trace

\* The same for the budget, which stays a multiple of a slice and above 0
\* between slices, so it is never taken below 0.
WholeBudget == setup.ncpus = 1 /\ setup.maxinsns % NCycles = 0

BudgetInv ==
  WholeBudget =>
    /\ \E k \in Nat : maxinsns = k * NCycles
    /\ ~keep_going
    /\ phase = "call" => maxinsns > 0
    /\ executed + maxinsns + (IF phase = "run" THEN n_cycles ELSE 0) <= setup.maxinsns

--------------------------------------------------------------------------------
(* Types. *)

\* What a command line gives the loop.
LEMMA SetupTypes ==
  ASSUME setup \in Setups
  PROVE  /\ setup.ncpus \in 1..MaxCpus
         /\ setup.maxinsns \in 1..(Word - 1)
         /\ setup.trace \in Nat
         /\ setup.stf_trace \in BOOLEAN /\ setup.exit_on_stop_opc \in BOOLEAN
  BY MainLoopAssumption

\* The unsigned budget stays in its word (maxinsns of main).
LEMMA BudgetInWord ==
  ASSUME TypeOK
  PROVE  Budget \in 0..(Word - 1)
  BY MainLoopAssumption DEF TypeOK, Budget

\* The next call is one of hart 0 or of the next hart of the command line.
LEMMA NextCallType ==
  ASSUME TypeOK, UNCHANGED setup, NEW kg \in BOOLEAN, NextCall(kg)
  PROVE  phase' \in {"call", "exit"} /\ hart' \in 0..(setup'.ncpus - 1) /\ keep_going' \in BOOLEAN
<1>1. setup.ncpus \in 1..MaxCpus /\ MaxCpus \in Nat
  BY SetupTypes, MainLoopAssumption DEF TypeOK
<1>2. phase' \in {"call", "exit"} /\ keep_going' \in BOOLEAN
  BY Zenon DEF NextCall
<1>3. hart' \in 0..(setup.ncpus - 1)
  BY <1>1 DEF TypeOK, NextCall
<1> QED
  BY <1>2, <1>3

\* stf_trace_trigger only sets flags.
LEMMA TriggerType ==
  ASSUME TypeOK, NEW kind, Trigger(kind)
  PROVE  /\ is_start_opc' \in BOOLEAN /\ is_stop_opc' \in BOOLEAN
         /\ has_exit_pending' \in BOOLEAN /\ tracing_enabled' \in BOOLEAN
  BY Zenon DEF TypeOK, Trigger

\* How a slice begins.
LEMMA StartSliceType ==
  ASSUME TypeOK, StartSlice
  PROVE  /\ maxinsns' \in 0..(Word - 1) /\ trace' \in 0..setup.trace
         /\ n_cycles' \in 1..NCycles /\ do_trace' \in BOOLEAN /\ delta' = 0 /\ moved' = FALSE
         /\ tracing_enabled => n_cycles' = 1
         /\ do_trace' => trace' = trace
         /\ ~do_trace' => trace' = trace - n_cycles'
<1>1. Throttled \in 1..NCycles /\ NCycles \in Nat
  BY MainLoopAssumption DEF Throttled
<1>2. setup.trace \in Nat /\ trace \in 0..setup.trace
  BY SetupTypes DEF TypeOK
<1>3. maxinsns' \in 0..(Word - 1)
  BY BudgetInWord DEF StartSlice, Slice
<1>4. do_trace' = (trace < Throttled) /\ delta' = 0 /\ moved' = FALSE
  BY Zenon DEF StartSlice, Slice
<1>5. tracing_enabled => Throttled = 1
  BY DEF Throttled
<1>6. CASE do_trace'
  <2>1. trace' = trace /\ n_cycles' = 1
    BY <1>6, Zenon DEF StartSlice, Slice
  <2> QED
    BY <1>1, <1>2, <1>3, <1>4, <1>6, <2>1
<1>7. CASE ~do_trace'
  <2>1. trace' = trace - Throttled /\ n_cycles' = Throttled
    BY <1>7, Zenon DEF StartSlice, Slice
  <2>2. ~(trace < Throttled)
    BY <1>4, <1>7, Zenon
  <2>3. trace - Throttled \in 0..setup.trace
    BY <1>1, <1>2, <2>2
  <2> QED
    BY <1>1, <1>3, <1>4, <1>5, <1>7, <2>1, <2>3
<1> QED
  BY <1>6, <1>7, Zenon

\* TypeOK in two parts.
FlagTypes ==
  /\ keep_going \in BOOLEAN /\ do_trace \in BOOLEAN /\ moved \in BOOLEAN /\ tohost \in BOOLEAN
  /\ tracing_enabled \in BOOLEAN /\ is_start_opc \in BOOLEAN /\ is_stop_opc \in BOOLEAN
  /\ has_exit_pending \in BOOLEAN
  /\ pending_exception \in [Harts -> BOOLEAN]
  /\ terminate_simulation \in [Harts -> BOOLEAN]

CountTypes ==
  /\ setup \in Setups
  /\ phase \in {"call", "run", "tail", "exit"}
  /\ hart \in 0..(setup.ncpus - 1)
  /\ maxinsns \in 0..(Word - 1) /\ trace \in 0..setup.trace
  /\ n_cycles \in 0..NCycles /\ delta \in 0..NCycles
  /\ minstret \in [Harts -> Nat] /\ retired \in [Harts -> Nat]
  /\ stf_count \in Nat /\ executed \in Nat /\ undumped \in Nat
  /\ region \in Nat /\ recorded \in Nat
  /\ stopped \in {"no", "untraced", "traced"}

LEMMA TypeParts == TypeOK <=> CountTypes /\ FlagTypes
  BY Zenon DEF TypeOK, CountTypes, FlagTypes

LEMMA TypePartsNext == CountTypes' /\ FlagTypes' => TypeOK'
  BY Zenon DEF TypeOK, CountTypes, FlagTypes

\* The hart of a call is one of the machine's.
LEMMA HartInRange ==
  ASSUME TypeOK
  PROVE  hart \in Harts
<1>1. setup.ncpus \in 1..MaxCpus /\ MaxCpus \in Nat
  BY SetupTypes, MainLoopAssumption DEF TypeOK
<1> QED
  BY <1>1 DEF TypeOK, Harts

\* What an instruction that is counted does to the histories.
LEMMA RanType ==
  ASSUME TypeOK, Ran
  PROVE  /\ retired' \in [Harts -> Nat] /\ executed' = executed + 1
         /\ undumped' \in Nat
         /\ do_trace => undumped' = undumped
         /\ ~do_trace => undumped' = undumped + 1
<1>1. retired' = [retired EXCEPT ![hart] = retired[hart] + 1] /\ executed' = executed + 1
  BY DEF Ran
<1>2. undumped' = undumped \/ undumped' = undumped + 1
  BY DEF Ran
<1>3. (do_trace => undumped' = undumped) /\ (~do_trace => undumped' = undumped + 1)
  BY Zenon DEF Ran
<1>4. hart \in Harts /\ retired \in [Harts -> Nat] /\ undumped \in Nat
  BY HartInRange DEF TypeOK
<1>5. retired' \in [Harts -> Nat] /\ undumped' \in Nat
  BY <1>1, <1>2, <1>4
<1> QED
  BY <1>1, <1>3, <1>5

\* the_end adds to the hart's minstret.
LEMMA CountType ==
  ASSUME TypeOK, NEW n \in Nat, CountFrom(n)
  PROVE  minstret' \in [Harts -> Nat]
<1>1. hart \in Harts /\ minstret \in [Harts -> Nat]
  BY HartInRange DEF TypeOK
<1> QED
  BY <1>1 DEF CountFrom

--------------------------------------------------------------------------------
(* Every step keeps the types and SliceInv, one lemma per action. *)

TypeInv == TypeOK /\ SliceInv

LEMMA SpentType == TypeInv /\ BudgetSpent => TypeInv'
<1> SUFFICES ASSUME TypeOK, SliceInv, BudgetSpent PROVE TypeOK' /\ SliceInv'
  BY DEF TypeInv
<1>1. keep_going \in BOOLEAN /\ UNCHANGED setup /\ NextCall(keep_going)
  BY DEF TypeOK, BudgetSpent
<1>2. phase' \in {"call", "exit"} /\ hart' \in 0..(setup'.ncpus - 1) /\ keep_going' \in BOOLEAN
  BY <1>1, NextCallType
<1>3. CountTypes'
  <2>1. CountTypes /\ Word \in Nat /\ Word > 0
    BY TypeParts, MainLoopAssumption
  <2> QED
    BY <1>2, <2>1 DEF CountTypes, BudgetSpent, history, progress
<1>4. FlagTypes'
  BY <1>2, Zenon DEF TypeOK, FlagTypes, BudgetSpent, stf
<1>5. SliceInv'
  BY <1>2, Zenon DEF SliceInv, BudgetSpent, stf
<1> QED
  BY <1>3, <1>4, <1>5, TypePartsNext

LEMMA StartType ==
  TypeInv /\ StartSlice /\ phase' \in {"tail", "run"} /\ pending_exception' \in [Harts -> BOOLEAN]
    /\ (phase' = "run" => ~pending_exception'[hart]) => TypeInv'
<1> SUFFICES ASSUME TypeOK, SliceInv, StartSlice, phase' \in {"tail", "run"},
                    pending_exception' \in [Harts -> BOOLEAN],
                    phase' = "run" => ~pending_exception'[hart]
             PROVE  TypeOK' /\ SliceInv'
  BY DEF TypeInv
<1>1. CountTypes'
  <2>1. CountTypes /\ NCycles \in Nat
    BY TypeParts, MainLoopAssumption
  <2>2. /\ maxinsns' \in 0..(Word - 1) /\ trace' \in 0..setup.trace
        /\ n_cycles' \in 1..NCycles /\ delta' = 0
    BY StartSliceType
  <2> QED
    BY <2>1, <2>2 DEF CountTypes, StartSlice, history, progress
<1>2. FlagTypes'
  BY StartSliceType, Zenon DEF TypeOK, FlagTypes, StartSlice, stf
<1>3. phase' = "run" => delta' + n_cycles' <= NCycles
  BY StartSliceType, MainLoopAssumption
<1>4. tracing_enabled => n_cycles' <= 1
  BY StartSliceType
<1>5. SliceInv'
  BY <1>3, <1>4, StartSliceType, Zenon DEF SliceInv, StartSlice, stf
<1> QED
  BY <1>1, <1>2, <1>5, TypePartsNext

LEMMA InterruptedType == TypeInv /\ Interrupted => TypeInv'
  BY StartType DEF TypeInv, TypeOK, Interrupted

LEMMA EnteredType == TypeInv /\ Entered => TypeInv'
<1> SUFFICES ASSUME TypeInv, Entered PROVE TypeInv'
  OBVIOUS
<1>1. hart \in Harts /\ pending_exception \in [Harts -> BOOLEAN]
  BY HartInRange DEF TypeInv, TypeOK
<1>2. pending_exception' \in [Harts -> BOOLEAN] /\ ~pending_exception'[hart]
  BY <1>1 DEF Entered
<1> QED
  BY <1>2, StartType DEF Entered

LEMMA CompleteType == TypeInv /\ (\E kind \in setup.kinds : Complete(kind)) => TypeInv'
<1> SUFFICES ASSUME TypeOK, SliceInv, NEW kind \in setup.kinds, Complete(kind)
             PROVE  TypeOK' /\ SliceInv'
  BY DEF TypeInv
<1>1. /\ retired' \in [Harts -> Nat] /\ executed' = executed + 1 /\ undumped' \in Nat
  BY RanType DEF Complete
<1>2. minstret' \in [Harts -> Nat]
  <2>1. delta \in Nat /\ minstret \in [Harts -> Nat]
    BY MainLoopAssumption DEF TypeOK
  <2> QED
    BY <2>1, CountType DEF Complete, CsrAccounting
<1>3. CountTypes'
  <2>1. CountTypes /\ NCycles \in Nat
    BY TypeParts, MainLoopAssumption
  <2>2. /\ phase = "run" /\ n_cycles > 0 /\ delta' = delta + 1 /\ n_cycles' = n_cycles - 1
        /\ phase' \in {"tail", "run"} /\ region' \in {region, region + 1}
        /\ stopped' \in {stopped, "traced", "untraced"}
        /\ UNCHANGED <<setup, hart, maxinsns, trace, stf_count, recorded>>
    BY DEF Complete
  <2>3. delta + n_cycles <= NCycles
    BY <2>2 DEF SliceInv
  <2> QED
    BY <1>1, <1>2, <2>1, <2>2, <2>3 DEF CountTypes
<1>4. FlagTypes'
  <2>1. tohost' \in BOOLEAN /\ moved' = TRUE
    BY Zenon DEF TypeOK, Complete
  <2>2. /\ is_start_opc' \in BOOLEAN /\ is_stop_opc' \in BOOLEAN
        /\ has_exit_pending' \in BOOLEAN /\ tracing_enabled' \in BOOLEAN
    BY TriggerType, Zenon DEF TypeOK, Complete, stf
  <2> QED
    BY <2>1, <2>2, Zenon DEF TypeOK, FlagTypes, Complete
<1>5. SliceInv'
  <2>1. phase' = "run" => delta' + n_cycles' <= NCycles
    <3>1. delta \in Nat /\ n_cycles \in Nat /\ NCycles \in Nat
      BY MainLoopAssumption DEF TypeOK
    <3>2. delta' = delta + 1 /\ n_cycles' = n_cycles - 1 /\ delta + n_cycles <= NCycles
      BY DEF Complete, SliceInv
    <3> QED
      BY <3>1, <3>2
  <2>2. ~pending_exception'[hart']
    BY Zenon DEF SliceInv, Complete
  <2>3. phase' = "run" => ~tracing_enabled'
    BY Zenon DEF Complete
  <2>4. ~setup.stf_trace => ~tracing_enabled'
    BY Zenon DEF SliceInv, Complete, stf
  <2> QED
    BY <2>1, <2>2, <2>3, <2>4, Zenon DEF SliceInv, Complete
<1> QED
  BY <1>3, <1>4, <1>5, TypePartsNext

LEMMA EndSliceType ==
  ASSUME TypeOK, SliceInv, NEW kind, NEW count \in 0..NCycles, EndSlice(kind, count),
         retired' \in [Harts -> Nat], executed' \in Nat, undumped' \in Nat,
         moved' \in BOOLEAN, region' \in Nat,
         pending_exception' \in [Harts -> BOOLEAN],
         terminate_simulation' \in [Harts -> BOOLEAN]
  PROVE  TypeOK' /\ SliceInv'
<1>1. minstret' \in [Harts -> Nat]
  <2>1. delta \in Nat /\ count \in Nat /\ delta + count \in Nat
    BY MainLoopAssumption DEF TypeOK
  <2>2. CountFrom(delta + count) \/ CountFrom(count)
    BY DEF EndSlice
  <2> QED
    BY <2>1, <2>2, CountType
<1>2. CountTypes'
  <2>1. CountTypes
    BY TypeParts
  <2> QED
    BY <1>1, <2>1 DEF CountTypes, EndSlice
<1>3. FlagTypes'
  BY Zenon DEF TypeOK, FlagTypes, EndSlice, stf
<1>4. SliceInv'
  <2>1. phase' = "tail" /\ phase' # "run" /\ (~setup.stf_trace => ~tracing_enabled)
    BY DEF EndSlice, SliceInv
  <2> QED
    BY <2>1, Zenon DEF SliceInv, EndSlice, stf
<1> QED
  BY <1>2, <1>3, <1>4, TypePartsNext

LEMMA TrapType == TypeInv /\ (\E kind \in setup.kinds : Trap(kind)) => TypeInv'
<1> SUFFICES ASSUME TypeOK, SliceInv, NEW kind \in setup.kinds, Trap(kind)
             PROVE  TypeOK' /\ SliceInv'
  BY DEF TypeInv
<1> DEFINE count == IF Cancels(kind) THEN delta ELSE delta + 1
<1>1. count \in 0..NCycles
  <2>1. delta \in Nat /\ n_cycles \in Nat /\ NCycles \in Nat
    BY MainLoopAssumption DEF TypeOK
  <2>2. n_cycles > 0 /\ delta + n_cycles <= NCycles
    BY DEF Trap, SliceInv
  <2> QED
    BY <2>1, <2>2
<1>2. EndSlice(kind, count) /\ UNCHANGED <<moved, region>>
  BY DEF Trap
<1>3. retired' \in [Harts -> Nat] /\ executed' \in Nat /\ undumped' \in Nat
  <2>1. retired \in [Harts -> Nat] /\ executed \in Nat /\ undumped \in Nat
    BY DEF TypeOK
  <2>2. UNCHANGED progress \/ Ran
    BY DEF Trap
  <2> QED
    BY <2>1, <2>2, RanType DEF progress
<1>4. moved' \in BOOLEAN /\ region' \in Nat
  BY <1>2 DEF TypeOK
<1>5. /\ pending_exception' \in [Harts -> BOOLEAN]
      /\ terminate_simulation' \in [Harts -> BOOLEAN]
  <2>1. /\ pending_exception \in [Harts -> BOOLEAN] /\ hart \in Harts
        /\ terminate_simulation \in [Harts -> BOOLEAN]
    BY HartInRange DEF TypeOK
  <2> QED
    BY <2>1 DEF Trap
<1> QED
  BY <1>1, <1>2, <1>3, <1>4, <1>5, EndSliceType

LEMMA LeaveType == TypeInv /\ (\E kind \in setup.kinds : Leave(kind)) => TypeInv'
<1> SUFFICES ASSUME TypeOK, SliceInv, NEW kind \in setup.kinds, Leave(kind)
             PROVE  TypeOK' /\ SliceInv'
  BY DEF TypeInv
<1>1. delta + 1 \in 0..NCycles
  <2>1. delta \in Nat /\ n_cycles \in Nat /\ NCycles \in Nat
    BY MainLoopAssumption DEF TypeOK
  <2>2. n_cycles > 0 /\ delta + n_cycles <= NCycles
    BY DEF Leave, SliceInv
  <2> QED
    BY <2>1, <2>2
<1>2. EndSlice(kind, delta + 1)
  BY DEF Leave
<1>3. retired' \in [Harts -> Nat] /\ executed' \in Nat /\ undumped' \in Nat
  BY RanType DEF Leave, TypeOK
<1>4. moved' \in BOOLEAN
  BY Zenon DEF Leave
<1>5. region' \in Nat
  BY DEF Leave, TypeOK
<1>6. /\ pending_exception' \in [Harts -> BOOLEAN]
      /\ terminate_simulation' \in [Harts -> BOOLEAN]
  BY DEF Leave, TypeOK
<1> QED
  BY <1>1, <1>2, <1>3, <1>4, <1>5, <1>6, EndSliceType

LEMMA RunOutType == TypeInv /\ RunOut => TypeInv'
<1> SUFFICES ASSUME TypeOK, SliceInv, RunOut PROVE TypeOK' /\ SliceInv'
  BY DEF TypeInv
<1>1. delta \in 0..NCycles /\ EndSlice("none", delta)
  BY DEF RunOut, TypeOK
<1>2. moved' \in BOOLEAN
  BY Zenon DEF RunOut
<1>3. /\ retired' \in [Harts -> Nat] /\ executed' \in Nat /\ undumped' \in Nat
      /\ region' \in Nat
      /\ pending_exception' \in [Harts -> BOOLEAN]
      /\ terminate_simulation' \in [Harts -> BOOLEAN]
  BY DEF RunOut, TypeOK, progress
<1> QED
  BY <1>1, <1>2, <1>3, EndSliceType

LEMMA TailType == TypeInv /\ Tail => TypeInv'
<1> SUFFICES ASSUME TypeOK, SliceInv, Tail PROVE TypeOK' /\ SliceInv'
  BY DEF TypeInv
<1> DEFINE kg == keep_going \/ (~tohost /\ ~terminate_simulation[hart] /\ maxinsns > 0)
<1>1. kg \in BOOLEAN /\ UNCHANGED setup /\ NextCall(kg)
  BY Zenon DEF Tail
<1>2. phase' \in {"call", "exit"} /\ hart' \in 0..(setup'.ncpus - 1) /\ keep_going' \in BOOLEAN
  BY <1>1, NextCallType, Zenon
<1>3. stf_count' \in Nat /\ recorded' \in Nat
  <2>1. stf_count' \in {stf_count, stf_count + 1} /\ recorded' \in {recorded, recorded + 1}
    BY DEF Tail, TraceElement
  <2> QED
    BY <2>1 DEF TypeOK
<1>4. CountTypes'
  <2>1. CountTypes
    BY TypeParts
  <2> QED
    BY <1>2, <1>3, <2>1 DEF CountTypes, Tail, progress
<1>5. FlagTypes'
  BY <1>2, Zenon DEF TypeOK, FlagTypes, Tail, stf
<1>6. SliceInv'
  BY <1>2, Zenon DEF SliceInv, Tail, stf
<1> QED
  BY <1>4, <1>5, <1>6, TypePartsNext

LEMMA InitType == Init => TypeInv
<1> SUFFICES ASSUME Init PROVE TypeOK /\ SliceInv
  BY DEF TypeInv
<1>1. CountTypes
  <2>1. setup.ncpus \in 1..MaxCpus /\ setup.maxinsns \in 1..(Word - 1) /\ setup.trace \in Nat
    BY SetupTypes DEF Init
  <2> QED
    BY <2>1, MainLoopAssumption DEF Init, CountTypes
<1>2. FlagTypes
  BY Zenon DEF Init, FlagTypes
<1>3. SliceInv
  BY DEF Init, SliceInv
<1> QED
  BY <1>1, <1>2, <1>3, TypeParts

LEMMA NextTypes == TypeInv /\ [Next]_vars => TypeInv'
<1> SUFFICES ASSUME TypeInv, [Next]_vars PROVE TypeInv'
  OBVIOUS
<1>1. CASE UNCHANGED vars
  <2>1. TypeOK'
    <3>1. CountTypes'
      BY <1>1, TypeParts DEF TypeInv, CountTypes, vars, flow, history, progress
    <3>2. FlagTypes'
      BY <1>1, TypeParts, Zenon DEF TypeInv, FlagTypes, vars, flow, stf
    <3> QED
      BY <3>1, <3>2, TypePartsNext
  <2>2. SliceInv'
    BY <1>1, Zenon DEF TypeInv, SliceInv, vars, flow, stf
  <2> QED
    BY <2>1, <2>2 DEF TypeInv
<1> QED
  BY <1>1, SpentType, InterruptedType, EnteredType, CompleteType, TrapType, LeaveType,
     RunOutType, TailType DEF Next

LEMMA Types == Spec => []TypeInv
  BY InitType, NextTypes, PTL DEF Spec

\* The variables of the loop stay in their ranges: the hart is one of the
\* machine's, a slice never counts below 0 (n_cycles) and the threshold of the
\* dump is never taken below 0 (trace).
THEOREM TypesKept == Spec => []TypeOK
<1>1. TypeInv => TypeOK
  BY DEF TypeInv
<1> QED
  BY <1>1, Types, PTL

\* No step changes the command line.
LEMMA SetupKept == [Next]_vars => setup' = setup
  BY DEF Next, vars, BudgetSpent, Interrupted, Entered, StartSlice, Complete, Trap, Leave,
         RunOut, EndSlice, Tail

--------------------------------------------------------------------------------
(* minstret. *)

LEMMA CompleteCounts ==
  ASSUME TypeInv, MinstretInv, Plain, NEW kind \in setup.kinds, Complete(kind),
         NEW h \in Harts
  PROVE  retired'[h] = minstret'[h] + (IF phase' = "run" /\ h = hart' THEN delta' ELSE 0)
<1>1. kind # "csr" /\ phase = "run" /\ hart' = hart /\ delta' = delta + 1
  BY DEF Plain, Complete
<1>2. minstret' = minstret
  BY <1>1 DEF Complete, CsrAccounting
<1>3. phase' = "run"
  <2>1. ~tracing_enabled'
    BY Zenon DEF Plain, TypeInv, SliceInv, Complete, stf
  <2> QED
    BY <2>1, Zenon DEF Complete
<1>4. retired' = [retired EXCEPT ![hart] = retired[hart] + 1]
  BY DEF Complete, Ran
<1>5. /\ retired \in [Harts -> Nat] /\ minstret \in [Harts -> Nat] /\ hart \in Harts
      /\ delta \in Nat
  BY HartInRange, MainLoopAssumption DEF TypeInv, TypeOK
<1>6. retired[h] = minstret[h] + (IF h = hart THEN delta ELSE 0)
  BY <1>1 DEF MinstretInv
<1> QED
  BY <1>1, <1>2, <1>3, <1>4, <1>5, <1>6

LEMMA EndSliceCounts ==
  ASSUME TypeInv, MinstretInv, Plain, phase = "run",
         NEW kind, kind # "badcsr", NEW count \in Nat, EndSlice(kind, count),
         \/ count = delta /\ retired' = retired
         \/ count = delta + 1 /\ Ran,
         NEW h \in Harts
  PROVE  retired'[h] = minstret'[h] + (IF phase' = "run" /\ h = hart' THEN delta' ELSE 0)
<1>1. phase' = "tail" /\ minstret' = [minstret EXCEPT ![hart] = minstret[hart] + count]
  BY DEF EndSlice, CountFrom
<1>2. \/ count = delta /\ retired' = retired
      \/ count = delta + 1 /\ retired' = [retired EXCEPT ![hart] = retired[hart] + 1]
  BY DEF Ran
<1>3. /\ retired \in [Harts -> Nat] /\ minstret \in [Harts -> Nat] /\ hart \in Harts
      /\ delta \in Nat
  BY HartInRange, MainLoopAssumption DEF TypeInv, TypeOK
<1>4. retired[h] = minstret[h] + (IF h = hart THEN delta ELSE 0)
  BY DEF MinstretInv
<1>5. retired'[h] = minstret'[h]
  BY <1>1, <1>2, <1>3, <1>4
<1>6. minstret'[h] \in Nat
  BY <1>1, <1>3
<1> QED
  BY <1>1, <1>5, <1>6

LEMMA NextCounts == TypeInv /\ MinstretInv /\ [Next]_vars => MinstretInv'
<1> SUFFICES ASSUME TypeInv, MinstretInv, [Next]_vars, Plain', NEW h \in Harts
             PROVE  retired'[h] = minstret'[h] + (IF phase' = "run" /\ h = hart' THEN delta' ELSE 0)
  BY DEF MinstretInv
<1>1. Plain
  BY SetupKept, Zenon DEF Plain
<1>2. retired[h] = minstret[h] + (IF phase = "run" /\ h = hart THEN delta ELSE 0)
  BY <1>1 DEF MinstretInv
<1>3. minstret[h] \in Nat /\ retired[h] \in Nat
  BY DEF TypeInv, TypeOK
<1>4. CASE BudgetSpent \/ Tail
  <2>1. phase' \in {"call", "exit"} /\ phase # "run"
    BY <1>4, Zenon DEF BudgetSpent, Tail, NextCall
  <2>2. UNCHANGED <<minstret, retired>>
    BY <1>4 DEF BudgetSpent, Tail, history, progress
  <2> QED
    BY <1>2, <1>3, <2>1, <2>2
<1>5. CASE Interrupted \/ Entered
  <2>1. phase = "call" /\ delta' = 0 /\ UNCHANGED <<minstret, retired>>
    BY <1>5 DEF Interrupted, Entered, StartSlice, history, progress
  <2> QED
    BY <1>2, <1>3, <2>1
<1>6. CASE \E kind \in setup.kinds : Complete(kind)
  BY <1>1, <1>6, CompleteCounts
<1>7. CASE \E kind \in setup.kinds : Trap(kind) \/ Leave(kind)
  <2>1. PICK kind \in setup.kinds : Trap(kind) \/ Leave(kind)
    BY <1>7
  <2>2. phase = "run" /\ kind # "badcsr"
    BY <1>1, <2>1 DEF Plain, Trap, Leave
  <2>3. delta \in Nat /\ delta + 1 \in Nat
    BY MainLoopAssumption DEF TypeInv, TypeOK
  <2>4. CASE Trap(kind) /\ Cancels(kind)
    <3>1. EndSlice(kind, delta) /\ retired' = retired
      BY <2>4 DEF Trap, progress
    <3> QED
      BY <1>1, <2>2, <2>3, <3>1, EndSliceCounts
  <2>5. CASE (Trap(kind) /\ ~Cancels(kind)) \/ Leave(kind)
    <3>1. EndSlice(kind, delta + 1) /\ Ran
      BY <2>5 DEF Trap, Leave
    <3> QED
      BY <1>1, <2>2, <2>3, <3>1, EndSliceCounts
  <2> QED
    BY <2>1, <2>4, <2>5
<1>8. CASE RunOut
  <2>1. phase = "run" /\ EndSlice("none", delta) /\ retired' = retired
    BY <1>8 DEF RunOut, progress
  <2>2. delta \in Nat
    BY MainLoopAssumption DEF TypeInv, TypeOK
  <2> QED
    BY <1>1, <2>1, <2>2, EndSliceCounts
<1>9. CASE UNCHANGED vars
  BY <1>2, <1>9 DEF vars, flow, history, progress
<1> QED
  BY <1>4, <1>5, <1>6, <1>7, <1>8, <1>9 DEF Next

\* Every way a slice can end (its budget, an interrupt, a trap, an ecall, a
\* return, WFI) adds to minstret exactly the instructions of the slice that
\* count, on every hart of a machine of any size.
THEOREM MinstretRight == Spec => []MinstretExact
<1>1. Init => MinstretInv
  BY DEF Init, MinstretInv
<1>2. TypeInv /\ MinstretInv => MinstretExact
  <2> SUFFICES ASSUME TypeInv, MinstretInv, Plain, phase \in {"call", "exit"}
               PROVE  minstret = retired
    BY DEF MinstretExact, MinstretCountsRetired, Plain
  <2>1. \A h \in Harts : retired[h] = minstret[h] + 0
    BY DEF MinstretInv
  <2> QED
    BY <2>1 DEF TypeInv, TypeOK
<1> QED
  BY <1>1, <1>2, NextCounts, Types, PTL DEF Spec

--------------------------------------------------------------------------------
(* The records of the STF trace. *)

LEMMA CompleteRecords ==
  ASSUME TypeInv, NEW kind \in setup.kinds, Complete(kind)
  PROVE  /\ recorded' = recorded
         /\ IF Recording' THEN region' = region + 1 ELSE region' = region
<1>1. CASE tracing_enabled /\ kind \notin {"start", "stop"}
  <2>1. setup.stf_trace
    BY <1>1, Zenon DEF TypeInv, SliceInv
  <2>2. /\ tracing_enabled' /\ ~is_start_opc' /\ ~is_stop_opc' /\ moved'
        /\ ~pending_exception'[hart']
    BY <1>1, <2>1, Zenon DEF Complete, Trigger, Stopping, TypeInv, SliceInv
  <2>3. Recording'
    BY <2>2, Zenon DEF Recording, Complete
  <2> QED
    BY <1>1, <2>3 DEF Complete
<1>2. CASE ~(tracing_enabled /\ kind \notin {"start", "stop"})
  <2>1. region' = region /\ recorded' = recorded
    BY <1>2, Zenon DEF Complete
  <2>2. ~Recording'
    <3>1. CASE setup.stf_trace
      BY <1>2, <3>1, Zenon DEF Complete, Trigger, Stopping, Recording
    <3>2. CASE ~setup.stf_trace
      BY <3>2, Zenon DEF Complete, TypeInv, SliceInv, Recording, stf
    <3> QED
      BY <3>1, <3>2
  <2> QED
    BY <2>1, <2>2
<1> QED
  BY <1>1, <1>2

LEMMA NextRecords == TypeInv /\ RecordInv /\ [Next]_vars => RecordInv'
<1> SUFFICES ASSUME TypeInv, RecordInv, [Next]_vars, "wfi" \notin setup'.kinds
             PROVE  region' = recorded' + (IF Recording' THEN 1 ELSE 0)
  BY DEF RecordInv
<1>1. /\ "wfi" \notin setup.kinds /\ region \in Nat /\ recorded \in Nat
      /\ region = recorded + (IF Recording THEN 1 ELSE 0)
  BY SetupKept DEF RecordInv, TypeInv, TypeOK
<1>2. ASSUME ~Recording, ~Recording', UNCHANGED <<region, recorded>>
      PROVE  region' = recorded' + (IF Recording' THEN 1 ELSE 0)
  BY <1>1, <1>2
<1>3. CASE BudgetSpent
  <2>1. phase = "call" /\ phase' \in {"call", "exit"} /\ UNCHANGED <<region, recorded>>
    BY <1>3, Zenon DEF BudgetSpent, NextCall, history
  <2> QED
    BY <1>2, <2>1 DEF Recording
<1>4. CASE Interrupted \/ Entered
  <2>1. phase = "call" /\ moved' = FALSE /\ UNCHANGED <<region, recorded>>
    BY <1>4, Zenon DEF Interrupted, Entered, StartSlice, history
  <2>2. ~Recording /\ ~Recording'
    BY <2>1, Zenon DEF Recording
  <2> QED
    BY <1>2, <2>1, <2>2
<1>5. CASE \E kind \in setup.kinds : Complete(kind)
  <2>1. phase = "run"
    BY <1>5 DEF Complete
  <2>2. ~Recording
    BY <2>1 DEF Recording
  <2>3. recorded' = recorded /\ IF Recording' THEN region' = region + 1 ELSE region' = region
    BY <1>5, CompleteRecords
  <2> QED
    BY <1>1, <2>2, <2>3
<1>6. CASE \E kind \in setup.kinds : Trap(kind)
  <2>1. PICK kind \in setup.kinds : Trap(kind)
    BY <1>6
  <2>2. phase = "run" /\ UNCHANGED <<region, recorded>> /\ hart' = hart
    BY <2>1 DEF Trap, EndSlice
  <2>3. pending_exception'[hart'] = TRUE
    BY <2>1, <2>2, HartInRange DEF Trap, TypeInv, TypeOK
  <2>4. ~Recording /\ ~Recording'
    BY <2>2, <2>3, Zenon DEF Recording
  <2> QED
    BY <1>2, <2>2, <2>4
<1>7. CASE \E kind \in setup.kinds : Leave(kind)
  <2>1. PICK kind \in setup.kinds : Leave(kind)
    BY <1>7
  <2>2. kind # "wfi"
    BY <1>1, <2>1
  <2>3. phase = "run" /\ UNCHANGED <<region, recorded>> /\ moved' = FALSE
    BY <2>1, <2>2, Zenon DEF Leave, EndSlice
  <2>4. ~Recording /\ ~Recording'
    BY <2>3, Zenon DEF Recording
  <2> QED
    BY <1>2, <2>3, <2>4
<1>8. CASE RunOut
  <2>1. phase = "run" /\ UNCHANGED <<region, recorded>>
    BY <1>8 DEF RunOut, EndSlice
  <2>2. tracing_enabled' = tracing_enabled /\ (tracing_enabled => ~moved)
    BY <1>8, <2>1, Zenon DEF RunOut, EndSlice, stf, TypeInv, SliceInv
  <2>3. ~Recording /\ ~Recording'
    BY <1>8, <2>1, <2>2, Zenon DEF Recording, RunOut
  <2> QED
    BY <1>2, <2>1, <2>3
<1>9. CASE Tail
  <2>1. phase = "tail" /\ phase' \in {"call", "exit"} /\ region' = region
    BY <1>9, Zenon DEF Tail, NextCall
  <2>2. ~Recording'
    BY <2>1 DEF Recording
  <2>3. recorded' = IF Recording THEN recorded + 1 ELSE recorded
    BY <1>9, <2>1, Zenon DEF Tail, TraceElement, Recording
  <2> QED
    BY <1>1, <2>1, <2>2, <2>3
<1>10. CASE UNCHANGED vars
  <2>1. Recording' <=> Recording
    BY <1>10, Zenon DEF Recording, vars, flow, stf
  <2> QED
    BY <1>1, <1>10, <2>1 DEF vars, history
<1> QED
  BY <1>3, <1>4, <1>5, <1>6, <1>7, <1>8, <1>9, <1>10 DEF Next

\* The STF file gets one record for each instruction completed between the
\* markers, whatever the harts do in their slices: iterate_core cuts a slice to
\* one instruction while tracing and stf_trace_trigger ends the slice in which
\* tracing begins.
THEOREM RecordsComplete == Spec => []TraceComplete
<1>1. Init => RecordInv
  BY DEF Init, RecordInv, Recording
<1>2. TypeInv /\ RecordInv => TraceComplete
  <2> SUFFICES ASSUME TypeInv, RecordInv, phase = "call", "wfi" \notin setup.kinds
               PROVE  recorded = region
    BY DEF TraceComplete
  <2>1. ~Recording /\ recorded \in Nat
    BY DEF Recording, TypeInv, TypeOK
  <2> QED
    BY <2>1 DEF RecordInv
<1> QED
  BY <1>1, <1>2, NextRecords, Types, PTL DEF Spec

--------------------------------------------------------------------------------
(* The STOP marker. *)

\* On a machine with one hart every call is one of hart 0, and main's loop is
\* left once it finds has_exit_pending.
LEMMA SingleHart ==
  ASSUME TypeOK, setup.ncpus = 1, NEW kg, NextCall(kg)
  PROVE  /\ keep_going' = FALSE
         /\ phase' = IF kg /\ ~has_exit_pending THEN "call" ELSE "exit"
<1>1. hart = 0 /\ ~(hart + 1 < setup.ncpus)
  BY DEF TypeOK
<1> QED
  BY <1>1, Zenon DEF NextCall

LEMMA NextStops == TypeInv /\ StopInv /\ [Next]_vars => StopInv'
<1> SUFFICES ASSUME TypeInv, StopInv, [Next]_vars,
                    setup'.ncpus = 1, setup'.exit_on_stop_opc, stopped' = "traced"
             PROVE  /\ has_exit_pending'
                    /\ phase' \in {"tail", "exit"} \/ (phase' = "run" /\ n_cycles' = 0)
  BY DEF StopInv
<1>1. setup.ncpus = 1 /\ setup.exit_on_stop_opc
  BY SetupKept
<1>2. stopped = "traced" =>
        has_exit_pending /\ (phase \in {"tail", "exit"} \/ (phase = "run" /\ n_cycles = 0))
  BY <1>1 DEF StopInv
<1>3. CASE BudgetSpent \/ Interrupted \/ Entered
  <2>1. phase = "call" /\ stopped' = stopped
    BY <1>3 DEF BudgetSpent, Interrupted, Entered, StartSlice, history
  <2> QED
    BY <1>2, <2>1
<1>4. CASE \E kind \in setup.kinds : Complete(kind)
  <2>1. PICK kind \in setup.kinds : Complete(kind)
    BY <1>4
  <2>2. phase = "run" /\ n_cycles > 0 /\ n_cycles' = n_cycles - 1
    BY <2>1 DEF Complete
  <2>3. stopped # "traced"
    BY <1>2, <2>2
  <2>4. kind = "stop" /\ setup.stf_trace /\ tracing_enabled
    BY <2>1, <2>3, Zenon DEF Complete
  <2>5. has_exit_pending' /\ ~tracing_enabled'
    BY <1>1, <2>1, <2>4, Zenon DEF Complete, Trigger, Stopping
  <2>6. phase' = "run"
    BY <2>1, <2>5, Zenon DEF Complete
  <2>7. n_cycles <= 1
    BY <2>2, <2>4, Zenon DEF TypeInv, SliceInv
  <2>8. n_cycles' = 0
    BY <2>2, <2>7, MainLoopAssumption DEF TypeInv, TypeOK
  <2> QED
    BY <2>5, <2>6, <2>8
<1>5. CASE \E kind \in setup.kinds : Trap(kind) \/ Leave(kind)
  <2>1. phase = "run" /\ n_cycles > 0 /\ stopped' = stopped
    BY <1>5 DEF Trap, Leave, EndSlice
  <2> QED
    BY <1>2, <2>1
<1>6. CASE RunOut
  BY <1>2, <1>6, Zenon DEF RunOut, EndSlice, stf
<1>7. CASE Tail
  <2> DEFINE kg == keep_going \/ (~tohost /\ ~terminate_simulation[hart] /\ maxinsns > 0)
  <2>1. NextCall(kg) /\ UNCHANGED <<stf, stopped>>
    BY <1>7, Zenon DEF Tail
  <2>2. phase' = IF kg /\ ~has_exit_pending THEN "call" ELSE "exit"
    BY <1>1, <2>1, SingleHart, Zenon DEF TypeInv
  <2> QED
    BY <1>2, <2>1, <2>2, Zenon DEF stf
<1>8. CASE UNCHANGED vars
  BY <1>2, <1>8, Zenon DEF vars, flow, stf, history
<1> QED
  BY <1>3, <1>4, <1>5, <1>6, <1>7, <1>8 DEF Next

\* With --stf_exit_on_stop_opc a STOP marker inside the traced region of a
\* single hart ends the program at the next test of main's loop: the marker is
\* the last instruction of its slice, so no later trigger clears
\* has_exit_pending.
THEOREM StopEnds == Spec => []TracedStopTerminates
<1>1. Init => StopInv
  BY DEF Init, StopInv
<1>2. StopInv => TracedStopTerminates
  BY DEF StopInv, TracedStopTerminates
<1> QED
  BY <1>1, <1>2, NextStops, Types, PTL DEF Spec

--------------------------------------------------------------------------------
(* The counts of the command line. *)

\* What the slice may still execute.
Left == IF phase = "run" THEN n_cycles ELSE 0

InSlice == (\E kind \in setup.kinds : Complete(kind) \/ Trap(kind) \/ Leave(kind)) \/ RunOut

\* The steps of a slice pay for each instruction with n_cycles and leave the
\* counts of main alone.
LEMMA SlicePays ==
  ASSUME TypeInv, InSlice
  PROVE  /\ phase = "run" /\ phase' \in {"run", "tail"}
         /\ maxinsns' = maxinsns /\ trace' = trace
         /\ keep_going' = keep_going /\ do_trace' = do_trace
         /\ executed' + Left' <= executed + n_cycles
         /\ do_trace => undumped' = undumped
         /\ ~do_trace => undumped' + Left' <= undumped + n_cycles
<1>1. /\ phase = "run" /\ phase' \in {"run", "tail"}
      /\ UNCHANGED <<maxinsns, trace, keep_going, do_trace>>
  BY DEF InSlice, Complete, Trap, Leave, RunOut, EndSlice
<1>2. n_cycles \in Nat /\ executed \in Nat /\ undumped \in Nat
  BY MainLoopAssumption DEF TypeInv, TypeOK
<1>3. CASE \E kind \in setup.kinds : Complete(kind)
  <2>1. Ran /\ n_cycles > 0 /\ n_cycles' = n_cycles - 1
    BY <1>3 DEF Complete
  <2>2. /\ executed' = executed + 1 /\ (do_trace => undumped' = undumped)
        /\ ~do_trace => undumped' = undumped + 1
    BY <2>1, RanType DEF TypeInv
  <2> QED
    BY <1>1, <1>2, <2>1, <2>2 DEF Left
<1>4. CASE \E kind \in setup.kinds : Trap(kind) \/ Leave(kind)
  <2>1. n_cycles > 0 /\ phase' = "tail"
    BY <1>4 DEF Trap, Leave, EndSlice
  <2>2. Ran \/ UNCHANGED progress
    BY <1>4 DEF Trap, Leave
  <2>3. CASE Ran
    <3>1. /\ executed' = executed + 1 /\ (do_trace => undumped' = undumped)
          /\ ~do_trace => undumped' = undumped + 1
      BY <2>3, RanType DEF TypeInv
    <3> QED
      BY <1>1, <1>2, <2>1, <3>1 DEF Left
  <2>4. CASE UNCHANGED progress
    BY <1>1, <1>2, <2>1, <2>4 DEF Left, progress
  <2> QED
    BY <2>2, <2>3, <2>4
<1>5. CASE RunOut
  <2>1. phase' = "tail" /\ UNCHANGED progress
    BY <1>5 DEF RunOut, EndSlice
  <2> QED
    BY <1>1, <1>2, <2>1 DEF Left, progress
<1> QED
  BY <1>3, <1>4, <1>5 DEF InSlice

LEMMA NextDumps == TypeInv /\ DumpInv /\ [Next]_vars => DumpInv'
<1> SUFFICES ASSUME TypeInv, DumpInv, [Next]_vars PROVE DumpInv'
  OBVIOUS
<1>1. /\ undumped \in Nat /\ trace \in Nat /\ n_cycles \in Nat /\ setup.trace \in Nat
      /\ setup' = setup
  BY SetupTypes, SetupKept, MainLoopAssumption DEF TypeInv, TypeOK
<1>2. undumped + trace <= setup.trace
  BY <1>1 DEF DumpInv
<1>3. CASE BudgetSpent \/ Tail
  <2>1. phase' \in {"call", "exit"} /\ UNCHANGED <<trace, undumped>>
    BY <1>3, Zenon DEF BudgetSpent, Tail, NextCall, history, progress
  <2> QED
    BY <1>1, <1>2, <2>1 DEF DumpInv
<1>4. CASE Interrupted \/ Entered
  <2>1. StartSlice /\ undumped' = undumped
    BY <1>4 DEF Interrupted, Entered, StartSlice, history, progress
  <2>2. /\ n_cycles' \in Nat /\ (do_trace' => trace' = trace)
        /\ (~do_trace' => trace' = trace - n_cycles') /\ do_trace' \in BOOLEAN
    BY <2>1, StartSliceType, MainLoopAssumption DEF TypeInv
  <2> QED
    BY <1>1, <1>2, <2>1, <2>2 DEF DumpInv
<1>5. CASE InSlice
  <2>1. /\ phase = "run" /\ trace' = trace /\ do_trace' = do_trace
        /\ (do_trace => undumped' = undumped)
        /\ ~do_trace => undumped' + Left' <= undumped + n_cycles
    BY <1>5, SlicePays
  <2>2. CASE do_trace
    BY <1>1, <1>2, <2>1, <2>2 DEF DumpInv
  <2>3. CASE ~do_trace
    <3>1. undumped + trace + n_cycles <= setup.trace
      BY <2>1, <2>3 DEF DumpInv
    <3>2. undumped' \in Nat /\ Left' \in Nat
      BY <1>5, NextTypes, MainLoopAssumption DEF TypeInv, TypeOK, Left
    <3> QED
      BY <1>1, <2>1, <2>3, <3>1, <3>2 DEF DumpInv, Left
  <2> QED
    BY <2>2, <2>3
<1>6. CASE UNCHANGED vars
  BY <1>6 DEF DumpInv, vars, flow, history, progress
<1> QED
  BY <1>3, <1>4, <1>5, <1>6 DEF Next, InSlice

\* A multiple of a slice above 0 has room for one more slice.
LEMMA TakeSlice ==
  ASSUME NEW k \in Nat, NEW m \in 1..(Word - 1), m = k * NCycles
  PROVE  /\ (m - NCycles) % Word = m - NCycles
         /\ \E j \in Nat : m - NCycles = j * NCycles
<1>1. NCycles \in Nat \ {0} /\ Word \in Nat \ {0}
  BY MainLoopAssumption
<1>2. k # 0
  BY <1>1
<1>3. k - 1 \in Nat /\ m - NCycles = (k - 1) * NCycles
  BY <1>1, <1>2
<1>4. (k - 1) * NCycles \in Nat
  BY <1>1, <1>3
<1>5. m - NCycles \in 0..(Word - 1)
  BY <1>1, <1>3, <1>4
<1>6. (m - NCycles) % Word = m - NCycles
  BY <1>1, <1>5
<1> QED
  BY <1>3, <1>6

LEMMA NextBudget == TypeInv /\ BudgetInv /\ [Next]_vars => BudgetInv'
<1> SUFFICES ASSUME TypeInv, BudgetInv, [Next]_vars, WholeBudget'
             PROVE  /\ \E k \in Nat : maxinsns' = k * NCycles
                    /\ ~keep_going'
                    /\ phase' = "call" => maxinsns' > 0
                    /\ executed' + maxinsns' + Left' <= setup.maxinsns
  BY SetupKept DEF BudgetInv, Left
<1>1. /\ setup' = setup /\ setup.ncpus = 1 /\ setup.maxinsns \in Nat
      /\ executed \in Nat /\ n_cycles \in Nat /\ maxinsns \in 0..(Word - 1)
      /\ NCycles \in Nat \ {0} /\ Word \in Nat
  BY SetupKept, SetupTypes, MainLoopAssumption DEF WholeBudget, TypeInv, TypeOK
<1>2. /\ \E k \in Nat : maxinsns = k * NCycles
      /\ ~keep_going
      /\ phase = "call" => maxinsns > 0
      /\ executed + maxinsns + Left <= setup.maxinsns
  BY SetupKept DEF BudgetInv, WholeBudget, Left
<1>3. executed + maxinsns <= setup.maxinsns
  BY <1>1, <1>2 DEF Left
<1>4. CASE BudgetSpent
  <2>1. maxinsns' = 0 /\ executed' = executed /\ NextCall(keep_going)
    BY <1>4 DEF BudgetSpent, history, progress
  <2>2. hart = 0 /\ ~(hart + 1 < setup.ncpus)
    BY <1>1 DEF TypeInv, TypeOK
  <2>3. ~keep_going' /\ phase' = "exit"
    BY <1>2, <2>1, <2>2, Zenon DEF NextCall
  <2>4. maxinsns' = 0 * NCycles
    BY <1>1, <2>1
  <2> QED
    BY <1>1, <1>3, <2>1, <2>3, <2>4 DEF Left
<1>5. CASE Interrupted \/ Entered
  <2>1. /\ StartSlice /\ phase = "call" /\ executed' = executed /\ keep_going' = keep_going
        /\ maxinsns' = Budget
    BY <1>5 DEF Interrupted, Entered, StartSlice, Slice, history, progress
  <2>2. phase' \in {"tail", "run"}
    BY <1>5 DEF Interrupted, Entered
  <2>3. n_cycles' \in 1..NCycles
    BY <2>1, StartSliceType DEF TypeInv
  <2>4. maxinsns \in 1..(Word - 1)
    BY <1>1, <1>2, <2>1
  <2>5. maxinsns' = maxinsns - NCycles /\ \E j \in Nat : maxinsns' = j * NCycles
    BY <1>2, <2>1, <2>4, TakeSlice DEF Budget
  <2>6. executed' + maxinsns' + Left' <= setup.maxinsns
    BY <1>1, <1>3, <2>1, <2>3, <2>5 DEF Left
  <2> QED
    BY <1>2, <2>1, <2>2, <2>5, <2>6
<1>6. CASE InSlice
  <2>1. /\ phase = "run" /\ phase' # "call" /\ maxinsns' = maxinsns
        /\ keep_going' = keep_going /\ executed' + Left' <= executed + n_cycles
    BY <1>6, SlicePays
  <2>2. executed' \in Nat /\ Left' \in Nat
    BY NextTypes, MainLoopAssumption DEF TypeInv, TypeOK, Left
  <2>3. executed' + maxinsns' + Left' <= setup.maxinsns
    BY <1>1, <1>2, <2>1, <2>2 DEF Left
  <2> QED
    BY <1>2, <2>1, <2>3
<1>7. CASE Tail
  <2> DEFINE kg == keep_going \/ (~tohost /\ ~terminate_simulation[hart] /\ maxinsns > 0)
  <2>1. NextCall(kg) /\ maxinsns' = maxinsns /\ executed' = executed
    BY <1>7, Zenon DEF Tail, progress
  <2>2. ~keep_going' /\ phase' = IF kg /\ ~has_exit_pending THEN "call" ELSE "exit"
    BY <1>1, <2>1, SingleHart, Zenon DEF TypeInv
  <2>3. phase' = "call" => maxinsns > 0
    BY <1>2, <2>2, Zenon
  <2>4. phase' # "run"
    BY <2>2
  <2> HIDE DEF kg
  <2> QED
    BY <1>1, <1>2, <1>3, <2>1, <2>2, <2>3, <2>4 DEF Left
<1>8. CASE UNCHANGED vars
  BY <1>2, <1>8 DEF Left, vars, flow, history, progress
<1> QED
  BY <1>4, <1>5, <1>6, <1>7, <1>8 DEF Next, InSlice

LEMMA InitBudget == Init => BudgetInv
<1> SUFFICES ASSUME Init, WholeBudget PROVE BudgetInv
  BY DEF BudgetInv
<1>1. setup.maxinsns \in 1..(Word - 1) /\ NCycles \in Nat \ {0} /\ Word \in Nat
  BY SetupTypes, MainLoopAssumption DEF Init
<1>2. /\ maxinsns = setup.maxinsns /\ executed = 0 /\ setup.maxinsns % NCycles = 0
      /\ phase # "run" /\ keep_going = FALSE
  BY DEF Init, WholeBudget
<1> DEFINE m == setup.maxinsns
           k == m \div NCycles
<1>3. k \in Nat
  <2>1. m \in Nat
    BY <1>1
  <2> HIDE DEF m
  <2> QED
    BY <1>1, <2>1
<1>4. m = NCycles * k + (m % NCycles)
  <2>1. m \in Nat
    BY <1>1
  <2> HIDE DEF m
  <2> QED
    BY <1>1, <2>1, SMTT(30)
<1>5. m = k * NCycles
  <2> HIDE DEF k
  <2> QED
    BY <1>1, <1>2, <1>3, <1>4
<1>6. maxinsns > 0 /\ executed + maxinsns + 0 <= setup.maxinsns
  BY <1>1, <1>2
<1> QED
  BY <1>2, <1>3, <1>5, <1>6 DEF BudgetInv

\* A single hart executes at most --maxinsns instructions when that is a number
\* of whole slices (the unsigned budget of iterate_core is then never taken
\* below 0), and on any machine at most --trace instructions run before the
\* dump starts.
THEOREM CountsKept == Spec => []CountsRespected
<1>1. Init => DumpInv
  <2> SUFFICES ASSUME Init PROVE DumpInv
    OBVIOUS
  <2>1. setup.trace \in Nat
    BY SetupTypes DEF Init
  <2> QED
    BY <2>1 DEF Init, DumpInv
<1>2. TypeInv /\ DumpInv /\ BudgetInv => CountsRespected
  <2> SUFFICES ASSUME TypeInv, DumpInv, BudgetInv PROVE CountsRespected
    OBVIOUS
  <2>1. /\ executed \in Nat /\ maxinsns \in Nat /\ n_cycles \in Nat /\ undumped \in Nat
        /\ trace \in Nat /\ setup.maxinsns \in Nat /\ setup.trace \in Nat
    BY SetupTypes, MainLoopAssumption DEF TypeInv, TypeOK
  <2>2. undumped <= setup.trace
    BY <2>1 DEF DumpInv
  <2>3. ASSUME WholeBudget PROVE BudgetKept
    <3>1. executed + maxinsns + Left <= setup.maxinsns
      BY <2>3 DEF BudgetInv, Left
    <3> QED
      BY <2>1, <3>1 DEF BudgetKept, Left
  <2> QED
    BY <2>2, <2>3 DEF CountsRespected, WholeBudget
<1> QED
  BY <1>1, <1>2, InitBudget, NextDumps, NextBudget, Types, PTL DEF Spec
================================================================================
