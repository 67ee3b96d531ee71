-------------------------------- MODULE MainLoop -------------------------------
(***************************************************************************)
(* The simulator's main loop (dromajo.cpp main and iterate_core), one      *)
(* slice of the interpreter (dromajo_template.h riscv_cpu_interp), its     *)
(* instruction accounting, and the STF trace it drives (dromajo_stf.cpp).  *)
(*                                                                         *)
(* A round of the main loop gives every hart one slice of at most NCycles  *)
(* instructions.  An instruction is known by how it leaves the interpreter *)
(* loop: it completes (plain, a CSR instruction, a store to tohost, one of *)
(* the two trace markers), it traps (a CSR instruction after it updated    *)
(* the counters), it is an ecall (counted although it traps), or it ends   *)
(* the slice itself (MRET and SRET, or WFI).                               *)
(*                                                                         *)
(* The counters are taken to be running (stop_the_counter is clear) and    *)
(* guests do not write minstret; the privilege and address-space filters   *)
(* of the STF trace let everything through.                                *)
(***************************************************************************)
EXTENDS Integers

CONSTANTS
  MaxCpus,      \* MAX_CPUS
  NCycles,      \* n_cycles of main, 10000 in the code
  Word,         \* 2^64, the range of maxinsns
  Setups,       \* command lines, each with the instructions the guests execute
  MaxExecuted   \* bound on the instructions of a run, executed and traced

Harts == 0..(MaxCpus - 1)
Completing == {"plain", "csr", "tohost", "start", "stop"}
Trapping == {"trap", "badcsr", "ecall", "shutdown"}
Leaving == {"return", "wfi"}

ASSUME MainLoopAssumption ==
  /\ {MaxCpus, NCycles, Word} \subseteq Nat \ {0}
  /\ MaxExecuted \in Nat
  /\ NCycles < Word
  /\ Setups \subseteq
       [ncpus : 1..MaxCpus,
        maxinsns : 1..(Word - 1),       \* --maxinsns
        trace : Nat,                    \* --trace
        stf_trace : BOOLEAN,            \* whether --stf_trace was given
        exit_on_stop_opc : BOOLEAN,     \* --stf_exit_on_stop_opc
        kinds : SUBSET (Completing \cup Trapping \cup Leaving)]

VARIABLES
  setup,              \* how the simulator was started; never changes
  phase,              \* "call", "run" or "tail" of iterate_core; "exit"
  hart,               \* the hart of the current call
  maxinsns, trace, keep_going,
  n_cycles,           \* instructions left in the slice
  delta,              \* GET_INSN_COUNTER() - insn_counter_start
  do_trace,
  moved,              \* pc is where the instruction at last_pc leads to
  minstret, pending_exception, terminate_simulation,
  tohost,             \* bit 0 of the word at htif_tohost_addr
  tracing_enabled, is_start_opc, is_stop_opc, has_exit_pending, stf_count,
  retired,            \* history: instructions that count, per hart
  executed,           \* history: the same, of all harts
  undumped,           \* history: instructions executed in slices without dump
  region,             \* history: instructions completed while tracing
  recorded,           \* history: instruction records in the STF file
  stopped             \* history: a STOP marker was executed; "traced" if
                      \* tracing was on

flow == <<phase, hart, maxinsns, trace, keep_going, n_cycles, do_trace>>
stf == <<tracing_enabled, is_start_opc, is_stop_opc, has_exit_pending>>
progress == <<retired, executed, undumped>>
history == <<progress, region, recorded, stopped>>
vars == <<setup, flow, delta, moved, minstret, pending_exception, terminate_simulation,
          tohost, stf, stf_count, history>>

TypeOK ==
  /\ setup \in Setups
  /\ phase \in {"call", "run", "tail", "exit"}
  /\ hart \in 0..(setup.ncpus - 1)
  /\ maxinsns \in 0..(Word - 1) /\ trace \in 0..setup.trace
  /\ n_cycles \in 0..NCycles /\ delta \in 0..NCycles
  /\ keep_going \in BOOLEAN /\ do_trace \in BOOLEAN /\ moved \in BOOLEAN /\ tohost \in BOOLEAN
  /\ tracing_enabled \in BOOLEAN /\ is_start_opc \in BOOLEAN /\ is_stop_opc \in BOOLEAN
  /\ has_exit_pending \in BOOLEAN
  /\ minstret \in [Harts -> Nat] /\ retired \in [Harts -> Nat]
  /\ pending_exception \in [Harts -> BOOLEAN]
  /\ terminate_simulation \in [Harts -> BOOLEAN]
  /\ stf_count \in Nat /\ executed \in Nat /\ undumped \in Nat
  /\ region \in Nat /\ recorded \in Nat
  /\ stopped \in {"no", "untraced", "traced"}

Init ==
  /\ setup \in Setups
  /\ phase = "call" /\ hart = 0
  /\ maxinsns = setup.maxinsns /\ trace = setup.trace
  /\ keep_going = FALSE /\ do_trace = FALSE /\ moved = FALSE /\ tohost = FALSE
  /\ n_cycles = 0 /\ delta = 0
  /\ minstret = [h \in Harts |-> 0] /\ retired = [h \in Harts |-> 0]
  /\ pending_exception = [h \in Harts |-> FALSE]
  /\ terminate_simulation = [h \in Harts |-> FALSE]
  /\ tracing_enabled = FALSE /\ is_start_opc = FALSE /\ is_stop_opc = FALSE
  /\ has_exit_pending = FALSE
  /\ stf_count = 0 /\ executed = 0 /\ undumped = 0 /\ region = 0 /\ recorded = 0
  /\ stopped = "no"

--------------------------------------------------------------------------------
(* main and the head of iterate_core. *)

NextCallBeyond(kg) ==
  /\ hart' = hart + 1
  /\ keep_going' = kg
  /\ phase' = IF hart < setup.ncpus THEN "call" ELSE "exit"

\* The next call of iterate_core, or the test that ends the do loop.
NextCall(kg) ==
  IF hart + 1 < setup.ncpus
  THEN /\ hart' = hart + 1
       /\ keep_going' = kg
       /\ phase' = "call"
  ELSE /\ hart' = 0
       /\ keep_going' = FALSE
       /\ phase' = IF kg /\ ~has_exit_pending THEN "call" ELSE "exit"

BudgetPerCall == (maxinsns - 1) % Word

\* maxinsns is unsigned.
Budget == (maxinsns - NCycles) % Word

BudgetSpent ==
  /\ phase = "call"
  /\ Budget = 0
  /\ maxinsns' = 0
  /\ NextCall(keep_going)
  /\ UNCHANGED <<setup, trace, n_cycles, do_trace, delta, moved, minstret, pending_exception,
                 terminate_simulation, tohost, stf, stf_count, history>>

Throttled == IF tracing_enabled THEN 1 ELSE NCycles

SliceUnthrottled ==
  /\ maxinsns' = Budget
  /\ do_trace' = (trace < NCycles)
  /\ trace' = IF do_trace' THEN trace ELSE trace - NCycles
  /\ n_cycles' = IF do_trace' THEN 1 ELSE NCycles

SliceTraceKept ==
  /\ maxinsns' = Budget
  /\ do_trace' = (trace < Throttled)
  /\ trace' = trace
  /\ n_cycles' = IF do_trace' THEN 1 ELSE Throttled

\* The slice is cut to one instruction while a trace is written.
Slice ==
  /\ maxinsns' = Budget
  /\ do_trace' = (trace < Throttled)
  /\ trace' = IF do_trace' THEN trace ELSE trace - Throttled
  /\ n_cycles' = IF do_trace' THEN 1 ELSE Throttled

StartSlice ==
  /\ phase = "call"
  /\ Budget > 0
  /\ executed < MaxExecuted /\ stf_count < MaxExecuted
  /\ Slice
  /\ delta' = 0
  /\ moved' = FALSE
  /\ UNCHANGED <<setup, hart, keep_going, minstret, terminate_simulation, tohost, stf, stf_count,
                 history>>

\* An interrupt is pending on entry: the slice executes nothing, and the
\* exception of an earlier slice stays recorded.
Interrupted ==
  /\ StartSlice
  /\ phase' = "tail"
  /\ UNCHANGED pending_exception

Entered ==
  /\ StartSlice
  /\ phase' = "run"
  /\ pending_exception' = [pending_exception EXCEPT ![hart] = FALSE]

--------------------------------------------------------------------------------
(* The interpreter loop. *)

\* the_end: what the slice executed is added to minstret.
CountFrom(start) == minstret' = [minstret EXCEPT ![hart] = @ + start]

Ran == /\ retired' = [retired EXCEPT ![hart] = @ + 1]
       /\ executed' = executed + 1
       /\ undumped' = IF do_trace THEN undumped ELSE undumped + 1

\* A CSR instruction brings the counters up to date before it reads them.
CsrAccounting(kind) ==
  IF kind = "csr" THEN CountFrom(delta) ELSE UNCHANGED minstret

\* stf_trace_trigger, called after every instruction that completes.
Stopping(kind) ==
  kind = "stop" /\ (tracing_enabled \/ setup.exit_on_stop_opc)

Trigger(kind) ==
  /\ is_start_opc' = (kind = "start")
  /\ is_stop_opc' = (kind = "stop")
  /\ has_exit_pending' = (kind = "stop" /\ setup.exit_on_stop_opc)
  /\ tracing_enabled' = (kind = "start" \/ (tracing_enabled /\ ~Stopping(kind)))

\* An instruction that completes.  With tracing on, or turned on by it, the
\* interpreter returns at once and leaves the counters alone.
Complete(kind) ==
  /\ phase = "run" /\ n_cycles > 0
  /\ kind \in setup.kinds \cap Completing
  /\ CsrAccounting(kind)
  /\ Ran
  /\ delta' = delta + 1
  /\ n_cycles' = n_cycles - 1
  /\ moved' = TRUE
  /\ IF kind = "tohost" THEN tohost' \in BOOLEAN ELSE UNCHANGED tohost
  /\ IF setup.stf_trace THEN Trigger(kind) ELSE UNCHANGED stf
  /\ phase' = IF tracing_enabled' THEN "tail" ELSE "run"
  /\ region' = IF tracing_enabled /\ kind \notin {"start", "stop"}
               THEN region + 1 ELSE region
  /\ stopped' = IF kind # "stop" \/ ~setup.stf_trace THEN stopped
                ELSE IF tracing_enabled THEN "traced" ELSE "untraced"
  /\ UNCHANGED <<setup, hart, maxinsns, trace, keep_going, do_trace, pending_exception,
                 terminate_simulation, stf_count, recorded>>

\* The slice ends: its instructions are counted, on top of what a CSR
\* instruction counted before it trapped.
EndSlice(kind, count) ==
  /\ phase' = "tail"
  /\ delta' = count
  /\ CountFrom(IF kind = "badcsr" THEN delta + count ELSE count)
  /\ UNCHANGED <<setup, hart, maxinsns, trace, keep_going, n_cycles, do_trace, tohost, stf,
                 stf_count, recorded, stopped>>

\* An exception cancels its instruction; an ecall is counted all the same.
Cancels(kind) == kind \in {"trap", "badcsr"}

TrapUncancelled(kind) ==
  /\ phase = "run" /\ n_cycles > 0
  /\ kind \in setup.kinds \cap Trapping
  /\ EndSlice(kind, delta + 1)
  /\ pending_exception' = [pending_exception EXCEPT ![hart] = TRUE]
  /\ terminate_simulation' = [terminate_simulation EXCEPT ![hart] = @ \/ kind = "shutdown"]
  /\ IF Cancels(kind) THEN UNCHANGED progress ELSE Ran
  /\ UNCHANGED <<moved, region>>

Trap(kind) ==
  /\ phase = "run" /\ n_cycles > 0
  /\ kind \in setup.kinds \cap Trapping
  /\ EndSlice(kind, IF Cancels(kind) THEN delta ELSE delta + 1)
  /\ pending_exception' = [pending_exception EXCEPT ![hart] = TRUE]
  /\ terminate_simulation' = [terminate_simulation EXCEPT ![hart] = @ \/ kind = "shutdown"]
  /\ IF Cancels(kind) THEN UNCHANGED progress ELSE Ran
  /\ UNCHANGED <<moved, region>>

\* MRET, SRET and WFI; stf_trace_trigger is not reached.  WFI goes on to the
\* next instruction, a return leaves the traced path.
Leave(kind) ==
  /\ phase = "run" /\ n_cycles > 0
  /\ kind \in setup.kinds \cap Leaving
  /\ EndSlice(kind, delta + 1)
  /\ Ran
  /\ moved' = (kind = "wfi")
  /\ region' = IF tracing_enabled /\ kind = "wfi" THEN region + 1 ELSE region
  /\ UNCHANGED <<pending_exception, terminate_simulation>>

\* The budget is used up, or an interrupt is found when fetching leaves a page.
RunOut ==
  /\ phase = "run"
  /\ n_cycles = 0 \/ delta > 0
  /\ EndSlice("none", delta)
  /\ moved' = (moved /\ n_cycles = 0)
  /\ UNCHANGED <<pending_exception, terminate_simulation, progress, region>>

--------------------------------------------------------------------------------
(* The tail of iterate_core. *)

TraceElementUnchecked ==
  IF tracing_enabled /\ ~is_start_opc /\ ~is_stop_opc /\ ~pending_exception[hart]
  THEN /\ stf_count' = stf_count + 1
       /\ recorded' = recorded + 1
  ELSE UNCHANGED <<stf_count, recorded>>

\* stf_trace_element: counted, and recorded unless pc is not where it should
\* be.
TraceElement ==
  IF tracing_enabled /\ ~is_start_opc /\ ~is_stop_opc /\ ~pending_exception[hart]
  THEN /\ stf_count' = stf_count + 1
       /\ recorded' = IF moved THEN recorded + 1 ELSE recorded
  ELSE UNCHANGED <<stf_count, recorded>>

Tail ==
  /\ phase = "tail"
  /\ TraceElement
  /\ NextCall(keep_going \/ (~tohost /\ ~terminate_simulation[hart] /\ maxinsns > 0))
  /\ UNCHANGED <<setup, maxinsns, trace, n_cycles, do_trace, delta, moved, minstret,
                 pending_exception, terminate_simulation, tohost, stf, progress,
                 region, stopped>>

Next ==
  \/ BudgetSpent
  \/ Interrupted
  \/ Entered
  \/ \E kind \in setup.kinds : Complete(kind) \/ Trap(kind) \/ Leave(kind)
  \/ RunOut
  \/ Tail

Spec == Init /\ [][Next]_vars

--------------------------------------------------------------------------------

\* Between slices minstret is the number of instructions the hart retired:
\* cancelled instructions are not counted ("All other causes cancelled the
\* instruction and shouldn't be counted in minstret"), all others are, once.
MinstretCountsRetired ==
  phase \in {"call", "exit"} => minstret = retired

\* MinstretCountsRetired for guests without CSR instructions and without an
\* STF trace, whichever way each slice of each hart ends.
MinstretExact ==
  ~setup.stf_trace /\ setup.kinds \cap {"csr", "badcsr"} = {} => MinstretCountsRetired

\* "The first STOP_TRACE opcode will terminate the simulator" (README,
\* --stf_exit_on_stop_opc): no round begins after a STOP marker.
StopTerminates ==
  setup.exit_on_stop_opc /\ stopped # "no" /\ phase = "call" => hart # 0

\* StopTerminates for a STOP marker inside a traced region of a single hart:
\* it is executed in a slice of its own, so nothing can overwrite
\* has_exit_pending before main tests it.
TracedStopTerminates ==
  setup.ncpus = 1 /\ setup.exit_on_stop_opc /\ stopped = "traced" =>
    phase # "call"

\* "--maxinsns terminates execution after a number of instructions": no more
\* than that many are executed, by all harts together.
BudgetKept == executed <= setup.maxinsns

\* The counts of the command line.  BudgetKept holds for a single hart and a
\* budget of whole slices; otherwise the unsigned budget is taken below 0, or
\* another hart keeps the loop going.  "--trace start trace dump after a number
\* of instructions": at most that many run in slices that are not dumped one by
\* one.
CountsRespected ==
  /\ setup.ncpus = 1 /\ setup.maxinsns % NCycles = 0 => BudgetKept
  /\ undumped <= setup.trace

\* Every instruction other than WFI that completes on the traced path between
\* the markers has exactly one record in the STF file ("Trace the insn if the
\* start OPC has been detected, do not trace the start or stop insn's",
\* iterate_core): a slice is one instruction long while tracing, so none is
\* skipped, and the flags of the last trigger hide none.
TraceComplete ==
  phase = "call" /\ "wfi" \notin setup.kinds => recorded = region
================================================================================
