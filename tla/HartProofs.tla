------------------------------- MODULE HartProofs -------------------------------
(***************************************************************************)
(* What a hart keeps for a program that is interrupted or shares memory.   *)
(* Traps save the context and returns restore it, for any program counters *)
(* and interrupts.  Threads sharing the FP unit never see each other's     *)
(* state, for any set of threads and of registers.  Load reservations are  *)
(* what two sequence numbers make of them, for any number of harts, any    *)
(* memory and any bound on the sequence numbers.                           *)
(***************************************************************************)
EXTENDS Trap, FpContext, LrScIncrement, TLAPS

\* SavedContext is inductive by itself.  That a supervisor handler is not
\* interrupted at its own level needs SIE to stay clear while its context is
\* live, and that a pending interrupt has a number in the priority order.
TrapInv ==
  /\ SavedContext
  /\ ctxS.live => ~SIE
  /\ priv \in 0..3 /\ MPP \in 0..3 /\ SPP \in {PRV_U, PRV_S}
  /\ mip \subseteq Irqs /\ mie \subseteq Irqs /\ mideleg \subseteq Irqs

\* get_irq_num finds a pending interrupt.
LEMMA IrqNumPending ==
  ASSUME NEW mask, mask \subseteq Irqs, mask # {}
  PROVE  get_irq_num(mask) \in mask
<1> DEFINE S == {i \in 1..Len(priorities) : priorities[i] \in mask}
<1>1. Len(priorities) = 12
  BY DEF priorities
<1>2. S \subseteq 1..12
  BY <1>1
<1>3. S # {}
  BY <1>1, TrapAssumption
<1>4. \E x \in S : \A y \in S : x <= y
  <2> DEFINE Below(k) == \A y \in S : k <= y
  <2> SUFFICES ASSUME \A k \in 1..12 : k \in S => ~Below(k) PROVE FALSE
    BY <1>1
  <2>1. Below(1)
    BY <1>2
  <2>2. \A k \in 1..12 : Below(k) => Below(k + 1)
    BY <1>2
  <2>3. Below(13)
    <3> HIDE DEF Below
    <3> QED
      BY <2>1, <2>2
  <2>4. PICK y \in S : TRUE
    BY <1>3
  <2>5. y \in 1..12 /\ 13 <= y
    BY <1>2, <2>3, <2>4, Zenon
  <2> QED
    BY <2>5
<1> HIDE DEF S
<1>5. Min(S) \in S
  BY <1>4 DEF Min
<1> QED
  BY <1>5 DEF get_irq_num, S

\* raise_exception2 saves the context at the level it traps to.
LEMMA TrapSaves ==
  ASSUME TrapInv, NEW cause, NEW deleg, raise_exception2(cause, deleg), UNCHANGED irqstate
  PROVE  TrapInv' /\ priv <= priv'
<1>1. CASE TrapToS /\ priv <= PRV_S
  BY <1>1 DEF TrapToS, TrapInv, SavedContext, Context, irqstate, PRV_S, PRV_U
<1>2. CASE TrapToM
  BY <1>2 DEF TrapToM, TrapInv, SavedContext, Context, irqstate, PRV_M
<1> QED
  BY <1>1, <1>2 DEF raise_exception2, Delegated

\* A supervisor interrupt does not reach a supervisor handler whose SIE is
\* clear.
LEMMA NotNested ==
  ASSUME TrapInv, raise_interrupt, ctxS.live, priv = PRV_S
  PROVE  ctxS' = ctxS
<1> DEFINE mask == get_pending_irq_mask
<1>1. mask = (mip \cap mie) \ mideleg
  BY DEF get_pending_irq_mask, TrapInv, PRV_S, PRV_M
<1>2. mask # {} /\ mask \subseteq Irqs
  BY <1>1 DEF raise_interrupt, TrapInv
<1>3. get_irq_num(mask) \in mask
  BY <1>2, IrqNumPending
<1>4. ~Delegated(get_irq_num(mask), mideleg)
  BY <1>1, <1>3 DEF Delegated
<1>5. raise_exception2(get_irq_num(mask), mideleg)
  BY DEF raise_interrupt
<1> QED
  BY <1>4, <1>5 DEF raise_exception2, TrapToM

\* riscv_cpu_init: no trap was taken yet.
LEMMA TrapInitially == Init => TrapInv
BY DEF Init, TrapInv, SavedContext, NoCtx, PRV_M, PRV_U, PRV_S

\* Every step keeps what traps saved; only the returns lower the privilege.
LEMMA TrapStep ==
  ASSUME TrapInv, [Next]_vars
  PROVE  TrapInv' /\ (priv' < priv => Mret \/ Sret \/ Dret)
<1>1. CASE raise_interrupt
  BY <1>1, TrapSaves DEF raise_interrupt, TrapInv
<1>2. CASE Exception
  BY <1>2, TrapSaves DEF Exception, TrapInv
<1>3. CASE UNCHANGED <<priv, mstatus, irqstate, mepc, sepc, ctxM, ctxS>>
  BY <1>3 DEF TrapInv, SavedContext, mstatus, irqstate
<1>4. CASE Mret
  BY <1>4 DEF Mret, TrapInv, SavedContext, NoCtx, irqstate, PRV_U
<1>5. CASE Sret
  BY <1>5 DEF Sret, TrapInv, SavedContext, NoCtx, irqstate, PRV_U, PRV_S
<1>6. CASE Dret
  BY <1>6 DEF Dret, TrapInv, SavedContext, mstatus, irqstate
<1>7. CASE WriteMstatus
  BY <1>7, TrapAssumption DEF WriteMstatus, TrapInv, SavedContext, NoCtx, irqstate
<1>8. CASE WriteSstatus
  BY <1>8 DEF WriteSstatus, TrapInv, SavedContext, NoCtx, irqstate
<1>9. CASE WriteEpc
  BY <1>9 DEF WriteEpc, TrapInv, SavedContext, NoCtx, mstatus, irqstate
<1>10. CASE WriteIrqCsr
  BY <1>10 DEF WriteIrqCsr, TrapInv, SavedContext, mstatus
<1>11. ASSUME NEW i \in Irqs, SetMip(i) \/ ResetMip(i)
       PROVE  TrapInv' /\ (priv' < priv => Mret \/ Sret \/ Dret)
  BY <1>11 DEF SetMip, ResetMip, TrapInv, SavedContext, mstatus
<1>12. ASSUME SliceStart \/ SliceEnd \/ Plain \/ Wfi \/ UNCHANGED vars
       PROVE  UNCHANGED <<priv, mstatus, irqstate, mepc, sepc, ctxM, ctxS>>
  BY <1>12 DEF SliceStart, SliceEnd, Plain, Wfi, vars
<1> QED
  BY <1>1, <1>2, <1>3, <1>4, <1>5, <1>6, <1>7, <1>8, <1>9, <1>10, <1>11, <1>12
  DEF Next, Interp, Instruction, EntryInterrupt, PageInterrupt

\* What a trap saved is still there when its handler returns.
THEOREM TrapSavedContext == Spec => []SavedContext
<1>1. TrapInv => SavedContext
  BY DEF TrapInv
<1>2. TrapInv /\ [Next]_vars => TrapInv'
  BY TrapStep
<1> QED
  BY <1>1, <1>2, TrapInitially, PTL DEF Spec

\* handle_mret and handle_sret resume exactly the interrupted context.
THEOREM TrapReturnResumes == Spec => ReturnResumes
<1> DEFINE Resumes ==
      /\ ctxM.live /\ Mret => pc' = ctxM.pc /\ priv' = ctxM.priv /\ MIE' = ctxM.ie
      /\ ctxS.live /\ Sret => pc' = ctxS.pc /\ priv' = ctxS.priv /\ SIE' = ctxS.ie
<1>1. TrapInv /\ [Next]_vars => TrapInv' /\ [Resumes]_vars
  <2>1. TrapInv => Resumes
    BY DEF TrapInv, SavedContext, Mret, Sret
  <2> QED
    BY <2>1, TrapStep
<1> QED
  BY <1>1, TrapInitially, PTL DEF Spec, ReturnResumes

\* raise_exception2 never runs a handler below the privilege it interrupted.
THEOREM TrapKeepsPriv == Spec => OnlyReturnsLowerPriv
<1>1. TrapInv /\ [Next]_vars => TrapInv' /\ [priv' < priv => Mret \/ Sret \/ Dret]_vars
  BY TrapStep
<1> QED
  BY <1>1, TrapInitially, PTL DEF Spec, OnlyReturnsLowerPriv

\* A supervisor handler is not interrupted at its own level before it enables
\* interrupts, whatever machine mode does in between.
THEOREM TrapNotNested == Spec => NoNestedSupervisorInterrupt
<1> DEFINE Kept ==
      ctxS.live /\ priv = PRV_S /\ (EntryInterrupt \/ PageInterrupt) => ctxS' = ctxS
<1>1. TrapInv /\ [Next]_vars => TrapInv' /\ [Kept]_vars
  <2>1. TrapInv => Kept
    BY NotNested DEF EntryInterrupt, PageInterrupt
  <2> QED
    BY <2>1, TrapStep
<1> QED
  BY <1>1, TrapInitially, PTL DEF Spec, NoNestedSupervisorInterrupt

\* The fields of mstatus, the masks and the saved contexts hold what csr_write
\* and the trap handlers can put there.
THEOREM TrapTypeCorrect == Spec => []TypeOK
<1> DEFINE Flags ==
      /\ MIE \in BOOLEAN /\ MPIE \in BOOLEAN /\ SIE \in BOOLEAN /\ SPIE \in BOOLEAN
      /\ debug_mode \in BOOLEAN /\ power_down_flag \in BOOLEAN
    Words ==
      /\ mideleg \subseteq MidelegMask \cap Irqs /\ medeleg \subseteq MedelegMask
      /\ mepc \in Pcs /\ sepc \in Pcs /\ pc \in Pcs
      /\ phase \in {"entry", "run"}
      /\ ctxM \in Ctx /\ ctxS \in Ctx
    Typed == TrapInv /\ Flags /\ Words
<1>1. NoCtx \in Ctx
  BY DEF Ctx
<1>2. Typed => TypeOK
  BY DEF TrapInv, TypeOK
<1>3. Init => Typed
  BY <1>1, TrapInitially, Zenon DEF Init
<1>4. ASSUME Typed, [Next]_vars
      PROVE  Typed'
  <2>1. TrapInv'
    BY <1>4, TrapStep
  <2>2. ASSUME NEW cause, NEW deleg, raise_exception2(cause, deleg), UNCHANGED irqstate,
               UNCHANGED <<debug_mode, power_down_flag>>
        PROVE  Flags' /\ Words'
    <3>1. Context(MIE) \in Ctx /\ Context(SIE) \in Ctx
      BY <1>4 DEF Context, Ctx, TrapInv
    <3>2. CASE TrapToS
      BY <1>4, <2>2, <3>1, <3>2, TrapAssumption, Zenon DEF TrapToS, raise_exception2, irqstate
    <3>3. CASE TrapToM
      BY <1>4, <2>2, <3>1, <3>3, TrapAssumption, Zenon DEF TrapToM, raise_exception2, irqstate
    <3> QED
      BY <2>2, <3>2, <3>3 DEF raise_exception2
  <2>3. CASE EntryInterrupt \/ PageInterrupt
    BY <2>1, <2>2, <2>3, Zenon DEF EntryInterrupt, PageInterrupt, raise_interrupt
  <2>4. CASE Exception
    BY <2>1, <2>2, <2>4, Zenon DEF Exception
  <2>5. CASE Mret \/ Sret \/ Dret
    BY <1>1, <1>4, <2>1, <2>5, Zenon DEF Mret, Sret, Dret, mstatus, irqstate
  <2>6. CASE WriteMstatus \/ WriteSstatus \/ WriteEpc
    BY <1>1, <1>4, <2>1, <2>6, Zenon DEF WriteMstatus, WriteSstatus, WriteEpc, mstatus, irqstate
  <2>7. CASE WriteIrqCsr
    <3>1. UNCHANGED <<mstatus, mepc, sepc, pc, debug_mode, power_down_flag, phase, ctxM, ctxS>>
      BY <2>7 DEF WriteIrqCsr
    <3>2. mideleg' \subseteq MidelegMask \cap Irqs /\ medeleg' \subseteq MedelegMask
      BY <1>4, <2>7 DEF WriteIrqCsr
    <3> QED
      BY <1>4, <2>1, <3>1, <3>2, Zenon DEF mstatus
  <2>8. CASE \E i \in Irqs : SetMip(i) \/ ResetMip(i)
    BY <1>4, <2>1, <2>8, Zenon DEF SetMip, ResetMip, mstatus
  <2>9. CASE SliceStart \/ SliceEnd \/ Plain \/ Wfi
    BY <1>4, <2>1, <2>9, Zenon DEF SliceStart, SliceEnd, Plain, Wfi, mstatus, irqstate
  <2>10. CASE UNCHANGED vars
    BY <1>4, <2>1, <2>10, Zenon DEF vars, mstatus, irqstate
  <2> QED
    BY <1>4, <2>3, <2>4, <2>5, <2>6, <2>7, <2>8, <2>9, <2>10 DEF Next, Interp, Instruction
<1> QED
  BY <1>2, <1>3, <1>4, PTL DEF Spec

(***************************************************************************)
(* The FP unit.                                                            *)
(***************************************************************************)
\* The operating system's copies are functions of the threads.
PerThread ==
  /\ running \in Threads
  /\ contexts = [t \in Threads |-> contexts[t]]
  /\ own = [t \in Threads |-> own[t]]

\* ThreadsKeepFpu is not inductive: at a switch it needs that a unit which is
\* not marked dirty equals what was stored when it was loaded.
FpInv ==
  /\ PerThread
  /\ ThreadsKeepFpu
  /\ fs # 3 => contexts[running] = own[running]
  /\ \A t \in Threads : t # running => contexts[t] = own[t]

\* An instruction that does not set FS to dirty leaves the unit as it was
\* (fmv.x, fclass, the stores, and every instruction that traps).
LEMMA CleanInstruction ==
  ASSUME NEW f, NEW i \in Instructions, ~Execute(f, i).dirty
  PROVE  Execute(f, i).fpu = f
<1>1. i.op \in Operations
  BY DEF Instructions
<1>2. CASE i.op \in {"arithmetic", "divide", "minmax", "sign"}
  BY <1>2 DEF Execute, Arithmetic, MinMax, SignInject, Done, Ends, Illegal
<1>3. CASE i.op \in {"compare", "toint", "fromint"}
  BY <1>3 DEF Execute, Compare, ToInteger, FromInteger, Done, Ends, Illegal
<1>4. CASE i.op \in {"convert", "movetoint", "movefromint"}
  BY <1>4 DEF Execute, Convert, MoveToInteger, MoveFromInteger, Done, Ends, Illegal
<1>5. CASE i.op \in {"load", "store"}
  BY <1>5 DEF Execute, FpLoad, FpStore, Done, Ends
<1>6. CASE i.op \in {"fflags", "frm", "fcsr"}
  BY <1>6 DEF Execute, WriteFflags, WriteFrm, WriteFcsr, Done
<1> QED
  BY <1>1, <1>2, <1>3, <1>4, <1>5, <1>6 DEF Operations

\* An instruction that traps is one that leaves the unit as it was.
LEMMA TrappedInstruction ==
  ASSUME NEW f, NEW i \in Instructions, Execute(f, i).trap # "none"
  PROVE  ~Execute(f, i).dirty
<1>1. i.op \in Operations
  BY DEF Instructions
<1>2. CASE i.op \in {"arithmetic", "divide", "minmax", "sign"}
  BY <1>2 DEF Execute, Arithmetic, MinMax, SignInject, Done, Ends, Illegal
<1>3. CASE i.op \in {"compare", "toint", "fromint"}
  BY <1>3 DEF Execute, Compare, ToInteger, FromInteger, Done, Ends, Illegal
<1>4. CASE i.op \in {"convert", "movetoint", "movefromint"}
  BY <1>4 DEF Execute, Convert, MoveToInteger, MoveFromInteger, Done, Ends, Illegal
<1>5. CASE i.op \in {"load", "store"}
  BY <1>5 DEF Execute, FpLoad, FpStore, Done, Ends
<1>6. CASE i.op \in {"fflags", "frm", "fcsr"}
  BY <1>6 DEF Execute, WriteFflags, WriteFrm, WriteFcsr, Done
<1> QED
  BY <1>1, <1>2, <1>3, <1>4, <1>5, <1>6 DEF Operations

\* FpInv holds when the threads start.
LEMMA FpInvInit == FpInit => FpInv
  BY DEF FpInit, FpInv, PerThread, ThreadsKeepFpu

\* The running thread's instruction does the same to the unit and to the
\* thread's own copy; if it does not mark the unit dirty it did nothing.
LEMMA FpInvRun ==
  ASSUME FpInv, NEW i \in Instructions, Run(i)
  PROVE  FpInv'
<1> DEFINE e == Execute(fpu, i)
<1>1. /\ fs # 0 /\ fpu' = e.fpu
      /\ fs' = IF e.dirty THEN 3 ELSE fs
      /\ running' = running /\ contexts' = contexts
      /\ own' = [own EXCEPT ![running] = Execute(@, i).fpu]
  BY DEF Run
<1>2. fpu = own[running]
  BY <1>1 DEF FpInv, ThreadsKeepFpu
<1>3. own' = [own EXCEPT ![running] = e.fpu]
  BY <1>1, <1>2
<1> HIDE DEF e
<1>4. PerThread'
  BY <1>1, <1>3 DEF FpInv, PerThread
<1>5. own'[running] = e.fpu /\ \A t \in Threads : t # running => own'[t] = own[t]
  BY <1>3 DEF FpInv, PerThread
<1>6. ThreadsKeepFpu'
  BY <1>1, <1>5 DEF ThreadsKeepFpu
<1>7. ASSUME fs' # 3 PROVE contexts'[running'] = own'[running']
  <2>1. ~e.dirty /\ fs # 3
    BY <1>1, <1>7
  <2>2. e.fpu = fpu
    BY <2>1, CleanInstruction DEF e
  <2> QED
    BY <1>1, <1>2, <1>5, <2>1, <2>2 DEF FpInv
<1> QED
  BY <1>1, <1>4, <1>5, <1>6, <1>7 DEF FpInv

\* A context switch saves what the thread leaves and restores what the next one had.
LEMMA FpInvSwitch ==
  ASSUME FpInv, NEW u \in Threads, Switch(u)
  PROVE  FpInv'
<1>1. /\ u # running /\ running' = u /\ fs' = 0 /\ own' = own
      /\ contexts' = IF fs = 3 THEN [contexts EXCEPT ![running] = fpu] ELSE contexts
  BY DEF Switch, SD
<1>2. PerThread'
  BY <1>1 DEF FpInv, PerThread
<1>3. contexts'[running] = own[running]
  <2>1. CASE fs = 3
    BY <1>1, <2>1 DEF FpInv, PerThread, ThreadsKeepFpu
  <2>2. CASE fs # 3
    BY <1>1, <2>2 DEF FpInv
  <2> QED
    BY <2>1, <2>2
<1>4. \A t \in Threads : t # running => contexts'[t] = own[t]
  BY <1>1 DEF FpInv, PerThread
<1> QED
  BY <1>1, <1>2, <1>3, <1>4 DEF FpInv, ThreadsKeepFpu

\* Every step of the threads and of the switching code keeps FpInv.
LEMMA FpInvNext == FpInv /\ [FpNext]_fpvars => FpInv'
<1> SUFFICES ASSUME FpInv, [FpNext]_fpvars PROVE FpInv'
  OBVIOUS
<1>1. CASE \E i \in Instructions : Run(i)
  BY <1>1, FpInvRun
<1>2. CASE FirstUse
  <2>1. /\ fs = 0 /\ fs' = 2 /\ fpu' = contexts[running]
        /\ running' = running /\ contexts' = contexts /\ own' = own
    BY <1>2 DEF FirstUse
  <2> QED
    BY <2>1 DEF FpInv, PerThread, ThreadsKeepFpu
<1>3. CASE \E t \in Threads : Switch(t)
  BY <1>3, FpInvSwitch
<1>4. CASE UNCHANGED fpvars
  BY <1>4 DEF fpvars, FpInv, PerThread, ThreadsKeepFpu
<1> QED
  BY <1>1, <1>2, <1>3, <1>4 DEF FpNext

\* Whenever the unit is on, the running thread has the registers, flags and
\* rounding mode it would have with a unit to itself, however the threads are
\* switched: FS is set to dirty by every instruction that changes any of them.
THEOREM FpContextKept == FpSpec => []ThreadsKeepFpu
<1>1. FpInv => ThreadsKeepFpu
  BY DEF FpInv
<1> QED
  BY FpInvInit, FpInvNext, <1>1, PTL DEF FpSpec

\* An FP instruction that traps with the unit on leaves the unit and FS alone.
THEOREM FpTrapsAreClean == FpSpec => TrapsAreClean
<1>1. [FpNext]_fpvars => [CleanTrap]_fpvars
  <2> SUFFICES ASSUME FpNext, trap' # "none", fs # 0
               PROVE  fpu' = fpu /\ fs' = fs
    BY DEF CleanTrap
  <2>1. CASE \E i \in Instructions : Run(i)
    <3> PICK i \in Instructions : Run(i)
      BY <2>1
    <3> DEFINE e == Execute(fpu, i)
    <3>1. fpu' = e.fpu /\ fs' = (IF e.dirty THEN 3 ELSE fs) /\ e.trap # "none"
      BY DEF Run
    <3>2. ~e.dirty
      BY <3>1, TrappedInstruction
    <3>3. e.fpu = fpu
      BY <3>2, CleanInstruction
    <3> HIDE DEF e
    <3> QED
      BY <3>1, <3>2, <3>3
  <2>2. CASE FirstUse
    BY <2>2 DEF FirstUse
  <2>3. CASE \E t \in Threads : Switch(t)
    BY <2>3 DEF Switch
  <2> QED
    BY <2>1, <2>2, <2>3 DEF FpNext
<1> QED
  BY <1>1, PTL DEF FpSpec, TrapsAreClean

--------------------------------------------------------------------------------
(* Load reservations.                                                       *)

\* LrTypeOK together with the safety invariant is inductive: that the counter of
\* a hart never exceeds the memory's is what rules out that a foreign store
\* makes them equal again.
LrInv == LrTypeOK /\ ReservationTracksMemory

\* Every initial state satisfies the invariant: all counters are 0.
LEMMA InitInv == LrInit => LrInv
  BY LoadReserveAssumption DEF LrInit, LrInv, LrTypeOK, ReservationTracksMemory, Addr

\* Every instruction, and every write by an outside agent, keeps the types.
LEMMA NextTypeOK == LrTypeOK /\ [LrNext]_lrvars => LrTypeOK'
<1> SUFFICES ASSUME LrTypeOK, [LrNext]_lrvars PROVE LrTypeOK'
  OBVIOUS
<1> USE LoadReserveAssumption DEF LrTypeOK
<1>1. ASSUME NEW h \in Harts, Fault(h) PROVE LrTypeOK'
  BY <1>1 DEF Fault, Returns, resvars
<1>2. ASSUME NEW h \in Harts, NEW a \in Addr, ScFail(h, a) PROVE LrTypeOK'
  BY <1>2 DEF ScFail, Returns, resvars
<1>3. ASSUME NEW h \in Harts, NEW a \in Addr, NEW v \in Val, Load(h, a, v)
      PROVE LrTypeOK'
  BY <1>3 DEF Load, Returns, resvars
<1>4. ASSUME NEW h \in Harts, NEW a \in Addr, NEW v \in Val, Store(h, a, v)
      PROVE LrTypeOK'
  BY <1>4 DEF Store, target_write, Bump, OwnSeqno
<1>5. ASSUME NEW h \in Harts, NEW a \in Addr, NEW v \in Val, LR(h, a, v)
      PROVE LrTypeOK'
  BY <1>5 DEF LR, Returns
<1>6. ASSUME NEW h \in Harts, NEW a \in Addr, NEW v \in Val, ScOk(h, a, v)
      PROVE LrTypeOK'
  BY <1>6 DEF ScOk, target_write, Bump, Returns
<1>7. ASSUME NEW h \in Harts, NEW a \in Addr, NEW v \in Val, NEW old \in Val,
             Amo(h, a, old, v)
      PROVE LrTypeOK'
  BY <1>7 DEF Amo, target_write, Bump, OwnSeqno, Returns
<1>8. ASSUME NEW a \in Ram, NEW v \in Val, ExternalWrite(a, v) PROVE LrTypeOK'
  BY <1>8 DEF ExternalWrite
<1>9. CASE UNCHANGED lrvars
  BY <1>9 DEF lrvars
<1> QED
  BY <1>1, <1>2, <1>3, <1>4, <1>5, <1>6, <1>7, <1>8, <1>9 DEF LrNext, HartStep

\* A store of hart h to a, whatever instruction makes it, keeps the counters
\* in step with the history of foreign stores.
LEMMA StorePreserves ==
  ASSUME LrInv, NEW h \in Harts, NEW a \in Addr, NEW v \in Val,
         target_write(h, a, v),
         load_res_memseqno' = [load_res_memseqno EXCEPT ![h] = OwnSeqno(h, a)],
         UNCHANGED load_res
  PROVE  ReservationTracksMemory'
<1> USE DEF LrInv, LrTypeOK
<1>1. CASE a \notin Ram
  <2>1. memseqno' = memseqno /\ load_res_memseqno' = load_res_memseqno
    BY <1>1 DEF target_write, Bump, OwnSeqno
  <2>2. \A g \in Harts : foreign'[g] = foreign[g]
    BY <1>1 DEF target_write, Bump
  <2> QED
    BY <2>1, <2>2 DEF ReservationTracksMemory
<1>2. CASE a \in Ram
  <2>1. memseqno' = memseqno + 1
    BY <1>2 DEF target_write, Bump
  <2>2. /\ load_res_memseqno'[h] = load_res_memseqno[h] + 1
        /\ \A g \in Harts \ {h} : load_res_memseqno'[g] = load_res_memseqno[g]
    BY <1>2 DEF OwnSeqno
  <2>3. foreign'[h] = foreign[h] /\ \A g \in Harts \ {h} : foreign'[g]
    BY <1>2, Zenon DEF target_write, Bump
  <2> QED
    BY <2>1, <2>2, <2>3 DEF ReservationTracksMemory
<1> QED
  BY <1>1, <1>2

\* Every step keeps the counters in step with the history of foreign stores.
LEMMA NextTracks == LrInv /\ [LrNext]_lrvars => ReservationTracksMemory'
<1> SUFFICES ASSUME LrInv, [LrNext]_lrvars PROVE ReservationTracksMemory'
  OBVIOUS
<1> USE LoadReserveAssumption DEF LrInv, LrTypeOK
<1>1. ASSUME NEW h \in Harts, Fault(h) PROVE ReservationTracksMemory'
  BY <1>1 DEF Fault, resvars, ReservationTracksMemory
<1>2. ASSUME NEW h \in Harts, NEW a \in Addr, ScFail(h, a)
      PROVE ReservationTracksMemory'
  BY <1>2 DEF ScFail, resvars, ReservationTracksMemory
<1>3. ASSUME NEW h \in Harts, NEW a \in Addr, NEW v \in Val, Load(h, a, v)
      PROVE ReservationTracksMemory'
  BY <1>3 DEF Load, resvars, ReservationTracksMemory
<1>4. ASSUME NEW h \in Harts, NEW a \in Addr, NEW v \in Val, Store(h, a, v)
      PROVE ReservationTracksMemory'
  BY <1>4, StorePreserves, Zenon DEF Store
<1>5. ASSUME NEW h \in Harts, NEW a \in Addr, NEW v \in Val, LR(h, a, v)
      PROVE ReservationTracksMemory'
  BY <1>5 DEF LR, ReservationTracksMemory
<1>6. ASSUME NEW h \in Harts, NEW a \in Addr, NEW v \in Val, ScOk(h, a, v)
      PROVE ReservationTracksMemory'
  <2>1. /\ load_res'[h] = None /\ load_res_memseqno'[h] = 0
        /\ \A g \in Harts \ {h} :
             load_res'[g] = load_res[g] /\ load_res_memseqno'[g] = load_res_memseqno[g]
    BY <1>6 DEF ScOk
  <2>2. CASE a \in Ram
    <3>1. memseqno' = memseqno + 1 /\ \A g \in Harts \ {h} : foreign'[g]
      BY <1>6, <2>2, Zenon DEF ScOk, target_write, Bump
    <3> QED
      BY <2>1, <3>1 DEF ReservationTracksMemory
  <2>3. CASE a \notin Ram
    <3>1. memseqno' = memseqno /\ \A g \in Harts : foreign'[g] = foreign[g]
      BY <1>6, <2>3 DEF ScOk, target_write, Bump
    <3> QED
      BY <2>1, <3>1 DEF ReservationTracksMemory
  <2> QED
    BY <2>2, <2>3
<1>7. ASSUME NEW h \in Harts, NEW a \in Addr, NEW v \in Val, NEW old \in Val,
             Amo(h, a, old, v)
      PROVE ReservationTracksMemory'
  BY <1>7, StorePreserves, Zenon DEF Amo
<1>8. ASSUME NEW a \in Ram, NEW v \in Val, ExternalWrite(a, v)
      PROVE ReservationTracksMemory'
  BY <1>8 DEF ExternalWrite, ReservationTracksMemory
<1>9. CASE UNCHANGED lrvars
  BY <1>9 DEF lrvars, ReservationTracksMemory
<1> QED
  BY <1>1, <1>2, <1>3, <1>4, <1>5, <1>6, <1>7, <1>8, <1>9 DEF LrNext, HartStep

\* The inductive invariant holds in every reachable state.
THEOREM InvariantHolds == LrSpec => []LrInv
<1>1. LrInv /\ [LrNext]_lrvars => LrInv'
  BY NextTypeOK, NextTracks DEF LrInv
<1> QED
  BY InitInv, <1>1, PTL DEF LrSpec

\* Type correctness of memory, counters and reservations.
THEOREM TypeCorrect == LrSpec => []LrTypeOK
  BY InvariantHolds, PTL DEF LrInv

\* A hart's reservation tracks the memory's sequence number exactly while no
\* other hart has stored (riscv_cpu.h, load_res_memseqno).
THEOREM TracksMemory == LrSpec => []ReservationTracksMemory
  BY InvariantHolds, PTL DEF LrInv

\* The action of ScOnlyUndisturbed: no successful SC follows a foreign store.
LEMMA StepUndisturbed ==
  ASSUME LrInv, [LrNext]_lrvars, NEW h \in Harts,
         load_res[h] # None, load_res'[h] = None
  PROVE  ~foreign[h]
<1> USE LoadReserveAssumption DEF LrInv, LrTypeOK
<1>1. CASE UNCHANGED load_res
  BY <1>1
<1>2. ASSUME NEW g \in Harts, NEW a \in Addr, NEW v \in Val, LR(g, a, v)
      PROVE  ~foreign[h]
  BY <1>2 DEF LR
<1>3. ASSUME NEW g \in Harts, NEW a \in Addr, NEW v \in Val, ScOk(g, a, v)
      PROVE  ~foreign[h]
  BY <1>3 DEF ScOk, Reserved, ReservationTracksMemory
<1> QED
  BY <1>1, <1>2, <1>3
  DEF LrNext, HartStep, Fault, ScFail, Load, Store, Amo, ExternalWrite, resvars, lrvars

\* An SC succeeds only if no other hart stored to RAM since its hart's LR.
THEOREM ScUndisturbed == LrSpec => ScOnlyUndisturbed
<1>1. LrInv /\ [LrNext]_lrvars => [UndisturbedSc]_lrvars
  BY StepUndisturbed DEF UndisturbedSc
<1> QED
  BY InvariantHolds, <1>1, PTL DEF LrSpec, ScOnlyUndisturbed

--------------------------------------------------------------------------------

\* The reservation a hart holds, read off the two counters: the refinement
\* mapping of LoadReserve!Abstract.
Held == [h \in Harts |->
           IF load_res_memseqno[h] = memseqno THEN load_res[h] ELSE None]

\* A store of hart h cancels the reservation of every other hart, and only
\* those: the abstract Cancelled, computed by moving two counters.
LEMMA StoreCancels ==
  ASSUME LrInv, NEW h \in Harts, NEW a \in Addr, NEW v \in Val,
         target_write(h, a, v),
         load_res_memseqno' = [load_res_memseqno EXCEPT ![h] = OwnSeqno(h, a)],
         UNCHANGED load_res
  PROVE  Held' = [g \in Harts |-> IF g # h /\ a \in Ram THEN None ELSE Held[g]]
<1> USE DEF LrInv, LrTypeOK
<1>1. CASE a \notin Ram
  BY <1>1 DEF target_write, Bump, OwnSeqno, Held
<1>2. CASE a \in Ram
  <2>1. memseqno' = memseqno + 1
    BY <1>2 DEF target_write, Bump
  <2>2. ASSUME NEW g \in Harts \ {h} PROVE Held'[g] = None
    BY <2>1, <2>2 DEF Held, ReservationTracksMemory
  <2>3. load_res_memseqno'[h] = load_res_memseqno[h] + 1 /\ load_res'[h] = load_res[h]
    BY <1>2 DEF OwnSeqno
  <2>4. Held'[h] = Held[h]
    BY <2>1, <2>3 DEF Held
  <2> QED
    BY <1>2, <2>2, <2>4 DEF Held
<1> QED
  BY <1>1, <1>2

\* Initial states of the counters are initial states of the reservations.
LEMMA InitRefines == LrInit => Abstract!Init
  BY DEF LrInit, Abstract!Init

\* Every step of LoadReserve is a step of Reservation or leaves it unchanged.
LEMMA NextRefines == LrInv /\ [LrNext]_lrvars => [Abstract!Next]_(Abstract!vars)
<1> SUFFICES ASSUME LrInv, [LrNext]_lrvars PROVE [Abstract!Next]_(Abstract!vars)
  OBVIOUS
<1> USE LoadReserveAssumption DEF LrInv, LrTypeOK, Addr, Abstract!Addr, Returns,
        Abstract!Returns, Abstract!Poke, Abstract!Cancelled
<1>1. ASSUME NEW h \in Harts, Fault(h) PROVE Abstract!Fault(h)
  BY <1>1 DEF Fault, Abstract!Fault, resvars
<1>2. ASSUME NEW h \in Harts, NEW a \in Addr, ScFail(h, a)
      PROVE  Abstract!ConditionalFail(h, a)
  BY <1>2 DEF ScFail, Abstract!ConditionalFail, Reserved, resvars
<1>3. ASSUME NEW h \in Harts, NEW a \in Addr, NEW v \in Val, Load(h, a, v)
      PROVE  Abstract!Read(h, a, v)
  BY <1>3 DEF Load, MayRead, Abstract!Read, resvars
<1>4. ASSUME NEW h \in Harts, NEW a \in Addr, NEW v \in Val, Store(h, a, v)
      PROVE  Abstract!Write(h, a, v)
  <2>1. Held' = [g \in Harts |-> IF g # h /\ a \in Ram THEN None ELSE Held[g]]
    BY <1>4, StoreCancels, Zenon DEF Store
  <2> QED
    BY <1>4, <2>1 DEF Store, target_write, Abstract!Write, Held
<1>5. ASSUME NEW h \in Harts, NEW a \in Addr, NEW v \in Val, LR(h, a, v)
      PROVE  Abstract!Reserve(h, a, v)
  BY <1>5, Zenon DEF LR, MayRead, Abstract!Reserve
<1>6. ASSUME NEW h \in Harts, NEW a \in Addr, NEW v \in Val, ScOk(h, a, v)
      PROVE  Abstract!ConditionalOk(h, a, v)
  <2>1. Held[h] = a
    BY <1>6 DEF ScOk, Reserved, Held
  <2>2. Held'[h] = None
    BY <1>6 DEF ScOk, Held
  <2>3. ASSUME NEW g \in Harts \ {h}
        PROVE  Held'[g] = IF a \in Ram THEN None ELSE Held[g]
    <3>1. CASE a \in Ram
      BY <1>6, <2>3, <3>1 DEF ScOk, target_write, Bump, Held, ReservationTracksMemory
    <3>2. CASE a \notin Ram
      BY <1>6, <2>3, <3>2 DEF ScOk, target_write, Bump, Held
    <3> QED
      BY <3>1, <3>2
  <2>4. Held' = [[g \in Harts |-> IF g # h /\ a \in Ram THEN None ELSE Held[g]]
                   EXCEPT ![h] = None]
    BY <2>2, <2>3, Zenon DEF Held
  <2> QED
    BY <1>6, <2>1, <2>4 DEF ScOk, target_write, Abstract!ConditionalOk, Held
<1>7. ASSUME NEW h \in Harts, NEW a \in Addr, NEW v \in Val, NEW old \in Val,
             Amo(h, a, old, v)
      PROVE  Abstract!Exchange(h, a, old, v)
  <2>1. Held' = [g \in Harts |-> IF g # h /\ a \in Ram THEN None ELSE Held[g]]
    BY <1>7, StoreCancels, Zenon DEF Amo
  <2> QED
    BY <1>7, <2>1 DEF Amo, MayRead, target_write, Abstract!Exchange, Held
<1>8. ASSUME NEW a \in Ram, NEW v \in Val, ExternalWrite(a, v)
      PROVE  Abstract!External(a, v)
  BY <1>8 DEF ExternalWrite, Abstract!External
<1>9. CASE UNCHANGED lrvars
  BY <1>9 DEF lrvars, Abstract!vars
<1> QED
  <2>1. ASSUME NEW h \in Harts, HartStep(h) PROVE Abstract!Next
    <3>1. CASE Fault(h) \/ \E a \in Addr : ScFail(h, a)
      BY <1>1, <1>2, <3>1, Zenon DEF Abstract!Next
    <3>2. ASSUME NEW a \in Addr, NEW v \in Val,
                 Load(h, a, v) \/ Store(h, a, v) \/ LR(h, a, v) \/ ScOk(h, a, v) \/ \E old \in Val : Amo(h, a, old, v)
          PROVE  Abstract!Next
      <4>1. \/ Abstract!Read(h, a, v) \/ Abstract!Write(h, a, v) \/ Abstract!Reserve(h, a, v)
            \/ Abstract!ConditionalOk(h, a, v) \/ \E old \in Val : Abstract!Exchange(h, a, old, v)
        BY <1>3, <1>4, <1>5, <1>6, <1>7, <3>2, Zenon
      <4> QED
        BY <4>1, Zenon DEF Abstract!Next
    <3> QED
      BY <2>1, <3>1, <3>2, Zenon DEF HartStep
  <2>2. ASSUME NEW a \in Ram, NEW v \in Val, ExternalWrite(a, v) PROVE Abstract!Next
    BY <1>8, <2>2, Zenon DEF Abstract!Next
  <2> QED
    BY <1>9, <2>1, <2>2, Zenon DEF LrNext

\* Two sequence numbers implement reservations that the stores of other harts
\* cancel (OP_A and target_write against the comment on load_res).
THEOREM Refines == LrSpec => ImplementsReservation
  BY InitRefines, NextRefines, InvariantHolds, PTL
  DEF LrSpec, ImplementsReservation, Abstract!Spec

--------------------------------------------------------------------------------
(* The increments of LrScIncrement. *)

\* A hart between its LR and its SC holds in seen the value of the counter for as
\* long as its sequence number is the memory's; that no hart's number exceeds
\* the memory's keeps a lost reservation lost.
LoopInv ==
  /\ memseqno \in Nat /\ load_res_memseqno \in [Harts -> Nat] /\ successes \in Nat
  /\ DOMAIN mem = Ram /\ DOMAIN load_res = Harts /\ DOMAIN at = Harts /\ DOMAIN seen = Harts
  /\ \A h \in Harts : load_res_memseqno[h] <= memseqno
  /\ \A h \in Harts : at[h] = "sc" /\ load_res_memseqno[h] = memseqno => seen[h] = mem[Counter]
  /\ NoLostUpdate

\* Every step of the loop keeps it: an LR reads the counter, a successful SC
\* writes the value it read plus 1, and any other store leaves the counter alone
\* and the reservations of other harts behind.
LEMMA LoopStepInv == LoopInv /\ [LoopNext]_loopvars => LoopInv'
<1> SUFFICES ASSUME LoopInv, [LoopNext]_loopvars PROVE LoopInv'
  OBVIOUS
<1> USE LrScIncrementAssumption DEF LoopInv, NoLostUpdate
<1>1. ASSUME NEW h \in Harts, DoLr(h) PROVE LoopInv'
  <2>1. UNCHANGED <<mem, memseqno, successes>>
    BY <1>1 DEF DoLr, LR
  <2>2. load_res_memseqno' = [load_res_memseqno EXCEPT ![h] = memseqno]
    BY <1>1 DEF DoLr, LR
  <2>3. seen' = [seen EXCEPT ![h] = mem[Counter]] /\ at' = [at EXCEPT ![h] = "sc"]
        /\ load_res' = [load_res EXCEPT ![h] = Counter]
    BY <1>1 DEF DoLr, LR
  <2> QED
    BY <2>1, <2>2, <2>3
<1>2. ASSUME NEW h \in Harts, DoScOk(h) PROVE LoopInv'
  <2>1. seen[h] = mem[Counter] /\ at[h] = "sc"
    BY <1>2 DEF DoScOk, ScOk, Reserved
  <2>2. memseqno' = memseqno + 1 /\ mem' = [mem EXCEPT ![Counter] = seen[h] + 1]
    BY <1>2 DEF DoScOk, ScOk, target_write, Bump
  <2>3. /\ load_res_memseqno' = [load_res_memseqno EXCEPT ![h] = 0]
        /\ load_res' = [load_res EXCEPT ![h] = None]
        /\ successes' = successes + 1 /\ seen' = seen
    BY <1>2 DEF DoScOk, ScOk
  <2>4. DOMAIN at' = Harts /\ at'[h] # "sc"
    BY <1>2 DEF DoScOk
  <2>5. \A g \in Harts : load_res_memseqno'[g] # memseqno'
    BY <2>2, <2>3
  <2> QED
    BY <2>1, <2>2, <2>3, <2>4, <2>5
<1>3. ASSUME NEW h \in Harts, DoScFail(h) PROVE LoopInv'
  BY <1>3 DEF DoScFail, ScFail, resvars
<1>4. ASSUME NEW h \in Harts, DoStore(h) PROVE LoopInv'
  <2>1. PICK a \in Addr \ {Counter} : Store(h, a, 1)
    BY <1>4 DEF DoStore
  <2>2. UNCHANGED <<at, seen, successes, load_res>>
    BY <1>4, <2>1 DEF DoStore, Store
  <2>3. mem'[Counter] = mem[Counter] /\ DOMAIN mem' = Ram
    BY <2>1 DEF Store, target_write
  <2>4. CASE a \in Ram
    <3>1. memseqno' = memseqno + 1
      BY <2>1, <2>4 DEF Store, target_write, Bump
    <3>2. load_res_memseqno' = [load_res_memseqno EXCEPT ![h] = load_res_memseqno[h] + 1]
      BY <2>1, <2>4 DEF Store, OwnSeqno
    <3> QED
      BY <2>2, <2>3, <3>1, <3>2
  <2>5. CASE a \notin Ram
    <3>1. memseqno' = memseqno /\ load_res_memseqno' = load_res_memseqno
      BY <2>1, <2>5 DEF Store, target_write, Bump, OwnSeqno
    <3> QED
      BY <2>2, <2>3, <3>1
  <2> QED
    BY <2>4, <2>5
<1>5. CASE UNCHANGED loopvars
  BY <1>5 DEF loopvars, lrvars
<1> QED
  BY <1>1, <1>2, <1>3, <1>4, <1>5 DEF LoopNext, Loop

\* The counter is the number of SCs that reported success, for any number of
\* harts and increments and however stores to other words fall in between (OP_A
\* and target_write).
THEOREM IncrementsCounted == LoopSpec => []NoLostUpdate
<1>1. LoopInit => LoopInv
  BY LrScIncrementAssumption DEF LoopInit, LrInit, LoopInv, NoLostUpdate
<1>2. LoopInv => NoLostUpdate
  BY DEF LoopInv
<1> QED
  BY <1>1, <1>2, LoopStepInv, PTL DEF LoopSpec
=================================================================================
