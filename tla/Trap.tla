---------------------------------- MODULE Trap ---------------------------------
(***************************************************************************)
(* Privilege, exceptions, interrupts and returns of one hart               *)
(* (riscv_cpu.cpp: raise_exception2, raise_interrupt, handle_mret,         *)
(* handle_sret, handle_dret, csr_write; dromajo_template.h: the SYSTEM     *)
(* opcode and the interrupt checks of the interpreter loop).               *)
(*                                                                         *)
(* The interpreter runs in slices.  Interrupts are looked at when a slice  *)
(* starts and, inside one, only when fetching leaves the current page; an  *)
(* exception, a return or WFI ends the slice.                              *)
(*                                                                         *)
(* mip, mie, mideleg and medeleg are sets of bit numbers; a program        *)
(* counter is a member of a small set; mtvec and stvec are two of them     *)
(* (the offset of vectored interrupts is not distinguished).  mstatus.TW   *)
(* and TSR make WFI and SRET of supervisor mode illegal instructions; here *)
(* either outcome is possible at any time.                                 *)
(***************************************************************************)
EXTENDS Integers, Sequences, FiniteSetsExt

CONSTANTS
  Pcs,      \* program counters
  mtvec,    \* where traps to machine mode go
  stvec,    \* where traps to supervisor mode go
  Irqs,     \* the interrupts devices raise
  Causes,   \* the exceptions an instruction may raise, besides ecall
  MppBits   \* what guests write to mstatus.MPP

PRV_U == 0
PRV_S == 1
PRV_M == 3
CAUSE_USER_ECALL == 8

\* The priority order of get_irq_num.
priorities == <<11, 3, 7, 10, 2, 6, 9, 1, 5, 8, 0, 4>>

\* What csr_write lets guests delegate, enable and set pending.
MidelegMask == {1, 5, 9}
MedelegMask == {0, 3, 8, 12, 13, 15}

ASSUME TrapAssumption ==
  /\ {mtvec, stvec} \subseteq Pcs
  /\ Irqs \subseteq {priorities[i] : i \in 1..12}
  /\ Causes \subseteq 0..15
  /\ MppBits \subseteq 0..3

VARIABLES
  priv,
  MIE, MPIE, MPP, SIE, SPIE, SPP,   \* fields of mstatus
  mip, mie, mideleg, medeleg,
  mepc, sepc, pc,
  debug_mode,
  power_down_flag,
  phase,      \* "entry": a slice is about to start; "run": inside one
  ctxM, ctxS  \* history: the context the last trap to M (to S) interrupted,
              \* as long as no software changed what was saved of it

mstatus == <<MIE, MPIE, MPP, SIE, SPIE, SPP>>
irqstate == <<mip, mie, mideleg, medeleg>>
vars == <<priv, mstatus, irqstate, mepc, sepc, pc, debug_mode, power_down_flag, phase,
          ctxM, ctxS>>

NoCtx == [live |-> FALSE]
Ctx == {NoCtx} \cup [live : {TRUE}, pc : Pcs, priv : 0..3, ie : BOOLEAN]

TypeOK ==
  /\ priv \in 0..3
  /\ MIE \in BOOLEAN /\ MPIE \in BOOLEAN /\ SIE \in BOOLEAN /\ SPIE \in BOOLEAN
  /\ debug_mode \in BOOLEAN /\ power_down_flag \in BOOLEAN
  /\ MPP \in 0..3 /\ SPP \in {PRV_U, PRV_S}
  /\ mip \subseteq Irqs /\ mie \subseteq Irqs
  /\ mideleg \subseteq MidelegMask \cap Irqs
  /\ medeleg \subseteq MedelegMask
  /\ mepc \in Pcs /\ sepc \in Pcs /\ pc \in Pcs
  /\ phase \in {"entry", "run"}
  /\ ctxM \in Ctx /\ ctxS \in Ctx

\* riscv_cpu_init, and copy_kernel's debug mode for the boot ROM.
Init ==
  /\ priv = PRV_M /\ MPP = PRV_M /\ SPP = PRV_U
  /\ MIE = FALSE /\ MPIE = FALSE /\ SIE = FALSE /\ SPIE = FALSE
  /\ mip = {} /\ mie = {} /\ mideleg = {} /\ medeleg = {}
  /\ pc \in Pcs /\ mepc = pc /\ sepc = pc
  /\ debug_mode = TRUE
  /\ power_down_flag = FALSE
  /\ phase = "entry"
  /\ ctxM = NoCtx /\ ctxS = NoCtx

--------------------------------------------------------------------------------
(* Taking a trap. *)

\* Delegation applies to traps from user and supervisor mode only.
DelegatedFromAnyMode(cause, deleg) == cause \in deleg

Delegated(cause, deleg) == priv <= PRV_S /\ cause \in deleg

Context(ie) == [live |-> TRUE, pc |-> pc, priv |-> priv, ie |-> ie]

TrapToSKeepsSIE ==
  /\ sepc' = pc
  /\ SPIE' = SIE /\ SPP' = priv
  /\ priv' = PRV_S
  /\ pc' = stvec
  /\ ctxS' = Context(SIE)
  /\ UNCHANGED <<mepc, MIE, MPIE, MPP, SIE, ctxM>>

TrapToS ==
  /\ sepc' = pc
  /\ SPIE' = SIE /\ SPP' = priv /\ SIE' = FALSE
  /\ priv' = PRV_S
  /\ pc' = stvec
  /\ ctxS' = Context(SIE)
  /\ UNCHANGED <<mepc, MIE, MPIE, MPP, ctxM>>

TrapToMSavesCleared ==
  /\ mepc' = pc
  /\ MIE' = FALSE /\ MPIE' = MIE' /\ MPP' = priv
  /\ priv' = PRV_M
  /\ pc' = mtvec
  /\ ctxM' = Context(MIE)
  /\ UNCHANGED <<sepc, SIE, SPIE, SPP, ctxS>>

TrapToM ==
  /\ mepc' = pc
  /\ MPIE' = MIE /\ MPP' = priv /\ MIE' = FALSE
  /\ priv' = PRV_M
  /\ pc' = mtvec
  /\ ctxM' = Context(MIE)
  /\ UNCHANGED <<sepc, SIE, SPIE, SPP, ctxS>>

raise_exception2(cause, deleg) ==
  /\ IF Delegated(cause, deleg) THEN TrapToS ELSE TrapToM
  /\ phase' = "entry"

\* Which pending interrupts the current mode lets through.
get_pending_irq_mask ==
  LET pending == mip \cap mie
  IN  CASE priv = PRV_M -> IF MIE THEN pending \ mideleg ELSE {}
        [] priv = PRV_S -> IF SIE THEN pending ELSE pending \ mideleg
        [] OTHER        -> pending

get_irq_num(mask) ==
  priorities[Min({i \in 1..Len(priorities) : priorities[i] \in mask})]

raise_interrupt ==
  /\ get_pending_irq_mask # {}
  /\ raise_exception2(get_irq_num(get_pending_irq_mask), mideleg)
  /\ UNCHANGED <<irqstate, debug_mode, power_down_flag>>

--------------------------------------------------------------------------------
(* The interpreter: a slice starts, runs and ends. *)

EntryInterrupt ==
  /\ phase = "entry"
  /\ raise_interrupt

SliceStartUnchecked ==
  /\ phase = "entry"
  /\ phase' = "run"
  /\ UNCHANGED <<priv, mstatus, irqstate, mepc, sepc, pc, debug_mode, power_down_flag,
                 ctxM, ctxS>>

SliceStart ==
  /\ phase = "entry"
  /\ get_pending_irq_mask = {}
  /\ phase' = "run"
  /\ UNCHANGED <<priv, mstatus, irqstate, mepc, sepc, pc, debug_mode, power_down_flag,
                 ctxM, ctxS>>

\* Fetching leaves the page, and an interrupt is pending.
PageInterrupt ==
  /\ phase = "run"
  /\ raise_interrupt

\* n_cycles instructions are done.
SliceEnd ==
  /\ phase = "run"
  /\ phase' = "entry"
  /\ UNCHANGED <<priv, mstatus, irqstate, mepc, sepc, pc, debug_mode, power_down_flag,
                 ctxM, ctxS>>

\* An instruction that only moves the program counter.
Plain ==
  /\ phase = "run"
  /\ pc' \in Pcs
  /\ UNCHANGED <<priv, mstatus, irqstate, mepc, sepc, debug_mode, power_down_flag, phase,
                 ctxM, ctxS>>

\* An instruction that traps; ecall's cause depends on the privilege.
Exception ==
  /\ phase = "run"
  /\ \E cause \in Causes \cup {CAUSE_USER_ECALL + priv} :
       raise_exception2(cause, medeleg)
  /\ UNCHANGED <<irqstate, debug_mode, power_down_flag>>

Mret ==
  /\ phase = "run"
  /\ priv = PRV_M
  /\ MIE' = MPIE /\ MPIE' = TRUE
  /\ priv' = MPP /\ MPP' = PRV_U
  /\ pc' = mepc
  /\ phase' = "entry"
  /\ ctxM' = NoCtx
  /\ UNCHANGED <<SIE, SPIE, SPP, irqstate, mepc, sepc, debug_mode,
                 power_down_flag, ctxS>>

SretKeepsSpp ==
  /\ phase = "run"
  /\ priv >= PRV_S
  /\ SIE' = SPIE /\ SPIE' = TRUE
  /\ priv' = PRV_U /\ UNCHANGED SPP
  /\ pc' = sepc
  /\ phase' = "entry"
  /\ ctxS' = NoCtx
  /\ UNCHANGED <<MIE, MPIE, MPP, irqstate, mepc, sepc, debug_mode,
                 power_down_flag, ctxM>>

Sret ==
  /\ phase = "run"
  /\ priv >= PRV_S
  /\ SIE' = SPIE /\ SPIE' = TRUE
  /\ priv' = SPP /\ SPP' = PRV_U
  /\ pc' = sepc
  /\ phase' = "entry"
  /\ ctxS' = NoCtx
  /\ UNCHANGED <<MIE, MPIE, MPP, irqstate, mepc, sepc, debug_mode,
                 power_down_flag, ctxM>>

\* To the privilege and pc the boot ROM wrote to dcsr and dpc.
Dret ==
  /\ phase = "run"
  /\ debug_mode
  /\ priv = PRV_M
  /\ debug_mode' = FALSE
  /\ priv' \in 0..3
  /\ pc' \in Pcs
  /\ phase' = "entry"
  /\ UNCHANGED <<mstatus, irqstate, mepc, sepc, power_down_flag,
                 ctxM, ctxS>>

\* Outside co-simulation WFI always powers down, whatever is pending.
Wfi ==
  /\ phase = "run"
  /\ priv # PRV_U
  /\ power_down_flag' = TRUE
  /\ pc' \in Pcs
  /\ phase' = "entry"
  /\ UNCHANGED <<priv, mstatus, irqstate, mepc, sepc, debug_mode, ctxM, ctxS>>

--------------------------------------------------------------------------------
(* CSR writes.  A guest that changes what a trap saved has no claim on the   *)
(* interrupted context any more.                                             *)

WriteMstatus ==
  /\ phase = "run" /\ priv = PRV_M
  /\ MIE' \in BOOLEAN /\ MPIE' \in BOOLEAN /\ MPP' \in MppBits
  /\ SIE' \in BOOLEAN /\ SPIE' \in BOOLEAN /\ SPP' \in {PRV_U, PRV_S}
  /\ ctxM' = NoCtx /\ ctxS' = NoCtx
  /\ UNCHANGED <<priv, irqstate, mepc, sepc, pc, debug_mode, power_down_flag, phase>>

WriteSstatus ==
  /\ phase = "run" /\ priv >= PRV_S
  /\ SIE' \in BOOLEAN /\ SPIE' \in BOOLEAN /\ SPP' \in {PRV_U, PRV_S}
  /\ ctxS' = NoCtx
  /\ UNCHANGED <<priv, MIE, MPIE, MPP, irqstate, mepc, sepc, pc, debug_mode,
                 power_down_flag, phase, ctxM>>

WriteEpc ==
  /\ phase = "run"
  /\ \/ priv = PRV_M /\ mepc' \in Pcs /\ ctxM' = NoCtx /\ UNCHANGED <<sepc, ctxS>>
     \/ priv >= PRV_S /\ sepc' \in Pcs /\ ctxS' = NoCtx /\ UNCHANGED <<mepc, ctxM>>
  /\ UNCHANGED <<priv, mstatus, irqstate, pc, debug_mode, power_down_flag, phase>>

\* mie, mip, mideleg and medeleg; sie and sip reach only delegated bits.
WriteIrqCsr ==
  /\ phase = "run"
  /\ \/ /\ priv = PRV_M
        /\ \/ mie' \in SUBSET Irqs /\ UNCHANGED <<mip, mideleg, medeleg>>
           \/ mip' \in {(mip \ MidelegMask) \cup b : b \in SUBSET (MidelegMask \cap Irqs)}
              /\ UNCHANGED <<mie, mideleg, medeleg>>
           \/ mideleg' \in SUBSET (MidelegMask \cap Irqs) /\ UNCHANGED <<mip, mie, medeleg>>
           \/ medeleg' \in SUBSET (MedelegMask \cap (Causes \cup {CAUSE_USER_ECALL}))
              /\ UNCHANGED <<mip, mie, mideleg>>
     \/ /\ priv >= PRV_S
        /\ \/ mie' \in {(mie \ mideleg) \cup b : b \in SUBSET mideleg}
              /\ UNCHANGED <<mip, mideleg, medeleg>>
           \/ mip' \in {(mip \ mideleg) \cup b : b \in SUBSET mideleg}
              /\ UNCHANGED <<mie, mideleg, medeleg>>
  /\ UNCHANGED <<priv, mstatus, mepc, sepc, pc, debug_mode, power_down_flag, phase,
                 ctxM, ctxS>>

\* Devices, between slices or from a store of a hart.
SetMip(i) ==
  /\ mip' = mip \cup {i}
  /\ power_down_flag' = (power_down_flag /\ mip' \cap mie = {})
  /\ UNCHANGED <<priv, mstatus, mie, mideleg, medeleg, mepc, sepc, pc, debug_mode, phase,
                 ctxM, ctxS>>

ResetMip(i) ==
  /\ mip' = mip \ {i}
  /\ UNCHANGED <<priv, mstatus, mie, mideleg, medeleg, mepc, sepc, pc, debug_mode,
                 power_down_flag, phase, ctxM, ctxS>>

Interp == EntryInterrupt \/ SliceStart \/ PageInterrupt \/ SliceEnd
Instruction ==
  \/ Plain \/ Exception \/ Mret \/ Sret \/ Dret \/ Wfi
  \/ WriteMstatus \/ WriteSstatus \/ WriteEpc \/ WriteIrqCsr

Next ==
  \/ Interp
  \/ Instruction
  \/ \E i \in Irqs : SetMip(i) \/ ResetMip(i)

Spec == Init /\ [][Next]_vars

\* The main loop calls the interpreter again and again, and a slice is a fixed
\* number of instructions long, so slices start and end; nothing is assumed of
\* the guest or of the devices.
FairSpec ==
  /\ Spec
  /\ WF_vars(SliceEnd)
  /\ WF_vars(SliceStart \/ EntryInterrupt)

--------------------------------------------------------------------------------

\* What raise_exception2 saved is still there when the handler returns: as
\* long as software leaves mstatus and the exception pc alone, the saved state
\* is that of the interrupted context, whatever traps and returns of the other
\* level happen in between.
SavedContext ==
  /\ ctxM.live => mepc = ctxM.pc /\ MPP = ctxM.priv /\ MPIE = ctxM.ie
  /\ ctxS.live => sepc = ctxS.pc /\ SPP = ctxS.priv /\ SPIE = ctxS.ie

\* A return resumes exactly the interrupted context: pc, privilege and
\* interrupt enable.
ReturnResumes ==
  [][/\ ctxM.live /\ Mret =>
          pc' = ctxM.pc /\ priv' = ctxM.priv /\ MIE' = ctxM.ie
     /\ ctxS.live /\ Sret =>
          pc' = ctxS.pc /\ priv' = ctxS.priv /\ SIE' = ctxS.ie]_vars

\* Only the returns lower the privilege: a trap, delegated or not, never runs
\* its handler below the privilege it interrupted.
OnlyReturnsLowerPriv ==
  [][priv' < priv => Mret \/ Sret \/ Dret]_vars

\* A supervisor handler is not interrupted by a supervisor interrupt before it
\* enables them, not even after an excursion into machine mode and back: its
\* sepc and SPP survive until it returns.
NoNestedSupervisorInterrupt ==
  [][ctxS.live /\ priv = PRV_S /\ (EntryInterrupt \/ PageInterrupt) =>
       ctxS' = ctxS]_vars

\* An interrupt that the current mode lets through does not stay so: it is
\* taken at the latest when the next slice starts, or it is withdrawn.
InterruptTaken == (get_pending_irq_mask # {}) ~> (get_pending_irq_mask = {})
================================================================================
