------------------------------- MODULE Cosim -------------------------------
(***************************************************************************)
(* Co-simulation: a design under test (DUT, external) commits instructions *)
(* and announces traps, and dromajo_cosim_step makes the emulator follow   *)
(* each commit and compares.  The DUT may differ from the emulator where   *)
(* the architecture lets it: device values, counters, failing store        *)
(* conditionals and the moment of an interrupt.  A hart is one register x  *)
(* (1 is the address of a device, 0 of RAM), one RAM word m and its trap   *)
(* registers; Program names the instruction at each pc.                    *)
(***************************************************************************)
EXTENDS Integers

CONSTANTS
    DutHarts,
    Irqs,           \* machine interrupts: 3 software, 7 timer, 11 external
    Program,        \* the instruction at each pc
    MTVEC, STVEC,   \* entry of the machine and of the supervisor handler
    MaxInsns        \* initial maxinsns, and the bound on the run

NoCause == -1

PAGE_FAULT == 100

Pcs == DOMAIN Program

\* The programs considered: the machine handler is at the end, acknowledges its
\* interrupt right before it returns and does not fault; the supervisor handler
\* does not fault at once, and no other code runs into the machine handler.
ASSUME CosimAssumption ==
    /\ Irqs \subseteq {3, 7, 11}
    /\ MaxInsns \in Nat
    /\ \E last \in Pcs : last \in Nat /\ Pcs = 0..last /\ Program[last] = "mret"
    /\ Program \in [Pcs -> {"alu", "lr", "sc", "load", "counter", "cause", "ack", "jump", "sret", "mret", "fault"}]
    /\ STVEC \in Pcs /\ MTVEC \in Pcs /\ STVEC < MTVEC /\ 1 < MTVEC
    /\ Program[STVEC] /= "fault"
    /\ Program[MTVEC - 1] \in {"jump", "sret"}
    /\ \A pc \in Pcs :
         /\ pc >= MTVEC => Program[pc] \notin {"jump", "sret", "fault"}
         /\ Program[pc] = "mret" => pc > MTVEC /\ Program[pc - 1] = "ack"

VARIABLES
    dut,            \* the hart states of the design under test
    emu,            \* those of the emulator
    prior,          \* reg_prior of the emulator
    pending,        \* pending_interrupt and pending_exception of the machine
    announced,      \* harts whose trap was announced and not yet committed
    maxinsns,
    verdict,        \* what the last step returned
    wrong           \* the DUT has committed a wrong value

cosimvars == <<dut, emu, prior, pending, announced, maxinsns, verdict, wrong>>

CosimReset ==
    [pc |-> 0, priv |-> "U", x |-> 0, m |-> 0, resv |-> FALSE, mepc |-> 0, mpp |-> "U",
     mcause |-> NoCause, sepc |-> 0, scause |-> NoCause, mip |-> {}]

NoTrap == [irq |-> NoCause, exc |-> NoCause]

CosimInit ==
    /\ dut = [h \in DutHarts |-> CosimReset]
    /\ emu = [h \in DutHarts |-> CosimReset]
    /\ prior = [h \in DutHarts |-> 0]
    /\ pending = NoTrap
    /\ announced = {}
    /\ maxinsns = MaxInsns
    /\ verdict = "ok"
    /\ wrong = FALSE

HartState ==
    [pc : Pcs, priv : {"U", "S", "M"}, x : {0, 1}, m : {0, 1}, resv : BOOLEAN, mepc : Pcs, mpp : {"U", "S"},
     mcause : Irqs \union {NoCause}, sepc : Pcs, scause : {NoCause, PAGE_FAULT}, mip : SUBSET Irqs]

CosimTypeOK ==
    /\ dut \in [DutHarts -> HartState] /\ emu \in [DutHarts -> HartState]
    /\ prior \in [DutHarts -> {0, 1}]
    /\ pending \in [irq : Irqs \union {NoCause}, exc : {NoCause, PAGE_FAULT}]
    /\ announced \subseteq DutHarts
    /\ maxinsns \in 0..MaxInsns
    /\ verdict \in {"ok", "mismatch", "done"}

----------------------------------------------------------------------------
(* The instruction set, shared by both sides.                              *)

Wrote(kind) == kind \in {"alu", "lr", "sc", "load", "counter", "cause"}

\* One instruction that does not trap; value is what a device or a counter
\* returns, and fails makes a store conditional fail.
Exec(s, value, fails) ==
    LET kind   == Program[s.pc]
        stored == kind = "sc" /\ s.resv /\ ~fails
    IN  [s EXCEPT
           !.pc   = CASE kind = "jump" -> 0
                      [] kind = "sret" -> s.sepc + 1
                      [] kind = "mret" -> s.mepc
                      [] OTHER -> IF @ + 1 \in Pcs THEN @ + 1 ELSE 0,
           !.priv = CASE kind = "sret" -> "U" [] kind = "mret" -> s.mpp [] OTHER -> @,
           !.x    = CASE kind = "alu" -> 1 - @
                      [] kind = "lr" -> s.m
                      [] kind = "sc" -> IF stored THEN 0 ELSE 1
                      [] kind = "load" -> IF @ = 1 THEN value ELSE s.m
                      [] kind = "counter" -> value
                      [] kind = "cause" -> (s.mcause \div 4) % 2
                      [] OTHER -> @,
           !.m    = IF stored THEN 1 - @ ELSE @,
           !.resv = CASE kind = "lr" -> TRUE [] kind = "sc" -> FALSE [] OTHER -> @,
           !.mip  = IF kind = "ack" THEN @ \ {s.mcause} ELSE @]

EnterInterrupt(s, irq) ==
    [s EXCEPT !.mepc = s.pc, !.mpp = s.priv, !.priv = "M", !.mcause = irq, !.pc = MTVEC]

EnterException(s) == [s EXCEPT !.sepc = s.pc, !.scause = PAGE_FAULT, !.priv = "S", !.pc = STVEC]

----------------------------------------------------------------------------
(* The emulator.                                                           *)

\* get_irq_num.
HighestIrq(mip) == IF 11 \in mip THEN 11 ELSE IF 3 \in mip THEN 3 ELSE 7

\* riscv_cpu_interp64(s, 1) under co-simulation: interrupts are looked at only
\* while the DUT has announced one.  n is the number of instructions executed.
Interp(s, irq) ==
    IF irq /= NoCause /\ s.mip /= {} /\ s.priv /= "M"
    THEN [s |-> EnterInterrupt(s, HighestIrq(s.mip)), n |-> 0]
    ELSE IF Program[s.pc] = "fault" THEN [s |-> EnterException(s), n |-> 0]
    ELSE [s |-> Exec(s, 0, FALSE), n |-> 1]

\* Mutant: an exception is not entered before a racing interrupt.
MutRaced(s, p) == s

\* When both traps are pending the emulator first advances into the exception.
Raced(s, p) == IF p.irq /= NoCause /\ p.exc /= NoCause THEN Interp(s, p.irq).s ELSE s

Cause(s) == IF s.priv = "S" THEN s.scause ELSE s.mcause

DutFailsSc(s, c) == s.pc = c.pc /\ Program[s.pc] = "sc" /\ c.wdata /= 0

\* Mutant: the store conditional the DUT failed still writes memory.
MutAdoptSc(s, c) == [Exec(s, 0, FALSE) EXCEPT !.x = c.wdata]

\* The emulator takes over the DUT's failure code and skips the instruction.
AdoptSc(s, c) == [s EXCEPT !.x = c.wdata, !.pc = @ + 1]

\* One turn of the for loop of dromajo_cosim_step, from f; pc is the emu_pc of
\* the turn, and bad that an announced exception has another cause.
Turn(f, c) ==
    LET p       == f.pending
        entered == Raced(f.s, p)
        raised  == IF p.irq = NoCause THEN entered ELSE [entered EXCEPT !.mip = @ \union {p.irq}]
        r       == Interp(raised, p.irq)
        End(s, bad) == [s |-> s, pc |-> f.s.pc, pending |-> p, bad |-> bad, done |-> TRUE]
    IN  IF f.done THEN f
        ELSE IF DutFailsSc(f.s, c) THEN End(AdoptSc(f.s, c), FALSE)
        ELSE IF p.irq /= NoCause /\ p.exc /= NoCause /\ Cause(entered) /= p.exc THEN End(entered, TRUE)
        ELSE IF r.n /= 0 THEN End(r.s, FALSE)
        ELSE [s |-> r.s, pc |-> f.s.pc, pending |-> NoTrap, bad |-> FALSE, done |-> FALSE]

\* The loop runs until an instruction executes.  A turn that executes none has
\* entered a handler, whose first instruction does not fault.
Follow(s, p, c) ==
    Turn(Turn([s |-> s, pc |-> s.pc, pending |-> p, bad |-> FALSE, done |-> FALSE], c), c)

\* handle_dut_overrides: counters, and loads whose address, taken from the
\* register value before the instruction, is no RAM.
Overrides(kind, s, old) == kind = "counter" \/ (kind = "load" /\ old = 1)

\* dromajo_cosim_step for the commit c = [pc, wdata] of hart h.
dromajo_cosim_step(h, c) ==
    IF maxinsns = 0
    THEN verdict' = "done" /\ UNCHANGED <<emu, prior, pending, maxinsns>>
    ELSE LET f    == Follow(emu[h], pending, c)
             kind == Program[f.pc]
             s    == IF ~f.bad /\ Overrides(kind, f.s, prior[h]) THEN [f.s EXCEPT !.x = c.wdata] ELSE f.s
             same == ~f.bad /\ f.pc = c.pc /\ (Wrote(kind) => s.x = c.wdata)
         IN  /\ maxinsns' = maxinsns - 1
             /\ emu' = [emu EXCEPT ![h] = s]
             /\ pending' = f.pending
             /\ prior' = IF f.bad THEN prior ELSE [prior EXCEPT ![h] = s.x]
             /\ verdict' = IF same THEN "ok" ELSE "mismatch"

\* dromajo_cosim_raise_trap.
dromajo_cosim_raise_trap(trap) ==
    pending' = IF trap \in Irqs THEN [pending EXCEPT !.irq = trap] ELSE [pending EXCEPT !.exc = trap]

----------------------------------------------------------------------------
(* The design under test.                                                  *)

\* The machine keeps one pending interrupt and one pending exception for all
\* harts, so a caller must commit on the hart it announced a trap for before
\* it goes on with another.
MayCall(h) == verdict = "ok" /\ announced \subseteq {h}

\* The handlers' own first instruction commits before another interrupt.
DutInterrupt(h, irq) ==
    /\ MayCall(h)
    /\ dut[h].priv /= "M" /\ pending.irq = NoCause
    /\ dut' = [dut EXCEPT ![h] = EnterInterrupt(@, irq)]
    /\ announced' = {h}
    /\ dromajo_cosim_raise_trap(irq)
    /\ UNCHANGED <<emu, prior, maxinsns, verdict, wrong>>

DutException(h) ==
    /\ MayCall(h)
    /\ Program[dut[h].pc] = "fault"
    /\ dut' = [dut EXCEPT ![h] = EnterException(@)]
    /\ announced' = {h}
    /\ dromajo_cosim_raise_trap(PAGE_FAULT)
    /\ UNCHANGED <<emu, prior, maxinsns, verdict, wrong>>

\* The DUT commits an instruction; a wrong one leaves a wrong value in x.
DutCommit(h, value, fails, bug) ==
    LET right == Exec(dut[h], value, fails)
        after == IF bug THEN [right EXCEPT !.x = 1 - @] ELSE right
    IN  /\ MayCall(h)
        /\ Program[dut[h].pc] /= "fault"
        /\ bug => Program[dut[h].pc] \in {"alu", "lr", "cause"}
        /\ dut' = [dut EXCEPT ![h] = after]
        /\ announced' = announced \ {h}
        /\ wrong' = (wrong \/ bug)
        /\ dromajo_cosim_step(h, [pc |-> dut[h].pc, wdata |-> after.x])

CosimNext ==
    \E h \in DutHarts :
      \/ \E irq \in Irqs : DutInterrupt(h, irq)
      \/ DutException(h)
      \/ \E value \in {0, 1}, fails, bug \in BOOLEAN : DutCommit(h, value, fails, bug)

CosimSpec == CosimInit /\ [][CosimNext]_cosimvars

----------------------------------------------------------------------------
Visible(s) == [pc |-> s.pc, priv |-> s.priv, x |-> s.x, m |-> s.m, mepc |-> s.mepc, mcause |-> s.mcause,
               sepc |-> s.sepc, scause |-> s.scause]

\* As long as dromajo_cosim_step reports agreement the emulator is in the DUT's
\* state: it has taken the same traps in the same order, also when an interrupt
\* raced an exception, has adopted device values, counters and failed store
\* conditionals, and no trap stays pending that was not announced.
LockStep ==
    verdict = "ok" =>
      /\ \A h \in DutHarts \ announced : Visible(emu[h]) = Visible(dut[h])
      /\ announced = {} => pending = NoTrap

\* A DUT that differs only where the architecture allows it is never reported.
NoFalseMismatch == verdict = "mismatch" => wrong

\* While co-simulation reports agreement, emulator and DUT are in one state,
\* and a DUT that differs only where it may is never reported.
CosimAgrees == LockStep /\ NoFalseMismatch
=============================================================================
