------------------------------ MODULE CosimProofs ------------------------------
(***************************************************************************)
(* Co-simulation accepts exactly the commits of a correct device under     *)
(* test (DUT), for any number of harts and any program that satisfies      *)
(* CosimAssumption.  CosimInv says that a hart of the emulator is where    *)
(* the hart of the DUT was, short of the traps announced for it; a call of *)
(* dromajo_cosim_step enters those traps and executes one instruction.     *)
(***************************************************************************)
EXTENDS Cosim, TLAPS

\* The values of a register, and the choices of a step.
Bit == {0, 1}

Flag == BOOLEAN

\* A state a hart can be in: it is in machine mode exactly in the machine handler,
\* which only an interrupt enters, so the handlers return to code before it.
StateOk(s) ==
    /\ s \in HartState
    /\ (s.priv = "M") <=> (s.pc >= MTVEC)
    /\ s.mepc < MTVEC /\ s.sepc + 1 < MTVEC

\* The emulator's interrupt pending bits: at most the one that its machine handler
\* was entered for, acknowledged when the handler returns.
MipOk(s) ==
    /\ s.priv # "M" => s.mip = {}
    /\ s.mip \subseteq {s.mcause}
    /\ Program[s.pc] = "mret" => s.mip = {}

\* What the program has at and around the handlers.
LEMMA ProgramFacts ==
    /\ Pcs \subseteq Nat /\ 0 \in Pcs /\ MTVEC \in Pcs /\ STVEC \in Pcs /\ STVEC < MTVEC /\ 1 < MTVEC
    /\ \A k \in Pcs : k + 1 < MTVEC => k + 1 \in Pcs
    /\ \A k \in Pcs : Program[k] # "mret" => k + 1 \in Pcs
    /\ \A k \in Pcs : Program[k] = "fault" => k + 1 < MTVEC
    /\ \A k \in Pcs : Program[k] = "mret" => k > MTVEC /\ Program[k - 1] = "ack"
    /\ \A k \in Pcs : k >= MTVEC => Program[k] \notin {"jump", "sret", "fault"}
    /\ Program[MTVEC - 1] \in {"jump", "sret"}
    /\ Program[STVEC] # "fault"
    /\ Irqs \subseteq {3, 7, 11}
<1>1. PICK last \in Nat : Pcs = 0..last /\ Program[last] = "mret"
  BY CosimAssumption
<1>2. \A k \in Pcs : Program[k] # "mret" => k + 1 \in Pcs
  BY <1>1
<1>3. \A k \in Pcs : k + 1 < MTVEC => k + 1 \in Pcs
  BY <1>1, CosimAssumption
<1>4. \A k \in Pcs : Program[k] = "fault" => k + 1 < MTVEC
  <2> SUFFICES ASSUME NEW k \in Pcs, Program[k] = "fault" PROVE k + 1 < MTVEC
    OBVIOUS
  <2>1. k < MTVEC /\ k # MTVEC - 1
    BY <1>1, CosimAssumption
  <2> QED
    BY <1>1, <2>1, CosimAssumption
<1> QED
  BY <1>1, <1>2, <1>3, <1>4, CosimAssumption

\* Interrupt numbers are no exception cause and not the mark of no cause.
LEMMA IrqFacts ==
    /\ NoCause \notin Irqs /\ PAGE_FAULT \notin Irqs /\ PAGE_FAULT # NoCause
    /\ \A irq \in Irqs \cup {NoCause} : irq \in Int
    /\ \A irq \in Irqs : irq \in {3, 7, 11}
  BY CosimAssumption DEF NoCause, PAGE_FAULT

\* The numbers of a state, without the program.
LEMMA Numbers ==
    ASSUME NEW s, StateOk(s)
    PROVE  /\ s \in HartState /\ s.pc \in Pcs /\ s.mepc \in Pcs /\ s.sepc \in Pcs
           /\ s.pc \in Nat /\ s.mepc \in Nat /\ s.sepc \in Nat /\ MTVEC \in Nat /\ STVEC \in Nat
           /\ s.mepc < MTVEC /\ s.sepc + 1 < MTVEC /\ (s.priv = "M" <=> s.pc >= MTVEC)
           /\ s.priv \in {"U", "S", "M"} /\ s.mpp \in {"U", "S"} /\ s.mip \in SUBSET Irqs
           /\ s.mcause \in Irqs \cup {NoCause} /\ s.mcause \in Int
<1>1. Pcs \subseteq Nat /\ MTVEC \in Pcs /\ STVEC \in Pcs
  BY CosimAssumption
<1> QED
  BY <1>1, IrqFacts, Zenon DEF StateOk, HartState

\* The state after an instruction, register by register.
ExecFields(r, s, value, fails) ==
    LET kind == Program[s.pc]
        stored == kind = "sc" /\ s.resv /\ ~fails
    IN  /\ r.pc = (IF kind = "jump" THEN 0 ELSE IF kind = "sret" THEN s.sepc + 1
                   ELSE IF kind = "mret" THEN s.mepc ELSE s.pc + 1)
        /\ r.priv = (IF kind = "sret" THEN "U" ELSE IF kind = "mret" THEN s.mpp ELSE s.priv)
        /\ kind = "alu" => r.x = 1 - s.x
        /\ kind = "lr" => r.x = s.m
        /\ kind = "sc" => r.x = IF stored THEN 0 ELSE 1
        /\ kind = "load" => r.x = IF s.x = 1 THEN value ELSE s.m
        /\ kind = "counter" => r.x = value
        /\ kind = "cause" => r.x = (s.mcause \div 4) % 2
        /\ ~Wrote(kind) => r.x = s.x
        /\ r.m = (IF stored THEN 1 - s.m ELSE s.m)
        /\ r.resv = (IF kind = "lr" THEN TRUE ELSE IF kind = "sc" THEN FALSE ELSE s.resv)
        /\ r.mip = (IF kind = "ack" THEN s.mip \ {s.mcause} ELSE s.mip)
        /\ r.mepc = s.mepc /\ r.mpp = s.mpp /\ r.mcause = s.mcause
        /\ r.sepc = s.sepc /\ r.scause = s.scause

\* An instruction that does not fault leaves every register as ExecFields says.
LEMMA ExecIs ==
    ASSUME NEW s, StateOk(s), Program[s.pc] # "fault", NEW value \in Bit, NEW fails \in Flag,
           NEW r, r = Exec(s, value, fails)
    PROVE  r \in HartState /\ ExecFields(r, s, value, fails)
<1> DEFINE kind == Program[s.pc]
           stored == kind = "sc" /\ s.resv /\ ~fails
           a == CASE kind = "jump" -> 0
                  [] kind = "sret" -> s.sepc + 1
                  [] kind = "mret" -> s.mepc
                  [] OTHER -> IF s.pc + 1 \in Pcs THEN s.pc + 1 ELSE 0
           b == CASE kind = "sret" -> "U" [] kind = "mret" -> s.mpp [] OTHER -> s.priv
           c == CASE kind = "alu" -> 1 - s.x
                  [] kind = "lr" -> s.m
                  [] kind = "sc" -> IF stored THEN 0 ELSE 1
                  [] kind = "load" -> IF s.x = 1 THEN value ELSE s.m
                  [] kind = "counter" -> value
                  [] kind = "cause" -> (s.mcause \div 4) % 2
                  [] OTHER -> s.x
           d == IF stored THEN 1 - s.m ELSE s.m
           e == CASE kind = "lr" -> TRUE [] kind = "sc" -> FALSE [] OTHER -> s.resv
           f == IF kind = "ack" THEN s.mip \ {s.mcause} ELSE s.mip
<1>1. r = [s EXCEPT !.pc = a, !.priv = b, !.x = c, !.m = d, !.resv = e, !.mip = f]
  BY DEF Exec
<1>2. /\ s \in HartState /\ s.pc \in Pcs /\ s.priv \in {"U", "S", "M"} /\ s.x \in {0, 1} /\ s.m \in {0, 1}
      /\ s.resv \in BOOLEAN /\ s.mepc \in Pcs /\ s.mpp \in {"U", "S"} /\ s.mcause \in Irqs \cup {NoCause}
      /\ s.sepc \in Pcs /\ s.mip \in SUBSET Irqs /\ s.sepc + 1 < MTVEC
  BY DEF StateOk, HartState
<1>3. s.mcause \in Int
  BY Numbers
<1>4. a = (IF kind = "jump" THEN 0 ELSE IF kind = "sret" THEN s.sepc + 1
           ELSE IF kind = "mret" THEN s.mepc ELSE s.pc + 1) /\ a \in Pcs
  BY <1>2, ProgramFacts
<1>5. b = (IF kind = "sret" THEN "U" ELSE IF kind = "mret" THEN s.mpp ELSE s.priv) /\ b \in {"U", "S", "M"}
  BY <1>2
<1>6. /\ kind = "alu" => c = 1 - s.x
      /\ kind = "lr" => c = s.m
      /\ kind = "sc" => c = IF stored THEN 0 ELSE 1
      /\ kind = "load" => c = IF s.x = 1 THEN value ELSE s.m
      /\ kind = "counter" => c = value
      /\ kind = "cause" => c = (s.mcause \div 4) % 2
      /\ ~Wrote(kind) => c = s.x
  BY DEF Wrote
<1>7. c \in {0, 1}
  BY <1>2, <1>3 DEF Bit
<1>8. d \in {0, 1}
  BY <1>2
<1>9. e = (IF kind = "lr" THEN TRUE ELSE IF kind = "sc" THEN FALSE ELSE s.resv) /\ e \in BOOLEAN
  BY <1>2, Zenon
<1>10. f \in SUBSET Irqs
  BY <1>2
<1> HIDE DEF kind, stored, a, b, c, d, e, f
<1>11. /\ r \in HartState
       /\ r.pc = a /\ r.priv = b /\ r.x = c /\ r.m = d /\ r.resv = e /\ r.mip = f
       /\ r.mepc = s.mepc /\ r.mpp = s.mpp /\ r.mcause = s.mcause
       /\ r.sepc = s.sepc /\ r.scause = s.scause
  <2>1. /\ r.pc = a /\ r.priv = b /\ r.x = c /\ r.m = d /\ r.resv = e /\ r.mip = f
        /\ r.mepc = s.mepc /\ r.mpp = s.mpp /\ r.mcause = s.mcause
        /\ r.sepc = s.sepc /\ r.scause = s.scause
    BY <1>1, <1>2, Zenon DEF HartState
  <2>2. r \in HartState
    BY <1>1, <1>2, <1>4, <1>5, <1>7, <1>8, <1>9, <1>10, Zenon DEF HartState
  <2> QED
    BY <2>1, <2>2, Zenon
<1> QED
  BY <1>4, <1>5, <1>6, <1>9, <1>11 DEF ExecFields, kind, stored, d, f

\* An instruction keeps the hart in the states StateOk and MipOk describe.
LEMMA ExecOk ==
    ASSUME NEW s, StateOk(s), Program[s.pc] # "fault", NEW value \in Bit, NEW fails \in Flag,
           NEW r, r = Exec(s, value, fails)
    PROVE  StateOk(r) /\ (MipOk(s) => MipOk(r))
<1> DEFINE kind == Program[s.pc]
<1>1. r \in HartState /\ ExecFields(r, s, value, fails)
  BY ExecIs
<1>2. /\ s.pc \in Nat /\ s.mepc \in Nat /\ s.sepc \in Nat /\ MTVEC \in Nat /\ s.pc \in Pcs
      /\ s.mepc < MTVEC /\ s.sepc + 1 < MTVEC /\ (s.priv = "M" <=> s.pc >= MTVEC)
      /\ s.priv \in {"U", "S", "M"} /\ s.mpp \in {"U", "S"}
  BY Numbers
<1>3. /\ r.pc = (IF kind = "jump" THEN 0 ELSE IF kind = "sret" THEN s.sepc + 1
                 ELSE IF kind = "mret" THEN s.mepc ELSE s.pc + 1)
      /\ r.priv = (IF kind = "sret" THEN "U" ELSE IF kind = "mret" THEN s.mpp ELSE s.priv)
      /\ r.mip = (IF kind = "ack" THEN s.mip \ {s.mcause} ELSE s.mip)
      /\ r.mepc = s.mepc /\ r.sepc = s.sepc /\ r.mcause = s.mcause
  BY <1>1, Zenon DEF ExecFields
<1>4. /\ kind \notin {"jump", "sret"} => s.pc # MTVEC - 1
      /\ s.pc >= MTVEC => kind \notin {"jump", "sret", "fault"}
      /\ 1 < MTVEC
  BY <1>2, ProgramFacts
<1>5. r.pc \in Pcs
  BY <1>1 DEF HartState
<1> HIDE DEF kind
<1>6. (r.priv = "M") <=> (r.pc >= MTVEC)
  BY <1>2, <1>3, <1>4
<1>7. ASSUME MipOk(s) PROVE MipOk(r)
  <2>1. (s.priv # "M" => s.mip = {}) /\ s.mip \subseteq {s.mcause} /\ (kind = "mret" => s.mip = {})
    BY <1>7, Zenon DEF MipOk, kind
  <2>2. r.mip \subseteq {r.mcause} /\ (s.mip = {} => r.mip = {}) /\ (kind = "ack" => r.mip = {})
    BY <1>3, <2>1
  <2>3. r.priv # "M" => s.priv # "M" \/ kind = "mret" \/ kind = "sret"
    BY <1>3, Zenon
  <2>4. kind = "sret" => s.priv # "M"
    BY <1>2, <1>4
  <2>5. ASSUME Program[r.pc] = "mret" PROVE kind = "ack"
    <3>1. r.pc > MTVEC /\ Program[r.pc - 1] = "ack"
      BY <1>5, <2>5, ProgramFacts, Zenon
    <3>2. r.pc = s.pc + 1 /\ r.pc - 1 = s.pc
      BY <1>2, <1>3, <1>4, <3>1
    <3> QED
      BY <3>1, <3>2 DEF kind
  <2> QED
    BY <2>1, <2>2, <2>3, <2>4, <2>5, Zenon DEF MipOk
<1> QED
  BY <1>1, <1>2, <1>3, <1>6, <1>7, Zenon DEF StateOk

\* The emulator is where the DUT is; what they need not share is a reservation
\* that the DUT has lost, and mip.
Same(e, d) ==
    /\ e.pc = d.pc /\ e.priv = d.priv /\ e.x = d.x /\ e.m = d.m /\ e.mepc = d.mepc /\ e.mcause = d.mcause
    /\ e.sepc = d.sepc /\ e.scause = d.scause /\ e.mpp = d.mpp
    /\ d.resv => e.resv

\* What CosimAgrees compares is part of what Same compares.
LEMMA SameVisible ==
    ASSUME NEW e, NEW d, Same(e, d)
    PROVE  Visible(e) = Visible(d)
  BY Zenon DEF Same, Visible

\* The emulator executes the instruction that the DUT has executed.
LEMMA ExecSame ==
    ASSUME NEW e, NEW d, StateOk(e), StateOk(d), Same(e, d), Program[d.pc] # "fault",
           NEW value \in Bit, NEW fails \in Flag,
           NEW w, w = Exec(d, value, fails), ~(Program[d.pc] = "sc" /\ w.x # 0),
           NEW r, r = Exec(e, 0, FALSE)
    PROVE  /\ Same([r EXCEPT !.x = w.x], w)
           /\ ~Overrides(Program[d.pc], e, d.x) => Same(r, w)
<1>1. r \in HartState /\ ExecFields(r, e, 0, FALSE) /\ w \in HartState /\ ExecFields(w, d, value, fails)
  <2>1. Program[e.pc] # "fault" /\ 0 \in Bit /\ FALSE \in Flag
    BY DEF Same, Bit, Flag
  <2> QED
    BY <2>1, ExecIs, Zenon
<1> DEFINE kind == Program[d.pc]
<1>2. Program[e.pc] = kind
  BY DEF Same
<1>3. r.pc = w.pc /\ r.priv = w.priv /\ r.mepc = w.mepc /\ r.mcause = w.mcause
      /\ r.sepc = w.sepc /\ r.scause = w.scause /\ r.mpp = w.mpp
  <2>1. /\ r.pc = (IF kind = "jump" THEN 0 ELSE IF kind = "sret" THEN e.sepc + 1
                   ELSE IF kind = "mret" THEN e.mepc ELSE e.pc + 1)
        /\ r.priv = (IF kind = "sret" THEN "U" ELSE IF kind = "mret" THEN e.mpp ELSE e.priv)
        /\ r.mepc = e.mepc /\ r.mpp = e.mpp /\ r.mcause = e.mcause /\ r.sepc = e.sepc /\ r.scause = e.scause
    BY <1>1, <1>2, Zenon DEF ExecFields
  <2>2. /\ w.pc = (IF kind = "jump" THEN 0 ELSE IF kind = "sret" THEN d.sepc + 1
                   ELSE IF kind = "mret" THEN d.mepc ELSE d.pc + 1)
        /\ w.priv = (IF kind = "sret" THEN "U" ELSE IF kind = "mret" THEN d.mpp ELSE d.priv)
        /\ w.mepc = d.mepc /\ w.mpp = d.mpp /\ w.mcause = d.mcause /\ w.sepc = d.sepc /\ w.scause = d.scause
    BY <1>1 DEF ExecFields
  <2>3. e.pc = d.pc /\ e.priv = d.priv /\ e.mepc = d.mepc /\ e.mcause = d.mcause
        /\ e.sepc = d.sepc /\ e.scause = d.scause /\ e.mpp = d.mpp
    BY Zenon DEF Same
  <2> HIDE DEF kind
  <2> QED
    BY <2>1, <2>2, <2>3, Zenon
<1>4. kind = "sc" => d.resv /\ ~fails /\ e.resv
  <2>1. kind = "sc" => w.x = IF kind = "sc" /\ d.resv /\ ~fails THEN 0 ELSE 1
    BY <1>1, Zenon DEF ExecFields
  <2> QED
    BY <2>1 DEF Same
<1>5. r.m = w.m /\ (w.resv => r.resv)
  <2>1. /\ r.m = (IF kind = "sc" /\ e.resv /\ ~FALSE THEN 1 - e.m ELSE e.m)
        /\ r.resv = (IF kind = "lr" THEN TRUE ELSE IF kind = "sc" THEN FALSE ELSE e.resv)
    BY <1>1, <1>2, Zenon DEF ExecFields
  <2>2. /\ w.m = (IF kind = "sc" /\ d.resv /\ ~fails THEN 1 - d.m ELSE d.m)
        /\ w.resv = (IF kind = "lr" THEN TRUE ELSE IF kind = "sc" THEN FALSE ELSE d.resv)
    BY <1>1, Zenon DEF ExecFields
  <2>3. e.m = d.m /\ (d.resv => e.resv)
    BY Zenon DEF Same
  <2> HIDE DEF kind
  <2>4. w.resv => r.resv
    BY <2>1, <2>2, <2>3, Zenon
  <2>5. r.m = w.m
    BY <1>4, <2>1, <2>2, <2>3, Zenon
  <2> QED
    BY <2>4, <2>5, Zenon
<1>6. ~Overrides(kind, e, d.x) => r.x = w.x
  <2>1. /\ kind = "alu" => r.x = 1 - e.x
        /\ kind = "lr" => r.x = e.m
        /\ kind = "sc" => r.x = IF kind = "sc" /\ e.resv /\ ~FALSE THEN 0 ELSE 1
        /\ kind = "load" => r.x = IF e.x = 1 THEN 0 ELSE e.m
        /\ kind = "cause" => r.x = (e.mcause \div 4) % 2
        /\ ~Wrote(kind) => r.x = e.x
    BY <1>1, <1>2, Zenon DEF ExecFields
  <2>2. /\ kind = "alu" => w.x = 1 - d.x
        /\ kind = "lr" => w.x = d.m
        /\ kind = "sc" => w.x = IF kind = "sc" /\ d.resv /\ ~fails THEN 0 ELSE 1
        /\ kind = "load" => w.x = IF d.x = 1 THEN value ELSE d.m
        /\ kind = "cause" => w.x = (d.mcause \div 4) % 2
        /\ ~Wrote(kind) => w.x = d.x
    BY <1>1, Zenon DEF ExecFields
  <2>3. e.x = d.x /\ e.m = d.m /\ e.mcause = d.mcause
    BY Zenon DEF Same
  <2> HIDE DEF kind
  <2>4. kind = "sc" => r.x = w.x
    BY <1>4, <2>1, <2>2, Zenon
  <2>5. kind = "load" /\ d.x # 1 => r.x = w.x
    BY <2>1, <2>2, <2>3, Zenon
  <2>6. kind \in {"alu", "lr", "cause"} \/ ~Wrote(kind) => r.x = w.x
    BY <2>1, <2>2, <2>3, Zenon
  <2> QED
    BY <2>4, <2>5, <2>6, Zenon DEF Overrides, Wrote
<1>7. [r EXCEPT !.x = w.x].x = w.x
  BY <1>1 DEF HartState
<1>8. Same([r EXCEPT !.x = w.x], w)
  BY <1>1, <1>3, <1>5, Zenon DEF Same, HartState
<1> QED
  BY <1>3, <1>5, <1>6, <1>8, Zenon DEF Same

\* What the emulator does to a store conditional the DUT failed, register by register.
LEMMA AdoptIs ==
    ASSUME NEW e \in HartState, NEW c, NEW x \in {0, 1}, c.wdata = x, e.pc + 1 \in Pcs,
           NEW r, r = AdoptSc(e, c)
    PROVE  /\ r \in HartState
           /\ r.pc = e.pc + 1 /\ r.priv = e.priv /\ r.x = x /\ r.m = e.m /\ r.resv = e.resv /\ r.mip = e.mip
           /\ r.mepc = e.mepc /\ r.mpp = e.mpp /\ r.mcause = e.mcause
           /\ r.sepc = e.sepc /\ r.scause = e.scause
  BY Zenon DEF AdoptSc, HartState

\* The emulator takes over a store conditional that failed in the DUT.
LEMMA AdoptSame ==
    ASSUME NEW e, NEW d, StateOk(e), StateOk(d), Same(e, d), Program[d.pc] = "sc",
           NEW value \in Bit, NEW fails \in Flag,
           NEW w, w = Exec(d, value, fails), w.x # 0, NEW c, c.wdata = w.x,
           NEW r, r = AdoptSc(e, c)
    PROVE  Same(r, w) /\ StateOk(r) /\ (MipOk(e) => MipOk(r))
<1>1. w \in HartState /\ ExecFields(w, d, value, fails)
  BY ExecIs
<1>2. w.pc = d.pc + 1 /\ w.priv = d.priv /\ w.m = d.m /\ ~w.resv /\ w.mepc = d.mepc /\ w.mcause = d.mcause
      /\ w.sepc = d.sepc /\ w.scause = d.scause /\ w.mpp = d.mpp /\ w.x \in {0, 1} /\ w.pc \in Pcs
  BY <1>1 DEF ExecFields, HartState
<1>3. e \in HartState
  BY DEF StateOk
<1>4. PICK x \in {0, 1} : x = w.x
  BY <1>2
<1>5. e.pc + 1 \in Pcs
  BY <1>2 DEF Same
<1>6. /\ r \in HartState
      /\ r.pc = e.pc + 1 /\ r.priv = e.priv /\ r.x = w.x /\ r.m = e.m /\ r.resv = e.resv /\ r.mip = e.mip
      /\ r.mepc = e.mepc /\ r.mpp = e.mpp /\ r.mcause = e.mcause
      /\ r.sepc = e.sepc /\ r.scause = e.scause
  BY <1>3, <1>4, <1>5, AdoptIs, SMT
<1>7. Same(r, w)
  BY <1>2, <1>6, Zenon DEF Same
<1>8. StateOk(w)
  BY ExecOk
<1>9. StateOk(r)
  BY <1>6, <1>7, <1>8, Zenon DEF StateOk, Same
<1>10. ASSUME MipOk(e) PROVE MipOk(r)
  <2>1. Program[r.pc] # "mret"
    <3>1. Program[e.pc] = "sc" /\ e.pc \in Nat /\ r.pc \in Pcs /\ r.pc = e.pc + 1 /\ r.pc - 1 = e.pc
      BY <1>5, <1>6, Numbers DEF Same
    <3> HIDE DEF HartState
    <3>2. \A k \in Pcs : Program[k] = "mret" => Program[k - 1] = "ack"
      BY ProgramFacts, Zenon
    <3> QED
      BY <3>1, <3>2
  <2> QED
    BY <1>6, <1>10, <2>1, Zenon DEF MipOk
<1> QED
  BY <1>7, <1>9, <1>10

\* Entering the supervisor handler of a page fault, register by register.
LEMMA ExceptionIs ==
    ASSUME NEW s, StateOk(s), Program[s.pc] = "fault", NEW r, r = EnterException(s)
    PROVE  /\ StateOk(r) /\ Program[r.pc] # "fault"
           /\ r.sepc = s.pc /\ r.scause = PAGE_FAULT /\ r.priv = "S" /\ r.pc = STVEC
           /\ r.x = s.x /\ r.m = s.m /\ r.resv = s.resv /\ r.mepc = s.mepc /\ r.mpp = s.mpp
           /\ r.mcause = s.mcause /\ r.mip = s.mip
<1>1. s \in HartState /\ s.pc \in Pcs /\ s.pc + 1 < MTVEC /\ s.mepc < MTVEC
  BY ProgramFacts, Zenon DEF StateOk, HartState
<1>2. /\ r.sepc = s.pc /\ r.scause = PAGE_FAULT /\ r.priv = "S" /\ r.pc = STVEC
      /\ r.x = s.x /\ r.m = s.m /\ r.resv = s.resv /\ r.mepc = s.mepc /\ r.mpp = s.mpp
      /\ r.mcause = s.mcause /\ r.mip = s.mip
  BY <1>1 DEF EnterException, HartState
<1>3. r \in HartState
  BY <1>1, ProgramFacts, Zenon DEF EnterException, HartState
<1> QED
  BY <1>1, <1>2, <1>3, ProgramFacts DEF StateOk

\* Entering the machine handler of an interrupt, register by register.
LEMMA InterruptIs ==
    ASSUME NEW s, StateOk(s), s.priv # "M", NEW irq \in Irqs, NEW r, r = EnterInterrupt(s, irq)
    PROVE  /\ StateOk(r) /\ Program[r.pc] # "fault"
           /\ r.mepc = s.pc /\ r.mpp = s.priv /\ r.priv = "M" /\ r.mcause = irq /\ r.pc = MTVEC
           /\ r.x = s.x /\ r.m = s.m /\ r.resv = s.resv /\ r.sepc = s.sepc /\ r.scause = s.scause
           /\ r.mip = s.mip
<1>1. s \in HartState /\ s.pc \in Pcs /\ s.pc < MTVEC /\ s.sepc + 1 < MTVEC /\ s.priv \in {"U", "S"}
  BY Numbers
<1>2. /\ r.mepc = s.pc /\ r.mpp = s.priv /\ r.priv = "M" /\ r.mcause = irq /\ r.pc = MTVEC
      /\ r.x = s.x /\ r.m = s.m /\ r.resv = s.resv /\ r.sepc = s.sepc /\ r.scause = s.scause
      /\ r.mip = s.mip
  BY <1>1 DEF EnterInterrupt, HartState
<1>3. r \in HartState
  BY <1>1, ProgramFacts, Zenon DEF EnterInterrupt, HartState
<1> QED
  BY <1>1, <1>2, <1>3, ProgramFacts DEF StateOk

\* An emulator in the DUT's state takes the trap the DUT takes.
LEMMA TrapsSame ==
    ASSUME NEW e, NEW d, StateOk(e), StateOk(d), Same(e, d)
    PROVE  /\ Program[d.pc] = "fault" => Same(EnterException(e), EnterException(d))
           /\ \A irq \in Irqs : d.priv # "M" => Same(EnterInterrupt(e, irq), EnterInterrupt(d, irq))
<1>1. ASSUME Program[d.pc] = "fault" PROVE Same(EnterException(e), EnterException(d))
  <2>1. Program[e.pc] = "fault"
    BY <1>1 DEF Same
  <2> DEFINE r == EnterException(e)
             w == EnterException(d)
  <2>2. /\ r.sepc = e.pc /\ r.scause = PAGE_FAULT /\ r.priv = "S" /\ r.pc = STVEC
        /\ r.x = e.x /\ r.m = e.m /\ r.resv = e.resv /\ r.mepc = e.mepc /\ r.mpp = e.mpp /\ r.mcause = e.mcause
    BY <2>1, ExceptionIs
  <2>3. /\ w.sepc = d.pc /\ w.scause = PAGE_FAULT /\ w.priv = "S" /\ w.pc = STVEC
        /\ w.x = d.x /\ w.m = d.m /\ w.resv = d.resv /\ w.mepc = d.mepc /\ w.mpp = d.mpp /\ w.mcause = d.mcause
    BY <1>1, ExceptionIs
  <2> HIDE DEF r, w
  <2>4. Same(r, w)
    BY <2>2, <2>3, Zenon DEF Same
  <2> QED
    BY <2>4, Zenon DEF r, w
<1>2. ASSUME NEW irq \in Irqs, d.priv # "M" PROVE Same(EnterInterrupt(e, irq), EnterInterrupt(d, irq))
  <2>1. e.priv # "M"
    BY <1>2 DEF Same
  <2> DEFINE r == EnterInterrupt(e, irq)
             w == EnterInterrupt(d, irq)
  <2>2. /\ r.mepc = e.pc /\ r.mpp = e.priv /\ r.priv = "M" /\ r.mcause = irq /\ r.pc = MTVEC
        /\ r.x = e.x /\ r.m = e.m /\ r.resv = e.resv /\ r.sepc = e.sepc /\ r.scause = e.scause
    BY <1>2, <2>1, InterruptIs
  <2>3. /\ w.mepc = d.pc /\ w.mpp = d.priv /\ w.priv = "M" /\ w.mcause = irq /\ w.pc = MTVEC
        /\ w.x = d.x /\ w.m = d.m /\ w.resv = d.resv /\ w.sepc = d.sepc /\ w.scause = d.scause
    BY <1>2, InterruptIs
  <2> HIDE DEF r, w
  <2>4. Same(r, w)
    BY <2>2, <2>3, Zenon DEF Same
  <2> QED
    BY <2>4, Zenon DEF r, w
<1> QED
  BY <1>1, <1>2, Zenon

\* The traps p announced for a hart whose emulator is in state e.
Traps == [irq : Irqs \cup {NoCause}, exc : {NoCause, PAGE_FAULT}]

\* The DUT may announce p: a page fault of a faulting instruction, an interrupt
\* outside machine mode.
Announced(e, p) ==
    /\ p \in Traps
    /\ p.exc # NoCause => Program[e.pc] = "fault"
    /\ p.irq # NoCause => e.priv # "M"

\* Where the emulator in state e is once it has entered the traps p.
AfterException(e, p) == IF p.exc = NoCause THEN e ELSE EnterException(e)

Entered(e, p) == IF p.irq = NoCause THEN AfterException(e, p) ELSE EnterInterrupt(AfterException(e, p), p.irq)

\* irq is the only pending interrupt of v, and s with irq made pending.
Only(v, irq) == v.mip = {irq}

AddIrq(s, irq) == [s EXCEPT !.mip = @ \cup {irq}]

\* An emulator without a pending interrupt is given one, and takes it.
LEMMA Raised ==
    ASSUME NEW s, StateOk(s), s.priv # "M", NEW irq \in Irqs, NEW v, StateOk(v), Only(v, irq),
           v.pc = s.pc, v.priv = s.priv, v.x = s.x, v.m = s.m, v.resv = s.resv, v.mepc = s.mepc,
           v.mpp = s.mpp, v.mcause = s.mcause, v.sepc = s.sepc, v.scause = s.scause,
           NEW r, r = EnterInterrupt(v, irq)
    PROVE  /\ Interp(v, irq) = [s |-> r, n |-> 0]
           /\ StateOk(r) /\ MipOk(r) /\ Program[r.pc] # "fault" /\ Same(r, EnterInterrupt(s, irq))
<1>1. irq \in {3, 7, 11} /\ irq # NoCause
  BY IrqFacts
<1>2. HighestIrq(v.mip) = irq /\ v.mip # {} /\ v.mip \subseteq {irq}
  BY <1>1 DEF HighestIrq, Only
<1>3. Interp(v, irq) = [s |-> r, n |-> 0]
  BY <1>1, <1>2, Zenon DEF Interp
<1>4. v.priv # "M"
  BY Zenon
<1>5. /\ StateOk(r) /\ Program[r.pc] # "fault"
      /\ r.mepc = v.pc /\ r.mpp = v.priv /\ r.priv = "M" /\ r.mcause = irq /\ r.pc = MTVEC
      /\ r.x = v.x /\ r.m = v.m /\ r.resv = v.resv /\ r.sepc = v.sepc /\ r.scause = v.scause
      /\ r.mip = v.mip
  BY <1>4, InterruptIs
<1> DEFINE w == EnterInterrupt(s, irq)
<1>6. /\ w.mepc = s.pc /\ w.mpp = s.priv /\ w.priv = "M" /\ w.mcause = irq /\ w.pc = MTVEC
      /\ w.x = s.x /\ w.m = s.m /\ w.resv = s.resv /\ w.sepc = s.sepc /\ w.scause = s.scause
  BY InterruptIs
<1> HIDE DEF w
<1>7. Program[MTVEC] # "mret"
  BY ProgramFacts
<1>8. MipOk(r)
  BY <1>2, <1>5, <1>7, Zenon DEF MipOk
<1>9. Same(r, w)
  BY <1>5, <1>6, Zenon DEF Same
<1> QED
  BY <1>3, <1>5, <1>8, <1>9, Zenon DEF w

\* The same, for the state with the interrupt added to mip as the code adds it.
LEMMA Raise ==
    ASSUME NEW s, StateOk(s), s.priv # "M", s.mip = {}, NEW irq \in Irqs,
           NEW v, v = AddIrq(s, irq)
    PROVE  /\ Interp(v, irq) = [s |-> EnterInterrupt(v, irq), n |-> 0]
           /\ StateOk(EnterInterrupt(v, irq)) /\ MipOk(EnterInterrupt(v, irq))
           /\ Program[EnterInterrupt(v, irq).pc] # "fault"
           /\ Same(EnterInterrupt(v, irq), EnterInterrupt(s, irq))
<1>1. s \in HartState
  BY DEF StateOk
<1>2. v.mip = {irq} /\ v \in HartState
  BY <1>1 DEF HartState, AddIrq
<1>3. /\ v.pc = s.pc /\ v.priv = s.priv /\ v.x = s.x /\ v.m = s.m /\ v.resv = s.resv /\ v.mepc = s.mepc
      /\ v.mpp = s.mpp /\ v.mcause = s.mcause /\ v.sepc = s.sepc /\ v.scause = s.scause
  BY <1>1, Zenon DEF HartState, AddIrq
<1>4. StateOk(v)
  BY <1>2, <1>3, Zenon DEF StateOk
<1>5. v.priv # "M"
  BY <1>3
<1> DEFINE r == EnterInterrupt(v, irq)
<1>6. r = EnterInterrupt(v, irq)
  OBVIOUS
<1> HIDE DEF r
<1>7. /\ Interp(v, irq) = [s |-> r, n |-> 0]
      /\ StateOk(r) /\ MipOk(r) /\ Program[r.pc] # "fault" /\ Same(r, EnterInterrupt(s, irq))
  <2>1. Only(v, irq)
    BY <1>2 DEF Only
  <2> QED
    BY <1>3, <1>4, <1>6, <2>1, Raised
<1> QED
  BY <1>6, <1>7, Zenon

\* What a turn without a trap makes of the emulator's state, and how it ends.
Outcome(e, c) == IF Program[e.pc] = "sc" /\ c.wdata # 0 THEN AdoptSc(e, c) ELSE Exec(e, 0, FALSE)

Finished(e, c) == [s |-> Outcome(e, c), pc |-> e.pc, pending |-> NoTrap, bad |-> FALSE, done |-> TRUE]

\* A turn in which nothing is pending executes the instruction.
LEMMA PlainTurn ==
    ASSUME NEW e, Program[e.pc] # "fault", NEW c, c.pc = e.pc,
           NEW f, f.s = e, f.pending = NoTrap, f.done = FALSE
    PROVE  Turn(f, c) = Finished(e, c)
<1>1. NoTrap.irq = NoCause /\ NoTrap.exc = NoCause
  BY DEF NoTrap
<1>2. Raced(e, NoTrap) = e
  BY <1>1, Zenon DEF Raced
<1>3. Interp(e, NoCause) = [s |-> Exec(e, 0, FALSE), n |-> 1]
  BY Zenon DEF Interp
<1>4. DutFailsSc(e, c) <=> Program[e.pc] = "sc" /\ c.wdata # 0
  BY Zenon DEF DutFailsSc
<1>5. Interp(e, NoCause).n # 0 /\ Interp(e, NoCause).s = Exec(e, 0, FALSE)
  BY <1>3
<1>6. CASE DutFailsSc(e, c)
  <2>1. Outcome(e, c) = AdoptSc(e, c)
    BY <1>4, <1>6, Zenon DEF Outcome
  <2> QED
    BY <1>6, <2>1, Zenon DEF Turn, Finished
<1>7. CASE ~DutFailsSc(e, c)
  <2>1. Outcome(e, c) = Exec(e, 0, FALSE)
    BY <1>4, <1>7, Zenon DEF Outcome
  <2> QED
    BY <1>1, <1>2, <1>5, <1>7, <2>1, Zenon DEF Turn, Finished
<1> QED
  BY <1>6, <1>7, Zenon

\* The loop about to take a turn from state u, with the traps p pending.
Begun(u, x, p) == [s |-> u, pc |-> x, pending |-> p, bad |-> FALSE, done |-> FALSE]

\* A turn in which traps are pending enters them, and executes nothing.
LEMMA TrapTurn ==
    ASSUME NEW e, StateOk(e), MipOk(e), NEW p, Announced(e, p), p # NoTrap, NEW x, NEW c, ~DutFailsSc(e, c),
           NEW f, f = Begun(e, x, p)
    PROVE  \E u : /\ Turn(f, c) = Begun(u, e.pc, NoTrap)
                  /\ StateOk(u) /\ MipOk(u) /\ Program[u.pc] # "fault" /\ Same(u, Entered(e, p))
<1>1. f.s = e /\ f.pending = p /\ f.done = FALSE
  BY DEF Begun
<1>2. p.irq \in Irqs \cup {NoCause} /\ p.exc \in {NoCause, PAGE_FAULT} /\ (p.irq # NoCause \/ p.exc # NoCause)
  BY DEF Announced, Traps, NoTrap
<1>3. NoCause \notin Irqs
  BY ProgramFacts DEF NoCause
<1>4. e.priv # "M" => e.mip = {}
  BY Zenon DEF MipOk
<1>5. Program[e.pc] = "fault" => e.priv # "M"
  BY ProgramFacts, Zenon DEF StateOk, HartState
<1>6. CASE p.irq = NoCause
  <2> DEFINE u == EnterException(e)
  <2>1. p.exc # NoCause /\ Program[e.pc] = "fault"
    BY <1>2, <1>6, Zenon DEF Announced
  <2>2. Raced(e, p) = e
    BY <1>6, Zenon DEF Raced
  <2>3. Interp(e, p.irq) = [s |-> u, n |-> 0]
    BY <1>6, <2>1, Zenon DEF Interp
  <2>4. [s |-> u, n |-> 0].n = 0 /\ [s |-> u, n |-> 0].s = u
    OBVIOUS
  <2>5. Turn(f, c) = Begun(u, e.pc, NoTrap)
    BY <1>1, <1>6, <2>2, <2>3, <2>4, Zenon DEF Turn, Begun
  <2>6. StateOk(u) /\ Program[u.pc] # "fault" /\ u.mip = e.mip
    BY <2>1, ExceptionIs, Zenon
  <2>7. u.mip = {}
    BY <1>4, <1>5, <2>1, <2>6, Zenon
  <2>8. MipOk(u)
    BY <2>7, Zenon DEF MipOk
  <2>9. Entered(e, p) = u
    BY <1>6, <2>1, Zenon DEF Entered, AfterException
  <2> QED
    BY <2>5, <2>6, <2>8, <2>9, Zenon DEF Same
<1>7. CASE p.irq # NoCause
  <2> DEFINE y == AfterException(e, p)
             v == AddIrq(y, p.irq)
             u == EnterInterrupt(v, p.irq)
  <2>1. p.irq \in Irqs /\ e.priv # "M" /\ e.mip = {}
    BY <1>2, <1>4, <1>7, Zenon DEF Announced
  <2>2. StateOk(y) /\ y.priv # "M" /\ y.mip = {} /\ (p.exc # NoCause => Cause(y) = p.exc) /\ Raced(e, p) = y
    <3>1. CASE p.exc = NoCause
      BY <2>1, <3>1, Zenon DEF AfterException, Raced
    <3>2. CASE p.exc # NoCause
      <4>1. Program[e.pc] = "fault" /\ p.exc = PAGE_FAULT
        BY <1>2, <3>2, Zenon DEF Announced
      <4>2. y = EnterException(e)
        BY <3>2, Zenon DEF AfterException
      <4>3. Interp(e, p.irq) = [s |-> y, n |-> 0]
        BY <2>1, <4>1, <4>2, Zenon DEF Interp
      <4>4. Raced(e, p) = y
        BY <1>7, <3>2, <4>3 DEF Raced
      <4>5. StateOk(y) /\ y.scause = PAGE_FAULT /\ y.priv = "S" /\ y.mip = e.mip
        BY <4>1, <4>2, ExceptionIs, Zenon
      <4> QED
        BY <2>1, <4>1, <4>4, <4>5 DEF Cause
    <3> QED
      BY <3>1, <3>2, Zenon
  <2>3. /\ Interp(v, p.irq) = [s |-> u, n |-> 0] /\ StateOk(u) /\ MipOk(u) /\ Program[u.pc] # "fault"
        /\ Same(u, EnterInterrupt(y, p.irq))
    BY <2>1, <2>2, Raise
  <2>4. Entered(e, p) = EnterInterrupt(y, p.irq)
    BY <1>7, Zenon DEF Entered
  <2> HIDE DEF y, u
  <2>5. [s |-> u, n |-> 0].n = 0 /\ [s |-> u, n |-> 0].s = u
    OBVIOUS
  <2>6. Turn(f, c) = Begun(u, e.pc, NoTrap)
    BY <1>1, <1>7, <2>2, <2>3, <2>5, Zenon DEF Turn, Begun, AddIrq
  <2> QED
    BY <2>3, <2>4, <2>6, Zenon
<1> QED
  BY <1>6, <1>7, Zenon

\* The loop of dromajo_cosim_step enters the traps announced and executes the
\* instruction that the DUT has committed.
LEMMA FollowIs ==
    ASSUME NEW e, StateOk(e), MipOk(e), NEW p, Announced(e, p), NEW d, StateOk(d), Same(Entered(e, p), d),
           Program[d.pc] # "fault", NEW c, c.pc = d.pc
    PROVE  \E u : StateOk(u) /\ MipOk(u) /\ Same(u, d) /\ u.x = e.x /\ Follow(e, p, c) = Finished(u, c)
<1> DEFINE f0 == Begun(e, e.pc, p)
           g == Turn(f0, c)
<1>0. Follow(e, p, c) = Turn(g, c) /\ f0.s = e /\ f0.pending = p /\ f0.done = FALSE
  BY DEF Follow, Begun
<1> HIDE DEF f0
<1>1. CASE p = NoTrap
  <2>1. Entered(e, p) = e
    BY <1>1 DEF Entered, AfterException, NoTrap
  <2>2. e.pc = d.pc /\ Same(e, d)
    BY <2>1 DEF Same
  <2>3. g = Finished(e, c)
    BY <1>0, <1>1, <2>2, PlainTurn, Zenon
  <2>4. g.done = TRUE
    BY <2>3 DEF Finished
  <2>5. Turn(g, c) = g
    BY <2>4, Zenon DEF Turn
  <2> QED
    BY <1>0, <2>2, <2>3, <2>5, Zenon
<1>2. CASE p # NoTrap
  <2>1. ~DutFailsSc(e, c)
    <3>1. CASE p.exc # NoCause
      BY <3>1 DEF Announced, DutFailsSc
    <3>2. CASE p.exc = NoCause
      <4>1. p.irq \in Irqs /\ e.priv # "M" /\ AfterException(e, p) = e
        BY <1>2, <3>2 DEF Announced, Traps, NoTrap, AfterException
      <4>2. p.irq # NoCause
        BY <4>1, ProgramFacts DEF NoCause
      <4>3. Entered(e, p) = EnterInterrupt(e, p.irq)
        BY <4>1, <4>2, Zenon DEF Entered
      <4>4. d.pc = MTVEC
        BY <4>1, <4>3, InterruptIs DEF Same
      <4>5. e.pc # MTVEC
        BY <4>1, ProgramFacts DEF StateOk, HartState
      <4> QED
        BY <4>4, <4>5 DEF DutFailsSc
    <3> QED
      BY <3>1, <3>2, Zenon
  <2>2. PICK u : /\ g = Begun(u, e.pc, NoTrap)
                 /\ StateOk(u) /\ MipOk(u) /\ Program[u.pc] # "fault" /\ Same(u, Entered(e, p))
    BY <1>2, <2>1, TrapTurn, Zenon DEF f0
  <2>3. Same(u, d)
    BY <2>2, Zenon DEF Same
  <2>4. u.pc = d.pc
    BY <2>3, Zenon DEF Same
  <2>5. Follow(e, p, c) = Finished(u, c)
    <3>1. g.s = u /\ g.pending = NoTrap /\ g.done = FALSE
      BY <2>2 DEF Begun
    <3> HIDE DEF g
    <3> QED
      BY <1>0, <2>2, <2>4, <3>1, PlainTurn, Zenon
  <2>6. Entered(e, p).x = e.x
    <3>1. p.exc # NoCause => AfterException(e, p).x = e.x /\ StateOk(AfterException(e, p)) /\ AfterException(e, p).priv # "M"
      BY ExceptionIs DEF AfterException, Announced
    <3>2. p.exc = NoCause => AfterException(e, p) = e
      BY Zenon DEF AfterException
    <3>3. CASE p.irq = NoCause
      BY <3>1, <3>2, <3>3, Zenon DEF Entered
    <3>4. CASE p.irq # NoCause
      <4>1. p.irq \in Irqs /\ e.priv # "M"
        BY <3>4 DEF Announced, Traps
      <4>2. StateOk(AfterException(e, p)) /\ AfterException(e, p).priv # "M" /\ AfterException(e, p).x = e.x
        BY <3>1, <3>2, <4>1, Zenon
      <4>3. EnterInterrupt(AfterException(e, p), p.irq).x = AfterException(e, p).x
        BY <4>1, <4>2, InterruptIs
      <4> QED
        BY <3>4, <4>2, <4>3, Zenon DEF Entered
    <3> QED
      BY <3>3, <3>4, Zenon
  <2>7. u.x = e.x
    BY <2>2, <2>6, Zenon DEF Same
  <2> QED
    BY <2>2, <2>3, <2>5, <2>7, Zenon
<1> QED
  BY <1>1, <1>2, Zenon

\* Overriding the register keeps the state well formed.
LEMMA SetX ==
    ASSUME NEW r, StateOk(r), MipOk(r), NEW x \in {0, 1}, NEW s, s = [r EXCEPT !.x = x]
    PROVE  StateOk(s) /\ MipOk(s) /\ s.x = x
<1>1. r \in HartState
  BY DEF StateOk
<1>2. s \in HartState /\ s.x = x
  BY <1>1 DEF HartState
<1>3. s.pc = r.pc /\ s.priv = r.priv /\ s.mepc = r.mepc /\ s.sepc = r.sepc /\ s.mip = r.mip /\ s.mcause = r.mcause
  BY <1>1, Zenon DEF HartState
<1> QED
  BY <1>2, <1>3, Zenon DEF StateOk, MipOk

\* a is the state d's hart commits, with the right value in x or with a wrong one.
Rightly(d, a) == \E value \in Bit, fails \in Flag : a = Exec(d, value, fails)

\* a differs from what d's hart should commit in the value of x.
Wrongly(d, a) ==
    /\ Program[d.pc] \in {"alu", "lr", "cause"}
    /\ \E v : Rightly(d, v) /\ a = [v EXCEPT !.x = 1 - v.x]

\* What the DUT reports of its commit.
Commit(d, a) == [pc |-> d.pc, wdata |-> a.x]

\* The emulator after handle_dut_overrides, where x was old before.
Compared(f, c, old) == IF ~f.bad /\ Overrides(Program[f.pc], f.s, old) THEN [f.s EXCEPT !.x = c.wdata] ELSE f.s

\* The loop of dromajo_cosim_step has executed the instruction the DUT committed.
Executed(s, f, c) == StateOk(s) /\ MipOk(s) /\ f.pending = NoTrap /\ f.bad = FALSE /\ f.pc = c.pc

\* What dromajo_cosim_step makes of a right commit: the emulator is in the DUT's
\* state again.
LEMMA StepRight ==
    ASSUME NEW e, StateOk(e), MipOk(e), NEW p, Announced(e, p), NEW d, StateOk(d), Same(Entered(e, p), d),
           Program[d.pc] # "fault",
           NEW a, Rightly(d, a),
           NEW c, c = Commit(d, a),
           NEW f, f = Follow(e, p, c),
           NEW s, s = Compared(f, c, e.x)
    PROVE  Executed(s, f, c) /\ StateOk(a) /\ Same(s, a) /\ s.x = c.wdata
<1> DEFINE kind == Program[d.pc]
<1>1. PICK value \in Bit, fails \in Flag : a = Exec(d, value, fails)
  BY Zenon DEF Rightly
<1>2. c.pc = d.pc /\ c.wdata = a.x
  BY DEF Commit
<1>3. PICK u : StateOk(u) /\ MipOk(u) /\ Same(u, d) /\ u.x = e.x /\ f = Finished(u, c)
  BY <1>2, FollowIs
<1>4. u.pc = d.pc /\ e.x = d.x /\ Program[u.pc] = kind /\ kind # "fault"
  BY <1>3 DEF Same
<1>5. f.s = Outcome(u, c) /\ f.pc = d.pc /\ f.pending = NoTrap /\ f.bad = FALSE
  BY <1>3, <1>4 DEF Finished
<1>6. f.s = (IF kind = "sc" /\ a.x # 0 THEN AdoptSc(u, c) ELSE Exec(u, 0, FALSE))
  BY <1>2, <1>4, <1>5, Zenon DEF Outcome
<1>7. a \in HartState /\ StateOk(a)
  BY <1>1, ExecIs, ExecOk
<1>8. a.x \in {0, 1}
  BY <1>7 DEF HartState
<1>9. s = IF Overrides(kind, f.s, d.x) THEN [f.s EXCEPT !.x = a.x] ELSE f.s
  BY <1>2, <1>4, <1>5, Zenon DEF Compared
<1>10. 0 \in Bit /\ FALSE \in Flag
  BY DEF Bit, Flag
<1>11. CASE kind = "sc" /\ a.x # 0
  <2>1. f.s = AdoptSc(u, c)
    BY <1>6, <1>11, Zenon
  <2>2. Same(f.s, a) /\ StateOk(f.s) /\ MipOk(f.s)
    BY <1>1, <1>2, <1>3, <1>11, <2>1, AdoptSame
  <2>3. s = f.s
    BY <1>9, <1>11 DEF Overrides
  <2>4. s.x = c.wdata
    BY <1>2, <2>2, <2>3, Zenon DEF Same
  <2> QED
    BY <1>2, <1>5, <1>7, <2>2, <2>3, <2>4, Zenon DEF Executed
<1>12. CASE ~(kind = "sc" /\ a.x # 0)
  <2>1. f.s = Exec(u, 0, FALSE)
    BY <1>6, <1>12, Zenon
  <2>2. StateOk(f.s) /\ MipOk(f.s)
    BY <1>3, <1>4, <1>10, <2>1, ExecOk, Zenon
  <2>3. Same([f.s EXCEPT !.x = a.x], a) /\ (~Overrides(kind, u, d.x) => Same(f.s, a))
    BY <1>1, <1>3, <1>4, <1>12, <2>1, ExecSame, Zenon
  <2>4. CASE Overrides(kind, f.s, d.x)
    <3>1. s = [f.s EXCEPT !.x = a.x]
      BY <1>9, <2>4, Zenon
    <3>2. StateOk(s) /\ MipOk(s) /\ s.x = a.x
      BY <1>8, <2>2, <3>1, SetX
    <3> QED
      BY <1>2, <1>5, <1>7, <2>3, <3>1, <3>2, Zenon DEF Executed
  <2>5. CASE ~Overrides(kind, f.s, d.x)
    <3>1. s = f.s
      BY <1>9, <2>5, Zenon
    <3>2. Same(s, a)
      BY <2>3, <2>5, <3>1, Zenon DEF Overrides
    <3>3. s.x = a.x
      BY <3>2, Zenon DEF Same
    <3> QED
      BY <1>2, <1>5, <1>7, <2>2, <3>1, <3>2, <3>3, Zenon DEF Executed
  <2> QED
    BY <2>4, <2>5, Zenon
<1> QED
  BY <1>11, <1>12, Zenon

\* And of a wrong one: the emulator does not have the value the DUT wrote.
LEMMA StepWrong ==
    ASSUME NEW e, StateOk(e), MipOk(e), NEW p, Announced(e, p), NEW d, StateOk(d), Same(Entered(e, p), d),
           Program[d.pc] # "fault",
           NEW a, Wrongly(d, a),
           NEW c, c = Commit(d, a),
           NEW f, f = Follow(e, p, c),
           NEW s, s = Compared(f, c, e.x)
    PROVE  Executed(s, f, c) /\ StateOk(a) /\ Wrote(Program[f.pc]) /\ s.x # c.wdata
<1> DEFINE kind == Program[d.pc]
<1>1. PICK v : Rightly(d, v) /\ a = [v EXCEPT !.x = 1 - v.x]
  BY Zenon DEF Wrongly
<1>2. PICK value \in Bit, fails \in Flag : v = Exec(d, value, fails)
  BY <1>1, Zenon DEF Rightly
<1>3. kind \in {"alu", "lr", "cause"}
  BY Zenon DEF Wrongly
<1>4. c.pc = d.pc /\ c.wdata = a.x
  BY DEF Commit
<1>5. PICK u : StateOk(u) /\ MipOk(u) /\ Same(u, d) /\ u.x = e.x /\ f = Finished(u, c)
  BY <1>4, FollowIs
<1>6. u.pc = d.pc /\ e.x = d.x /\ Program[u.pc] = kind /\ kind # "fault"
  BY <1>5 DEF Same
<1>7. f.s = Outcome(u, c) /\ f.pc = d.pc /\ f.pending = NoTrap /\ f.bad = FALSE
  BY <1>5, <1>6 DEF Finished
<1>8. ~Overrides(kind, u, d.x) /\ ~Overrides(kind, f.s, d.x) /\ Wrote(kind) /\ kind # "sc"
  BY <1>3 DEF Overrides, Wrote
<1>9. f.s = Exec(u, 0, FALSE)
  BY <1>6, <1>7, <1>8, Zenon DEF Outcome
<1>10. s = f.s
  BY <1>6, <1>7, <1>8, Zenon DEF Compared
<1>11. v \in HartState /\ StateOk(v)
  BY <1>2, ExecIs, ExecOk
<1>12. v.x \in {0, 1}
  BY <1>11 DEF HartState
<1>13. 0 \in Bit /\ FALSE \in Flag
  BY DEF Bit, Flag
<1>14. StateOk(f.s) /\ MipOk(f.s)
  BY <1>5, <1>6, <1>9, <1>13, ExecOk, Zenon
<1>15. Same(f.s, v)
  BY <1>2, <1>5, <1>6, <1>8, <1>9, ExecSame, Zenon
<1>16. s.x = v.x
  BY <1>10, <1>15, Zenon DEF Same
<1>17. a \in HartState /\ a.x = 1 - v.x
  BY <1>1, <1>11, <1>12 DEF HartState
<1>18. a.pc = v.pc /\ a.priv = v.priv /\ a.mepc = v.mepc /\ a.sepc = v.sepc
  BY <1>1, <1>11, Zenon DEF HartState
<1>19. StateOk(a)
  BY <1>11, <1>17, <1>18, Zenon DEF StateOk
<1>20. s.x # c.wdata
  BY <1>4, <1>12, <1>16, <1>17
<1> QED
  BY <1>4, <1>7, <1>8, <1>10, <1>14, <1>19, <1>20, Zenon DEF Executed

----------------------------------------------------------------------------
\* While the verdict is ok: the emulator of a hart with no trap announced is in
\* the DUT's state, that of the hart with one is where entering it leads there.
Agreement ==
    /\ \A h \in DutHarts : MipOk(emu[h]) /\ prior[h] = emu[h].x
    /\ \A h \in DutHarts \ announced : Same(emu[h], dut[h])
    /\ announced = {} => pending = NoTrap
    /\ \A h \in announced : announced = {h} /\ Announced(emu[h], pending) /\ Same(Entered(emu[h], pending), dut[h])

\* The inductive invariant.  CosimAgrees alone is not inductive: it says nothing of
\* a hart whose trap is announced and not yet followed, of reservations, of mip and
\* of the code that may run in each mode.
CosimInv ==
    /\ CosimTypeOK
    /\ \A h \in DutHarts : StateOk(dut[h]) /\ StateOk(emu[h])
    /\ NoFalseMismatch
    /\ verdict = "ok" => Agreement

\* After reset emulator and DUT are in one state.
LEMMA CosimInvInit == CosimInit => CosimInv
<1> SUFFICES ASSUME CosimInit PROVE CosimInv
  OBVIOUS
<1>1. CosimReset \in HartState /\ StateOk(CosimReset) /\ MipOk(CosimReset) /\ CosimReset.x = 0
  BY ProgramFacts DEF CosimReset, HartState, StateOk, MipOk
<1>2. \A h \in DutHarts : dut[h] = CosimReset /\ emu[h] = CosimReset /\ prior[h] = 0
  BY DEF CosimInit
<1>3. CosimTypeOK
  BY <1>1, CosimAssumption DEF CosimInit, CosimTypeOK, NoTrap
<1>4. NoFalseMismatch
  BY DEF CosimInit, NoFalseMismatch
<1>5. Same(CosimReset, CosimReset)
  BY Zenon DEF Same
<1>6. Agreement
  BY <1>1, <1>2, <1>5, Zenon DEF CosimInit, Agreement
<1> QED
  BY <1>1, <1>2, <1>3, <1>4, <1>6, Zenon DEF CosimInv

\* The hart that may call dromajo_cosim_step, with or without a trap announced.
LEMMA Callable ==
    ASSUME CosimInv, NEW h \in DutHarts, MayCall(h)
    PROVE  /\ StateOk(dut[h]) /\ StateOk(emu[h]) /\ MipOk(emu[h]) /\ prior[h] = emu[h].x
           /\ Announced(emu[h], pending) /\ Same(Entered(emu[h], pending), dut[h])
           /\ \A g \in DutHarts : g # h => g \notin announced /\ Same(emu[g], dut[g])
<1>1. Agreement /\ announced \subseteq {h}
  BY Zenon DEF CosimInv, MayCall
<1>2. \A g \in DutHarts : g # h => g \notin announced /\ Same(emu[g], dut[g])
  BY <1>1 DEF Agreement
<1>3. StateOk(dut[h]) /\ StateOk(emu[h]) /\ MipOk(emu[h]) /\ prior[h] = emu[h].x
  BY <1>1, Zenon DEF CosimInv, Agreement
<1>4. CASE h \in announced
  BY <1>1, <1>2, <1>3, <1>4, Zenon DEF Agreement
<1>5. CASE h \notin announced
  <2>1. announced = {}
    BY <1>1, <1>5
  <2>2. pending = NoTrap /\ Same(emu[h], dut[h])
    BY <1>1, <1>5, <2>1, Zenon DEF Agreement
  <2>3. Announced(emu[h], NoTrap) /\ Entered(emu[h], NoTrap) = emu[h]
    BY DEF Announced, Traps, Entered, AfterException, NoTrap
  <2> QED
    BY <1>2, <1>3, <2>2, <2>3, Zenon
<1> QED
  BY <1>4, <1>5, Zenon

\* Announcing a trap of a hart, by whichever call.
LEMMA AnnounceInv ==
    ASSUME CosimInv, NEW h \in DutHarts, MayCall(h), NEW w, NEW q, q \in Traps, StateOk(w),
           Announced(emu[h], q), Same(Entered(emu[h], q), w),
           dut' = [dut EXCEPT ![h] = w], announced' = {h}, pending' = q,
           emu' = emu, prior' = prior, maxinsns' = maxinsns, verdict' = verdict, wrong' = wrong
    PROVE  CosimInv'
<1>1. \A g \in DutHarts : g # h => g \notin announced /\ Same(emu[g], dut[g])
  BY Callable, Zenon
<1>2. w \in HartState /\ dut \in [DutHarts -> HartState]
  BY Zenon DEF StateOk, CosimInv, CosimTypeOK
<1>3. dut' \in [DutHarts -> HartState] /\ dut'[h] = w /\ \A g \in DutHarts : g # h => dut'[g] = dut[g]
  BY <1>2
<1>4. CosimTypeOK'
  BY <1>3 DEF CosimInv, CosimTypeOK, Traps
<1>5. \A g \in DutHarts : StateOk(dut[g])' /\ StateOk(emu[g])'
  BY <1>3, Zenon DEF CosimInv, StateOk
<1>6. NoFalseMismatch'
  BY Zenon DEF CosimInv, NoFalseMismatch
<1>7. Agreement'
  <2>1. Agreement
    BY Zenon DEF CosimInv, MayCall
  <2>2. \A g \in DutHarts : MipOk(emu[g])' /\ prior'[g] = emu'[g].x
    BY <2>1, Zenon DEF Agreement, MipOk
  <2>3. \A g \in DutHarts \ announced' : Same(emu[g], dut[g])'
    BY <1>1, <1>3 DEF Same
  <2>4. \A g \in announced' : announced' = {g} /\ Announced(emu[g], pending)' /\ Same(Entered(emu[g], pending), dut[g])'
    <3> SUFFICES ASSUME NEW g \in announced' PROVE announced' = {g} /\ Announced(emu[g], pending)' /\ Same(Entered(emu[g], pending), dut[g])'
      OBVIOUS
    <3>1. g = h
      OBVIOUS
    <3>2. Announced(emu'[h], pending') /\ Same(Entered(emu'[h], pending'), dut'[h])
      BY <1>3
    <3> QED
      BY <3>1, <3>2
  <2> QED
    BY <2>2, <2>3, <2>4 DEF Agreement
<1> QED
  BY <1>4, <1>5, <1>6, <1>7, Zenon DEF CosimInv

\* The DUT takes an interrupt and announces it.
LEMMA InterruptInv ==
    ASSUME CosimInv, NEW h \in DutHarts, NEW irq \in Irqs, DutInterrupt(h, irq)
    PROVE  CosimInv'
<1> DEFINE e == emu[h]
           d == dut[h]
           p == pending
           q == [pending EXCEPT !.irq = irq]
           w == EnterInterrupt(d, irq)
<1>1. MayCall(h)
  BY Zenon DEF DutInterrupt
<1>2. /\ StateOk(d) /\ StateOk(e) /\ MipOk(e) /\ prior[h] = e.x
      /\ Announced(e, p) /\ Same(Entered(e, p), d)
      /\ \A g \in DutHarts : g # h => g \notin announced /\ Same(emu[g], dut[g])
  BY <1>1, Callable, Zenon
<1>3. d.priv # "M" /\ p.irq = NoCause
  BY Zenon DEF DutInterrupt
<1>4. /\ dut' = [dut EXCEPT ![h] = w] /\ announced' = {h} /\ pending' = q
      /\ emu' = emu /\ prior' = prior /\ maxinsns' = maxinsns /\ verdict' = verdict /\ wrong' = wrong
  BY DEF DutInterrupt, dromajo_cosim_raise_trap
<1>5. StateOk(w)
  BY <1>2, <1>3, InterruptIs, Zenon
<1>7. p \in Traps
  BY Zenon DEF CosimInv, CosimTypeOK, Traps
<1>8. q.irq = irq /\ q.exc = p.exc /\ q \in Traps /\ irq # NoCause
  BY <1>7, ProgramFacts DEF Traps, NoCause
<1>9. Entered(e, p) = AfterException(e, p) /\ AfterException(e, q) = AfterException(e, p)
  BY <1>3, <1>8, Zenon DEF Entered, AfterException
<1>10. e.priv # "M"
  <2>1. CASE p.exc = NoCause
    BY <1>2, <1>3, <1>9, <2>1, Zenon DEF AfterException, Same
  <2>2. CASE p.exc # NoCause
    <3>1. Program[e.pc] = "fault"
      BY <1>2, <2>2, Zenon DEF Announced
    <3> QED
      BY <1>2, <3>1, ProgramFacts, Zenon DEF StateOk, HartState
  <2> QED
    BY <2>1, <2>2, Zenon
<1>11. Announced(e, q)
  BY <1>2, <1>8, <1>10, Zenon DEF Announced
<1>12. Same(Entered(e, q), w)
  <2>1. StateOk(AfterException(e, p))
    BY <1>2, ExceptionIs, Zenon DEF AfterException, Announced
  <2>2. Entered(e, q) = EnterInterrupt(AfterException(e, p), irq)
    BY <1>8, <1>9, Zenon DEF Entered
  <2> QED
    BY <1>2, <1>3, <1>9, <2>1, <2>2, TrapsSame
<1> HIDE DEF w, q
<1> QED
  BY <1>1, <1>4, <1>5, <1>8, <1>11, <1>12, AnnounceInv, Zenon

\* The DUT takes a page fault and announces it.
LEMMA ExceptionInv ==
    ASSUME CosimInv, NEW h \in DutHarts, DutException(h)
    PROVE  CosimInv'
<1> DEFINE e == emu[h]
           d == dut[h]
           p == pending
           q == [pending EXCEPT !.exc = PAGE_FAULT]
           w == EnterException(d)
<1>1. MayCall(h)
  BY Zenon DEF DutException
<1>2. StateOk(d) /\ StateOk(e) /\ Announced(e, p) /\ Same(Entered(e, p), d)
  BY <1>1, Callable, Zenon
<1>3. Program[d.pc] = "fault"
  BY Zenon DEF DutException
<1>4. PAGE_FAULT \notin Irqs /\ NoCause \notin Irqs /\ PAGE_FAULT # NoCause
  BY ProgramFacts DEF PAGE_FAULT, NoCause
<1>5. /\ dut' = [dut EXCEPT ![h] = w] /\ announced' = {h} /\ pending' = q
      /\ emu' = emu /\ prior' = prior /\ maxinsns' = maxinsns /\ verdict' = verdict /\ wrong' = wrong
  BY <1>4 DEF DutException, dromajo_cosim_raise_trap
<1>6. StateOk(w)
  BY <1>2, <1>3, ExceptionIs, Zenon
<1>7. p \in Traps
  BY Zenon DEF CosimInv, CosimTypeOK, Traps
\* The DUT has not yet entered the handler of a trap announced before: a handler
\* starts with an instruction that does not fault.
<1>8. p.irq = NoCause
  <2> SUFFICES ASSUME p.irq # NoCause PROVE FALSE
    OBVIOUS
  <2>1. p.irq \in Irqs /\ e.priv # "M" /\ (p.exc # NoCause => Program[e.pc] = "fault")
    BY <1>2, <1>7 DEF Announced, Traps
  <2>2. StateOk(AfterException(e, p)) /\ AfterException(e, p).priv # "M"
    BY <1>2, <2>1, ExceptionIs DEF AfterException
  <2>3. Entered(e, p) = EnterInterrupt(AfterException(e, p), p.irq)
    BY Zenon DEF Entered
  <2>4. Program[Entered(e, p).pc] # "fault"
    BY <2>1, <2>2, <2>3, InterruptIs
  <2> QED
    BY <1>2, <1>3, <2>4, Zenon DEF Same
<1>9. p.exc = NoCause
  <2> SUFFICES ASSUME p.exc # NoCause PROVE FALSE
    OBVIOUS
  <2>1. Program[e.pc] = "fault"
    BY <1>2, Zenon DEF Announced
  <2>2. Entered(e, p) = EnterException(e)
    BY <1>8, Zenon DEF Entered, AfterException
  <2>3. Program[Entered(e, p).pc] # "fault"
    BY <1>2, <2>1, <2>2, ExceptionIs
  <2> QED
    BY <1>2, <1>3, <2>3, Zenon DEF Same
<1>10. Same(e, d) /\ Program[e.pc] = "fault"
  BY <1>2, <1>3, <1>8, <1>9, Zenon DEF Entered, AfterException, Same
<1>11. q.irq = NoCause /\ q.exc = PAGE_FAULT /\ q \in Traps
  BY <1>7, <1>8 DEF Traps
<1>12. Announced(e, q)
  BY <1>10, <1>11, Zenon DEF Announced
<1>13. Entered(e, q) = EnterException(e)
  BY <1>4, <1>11, Zenon DEF Entered, AfterException
<1>14. Same(Entered(e, q), w)
  BY <1>2, <1>3, <1>10, <1>13, TrapsSame, Zenon
<1> HIDE DEF w, q
<1> QED
  BY <1>1, <1>5, <1>6, <1>11, <1>12, <1>14, AnnounceInv, Zenon

\* The DUT commits an instruction, and dromajo_cosim_step follows it.
LEMMA CommitInv ==
    ASSUME CosimInv, NEW h \in DutHarts,
           \E value \in {0, 1}, fails, bug \in BOOLEAN : DutCommit(h, value, fails, bug)
    PROVE  CosimInv'
<1>0. PICK value \in {0, 1}, fails \in BOOLEAN, bug \in BOOLEAN : DutCommit(h, value, fails, bug)
  BY Zenon
<1> DEFINE e == emu[h]
           d == dut[h]
           p == pending
           v == Exec(d, value, fails)
           a == IF bug THEN [v EXCEPT !.x = 1 - v.x] ELSE v
           c == Commit(d, a)
           f == Follow(e, p, c)
           s == Compared(f, c, e.x)
<1>1. MayCall(h) /\ Program[d.pc] # "fault" /\ (bug => Program[d.pc] \in {"alu", "lr", "cause"})
  BY <1>0, Zenon DEF DutCommit
<1>2. /\ StateOk(d) /\ StateOk(e) /\ MipOk(e) /\ prior[h] = e.x
      /\ Announced(e, p) /\ Same(Entered(e, p), d)
      /\ \A g \in DutHarts : g # h => g \notin announced /\ Same(emu[g], dut[g])
  BY <1>1, Callable, Zenon
<1>3. /\ StateOk(s) /\ MipOk(s) /\ StateOk(a) /\ f.pending = NoTrap /\ f.bad = FALSE /\ f.pc = c.pc
      /\ ~bug => Same(s, a) /\ s.x = c.wdata
      /\ bug => Wrote(Program[f.pc]) /\ s.x # c.wdata
  <2>1. c = Commit(d, a) /\ f = Follow(e, p, c) /\ s = Compared(f, c, e.x)
    OBVIOUS
  <2>2. Rightly(d, v)
    BY Zenon DEF Rightly, Bit, Flag
  <2>3. ~bug => a = v
    BY Zenon
  <2>4. bug => a = [v EXCEPT !.x = 1 - v.x]
    BY Zenon
  <2> HIDE DEF e, d, p, v, a, c, f, s
  <2>5. CASE bug
    <3>1. Wrongly(d, a)
      BY <1>1, <2>2, <2>4, <2>5, Zenon DEF Wrongly
    <3>2. Executed(s, f, c) /\ StateOk(a) /\ Wrote(Program[f.pc]) /\ s.x # c.wdata
      BY <1>1, <1>2, <2>1, <3>1, StepWrong
    <3> QED
      BY <2>5, <3>2, Zenon DEF Executed
  <2>6. CASE ~bug
    <3>1. Rightly(d, a)
      BY <2>2, <2>3, <2>6, Zenon
    <3>2. Executed(s, f, c) /\ StateOk(a) /\ Same(s, a) /\ s.x = c.wdata
      BY <1>1, <1>2, <2>1, <3>1, StepRight
    <3> QED
      BY <2>6, <3>2, Zenon DEF Executed
  <2> QED
    BY <2>5, <2>6, Zenon
<1>4. /\ dut' = [dut EXCEPT ![h] = a] /\ announced' = announced \ {h} /\ wrong' = (wrong \/ bug)
      /\ dromajo_cosim_step(h, c)
  BY <1>0, Zenon DEF DutCommit, Commit
<1>5. /\ a \in HartState /\ s \in HartState /\ dut \in [DutHarts -> HartState] /\ emu \in [DutHarts -> HartState]
      /\ prior \in [DutHarts -> {0, 1}] /\ announced \subseteq {h}
  BY <1>1, <1>3, Zenon DEF StateOk, CosimInv, CosimTypeOK, MayCall
<1>6. CASE maxinsns = 0
  <2> HIDE DEF a, c
  <2>1. verdict' = "done" /\ emu' = emu /\ prior' = prior /\ pending' = pending /\ maxinsns' = maxinsns
    BY <1>4, <1>6, Zenon DEF dromajo_cosim_step
  <2>2. dut' \in [DutHarts -> HartState] /\ dut'[h] = a /\ \A g \in DutHarts : g # h => dut'[g] = dut[g]
    BY <1>4, <1>5
  <2>3. CosimTypeOK'
    BY <1>4, <2>1, <2>2 DEF CosimInv, CosimTypeOK
  <2>4. \A g \in DutHarts : StateOk(dut[g])' /\ StateOk(emu[g])'
    <3>1. \A g \in DutHarts : StateOk(dut'[g]) /\ StateOk(emu'[g])
      BY <1>3, <2>1, <2>2 DEF CosimInv
    <3> QED
      BY <3>1, Zenon DEF StateOk
  <2> QED
    BY <2>1, <2>3, <2>4 DEF CosimInv, NoFalseMismatch
<1>7. CASE maxinsns # 0
  <2>1. /\ maxinsns' = maxinsns - 1 /\ emu' = [emu EXCEPT ![h] = s] /\ pending' = NoTrap
        /\ prior' = [prior EXCEPT ![h] = s.x] /\ verdict' \in {"ok", "mismatch"}
        /\ verdict' = "ok" <=> (Wrote(Program[f.pc]) => s.x = c.wdata)
    <3>0. s = Compared(f, c, prior[h])
      BY <1>2, Zenon
    <3> HIDE DEF e, a, c, f, s
    <3>1. s = IF ~f.bad /\ Overrides(Program[f.pc], f.s, prior[h]) THEN [f.s EXCEPT !.x = c.wdata] ELSE f.s
      BY <3>0, Zenon DEF Compared
    <3> DEFINE z == IF ~f.bad /\ Overrides(Program[f.pc], f.s, prior[h]) THEN [f.s EXCEPT !.x = c.wdata] ELSE f.s
               same == ~f.bad /\ f.pc = c.pc /\ (Wrote(Program[f.pc]) => z.x = c.wdata)
    <3>2. /\ maxinsns' = maxinsns - 1
          /\ emu' = [emu EXCEPT ![h] = z]
          /\ pending' = f.pending
          /\ prior' = IF f.bad THEN prior ELSE [prior EXCEPT ![h] = z.x]
          /\ verdict' = IF same THEN "ok" ELSE "mismatch"
      BY <1>4, <1>7, Zenon DEF dromajo_cosim_step, f, e
    <3>3. z = s
      BY <3>1
    <3> HIDE DEF z
    <3> QED
      BY <1>3, <3>2, <3>3
  <2> HIDE DEF a, c, f, s
  <2>2. dut' \in [DutHarts -> HartState] /\ dut'[h] = a /\ \A g \in DutHarts : g # h => dut'[g] = dut[g]
    BY <1>4, <1>5
  <2>3. emu' \in [DutHarts -> HartState] /\ emu'[h] = s /\ \A g \in DutHarts : g # h => emu'[g] = emu[g]
    BY <1>5, <2>1
  <2>4. s.x \in {0, 1}
    BY <1>5 DEF HartState
  <2>5. prior' \in [DutHarts -> {0, 1}] /\ prior'[h] = s.x /\ \A g \in DutHarts : g # h => prior'[g] = prior[g]
    BY <1>5, <2>1, <2>4
  <2>6. announced' = {}
    BY <1>4, <1>5
  <2>7. CosimTypeOK'
    <3>1. maxinsns' \in 0..MaxInsns
      BY <1>7, <2>1, CosimAssumption DEF CosimInv, CosimTypeOK
    <3>2. NoTrap \in [irq : Irqs \cup {NoCause}, exc : {NoCause, PAGE_FAULT}]
      BY DEF NoTrap
    <3> QED
      BY <2>1, <2>2, <2>3, <2>5, <2>6, <3>1, <3>2 DEF CosimTypeOK
  <2>8. \A g \in DutHarts : StateOk(dut[g])' /\ StateOk(emu[g])'
    <3>1. \A g \in DutHarts : StateOk(dut'[g]) /\ StateOk(emu'[g])
      BY <1>3, <2>2, <2>3 DEF CosimInv
    <3> QED
      BY <3>1, Zenon DEF StateOk
  <2>9. bug => verdict' = "mismatch" /\ wrong'
    BY <1>3, <1>4, <2>1, Zenon
  <2>10. ~bug => verdict' = "ok" /\ Same(s, a)
    BY <1>3, <2>1
  <2>11. NoFalseMismatch'
    BY <2>9, <2>10 DEF NoFalseMismatch
  <2>12. ASSUME ~bug PROVE Agreement'
    <3>1. Agreement
      BY <1>1, Zenon DEF CosimInv, MayCall
    <3>2. \A g \in DutHarts : MipOk(emu[g])' /\ prior'[g] = emu'[g].x
      <4>1. \A g \in DutHarts : MipOk(emu'[g]) /\ prior'[g] = emu'[g].x
        BY <1>3, <2>3, <2>5, <3>1 DEF Agreement
      <4> QED
        BY <4>1, Zenon DEF MipOk
    <3>3. \A g \in DutHarts : Same(emu[g], dut[g])'
      <4>1. \A g \in DutHarts : Same(emu'[g], dut'[g])
        BY <1>2, <2>2, <2>3, <2>10, <2>12
      <4> QED
        BY <4>1, Zenon DEF Same
    <3> QED
      BY <2>1, <2>6, <3>2, <3>3 DEF Agreement
  <2> QED
    BY <2>7, <2>8, <2>9, <2>11, <2>12, Zenon DEF CosimInv
<1> QED
  BY <1>6, <1>7, Zenon

\* Every call of the DUT keeps the invariant.
LEMMA CosimInvNext == CosimInv /\ [CosimNext]_cosimvars => CosimInv'
<1> SUFFICES ASSUME CosimInv, [CosimNext]_cosimvars PROVE CosimInv'
  OBVIOUS
<1>1. CASE CosimNext
  <2>1. PICK h \in DutHarts : \/ \E irq \in Irqs : DutInterrupt(h, irq)
                             \/ DutException(h)
                             \/ \E value \in {0, 1}, fails, bug \in BOOLEAN : DutCommit(h, value, fails, bug)
    BY <1>1, Zenon DEF CosimNext
  <2>2. CASE \E irq \in Irqs : DutInterrupt(h, irq)
    BY <2>2, InterruptInv, Zenon
  <2>3. CASE DutException(h)
    BY <2>3, ExceptionInv, Zenon
  <2>4. CASE \E value \in {0, 1}, fails, bug \in BOOLEAN : DutCommit(h, value, fails, bug)
    BY <2>4, CommitInv, Zenon
  <2> QED
    BY <2>1, <2>2, <2>3, <2>4, Zenon
<1>2. CASE UNCHANGED cosimvars
  <2>1. /\ dut' = dut /\ emu' = emu /\ prior' = prior /\ pending' = pending
        /\ announced' = announced /\ maxinsns' = maxinsns /\ verdict' = verdict /\ wrong' = wrong
    BY <1>2 DEF cosimvars
  <2>2. CosimTypeOK' /\ NoFalseMismatch'
    BY <2>1 DEF CosimInv, CosimTypeOK, NoFalseMismatch
  <2>3. \A h \in DutHarts : StateOk(dut[h])' /\ StateOk(emu[h])'
    BY <2>1, Zenon DEF CosimInv, StateOk
  <2>4. ASSUME verdict' = "ok" PROVE Agreement'
    <3>1. Agreement
      BY <2>1, <2>4 DEF CosimInv
    <3>2. \A h \in DutHarts : MipOk(emu[h])' /\ prior'[h] = emu'[h].x
      BY <2>1, <3>1, Zenon DEF Agreement, MipOk
    <3>3. \A h \in DutHarts \ announced' : Same(emu[h], dut[h])'
      BY <2>1, <3>1, Zenon DEF Agreement, Same
    <3>4. announced' = {} => pending' = NoTrap
      BY <2>1, <3>1, Zenon DEF Agreement
    <3>5. \A h \in announced' : announced' = {h} /\ Announced(emu[h], pending)' /\ Same(Entered(emu[h], pending), dut[h])'
      BY <2>1, <3>1 DEF Agreement
    <3> QED
      BY <3>2, <3>3, <3>4, <3>5, Zenon DEF Agreement
  <2> QED
    BY <2>2, <2>3, <2>4, Zenon DEF CosimInv
<1> QED
  BY <1>1, <1>2, Zenon

\* The invariant says what the run checks.
LEMMA CosimInvImplies == CosimInv => CosimTypeOK /\ CosimAgrees
<1> SUFFICES ASSUME CosimInv PROVE CosimTypeOK /\ CosimAgrees
  OBVIOUS
<1>1. LockStep
  BY SameVisible, Zenon DEF CosimInv, Agreement, LockStep
<1> QED
  BY <1>1, Zenon DEF CosimInv, CosimAgrees

\* While dromajo_cosim_step reports agreement the emulator is in the DUT's state,
\* and a DUT that differs only where the architecture lets it is never reported.
THEOREM CoSimulation == CosimSpec => []CosimAgrees
  BY CosimInvInit, CosimInvNext, CosimInvImplies, PTL DEF CosimSpec

\* The states of both sides stay in range, whatever the DUT commits.
THEOREM CoSimulationTyped == CosimSpec => []CosimTypeOK
  BY CosimInvInit, CosimInvNext, CosimInvImplies, PTL DEF CosimSpec
================================================================================
