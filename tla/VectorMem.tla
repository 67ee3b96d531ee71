------------------------------- MODULE VectorMem -------------------------------
(***************************************************************************)
(* Vector loads and stores (riscv_cpu.cpp vmem_op, v0_mask; opcodes 0x07   *)
(* and 0x27 of dromajo_template.h), restarted after page faults.           *)
(*                                                                         *)
(* One call moves elements in order until an access faults; vstart then    *)
(* names the element, the operating system (external) brings the page in,  *)
(* maybe at the expense of another, and the instruction runs again from    *)
(* there.  Addresses count elements, and every address is a page of its    *)
(* own.  A register holds VE elements; an instruction names emul registers *)
(* for each of its nf fields.                                              *)
(***************************************************************************)
EXTENDS Integers, Sequences, FiniteSets, FiniteSetsExt, SequencesExt

CONSTANTS
  VE,         \* elements of a register (VLEN / eew)
  Ops,        \* the instructions considered
  MaxFaults   \* bound on the faults of one instruction

VARIABLES
  op,         \* the instruction
  vl, vstart,
  vreg,       \* vreg[r][e], registers counted from rd
  mem,
  absent,     \* the addresses that fault
  faults,     \* faults so far
  status,     \* "ready" to (re)start, "done", or "fault" with vstart kept
  goal        \* history: [vreg, mem] as they must be in the end

vecvars == <<op, vl, vstart, vreg, mem, absent, faults, status, goal>>

Registers == 0..3
Addrs == 0..9
Old(r, e) == -(10 * r + e + 1)         \* what a register holds before

MaskedOn(o, n) == o.vm \/ n \in o.mask

\* The elements of a register that take part: vec_size.
VecSize(o) == IF VE > o.vl THEN o.vl ELSE VE

\* elm_start of the i-th register when the call begins at element from.
Start(o, i, from) == IF from > VecSize(o) * i THEN from - VecSize(o) * i ELSE 0

\* The address of field k of element e of register i.  A call that begins in
\* the middle starts at the address of that element and steps on from there.
AddressFromTop(o, i, e, k, from) ==
  IF o.mop = "indexed"
  THEN o.base + o.index[i * VecSize(o) + e + 1] + k
  ELSE o.base + o.nf * i * VE + ((e - Start(o, i, from)) * o.nf + k) * o.stride

Address(o, i, e, k, from) ==
  IF o.mop = "indexed"
  THEN o.base + o.index[i * VecSize(o) + e + 1] + k
  ELSE o.base + Start(o, i, from) * o.stride + o.nf * i * VE
         + ((e - Start(o, i, from)) * o.nf + k) * o.stride

RegisterOf(o, i, k) == IF o.mop = "indexed" THEN i + k * o.emul ELSE i + k * (o.nf - 1)

\* The accesses of a call that begins at element from, in order: the elements
\* of every register from its start to vec_size, field by field.
Accesses(o, from) ==
  LET slots == [m \in 1..(o.emul * VE * o.nf) |->
                  <<(m - 1) \div (VE * o.nf), ((m - 1) \div o.nf) % VE, (m - 1) % o.nf>>]
      Moved(x) == /\ Start(o, x[1], from) <= x[2] /\ x[2] < VecSize(o)
                  /\ MaskedOn(o, x[1] * VecSize(o) + x[2])
      order == SelectSeq(slots, Moved)
  IN  [m \in DOMAIN order |->
         LET i == order[m][1]
             e == order[m][2]
             k == order[m][3]
         IN  [e |-> e, n |-> i * VecSize(o) + e,
              reg |-> RegisterOf(o, i, k), addr |-> Address(o, i, e, k, from)]]

\* The registers and memory after the accesses in s.
MovedRegs(o, s, regs, m) ==
  IF ~o.ld THEN regs
  ELSE FoldLeft(LAMBDA v, a : [v EXCEPT ![a.reg][a.e] = m[a.addr]], regs, s)

MovedMem(o, s, regs, m) ==
  IF o.ld THEN m
  ELSE FoldLeft(LAMBDA v, a : [v EXCEPT ![a.addr] = regs[a.reg][a.e]], m, s)

\* What the instruction is for: element n of field k and its place in memory,
\* for the active elements below vl.
Wanted(o, n, k) ==
  [reg |-> (n \div VE) + k * o.emul, e |-> n % VE,
   addr |-> IF o.mop = "indexed" THEN o.base + o.index[n + 1] + k
            ELSE o.base + n * o.nf * o.stride + k * o.stride]

WantedAccesses(o) ==
  LET parts == [m \in 1..(o.vl * o.nf) |-> <<(m - 1) \div o.nf, (m - 1) % o.nf>>]
      order == SelectSeq(parts, LAMBDA p : MaskedOn(o, p[1]))
  IN  [m \in DOMAIN order |-> Wanted(o, order[m][1], order[m][2])]

Init ==
  /\ op \in Ops
  /\ vl = op.vl /\ vstart = 0
  /\ vreg = [r \in Registers |-> [e \in 0..(VE - 1) |-> Old(r, e)]]
  /\ mem = [a \in Addrs |-> a]
  /\ absent \in UNION {kSubset(k, Addrs) : k \in 0..1}
  /\ faults = 0 /\ status = "ready"
  /\ goal = [vreg |-> MovedRegs(op, WantedAccesses(op), vreg, mem),
             mem |-> MovedMem(op, WantedAccesses(op), vreg, mem)]

TypeOK ==
  /\ vl \in 0..op.vl /\ vstart \in 0..(op.emul * VE)
  /\ DOMAIN vreg = Registers /\ DOMAIN mem = Addrs
  /\ absent \subseteq Addrs /\ faults \in 0..MaxFaults
  /\ status \in {"ready", "fault", "done"}

--------------------------------------------------------------------------------

\* The place of the first access that faults, 0 if none does.
FirstFault(s) ==
  LET bad == {m \in DOMAIN s : s[m].addr \in absent}
  IN  IF bad = {} THEN 0 ELSE Min(bad)

\* The dummy load of a fault-only-first instruction faults.
FirstElementAbsent == op.ff /\ vstart = 0 /\ op.base \in absent

\* One call of vmem_op.
MutVmem ==
  LET s == Accesses(op, vstart)
      f == FirstFault(s)
      done == IF f = 0 THEN s ELSE SubSeq(s, 1, f - 1)
  IN  /\ status = "ready"
      /\ IF FirstElementAbsent
         THEN status' = "fault" /\ UNCHANGED <<vreg, mem, vstart, vl>>
         ELSE /\ vreg' = MovedRegs(op, done, vreg, mem)
              /\ mem' = MovedMem(op, done, vreg, mem)
              /\ status' = IF f # 0 /\ ~op.ff THEN "fault" ELSE "done"
              /\ vl' = IF f # 0 /\ op.ff THEN s[f].n + 1 ELSE vl
              /\ vstart' = IF f # 0 /\ ~op.ff THEN s[f].n ELSE 0
      /\ UNCHANGED <<op, absent, faults, goal>>

vmem_op ==
  LET s == Accesses(op, vstart)
      f == FirstFault(s)
      done == IF f = 0 THEN s ELSE SubSeq(s, 1, f - 1)
  IN  /\ status = "ready"
      /\ IF FirstElementAbsent
         THEN status' = "fault" /\ UNCHANGED <<vreg, mem, vstart, vl>>
         ELSE /\ vreg' = MovedRegs(op, done, vreg, mem)
              /\ mem' = MovedMem(op, done, vreg, mem)
              /\ status' = IF f # 0 /\ ~op.ff THEN "fault" ELSE "done"
              /\ vl' = IF f # 0 /\ op.ff THEN s[f].n ELSE vl
              /\ vstart' = IF f # 0 /\ ~op.ff THEN s[f].n ELSE 0
      /\ UNCHANGED <<op, absent, faults, goal>>

\* The operating system brings in what faulted, may take away another page, and
\* returns to the instruction.
PageIn(gone) ==
  /\ status = "fault"
  /\ faults < MaxFaults
  /\ absent' = gone
  /\ faults' = faults + 1
  /\ status' = "ready"
  /\ UNCHANGED <<op, vl, vstart, vreg, mem, goal>>

Next ==
  \/ vmem_op
  \/ \E gone \in UNION {kSubset(k, Addrs) : k \in 0..1} : PageIn(gone \ absent)

Spec == Init /\ [][Next]_vecvars

--------------------------------------------------------------------------------

\* The forms that work: one field, or indexed ones, or two fields of a single
\* register that do not fault; one register, or all elements of a group that
\* follow each other in memory.
Sound(o) ==
  /\ o.nf = 1 \/ o.mop = "indexed" \/ (o.nf = 2 /\ o.emul = 1 /\ faults = 0)
  /\ o.emul = 1 \/ (o.vl = o.emul * VE /\ (o.mop = "indexed" \/ o.stride = 1))

\* However often an instruction faults and is restarted, in the end exactly the
\* active elements below vl were moved, each from or to its own address, and
\* nothing else was.
RestartsInvisible ==
  status = "done" /\ ~op.ff /\ Sound(op) =>
    vreg = goal.vreg /\ mem = goal.mem /\ vstart = 0 /\ vl = op.vl

\* A fault-only-first load ends with the elements below the new vl loaded, and
\* it stops early only at an active element whose address faults, never at the
\* first if elements have one field.
FaultOnlyFirst ==
  status = "done" /\ op.ff /\ Sound(op) =>
    /\ \A n \in 0..(vl - 1), k \in 0..(op.nf - 1) :
         LET w == Wanted(op, n, k) IN vreg[w.reg][w.e] = goal.vreg[w.reg][w.e]
    /\ vl < op.vl =>
         /\ MaskedOn(op, vl)
         /\ \E k \in 0..(op.nf - 1) : Wanted(op, vl, k).addr \in absent
         /\ op.nf = 1 => vl > 0
================================================================================
