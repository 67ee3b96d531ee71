------------------------------- MODULE FpContext -------------------------------
(***************************************************************************)
(* The floating-point unit of a hart and its status field FS               *)
(* (dromajo_fp_template.h, the FP opcodes of dromajo_template.h, the FP    *)
(* registers of csr_read and csr_write), used by threads that share it.    *)
(*                                                                         *)
(* FS is 0 off, 1 initial, 2 clean, 3 dirty.  While it is 0 every FP       *)
(* instruction traps.  The operating system (external) leaves the unit off *)
(* when it switches threads, loads a thread's registers at its first FP    *)
(* instruction and marks them clean, and saves them at the next switch     *)
(* only if mstatus.SD says they were changed.  What the instructions       *)
(* compute is in SoftFp and FpConvert; here a register holds a number or   *)
(* QNaN, and whether it is NaN-boxed: a single.                            *)
(***************************************************************************)
EXTENDS Naturals

CONSTANTS
  Threads,
  Regs       \* the fp registers used

VARIABLES
  fpu,       \* the hart's [reg, fflags, frm]
  fs,
  running,   \* the thread on the hart
  contexts,  \* contexts[t]: what the operating system stored for thread t
  own,       \* history: own[t], the fpu of thread t if it had one to itself
  trap       \* what the last instruction ended with: none, illegal or fault

fpvars == <<fpu, fs, running, contexts, own, trap>>

QNaN == 1
Value == {0, QNaN}
Register == [boxed : BOOLEAN, v : Value]
Fpu == [reg : [Regs -> Register], fflags : SUBSET {"NV"}, frm : {0, 5}]

Reset == [reg |-> [r \in Regs |-> [boxed |-> FALSE, v |-> 0]], fflags |-> {}, frm |-> 0]

FpInit ==
  /\ fpu = Reset /\ fs = 0
  /\ running \in Threads
  /\ contexts = [t \in Threads |-> Reset] /\ own = contexts
  /\ trap = "none"

FpTypeOK ==
  /\ fpu \in Fpu /\ fs \in 0..3
  /\ running \in Threads
  /\ contexts \in [Threads -> Fpu] /\ own \in [Threads -> Fpu]
  /\ trap \in {"none", "illegal", "fault"}

--------------------------------------------------------------------------------

\* Rounding modes: 0 is a valid one, 5 a reserved one, 7 asks for frm.
RoundingFields == {0, 5, 7}

\* get_insn_rm is not negative.
ValidRm(f, rm) == (IF rm = 7 THEN f.frm ELSE rm) < 5

\* f_unbox32, f_unbox64, chkfp32: a single that is not NaN-boxed reads as QNaN.
Unbox(size, r) == IF size = 32 /\ ~r.boxed THEN QNaN ELSE r.v

\* What write_fp_reg puts into a register: F32_HIGH boxes a single.
Box(size, v) == [boxed |-> size = 32, v |-> v]

\* The sum, product, ... of two values and the flags it raises: a NaN is handed
\* on quietly, zero divided by zero is invalid.
Result(op, a, b) == IF op = "divide" \/ QNaN \in {a, b} THEN QNaN ELSE 0
Raised(op, a, b) == IF op = "divide" /\ QNaN \notin {a, b} THEN {"NV"} ELSE {}

\* le_sf and lt_sf of a NaN are invalid.
Unordered(a, b) == IF QNaN \in {a, b} THEN {"NV"} ELSE {}

write_fp_reg(f, size, rd, v) == [f EXCEPT !.reg[rd] = Box(size, v)]
RaiseFlags(f, flags) == [f EXCEPT !.fflags = @ \cup flags]

\* An instruction's effect: the new fpu, the new FS and how it ended.  dirty
\* says whether it sets FS to 3.
Done(f, dirty) == [fpu |-> f, dirty |-> dirty, trap |-> "none"]
Ends(f, how) == [fpu |-> f, dirty |-> FALSE, trap |-> how]

Illegal(f) == Ends(f, "illegal")

\* fadd, fsub, fmul, fdiv, fsqrt and the fused ones: rounded, two operands here.
Arithmetic(f, i) ==
  LET a == Unbox(i.size, f.reg[i.rs1])
      b == Unbox(i.size, f.reg[i.rs2])
  IN  IF ValidRm(f, i.rm)
      THEN Done(RaiseFlags(write_fp_reg(f, i.size, i.rd, Result(i.op, a, b)),
                           Raised(i.op, a, b)), TRUE)
      ELSE Illegal(f)

\* fmin and fmax: the funct3 field selects the operation.
MinMax(f, i) ==
  LET a == Unbox(i.size, f.reg[i.rs1])
      b == Unbox(i.size, f.reg[i.rs2])
      m == IF a = QNaN THEN b ELSE a
  IN  IF i.rm = 0 THEN Done(write_fp_reg(f, i.size, i.rd, m), TRUE) ELSE Illegal(f)

\* fsgnj, fsgnjn, fsgnjx: the magnitude of rs1; signs are abstracted away.
SignInject(f, i) ==
  IF i.rm = 0
  THEN Done(write_fp_reg(f, i.size, i.rd, Unbox(i.size, f.reg[i.rs1])), TRUE)
  ELSE Illegal(f)

\* fle, flt, feq and fcvt to an integer change nothing but the flags; FS is
\* set to dirty for them.
CompareClean(f, i) ==
  LET a == Unbox(i.size, f.reg[i.rs1])
      b == Unbox(i.size, f.reg[i.rs2])
  IN  IF i.rm = 0
      THEN Done(RaiseFlags(f, Unordered(a, b)), FALSE)
      ELSE Illegal(f)

Compare(f, i) ==
  LET a == Unbox(i.size, f.reg[i.rs1])
      b == Unbox(i.size, f.reg[i.rs2])
  IN  IF i.rm = 0
      THEN Done(RaiseFlags(f, Unordered(a, b)), TRUE)
      ELSE Illegal(f)

ToInteger(f, i) ==
  IF ValidRm(f, i.rm)
  THEN Done(RaiseFlags(f, IF Unbox(i.size, f.reg[i.rs1]) = QNaN THEN {"NV"} ELSE {}), TRUE)
  ELSE Illegal(f)

\* fcvt from an integer.
FromInteger(f, i) ==
  IF ValidRm(f, i.rm) THEN Done(write_fp_reg(f, i.size, i.rd, 0), TRUE) ELSE Illegal(f)

\* fcvt.s.d reads the whole register, fcvt.d.s a boxed single.
Convert(f, i) ==
  LET from == IF i.size = 32 THEN 64 ELSE 32
  IN  IF ValidRm(f, i.rm)
      THEN Done(write_fp_reg(f, i.size, i.rd, Unbox(from, f.reg[i.rs1])), TRUE)
      ELSE Illegal(f)

\* fmv.x and fclass only read; FS is left alone.
MoveToInteger(f, i) == IF i.rm = 0 THEN Done(f, FALSE) ELSE Illegal(f)

MoveFromInteger(f, i) ==
  IF i.rm = 0 THEN Done(write_fp_reg(f, i.size, i.rd, 0), TRUE) ELSE Illegal(f)

\* flw, fld and their compressed forms; rm is reused to say that the access
\* faults, before the register is written.
FpLoad(f, i) ==
  IF i.rm = 5 THEN Ends(f, "fault") ELSE Done(write_fp_reg(f, i.size, i.rd, 0), TRUE)

FpStore(f, i) == IF i.rm = 5 THEN Ends(f, "fault") ELSE Done(f, FALSE)

\* csr_write of fflags, frm and fcsr (rm is the value of the frm field).
WriteFflags(f, i) == Done([f EXCEPT !.fflags = {}], TRUE)
WriteFrm(f, i) == Done([f EXCEPT !.frm = IF i.rm = 5 THEN 5 ELSE 0], TRUE)
WriteFcsr(f, i) == Done([f EXCEPT !.frm = IF i.rm = 5 THEN 5 ELSE 0, !.fflags = {}], TRUE)

Operations == {"arithmetic", "divide", "minmax", "sign", "compare", "toint", "fromint", "convert",
               "movetoint", "movefromint", "load", "store", "fflags", "frm", "fcsr"}

Execute(f, i) ==
  CASE i.op \in {"arithmetic", "divide"} -> Arithmetic(f, i)
    [] i.op = "minmax" -> MinMax(f, i)
    [] i.op = "sign" -> SignInject(f, i)
    [] i.op = "compare" -> Compare(f, i)
    [] i.op = "toint" -> ToInteger(f, i)
    [] i.op = "fromint" -> FromInteger(f, i)
    [] i.op = "convert" -> Convert(f, i)
    [] i.op = "movetoint" -> MoveToInteger(f, i)
    [] i.op = "movefromint" -> MoveFromInteger(f, i)
    [] i.op = "load" -> FpLoad(f, i)
    [] i.op = "store" -> FpStore(f, i)
    [] i.op = "fflags" -> WriteFflags(f, i)
    [] i.op = "frm" -> WriteFrm(f, i)
    [] i.op = "fcsr" -> WriteFcsr(f, i)

Instructions ==
  [op : Operations, size : {32, 64}, rd : Regs, rs1 : Regs, rs2 : Regs, rm : RoundingFields]

--------------------------------------------------------------------------------

\* The running thread executes an FP instruction with the unit on.
Run(i) ==
  LET e == Execute(fpu, i)
  IN  /\ fs # 0
      /\ fpu' = e.fpu
      /\ fs' = IF e.dirty THEN 3 ELSE fs
      /\ trap' = e.trap
      /\ own' = [own EXCEPT ![running] = Execute(@, i).fpu]
      /\ UNCHANGED <<running, contexts>>

\* With the unit off it traps before anything else is looked at, and the
\* operating system turns the unit on with the thread's registers, clean.
FirstUse ==
  /\ fs = 0
  /\ fpu' = contexts[running] /\ fs' = 2
  /\ trap' = "illegal"
  /\ UNCHANGED <<running, contexts, own>>

\* get_mstatus: SD is set if FS is dirty.
SD == fs = 3

\* The operating system switches to thread t.
Switch(t) ==
  /\ t # running
  /\ contexts' = IF SD THEN [contexts EXCEPT ![running] = fpu] ELSE contexts
  /\ fs' = 0
  /\ running' = t
  /\ trap' = "none"
  /\ UNCHANGED <<fpu, own>>

FpNext ==
  \/ \E i \in Instructions : Run(i)
  \/ FirstUse
  \/ \E t \in Threads : Switch(t)

FpSpec == FpInit /\ [][FpNext]_fpvars

--------------------------------------------------------------------------------

\* Every thread has, whenever the unit is on, the registers, flags and rounding
\* mode it would have with a unit to itself: each instruction that changes any
\* of them marks FS dirty, the ones that only raise flags included.
ThreadsKeepFpu == fs # 0 => fpu = own[running]

CleanTrap == trap' # "none" /\ fs # 0 => fpu' = fpu /\ fs' = fs

\* An FP instruction that traps leaves no trace in the unit: a reserved rounding
\* mode or a faulting load is found before a register or a flag changes.
TrapsAreClean == [][CleanTrap]_fpvars

================================================================================
