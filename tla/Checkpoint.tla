------------------------------- MODULE Checkpoint ------------------------------
(***************************************************************************)
(* Checkpoints (riscv_cpu.cpp riscv_cpu_serialize, create_boot_rom,        *)
(* riscv_cpu_deserialize; riscv_machine.cpp virt_machine_serialize).       *)
(*                                                                         *)
(* A checkpoint is the RAM and a boot ROM with a program made for it: the  *)
(* restored machine starts from reset in debug mode and runs the program,  *)
(* which writes the registers one after the other and ends in DRET.  The   *)
(* program is the sequence Rom below; one step stands for the few          *)
(* instructions that restore one register.  x1 and x2 are their scratch    *)
(* registers.  Registers that are written and read back alike are          *)
(* represented by one, plain; x3, x4 stand for the other integer, f0 for   *)
(* the FP registers.  Interrupts are not held back in debug mode.          *)
(***************************************************************************)
EXTENDS Integers, Sequences, FiniteSets

CONSTANTS
  Guests,         \* the hart states checkpoints are taken in
  RTC_FREQ_DIV

VARIABLES
  saved,          \* the hart when the checkpoint was taken
  hart,           \* the restored hart
  phase,          \* "rom" while the program runs, then "guest", or "lost"
  next            \* the step of the program it is at

ckvars == <<saved, hart, phase, next>>

\* The hart after riscv_cpu_init and the boot code's first instructions.
HartReset ==
  [pc |-> 0, priv |-> 3, x1 |-> 0, x2 |-> 0, x3 |-> <<0, 0>>,
   MIE |-> FALSE, fs |-> 0, fcsr |-> 0, f3 |-> <<0, 0>>,
   mie |-> {}, mip |-> {}, mideleg |-> {}, plain |-> 0, mcounteren |-> 0,
   pmpaddr |-> 0, pmpcfg |-> "off", satp |-> 0, timecmp |-> 0, minstret |-> 0, mcycle |-> 0,
   tdata1 |-> 0, vtype |-> 0,
   dpc |-> 0, dcsr |-> 3, dscratch |-> 0, stop |-> FALSE]

\* What matters of a hart's state; the other registers hold anything.  The
\* program stops the counters before mtime leaves 0.
ASSUME CheckpointAssumption ==
  /\ RTC_FREQ_DIV \in Nat /\ RTC_FREQ_DIV > 2
  /\ \A s \in Guests :
       /\ DOMAIN s = DOMAIN HartReset
       /\ s.priv \in {0, 1, 3} /\ s.fs \in 0..3 /\ s.MIE \in BOOLEAN
       /\ s.timecmp \in Nat /\ s.mcycle \in Nat /\ s.minstret \in Nat /\ s.mcounteren \in Nat

CkInit ==
  /\ saved \in Guests
  /\ hart = HartReset
  /\ phase = "rom" /\ next = 1

--------------------------------------------------------------------------------

\* Mutant: the PMP configuration is restored before the addresses.
RomCfgFirst(s) ==
  <<"dpc", "dcsr", "mstatus">>
    \o (IF s.fs = 0 THEN <<>> ELSE <<"fcsr", "f3">>)
    \o <<"plain", "mideleg", "mie", "mcounteren", "pmpcfg", "pmpaddr", "mip", "x3",
         "timecmp", "minstret", "mcycle", "mtime", "x1", "x2", "dscratch", "satp", "x1back", "dret">>

\* The program create_boot_rom writes for the hart s: which registers it
\* restores, in which order.  The FP part is there only if the FPU is on.
Rom(s) ==
  <<"dpc", "dcsr", "mstatus">>
    \o (IF s.fs = 0 THEN <<>> ELSE <<"fcsr", "f3">>)
    \o <<"plain", "mideleg", "mie", "mcounteren", "pmpaddr", "pmpcfg", "mip", "x3",
         "timecmp", "minstret", "mcycle", "mtime", "x1", "x2", "dscratch", "satp", "x1back", "dret">>

\* The bits of mip software can write.
Writable == {"STI"}

\* An address or a value x1 is left with that no property looks at.
Scratch == -1

\* A 12-bit value loaded by ADDI is sign-extended (create_seti).
Imm12(v) == LET low == v % 4096 IN IF low >= 2048 THEN low - 4096 ELSE low

\* Mutant: the counters are never stopped.
NeverStop(dcsr) == FALSE

\* csr_write of dcsr: "s->dcsr & 0x600 != 0" tests bit 0.
StopTheCounter(dcsr) == dcsr % 2 = 1

\* What one step of the program does to the hart h when s was saved.  A 64-bit
\* value goes through x1; the two CLINT registers use x1 and x2.
Restore(h, s, r) ==
  CASE r = "dpc"        -> [h EXCEPT !.dpc = s.pc, !.x1 = s.pc]
    [] r = "dcsr"       -> [h EXCEPT !.dcsr = s.priv, !.x1 = s.priv, !.stop = StopTheCounter(s.priv)]
    [] r = "mstatus"    -> [h EXCEPT !.MIE = s.MIE, !.fs = s.fs, !.x1 = Scratch]
    [] r = "fcsr"       -> [h EXCEPT !.fcsr = s.fcsr, !.fs = 3, !.x1 = s.fcsr]
    [] r = "f3"         -> [h EXCEPT !.f3 = <<s.f3[1], s.x3[2]>>, !.fs = 3, !.x1 = Scratch]
    [] r = "plain"      -> [h EXCEPT !.plain = s.plain, !.x1 = s.plain]
    [] r = "mideleg"    -> [h EXCEPT !.mideleg = s.mideleg, !.x1 = Scratch]
    [] r = "mie"        -> [h EXCEPT !.mie = s.mie, !.x1 = Scratch]
    [] r = "mcounteren" -> [h EXCEPT !.mcounteren = Imm12(s.mcounteren), !.x1 = Scratch]
    [] r = "pmpaddr"    -> [h EXCEPT !.pmpaddr = IF h.pmpcfg = "locked" THEN @ ELSE s.pmpaddr,
                                     !.x1 = s.pmpaddr]
    [] r = "pmpcfg"     -> [h EXCEPT !.pmpcfg = s.pmpcfg, !.x1 = Scratch]
    [] r = "mip"        -> [h EXCEPT !.mip = (@ \ Writable) \cup (s.mip \cap Writable), !.x1 = Scratch]
    [] r = "x3"         -> [h EXCEPT !.x3 = s.x3]
    [] r = "timecmp"    -> [h EXCEPT !.timecmp = s.timecmp, !.mip = @ \ {"MTI"}, !.x1 = Scratch, !.x2 = s.timecmp]
    [] r = "minstret"   -> [h EXCEPT !.minstret = s.minstret, !.x1 = s.minstret]
    [] r = "mcycle"     -> [h EXCEPT !.mcycle = s.mcycle, !.x1 = s.mcycle]
    [] r = "mtime"      -> LET t == s.mcycle \div RTC_FREQ_DIV
                           IN  [h EXCEPT !.mcycle = t * RTC_FREQ_DIV, !.x1 = Scratch, !.x2 = t]
    [] r = "x1"         -> [h EXCEPT !.x1 = s.x1]
    [] r = "x2"         -> [h EXCEPT !.x2 = s.x2]
    [] r = "dscratch"   -> [h EXCEPT !.dscratch = h.x1]
    [] r = "satp"       -> [h EXCEPT !.satp = s.satp, !.x1 = s.satp]
    [] r = "x1back"     -> [h EXCEPT !.x1 = h.dscratch]
    [] r = "dret"       -> [h EXCEPT !.priv = h.dcsr, !.pc = h.dpc, !.stop = FALSE]

\* The instructions of a step are counted, as one, before the register is
\* written, unless the counters are stopped.
Counted(h) == IF h.stop THEN h ELSE [h EXCEPT !.mcycle = @ + 1, !.minstret = @ + 1]

\* virt_machine_run compares the timer at the start of a slice.
Tick(h) ==
  LET now == h.mcycle \div RTC_FREQ_DIV
  IN  IF now > 0 /\ h.timecmp <= now THEN [h EXCEPT !.mip = @ \cup {"MTI"}] ELSE h

\* get_pending_irq_mask in machine mode.
Interrupted(h) == h.MIE /\ (h.mip \cap h.mie) \ h.mideleg # {}

\* The restored hart runs one step of the program.
RomStep ==
  /\ phase = "rom"
  /\ ~Interrupted(hart)
  /\ hart' = Restore(Counted(hart), saved, Rom(saved)[next])
  /\ phase' = IF Rom(saved)[next] = "dret" THEN "guest" ELSE "rom"
  /\ next' = next + 1
  /\ UNCHANGED saved

\* A slice may begin before any instruction of the program.
RomSlice ==
  /\ phase = "rom"
  /\ hart' = Tick(hart)
  /\ UNCHANGED <<saved, phase, next>>

\* An interrupt is taken: the program is left for the guest's handler.
Derail ==
  /\ phase = "rom"
  /\ Interrupted(hart)
  /\ phase' = "lost"
  /\ UNCHANGED <<saved, hart, next>>

CkNext == RomStep \/ RomSlice \/ Derail

CkSpec == CkInit /\ [][CkNext]_ckvars

--------------------------------------------------------------------------------

\* The registers a checkpoint brings back whatever the guest did.
Restored == {"pc", "priv", "x1", "x2", "x3", "MIE", "mie", "mideleg", "plain",
             "pmpaddr", "pmpcfg", "satp", "timecmp"}

CkTypeOK ==
  /\ DOMAIN hart = DOMAIN saved
  /\ hart.priv \in {0, 1, 3} /\ hart.fs \in 0..3
  /\ hart.mip \subseteq {"MTI", "STI"} /\ hart.mcounteren \in Int
  /\ phase \in {"rom", "guest", "lost"}
  /\ next \in 1..(Len(Rom(saved)) + 1)

\* When the program has ended the hart has every one of these registers as it
\* was, the scratch registers of the program and locked PMP entries included,
\* the part of mip software can write, and of the FP registers the low halves;
\* the counters agree for a checkpoint taken in supervisor or machine mode, up
\* to the resolution of mtime.
RegistersRestored ==
  phase = "guest" =>
    /\ \A r \in Restored : hart[r] = saved[r]
    /\ hart.mip \cap Writable = saved.mip \cap Writable
    /\ saved.mcounteren < 2048 => hart.mcounteren = saved.mcounteren
    /\ saved.fs # 0 => hart.fcsr = saved.fcsr /\ hart.f3[1] = saved.f3[1] /\ hart.fs = 3
    /\ saved.fs = 0 => hart.fs = 0
    /\ saved.priv # 0 =>
         /\ hart.minstret = saved.minstret
         /\ hart.mcycle = saved.mcycle - (saved.mcycle % RTC_FREQ_DIV)

\* The program is not interrupted unless the guest could have been: no timer
\* goes off while it runs in a checkpoint of supervisor or machine mode.
NotDerailed ==
  phase = "lost" =>
    /\ saved.MIE
    /\ \/ saved.priv = 0
       \/ (saved.mip \cap saved.mie \cap Writable) \ saved.mideleg # {}
       \/ saved.timecmp <= saved.mcycle \div RTC_FREQ_DIV

\* A restored checkpoint brings back the registers the boot program saves, and
\* no interrupt takes the hart away from that program unless the guest could
\* have been interrupted at the checkpoint.
StateRestored == RegistersRestored /\ NotDerailed
================================================================================
