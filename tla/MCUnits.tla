------------------------------ MODULE MCUnits ------------------------------
(***************************************************************************)
(* The units of the simulator that share no state, checked side by side:   *)
(* the variable unit selects the one that runs.  The memory instructions   *)
(* of LoadReserve are one of them.                                         *)
(***************************************************************************)
EXTENDS LoadReserve, FpContext, DumpFiles, Checkpoint, Gold, Pmp, Cosim, Sequences, FiniteSets, TLC

VARIABLES
    unit,
    op, vl, vstart, vreg, vmem, absent, faults, status, goal,    \* vector memory accesses
    content, maxOrder, recent                                   \* live cache

vecvars == <<op, vl, vstart, vreg, vmem, absent, faults, status, goal>>
livevars == <<content, maxOrder, recent>>

allvars == <<unit, fpvars, pmpvars, ckvars, dumpvars, vecvars, livevars, goldvars, cosimvars, lrvars>>

----------------------------------------------------------------------------
\* Threads and harts that nothing tells apart
Symmetry == Permutations(Threads) \cup Permutations(Harts)

Live == INSTANCE LiveCache WITH
    Sets <- 2, Assoc <- 2, Tags <- 1..6, Tracked <- 1..5, MaxOrder <- 5

\* A program with every kind of instruction; the handlers are at 6 and 8.
MCProgram ==
    (0 :> "lr") @@ (1 :> "sc") @@ (2 :> "fault") @@ (3 :> "load") @@ (4 :> "counter") @@ (5 :> "jump")
      @@ (6 :> "alu") @@ (7 :> "sret") @@ (8 :> "cause") @@ (9 :> "ack") @@ (10 :> "mret")

\* The guests a checkpoint is taken of: with every way an interrupt can be
\* pending or enabled, and with every kind of FP, PMP and counter state.
AnyGuest ==
    [pc |-> 1, priv |-> 3, x1 |-> 1, x2 |-> 2, x3 |-> <<3, 4>>, MIE |-> FALSE, fs |-> 0, fcsr |-> 0,
     f3 |-> <<0, 0>>, mie |-> {}, mip |-> {}, mideleg |-> {}, plain |-> 5, mcounteren |-> 0,
     pmpaddr |-> 0, pmpcfg |-> "off", satp |-> 1, timecmp |-> 3, minstret |-> 7, mcycle |-> 11,
     tdata1 |-> 0, vtype |-> 0, dpc |-> 0, dcsr |-> 3, dscratch |-> 0, stop |-> FALSE]

MCGuests ==
    {[AnyGuest EXCEPT !.priv = p, !.MIE = m, !.mie = e, !.mip = i, !.mideleg = d, !.timecmp = t] :
       p \in {0, 1, 3}, m \in BOOLEAN, e, i \in SUBSET {"MTI", "STI"}, d \in SUBSET {"STI"}, t \in {0, 2, 3}}
      \cup {[AnyGuest EXCEPT !.priv = p, !.fs = f, !.fcsr = 3, !.f3 = <<a, b>>, !.pmpcfg = c, !.pmpaddr = 6,
                             !.mcounteren = n] :
              p \in {0, 1}, f \in 0..3, a, b \in {0, 1}, c \in {"off", "on", "locked"}, n \in {1, 2^11, 2^12}}

\* Vector loads and stores: unit-stride, strided, indexed and fault-only-first,
\* of one or two fields and one or two registers, masked or not.
VectorOp(ld, mop, ff, nf, emul, n, vm, mask, stride) ==
    [ld |-> ld, mop |-> mop, ff |-> ff, nf |-> nf, emul |-> emul, vl |-> n, vm |-> vm, mask |-> mask,
     base |-> 1, stride |-> stride, index |-> <<3, 0, 6, 1>>]

MCOps ==
    {o \in {VectorOp(ld, mop, FALSE, nf, emul, n, vm, {0, 3}, 1) :
              ld, vm \in BOOLEAN, mop \in {"unit", "indexed"}, nf, emul \in 1..2, n \in 1..4} :
       o.vl <= o.emul * 2}
      \cup {VectorOp(ld, "stride", FALSE, 1, emul, n, vm, {1}, 2) : ld, vm \in BOOLEAN, emul \in 1..2, n \in 1..2}
      \cup {VectorOp(TRUE, "unit", TRUE, nf, 1, n, vm, {0}, 1) : nf, n \in 1..2, vm \in BOOLEAN}

Vmem == INSTANCE VectorMem WITH mem <- vmem, VE <- 2, MaxFaults <- 3, Ops <- MCOps

----------------------------------------------------------------------------
Units == {"fp", "pmp", "checkpoint", "files", "vmem", "live", "gold", "cosim", "lrsc"}

\* Every unit starts in one of its initial states; one that does not run, in a
\* fixed one of them.
MCInit ==
    /\ unit \in Units
    /\ FpInit /\ (unit /= "fp" => running = CHOOSE t \in Threads : TRUE)
    /\ PmpInit
    /\ IF unit = "checkpoint" THEN CkInit
       ELSE saved = AnyGuest /\ hart = HartReset /\ phase = "rom" /\ next = 1
    /\ DumpInit
    /\ IF unit = "vmem" THEN Vmem!Init
       ELSE /\ op = VectorOp(TRUE, "unit", FALSE, 1, 1, 1, TRUE, {}, 1) /\ vl = 1 /\ vstart = 0 /\ vreg = <<>>
            /\ vmem = <<>> /\ absent = {} /\ faults = 0 /\ status = "ready" /\ goal = [vreg |-> <<>>, mem |-> <<>>]
    /\ Live!Init
    /\ GoldInit /\ (unit /= "gold" => ram = [a \in {0, 1} |-> 0])
    /\ CosimInit
    /\ LrInit /\ (unit /= "lrsc" => mem = [a \in Ram |-> 0])

MCNext ==
    \/ /\ unit = "fp" /\ FpNext
       /\ UNCHANGED <<unit, pmpvars, ckvars, dumpvars, vecvars, livevars, goldvars, cosimvars, lrvars>>
    \/ /\ unit = "pmp" /\ PmpNext
       /\ UNCHANGED <<unit, fpvars, ckvars, dumpvars, vecvars, livevars, goldvars, cosimvars, lrvars>>
    \/ /\ unit = "checkpoint" /\ CkNext
       /\ UNCHANGED <<unit, fpvars, pmpvars, dumpvars, vecvars, livevars, goldvars, cosimvars, lrvars>>
    \/ /\ unit = "files" /\ DumpNext
       /\ UNCHANGED <<unit, fpvars, pmpvars, ckvars, vecvars, livevars, goldvars, cosimvars, lrvars>>
    \/ /\ unit = "vmem" /\ Vmem!Next
       /\ UNCHANGED <<unit, fpvars, pmpvars, ckvars, dumpvars, livevars, goldvars, cosimvars, lrvars>>
    \/ /\ unit = "live" /\ Live!Next
       /\ UNCHANGED <<unit, fpvars, pmpvars, ckvars, dumpvars, vecvars, goldvars, cosimvars, lrvars>>
    \/ /\ unit = "gold" /\ GoldNext
       /\ UNCHANGED <<unit, fpvars, pmpvars, ckvars, dumpvars, vecvars, livevars, cosimvars, lrvars>>
    \/ /\ unit = "cosim" /\ CosimNext
       /\ UNCHANGED <<unit, fpvars, pmpvars, ckvars, dumpvars, vecvars, livevars, goldvars, lrvars>>
    \/ /\ unit = "lrsc" /\ LrNext
       /\ UNCHANGED <<unit, fpvars, pmpvars, ckvars, dumpvars, vecvars, livevars, goldvars, cosimvars>>

MCSpec == MCInit /\ [][MCNext]_allvars

\* The running unit's variables hold values of their types.
UnitsTyped ==
    CASE unit = "fp"         -> FpTypeOK
      [] unit = "pmp"        -> PmpTypeOK
      [] unit = "checkpoint" -> CkTypeOK
      [] unit = "files"      -> DumpTypeOK
      [] unit = "vmem"       -> Vmem!TypeOK
      [] unit = "live"       -> Live!TypeOK
      [] unit = "gold"       -> GoldTypeOK
      [] unit = "cosim"      -> CosimTypeOK
      [] unit = "lrsc"       -> LrTypeOK

----------------------------------------------------------------------------
\* A vector load or store that faults and is restarted from vstart has the
\* effect of one that does not fault; a fault-only-first load traps on its
\* first element only.
RestartsInvisible == unit = "vmem" => Vmem!RestartsInvisible /\ Vmem!FaultOnlyFirst

\* The live cache holds the most recently used lines, and replaying the warm-up
\* list rebuilds it.
WarmupReproduces == unit = "live" => Live!HoldsMostRecent /\ Live!WarmupReproduces
=============================================================================
