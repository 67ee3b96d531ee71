---------------------------------- MODULE Plic ---------------------------------
(***************************************************************************)
(* The platform-level interrupt controller (riscv_machine.cpp plic_read,   *)
(* plic_write, plic_set_irq, plic_update_mip).                             *)
(*                                                                         *)
(* Devices raise and lower interrupts; plic_update_mip recomputes the two  *)
(* external interrupt bits of one hart's mip from the pending, served and  *)
(* enabled interrupts.  It is called for all harts when a device changes   *)
(* its level, for one when an interrupt is claimed, and not at all when    *)
(* one is completed or enabled, so the bits may be out of date in between. *)
(*                                                                         *)
(* The device tree announces two contexts per hart, 2h for supervisor and  *)
(* 2h + 1 for machine mode of hart h.  The enable registers are decoded    *)
(* that way; the claim register takes the context for a hart number.       *)
(* Priorities are stored and never looked at.                              *)
(***************************************************************************)
EXTENDS Integers

CONSTANTS
  NCpus,     \* ncpus
  MaxCpus,   \* MAX_CPUS: the registers of this many contexts are decoded
  Irqs       \* interrupt numbers in use, at least 1

Harts == 0..(NCpus - 1)
Contexts == 0..(MaxCpus - 1)

\* plic_enable_irq[0] drives SEIP, plic_enable_irq[1] drives MEIP.
Bit == [ctx \in {0, 1} |-> IF ctx = 0 THEN "SEIP" ELSE "MEIP"]

PlicAssumption ==
  /\ NCpus \in Nat \ {0} /\ MaxCpus \in Nat
  /\ NCpus <= MaxCpus
  /\ Irqs \subseteq 1..31

VARIABLES
  plic_pending_irq, plic_served_irq,
  plic_enable_irq,   \* plic_enable_irq[h][ctx], ctx 0 or 1
  mip,               \* mip[h]: which of the two bits are set
  crashed,           \* the simulator read through a null cpu_state pointer
  owner,             \* history: the context that claimed an interrupt, or -1
  stale              \* history: the harts whose bits may be out of date

vars == <<plic_pending_irq, plic_served_irq, plic_enable_irq, mip, crashed, owner, stale>>

TypeOK ==
  /\ plic_pending_irq \subseteq Irqs /\ plic_served_irq \subseteq Irqs
  /\ plic_enable_irq \in [Harts -> [{0, 1} -> SUBSET Irqs]]
  /\ mip \in [Harts -> SUBSET {"SEIP", "MEIP"}]
  /\ crashed \in BOOLEAN
  /\ owner \in [Irqs -> Contexts \cup {-1}]
  /\ stale \subseteq Harts

Init ==
  /\ plic_pending_irq = {} /\ plic_served_irq = {}
  /\ plic_enable_irq = [h \in Harts |-> [ctx \in {0, 1} |-> {}]]
  /\ mip = [h \in Harts |-> {}]
  /\ crashed = FALSE
  /\ owner = [i \in Irqs |-> -1]
  /\ stale = {}

--------------------------------------------------------------------------------

\* The bits plic_update_mip gives hart h.
Waiting(h, ctx) ==
  plic_enable_irq[h][ctx] \cap (plic_pending_irq \ plic_served_irq) # {}

Lines(h) == {Bit[ctx] : ctx \in {c \in {0, 1} : Waiting(h, c)}}

\* plic_update_mip for the harts in hs; others keep what they have.
plic_update_mip(hs) ==
  mip' = [h \in Harts |-> IF h \in hs THEN Lines(h)' ELSE mip[h]]

\* A device changes its level; all harts are brought up to date.
plic_set_irq_hart0(i, state) ==
  /\ ~crashed
  /\ plic_pending_irq' = IF state THEN plic_pending_irq \cup {i} ELSE plic_pending_irq \ {i}
  /\ UNCHANGED <<plic_served_irq, plic_enable_irq, crashed, owner>>
  /\ plic_update_mip({0})
  /\ stale' = {}

plic_set_irq(i, state) ==
  /\ ~crashed
  /\ plic_pending_irq' = IF state THEN plic_pending_irq \cup {i} ELSE plic_pending_irq \ {i}
  /\ UNCHANGED <<plic_served_irq, plic_enable_irq, crashed, owner>>
  /\ plic_update_mip(Harts)
  /\ stale' = {}

\* What a claim may return.
ClaimableServedToo == plic_pending_irq

Claimable == plic_pending_irq \ plic_served_irq

\* A guest reads the claim register of context c: the lowest pending interrupt
\* that is not being served, enabled for c or not.  The hart brought up to
\* date is cpu_state[c], which is null from ncpus on.
Claim(c) ==
  /\ ~crashed
  /\ \E i \in Claimable :
       /\ \A j \in Claimable : i <= j
       /\ plic_served_irq' = plic_served_irq \cup {i}
       /\ plic_pending_irq' = plic_pending_irq \ {i}
       /\ owner' = [owner EXCEPT ![i] = c]
  /\ UNCHANGED plic_enable_irq
  /\ plic_update_mip({c} \cap Harts)
  /\ crashed' = (c \notin Harts)
  /\ stale' = (stale \cup Harts) \ {c}

\* A guest completes an interrupt it claimed: no hart is brought up to date.
\* (The code accepts any number from any context.)
Finish(c, i) ==
  /\ ~crashed
  /\ owner[i] = c
  /\ owner' = [owner EXCEPT ![i] = -1]
  /\ plic_served_irq' = plic_served_irq \ {i}
  /\ stale' = Harts
  /\ UNCHANGED <<plic_pending_irq, plic_enable_irq, mip, crashed>>

\* An enable register is written: its hart is not brought up to date.
Enable(h, ctx, irqs) ==
  /\ ~crashed
  /\ 2 * h + ctx \in Contexts
  /\ plic_enable_irq' = [plic_enable_irq EXCEPT ![h][ctx] = irqs]
  /\ stale' = stale \cup {h}
  /\ UNCHANGED <<plic_pending_irq, plic_served_irq, mip, crashed, owner>>

\* Software may write SEIP in mip itself.
WriteMip(h, bits) ==
  /\ ~crashed
  /\ mip' = [mip EXCEPT ![h] = (@ \ {"SEIP"}) \cup bits]
  /\ stale' = stale \cup {h}
  /\ UNCHANGED <<plic_pending_irq, plic_served_irq, plic_enable_irq, crashed, owner>>

Next ==
  \/ \E i \in Irqs, state \in BOOLEAN : plic_set_irq(i, state)
  \/ \E c \in Contexts : Claim(c)
  \/ \E c \in Contexts, i \in Irqs : Finish(c, i)
  \/ \E h \in Harts, ctx \in {0, 1}, irqs \in SUBSET Irqs : Enable(h, ctx, irqs)
  \/ \E h \in Harts, bits \in SUBSET {"SEIP"} : WriteMip(h, bits)

Spec == Init /\ [][Next]_vars

--------------------------------------------------------------------------------

\* A hart's external interrupt bits say whether it has an enabled interrupt to
\* claim, except after what plic_update_mip is not called for: a completion, a
\* write of its enable registers or of mip, a claim that refreshed another
\* hart.  Every level change of any device ends that for all harts.
LinesExact == \A h \in Harts \ stale : mip[h] = Lines(h)

KeepsOwner == \A i \in Irqs : owner[i] # -1 => owner'[i] \in {owner[i], -1}

\* An interrupt is served by one context at a time: once claimed it is not
\* handed out again before its claimant completes it, even if the device
\* raises it again meanwhile.
ServedByOne == [][KeepsOwner]_vars

\* An interrupt is masked exactly while somebody serves it: none is left
\* masked for ever by a completion.
MaskedOnlyWhileServed == plic_served_irq = {i \in Irqs : owner[i] # -1}

\* "int hartid = addrid / 2;  // PLIC_HART_CONFIG is "MS"": two contexts belong
\* to each hart, so a claim brings the bits of hart c \div 2 up to date.
ClaimRefreshesClaimant ==
  [][\A c \in Contexts : Claim(c) /\ c \div 2 \in Harts =>
       ~crashed' /\ mip'[c \div 2] = Lines(c \div 2)']_vars
================================================================================
