---------------------------------- MODULE Mmu ----------------------------------
(***************************************************************************)
(* Address translation, physical memory protection and the software TLBs   *)
(* of one hart (riscv_cpu.cpp), with the fetch window of the interpreter   *)
(* (dromajo_template.h, code_ptr .. code_end).                             *)
(*                                                                         *)
(* A hit in a TLB skips translation and every permission check, so each    *)
(* piece of state those checks depend on (privilege, mstatus.MPRV, MPP,    *)
(* SUM and MXR, satp, the page tables, the PMP registers) has to empty the *)
(* TLBs when it changes.  The page tables are the guest's to announce with *)
(* SFENCE.VMA; all the rest is the emulator's.                             *)
(*                                                                         *)
(* Virtual and physical pages share one set of numbers, a page is Words    *)
(* words long, and a walk of the page tables is one look-up of the leaf    *)
(* entry pt[root][v], read through the PMP at a word of its own.  An entry *)
(* with A or D clear is one that does not grant the access.                *)
(***************************************************************************)
EXTENDS Integers, FiniteSetsExt, Sequences

CONSTANTS
  Pages,       \* virtual and physical page numbers
  RamPages,    \* the physical pages that are RAM; the others are devices
  Words,       \* words in a page
  TLBSize,     \* TLB_SIZE
  Roots,       \* page-table roots satp may hold
  Bare,        \* satp with mode 0
  PteWord,     \* PteWord[root]: the word its entries are read from
  Ptes,        \* the entries the guest puts into page tables
  PmpConfigs,  \* the contents the guest gives the PMP registers
  MppValues    \* what the guest writes to mstatus.MPP

PRV_U == 0
PRV_S == 1
PRV_M == 3
Privs == 0..3
Access == {"R", "W", "X"}

PteType == [v : BOOLEAN, u : BOOLEAN, xwr : SUBSET Access, ppn : Pages]
PmpEntry == [lo : Nat, hi : Nat, perm : SUBSET Access, locked : BOOLEAN]

ASSUME MmuAssumption ==
  /\ Pages \subseteq Nat
  /\ RamPages \subseteq Pages
  /\ Words \in Nat \ {0}
  /\ TLBSize \in Nat \ {0}
  /\ Bare \notin Roots
  /\ PteWord \in [Roots -> Nat]
  /\ Ptes \subseteq PteType
  /\ PmpConfigs \subseteq Seq(PmpEntry)
  /\ <<>> \in PmpConfigs
  /\ MppValues \subseteq Privs

VARIABLES
  priv, mprv, mpp, sum, mxr, spp,
  satp,
  pt,         \* pt[root][v]: the leaf entry for page v
  pmp,        \* the unpacked PMP entries, in order
  tlb,        \* tlb[access][index]: the cached page, vaddr -1 if none
  window,     \* the page the interpreter fetches from without a look-up
  winStale,   \* history: a page table or SUM changed since the window opened
  ptStale,    \* history: a page table changed since the TLBs were emptied
  mppStale    \* history: MPP changed under MPRV since then

mstatus == <<mprv, mpp, sum, mxr, spp>>
cached == <<tlb, window, winStale, ptStale, mppStale>>
vars == <<priv, mstatus, satp, pt, pmp, cached>>

Index == 0..(TLBSize - 1)
NoEntry == [vaddr |-> -1, page |-> 0]
Entry == [vaddr : Pages, page : Pages] \cup {NoEntry}
EmptyTlb == [acc \in Access |-> [i \in Index |-> NoEntry]]

TypeOK ==
  /\ priv \in Privs /\ mprv \in BOOLEAN /\ mpp \in Privs
  /\ sum \in BOOLEAN /\ mxr \in BOOLEAN /\ spp \in {PRV_U, PRV_S}
  /\ satp \in Roots \cup {Bare}
  /\ pt \in [Roots -> [Pages -> Ptes]]
  /\ pmp \in PmpConfigs
  /\ tlb \in [Access -> [Index -> Entry]]
  /\ window \in Entry
  /\ winStale \in BOOLEAN /\ ptStale \in BOOLEAN /\ mppStale \in BOOLEAN

Init ==
  /\ priv = PRV_M /\ mprv = FALSE /\ mpp = PRV_M
  /\ sum = FALSE /\ mxr = FALSE /\ spp = PRV_U
  /\ satp = Bare
  /\ pt \in [Roots -> [Pages -> Ptes]]
  /\ pmp = <<>>
  /\ tlb = EmptyTlb
  /\ window = NoEntry /\ winStale = FALSE
  /\ ptStale = FALSE /\ mppStale = FALSE

--------------------------------------------------------------------------------
(* Translation and protection, as functions of the current state. *)

\* MPRV makes loads and stores use the privilege in MPP.
EffectivePriv(acc) == IF mprv /\ acc # "X" THEN mpp ELSE priv

\* riscv_cpu_pmp_access_ok: the first entry that overlaps the access decides.
\* Words first .. last are accessed.
PmpMatches(first, last) ==
  {i \in DOMAIN pmp : pmp[i].lo <= last /\ first < pmp[i].hi}

PmpOk(first, last, acc) ==
  LET matches == PmpMatches(first, last)
  IN  IF matches = {}
      THEN EffectivePriv(acc) = PRV_M
      ELSE LET e == pmp[Min(matches)]
           IN  EffectivePriv(acc) < PRV_M \/ e.locked => acc \in e.perm

WordOf(page, w) == page * Words + w
WordOk(page, w, acc) == PmpOk(WordOf(page, w), WordOf(page, w), acc)

\* The check of a leaf entry against the kind and privilege of the access.
LeafOk(pte, acc) ==
  LET granted == pte.xwr \cup (IF mxr /\ "X" \in pte.xwr THEN {"R"} ELSE {})
  IN  /\ pte.v
      /\ ~("W" \in pte.xwr /\ "R" \notin pte.xwr)
      /\ IF EffectivePriv(acc) = PRV_S THEN pte.u => sum ELSE pte.u
      /\ acc \in granted

\* riscv_cpu_get_phys_addr: a page; -1 if the translation fails, -2 if the entry
\* itself may not be read.
get_phys_addr(v, acc) ==
  IF EffectivePriv(acc) = PRV_M \/ satp = Bare
  THEN v
  ELSE IF ~PmpOk(PteWord[satp], PteWord[satp], "R")
       THEN -2
       ELSE IF LeafOk(pt[satp][v], acc)
            THEN pt[satp][v].ppn
            ELSE -1

--------------------------------------------------------------------------------
(* The TLBs. *)

Slot(v) == v % TLBSize
Hit(acc, v) == tlb[acc][Slot(v)].vaddr = v

Fill(acc, v, page) ==
  tlb' = [tlb EXCEPT ![acc][Slot(v)] = [vaddr |-> v, page |-> page]]

\* tlb_flush_all.
Flush ==
  /\ tlb' = EmptyTlb
  /\ ptStale' = FALSE
  /\ mppStale' = FALSE

KeepTlb == UNCHANGED <<tlb, ptStale, mppStale>>

\* code_ptr = code_end = NULL.
CloseWindow == window' = NoEntry /\ winStale' = FALSE

\* A load or store that misses: translate, check the words it touches, and
\* remember the page if it is RAM.
MissAccess(acc, v, w) ==
  LET page == get_phys_addr(v, acc)
  IN  /\ ~Hit(acc, v)
      /\ page \in Pages
      /\ WordOk(page, w, acc)
      /\ IF page \in RamPages THEN Fill(acc, v, page) ELSE UNCHANGED tlb
      /\ UNCHANGED <<priv, mstatus, satp, pt, pmp, window, winStale, ptStale, mppStale>>

\* target_read_insn_slow: only RAM can be executed, and the page is remembered
\* only if the PMP grants execution to the whole of it.
WholePageOk(page) ==
  PmpOk(WordOf(page, 0), WordOf(page, Words - 1), "X")

MissFetch(v, w) ==
  LET page == get_phys_addr(v, "X")
  IN  /\ window = NoEntry
      /\ ~Hit("X", v)
      /\ page \in RamPages
      /\ WordOk(page, w, "X")
      /\ IF WholePageOk(page) THEN Fill("X", v, page) ELSE UNCHANGED tlb
      /\ UNCHANGED <<priv, mstatus, satp, pt, pmp, window, winStale, ptStale, mppStale>>

\* The interpreter's fetch: a hit in the code TLB opens the fetch window, and
\* while it stays inside the window it looks nothing up.
HitFetch(v) ==
  /\ window = NoEntry
  /\ Hit("X", v)
  /\ window' = tlb["X"][Slot(v)] /\ winStale' = ptStale
  /\ KeepTlb
  /\ UNCHANGED <<priv, mstatus, satp, pt, pmp>>

\* The window closes at its end, when the slice ends, and at every jump.
LeavePage ==
  /\ window # NoEntry
  /\ CloseWindow
  /\ KeepTlb
  /\ UNCHANGED <<priv, mstatus, satp, pt, pmp>>

--------------------------------------------------------------------------------
(* What changes the configuration. *)

set_priv_no_flush(p) ==
  /\ priv' = p
  /\ UNCHANGED tlb
  /\ UNCHANGED ptStale
  /\ mppStale' = (mppStale \/ (mprv /\ mpp' # mpp))

set_priv(p) ==
  /\ priv' = p
  /\ IF p # priv
     THEN Flush
     ELSE /\ UNCHANGED <<tlb, ptStale>>
          /\ mppStale' = (mppStale \/ (mprv /\ mpp' # mpp))

\* The condition under which set_mstatus empties the TLBs.
MmuConfigChanges(newMprv, newMpp, newSum, newMxr) ==
  \/ newMprv # mprv \/ newSum # sum \/ newMxr # mxr
  \/ mprv /\ newMpp # mpp

set_mstatus(newMprv, newMpp, newSum, newMxr, newSpp) ==
  /\ IF MmuConfigChanges(newMprv, newMpp, newSum, newMxr) THEN Flush ELSE KeepTlb
  /\ mprv' = newMprv /\ mpp' = newMpp
  /\ sum' = newSum /\ mxr' = newMxr /\ spp' = newSpp
  /\ winStale' = (winStale \/ (newSum # sum /\ window # NoEntry))
  /\ UNCHANGED <<priv, satp, pt, pmp, window>>

WriteMstatus ==
  /\ priv = PRV_M
  /\ \E p \in MppValues, b, c, d \in BOOLEAN, e \in {PRV_U, PRV_S} :
       set_mstatus(b, p, c, d, e)

WriteSstatus ==
  /\ priv >= PRV_S
  /\ \E c, d \in BOOLEAN, e \in {PRV_U, PRV_S} : set_mstatus(mprv, mpp, c, d, e)

\* satp: the TLBs are emptied and the fetch window closed (csr_write returns
\* 2) even if the mode is not supported and satp keeps its value.
WriteSatpNoFlush ==
  /\ priv >= PRV_S
  /\ satp' \in Roots \cup {Bare}
  /\ CloseWindow
  /\ KeepTlb
  /\ UNCHANGED <<priv, mstatus, pt, pmp>>

WriteSatpKeepsWindow ==
  /\ priv >= PRV_S
  /\ satp' \in Roots \cup {Bare}
  /\ Flush
  /\ UNCHANGED <<priv, mstatus, pt, pmp, window, winStale>>

WriteSatp ==
  /\ priv >= PRV_S
  /\ satp' \in Roots \cup {Bare}
  /\ CloseWindow
  /\ Flush
  /\ UNCHANGED <<priv, mstatus, pt, pmp>>

\* pmpcfg and pmpaddr: unpack_pmpaddrs empties the TLBs; the fetch window stays
\* (csr_write returns 0).  Which contents locked entries allow to follow which
\* is not distinguished.
WritePmpNoFlush ==
  /\ priv = PRV_M
  /\ pmp' \in PmpConfigs
  /\ KeepTlb
  /\ UNCHANGED <<priv, mstatus, satp, pt, window, winStale>>

WritePmp ==
  /\ priv = PRV_M
  /\ pmp' \in PmpConfigs
  /\ Flush
  /\ UNCHANGED <<priv, mstatus, satp, pt, window, winStale>>

\* A store of this hart or of another one to a page table.
WritePte ==
  /\ \E root \in Roots, v \in Pages, pte \in Ptes :
       /\ pte # pt[root][v]
       /\ pt' = [pt EXCEPT ![root][v] = pte]
  /\ ptStale' = TRUE /\ winStale' = (window # NoEntry)
  /\ UNCHANGED <<priv, mstatus, satp, pmp, tlb, window, mppStale>>

SfenceVma ==
  /\ priv >= PRV_S
  /\ CloseWindow
  /\ Flush
  /\ UNCHANGED <<priv, mstatus, satp, pt, pmp>>

\* raise_exception2, to machine and to supervisor mode.
TrapToM ==
  /\ mpp' = priv
  /\ set_priv(PRV_M)
  /\ CloseWindow
  /\ UNCHANGED <<mprv, sum, mxr, spp, satp, pt, pmp>>

TrapToS ==
  /\ priv <= PRV_S
  /\ spp' = priv
  /\ UNCHANGED mpp
  /\ set_priv(PRV_S)
  /\ CloseWindow
  /\ UNCHANGED <<mprv, sum, mxr, satp, pt, pmp>>

Mret ==
  /\ priv = PRV_M
  /\ mpp' = PRV_U
  /\ set_priv(mpp)
  /\ CloseWindow
  /\ UNCHANGED <<mprv, sum, mxr, spp, satp, pt, pmp>>

Sret ==
  /\ priv >= PRV_S
  /\ spp' = PRV_U
  /\ UNCHANGED mpp
  /\ set_priv(spp)
  /\ CloseWindow
  /\ UNCHANGED <<mprv, sum, mxr, satp, pt, pmp>>

\* To the privilege in dcsr, from the debug mode the hart starts in.
Dret ==
  /\ priv = PRV_M
  /\ UNCHANGED mpp
  /\ \E p \in Privs : set_priv(p)
  /\ CloseWindow
  /\ UNCHANGED <<mprv, sum, mxr, spp, satp, pt, pmp>>

Next ==
  \/ \E v \in Pages, w \in 0..(Words - 1) :
       \/ \E acc \in {"R", "W"} : MissAccess(acc, v, w)
       \/ MissFetch(v, w)
  \/ \E v \in Pages : HitFetch(v)
  \/ LeavePage
  \/ WriteMstatus
  \/ WriteSstatus
  \/ WriteSatp
  \/ WritePmp
  \/ WritePte
  \/ SfenceVma
  \/ TrapToM
  \/ TrapToS
  \/ Mret
  \/ Sret
  \/ Dret

Spec == Init /\ [][Next]_vars

--------------------------------------------------------------------------------

Cached(acc) == {e \in {tlb[acc][i] : i \in Index} : e.vaddr # -1}

\* A TLB hit returns what a walk would return now: no entry outlives a change
\* of privilege, of mstatus, of satp or of the PMP registers.  Two changes are
\* not the emulator's to announce or are not announced: the guest's writes to
\* its page tables before SFENCE.VMA, and a change of MPP by a trap or MRET
\* that stays in machine mode while MPRV is set (for loads and stores).
TlbCoherent ==
  \A acc \in Access : ~ptStale /\ (acc = "X" \/ ~mppStale) =>
    \A e \in Cached(acc) : get_phys_addr(e.vaddr, acc) = e.page

\* Every word a hit can reach passes the PMP check it skips, for PMP regions of
\* whole pages: "The TLB partically caches PMP decisions" (unpack_pmpaddrs), and
\* "All of this page has full execute access so we can bypass the slow PMP
\* checks" (target_read_insn_slow).  The check before a fill is of the accessed
\* word only, and for code of the first region that overlaps the page.
TlbRespectsPmp ==
  \A acc \in Access : acc = "X" \/ ~mppStale =>
    \A e \in Cached(acc) : \A w \in 0..(Words - 1) : WordOk(e.page, w, acc)

\* The interpreter fetches from its window without looking anything up: what it
\* gets is what a walk would give it now, through every trap, return, CSR write
\* and flush.  Left to the guest are changes of a page table, and of SUM, before
\* the next jump: csr_write flushes the TLBs for SUM and keeps the window.
FetchWindowCoherent ==
  window # NoEntry /\ ~winStale => get_phys_addr(window.vaddr, "X") = window.page
================================================================================
