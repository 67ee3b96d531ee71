------------------------------ MODULE DeviceProofs -----------------------------
(***************************************************************************)
(* The two interrupt controllers, the console, the disk and the mouse, for *)
(* any number of harts and interrupts, register width, amount typed, number*)
(* of sectors and of buffers.                                              *)
(***************************************************************************)
EXTENDS Clint, Plic, Uart, BlockFile, VirtioInput, FiniteSetTheorems, TLAPS

(***************************************************************************)
(* The core-local interruptor.                                             *)
(***************************************************************************)
\* What is left of a slice and what was executed of it.
SliceOK == left \in (-1)..NCycles /\ ran \in 0..NCycles /\ left + ran <= NCycles

\* The comparison is of a signed difference, which orders deadline and time
\* only while the deadline is in the lower half of the register.
ClintInv ==
  /\ mcycle \in Nat
  /\ \A h \in Cpus : timecmp[h] \in Nat /\ timecmp[h] < Word \div 2
  /\ timecmp \in [Cpus -> Nat]
  /\ hart \in Cpus
  /\ mtip \subseteq Cpus /\ msip \subseteq Cpus /\ rewound \subseteq Cpus
  /\ SliceOK
  /\ MtipJustified

\* What dividing by RTC_FREQ_DIV and splitting a register into halves give.
LEMMA DivNat ==
  ASSUME NEW a \in Nat, NEW k \in Nat \ {0}
  PROVE  /\ a \div k \in Nat /\ (a % k) \in Nat
         /\ a = k * (a \div k) + (a % k) /\ (a % k) < k
<1>1. (a % k) \in Nat /\ (a % k) < k
  OBVIOUS
<1>2. a \div k \in Int
  OBVIOUS
<1>3. a \div k >= 0
  OBVIOUS
<1>4. a = k * (a \div k) + (a % k)
  BY SMTT(30)
<1> QED
  BY <1>1, <1>2, <1>3, <1>4

\* A later cycle is no earlier time (rtc_get_time).
LEMMA DivMonotone ==
  ASSUME NEW a \in Nat, NEW b \in Nat, NEW k \in Nat \ {0}, a <= b
  PROVE  a \div k <= b \div k
<1> DEFINE p == a \div k
           q == b \div k
<1>1. p \in Nat /\ q \in Nat
  BY DivNat
<1>2. k * p <= a /\ b < k * (q + 1)
  BY DivNat
<1> HIDE DEF p, q
<1>3. k * p < k * (q + 1)
  BY <1>1, <1>2
<1>4. p < q + 1
  BY <1>1, <1>3
<1> QED
  BY <1>1, <1>4 DEF p, q

\* A difference that fits the register is not wrapped.
LEMMA ModSmall ==
  ASSUME NEW a \in Nat, NEW k \in Nat \ {0}, a < k
  PROVE  a % k = a
OBVIOUS

\* The signed comparison of the main loop finds a deadline expired only if it
\* has passed.
LEMMA ExpiredPassed ==
  ASSUME ClintInv, Expired(hart)
  PROVE  rtc_get_time >= timecmp[hart]
<1> DEFINE t == rtc_get_time
           c == timecmp[hart]
<1>1. Word \in Nat
  BY ClintAssumption DEF Word
<1>2. t \in Nat /\ c \in Nat /\ c < Word \div 2
  BY ClintAssumption, DivNat DEF ClintInv, rtc_get_time
<1>3. (c - t) % Word = 0 \/ (c - t) % Word >= Word \div 2
  BY DEF Expired
<1> HIDE DEF t, c
<1>4. ASSUME c > t PROVE FALSE
  <2>1. c - t \in Nat /\ c - t < Word /\ Word \in Nat \ {0}
    BY <1>1, <1>2, <1>4
  <2>2. (c - t) % Word = c - t
    BY <2>1, ModSmall
  <2> QED
    BY <1>1, <1>2, <1>3, <1>4, <2>2
<1> QED
  BY <1>2, <1>4 DEF t, c

\* A write of mtimecmp takes the interrupt of its hart back.
LEMMA SetTimecmpStep ==
  ASSUME ClintInv, NEW g \in Cpus, NEW v \in Nat,
         SetTimecmp(g, v), SliceOK', hart' = hart
  PROVE  ClintInv'
BY DEF ClintInv, SetTimecmp, Near, MtipJustified, rtc_get_time

\* Setting the time back marks the harts whose timers fired.
LEMMA SetCycleStep ==
  ASSUME ClintInv, NEW c \in Nat,
         SetCycle(c), SliceOK', hart' = hart
  PROVE  ClintInv'
<1>1. c \div RTC_FREQ_DIV \in Nat
  BY ClintAssumption, DivNat
<1> QED
  BY <1>1 DEF ClintInv, SetCycle, MtipJustified, rtc_get_time

\* Every deadline is 0, and no timer fired.
LEMMA ClintInitially == ClintInit => ClintInv
<1> SUFFICES ASSUME ClintInit PROVE ClintInv
  OBVIOUS
<1>1. Word \div 2 > 0
  BY ClintAssumption DEF Word
<1> QED
  BY <1>1, ClintAssumption DEF ClintInit, ClintInv, SliceOK, MtipJustified, Cpus

\* The slices and the register writes preserve the invariant.
LEMMA ClintStep ==
  ASSUME ClintInv, [ClintNext]_clintvars
  PROVE  ClintInv'
<1> USE ClintAssumption
<1>1. rtc_get_time \in Nat
  BY DivNat DEF ClintInv, rtc_get_time
<1>2. ASSUME Step
      PROVE  SliceOK' /\ hart' = hart
  BY <1>2 DEF Step, ClintInv, SliceOK
<1>3. CASE SliceStart
  <2> USE DEF SliceOK
  <2>1. CASE rtc_get_time > 0 /\ Expired(hart)
    BY <1>3, <2>1, ExpiredPassed DEF SliceStart, ClintInv, MtipJustified, rtc_get_time
  <2>2. CASE ~(rtc_get_time > 0 /\ Expired(hart))
    BY <1>3, <2>2 DEF SliceStart, ClintInv, MtipJustified, rtc_get_time
  <2> QED
    BY <2>1, <2>2
<1>4. CASE SliceEnd
  <2>1. mcycle' \in Nat /\ mcycle <= mcycle'
    BY <1>4 DEF SliceEnd, ClintInv, SliceOK
  <2>2. rtc_get_time <= rtc_get_time' /\ rtc_get_time' \in Nat
    BY <2>1, DivMonotone, DivNat DEF ClintInv, rtc_get_time
  <2>3. hart' \in Cpus
    BY <1>4 DEF SliceEnd, ClintInv, Cpus
  <2>4. UNCHANGED <<timecmp, mtip, msip, rewound>> /\ SliceOK'
    BY <1>4 DEF SliceEnd, ClintInv, SliceOK
  <2> QED
    BY <1>1, <2>1, <2>2, <2>3, <2>4 DEF ClintInv, MtipJustified
<1>5. CASE Plain \/ Cut \/ \E g \in Cpus, set \in BOOLEAN : WriteMsip(g, set)
  <2>1. SliceOK' /\ hart' = hart
    BY <1>2, <1>5 DEF Plain, Cut, WriteMsip, ClintInv, SliceOK
  <2> QED
    BY <1>5, <2>1 DEF Plain, Cut, WriteMsip, ClintInv, MtipJustified, rtc_get_time
<1>6. ASSUME NEW g \in Cpus, NEW v \in 0..(Half - 1), WriteTimecmpLo(g, v) \/ WriteTimecmpHi(g, v)
      PROVE  ClintInv'
  <2>1. timecmp[g] \in Nat /\ (Half = 0 \/ timecmp[g] % Half \in Nat)
    BY DEF ClintInv
  <2>2. v \in Nat /\ v * Half + (timecmp[g] % Half) \in Nat
    BY <2>1
  <2> QED
    BY <1>2, <1>6, <2>2, SetTimecmpStep DEF WriteTimecmpLo, WriteTimecmpHi
<1>7. ASSUME NEW g \in Cpus, NEW lo \in 0..(Half - 1), NEW hi \in 0..(Half - 1), WriteTimecmp(g, lo, hi)
      PROVE  ClintInv'
  <2>1. hi * Half + lo \in Nat
    OBVIOUS
  <2> QED
    BY <1>2, <1>7, <2>1, SetTimecmpStep DEF WriteTimecmp
<1>8. ASSUME NEW v \in 0..(Half - 1), WriteMtimeLo(v) \/ WriteMtimeHi(v)
      PROVE  ClintInv'
  <2> DEFINE t == rtc_get_time
  <2>1. Half \in Nat \ {0} /\ v \in Nat
    OBVIOUS
  <2>2. (t % Half) \in Nat /\ (t % Half) <= t
    <3>1. t = Half * (t \div Half) + (t % Half) /\ t \div Half \in Nat /\ t % Half \in Nat
      BY <1>1, <2>1, DivNat
    <3>2. Half * (t \div Half) \in Nat
      BY <2>1, <3>1
    <3> QED
      BY <3>1, <3>2
  <2>3. t - (t % Half) + v \in Nat /\ (t % Half) + v * Half \in Nat
    BY <1>1, <2>1, <2>2
  <2>4. (t - (t % Half) + v) * RTC_FREQ_DIV \in Nat /\ ((t % Half) + v * Half) * RTC_FREQ_DIV \in Nat
    BY <2>3
  <2> QED
    BY <1>2, <1>8, <2>4, SetCycleStep DEF WriteMtimeLo, WriteMtimeHi
<1>9. ASSUME NEW c \in 0..MaxCycle, WriteMcycle(c)
      PROVE  ClintInv'
  BY <1>2, <1>9, SetCycleStep DEF WriteMcycle
<1>10. CASE UNCHANGED clintvars
  BY <1>10 DEF clintvars, ClintInv, SliceOK, MtipJustified, rtc_get_time
<1> QED
  BY <1>3, <1>4, <1>5, <1>6, <1>7, <1>8, <1>9, <1>10 DEF ClintNext

\* A timer interrupt is pending only if its deadline has passed, unless the
\* time was set back after it fired, and every register holds what fits into
\* it, for any number of harts, clock divider and register width (clint_write,
\* virt_machine_get_sleep_duration).
THEOREM TimersRight == ClintSpec => []TimersExact
<1>1. ClintInit => ClintInv
  BY ClintInitially
<1>2. ClintInv /\ [ClintNext]_clintvars => ClintInv'
  BY ClintStep
<1>3. ClintInv => TimersExact
  <2> SUFFICES ASSUME ClintInv PROVE TimersExact
    OBVIOUS
  <2>1. Word \in Nat \ {0}
    BY ClintAssumption DEF Word
  <2>2. timecmp \in [Cpus -> 0..(Word - 1)]
    BY <2>1 DEF ClintInv
  <2> QED
    BY <2>2 DEF ClintInv, SliceOK, ClintTypeOK, TimersExact
<1> QED
  BY <1>1, <1>2, <1>3, PTL DEF ClintSpec

(***************************************************************************)
(* The interrupt controller.                                               *)
(***************************************************************************)
\* ServedByOne needs the history of the claims to agree with the mask: an
\* interrupt somebody owns is served, so it cannot be claimed.
PlicInv == TypeOK /\ MaskedOnlyWhileServed

\* The bits plic_update_mip computes.
LEMMA LinesType == \A h : Lines(h) \subseteq {"SEIP", "MEIP"}
BY DEF Lines, Bit

\* virt_machine_init leaves nothing pending, served or owned.
LEMMA PlicInitially == PlicAssumption /\ Init => PlicInv
<1> SUFFICES ASSUME PlicAssumption, Init
             PROVE  TypeOK /\ MaskedOnlyWhileServed
  BY DEF PlicInv
<1>1. plic_enable_irq \in [Harts -> [{0, 1} -> SUBSET Irqs]]
  BY DEF Init
<1>2. mip \in [Harts -> SUBSET {"SEIP", "MEIP"}]
  BY DEF Init
<1>3. owner \in [Irqs -> Contexts \cup {-1}] /\ \A i \in Irqs : owner[i] = -1
  BY DEF Init
<1> QED
  BY <1>1, <1>2, <1>3 DEF Init, TypeOK, MaskedOnlyWhileServed

\* The steps preserve the invariant and keep an owner until it completes.
LEMMA PlicStep ==
  ASSUME PlicAssumption, PlicInv, [Next]_vars
  PROVE  PlicInv' /\ KeepsOwner
<1> USE DEF PlicInv, KeepsOwner, MaskedOnlyWhileServed
<1>1. ASSUME NEW i \in Irqs, NEW state \in BOOLEAN, plic_set_irq(i, state)
      PROVE  PlicInv' /\ KeepsOwner
  <2>1. mip' \in [Harts -> SUBSET {"SEIP", "MEIP"}]
    BY <1>1, LinesType DEF plic_set_irq, plic_update_mip, Lines, Bit
  <2> QED
    BY <1>1, <2>1 DEF plic_set_irq, TypeOK
<1>2. ASSUME NEW c \in Contexts, Claim(c)
      PROVE  PlicInv' /\ KeepsOwner
  <2>1. PICK i \in Claimable :
          /\ plic_served_irq' = plic_served_irq \cup {i}
          /\ plic_pending_irq' = plic_pending_irq \ {i}
          /\ owner' = [owner EXCEPT ![i] = c]
    BY <1>2 DEF Claim
  <2>2. i \in Irqs /\ i \notin plic_served_irq
    BY <2>1 DEF Claimable, TypeOK
  <2>4. mip' \in [Harts -> SUBSET {"SEIP", "MEIP"}]
    BY <1>2 DEF Claim, plic_update_mip, Lines, Bit, TypeOK
  <2>5. TypeOK'
    BY <1>2, <2>1, <2>2, <2>4 DEF Claim, TypeOK
  <2>6. c # -1
    BY DEF Contexts, PlicAssumption
  <2> QED
    BY <2>1, <2>2, <2>5, <2>6 DEF TypeOK
<1>3. ASSUME NEW c \in Contexts, NEW i \in Irqs, Finish(c, i)
      PROVE  PlicInv' /\ KeepsOwner
  BY <1>3 DEF Finish, TypeOK
<1>4. ASSUME NEW h \in Harts, NEW ctx \in {0, 1}, NEW irqs \in SUBSET Irqs, Enable(h, ctx, irqs)
      PROVE  PlicInv' /\ KeepsOwner
  BY <1>4 DEF Enable, TypeOK
<1>5. ASSUME NEW h \in Harts, NEW bits \in SUBSET {"SEIP"}, WriteMip(h, bits)
      PROVE  PlicInv' /\ KeepsOwner
  BY <1>5 DEF WriteMip, TypeOK
<1>6. CASE UNCHANGED vars
  BY <1>6 DEF vars, TypeOK
<1> QED
  BY <1>1, <1>2, <1>3, <1>4, <1>5, <1>6 DEF Next

\* Between two refreshes a hart that is not marked stale keeps exact lines.
LEMMA LinesStep ==
  ASSUME PlicAssumption, TypeOK, LinesExact, [Next]_vars
  PROVE  LinesExact'
<1> USE DEF LinesExact
<1>1. ASSUME NEW i \in Irqs, NEW state \in BOOLEAN, plic_set_irq(i, state)
      PROVE  LinesExact'
  BY <1>1 DEF plic_set_irq, plic_update_mip
<1>2. ASSUME NEW c \in Contexts, Claim(c)
      PROVE  LinesExact'
  BY <1>2 DEF Claim, plic_update_mip
<1>3. ASSUME NEW c \in Contexts, NEW i \in Irqs, Finish(c, i)
      PROVE  LinesExact'
  BY <1>3 DEF Finish
<1>4. ASSUME NEW h \in Harts, NEW ctx \in {0, 1}, NEW irqs \in SUBSET Irqs, Enable(h, ctx, irqs)
      PROVE  LinesExact'
  BY <1>4 DEF Enable, Lines, Waiting, TypeOK
<1>5. ASSUME NEW h \in Harts, NEW bits \in SUBSET {"SEIP"}, WriteMip(h, bits)
      PROVE  LinesExact'
  BY <1>5 DEF WriteMip, Lines, Waiting, TypeOK
<1>6. CASE UNCHANGED vars
  BY <1>6 DEF vars, Lines, Waiting
<1> QED
  BY <1>1, <1>2, <1>3, <1>4, <1>5, <1>6 DEF Next

\* An interrupt is masked exactly while a context serves it.
THEOREM PlicMasks ==
  ASSUME PlicAssumption
  PROVE  Spec => []MaskedOnlyWhileServed
<1>1. Init => PlicInv
  BY PlicInitially
<1>2. PlicInv /\ [Next]_vars => PlicInv'
  BY PlicStep
<1>3. PlicInv => MaskedOnlyWhileServed
  BY DEF PlicInv
<1> QED
  BY <1>1, <1>2, <1>3, PTL DEF Spec

\* A claimed interrupt is not handed out again before its claimant completes
\* it (plic_read).
THEOREM PlicServedByOne ==
  ASSUME PlicAssumption
  PROVE  Spec => ServedByOne
<1>1. Init => PlicInv
  BY PlicInitially
<1>2. PlicInv /\ [Next]_vars => PlicInv' /\ [KeepsOwner]_vars
  BY PlicStep
<1> QED
  BY <1>1, <1>2, PTL DEF Spec, ServedByOne

\* Every hart that plic_update_mip has caught up with has exact lines.
THEOREM PlicLinesExact ==
  ASSUME PlicAssumption
  PROVE  Spec => []LinesExact
<1>1. Init => PlicInv /\ LinesExact
  BY PlicInitially DEF Init, LinesExact, Lines, Waiting, Harts
<1>2. PlicInv /\ LinesExact /\ [Next]_vars => (PlicInv /\ LinesExact)'
  BY PlicStep, LinesStep DEF PlicInv
<1> QED
  BY <1>1, <1>2, PTL DEF Spec

(***************************************************************************)
(* The disk.                                                               *)
(***************************************************************************)
\* What a sector reads as; ReadsLatest is this of every sector of a request.
Sector(s) == IF mode = "SNAPSHOT" /\ sector_table[s] /= None THEN sector_table[s] ELSE file[s]

\* None marks the sectors the snapshot does not hold, so it may be none of the
\* contents; seen is the overlay of the snapshot over the file.
BlockInv ==
    /\ mode \in Modes
    /\ file \in [Numbers -> Contents]
    /\ sector_table \in [Numbers -> Contents \cup {None}]
    /\ seen = [s \in Numbers |-> Sector(s)]

\* A disk that was just opened reads as its file.
LEMMA BlockInitially == DiskInit => BlockInv
<1> SUFFICES ASSUME DiskInit PROVE BlockInv
  OBVIOUS
<1>1. seen = [s \in Numbers |-> Sector(s)]
  BY DEF DiskInit, Sector
<1> QED
  BY <1>1 DEF DiskInit, BlockInv

\* A write in any mode, refused or not, keeps the overlay.
LEMMA BlockStep ==
    ASSUME BlockInv, [DiskNext]_diskvars
    PROVE  BlockInv' /\ (mode /= "RW" => file' = file)
<1> USE DiskAssumption
<1>1. CASE UNCHANGED diskvars
  BY <1>1 DEF diskvars, BlockInv, Sector
<1>2. ASSUME NEW first \in Numbers, NEW n \in 1..Sectors, NEW data \in Contents,
             bf_write_async(first, n, data), ~UNCHANGED diskvars
      PROVE  BlockInv' /\ (mode /= "RW" => file' = file)
  <2> DEFINE W(old) == Written(old, first, n, data)
  <2>1. \A old : W(old) = [s \in Numbers |-> IF s - first \in 0..(n - 1) THEN data ELSE old[s]]
    BY DEF Written
  <2>2. CASE mode = "RW"
    <3>1. file' = W(file) /\ seen' = W(seen) /\ UNCHANGED <<mode, sector_table>>
      BY <1>2, <2>2 DEF bf_write_async
    <3>2. file' \in [Numbers -> Contents]
      BY <2>1, <3>1 DEF BlockInv
    <3>3. \A s \in Numbers : seen'[s] = file'[s]
      BY <2>1, <2>2, <3>1 DEF BlockInv, Sector
    <3>4. seen' = [s \in Numbers |-> Sector(s)']
      BY <2>1, <2>2, <3>1, <3>3 DEF Sector
    <3> QED
      BY <2>2, <3>1, <3>2, <3>4 DEF BlockInv
  <2>3. CASE mode = "SNAPSHOT"
    <3>1. sector_table' = W(sector_table) /\ seen' = W(seen) /\ UNCHANGED <<mode, file>>
      BY <1>2, <2>3 DEF bf_write_async
    <3>2. sector_table' \in [Numbers -> Contents \cup {None}]
      BY <2>1, <3>1 DEF BlockInv
    <3>3. \A s \in Numbers : seen'[s] = Sector(s)'
      BY <2>1, <2>3, <3>1 DEF BlockInv, Sector
    <3>4. seen' = [s \in Numbers |-> Sector(s)']
      BY <2>1, <3>1, <3>3
    <3> QED
      BY <2>3, <3>1, <3>2, <3>4 DEF BlockInv
  <2>4. mode # "RO"
    BY <1>2 DEF bf_write_async
  <2> QED
    BY <2>2, <2>3, <2>4 DEF BlockInv, Modes
<1> QED
  BY <1>1, <1>2 DEF DiskNext

\* Every read of the disk returns what was last written to each sector, in
\* every mode and for disks of every size, and only a read-write disk has its
\* file changed (bf_read_async, bf_write_async).
THEOREM DiskRight == DiskSpec => DiskExact
<1>1. DiskInit => BlockInv
  BY BlockInitially
<1>2. BlockInv => ReadsLatest
  BY DiskAssumption DEF BlockInv, Sector, ReadsLatest, bf_read_async, Numbers
<1>3. BlockInv /\ [DiskNext]_diskvars => BlockInv' /\ [KeepsFile]_diskvars
  BY BlockStep DEF KeepsFile
<1> QED
  BY <1>1, <1>2, <1>3, PTL DEF DiskSpec, DiskExact

(***************************************************************************)
(* The console.                                                            *)
(***************************************************************************)
Byte == [id : Nat, ch : Chars \cup {"none"}]

Dw == got \o Held

Ordered(s) == \A i, j \in DOMAIN s : i < j => s[i].id < s[j].id

UartTypes ==
    /\ stdin \in Seq(Byte) /\ typed \in Seq(Byte) /\ got \in Seq(Byte) /\ sifive \in Seq(Byte)
    /\ rhr \in Byte

\* What is left in the terminal is the end of what was typed.
Streamed ==
    /\ Consumed \in Nat
    /\ \A k \in 1..Len(stdin) : stdin[k] = typed[Consumed + k]
    /\ \A i \in 1..Len(typed) : typed[i].id = i

\* The escape state is the parity of the run of escape characters before the
\* next byte.
EscapeExact ==
    \E j \in 0..Consumed : RunFrom(j, Consumed + 1) /\ (console_esc_state <=> (Consumed - j) % 2 = 1)

UartInv == UartTypes /\ Streamed /\ EscapeExact /\ NoByteLost

\* There is one run before a byte.
LEMMA OneRun ==
    ASSUME NEW i \in Nat, NEW j \in 0..(i - 1), NEW k \in 0..(i - 1), RunFrom(j, i), RunFrom(k, i)
    PROVE  j = k
BY DEF RunFrom

\* So the escape state says whether the next byte is a command.
LEMMA EscapeState ==
    ASSUME Streamed, EscapeExact
    PROVE  console_esc_state <=> Escaped(Consumed + 1)
<1> DEFINE n == Consumed
<1>1. n \in Nat
  BY DEF Streamed
<1>2. PICK j \in 0..n : RunFrom(j, n + 1) /\ (console_esc_state <=> (n - j) % 2 = 1)
  BY DEF EscapeExact
<1> HIDE DEF n
<1>3. \A k \in 0..n : RunFrom(k, n + 1) => k = j
  BY <1>1, <1>2, OneRun
<1>4. Escaped(n + 1) <=> \E k \in 0..n : RunFrom(k, n + 1) /\ (n - k) % 2 = 1
  BY <1>1 DEF Escaped
<1>5. Escaped(n + 1) <=> (n - j) % 2 = 1
  BY <1>2, <1>3, <1>4
<1> QED
  BY <1>2, <1>5 DEF n

\* The run before the byte after m ends the m bytes read by then.
LEMMA NextRun ==
    ASSUME NEW m \in Nat, Consumed' = m, NEW j \in 0..m,
           \A k \in (j + 1)..m : typed'[k].ch = "C-b", j > 0 => typed'[j].ch # "C-b",
           console_esc_state' <=> (m - j) % 2 = 1
    PROVE  EscapeExact'
<1>1. RunFrom(j, m + 1)'
  BY DEF RunFrom
<1>2. RunFrom(j, Consumed + 1)'
  BY <1>1 DEF RunFrom
<1>3. console_esc_state' <=> (Consumed' - j) % 2 = 1
  BY Zenon
<1>4. j \in 0..Consumed'
  OBVIOUS
<1> QED
  BY <1>2, <1>3, <1>4, Zenon DEF EscapeExact

\* console_read of a byte: it is passed on exactly if the filter passes it.
LEMMA ReadsByte ==
    ASSUME UartTypes, Streamed, EscapeExact, stdin # <<>>, console_read, typed' = typed
    PROVE  /\ Consumed' = Consumed + 1 /\ Streamed' /\ EscapeExact'
           /\ stdin' \in Seq(Byte)
           /\ \/ Taken = <<>> /\ Passed' = Passed
              \/ /\ Taken = <<typed[Consumed + 1]>> /\ typed[Consumed + 1] \in Byte
                 /\ typed[Consumed + 1].id = Consumed + 1
                 /\ Passed' = Passed \cup {Consumed + 1}
<1> DEFINE n == Consumed
           b == typed[n + 1]
<1>1. /\ n \in Nat /\ n = Len(typed) - Len(stdin)
      /\ Len(stdin) \in Nat /\ Len(typed) \in Nat /\ Len(stdin) >= 1
  BY DEF UartTypes, Streamed, Consumed
<1>2. n + 1 \in 1..Len(typed)
  BY <1>1
<1>3. Head(stdin) = b /\ b \in Byte /\ b.id = n + 1
  <2>1. Head(stdin) = stdin[1] /\ stdin[1] = b
    BY <1>1 DEF Streamed, UartTypes
  <2> QED
    BY <1>2, <2>1 DEF Streamed, UartTypes
<1>4. /\ stdin' = Tail(stdin) /\ stdin' \in Seq(Byte) /\ Len(stdin') = Len(stdin) - 1
      /\ \A k \in 1..Len(stdin') : stdin'[k] = stdin[k + 1]
  BY <1>1 DEF console_read, UartTypes
<1>5. Consumed' = n + 1
  BY <1>1, <1>4 DEF Consumed
<1> HIDE DEF n, b
<1>6. Streamed'
  <2>1. \A k \in 1..Len(stdin') : stdin'[k] = typed[(n + 1) + k]
    <3> TAKE k \in 1..Len(stdin')
    <3>1. stdin'[k] = stdin[k + 1] /\ k + 1 \in 1..Len(stdin) /\ n + (k + 1) = (n + 1) + k
      BY <1>1, <1>4
    <3> QED
      BY <3>1 DEF Streamed, n
  <2> QED
    BY <1>1, <1>5, <2>1 DEF Streamed
<1>7. console_esc_state' <=> (~console_esc_state /\ b.ch = "C-b")
  BY <1>3 DEF console_read, EscAfter
<1>8. EscapeExact'
  <2>1. PICK j \in 0..n : RunFrom(j, n + 1) /\ (console_esc_state <=> (n - j) % 2 = 1)
    BY DEF EscapeExact, n
  <2>2. CASE b.ch = "C-b"
    <3>1. (\A k \in (j + 1)..(n + 1) : typed'[k].ch = "C-b") /\ (j > 0 => typed'[j].ch # "C-b")
      <4>1. (n + 1) - 1 = n
        BY <1>1
      <4>2. (\A k \in (j + 1)..n : typed[k].ch = "C-b") /\ (j > 0 => typed[j].ch # "C-b")
        BY <2>1, <4>1 DEF RunFrom
      <4>3. (j + 1)..(n + 1) = ((j + 1)..n) \cup {n + 1}
        BY <1>1
      <4> QED
        BY <2>2, <4>2, <4>3 DEF b
    <3>2. ((n + 1) - j) % 2 = 1 <=> ~((n - j) % 2 = 1)
      BY <1>1
    <3>3. console_esc_state' <=> ((n + 1) - j) % 2 = 1
      BY <1>7, <2>1, <2>2, <3>2
    <3>4. n + 1 \in Nat /\ j \in 0..(n + 1)
      BY <1>1
    <3> QED
      BY <1>5, <3>1, <3>3, <3>4, NextRun, Zenon
  <2>3. CASE b.ch # "C-b"
    <3>1. /\ \A k \in ((n + 1) + 1)..(n + 1) : typed'[k].ch = "C-b"
          /\ n + 1 > 0 => typed'[n + 1].ch # "C-b"
      BY <1>1, <2>3 DEF b
    <3>2. ~(((n + 1) - (n + 1)) % 2 = 1)
      BY <1>1
    <3>3. console_esc_state' <=> ((n + 1) - (n + 1)) % 2 = 1
      BY <1>7, <2>3, <3>2
    <3>4. n + 1 \in Nat /\ n + 1 \in 0..(n + 1)
      BY <1>1
    <3> QED
      BY <1>5, <3>1, <3>3, <3>4, NextRun, Zenon
  <2> QED
    BY <2>2, <2>3
<1>9. Taken = IF (IF Escaped(n + 1) THEN b.ch = "C-a" ELSE b.ch # "C-b") THEN <<b>> ELSE <<>>
  BY <1>3, EscapeState DEF Taken, n
<1>10. Passed' = {i \in 1..(n + 1) : IF Escaped(i) THEN typed[i].ch = "C-a" ELSE typed[i].ch # "C-b"}
  <2>1. \A i : Escaped(i)' <=> Escaped(i)
    BY DEF Escaped, RunFrom
  <2> QED
    BY <1>5, <2>1 DEF Passed
<1>11. Passed = {i \in 1..n : IF Escaped(i) THEN typed[i].ch = "C-a" ELSE typed[i].ch # "C-b"}
  BY DEF Passed, n
<1>12. \/ Taken = <<>> /\ Passed' = Passed
       \/ Taken = <<b>> /\ Passed' = Passed \cup {n + 1}
  <2>1. 1..(n + 1) = (1..n) \cup {n + 1}
    BY <1>1
  <2> QED
    BY <1>9, <1>10, <1>11, <2>1 DEF b
<1> QED
  BY <1>3, <1>4, <1>5, <1>6, <1>8, <1>12 DEF n, b

\* A byte later than all that a UART delivered so far.
LEMMA Delivers ==
    ASSUME NEW s \in Seq(Byte), NEW b \in Byte, Ordered(s), \A i \in Ids(s) : i < b.id
    PROVE  /\ s \o <<b>> \in Seq(Byte) /\ Ordered(s \o <<b>>)
           /\ Ids(s \o <<b>>) = Ids(s) \cup {b.id}
<1> DEFINE t == s \o <<b>>
<1>1. /\ t \in Seq(Byte) /\ Len(t) = Len(s) + 1 /\ t[Len(s) + 1] = b
      /\ \A i \in 1..Len(s) : t[i] = s[i]
  OBVIOUS
<1>2. Len(s) \in Nat /\ DOMAIN s = 1..Len(s) /\ DOMAIN t = 1..(Len(s) + 1)
  BY <1>1
<1> HIDE DEF t
<1>3. \A i \in DOMAIN s : s[i].id \in Ids(s) /\ s[i].id < b.id
  BY DEF Ids
<1>4. Ids(t) = Ids(s) \cup {b.id}
  <2>1. \A i \in DOMAIN t : t[i].id \in Ids(s) \cup {b.id}
    BY <1>1, <1>2, <1>3
  <2>2. \A i \in DOMAIN s : i \in DOMAIN t /\ t[i].id = s[i].id
    BY <1>1, <1>2
  <2>3. Len(s) + 1 \in DOMAIN t /\ t[Len(s) + 1].id = b.id
    BY <1>1, <1>2
  <2> QED
    BY <2>1, <2>2, <2>3 DEF Ids
<1>5. Ordered(t)
  <2> SUFFICES ASSUME NEW i \in DOMAIN t, NEW j \in DOMAIN t, i < j PROVE t[i].id < t[j].id
    BY DEF Ordered
  <2>1. CASE j = Len(s) + 1
    BY <1>1, <1>2, <1>3, <2>1
  <2>2. CASE j # Len(s) + 1
    BY <1>1, <1>2, <2>2 DEF Ordered
  <2> QED
    BY <2>1, <2>2
<1> QED
  BY <1>1, <1>4, <1>5 DEF t

\* NoByteLost, part by part.
LEMMA NoByteLostParts ==
    NoByteLost <=> /\ Ids(Dw) \cup Ids(sifive) = Passed /\ Ids(Dw) \cap Ids(sifive) = {}
                   /\ Ordered(Dw) /\ Ordered(sifive)
BY DEF NoByteLost, Dw, Ordered

\* The same after a step.
LEMMA NoByteLostPartsNext ==
    NoByteLost' <=> /\ Ids(Dw') \cup Ids(sifive') = Passed' /\ Ids(Dw') \cap Ids(sifive') = {}
                    /\ Ordered(Dw') /\ Ordered(sifive')
BY DEF NoByteLost, Dw, Ordered, Ids

\* What the DesignWare UART delivered, and what it holds in its receive register.
LEMMA DwIs ==
    ASSUME UartTypes
    PROVE  /\ Dw \in Seq(Byte)
           /\ "RXRDY" \in lsr => Dw = got \o <<rhr>>
           /\ "RXRDY" \notin lsr => Dw = got
BY DEF UartTypes, Dw, Held

\* The same after a step.
LEMMA DwIsNext ==
    ASSUME UartTypes'
    PROVE  /\ "RXRDY" \in lsr' => Dw' = got' \o <<rhr'>>
           /\ "RXRDY" \notin lsr' => Dw' = got'
BY DEF UartTypes, Dw, Held

\* A handler that reads nothing and delivers nothing.
LEMMA UartSame ==
    ASSUME UartInv, UartTypes', UNCHANGED <<stdin, typed, console_esc_state>>, Dw' = Dw, sifive' = sifive
    PROVE  UartInv'
<1>1. Consumed' = Consumed /\ Passed' = Passed
  BY DEF Consumed, Passed, Escaped, RunFrom
<1>2. Streamed' /\ EscapeExact'
  BY <1>1 DEF UartInv, Streamed, EscapeExact, RunFrom
<1>3. NoByteLost'
  BY <1>1, NoByteLostParts, NoByteLostPartsNext DEF UartInv
<1> QED
  BY <1>2, <1>3 DEF UartInv

\* A handler that reads from the terminal gives what it reads to one UART.
LEMMA UartReads ==
    ASSUME UartInv, UartTypes', console_read, typed' = typed,
           \/ Dw' = Dw \o Taken /\ sifive' = sifive
           \/ Dw' = Dw /\ sifive' = sifive \o Taken
    PROVE  UartInv'
<1>1. Dw \in Seq(Byte) /\ sifive \in Seq(Byte)
  BY DwIs DEF UartInv, UartTypes
<1>2. Dw \o <<>> = Dw /\ sifive \o <<>> = sifive
  BY <1>1
<1>3. CASE stdin = <<>>
  <2>1. Taken = <<>> /\ UNCHANGED <<stdin, console_esc_state>>
    BY <1>3 DEF console_read, Taken, EscAfter
  <2> QED
    BY <1>2, <2>1, UartSame
<1>4. CASE stdin # <<>>
  <2> DEFINE n == Consumed
             b == typed[n + 1]
  <2>1. /\ Streamed' /\ EscapeExact'
        /\ \/ Taken = <<>> /\ Passed' = Passed
           \/ Taken = <<b>> /\ b \in Byte /\ b.id = n + 1 /\ Passed' = Passed \cup {n + 1}
    BY <1>4, ReadsByte DEF UartInv
  <2>2. n \in Nat /\ Passed \subseteq 1..n
    BY DEF UartInv, Streamed, Passed
  <2>3. /\ Ids(Dw) \cup Ids(sifive) = Passed /\ Ids(Dw) \cap Ids(sifive) = {}
        /\ Ordered(Dw) /\ Ordered(sifive)
    BY NoByteLostParts DEF UartInv
  <2> HIDE DEF n, b
  <2>4. CASE Taken = <<>> /\ Passed' = Passed
    BY <1>2, <2>1, <2>3, <2>4, NoByteLostPartsNext DEF UartInv
  <2>5. CASE Taken = <<b>> /\ b \in Byte /\ b.id = n + 1 /\ Passed' = Passed \cup {n + 1}
    <3>1. \A i \in Passed : i < b.id
      BY <2>2, <2>5
    <3>2. /\ Ids(Dw \o <<b>>) = Ids(Dw) \cup {n + 1} /\ Ordered(Dw \o <<b>>)
          /\ Ids(sifive \o <<b>>) = Ids(sifive) \cup {n + 1} /\ Ordered(sifive \o <<b>>)
      <4>1. (\A i \in Ids(Dw) : i < b.id) /\ (\A i \in Ids(sifive) : i < b.id)
        BY <2>3, <3>1
      <4> QED
        BY <1>1, <2>3, <2>5, <4>1, Delivers
    <3>3. n + 1 \notin Passed
      BY <2>2
    <3>4. CASE Dw' = Dw \o <<b>> /\ sifive' = sifive
      <4>1. Ids(Dw') \cup Ids(sifive') = Passed' /\ Ids(Dw') \cap Ids(sifive') = {}
        BY <2>3, <2>5, <3>2, <3>3, <3>4
      <4> QED
        BY <2>1, <2>3, <3>2, <3>4, <4>1, NoByteLostPartsNext DEF UartInv
    <3>5. CASE Dw' = Dw /\ sifive' = sifive \o <<b>>
      <4>1. Ids(Dw') \cup Ids(sifive') = Passed' /\ Ids(Dw') \cap Ids(sifive') = {}
        BY <2>3, <2>5, <3>2, <3>3, <3>5
      <4> QED
        BY <2>1, <2>3, <3>2, <3>5, <4>1, NoByteLostPartsNext DEF UartInv
    <3> QED
      BY <2>5, <3>4, <3>5
  <2> QED
    BY <2>1, <2>4, <2>5
<1> QED
  BY <1>3, <1>4

\* What console_read returns is a byte or nothing.
LEMMA TakenIs ==
    ASSUME UartTypes
    PROVE  Taken = <<>> \/ (Taken = <<Head(stdin)>> /\ Head(stdin) \in Byte)
BY DEF UartTypes, Taken

\* A poll with the line status l keeps the byte in the register, or fills it.
LEMMA PollStep ==
    ASSUME UartInv, NEW l, "RXRDY" \in l <=> "RXRDY" \in lsr, dw_apb_uart_poll(l),
           UNCHANGED <<typed, got, sifive>>
    PROVE  UartInv'
<1>0. UartTypes
  BY DEF UartInv
<1>1. CASE "RXRDY" \in l
  <2>1. UNCHANGED <<stdin, console_esc_state, rhr>> /\ lsr' = l
    BY <1>1 DEF dw_apb_uart_poll
  <2>2. UartTypes'
    BY <1>0, <2>1 DEF UartTypes
  <2>3. Dw' = Dw
    BY <1>0, <1>1, <2>1, <2>2, DwIs, DwIsNext
  <2> QED
    BY <2>1, <2>2, <2>3, UartSame
<1>2. CASE "RXRDY" \notin l
  <2>1. /\ console_read
        /\ lsr' = IF Taken = <<>> THEN l ELSE l \cup {"RXRDY"}
        /\ rhr' = IF Taken = <<>> THEN rhr ELSE Head(Taken)
    BY <1>2 DEF dw_apb_uart_poll
  <2>2. Taken = <<>> \/ (Taken = <<Head(stdin)>> /\ Head(stdin) \in Byte)
    BY <1>0, TakenIs
  <2>3. rhr' \in Byte
    BY <1>0, <2>1, <2>2 DEF UartTypes
  <2>4. UartTypes'
    BY <1>0, <2>1, <2>3 DEF UartTypes, console_read
  <2>5. Dw = got /\ got \in Seq(Byte)
    BY <1>0, <1>2, DwIs DEF UartTypes
  <2>6. Dw' = Dw \o Taken
    <3>1. CASE Taken = <<>>
      <4>1. Dw' = got
        BY <1>2, <2>1, <2>4, <3>1, DwIsNext
      <4> QED
        BY <2>5, <3>1, <4>1
    <3>2. CASE Taken = <<Head(stdin)>>
      <4>1. rhr' = Head(stdin) /\ "RXRDY" \in lsr'
        BY <2>1, <3>2
      <4> QED
        BY <2>4, <2>5, <3>2, <4>1, DwIsNext
    <3> QED
      BY <2>2, <3>1, <3>2
  <2> QED
    BY <2>1, <2>4, <2>6, UartReads
<1> QED
  BY <1>1, <1>2

\* The guest's read of the receive register moves the byte, if there is one.
LEMMA ReadRhrStep ==
    ASSUME UartInv, read_rhr
    PROVE  UartInv'
<1>0. UartTypes
  BY DEF UartInv
<1>1. /\ lsr' = lsr \ {"RXRDY"} /\ got' = IF "RXRDY" \in lsr THEN Append(got, rhr) ELSE got
      /\ UNCHANGED <<stdin, typed, console_esc_state, rhr, sifive>>
  BY DEF read_rhr
<1>2. got \in Seq(Byte) /\ rhr \in Byte
  BY <1>0 DEF UartTypes
<1>3. Append(got, rhr) = got \o <<rhr>> /\ Append(got, rhr) \in Seq(Byte)
  BY <1>2
<1>4. UartTypes'
  BY <1>0, <1>1, <1>3 DEF UartTypes
<1>5. Dw' = Dw
  BY <1>0, <1>1, <1>3, <1>4, DwIs, DwIsNext
<1> QED
  BY <1>1, <1>4, <1>5, UartSame

\* Typing adds to what is left in the terminal, and moves nothing.
LEMMA TypeStep ==
    ASSUME UartInv, NEW ch \in Chars, Type(ch)
    PROVE  UartInv'
<1> DEFINE byte == [id |-> Len(typed) + 1, ch |-> ch]
           n == Consumed
<1>1. /\ typed' = Append(typed, byte) /\ stdin' = Append(stdin, byte)
      /\ UNCHANGED <<console_esc_state, lsr, rhr, got, sifive>>
  BY DEF Type
<1>2. UartTypes /\ Streamed /\ EscapeExact
  BY DEF UartInv
<1>3. byte \in Byte /\ byte.id = Len(typed) + 1
  BY <1>2 DEF UartTypes, Byte
<1> HIDE DEF byte
<1>4. UartTypes'
  BY <1>1, <1>2, <1>3 DEF UartTypes
<1>5. /\ Len(typed') = Len(typed) + 1 /\ Len(stdin') = Len(stdin) + 1
      /\ Len(typed) \in Nat /\ Len(stdin) \in Nat
      /\ \A i \in 1..Len(typed) : typed'[i] = typed[i]
      /\ typed'[Len(typed) + 1] = byte
      /\ \A i \in 1..Len(stdin) : stdin'[i] = stdin[i]
      /\ stdin'[Len(stdin) + 1] = byte
  BY <1>1, <1>2, <1>3 DEF UartTypes
<1>6. Consumed' = n /\ n \in Nat /\ n + Len(stdin) = Len(typed)
  BY <1>2, <1>5 DEF Consumed, Streamed
<1>7. Streamed'
  <2>1. \A k \in 1..Len(stdin) : stdin[k] = typed[n + k]
    BY <1>2 DEF Streamed
  <2>2. \A i \in 1..Len(typed) : typed[i].id = i
    BY <1>2 DEF Streamed
  <2> HIDE DEF n
  <2>3. \A k \in 1..Len(stdin') : stdin'[k] = typed'[n + k]
    <3> TAKE k \in 1..Len(stdin')
    <3>1. CASE k \in 1..Len(stdin)
      BY <1>5, <1>6, <2>1, <3>1
    <3>2. CASE k = Len(stdin) + 1
      BY <1>5, <1>6, <3>2
    <3> QED
      BY <1>5, <3>1, <3>2
  <2>4. \A i \in 1..Len(typed') : typed'[i].id = i
    BY <1>3, <1>5, <2>2
  <2> QED
    BY <1>6, <2>3, <2>4 DEF Streamed
<1>8. EscapeExact'
  <2>1. PICK j \in 0..n : RunFrom(j, n + 1) /\ (console_esc_state <=> (n - j) % 2 = 1)
    BY <1>2 DEF EscapeExact
  <2> HIDE DEF n
  <2>2. (\A k \in (j + 1)..n : typed[k].ch = "C-b") /\ (j > 0 => typed[j].ch # "C-b")
    BY <1>6, <2>1 DEF RunFrom
  <2>3. \A k \in 1..n : typed'[k] = typed[k]
    BY <1>5, <1>6
  <2>4. \A k \in (j + 1)..n : typed'[k].ch = "C-b"
    <3> TAKE k \in (j + 1)..n
    <3>1. k \in 1..n
      BY <1>6
    <3> QED
      BY <2>2, <2>3, <3>1
  <2>5. j > 0 => typed'[j].ch # "C-b"
    <3> SUFFICES ASSUME j > 0 PROVE typed'[j].ch # "C-b"
      OBVIOUS
    <3>1. j \in 1..n
      BY <1>6
    <3> QED
      BY <2>2, <2>3, <3>1
  <2>6. console_esc_state' <=> (n - j) % 2 = 1
    BY <1>1, <2>1
  <2> QED
    BY <1>6, <2>4, <2>5, <2>6, NextRun
<1>9. Passed' = Passed
  <2> HIDE DEF n
  <2>1. \A k \in 1..n : typed'[k] = typed[k]
    BY <1>5, <1>6
  <2>2. ASSUME NEW i \in 1..n PROVE Escaped(i)' <=> Escaped(i)
    <3>1. ASSUME NEW j \in 0..(i - 1) PROVE RunFrom(j, i)' <=> RunFrom(j, i)
      BY <1>6, <2>1, <2>2, <3>1 DEF RunFrom
    <3> QED
      BY <3>1 DEF Escaped
  <2>3. \A i \in 1..n : typed'[i] = typed[i]
    BY <2>1
  <2>4. Passed = {i \in 1..n : IF Escaped(i) THEN typed[i].ch = "C-a" ELSE typed[i].ch /= "C-b"}
    BY DEF Passed, n
  <2>5. Passed' = {i \in 1..n : IF Escaped(i)' THEN typed'[i].ch = "C-a" ELSE typed'[i].ch /= "C-b"}
    BY <1>6 DEF Passed
  <2> QED
    BY <2>2, <2>3, <2>4, <2>5
<1>10. Dw' = Dw /\ sifive' = sifive
  BY <1>1 DEF Dw, Held
<1>11. NoByteLost'
  BY <1>9, <1>10, NoByteLostParts, NoByteLostPartsNext DEF UartInv
<1> QED
  BY <1>4, <1>7, <1>8, <1>11 DEF UartInv

\* Nothing is typed, read or held at the start.
LEMMA UartInvInit == UartInit => UartInv
<1> SUFFICES ASSUME UartInit PROVE UartInv
  OBVIOUS
<1>1. /\ stdin = <<>> /\ typed = <<>> /\ got = <<>> /\ sifive = <<>>
      /\ console_esc_state = FALSE /\ lsr = {} /\ rhr = NoByte
  BY DEF UartInit
<1>2. UartTypes
  BY <1>1 DEF UartTypes, NoByte, Byte
<1>3. Consumed = 0
  BY <1>1 DEF Consumed
<1>4. Streamed
  BY <1>1, <1>3 DEF Streamed
<1>5. EscapeExact
  <2>1. RunFrom(0, 1) /\ (0 - 0) % 2 = 0
    BY DEF RunFrom
  <2> QED
    BY <1>1, <1>3, <2>1 DEF EscapeExact
<1>6. Passed = {}
  BY <1>3 DEF Passed
<1>7. Dw = <<>>
  BY <1>1, <1>2, DwIs
<1>8. NoByteLost
  BY <1>1, <1>6, <1>7, NoByteLostParts DEF Ids, Ordered
<1> QED
  BY <1>2, <1>4, <1>5, <1>8 DEF UartInv

\* Every handler keeps the console's invariant.
LEMMA UartInvNext == UartInv /\ [UartNext]_uartvars => UartInv'
<1> SUFFICES ASSUME UartInv, [UartNext]_uartvars PROVE UartInv'
  OBVIOUS
<1>1. CASE read_rhr
  BY <1>1, ReadRhrStep
<1>2. CASE write_thr
  BY <1>2, PollStep DEF write_thr
<1>3. CASE read_lsr
  <2>1. UNCHANGED <<typed, got, sifive>>
    BY <1>3 DEF read_lsr
  <2>2. CASE "RXRDY" \in lsr
    <3>1. UNCHANGED <<stdin, console_esc_state, rhr>> /\ lsr' = lsr \cup {"THREMPTY"}
      BY <1>3, <2>2 DEF read_lsr
    <3>2. Dw' = Dw
      BY <2>1, <2>2, <3>1 DEF Dw, Held
    <3>3. UartTypes'
      BY <2>1, <3>1 DEF UartInv, UartTypes
    <3> QED
      BY <2>1, <3>1, <3>2, <3>3, UartSame
  <2>3. CASE "RXRDY" \notin lsr
    <3> DEFINE l == lsr \cup {"THREMPTY"}
    <3>1. dw_apb_uart_poll(l)
      BY <1>3, <2>3 DEF read_lsr
    <3>2. "RXRDY" \in l <=> "RXRDY" \in lsr
      OBVIOUS
    <3> QED
      BY <2>1, <3>1, <3>2, PollStep
  <2> QED
    BY <2>2, <2>3
<1>4. CASE uart_read
  <2>1. console_read /\ sifive' = sifive \o Taken /\ UNCHANGED <<typed, lsr, rhr, got>>
    BY <1>4 DEF uart_read
  <2>2. Dw' = Dw
    BY <2>1 DEF Dw, Held
  <2>3. sifive' \in Seq(Byte) /\ stdin' \in Seq(Byte)
    <3>1. UartTypes /\ sifive \in Seq(Byte) /\ stdin \in Seq(Byte)
      BY DEF UartInv, UartTypes
    <3>2. Taken \in Seq(Byte)
      <4>1. CASE Taken = <<>>
        BY <4>1
      <4>2. CASE Taken = <<Head(stdin)>> /\ Head(stdin) \in Byte
        BY <4>2
      <4> QED
        BY <3>1, <4>1, <4>2, TakenIs
    <3>3. stdin' = IF stdin = <<>> THEN <<>> ELSE Tail(stdin)
      BY <2>1 DEF console_read
    <3> QED
      BY <2>1, <3>1, <3>2, <3>3
  <2>4. UartTypes'
    BY <2>1, <2>3 DEF UartInv, UartTypes
  <2> QED
    BY <2>1, <2>2, <2>4, UartReads
<1>5. CASE \E ch \in Chars : Type(ch)
  BY <1>5, TypeStep
<1>6. CASE \/ read_msr \/ UNCHANGED uartvars
           \/ \E e \in SUBSET Bits : write_ier(e)
           \/ \E d \in BOOLEAN : write_lcr(d)
  <2>1. UNCHANGED <<stdin, typed, console_esc_state, lsr, rhr, got, sifive>>
    BY <1>6 DEF read_msr, uartvars, write_ier, write_lcr
  <2>2. Dw' = Dw
    BY <2>1 DEF Dw, Held
  <2>3. UartTypes'
    BY <2>1 DEF UartInv, UartTypes
  <2> QED
    BY <2>1, <2>2, <2>3, UartSame
<1> QED
  BY <1>1, <1>2, <1>3, <1>4, <1>5, <1>6 DEF UartNext

\* Every handler that changes the enables or the line status recomputes the line.
LEMMA LineNext == UartLineExact /\ [UartNext]_uartvars => UartLineExact'
<1> SUFFICES ASSUME UartLineExact, [UartNext]_uartvars PROVE UartLineExact'
  OBVIOUS
<1>1. irq' = (IF Cause(ier', lsr') = 1 THEN 0 ELSE 1) \/ UNCHANGED <<irq, ier, lsr>>
  BY DEF UartNext, uartvars, read_rhr, write_thr, read_lsr, read_msr, uart_read, write_ier,
         write_lcr, Type, update_isr, dw_apb_uart_poll
<1> QED
  BY <1>1 DEF UartLineExact, Cause

\* Every byte that passes the console's escape filter is delivered once, in
\* order, by one UART, or waits in the receive register; and the interrupt line
\* of the DesignWare UART is high exactly while an enabled cause is present:
\* whatever is typed, and in whatever order the guest uses the registers.
THEOREM ConsoleRight == UartSpec => []ConsoleExact
<1>1. UartInit => UartLineExact
  BY DEF UartInit, UartLineExact, Cause
<1>2. UartInv /\ UartLineExact => ConsoleExact
  BY DEF UartInv, ConsoleExact
<1> QED
  BY <1>1, <1>2, UartInvInit, UartInvNext, LineNext, PTL DEF UartSpec

(***************************************************************************)
(* The mouse.                                                              *)
(***************************************************************************)

\* A button the guest was told of and the device does not hold yet is one of a
\* call that failed, and the guest was told what that call wants.
InputInv ==
    /\ free \in Nat
    /\ \A b \in raw \cup buttons_state : (b \in raw) /= (b \in buttons_state) => (b \in raw <=> b \in wanted)
    /\ ~failed => raw = wanted /\ shown = wanted /\ buttons_state = wanted

\* The buttons of a call that changed are finitely many.
LEMMA ChangedFinite ==
    ASSUME NEW buttons
    PROVE  IsFiniteSet(Changed(buttons)) /\ Cardinality(Changed(buttons)) \in Nat
<1>1. Changed(buttons) \in SUBSET (1..Len(Buttons)) /\ Len(Buttons) \in Nat
  BY InputAssumption DEF Changed
<1>2. IsFiniteSet(1..Len(Buttons))
  BY <1>1, FS_Interval
<1>3. IsFiniteSet(Changed(buttons))
  BY <1>1, <1>2, FS_Subset, Zenon
<1> QED
  BY <1>3, FS_CardinalityType

\* If there are buffers for all events but SYN, each button finds one.
LEMMA AllTold ==
    ASSUME NEW buttons, NEW dz \in BOOLEAN, free \in Nat, free >= Events(buttons, dz)
    PROVE  \A i \in Changed(buttons) : Before(buttons, dz, i) <= free
<1> DEFINE C == Changed(buttons)
<1>1. IsFiniteSet(C)
  BY ChangedFinite
<1> HIDE DEF C
<1>2. ASSUME NEW i \in C PROVE Before(buttons, dz, i) <= free
  <2> DEFINE D == {j \in C : j <= i}
  <2>1. D \subseteq C
    OBVIOUS
  <2>2. Before(buttons, dz, i) = Motions(dz) + Cardinality(D)
    BY DEF Before, C
  <2> HIDE DEF D
  <2>3. Cardinality(D) \in Nat /\ Cardinality(C) \in Nat /\ Cardinality(D) <= Cardinality(C)
    BY <1>1, <2>1, FS_Subset, FS_CardinalityType
  <2>4. Motions(dz) \in Nat /\ Motions(dz) + Cardinality(C) <= free
    BY DEF Motions, Events, C
  <2> QED
    BY <2>2, <2>3, <2>4
<1> QED
  BY <1>2 DEF C

\* The events of a call are finitely many.
LEMMA EventsNat ==
    ASSUME NEW buttons, NEW dz \in BOOLEAN
    PROVE  Events(buttons, dz) \in Nat
BY ChangedFinite DEF Events, Motions

\* A call, also one that stops after some of its events, keeps the invariant.
LEMMA MouseStep ==
    ASSUME InputInv, buttons_state \subseteq Pressed,
           NEW buttons \in SUBSET Pressed, NEW dz \in BOOLEAN,
           virtio_input_send_mouse_event(buttons, dz)
    PROVE  InputInv' /\ buttons_state' \subseteq Pressed
<1> DEFINE C == Changed(buttons)
           n == Events(buttons, dz)
           queued == {i \in C : Before(buttons, dz, i) <= free}
           told == {Buttons[i] : i \in queued}
<1>1. /\ failed => buttons = wanted
      /\ wanted' = buttons
      /\ raw' = (raw \ told) \cup (told \cap buttons)
      /\ shown' = IF free > n THEN raw' ELSE shown
      /\ free' = IF free > n THEN free - n - 1 ELSE 0
      /\ failed' = ~(free > n)
      /\ buttons_state' = IF free >= n THEN buttons ELSE buttons_state
  BY DEF virtio_input_send_mouse_event, Deliver
<1>2. n \in Nat /\ free \in Nat
  BY EventsNat DEF InputInv
<1>3. free >= n => queued = C
  BY AllTold, <1>2
<1>4. \A b \in Pressed : (\E i \in C : Buttons[i] = b) <=> ((b \in buttons) /= (b \in buttons_state))
  BY DEF Changed, Pressed
<1>5. \A b \in told : (b \in buttons) /= (b \in buttons_state)
  BY DEF Changed
<1>6. \A b : (b \in raw) /= (b \in buttons_state) => (b \in raw <=> b \in buttons)
  BY <1>1 DEF InputInv
<1>7. free >= n => \A b : (b \in buttons) /= (b \in buttons_state) => b \in told
  BY <1>3, <1>4
<1> HIDE DEF C, n, queued, told
<1>8. \A b : (b \in raw') /= (b \in buttons_state) => (b \in raw' <=> b \in buttons)
  BY <1>1, <1>5, <1>6
<1>9. free >= n => raw' = buttons
  <2> SUFFICES ASSUME free >= n, NEW b PROVE b \in raw' <=> b \in buttons
    OBVIOUS
  <2>1. CASE b \in told
    BY <1>1, <2>1
  <2>2. CASE b \notin told
    BY <1>1, <1>6, <1>7, <2>2
  <2> QED
    BY <2>1, <2>2
<1>10. free' \in Nat
  BY <1>1, <1>2
<1>11. \A b : (b \in raw') /= (b \in buttons_state') => (b \in raw' <=> b \in wanted')
  BY <1>1, <1>8, <1>9
<1>12. ~failed' => raw' = wanted' /\ shown' = wanted' /\ buttons_state' = wanted'
  <2>1. free > n => free >= n
    BY <1>2
  <2> QED
    BY <1>1, <1>9, <2>1
<1>13. buttons_state' \subseteq Pressed
  BY <1>1
<1> QED
  BY <1>10, <1>11, <1>12, <1>13 DEF InputInv

\* When a call returns success, the guest shows its buttons, however many earlier
\* attempts stopped after some of their events: for any list of buttons and any
\* number of event buffers.
THEOREM MouseRight == InputSpec => []ButtonsAgree
<1> DEFINE I == InputInv /\ buttons_state \subseteq Pressed
<1>1. InputInit => I
  BY DEF InputInit, InputInv
<1>2. I /\ [InputNext]_inputvars => I'
  <2> SUFFICES ASSUME I, [InputNext]_inputvars PROVE I'
    OBVIOUS
  <2>1. CASE \E buttons \in SUBSET Pressed, dz \in BOOLEAN : virtio_input_send_mouse_event(buttons, dz)
    BY <2>1, MouseStep
  <2>2. CASE GuestRefill
    BY <2>2 DEF GuestRefill, InputInv
  <2>3. CASE UNCHANGED inputvars
    BY <2>3 DEF inputvars, InputInv
  <2> QED
    BY <2>1, <2>2, <2>3 DEF InputNext
<1>3. I => ButtonsAgree
  BY DEF InputInv, ButtonsAgree
<1> QED
  BY <1>1, <1>2, <1>3, PTL DEF InputSpec
================================================================================
