---------------------------------- MODULE Clint --------------------------------
(***************************************************************************)
(* The core-local interruptor: machine time, the timer and the software    *)
(* interrupts (riscv_machine.cpp clint_write, rtc_get_time,                *)
(* virt_machine_get_sleep_duration; dromajo_main.cpp virt_machine_run).    *)
(*                                                                         *)
(* Time is hart 0's mcycle divided by RTC_FREQ_DIV, which moves when a     *)
(* slice of hart 0 ends.  A timer is compared with it only when a slice of *)
(* its own hart starts; a write of mtimecmp takes the interrupt back until *)
(* then.  64-bit registers are written as two halves, each a number below  *)
(* Half.                                                                   *)
(***************************************************************************)
EXTENDS Integers

CONSTANTS
  ClintCpus,
  NCycles,        \* instructions in a slice
  RTC_FREQ_DIV,
  Half,           \* 2^32: what half a register holds
  MaxCycle        \* bound on mcycle

Cpus == 0..(ClintCpus - 1)
Word == Half * Half

ASSUME ClintAssumption ==
  /\ {ClintCpus, NCycles, RTC_FREQ_DIV, MaxCycle} \subseteq Nat \ {0}
  /\ Half \in Nat /\ Half % 2 = 0
  /\ 2 * (MaxCycle \div RTC_FREQ_DIV) < Word

VARIABLES
  mcycle,      \* of hart 0
  timecmp,
  mtip, msip,  \* the harts whose mip has the bit set
  hart,        \* whose slice it is
  left,        \* instructions left in it; -1 before it starts
  ran,         \* instructions executed in it
  rewound      \* history: harts whose deadline time was set back behind after
               \* their timer fired

clintvars == <<mcycle, timecmp, mtip, msip, hart, left, ran, rewound>>

ClintTypeOK ==
  /\ mcycle \in Nat
  /\ timecmp \in [Cpus -> 0..(Word - 1)]
  /\ mtip \subseteq Cpus /\ msip \subseteq Cpus /\ rewound \subseteq Cpus
  /\ hart \in Cpus
  /\ left \in (-1)..NCycles /\ ran \in 0..NCycles

ClintInit ==
  /\ mcycle = 0
  /\ timecmp = [h \in Cpus |-> 0]
  /\ mtip = {} /\ msip = {} /\ rewound = {}
  /\ hart = 0 /\ left = -1 /\ ran = 0

rtc_get_time == mcycle \div RTC_FREQ_DIV

--------------------------------------------------------------------------------

\* ms_delay1 = timecmp - rtc_get_time, a signed 64-bit number, is not positive.
ExpiredOnTheDot(h) == timecmp[h] = rtc_get_time

Expired(h) ==
  LET d == (timecmp[h] - rtc_get_time) % Word
  IN  d = 0 \/ d >= Word \div 2

\* virt_machine_run: the timer of the hart is looked at, then its slice runs.
SliceStart ==
  /\ left = -1
  /\ left' = NCycles /\ ran' = 0
  /\ mtip' = IF rtc_get_time > 0 /\ Expired(hart) THEN mtip \cup {hart} ELSE mtip
  /\ UNCHANGED <<mcycle, timecmp, msip, hart, rewound>>

SliceEndBeyond ==
  /\ left = 0
  /\ left' = -1
  /\ mcycle' = IF hart = 0 /\ mcycle + ran <= MaxCycle THEN mcycle + ran ELSE mcycle
  /\ hart' = hart + 1
  /\ UNCHANGED <<timecmp, mtip, msip, ran, rewound>>

\* the_end of the interpreter.  The next hart follows.
SliceEnd ==
  /\ left = 0
  /\ left' = -1
  /\ mcycle' = IF hart = 0 /\ mcycle + ran <= MaxCycle THEN mcycle + ran ELSE mcycle
  /\ hart' = (hart + 1) % ClintCpus
  /\ UNCHANGED <<timecmp, mtip, msip, ran, rewound>>

Step ==
  /\ left > 0
  /\ left' = left - 1 /\ ran' = ran + 1
  /\ UNCHANGED hart

Plain ==
  /\ Step
  /\ UNCHANGED <<mcycle, timecmp, mtip, msip, rewound>>

\* The slice is cut short: a trap, a return or WFI.
Cut ==
  /\ left > 0
  /\ left' = 0
  /\ UNCHANGED <<mcycle, timecmp, mtip, msip, hart, ran, rewound>>

\* Deadlines are set less than half the range of the register ahead of time.
Near(v) == v < Word \div 2

SetTimecmpKeepsMtip(g, v) ==
  /\ Near(v)
  /\ timecmp' = [timecmp EXCEPT ![g] = v]
  /\ rewound' = rewound \ {g}
  /\ UNCHANGED <<mcycle, mtip, msip>>

SetTimecmp(g, v) ==
  /\ Near(v)
  /\ timecmp' = [timecmp EXCEPT ![g] = v]
  /\ mtip' = mtip \ {g}
  /\ rewound' = rewound \ {g}
  /\ UNCHANGED <<mcycle, msip>>

\* A write of the low half of mtimecmp: ~0xffffffff is a 32-bit 0, so the high
\* half is cleared.
WriteTimecmpLo(g, v) == Step /\ SetTimecmp(g, v)

WriteTimecmpHi(g, v) == Step /\ SetTimecmp(g, v * Half + (timecmp[g] % Half))

\* A 64-bit store is a write of the low and then of the high half.
WriteTimecmp(g, lo, hi) == Step /\ SetTimecmp(g, hi * Half + lo)

WriteMsip(g, set) ==
  /\ Step
  /\ msip' = IF set THEN msip \cup {g} ELSE msip \ {g}
  /\ UNCHANGED <<mcycle, timecmp, mtip, rewound>>

\* Time is set: by a write of half of mtime, which makes mcycle a multiple of
\* RTC_FREQ_DIV, or by hart 0's writing its mcycle.
SetCycle(c) ==
  /\ c <= MaxCycle
  /\ mcycle' = c
  /\ rewound' = rewound \cup {h \in mtip : timecmp[h] > c \div RTC_FREQ_DIV}
  /\ UNCHANGED <<timecmp, mtip, msip>>

WriteMtimeLo(v) ==
  /\ Step
  /\ SetCycle((rtc_get_time - (rtc_get_time % Half) + v) * RTC_FREQ_DIV)

WriteMtimeHi(v) ==
  /\ Step
  /\ SetCycle(((rtc_get_time % Half) + v * Half) * RTC_FREQ_DIV)

WriteMcycle(c) ==
  /\ hart = 0
  /\ Step
  /\ SetCycle(c)

ClintNext ==
  \/ SliceStart
  \/ SliceEnd
  \/ Plain
  \/ Cut
  \/ \E g \in Cpus, v \in 0..(Half - 1) : WriteTimecmpLo(g, v) \/ WriteTimecmpHi(g, v)
  \/ \E g \in Cpus, lo, hi \in 0..(Half - 1) : WriteTimecmp(g, lo, hi)
  \/ \E g \in Cpus, set \in BOOLEAN : WriteMsip(g, set)
  \/ \E v \in 0..(Half - 1) : WriteMtimeLo(v) \/ WriteMtimeHi(v)
  \/ \E c \in 0..MaxCycle : WriteMcycle(c)

ClintSpec == ClintInit /\ [][ClintNext]_clintvars

\* The main loop goes on, and a slice is NCycles instructions at most: Plain is
\* enabled in all of a slice and every step shortens it, so its fairness is
\* that of the slice.
FairClintSpec ==
  /\ ClintSpec
  /\ WF_clintvars(SliceStart)
  /\ WF_clintvars(SliceEnd)
  /\ WF_clintvars(Plain)

--------------------------------------------------------------------------------

\* A timer interrupt is pending only if the deadline has passed, whatever order
\* the halves of mtimecmp were written in and however the writes fall between
\* the slices; only setting the time back can leave one behind.
MtipJustified ==
  \A h \in mtip \ rewound : rtc_get_time >= timecmp[h]

\* Every timer interrupt has its deadline behind it, and the registers hold what
\* fits into them (clint_write, virt_machine_get_sleep_duration).
TimersExact == ClintTypeOK /\ MtipJustified

\* A deadline that has passed raises the interrupt, unless the deadline or the
\* time is moved first: a timer is not missed when time jumps over it, and not
\* forgotten when mtimecmp is rewritten with a time in the past.
TimerFires ==
  \A h \in Cpus :
    (rtc_get_time > 0 /\ rtc_get_time >= timecmp[h])
      ~> (h \in mtip \/ rtc_get_time = 0 \/ rtc_get_time < timecmp[h])
================================================================================
