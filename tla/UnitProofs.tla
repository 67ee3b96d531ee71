------------------------------- MODULE UnitProofs ------------------------------
(***************************************************************************)
(* Checkpoints and the gold memory: the program that restores a hart, the  *)
(* files that hold the memory, and the checks of the in-order bridge, for  *)
(* any state of the guest, size of memory and number of cores.             *)
(***************************************************************************)
EXTENDS Checkpoint, DumpFiles, Gold, TLAPS

(***************************************************************************)
(* The program of a checkpoint.                                            *)
(***************************************************************************)
Fields == DOMAIN HartReset

\* The place of step n of the program in the one of a hart without FP unit.
Place(s, n) == n - (IF s.fs = 0 THEN 0 ELSE 2)

\* The registers that are back before step n.
Back(h, s, n) ==
  LET k == Place(s, n)
  IN  /\ n > 1 => h.dpc = s.pc
      /\ n > 2 => h.dcsr = s.priv
      /\ n > 3 => h.MIE = s.MIE
      /\ n > 3 /\ s.fs = 0 => h.fs = 0
      /\ n > 4 /\ s.fs # 0 => h.fs = 3 /\ h.fcsr = s.fcsr
      /\ n > 5 /\ s.fs # 0 => h.f3[1] = s.f3[1]
      /\ k > 4 => h.plain = s.plain
      /\ k > 5 => h.mideleg = s.mideleg
      /\ k > 6 => h.mie = s.mie
      /\ k > 7 => h.mcounteren = Imm12(s.mcounteren)
      /\ k > 8 => h.pmpaddr = s.pmpaddr
      /\ k > 9 => h.pmpcfg = s.pmpcfg
      /\ k > 10 => h.mip \cap Writable = s.mip \cap Writable
      /\ k > 11 => h.x3 = s.x3
      /\ k > 12 => h.timecmp = s.timecmp
      /\ k > 17 => h.x2 = s.x2
      /\ k > 19 => h.satp = s.satp
      /\ k > 21 => h.pc = s.pc /\ h.priv = s.priv

\* x1 is the program's scratch register, and is set aside in dscratch.
Aside(h, s, n) ==
  LET k == Place(s, n)
  IN  /\ k \in {17, 18} \/ k > 20 => h.x1 = s.x1
      /\ k > 18 => h.dscratch = s.x1

\* What a step of the program relies on: no entry is locked and no interrupt is
\* enabled or pending before the program says so.
Quiet(h, s, n) ==
  LET k == Place(s, n)
  IN  /\ k <= 9 => h.pmpcfg = "off"
      /\ n <= 3 => h.MIE = FALSE
      /\ k <= 10 => "STI" \notin h.mip

\* The counters stand still from step 3 on, at a time before the first tick, and
\* then at the time of the checkpoint.
Stopped(h, s, n) ==
  LET k == Place(s, n)
  IN  s.priv # 0 =>
        /\ n <= 2 => h.stop = FALSE /\ h.mcycle = n - 1
        /\ n > 2 /\ k <= 21 => h.stop = TRUE
        /\ n > 2 /\ k <= 14 => h.mcycle = 2
        /\ k = 15 => h.mcycle = s.mcycle
        /\ k > 15 => h.mcycle = (s.mcycle \div RTC_FREQ_DIV) * RTC_FREQ_DIV
        /\ k > 13 => h.minstret = s.minstret
        /\ "MTI" \in h.mip => k > 14 /\ s.timecmp <= s.mcycle \div RTC_FREQ_DIV

CkInv(h, s, n) ==
  /\ DOMAIN h = Fields /\ h.mip \subseteq {"MTI", "STI"} /\ h.stop \in BOOLEAN
  /\ Back(h, s, n) /\ Aside(h, s, n) /\ Quiet(h, s, n) /\ Stopped(h, s, n)

\* The program, step by step.
LEMMA RomIs ==
  ASSUME NEW s, NEW n \in 1..(IF s.fs = 0 THEN 21 ELSE 23)
  PROVE  Rom(s)[n] =
           IF n <= 3 THEN <<"dpc", "dcsr", "mstatus">>[n]
           ELSE IF s.fs # 0 /\ n <= 5 THEN <<"fcsr", "f3">>[n - 3]
           ELSE <<"plain", "mideleg", "mie", "mcounteren", "pmpaddr", "pmpcfg", "mip", "x3",
                  "timecmp", "minstret", "mcycle", "mtime", "x1", "x2", "dscratch", "satp",
                  "x1back", "dret">>[Place(s, n) - 3]
<1>1. CASE s.fs = 0
  BY <1>1 DEF Rom, Place
<1>2. CASE s.fs # 0
  BY <1>2 DEF Rom, Place
<1> QED
  BY <1>1, <1>2

\* Counting changes the two counters.
LEMMA CountedIs ==
  ASSUME NEW h, DOMAIN h = Fields, h.stop \in BOOLEAN
  PROVE  /\ DOMAIN Counted(h) = Fields
         /\ \A f \in Fields \ {"mcycle", "minstret"} : Counted(h)[f] = h[f]
         /\ h.stop = TRUE => Counted(h) = h
         /\ h.stop = FALSE => Counted(h).mcycle = h.mcycle + 1
BY Zenon DEF Counted, Fields, HartReset

\* One step: r is what the program restores before step n + 1, and g the hart
\* afterwards.  The cases say what Restore writes.
LEMMA StepBack ==
  ASSUME NEW h, NEW s \in Guests, NEW n \in 1..(IF s.fs = 0 THEN 21 ELSE 23), CkInv(h, s, n)
  PROVE  CkInv(Restore(Counted(h), s, Rom(s)[n]), s, n + 1)
<1> DEFINE c == Counted(h)
           k == Place(s, n)
           g == Restore(c, s, Rom(s)[n])
<1> SUFFICES CkInv(g, s, n + 1)
  OBVIOUS
<1>1. DOMAIN h = Fields /\ h.stop \in BOOLEAN /\ s.fs \in 0..3 /\ s.priv \in {0, 1, 3}
  BY CheckpointAssumption DEF CkInv
<1>2. /\ DOMAIN c = Fields
      /\ \A f \in Fields \ {"mcycle", "minstret"} : c[f] = h[f]
      /\ h.stop = TRUE => c = h
      /\ h.stop = FALSE => c.mcycle = h.mcycle + 1
  BY <1>1, CountedIs, Zenon
<1>3. k \in Int /\ Place(s, n + 1) = k + 1 /\ k <= n /\ n <= k + 2 /\ k <= 21
  BY <1>1 DEF Place
<1>4. (s.fs = 0 => n = k) /\ (s.fs # 0 => n = k + 2)
  BY <1>1 DEF Place
<1> HIDE DEF c
<1>5. CASE n = 1
  <2>1. Rom(s)[n] = "dpc"
    BY <1>1, <1>3, <1>4, <1>5, RomIs
  <2>2. /\ DOMAIN g = Fields
        /\ \A f \in Fields \ {"dpc", "x1"} : g[f] = c[f]
        /\ g.dpc = s.pc
    BY <1>2, <2>1, Zenon DEF Restore, Fields, HartReset
  <2> HIDE DEF g
  <2> QED
    BY <1>1, <1>2, <1>3, <1>4, <1>5, <2>2 DEF CkInv, Back, Aside, Quiet, Stopped, Fields, HartReset, Writable, k
<1>6. CASE n = 2
  <2>1. Rom(s)[n] = "dcsr"
    BY <1>1, <1>3, <1>4, <1>6, RomIs
  <2>2. /\ DOMAIN g = Fields
        /\ \A f \in Fields \ {"dcsr", "x1", "stop"} : g[f] = c[f]
        /\ g.dcsr = s.priv
        /\ g.stop = StopTheCounter(s.priv)
    BY <1>2, <2>1, Zenon DEF Restore, Fields, HartReset
  <2>3. g.stop \in BOOLEAN /\ (s.priv # 0 => g.stop = TRUE)
    <3>1. 0 % 2 # 1 /\ 1 % 2 = 1 /\ 3 % 2 = 1
      OBVIOUS
    <3>2. StopTheCounter(s.priv) \in BOOLEAN /\ (s.priv # 0 => StopTheCounter(s.priv))
      BY <1>1, <3>1 DEF StopTheCounter
    <3> QED
      BY <2>2, <3>2, Zenon
  <2> HIDE DEF g
  <2> QED
    BY <1>1, <1>2, <1>3, <1>4, <1>6, <2>2, <2>3 DEF CkInv, Back, Aside, Quiet, Stopped, Fields, HartReset, Writable, k
<1>7. CASE n = 3
  <2>1. Rom(s)[n] = "mstatus"
    BY <1>1, <1>3, <1>4, <1>7, RomIs
  <2>2. /\ DOMAIN g = Fields
        /\ \A f \in Fields \ {"MIE", "fs", "x1"} : g[f] = c[f]
        /\ g.MIE = s.MIE
        /\ g.fs = s.fs
    BY <1>2, <2>1, Zenon DEF Restore, Fields, HartReset
  <2> HIDE DEF g
  <2> QED
    BY <1>1, <1>2, <1>3, <1>4, <1>7, <2>2 DEF CkInv, Back, Aside, Quiet, Stopped, Fields, HartReset, Writable, k
<1>8. CASE s.fs # 0 /\ n = 4
  <2>1. Rom(s)[n] = "fcsr"
    BY <1>1, <1>3, <1>4, <1>8, RomIs
  <2>2. /\ DOMAIN g = Fields
        /\ \A f \in Fields \ {"fcsr", "fs", "x1"} : g[f] = c[f]
        /\ g.fcsr = s.fcsr
        /\ g.fs = 3
    BY <1>2, <2>1, Zenon DEF Restore, Fields, HartReset
  <2> HIDE DEF g
  <2> QED
    BY <1>1, <1>2, <1>3, <1>4, <1>8, <2>2 DEF CkInv, Back, Aside, Quiet, Stopped, Fields, HartReset, Writable, k
<1>9. CASE s.fs # 0 /\ n = 5
  <2>1. Rom(s)[n] = "f3"
    BY <1>1, <1>3, <1>4, <1>9, RomIs
  <2>2. /\ DOMAIN g = Fields
        /\ \A f \in Fields \ {"f3", "fs", "x1"} : g[f] = c[f]
        /\ g.f3[1] = s.f3[1]
        /\ g.fs = 3
    BY <1>2, <2>1, Zenon DEF Restore, Fields, HartReset
  <2> HIDE DEF g
  <2> QED
    BY <1>1, <1>2, <1>3, <1>4, <1>9, <2>2 DEF CkInv, Back, Aside, Quiet, Stopped, Fields, HartReset, Writable, k
<1>10. CASE n > 3 /\ k = 4
  <2>1. Rom(s)[n] = "plain"
    BY <1>1, <1>3, <1>4, <1>10, RomIs
  <2>2. /\ DOMAIN g = Fields
        /\ \A f \in Fields \ {"plain", "x1"} : g[f] = c[f]
        /\ g.plain = s.plain
    BY <1>2, <2>1, Zenon DEF Restore, Fields, HartReset
  <2> HIDE DEF g
  <2> QED
    BY <1>1, <1>2, <1>3, <1>4, <1>10, <2>2 DEF CkInv, Back, Aside, Quiet, Stopped, Fields, HartReset, Writable, k
<1>11. CASE n > 3 /\ k = 5
  <2>1. Rom(s)[n] = "mideleg"
    BY <1>1, <1>3, <1>4, <1>11, RomIs
  <2>2. /\ DOMAIN g = Fields
        /\ \A f \in Fields \ {"mideleg", "x1"} : g[f] = c[f]
        /\ g.mideleg = s.mideleg
    BY <1>2, <2>1, Zenon DEF Restore, Fields, HartReset
  <2> HIDE DEF g
  <2> QED
    BY <1>1, <1>2, <1>3, <1>4, <1>11, <2>2 DEF CkInv, Back, Aside, Quiet, Stopped, Fields, HartReset, Writable, k
<1>12. CASE n > 3 /\ k = 6
  <2>1. Rom(s)[n] = "mie"
    BY <1>1, <1>3, <1>4, <1>12, RomIs
  <2>2. /\ DOMAIN g = Fields
        /\ \A f \in Fields \ {"mie", "x1"} : g[f] = c[f]
        /\ g.mie = s.mie
    BY <1>2, <2>1, Zenon DEF Restore, Fields, HartReset
  <2> HIDE DEF g
  <2> QED
    BY <1>1, <1>2, <1>3, <1>4, <1>12, <2>2 DEF CkInv, Back, Aside, Quiet, Stopped, Fields, HartReset, Writable, k
<1>13. CASE n > 3 /\ k = 7
  <2>1. Rom(s)[n] = "mcounteren"
    BY <1>1, <1>3, <1>4, <1>13, RomIs
  <2>2. /\ DOMAIN g = Fields
        /\ \A f \in Fields \ {"mcounteren", "x1"} : g[f] = c[f]
        /\ g.mcounteren = Imm12(s.mcounteren)
    BY <1>2, <2>1, Zenon DEF Restore, Fields, HartReset
  <2> HIDE DEF g
  <2> QED
    BY <1>1, <1>2, <1>3, <1>4, <1>13, <2>2 DEF CkInv, Back, Aside, Quiet, Stopped, Fields, HartReset, Writable, k
<1>14. CASE n > 3 /\ k = 8
  <2>1. Rom(s)[n] = "pmpaddr"
    BY <1>1, <1>3, <1>4, <1>14, RomIs
  <2>2. /\ DOMAIN g = Fields
        /\ \A f \in Fields \ {"pmpaddr", "x1"} : g[f] = c[f]
        /\ c.pmpcfg # "locked" => g.pmpaddr = s.pmpaddr
    BY <1>2, <2>1, Zenon DEF Restore, Fields, HartReset
  <2> HIDE DEF g
  <2> QED
    BY <1>1, <1>2, <1>3, <1>4, <1>14, <2>2 DEF CkInv, Back, Aside, Quiet, Stopped, Fields, HartReset, Writable, k
<1>15. CASE n > 3 /\ k = 9
  <2>1. Rom(s)[n] = "pmpcfg"
    BY <1>1, <1>3, <1>4, <1>15, RomIs
  <2>2. /\ DOMAIN g = Fields
        /\ \A f \in Fields \ {"pmpcfg", "x1"} : g[f] = c[f]
        /\ g.pmpcfg = s.pmpcfg
    BY <1>2, <2>1, Zenon DEF Restore, Fields, HartReset
  <2> HIDE DEF g
  <2> QED
    BY <1>1, <1>2, <1>3, <1>4, <1>15, <2>2 DEF CkInv, Back, Aside, Quiet, Stopped, Fields, HartReset, Writable, k
<1>16. CASE n > 3 /\ k = 10
  <2>1. Rom(s)[n] = "mip"
    BY <1>1, <1>3, <1>4, <1>16, RomIs
  <2>2. /\ DOMAIN g = Fields
        /\ \A f \in Fields \ {"mip", "x1"} : g[f] = c[f]
        /\ g.mip = (c.mip \ Writable) \cup (s.mip \cap Writable)
    BY <1>2, <2>1, Zenon DEF Restore, Fields, HartReset
  <2> HIDE DEF g
  <2> QED
    BY <1>1, <1>2, <1>3, <1>4, <1>16, <2>2 DEF CkInv, Back, Aside, Quiet, Stopped, Fields, HartReset, Writable, k
<1>17. CASE n > 3 /\ k = 11
  <2>1. Rom(s)[n] = "x3"
    BY <1>1, <1>3, <1>4, <1>17, RomIs
  <2>2. /\ DOMAIN g = Fields
        /\ \A f \in Fields \ {"x3"} : g[f] = c[f]
        /\ g.x3 = s.x3
    BY <1>2, <2>1 DEF Restore, Fields, HartReset
  <2> HIDE DEF g
  <2> QED
    BY <1>1, <1>2, <1>3, <1>4, <1>17, <2>2 DEF CkInv, Back, Aside, Quiet, Stopped, Fields, HartReset, Writable, k
<1>18. CASE n > 3 /\ k = 12
  <2>1. Rom(s)[n] = "timecmp"
    BY <1>1, <1>3, <1>4, <1>18, RomIs
  <2>2. /\ DOMAIN g = Fields
        /\ \A f \in Fields \ {"timecmp", "mip", "x1", "x2"} : g[f] = c[f]
        /\ g.timecmp = s.timecmp
        /\ g.mip = c.mip \ {"MTI"}
    BY <1>2, <2>1, Zenon DEF Restore, Fields, HartReset
  <2> HIDE DEF g
  <2> QED
    BY <1>1, <1>2, <1>3, <1>4, <1>18, <2>2 DEF CkInv, Back, Aside, Quiet, Stopped, Fields, HartReset, Writable, k
<1>19. CASE n > 3 /\ k = 13
  <2>1. Rom(s)[n] = "minstret"
    BY <1>1, <1>3, <1>4, <1>19, RomIs
  <2>2. /\ DOMAIN g = Fields
        /\ \A f \in Fields \ {"minstret", "x1"} : g[f] = c[f]
        /\ g.minstret = s.minstret
    BY <1>2, <2>1, Zenon DEF Restore, Fields, HartReset
  <2> HIDE DEF g
  <2> QED
    BY <1>1, <1>2, <1>3, <1>4, <1>19, <2>2 DEF CkInv, Back, Aside, Quiet, Stopped, Fields, HartReset, Writable, k
<1>20. CASE n > 3 /\ k = 14
  <2>1. Rom(s)[n] = "mcycle"
    BY <1>1, <1>3, <1>4, <1>20, RomIs
  <2>2. /\ DOMAIN g = Fields
        /\ \A f \in Fields \ {"mcycle", "x1"} : g[f] = c[f]
        /\ g.mcycle = s.mcycle
    BY <1>2, <2>1, Zenon DEF Restore, Fields, HartReset
  <2> HIDE DEF g
  <2> QED
    BY <1>1, <1>2, <1>3, <1>4, <1>20, <2>2 DEF CkInv, Back, Aside, Quiet, Stopped, Fields, HartReset, Writable, k
<1>21. CASE n > 3 /\ k = 15
  <2>1. Rom(s)[n] = "mtime"
    BY <1>1, <1>3, <1>4, <1>21, RomIs
  <2>2. /\ DOMAIN g = Fields
        /\ \A f \in Fields \ {"mcycle", "x1", "x2"} : g[f] = c[f]
        /\ g.mcycle = (s.mcycle \div RTC_FREQ_DIV) * RTC_FREQ_DIV
    BY <1>2, <2>1, Zenon DEF Restore, Fields, HartReset
  <2> HIDE DEF g
  <2> QED
    BY <1>1, <1>2, <1>3, <1>4, <1>21, <2>2 DEF CkInv, Back, Aside, Quiet, Stopped, Fields, HartReset, Writable, k
<1>22. CASE n > 3 /\ k = 16
  <2>1. Rom(s)[n] = "x1"
    BY <1>1, <1>3, <1>4, <1>22, RomIs
  <2>2. /\ DOMAIN g = Fields
        /\ \A f \in Fields \ {"x1"} : g[f] = c[f]
        /\ g.x1 = s.x1
    BY <1>2, <2>1 DEF Restore, Fields, HartReset
  <2> HIDE DEF g
  <2> QED
    BY <1>1, <1>2, <1>3, <1>4, <1>22, <2>2 DEF CkInv, Back, Aside, Quiet, Stopped, Fields, HartReset, Writable, k
<1>23. CASE n > 3 /\ k = 17
  <2>1. Rom(s)[n] = "x2"
    BY <1>1, <1>3, <1>4, <1>23, RomIs
  <2>2. /\ DOMAIN g = Fields
        /\ \A f \in Fields \ {"x2"} : g[f] = c[f]
        /\ g.x2 = s.x2
    BY <1>2, <2>1 DEF Restore, Fields, HartReset
  <2> HIDE DEF g
  <2> QED
    BY <1>1, <1>2, <1>3, <1>4, <1>23, <2>2 DEF CkInv, Back, Aside, Quiet, Stopped, Fields, HartReset, Writable, k
<1>24. CASE n > 3 /\ k = 18
  <2>1. Rom(s)[n] = "dscratch"
    BY <1>1, <1>3, <1>4, <1>24, RomIs
  <2>2. /\ DOMAIN g = Fields
        /\ \A f \in Fields \ {"dscratch"} : g[f] = c[f]
        /\ g.dscratch = c.x1
    BY <1>2, <2>1 DEF Restore, Fields, HartReset
  <2> HIDE DEF g
  <2> QED
    BY <1>1, <1>2, <1>3, <1>4, <1>24, <2>2 DEF CkInv, Back, Aside, Quiet, Stopped, Fields, HartReset, Writable, k
<1>25. CASE n > 3 /\ k = 19
  <2>1. Rom(s)[n] = "satp"
    BY <1>1, <1>3, <1>4, <1>25, RomIs
  <2>2. /\ DOMAIN g = Fields
        /\ \A f \in Fields \ {"satp", "x1"} : g[f] = c[f]
        /\ g.satp = s.satp
    BY <1>2, <2>1, Zenon DEF Restore, Fields, HartReset
  <2> HIDE DEF g
  <2> QED
    BY <1>1, <1>2, <1>3, <1>4, <1>25, <2>2 DEF CkInv, Back, Aside, Quiet, Stopped, Fields, HartReset, Writable, k
<1>26. CASE n > 3 /\ k = 20
  <2>1. Rom(s)[n] = "x1back"
    BY <1>1, <1>3, <1>4, <1>26, RomIs
  <2>2. /\ DOMAIN g = Fields
        /\ \A f \in Fields \ {"x1"} : g[f] = c[f]
        /\ g.x1 = c.dscratch
    BY <1>2, <2>1 DEF Restore, Fields, HartReset
  <2> HIDE DEF g
  <2> QED
    BY <1>1, <1>2, <1>3, <1>4, <1>26, <2>2 DEF CkInv, Back, Aside, Quiet, Stopped, Fields, HartReset, Writable, k
<1>27. CASE n > 3 /\ k = 21
  <2>1. Rom(s)[n] = "dret"
    BY <1>1, <1>3, <1>4, <1>27, RomIs
  <2>2. /\ DOMAIN g = Fields
        /\ \A f \in Fields \ {"priv", "pc", "stop"} : g[f] = c[f]
        /\ g.priv = c.dcsr
        /\ g.pc = c.dpc
        /\ g.stop = FALSE
    BY <1>2, <2>1, Zenon DEF Restore, Fields, HartReset
  <2> HIDE DEF g
  <2>3. Back(g, s, n + 1)
    BY <1>1, <1>2, <1>3, <1>4, <1>27, <2>2 DEF CkInv, Back, Fields, HartReset, Writable, k
  <2>4. Aside(g, s, n + 1) /\ Quiet(g, s, n + 1)
    BY <1>1, <1>2, <1>3, <1>4, <1>27, <2>2 DEF CkInv, Aside, Quiet, Fields, HartReset, k
  <2>5. Stopped(g, s, n + 1)
    BY <1>1, <1>2, <1>3, <1>4, <1>27, <2>2 DEF CkInv, Stopped, Fields, HartReset, k
  <2>6. g.mip = h.mip
    BY <1>2, <2>2 DEF Fields, HartReset
  <2> QED
    BY <2>2, <2>3, <2>4, <2>5, <2>6, Zenon DEF CkInv
<1> QED
  BY <1>1, <1>3, <1>4, <1>5, <1>6, <1>7, <1>8, <1>9, <1>10, <1>11, <1>12, <1>13, <1>14, <1>15, <1>16, <1>17, <1>18, <1>19, <1>20, <1>21, <1>22, <1>23, <1>24, <1>25, <1>26, <1>27

\* mtime is mcycle in units of RTC_FREQ_DIV.
LEMMA Units ==
  ASSUME NEW m \in Nat
  PROVE  /\ m < RTC_FREQ_DIV => m \div RTC_FREQ_DIV = 0
         /\ ((m \div RTC_FREQ_DIV) * RTC_FREQ_DIV) \div RTC_FREQ_DIV = m \div RTC_FREQ_DIV
         /\ (m \div RTC_FREQ_DIV) * RTC_FREQ_DIV = m - (m % RTC_FREQ_DIV)
<1>1. RTC_FREQ_DIV \in Nat /\ RTC_FREQ_DIV > 0
  BY CheckpointAssumption
<1> DEFINE q == m \div RTC_FREQ_DIV
           r == m % RTC_FREQ_DIV
<1>2. q \in Nat /\ r \in Nat /\ r < RTC_FREQ_DIV /\ m = RTC_FREQ_DIV * q + r
  BY <1>1
<1>3. m < RTC_FREQ_DIV => q = 0
  BY <1>1
<1> HIDE DEF q, r
<1>4. (q * RTC_FREQ_DIV) \div RTC_FREQ_DIV = q
  BY <1>1, <1>2
<1>5. q * RTC_FREQ_DIV = m - r
  BY <1>1, <1>2
<1> QED
  BY <1>3, <1>4, <1>5 DEF q, r

\* The timer goes off only after its deadline is back and the time with it.
LEMMA TickBack ==
  ASSUME NEW h, NEW s \in Guests, NEW n \in Nat \ {0}, CkInv(h, s, n)
  PROVE  CkInv(Tick(h), s, n)
<1> DEFINE g == Tick(h)
           k == Place(s, n)
           now == h.mcycle \div RTC_FREQ_DIV
<1>1. DOMAIN h = Fields /\ s.fs \in 0..3 /\ s.mcycle \in Nat /\ RTC_FREQ_DIV \in Nat /\ RTC_FREQ_DIV > 2
  BY CheckpointAssumption DEF CkInv
<1>2. /\ DOMAIN g = Fields /\ \A f \in Fields \ {"mip"} : g[f] = h[f]
      /\ g.mip = h.mip \/ (g.mip = h.mip \cup {"MTI"} /\ now > 0 /\ h.timecmp <= now)
  BY <1>1 DEF Tick, Fields, HartReset
<1>3. k \in Int /\ k <= n /\ n <= k + 2
  BY <1>1 DEF Place
<1>4. s.priv # 0 /\ now > 0 => k > 14 /\ now = s.mcycle \div RTC_FREQ_DIV /\ h.timecmp = s.timecmp
  <2> SUFFICES ASSUME s.priv # 0, now > 0
               PROVE  k > 14 /\ now = s.mcycle \div RTC_FREQ_DIV /\ h.timecmp = s.timecmp
    OBVIOUS
  <2>1. /\ n <= 2 => h.mcycle = n - 1
        /\ n > 2 /\ k <= 14 => h.mcycle = 2
        /\ k = 15 => h.mcycle = s.mcycle
        /\ k > 15 => h.mcycle = (s.mcycle \div RTC_FREQ_DIV) * RTC_FREQ_DIV
        /\ k > 12 => h.timecmp = s.timecmp
    BY DEF CkInv, Stopped, Back
  <2>2. k > 14
    <3> SUFFICES ASSUME k <= 14 PROVE FALSE
      BY <1>3
    <3>1. h.mcycle \in Nat /\ h.mcycle < RTC_FREQ_DIV
      BY <1>1, <1>3, <2>1
    <3> QED
      BY <1>1, <3>1, Units
  <2>3. k = 15 \/ k > 15
    BY <1>3, <2>2
  <2> QED
    BY <1>1, <1>3, <2>1, <2>2, <2>3, Units
<1> HIDE DEF g, now
<1>5. Back(g, s, n) /\ Aside(g, s, n) /\ Quiet(g, s, n)
  <2>1. "STI" \in g.mip <=> "STI" \in h.mip
    BY <1>2
  <2>2. g.mip \cap Writable = h.mip \cap Writable
    BY <1>2 DEF Writable
  <2> QED
    BY <1>2, <1>3, <2>1, <2>2 DEF CkInv, Back, Aside, Quiet, Fields, HartReset
<1>6. Stopped(g, s, n)
  BY <1>2, <1>3, <1>4 DEF CkInv, Stopped, Fields, HartReset
<1>7. g.mip \subseteq {"MTI", "STI"} /\ g.stop \in BOOLEAN
  BY <1>2 DEF CkInv, Fields, HartReset
<1> QED
  BY <1>2, <1>5, <1>6, <1>7 DEF CkInv, g

\* The program runs, has ended, or was left for a reason the guest had too.
RomInv ==
  /\ saved \in Guests
  /\ next \in Nat \ {0} /\ CkInv(hart, saved, next)
  /\ phase = "rom" => Place(saved, next) <= 21
  /\ phase = "guest" => Place(saved, next) = 22
  /\ NotDerailed

\* The program starts from the hart after a reset.
LEMMA RomInvInit == CkInit => RomInv
<1> SUFFICES ASSUME CkInit PROVE RomInv
  OBVIOUS
<1>1. saved \in Guests /\ hart = HartReset /\ phase = "rom" /\ next = 1 /\ saved.fs \in 0..3
  BY CheckpointAssumption DEF CkInit
<1>2. Place(saved, 1) = 1 \/ Place(saved, 1) = -1
  BY <1>1 DEF Place
<1>3. CkInv(HartReset, saved, 1)
  BY <1>2 DEF CkInv, Back, Aside, Quiet, Stopped, Fields, HartReset
<1> QED
  BY <1>1, <1>2, <1>3 DEF RomInv, NotDerailed

\* An interrupt that leaves the program is the timer's, at a deadline that had
\* passed at the checkpoint, or one the guest had pending and enabled.
LEMMA DerailStep ==
  ASSUME RomInv, Derail
  PROVE  RomInv'
<1> DEFINE k == Place(saved, next)
<1>1. phase' = "lost" /\ UNCHANGED <<saved, hart, next>> /\ hart.MIE /\ (hart.mip \cap hart.mie) \ hart.mideleg # {}
  BY DEF Derail, Interrupted
<1>2. PICK i \in hart.mip \cap hart.mie : i \notin hart.mideleg
  BY <1>1
<1>3. CkInv(hart, saved, next) /\ next \in Nat \ {0} /\ saved \in Guests
  BY DEF RomInv
<1>4. k \in Int /\ k <= next /\ next <= k + 2
  BY <1>3, CheckpointAssumption DEF Place
<1>5. next > 3 /\ hart.MIE = saved.MIE
  <2>1. ~(next <= 3)
    <3>1. next <= 3 => hart.MIE = FALSE
      BY <1>3 DEF CkInv, Quiet
    <3> QED
      BY <1>1, <3>1, Zenon
  <2>2. next > 3
    BY <1>3, <2>1
  <2>3. next > 3 => hart.MIE = saved.MIE
    BY <1>3 DEF CkInv, Back
  <2> QED
    BY <2>2, <2>3, Zenon
<1>6. CASE i = "STI"
  <2>1. k > 10
    BY <1>2, <1>3, <1>4, <1>6 DEF CkInv, Quiet
  <2>2. hart.mie = saved.mie /\ hart.mideleg = saved.mideleg /\ hart.mip \cap Writable = saved.mip \cap Writable
    BY <1>3, <1>4, <2>1 DEF CkInv, Back
  <2>3. i \in (saved.mip \cap saved.mie \cap Writable) \ saved.mideleg
    BY <1>2, <1>6, <2>2 DEF Writable
  <2> QED
    BY <1>1, <1>3, <1>5, <2>3 DEF RomInv, NotDerailed
<1>7. CASE i = "MTI"
  <2>1. saved.priv = 0 \/ saved.timecmp <= saved.mcycle \div RTC_FREQ_DIV
    BY <1>2, <1>3, <1>7 DEF CkInv, Stopped
  <2> QED
    BY <1>1, <1>3, <1>5, <2>1 DEF RomInv, NotDerailed
<1> QED
  BY <1>2, <1>3, <1>6, <1>7 DEF CkInv

\* Every step keeps the invariant.
LEMMA RomInvNext == RomInv /\ [CkNext]_ckvars => RomInv'
<1> SUFFICES ASSUME RomInv, [CkNext]_ckvars PROVE RomInv'
  OBVIOUS
<1>1. CkInv(hart, saved, next) /\ next \in Nat \ {0} /\ saved \in Guests /\ saved.fs \in 0..3
  BY CheckpointAssumption DEF RomInv
<1>2. CASE RomStep
  <2> DEFINE r == Rom(saved)[next]
  <2>1. /\ phase = "rom" /\ saved' = saved /\ next' = next + 1
        /\ hart' = Restore(Counted(hart), saved, r)
        /\ phase' = IF r = "dret" THEN "guest" ELSE "rom"
    BY <1>2 DEF RomStep
  <2>2. next \in 1..(IF saved.fs = 0 THEN 21 ELSE 23)
    BY <1>1, <2>1 DEF RomInv, Place
  <2>3. CkInv(hart', saved', next')
    BY <1>1, <2>1, <2>2, StepBack
  <2>4. IF r = "dret" THEN Place(saved, next + 1) = 22 ELSE Place(saved, next + 1) <= 21
    <3>1. CASE saved.fs = 0
      BY <1>1, <2>2, <3>1, RomIs DEF Place
    <3>2. CASE saved.fs # 0
      BY <1>1, <2>2, <3>2, RomIs DEF Place
    <3> QED
      BY <3>1, <3>2
  <2> HIDE DEF r
  <2> QED
    BY <1>1, <2>1, <2>3, <2>4 DEF RomInv, NotDerailed
<1>3. CASE RomSlice
  <2>1. phase = "rom" /\ hart' = Tick(hart) /\ UNCHANGED <<saved, phase, next>>
    BY <1>3 DEF RomSlice
  <2>2. CkInv(hart', saved', next')
    BY <1>1, <2>1, TickBack
  <2> QED
    BY <2>1, <2>2 DEF RomInv, NotDerailed
<1>4. CASE Derail
  BY <1>4, DerailStep
<1>5. CASE UNCHANGED ckvars
  BY <1>5 DEF ckvars, RomInv, NotDerailed
<1> QED
  BY <1>2, <1>3, <1>4, <1>5 DEF CkNext

\* The program that a checkpoint writes brings back every register it saves,
\* for any state of the hart: in spite of the scratch registers it uses itself,
\* of slices that begin within it, and of locked PMP entries.  It is not
\* interrupted unless the guest could have been at the checkpoint.
THEOREM CheckpointRestores == CkSpec => []StateRestored
<1>1. RomInv => StateRestored
  <2> SUFFICES ASSUME RomInv, phase = "guest" PROVE RegistersRestored
    BY DEF RomInv, StateRestored, RegistersRestored
  <2>1. CkInv(hart, saved, next) /\ Place(saved, next) = 22 /\ saved \in Guests /\ next \in Nat
    BY DEF RomInv
  <2>2. next > 5 /\ saved.mcycle \in Nat /\ saved.mcounteren \in Nat
    BY <2>1, CheckpointAssumption DEF Place
  <2>3. /\ \A r \in Restored : hart[r] = saved[r]
        /\ hart.mip \cap Writable = saved.mip \cap Writable
        /\ hart.mcounteren = Imm12(saved.mcounteren)
        /\ saved.fs # 0 => hart.fcsr = saved.fcsr /\ hart.f3[1] = saved.f3[1] /\ hart.fs = 3
        /\ saved.fs = 0 => hart.fs = 0
    BY <2>1, <2>2 DEF CkInv, Back, Aside, Restored
  <2>4. saved.mcounteren < 2048 => hart.mcounteren = saved.mcounteren
    BY <2>2, <2>3 DEF Imm12
  <2>5. saved.priv # 0 =>
          /\ hart.minstret = saved.minstret
          /\ hart.mcycle = saved.mcycle - (saved.mcycle % RTC_FREQ_DIV)
    BY <2>1, <2>2, Units DEF CkInv, Stopped
  <2> QED
    BY <2>3, <2>4, <2>5 DEF RegistersRestored
<1> QED
  BY RomInvInit, RomInvNext, <1>1, PTL DEF CkSpec

(***************************************************************************)
(* The files of a checkpoint.                                              *)
(***************************************************************************)
Pieces == [piece : Nat, of : Nat]

\* What there is of a file is the beginning of the memory at moment m.
InPlace(f, m) == \A k \in 1..Len(files[f]) : files[f][k] = [piece |-> k, of |-> m]

DumpTypes ==
  /\ moment \in Nat /\ dumps \in Nat
  /\ files \in [DumpNames -> Seq(Pieces)]
  /\ writing \in DumpNames \cup {"none"}

\* Of a dump whose write calls took whole files, the files written so far are
\* of the moment at which it is made; a first dump finds no file it could
\* leave behind.
DumpInv ==
  /\ dumps = 0 => writing = "none" /\ \A f \in DumpNames : files[f] = <<>>
  /\ writing # "none" => ~whole
  /\ dumps <= 1 /\ writing = "mainram" => files["bootram"] = <<>>
  /\ ~short /\ writing = "mainram" => InPlace("mainram", moment)
  /\ ~short /\ writing = "bootram" => \A f \in DumpNames : InPlace(f, moment)
  /\ ~short /\ writing = "none" /\ (whole \/ dumps <= 1) =>
        \E m \in Nat : \A f \in DumpNames : InPlace(f, m)

\* There are no files at first.
LEMMA DumpInitially == DumpInit => DumpTypes /\ DumpInv
<1> SUFFICES ASSUME DumpInit PROVE DumpTypes /\ DumpInv
  OBVIOUS
<1>1. \A f \in DumpNames : files[f] = <<>> /\ Len(files[f]) = 0
  BY DEF DumpInit
<1>2. DumpTypes
  BY DEF DumpInit, DumpTypes, DumpNames
<1>3. \A f \in DumpNames : InPlace(f, 1)
  BY <1>1 DEF InPlace
<1> QED
  BY <1>1, <1>2, <1>3 DEF DumpInit, DumpInv

\* What one write call makes of a file that was just opened.
LEMMA FirstWrite ==
  ASSUME DumpTypes, writing \in DumpNames, NEW n \in Nat,
         NEW all, all = files[writing] \o [k \in 1..n |-> [piece |-> k, of |-> moment]]
  PROVE  /\ all \in Seq(Pieces)
         /\ files[writing] = <<>> =>
               Len(all) = n /\ \A k \in 1..n : all[k] = [piece |-> k, of |-> moment]
<1> DEFINE new == [k \in 1..n |-> [piece |-> k, of |-> moment]]
<1>1. new \in Seq(Pieces) /\ Len(new) = n
  BY DEF DumpTypes, Pieces
<1>2. files[writing] \in Seq(Pieces)
  BY DEF DumpTypes
<1>3. all \in Seq(Pieces)
  BY <1>1, <1>2
<1>4. \A k \in 1..n : new[k] = [piece |-> k, of |-> moment]
  OBVIOUS
<1> HIDE DEF new
<1>5. ASSUME files[writing] = <<>>
      PROVE  Len(all) = n /\ \A k \in 1..n : all[k] = [piece |-> k, of |-> moment]
  <2>1. <<>> \o new = new
    BY <1>1
  <2>2. all = new
    BY <1>5, <2>1 DEF new
  <2> QED
    BY <1>1, <1>4, <2>2
<1> QED
  BY <1>3, <1>5, Zenon

\* A write call keeps the files of the dump at one moment.
LEMMA WriteStep ==
  ASSUME DumpTypes, DumpInv, NEW n \in 1..Size, WriteSome(n)
  PROVE  DumpTypes' /\ DumpInv'
<1> DEFINE all == files[writing] \o [k \in 1..n |-> [piece |-> k, of |-> moment]]
           full == Len(all) = Size
<1> USE DumpAssumption
<1>1. writing \in DumpNames /\ dumps # 0
  BY DEF WriteSome, DumpTypes, DumpInv
<1>2. /\ files' = [f \in DumpNames |-> IF f = writing THEN all
                                   ELSE IF full /\ writing = "mainram" THEN <<>> ELSE files[f]]
      /\ writing' = IF ~full THEN writing ELSE IF writing = "mainram" THEN "bootram" ELSE "none"
      /\ whole' = (full /\ writing = "bootram")
      /\ short' = (short \/ files[writing] # <<>>)
      /\ moment' = moment /\ dumps' = dumps
  BY DEF WriteSome
<1>3. /\ all \in Seq(Pieces)
      /\ files[writing] = <<>> =>
            Len(all) = n /\ \A k \in 1..n : all[k] = [piece |-> k, of |-> moment]
  <2>1. n \in Nat
    OBVIOUS
  <2> QED
    BY <1>1, <2>1, FirstWrite, Zenon
<1> HIDE DEF all
<1>4. DumpTypes'
  <2>1. files' \in [DumpNames -> Seq(Pieces)]
    BY <1>2, <1>3 DEF DumpTypes
  <2> QED
    BY <1>1, <1>2, <2>1 DEF DumpTypes, DumpNames
<1>5. ASSUME ~short' PROVE ~short /\ \A k \in 1..Len(all) : all[k] = [piece |-> k, of |-> moment]
  BY <1>2, <1>3, <1>5, Zenon
<1>6. CASE writing = "mainram"
  <2>1. files'["mainram"] = all /\ files'["bootram"] = IF full THEN <<>> ELSE files["bootram"]
    BY <1>2, <1>6 DEF DumpNames
  <2>2. ASSUME ~short' PROVE InPlace("mainram", moment)'
    BY <1>2, <1>5, <2>1, <2>2 DEF InPlace
  <2>3. ASSUME full PROVE InPlace("bootram", moment)'
    BY <2>1, <2>3 DEF InPlace
  <2>4. writing' = IF full THEN "bootram" ELSE "mainram"
    BY <1>2, <1>6
  <2>5. whole' = FALSE
    BY <1>2, <1>6, Zenon
  <2> QED
    BY <1>1, <1>2, <1>4, <1>6, <2>1, <2>2, <2>3, <2>4, <2>5 DEF DumpInv, DumpNames
<1>7. CASE writing = "bootram"
  <2>1. files'["bootram"] = all /\ files'["mainram"] = files["mainram"]
    BY <1>2, <1>7 DEF DumpNames
  <2>2. ASSUME ~short' PROVE \A f \in DumpNames : InPlace(f, moment)'
    <3>1. InPlace("bootram", moment)'
      BY <1>2, <1>5, <2>1, <2>2 DEF InPlace
    <3>2. InPlace("mainram", moment)'
      BY <1>2, <1>5, <1>7, <2>1, <2>2 DEF InPlace, DumpInv, DumpNames
    <3> QED
      BY <3>1, <3>2 DEF DumpNames
  <2>3. writing' = IF full THEN "none" ELSE "bootram"
    BY <1>2, <1>7
  <2>4. moment' \in Nat
    BY <1>4 DEF DumpTypes
  <2>5. whole' = full
    BY <1>2, <1>7
  <2>6. ASSUME ~short' PROVE \E m \in Nat : \A f \in DumpNames : InPlace(f, m)'
    BY <1>2, <2>2, <2>4, <2>6
  <2> QED
    BY <1>1, <1>2, <1>4, <1>7, <2>2, <2>3, <2>5, <2>6, Zenon DEF DumpInv
<1> QED
  BY <1>1, <1>6, <1>7 DEF DumpNames

\* A step that leaves the files alone.
LEMMA Kept ==
  ASSUME DumpTypes, DumpInv, UNCHANGED <<files, writing, dumps, whole, short>>,
         moment' \in Nat, moment' = moment \/ writing = "none"
  PROVE  DumpTypes' /\ DumpInv'
<1>1. DumpTypes'
  BY DEF DumpTypes
<1>2. CASE writing # "none"
  <2>1. moment' = moment
    BY <1>2
  <2> QED
    BY <1>1, <1>2, <2>1, Zenon DEF DumpInv, InPlace
<1>3. CASE writing = "none"
  <2>1. ASSUME ~short', whole' \/ dumps' <= 1
        PROVE  \E m \in Nat : \A f \in DumpNames : InPlace(f, m)'
    <3>1. PICK m \in Nat : \A f \in DumpNames : InPlace(f, m)
      BY <1>3, <2>1, Zenon DEF DumpInv
    <3>2. \A f \in DumpNames : InPlace(f, m)'
      BY <3>1, Zenon DEF InPlace
    <3> QED
      BY <3>2
  <2>2. writing' = "none" /\ (dumps' = 0 => \A f \in DumpNames : files'[f] = <<>>)
    BY <1>3, Zenon DEF DumpInv
  <2> QED
    BY <1>1, <2>1, <2>2 DEF DumpInv
<1> QED
  BY <1>2, <1>3

\* The guest, a new dump, a kill and a load keep it too.
LEMMA DumpStep ==
  ASSUME DumpTypes, DumpInv, [DumpNext]_dumpvars
  PROVE  DumpTypes' /\ DumpInv'
<1>1. CASE Advance
  BY <1>1, Kept DEF Advance, DumpTypes
<1>2. CASE Dump
  <2>1. files' = [f \in DumpNames |-> IF f = "mainram" THEN <<>> ELSE files[f]]
    BY <1>2, Zenon DEF Dump, DumpTypes
  <2>2. InPlace("mainram", moment)'
    BY <2>1 DEF InPlace, DumpNames
  <2>3. dumps' <= 1 => files'["bootram"] = <<>>
    BY <1>2, <2>1 DEF Dump, DumpTypes, DumpInv, DumpNames
  <2>4. DumpTypes'
    BY <1>2, <2>1 DEF Dump, DumpTypes, DumpNames
  <2> QED
    BY <1>2, <2>2, <2>3, <2>4 DEF Dump, DumpTypes, DumpInv
<1>3. CASE Killed
  <2>1. ASSUME ~short', whole' \/ dumps' <= 1
        PROVE  \E m \in Nat : \A f \in DumpNames : InPlace(f, m)'
    <3>1. ~short /\ ~whole /\ dumps <= 1 /\ writing \in DumpNames /\ files' = files
      BY <1>3, <2>1 DEF Killed, DumpInv, DumpTypes
    <3>2. \A f \in DumpNames : InPlace(f, moment)
      <4>1. CASE writing = "bootram"
        BY <3>1, <4>1 DEF DumpInv
      <4>2. CASE writing = "mainram"
        <5>1. InPlace("bootram", moment)
          BY <3>1, <4>2 DEF DumpInv, InPlace
        <5> QED
          BY <3>1, <4>2, <5>1 DEF DumpInv, DumpNames
      <4> QED
        BY <3>1, <4>1, <4>2 DEF DumpNames
    <3>3. \A f \in DumpNames : \A m \in Nat : InPlace(f, m)' <=> InPlace(f, m)
      BY <3>1 DEF InPlace
    <3> QED
      BY <3>2, <3>3 DEF DumpTypes
  <2>2. writing' = "none" /\ writing # "none" /\ dumps' = dumps
    BY <1>3 DEF Killed
  <2>3. DumpTypes'
    BY <1>3 DEF Killed, DumpTypes
  <2> QED
    BY <2>1, <2>2, <2>3 DEF DumpInv
<1>4. CASE LoadDump
  BY <1>4, Kept DEF LoadDump, DumpTypes
<1>5. CASE \E n \in 1..Size : WriteSome(n)
  BY <1>5, WriteStep
<1>6. CASE UNCHANGED dumpvars
  BY <1>6, Kept DEF dumpvars, DumpTypes
<1> QED
  BY <1>1, <1>2, <1>3, <1>4, <1>5, <1>6 DEF DumpNext

\* A load that is accepted brings back both files as they are.
LEMMA LoadStep ==
  ASSUME DumpTypes, DumpInv, [DumpNext]_dumpvars
  PROVE  OneMoment
<1> USE DumpAssumption
<1> SUFFICES ASSUME loaded' # loaded, loaded' # <<>>, ~short, whole \/ dumps <= 1,
                    NEW k \in DOMAIN loaded'
             PROVE  /\ loaded'[k].of = loaded'[1].of
                    /\ loaded'[k].piece = IF k <= Size THEN k ELSE k - Size
  BY Zenon DEF OneMoment
<1>1. LoadDump
  BY DEF DumpNext, Advance, Dump, Killed, WriteSome, dumpvars
<1>2. \A f \in DumpNames : Len(files[f]) = Size
  BY <1>1 DEF LoadDump, Accepts
<1>3. PICK m \in Nat : \A f \in DumpNames : InPlace(f, m)
  BY <1>1 DEF LoadDump, DumpInv
<1> DEFINE p(i) == IF i <= Size THEN i ELSE i - Size
           f(i) == IF i <= Size THEN "mainram" ELSE "bootram"
<1>4. loaded' = [i \in 1..(2 * Size) |->
                   IF p(i) <= Len(files[f(i)]) THEN files[f(i)][p(i)] ELSE [piece |-> p(i), of |-> 0]]
  BY <1>1, <1>2 DEF LoadDump, Accepts
<1>5. \A i \in 1..(2 * Size) : loaded'[i] = [piece |-> p(i), of |-> m]
  <2> TAKE i \in 1..(2 * Size)
  <2>1. p(i) \in 1..Size /\ f(i) \in DumpNames
    BY DEF DumpNames
  <2>2. files[f(i)][p(i)] = [piece |-> p(i), of |-> m]
    BY <1>2, <1>3, <2>1 DEF InPlace
  <2>3. p(i) <= Len(files[f(i)])
    BY <1>2, <2>1
  <2> QED
    BY <1>4, <2>2, <2>3
<1>6. k \in 1..(2 * Size) /\ 1 \in 1..(2 * Size)
  BY <1>4
<1>7. loaded'[k] = [piece |-> p(k), of |-> m] /\ loaded'[1] = [piece |-> p(1), of |-> m]
  BY <1>5, <1>6, Zenon
<1> QED
  BY <1>7

\* A load brings back one moment of the guest with every piece of RAM and boot
\* ROM in its place, or gives up, for memories of every size and wherever the
\* simulator was killed (serialize_memory, deserialize_memory).
THEOREM DumpsLoadOneMoment == DumpSpec => LoadsOneMoment
<1>1. DumpInit => DumpTypes /\ DumpInv
  BY DumpInitially
<1>2. DumpTypes /\ DumpInv /\ [DumpNext]_dumpvars => (DumpTypes /\ DumpInv)' /\ [OneMoment]_dumpvars
  BY DumpStep, LoadStep
<1> QED
  BY <1>1, <1>2, PTL DEF DumpSpec, LoadsOneMoment

(***************************************************************************)
(* The gold memory.                                                        *)
(***************************************************************************)
\* Gold memory and memory agree, and the buffers hold loads numbered up to now.
GoldInv ==
  /\ instid \in Nat /\ ram \in [GoldAddrs -> Byte]
  /\ DOMAIN mem_byte \subseteq GoldAddrs /\ DOMAIN rob = Cores
  /\ GoldTracksMemory

\* Reading a range of addresses of the gold memory with only loads in the buffer
\* reads the gold memory, whatever the entry of the load itself stores.
LEMMA ReadsMemory ==
  ASSUME NEW entries, NEW id, NEW range, NEW m, NEW st, id \in Nat,
         \A e \in entries : e.st = NoData
  PROVE  LdPerform(entries \cup {Entry(id, st)}, id, range, m) = Bytes(m, range)
<1> DEFINE q == entries \cup {Entry(id, st)}
           d == Bytes(m, range)
           stores(a) == {e \in q : e.rid < id /\ a \in update_newer(d, e.st)}
<1>1. \A e \in q : e.rid < id => update_newer(d, e.st) = {}
  <2> SUFFICES ASSUME NEW e \in q, e.rid < id PROVE update_newer(d, e.st) = {}
    OBVIOUS
  <2>1. CASE e \in entries
    BY <2>1 DEF update_newer, NoData
  <2>2. CASE e = Entry(id, st)
    BY <2>2 DEF Entry
  <2> QED
    BY <2>1, <2>2
<1>2. \A a \in DOMAIN d : stores(a) = {}
  BY <1>1
<1>3. DOMAIN d = range /\ d = [a \in DOMAIN d |-> d[a]]
  BY DEF Bytes
<1> HIDE DEF q, d
<1>4. Forward(q, id, d) = [a \in DOMAIN d |-> d[a]]
  BY <1>2 DEF Forward
<1> QED
  BY <1>3, <1>4 DEF LdPerform, q, d

\* A globally performed store leaves the buffer.
LEMMA RetireLoads ==
  ASSUME NEW entries, NEW id \in Nat, NEW st, \A e \in entries : e.st = NoData
  PROVE  \A e \in Retire(entries \cup {Entry(id, st)}, id) : e.st = NoData
<1>1. Entry(id, st).rid = id
  BY DEF Entry
<1>2. \A e \in Retire(entries \cup {Entry(id, st)}, id) : e \in entries
  BY <1>1 DEF Retire
<1> QED
  BY <1>2

\* What writing over a memory leaves in it.
LEMMA OverIs ==
  ASSUME NEW m, NEW d
  PROVE  /\ DOMAIN Over(m, d) = DOMAIN m \cup DOMAIN d
         /\ \A a \in DOMAIN d : Over(m, d)[a] = d[a]
         /\ \A a \in DOMAIN m \ DOMAIN d : Over(m, d)[a] = m[a]
BY DEF Over

\* An access is within the memory.
LEMMA RangeIn ==
  ASSUME NEW range \in Ranges
  PROVE  range \subseteq GoldAddrs
BY DEF Ranges

\* The check of a load fails it exactly when it did not read memory.
LEMMA LoadExact ==
  ASSUME GoldInv, NEW c \in Cores, NEW range \in Ranges, NEW rd, GoldLoad(c, range, rd)
  PROVE  /\ check' = "ok" <=> rd = Bytes(ram, range)
         /\ GoldInv'
<1> DEFINE m == Seen(mem_byte, ram, range)
           id == instid + 1
<1>1. /\ check = "ok" /\ instid' = id /\ mem_byte' = m /\ UNCHANGED ram
      /\ rob' = [rob EXCEPT ![c] = rob[c] \cup {Entry(id, NoData)}]
      /\ check' = IF LdPerform(rob[c] \cup {Entry(id, NoData)}, id, range, m) = rd THEN "ok" ELSE "fail"
  BY DEF GoldLoad
<1>2. id \in Nat /\ range \subseteq GoldAddrs /\ ram \in [GoldAddrs -> Byte] /\ DOMAIN rob = Cores
      /\ DOMAIN mem_byte \subseteq GoldAddrs /\ instid \in Nat
  BY RangeIn DEF GoldInv
<1>3. /\ \A a \in DOMAIN mem_byte : mem_byte[a] = ram[a]
      /\ \A x \in Cores : \A e \in rob[x] : e.st = NoData
  BY <1>1 DEF GoldInv, GoldTracksMemory
<1>4. DOMAIN m = range \cup DOMAIN mem_byte /\ \A a \in DOMAIN m : m[a] = ram[a]
  <2>1. /\ DOMAIN m = range \cup DOMAIN mem_byte
        /\ \A a \in DOMAIN mem_byte : m[a] = mem_byte[a]
        /\ \A a \in range \ DOMAIN mem_byte : m[a] = ram[a]
    BY DEF Seen, Bytes, Over
  <2> HIDE DEF m
  <2> QED
    BY <1>3, <2>1
<1> HIDE DEF m, id
<1>5. Bytes(m, range) = Bytes(ram, range)
  BY <1>4 DEF Bytes
<1>6. LdPerform(rob[c] \cup {Entry(id, NoData)}, id, range, m) = Bytes(ram, range)
  BY <1>2, <1>3, <1>5, ReadsMemory
<1>7. check' = "ok" <=> rd = Bytes(ram, range)
  BY <1>1, <1>6
<1>8. \A x \in Cores : \A e \in rob'[x] : e.st = NoData
  BY <1>1, <1>2, <1>3 DEF Entry
<1>9. GoldInv'
  BY <1>1, <1>2, <1>4, <1>8 DEF GoldInv, GoldTracksMemory
<1> QED
  BY <1>7, <1>9

\* A store is in gold memory and memory at once, and leaves the buffer.
LEMMA StoreKeeps ==
  ASSUME GoldInv, NEW c \in Cores, NEW range \in Ranges, NEW d \in [range -> Byte], GoldStore(c, d)
  PROVE  GoldInv'
<1> DEFINE id == instid + 1
<1>1. /\ check = "ok" /\ instid' = id /\ mem_byte' = Over(mem_byte, d) /\ ram' = Over(ram, d)
      /\ rob' = [rob EXCEPT ![c] = Retire(rob[c] \cup {Entry(id, d)}, id)]
  BY DEF GoldStore, StPerform
<1>2. id \in Nat /\ range \subseteq GoldAddrs /\ ram \in [GoldAddrs -> Byte] /\ DOMAIN rob = Cores
      /\ DOMAIN mem_byte \subseteq GoldAddrs /\ instid \in Nat
  BY RangeIn DEF GoldInv
<1>3. /\ \A a \in DOMAIN mem_byte : mem_byte[a] = ram[a]
      /\ \A x \in Cores : \A e \in rob[x] : e.st = NoData
  BY <1>1 DEF GoldInv, GoldTracksMemory
<1> HIDE DEF id
<1>4. ram' \in [GoldAddrs -> Byte]
  BY <1>1, <1>2 DEF Over
<1>5. DOMAIN mem_byte' \subseteq GoldAddrs /\ \A a \in DOMAIN mem_byte' : mem_byte'[a] = ram'[a]
  <2>1. /\ DOMAIN Over(mem_byte, d) = DOMAIN mem_byte \cup DOMAIN d
        /\ \A a \in DOMAIN d : Over(mem_byte, d)[a] = d[a]
        /\ \A a \in DOMAIN mem_byte \ DOMAIN d : Over(mem_byte, d)[a] = mem_byte[a]
    BY OverIs, Zenon
  <2>2. /\ DOMAIN Over(ram, d) = DOMAIN ram \cup DOMAIN d
        /\ \A a \in DOMAIN d : Over(ram, d)[a] = d[a]
        /\ \A a \in DOMAIN ram \ DOMAIN d : Over(ram, d)[a] = ram[a]
    BY OverIs, Zenon
  <2>3. DOMAIN d = range /\ DOMAIN ram = GoldAddrs
    BY <1>2
  <2> QED
    BY <1>1, <1>2, <1>3, <2>1, <2>2, <2>3
<1>6. \A x \in Cores : \A e \in rob'[x] : e.st = NoData
  BY <1>1, <1>2, <1>3, RetireLoads, Zenon
<1> QED
  BY <1>1, <1>2, <1>4, <1>5, <1>6, Zenon DEF GoldInv, GoldTracksMemory

\* The same of an atomic access of bytes the gold memory has.
LEMMA AmoExact ==
  ASSUME GoldInv, NEW c \in Cores, NEW range \in Ranges, NEW st \in [range -> Byte], NEW rd, GoldAmo(c, st, rd)
  PROVE  /\ range \subseteq DOMAIN mem_byte => (check' = "ok" <=> rd = Bytes(ram, range))
         /\ GoldInv'
<1> DEFINE id == instid + 1
           after == Over(ram, st)
           m == Seen(mem_byte, after, range)
           q == rob[c] \cup {Entry(id, st)}
           ok == LdPerform(q, id, range, m) = rd
<1>1. /\ check = "ok" /\ instid' = id /\ ram' = after
      /\ mem_byte' = IF ok THEN Over(m, st) ELSE m
      /\ rob' = [rob EXCEPT ![c] = IF ok THEN Retire(q, id) ELSE q]
      /\ check' = IF ok THEN "ok" ELSE "fail"
  <2>1. DOMAIN st = range
    OBVIOUS
  <2> QED
    BY <2>1 DEF GoldAmo, StPerform
<1>2. id \in Nat /\ range \subseteq GoldAddrs /\ ram \in [GoldAddrs -> Byte] /\ DOMAIN rob = Cores
      /\ DOMAIN mem_byte \subseteq GoldAddrs /\ instid \in Nat
  BY RangeIn DEF GoldInv
<1>3. /\ \A a \in DOMAIN mem_byte : mem_byte[a] = ram[a]
      /\ \A x \in Cores : \A e \in rob[x] : e.st = NoData
  BY <1>1 DEF GoldInv, GoldTracksMemory
<1>4. after \in [GoldAddrs -> Byte] /\ \A a \in GoldAddrs : after[a] = IF a \in range THEN st[a] ELSE ram[a]
  BY <1>2 DEF Over
<1>5. /\ DOMAIN m = range \cup DOMAIN mem_byte
      /\ \A a \in DOMAIN mem_byte : m[a] = mem_byte[a]
      /\ \A a \in range \ DOMAIN mem_byte : m[a] = after[a]
  <2> HIDE DEF after
  <2> QED
    BY DEF Seen, Bytes, Over
<1> HIDE DEF id, after, m
<1>6. LdPerform(q, id, range, m) = Bytes(m, range)
  <2>1. \A e \in rob[c] : e.st = NoData
    BY <1>3
  <2> QED
    BY <1>2, <2>1, ReadsMemory
<1>7. ASSUME range \subseteq DOMAIN mem_byte PROVE check' = "ok" <=> rd = Bytes(ram, range)
  <2>1. Bytes(m, range) = Bytes(ram, range)
    BY <1>3, <1>5, <1>7 DEF Bytes
  <2> QED
    BY <1>1, <1>6, <2>1
<1>8. GoldInv'
  <2>1. CASE ~ok
    <3>1. check' # "ok" /\ mem_byte' = m /\ DOMAIN rob' = Cores
      BY <1>1, <1>2, <2>1
    <3> QED
      BY <1>1, <1>2, <1>4, <1>5, <3>1 DEF GoldInv, GoldTracksMemory
  <2>2. CASE ok
    <3>1. mem_byte' = Over(m, st) /\ rob' = [rob EXCEPT ![c] = Retire(q, id)]
      BY <1>1, <2>2
    <3>2. DOMAIN mem_byte' \subseteq GoldAddrs /\ \A a \in DOMAIN mem_byte' : mem_byte'[a] = after[a]
      <4>1. DOMAIN st = range
        OBVIOUS
      <4>2. /\ DOMAIN Over(m, st) = DOMAIN m \cup DOMAIN st
            /\ \A a \in DOMAIN st : Over(m, st)[a] = st[a]
            /\ \A a \in DOMAIN m \ DOMAIN st : Over(m, st)[a] = m[a]
        BY OverIs, Zenon
      <4> QED
        BY <1>2, <1>3, <1>4, <1>5, <3>1, <4>1, <4>2
    <3>3. \A x \in Cores : \A e \in rob'[x] : e.st = NoData
      BY <1>2, <1>3, <3>1, RetireLoads, Zenon
    <3> QED
      BY <1>1, <1>2, <1>4, <3>1, <3>2, <3>3, Zenon DEF GoldInv, GoldTracksMemory
  <2> QED
    BY <2>1, <2>2
<1> QED
  BY <1>7, <1>8

\* The in-order bridge is exact: for any number of cores and any memory, a load
\* is failed exactly when it did not read the latest store to each of its bytes,
\* because no store stays in a reorder buffer and the gold memory follows
\* dromajo's byte for byte.
THEOREM GoldRight == GoldSpec => VerdictExact
<1>1. GoldInit => GoldInv
  BY DEF GoldInit, GoldInv, GoldTracksMemory, NoData
<1>2. GoldInv /\ [GoldNext]_goldvars => GoldInv' /\ [ExactVerdict /\ GoldTracksMemory']_goldvars
  <2> SUFFICES ASSUME GoldInv, [GoldNext]_goldvars
               PROVE  GoldInv' /\ [ExactVerdict /\ GoldTracksMemory']_goldvars
    OBVIOUS
  <2>1. CASE GoldNext
    <3>1. GoldInv'
      BY <2>1, LoadExact, StoreKeeps, AmoExact DEF GoldNext
    <3>2. ExactVerdict
      BY LoadExact, AmoExact DEF ExactVerdict
    <3> QED
      BY <3>1, <3>2 DEF GoldInv
  <2>2. CASE UNCHANGED goldvars
    BY <2>2 DEF goldvars, GoldInv, GoldTracksMemory
  <2> QED
    BY <2>1, <2>2
<1> QED
  BY <1>1, <1>2, PTL DEF GoldSpec, VerdictExact
=============================================================================
