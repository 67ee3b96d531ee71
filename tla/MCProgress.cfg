SPECIFICATION MCSpec
CONSTANTS
  Harts = {h1, h2, h3}
  Ram = {r0, r1}
  Dev = {d}
  Val = {0, 1, 2, 3, 4, 5, 6}
  None = None
  Trap = Trap
  ResetAddr = r0
  MaxSeq = 7
  Counter = r0
  Rounds = 2
  ClintCpus = 2
  NCycles = 2
  RTC_FREQ_DIV = 2
  Half = 4
  MaxCycle = 9
INVARIANTS
  NoLostUpdate
  
PROPERTIES
  LoopFinishes
  TimerFires
