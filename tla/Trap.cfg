SPECIFICATION FairSpec
CONSTANTS
  Pcs = {p, v}
  mtvec = v
  stvec = v
  Irqs = {5}
  Causes = {}
  MppBits = {1, 3}
PROPERTIES
  ReturnResumes
  OnlyReturnsLowerPriv
  NoNestedSupervisorInterrupt
  InterruptTaken
