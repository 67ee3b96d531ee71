SPECIFICATION Spec
CONSTANTS
  Pages = {0, 1}
  RamPages = {0, 1}
  Words = 2
  TLBSize = 1
  Roots = {root}
  Bare = Bare
  PteWord <- MCPteWord
  Ptes <- MCPtes
  PmpConfigs <- PagePmp
  MppValues = {0, 1, 3}
INVARIANTS
  TlbCoherent
  TlbRespectsPmp
  FetchWindowCoherent
