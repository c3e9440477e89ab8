CONSTANTS
  Ids = {"a", "agent"}
  Graphs = {"agent", "ext"}
  External = {"ext"}
  Configs = {c1}
  Writers = {w1, w2}
  Last <- MCLast
  Nothing = Nothing
  Internal = {bad}
  Broken = {bad}
  Remote = {x, y}
  Reloads = {p, q}
  ThreadIds = {t1, t2}
  RunGraphs = {g1}
  Jobs = {w1, w2}
  Turns = {w1, w2}
  MaxPoints = 3
  Limits = {1, 2}
  Void = Void
  Tasks = {k1}
  Instances = {v1, v2}
  Compatible = {v1}
  Texts = {a1, a2}
  MaxChunks = 3
  Blocks = Blocks
  Null = Null
SYMMETRY Symmetry
SPECIFICATION Spec
INVARIANTS
  
  
  StatesShown
  CopiesWhole
  ArtifactIsStream
CHECK_DEADLOCK FALSE
