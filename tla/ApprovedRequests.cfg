SPECIFICATION ControlSpec
CONSTANTS
  r1 = r1
  r2 = r2
  h = h
  u = u
  v = v
  w1 = w1
  w2 = w2
  j = j
  p1 = p1
  p2 = p2
  Lines = {0, 1, 2, 3}
  Seam = 0
  Absent = Absent
  Nobody = Nobody
  Sweeper = Sweeper
  Editor = Editor
  Accident = Accident
  Requests = {r1, r2, h}
  Undos = {u, v}
  Kind <- MCKind
  Aim <- MCAim
  Writes = {w1, w2}
  Jobs = {j}
  Rows = {r1, r2, h, u, v}
  Mixes <- MCMixes
  Paths = {p1, p2}
  Texts <- MCTexts
  Initial <- MCInitial
  MaxEdits = 1
  MaxFaults = 1
SYMMETRY SamePaths
INVARIANT RunsWhatWasApproved
INVARIANT WriterStartsFresh
INVARIANT HostRunsAlone
PROPERTY BrokerKeepsOut
PROPERTY GuardedStateKept
PROPERTY UndoAsShown
PROPERTY UndoTakesOwnText
CHECK_DEADLOCK FALSE
