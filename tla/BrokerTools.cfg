CONSTANTS
  a = a  n = n  d = d  db = db  dn = dn  e = e  en = en
  c1 = c1  c2 = c2  c3 = c3  c4 = c4  c5 = c5  c6 = c6  c7 = c7  c8 = c8  c9 = c9
  main = main  side = side
  Path = {a, n, d, db, dn, e, en}
  Root = Root
  Parent <- MCParent
  Initial <- MCInitial
  Call = {c1, c2, c3, c4, c5, c6, c7, c8, c9}
  Request <- MCRequest
  Mixes <- MCMixes
  EditTexts <- MCEditTexts
  NoText = NoText  Illegal = Illegal  Nobody = Nobody
  MaxFiles = 5  MaxPlans = 1  MaxBytes = 5
  MaxEdits = 2  MaxRestarts = 1
  Branch = {main, side}
  NoCommit = NoCommit
  Repositories <- MCRepositories
  Stagings <- MCStagings

SPECIFICATION GitSpec
CONSTRAINT TwoAccidents
INVARIANT HeadAndIndexOfOneMoment
INVARIANT TrackedIsCopied
PROPERTY CommitsInSequence
PROPERTY StaysInDirectories
CHECK_DEADLOCK FALSE
