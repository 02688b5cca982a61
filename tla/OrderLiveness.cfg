SPECIFICATION FairSpec
CONSTANTS
  Order = {o1, o2}
  Call = {o1, o2}
  Sig = {1}
  MaxNonce = 0
  Outcome = {"ok", "odd"}
  NoTx = NoTx
  Proc = {p1}
  Nobody = Nobody
  Departed = Departed
  NoKey = NoKey
  MaxCrash = 1
  MaxGate = 0
  Unapproved = {}
PROPERTY
  PendingResolves
  PlacementEnds
CHECK_DEADLOCK FALSE
