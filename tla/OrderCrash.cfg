SPECIFICATION Spec
CONSTANTS
  Order = {o1, o2}
  Call = {o1, o2}
  Sig = {1}
  MaxNonce = 1
  Outcome = {"ok", "reverted"}
  NoTx = NoTx
  Proc = {p1}
  Nobody = Nobody
  Departed = Departed
  NoKey = NoKey
  MaxCrash = 1
  MaxGate = 0
  Unapproved = {}
INVARIANTS
  LedgerFollowsChain
  FilledIffPosted
  NoSilentFill
  OneUnresolved
  AmbiguityHalts
CHECK_DEADLOCK FALSE
