SPECIFICATION Spec
CONSTANTS
  Order = {o1}
  Call = {o1}
  Sig = {1}
  MaxNonce = 1
  Outcome = {"ok", "reverted"}
  NoTx = NoTx
  Proc = {p1}
  Nobody = Nobody
  Departed = Departed
  NoKey = NoKey
  MaxCrash = 0
  MaxGate = 1
  Unapproved = {}
INVARIANT
  FilledIffPosted
CHECK_DEADLOCK FALSE
