SPECIFICATION Spec
CONSTANTS
  Order = {o1}
  Call = {o1}
  Sig = {1, 2}
  MaxNonce = 1
  Outcome = {"ok", "reverted", "odd"}
  NoTx = NoTx
  Proc = {p1}
  Nobody = Nobody
  Departed = Departed
  NoKey = NoKey
  MaxCrash = 0
  MaxGate = 1
  Unapproved = {o1}
PROPERTY
  FillsOnce
CHECK_DEADLOCK FALSE
