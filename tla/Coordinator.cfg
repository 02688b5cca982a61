SPECIFICATION Spec
CONSTANTS
  Order = {o1}
  Sig = {s1, s2}
  MaxNonce = 0
  Outcome = {"ok", "reverted"}
  NoTx = NoTx
  Call = {c1}
  Proc = {p1, p2}
  Nobody = Nobody
  Departed = Departed
  NoKey = NoKey
  MaxCrash = 1
  MaxGate = 1
SYMMETRY Alike
INVARIANTS
  DurableBeforeSent
  TerminalFromReceipt
PROPERTY
  BytesNeverReplaced
