CONSTANTS
  Grant = {g1}
  Op = {a1}
  Nobody = Nobody
  MaxCrash = 0
SPECIFICATION FairSpec
PROPERTY RevokedIsFinal
