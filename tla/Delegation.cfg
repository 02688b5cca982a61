CONSTANTS
  Grant = {g1}
  Op = {a1, a2, a3}
  Nobody = Nobody
  MaxCrash = 1
SPECIFICATION FairSpec
INVARIANTS CacheCovers ActiveIsFit
PROPERTIES SpendOnlyActive FinalStays DueStops
