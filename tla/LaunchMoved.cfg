CONSTANTS
  Run = {r1, r2}
  Op = {a1}
  Nobody = Nobody
  TopStage = 1
  MaxCrash = 1
SYMMETRY Alike
SPECIFICATION Spec
PROPERTIES LaunchFromCanary
