CONSTANTS
  Browsers = {b1, b2}
  MaxClock = 2
SPECIFICATION Spec
SYMMETRY Symmetry
INVARIANTS
  TypeOK
  Fresh
