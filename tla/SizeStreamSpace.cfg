SPECIFICATION Spec
CONSTANTS
  Sizes = {0, 15, 16, 127, 128, 16383}
  MaxSizes = 2
INVARIANTS SpaceIsExact
