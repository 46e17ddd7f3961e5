SPECIFICATION Spec
CONSTANTS
  Sizes = {0, 1, 127, 128, 255, 16383, 16384, 2097151, 2097152, 268435455, 268435456}
  MaxSizes = 3
INVARIANTS SizesArrive NeverMalformed
