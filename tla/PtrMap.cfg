SPECIFICATION MapSpec
CONSTANTS
  Keys = {1, 2, 3, 4, 5, 6}
INVARIANTS FindIsExact WalkIsOrderedUntilSpliced
