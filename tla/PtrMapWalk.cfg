SPECIFICATION MapSpec
CONSTANTS
  Keys = {1, 2, 3}
INVARIANTS WalkIsOrdered
