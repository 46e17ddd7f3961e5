SPECIFICATION Spec
CONSTANTS
  Keys = {3, 4}
  Masks = {{"readable"}, {"writable"}}
  Garbage = {{}, {"error"}}
PROPERTIES CalledForEvents
CHECK_DEADLOCK FALSE
