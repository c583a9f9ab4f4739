\* Does every recording end at the time limit?
SPECIFICATION Spec
CONSTANTS
  MaxUses = 3
CHECK_DEADLOCK FALSE
INVARIANT RecordingIsLimited
