CONSTANTS
  Capacity = 4
  Byte = {0, 1}
  MaxPush = 3
SPECIFICATION Spec
INVARIANTS TypeOK ViewStable EmptyIsRewound
PROPERTIES QueueSpec
