\* Three frames of every size, of which the largest must be refused.
SPECIFICATION Spec
CONSTANTS
  kMinSize = 2
  kMaxSize = 5
  Sizes <- MCSizes
  MaxFrames = 3
INVARIANTS
  TypeOK
  DeliveredInOrder
  NothingHeldBack
PROPERTY
  ImplementsStream
CHECK_DEADLOCK FALSE
