\* Raw and egress rings of 2: four frames fill both of a direction, and an egress
\* ring that is neither empty nor full lets a newer frame meet a waiting one.  The
\* ingress budget is larger than the raw ring, so one pass can find it full.
CONSTANTS
  RawCapacity = 2
  EgressCapacity = 2
  RawBudget = 2
  EgressBudget = 2
  IngressBudget = 3
  MaxFrames = 4
  LiveDirections <- NoDirection
SPECIFICATION Spec
INVARIANT TypeOK
INVARIANT FifoOrder
INVARIANT ReplayYields
INVARIANT NoStaleBurst
INVARIANT Conservation
INVARIANT PreparedOnce
PROPERTY ImplementsChannel
