\* time_t of 3 bits (-4..3 seconds) and four microseconds to the second:
\* every carry, borrow and wrap of tv_sec happens among the 1024 pairs.
CONSTANTS
  SecBits = 3
  USecPerSec = 4
SPECIFICATION Spec
INVARIANTS
  TypeOK
  ArithmeticExact
  CmpIsOrder
\* Each behaviour applies one macro and ends there.
CHECK_DEADLOCK FALSE
