SPECIFICATION Spec
CONSTANTS
  ninstances = 3
  Durations <- LongDurations
  Garbage <- NoGarbage
  Careful = TRUE
INVARIANT Inv
INVARIANT EachOnce
INVARIANT Silenced
INVARIANT OfftickSent
