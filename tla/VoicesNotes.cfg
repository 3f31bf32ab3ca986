SPECIFICATION Spec
CONSTANTS
  ninstances = 2
  Durations <- AnyDuration
  Garbage <- AnyGarbage
  Careful = FALSE
PROPERTY NotStolen
PROPERTY Ages
