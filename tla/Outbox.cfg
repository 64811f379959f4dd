SPECIFICATION Spec
CONSTANTS
  Events = {1, 2, 3}
  Workers = {w1, w2}
  BatchSize = 2
  NoEvent = NoEvent
  MaxFailures = 2
INVARIANTS
  TypeOK
  PublishedIsQueued
  OneJobPerEvent
PROPERTY
  EventuallyPublished
CHECK_DEADLOCK FALSE
