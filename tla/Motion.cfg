\* A tick is 10 ms: report intervals of 0 and 20 ms, inertia of 30 ms.
SPECIFICATION Spec
CONSTANTS
  Counts = {0, 1, 2, 3, 4}
  Intervals = {0, 2}
  MaxInterval = 2
  GlideEvery = 1
  GlideMax = 3
  Stale = 1
  Late = 1
  Span = 5
  Size = 3
  Pushes = 4
  Shift = 8
INVARIANTS
  DeliveredInTime
  GlideYields
  MovementIsGeared
  FlickIsFollowed
PROPERTIES
  NoCursorInTail
  NoGlideFromDrag
  MovementBeforePinch
  GlideEnds
