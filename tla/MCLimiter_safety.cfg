\* Five reads of one origin and two slots; the viewport moves while they queue,
\* and the callback of one of them throws.
SPECIFICATION Safety
CONSTANTS
  f1 = f1
  f2 = f2
  f3 = f3
  f4 = f4
  f5 = f5
  near = near
  far = far
  A = A
  B = B
  NaN = NaN
  Fetches = {f1, f2, f3, f4, f5}
  Origins = {A}
  originOf <- OneOrigin
  MaxRequests = 2
  Signalled = {f1, f2, f3}
  Repeating = {f1}
  Throwing = {f4}
  Views = {near, far}
  PriorityOf <- Panned
CHECK_DEADLOCK FALSE
INVARIANTS NoOversubscription
PROPERTIES AbortedTakesNoSlot MostUrgentServed
