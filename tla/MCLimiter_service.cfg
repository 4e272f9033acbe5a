\* Callers that never stop asking, no priorities, two origins: nobody starves.
SPECIFICATION Spec
CONSTANTS
  f1 = f1
  f2 = f2
  f3 = f3
  f4 = f4
  f5 = f5
  near = near
  far = far
  A = A
  B = B
  NaN = NaN
  Fetches = {f1, f2, f3, f4}
  Origins = {A, B}
  originOf <- TwoOrigins
  MaxRequests = 1
  Signalled = {f2}
  Repeating = {f1, f2, f3, f4}
  Throwing = {}
  Views = {near}
  PriorityOf <- Unprioritised
INVARIANTS SlotsConserved
PROPERTIES KeepsPromise WaitersProgress
