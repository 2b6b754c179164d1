SPECIFICATION Spec
CONSTANTS
  Requests = {r1, r2}
  Keys = {k1}
  Carriers = {c1}
  Premiums = {1, 2}
  Lifetimes = {1}
  Faults = {}
  MaxClock = 3
  NoRequest = none
  NoKey = none
INVARIANT SameIdSameAnswer
