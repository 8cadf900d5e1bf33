SPECIFICATION Spec
CONSTANTS
  Messages = {m1, m2, m3}
  Typed = {m1, m2, m3}
  Hosted = {m1, m2, m3}
  Returned = {m1, m2, m3}
  NoRun = NoRun
  WithStop = TRUE
  WithPanic = TRUE
SYMMETRY MessageSymmetry
INVARIANTS TypeOK SingleLiveRun OnlyOwnedChannel MessageConserved
PROPERTIES OnlyOwnedRunRecords StartsOnce DeliversAsPromised
