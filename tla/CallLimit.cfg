SPECIFICATION FairSpec
CONSTANTS
  c1 = c1
  c2 = c2
  c3 = c3
  c4 = c4
  c5 = c5
  Callers = {c1, c2, c3, c4, c5}
  Limit = 2
  MaxOvertakers = 2
INVARIANTS TypeOK CountersAgree NoIdleSlot ExcessIsOvertaking
PROPERTIES EveryCallGetsItsTurn
