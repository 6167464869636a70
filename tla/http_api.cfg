CONSTANTS
  Requests = {r1, r2, r3}
  Keys = {k1, k2}
  MaxFaults = 2
  MaxExpiries = 1
  MaxCrashes = 1
SPECIFICATION HttpSpec
SYMMETRY Symmetry
INVARIANTS TypeOK OneUpdatePerKey BurntBounded AnswerTellsEffect
PROPERTY BurntStays
