\* Two runs of two modes; a seeded booking and one a caller has made.
CONSTANTS
  Runs = {r1, r2}
  Modes = {fast, exact}
  Bookings = {b1, b2}
  Dates = {d1, d2}
  Corrections = {d2}
  Seeded = {b1}
  SeedDate = d1
  SharedRedis = TRUE
  None = None
SPECIFICATION Spec
INVARIANTS TypeOK InterruptedIsDiscarded EveryRunTellsItsStory PendingIsRunning
PROPERTY EveryRunEnds
CHECK_DEADLOCK FALSE
