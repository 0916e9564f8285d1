\* In-process tools with a reply hook: is a stale reply spoken?
CONSTANTS
  Ids <- MCIds
  Values <- MCValues
  PartOf <- MCPartOf
  Blank <- MCBlank
  FindLimit = 1
  None = None
  Absent = Absent
  NoRow = NoRow
  Calls = {c1, c2}
  MaxVersion = 3
  Requests <- LocalRequests
  OtherRequests <- OtherSession
  Seeded <- MCSeeded
  Http = FALSE
  ReplyHook = TRUE
SPECIFICATION Spec
INVARIANT PlayingIsCurrent
