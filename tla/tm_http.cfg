\* Tools and commit as HTTP requests, with a reply hook.
CONSTANTS
  Ids <- MCIds
  Values <- MCValues
  PartOf <- MCPartOf
  Blank <- MCBlank
  FindLimit = 1
  None = None
  Absent = Absent
  NoRow = NoRow
  Calls = {c1, c2}
  MaxVersion = 3
  Requests <- HttpRequests
  OtherRequests <- OtherSession
  Seeded <- MCSeeded
  Http = TRUE
  ReplyHook = TRUE
SPECIFICATION Spec
PROPERTIES UndisturbedCommitObeys EveryCallEnds ImplementsGate
