\* HTTP tools: does a step of a stale call change the table?
CONSTANTS
  Ids <- MCIds
  Values <- MCValues
  PartOf <- MCPartOf
  Blank <- MCBlank
  FindLimit = 1
  None = None
  Absent = Absent
  NoRow = NoRow
  Calls = {c1, c2}
  MaxVersion = 3
  Requests <- HttpRequests
  OtherRequests <- OtherSession
  Seeded <- MCSeeded
  Http = TRUE
  ReplyHook = FALSE
SPECIFICATION Spec
PROPERTY StaleNeverWrites
