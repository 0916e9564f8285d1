\* In-process tools, no reply hook, another session at work on the same table.
CONSTANTS
  Ids <- MCIds
  Values <- MCValues
  PartOf <- MCPartOf
  Blank <- MCBlank
  FindLimit = 1
  None = None
  Absent = Absent
  NoRow = NoRow
  Calls = {c1, c2}
  MaxVersion = 3
  Requests <- LocalRequests
  OtherRequests <- OtherSession
  Seeded <- MCSeeded
  Http = FALSE
  ReplyHook = FALSE
SPECIFICATION Spec
INVARIANTS TypeOK NoLostUpdate PlayingIsCurrent
PROPERTIES StaleNeverWrites ConfirmedIsStored FreshIsAnswered ImplementsGate
