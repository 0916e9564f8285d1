\* Three turns; the handshakes fail or not, either peer may close at any time.
CONSTANTS
  Turns = {t1, t2, t3}
  None = None
SPECIFICATION Spec
INVARIANTS TypeOK ClosedCallIsReleased OneConnectionToRime
PROPERTIES NoTurnBeginsLate HangUpEnds
CHECK_DEADLOCK FALSE
