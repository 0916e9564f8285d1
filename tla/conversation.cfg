\* Three overlapping turns; prompts of three entries, of a history of up to six.
CONSTANTS
  Turns = {t1, t2, t3}
  MAX_HISTORY = 3
SPECIFICATION Spec
INVARIANTS TypeOK ExchangesAreWhole PromptsAreCurrent ResultsFollowRequests
CHECK_DEADLOCK FALSE
