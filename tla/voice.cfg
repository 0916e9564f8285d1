\* Three overlapping turns, up to two interruptions.
CONSTANTS
  Turns = {t1, t2, t3}
  MaxVersion = 3
  Utterances = 4
  None = None
SPECIFICATION Spec
INVARIANTS TypeOK RepliesAreCurrent RepliesCanBeInterrupted OwnSpeechDropsNoReply
PROPERTY EveryTurnEnds
CHECK_DEADLOCK FALSE
