\* Three utterances, two cancels, a socket that may close at any time.
CONSTANTS
  Utterances = 3
  MaxCancels = 2
  MaxChunks = 1
  None = None
SPECIFICATION Spec
INVARIANTS TypeOK CompletionPending ActiveIsSpeaking HeardInOrder
PROPERTIES ImplementsSpeech EveryUtteranceEnds
CHECK_DEADLOCK FALSE
