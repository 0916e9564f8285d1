\* An utterance is cancelled while it waits for the lock or the handshake.
CONSTANTS
  Utterances = 2
  MaxCancels = 1
  MaxChunks = 1
  None = None
SPECIFICATION Spec
PROPERTY CancelledIsNotSent
CHECK_DEADLOCK FALSE
