\* Two utterances of two chunks, one interruption, a queue of two messages.
CONSTANTS
  Utterances = 2
  MaxChunks = 2
  MaxSaid = 1
  MaxQueued = 2
  Cushion = 3
  EscapeAfter = 1
  EscapeFrames = 1
  None = None
SPECIFICATION Spec
INVARIANTS TypeOK FramesAligned EndFollowsAudio
PROPERTIES EveryEndIsShown ShortSpeechIsPlayed
CHECK_DEADLOCK FALSE
