SPECIFICATION FairChatSpec
CONSTANTS
  Providers = {"openai", "anthropic", "none"}
  MaxChats = 2
  MaxText = 4
  MaxChunk = 3
INVARIANTS ChatTypeOK OneVerdict DoneIsComplete AnswersWhole
PROPERTIES StreamModeEnds
CHECK_DEADLOCK FALSE
