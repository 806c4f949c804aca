CONSTANTS
  c1 = c1
  c2 = c2
  tty = tty
  Channels = {c1, c2}
  Configured = {c1}
  Home = c1
  Console = tty
  Texts <- AllTexts
  MaxWrites = 2
SPECIFICATION FairSpec
INVARIANT TypeOK
INVARIANT AnswersPeople
INVARIANT HalvesInOrder
INVARIANT RepliesWhole
INVARIANT ModeRestored
PROPERTY Answered
CHECK_DEADLOCK FALSE
