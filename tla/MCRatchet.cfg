CONSTANTS
  Texts = {"abc", "exit"}
  Answers = {"hi", "lol"}
  Exit = "exit"
  Rounds = 3
  MaxVersion = 3
  MaxStarts = 3
SPECIFICATION FairSpec
CHECK_DEADLOCK FALSE
INVARIANTS FileBalanced NothingResumed KeysLast
PROPERTIES ImplementsConversation EveryoneEnds
