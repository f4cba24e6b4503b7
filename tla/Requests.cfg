\* Every operation over REST and MCP, and walks through the lists, one row a page.
SPECIFICATION FairSpec
CONSTANTS
  o1 = o1
  p1 = p1
  p2 = p2
  Msgs <- ThreeMsgs
  Ours <- OneOurs
  Chats <- TwoChats
  ChatOf <- InFirst
  MaxSecond = 2
  Limit = 1
  TokenConfigured = TRUE
  NoMessage = NoMessage
INVARIANTS
  TypeOK
  WalkShowsWhatStayed
  ShownAgainOnlyIfMoved
  AnswerTellsTheTruth
  FailuresAreNamed
  OnlyAllowedEffects
PROPERTIES
  WalksEnd
