CONSTANTS
  Posts <- MCPosts
  Dates <- MCDates
  Sizes <- MCSizes
  Characters <- MCCharacters
  Texts <- MCTexts
  MaxTopics = 3
  Theses <- MCTheses
  Labels <- MCLabels
  CollectorLines <- MCCollectorLines
  LinksPerLine = 1
  MaxChars = 10
  BatchBudget = 2
  MaxPosts = 2
  GrokRetries = 1
  SummaryRetries = 1
  MissingRetries = 1
  CoverageRetries = 2
  BotRetries = 1
SPECIFICATION ContentSpec
INVARIANTS
  DigestIsHonest
  ChatIsInOrder
  MessagesFit
CHECK_DEADLOCK FALSE
CONSTRAINT Bounded
VIEW View
