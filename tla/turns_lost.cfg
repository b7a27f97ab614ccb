SPECIFICATION Spec
CONSTANTS
  Word <- Words
  EndsInYa <- YaEnding
  Number <- Numbers
  Width <- Widths
  Sign <- Signs
  Catalog <- Models
  LlmMode = "mock"
  Document <- SmallBase
  SectionOf <- SmallSections
  OwnerOf <- SmallOwners
  TopK = 1
  Message <- Races
  Role <- Clients
  Modes <- Langgraph
  MaxTurns = 2
  MaxResets = 0
  MaxConcurrent = 2
  MaxCrashes = 0
  MaxFaults = 0
CHECK_DEADLOCK FALSE
INVARIANTS AnsweredIsStored
