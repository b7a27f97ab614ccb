SPECIFICATION Spec
CONSTANTS
  Word <- Words
  EndsInYa <- YaEnding
  Number <- Numbers
  Width <- Widths
  Sign <- Signs
  Catalog <- Models
  LlmMode = "mock"
  Document <- SmallBase
  SectionOf <- SmallSections
  OwnerOf <- SmallOwners
  TopK = 1
  Message <- Races
  Role <- Clients
  Modes <- Langgraph
  MaxTurns = 3
  MaxResets = 1
  MaxConcurrent = 2
  MaxCrashes = 1
  MaxFaults = 0
CHECK_DEADLOCK FALSE
INVARIANTS QuestionsPrecedeAnswers SoloTurnsAreDurable ResetIsFinal StaffAgentAnswersStaff

