SPECIFICATION Spec
CONSTANTS
  Word <- Words
  EndsInYa <- YaEnding
  Number <- Numbers
  Width <- Widths
  Sign <- Signs
  Catalog <- Models
  LlmMode = "openai"
  Document <- Base
  SectionOf <- Sections
  OwnerOf <- Owners
  TopK = 2
  Message <- Dialogues
  Role <- Everybody
  Modes <- BothModes
  MaxTurns = 2
  MaxResets = 1
  MaxConcurrent = 1
  MaxCrashes = 1
  MaxFaults = 1
CHECK_DEADLOCK FALSE
INVARIANTS TypeOK CitationsAreGrounded RiskGoesToPeople ExplicitTopicIsServed StaffAgentAnswersStaff ProposalsAreGrounded ContactsAgree
PROPERTIES ImplementsLog
