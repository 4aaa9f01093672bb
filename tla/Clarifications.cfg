\* One question from its analysis through two answers; the catalogue is synchronised or midnight passes between them.
SPECIFICATION Spec
CONSTANTS
  Blank = " "
  Mark = ":"
  Comma = ","
  NoTime = "none"
  Times <- MCTimes
  Meaning <- MCMeaning
  BankWords = {"x"}
  OperationWords <- MCOperationWords
  ConfigAliases <- MCConfigAliases
  MaxCandidates = 3
  Similar = 50
  AutoSelect = 85
  Margin = 15
  Inputs <- MCInputs
  Catalogs <- MCCatalogs
  FirstCatalog <- MCFirst
  Answers <- MCAnswers
  MaxRounds = 2
  MaxChanges = 1
  Calendar <- MCCalendar
INVARIANTS
  DslIsComplete
  AmbiguousMetricIsAsked
  TimesMeanWhatTheySay
  OrganisationsAreGrounded
PROPERTIES
  PreservedIsKept
  CompleteAnswerResolves
CHECK_DEADLOCK FALSE
