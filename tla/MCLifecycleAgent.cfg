CONSTANTS
  Others = {"other"}
  SubjectsOf <- AgentSubjects
  Scenarios <- AllScenarios
  Tokens <- Two
  Concrete <- SomeConcrete
  MaxDeliver = 2
  MaxFaults = 1
  MaxTicks = 2
SPECIFICATION FairSpec
INVARIANTS StreamIsSound KeysAgree TokenIsValid
PROPERTY EventsSettle
CHECK_DEADLOCK FALSE
