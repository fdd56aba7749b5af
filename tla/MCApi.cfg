CONSTANTS
  Scenarios <- SomeScenarios
  Callers = {1, 2, 3}
  TableOf <- Tables
  Order <- Ids
  MaxLimit = 4
  Before <- SortsBefore
SPECIFICATION FairApiSpec
CHECK_DEADLOCK FALSE
INVARIANTS NoDangling UpdatesKept StoresAgree PagesComplete OthersAreInvisible
PROPERTIES TransactionsEnd
