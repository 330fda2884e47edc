CONSTANTS
  PageSize = 2
  NumPages = 2
  Chips <- TwoChips
  Writable = {"cart1"}
  Contents <- Shipped
  Byte = {0, 82}
  MaxData = 3
SPECIFICATION Spec
INVARIANTS TypeOK AnswersFollowCommands
PROPERTIES OnlyPageProgrammed ImplementsPageStore
