SPECIFICATION FairSpec
CONSTANTS
  Jobs = {j1, j2}
  Names = {n1, n2}
  None = None
  Size = 2
  MaxLine = 2
INVARIANTS DataDeletedOnce TimeoutEndsListening
PROPERTIES VerdictStands TransferConcludes
CHECK_DEADLOCK FALSE
