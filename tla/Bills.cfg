SPECIFICATION OrderSpec
CONSTANTS
  Payers = {p1}
  Amounts = {100, 200, 300}
  TicksPerMs = 2
  MaxWrites = 4
  MaxInFlight = 2
  MaxCreates = 3
  DirectPayers = {p1}
  DirectAmounts = {100, 200, 300}
  SourceType = "errand_task"
INVARIANTS
  SnapshotConsistent
  AnsweredBillMatches
PROPERTIES
  ImplementsLifecycle
  AmountFrozen
