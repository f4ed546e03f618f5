SPECIFICATION MCSpec
CONSTANTS
  Items <- Goods
  Users = {1, 2, 3}
  Captains = {1, 2, 3}
  Demands = {1, 2, 3}
  Tasks = {1, 2}
  Payers <- PayersOfTwoTasks
  Amounts = {0, 2, 3}
  Prices = {0, 1}
  PackagingFees = {0, 2}
  TicksPerMs = 1
  MaxWrites = 3
  MaxInFlight = 1
  MaxCreates = 1
  DirectPayers <- FirstPayer
  DirectAmounts = {0}
  MaxCalls = 1
  SourceType = "errand_task"
CHECK_DEADLOCK FALSE
INVARIANTS
  ItemsFollowTask
  DemandInOnePlace
  DistributionAddsUp
  CollectedAsOwed
  CompletedIsPaid
PROPERTIES
  CompletedItemStays
