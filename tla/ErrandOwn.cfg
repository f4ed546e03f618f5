SPECIFICATION ErrandSpec
CONSTANTS
  Items <- OneItem
  Users = {1}
  Captains = {1}
  Demands = {1}
  Tasks = {1}
  Payers <- PayersOfOne
  Amounts = {0}
  Prices = {0}
  PackagingFees = {0}
  TicksPerMs = 1
  MaxWrites = 0
  MaxInFlight = 0
  MaxCreates = 1
  DirectPayers = {}
  DirectAmounts = {}
  MaxCalls = 1
  SourceType = "errand_task"
CHECK_DEADLOCK FALSE
INVARIANTS
  OwnGoodsCompleted
