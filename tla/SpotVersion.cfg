SPECIFICATION SpotSpec
CONSTANTS
  Payers = {1,2}
  Amounts = {1, 2}
  TicksPerMs = 1
  MaxWrites = 0
  MaxInFlight = 0
  MaxCreates = 1
  DirectPayers = {1}
  DirectAmounts = {1, 2}
  SourceType = "spot_order"
  Listings = {l1}
  Prices = {1, 2}
  Quantities = {1}
  Own = {FALSE}
  MaxStock = 1
  MaxItems = 1
  MaxTxs = 2
  MaxTime = 1
  SameSecond = FALSE
INVARIANTS
  BoughtAsSeen
