SPECIFICATION SpotSpec
CONSTANTS
  Payers = {1, 2}
  Amounts = {1, 2}
  TicksPerMs = 1
  MaxWrites = 3
  MaxInFlight = 1
  MaxCreates = 1
  DirectPayers = {1}
  DirectAmounts = {1, 2}
  SourceType = "spot_order"
  Listings = {l1}
  Prices = {1}
  Quantities = {1}
  Own = {FALSE}
  MaxStock = 1
  MaxItems = 1
  MaxTxs = 2
  MaxTime = 1
  SameSecond = FALSE
INVARIANTS
  SpotTypeOK
  CancelledOrderUnpaid
  PaidOrderWasPaid
  LedgerMatchesStock
  OrderHasItsBill
PROPERTIES
  OrderMovesForward
