SPECIFICATION Spec
CONSTANTS
  Acct = {"a", "b"}
  Tx <- MCTx
  From <- MCFrom
  Nonce <- MCNonce
  Price <- MCPrice
  Slots <- MCSlots
  Dear = {4}
  GlobalSlots = 1
  GlobalQueue = 1
  AccountSlots = 1
  AccountQueue = 1
  PriceBump = 10
  StaleShare = 1
  UrgentRatio = 1
  Heads <- MCHeadsOther
  Genesis <- MCGenesis
  Offers <- MCOffers
  GasPrices = {0, 11}
  MaxAdd = 3
  MaxEvent = 1
INVARIANT ExecutablePromoted
CHECK_DEADLOCK FALSE
