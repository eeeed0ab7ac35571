SPECIFICATION FairSpec
CONSTANTS
  Orders = {"o1", "o2"}
  Handlers = {h1, h2}
  Payments <- MCPayments
  NoPayment = NoPayment
  Gmb = 1
  Eur = 5
  Tolerated = {0}
  Buyer <- MCBuyer
  ZeroAddress = "zero"
  Contracts = {"contract"}
  Stock = 1
  MaxFaults = 2
INVARIANTS
  OncePerRecord
  NothingUnpaid
  FulfilledPaidOut
PROPERTIES
  Served
CHECK_DEADLOCK FALSE
