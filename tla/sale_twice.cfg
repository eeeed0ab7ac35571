SPECIFICATION Spec
CONSTANTS
  Orders = {"o1"}
  Handlers = {h1, h2}
  Payments <- MCPayments
  NoPayment = NoPayment
  Gmb = 1
  Eur = 5
  Tolerated = {0}
  Buyer <- MCBuyer
  ZeroAddress = "zero"
  Contracts = {"contract"}
  Stock = 2
  MaxFaults = 1
INVARIANTS
  DispensedOnce
CHECK_DEADLOCK FALSE
