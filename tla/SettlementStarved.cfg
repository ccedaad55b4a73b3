\* Batch smaller than the number of abandoned orders.
CONSTANTS
  Orders = {o1, o2}
  Taps = {t1}
  Settlers = {}
  Price <- MCPrice
  Payments <- MCGood
  Sold = {}
  Batch = 1
SPECIFICATION FairSpec
PROPERTY PaidGetsTicket
