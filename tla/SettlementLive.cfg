\* No report ever arrives: the reconciler alone turns payments into tickets.
CONSTANTS
  Orders = {o1, o2}
  Taps = {t1, t2}
  Settlers = {}
  Price <- MCPrice
  Payments <- MCGood
  Sold = {}
  Batch = 2
SPECIFICATION FairSpec
PROPERTY PaidGetsTicketUnlessPoisoned
