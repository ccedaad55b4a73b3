\* One open order beside a sold one, one tap, two reports of any payment, or none.
CONSTANTS
  Orders = {o1, o2}
  Taps = {t1}
  Settlers = {s1, s2}
  Price <- MCPrice
  Payments <- MCAll
  Sold = {o2}
  Batch = 1
SPECIFICATION Spec
SYMMETRY HandlerSymmetry
INVARIANTS TypeOK PaidHasTicket MoneyInReach
PROPERTY SellsOnce
