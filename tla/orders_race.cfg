SPECIFICATION Spec
CONSTANTS
  Orders = {o1, o2}
  None = None
  Requests = {r1}
  Cron = Cron
  day1 = day1
  day2 = day2
  Types = {day1, day2}
  Capacity <- TwoDays
  MaxQty = 1
  Carts <- OneDayOrBoth
  CouponType = day1
  CouponMax = 1
  ClientMax = 4
  Ttl = 1
  Hold = 2
  MinAge = 0
  MaxAge = 9
  LastStart = 3
  MaxTime = 3
  Happenings = {"crash", "async", "coupon"}
SYMMETRY OrderSymmetry
INVARIANTS TypeOK NoOversell CouponWithinLimit MoneyHasAnOrder MoneyIsNeverReleased
