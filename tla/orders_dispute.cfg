SPECIFICATION Spec
CONSTANTS
  Orders = {o1}
  None = None
  Requests = {r1}
  Cron = Cron
  day1 = day1
  day2 = day2
  Types = {day1}
  Capacity <- LastSeat
  MaxQty = 1
  Carts <- OneTicket
  CouponType = day1
  CouponMax = 1
  ClientMax = 2
  Ttl = 1
  Hold = 2
  MinAge = 0
  MaxAge = 9
  LastStart = 0
  MaxTime = 1
  Happenings = {"mismatch", "dispute", "staff"}
PROPERTIES DisputeIsStripes
