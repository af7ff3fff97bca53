CONSTANTS
    p1 = p1  p2 = p2  p3 = p3
    user = user  order = order  cart = cart  coupon = coupon
    Procs = {p1, p2}
    Types = {user, order}
    Fields <- Mutual
    Specials = {}
    MaxCalls = 2
    MaxSchemas = 2
SPECIFICATION Spec
INVARIANTS NoDeadlock
CHECK_DEADLOCK FALSE
