CONSTANTS
    p1 = p1  p2 = p2  p3 = p3
    user = user  order = order  cart = cart  coupon = coupon
    Procs = {p1, p2}
    Types = {user, order, cart, coupon}
    Fields <- Shop
    Specials = {user}
    MaxCalls = 3
    MaxSchemas = 10
SPECIFICATION FairSpec
INVARIANTS OneSchema ReturnedIsComplete FailedIsNotCached
PROPERTIES EveryParseReturns
CHECK_DEADLOCK FALSE
