--------------------------- MODULE MCSchemaCache ---------------------------
(* Small graphs of models for the runs of SchemaCache. *)
EXTENDS SchemaCache, TLC

CONSTANTS p1, p2, p3, user, order, cart, coupon

Has(t)     == [to |-> t, kind |-> "has"]
Belongs(t) == [to |-> t, kind |-> "belongs"]
Many(t)  == [to |-> t, kind |-> "other"]
Invalid(t) == [to |-> t, kind |-> "invalid"]

\* A user has orders, and orders belong to their user, who is related to others
\* by other means.  A cart has coupons; for a relation of the coupon no foreign
\* key is found, so neither type can be parsed, though both lead to good ones.
Shop == (user   :> <<Has(order)>>)
     @@ (order  :> <<Belongs(user), Many(order)>>)
     @@ (cart   :> <<Has(user), Has(coupon)>>)
     @@ (coupon :> <<Belongs(cart), Invalid(order)>>)

\* A user has the orders it placed, and an order the users it was shared with.
Mutual == (user :> <<Has(order)>>) @@ (order :> <<Has(user)>>)
=============================================================================
