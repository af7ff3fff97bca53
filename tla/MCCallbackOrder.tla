--------------------------- MODULE MCCallbackOrder ---------------------------
(* Small instances of CallbackOrder. *)
EXTENDS CallbackOrder

Processor == <<"begin", "create">>

Call3(how, name, before, after) ==
    [how |-> how, name |-> name, before |-> before, after |-> after]

Order == <<"a", "b", "c">>

\* One wish each: Before GORM's own or all, After any, but not in a circle; or
\* two of the first about GORM's own.
OneWish ==
    LET own == ToSet(Order)
        gorm == ToSet(Processor)
        later(n) == {Order[j] : j \in {k \in DOMAIN Order : \E i \in 1..(k - 1) : Order[i] = n}}
    IN       {Call3("register", n, b, NoName) : n \in own, b \in gorm \cup {NoName, Star}}
        \cup UNION {{Call3("register", n, NoName, a) : a \in gorm \cup later(n) \cup {Star}} : n \in own}
        \cup {Call3("register", "a", b, a) : a, b \in gorm}
        \cup {Call3("replace", "begin", NoName, NoName)}
        \cup {Call3("remove", n, NoName, NoName) : n \in own \cup {"create"}}

\* A callback is registered Before("*"), and replaced.
ReplacesStar ==
    {Call3("register", "a", Star, NoName), Call3("replace", "a", NoName, NoName)}
        \cup {Call3("register", "b", b, NoName) : b \in ToSet(Processor) \cup {NoName}}

\* As PlainWishes has it: Before and After together, about GORM's own or all.
PlainPairs ==
    LET some == ToSet(Processor) \cup {NoName, Star}
    IN       {Call3("register", n, w[1], w[2]) : n \in {"a", "b"}, w \in (some \X some) \ {<<Star, Star>>}}
        \cup {Call3("replace", "begin", NoName, NoName)}
        \cup {Call3("remove", n, NoName, NoName) : n \in {"a", "create"}}
==============================================================================
