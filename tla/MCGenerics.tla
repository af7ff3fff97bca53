------------------------------ MODULE MCGenerics ------------------------------
EXTENDS Generics

\* A scope that adds a condition, one that adds another scope, and one that
\* returns a session.
MCScopes == [s1 |-> [does |-> "where", cond |-> "b"],
             s2 |-> [does |-> "scopes", fn |-> "s1"],
             s3 |-> [does |-> "session"]]

\* One call of each kind, and two where an order or a mix of them matters.
MCCalls ==
  {[op |-> "where", cond |-> "a"], [op |-> "or", cond |-> "b"],
   [op |-> "join", name |-> 1], [op |-> "join", name |-> 2],
   [op |-> "scopes", fn |-> "s1"], [op |-> "select", col |-> "c"],
   [op |-> "order", col |-> "c"], [op |-> "unscoped"],
   [op |-> "raw", sql |-> "sql"]}

J(n) == [op |-> "join", name |-> n]

\* A session with nothing, one with alternatives, and one whose lists of joins
\* and scopes have room to spare in their arrays.
MCPreludes ==
  {<<>>,
   <<[op |-> "or", cond |-> "a"], [op |-> "where", cond |-> "b"]>>,
   <<J(1), J(1), J(1), [op |-> "scopes", fn |-> "s3"],
     [op |-> "scopes", fn |-> "s1"], [op |-> "scopes", fn |-> "s2"]>>}
=============================================================================
