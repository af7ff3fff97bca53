----------------------------- MODULE MCMigrator -----------------------------
(***************************************************************************)
(* Users with a company, pets and languages, as in the test models: pets   *)
(* do not know of users, and speaks joins users and languages.             *)
(***************************************************************************)
EXTENDS ReorderModels

MCColumns == [t \in {"users", "companies", "pets", "languages", "speaks"} |->
                CASE t = "users" -> [name |-> "text", email |-> "text"]
                  [] t = "languages" -> [code |-> "text"]
                  [] OTHER -> [id |-> "int"]]
MCUnique == [t \in Tables |-> CASE t = "users" -> {"email"} [] OTHER -> {}]
MCChecks == [t \in Tables |-> IF t = "languages" THEN {"chk_code"} ELSE {}]
MCIndexes == [t \in Tables |-> IF t = "users" THEN {"idx_name"} ELSE {}]

Rel(of, kind, to, join, key) ==
  [of |-> of, kind |-> kind, to |-> to, join |-> join, key |-> key, constraint |-> TRUE]
MCRelations ==
  [t \in Tables |->
     CASE t = "users" -> {Rel("users", "belongs_to", "companies", "", "company_id"),
                          Rel("users", "has", "pets", "", "user_id"),
                          Rel("users", "many2many", "languages", "speaks", "")}
       [] t = "speaks" -> {Rel("speaks", "belongs_to", "users", "", "speaker_id"),
                           Rel("speaks", "belongs_to", "languages", "", "language_id")}
       [] OTHER -> {}]

Config(noFks, noRels, after) == [noForeignKeys |-> noFks, noRelations |-> noRels, indexAfter |-> after]
MCConfigs == {Config(FALSE, FALSE, FALSE), Config(FALSE, FALSE, TRUE), Config(FALSE, TRUE, FALSE)}

\* A new database, and that of an earlier version of the models: users without
\* email, with another type of name, a unique constraint that is wanted no
\* more on languages, and no pets.
Empty == [t \in {} |-> 0]
Old == [users |-> [cols |-> [name |-> "varchar"], objs |-> {}],
        companies |-> [cols |-> MCColumns["companies"], objs |-> {}],
        languages |-> [cols |-> MCColumns["languages"], objs |-> {Obj("unique", "code")}]]
MCDatabases == {Empty, Old}

MCCalls == {<<"users", "pets", "languages">>}
AnyOrderCalls == {<<"users", "pets">>, <<"pets", "users">>}

\* All orders of ReorderModels, computed once.
MCKnowns == {{}, Tables, Tables \ {"pets"}}
Plans == [c \in MCConfigs, known \in MCKnowns, values \in MCCalls \cup AnyOrderCalls |->
            AllOrders(c, known, values)]
MCOrders(c, known, values) == Plans[c, known, values]
============================================================================
