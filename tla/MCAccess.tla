-------------------------------- MODULE MCAccess --------------------------------
(***************************************************************************)
(* A small instance of Access, over the seed of                            *)
(* deploy/init/postgres/seed/10_core.sql: the administrator, director      *)
(* everywhere, a clerk with the role of sales, to which a permission to    *)
(* change users has been added, and a guest whose roles were taken away.   *)
(***************************************************************************)
EXTENDS Access

CONSTANTS r1, r2, r3, admin, clerk, guest, seeded

MCLower == [c \in Codes |-> IF c = "Sales" THEN "sales" ELSE c]

MCUsers ==
    [u \in {admin, clerk, guest} |->
        [email |-> CASE u = admin -> "admin@" [] u = clerk -> "clerk@" [] u = guest -> "guest@", active |-> "yes", password |-> "old"]]

MCRoles == {"director", "sales"}

Grant(u, role, scope) ==
    [in |-> "user_roles", owner |-> u, key |-> <<role, scope>>, effect |-> "allow", by |-> Nobody]
Permit(role, thing, verb, scope, effect) ==
    [in |-> "role_permissions", owner |-> role, key |-> <<thing, verb, scope>>, effect |-> effect, by |-> Nobody]

MCRows ==
    {Grant(admin, "director", Any), Grant(clerk, "sales", "HQ-SALES"),
     Permit("director", Any, Any, Any, "allow"), Permit("sales", "core.user", "write", "HQ-SALES", "allow"),
     Permit("sales", "core.role", "write", Any, "allow"), Permit("sales", "core.permission", "write", Any, "deny")}

MCTokens == [t \in {seeded} |-> [role |-> "sales", scope |-> Any, revoked |-> Nobody]]

MCUnitsOf == [u \in {admin, clerk, guest} |-> IF u = admin THEN {"HQ"} ELSE {}]

AsAdmin == [email |-> "admin@", password |-> "old"]
AsClerk == [email |-> "clerk@", password |-> "old"]
MCLogins == {AsAdmin, AsClerk}

Hire(email, keys) ==
    [op |-> "create_user", email |-> email, active |-> "yes", password |-> "old", keys |-> keys]
Edit(u, name, active, password, keys) ==
    [op |-> "update_user", user |-> u, name |-> name, active |-> active, password |-> password, keys |-> keys]
Permissions(role, entries) == [op |-> "update_permissions", role |-> role, entries |-> entries]

Director == <<"director", Any>>
SalesHQ == <<"sales", "HQ-SALES">>
SalesAny == <<"sales", Any>>

MCBodies ==
    {Hire("new@", <<SalesHQ>>), Hire("new@", <<>>), Hire("clerk@", <<SalesAny, SalesAny>>),
     Edit(guest, "keep", Keep, Keep, <<SalesAny, Director>>),
     Edit(guest, "keep", Keep, Keep, <<Director, SalesAny>>),
     Edit(clerk, "given", Keep, Keep, <<SalesAny>>),
     Edit(clerk, "given", Keep, Keep, <<Director>>),
     Edit(clerk, "keep", Keep, Keep, <<>>),
     Edit(clerk, "keep", "no", Keep, Keep),
     Edit(clerk, "keep", Keep, "new", <<<<"Sales", Any>>>>),
     Edit(clerk, "blank", Keep, Keep, Keep),
     Edit(r1, "given", Keep, Keep, <<SalesAny>>),
     [op |-> "create_role", role |-> "Sales", described |-> TRUE],
     [op |-> "create_role", role |-> "sales", described |-> TRUE], [op |-> "create_role", role |-> "Sales", described |-> FALSE],
     Permissions("sales", <<>>),
     Permissions("sales", <<[key |-> <<"core.user", Any, Any>>, effect |-> "allow"]>>),
     Permissions("Sales", <<[key |-> <<Any, Any, "HQ-SALES">>, effect |-> "allow"]>>),
     [op |-> "create_token", role |-> "sales", scope |-> "HQ-SALES"],
     [op |-> "create_token", role |-> "Sales", scope |-> "HQ-WMS"],
     [op |-> "revoke_token", token |-> seeded]}
===============================================================================
