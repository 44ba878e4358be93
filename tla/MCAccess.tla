------------------------------- MODULE MCAccess -------------------------------
(* Two requests that may ask anything and a wrong login: two addresses, two   *)
(* accounts, one database key; a window of one tick, a lock of two.          *)
EXTENDS Access

CONSTANTS ip1, ip2, a1, a2, k1, r1, r2, r3

MCLogin(ip, good) == [kind |-> "login", ip |-> ip, good |-> good]
MCMcp(credential, tool, account) ==
    [kind |-> "mcp", ip |-> ip2, credential |-> credential, tool |-> tool,
     account |-> account, op |-> IF tool = "set_default_account" THEN "set_default"
                                 ELSE "none"]
Manage(op, account, payload) ==
    [kind |-> "admin", ip |-> ip2, op |-> op, account |-> account,
     payload |-> payload]
Key(op) == [kind |-> "admin", ip |-> ip2, op |-> op, account |-> None, key |-> k1]

Logins ==
    {MCLogin(ip1, FALSE), MCLogin(ip2, FALSE), MCLogin(ip1, TRUE)}
Sessions ==
    {[kind |-> "admin_login", ip |-> ip2, good |-> TRUE],
     [kind |-> "logout", ip |-> ip2]}
Calls ==
    {MCMcp("oauth", "send_email", None), MCMcp(k1, "send_email", None),
     MCMcp("static", "home_assistant_call_service", None),
     MCMcp("static", "set_default_account", a2), 
     MCMcp(k1, "facebook_get_post", None),
     MCMcp("static", "document_get_info", None)}
Changes ==
    {Manage("create", a2, [enabled |-> TRUE, default |-> TRUE]),
     Manage("update", a1, [default |-> TRUE]),
     Manage("update", a1, [default |-> FALSE]),
     Manage("update", a1, [enabled |-> FALSE]),
     Manage("delete", a1, None), Manage("set_default", a1, None),
     Key("add_key"), Key("remove_key")}
MCAsk(r) == IF r = r3 THEN {MCLogin(ip2, FALSE)} ELSE Logins \cup Sessions \cup Calls \cup Changes
MCAccounts ==
    LET row(default) == [enabled |-> TRUE, default |-> default]
    IN {a1 :> row(TRUE) @@ a2 :> row(FALSE), a1 :> row(TRUE) @@ a2 :> None}

MCSettings == [read_only |-> FALSE, allow_copy_in_read_only |-> TRUE,
               destructive_operations_enabled |-> TRUE]
MCKeyPermissions == [k \in ApiKey |-> {"facebook.read"}]
MCTokenScope == {"accounts.read", "mail.send"}
Symmetric == Permutations({r1, r2})
=============================================================================
