----------------------------- MODULE MCAuthServer -----------------------------
(***************************************************************************)
(* AuthServer for TLC: what containerssh sends, and what a probe may send  *)
(* by hand.                                                                *)
(***************************************************************************)
EXTENDS AuthServer, TLC

CONSTANTS c1, c2

MCConnections == {c1, c2}
MCMaxRequests == c1 :> 2 @@ c2 :> 1

MCUsernames == {"alice"}

Post(path, length, body, says) ==
    [method |-> "POST", path |-> path, length |-> length, body |-> body, says |-> says]
Other(method, body) ==
    [method |-> method, path |-> "other", length |-> body, body |-> body, says |-> Unusable]

MCRequests == {
    Post("auth", 2, 2, "alice"),        \* containerssh
    Post("auth", 1, 1, Unusable),       \* not json, or no string in it
    Post("other", 1, 1, "alice"),       \* an unknown path
    Post("auth", 2, 1, "alice"),        \* announces more than it sends
    Post("auth", -1, 1, "alice"),       \* a length that is none, or none at all
    Other("GET", 0),                    \* curl
    Other("GET", 1),
    Other("PUT", 0) }
=============================================================================
