--------------------------- MODULE MCHubPresence ---------------------------
(* One watcher of another user, two connections of the user who comes and   *)
(* goes, one server.                                                        *)
EXTENDS HubPresence
CONSTANTS w, a, b, u1, u2, s1
MCConns == {w, a, b}
MCUsers == {u1, u2}
MCServers == {s1}
MCOwner(c) == IF c = w THEN u1 ELSE u2
OnlyW == {w}
Sessions == {"disconnect", "revokeSession"}
Removals == {"disconnect", "revoke", "deleteServer"}
Membership == {"disconnect", "revoke", "add"}
Failures == {"revoke", "add", "loadFails"}
AllWorkloads == {Sessions, Removals, Membership, Failures}
=============================================================================
