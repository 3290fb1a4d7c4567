----------------------------- MODULE MCMessages -----------------------------
(* Messages in two parts, of which a behaviour runs one while the other    *)
(* rests in an initial state: a channel with its alerts (two members), and *)
(* one listing page by page (four rows at the start).                      *)
EXTENDS Notifications, TLC

CONSTANTS a, b

VARIABLES part, list, limit, rows, created, writes, cursor, open, got, steady

MCUsers == {a, b}
MCContents == {"@", "&", ""}
MCEmoji == {"e", "f"}
MCNamed == [c \in MCContents |-> IF c = "@" THEN {b} ELSE {}]
MCRolesNamed == [c \in MCContents |-> IF c = "&" THEN {"member"} ELSE {}]
Job(kind, comments, slow, ops, ks, ids, size, lv) ==
    [kind |-> kind, comments |-> comments, slow |-> slow, ops |-> ops, keys |-> ks,
     ids |-> ids, rows |-> size, live |-> lv,
     roles |-> (a :> "owner" @@ b :> "member")]
Texts(ops, ids, size) == Job("text", FALSE, 0, ops, {}, ids, size, FALSE)
MCLoads ==
    {Texts({"create", "update", "delete", "sync", "prune"}, 2, 4),
     Job("news", TRUE, 0, {"create", "delete", "sync"}, {}, 3, 4, FALSE),
     Texts({"create", "react", "depart", "sync"}, 1, 4),
     Job("text", FALSE, 0, {"create", "forward", "delete"}, {"k"}, 3, 4, FALSE),
     Job("voice", FALSE, 2, {"create", "restrict"}, {"k"}, 2, 2, FALSE),
     Job("news", TRUE, 0, {"create", "update", "pin"}, {}, 2, 4, TRUE),
     Texts({"notify", "create", "mark", "delete", "stop"}, 2, 2),
     Texts({"notify", "create", "depart", "restrict", "mode"}, 1, 2),
     Job("news", TRUE, 0, {"notify", "create", "thread"}, {}, 2, 3, FALSE)}

Pages == INSTANCE MessagePages WITH
    Lists <- {"messages", "comments", "search", "direct_search", "direct", "inbox", "audit", "reactors",
              "conversations"},
    MaxRows <- 4, MaxChanges <- 2, Limits <- {1, 2}
listing == <<list, limit, rows, created, writes, cursor, open, got, steady>>

MCInit ==
    /\ part \in {"channel", "pages"}
    /\ NInit /\ Pages!Init
    /\ part # "channel" => load = CHOOSE l \in Loads : TRUE
    /\ part # "pages" => list = "messages" /\ limit = 1 /\ rows = <<>>

MCNext ==
    \/ part = "channel" /\ NNext /\ UNCHANGED <<part, listing>>
    \/ part = "pages" /\ Pages!Next /\ UNCHANGED <<part, allVars>>

MCSpec == MCInit /\ [][MCNext]_<<part, allVars, listing>>

(* Alerts are neither lost nor left over: what a member is owed is stored  *)
(* or on its way, what is stored is still unread, and following a thread   *)
(* never overrides an opt-out (Worker, persistDeliveries, RecordFollow).   *)
AlertsKept == [](AlertsUnread /\ AlertsOnTheirWay) /\ OptOutKept

(* Paging loses and repeats nothing while the list changes, and a message  *)
(* is shown with its neighbours (the list queries, GetContext).            *)
PagesExact == Pages!ListingExact /\ Pages!ContextWhole
=============================================================================
