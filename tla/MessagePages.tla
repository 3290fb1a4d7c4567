---------------------------- MODULE MessagePages ----------------------------
(***************************************************************************)
(* The paged lists: channel history, comments, message search, reactors,   *)
(* inbox, audit log, conversations, conversation history and the search of *)
(* all conversations. Each page is one read transaction; between pages     *)
(* others write, delete, edit and bring conversations to the top.          *)
(*                                                                         *)
(* Every list is a set of rows with an exclusive cursor and a limit; the   *)
(* query asks for one row more than the page holds to learn whether there  *)
(* is another page. The differences are what a row must satisfy, which way *)
(* the list runs, and where the next cursor comes from.                    *)
(***************************************************************************)
EXTENDS Integers, Sequences, FiniteSets, SequencesExt

CONSTANTS
    Lists,      \* the lists a workload may page through
    MaxRows,    \* ids ever created
    MaxChanges, \* writes while the list is being paged
    Limits      \* page sizes (50 to 200 in the code)

VARIABLES
    list, limit,
    rows,       \* id -> [comment, match, activity]
    created,    \* the highest id so far
    writes,     \* how many changes there were since the listing began
    cursor,     \* of the next page
    open,       \* has_more of the last page; TRUE before the first
    got,        \* the rows received, in the order the client has them
    steady      \* history: the rows that were in the list all the time

vars == <<list, limit, rows, created, writes, cursor, open, got, steady>>

Ids == DOMAIN rows
First == 1000   \* firstPageCursor, above every id

Row(comment, match, n) == [comment |-> comment, match |-> match, activity |-> n]

(* What a row must satisfy to be in the list. *)
Wanted(i) ==
    CASE list = "messages" -> ~rows[i].comment
      [] list = "comments" -> rows[i].comment
      [] list \in {"search", "direct_search"} -> rows[i].match
      [] OTHER -> TRUE

Init ==
    /\ list \in Lists /\ limit \in Limits
    /\ rows \in UNION {[1..n -> [comment : BOOLEAN, match : BOOLEAN, activity : {0}]] : n \in 0..MaxRows}
    /\ \A i \in Ids : /\ list \notin {"messages", "comments"} => ~rows[i].comment
                      /\ list \notin {"search", "direct_search"} => rows[i].match
    /\ created = Cardinality(Ids) /\ writes = 0
    /\ cursor = IF list = "reactors" THEN 0 ELSE First
    /\ open = TRUE /\ got = <<>>
    /\ steady = {i \in Ids : Wanted(i)}

(***************************************************************************)
(* The queries: ORDER BY id DESC LIMIT n below the cursor, ORDER BY        *)
(* user_id LIMIT n above it, and ORDER BY activity DESC, id DESC.          *)
(***************************************************************************)
Take(S, n) == SubSeq(S, 1, IF Len(S) < n THEN Len(S) ELSE n)
BelowOrAt(c, n) == Take(SetToSortSeq({i \in Ids : Wanted(i) /\ i <= c}, LAMBDA i, j : i > j), n)
Below(c, n) == Take(SetToSortSeq({i \in Ids : Wanted(i) /\ i < c}, LAMBDA i, j : i > j), n)
Above(c, n) == Take(SetToSortSeq({i \in Ids : Wanted(i) /\ i > c}, LAMBDA i, j : i < j), n)

ListByChannelID(c, n) == Below(c, n)
ListComments(c, n) == Below(c, n)
Search(c, n) == Below(c, n)
searchConversations(c, n) == Below(c, n)
conversationMessages(c, n) == Below(c, n)
inboxQuery(c, n) == Below(c, n)
auditLog(c, n) == Below(c, n)
ListReactors(c, n) == Above(c, n)

(* (activity, id) in one number: pageCursor encodes the pair. *)
pageCursor(i) == rows[i].activity * 10 + i
listConversations(c, n) ==
    Take(SetToSortSeq({i \in Ids : pageCursor(i) < c}, LAMBDA i, j : pageCursor(i) > pageCursor(j)), n)

Query(c, n) ==
    CASE list = "messages" -> ListByChannelID(c, n)
      [] list = "comments" -> ListComments(c, n)
      [] list = "search" -> Search(c, n)
      [] list = "direct_search" -> searchConversations(c, n)
      [] list = "direct" -> conversationMessages(c, n)
      [] list = "inbox" -> inboxQuery(c, n)
      [] list = "audit" -> auditLog(c, n)
      [] list = "reactors" -> ListReactors(c, n)
      [] list = "conversations" -> listConversations(c, n)

(***************************************************************************)
(* The services: a page of limit rows, whether there are more, and the     *)
(* cursor of the next page. History and comments are shown oldest first,   *)
(* so their next cursor is the first row shown.                            *)
(***************************************************************************)
OldestFirst == list \in {"messages", "comments"}
PageOf(values) ==
    LET more == Len(values) > limit
        page == Take(values, limit)
    IN  [rows |-> IF OldestFirst THEN Reverse(page) ELSE page, more |-> more,
         next |-> IF page = <<>> THEN 0
                  ELSE IF OldestFirst THEN Head(Reverse(page))
                  ELSE IF list = "conversations" THEN pageCursor(Last(page)) ELSE Last(page)]

FetchPage ==
    LET page == PageOf(Query(cursor, limit + 1))
    IN  /\ open
        /\ got' = IF OldestFirst THEN page.rows \o got ELSE got \o page.rows
        /\ open' = page.more
        /\ cursor' = IF page.more THEN page.next ELSE cursor
        /\ UNCHANGED <<list, limit, rows, created, writes, steady>>

(***************************************************************************)
(* What others do between two pages.                                       *)
(***************************************************************************)
Changing == open /\ cursor \notin {First, 0} /\ writes < MaxChanges
            /\ writes' = writes + 1 /\ UNCHANGED <<list, limit, cursor, open, got>>

Insert(comment, match) ==
    /\ Changing /\ created < MaxRows + 1
    /\ list \in {"messages", "comments"} \/ ~comment
    /\ rows' = [i \in Ids \cup {created + 1} |->
                   IF i \in Ids THEN rows[i] ELSE Row(comment, match, 0)]
    /\ created' = created + 1
    /\ UNCHANGED steady

DeleteRow(i) ==
    /\ Changing
    /\ rows' = [j \in Ids \ {i} |-> rows[j]]
    /\ steady' = steady \ {i}
    /\ UNCHANGED created

(* An edit that changes whether the message is found. *)
Edit(i) ==
    /\ Changing /\ list \in {"search", "direct_search"}
    /\ rows' = [rows EXCEPT ![i].match = ~@]
    /\ steady' = steady \ {i}
    /\ UNCHANGED created

(* A message in conversation i: its activity becomes the newest. *)
Touch(i) ==
    /\ Changing /\ list = "conversations"
    /\ rows' = [rows EXCEPT ![i].activity = writes + 1]
    /\ steady' = steady \ {i}
    /\ UNCHANGED created

Next ==
    \/ FetchPage
    \/ \E comment, match \in BOOLEAN : Insert(comment, match)
    \/ \E i \in Ids : DeleteRow(i) \/ Edit(i) \/ Touch(i)

Spec == Init /\ [][Next]_vars

(***************************************************************************)
(* GetContext: up to b messages before the target, the target, up to a     *)
(* after it, and the index of the target among them.                       *)
(***************************************************************************)
queryMessageContextSide(t, n, older) ==
    IF older THEN Take(SetToSortSeq({i \in Ids : i < t}, LAMBDA i, j : i > j), n)
             ELSE Take(SetToSortSeq({i \in Ids : i > t}, LAMBDA i, j : i < j), n)
UnreversedContext(t, b, a) ==
    LET older == queryMessageContextSide(t, b, TRUE)
    IN  [messages |-> older \o <<t>> \o queryMessageContextSide(t, a, FALSE), index |-> Len(older)]
GetContext(t, b, a) ==
    LET older == Reverse(queryMessageContextSide(t, b, TRUE))
    IN  [messages |-> older \o <<t>> \o queryMessageContextSide(t, a, FALSE), index |-> Len(older)]

(***************************************************************************)
(* Paging to the end gives every row that was in the list all the time,    *)
(* once, whatever was inserted, deleted, edited or moved in between; only  *)
(* a conversation that moved can come twice. Channel history comes out     *)
(* sorted although its pages are reversed one by one.                      *)
(***************************************************************************)
ListingExact ==
    /\ ~open => \A i \in steady : Cardinality({k \in DOMAIN got : got[k] = i}) = 1
    /\ list # "conversations" => (\A j, k \in DOMAIN got : j # k => got[j] # got[k])
    /\ OldestFirst => \A j, k \in DOMAIN got : j < k => got[j] < got[k]

(* The context of a message is a stretch of the channel without gaps, in   *)
(* order, with the target where target_index says, and as long as asked    *)
(* for unless the channel ends there.                                      *)
ContextWhole ==
    \A t \in Ids, b, a \in Limits :
        LET c == GetContext(t, b, a)
            m == c.messages
        IN  /\ m[c.index + 1] = t
            /\ \A j, k \in DOMAIN m : j < k => m[j] < m[k]
            /\ \A i \in Ids : m[1] <= i /\ i <= m[Len(m)] => \E k \in DOMAIN m : m[k] = i
            /\ c.index < b => \A i \in Ids : i >= m[1]
            /\ Len(m) - c.index - 1 < a => \A i \in Ids : i <= m[Len(m)]

=============================================================================
