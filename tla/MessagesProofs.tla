--------------------------- MODULE MessagesProofs ---------------------------
(***************************************************************************)
(* For any users, texts, page sizes and workloads: a client that follows   *)
(* its cursor through the journal misses nothing, one that is sent the     *)
(* events shows the current texts, every visible change is numbered, and a *)
(* send key creates one message.                                           *)
(*                                                                         *)
(* The argument: Touches(T) says what one transaction may do when its      *)
(* triggers write journal rows for the messages T.  Each transaction is    *)
(* shown to touch exactly what it journals; that a client in step with the *)
(* journal stays in step follows from that alone.                          *)
(***************************************************************************)
EXTENDS ChannelMessages, FiniteSetTheorems, SequenceTheorems, TLAPS

(* The rows of the messages table. *)
Rows == [author : Users, content : Contents, revision : Nat, reply : Nat, original : Nat,
         root : Nat, forward : Contents \cup {"none"}, at : Nat]

(* The foreign keys: a reply quotes a message or nothing, a comment belongs *)
(* to a post, and reactions are on messages.                               *)
TablesOK ==
    /\ lastID \in Nat /\ clock \in Nat
    /\ messages \in [Ids -> Rows] /\ Ids \subseteq 1..lastID
    /\ \A i \in Ids : /\ messages[i].reply \in Ids \cup {0}
                      /\ messages[i].root \in Ids \cup {0}
                      /\ messages[i].root # 0 => messages[messages[i].root].root = 0
    /\ \A r \in reactions : r.id \in Ids

(* The journal holds every row above its floor, and no cursor is ahead.    *)
JournalOK ==
    /\ changes \in Seq(Nat) /\ floor \in 0..Len(changes)
    /\ kept = (floor + 1)..Len(changes)
    /\ at \in 0..Len(changes)

(* A key under which a message was created is in message_send_keys.        *)
KeysOK ==
    /\ load \in Loads /\ DOMAIN minted \subseteq Users \X load.keys
    /\ \A p \in DOMAIN minted : \/ minted[p] = {}
                                \/ p \in DOMAIN keys /\ \E i : minted[p] = {i}

(* What a subscribed client has been shown, or is about to be.             *)
Snapshots == {e \in pending : e.to = "client"} \cup {live[i] : i \in DOMAIN live}

(* No snapshot is newer than its message, and of every message there is    *)
(* one with the current text, newer than all that have another text.       *)
LiveOK ==
    /\ \A i \in DOMAIN live : live[i].id = i
    /\ \A e \in Snapshots : /\ e.id \in 1..lastID /\ e.revision \in Nat
                            /\ e.id \in Ids => e.revision <= messages[e.id].revision
    /\ load.live => \A i \in Ids : \E e \in Snapshots :
         /\ e.id = i /\ e.content = messages[i].content
         /\ \A f \in Snapshots : f.id = i /\ f.content # e.content => f.revision < e.revision

MessagesInv == TablesOK /\ JournalOK /\ KeysOK /\ SyncComplete /\ LiveOK

-----------------------------------------------------------------------------
(* The transactions and what they touch. *)

(* The triggers number a change and leave the rest of the row alone.       *)
LEMMA BumpKeeps ==
    ASSUME NEW D, NEW m \in [D -> Rows], NEW T
    PROVE  /\ Bump(m, T) \in [D -> Rows]
           /\ \A i \in D :
                /\ Bump(m, T)[i].content = m[i].content /\ Bump(m, T)[i].forward = m[i].forward
                /\ Bump(m, T)[i].reply = m[i].reply /\ Bump(m, T)[i].original = m[i].original
                /\ Bump(m, T)[i].root = m[i].root
                /\ Bump(m, T)[i].revision = IF i \in T THEN m[i].revision + 1 ELSE m[i].revision
<1>1. ASSUME NEW i \in D PROVE [m[i] EXCEPT !.revision = @ + 1] \in Rows
  BY DEF Rows
<1>2. Bump(m, T) \in [D -> Rows] BY Zenon, <1>1 DEF Bump
<1>3. \A i \in D : Bump(m, T)[i] = IF i \in T THEN [m[i] EXCEPT !.revision = @ + 1] ELSE m[i]
  BY Zenon DEF Bump
<1>4. ASSUME NEW i \in D
      PROVE  LET r == [m[i] EXCEPT !.revision = @ + 1]
             IN  /\ r.content = m[i].content /\ r.forward = m[i].forward
                 /\ r.reply = m[i].reply /\ r.original = m[i].original
                 /\ r.root = m[i].root /\ r.revision = m[i].revision + 1
  BY Zenon DEF Rows
<1> QED BY Zenon, <1>2, <1>3, <1>4

(* What a reader is shown depends on the row, the row it quotes, the rows  *)
(* that comment on it and the reactions.                                   *)
LEMMA ViewKept ==
    ASSUME NEW i,
           messages'[i].content = messages[i].content, messages'[i].forward = messages[i].forward,
           messages'[i].revision = messages[i].revision,
           messages'[i].reply = messages[i].reply, messages'[i].original = messages[i].original,
           messages[i].reply # 0 => messages'[messages[i].reply].content = messages[messages[i].reply].content,
           Comments(i)' = Comments(i),
           {x \in reactions' : x.id = i} = {x \in reactions : x.id = i}
    PROVE  View(i)' = View(i)
<1>1. Quote(messages[i])' = Quote(messages[i]) BY Zenon DEF Quote
<1>2. hydrateInteractions(i)' = hydrateInteractions(i) BY Zenon, <1>1 DEF hydrateInteractions
<1> QED BY Zenon, <1>2 DEF View

(* A transaction that writes journal rows for the messages T changes what  *)
(* is shown of them and of no others, and numbers what it changes.         *)
Touches(T) ==
    /\ T \subseteq 1..lastID'
    /\ \A i \in (Ids \cap Ids') \ T : View(i)' = View(i)
    /\ \A i \in Ids \cap Ids' \cap T : messages'[i].revision > messages[i].revision
    /\ \A i \in Ids \cap Ids' : messages'[i].root = messages[i].root
    /\ Ids \ Ids' \subseteq T /\ Ids' \ Ids \subseteq T

(* CreateReferenced and Forward insert a row of these.                     *)
NewRow(m) ==
    /\ m \in Rows /\ m.revision = 1
    /\ m.reply \in Ids \cup {0} /\ m.root \in Ids \cup {0}
    /\ m.root # 0 => messages[m.root].root = 0

(* An insertion touches the new message and the post it comments on.       *)
LEMMA InsertTouches ==
    ASSUME TablesOK, NEW u, NEW k, NEW hash, NEW m, NewRow(m), Insert(u, k, hash, m)
    PROVE  /\ TablesOK' /\ Touches({lastID + 1} \cup ({m.root} \ {0}))
           /\ Journal({lastID + 1} \cup ({m.root} \ {0}))
           /\ Ids' = Ids \cup {lastID + 1} /\ lastID' = lastID + 1
           /\ messages'[lastID + 1].content = m.content /\ messages'[lastID + 1].revision = 1
           /\ \A i \in Ids : messages'[i].content = messages[i].content
<1> DEFINE id == lastID + 1
           D == Ids \cup {id}
           base == [i \in D |-> IF i = id THEN m ELSE messages[i]]
<1>1. /\ messages' = Bump(base, {m.root}) /\ lastID' = id
      /\ Journal({id} \cup ({m.root} \ {0})) /\ reactions' = reactions /\ clock' = clock
  BY Zenon DEF Insert
<1>2. id \in Nat /\ id # 0 /\ id \notin Ids /\ 0 \notin Ids /\ m \in Rows BY DEF TablesOK, NewRow
<1>3. base \in [D -> Rows] BY Zenon, <1>2 DEF TablesOK
<1>4. /\ messages' \in [D -> Rows]
      /\ \A i \in D :
           /\ messages'[i].content = base[i].content /\ messages'[i].forward = base[i].forward
           /\ messages'[i].reply = base[i].reply /\ messages'[i].original = base[i].original
           /\ messages'[i].root = base[i].root
           /\ messages'[i].revision = IF i \in {m.root} THEN base[i].revision + 1 ELSE base[i].revision
  <2> HIDE DEF base
  <2> QED BY <1>1, <1>3, BumpKeeps
<1>5. Ids' = D BY Zenon, <1>4 DEF Ids
<1>6. /\ base[id] = m /\ \A i \in Ids : base[i] = messages[i] /\ i # id BY Zenon, <1>2
<1> HIDE DEF base
<1>7. m.root # id BY Zenon, <1>2 DEF NewRow
<1>8. TablesOK'
  <2>1. \A i \in D : /\ messages'[i].reply \in D \cup {0}
                     /\ messages'[i].root \in D \cup {0}
                     /\ messages'[i].root # 0 => messages'[messages'[i].root].root = 0
    <3>1. ASSUME NEW i \in Ids
          PROVE  /\ messages'[i].reply \in D \cup {0}
                 /\ messages'[i].root \in D \cup {0}
                 /\ messages'[i].root # 0 => messages'[messages'[i].root].root = 0
      <4>1. messages'[i].reply = messages[i].reply /\ messages'[i].root = messages[i].root
        BY <1>4, <1>6
      <4>2. messages[i].root \in Ids => messages'[messages[i].root].root = messages[messages[i].root].root
        BY <1>4, <1>6
      <4> QED BY Zenon, <4>1, <4>2 DEF TablesOK
    <3>2. /\ messages'[id].reply \in D \cup {0}
          /\ messages'[id].root \in D \cup {0}
          /\ messages'[id].root # 0 => messages'[messages'[id].root].root = 0
      <4>1. messages'[id].reply = m.reply /\ messages'[id].root = m.root BY Zenon, <1>4, <1>6
      <4>2. m.root \in Ids => messages'[m.root].root = messages[m.root].root BY <1>4, <1>6
      <4> QED BY Zenon, <4>1, <4>2 DEF NewRow
    <3> QED BY Zenon, <3>1, <3>2
  <2>2. D \subseteq 1..id BY <1>2 DEF TablesOK
  <2> QED BY Zenon, <1>1, <1>2, <1>4, <1>5, <2>1, <2>2 DEF TablesOK
<1>9. ASSUME NEW i \in Ids, i # m.root PROVE View(i)' = View(i)
  <2>1. Comments(i)' = Comments(i)
    BY <1>4, <1>5, <1>6, <1>9 DEF Comments
  <2>2. messages[i].reply # 0 => messages'[messages[i].reply].content = messages[messages[i].reply].content
    BY ZenonT(40), <1>4, <1>6 DEF TablesOK
  <2>3. /\ messages'[i].content = messages[i].content /\ messages'[i].forward = messages[i].forward
        /\ messages'[i].revision = messages[i].revision
        /\ messages'[i].reply = messages[i].reply /\ messages'[i].original = messages[i].original
    BY <1>4, <1>6, <1>9
  <2> QED BY Zenon, <1>1, <2>1, <2>2, <2>3, ViewKept
<1>10. m.root # 0 => m.root \in Ids /\ messages'[m.root].revision > messages[m.root].revision
  <2>1. ASSUME m.root \in Ids PROVE messages'[m.root].revision = messages[m.root].revision + 1
    BY <1>4, <1>6, <2>1
  <2>2. ASSUME m.root \in Ids PROVE messages[m.root].revision \in Nat BY Zenon, <2>2 DEF TablesOK, Rows
  <2> QED BY <2>1, <2>2 DEF NewRow
<1>11. Touches({id} \cup ({m.root} \ {0}))
  <2>1. {id} \cup ({m.root} \ {0}) \subseteq 1..id
    <3>1. m.root # 0 => m.root \in 1..lastID BY Zenon DEF TablesOK, NewRow
    <3>2. id \in 1..id /\ 1..lastID \subseteq 1..id BY DEF TablesOK
    <3> QED BY Zenon, <3>1, <3>2
  <2>2. \A i \in Ids : messages'[i].root = messages[i].root BY <1>4, <1>6
  <2>3. \A i \in Ids : i = m.root => messages'[i].revision > messages[i].revision BY Zenon, <1>2, <1>10
  <2> QED BY Zenon, <1>1, <1>2, <1>5, <1>9, <2>1, <2>2, <2>3 DEF Touches
<1>12. messages'[id].content = m.content /\ messages'[id].revision = 1
  BY Zenon, <1>4, <1>6, <1>7 DEF NewRow
<1>13. \A i \in Ids : messages'[i].content = messages[i].content BY <1>4, <1>6
<1> QED BY Zenon, <1>1, <1>5, <1>8, <1>11, <1>12, <1>13

(* What a transaction that bumps T, and changes no reference, does.        *)
LEMMA BumpsTouch ==
    ASSUME TablesOK, NEW base \in [Ids -> Rows], NEW T \in SUBSET Ids, messages' = Bump(base, T),
           \A i \in Ids : /\ base[i].reply = messages[i].reply /\ base[i].original = messages[i].original
                          /\ base[i].root = messages[i].root /\ base[i].revision = messages[i].revision,
           \A i \in Ids \ T : base[i].content = messages[i].content /\ base[i].forward = messages[i].forward,
           \A i \in Ids \ T : messages[i].reply # 0 =>
               base[messages[i].reply].content = messages[messages[i].reply].content,
           \A i \in Ids \ T : {x \in reactions' : x.id = i} = {x \in reactions : x.id = i},
           \A r \in reactions' : r.id \in Ids, UNCHANGED <<lastID, clock>>
    PROVE  /\ TablesOK' /\ Touches(T) /\ Ids' = Ids
           /\ \A i \in Ids : messages'[i].content = base[i].content
<1>1. /\ messages' \in [Ids -> Rows]
      /\ \A i \in Ids :
           /\ messages'[i].content = base[i].content /\ messages'[i].forward = base[i].forward
           /\ messages'[i].reply = messages[i].reply /\ messages'[i].original = messages[i].original
           /\ messages'[i].root = messages[i].root
           /\ messages'[i].revision = IF i \in T THEN messages[i].revision + 1 ELSE messages[i].revision
  BY BumpKeeps
<1>2. Ids' = Ids BY Zenon, <1>1 DEF Ids
<1>3. TablesOK'
  <2>1. ASSUME NEW i \in Ids
        PROVE  /\ messages'[i].reply \in Ids \cup {0} /\ messages'[i].root \in Ids \cup {0}
               /\ messages'[i].root # 0 => messages'[messages'[i].root].root = 0
    <3>1. messages'[i].reply = messages[i].reply /\ messages'[i].root = messages[i].root BY Zenon, <1>1
    <3>2. messages[i].root \in Ids => messages'[messages[i].root].root = messages[messages[i].root].root
      BY Zenon, <1>1
    <3> QED BY Zenon, <3>1, <3>2 DEF TablesOK
  <2>2. messages' \in [Ids' -> Rows] BY Zenon, <1>1, <1>2
  <2> QED BY Zenon, <1>2, <2>1, <2>2 DEF TablesOK
<1>4. ASSUME NEW i \in Ids \ T PROVE View(i)' = View(i)
  <2>1. Comments(i)' = Comments(i) BY Zenon, <1>1, <1>2 DEF Comments
  <2>2. messages[i].reply # 0 => messages'[messages[i].reply].content = messages[messages[i].reply].content
    BY Zenon, <1>1 DEF TablesOK
  <2> QED BY <1>1, <2>1, <2>2, ViewKept
<1>5. \A i \in T : messages'[i].revision > messages[i].revision
  <2>1. \A i \in T : messages[i].revision \in Nat BY Zenon DEF TablesOK, Rows
  <2> QED BY <1>1, <2>1
<1>6. T \subseteq 1..lastID' BY Zenon DEF TablesOK
<1> QED BY Zenon, <1>1, <1>2, <1>3, <1>4, <1>5, <1>6 DEF Touches

(* UpdateRow numbers the message and, when its text changes, its quotes.   *)
LEMMA UpdateTouches ==
    ASSUME TablesOK, NEW u, NEW id \in Ids, NEW c \in Contents, UpdateMessage(u, id, c)
    PROVE  /\ TablesOK' /\ Ids' = Ids
           /\ Touches({id} \cup QuotesOf(id, c)) /\ Journal({id} \cup QuotesOf(id, c))
           /\ messages'[id].content = c
           /\ \A i \in Ids \ {id} : messages'[i].content = messages[i].content
<1> DEFINE base == [messages EXCEPT ![id].content = c]
           T == {id} \cup QuotesOf(id, c)
<1>1. /\ messages' = Bump(base, T) /\ Journal(T) /\ UNCHANGED <<lastID, clock, reactions>>
  BY Zenon DEF UpdateMessage, UpdateRow
<1>2. messages \in [Ids -> Rows] /\ T \subseteq Ids BY Zenon DEF TablesOK, QuotesOf
<1>3. /\ base \in [Ids -> Rows]
      /\ \A i \in Ids : /\ base[i].reply = messages[i].reply /\ base[i].original = messages[i].original
                        /\ base[i].root = messages[i].root /\ base[i].revision = messages[i].revision
                        /\ base[i].forward = messages[i].forward
                        /\ i # id => base[i].content = messages[i].content
      /\ base[id].content = c
  <2>1. [messages[id] EXCEPT !.content = c] \in Rows BY Zenon, <1>2 DEF Rows
  <2>2. /\ base[id] = [messages[id] EXCEPT !.content = c]
        /\ \A i \in Ids : i # id => base[i] = messages[i]
    BY Zenon, <1>2
  <2>3. base \in [Ids -> Rows] BY Zenon, <1>2, <2>1
  <2> HIDE DEF base
  <2> QED BY <1>2, <2>2, <2>3 DEF Rows
<1>4. ASSUME NEW i \in Ids \ T, messages[i].reply # 0
      PROVE  base[messages[i].reply].content = messages[messages[i].reply].content
  <2> HIDE DEF base
  <2>1. messages[i].reply \in Ids BY Zenon, <1>4 DEF TablesOK
  <2>2. messages[i].reply = id => messages[id].content = c BY Zenon, <1>4 DEF QuotesOf
  <2> QED BY Zenon, <1>3, <2>1, <2>2
<1> HIDE DEF base, T
<1>5. id \in T BY Zenon DEF T
<1>6. \A r \in reactions' : r.id \in Ids BY Zenon, <1>1 DEF TablesOK
<1>7. TablesOK' /\ Touches(T) /\ Ids' = Ids /\ \A i \in Ids : messages'[i].content = base[i].content
  BY SMTT(30), <1>1, <1>2, <1>3, <1>4, <1>5, <1>6, BumpsTouch
<1> QED BY Zenon, <1>1, <1>3, <1>7 DEF T

(* SetReaction changes the reactions of its message and numbers it.        *)
LEMMA ReactTouches ==
    ASSUME TablesOK, NEW u, NEW id \in Ids, NEW e, NEW on, ReactMessage(u, id, e, on)
    PROVE  /\ TablesOK' /\ Touches({id}) /\ Journal({id}) /\ Ids' = Ids
           /\ \A i \in Ids : messages'[i].content = messages[i].content
<1> DEFINE row == [id |-> id, user |-> u, emoji |-> e]
<1>1. /\ messages' = Bump(messages, {id}) /\ Journal({id}) /\ UNCHANGED <<lastID, clock>>
      /\ reactions' = reactions \cup {row} \/ reactions' = reactions \ {row}
  BY Zenon DEF ReactMessage
<1>2. row.id = id OBVIOUS
<1>3. \A i \in Ids \ {id} : {x \in reactions' : x.id = i} = {x \in reactions : x.id = i}
  <2> HIDE DEF row
  <2> QED BY Zenon, <1>1, <1>2
<1>4. \A r \in reactions' : r.id \in Ids
  <2> HIDE DEF row
  <2> QED BY Zenon, <1>1, <1>2 DEF TablesOK
<1>5. messages \in [Ids -> Rows] /\ {id} \in SUBSET Ids BY Zenon DEF TablesOK
<1>6. \A i \in Ids \ {id} : messages[i].reply # 0 =>
        messages[messages[i].reply].content = messages[messages[i].reply].content
  OBVIOUS
<1> QED BY Zenon, <1>1, <1>3, <1>4, <1>5, <1>6, BumpsTouch

(* The reactions of a member who leaves go, each with its trigger.         *)
LEMMA DepartTouches ==
    ASSUME TablesOK, NEW u, Depart(u)
    PROVE  \E T \in SUBSET Ids :
           /\ TablesOK' /\ Touches(T) /\ Journal(T) /\ Ids' = Ids
           /\ \A i \in Ids : messages'[i].content = messages[i].content
<1> DEFINE lost == {r \in reactions : r.user = u}
           T == {r.id : r \in lost}
<1>1. /\ messages' = Bump(messages, T) /\ Journal(T) /\ UNCHANGED <<lastID, clock>>
      /\ reactions' = reactions \ lost
  BY Zenon DEF Depart
<1>2. \A i \in Ids \ T : {x \in reactions' : x.id = i} = {x \in reactions : x.id = i}
  BY Zenon, <1>1
<1>3. \A r \in reactions' : r.id \in Ids BY Zenon, <1>1 DEF TablesOK
<1>4. messages \in [Ids -> Rows] /\ T \in SUBSET Ids BY Zenon DEF TablesOK
<1> HIDE DEF T
<1>5. /\ TablesOK' /\ Touches(T) /\ Ids' = Ids
      /\ \A i \in Ids : messages'[i].content = messages[i].content
  BY Zenon, <1>1, <1>2, <1>3, <1>4, BumpsTouch
<1> QED BY Zenon, <1>1, <1>4, <1>5

(* Delete: comments go with their post, quotes of what is gone are numbered *)
(* and so is the post that loses a comment.                                *)
LEMMA DeleteTouches ==
    ASSUME TablesOK, NEW u, NEW id \in Ids, DeleteMessage(u, id)
    PROVE  \E T \in SUBSET Ids :
           /\ TablesOK' /\ Touches(T) /\ Journal(T) /\ Ids' \subseteq Ids
           /\ \A i \in Ids' : messages'[i].content = messages[i].content
<1> DEFINE gone == {id} \cup Comments(id)
           quoting == {i \in Ids \ gone : messages[i].reply \in gone}
           root == {messages[id].root} \ {0}
           D == Ids \ gone
           left == [i \in D |-> IF i \in quoting THEN [messages[i] EXCEPT !.reply = 0] ELSE messages[i]]
           T == gone \cup quoting \cup root
<1>1. /\ messages' = Bump(Bump(left, quoting), root) /\ Journal(T)
      /\ reactions' = {r \in reactions : r.id \notin gone} /\ UNCHANGED <<lastID, clock>>
  BY Zenon DEF DeleteMessage
<1>2. /\ messages \in [Ids -> Rows] /\ Ids \subseteq 1..lastID /\ 0 \notin Ids /\ lastID \in Nat
      /\ gone \subseteq Ids /\ T \subseteq Ids
  BY DEF TablesOK, Comments
<1>3. /\ left \in [D -> Rows]
      /\ \A i \in D : /\ left[i].content = messages[i].content /\ left[i].forward = messages[i].forward
                      /\ left[i].original = messages[i].original /\ left[i].root = messages[i].root
                      /\ left[i].revision = messages[i].revision
                      /\ left[i].reply = IF i \in quoting THEN 0 ELSE messages[i].reply
  <2> HIDE DEF quoting, gone
  <2>1. ASSUME NEW i \in D
        PROVE  LET r == [messages[i] EXCEPT !.reply = 0]
               IN  /\ r \in Rows /\ r.content = messages[i].content /\ r.forward = messages[i].forward
                   /\ r.original = messages[i].original /\ r.root = messages[i].root
                   /\ r.revision = messages[i].revision /\ r.reply = 0
    <3>1. messages[i] \in Rows BY Zenon, <1>2
    <3> QED BY Zenon, <3>1 DEF Rows
  <2>2. \A i \in D : left[i] = IF i \in quoting THEN [messages[i] EXCEPT !.reply = 0] ELSE messages[i]
    OBVIOUS
  <2>3. left \in [D -> Rows] BY Zenon, <1>2, <2>1
  <2> HIDE DEF left
  <2> QED BY Zenon, <2>1, <2>2, <2>3
<1> HIDE DEF left
<1>4. /\ messages' \in [D -> Rows]
      /\ \A i \in D :
           /\ messages'[i].content = messages[i].content /\ messages'[i].forward = messages[i].forward
           /\ messages'[i].original = messages[i].original /\ messages'[i].root = messages[i].root
           /\ messages'[i].reply = IF i \in quoting THEN 0 ELSE messages[i].reply
           /\ i \in quoting \cup root => messages'[i].revision > messages[i].revision
           /\ i \notin quoting \cup root => messages'[i].revision = messages[i].revision
  <2> HIDE DEF D, quoting, root
  <2> DEFINE mid == Bump(left, quoting)
  <2>1. /\ mid \in [D -> Rows]
        /\ \A i \in D :
           /\ mid[i].content = left[i].content /\ mid[i].forward = left[i].forward
           /\ mid[i].reply = left[i].reply /\ mid[i].original = left[i].original
           /\ mid[i].root = left[i].root
           /\ mid[i].revision = IF i \in quoting THEN left[i].revision + 1 ELSE left[i].revision
    BY <1>3, BumpKeeps
  <2> HIDE DEF mid
  <2>2. /\ Bump(mid, root) \in [D -> Rows]
        /\ \A i \in D :
           /\ Bump(mid, root)[i].content = mid[i].content /\ Bump(mid, root)[i].forward = mid[i].forward
           /\ Bump(mid, root)[i].reply = mid[i].reply /\ Bump(mid, root)[i].original = mid[i].original
           /\ Bump(mid, root)[i].root = mid[i].root
           /\ Bump(mid, root)[i].revision = IF i \in root THEN mid[i].revision + 1 ELSE mid[i].revision
    BY <2>1, BumpKeeps
  <2>3. messages' = Bump(mid, root) BY Zenon, <1>1 DEF mid
  <2>4. \A i \in D : messages[i].revision \in Nat BY Zenon, <1>2 DEF Rows, D
  <2> QED BY <1>3, <2>1, <2>2, <2>3, <2>4
<1>5. Ids' = D BY Zenon, <1>4 DEF Ids
<1>6. \A i \in D : messages[i].root \in D \cup {0}
  BY DEF TablesOK, Comments
<1>7. \A i \in D : i \notin quoting => messages[i].reply \in D \cup {0}
  BY Zenon DEF TablesOK
<1>8. TablesOK'
  <2>1. ASSUME NEW i \in D
        PROVE  /\ messages'[i].reply \in D \cup {0} /\ messages'[i].root \in D \cup {0}
               /\ messages'[i].root # 0 => messages'[messages'[i].root].root = 0
    <3>1. messages'[i].reply \in D \cup {0} BY <1>4, <1>7
    <3>2. messages'[i].root = messages[i].root /\ messages[i].root \in D \cup {0} BY SMTT(30), <1>4, <1>6
    <3>3. messages[i].root # 0 => messages'[messages[i].root].root = messages[messages[i].root].root
      BY <1>4, <3>2
    <3> QED BY Zenon, <3>1, <3>2, <3>3 DEF TablesOK
  <2>2. messages' \in [Ids' -> Rows] /\ Ids' \subseteq 1..lastID' BY Zenon, <1>1, <1>2, <1>4, <1>5
  <2>3. \A r \in reactions' : r.id \in Ids' BY SMTT(30), <1>1, <1>5 DEF TablesOK
  <2> QED BY Zenon, <1>1, <1>5, <2>1, <2>2, <2>3 DEF TablesOK
<1>9. ASSUME NEW i \in D \ T PROVE View(i)' = View(i)
  <2>1. Comments(i)' = Comments(i)
    <3>1. Comments(i) \cap gone = {}
      <4>1. messages[id].root # i BY Zenon, <1>2, <1>9
      <4>2. \A j \in Comments(id) : messages[j].root = id BY Zenon DEF Comments
      <4> QED BY Zenon, <4>1, <4>2, <1>9 DEF Comments
    <3> QED BY <1>4, <1>5, <3>1 DEF Comments
  <2>2. messages[i].reply # 0 => messages'[messages[i].reply].content = messages[messages[i].reply].content
    BY Zenon, <1>4, <1>7, <1>9
  <2>3. {x \in reactions' : x.id = i} = {x \in reactions : x.id = i} BY Zenon, <1>1, <1>9
  <2>4. i \notin quoting \cup root BY Zenon, <1>9
  <2> QED BY SMTT(30), <1>4, <2>1, <2>2, <2>3, <2>4, ViewKept
<1>10. Touches(T)
  <2>1. \A i \in D \cap T : messages'[i].revision > messages[i].revision BY Zenon, <1>4
  <2>2. \A i \in D : messages'[i].root = messages[i].root BY Zenon, <1>4
  <2>3. Ids \ D \subseteq T /\ D \subseteq Ids OBVIOUS
  <2>4. T \subseteq 1..lastID' BY Zenon, <1>1, <1>2
  <2> HIDE DEF T, D
  <2> QED BY <1>5, <1>9, <2>1, <2>2, <2>3, <2>4 DEF Touches
<1> HIDE DEF T, D
<1>11. D \subseteq Ids /\ T \in SUBSET Ids BY Zenon, <1>2 DEF D
<1>12. \A i \in Ids' : messages'[i].content = messages[i].content BY Zenon, <1>4, <1>5
<1> QED BY Zenon, <1>1, <1>5, <1>8, <1>10, <1>11, <1>12

-----------------------------------------------------------------------------
(* The journal, its pages and its pruning. *)

(* A set of naturals has a least element, a bounded one a greatest.        *)
LEMMA Least == ASSUME NEW S \in SUBSET Nat, S # {} PROVE \E m \in S : \A k \in S : m <= k
<1> DEFINE R == OpToRel(<, Nat)
<1>1. IsWellFoundedOn(R, Nat) BY Zenon, NatLessThanWellFounded
<1>2. ASSUME NEW k \in Nat, NEW m \in Nat, k < m PROVE <<k, m>> \in R BY Zenon, <1>2 DEF OpToRel
<1> HIDE DEF R
<1>3. PICK m \in S : \A k \in S : ~(<<k, m>> \in R) BY Zenon, <1>1, WFMin
<1>4. \A k \in S : ~(k < m) BY Zenon, <1>2, <1>3
<1> QED BY <1>4

LEMMA Greatest ==
    ASSUME NEW n \in Nat, NEW S \in SUBSET (1..n), S # {}
    PROVE  \E m \in S : \A k \in S : k <= m
<1>1. {n - k : k \in S} \in SUBSET Nat /\ {n - k : k \in S} # {}
  <2>1. \A k \in S : n - k \in Nat OBVIOUS
  <2>2. PICK k \in S : TRUE BY Zenon
  <2> QED BY Zenon, <2>1, <2>2
<1>2. PICK d \in {n - k : k \in S} : \A e \in {n - k : k \in S} : d <= e BY Zenon, <1>1, Least
<1>3. PICK m \in S : d = n - m BY Zenon, <1>2
<1>4. \A k \in S : n - m <= n - k BY Zenon, <1>2, <1>3
<1> QED BY <1>4

(* ListOf lists a finite set.                                              *)
LEMMA ListsAll ==
    ASSUME NEW S, IsFiniteSet(S)
    PROVE  /\ Cardinality(S) \in Nat /\ ListOf(S) \in [1..Cardinality(S) -> S]
           /\ \A x \in S : \E j \in 1..Cardinality(S) : ListOf(S)[j] = x
<1> DEFINE n == Cardinality(S)
<1>1. n \in Nat /\ ExistsBijection(1..n, S) BY Zenon, FS_CardinalityType
<1>2. PICK f \in Surjection(1..n, S) : TRUE BY Zenon, <1>1 DEF ExistsBijection, Bijection
<1>3. f \in [1..n -> S] /\ \A x \in S : \E j \in DOMAIN f : f[j] = x BY Zenon, <1>2 DEF Surjection
<1>4. ListOf(S) \in [1..n -> S] /\ \A x \in S : \E j \in DOMAIN ListOf(S) : ListOf(S)[j] = x
  BY Zenon, <1>3 DEF ListOf
<1> QED BY <1>1, <1>4

(* Intervals from 1 determine their upper ends.                            *)
LEMMA SameInterval == ASSUME NEW a \in Nat, NEW b \in Nat, 1..a = 1..b PROVE a = b
<1>1. a # 0 => a \in 1..a OBVIOUS
<1>2. b # 0 => b \in 1..b OBVIOUS
<1>3. a # 0 => a \in 1..b BY Zenon, <1>1
<1>4. b # 0 => b \in 1..a BY Zenon, <1>2
<1> QED BY <1>3, <1>4

(* A transaction appends a row for everything it touches.                  *)
LEMMA JournalGrows ==
    ASSUME JournalOK, NEW n \in Nat, NEW T \in SUBSET (1..n), Journal(T), UNCHANGED <<floor, at>>
    PROVE  /\ JournalOK' /\ Len(changes) <= Len(changes')
           /\ \A s \in 1..Len(changes) : changes'[s] = changes[s]
           /\ kept \subseteq kept'
           /\ \A i \in T : \E s \in kept' : s > at /\ changes'[s] = i
<1> DEFINE new == ListOf(T)
           c == Cardinality(T)
           l == Len(changes)
<1>1. IsFiniteSet(T)
  <2>1. IsFiniteSet(1..n) BY FS_Interval
  <2> QED BY Zenon, <2>1, FS_Subset
<1>2. c \in Nat /\ new \in [1..c -> T] /\ \A i \in T : \E j \in 1..c : new[j] = i BY Zenon, <1>1, ListsAll
<1>3. changes \in Seq(Nat) /\ l \in Nat BY DEF JournalOK
<1>4. changes' = changes \o new /\ kept' = kept \cup (l + 1)..(l + c) BY Zenon DEF Journal
<1> HIDE DEF new, c
<1>5. new \in Seq(Nat) /\ Len(new) = c
  <2>1. T \subseteq Nat OBVIOUS
  <2>2. new \in [1..c -> Nat] BY Zenon, <1>2, <2>1
  <2>3. new \in Seq(Nat) BY <1>2, <2>2, SeqDef
  <2>4. Len(new) \in Nat /\ 1..Len(new) = 1..c BY Zenon, <2>2, <2>3, LenProperties
  <2> QED BY Zenon, <1>2, <2>3, <2>4, SameInterval
<1>6. /\ changes' \in Seq(Nat) /\ Len(changes') = l + c
      /\ \A s \in 1..l : changes'[s] = changes[s]
      /\ \A j \in 1..c : changes'[l + j] = new[j]
  <2>1. /\ changes' \in Seq(Nat) /\ Len(changes') = l + c
        /\ \A i \in 1..(l + c) : changes'[i] = IF i <= l THEN changes[i] ELSE new[i - l]
    BY Zenon, <1>3, <1>4, <1>5, ConcatProperties
  <2>2. \A s \in 1..l : s \in 1..(l + c) /\ s <= l BY <1>2, <1>3
  <2>3. \A j \in 1..c : l + j \in 1..(l + c) /\ ~(l + j <= l) /\ (l + j) - l = j BY <1>2, <1>3
  <2> QED BY Zenon, <2>1, <2>2, <2>3
<1>7. kept' = (floor + 1)..(l + c) BY <1>2, <1>3, <1>4 DEF JournalOK
<1>8. JournalOK' BY <1>2, <1>3, <1>6, <1>7 DEF JournalOK
<1>9. ASSUME NEW i \in T PROVE \E s \in kept' : s > at /\ changes'[s] = i
  <2>1. PICK j \in 1..c : new[j] = i BY Zenon, <1>2
  <2>2. changes'[l + j] = i /\ l + j \in kept' BY SMTT(30), <1>2, <1>3, <1>4, <1>6, <2>1
  <2>3. l + j > at BY <1>2, <1>3, <2>1 DEF JournalOK
  <2> QED BY Zenon, <2>2, <2>3
<1>10. l <= Len(changes') BY <1>2, <1>3, <1>6
<1>11. kept \subseteq kept' BY Zenon, <1>4
<1> QED BY Zenon, <1>6, <1>8, <1>9, <1>10, <1>11

(* So a client that has still to read those rows misses nothing.           *)
LEMMA SyncStays ==
    ASSUME TablesOK, JournalOK, SyncComplete, NEW n \in Nat, NEW T \in SUBSET (1..n),
           Touches(T), Journal(T), UNCHANGED <<floor, at, window, horizon>>
    PROVE  JournalOK' /\ SyncComplete'
<1> DEFINE unread == {changes[s] : s \in {x \in kept : x > at}}
           unread1 == {changes'[s] : s \in {x \in kept' : x > at'}}
<1>1. /\ JournalOK' /\ Len(changes) <= Len(changes')
      /\ \A s \in 1..Len(changes) : changes'[s] = changes[s]
      /\ kept \subseteq kept' /\ at' = at
      /\ \A i \in T : \E s \in kept' : s > at /\ changes'[s] = i
  BY Zenon, JournalGrows
<1>2. kept \subseteq 1..Len(changes) /\ at \in Int /\ Len(changes) \in Nat BY DEF JournalOK
<1>3. unread \subseteq unread1 BY <1>1, <1>2
<1>4. T \subseteq unread1 BY <1>1
<1> HIDE DEF unread1
<1>5. SUFFICES ASSUME ~Reset(at)'
               PROVE  /\ \A i \in DOMAIN window' \ unread1 : i \in Ids' /\ window'[i] = View(i)'
                      /\ \A i \in Ids' \ unread1 : messages'[i].root = 0 /\ i >= horizon' => i \in DOMAIN window'
  BY Zenon, <1>1 DEF SyncComplete, unread1
<1>6. ~Reset(at) BY <1>1, <1>5 DEF Reset, JournalOK
<1>7. /\ \A i \in DOMAIN window \ unread : i \in Ids /\ window[i] = View(i)
      /\ \A i \in Ids \ unread : messages[i].root = 0 /\ i >= horizon => i \in DOMAIN window
  BY Zenon, <1>6 DEF SyncComplete
<1> HIDE DEF unread
<1> QED BY Zenon, <1>3, <1>4, <1>7 DEF Touches

(* What a reader is shown is a function of messages and reactions.         *)
LEMMA ViewSame == ASSUME NEW i, UNCHANGED <<messages, reactions>> PROVE View(i)' = View(i)
BY Zenon DEF View, hydrateInteractions, Quote, Comments, Ids

(* A reset page is the newest posts, every one from its lower end on.      *)
LEMMA NewestWhole ==
    ASSUME TablesOK, ResetPage
    PROVE  /\ DOMAIN window' = Newest(ResetSize)
           /\ \A i \in Ids : messages[i].root = 0 /\ i >= horizon' => i \in Newest(ResetSize)
<1> DEFINE top == {i \in Ids : messages[i].root = 0}
           above(i) == {j \in top : j > i}
           page == Newest(ResetSize)
           n == Cardinality(top)
<1>1. /\ window' = [i \in page |-> View(i)]
      /\ horizon' = IF n > ResetSize THEN CHOOSE i \in page : \A j \in page : i <= j ELSE 0
  BY Zenon DEF ResetPage
<1>2. page = {i \in top : Cardinality(above(i)) < ResetSize} BY Zenon DEF Newest
<1>3. top \subseteq 1..lastID /\ lastID \in Nat BY Zenon DEF TablesOK
<1>4. IsFiniteSet(top) /\ n \in Nat
  <2>1. IsFiniteSet(1..lastID) BY <1>3, FS_Interval
  <2> QED BY SMTT(30), <1>3, <2>1, FS_Subset, FS_CardinalityType
<1>5. ASSUME NEW i \in top PROVE above(i) \subseteq top /\ i \notin above(i) BY <1>3
<1>6. ASSUME NEW i \in top
      PROVE  IsFiniteSet(above(i)) /\ Cardinality(above(i)) \in Nat /\ Cardinality(above(i)) < n
  <2> HIDE DEF above, top, n
  <2>1. IsFiniteSet(above(i)) /\ Cardinality(above(i)) <= Cardinality(top)
        /\ (Cardinality(above(i)) = Cardinality(top) => above(i) = top)
    BY <1>4, <1>5, FS_Subset
  <2>2. Cardinality(above(i)) \in Nat BY <2>1, FS_CardinalityType
  <2>3. above(i) # top BY Zenon, <1>5
  <2> QED BY SMTT(30), <1>4, <2>1, <2>2, <2>3 DEF n
<1>7. ResetSize \in Nat /\ ResetSize > 0 BY MessagesAssumption
<1>8. CASE n <= ResetSize
  <2>1. \A i \in top : i \in page
    <3> HIDE DEF above, top, n, page
    <3> QED BY SMTT(30), <1>2, <1>4, <1>6, <1>7, <1>8
  <2> QED BY Zenon, <1>1, <2>1
<1>9. CASE n > ResetSize
  <2>1. top # {}
    <3>1. top = {} => n = 0 BY Zenon, FS_EmptySet
    <3> HIDE DEF above, top, n
    <3> QED BY <1>7, <1>9, <3>1
  <2>2. PICK g \in top : \A k \in top : k <= g BY Zenon, <1>3, <2>1, Greatest
  <2>3. above(g) = {} BY <1>3, <2>2
  <2>4. Cardinality(above(g)) = 0 BY Zenon, <2>3, FS_EmptySet
  <2>5. g \in page BY Zenon, <1>2, <1>7, <2>2, <2>4
  <2>6. page \in SUBSET Nat /\ page # {}
    <3>1. page \subseteq top BY Zenon, <1>2
    <3>2. top \subseteq Nat BY <1>3
    <3> HIDE DEF page, top
    <3> QED BY Zenon, <2>5, <3>1, <3>2
  <2>7. \E m \in page : \A j \in page : m <= j BY Zenon, <2>6, Least
  <2>8. horizon' \in page /\ \A j \in page : horizon' <= j BY Zenon, <1>1, <1>9, <2>7
  <2>9. ASSUME NEW i \in top, i >= horizon' PROVE i \in page
    <3>1. horizon' \in top BY Zenon, <1>2, <2>8
    <3>2. above(i) \subseteq above(horizon') BY <1>3, <2>9, <3>1
    <3>3. IsFiniteSet(above(horizon')) /\ Cardinality(above(horizon')) \in Nat
          /\ Cardinality(above(horizon')) < ResetSize
      BY Zenon, <1>2, <1>6, <2>8, <3>1
    <3>4. Cardinality(above(i)) \in Nat BY Zenon, <1>6
    <3> HIDE DEF above
    <3>5. Cardinality(above(i)) <= Cardinality(above(horizon')) BY Zenon, <3>2, <3>3, FS_Subset
    <3> QED BY SMTT(30), <1>2, <1>7, <3>3, <3>4, <3>5
  <2> QED BY Zenon, <1>1, <2>9
<1> QED BY SMTT(30), <1>4, <1>7, <1>8, <1>9

(* A reset puts the client in step with the journal's end.                 *)
LEMMA ResetSyncs ==
    ASSUME TablesOK, JournalOK, ResetPage, UNCHANGED <<messages, reactions, changes, kept, floor>>
    PROVE  JournalOK' /\ SyncComplete'
<1>1. at' = Len(changes) /\ window' = [i \in Newest(ResetSize) |-> View(i)] BY Zenon DEF ResetPage
<1>2. JournalOK' BY <1>1 DEF JournalOK
<1>3. {x \in kept' : x > at'} = {} BY <1>1 DEF JournalOK
<1>4. Newest(ResetSize) \subseteq Ids BY Zenon DEF Newest
<1>5. \A i \in DOMAIN window' : i \in Ids' /\ window'[i] = View(i)' BY Zenon, <1>1, <1>4, ViewSame DEF Ids
<1>6. \A i \in Ids' : messages'[i].root = 0 /\ i >= horizon' => i \in DOMAIN window'
  BY Zenon, NewestWhole DEF Ids
<1> QED BY Zenon, <1>2, <1>5, <1>6 DEF SyncComplete

(* A page of the journal: the next rows, and the cursor behind them.       *)
LEMMA PageOfRows ==
    ASSUME JournalOK, ~Reset(at), at < Len(changes), ChangesPage(at),
           UNCHANGED <<changes, kept, floor>>
    PROVE  \E next \in SUBSET kept :
             /\ at' \in at..Len(changes)
             /\ {x \in kept : x > at} = next \cup {x \in kept : x > at'}
             /\ window' = [i \in (DOMAIN window \ ({changes[s] : s \in next} \ Ids))
                                  \cup ({changes[s] : s \in next} \cap Ids) |->
                             IF i \in {changes[s] : s \in next} THEN View(i) ELSE window[i]]
             /\ horizon' = horizon
<1> DEFINE rows == {s \in kept : s > at}
           before(s) == {x \in kept : x > at /\ x < s}
           next == {s \in kept : s > at /\ Cardinality(before(s)) < syncPageSize}
<1>1. /\ window' = [i \in (DOMAIN window \ ({changes[s] : s \in next} \ Ids))
                                  \cup ({changes[s] : s \in next} \cap Ids) |->
                             IF i \in {changes[s] : s \in next} THEN View(i) ELSE window[i]]
      /\ at' = IF rows # next THEN CHOOSE s \in next : \A x \in next : x <= s ELSE Len(changes)
      /\ horizon' = horizon
  BY Zenon DEF ChangesPage
<1>2. /\ Len(changes) \in Nat /\ at \in Nat /\ at < Len(changes) /\ floor \in Nat
      /\ kept = (floor + 1)..Len(changes) /\ floor <= at
  BY DEF JournalOK, Reset
<1>3. rows = (at + 1)..Len(changes) BY <1>2
<1>4. ASSUME NEW s \in rows PROVE Cardinality(before(s)) = s - 1 - at
  <2>1. before(s) = (at + 1)..(s - 1) BY <1>2, <1>3
  <2>2. at + 1 \in Int /\ s - 1 \in Int BY <1>2, <1>3
  <2>3. Cardinality((at + 1)..(s - 1)) = IF at + 1 > s - 1 THEN 0 ELSE (s - 1) - (at + 1) + 1
    BY Zenon, <2>2, FS_Interval
  <2>4. s \in Int /\ at \in Int /\ at + 1 <= s BY <1>2, <1>3
  <2> HIDE DEF before, rows
  <2> QED BY <2>1, <2>3, <2>4
<1>5. syncPageSize \in Nat /\ syncPageSize > 0 BY MessagesAssumption
<1>6. next = {s \in rows : s <= at + syncPageSize}
  <2> HIDE DEF before
  <2>1. next = {s \in rows : Cardinality(before(s)) < syncPageSize} OBVIOUS
  <2>2. \A s \in rows : Cardinality(before(s)) < syncPageSize <=> s <= at + syncPageSize
    BY SMTT(30), <1>2, <1>3, <1>4, <1>5
  <2> QED BY Zenon, <2>1, <2>2
<1>7. at + 1 \in next BY SMTT(30), <1>2, <1>3, <1>5, <1>6
<1>8. next \in SUBSET kept OBVIOUS
<1> HIDE DEF next
<1>9. CASE rows = next
  <2>1. at' = Len(changes) BY Zenon, <1>1, <1>9
  <2>2. {x \in kept : x > at'} = {} BY <1>2, <2>1
  <2>3. at' \in at..Len(changes) BY <1>2, <2>1
  <2> QED BY Zenon, <1>1, <1>8, <1>9, <2>2, <2>3
<1>10. CASE rows # next
  <2>1. next \in SUBSET (1..Len(changes)) BY <1>2, <1>8
  <2>2. \E m \in next : \A x \in next : x <= m BY Zenon, <1>2, <1>7, <2>1, Greatest
  <2>3. at' \in next /\ \A x \in next : x <= at' BY Zenon, <1>1, <1>10, <2>2
  <2>4. at' \in at..Len(changes) BY SMTT(30), <1>2, <1>3, <1>6, <2>3
  <2>5. ASSUME NEW x \in rows PROVE x \in next \/ x > at'
    BY SMTT(30), <1>2, <1>3, <1>5, <1>6, <2>3
  <2>6. ASSUME NEW x \in kept, x > at' PROVE x > at BY <1>2, <2>4, <2>6
  <2>7. rows = next \cup {x \in kept : x > at'}
    <3>1. next \subseteq rows BY Zenon, <1>6
    <3> QED BY Zenon, <2>5, <2>6, <3>1
  <2> QED BY Zenon, <1>1, <1>8, <2>4, <2>7
<1> QED BY Zenon, <1>9, <1>10

(* A page takes its rows off what is unread, and shows their messages.     *)
LEMMA PageSyncs ==
    ASSUME JournalOK, SyncComplete, ~Reset(at), at < Len(changes), ChangesPage(at),
           UNCHANGED <<messages, reactions, changes, kept, floor>>
    PROVE  JournalOK' /\ SyncComplete'
<1>1. PICK next \in SUBSET kept :
             /\ at' \in at..Len(changes)
             /\ {x \in kept : x > at} = next \cup {x \in kept : x > at'}
             /\ window' = [i \in (DOMAIN window \ ({changes[s] : s \in next} \ Ids))
                                  \cup ({changes[s] : s \in next} \cap Ids) |->
                             IF i \in {changes[s] : s \in next} THEN View(i) ELSE window[i]]
             /\ horizon' = horizon
  BY Zenon, PageOfRows
<1> DEFINE ids == {changes[s] : s \in next}
           unread == {changes[s] : s \in {x \in kept : x > at}}
           unread1 == {changes[s] : s \in {x \in kept : x > at'}}
<1>2. unread = ids \cup unread1 BY Zenon, <1>1
<1>3. /\ \A i \in DOMAIN window \ unread : i \in Ids /\ window[i] = View(i)
      /\ \A i \in Ids \ unread : messages[i].root = 0 /\ i >= horizon => i \in DOMAIN window
  BY Zenon DEF SyncComplete
<1>4. JournalOK' BY <1>1 DEF JournalOK
<1>5. window' = [i \in (DOMAIN window \ (ids \ Ids)) \cup (ids \cap Ids) |->
                   IF i \in ids THEN View(i) ELSE window[i]]
  BY Zenon, <1>1
<1>6. unread1 = {changes'[s] : s \in {x \in kept' : x > at'}} /\ Ids' = Ids /\ horizon' = horizon
  BY Zenon, <1>1 DEF Ids
<1> HIDE DEF ids, unread, unread1
<1>7. ASSUME NEW i \in DOMAIN window' \ unread1 PROVE i \in Ids /\ window'[i] = View(i)'
  <2>1. i \in ids => i \in Ids BY Zenon, <1>5
  <2>2. i \notin ids => i \in DOMAIN window \ unread BY Zenon, <1>2, <1>5, <1>7
  <2>3. View(i)' = View(i) BY Zenon, ViewSame
  <2> QED BY SMTT(30), <1>3, <1>5, <1>7, <2>1, <2>2, <2>3
<1>8. ASSUME NEW i \in Ids \ unread1, messages[i].root = 0, i >= horizon PROVE i \in DOMAIN window'
  BY Zenon, <1>2, <1>3, <1>5, <1>8
<1> QED BY SMTT(30), <1>4, <1>6, <1>7, <1>8 DEF SyncComplete

(* pruneChangeBatch moves the floor with the rows it drops, so a client    *)
(* that had one of them still to read is sent a reset.                     *)
LEMMA PruneSyncs ==
    ASSUME JournalOK, SyncComplete, NEW s \in kept, Prune(s)
    PROVE  JournalOK' /\ SyncComplete'
<1>1. /\ kept' = {x \in kept : x > s} /\ floor' = IF s > floor THEN s ELSE floor
      /\ UNCHANGED <<messages, reactions, changes, at, window, horizon>>
  BY Zenon DEF Prune, pruneChangeBatch, client
<1>2. /\ Len(changes) \in Nat /\ floor \in Nat /\ s \in Nat /\ s > floor /\ s <= Len(changes)
      /\ kept = (floor + 1)..Len(changes)
  BY DEF JournalOK
<1>3. JournalOK' BY SMTT(30), <1>1, <1>2 DEF JournalOK
<1>4. ASSUME ~Reset(at)' PROVE ~Reset(at) /\ {x \in kept' : x > at'} = {x \in kept : x > at}
  <2>1. at \in Nat /\ s <= at BY SMTT(30), <1>1, <1>2, <1>4 DEF Reset, JournalOK
  <2> QED BY <1>1, <1>2, <2>1, <1>4 DEF Reset
<1>5. \A i : View(i)' = View(i) BY Zenon, <1>1, ViewSame
<1> QED BY Zenon, <1>1, <1>3, <1>4, <1>5 DEF SyncComplete, Ids

(* Steps that leave the tables and the syncing client alone.               *)
LEMMA SyncSame ==
    ASSUME TablesOK, JournalOK, SyncComplete, clock' \in Nat,
           UNCHANGED <<messages, lastID, reactions, changes, kept, floor, at, window, horizon>>
    PROVE  TablesOK' /\ JournalOK' /\ SyncComplete'
<1>1. \A i : View(i)' = View(i) BY Zenon, ViewSame
<1>2. TablesOK' BY Zenon DEF TablesOK, Ids
<1>3. JournalOK' BY Zenon DEF JournalOK
<1> QED BY Zenon, <1>1, <1>2, <1>3 DEF SyncComplete, Reset, Ids

-----------------------------------------------------------------------------
(* Every step keeps a syncing client in step. *)

(* Nothing that is shown changes unnumbered.                               *)
Numbered ==
    \A i \in Ids \cap DOMAIN messages' :
        View(i)' = View(i) \/ messages'[i].revision > messages[i].revision

LEMMA TouchesNumber == ASSUME NEW T, Touches(T) PROVE Numbered
BY Zenon DEF Touches, Numbered, Ids

LEMMA SameNumbered == ASSUME UNCHANGED <<messages, reactions>> PROVE Numbered
BY Zenon, ViewSame DEF Numbered

(* The rows that CreateReferenced and Forward insert.                      *)
LEMMA CreateRow ==
    ASSUME TablesOK, NEW u \in Users, NEW k, NEW c \in Contents, NEW r \in 0..lastID, NEW t \in 0..lastID,
           CreateReferenced(u, k, c, r, t)
    PROVE  LET m == Row(u, c, r, IF t # 0 THEN t ELSE NewsThread(r), "none")
           IN  NewRow(m) /\ m.content = c /\ Insert(u, k, <<c, r, t>>, m) /\ SendKeyFree(u, k)
<1> DEFINE root == IF t # 0 THEN t ELSE NewsThread(r)
           m == Row(u, c, r, root, "none")
<1>1. /\ Insert(u, k, <<c, r, t>>, m) /\ SendKeyFree(u, k)
      /\ t # 0 => t \in Ids /\ messages[t].root = 0
      /\ r # 0 => r \in Ids
  BY Zenon DEF CreateReferenced, ThreadValid
<1>2. r \in Nat /\ Ids \subseteq Nat /\ 0 \notin Ids /\ clock \in Nat BY DEF TablesOK
<1>3. root \in Ids \cup {0} /\ (root # 0 => messages[root].root = 0)
  <2>1. NewsThread(r) \in Ids \cup {0} /\ (NewsThread(r) # 0 => messages[NewsThread(r)].root = 0)
    BY Zenon DEF NewsThread, TablesOK
  <2> QED BY Zenon, <1>1, <2>1
<1> HIDE DEF root
<1>4. /\ m.revision = 1 /\ m.reply = r /\ m.root = root /\ m.content = c
      /\ m = [author |-> u, content |-> c, revision |-> 1, reply |-> r,
                       original |-> r, root |-> root, forward |-> "none", at |-> clock]
  BY Zenon DEF Row
<1>5. m \in Rows
  <2>1. root \in Nat BY <1>2, <1>3
  <2> QED BY SMTT(30), <1>2, <1>4, <2>1 DEF Rows
<1> HIDE DEF m
<1>6. NewRow(m) BY Zenon, <1>1, <1>3, <1>4, <1>5 DEF NewRow
<1> QED BY Zenon, <1>1, <1>4, <1>6 DEF m, root

LEMMA ForwardRow ==
    ASSUME TablesOK, NEW u \in Users, NEW k, NEW source \in Ids, Forward(u, k, source)
    PROVE  LET m == Row(u, forwardSnapshot(source), 0, 0, forwardSnapshot(source))
           IN  /\ NewRow(m) /\ m.root = 0 /\ Insert(u, k, <<"forward", source>>, m)
               /\ SendKeyFree(u, k)
<1> DEFINE c == messages[source].content
           m == Row(u, c, 0, 0, c)
<1>1. Insert(u, k, <<"forward", source>>, m) /\ SendKeyFree(u, k) BY Zenon DEF Forward, forwardSnapshot
<1>2. c \in Contents /\ clock \in Nat BY Zenon DEF TablesOK, Rows
<1> HIDE DEF c
<1>3. /\ m.revision = 1 /\ m.reply = 0 /\ m.root = 0
      /\ m = [author |-> u, content |-> c, revision |-> 1, reply |-> 0,
                       original |-> 0, root |-> 0, forward |-> c, at |-> clock]
  BY Zenon DEF Row
<1>4. m \in Rows BY <1>2, <1>3 DEF Rows
<1> HIDE DEF m
<1>5. NewRow(m) BY Zenon, <1>3, <1>4 DEF NewRow
<1> QED BY Zenon, <1>1, <1>3, <1>5 DEF m, c, forwardSnapshot

(* What the syncing client relies on, after a transaction that writes a    *)
(* journal row for all it touches.                                         *)
Synced == TablesOK /\ JournalOK /\ SyncComplete
LEMMA TouchesSync ==
    ASSUME Synced, TablesOK', NEW T, Touches(T), Journal(T), UNCHANGED <<floor, at, window, horizon>>
    PROVE  Synced' /\ Numbered
<1>1. lastID' \in Nat /\ T \in SUBSET (1..lastID') BY Zenon DEF TablesOK, Touches
<1> DEFINE n == lastID'
<1>2. n \in Nat /\ T \in SUBSET (1..n) BY Zenon, <1>1
<1> HIDE DEF n
<1> QED BY Zenon, <1>2, SyncStays, TouchesNumber DEF Synced

LEMMA InsertSyncs ==
    ASSUME Synced, NEW u, NEW k, NEW hash, NEW m, NewRow(m), Insert(u, k, hash, m)
    PROVE  Synced' /\ Numbered
<1>1. UNCHANGED <<floor, at, window, horizon>> BY Zenon DEF Insert, client
<1> QED BY Zenon, <1>1, InsertTouches, TouchesSync DEF Synced

(* Every transaction writes a row for all it changes, and every page and   *)
(* every pruning keep what the client is still to be told.                 *)
LEMMA SyncStep == ASSUME Synced, Next PROVE Synced' /\ Numbered
<1> USE DEF client
<1>0. ASSUME clock' \in Nat, UNCHANGED <<messages, lastID, reactions, changes, kept, floor, at, window, horizon>>
      PROVE  Synced' /\ Numbered
  BY Zenon, <1>0, SyncSame, SameNumbered DEF Synced
<1>1. ASSUME NEW u \in Users, NEW k, NEW c \in Contents, NEW r \in 0..lastID, NEW t \in 0..lastID,
             create(u, k, c, r, t)
      PROVE  Synced' /\ Numbered
  <2>1. CreateReferenced(u, k, c, r, t) BY Zenon, <1>1 DEF create, Create
  <2> DEFINE m == Row(u, c, r, IF t # 0 THEN t ELSE NewsThread(r), "none")
  <2>2. NewRow(m) /\ Insert(u, k, <<c, r, t>>, m) BY Zenon, <2>1, CreateRow DEF Synced
  <2> HIDE DEF m
  <2> QED BY Zenon, <2>2, InsertSyncs
<1>2. ASSUME NEW u \in Users, NEW k, NEW i \in Ids, forward(u, k, i) PROVE Synced' /\ Numbered
  <2> DEFINE m == Row(u, forwardSnapshot(i), 0, 0, forwardSnapshot(i))
  <2>1. NewRow(m) /\ Insert(u, k, <<"forward", i>>, m) BY Zenon, <1>2, ForwardRow DEF forward, Synced
  <2> HIDE DEF m
  <2> QED BY Zenon, <2>1, InsertSyncs
<1>3. ASSUME NEW u \in Users, NEW i \in Ids, NEW c \in Contents, update(u, i, c) PROVE Synced' /\ Numbered
  <2>1. UpdateMessage(u, i, c) BY Zenon, <1>3 DEF update, Update
  <2>2. UNCHANGED <<floor, at, window, horizon>> BY Zenon, <2>1 DEF UpdateMessage
  <2> DEFINE T == {i} \cup QuotesOf(i, c)
  <2>3. TablesOK' /\ Touches(T) /\ Journal(T) BY Zenon, <2>1, UpdateTouches DEF Synced
  <2> HIDE DEF T
  <2> QED BY Zenon, <2>2, <2>3, TouchesSync
<1>4. ASSUME NEW u \in Users, NEW i \in Ids, deleteMessage(u, i) PROVE Synced' /\ Numbered
  <2>1. DeleteMessage(u, i) BY Zenon, <1>4 DEF deleteMessage, Delete
  <2>2. UNCHANGED <<floor, at, window, horizon>> BY Zenon, <2>1 DEF DeleteMessage
  <2>3. PICK T \in SUBSET Ids : TablesOK' /\ Touches(T) /\ Journal(T) BY Zenon, <2>1, DeleteTouches DEF Synced
  <2> QED BY Zenon, <2>2, <2>3, TouchesSync
<1>5. ASSUME NEW u \in Users, NEW i \in Ids, pin(u, i) \/ unpin(u, i) PROVE Synced' /\ Numbered
  <2>1. clock' = clock /\ UNCHANGED <<messages, lastID, reactions, changes, kept, floor, at, window, horizon>>
    BY Zenon, <1>5 DEF pin, unpin, Pin, Unpin, PinMessage, UnpinMessage
  <2> QED BY Zenon, <1>0, <2>1 DEF Synced, TablesOK
<1>6. ASSUME NEW u \in Users, NEW i \in Ids, NEW e \in Emoji, NEW on \in BOOLEAN, setReaction(u, i, e, on)
      PROVE  Synced' /\ Numbered
  <2>1. ReactMessage(u, i, e, on) BY Zenon, <1>6 DEF setReaction, SetReaction
  <2>2. UNCHANGED <<floor, at, window, horizon>> BY Zenon, <2>1 DEF ReactMessage
  <2>3. TablesOK' /\ Touches({i}) /\ Journal({i}) BY Zenon, <2>1, ReactTouches DEF Synced
  <2> QED BY Zenon, <2>2, <2>3, TouchesSync
<1>7. ASSUME NEW u \in Users, Depart(u) PROVE Synced' /\ Numbered
  <2>2. UNCHANGED <<floor, at, window, horizon>> BY Zenon, <1>7 DEF Depart
  <2>3. PICK T \in SUBSET Ids : TablesOK' /\ Touches(T) /\ Journal(T) BY Zenon, <1>7, DepartTouches DEF Synced
  <2> QED BY Zenon, <2>2, <2>3, TouchesSync
<1>8. ASSUME NEW u \in Users, Limit(u) PROVE Synced' /\ Numbered
  <2>1. clock' = clock /\ UNCHANGED <<messages, lastID, reactions, changes, kept, floor, at, window, horizon>>
    BY Zenon, <1>8 DEF Limit
  <2> QED BY Zenon, <1>0, <2>1 DEF Synced, TablesOK
<1>9. CASE Tick
  <2>1. clock' = clock + 1 /\ UNCHANGED <<messages, lastID, reactions, changes, kept, floor, at, window, horizon>>
    BY Zenon, <1>9 DEF Tick
  <2>2. clock' \in Nat BY <2>1 DEF Synced, TablesOK
  <2> QED BY Zenon, <1>0, <2>1, <2>2
<1>10. CASE Sync \/ Reconnect
  <2>1. UNCHANGED <<messages, lastID, reactions, changes, kept, floor, clock>>
    BY Zenon, <1>10 DEF Sync, Reconnect, db
  <2>2. TablesOK' BY Zenon, <2>1 DEF Synced, TablesOK, Ids
  <2>3. ResetPage \/ (~Reset(at) /\ at < Len(changes) /\ ChangesPage(at))
    BY Zenon, <1>10 DEF Sync, Reconnect
  <2>4. JournalOK' /\ SyncComplete' BY Zenon, <2>1, <2>3, ResetSyncs, PageSyncs DEF Synced
  <2> QED BY Zenon, <2>1, <2>2, <2>4, SameNumbered DEF Synced
<1>11. ASSUME NEW s \in kept, Prune(s) PROVE Synced' /\ Numbered
  <2>1. UNCHANGED <<messages, lastID, reactions, clock>> BY Zenon, <1>11 DEF Prune
  <2>2. TablesOK' BY Zenon, <2>1 DEF Synced, TablesOK, Ids
  <2> QED BY Zenon, <1>11, <2>1, <2>2, PruneSyncs, SameNumbered DEF Synced
<1>12. ASSUME NEW e \in pending, PublishMessage(e) \/ GetPost(e) PROVE Synced' /\ Numbered
  <2>1. clock' = clock /\ UNCHANGED <<messages, lastID, reactions, changes, kept, floor, at, window, horizon>>
    BY Zenon, <1>12 DEF PublishMessage, GetPost, db
  <2> QED BY Zenon, <1>0, <2>1 DEF Synced, TablesOK
<1> QED BY ZenonT(40), <1>1, <1>2, <1>3, <1>4, <1>5, <1>6, <1>7, <1>8, <1>9, <1>10, <1>11, <1>12 DEF Next, Writes

-----------------------------------------------------------------------------
(* Send keys. *)

(* A key is looked up before the row is inserted, in the same transaction. *)
LEMMA InsertKeys ==
    ASSUME KeysOK, NEW u, NEW k, SendKeyFree(u, k), NEW hash, NEW m, Insert(u, k, hash, m)
    PROVE  KeysOK'
<1> DEFINE id == lastID + 1
<1>1. /\ keys' = [p \in DOMAIN keys \cup ({<<u, k>>} \ {<<u, NoKey>>}) |->
                       IF p = <<u, k>> THEN [hash |-> hash, id |-> id] ELSE keys[p]]
      /\ minted' = [p \in DOMAIN minted |-> IF p = <<u, k>> THEN minted[p] \cup {id} ELSE minted[p]]
      /\ load' = load
  BY Zenon DEF Insert
<1>2. DOMAIN minted' = DOMAIN minted BY Zenon, <1>1
<1>3. DOMAIN keys \subseteq DOMAIN keys' BY Zenon, <1>1
<1>4. ASSUME NEW p \in DOMAIN minted
      PROVE  minted'[p] = {} \/ (p \in DOMAIN keys' /\ \E i : minted'[p] = {i})
  <2>1. CASE p # <<u, k>> BY Zenon, <1>1, <1>3, <2>1 DEF KeysOK
  <2>2. CASE p = <<u, k>>
    <3>1. k # NoKey BY Zenon, <2>2, MessagesAssumption DEF KeysOK
    <3>2. p \notin DOMAIN keys BY Zenon, <2>2, <3>1 DEF SendKeyFree
    <3>3. minted[p] = {} BY Zenon, <3>2 DEF KeysOK
    <3>4. minted'[p] = {id} BY Zenon, <1>1, <2>2, <3>3
    <3>5. p \in DOMAIN keys' BY Zenon, <1>1, <2>2, <3>1
    <3> QED BY Zenon, <3>4, <3>5
  <2> QED BY Zenon, <2>1, <2>2
<1> QED BY Zenon, <1>1, <1>2, <1>4 DEF KeysOK

(* No other step creates a message under a key or forgets a key.           *)
LEMMA KeysStep == ASSUME TablesOK, KeysOK, Next PROVE KeysOK'
<1>0. ASSUME UNCHANGED <<load, minted>>, DOMAIN keys' = DOMAIN keys PROVE KeysOK'
  BY Zenon, <1>0 DEF KeysOK
<1>1. ASSUME NEW u \in Users, NEW k, NEW c \in Contents, NEW r \in 0..lastID, NEW t \in 0..lastID,
             create(u, k, c, r, t)
      PROVE  KeysOK'
  <2>1. CreateReferenced(u, k, c, r, t) BY Zenon, <1>1 DEF create, Create
  <2> DEFINE m == Row(u, c, r, IF t # 0 THEN t ELSE NewsThread(r), "none")
  <2>2. SendKeyFree(u, k) /\ Insert(u, k, <<c, r, t>>, m) BY Zenon, <2>1, CreateRow
  <2> HIDE DEF m
  <2> QED BY Zenon, <2>2, InsertKeys
<1>2. ASSUME NEW u \in Users, NEW k, NEW i \in Ids, forward(u, k, i) PROVE KeysOK'
  <2> DEFINE m == Row(u, forwardSnapshot(i), 0, 0, forwardSnapshot(i))
  <2>1. SendKeyFree(u, k) /\ Insert(u, k, <<"forward", i>>, m) BY Zenon, <1>2, ForwardRow DEF forward
  <2> HIDE DEF m
  <2> QED BY Zenon, <2>1, InsertKeys
<1>3. ASSUME NEW u \in Users, NEW i \in Ids, NEW c \in Contents, update(u, i, c) PROVE KeysOK'
  BY Zenon, <1>0, <1>3 DEF update, Update, UpdateMessage
<1>4. ASSUME NEW u \in Users, NEW i \in Ids, deleteMessage(u, i) PROVE KeysOK'
  BY Zenon, <1>0, <1>4 DEF deleteMessage, Delete, DeleteMessage
<1>5. ASSUME NEW u \in Users, NEW i \in Ids, pin(u, i) \/ unpin(u, i) PROVE KeysOK'
  BY Zenon, <1>0, <1>5 DEF pin, unpin, Pin, Unpin, PinMessage, UnpinMessage
<1>6. ASSUME NEW u \in Users, NEW i \in Ids, NEW e \in Emoji, NEW on \in BOOLEAN, setReaction(u, i, e, on)
      PROVE  KeysOK'
  BY Zenon, <1>0, <1>6 DEF setReaction, SetReaction, ReactMessage
<1>7. ASSUME NEW u \in Users, Depart(u) \/ Limit(u) PROVE KeysOK'
  BY Zenon, <1>0, <1>7 DEF Depart, Limit
<1>8. CASE Tick BY Zenon, <1>0, <1>8 DEF Tick
<1>9. CASE Sync \/ Reconnect BY Zenon, <1>0, <1>9 DEF Sync, Reconnect, db
<1>10. ASSUME NEW s \in kept, Prune(s) PROVE KeysOK' BY Zenon, <1>0, <1>10 DEF Prune
<1>11. ASSUME NEW e \in pending, PublishMessage(e) \/ GetPost(e) PROVE KeysOK'
  BY Zenon, <1>0, <1>11 DEF PublishMessage, GetPost, db
<1> QED BY ZenonT(40), <1>1, <1>2, <1>3, <1>4, <1>5, <1>6, <1>7, <1>8, <1>9, <1>10, <1>11 DEF Next, Writes

(* A key in the table has created one message, any other key none.         *)
LEMMA KeysOnce == KeysOK => SendOnce
<1> SUFFICES ASSUME KeysOK, NEW p \in DOMAIN minted PROVE Cardinality(minted[p]) <= 1 BY Zenon DEF SendOnce
<1>1. CASE minted[p] = {} BY SMTT(30), <1>1, FS_EmptySet
<1>2. CASE \E i : minted[p] = {i}
  <2>1. PICK i : minted[p] = {i} BY Zenon, <1>2
  <2>2. Cardinality({i}) = 1 BY Zenon, FS_Singleton
  <2> QED BY <2>1, <2>2
<1> QED BY ZenonT(40), <1>1, <1>2 DEF KeysOK
-----------------------------------------------------------------------------
(* The subscribed client. *)

(* What a handler publishes is added to what the client has been shown.    *)
LEMMA Publishes ==
    ASSUME NEW S, Send(S), live' = live
    PROVE  Snapshots' = IF load.live THEN Snapshots \cup {e \in S : e.to = "client"} ELSE Snapshots
BY Zenon DEF Send, Snapshots

(* After a transaction: what it announces is the rows as they are now, it  *)
(* announces what is new and every text it changed, with a new revision.   *)
LEMMA LivePublishes ==
    ASSUME TablesOK, TablesOK', LiveOK, UNCHANGED <<load, live>>, NEW C,
           \A e \in C : /\ e.id \in Ids' /\ e.content = messages'[e.id].content
                        /\ e.revision = messages'[e.id].revision,
           Snapshots \subseteq Snapshots', Snapshots' \subseteq Snapshots \cup C,
           load.live => C \subseteq Snapshots',
           lastID <= lastID', \A i \in Ids' \ Ids : i > lastID /\ \E e \in C : e.id = i,
           \A i \in Ids \cap Ids' :
              /\ messages'[i].revision >= messages[i].revision
              /\ \/ messages'[i].content = messages[i].content
                 \/ messages'[i].revision > messages[i].revision /\ \E e \in C : e.id = i
    PROVE  LiveOK'
<1>1. /\ lastID \in Nat /\ lastID' \in Nat /\ Ids \subseteq 1..lastID /\ Ids' \subseteq 1..lastID'
      /\ \A i \in Ids : messages[i].revision \in Nat
      /\ \A i \in Ids' : messages'[i].revision \in Nat
  BY Zenon DEF TablesOK, Rows
<1>2. /\ \A i \in DOMAIN live : live[i].id = i
      /\ \A e \in Snapshots : /\ e.id \in 1..lastID /\ e.revision \in Nat
                              /\ e.id \in Ids => e.revision <= messages[e.id].revision
  BY Zenon DEF LiveOK
<1>3. ASSUME NEW e \in Snapshots
      PROVE  /\ e.id \in 1..lastID' /\ e.revision \in Nat
             /\ e.id \in Ids' => e.id \in Ids /\ e.revision <= messages'[e.id].revision
  <2>1. e.id \in 1..lastID /\ e.revision \in Nat BY Zenon, <1>2
  <2>2. e.id \in Ids' => e.id \in Ids BY <1>1, <2>1
  <2>3. e.id \in Ids => e.revision <= messages[e.id].revision BY Zenon, <1>2
  <2>4. e.id \in Ids' => messages'[e.id].revision >= messages[e.id].revision BY Zenon, <2>2
  <2> QED BY SMTT(30), <1>1, <2>1, <2>2, <2>3, <2>4
<1>4. ASSUME NEW e \in C PROVE e.id \in 1..lastID' /\ e.revision \in Nat /\ e.revision <= messages'[e.id].revision
  <2>1. e.id \in Ids' /\ e.revision = messages'[e.id].revision OBVIOUS
  <2>2. e.id \in 1..lastID' BY Zenon, <1>1, <2>1
  <2>3. messages'[e.id].revision \in Nat BY Zenon, <1>1, <2>1
  <2> QED BY SMTT(30), <2>1, <2>2, <2>3
<1>5. \A e \in Snapshots' : /\ e.id \in 1..lastID' /\ e.revision \in Nat
                            /\ e.id \in Ids' => e.revision <= messages'[e.id].revision
  BY Zenon, <1>3, <1>4
<1>6. ASSUME load.live, NEW i \in Ids'
      PROVE  \E e \in Snapshots' :
               /\ e.id = i /\ e.content = messages'[i].content
               /\ \A f \in Snapshots' : f.id = i /\ f.content # e.content => f.revision < e.revision
  <2>1. \A f \in C : f.id = i => f.content = messages'[i].content OBVIOUS
  <2>2. CASE i \in Ids /\ messages'[i].content = messages[i].content
    <3>1. PICK e \in Snapshots : /\ e.id = i /\ e.content = messages[i].content
             /\ \A f \in Snapshots : f.id = i /\ f.content # e.content => f.revision < e.revision
      BY Zenon, <1>6, <2>2 DEF LiveOK
    <3>2. e \in Snapshots' OBVIOUS
    <3>3. ASSUME NEW f \in Snapshots', f.id = i, f.content # e.content PROVE f.revision < e.revision
      BY SMTT(30), <2>1, <2>2, <3>1, <3>3
    <3> QED BY SMTT(30), <2>2, <3>1, <3>2, <3>3
  <2>3. CASE ~(i \in Ids /\ messages'[i].content = messages[i].content)
    <3>1. PICK e \in C : e.id = i BY Zenon, <2>3
    <3>2. e \in Snapshots' /\ e.content = messages'[i].content /\ e.revision = messages'[i].revision
      BY Zenon, <1>6, <3>1
    <3>3. ASSUME NEW f \in Snapshots', f.id = i, f.content # e.content PROVE f.revision < e.revision
      <4>1. f \in Snapshots BY Zenon, <2>1, <3>2, <3>3
      <4>2. i \in Ids BY Zenon, <1>3, <3>3, <4>1
      <4>3. messages'[i].revision > messages[i].revision BY Zenon, <2>3, <4>2
      <4>4. f.revision \in Nat /\ f.revision <= messages[i].revision BY ZenonT(40), <1>2, <3>3, <4>1, <4>2
      <4>5. messages[i].revision \in Nat /\ messages'[i].revision \in Nat BY SMTT(30), <1>1, <4>2
      <4> QED BY SMTT(30), <3>2, <4>3, <4>4, <4>5
    <3> QED BY SMTT(30), <3>1, <3>2, <3>3
  <2> QED BY Zenon, <2>2, <2>3
<1> QED BY Zenon, <1>2, <1>5, <1>6 DEF LiveOK

(* A snapshot may go when one of the same message, as new or newer, stays. *)
LEMMA LiveShrinks ==
    ASSUME LiveOK, UNCHANGED <<load, messages, lastID>>, Snapshots' \subseteq Snapshots,
           \A i \in DOMAIN live' : live'[i].id = i,
           \A e \in Snapshots : \E g \in Snapshots' : g.id = e.id /\ g.revision >= e.revision
    PROVE  LiveOK'
<1>1. \A e \in Snapshots : e.revision \in Nat BY Zenon DEF LiveOK
<1>2. Ids' = Ids BY Zenon DEF Ids
<1>3. ASSUME load.live, NEW i \in Ids
      PROVE  \E e \in Snapshots' :
               /\ e.id = i /\ e.content = messages[i].content
               /\ \A f \in Snapshots' : f.id = i /\ f.content # e.content => f.revision < e.revision
  <2>1. PICK e \in Snapshots : /\ e.id = i /\ e.content = messages[i].content
           /\ \A f \in Snapshots : f.id = i /\ f.content # e.content => f.revision < e.revision
    BY Zenon, <1>3 DEF LiveOK
  <2>2. PICK g \in Snapshots' : g.id = e.id /\ g.revision >= e.revision OBVIOUS
  <2>3. g.content = e.content BY SMTT(30), <1>1, <2>1, <2>2
  <2>4. ASSUME NEW f \in Snapshots', f.id = i, f.content # g.content PROVE f.revision < g.revision
    <3>1. f.revision < e.revision BY SMTT(30), <2>1, <2>3, <2>4
    <3>2. f.revision \in Nat /\ e.revision \in Nat /\ g.revision \in Nat BY Zenon, <1>1
    <3> QED BY SMTT(30), <2>2, <3>1, <3>2
  <2> QED BY SMTT(30), <2>1, <2>2, <2>3, <2>4
<1>4. /\ \A e \in Snapshots' : /\ e.id \in 1..lastID' /\ e.revision \in Nat
                               /\ e.id \in Ids' => e.revision <= messages'[e.id].revision
  BY Zenon, <1>2 DEF LiveOK
<1> QED BY SMTT(30), <1>2, <1>3, <1>4 DEF LiveOK

(* The client keeps the newer of what it shows and what arrives.           *)
LEMMA PublishLive == ASSUME LiveOK, NEW e, PublishMessage(e) PROVE LiveOK'
<1> DEFINE newer == e.id \in DOMAIN live /\ live[e.id].revision >= e.revision
<1>1. /\ e \in pending /\ e.to = "client" /\ pending' = pending \ {e}
      /\ live' = IF newer THEN live
               ELSE [i \in DOMAIN live \cup {e.id} |-> IF i = e.id THEN e ELSE live[i]]
      /\ UNCHANGED <<load, messages, lastID>>
  BY Zenon DEF PublishMessage, db
<1>2. e \in Snapshots /\ \A i \in DOMAIN live : live[i] \in Snapshots /\ live[i].id = i
  BY Zenon, <1>1 DEF Snapshots, LiveOK
<1>3. \A f \in Snapshots : f.revision \in Nat BY Zenon DEF LiveOK
<1>4. CASE newer
  <2>1. live' = live BY Zenon, <1>1, <1>4
  <2>2. Snapshots' \subseteq Snapshots BY Zenon, <1>1, <2>1 DEF Snapshots
  <2>3. \A f \in Snapshots : f # e => f \in Snapshots' BY Zenon, <1>1, <2>1 DEF Snapshots
  <2>4. live[e.id] \in Snapshots' /\ live[e.id].id = e.id /\ live[e.id].revision >= e.revision
    BY SMTT(30), <1>2, <1>4, <2>1 DEF Snapshots
  <2>5. \A f \in Snapshots : f.revision >= f.revision BY <1>3
  <2>6. \A i \in DOMAIN live' : live'[i].id = i BY Zenon, <1>2, <2>1
  <2> QED BY SMTT(30), <1>1, <2>2, <2>3, <2>4, <2>5, <2>6, LiveShrinks
<1>5. CASE ~newer
  <2>1. live' = [i \in DOMAIN live \cup {e.id} |-> IF i = e.id THEN e ELSE live[i]] BY Zenon, <1>1, <1>5
  <2>2. /\ DOMAIN live' = DOMAIN live \cup {e.id} /\ live'[e.id] = e
        /\ \A i \in DOMAIN live : i # e.id => live'[i] = live[i]
    BY Zenon, <2>1
  <2>3. Snapshots' \subseteq Snapshots BY ZenonT(40), <1>1, <1>2, <2>2 DEF Snapshots
  <2>4. e \in Snapshots' BY Zenon, <2>2 DEF Snapshots
  <2>5. ASSUME NEW f \in Snapshots PROVE \E g \in Snapshots' : g.id = f.id /\ g.revision >= f.revision
    <3>1. CASE f \in Snapshots' BY SMTT(30), <1>3, <3>1
    <3>2. CASE f \notin Snapshots'
      <4>1. f \notin pending \/ f.to # "client" \/ f = e BY Zenon, <1>1, <3>2 DEF Snapshots
      <4>2. f # e BY Zenon, <2>4, <3>2
      <4>3. PICK i \in DOMAIN live : f = live[i] BY Zenon, <4>1, <4>2 DEF Snapshots
      <4>4. i = e.id BY Zenon, <2>2, <3>2, <4>3 DEF Snapshots
      <4>5. f.id = e.id /\ ~(f.revision >= e.revision) BY Zenon, <1>2, <1>5, <4>3, <4>4
      <4> QED BY SMTT(30), <1>2, <1>3, <2>4, <4>5
    <3> QED BY Zenon, <3>1, <3>2
  <2>6. \A i \in DOMAIN live' : live'[i].id = i BY Zenon, <1>2, <2>2
  <2> QED BY Zenon, <1>1, <2>3, <2>5, <2>6, LiveShrinks
<1> QED BY Zenon, <1>4, <1>5

(* A transaction never lowers a revision.                                  *)
LEMMA TouchesGrow ==
    ASSUME TablesOK, TablesOK', NEW T, Touches(T), NEW i \in Ids \cap Ids'
    PROVE  messages'[i].revision >= messages[i].revision
<1>1. messages[i].revision \in Nat /\ messages'[i].revision \in Nat BY Zenon DEF TablesOK, Rows
<1>2. CASE i \in T
  <2>1. messages'[i].revision > messages[i].revision
    <3>1. i \in Ids \cap Ids' \cap T BY Zenon, <1>2
    <3> QED BY Zenon, <3>1 DEF Touches
  <2> QED BY <1>1, <2>1
<1>3. CASE i \notin T
  <2>1. View(i)' = View(i) BY Zenon, <1>3 DEF Touches
  <2>2. View(i).revision = messages[i].revision BY Zenon DEF View
  <2>3. View(i)'.revision = messages'[i].revision BY Zenon DEF View
  <2> QED BY SMTT(30), <1>1, <2>1, <2>2, <2>3
<1> QED BY Zenon, <1>2, <1>3

(* A snapshot of a row that is there.                                      *)
LEMMA SnapshotIs ==
    ASSUME NEW m, NEW i
    PROVE  LET e == Snapshot(m, i)
           IN  /\ e.to = "client" /\ e.id = i /\ e.content = m[i].content /\ e.revision = m[i].revision
BY Zenon DEF Snapshot

(* The request to announce a post again is not itself sent to a client.    *)
LEMMA RootsUnseen == ASSUME NEW i PROVE \A e \in publishCommentRoot(i) : e.to # "client"
BY SMTT(30) DEF publishCommentRoot

(* Create and Forward announce the message they insert.                    *)
LEMMA InsertLive ==
    ASSUME TablesOK, LiveOK, NEW u, NEW k, NEW hash, NEW m, NewRow(m), Insert(u, k, hash, m), NEW R,
           \A e \in R : e.to # "client", Send({Snapshot(messages', lastID')} \cup R)
    PROVE  LiveOK'
<1> DEFINE id == lastID + 1
           T == {id} \cup ({m.root} \ {0})
           e == Snapshot(messages', lastID')
<1>1. /\ TablesOK' /\ Touches(T) /\ Ids' = Ids \cup {id} /\ lastID' = id
      /\ \A i \in Ids : messages'[i].content = messages[i].content
  BY Zenon, InsertTouches
<1>2. UNCHANGED <<load, live>> BY Zenon DEF Insert
<1>3. e.to = "client" /\ e.id = id /\ e.content = messages'[id].content /\ e.revision = messages'[id].revision
  <2>1. e.to = "client" /\ e.id = lastID' /\ e.content = messages'[lastID'].content
        /\ e.revision = messages'[lastID'].revision
    BY Zenon DEF Snapshot
  <2> HIDE DEF e
  <2> QED BY Zenon, <1>1, <2>1
<1>4. lastID \in Nat /\ id > lastID /\ lastID <= lastID' BY <1>1 DEF TablesOK
<1> HIDE DEF e, T, id
<1> DEFINE C == {e}
<1>5. Send({e} \cup R) BY Zenon DEF e
<1>6. Snapshots' = IF load.live THEN Snapshots \cup {e} ELSE Snapshots
  <2>1. {f \in {e} \cup R : f.to = "client"} = {e} BY Zenon, <1>3
  <2> QED BY Zenon, <1>2, <1>5, <2>1, Publishes
<1>7. \A i \in Ids \cap Ids' : messages'[i].revision >= messages[i].revision BY Zenon, <1>1, TouchesGrow
<1>8. \A f \in C : f.id \in Ids' /\ f.content = messages'[f.id].content /\ f.revision = messages'[f.id].revision
  BY Zenon, <1>1, <1>3
<1>9. \A i \in Ids' \ Ids : i > lastID /\ \E f \in C : f.id = i BY Zenon, <1>1, <1>3, <1>4
<1>10. /\ Snapshots \subseteq Snapshots' /\ Snapshots' \subseteq Snapshots \cup C
       /\ load.live => C \subseteq Snapshots'
  BY Zenon, <1>6
<1>11. \A i \in Ids \cap Ids' : messages'[i].revision >= messages[i].revision
                                /\ messages'[i].content = messages[i].content
  BY Zenon, <1>1, <1>7
<1> HIDE DEF C
<1> QED BY SMTT(30), <1>1, <1>2, <1>4, <1>8, <1>9, <1>10, <1>11, LivePublishes

(* Transactions that change no text need announce nothing.                 *)
LEMMA QuietLive ==
    ASSUME TablesOK, TablesOK', LiveOK, UNCHANGED <<load, live>>, Snapshots' = Snapshots,
           lastID' = lastID, Ids' \subseteq Ids, NEW T, Touches(T),
           \A i \in Ids' : messages'[i].content = messages[i].content
    PROVE  LiveOK'
<1>1. \A i \in Ids \cap Ids' : messages'[i].revision >= messages[i].revision BY Zenon, TouchesGrow
<1>2. lastID <= lastID' BY DEF TablesOK
<1>3. \A i \in Ids \cap Ids' : messages'[i].revision >= messages[i].revision
                                /\ messages'[i].content = messages[i].content
  BY Zenon, <1>1
<1> DEFINE C == {}
<1>4. /\ Snapshots \subseteq Snapshots' /\ Snapshots' \subseteq Snapshots \cup C
      /\ load.live => C \subseteq Snapshots'
      /\ \A i \in Ids' \ Ids : i > lastID /\ \E e \in C : e.id = i
      /\ \A e \in C : e.id \in Ids' /\ e.content = messages'[e.id].content /\ e.revision = messages'[e.id].revision
  OBVIOUS
<1> HIDE DEF C
<1> QED BY Zenon, <1>2, <1>3, <1>4, LivePublishes

(* Update announces the row as it has become, under a new revision.        *)
LEMMA UpdateLive ==
    ASSUME TablesOK, LiveOK, NEW u, NEW id \in Ids, NEW c \in Contents, Update(u, id, c)
    PROVE  LiveOK'
<1> DEFINE T == {id} \cup QuotesOf(id, c)
           e == Snapshot(messages', id)
<1>1. UpdateMessage(u, id, c) /\ Send({e}) BY Zenon DEF Update
<1>2. /\ TablesOK' /\ Ids' = Ids /\ Touches(T)
      /\ \A i \in Ids \ {id} : messages'[i].content = messages[i].content
  BY Zenon, <1>1, UpdateTouches
<1>3. UNCHANGED <<load, live, lastID>> BY Zenon, <1>1 DEF UpdateMessage
<1>4. e.to = "client" /\ e.id = id /\ e.content = messages'[id].content /\ e.revision = messages'[id].revision
  BY Zenon DEF Snapshot
<1>5. messages'[id].revision > messages[id].revision
  <2>1. id \in Ids \cap Ids' \cap T BY Zenon, <1>2
  <2> HIDE DEF T, e
  <2> QED BY Zenon, <1>2, <2>1 DEF Touches
<1> HIDE DEF e, T
<1> DEFINE C == {e}
<1>6. Snapshots' = IF load.live THEN Snapshots \cup {e} ELSE Snapshots
  <2>1. {f \in {e} : f.to = "client"} = {e} BY Zenon, <1>4
  <2> QED BY Zenon, <1>1, <1>3, <2>1, Publishes
<1>7. \A i \in Ids \cap Ids' : messages'[i].revision >= messages[i].revision BY Zenon, <1>2, TouchesGrow
<1>8. \A i \in Ids \cap Ids' :
              /\ messages'[i].revision >= messages[i].revision
              /\ \/ messages'[i].content = messages[i].content
                 \/ messages'[i].revision > messages[i].revision /\ \E f \in C : f.id = i
  BY Zenon, <1>2, <1>4, <1>5, <1>7
<1>9. \A f \in C : f.id \in Ids' /\ f.content = messages'[f.id].content /\ f.revision = messages'[f.id].revision
  BY Zenon, <1>2, <1>4
<1>10. /\ Snapshots \subseteq Snapshots' /\ Snapshots' \subseteq Snapshots \cup C
       /\ load.live => C \subseteq Snapshots'
  BY Zenon, <1>6
<1>11. lastID <= lastID' /\ \A i \in Ids' \ Ids : i > lastID /\ \E f \in C : f.id = i
  BY <1>2, <1>3 DEF TablesOK
<1> HIDE DEF C
<1> QED BY ZenonT(40), <1>2, <1>3, <1>8, <1>9, <1>10, <1>11, LivePublishes

(* A snapshot of a row as it is, published without a transaction.          *)
LEMMA SameLive ==
    ASSUME TablesOK, LiveOK, UNCHANGED <<load, live, messages, lastID, reactions, clock>>,
           NEW C, \A e \in C : \E i \in Ids : e = Snapshot(messages, i),
           Snapshots \subseteq Snapshots', Snapshots' \subseteq Snapshots \cup C,
           load.live => C \subseteq Snapshots'
    PROVE  LiveOK'
<1>1. TablesOK' /\ Ids' = Ids BY Zenon DEF TablesOK, Ids
<1>2. \A e \in C : e.id \in Ids' /\ e.content = messages'[e.id].content /\ e.revision = messages'[e.id].revision
  <2> SUFFICES ASSUME NEW e \in C
               PROVE  e.id \in Ids' /\ e.content = messages'[e.id].content /\ e.revision = messages'[e.id].revision
    OBVIOUS
  <2>1. PICK i \in Ids : e = Snapshot(messages, i) OBVIOUS
  <2>2. e.id = i /\ e.content = messages[i].content /\ e.revision = messages[i].revision BY Zenon, <2>1 DEF Snapshot
  <2> QED BY Zenon, <1>1, <2>2
<1>3. lastID <= lastID' /\ \A i \in Ids : messages[i].revision \in Nat BY DEF TablesOK, Rows
<1>4. \A i \in Ids \cap Ids' : messages'[i].revision >= messages[i].revision
                               /\ messages'[i].content = messages[i].content
  BY <1>3
<1>5. \A i \in Ids' \ Ids : i > lastID /\ \E e \in C : e.id = i BY Zenon, <1>1
<1> QED BY ZenonT(40), <1>1, <1>2, <1>3, <1>4, <1>5, LivePublishes

(* publishCommentRoot reads the post again before it announces it.         *)
LEMMA GetPostLive == ASSUME TablesOK, LiveOK, NEW e, GetPost(e) PROVE LiveOK'
<1> DEFINE C == IF e.id \in Ids THEN {Snapshot(messages, e.id)} ELSE {}
<1>1. /\ e.to = "root" /\ pending' = (pending \ {e}) \cup C
      /\ UNCHANGED <<load, live, messages, lastID, reactions, clock>>
  BY Zenon DEF GetPost, db
<1>2. \A f \in C : f.to = "client" BY DEF Snapshot
<1>3. \A f \in C : \E i \in Ids : f = Snapshot(messages, i) OBVIOUS
<1> HIDE DEF C
<1>4. Snapshots' = Snapshots \cup C BY Zenon, <1>1, <1>2 DEF Snapshots
<1> QED BY Zenon, <1>1, <1>3, <1>4, SameLive

-----------------------------------------------------------------------------
(* The theorems. *)

(* Every step keeps a newest snapshot with the current text of each message. *)
LEMMA LiveStep == ASSUME Synced, LiveOK, Next PROVE LiveOK'
<1> USE DEF client
<1>0. TablesOK BY Zenon DEF Synced
<1>1. ASSUME NEW u \in Users, NEW k, NEW c \in Contents, NEW r \in 0..lastID, NEW t \in 0..lastID,
             create(u, k, c, r, t)
      PROVE  LiveOK'
  <2> DEFINE m == Row(u, c, r, IF t # 0 THEN t ELSE NewsThread(r), "none")
             R == publishCommentRoot(messages'[lastID'].root)
  <2>1. CreateReferenced(u, k, c, r, t) /\ Send({Snapshot(messages', lastID')} \cup R)
    BY Zenon, <1>1 DEF create, Create
  <2>2. NewRow(m) /\ Insert(u, k, <<c, r, t>>, m) BY Zenon, <1>0, <2>1, CreateRow
  <2>3. \A e \in R : e.to # "client" BY Zenon, RootsUnseen
  <2> HIDE DEF m, R
  <2> QED BY Zenon, <1>0, <2>1, <2>2, <2>3, InsertLive
<1>2. ASSUME NEW u \in Users, NEW k, NEW i \in Ids, forward(u, k, i) PROVE LiveOK'
  <2> DEFINE m == Row(u, forwardSnapshot(i), 0, 0, forwardSnapshot(i))
             R == {}
  <2>1. Forward(u, k, i) BY Zenon, <1>2 DEF forward
  <2>2. NewRow(m) /\ Insert(u, k, <<"forward", i>>, m) BY Zenon, <1>0, <2>1, ForwardRow
  <2>3. Send({Snapshot(messages', lastID')}) BY Zenon, <2>1 DEF Forward
  <2>4. {Snapshot(messages', lastID')} = {Snapshot(messages', lastID')} \cup R OBVIOUS
  <2>5. \A e \in R : e.to # "client" OBVIOUS
  <2>6. Send({Snapshot(messages', lastID')} \cup R) BY Zenon, <2>3, <2>4
  <2> HIDE DEF m, R
  <2> QED BY SMTT(30), <1>0, <2>2, <2>5, <2>6, InsertLive
<1>3. ASSUME NEW u \in Users, NEW i \in Ids, NEW c \in Contents, update(u, i, c) PROVE LiveOK'
  BY ZenonT(40), <1>0, <1>3, UpdateLive DEF update
<1>4. ASSUME NEW u \in Users, NEW i \in Ids, deleteMessage(u, i) PROVE LiveOK'
  <2> DEFINE R == publishCommentRoot(messages[i].root)
  <2>1. DeleteMessage(u, i) /\ Send(R) BY Zenon, <1>4 DEF deleteMessage, Delete
  <2>2. UNCHANGED <<load, live, lastID>> BY Zenon, <2>1 DEF DeleteMessage
  <2>3. PICK T \in SUBSET Ids : /\ TablesOK' /\ Touches(T) /\ Ids' \subseteq Ids
                               /\ \A j \in Ids' : messages'[j].content = messages[j].content
    BY Zenon, <1>0, <2>1, DeleteTouches
  <2>4. {e \in R : e.to = "client"} = {} BY Zenon, RootsUnseen
  <2> HIDE DEF R
  <2>5. Snapshots' = Snapshots BY SMTT(30), <2>1, <2>2, <2>4, Publishes
  <2> QED BY SMTT(30), <1>0, <2>2, <2>3, <2>5, QuietLive
<1>5. ASSUME NEW u \in Users, NEW i \in Ids, pin(u, i) PROVE LiveOK'
  <2> DEFINE C == {Snapshot(messages, i)}
  <2>1. Send(C) /\ UNCHANGED <<load, live, messages, lastID, reactions, clock>>
    BY Zenon, <1>5 DEF pin, Pin, PinMessage
  <2>2. {e \in C : e.to = "client"} = C BY SnapshotIs
  <2>3. \A e \in C : \E j \in Ids : e = Snapshot(messages, j) OBVIOUS
  <2> HIDE DEF C
  <2>4. Snapshots' = IF load.live THEN Snapshots \cup C ELSE Snapshots BY Zenon, <2>1, <2>2, Publishes
  <2> QED BY SMTT(30), <1>0, <2>1, <2>3, <2>4, SameLive
<1>7. ASSUME Snapshots' = Snapshots, UNCHANGED <<load, live, messages, lastID>> PROVE LiveOK'
  BY Zenon, <1>7 DEF LiveOK, Ids
<1>8. ASSUME NEW u \in Users, NEW i \in Ids, unpin(u, i) PROVE LiveOK'
  <2>1. Send({}) /\ UNCHANGED <<load, live, messages, lastID>> BY Zenon, <1>8 DEF unpin, Unpin, UnpinMessage
  <2>2. Snapshots' = Snapshots BY <2>1, Publishes
  <2> QED BY Zenon, <1>7, <2>1, <2>2
<1>9. ASSUME NEW u \in Users, NEW i \in Ids, NEW e \in Emoji, NEW on \in BOOLEAN, setReaction(u, i, e, on)
      PROVE  LiveOK'
  <2>1. ReactMessage(u, i, e, on) /\ Send({}) BY Zenon, <1>9 DEF setReaction, SetReaction
  <2>2. UNCHANGED <<load, live, lastID>> BY Zenon, <2>1 DEF ReactMessage
  <2>3. TablesOK' /\ Touches({i}) /\ Ids' = Ids /\ \A j \in Ids : messages'[j].content = messages[j].content
    BY Zenon, <1>0, <2>1, ReactTouches
  <2>4. Snapshots' = Snapshots BY <2>1, <2>2, Publishes
  <2> DEFINE T == {i}
  <2>5. Touches(T) BY Zenon, <2>3
  <2> HIDE DEF T
  <2> QED BY ZenonT(40), <1>0, <2>2, <2>3, <2>4, <2>5, QuietLive
<1>10. ASSUME NEW u \in Users, Depart(u) PROVE LiveOK'
  <2>1. UNCHANGED <<load, live, lastID, pending>> BY Zenon, <1>10 DEF Depart
  <2>2. PICK T \in SUBSET Ids : /\ TablesOK' /\ Touches(T) /\ Ids' = Ids
                               /\ \A j \in Ids : messages'[j].content = messages[j].content
    BY ZenonT(40), <1>0, <1>10, DepartTouches
  <2>3. Snapshots' = Snapshots BY Zenon, <2>1 DEF Snapshots
  <2> QED BY SMTT(30), <1>0, <2>1, <2>2, <2>3, QuietLive
<1>11. ASSUME UNCHANGED <<load, live, messages, lastID, pending>> PROVE LiveOK'
  <2>1. Snapshots' = Snapshots BY Zenon, <1>11 DEF Snapshots
  <2> QED BY Zenon, <1>7, <1>11, <2>1
<1>12. ASSUME NEW u \in Users, Limit(u) PROVE LiveOK' BY Zenon, <1>11, <1>12 DEF Limit
<1>13. CASE Tick BY Zenon, <1>11, <1>13 DEF Tick
<1>14. CASE Sync \/ Reconnect BY Zenon, <1>11, <1>14 DEF Sync, Reconnect, db
<1>15. ASSUME NEW s \in kept, Prune(s) PROVE LiveOK' BY Zenon, <1>11, <1>15 DEF Prune
<1>16. ASSUME NEW e \in pending, PublishMessage(e) PROVE LiveOK' BY Zenon, <1>16, PublishLive
<1>17. ASSUME NEW e \in pending, GetPost(e) PROVE LiveOK' BY Zenon, <1>0, <1>17, GetPostLive
<1> QED BY ZenonT(40), <1>1, <1>2, <1>3, <1>4, <1>5, <1>8, <1>9, <1>10, <1>12, <1>13, <1>14, <1>15, <1>16, <1>17
        DEF Next, Writes

(* With nothing left to publish the client shows the newest snapshots.     *)
LEMMA LiveRests == LiveOK => LiveCurrent
<1> SUFFICES ASSUME LiveOK, load.live, pending = {}, NEW i \in Ids
             PROVE  i \in DOMAIN live /\ live[i].content = messages[i].content
  BY Zenon DEF LiveCurrent
<1>1. PICK e \in Snapshots : e.id = i /\ e.content = messages[i].content BY Zenon DEF LiveOK
<1>2. PICK j \in DOMAIN live : e = live[j] BY Zenon DEF Snapshots
<1>3. j = i BY Zenon, <1>1, <1>2 DEF LiveOK
<1> QED BY Zenon, <1>1, <1>2, <1>3

(* The inductive invariant holds of an empty channel and is kept.          *)
LEMMA MessagesInit == Init => MessagesInv
<1> SUFFICES ASSUME Init PROVE MessagesInv OBVIOUS
<1>1. DOMAIN messages = {} /\ DOMAIN live = {} /\ DOMAIN window = {} /\ Len(changes) = 0 BY DEF Init
<1>2. TablesOK
  <2>1. messages \in [Ids -> Rows] BY SMTT(30), <1>1 DEF Init, Ids
  <2> QED BY Zenon, <1>1, <2>1 DEF Init, TablesOK, Ids
<1>3. JournalOK BY <1>1 DEF Init, JournalOK
<1>4. KeysOK BY Zenon DEF Init, KeysOK
<1>5. SyncComplete BY Zenon, <1>1 DEF SyncComplete, Ids
<1>6. Snapshots = {} BY Zenon, <1>1 DEF Init, Snapshots
<1>7. LiveOK BY Zenon, <1>1, <1>6 DEF LiveOK, Ids
<1> QED BY SMTT(30), <1>2, <1>3, <1>4, <1>5, <1>7 DEF MessagesInv

LEMMA MessagesStutter == ASSUME MessagesInv, UNCHANGED vars PROVE MessagesInv'
<1> USE DEF vars, db, client
<1>1. TablesOK' /\ JournalOK' /\ SyncComplete'
  <2>1. clock' \in Nat /\ TablesOK /\ JournalOK /\ SyncComplete BY Zenon DEF MessagesInv, TablesOK
  <2> QED BY Zenon, <2>1, SyncSame
<1>2. KeysOK' BY Zenon DEF MessagesInv, KeysOK
<1>3. LiveOK' BY DEF MessagesInv, LiveOK, Snapshots, Ids
<1> QED BY Zenon, <1>1, <1>2, <1>3 DEF MessagesInv

LEMMA MessagesStep == ASSUME MessagesInv, Next PROVE MessagesInv' /\ Numbered
<1>1. Synced BY Zenon DEF MessagesInv, Synced
<1>2. Synced' /\ Numbered BY Zenon, <1>1, SyncStep
<1>3. KeysOK' BY Zenon, KeysStep DEF MessagesInv
<1>4. LiveOK' BY Zenon, <1>1, LiveStep DEF MessagesInv
<1> QED BY Zenon, <1>2, <1>3, <1>4 DEF MessagesInv, Synced

(* For any users, texts and page sizes and any order of requests: a client *)
(* that follows its sync cursor misses nothing, one that keeps the newest  *)
(* revision of what it is sent shows the current texts, and nothing that   *)
(* is shown changes without a new revision (the triggers of migrations 20, *)
(* 24 and 25, GetSync, pruneChangeBatch and the handlers' publishing).     *)
THEOREM ClientStaysCurrent == Spec => ClientCurrent
<1>1. Init => MessagesInv BY Zenon, MessagesInit
<1>2. MessagesInv /\ [Next]_vars => MessagesInv' BY Zenon, MessagesStep, MessagesStutter
<1>3. MessagesInv => SyncComplete /\ LiveCurrent BY Zenon, LiveRests DEF MessagesInv
<1>4. MessagesInv /\ [Next]_vars => [Numbered]_vars BY Zenon, MessagesStep
<1>5. Numbered <=> \A i \in Ids \cap DOMAIN messages' :
         \/ View(i)' = View(i)
         \/ messages'[i].revision > messages[i].revision
  BY Zenon DEF Numbered
<1> QED BY <1>1, <1>2, <1>3, <1>4, <1>5, PTL DEF Spec, ClientCurrent, RevisionAdvances

(* For any keys and retries in any order: a send key creates at most one   *)
(* message, also after that message was deleted (message_send_keys).       *)
THEOREM SentOnce == Spec => []SendOnce
<1>1. Init => MessagesInv BY Zenon, MessagesInit
<1>2. MessagesInv /\ [Next]_vars => MessagesInv' BY Zenon, MessagesStep, MessagesStutter
<1>3. MessagesInv => SendOnce BY Zenon, KeysOnce DEF MessagesInv
<1> QED BY <1>1, <1>2, <1>3, PTL DEF Spec
=============================================================================
