---------------------------- MODULE Attachments ----------------------------
(***************************************************************************)
(* Uploaded files (internal/attachments): a row of the table attachments   *)
(* and a file named after its id, kept together by two mutexes (s.mu and   *)
(* storagebudget.Mu), the order of the steps inside them and a maintenance *)
(* job that reclaims what a crash or a change of mind left behind.         *)
(*                                                                         *)
(* A handler is a process with a program counter.  A mutex is held exactly *)
(* while the counter is at one of the steps inside it, so no variable      *)
(* stands for it.  Database transactions that take no mutex (sending,      *)
(* scheduling, deleting a message or a channel, the tombstone the owner's  *)
(* clean-up writes) come between any two steps, and so does a crash.       *)
(***************************************************************************)
EXTENDS Naturals, FiniteSets, FiniteSetsExt

CONSTANTS
  Ids,              \* attachment ids, in the order of their file names
  Handlers,         \* HTTP requests that can be running at once
  Temps,            \* names of temporary files; they sort after the ids
  Size, Category,   \* [Ids -> ...]: bytes and category of the content
  Source,           \* [Ids -> Ids]: what an id is a forwarded copy of, or itself
  Quotas,           \* allocations an owner may choose for a category
  Disk,             \* bytes the file system has when nothing is stored
  MaxUserUploads, MaxUploads,
  Loads             \* workloads: [ops, ids, requests, crashes, interrupts, rows]

\* Ids and names are numbers, every file has some content, and what is there
\* at the start is within the largest allocation.
ASSUME AttachmentsAssumption ==
  /\ IsFiniteSet(Ids \cup Temps) /\ Ids \cup Temps \subseteq Nat
  /\ Size \in [Ids -> Nat \ {0}] /\ IsFiniteSet(Quotas) /\ Quotas \subseteq Nat /\ Quotas # {}
  /\ \A l \in Loads :
       /\ l.ids \subseteq Ids /\ l.rows \subseteq Ids
       /\ \A c \in {Category[i] : i \in Ids} :
            MapThenSumSet(LAMBDA i : Size[i], {i \in l.rows : Category[i] = c}) <= Max(Quotas)

VARIABLES
  rows,       \* [Ids -> [is, linked]]: the table attachments
  files,      \* [Ids -> Nat]: bytes stored under the id, 0 when there is none
  temps,      \* [Temps -> Nat]: temporary files, 0 when there is none
  thumbs,     \* ids with a cached thumbnail
  jobs,       \* ids a pending scheduled message carries
  open,       \* ids whose uploader may send to the destination
  gone,       \* ids whose destination is deleted
  old,        \* file names last written more than 24 hours ago
  quota,      \* [category -> bytes]: the table storage_budgets
  plan,       \* ids of the owner's confirmed-to-be clean-up preview
  proc,       \* [Handlers -> [pc, id, temp, rest]]
  job,        \* the maintenance run: [pc, rest, candidates]
  cursor,     \* cleanupCursor
  load, requests, crashes, interrupts,
  ceiling,    \* history: the largest allocation each category has had
  orphaned,   \* history: thumbnails whose removal a crash prevented
  purged      \* history: ids the owner's clean-up has tombstoned

store == <<rows, files, temps, thumbs, old>>
wishes == <<jobs, open, gone, quota, plan, ceiling, purged>>
bounds == <<load, requests, crashes, interrupts, orphaned>>
vars == <<store, wishes, proc, job, cursor, bounds>>

Categories == {Category[i] : i \in Ids}
NoRow == [is |-> "none", linked |-> FALSE]
At(pc, i, t, rest) == [pc |-> pc, id |-> i, temp |-> t, rest |-> rest]
Idle == At("idle", 0, 0, {})
Resting == [pc |-> "idle", rest |-> {}, candidates |-> {}]

(***************************************************************************)
(* A copy is written to a temporary file named after its id, an upload to  *)
(* one with a random name.                                                 *)
(***************************************************************************)
CopyTemp(i) == Max(Ids) + i
IsCopy(i) == Source[i] # i

Init ==
  /\ load \in Loads
  /\ rows = [i \in Ids |-> IF i \in load.rows THEN [is |-> "live", linked |-> TRUE] ELSE NoRow]
  /\ files = [i \in Ids |-> IF i \in load.rows THEN Size[i] ELSE 0]
  /\ temps = [t \in Temps |-> 0]
  /\ thumbs = {} /\ jobs = {} /\ old = {} /\ plan = {}
  /\ open = Ids /\ gone = {}
  /\ quota = [c \in Categories |-> Max(Quotas)]
  /\ proc = [h \in Handlers |-> Idle]
  /\ job = Resting
  /\ cursor = 0
  /\ requests = 0 /\ crashes = 0 /\ interrupts = 0
  /\ ceiling = quota
  /\ orphaned = {} /\ purged = {}

-----------------------------------------------------------------------------
(* The two mutexes and what is read under them. *)

Live(i) == rows[i].is = "live"

\* s.mu is held by an upload that has renamed its file, by a thumbnail about
\* to be published and by either clean-up while it removes files;
\* storagebudget.Mu by uploads, copies and maintenance.
MuFree == /\ \A h \in Handlers : proc[h].pc \notin {"insert", "publish", "removeThumb"}
          /\ job.pc \notin {"remove", "removeThumb"}
BudgetIgnored == MuFree
BudgetFree == /\ \A h \in Handlers : proc[h].pc \notin {"insert", "copying", "insertCopy"}
              /\ job.pc \notin {"remove", "removeThumb"}

Used(c) == MapThenSumSet(LAMBDA i : Size[i], {i \in Ids : Live(i) /\ Category[i] = c})
Managed == MapThenSumSet(Used, Categories)
Free == LET taken == MapThenSumSet(LAMBDA i : files[i], Ids)
                       + MapThenSumSet(LAMBDA t : temps[t], Temps)
        IN  IF taken < Disk THEN Disk - taken ELSE 0
Capacity == ((Free + Managed) \div 100) * 85

\* storagebudget.Get and the comparison every admission makes with it.
WithinBudget(i) == /\ Used(Category[i]) + Size[i] <= quota[Category[i]]
                   /\ Managed + Size[i] <= Capacity

Goto(h, pc) == proc' = [proc EXCEPT ![h].pc = pc]
Finish(h) == proc' = [proc EXCEPT ![h] = Idle]
Ask(op) == /\ op \in load.ops
           /\ requests < load.requests
           /\ requests' = requests + 1
           /\ UNCHANGED <<load, crashes, interrupts, orphaned>>
-----------------------------------------------------------------------------
(* Uploading. *)

Uploading == {h \in Handlers : proc[h].pc \in {"body", "received", "insert"}}

\* acquireUserUpload and the channel s.uploads.  All ids have one uploader.
SlotFree == Cardinality(Uploading) < MaxUserUploads /\ Cardinality(Uploading) < MaxUploads

\* upload() up to the temporary file.  A row that exists answers the retry, a
\* tombstone or a missing permission refuses it.
upload(h, i) ==
  /\ proc[h] = Idle /\ ~ IsCopy(i)
  /\ Ask("upload")
  /\ IF i \in open /\ SlotFree /\ rows[i] = NoRow
       THEN \E t \in Temps : /\ temps[t] = 0 /\ \A k \in Ids : t # CopyTemp(k)
                             /\ temps' = [temps EXCEPT ![t] = 1]
                             /\ old' = old \ {t}
                             /\ proc' = [proc EXCEPT ![h] = At("body", i, t, {})]
       ELSE UNCHANGED <<temps, old, proc>>
  /\ UNCHANGED <<rows, files, thumbs, wishes, job, cursor>>

\* The body arrives, and an image is compressed; or either fails.
Receive(h) ==
  /\ proc[h].pc = "body"
  /\ \/ /\ temps' = [temps EXCEPT ![proc[h].temp] = Size[proc[h].id]]
        /\ Goto(h, "received")
     \/ /\ temps' = [temps EXCEPT ![proc[h].temp] = 0]
        /\ Finish(h)
  /\ UNCHANGED <<rows, files, thumbs, old, wishes, job, cursor, bounds>>

\* Under both mutexes: the budget, the permission again, the id again, and
\* the file takes its name.
Publish(h) ==
  LET i == proc[h].id IN
  /\ proc[h].pc = "received" /\ MuFree /\ BudgetFree
  /\ IF WithinBudget(i) /\ i \in open /\ rows[i] = NoRow
       THEN /\ files' = [files EXCEPT ![i] = Size[i]]
            /\ old' = old \ {i}
            /\ Goto(h, "insert")
       ELSE Finish(h) /\ UNCHANGED <<files, old>>
  /\ temps' = [temps EXCEPT ![proc[h].temp] = 0]
  /\ UNCHANGED <<rows, thumbs, wishes, job, cursor, bounds>>

\* The INSERT, or its failure (a conflict with a tombstone, a cancelled
\* request, a destination deleted meanwhile): then the file goes again.
Inserted(i) == /\ rows' = [rows EXCEPT ![i] = [is |-> "live", linked |-> FALSE]]
               /\ UNCHANGED <<files, thumbs>>
NotInserted(i) == /\ files' = [files EXCEPT ![i] = 0]
                  /\ thumbs' = thumbs \ {i}
                  /\ UNCHANGED rows
Insert(h) ==
  LET i == proc[h].id IN
  /\ proc[h].pc \in {"insert", "insertCopy"}
  /\ \/ rows[i] = NoRow /\ i \notin gone /\ Inserted(i)
     \/ NotInserted(i)
  /\ Finish(h)
  /\ UNCHANGED <<temps, old, wishes, job, cursor, bounds>>

-----------------------------------------------------------------------------
(* Copy: forwarding an attachment, under storagebudget.Mu alone. *)

Copy(h, i) ==
  LET t == CopyTemp(i) IN
  /\ proc[h] = Idle /\ IsCopy(i) /\ BudgetFree
  /\ Ask("copy")
  /\ IF /\ i \in open /\ ~ Live(i)
        /\ Live(Source[i]) /\ rows[Source[i]].linked
        /\ WithinBudget(i) /\ files[Source[i]] > 0
       THEN /\ temps' = [temps EXCEPT ![t] = 1]
            /\ old' = old \ {t}
            /\ proc' = [proc EXCEPT ![h] = At("copying", i, t, {})]
       ELSE UNCHANGED <<temps, old, proc>>
  /\ UNCHANGED <<rows, files, thumbs, wishes, job, cursor>>

Copied(h) ==
  LET i == proc[h].id IN
  /\ proc[h].pc = "copying"
  /\ temps' = [temps EXCEPT ![proc[h].temp] = 0]
  /\ \/ /\ files' = [files EXCEPT ![i] = Size[i]]
        /\ old' = old \ {i}
        /\ Goto(h, "insertCopy")
     \/ Finish(h) /\ UNCHANGED <<files, old>>
  /\ UNCHANGED <<rows, thumbs, wishes, job, cursor, bounds>>

-----------------------------------------------------------------------------
(* Thumbnails: decoded without a mutex, published under s.mu. *)

thumbnail(h, i) ==
  /\ proc[h] = Idle
  /\ Ask("thumbnail")
  /\ IF Live(i) /\ i \notin thumbs /\ files[i] > 0
       THEN proc' = [proc EXCEPT ![h] = At("decode", i, 0, {})]
       ELSE UNCHANGED proc
  /\ UNCHANGED <<store, wishes, job, cursor>>

NotRechecked(i) == TRUE
StillThere(i) == Live(i)

Recheck(h) ==
  /\ proc[h].pc = "decode" /\ MuFree
  /\ IF StillThere(proc[h].id) THEN Goto(h, "publish") ELSE Finish(h)
  /\ UNCHANGED <<store, wishes, job, cursor, bounds>>

PublishThumbnail(h) ==
  /\ proc[h].pc = "publish"
  /\ \/ thumbs' = thumbs \cup {proc[h].id}
     \/ UNCHANGED thumbs
  /\ Finish(h)
  /\ UNCHANGED <<rows, files, temps, old, wishes, job, cursor, bounds>>
-----------------------------------------------------------------------------
(* Transactions that take neither mutex. *)

SetRow(i, r) == /\ rows' = [rows EXCEPT ![i] = r]
                /\ UNCHANGED <<files, temps, thumbs, old>>

\* A message is sent with the attachment, or a scheduled one is dispatched.
Send(i) ==
  /\ Ask("send")
  /\ i \in open /\ Live(i) /\ ~ rows[i].linked
  /\ SetRow(i, [rows[i] EXCEPT !.linked = TRUE])
  /\ jobs' = jobs \ {i}
  /\ UNCHANGED <<open, gone, quota, plan, ceiling, purged, proc, job, cursor>>

\* The message goes: message_id ... ON DELETE SET NULL.
DeleteMessage(i) ==
  /\ Ask("unsend")
  /\ rows[i].linked
  /\ SetRow(i, [rows[i] EXCEPT !.linked = FALSE])
  /\ UNCHANGED <<wishes, proc, job, cursor>>

\* validateScheduleAttachments inside the transaction that inserts the job.
Schedule(i) ==
  /\ Ask("schedule")
  /\ i \in open /\ Live(i) /\ ~ rows[i].linked
  /\ jobs' = jobs \cup {i}
  /\ UNCHANGED <<store, open, gone, quota, plan, ceiling, purged, proc, job, cursor>>

CancelSchedule(i) ==
  /\ Ask("schedule")
  /\ jobs' = jobs \ {i} /\ i \in jobs
  /\ UNCHANGED <<store, open, gone, quota, plan, ceiling, purged, proc, job, cursor>>

Revoke(i) ==
  /\ Ask("revoke")
  /\ open' = open \ {i} /\ i \in open
  /\ UNCHANGED <<store, jobs, gone, quota, plan, ceiling, purged, proc, job, cursor>>

\* The channel or conversation goes, and its rows with it: ON DELETE CASCADE.
DeleteDestination(i) ==
  /\ Ask("revoke")
  /\ i \notin gone
  /\ gone' = gone \cup {i} /\ open' = open \ {i} /\ jobs' = jobs \ {i}
  /\ SetRow(i, NoRow)
  /\ UNCHANGED <<quota, plan, ceiling, purged, proc, job, cursor>>

-----------------------------------------------------------------------------
(* The owner's storage page. *)

\* storage(): a new allocation, refused above the capacity.
storage(c, q) ==
  /\ Ask("quota") /\ MuFree /\ BudgetFree
  /\ LET wanted == [quota EXCEPT ![c] = q]
     IN  IF MapThenSumSet(LAMBDA k : wanted[k], Categories) <= Capacity
           THEN /\ quota' = wanted
                /\ ceiling' = [ceiling EXCEPT ![c] = Max({@, q})]
           ELSE UNCHANGED <<quota, ceiling>>
  /\ UNCHANGED <<store, jobs, open, gone, plan, purged, proc, job, cursor>>

preview(c) ==
  /\ Ask("cleanup") /\ MuFree
  /\ plan' = {i \in Ids : Live(i) /\ Category[i] = c}
  /\ UNCHANGED <<store, jobs, open, gone, quota, ceiling, purged, proc, job, cursor>>

\* cleanup(): takes the plan, then deals with its ids one by one.
cleanup(h) ==
  /\ proc[h] = Idle /\ plan # {} /\ MuFree
  /\ Ask("cleanup")
  /\ plan' = {}
  /\ proc' = [proc EXCEPT ![h] = At("tombstone", 0, 0, plan)]
  /\ UNCHANGED <<store, jobs, open, gone, quota, ceiling, purged, job, cursor>>

Tombstone(h) ==
  /\ proc[h].pc = "tombstone"
  /\ IF proc[h].rest = {} THEN Finish(h) /\ UNCHANGED <<rows, purged>>
     ELSE \E i \in proc[h].rest :
            /\ IF Live(i)
                 THEN /\ rows' = [rows EXCEPT ![i].is = "deleted"]
                      /\ purged' = purged \cup {i}
                      /\ proc' = [proc EXCEPT ![h] = At("removeFile", i, 0, @.rest \ {i})]
                 ELSE /\ proc' = [proc EXCEPT ![h].rest = @ \ {i}]
                      /\ UNCHANGED <<rows, purged>>
  /\ UNCHANGED <<files, temps, thumbs, old, jobs, open, gone, quota, plan, ceiling, job, cursor, bounds>>

Remove(i) == files' = [files EXCEPT ![i] = 0] /\ UNCHANGED thumbs
RemoveThumb(i) == thumbs' = thumbs \ {i} /\ UNCHANGED files

RemoveFile(h) ==
  /\ \/ proc[h].pc = "removeFile" /\ MuFree /\ Remove(proc[h].id) /\ Goto(h, "removeThumb")
     \/ proc[h].pc = "removeThumb" /\ RemoveThumb(proc[h].id) /\ Goto(h, "tombstone")
  /\ UNCHANGED <<rows, temps, old, wishes, job, cursor, bounds>>

-----------------------------------------------------------------------------
(* Maintenance: Cleanup, every minute, with five seconds to work. *)

Names == {i \in Ids : files[i] > 0} \cup {t \in Temps : temps[t] > 0}

List ==
  /\ job.pc = "idle"
  /\ job' = [pc |-> "candidates", rest |-> {n \in Names : n > cursor}, candidates |-> {}]
  /\ UNCHANGED <<store, wishes, proc, cursor, bounds>>

cleanupCandidates ==
  /\ job.pc = "candidates"
  /\ job' = [job EXCEPT !.pc = "entry",
                        !.candidates = {i \in job.rest \cap Ids : ~ Live(i) \/ ~ rows[i].linked}]
  /\ UNCHANGED <<store, wishes, proc, cursor, bounds>>

\* claimAbandoned: the tombstone is already there or is written now, or there
\* is no row at all.
ClaimUnscheduled(i) == ~ Live(i) \/ ~ rows[i].linked
claimAbandoned(i) == ~ Live(i) \/ (~ rows[i].linked /\ i \notin jobs)

RemoveUnclaimed(i) == UNCHANGED rows
Claim(i) == rows' = [rows EXCEPT ![i].is = IF @ = "live" THEN "deleted" ELSE @]

Advance(n) == job' = [job EXCEPT !.pc = "entry", !.rest = @ \ {n}] /\ cursor' = n

cleanupEntry ==
  /\ job.pc = "entry" /\ job.rest # {}
  /\ LET n == Min(job.rest) IN
     IF n \in Ids \ job.candidates THEN Advance(n) /\ UNCHANGED <<rows, temps>>
     ELSE /\ MuFree /\ BudgetFree
          /\ IF n \notin old \/ n \notin Names THEN Advance(n) /\ UNCHANGED <<rows, temps>>
             ELSE IF n \in Temps THEN Advance(n) /\ temps' = [temps EXCEPT ![n] = 0] /\ UNCHANGED rows
             ELSE IF claimAbandoned(n)
               THEN /\ Claim(n)
                    /\ job' = [job EXCEPT !.pc = "remove"]
                    /\ UNCHANGED <<temps, cursor>>
             ELSE Advance(n) /\ UNCHANGED <<rows, temps>>
  /\ UNCHANGED <<files, thumbs, old, wishes, proc, bounds>>

Reclaim ==
  LET n == Min(job.rest) IN
  /\ \/ job.pc = "remove" /\ Remove(n) /\ job' = [job EXCEPT !.pc = "removeThumb"] /\ UNCHANGED cursor
     \/ job.pc = "removeThumb" /\ RemoveThumb(n) /\ Advance(n)
  /\ UNCHANGED <<rows, temps, old, wishes, proc, bounds>>

\* The whole directory has been seen: the next run starts from its beginning.
NeverRewinds == job' = Resting /\ UNCHANGED cursor
Rewind == job' = Resting /\ cursor' = 0
Done ==
  /\ job.pc = "entry" /\ job.rest = {} /\ Rewind
  /\ UNCHANGED <<store, wishes, proc, bounds>>

\* The five seconds are over: the next run goes on after the cursor.
Interrupt ==
  /\ interrupts < load.interrupts /\ interrupts' = interrupts + 1
  /\ job.pc \in {"candidates", "entry"}
  /\ job' = Resting
  /\ UNCHANGED <<store, wishes, proc, cursor, load, requests, crashes, orphaned>>

Maintain == List \/ cleanupCandidates \/ cleanupEntry \/ Reclaim \/ Done

-----------------------------------------------------------------------------
\* Twenty-four hours pass for a file nobody writes.
Age(n) ==
  /\ n \in Names \ old
  /\ \A h \in Handlers : proc[h].temp # n
  /\ old' = old \cup {n}
  /\ UNCHANGED <<rows, files, temps, thumbs, wishes, proc, job, cursor, bounds>>

\* The process dies; what is on disk and in the database stays.
Crash ==
  /\ crashes < load.crashes /\ crashes' = crashes + 1
  /\ orphaned' = orphaned \cup {i \in thumbs : files[i] = 0}
  /\ proc' = [h \in Handlers |-> Idle]
  /\ job' = Resting /\ cursor' = 0 /\ plan' = {}
  /\ UNCHANGED <<store, jobs, open, gone, quota, ceiling, purged, load, requests, interrupts>>

Serve(h) == \/ Receive(h) \/ Publish(h) \/ Insert(h) \/ Copied(h) \/ Recheck(h)
            \/ PublishThumbnail(h) \/ Tombstone(h) \/ RemoveFile(h)

Request ==
  \/ \E h \in Handlers : \/ cleanup(h)
                         \/ \E i \in load.ids : upload(h, i) \/ Copy(h, i) \/ thumbnail(h, i)
  \/ \E i \in load.ids : \/ Send(i) \/ DeleteMessage(i) \/ Schedule(i) \/ CancelSchedule(i)
                         \/ Revoke(i) \/ DeleteDestination(i)
  \/ \E c \in Categories : preview(c) \/ \E q \in Quotas : storage(c, q)

Next == \/ Request
        \/ \E h \in Handlers : Serve(h)
        \/ Maintain \/ Interrupt \/ Crash
        \/ \E n \in Ids \cup Temps : Age(n)

\* Handlers finish, the ticker of main.go runs maintenance, and time passes.
Fairness == /\ \A h \in Handlers : WF_vars(Serve(h))
            /\ WF_vars(Maintain)
            /\ \A n \in Ids \cup Temps : WF_vars(Age(n))

Spec == Init /\ [][Next]_vars /\ Fairness

-----------------------------------------------------------------------------
(* What uploads promise. *)

\* Whoever is told of an attachment can read all of it: a row that is not
\* tombstoned has its complete file, whatever uploads, copies, clean-ups and
\* crashes do (upload renames before it inserts, clean-ups write the tombstone
\* before they remove, maintenance claims under the mutexes).
StoredWhole == \A i \in Ids : Live(i) => files[i] = Size[i]

\* Maintenance never takes an attachment away from a message that is still to
\* be sent (maintenance.go: "A database tombstone arbitrates with sending and
\* scheduling before any physical content is removed").
ScheduledKept == \A i \in jobs : Live(i) \/ i \in purged

\* A category holds no more than the largest allocation it was given,
\* although requests compute its use concurrently (budget.go: "Mu serializes
\* reservations and budget changes").
QuotaKept == \A c \in Categories : Used(c) <= ceiling[c]

\* A cached thumbnail has its original beside it, by which maintenance will
\* find it, or is about to be removed; the exception is one whose removal a
\* crash cut off.
ThumbnailsFollow ==
  \A i \in thumbs : \/ files[i] > 0 \/ i \in orphaned
                    \/ \E h \in Handlers : proc[h].pc \in {"removeFile", "removeThumb"} /\ proc[h].id = i
                    \/ job.pc = "removeThumb" /\ i = Min(job.rest)

\* Whoever may read an attachment can, whatever runs beside: it is stored
\* whole, kept for the scheduled message that carries it and within its
\* category's quota, and a thumbnail has its original.
AttachmentsKept == StoredWhole /\ ScheduledKept /\ QuotaKept /\ ThumbnailsFollow

\* What nobody refers to does not stay: a file without a message or a pending
\* scheduled message, and an abandoned temporary file, is removed or taken
\* into use, however often runs are interrupted and processes die.  Requests
\* being bounded, a moment comes when no garbage is left at all.
Referred(i) == Live(i) /\ (rows[i].linked \/ i \in jobs)
GarbageGoes == []<>(/\ \A i \in Ids : files[i] = 0 \/ Referred(i)
                    /\ \A t \in Temps : temps[t] = 0)
=============================================================================
