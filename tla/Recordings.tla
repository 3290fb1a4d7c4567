----------------------------- MODULE Recordings -----------------------------
(***************************************************************************)
(* Call recordings (internal/recordings): the row of a recording, its      *)
(* partial and its final file, the quota they share, and what the members  *)
(* of the server are shown.  Every mutation runs under s.mu, so one is     *)
(* either a single action or, where files and row change one after the     *)
(* other, two actions between which only a crash can fall; the event goes  *)
(* out after the mutex is released, from a row read again by then.         *)
(*                                                                         *)
(* The recorder's browser (not part of this repository) is modelled by the *)
(* protocol docs/channel-media.md gives it: ask for the offset, append     *)
(* from there, complete; a lost answer makes it ask again.                 *)
(***************************************************************************)
EXTENDS Naturals, Integers, FiniteSets, FiniteSetsExt

CONSTANTS
  Recs,          \* recordings
  Sizes,         \* sizes a recorder may announce
  MaxFileBytes,  \* larger files stay with the recorder
  PreviewBytes,
  Allowances,    \* quotas an owner may set
  MaxActive,     \* recordings that may run at once
  RecHandlers,   \* requests running at once
  Works          \* workloads: [ops, recs, requests, crashes, losses]

\* Recordings and previews have sizes, and an owner sets one of some quotas.
ASSUME RecordingsAssumption ==
  /\ IsFiniteSet(Recs) /\ Sizes \subseteq Nat /\ PreviewBytes \in Nat
  /\ IsFiniteSet(Allowances) /\ Allowances \subseteq Nat /\ Allowances # {}
  /\ \A l \in Works : l.recs \subseteq Recs

VARIABLES
  rec,       \* [Recs -> [status, size, preview, updated, stale, expired]]; a row
             \* that is no more keeps its entry, as "deleted" or "gone"
  part,      \* [Recs -> Int]: bytes in <id>.part, None when there is none
  final,     \* [Recs -> Int]: bytes in <id>.webm
  allowance, \* the quota
  serving,   \* [RecHandlers -> [pc, id, status, updated]]
  client,    \* [Recs -> [pc, at]]: the recorder's upload loop
  shown,     \* [Recs -> [status, updated]]: what a member's client shows
  work, asked, deaths, losses,
  highest,   \* history: the largest quota so far
  torn       \* history: rows whose files were removed but which stayed

recordingFiles == <<part, final>>
recordingBounds == <<work, asked, deaths, losses>>
history == <<highest, torn>>
recordings == <<rec, recordingFiles, allowance, serving, client, shown, recordingBounds, history>>

None == -1
Row(status, size, image, updated, stale, expired) ==
  [status |-> status, size |-> size, preview |-> image, updated |-> updated, stale |-> stale, expired |-> expired]
TaskAt(pc, r, status, updated) == [pc |-> pc, id |-> r, status |-> status, updated |-> updated]
NoRecord == Row("none", 0, 0, 0, FALSE, FALSE)
NoTask == TaskAt("idle", CHOOSE r \in Recs : TRUE, "none", 0)
NoUpload == [pc |-> "off", at |-> 0]

RecordingsInit ==
  /\ work \in Works
  /\ rec = [r \in Recs |-> NoRecord]
  /\ part = [r \in Recs |-> None] /\ final = part
  /\ allowance = Max(Allowances) /\ highest = allowance /\ torn = {}
  /\ serving = [h \in RecHandlers |-> NoTask]
  /\ client = [r \in Recs |-> NoUpload]
  /\ shown = [r \in Recs |-> [status |-> "none", updated |-> 0]]
  /\ asked = 0 /\ deaths = 0 /\ losses = 0

-----------------------------------------------------------------------------
(* The mutex, the event and the row. *)

\* s.mu is held between the two halves of Complete, delete and Cleanup.
RecordingsFree == \A h \in RecHandlers : serving[h].pc \notin {"commit", "erase"}

\* Get: a row that has not expired, for a member who may see the channel.
Exists(r) == rec[r].status \in {"recording", "uploading", "ready", "local_only", "failed"}
Get(r) == Exists(r) /\ ~ rec[r].expired

\* updated_at=max(updated_at+1,?): a later change is later on the clock too,
\* even within one millisecond.
SameMillisecond(u) == u
Later(u) == u + 1

Become(r, status, size) ==
  rec' = [rec EXCEPT ![r] = Row(status, size, @.preview, Later(@.updated), @.stale, FALSE)]

Proceed(h, pc, r) == serving' = [serving EXCEPT ![h] = TaskAt(pc, r, "none", 0)]
Finished(h) == serving' = [serving EXCEPT ![h] = NoTask]

Issue(op) == /\ op \in work.ops
             /\ asked < work.requests /\ asked' = asked + 1
             /\ UNCHANGED <<work, deaths, losses>>

\* After the mutex: the row is read, then published.
Read(h) ==
  /\ serving[h].pc = "read"
  /\ LET r == serving[h].id IN
     IF Get(r) THEN serving' = [serving EXCEPT ![h] = TaskAt("emit", r, rec[r].status, rec[r].updated)]
               ELSE Finished(h)
  /\ UNCHANGED <<rec, recordingFiles, allowance, client, shown, recordingBounds, history>>

\* A client keeps the newer of what it shows and what it is told.
Keep(r, status, updated) ==
  shown' = [shown EXCEPT ![r] = IF updated > @.updated THEN [status |-> status, updated |-> updated] ELSE @]

emit(h) ==
  /\ serving[h].pc = "emit"
  /\ Keep(serving[h].id, serving[h].status, serving[h].updated)
  /\ Finished(h)
  /\ UNCHANGED <<rec, recordingFiles, allowance, client, recordingBounds, history>>

-----------------------------------------------------------------------------
(* Starting and stopping. *)

\* At most MaxActive recordings, and one in the channel: here each recording
\* has a channel and an owner of its own.
Start(h, r) ==
  /\ serving[h] = NoTask /\ RecordingsFree /\ rec[r].status = "none"
  /\ Issue("start")
  /\ Cardinality({s \in Recs : rec[s].status = "recording"}) < MaxActive
  /\ rec' = [rec EXCEPT ![r] = Row("recording", 0, 0, 1, FALSE, FALSE)]
  /\ Proceed(h, "read", r)
  /\ UNCHANGED <<recordingFiles, allowance, client, shown, history>>

Heartbeat(r) ==
  /\ Issue("heartbeat")
  /\ Get(r) /\ rec[r].status = "recording"
  /\ rec' = [rec EXCEPT ![r].stale = FALSE]
  /\ UNCHANGED <<recordingFiles, allowance, serving, client, shown, history>>

\* used: reservations and finished files, previews included, but for one id.
Counted(r) == rec[r].status \in {"uploading", "ready"} /\ ~ rec[r].expired
Weight == [r \in Recs |-> rec[r].size + rec[r].preview]
ReadyOnly(except) == MapThenSumSet(LAMBDA r : Weight[r],
                                   {r \in Recs \ {except} : Counted(r) /\ rec[r].status = "ready"})
used(except) == MapThenSumSet(LAMBDA r : Weight[r], {r \in Recs \ {except} : Counted(r)})

\* Stop: the recorder announces a size or keeps the file; also again, after a
\* lost answer or a change of mind, but not for a finished upload.
Stop(h, r, size, localOnly) ==
  LET kept == localOnly \/ size > MaxFileBytes \/ size = 0 IN
  /\ serving[h] = NoTask /\ RecordingsFree
  /\ Issue("stop")
  /\ Get(r) /\ rec[r].status # "ready"
  /\ (rec[r].status = "uploading" /\ ~ localOnly /\ size <= MaxFileBytes) => size = rec[r].size
  /\ ~ kept => used(r) + size <= allowance
  /\ Become(r, IF kept THEN "local_only" ELSE "uploading", IF kept THEN 0 ELSE size)
  /\ part' = IF kept THEN [part EXCEPT ![r] = None] ELSE part
  /\ client' = [client EXCEPT ![r] = IF kept THEN NoUpload ELSE [pc |-> "offset", at |-> 0]]
  /\ Proceed(h, "read", r)
  /\ UNCHANGED <<final, allowance, shown, history>>

\* SetQuota, or ApplyBudget from the storage page.
SetQuota(q) ==
  /\ Issue("quota") /\ RecordingsFree
  /\ allowance' = q /\ highest' = Max({highest, q})
  /\ UNCHANGED <<rec, recordingFiles, serving, client, shown, torn>>
-----------------------------------------------------------------------------
(* Uploading: Offset, Append, Complete. *)

Tell(r, pc, at) == client' = [client EXCEPT ![r] = [pc |-> pc, at |-> at]]

\* The answer is lost; the recorder asks for the offset again.
Lost(r) == /\ losses < work.losses /\ losses' = losses + 1
           /\ Tell(r, "offset", 0)
           /\ UNCHANGED <<work, asked, deaths>>
Answered(r, pc, at) == Tell(r, pc, at) /\ UNCHANGED recordingBounds

Uploads(r) == Get(r) /\ rec[r].status = "uploading"

\* A crash after the rename left the whole file under its final name.
Offset(r) ==
  LET at == IF part[r] # None THEN part[r]
            ELSE IF final[r] = rec[r].size THEN final[r] ELSE 0
  IN  /\ client[r].pc = "offset"
      /\ IF Uploads(r)
           THEN \/ Answered(r, IF at = rec[r].size THEN "complete" ELSE "append", at)
                \/ Lost(r)
           ELSE Answered(r, IF Get(r) /\ rec[r].status = "ready" THEN "done" ELSE "off", 0)
      /\ UNCHANGED <<rec, recordingFiles, allowance, serving, shown, history>>

\* A chunk of one unit; the partial file is created even for a refused one.
Written(r, at) ==
  LET length == Max({part[r], 0})
  IN  part' = [part EXCEPT ![r] = IF length = at /\ at + 1 <= rec[r].size THEN at + 1 ELSE length]

Append(r) ==
  /\ client[r].pc = "append" /\ RecordingsFree
  /\ IF Uploads(r)
       THEN /\ Written(r, client[r].at)
            /\ \/ Lost(r)
               \/ IF Max({part[r], 0}) # client[r].at THEN Answered(r, "offset", 0)
                  ELSE Answered(r, IF client[r].at + 1 = rec[r].size THEN "complete" ELSE "append",
                                client[r].at + 1)
       ELSE Answered(r, "off", 0) /\ UNCHANGED part
  /\ UNCHANGED <<rec, final, allowance, serving, shown, history>>

\* A first chunk whose answer was given up on arrives late.
LateAppend(r) ==
  /\ losses < work.losses /\ losses' = losses + 1
  /\ Uploads(r) /\ RecordingsFree
  /\ Written(r, 0)
  /\ UNCHANGED <<rec, final, allowance, serving, client, shown, work, asked, deaths, history>>

\* The file Complete opens: the partial one, else the final one.
OnlyPartial(r) == part[r]
Opened(r) == IF part[r] # None THEN part[r] ELSE final[r]

AnyLength(r) == Opened(r) # None
Whole(r) == Opened(r) = rec[r].size

Complete(h, r) ==
  /\ serving[h] = NoTask /\ client[r].pc = "complete" /\ RecordingsFree
  /\ IF Uploads(r) /\ Whole(r)
       THEN /\ final' = [final EXCEPT ![r] = Opened(r)]
            /\ part' = [part EXCEPT ![r] = None]
            /\ Proceed(h, "commit", r)
            /\ Answered(r, "waiting", 0)
       ELSE /\ Answered(r, IF ~ Get(r) THEN "off" ELSE IF rec[r].status = "ready" THEN "done" ELSE "offset", 0)
            /\ UNCHANGED <<recordingFiles, serving>>
  /\ UNCHANGED <<rec, allowance, shown, history>>

\* The UPDATE, unless it fails; one of a row deleted meanwhile does nothing.
Commit(h) ==
  LET r == serving[h].id IN
  /\ serving[h].pc = "commit"
  /\ \/ /\ IF Exists(r) THEN Become(r, "ready", rec[r].size) ELSE UNCHANGED rec
        /\ Proceed(h, "read", r)
        /\ \/ Answered(r, "done", 0) \/ Lost(r)
     \/ Finished(h) /\ Lost(r) /\ UNCHANGED rec
  /\ UNCHANGED <<recordingFiles, allowance, shown, history>>

-----------------------------------------------------------------------------
(* Previews, deletion and clean-up. *)

SavePreview(h, r) ==
  /\ serving[h] = NoTask
  /\ Issue("preview")
  /\ Get(r) /\ rec[r].status = "ready"
  /\ Proceed(h, "preview", r)
  /\ UNCHANGED <<rec, recordingFiles, allowance, client, shown, history>>

StorePreview(h) ==
  LET r == serving[h].id IN
  /\ serving[h].pc = "preview" /\ RecordingsFree
  /\ IF Get(r) /\ rec[r].status = "ready" /\ used(r) + (rec[r].size + PreviewBytes) <= allowance
       THEN /\ rec' = [rec EXCEPT ![r] = Row(@.status, @.size, PreviewBytes, Later(@.updated), @.stale, @.expired)]
            /\ Proceed(h, "read", r)
       ELSE Finished(h) /\ UNCHANGED rec
  /\ UNCHANGED <<recordingFiles, allowance, client, shown, recordingBounds, history>>

RemoveFiles(r) == /\ part' = [part EXCEPT ![r] = None]
                  /\ final' = [final EXCEPT ![r] = None]

\* delete(): the files, then the row, then the event.
delete(h, r) ==
  /\ serving[h] = NoTask /\ RecordingsFree
  /\ Issue("delete")
  /\ Get(r) /\ rec[r].status # "recording"
  /\ RemoveFiles(r)
  /\ serving' = [serving EXCEPT ![h] = TaskAt("erase", r, "deleted", Later(rec[r].updated))]
  /\ UNCHANGED <<rec, allowance, client, shown, history>>

\* Cleanup: files of a row that has expired; the row follows.
CleanupExpired(h, r) ==
  /\ serving[h] = NoTask /\ RecordingsFree
  /\ Exists(r) /\ rec[r].expired
  /\ RemoveFiles(r)
  /\ serving' = [serving EXCEPT ![h] = TaskAt("erase", r, "gone", 0)]
  /\ UNCHANGED <<rec, allowance, client, shown, recordingBounds, history>>

\* DELETE FROM channel_recordings, or its failure, which leaves a row
\* without files; delete() announces it even where the row was gone already.
Erase(h) ==
  LET r == serving[h].id IN
  /\ serving[h].pc = "erase"
  /\ \/ /\ IF Exists(r) THEN rec' = [rec EXCEPT ![r] = Row(serving[h].status, @.size, @.preview, serving[h].updated,
                                                        @.stale, @.expired)]
                        ELSE UNCHANGED rec
        /\ IF serving[h].status = "deleted" THEN serving' = [serving EXCEPT ![h] = TaskAt("emit", r, "deleted", @.updated)]
                                         ELSE Finished(h)
        /\ UNCHANGED <<recordingBounds, torn>>
     \/ /\ losses < work.losses /\ losses' = losses + 1
        /\ torn' = torn \cup {r}
        /\ Finished(h)
        /\ UNCHANGED <<rec, work, asked, deaths>>
  /\ UNCHANGED <<recordingFiles, allowance, client, shown, highest>>

\* Cleanup: a recorder that stopped sending heartbeats.
CleanupStale(r) ==
  /\ RecordingsFree /\ rec[r].status = "recording" /\ rec[r].stale
  /\ Become(r, "failed", rec[r].size)
  /\ Keep(r, "failed", Later(rec[r].updated))
  /\ UNCHANGED <<recordingFiles, allowance, serving, client, recordingBounds, history>>

\* Cleanup: files whose row is no more.
CleanupOrphans(r) ==
  /\ RecordingsFree /\ ~ Exists(r)
  /\ part[r] # None \/ final[r] # None
  /\ RemoveFiles(r)
  /\ UNCHANGED <<rec, allowance, serving, client, shown, recordingBounds, history>>

-----------------------------------------------------------------------------
(* The world outside. *)

\* The channel is deleted and the row with it: ON DELETE CASCADE.
Cascade(r) ==
  /\ Issue("cascade") /\ Exists(r)
  /\ rec' = [rec EXCEPT ![r].status = "gone"]
  /\ UNCHANGED <<recordingFiles, allowance, serving, client, shown, history>>

\* Two minutes without a heartbeat; a day after the last change.
Stale(r) ==
  /\ rec[r].status = "recording" /\ ~ rec[r].stale
  /\ rec' = [rec EXCEPT ![r].stale = TRUE]
  /\ UNCHANGED <<recordingFiles, allowance, serving, client, shown, recordingBounds, history>>
Expire(r) ==
  /\ Issue("expire") /\ Exists(r) /\ rec[r].status # "recording"
  /\ rec' = [rec EXCEPT ![r].expired = TRUE]
  /\ UNCHANGED <<recordingFiles, allowance, serving, client, shown, history>>

\* The process dies.  New() marks what was being recorded as failed, and the
\* clients that connect again list the recordings.
Restart ==
  /\ deaths < work.crashes /\ deaths' = deaths + 1
  /\ rec' = [r \in Recs |-> IF rec[r].status = "recording"
                              THEN Row("failed", rec[r].size, rec[r].preview, Later(rec[r].updated),
                                       rec[r].stale, rec[r].expired)
                              ELSE rec[r]]
  /\ shown' = [r \in Recs |-> IF Get(r) THEN [status |-> rec'[r].status, updated |-> rec'[r].updated]
                              ELSE [status |-> rec[r].status, updated |-> rec[r].updated]]
  /\ torn' = torn \cup {serving[h].id : h \in {g \in RecHandlers : serving[g].pc = "erase"}}
  /\ serving' = [h \in RecHandlers |-> NoTask]
  /\ client' = [r \in Recs |-> IF client[r].pc = "waiting" THEN [pc |-> "offset", at |-> 0] ELSE client[r]]
  /\ UNCHANGED <<recordingFiles, allowance, work, asked, losses, highest>>

ServeRecording(h) == \/ Read(h) \/ emit(h) \/ Commit(h) \/ StorePreview(h) \/ Erase(h)
Upload(r) == Offset(r) \/ Append(r) \/ \E h \in RecHandlers : Complete(h, r)
Cleanup == \E r \in Recs : \/ CleanupStale(r) \/ CleanupOrphans(r)
                           \/ \E h \in RecHandlers : CleanupExpired(h, r)
RecordingRequest ==
  \/ \E r \in work.recs, h \in RecHandlers :
       \/ Start(h, r) \/ SavePreview(h, r) \/ delete(h, r)
       \/ \E size \in Sizes, localOnly \in BOOLEAN : Stop(h, r, size, localOnly)
  \/ \E r \in work.recs : Heartbeat(r) \/ Cascade(r) \/ Expire(r)
  \/ \E q \in Allowances : SetQuota(q)

RecordingsNext == \/ RecordingRequest \/ Cleanup \/ Restart
                  \/ \E h \in RecHandlers : ServeRecording(h)
                  \/ \E r \in Recs : Upload(r) \/ LateAppend(r) \/ Stale(r)

\* Handlers finish, and a recorder's browser goes on with its upload.
RecordingsFairness == /\ \A h \in RecHandlers : WF_recordings(ServeRecording(h))
                      /\ \A r \in Recs : SF_recordings(Upload(r))

RecordingsSpec == RecordingsInit /\ [][RecordingsNext]_recordings /\ RecordingsFairness

-----------------------------------------------------------------------------
(* What recordings promise. *)

\* Members who are offered a recording can download all of it: a ready row has
\* its whole file under the final name, except while and after a deletion
\* that got no further than the files.
ReadyWhole ==
  \A r \in Recs : rec[r].status = "ready" =>
    \/ final[r] = rec[r].size \/ r \in torn
    \/ \E h \in RecHandlers : serving[h].pc = "erase" /\ serving[h].id = r

\* Reservations, finished files and previews together stay within the largest
\* quota there was, although each is admitted by a request of its own.
AllowanceKept == MapThenSumSet(LAMBDA r : Weight[r], {r \in Recs : Counted(r)}) <= highest

\* With no request under way, a member's client shows the state of every
\* recording, although events are sent outside the mutex and may overtake
\* each other (channel-media.md: "Monotonic per-record updated_at prevents
\* older HTTP snapshots from replacing newer WebSocket state").
MembersCurrent ==
  (\A h \in RecHandlers : serving[h] = NoTask) =>
    \A r \in Recs : (Get(r) \/ rec[r].status = "deleted") =>
      shown[r] = [status |-> rec[r].status, updated |-> rec[r].updated]

\* What members are shown of recordings is true: a ready one is there as a
\* whole, all are within the quota, and the last event a client keeps is
\* about the current state.
RecordingsTrue == ReadyWhole /\ AllowanceKept /\ MembersCurrent

\* An upload comes to an end, whatever answers are lost and wherever the
\* process dies (service.go: "A crash after rename but before committing
\* metadata is recoverable").
UploadEnds == []<>(\A r \in Recs : client[r].pc \in {"off", "done"})
=============================================================================
