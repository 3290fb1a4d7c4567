-------------------------- MODULE RecordingsProofs --------------------------
(***************************************************************************)
(* For every set of recordings, requests, sizes and quotas: what members   *)
(* are shown of recordings is true, whatever handlers, clean-ups, lost     *)
(* answers and crashes do.                                                 *)
(***************************************************************************)
EXTENDS Recordings, SumLemmas

-----------------------------------------------------------------------------
(* Recordings: the invariant. *)

Statuses == {"none", "recording", "uploading", "ready", "local_only", "failed", "deleted", "gone"}
RecRows == [status : Statuses, size : Nat, preview : Nat, updated : Nat, stale : BOOLEAN, expired : BOOLEAN]
RecTasks == [pc : {"idle", "read", "emit", "commit", "preview", "erase"}, id : Recs \cup {NoTask.id},
             status : Statuses, updated : Nat]

RecTyped ==
  /\ work \in Works
  /\ rec \in [Recs -> RecRows] /\ final \in [Recs -> Int]
  /\ shown \in [Recs -> [status : Statuses, updated : Nat]]
  /\ allowance \in Nat /\ highest \in Nat /\ allowance <= highest
  /\ serving \in [RecHandlers -> RecTasks]
  /\ \A h \in RecHandlers : serving[h].pc # "idle" => serving[h].id \in Recs

(* s.mu between the halves of an operation has one holder.                 *)
RecMutex ==
  \A g, h \in RecHandlers : serving[g].pc \in {"commit", "erase"} /\ serving[h].pc \in {"commit", "erase"} => g = h

(* Rows that events can be about, and what clients may know of them: never *)
(* more than there is, and what is missing is on its way.                  *)
Known(r) == Exists(r) \/ rec[r].status = "deleted"
Agrees(r, status, updated) ==
  updated <= rec[r].updated /\ (updated = rec[r].updated => status = rec[r].status)
Coming(r, h) == /\ serving[h].id = r
                /\ \/ serving[h].pc = "read" /\ Get(r)
                   \/ serving[h].pc = "emit" /\ serving[h].status = rec[r].status /\ serving[h].updated = rec[r].updated
Fresh(r) ==
  rec[r].status = "none" => /\ rec[r] = NoRecord /\ shown[r].updated = 0
                            /\ \A h \in RecHandlers : serving[h].pc # "idle" => serving[h].id # r
Flags(r) ==
  /\ rec[r].status = "recording" => ~rec[r].expired
  /\ rec[r].preview # 0 => rec[r].status \in {"ready", "deleted", "gone"}
Told(r) ==
  /\ Known(r) => Agrees(r, shown[r].status, shown[r].updated)
  /\ Get(r) \/ rec[r].status = "deleted" =>
       \/ shown[r] = [status |-> rec[r].status, updated |-> rec[r].updated]
       \/ \E h \in RecHandlers : Coming(r, h)
Downloadable(r) ==
  rec[r].status = "ready" => \/ final[r] = rec[r].size \/ r \in torn
                             \/ \E h \in RecHandlers : serving[h].pc = "erase" /\ serving[h].id = r
RowOK(r) == Fresh(r) /\ Flags(r) /\ Told(r) /\ Downloadable(r)

TaskOK(h) ==
  LET r == serving[h].id IN
  /\ serving[h].pc = "commit" => final[r] = rec[r].size /\ rec[r].status \in {"uploading", "gone"}
  /\ serving[h].pc = "erase" => /\ serving[h].status \in {"deleted", "gone"} /\ rec[r].status # "deleted"
                                /\ serving[h].status = "deleted" => serving[h].updated = rec[r].updated + 1
  /\ serving[h].pc = "emit" /\ Known(r) => Agrees(r, serving[h].status, serving[h].updated)

(* An upload that is being completed keeps its place even if it expires.   *)
Reserved(r) == \/ Counted(r)
               \/ rec[r].status = "uploading" /\ \E h \in RecHandlers : serving[h].pc = "commit" /\ serving[h].id = r

RecInv == /\ RecTyped /\ RecMutex
          /\ \A r \in Recs : RowOK(r)
          /\ \A h \in RecHandlers : serving[h].pc # "idle" => TaskOK(h)

(* What a step may do to the room that is taken: nothing, or admit one row *)
(* that fits beside the others.                                            *)
NoneAdmitted == /\ highest <= highest'
                /\ \A k \in Recs : Reserved(k)' => Reserved(k) /\ Weight'[k] = Weight[k]
Admitted(r) == /\ RecordingsFree /\ highest' = highest /\ used(r) + Weight'[r] <= allowance
               /\ \A k \in Recs \ {r} : Reserved(k)' => Counted(k) /\ Weight'[k] = Weight[k]
RoomStep == NoneAdmitted \/ \E r \in Recs : Admitted(r)

Kept == RecInv' /\ RoomStep

-----------------------------------------------------------------------------
(* What a step leaves alone. *)

(* Others are as they were.                                                *)
Elsewhere(r) ==
  /\ \A k \in Recs \ {r} : rec'[k] = rec[k] /\ final'[k] = final[k] /\ shown'[k] = shown[k]
  /\ torn \subseteq torn'
  /\ \A g \in RecHandlers : \/ serving'[g] = serving[g]
                            \/ /\ serving[g].pc = "idle" \/ serving[g].id = r
                               /\ serving'[g].pc = "idle" \/ serving'[g].id = r

LEMMA OneRow ==
  ASSUME RecInv, NEW r \in Recs, Elsewhere(r), RecTyped', RecMutex', RoomStep, RowOK(r)',
         \A g \in RecHandlers : serving'[g].pc # "idle" /\ serving'[g].id = r => TaskOK(g)'
  PROVE  Kept
<1>1. ASSUME NEW k \in Recs \ {r} PROVE RowOK(k)'
  <2>0. RowOK(k) /\ rec'[k] = rec[k] /\ final'[k] = final[k] /\ shown'[k] = shown[k] BY DEF RecInv, Elsewhere
  <2>1. \A g \in RecHandlers : serving'[g].pc # "idle" /\ serving'[g].id = k => serving'[g] = serving[g] BY DEF Elsewhere
  <2>2. \A g \in RecHandlers : serving[g].pc # "idle" /\ serving[g].id = k => serving'[g] = serving[g] BY DEF Elsewhere
  <2>3. (Get(k)' <=> Get(k)) /\ (Known(k)' <=> Known(k)) BY <2>0 DEF Get, Known, Exists
  <2>4. \A g \in RecHandlers : Coming(k, g) => Coming(k, g)' BY <2>0, <2>2, <2>3 DEF Coming
  <2>5. Agrees(k, shown[k].status, shown[k].updated)' <=> Agrees(k, shown[k].status, shown[k].updated)
    BY <2>0 DEF Agrees
  <2>6. (\E g \in RecHandlers : serving[g].pc = "erase" /\ serving[g].id = k)
        => \E g \in RecHandlers : serving'[g].pc = "erase" /\ serving'[g].id = k BY <2>2
  <2>7. k \in torn => k \in torn' BY ZenonT(40) DEF Elsewhere
  <2> QED BY <2>0, <2>1, <2>3, <2>4, <2>5, <2>6, <2>7 DEF RowOK, Fresh, Flags, Told, Downloadable
<1>2. ASSUME NEW g \in RecHandlers, serving'[g].pc # "idle", serving'[g].id # r PROVE TaskOK(g)'
  <2>1. serving'[g] = serving[g] BY <1>2 DEF Elsewhere
  <2>2. PICK k \in Recs \ {r} : k = serving[g].id BY <1>2, <2>1 DEF RecInv, RecTyped
  <2>3. TaskOK(g) /\ rec'[k] = rec[k] /\ final'[k] = final[k] BY <1>2, <2>1, <2>2 DEF RecInv, Elsewhere
  <2> QED BY <2>1, <2>2, <2>3 DEF TaskOK, Agrees, Known, Exists
<1> QED BY SMTT(30), <1>1, <1>2 DEF RecInv, Kept

(* Only the row in question can come to be counted.                        *)
LEMMA RoomOfOne ==
  ASSUME RecInv, NEW r \in Recs, Elsewhere(r), RecTyped', highest' = highest,
         Reserved(r)' => Reserved(r) /\ Weight'[r] = Weight[r]
  PROVE  RoomStep
<1>1. ASSUME NEW k \in Recs \ {r}, Reserved(k)' PROVE Reserved(k) /\ Weight'[k] = Weight[k]
  <2>1. rec'[k] = rec[k] BY DEF Elsewhere
  <2>2. \A g \in RecHandlers : serving'[g].pc = "commit" /\ serving'[g].id = k => serving'[g] = serving[g] BY DEF Elsewhere
  <2> QED BY <1>1, <2>1, <2>2 DEF Reserved, Counted, Weight
<1>2. highest <= highest' BY DEF RecInv, RecTyped
<1> QED BY <1>1, <1>2 DEF RoomStep, NoneAdmitted

LEMMA RoomForOne ==
  ASSUME RecInv, NEW r \in Recs, Elsewhere(r), RecTyped', highest' = highest, RecordingsFree, used(r) + Weight'[r] <= allowance
  PROVE  RoomStep
<1>1. ASSUME NEW k \in Recs \ {r}, Reserved(k)' PROVE Counted(k) /\ Weight'[k] = Weight[k]
  <2>1. rec'[k] = rec[k] BY DEF Elsewhere
  <2>2. \A g \in RecHandlers : serving'[g].pc = "commit" /\ serving'[g].id = k => serving'[g] = serving[g] BY DEF Elsewhere
  <2>3. \A g \in RecHandlers : ~(serving'[g].pc = "commit" /\ serving'[g].id = k) BY <2>2 DEF RecordingsFree
  <2> QED BY <1>1, <2>1, <2>3 DEF Reserved, Counted, Weight
<1> QED BY <1>1 DEF RoomStep, Admitted

(* What happens to a handler.                                              *)
LEMMA Moves ==
  ASSUME RecTyped, NEW h \in RecHandlers, NEW task \in RecTasks, task.id \in Recs, serving' = [serving EXCEPT ![h] = task]
  PROVE  /\ serving' \in [RecHandlers -> RecTasks]
         /\ \A g \in RecHandlers : serving'[g].pc # "idle" => serving'[g].id \in Recs
         /\ \A g \in RecHandlers \ {h} : serving'[g] = serving[g]
         /\ serving'[h] = task
<1>2. serving'[h] = task BY DEF RecTyped
<1>3. \A g \in RecHandlers \ {h} : serving'[g] = serving[g] BY DEF RecTyped
<1>4. serving' \in [RecHandlers -> RecTasks] BY DEF RecTyped
<1> QED BY <1>2, <1>3, <1>4 DEF RecTyped

LEMMA GotoIs ==
  ASSUME RecTyped, NEW h \in RecHandlers, NEW r \in Recs, NEW pc \in {"read", "commit", "preview"}, Proceed(h, pc, r)
  PROVE  /\ serving' \in [RecHandlers -> RecTasks]
         /\ \A g \in RecHandlers : serving'[g].pc # "idle" => serving'[g].id \in Recs
         /\ \A g \in RecHandlers \ {h} : serving'[g] = serving[g]
         /\ serving'[h].pc = pc /\ serving'[h].id = r
<1>1. PICK task \in RecTasks : task = TaskAt(pc, r, "none", 0) BY Zenon DEF TaskAt, RecTasks, Statuses
<1>2. task.pc = pc /\ task.id = r BY <1>1 DEF TaskAt
<1>3. serving' = [serving EXCEPT ![h] = task] BY <1>1 DEF Proceed
<1> QED BY Zenon, <1>2, <1>3, Moves

LEMMA Finishes ==
  ASSUME RecTyped, NEW h \in RecHandlers, Finished(h)
  PROVE  /\ serving' \in [RecHandlers -> RecTasks]
         /\ \A g \in RecHandlers : serving'[g].pc # "idle" => serving'[g].id \in Recs
         /\ \A g \in RecHandlers \ {h} : serving'[g] = serving[g]
         /\ serving'[h].pc = "idle"
<1>1. NoTask \in RecTasks /\ NoTask.pc = "idle" BY DEF NoTask, TaskAt, RecTasks, Statuses
<1>2. serving'[h] = NoTask BY DEF RecTyped, Finished
<1>3. \A g \in RecHandlers \ {h} : serving'[g] = serving[g] BY DEF RecTyped, Finished
<1>4. serving' \in [RecHandlers -> RecTasks] BY <1>1 DEF RecTyped, Finished
<1> QED BY <1>1, <1>2, <1>3, <1>4 DEF RecTyped

LEMMA IdleIs == NoTask.pc = "idle" /\ NoTask.status = "none" /\ NoTask.updated = 0
BY DEF NoTask, TaskAt

(* The mutex is taken when it is free.                                     *)
LEMMA MutexStays ==
  ASSUME RecMutex, NEW h \in RecHandlers, \A g \in RecHandlers \ {h} : serving'[g] = serving[g],
         RecordingsFree \/ serving'[h].pc \notin {"commit", "erase"}
  PROVE  RecMutex'
BY DEF RecMutex, RecordingsFree

(* What happens to a row.                                                  *)
LEMMA Changes ==
  ASSUME RecTyped, NEW r \in Recs, NEW row \in RecRows, rec' = [rec EXCEPT ![r] = row]
  PROVE  rec' \in [Recs -> RecRows] /\ rec'[r] = row /\ \A k \in Recs \ {r} : rec'[k] = rec[k]
BY DEF RecTyped

(* What members are told stays right where nothing happens to the row, and *)
(* becomes right when a change leaves a handler that reads the row.        *)
LEMMA ToldStays ==
  ASSUME NEW r, Told(r), rec'[r].status = rec[r].status, rec'[r].updated = rec[r].updated,
         rec'[r].expired = rec[r].expired \/ rec'[r].expired, shown'[r] = shown[r],
         \A g \in RecHandlers : Coming(r, g) => serving'[g] = serving[g]
  PROVE  Told(r)'
<1>1. (Get(r)' => Get(r)) /\ (Known(r)' <=> Known(r)) BY DEF Get, Known, Exists
<1>2. ~(Get(r) /\ rec[r].status = "deleted") BY DEF Get, Exists
<1>3. \A g \in RecHandlers : Coming(r, g) /\ (Get(r)' \/ rec[r].status = "deleted") => Coming(r, g)'
  BY <1>2 DEF Coming
<1> QED BY <1>1, <1>3 DEF Told, Agrees

LEMMA ToldByRead ==
  ASSUME NEW r \in Recs, NEW h \in RecHandlers, RecTyped, RecTyped', Exists(r)',
         shown'[r] = shown[r], shown[r].updated < rec'[r].updated, serving'[h].pc = "read", serving'[h].id = r
  PROVE  Told(r)'
<1>1. shown[r].updated \in Nat /\ rec'[r].updated \in Nat BY DEF RecTyped, RecRows
<1>2. Agrees(r, shown[r].status, shown[r].updated)' BY <1>1 DEF Agrees
<1>3. rec'[r].status # "deleted" BY DEF Exists
<1>4. Get(r)' => Coming(r, h)' BY DEF Coming
<1> QED BY <1>2, <1>3, <1>4 DEF Told

(* Handlers that do not move.                                              *)
Onward(r) ==
  Known(r)' => /\ Known(r)
               /\ \/ rec'[r].updated > rec[r].updated
                  \/ rec'[r].updated = rec[r].updated /\ rec'[r].status = rec[r].status
LEMMA OldTasks ==
  ASSUME RecInv, NEW r \in Recs, RecTyped', Onward(r), NEW g \in RecHandlers, serving'[g] = serving[g],
         serving[g].pc # "idle", serving[g].id = r,
         \/ serving[g].pc \notin {"commit", "erase"}
         \/ /\ final'[r] = final[r] /\ rec'[r].size = rec[r].size /\ rec'[r].updated = rec[r].updated
            /\ rec'[r].status \in {rec[r].status, "gone"}
  PROVE  TaskOK(g)'
<1>1. TaskOK(g) BY DEF RecInv
<1>2. serving[g].pc = "commit" => final'[r] = rec'[r].size /\ rec'[r].status \in {"uploading", "gone"}
  BY <1>1 DEF TaskOK
<1>3. serving[g].pc = "erase" => /\ serving[g].status \in {"deleted", "gone"} /\ rec'[r].status # "deleted"
                                 /\ serving[g].status = "deleted" => serving[g].updated = rec'[r].updated + 1
  BY <1>1 DEF TaskOK
<1>4. rec[r].updated \in Nat /\ rec'[r].updated \in Nat /\ serving[g].updated \in Nat
  BY Zenon DEF RecInv, RecTyped, RecRows, RecTasks
<1>5. serving[g].pc = "emit" /\ Known(r)' => Agrees(r, serving[g].status, serving[g].updated)'
  BY <1>1, <1>4 DEF TaskOK, Agrees, Onward
<1> QED BY SMTT(30), <1>2, <1>3, <1>5 DEF TaskOK

-----------------------------------------------------------------------------
(* The operations. *)

LEMMA StartKeeps == ASSUME RecInv, NEW h \in RecHandlers, NEW r \in Recs, Start(h, r) PROVE Kept
<1>0. /\ serving[h].pc = "idle" /\ RecordingsFree /\ rec[r].status = "none" /\ RecTyped /\ RecMutex /\ Fresh(r)
      /\ rec' = [rec EXCEPT ![r] = Row("recording", 0, 0, 1, FALSE, FALSE)]
      /\ Proceed(h, "read", r)
      /\ UNCHANGED <<work, final, allowance, shown, highest, torn>>
  BY IdleIs DEF Start, Issue, recordingFiles, history, RecInv, RowOK
<1>1. PICK row \in RecRows : row = Row("recording", 0, 0, 1, FALSE, FALSE) BY Zenon DEF Row, RecRows, Statuses
<1>2. /\ serving' \in [RecHandlers -> RecTasks] /\ \A g \in RecHandlers \ {h} : serving'[g] = serving[g]
      /\ \A g \in RecHandlers : serving'[g].pc # "idle" => serving'[g].id \in Recs
      /\ serving'[h].pc = "read" /\ serving'[h].id = r
  BY <1>0, GotoIs
<1>3. /\ rec' \in [Recs -> RecRows] /\ \A k \in Recs \ {r} : rec'[k] = rec[k]
      /\ rec'[r].status = "recording" /\ rec'[r].preview = 0 /\ rec'[r].updated = 1 /\ ~rec'[r].expired
  <2>1. row.status = "recording" /\ row.preview = 0 /\ row.updated = 1 /\ ~row.expired BY <1>1 DEF Row
  <2> QED BY Zenon, <1>0, <1>1, <2>1, Changes
<1>4. RecTyped' BY Zenon, <1>0, <1>2, <1>3 DEF RecTyped
<1>5. Elsewhere(r) BY SMTT(30), <1>0, <1>2, <1>3 DEF Elsewhere
<1>6. RecMutex' BY SMTT(30), <1>0, <1>2, MutexStays
<1>7. RoomStep
  <2>1. ~Reserved(r)' BY <1>3 DEF Reserved, Counted
  <2> QED BY SMTT(30), <1>0, <1>4, <1>5, <2>1, RoomOfOne
<1>8. RowOK(r)'
  <2>0. shown[r].updated = 0 BY <1>0 DEF Fresh
  <2>1. Exists(r)' /\ shown[r].updated < rec'[r].updated BY <1>3, <2>0 DEF Exists
  <2>2. Told(r)' BY Zenon, <1>0, <1>2, <1>4, <2>1, ToldByRead
  <2> QED BY SMTT(30), <1>3, <2>2 DEF RowOK, Fresh, Flags, Downloadable
<1>9. ASSUME NEW g \in RecHandlers, serving'[g].pc # "idle", serving'[g].id = r PROVE TaskOK(g)'
  <2>1. g = h BY SMTT(30), <1>0, <1>2, <1>9 DEF Fresh
  <2> QED BY SMTT(30), <1>2, <2>1 DEF TaskOK
<1> QED BY ZenonT(40), <1>4, <1>5, <1>6, <1>7, <1>8, <1>9, OneRow

(* A change that the handler will read and announce.                       *)
LEMMA ChangeKeeps ==
  ASSUME RecInv, NEW h \in RecHandlers, NEW r \in Recs, Known(r),
         NEW status \in Statuses, NEW size \in Nat, NEW preview \in Nat, NEW expired \in BOOLEAN,
         rec' = [rec EXCEPT ![r] = Row(status, size, preview, rec[r].updated + 1, rec[r].stale, expired)],
         Proceed(h, "read", r), UNCHANGED <<work, final, allowance, shown, highest, torn>>,
         serving[h].pc = "idle" \/ serving[h].id = r, serving[h].pc \notin {"read", "emit"},
         \A g \in RecHandlers \ {h} : serving[g].pc \notin {"commit", "erase"},
         status \in {"uploading", "ready", "local_only"}, preview # 0 => status = "ready",
         status = "ready" => final[r] = size \/ r \in torn,
         RecTyped' /\ Elsewhere(r) => RoomStep
  PROVE  Kept
<1>0. RecTyped /\ RecMutex /\ RowOK(r) /\ rec[r].updated \in Nat /\ rec[r].stale \in BOOLEAN
  <2>1. rec[r] \in RecRows BY Zenon DEF RecInv, RecTyped
  <2>2. rec[r].updated \in Nat BY <2>1 DEF RecRows
  <2>3. rec[r].stale \in BOOLEAN BY Zenon, <2>1 DEF RecRows
  <2> QED BY <2>2, <2>3 DEF RecInv
<1>1. PICK row \in RecRows : row = Row(status, size, preview, rec[r].updated + 1, rec[r].stale, expired)
  <2>1. PICK u \in Nat : u = rec[r].updated + 1 BY <1>0
  <2>2. PICK stale \in BOOLEAN : stale = rec[r].stale BY <1>0
  <2>3. Row(status, size, preview, u, stale, expired) \in RecRows BY Zenon DEF Row, RecRows
  <2> QED BY SMTT(30), <2>1, <2>2, <2>3
<1>2. /\ serving' \in [RecHandlers -> RecTasks] /\ \A g \in RecHandlers \ {h} : serving'[g] = serving[g]
      /\ \A g \in RecHandlers : serving'[g].pc # "idle" => serving'[g].id \in Recs
      /\ serving'[h].pc = "read" /\ serving'[h].id = r
  BY Zenon, <1>0, GotoIs
<1>3. /\ rec' \in [Recs -> RecRows] /\ \A k \in Recs \ {r} : rec'[k] = rec[k]
      /\ rec'[r].status = status /\ rec'[r].preview = preview /\ rec'[r].updated = rec[r].updated + 1
      /\ rec'[r].size = size
  <2>1. row.status = status /\ row.preview = preview /\ row.updated = rec[r].updated + 1 /\ row.size = size
    BY SMTT(30), <1>1 DEF Row
  <2> QED BY Zenon, <1>0, <1>1, <2>1, Changes
<1>4. RecTyped' BY SMTT(30), <1>0, <1>2, <1>3 DEF RecTyped
<1>5. Elsewhere(r) BY <1>2, <1>3 DEF Elsewhere
<1>6. RecMutex' BY Zenon, <1>0, <1>2, MutexStays
<1>7. RoomStep BY Zenon, <1>4, <1>5
<1>8. RowOK(r)'
  <2>1. Exists(r)' BY ZenonT(40), <1>3 DEF Exists
  <2>2. shown[r].updated < rec'[r].updated
    BY <1>0, <1>3 DEF RowOK, Told, Agrees, RecTyped
  <2>3. Told(r)' BY Zenon, <1>0, <1>2, <1>4, <2>1, <2>2, ToldByRead
  <2> QED BY Zenon, <1>3, <2>3 DEF RowOK, Fresh, Flags, Downloadable
<1>9. ASSUME NEW g \in RecHandlers, serving'[g].pc # "idle", serving'[g].id = r PROVE TaskOK(g)'
  <2>1. CASE g = h BY Zenon, <1>2, <2>1 DEF TaskOK
  <2>2. CASE g # h
    <3>1. serving'[g] = serving[g] /\ serving[g].pc \notin {"commit", "erase"} BY ZenonT(40), <1>2, <2>2
    <3>2. Onward(r) BY <1>0, <1>3 DEF Onward
    <3> QED BY Zenon, <1>4, <1>9, <3>1, <3>2, OldTasks
  <2> QED BY Zenon, <2>1, <2>2
<1> QED BY SMTT(30), <1>4, <1>5, <1>6, <1>7, <1>8, <1>9, OneRow

LEMMA StopKeeps ==
  ASSUME RecInv, NEW h \in RecHandlers, NEW r \in Recs, NEW size \in Sizes, NEW localOnly \in BOOLEAN,
         Stop(h, r, size, localOnly)
  PROVE  Kept
<1> DEFINE kept == localOnly \/ size > MaxFileBytes \/ size = 0
           status == IF kept THEN "local_only" ELSE "uploading"
           bytes == IF kept THEN 0 ELSE size
<1>0. /\ serving[h].pc = "idle" /\ RecordingsFree /\ Get(r) /\ rec[r].status # "ready" /\ RecTyped /\ RowOK(r)
      /\ ~kept => used(r) + size <= allowance
      /\ rec' = [rec EXCEPT ![r] = Row(status, bytes, @.preview, @.updated + 1, @.stale, FALSE)]
      /\ Proceed(h, "read", r)
      /\ UNCHANGED <<work, final, allowance, shown, highest, torn>>
  BY SMTT(30), IdleIs DEF Stop, Become, Later, Issue, history, RecInv
<1> HIDE DEF kept
<1>1. Known(r) /\ rec[r].preview = 0 BY <1>0 DEF Known, Get, Exists, RowOK, Flags
<1>2. status \in Statuses /\ bytes \in Nat /\ status \in {"uploading", "local_only"}
  BY Zenon, RecordingsAssumption DEF Statuses
<1>3. rec' = [rec EXCEPT ![r] = Row(status, bytes, 0, rec[r].updated + 1, rec[r].stale, FALSE)]
  BY <1>0, <1>1
<1>4. ASSUME RecTyped', Elsewhere(r) PROVE RoomStep
  <2>1. rec'[r].status = status /\ rec'[r].size = bytes /\ rec'[r].preview = 0 BY SMTT(30), <1>0, <1>3 DEF RecTyped, Row
  <2>2. CASE kept
    <3>1. ~Reserved(r)' BY Zenon, <2>1, <2>2 DEF Reserved, Counted
    <3> QED BY <1>0, <1>4, <3>1, RoomOfOne
  <2>3. CASE ~kept
    <3>1. Weight'[r] = size BY SMTT(30), <1>2, <2>1, <2>3 DEF Weight
    <3> QED BY Zenon, <1>0, <1>4, <2>3, <3>1, RoomForOne
  <2> QED BY Zenon, <2>2, <2>3
<1>5. \A g \in RecHandlers \ {h} : serving[g].pc \notin {"commit", "erase"} BY <1>0 DEF RecordingsFree
<1>6. PICK st \in Statuses, b \in Nat, none \in Nat, no \in BOOLEAN : st = status /\ b = bytes /\ none = 0 /\ no = FALSE
  BY Zenon, <1>2
<1> HIDE DEF status, bytes
<1>7. /\ st \in {"uploading", "ready", "local_only"} /\ none = 0 /\ st # "ready"
      /\ rec' = [rec EXCEPT ![r] = Row(st, b, none, rec[r].updated + 1, rec[r].stale, no)]
  BY Zenon, <1>2, <1>3, <1>6
<1>8. RecTyped' /\ Elsewhere(r) => RoomStep BY <1>4
<1> QED BY ZenonT(40), <1>0, <1>1, <1>5, <1>7, <1>8, ChangeKeeps

(* A handler that changes no row and had nothing to tell.                  *)
LEMMA Quiet ==
  ASSUME RecInv, NEW h \in RecHandlers, UNCHANGED <<work, rec, final, allowance, shown, highest, torn>>,
         \/ serving[h].pc \in {"idle", "preview", "commit"}
         \/ serving[h].pc = "read" /\ ~Get(serving[h].id),
         serving' \in [RecHandlers -> RecTasks], \A g \in RecHandlers \ {h} : serving'[g] = serving[g],
         \A g \in RecHandlers : serving'[g].pc # "idle" => serving'[g].id \in Recs,
         serving'[h].pc \in {"idle", "preview", "read"},
         serving'[h].pc # "idle" => rec[serving'[h].id].status # "none"
  PROVE  Kept
<1>1. RecTyped' BY Zenon DEF RecInv, RecTyped
<1>2. RecMutex' BY Zenon, MutexStays DEF RecInv
<1>3. RoomStep
  <2>1. ASSUME NEW k \in Recs, Reserved(k)' PROVE Reserved(k) /\ Weight'[k] = Weight[k]
    BY <2>1 DEF Reserved, Counted, Weight
  <2>2. highest <= highest' BY DEF RecInv, RecTyped
  <2> QED BY Zenon, <2>1, <2>2 DEF RoomStep, NoneAdmitted
<1>4. ASSUME NEW k \in Recs PROVE RowOK(k)'
  <2>1. RowOK(k) BY Zenon DEF RecInv
  <2>2. \A g \in RecHandlers : Coming(k, g) => serving'[g] = serving[g] BY Zenon DEF Coming
  <2>3. Told(k)'
    <3>1. Told(k) BY Zenon, <2>1 DEF RowOK
    <3> QED BY Zenon, <2>2, <3>1, ToldStays
  <2>4. Fresh(k)' BY Zenon, <2>1 DEF RowOK, Fresh
  <2>5. Flags(k)' BY Zenon, <2>1 DEF RowOK, Flags
  <2>6. Downloadable(k)' BY Zenon, <2>1 DEF RowOK, Downloadable
  <2> QED BY Zenon, <2>3, <2>4, <2>5, <2>6 DEF RowOK
<1>5. ASSUME NEW g \in RecHandlers, serving'[g].pc # "idle" PROVE TaskOK(g)'
  <2>1. CASE g = h BY Zenon, <2>1 DEF TaskOK
  <2>2. CASE g # h
    <3>1. serving'[g] = serving[g] /\ TaskOK(g) BY <1>5, <2>2 DEF RecInv
    <3> QED BY Zenon, <3>1 DEF TaskOK, Agrees, Known, Exists
  <2> QED BY Zenon, <2>1, <2>2
<1> QED BY Zenon, <1>1, <1>2, <1>3, <1>4, <1>5 DEF RecInv, Kept

LEMMA StorePreviewKeeps == ASSUME RecInv, NEW h \in RecHandlers, StorePreview(h) PROVE Kept
<1>0. serving[h].pc = "preview" /\ RecordingsFree /\ RecTyped /\ UNCHANGED <<work, final, allowance, shown, highest, torn>>
  BY DEF StorePreview, RecInv, recordingFiles, recordingBounds, history
<1>1. PICK r \in Recs : r = serving[h].id /\ RowOK(r) BY Zenon, <1>0 DEF RecInv, RecTyped
<1>2. CASE ~(Finished(h) /\ UNCHANGED rec)
  <2>1. /\ Get(r) /\ rec[r].status = "ready" /\ used(r) + (rec[r].size + PreviewBytes) <= allowance
        /\ rec' = [rec EXCEPT ![r] = Row(@.status, @.size, PreviewBytes, @.updated + 1, @.stale, @.expired)]
        /\ Proceed(h, "read", r)
    BY <1>1, <1>2 DEF StorePreview, Later
  <2>2. PICK p \in Nat, st \in Statuses : p = PreviewBytes /\ st = "ready"
    BY RecordingsAssumption DEF Statuses
  <2>3. PICK size \in Nat : size = rec[r].size BY <1>0 DEF RecTyped, RecRows
  <2>4. PICK expired \in BOOLEAN : expired = rec[r].expired
    <3>1. rec[r] \in RecRows BY <1>0 DEF RecTyped
    <3> QED BY Zenon, <3>1 DEF RecRows
  <2>5. rec' = [rec EXCEPT ![r] = Row(st, size, p, rec[r].updated + 1, rec[r].stale, expired)]
    BY <2>1, <2>2, <2>3, <2>4
  <2>6. ASSUME RecTyped', Elsewhere(r) PROVE RoomStep
    <3>1. rec'[r].size = size /\ rec'[r].preview = p BY <1>0, <2>5 DEF RecTyped, Row
    <3>2. Weight'[r] = size + p BY <3>1 DEF Weight
    <3>3. used(r) + Weight'[r] <= allowance
      <4>1. used(r) + (size + p) <= allowance BY <2>1, <2>2, <2>3
      <4> QED BY <3>2, <4>1
    <3> QED BY Zenon, <1>0, <2>6, <3>3, RoomForOne
  <2>7. RecTyped' /\ Elsewhere(r) => RoomStep BY <2>6
  <2>8. \A g \in RecHandlers \ {h} : serving[g].pc \notin {"commit", "erase"} BY Zenon, <1>0 DEF RecordingsFree
  <2>9. final[r] = size \/ r \in torn
    <3>1. \A g \in RecHandlers : serving[g].pc # "erase" BY Zenon, <1>0 DEF RecordingsFree
    <3> QED BY <1>1, <2>1, <2>3, <3>1 DEF RowOK, Downloadable
  <2>10. Known(r) /\ serving[h].id = r /\ serving[h].pc \notin {"read", "emit"} BY <1>0, <1>1, <2>1 DEF Known, Get
  <2>11. st \in {"uploading", "ready", "local_only"} /\ st = "ready" BY <2>2
  <2>12. Proceed(h, "read", r) BY Zenon, <2>1
  <2> QED BY ZenonT(40), <1>0, <2>5, <2>7, <2>8, <2>9, <2>10, <2>11, <2>12, ChangeKeeps
<1>3. CASE Finished(h) /\ UNCHANGED rec
  <2>1. /\ serving' \in [RecHandlers -> RecTasks] /\ \A g \in RecHandlers \ {h} : serving'[g] = serving[g]
        /\ \A g \in RecHandlers : serving'[g].pc # "idle" => serving'[g].id \in Recs
        /\ serving'[h].pc = "idle"
    BY Zenon, <1>0, <1>3, Finishes
  <2> QED BY Zenon, <1>0, <1>3, <2>1, Quiet
<1> QED BY Zenon, <1>2, <1>3

LEMMA SavePreviewKeeps == ASSUME RecInv, NEW h \in RecHandlers, NEW r \in Recs, SavePreview(h, r) PROVE Kept
<1>0. /\ serving[h].pc = "idle" /\ RecTyped /\ rec[r].status = "ready" /\ Proceed(h, "preview", r)
      /\ UNCHANGED <<work, rec, final, allowance, shown, highest, torn>>
  BY Zenon, IdleIs DEF SavePreview, Issue, recordingFiles, history, RecInv
<1>1. /\ serving' \in [RecHandlers -> RecTasks] /\ \A g \in RecHandlers \ {h} : serving'[g] = serving[g]
      /\ \A g \in RecHandlers : serving'[g].pc # "idle" => serving'[g].id \in Recs
      /\ serving'[h].pc = "preview" /\ serving'[h].id = r
  BY <1>0, GotoIs
<1> QED BY Zenon, <1>0, <1>1, Quiet

LEMMA ReadKeeps == ASSUME RecInv, NEW h \in RecHandlers, Read(h) PROVE Kept
<1>0. serving[h].pc = "read" /\ RecTyped /\ RecMutex /\ UNCHANGED <<work, rec, final, allowance, shown, highest, torn>>
  BY Zenon DEF Read, recordingFiles, recordingBounds, history, RecInv
<1>1. PICK r \in Recs : r = serving[h].id /\ RowOK(r) BY Zenon, <1>0 DEF RecInv, RecTyped
<1>2. CASE ~Get(r)
  <2>1. Finished(h) BY Zenon, <1>1, <1>2 DEF Read
  <2>2. /\ serving' \in [RecHandlers -> RecTasks] /\ \A g \in RecHandlers \ {h} : serving'[g] = serving[g]
        /\ \A g \in RecHandlers : serving'[g].pc # "idle" => serving'[g].id \in Recs
        /\ serving'[h].pc = "idle"
    BY Zenon, <1>0, <2>1, Finishes
  <2> QED BY Zenon, <1>0, <1>1, <1>2, <2>2, Quiet
<1>3. CASE Get(r)
  <2>1. serving' = [serving EXCEPT ![h] = TaskAt("emit", r, rec[r].status, rec[r].updated)] BY Zenon, <1>1, <1>3 DEF Read
  <2>2. PICK task \in RecTasks : task = TaskAt("emit", r, rec[r].status, rec[r].updated)
    <3>1. rec[r].status \in Statuses /\ rec[r].updated \in Nat BY <1>0 DEF RecTyped, RecRows
    <3> QED BY Zenon, <3>1 DEF TaskAt, RecTasks
  <2>3. task.pc = "emit" /\ task.id = r /\ task.status = rec[r].status /\ task.updated = rec[r].updated BY <2>2 DEF TaskAt
  <2>4. /\ serving' \in [RecHandlers -> RecTasks] /\ \A g \in RecHandlers \ {h} : serving'[g] = serving[g]
        /\ \A g \in RecHandlers : serving'[g].pc # "idle" => serving'[g].id \in Recs
        /\ serving'[h] = task
    BY Zenon, <1>0, <2>1, <2>2, <2>3, Moves
  <2>5. RecTyped' BY SMTT(30), <1>0, <2>4 DEF RecTyped
  <2>6. Elsewhere(r) BY SMTT(30), <1>0, <1>1, <2>3, <2>4 DEF Elsewhere
  <2>7. RecMutex' BY <1>0, <2>3, <2>4, MutexStays
  <2>8. RoomStep
    <3>1. Reserved(r)' => Reserved(r) /\ Weight'[r] = Weight[r]
      BY <1>0, <2>3, <2>4 DEF Reserved, Counted, Weight
    <3> QED BY Zenon, <1>0, <2>5, <2>6, <3>1, RoomOfOne
  <2>9. RowOK(r)'
    <3>1. Coming(r, h)' BY Zenon, <1>0, <2>3, <2>4 DEF Coming
    <3>2. Told(r)' BY Zenon, <1>0, <1>1, <3>1 DEF RowOK, Told, Known, Exists, Agrees
    <3>3. rec'[r].status # "none" BY Zenon, <1>0, <1>3 DEF Get, Exists
    <3>4. Downloadable(r)' BY <1>0, <1>1, <2>4 DEF RowOK, Downloadable
    <3> QED BY Zenon, <1>0, <1>1, <3>2, <3>3, <3>4 DEF RowOK, Fresh, Flags
  <2>10. ASSUME NEW g \in RecHandlers, serving'[g].pc # "idle", serving'[g].id = r PROVE TaskOK(g)'
    <3>1. CASE g = h
      <4>1. rec[r].updated \in Nat BY Zenon, <1>0 DEF RecTyped, RecRows
      <4> QED BY <1>0, <2>3, <2>4, <3>1, <4>1 DEF TaskOK, Agrees
    <3>2. CASE g # h
      <4>1. serving'[g] = serving[g] BY Zenon, <2>4, <3>2
      <4>2. Onward(r) BY Zenon, <1>0 DEF Onward, Known, Exists
      <4> QED BY Zenon, <1>0, <2>5, <2>10, <4>1, <4>2, OldTasks
    <3> QED BY Zenon, <3>1, <3>2
  <2> QED BY Zenon, <2>5, <2>6, <2>7, <2>8, <2>9, <2>10, OneRow
<1> QED BY Zenon, <1>2, <1>3

LEMMA EmitKeeps == ASSUME RecInv, NEW h \in RecHandlers, emit(h) PROVE Kept
<1>0. /\ serving[h].pc = "emit" /\ RecTyped /\ RecMutex /\ Finished(h) /\ TaskOK(h)
      /\ UNCHANGED <<work, rec, final, allowance, highest, torn>>
  BY DEF emit, recordingFiles, recordingBounds, history, RecInv
<1>1. PICK r \in Recs : r = serving[h].id /\ RowOK(r) BY <1>0 DEF RecInv, RecTyped
<1>2. PICK st \in Statuses, u \in Nat : st = serving[h].status /\ u = serving[h].updated BY <1>0 DEF RecTyped, RecTasks
<1>3. PICK was \in [status : Statuses, updated : Nat] : was = shown[r] BY Zenon, <1>0 DEF RecTyped
<1>4. shown' = [shown EXCEPT ![r] = IF u > was.updated THEN [status |-> st, updated |-> u] ELSE was]
  BY Zenon, <1>1, <1>2, <1>3 DEF emit, Keep
<1>5. /\ shown' \in [Recs -> [status : Statuses, updated : Nat]] /\ \A k \in Recs \ {r} : shown'[k] = shown[k]
      /\ shown'[r] = IF u > was.updated THEN [status |-> st, updated |-> u] ELSE was
  BY Zenon, <1>0, <1>4 DEF RecTyped
<1>6. /\ serving' \in [RecHandlers -> RecTasks] /\ \A g \in RecHandlers \ {h} : serving'[g] = serving[g]
      /\ \A g \in RecHandlers : serving'[g].pc # "idle" => serving'[g].id \in Recs
      /\ serving'[h].pc = "idle"
  BY Zenon, <1>0, Finishes
<1>7. RecTyped' BY Zenon, <1>0, <1>5, <1>6 DEF RecTyped
<1>8. Elsewhere(r) BY Zenon, <1>0, <1>1, <1>5, <1>6 DEF Elsewhere
<1>9. RecMutex' BY Zenon, <1>0, <1>6, MutexStays
<1>10. RoomStep
  <2>1. Reserved(r)' => Reserved(r) /\ Weight'[r] = Weight[r]
    BY Zenon, <1>0, <1>6 DEF Reserved, Counted, Weight
  <2> QED BY Zenon, <1>0, <1>7, <1>8, <2>1, RoomOfOne
<1>11. Told(r)'
  <2>0. rec[r].updated \in Nat /\ was.updated \in Nat BY Zenon, <1>0, <1>3 DEF RecTyped, RecRows
  <2>1. SUFFICES ASSUME Known(r) PROVE Told(r)'
    BY Zenon, <1>0 DEF Told, Known, Get, Exists
  <2>2. Agrees(r, st, u) /\ Agrees(r, was.status, was.updated)
    BY ZenonT(40), <1>0, <1>1, <1>2, <1>3, <2>1 DEF TaskOK, RowOK, Told
  <2>3. Agrees(r, shown[r].status, shown[r].updated)' BY SMTT(30), <1>0, <1>5, <2>2 DEF Agrees
  <2>4. ASSUME was = [status |-> rec[r].status, updated |-> rec[r].updated] PROVE shown'[r] = was
    BY SMTT(30), <1>2, <1>5, <2>0, <2>2, <2>4 DEF Agrees
  <2>5. ASSUME Coming(r, h) PROVE shown'[r] = [status |-> rec[r].status, updated |-> rec[r].updated]
    <3>1. st = rec[r].status /\ u = rec[r].updated BY <1>0, <1>2, <2>5 DEF Coming
    <3>2. CASE u > was.updated BY Zenon, <1>5, <3>1, <3>2
    <3>3. CASE ~(u > was.updated)
      <4>1. was.updated = rec[r].updated /\ was.status = rec[r].status
        BY <1>2, <2>0, <2>2, <3>1, <3>3 DEF Agrees
      <4> QED BY Zenon, <1>5, <3>3, <4>1
    <3> QED BY SMTT(30), <3>2, <3>3
  <2>6. \A g \in RecHandlers \ {h} : Coming(r, g) => Coming(r, g)' BY Zenon, <1>0, <1>6 DEF Coming, Get, Exists
  <2> QED BY Zenon, <1>0, <1>1, <1>3, <2>3, <2>4, <2>5, <2>6 DEF RowOK, Told, Get, Exists
<1>12. RowOK(r)'
  <2>1. rec'[r].status # "none" BY Zenon, <1>0, <1>1 DEF RowOK, Fresh
  <2>2. Downloadable(r)' BY Zenon, <1>0, <1>1, <1>6 DEF RowOK, Downloadable
  <2> QED BY Zenon, <1>0, <1>1, <1>11, <2>1, <2>2 DEF RowOK, Fresh, Flags
<1>13. ASSUME NEW g \in RecHandlers, serving'[g].pc # "idle", serving'[g].id = r PROVE TaskOK(g)'
  <2>1. serving'[g] = serving[g] BY Zenon, <1>6, <1>13
  <2>2. Onward(r) BY Zenon, <1>0 DEF Onward, Known, Exists
  <2> QED BY Zenon, <1>0, <1>7, <1>13, <2>1, <2>2, OldTasks
<1> QED BY ZenonT(40), <1>7, <1>8, <1>9, <1>10, <1>12, <1>13, OneRow

LEMMA CommitKeeps == ASSUME RecInv, NEW h \in RecHandlers, Commit(h) PROVE Kept
<1>0. serving[h].pc = "commit" /\ RecTyped /\ RecMutex /\ TaskOK(h) /\ UNCHANGED <<work, final, allowance, shown, highest, torn>>
  BY Zenon DEF Commit, Answered, Lost, RecInv, recordingFiles, recordingBounds, history
<1>1. PICK r \in Recs : r = serving[h].id /\ RowOK(r) BY Zenon, <1>0 DEF RecInv, RecTyped
<1>2. final[r] = rec[r].size /\ rec[r].status \in {"uploading", "gone"} BY Zenon, <1>0, <1>1 DEF TaskOK
<1>3. CASE Exists(r) /\ Become(r, "ready", rec[r].size) /\ Proceed(h, "read", r)
  <2>1. Known(r) /\ rec[r].status = "uploading" /\ rec[r].preview = 0
    BY Zenon, <1>1, <1>2, <1>3 DEF Known, Exists, RowOK, Flags
  <2>2. PICK st \in Statuses, size \in Nat, none \in Nat, no \in BOOLEAN :
          st = "ready" /\ size = rec[r].size /\ none = 0 /\ no = FALSE
    BY Zenon, <1>0 DEF RecTyped, RecRows, Statuses
  <2>3. rec' = [rec EXCEPT ![r] = Row(st, size, none, rec[r].updated + 1, rec[r].stale, no)]
    BY Zenon, <1>3, <2>1, <2>2 DEF Become, Later
  <2>4. ASSUME RecTyped', Elsewhere(r) PROVE RoomStep
    <3>1. rec'[r].size = rec[r].size /\ rec'[r].preview = rec[r].preview BY ZenonT(40), <1>0, <2>1, <2>2, <2>3 DEF RecTyped, Row
    <3>2. Weight'[r] = Weight[r] /\ Reserved(r) BY <1>0, <1>1, <2>1, <3>1 DEF Weight, Reserved
    <3> QED BY <1>0, <2>4, <3>2, RoomOfOne
  <2>5. RecTyped' /\ Elsewhere(r) => RoomStep BY Zenon, <2>4
  <2>6. \A g \in RecHandlers \ {h} : serving[g].pc \notin {"commit", "erase"} BY <1>0 DEF RecMutex
  <2>7. final[r] = size /\ st \in {"uploading", "ready", "local_only"} /\ st = "ready" BY Zenon, <1>2, <2>2
  <2>8. serving[h].id = r /\ serving[h].pc \notin {"read", "emit"} /\ Known(r) /\ Proceed(h, "read", r) BY Zenon, <1>0, <1>1, <1>3, <2>1
  <2> QED BY Zenon, <1>0, <2>3, <2>5, <2>6, <2>7, <2>8, ChangeKeeps
<1>4. CASE UNCHANGED rec /\ Proceed(h, "read", r)
  <2>1. /\ serving' \in [RecHandlers -> RecTasks] /\ \A g \in RecHandlers \ {h} : serving'[g] = serving[g]
        /\ \A g \in RecHandlers : serving'[g].pc # "idle" => serving'[g].id \in Recs
        /\ serving'[h].pc = "read" /\ serving'[h].id = r
    BY Zenon, <1>0, <1>4, GotoIs
  <2> QED BY Zenon, <1>0, <1>2, <1>4, <2>1, Quiet
<1>5. CASE UNCHANGED rec /\ Finished(h)
  <2>1. /\ serving' \in [RecHandlers -> RecTasks] /\ \A g \in RecHandlers \ {h} : serving'[g] = serving[g]
        /\ \A g \in RecHandlers : serving'[g].pc # "idle" => serving'[g].id \in Recs
        /\ serving'[h].pc = "idle"
    BY Zenon, <1>0, <1>5, Finishes
  <2> QED BY Zenon, <1>0, <1>5, <2>1, Quiet
<1> QED BY Zenon, <1>1, <1>3, <1>4, <1>5 DEF Commit

(* The first half of a removal: the files go.                              *)
LEMMA RemovalStarts ==
  ASSUME RecInv, NEW h \in RecHandlers, NEW r \in Recs, NEW task \in RecTasks, serving[h].pc = "idle", RecordingsFree, Exists(r),
         task.pc = "erase", task.id = r, task.status \in {"deleted", "gone"},
         task.status = "deleted" => task.updated = rec[r].updated + 1,
         final' = [final EXCEPT ![r] = None], serving' = [serving EXCEPT ![h] = task],
         UNCHANGED <<work, rec, allowance, shown, highest, torn>>
  PROVE  Kept
<1>0. RecTyped /\ RecMutex /\ RowOK(r) BY Zenon DEF RecInv
<1>1. /\ serving' \in [RecHandlers -> RecTasks] /\ \A g \in RecHandlers \ {h} : serving'[g] = serving[g]
      /\ \A g \in RecHandlers : serving'[g].pc # "idle" => serving'[g].id \in Recs
      /\ serving'[h] = task
  BY Zenon, <1>0, Moves
<1>2. final' \in [Recs -> Int] /\ \A k \in Recs \ {r} : final'[k] = final[k] BY SMTT(30), <1>0 DEF RecTyped, None
<1>3. RecTyped' BY <1>0, <1>1, <1>2 DEF RecTyped
<1>4. Elsewhere(r) BY Zenon, <1>1, <1>2 DEF Elsewhere
<1>5. RecMutex' BY Zenon, <1>0, <1>1, MutexStays
<1>6. RoomStep
  <2>1. Reserved(r)' => Reserved(r) /\ Weight'[r] = Weight[r]
    BY Zenon, <1>1 DEF Reserved, Counted, Weight
  <2> QED BY Zenon, <1>3, <1>4, <2>1, RoomOfOne
<1>7. RowOK(r)'
  <2>1. \A g \in RecHandlers : Coming(r, g) => serving'[g] = serving[g] BY Zenon, <1>1 DEF Coming
  <2>2. Told(r)' BY Zenon, <1>0, <2>1, ToldStays DEF RowOK
  <2>3. Downloadable(r)' BY Zenon, <1>1 DEF Downloadable
  <2>4. Fresh(r)' BY Zenon DEF Fresh, Exists
  <2> QED BY Zenon, <1>0, <2>2, <2>3, <2>4 DEF RowOK, Flags
<1>8. ASSUME NEW g \in RecHandlers, serving'[g].pc # "idle", serving'[g].id = r PROVE TaskOK(g)'
  <2>1. CASE g = h BY Zenon, <1>1, <2>1 DEF TaskOK, Exists
  <2>2. CASE g # h
    <3>1. serving'[g] = serving[g] /\ serving[g].pc \notin {"commit", "erase"} BY Zenon, <1>1, <2>2 DEF RecordingsFree
    <3>2. Onward(r) BY Zenon DEF Onward, Known, Exists
    <3> QED BY Zenon, <1>3, <1>8, <3>1, <3>2, OldTasks
  <2> QED BY Zenon, <2>1, <2>2
<1> QED BY Zenon, <1>3, <1>4, <1>5, <1>6, <1>7, <1>8, OneRow

LEMMA DeleteKeeps == ASSUME RecInv, NEW h \in RecHandlers, NEW r \in Recs, delete(h, r) PROVE Kept
<1>0. /\ serving[h].pc = "idle" /\ RecordingsFree /\ Exists(r) /\ final' = [final EXCEPT ![r] = None]
      /\ serving' = [serving EXCEPT ![h] = TaskAt("erase", r, "deleted", rec[r].updated + 1)]
      /\ UNCHANGED <<work, rec, allowance, shown, highest, torn>>
  BY IdleIs DEF delete, Issue, RemoveFiles, Get, Later, history
<1>1. PICK u \in Nat : u = rec[r].updated + 1 BY DEF RecInv, RecTyped, RecRows
<1>2. PICK task \in RecTasks : task = TaskAt("erase", r, "deleted", u) BY Zenon DEF TaskAt, RecTasks, Statuses
<1>3. task.pc = "erase" /\ task.id = r /\ task.status = "deleted" /\ task.updated = rec[r].updated + 1
  BY <1>1, <1>2 DEF TaskAt
<1>4. serving' = [serving EXCEPT ![h] = task] BY Zenon, <1>0, <1>1, <1>2
<1> QED BY ZenonT(40), <1>0, <1>3, <1>4, RemovalStarts

LEMMA CleanupExpiredKeeps == ASSUME RecInv, NEW h \in RecHandlers, NEW r \in Recs, CleanupExpired(h, r) PROVE Kept
<1>0. /\ serving[h].pc = "idle" /\ RecordingsFree /\ Exists(r) /\ final' = [final EXCEPT ![r] = None]
      /\ serving' = [serving EXCEPT ![h] = TaskAt("erase", r, "gone", 0)]
      /\ UNCHANGED <<work, rec, allowance, shown, highest, torn>>
  BY IdleIs DEF CleanupExpired, RemoveFiles, history, recordingBounds
<1>2. PICK task \in RecTasks : task = TaskAt("erase", r, "gone", 0) BY Zenon DEF TaskAt, RecTasks, Statuses
<1>3. task.pc = "erase" /\ task.id = r /\ task.status = "gone" BY <1>2 DEF TaskAt
<1>4. serving' = [serving EXCEPT ![h] = task] BY SMTT(30), <1>0, <1>2
<1> QED BY Zenon, <1>0, <1>3, <1>4, RemovalStarts

(* The second half: the row goes, or the statement fails.                  *)
LEMMA EraseKeeps == ASSUME RecInv, NEW h \in RecHandlers, Erase(h) PROVE Kept
<1>0. serving[h].pc = "erase" /\ RecTyped /\ RecMutex /\ TaskOK(h) /\ UNCHANGED <<work, final, allowance, shown, highest>>
  BY Zenon DEF Erase, RecInv, recordingFiles, recordingBounds
<1>1. PICK r \in Recs : r = serving[h].id /\ RowOK(r) BY Zenon, <1>0 DEF RecInv, RecTyped
<1>2. PICK st \in {"deleted", "gone"}, u \in Nat : st = serving[h].status /\ u = serving[h].updated
  BY Zenon, <1>0 DEF TaskOK, RecTyped, RecTasks
<1>3. rec[r].status \notin {"deleted", "none"} /\ (st = "deleted" => u = rec[r].updated + 1)
  BY Zenon, <1>0, <1>1, <1>2 DEF TaskOK, RowOK, Fresh
<1>4. rec[r].status = "gone" \/ Exists(r) BY Zenon, <1>0, <1>3 DEF Exists, RecTyped, RecRows, Statuses
<1> DEFINE Failed == rec'[r] = rec[r] /\ r \in torn' /\ serving'[h].pc = "idle"
           Gone == rec'[r].status = "gone" /\ (serving'[h].pc # "idle" => serving'[h].pc = "emit" /\ serving'[h].id = r)
           Deleted == /\ Exists(r) /\ rec'[r].status = "deleted" /\ rec'[r].updated = rec[r].updated + 1
                      /\ serving'[h].pc = "emit" /\ serving'[h].id = r
                      /\ serving'[h].status = "deleted" /\ serving'[h].updated = rec[r].updated + 1
<1>5. /\ serving' \in [RecHandlers -> RecTasks] /\ \A g \in RecHandlers \ {h} : serving'[g] = serving[g]
      /\ \A g \in RecHandlers : serving'[g].pc # "idle" => serving'[g].id \in Recs
      /\ rec' \in [Recs -> RecRows] /\ \A k \in Recs \ {r} : rec'[k] = rec[k]
      /\ torn \subseteq torn'
      /\ Failed \/ Gone \/ Deleted
  <2>1. CASE rec' = rec /\ torn' = torn \cup {r} /\ Finished(h)
    <3>1. /\ serving' \in [RecHandlers -> RecTasks] /\ \A g \in RecHandlers \ {h} : serving'[g] = serving[g]
          /\ \A g \in RecHandlers : serving'[g].pc # "idle" => serving'[g].id \in Recs
          /\ serving'[h].pc = "idle"
      BY Zenon, <1>0, <2>1, Finishes
    <3> QED BY Zenon, <1>0, <2>1, <3>1 DEF RecTyped
  <2>2. CASE /\ IF Exists(r) THEN rec' = [rec EXCEPT ![r] = Row(st, @.size, @.preview, u, @.stale, @.expired)] ELSE rec' = rec
             /\ IF st = "deleted" THEN serving' = [serving EXCEPT ![h] = TaskAt("emit", r, "deleted", u)] ELSE Finished(h)
             /\ torn' = torn
    <3>1. /\ serving' \in [RecHandlers -> RecTasks] /\ \A g \in RecHandlers \ {h} : serving'[g] = serving[g]
          /\ \A g \in RecHandlers : serving'[g].pc # "idle" => serving'[g].id \in Recs
          /\ \/ st = "gone" /\ serving'[h].pc = "idle"
             \/ /\ st = "deleted" /\ serving'[h].pc = "emit" /\ serving'[h].id = r
                /\ serving'[h].status = "deleted" /\ serving'[h].updated = u
      <4>1. CASE st = "deleted"
        <5>1. PICK task \in RecTasks : task = TaskAt("emit", r, "deleted", u) BY Zenon DEF TaskAt, RecTasks, Statuses
        <5>2. task.pc = "emit" /\ task.id = r /\ task.status = "deleted" /\ task.updated = u BY <5>1 DEF TaskAt
        <5>3. serving' = [serving EXCEPT ![h] = task] BY <2>2, <4>1, <5>1
        <5> QED BY Zenon, <1>0, <4>1, <5>2, <5>3, Moves
      <4>2. CASE st = "gone" BY Zenon, <1>0, <2>2, <4>2, Finishes
      <4> QED BY Zenon, <4>1, <4>2
    <3>2. /\ rec' \in [Recs -> RecRows] /\ \A k \in Recs \ {r} : rec'[k] = rec[k]
          /\ \/ rec'[r].status = "gone" /\ rec[r].status = "gone"
             \/ Exists(r) /\ rec'[r].status = st /\ rec'[r].updated = u
      <4>1. CASE Exists(r)
        <5>1. rec[r] \in RecRows BY <1>0 DEF RecTyped
        <5>2. PICK size \in Nat, preview \in Nat : size = rec[r].size /\ preview = rec[r].preview BY <5>1 DEF RecRows
        <5>3. PICK stale \in BOOLEAN, expired \in BOOLEAN : stale = rec[r].stale /\ expired = rec[r].expired
          BY Zenon, <5>1 DEF RecRows
        <5>4. st \in Statuses BY DEF Statuses
        <5>5. PICK row \in RecRows : row = Row(st, size, preview, u, stale, expired) BY Zenon, <5>4 DEF Row, RecRows
        <5>6. row.status = st /\ row.updated = u BY SMTT(30), <5>5 DEF Row
        <5>7. rec' = [rec EXCEPT ![r] = row] BY SMTT(30), <2>2, <4>1, <5>2, <5>3, <5>5
        <5> QED BY Zenon, <1>0, <4>1, <5>6, <5>7, Changes
      <4>2. CASE ~Exists(r) BY SMTT(30), <1>0, <1>4, <2>2, <4>2 DEF RecTyped
      <4> QED BY Zenon, <4>1, <4>2
    <3>3. torn \subseteq torn' BY Zenon, <2>2
    <3>4. CASE st = "gone"
      <4>1. Gone BY Zenon, <3>1, <3>2, <3>4
      <4> QED BY Zenon, <3>1, <3>2, <3>3, <4>1
    <3>5. CASE st = "deleted"
      <4>1. Gone \/ Deleted BY Zenon, <1>3, <3>1, <3>2, <3>5
      <4> QED BY Zenon, <3>1, <3>2, <3>3, <4>1
    <3> QED BY Zenon, <3>4, <3>5
  <2>3. \/ rec' = rec /\ torn' = torn \cup {r} /\ Finished(h)
        \/ /\ IF Exists(r) THEN rec' = [rec EXCEPT ![r] = Row(st, @.size, @.preview, u, @.stale, @.expired)] ELSE rec' = rec
           /\ IF st = "deleted" THEN serving' = [serving EXCEPT ![h] = TaskAt("emit", r, "deleted", u)] ELSE Finished(h)
           /\ torn' = torn
    BY Zenon, <1>1, <1>2 DEF Erase
  <2> QED BY Zenon, <2>1, <2>2, <2>3
<1>6. \A g \in RecHandlers \ {h} : serving[g].pc \notin {"commit", "erase"} BY Zenon, <1>0 DEF RecMutex
<1>7. RecTyped' BY Zenon, <1>0, <1>5 DEF RecTyped
<1>8. Elsewhere(r) BY Zenon, <1>0, <1>1, <1>5 DEF Elsewhere
<1>9. RecMutex' BY Zenon, <1>0, <1>5, MutexStays
<1>10. RoomStep
  <2>1. Reserved(r)' => Reserved(r) /\ Weight'[r] = Weight[r]
    BY Zenon, <1>5 DEF Reserved, Counted, Weight
  <2> QED BY Zenon, <1>0, <1>7, <1>8, <2>1, RoomOfOne
<1>11. rec[r].updated \in Nat /\ shown[r].updated \in Nat BY Zenon, <1>0 DEF RecTyped, RecRows
<1>12. RowOK(r)'
  <2>1. CASE Failed
    <3>1. \A g \in RecHandlers : Coming(r, g) => serving'[g] = serving[g] BY Zenon, <1>0, <1>5 DEF Coming
    <3>2. Told(r)' BY Zenon, <1>0, <1>1, <2>1, <3>1, ToldStays DEF RowOK
    <3>3. Downloadable(r)' BY Zenon, <2>1 DEF Downloadable
    <3>4. Fresh(r)' BY Zenon, <1>3, <2>1 DEF Fresh
    <3> QED BY Zenon, <1>1, <2>1, <3>2, <3>3, <3>4 DEF RowOK, Flags
  <2>2. CASE Gone BY Zenon, <2>2 DEF RowOK, Fresh, Flags, Downloadable, Told, Known, Get, Exists
  <2>3. CASE Deleted
    <3>1. Fresh(r)' /\ Flags(r)' /\ Downloadable(r)' BY Zenon, <2>3 DEF Fresh, Flags, Downloadable
    <3>2. Coming(r, h)' BY Zenon, <2>3 DEF Coming
    <3>3. Agrees(r, shown[r].status, shown[r].updated) BY Zenon, <1>1, <2>3 DEF RowOK, Told, Known
    <3>4. Agrees(r, shown[r].status, shown[r].updated)' BY <1>0, <1>11, <2>3, <3>3 DEF Agrees
    <3> QED BY Zenon, <3>1, <3>2, <3>4 DEF RowOK, Told
  <2> QED BY Zenon, <1>5, <2>1, <2>2, <2>3
<1>13. ASSUME NEW g \in RecHandlers, serving'[g].pc # "idle", serving'[g].id = r PROVE TaskOK(g)'
  <2>1. CASE g = h BY SMTT(30), <1>5, <1>11, <1>13, <2>1 DEF TaskOK, Agrees, Known, Exists
  <2>2. CASE g # h
    <3>1. serving'[g] = serving[g] /\ serving[g].pc \notin {"commit", "erase"} BY SMTT(30), <1>5, <1>6, <2>2
    <3>2. Onward(r) BY <1>5, <1>11 DEF Onward, Known, Exists
    <3> QED BY SMTT(30), <1>7, <1>13, <3>1, <3>2, OldTasks
  <2> QED BY ZenonT(40), <2>1, <2>2
<1> QED BY SMTT(30), <1>7, <1>8, <1>9, <1>10, <1>12, <1>13, OneRow

LEMMA Still == ASSUME RecInv, UNCHANGED <<work, rec, final, allowance, serving, shown, highest, torn>> PROVE Kept
<1>1. RecTyped' BY Zenon DEF RecInv, RecTyped
<1>2. RecMutex' BY Zenon DEF RecInv, RecMutex
<1>3. RoomStep
  <2>1. \A r \in Recs : Reserved(r)' => Reserved(r) /\ Weight'[r] = Weight[r] BY Zenon DEF Reserved, Counted, Weight
  <2>2. highest <= highest' BY DEF RecInv, RecTyped
  <2> QED BY Zenon, <2>1, <2>2 DEF RoomStep, NoneAdmitted
<1>4. ASSUME NEW r \in Recs PROVE RowOK(r)'
  <2>1. RowOK(r) BY Zenon DEF RecInv
  <2>2. Told(r)' BY Zenon, <2>1, ToldStays DEF RowOK
  <2>3. Fresh(r)' /\ Flags(r)' /\ Downloadable(r)' BY ZenonT(40), <2>1 DEF RowOK, Fresh, Flags, Downloadable
  <2> QED BY Zenon, <2>2, <2>3 DEF RowOK
<1>5. ASSUME NEW h \in RecHandlers, serving'[h].pc # "idle" PROVE TaskOK(h)'
  BY <1>5 DEF RecInv, TaskOK, Known, Exists, Agrees
<1> QED BY Zenon, <1>1, <1>2, <1>3, <1>4, <1>5 DEF RecInv, Kept

LEMMA UploadKeeps == ASSUME RecInv, NEW r \in Recs, Offset(r) \/ Append(r) \/ LateAppend(r) PROVE Kept
<1>1. CASE Offset(r) BY Zenon, <1>1, Still DEF Offset, Answered, Lost, recordingFiles, recordingBounds, history
<1>2. CASE Append(r) BY Zenon, <1>2, Still DEF Append, Answered, Lost, recordingBounds, history
<1>3. CASE LateAppend(r) BY <1>3, Still DEF LateAppend, history
<1> QED BY Zenon, <1>1, <1>2, <1>3

LEMMA CompleteKeeps == ASSUME RecInv, NEW h \in RecHandlers, NEW r \in Recs, Complete(h, r) PROVE Kept
<1>0. /\ serving[h].pc = "idle" /\ RecordingsFree /\ RecTyped /\ RecMutex /\ RowOK(r)
      /\ UNCHANGED <<work, rec, allowance, shown, highest, torn>>
  BY Zenon, IdleIs DEF Complete, Answered, RecInv, recordingBounds, history
<1>1. CASE ~(Uploads(r) /\ Whole(r)) BY Zenon, <1>0, <1>1, Still DEF Complete, recordingFiles
<1>2. CASE Uploads(r) /\ Whole(r)
  <2>1. /\ Get(r) /\ rec[r].status = "uploading" /\ final' = [final EXCEPT ![r] = rec[r].size] /\ Proceed(h, "commit", r)
    BY Zenon, <1>2 DEF Complete, Uploads, Whole
  <2>2. /\ serving' \in [RecHandlers -> RecTasks] /\ \A g \in RecHandlers \ {h} : serving'[g] = serving[g]
        /\ \A g \in RecHandlers : serving'[g].pc # "idle" => serving'[g].id \in Recs
        /\ serving'[h].pc = "commit" /\ serving'[h].id = r
    BY Zenon, <1>0, <2>1, GotoIs
  <2>3. final' \in [Recs -> Int] /\ (\A k \in Recs \ {r} : final'[k] = final[k]) /\ final'[r] = rec[r].size
    <3>1. rec[r].size \in Int BY <1>0 DEF RecTyped, RecRows
    <3> QED BY Zenon, <1>0, <2>1, <3>1 DEF RecTyped
  <2>4. RecTyped' BY Zenon, <1>0, <2>2, <2>3 DEF RecTyped
  <2>5. Elsewhere(r) BY Zenon, <1>0, <2>2, <2>3 DEF Elsewhere
  <2>6. RecMutex' BY Zenon, <1>0, <2>2, MutexStays
  <2>7. RoomStep
    <3>1. Reserved(r) /\ Weight'[r] = Weight[r] BY Zenon, <1>0, <2>1 DEF Reserved, Counted, Weight, Get
    <3> QED BY Zenon, <1>0, <2>4, <2>5, <3>1, RoomOfOne
  <2>8. RowOK(r)'
    <3>1. \A g \in RecHandlers : Coming(r, g) => serving'[g] = serving[g] BY Zenon, <1>0, <2>2 DEF Coming
    <3>2. Told(r)' BY Zenon, <1>0, <3>1, ToldStays DEF RowOK
    <3> QED BY Zenon, <1>0, <2>1, <3>2 DEF RowOK, Fresh, Flags, Downloadable
  <2>9. ASSUME NEW g \in RecHandlers, serving'[g].pc # "idle", serving'[g].id = r PROVE TaskOK(g)'
    <3>1. CASE g = h BY Zenon, <1>0, <2>1, <2>2, <2>3, <3>1 DEF TaskOK
    <3>2. CASE g # h
      <4>1. serving'[g] = serving[g] /\ serving[g].pc \notin {"commit", "erase"} BY Zenon, <1>0, <2>2, <3>2 DEF RecordingsFree
      <4>2. Onward(r) BY Zenon, <1>0 DEF Onward, Known, Exists
      <4> QED BY Zenon, <2>4, <2>9, <4>1, <4>2, OldTasks
    <3> QED BY Zenon, <3>1, <3>2
  <2> QED BY Zenon, <2>4, <2>5, <2>6, <2>7, <2>8, <2>9, OneRow
<1> QED BY Zenon, <1>1, <1>2

(* A row is marked, or goes with its channel.                              *)
LEMMA Touched ==
  ASSUME RecInv, NEW r \in Recs, Exists(r), NEW row \in RecRows, rec' = [rec EXCEPT ![r] = row],
         row.size = rec[r].size, row.preview = rec[r].preview, row.updated = rec[r].updated,
         row.status \in {rec[r].status, "gone"}, row.expired = rec[r].expired \/ row.expired,
         row.status = "recording" => ~row.expired,
         UNCHANGED <<work, final, allowance, serving, shown, highest, torn>>
  PROVE  Kept
<1>0. RecTyped /\ RecMutex /\ RowOK(r) BY Zenon DEF RecInv
<1>1. rec' \in [Recs -> RecRows] /\ rec'[r] = row /\ \A k \in Recs \ {r} : rec'[k] = rec[k] BY Zenon, <1>0, Changes
<1>2. RecTyped' BY <1>0, <1>1 DEF RecTyped
<1>3. Elsewhere(r) BY Zenon, <1>1 DEF Elsewhere
<1>4. RecMutex' BY Zenon, <1>0 DEF RecMutex
<1>5. RoomStep
  <2>1. Reserved(r)' => Reserved(r) /\ Weight'[r] = Weight[r] BY Zenon, <1>1 DEF Reserved, Counted, Weight
  <2> QED BY Zenon, <1>2, <1>3, <2>1, RoomOfOne
<1>6. RowOK(r)'
  <2>1. CASE row.status = "gone" BY Zenon, <1>1, <2>1 DEF RowOK, Fresh, Flags, Told, Downloadable, Known, Get, Exists
  <2>2. CASE row.status = rec[r].status
    <3>1. Told(r)' BY Zenon, <1>0, <1>1, <2>2, ToldStays DEF RowOK
    <3>2. Fresh(r)' /\ Downloadable(r)' BY Zenon, <1>0, <1>1, <2>2 DEF RowOK, Fresh, Downloadable, Exists
    <3>3. Flags(r)' BY Zenon, <1>0, <1>1, <2>2 DEF RowOK, Flags
    <3> QED BY Zenon, <3>1, <3>2, <3>3 DEF RowOK
  <2> QED BY Zenon, <2>1, <2>2
<1>7. ASSUME NEW g \in RecHandlers, serving'[g].pc # "idle", serving'[g].id = r PROVE TaskOK(g)'
  <2>1. Onward(r) BY Zenon, <1>1 DEF Onward, Known, Exists
  <2> QED BY Zenon, <1>1, <1>2, <1>7, <2>1, OldTasks
<1> QED BY Zenon, <1>2, <1>3, <1>4, <1>5, <1>6, <1>7, OneRow

LEMMA MarksKeep == ASSUME RecInv, NEW r \in Recs, Heartbeat(r) \/ Cascade(r) \/ Stale(r) \/ Expire(r) PROVE Kept
<1>0. /\ Exists(r) /\ UNCHANGED <<work, final, allowance, serving, shown, highest, torn>>
  BY DEF Heartbeat, Cascade, Stale, Expire, Issue, Get, Exists, recordingFiles, recordingBounds, history
<1>1. rec \in [Recs -> RecRows] /\ rec[r] \in RecRows BY SMTT(30) DEF RecInv, RecTyped
<1>2. \E row \in RecRows : /\ rec' = [rec EXCEPT ![r] = row]
                           /\ row.size = rec[r].size /\ row.preview = rec[r].preview /\ row.updated = rec[r].updated
                           /\ row.status \in {rec[r].status, "gone"} /\ (row.expired = rec[r].expired \/ row.expired)
                           /\ row.status = "recording" => ~row.expired
  <2>1. CASE Heartbeat(r) \/ Stale(r)
    <3>1. PICK b \in BOOLEAN : rec' = [rec EXCEPT ![r].stale = b] BY Zenon, <2>1 DEF Heartbeat, Stale
    <3>2. PICK row : row = [rec[r] EXCEPT !.stale = b] BY Zenon
    <3>3. row \in RecRows BY <1>1, <3>2 DEF RecRows
    <3>4. row.size = rec[r].size /\ row.preview = rec[r].preview /\ row.updated = rec[r].updated
          /\ row.status = rec[r].status /\ row.expired = rec[r].expired
      BY <1>1, <3>2 DEF RecRows
    <3>5. rec' = [rec EXCEPT ![r] = row] BY SMTT(30), <1>1, <3>1, <3>2
    <3>6. rec[r].status = "recording" => ~rec[r].expired BY DEF RecInv, RowOK, Flags
    <3> QED BY Zenon, <3>3, <3>4, <3>5, <3>6
  <2>2. CASE Cascade(r)
    <3>1. rec' = [rec EXCEPT ![r].status = "gone"] BY <2>2 DEF Cascade
    <3>2. PICK row : row = [rec[r] EXCEPT !.status = "gone"] BY Zenon
    <3>3. row \in RecRows BY <1>1, <3>2 DEF RecRows, Statuses
    <3>4. row.size = rec[r].size /\ row.preview = rec[r].preview /\ row.updated = rec[r].updated
          /\ row.status = "gone" /\ row.expired = rec[r].expired
      BY <1>1, <3>2 DEF RecRows
    <3>5. rec' = [rec EXCEPT ![r] = row] BY <1>1, <3>1, <3>2
    <3> QED BY Zenon, <3>3, <3>4, <3>5
  <2>3. CASE Expire(r)
    <3>1. rec' = [rec EXCEPT ![r].expired = TRUE] /\ rec[r].status # "recording" BY <2>3 DEF Expire
    <3>2. PICK row : row = [rec[r] EXCEPT !.expired = TRUE] BY Zenon
    <3>3. row \in RecRows BY Zenon, <1>1, <3>2 DEF RecRows
    <3>4. row.size = rec[r].size /\ row.preview = rec[r].preview /\ row.updated = rec[r].updated
          /\ row.status = rec[r].status /\ row.expired
      BY <1>1, <3>2 DEF RecRows
    <3>5. rec' = [rec EXCEPT ![r] = row] BY SMTT(30), <1>1, <3>1, <3>2
    <3> QED BY Zenon, <3>1, <3>3, <3>4, <3>5
  <2> QED BY <2>1, <2>2, <2>3
<1> QED BY Zenon, <1>0, <1>2, Touched

LEMMA CleanupStaleKeeps == ASSUME RecInv, NEW r \in Recs, CleanupStale(r) PROVE Kept
<1>0. /\ RecordingsFree /\ rec[r].status = "recording" /\ RecTyped /\ RecMutex /\ RowOK(r)
      /\ rec' = [rec EXCEPT ![r] = Row("failed", rec[r].size, @.preview, @.updated + 1, @.stale, FALSE)]
      /\ Keep(r, "failed", rec[r].updated + 1)
      /\ UNCHANGED <<work, final, allowance, serving, highest, torn>>
  BY Zenon DEF CleanupStale, Become, Later, RecInv, recordingFiles, recordingBounds, history
<1>1. rec[r] \in RecRows BY Zenon, <1>0 DEF RecTyped
<1>2. PICK size \in Nat, preview \in Nat, u \in Nat : size = rec[r].size /\ preview = rec[r].preview /\ u = rec[r].updated
  BY <1>1 DEF RecRows
<1>3. PICK stale \in BOOLEAN : stale = rec[r].stale BY Zenon, <1>1 DEF RecRows
<1>4. PICK row \in RecRows : row = Row("failed", size, preview, u + 1, stale, FALSE)
  <2>1. PICK v \in Nat : v = u + 1 OBVIOUS
  <2>2. \A no \in BOOLEAN : Row("failed", size, preview, v, stale, no) \in RecRows BY DEF Row, RecRows, Statuses
  <2>3. Row("failed", size, preview, v, stale, FALSE) \in RecRows BY Zenon, <2>2
  <2> QED BY Zenon, <2>1, <2>3
<1>5. row.status = "failed" /\ row.updated = u + 1 /\ row.preview = preview BY <1>4 DEF Row
<1>6. rec' = [rec EXCEPT ![r] = row] BY Zenon, <1>0, <1>2, <1>3, <1>4
<1>7. /\ rec' \in [Recs -> RecRows] /\ \A k \in Recs \ {r} : rec'[k] = rec[k]
      /\ rec'[r].status = "failed" /\ rec'[r].updated = u + 1 /\ rec'[r].preview = preview
  BY Zenon, <1>0, <1>5, <1>6, Changes
<1>8. /\ shown' \in [Recs -> [status : Statuses, updated : Nat]] /\ \A k \in Recs \ {r} : shown'[k] = shown[k]
      /\ shown'[r] = [status |-> "failed", updated |-> u + 1]
  <2>1. shown[r] \in [status : Statuses, updated : Nat] BY <1>0 DEF RecTyped
  <2>2. shown[r].updated <= u BY Zenon, <1>0, <1>2 DEF RowOK, Told, Known, Exists, Agrees
  <2>3. u + 1 > shown[r].updated BY <2>1, <2>2
  <2>4. shown' = [shown EXCEPT ![r] = [status |-> "failed", updated |-> u + 1]]
    BY Zenon, <1>0, <1>2, <2>3 DEF Keep
  <2> QED BY <1>0, <2>4 DEF RecTyped, Statuses
<1>9. RecTyped' BY Zenon, <1>0, <1>7, <1>8 DEF RecTyped
<1>10. Elsewhere(r) BY Zenon, <1>0, <1>7, <1>8 DEF Elsewhere
<1>11. RecMutex' BY Zenon, <1>0 DEF RecMutex
<1>12. RoomStep
  <2>1. ~Reserved(r)' BY Zenon, <1>7 DEF Reserved, Counted
  <2> QED BY Zenon, <1>0, <1>9, <1>10, <2>1, RoomOfOne
<1>13. RowOK(r)'
  <2>0. rec'[r].updated \in Nat BY SMTT(30), <1>7
  <2>1. Told(r)' BY SMTT(30), <1>7, <1>8, <2>0 DEF Told, Agrees
  <2>2. rec[r].preview = 0 BY SMTT(30), <1>0 DEF RowOK, Flags
  <2> QED BY Zenon, <1>2, <1>7, <2>1, <2>2 DEF RowOK, Fresh, Flags, Downloadable
<1>14. ASSUME NEW g \in RecHandlers, serving'[g].pc # "idle", serving'[g].id = r PROVE TaskOK(g)'
  <2>1. serving'[g] = serving[g] /\ serving[g].pc \notin {"commit", "erase"} BY <1>0 DEF RecordingsFree
  <2>2. rec[r].status = "recording" /\ rec[r].updated = u /\ rec'[r].updated = u + 1 BY Zenon, <1>0, <1>2, <1>7
  <2>3. rec'[r].updated > rec[r].updated /\ Known(r) BY SMTT(30), <2>2 DEF Known, Exists
  <2>4. Onward(r) BY SMTT(30), <2>3 DEF Onward
  <2> QED BY SMTT(30), <1>9, <1>14, <2>1, <2>4, OldTasks
<1> QED BY SMTT(30), <1>9, <1>10, <1>11, <1>12, <1>13, <1>14, OneRow

LEMMA CleanupOrphansKeeps == ASSUME RecInv, NEW r \in Recs, CleanupOrphans(r) PROVE Kept
<1>0. /\ RecordingsFree /\ ~Exists(r) /\ RecTyped /\ RecMutex /\ RowOK(r) /\ final' = [final EXCEPT ![r] = None]
      /\ UNCHANGED <<work, rec, allowance, serving, shown, highest, torn>>
  BY Zenon DEF CleanupOrphans, RemoveFiles, RecInv, recordingBounds, history
<1>1. final' \in [Recs -> Int] /\ \A k \in Recs \ {r} : final'[k] = final[k] BY <1>0 DEF RecTyped, None
<1>2. RecTyped' BY Zenon, <1>0, <1>1 DEF RecTyped
<1>3. Elsewhere(r) BY Zenon, <1>0, <1>1 DEF Elsewhere
<1>4. RecMutex' BY Zenon, <1>0 DEF RecMutex
<1>5. RoomStep
  <2>1. Reserved(r)' => Reserved(r) /\ Weight'[r] = Weight[r] BY Zenon, <1>0 DEF Reserved, Counted, Weight
  <2> QED BY Zenon, <1>0, <1>2, <1>3, <2>1, RoomOfOne
<1>6. RowOK(r)'
  <2>1. Told(r)' BY Zenon, <1>0, ToldStays DEF RowOK
  <2>2. Fresh(r)' /\ Flags(r)' BY Zenon, <1>0 DEF RowOK, Fresh, Flags
  <2>3. Downloadable(r)' BY Zenon, <1>0 DEF Downloadable, Exists
  <2> QED BY Zenon, <2>1, <2>2, <2>3 DEF RowOK
<1>7. ASSUME NEW g \in RecHandlers, serving'[g].pc # "idle", serving'[g].id = r PROVE TaskOK(g)'
  <2>1. serving'[g] = serving[g] /\ serving[g].pc \notin {"commit", "erase"} BY Zenon, <1>0 DEF RecordingsFree
  <2>2. Onward(r) BY Zenon, <1>0 DEF Onward, Known, Exists
  <2> QED BY Zenon, <1>2, <1>7, <2>1, <2>2, OldTasks
<1> QED BY SMTT(30), <1>2, <1>3, <1>4, <1>5, <1>6, <1>7, OneRow

LEMMA SetQuotaKeeps == ASSUME RecInv, NEW q \in Allowances, SetQuota(q) PROVE Kept
<1>0. RecTyped /\ q \in Nat /\ allowance' = q /\ highest' = Max({highest, q}) /\ UNCHANGED <<work, rec, final, serving, shown, torn>>
  BY RecordingsAssumption DEF SetQuota, Issue, recordingFiles, RecInv
<1>1. highest \in Nat /\ highest' \in Nat /\ highest <= highest' /\ q <= highest'
  <2>1. highest \in Nat BY Zenon, <1>0 DEF RecTyped
  <2>2. \E x \in {highest, q} : \A y \in {highest, q} : x >= y BY <1>0, <2>1
  <2>3. highest' \in {highest, q} /\ \A y \in {highest, q} : highest' >= y BY Zenon, <1>0, <2>2 DEF Max
  <2> QED BY Zenon, <1>0, <2>1, <2>3
<1>2. RecTyped' BY Zenon, <1>0, <1>1 DEF RecTyped
<1>3. RecMutex' BY Zenon, <1>0 DEF RecInv, RecMutex
<1>4. RoomStep
  <2>1. \A r \in Recs : Reserved(r)' => Reserved(r) /\ Weight'[r] = Weight[r] BY <1>0 DEF Reserved, Counted, Weight
  <2> QED BY Zenon, <1>1, <2>1 DEF RoomStep, NoneAdmitted
<1>5. ASSUME NEW r \in Recs PROVE RowOK(r)'
  <2>1. RowOK(r) BY Zenon DEF RecInv
  <2>2. Told(r)' BY Zenon, <1>0, <2>1, ToldStays DEF RowOK
  <2>3. Fresh(r)' /\ Flags(r)' /\ Downloadable(r)' BY Zenon, <1>0, <2>1 DEF RowOK, Fresh, Flags, Downloadable
  <2> QED BY Zenon, <2>2, <2>3 DEF RowOK
<1>6. ASSUME NEW h \in RecHandlers, serving'[h].pc # "idle" PROVE TaskOK(h)'
  BY Zenon, <1>0, <1>6 DEF RecInv, TaskOK, Known, Exists, Agrees
<1> QED BY ZenonT(40), <1>2, <1>3, <1>4, <1>5, <1>6 DEF RecInv, Kept

(* The process dies: whoever removed files left a torn row, and the        *)
(* clients list the recordings again.                                      *)
LEMMA CrashKeeps == ASSUME RecInv, Restart PROVE Kept
<1>0. RecTyped /\ UNCHANGED <<work, final, allowance, highest>> /\ serving' = [h \in RecHandlers |-> NoTask]
  BY Zenon DEF Restart, RecInv, recordingFiles
<1>1. \A h \in RecHandlers : serving'[h] = NoTask /\ serving'[h].pc = "idle" BY <1>0, IdleIs
<1>2. serving' \in [RecHandlers -> RecTasks]
  <2>1. NoTask \in RecTasks BY Zenon DEF NoTask, TaskAt, RecTasks, Statuses
  <2> QED BY Zenon, <1>0, <2>1
<1>3. ASSUME NEW r \in Recs
      PROVE  /\ rec'[r] \in RecRows /\ shown'[r] \in [status : Statuses, updated : Nat]
             /\ shown'[r] = [status |-> rec'[r].status, updated |-> rec'[r].updated]
             /\ \/ rec[r].status # "recording" /\ rec'[r] = rec[r]
                \/ /\ rec[r].status = "recording" /\ rec'[r].status = "failed" /\ rec'[r].preview = 0
  <2>0. RowOK(r) /\ rec[r] \in RecRows BY Zenon, <1>0 DEF RecInv, RecTyped
  <2>1. CASE rec[r].status # "recording"
    <3>1. rec'[r] = rec[r] BY Zenon, <2>1 DEF Restart
    <3>2. shown'[r] = [status |-> rec'[r].status, updated |-> rec'[r].updated] BY Zenon, <3>1 DEF Restart
    <3>3. rec[r].status \in Statuses /\ rec[r].updated \in Nat BY Zenon, <2>0 DEF RecRows
    <3> QED BY <2>0, <2>1, <3>1, <3>2, <3>3
  <2>2. CASE rec[r].status = "recording"
    <3>1. rec'[r] = Row("failed", rec[r].size, rec[r].preview, rec[r].updated + 1, rec[r].stale, rec[r].expired)
      BY Zenon, <2>2 DEF Restart, Later
    <3>0. rec[r].size \in Nat /\ rec[r].updated \in Nat BY Zenon, <2>0 DEF RecRows
    <3>2. PICK size \in Nat, u \in Nat : size = rec[r].size /\ u = rec[r].updated + 1
      <4>1. rec[r].updated + 1 \in Nat BY <3>0
      <4> QED BY Zenon, <3>0, <4>1
    <3>3. PICK none \in Nat : none = 0 /\ rec[r].preview = none BY <2>0, <2>2 DEF RowOK, Flags
    <3>4. PICK stale \in BOOLEAN, expired \in BOOLEAN : stale = rec[r].stale /\ expired = rec[r].expired
      BY Zenon, <2>0 DEF RecRows
    <3>5. Row("failed", size, none, u, stale, expired) \in RecRows BY Zenon DEF Row, RecRows, Statuses
    <3>6. rec'[r] = Row("failed", size, none, u, stale, expired) BY Zenon, <3>1, <3>2, <3>3, <3>4
    <3>7. rec'[r].status = "failed" /\ rec'[r].preview = 0 /\ rec'[r].updated \in Nat BY <3>3, <3>6 DEF Row
    <3>8. Get(r) BY Zenon, <2>0, <2>2 DEF RowOK, Flags, Get, Exists
    <3>9. shown'[r] = [status |-> rec'[r].status, updated |-> rec'[r].updated] BY Zenon, <3>8 DEF Restart
    <3>10. shown'[r] \in [status : Statuses, updated : Nat] BY <3>7, <3>9 DEF Statuses
    <3> QED BY Zenon, <2>2, <3>5, <3>6, <3>7, <3>9, <3>10
  <2> QED BY Zenon, <2>1, <2>2
<1>4. rec' \in [Recs -> RecRows]
  <2>1. rec' = [r \in Recs |-> rec'[r]] BY Zenon DEF Restart
  <2> QED BY Zenon, <1>3, <2>1
<1>5. shown' \in [Recs -> [status : Statuses, updated : Nat]]
  <2>1. shown' = [r \in Recs |-> shown'[r]] BY Zenon DEF Restart
  <2> QED BY Zenon, <1>3, <2>1
<1>6. RecTyped' BY Zenon, <1>0, <1>1, <1>2, <1>4, <1>5 DEF RecTyped
<1>7. RecMutex' BY Zenon, <1>1 DEF RecMutex
<1>8. RoomStep
  <2>1. ASSUME NEW r \in Recs, Reserved(r)' PROVE Reserved(r) /\ Weight'[r] = Weight[r]
    <3>1. Counted(r)' BY Zenon, <1>1, <2>1 DEF Reserved
    <3>2. rec'[r] = rec[r] BY Zenon, <1>3, <3>1 DEF Counted
    <3> QED BY Zenon, <3>1, <3>2 DEF Reserved, Counted, Weight
  <2>2. highest <= highest' BY <1>0 DEF RecTyped
  <2> QED BY Zenon, <2>1, <2>2 DEF RoomStep, NoneAdmitted
<1>9. ASSUME NEW r \in Recs PROVE RowOK(r)'
  <2>0. RowOK(r) BY DEF RecInv
  <2>1. rec'[r].updated \in Nat BY ZenonT(40), <1>3 DEF RecRows
  <2>2. Told(r)' BY <1>3, <2>1 DEF Told, Agrees
  <2>3. Fresh(r)'
    <3>1. SUFFICES ASSUME rec'[r].status = "none" PROVE rec'[r] = NoRecord /\ shown'[r].updated = 0
      BY <1>1 DEF Fresh
    <3>2. rec'[r] = NoRecord BY Zenon, <1>3, <2>0, <3>1 DEF RowOK, Fresh
    <3>3. NoRecord.updated = 0 BY DEF NoRecord, Row
    <3>4. shown'[r] = [status |-> rec'[r].status, updated |-> rec'[r].updated] BY <1>3
    <3>5. shown'[r].updated = rec'[r].updated BY <3>4
    <3> QED BY SMTT(30), <3>2, <3>3, <3>5
  <2>4. Flags(r)' BY Zenon, <1>3, <2>0 DEF RowOK, Flags
  <2>5. Downloadable(r)'
    <3>1. SUFFICES ASSUME rec'[r].status = "ready" PROVE final'[r] = rec'[r].size \/ r \in torn' BY DEF Downloadable
    <3>2. rec'[r] = rec[r] BY Zenon, <1>3, <3>1
    <3>3. torn' = torn \cup {serving[h].id : h \in {g \in RecHandlers : serving[g].pc = "erase"}} BY Zenon DEF Restart
    <3>4. \/ final[r] = rec[r].size \/ r \in torn
          \/ \E h \in RecHandlers : serving[h].pc = "erase" /\ serving[h].id = r
      BY Zenon, <2>0, <3>1, <3>2 DEF RowOK, Downloadable
    <3> QED BY SMTT(30), <1>0, <3>2, <3>3, <3>4
  <2> QED BY <2>2, <2>3, <2>4, <2>5 DEF RowOK
<1> QED BY Zenon, <1>1, <1>6, <1>7, <1>8, <1>9 DEF RecInv, Kept

LEMMA RecInit == ASSUME RecordingsInit, Max(Allowances) \in Nat PROVE RecInv /\ \A r \in Recs : ~Reserved(r)
<1>2. NoRecord \in RecRows /\ NoRecord.status = "none" /\ NoRecord.preview = 0 BY Zenon DEF NoRecord, Row, RecRows, Statuses
<1>3. NoTask \in RecTasks BY Zenon DEF NoTask, TaskAt, RecTasks, Statuses
<1>4. \A h \in RecHandlers : serving[h].pc = "idle" BY Zenon, IdleIs DEF RecordingsInit
<1>5. \A r \in Recs : rec[r] = NoRecord /\ shown[r].updated = 0 BY Zenon DEF RecordingsInit
<1>6. RecTyped
  <2>1. [status |-> "none", updated |-> 0] \in [status : Statuses, updated : Nat] BY SMTT(30) DEF Statuses
  <2> QED BY SMTT(30), <1>2, <1>3, <1>4, <2>1 DEF RecordingsInit, RecTyped, None
<1>7. \A r \in Recs : ~Reserved(r) BY <1>2, <1>4, <1>5 DEF Reserved, Counted
<1>8. ASSUME NEW r \in Recs PROVE RowOK(r)
  BY Zenon, <1>2, <1>4, <1>5 DEF RowOK, Fresh, Flags, Told, Known, Get, Exists, Downloadable
<1> QED BY Zenon, <1>4, <1>6, <1>7, <1>8 DEF RecInv, RecMutex

LEMMA RecStep == ASSUME RecInv, RecordingsNext PROVE Kept
<1>0. work.recs \subseteq Recs BY Zenon, RecordingsAssumption DEF RecInv, RecTyped
<1>1. CASE RecordingRequest
  <2>1. CASE \E r \in work.recs, h \in RecHandlers :
               \/ Start(h, r) \/ SavePreview(h, r) \/ delete(h, r)
               \/ \E size \in Sizes, localOnly \in BOOLEAN : Stop(h, r, size, localOnly)
    BY ZenonT(40), <1>0, <2>1, StartKeeps, SavePreviewKeeps, DeleteKeeps, StopKeeps
  <2>2. CASE \E r \in work.recs : Heartbeat(r) \/ Cascade(r) \/ Expire(r) BY <1>0, <2>2, MarksKeep
  <2>3. CASE \E q \in Allowances : SetQuota(q) BY <2>3, SetQuotaKeeps
  <2> QED BY Zenon, <1>1, <2>1, <2>2, <2>3 DEF RecordingRequest
<1>2. CASE Cleanup BY <1>2, CleanupStaleKeeps, CleanupOrphansKeeps, CleanupExpiredKeeps DEF Cleanup
<1>3. CASE \E h \in RecHandlers : ServeRecording(h)
  BY Zenon, <1>3, ReadKeeps, EmitKeeps, CommitKeeps, StorePreviewKeeps, EraseKeeps DEF ServeRecording
<1>4. CASE \E r \in Recs : Upload(r) \/ LateAppend(r) \/ Stale(r)
  BY <1>4, UploadKeeps, CompleteKeeps, MarksKeep DEF Upload
<1> QED BY SMTT(30), <1>1, <1>2, <1>3, <1>4, CrashKeeps DEF RecordingsNext

LEMMA RecKept == ASSUME RecInv PROVE ReadyWhole /\ MembersCurrent
<1>1. ReadyWhole BY Zenon DEF RecInv, RowOK, Downloadable, ReadyWhole
<1>2. MembersCurrent
  <2>1. SUFFICES ASSUME \A h \in RecHandlers : serving[h] = NoTask, NEW r \in Recs, Get(r) \/ rec[r].status = "deleted"
                 PROVE  shown[r] = [status |-> rec[r].status, updated |-> rec[r].updated]
    BY Zenon DEF MembersCurrent
  <2>2. \A h \in RecHandlers : ~Coming(r, h) BY <2>1, IdleIs DEF Coming
  <2> QED BY Zenon, <2>1, <2>2 DEF RecInv, RowOK, Told
<1> QED BY Zenon, <1>1, <1>2


-----------------------------------------------------------------------------
(* How much is reserved. *)

Reservations == {r \in Recs : Reserved(r)}
RoomOK == Sum(Weight, Reservations) <= highest

LEMMA WeightIs == ASSUME rec \in [Recs -> RecRows] PROVE Weight \in [Recs -> Nat]
BY DEF Weight, RecRows

LEMMA ReservationsOK == Reservations \in SUBSET Recs /\ IsFiniteSet(Reservations)
<1>1. Reservations \in SUBSET Recs BY Zenon DEF Reservations
<1> QED BY Zenon, <1>1, FinitePart, RecordingsAssumption

(* No row gets heavier and no row is counted anew.                         *)
LEMMA ReservationsStay ==
  ASSUME RecInv, RoomOK, RecTyped', highest <= highest',
         \A r \in Recs : Reserved(r)' => Reserved(r) /\ Weight'[r] = Weight[r]
  PROVE  RoomOK'
<1>0. Weight \in [Recs -> Nat] /\ Weight' \in [Recs -> Nat]
  BY WeightIs DEF RecInv, RecTyped, Weight, RecRows
<1>1. Reservations \in SUBSET Recs /\ IsFiniteSet(Reservations) BY Zenon, ReservationsOK
<1>2. Reservations' \in SUBSET Reservations BY Zenon DEF Reservations
<1>3. IsFiniteSet(Reservations') BY Zenon, <1>1, <1>2, FinitePart
<1>4. \A r \in Reservations' : Weight'[r] = Weight[r] BY Zenon DEF Reservations
<1>5. Sum(Weight', Reservations') = Sum(Weight, Reservations') BY Zenon, <1>3, <1>4, SumSame
<1>6. Sum(Weight, Reservations') <= Sum(Weight, Reservations) BY Zenon, <1>0, <1>1, <1>2, SumSubset
<1>7. Sum(Weight, Reservations) \in Nat /\ Sum(Weight, Reservations') \in Nat
  <2>1. Reservations' \in SUBSET Recs BY Zenon, <1>1, <1>2
  <2> QED BY Zenon, <1>0, <1>1, <2>1, <1>3, SumNat
<1>8. Sum(Weight, Reservations) <= highest BY Zenon DEF RoomOK
<1>9. highest \in Nat /\ highest' \in Nat BY Zenon DEF RecInv, RecTyped
<1>10. Sum(Weight', Reservations') <= highest' BY SMTT(30), <1>5, <1>6, <1>7, <1>8, <1>9
<1> QED BY Zenon, <1>10 DEF RoomOK

(* One row is admitted beside the others.                                  *)
LEMMA ReservationTaken ==
  ASSUME RecInv, RecTyped', NEW r \in Recs, RecordingsFree,
         used(r) + Weight'[r] <= allowance, highest' = highest,
         \A k \in Recs \ {r} : Reserved(k)' => Counted(k) /\ Weight'[k] = Weight[k]
  PROVE  RoomOK'
<1> DEFINE Beside == {k \in Recs \ {r} : Counted(k)}
           Now == Reservations' \cup {r}
<1>0. Weight \in [Recs -> Nat] /\ Weight' \in [Recs -> Nat]
  BY WeightIs DEF RecInv, RecTyped, Weight, RecRows
<1>1. IsFiniteSet(Recs) BY ZenonT(40), RecordingsAssumption
<1>2. Now \in SUBSET Recs /\ Beside \in SUBSET Recs /\ Reservations' \in SUBSET Now /\ r \in Now
  BY SMTT(30) DEF Reservations
<1>3. IsFiniteSet(Now) /\ IsFiniteSet(Beside) BY SMTT(30), <1>1, <1>2, FinitePart
<1>4. Now \ {r} \in SUBSET Beside /\ \A k \in Now \ {r} : Weight'[k] = Weight[k] BY DEF Reservations
<1>5. used(r) = Sum(Weight, Beside)
  BY Zenon DEF used, Sum, MapThenSumSet, MapThenFoldSet
<1> HIDE DEF Now, Beside
<1>6. IsFiniteSet(Now \ {r}) BY SMTT(30), <1>3, <1>4, FinitePart
<1>7. Sum(Weight', Now) = Weight'[r] + Sum(Weight', Now \ {r})
  <2>1. Weight' \in [Recs -> Int] BY SMTT(30), <1>0
  <2> QED BY SMTT(30), <1>2, <1>3, <2>1, SumRemove
<1>8. Sum(Weight', Now \ {r}) = Sum(Weight, Now \ {r}) BY SMTT(30), <1>4, <1>6, SumSame
<1>9. Sum(Weight, Now \ {r}) <= Sum(Weight, Beside) BY SMTT(30), <1>0, <1>2, <1>3, <1>4, SumSubset
<1>10. Sum(Weight', Reservations') <= Sum(Weight', Now) BY SMTT(30), <1>0, <1>2, <1>3, SumSubset
<1>11. Sum(Weight, Beside) \in Nat /\ Weight'[r] \in Nat BY SMTT(30), <1>0, <1>2, <1>3, SumNat
<1>12. Now \ {r} \in SUBSET Recs /\ Reservations' \in SUBSET Recs BY SMTT(30), <1>2
<1>13. IsFiniteSet(Reservations') BY SMTT(30), <1>2, <1>3, FinitePart
<1>14. Sum(Weight, Now \ {r}) \in Nat /\ Sum(Weight', Reservations') \in Nat /\ Sum(Weight', Now) \in Nat
  BY SMTT(30), <1>0, <1>2, <1>3, <1>6, <1>12, <1>13, SumNat
<1>15. allowance \in Nat /\ highest \in Nat /\ allowance <= highest BY Zenon DEF RecInv, RecTyped
<1>16. Sum(Weight', Reservations') <= highest'
  BY SMTT(30), <1>5, <1>7, <1>8, <1>9, <1>10, <1>11, <1>14, <1>15
<1> QED BY ZenonT(40), <1>16 DEF RoomOK

LEMMA RoomKept == ASSUME RecInv, RoomOK, Kept PROVE RoomOK'
<1>1. RecTyped' BY Zenon DEF Kept, RecInv
<1>2. CASE NoneAdmitted BY Zenon, <1>1, <1>2, ReservationsStay DEF NoneAdmitted
<1>3. CASE \E r \in Recs : Admitted(r) BY Zenon, <1>1, <1>3, ReservationTaken DEF Admitted
<1> QED BY Zenon, <1>2, <1>3 DEF Kept, RoomStep

LEMMA RoomHolds == ASSUME RecInv, RoomOK PROVE AllowanceKept
<1> DEFINE Now == {r \in Recs : Counted(r)}
<1>1. Weight \in [Recs -> Nat] BY Zenon, WeightIs DEF RecInv, RecTyped
<1>2. Now \in SUBSET Reservations /\ Reservations \in SUBSET Recs /\ IsFiniteSet(Reservations)
  BY Zenon, ReservationsOK DEF Reservations, Reserved
<1>3. AllowanceKept <=> Sum(Weight, Now) <= highest
  BY Zenon DEF AllowanceKept, Sum, MapThenSumSet, MapThenFoldSet
<1> HIDE DEF Now
<1>4. IsFiniteSet(Now) BY Zenon, <1>2, FinitePart
<1>5. Sum(Weight, Now) <= Sum(Weight, Reservations) BY Zenon, <1>1, <1>2, SumSubset
<1>6. Now \in SUBSET Recs BY Zenon, <1>2
<1>7. Sum(Weight, Now) \in Nat /\ Sum(Weight, Reservations) \in Nat
  BY Zenon, <1>1, <1>2, <1>4, <1>6, SumNat
<1>8. highest \in Nat /\ Sum(Weight, Reservations) <= highest BY Zenon DEF RecInv, RecTyped, RoomOK
<1>9. Sum(Weight, Now) <= highest BY <1>5, <1>7, <1>8
<1> QED BY Zenon, <1>3, <1>9

-----------------------------------------------------------------------------
(* The theorem. *)

LEMMA RecordingsStart == ASSUME RecordingsInit PROVE RecInv /\ RoomOK
<1>1. Max(Allowances) \in Nat
  <2>1. \A n \in Allowances : n \in Nat BY Zenon, RecordingsAssumption
  <2> QED BY Zenon, <2>1, MaxNat, RecordingsAssumption
<1>2. RecInv /\ \A r \in Recs : ~Reserved(r) BY Zenon, <1>1, RecInit
<1>3. Reservations = {} BY Zenon, <1>2 DEF Reservations
<1>4. Sum(Weight, Reservations) = 0 BY <1>3, FS_EmptySet, SumUnfold
<1>5. highest \in Nat BY Zenon, <1>2 DEF RecInv, RecTyped
<1> QED BY <1>2, <1>4, <1>5 DEF RoomOK

LEMMA RecordingsRest == ASSUME RecInv, RoomOK, UNCHANGED recordings PROVE RecInv' /\ RoomOK'
<1>1. UNCHANGED <<rec, final, allowance, serving, shown, work, highest, torn>> BY DEF recordings, recordingFiles, recordingBounds, history
<1>2. RecInv'
  <2>1. RecTyped' BY Zenon, <1>1 DEF RecInv, RecTyped
  <2>2. RecMutex' BY Zenon, <1>1 DEF RecInv, RecMutex
  <2>3. ASSUME NEW r \in Recs PROVE RowOK(r)'
    <3>1. Fresh(r)' BY Zenon, <1>1 DEF RecInv, RowOK, Fresh
    <3>2. Flags(r)' BY Zenon, <1>1 DEF RecInv, RowOK, Flags
    <3>3. Told(r)' BY Zenon, <1>1 DEF RecInv, RowOK, Told, Known, Agrees, Coming, Get, Exists
    <3>4. Downloadable(r)' BY Zenon, <1>1 DEF RecInv, RowOK, Downloadable
    <3> QED BY Zenon, <3>1, <3>2, <3>3, <3>4 DEF RowOK
  <2>4. ASSUME NEW h \in RecHandlers, serving'[h].pc # "idle" PROVE TaskOK(h)'
    BY Zenon, <1>1, <2>4 DEF RecInv, TaskOK, Known, Agrees, Exists
  <2> QED BY Zenon, <2>1, <2>2, <2>3, <2>4 DEF RecInv
<1>3. RoomOK' BY Zenon, <1>1 DEF RoomOK, Reservations, Reserved, Counted, Weight
<1> QED BY Zenon, <1>2, <1>3

(* RecordingsTrue, for any number of recordings, requests, quotas, lost    *)
(* answers and crashes: a recording whose row is ready (service.go) has    *)
(* its file whole, the rows counted by Stop and by a preview stay within   *)
(* the largest quota there was, and when no request is under way a client  *)
(* has been told the last state of every row, although events are sent     *)
(* outside the mutex and overtake each other.                              *)
THEOREM RecordingsAreTrue == RecordingsSpec => []RecordingsTrue
<1>1. RecordingsInit => RecInv /\ RoomOK BY RecordingsStart
<1>2. RecInv /\ RoomOK /\ [RecordingsNext]_recordings => RecInv' /\ RoomOK'
  <2> SUFFICES ASSUME RecInv, RoomOK, [RecordingsNext]_recordings PROVE RecInv' /\ RoomOK' OBVIOUS
  <2>1. CASE RecordingsNext
    <3>1. Kept BY <2>1, RecStep
    <3>2. RoomOK' BY <3>1, RoomKept
    <3> QED BY <3>1, <3>2 DEF Kept
  <2>2. CASE UNCHANGED recordings BY <2>2, RecordingsRest
  <2> QED BY <2>1, <2>2
<1>3. RecInv /\ RoomOK => RecordingsTrue BY RecKept, RoomHolds DEF RecordingsTrue
<1> QED BY <1>1, <1>2, <1>3, PTL DEF RecordingsSpec
=============================================================================
