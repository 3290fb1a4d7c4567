-------------------------- MODULE AttachmentsProofs --------------------------
(***************************************************************************)
(* For every set of attachments, requests and sizes: an attachment that    *)
(* can be read is stored whole, kept for the scheduled message that        *)
(* carries it and within its category's allocation, whatever uploads,      *)
(* forwarded copies, clean-ups, maintenance and crashes do.                *)
(***************************************************************************)
EXTENDS Attachments, SumLemmas

-----------------------------------------------------------------------------
(* Attachments: the invariant. *)

(* Inside storagebudget.Mu, inside s.mu, and maintenance inside both. *)
Storing == {"insert", "copying", "insertCopy"}
Holding == {"insert", "publish", "removeThumb"}
Removing == {"removeFile", "removeThumb"}
JobHolds == job.pc \in {"remove", "removeThumb"}

RowTypes == [is : {"none", "live", "deleted"}, linked : BOOLEAN]
Pcs == {"idle", "body", "received", "decode", "tombstone"} \cup Storing \cup Holding \cup Removing
Procs == [pc : Pcs, id : Ids \cup {0}, temp : Temps \cup {0} \cup {CopyTemp(i) : i \in Ids}, rest : SUBSET Ids]
Jobs == [pc : {"idle", "candidates", "entry", "remove", "removeThumb"}, rest : SUBSET (Ids \cup Temps),
         candidates : SUBSET Ids]

AttachTyped ==
  /\ load \in Loads
  /\ jobs \subseteq Ids /\ open \subseteq Ids /\ gone \subseteq Ids
  /\ rows \in [Ids -> RowTypes] /\ files \in [Ids -> Nat] /\ thumbs \subseteq Ids /\ plan \subseteq Ids
  /\ quota \in [Categories -> Nat] /\ ceiling \in [Categories -> Nat]
  /\ proc \in [Handlers -> Procs] /\ job \in Jobs
  /\ \A h \in Handlers : proc[h].pc \notin {"idle", "tombstone"} => proc[h].id \in Ids
  /\ \A c \in Categories : quota[c] <= ceiling[c]
  /\ \A i \in Ids : rows[i].is = "none" => rows[i] = NoRow

(* Each mutex has one holder. *)
MutexOK ==
  /\ \A g, h \in Handlers : proc[g].pc \in Storing /\ proc[h].pc \in Storing => g = h
  /\ \A g, h \in Handlers : proc[g].pc \in Holding /\ proc[h].pc \in Holding => g = h
  /\ JobHolds => \A h \in Handlers : proc[h].pc \notin Storing \cup Holding

(* Nothing comes back: not the rows of a deleted destination, and not a    *)
(* file that a clean-up is removing.                                       *)
RemovedOK ==
  /\ \A i \in gone : rows[i] = NoRow /\ i \notin open
  /\ \A h \in Handlers : proc[h].pc \in Removing => rows[proc[h].id].is = "deleted" \/ proc[h].id \in gone
  /\ JobHolds => Min(job.rest) \in Ids /\ ~Live(Min(job.rest))

(* What is stored has no row yet, and room was left for it; when it can    *)
(* get one its file is complete.                                           *)
Fits(i) == Used(Category[i]) + Size[i] <= ceiling[Category[i]]
StoringOK ==
  \A h \in Handlers :
    /\ proc[h].pc \in Storing => ~Live(proc[h].id) /\ Fits(proc[h].id)
    /\ /\ proc[h].pc \in {"insert", "insertCopy"}
       /\ rows[proc[h].id] = NoRow /\ proc[h].id \notin gone
       => files[proc[h].id] = Size[proc[h].id]

(* The original of a thumbnail about to be published stays until it is.    *)
Kept(i) == /\ files[i] > 0
           /\ \/ Live(i)
              \/ i \notin open /\ \A g \in Handlers : proc[g].pc \in Storing => proc[g].id # i
Leaving(i) == \E g \in Handlers : proc[g].pc = "removeFile" /\ proc[g].id = i
PublishOK == \A h \in Handlers : proc[h].pc = "publish" => Leaving(proc[h].id) \/ Kept(proc[h].id)

AttachInv ==
  /\ AttachTyped /\ MutexOK /\ RemovedOK /\ StoringOK /\ PublishOK
  /\ StoredWhole /\ ScheduledKept /\ QuotaKept /\ ThumbnailsFollow

-----------------------------------------------------------------------------
(* How much of a category is used. *)

LiveIn(R, c) == {i \in Ids : R[i].is = "live" /\ Category[i] = c}

LEMMA IdsFinite == IsFiniteSet(Ids) /\ (\A i \in Ids : i \in Nat) /\ Size \in [Ids -> Nat]
<1>1. IsFiniteSet(Ids) BY AttachmentsAssumption, FinitePart DEF AttachmentsAssumption
<1> QED BY Zenon, <1>1, AttachmentsAssumption DEF AttachmentsAssumption

LEMMA UsedIs == \A c : Used(c) = Sum(Size, LiveIn(rows, c)) /\ Used(c)' = Sum(Size, LiveIn(rows', c))
BY Zenon DEF Used, Sum, LiveIn, Live, MapThenSumSet, MapThenFoldSet

LEMMA LiveInOK ==
  ASSUME NEW R, NEW c PROVE LiveIn(R, c) \in SUBSET Ids /\ IsFiniteSet(LiveIn(R, c)) /\ Sum(Size, LiveIn(R, c)) \in Nat
<1>1. LiveIn(R, c) \in SUBSET Ids BY Zenon DEF LiveIn
<1>2. IsFiniteSet(LiveIn(R, c)) BY Zenon, <1>1, IdsFinite, FinitePart
<1>3. Sum(Size, LiveIn(R, c)) \in Nat BY Zenon, <1>1, <1>2, IdsFinite, SumNat
<1> QED BY Zenon, <1>1, <1>2, <1>3

(* Without a new row nothing more is used.                                 *)
LEMMA UsedShrinks ==
  ASSUME \A i \in Ids : Live(i)' => Live(i), NEW c PROVE Used(c) \in Nat /\ Used(c)' \in Nat /\ Used(c)' <= Used(c)
<1>1. LiveIn(rows', c) \in SUBSET LiveIn(rows, c) BY Zenon DEF LiveIn, Live
<1>2. Sum(Size, LiveIn(rows', c)) <= Sum(Size, LiveIn(rows, c))
  BY Zenon, <1>1, LiveInOK, IdsFinite, SumSubset
<1> QED BY Zenon, <1>2, LiveInOK, UsedIs

(* A new row uses the size of its content, in its category.                *)
LEMMA UsedGrows ==
  ASSUME NEW i \in Ids, ~Live(i), Live(i)', \A k \in Ids \ {i} : Live(k)' = Live(k)
  PROVE  \A c : Used(c)' = IF c = Category[i] THEN Used(c) + Size[i] ELSE Used(c)
<1> SUFFICES ASSUME NEW c PROVE Used(c)' = IF c = Category[i] THEN Used(c) + Size[i] ELSE Used(c) OBVIOUS
<1>1. CASE c = Category[i]
  <2>1. i \in LiveIn(rows', c) BY Zenon, <1>1 DEF LiveIn, Live
  <2>2. LiveIn(rows', c) \ {i} = LiveIn(rows, c) BY Zenon DEF LiveIn, Live
  <2>3. Size \in [Ids -> Int] BY IdsFinite
  <2>4. Sum(Size, LiveIn(rows', c)) = Size[i] + Sum(Size, LiveIn(rows', c) \ {i})
    BY <2>1, <2>3, LiveInOK, SumRemove
  <2>5. Used(c) \in Nat /\ Used(c) = Sum(Size, LiveIn(rows, c)) BY Zenon, LiveInOK, UsedIs
  <2>6. Used(c)' = Size[i] + Used(c) BY Zenon, <2>2, <2>4, <2>5, UsedIs
  <2>7. Size[i] \in Nat BY Zenon, IdsFinite
  <2> QED BY <1>1, <2>5, <2>6, <2>7
<1>2. CASE c # Category[i]
  <2>1. LiveIn(rows', c) = LiveIn(rows, c) BY Zenon, <1>2 DEF LiveIn, Live
  <2> QED BY Zenon, <1>2, <2>1, UsedIs
<1> QED BY Zenon, <1>1, <1>2

-----------------------------------------------------------------------------
(* What a step of a request does to its process. *)

Others(h) == \A g \in Handlers \ {h} : proc'[g] = proc[g]

LEMMA GotoIs ==
  ASSUME AttachTyped, NEW h \in Handlers, NEW pc \in Pcs, Goto(h, pc),
         pc \in {"idle", "tombstone"} \/ proc[h].id \in Ids
  PROVE  /\ proc' \in [Handlers -> Procs] /\ Others(h)
         /\ proc'[h].pc = pc /\ proc'[h].id = proc[h].id
         /\ \A g \in Handlers : proc'[g].pc \notin {"idle", "tombstone"} => proc'[g].id \in Ids
BY DEF AttachTyped, Goto, Procs, Others

LEMMA StartIs ==
  ASSUME AttachTyped, NEW h \in Handlers, NEW p \in Procs, proc' = [proc EXCEPT ![h] = p],
         p.pc \in {"idle", "tombstone"} \/ p.id \in Ids
  PROVE  /\ proc' \in [Handlers -> Procs] /\ Others(h) /\ proc'[h] = p
         /\ \A g \in Handlers : proc'[g].pc \notin {"idle", "tombstone"} => proc'[g].id \in Ids
BY Zenon DEF AttachTyped, Others

LEMMA IdleIs == Idle \in Procs /\ Idle.pc = "idle"
BY Zenon DEF Idle, At, Procs, Pcs

LEMMA StartsWith ==
  ASSUME AttachTyped, NEW h \in Handlers, NEW p \in Procs, NEW i \in Ids, p.id = i,
         proc' = [proc EXCEPT ![h] = p]
  PROVE  /\ proc' \in [Handlers -> Procs] /\ Others(h) /\ proc'[h].pc = p.pc /\ proc'[h].id = i
         /\ \A g \in Handlers : proc'[g].pc \notin {"idle", "tombstone"} => proc'[g].id \in Ids
BY Zenon, StartIs

LEMMA FinishIs ==
  ASSUME AttachTyped, NEW h \in Handlers, Finish(h)
  PROVE  /\ proc' \in [Handlers -> Procs] /\ Others(h) /\ proc'[h].pc = "idle"
         /\ \A g \in Handlers : proc'[g].pc \notin {"idle", "tombstone"} => proc'[g].id \in Ids
BY Zenon, IdleIs, StartIs DEF Finish

(* Without a new row whoever is storing still has room.                    *)
LEMMA RoomStays ==
  ASSUME AttachTyped, AttachTyped', \A i \in Ids : Live(i)' => Live(i),
         \A c \in Categories : ceiling[c] <= ceiling'[c]
  PROVE  (\A i \in Ids : Fits(i) => Fits(i)') /\ (QuotaKept => QuotaKept')
<1>1. \A c \in Categories : Used(c) \in Nat /\ Used(c)' \in Nat /\ Used(c)' <= Used(c)
  BY Zenon, UsedShrinks
<1>2. \A c \in Categories : ceiling[c] \in Nat /\ ceiling'[c] \in Nat /\ ceiling[c] <= ceiling'[c]
  BY Zenon DEF AttachTyped
<1>3. ASSUME NEW i \in Ids, Fits(i) PROVE Fits(i)'
  <2>1. Size[i] \in Nat /\ Category[i] \in Categories BY Zenon, IdsFinite DEF Categories
  <2> QED BY <1>1, <1>2, <1>3, <2>1 DEF Fits
<1>4. QuotaKept => QuotaKept' BY <1>1, <1>2 DEF QuotaKept
<1> QED BY Zenon, <1>3, <1>4

LEMMA RoomSame ==
  ASSUME AttachTyped, AttachTyped', UNCHANGED <<rows, ceiling>>
  PROVE  (\A i \in Ids : Fits(i) => Fits(i)') /\ (QuotaKept => QuotaKept')
<1>1. \A k \in Ids : Live(k)' => Live(k) BY Zenon DEF Live
<1>2. \A c \in Categories : ceiling[c] <= ceiling'[c] BY DEF AttachTyped
<1> QED BY Zenon, <1>1, <1>2, RoomStays

LEMMA BudgetFits == ASSUME AttachTyped, NEW i \in Ids, WithinBudget(i) PROVE Fits(i)
<1>1. Category[i] \in Categories /\ Size[i] \in Nat BY Zenon, IdsFinite DEF Categories
<1>2. Used(Category[i]) \in Nat BY Zenon, LiveInOK, UsedIs
<1> QED BY <1>1, <1>2 DEF Fits, WithinBudget, AttachTyped

LEMMA PublishStays ==
  ASSUME AttachTyped, PublishOK,
         \A g \in Handlers : proc'[g].pc = "publish" => proc'[g] = proc[g],
         \A k \in Ids : Leaving(k) \/ Kept(k) => Leaving(k)' \/ Kept(k)'
  PROVE  PublishOK'
<1> SUFFICES ASSUME NEW g \in Handlers, proc'[g].pc = "publish" PROVE Leaving(proc[g].id)' \/ Kept(proc[g].id)'
  BY Zenon DEF PublishOK
<1>1. PICK k \in Ids : k = proc[g].id /\ proc'[g] = proc[g] BY Zenon DEF AttachTyped
<1>2. Leaving(k)' \/ Kept(k)' BY Zenon, <1>1 DEF PublishOK
<1>3. (Leaving(proc[g].id)' = Leaving(k)') /\ (Kept(proc[g].id)' = Kept(k)') BY Zenon, <1>1 DEF Leaving, Kept, Live
<1> QED BY Zenon, <1>2, <1>3

(* Nothing else the invariant speaks of changes in most steps: rows keep   *)
(* their status, files and thumbnails stay, and no process comes to or     *)
(* leaves a place that matters.                                            *)
LEMMA QuietStep ==
  ASSUME AttachInv, AttachTyped', UNCHANGED <<files, thumbs, gone, orphaned, purged>>,
         \A i \in Ids : rows'[i].is = rows[i].is,
         \A i \in jobs' : i \in jobs \/ Live(i),
         open' \subseteq open,
         \A c \in Categories : ceiling[c] <= ceiling'[c],
         \A g \in Handlers : proc'[g].pc \in Storing \cup Holding \cup Removing => proc'[g] = proc[g],
         \A g \in Handlers : proc[g].pc \in Removing => proc'[g] = proc[g],
         job' = job \/ (~JobHolds /\ ~JobHolds')
  PROVE  AttachInv'
<1>0. AttachTyped /\ MutexOK /\ RemovedOK /\ StoringOK /\ PublishOK /\ StoredWhole /\ ScheduledKept
      /\ QuotaKept /\ ThumbnailsFollow
  BY Zenon DEF AttachInv
<1>1. \A i \in Ids : Live(i)' = Live(i) BY Zenon DEF Live
<1>2. \A i \in Ids : rows'[i] = NoRow <=> rows[i] = NoRow BY <1>0 DEF AttachTyped, NoRow
<1>3. (\A i \in Ids : Fits(i) => Fits(i)') /\ QuotaKept' BY Zenon, <1>0, <1>1, RoomStays
<1>5. \A h \in Handlers : proc'[h].pc \in Storing \cup Holding \cup Removing => proc'[h].id \in Ids
  BY Zenon DEF AttachTyped, Storing, Holding, Removing
<1>6. JobHolds' => JobHolds /\ job' = job BY Zenon DEF JobHolds
<1>7. MutexOK' BY Zenon, <1>0, <1>6 DEF MutexOK
<1>8. RemovedOK'
  <2>1. \A i \in gone' : rows'[i] = NoRow /\ i \notin open' BY Zenon, <1>0, <1>2 DEF RemovedOK, AttachTyped
  <2>2. \A h \in Handlers : proc'[h].pc \in Removing => rows'[proc'[h].id].is = "deleted" \/ proc'[h].id \in gone'
    BY <1>0, <1>5 DEF RemovedOK
  <2>3. JobHolds' => Min(job'.rest) \in Ids /\ ~Live(Min(job.rest))'
    BY Zenon, <1>0, <1>1, <1>6 DEF RemovedOK
  <2>4. JobHolds' => Min(job'.rest) = Min(job.rest) BY Zenon, <1>6
  <2> QED BY Zenon, <1>1, <2>1, <2>2, <2>3, <2>4, <1>6 DEF RemovedOK, Live
<1>9. StoringOK'
  <2> SUFFICES ASSUME NEW h \in Handlers, proc'[h].pc \in Storing \cup {"insert", "insertCopy"}
               PROVE  /\ ~Live(proc[h].id)' /\ Fits(proc[h].id)'
                      /\ /\ proc'[h].pc \in {"insert", "insertCopy"}
                         /\ rows'[proc'[h].id] = NoRow /\ proc'[h].id \notin gone'
                         => files'[proc'[h].id] = Size[proc'[h].id]
    BY Zenon DEF StoringOK, Storing
  <2>1. proc'[h] = proc[h] /\ proc[h].id \in Ids BY Zenon, <1>5 DEF Storing
  <2>2. proc[h].pc \in Storing BY Zenon, <2>1 DEF Storing
  <2>3. ~Live(proc[h].id) /\ Fits(proc[h].id) BY Zenon, <1>0, <2>2 DEF StoringOK
  <2>4. ~Live(proc[h].id)' BY Zenon, <1>1, <2>1, <2>3 DEF Live
  <2>5. Fits(proc[h].id)'
    <3>1. PICK i \in Ids : i = proc[h].id BY Zenon, <2>1
    <3>2. Fits(i)' BY Zenon, <1>3, <2>3, <3>1
    <3> QED BY Zenon, <2>1, <3>1, <3>2 DEF Fits
  <2> QED BY Zenon, <1>0, <1>2, <2>1, <2>4, <2>5 DEF StoringOK
<1>10. PublishOK'
  <2>1. ASSUME NEW k \in Ids, Leaving(k) PROVE Leaving(k)' BY Zenon, <2>1 DEF Leaving, Removing
  <2>2. ASSUME NEW k \in Ids, Kept(k) PROVE Kept(k)' BY Zenon, <1>1, <2>2 DEF Kept
  <2>3. \A g \in Handlers : proc'[g].pc = "publish" => proc'[g] = proc[g] BY Zenon DEF Holding
  <2> QED BY Zenon, <1>0, <2>1, <2>2, <2>3, PublishStays
<1>11. StoredWhole' BY Zenon, <1>0, <1>1 DEF StoredWhole
<1>12. ScheduledKept' BY Zenon, <1>0, <1>1 DEF ScheduledKept, AttachTyped
<1>14. ThumbnailsFollow'
  BY <1>0 DEF ThumbnailsFollow, Removing, JobHolds
<1> QED BY Zenon, <1>7, <1>8, <1>9, <1>10, <1>11, <1>12, <1>3, <1>14 DEF AttachInv

-----------------------------------------------------------------------------
(* The steps that are not quiet. *)

(* One process at most is storing.                                         *)
LEMMA StoringOne ==
  ASSUME NEW h \in Handlers, NEW i \in Ids, proc'[h].id = i,
         \A g \in Handlers : proc'[g].pc \in Storing => g = h,
         ~Live(i)', Fits(i)', proc'[h].pc = "copying" \/ files'[i] = Size[i]
  PROVE  StoringOK'
<1>1. ~Live(proc[h].id)' BY Zenon DEF Live
<1>2. Fits(proc[h].id)' BY Zenon DEF Fits
<1>3. proc'[h].pc = "copying" \/ files'[proc'[h].id] = Size[proc'[h].id] OBVIOUS
<1>4. ASSUME NEW g \in Handlers, g # h PROVE proc'[g].pc \notin {"insert", "insertCopy"}
  BY Zenon, <1>4 DEF Storing
<1> QED BY Zenon, <1>1, <1>2, <1>3, <1>4 DEF StoringOK

LEMMA StoringSame ==
  ASSUME AttachTyped, AttachTyped', StoringOK, UNCHANGED <<rows, files, gone, ceiling>>,
         \A g \in Handlers : proc'[g].pc \in Storing => proc'[g] = proc[g]
  PROVE  StoringOK'
<1> SUFFICES ASSUME NEW g \in Handlers, proc'[g].pc \in Storing
             PROVE  /\ ~Live(proc[g].id)' /\ Fits(proc[g].id)'
                    /\ /\ proc'[g].pc \in {"insert", "insertCopy"}
                       /\ rows'[proc'[g].id] = NoRow /\ proc'[g].id \notin gone'
                       => files'[proc'[g].id] = Size[proc'[g].id]
  BY Zenon DEF StoringOK, Storing
<1>1. PICK i \in Ids : i = proc[g].id /\ proc'[g] = proc[g] BY Zenon DEF AttachTyped, Storing
<1>2. ~Live(i) /\ Fits(i) BY Zenon, <1>1 DEF StoringOK
<1>3. ~Live(i)' /\ Fits(i)' BY Zenon, <1>2, RoomSame DEF Live
<1>4. ~Live(proc[g].id)' /\ Fits(proc[g].id)' BY Zenon, <1>1, <1>3 DEF Live, Fits
<1> QED BY Zenon, <1>1, <1>4 DEF StoringOK

(* Publish: the file takes its name, inside both mutexes.                  *)
LEMMA PublishKeeps ==
  ASSUME AttachInv, NEW h \in Handlers, Publish(h), proc'[h].pc = "insert"
  PROVE  AttachInv'
<1>0. AttachTyped /\ MutexOK /\ RemovedOK /\ StoringOK /\ PublishOK /\ StoredWhole /\ ScheduledKept
      /\ QuotaKept /\ ThumbnailsFollow
  BY Zenon DEF AttachInv
<1>1. PICK i \in Ids : i = proc[h].id /\ proc[h].pc = "received" BY Zenon, <1>0 DEF Publish, AttachTyped
<1>2. /\ WithinBudget(i) /\ i \in open /\ rows[i] = NoRow
      /\ files' = [files EXCEPT ![i] = Size[i]] /\ Goto(h, "insert")
  BY Zenon, <1>0, <1>1, FinishIs DEF Publish
<1>3. /\ MuFree /\ BudgetFree
      /\ UNCHANGED <<rows, thumbs, jobs, open, gone, quota, plan, ceiling, purged, job, load, orphaned>>
  BY Zenon DEF Publish, wishes, bounds
<1>4. /\ proc' \in [Handlers -> Procs] /\ Others(h) /\ proc'[h].pc = "insert" /\ proc'[h].id = i
      /\ \A g \in Handlers : proc'[g].pc \notin {"idle", "tombstone"} => proc'[g].id \in Ids
  BY Zenon, <1>0, <1>1, <1>2, GotoIs DEF Pcs, Holding
<1>5. Size[i] \in Nat \ {0} BY Zenon, <1>1, AttachmentsAssumption DEF AttachmentsAssumption
<1>6. AttachTyped' BY Zenon, <1>0, <1>1, <1>2, <1>3, <1>4, <1>5 DEF AttachTyped
<1>7. \A g \in Handlers : proc[g].pc \notin Storing \cup Holding BY Zenon, <1>3 DEF MuFree, BudgetFree, Storing, Holding
<1>8. ~JobHolds /\ ~JobHolds' BY Zenon, <1>3 DEF MuFree, JobHolds
<1>9. \A g \in Handlers : proc'[g].pc \in Storing \cup Holding \cup {"publish"} => g = h
  BY Zenon, <1>4, <1>7 DEF Others, Holding
<1>10. \A g \in Handlers : proc'[g].pc \in Removing \/ proc[g].pc \in Removing => proc'[g] = proc[g]
  BY Zenon, <1>1, <1>4 DEF Others, Removing
<1>11. MutexOK' BY Zenon, <1>8, <1>9 DEF MutexOK
<1>12. RemovedOK' BY Zenon, <1>0, <1>3, <1>8, <1>10 DEF RemovedOK
<1>13. StoringOK'
  <2>1. ~Live(i)' BY <1>2, <1>3 DEF Live, NoRow
  <2>2. Fits(i) BY Zenon, <1>0, <1>2, BudgetFits
  <2>3. Fits(i)' BY Zenon, <1>0, <1>3, <1>6, <2>2, RoomSame
  <2>4. files'[i] = Size[i] BY Zenon, <1>0, <1>1, <1>2 DEF AttachTyped
  <2> QED BY Zenon, <1>4, <1>9, <2>1, <2>3, <2>4, StoringOne
<1>14. PublishOK' BY Zenon, <1>4, <1>9 DEF PublishOK
<1>15. StoredWhole'
  <2>1. ~Live(i) BY <1>2 DEF Live, NoRow
  <2> QED BY Zenon, <1>0, <1>1, <1>2, <1>3, <2>1 DEF StoredWhole, AttachTyped, Live
<1>16. ScheduledKept' BY Zenon, <1>0, <1>3 DEF ScheduledKept, Live
<1>17. QuotaKept' BY Zenon, <1>0, <1>3, <1>6, RoomSame
<1>18. ThumbnailsFollow'
  <2>1. \A k \in Ids : files[k] > 0 => files'[k] > 0 BY <1>0, <1>1, <1>2, <1>5 DEF AttachTyped
  <2> QED BY ZenonT(40), <1>0, <1>3, <1>10, <2>1 DEF ThumbnailsFollow, AttachTyped, Removing
<1> QED BY SMTT(30), <1>6, <1>11, <1>12, <1>13, <1>14, <1>15, <1>16, <1>17, <1>18 DEF AttachInv

(* Insert: the row appears, and what is stored becomes what can be read.   *)
LEMMA InsertKeeps ==
  ASSUME AttachInv, NEW h \in Handlers, NEW i \in Ids, i = proc[h].id, proc[h].pc \in {"insert", "insertCopy"},
         rows[i] = NoRow, i \notin gone, Inserted(i), Finish(h),
         UNCHANGED <<jobs, open, gone, quota, plan, ceiling, purged, job, load, orphaned>>
  PROVE  AttachInv'
<1>0. AttachTyped /\ MutexOK /\ RemovedOK /\ StoringOK /\ PublishOK /\ StoredWhole /\ ScheduledKept
      /\ QuotaKept /\ ThumbnailsFollow
  BY Zenon DEF AttachInv
<1>1. /\ proc' \in [Handlers -> Procs] /\ Others(h) /\ proc'[h].pc = "idle"
      /\ \A g \in Handlers : proc'[g].pc \notin {"idle", "tombstone"} => proc'[g].id \in Ids
  BY Zenon, <1>0, FinishIs
<1>2. UNCHANGED <<files, thumbs>> /\ rows' = [rows EXCEPT ![i] = [is |-> "live", linked |-> FALSE]]
  BY Zenon DEF Inserted
<1>3. AttachTyped' BY Zenon, <1>0, <1>1, <1>2 DEF AttachTyped, RowTypes
<1>4. ~Live(i) /\ Live(i)' /\ \A k \in Ids \ {i} : rows'[k] = rows[k] /\ Live(k)' = Live(k)
  BY <1>0, <1>2 DEF Live, NoRow, AttachTyped
<1>5. files[i] = Size[i] /\ Fits(i) BY Zenon, <1>0 DEF StoringOK, Storing
<1>6. ~JobHolds /\ ~JobHolds' BY Zenon, <1>0 DEF MutexOK, JobHolds, Storing
<1>7. \A g \in Handlers : proc'[g].pc \notin Storing
  BY Zenon, <1>0, <1>1 DEF MutexOK, Others, Storing
<1>8. \A g \in Handlers : proc'[g].pc \in Holding \cup Removing \/ proc[g].pc \in Removing => g # h /\ proc'[g] = proc[g]
  BY Zenon, <1>1 DEF Others, Holding, Removing
<1>9. \A g \in Handlers : proc[g].pc \in Removing => proc[g].id # i
  BY <1>0 DEF RemovedOK, NoRow
<1>10. MutexOK' BY Zenon, <1>0, <1>6, <1>7, <1>8 DEF MutexOK
<1>11. RemovedOK'
  <2>1. \A k \in gone' : rows'[k] = NoRow /\ k \notin open' BY Zenon, <1>0, <1>4 DEF RemovedOK, AttachTyped
  <2>2. ASSUME NEW g \in Handlers, proc'[g].pc \in Removing
        PROVE  rows'[proc'[g].id].is = "deleted" \/ proc'[g].id \in gone'
    <3>1. proc'[g] = proc[g] /\ proc[g].id \in Ids \ {i} BY Zenon, <1>0, <1>8, <1>9, <2>2 DEF AttachTyped, Removing
    <3> QED BY Zenon, <1>0, <1>4, <2>2, <3>1 DEF RemovedOK
  <2> QED BY Zenon, <1>6, <2>1, <2>2 DEF RemovedOK
<1>12. StoringOK' BY Zenon, <1>7 DEF StoringOK, Storing
<1>13. PublishOK'
  <2>1. ASSUME NEW k \in Ids, Leaving(k) PROVE Leaving(k)' BY Zenon, <1>8, <2>1 DEF Leaving, Removing
  <2>2. ASSUME NEW k \in Ids, Kept(k) PROVE Kept(k)' BY Zenon, <1>2, <1>4, <1>7, <2>2 DEF Kept
  <2>3. \A g \in Handlers : proc'[g].pc = "publish" => proc'[g] = proc[g] BY Zenon, <1>8 DEF Holding
  <2> QED BY Zenon, <1>0, <2>1, <2>2, <2>3, PublishStays
<1>14. StoredWhole' BY Zenon, <1>0, <1>2, <1>4, <1>5 DEF StoredWhole
<1>15. ScheduledKept' BY Zenon, <1>0, <1>4 DEF ScheduledKept, AttachTyped
<1>16. QuotaKept'
  <2>1. \A c : Used(c)' = IF c = Category[i] THEN Used(c) + Size[i] ELSE Used(c) BY Zenon, <1>4, UsedGrows
  <2> QED BY Zenon, <1>0, <1>5, <2>1 DEF QuotaKept, Fits
<1>17. ThumbnailsFollow' BY <1>0, <1>2, <1>6, <1>8 DEF ThumbnailsFollow, JobHolds, Removing
<1> QED BY SMTT(30), <1>3, <1>10, <1>11, <1>12, <1>13, <1>14, <1>15, <1>16, <1>17 DEF AttachInv

(* Insert, its failure: the file goes again, with its thumbnail.           *)
LEMMA InsertFails ==
  ASSUME AttachInv, NEW h \in Handlers, NEW i \in Ids, i = proc[h].id, proc[h].pc \in {"insert", "insertCopy"},
         NotInserted(i), Finish(h),
         UNCHANGED <<jobs, open, gone, quota, plan, ceiling, purged, job, load, orphaned>>
  PROVE  AttachInv'
<1>0. AttachTyped /\ MutexOK /\ RemovedOK /\ StoringOK /\ PublishOK /\ StoredWhole /\ ScheduledKept
      /\ QuotaKept /\ ThumbnailsFollow
  BY Zenon DEF AttachInv
<1>1. /\ proc' \in [Handlers -> Procs] /\ Others(h) /\ proc'[h].pc = "idle"
      /\ \A g \in Handlers : proc'[g].pc \notin {"idle", "tombstone"} => proc'[g].id \in Ids
  BY Zenon, <1>0, FinishIs
<1>2. UNCHANGED rows /\ files' = [files EXCEPT ![i] = 0] /\ thumbs' = thumbs \ {i} BY Zenon DEF NotInserted
<1>3. AttachTyped' BY Zenon, <1>0, <1>1, <1>2 DEF AttachTyped
<1>4. ~Live(i) BY Zenon, <1>0 DEF StoringOK, Storing
<1>5. \A k \in Ids \ {i} : files'[k] = files[k] BY Zenon, <1>0, <1>2 DEF AttachTyped
<1>6. ~JobHolds /\ ~JobHolds' BY Zenon, <1>0 DEF MutexOK, JobHolds, Storing
<1>7. \A g \in Handlers : proc'[g].pc \notin Storing
  BY Zenon, <1>0, <1>1 DEF MutexOK, Others, Storing
<1>8. \A g \in Handlers : proc'[g].pc \in Holding \cup Removing \/ proc[g].pc \in Removing => g # h /\ proc'[g] = proc[g]
  BY Zenon, <1>1 DEF Others, Holding, Removing
<1>9. MutexOK' BY Zenon, <1>0, <1>6, <1>7, <1>8 DEF MutexOK
<1>10. RemovedOK' BY <1>0, <1>2, <1>6, <1>8 DEF RemovedOK
<1>11. StoringOK' BY Zenon, <1>7 DEF StoringOK, Storing
<1>12. PublishOK'
  <2>1. ASSUME NEW k \in Ids, Leaving(k) PROVE Leaving(k)' BY Zenon, <1>8, <2>1 DEF Leaving, Removing
  <2>2. ASSUME NEW k \in Ids, Kept(k) PROVE Kept(k)'
    <3>1. proc[h].pc \in Storing BY Zenon DEF Storing
    <3>2. k # i BY Zenon, <1>4, <2>2, <3>1 DEF Kept
    <3> QED BY <1>2, <1>5, <1>7, <2>2, <3>2 DEF Kept, Live
  <2>3. \A g \in Handlers : proc'[g].pc = "publish" => proc'[g] = proc[g] BY Zenon, <1>8 DEF Holding
  <2> QED BY Zenon, <1>0, <2>1, <2>2, <2>3, PublishStays
<1>13. StoredWhole' BY <1>0, <1>2, <1>4, <1>5 DEF StoredWhole, Live
<1>14. ScheduledKept' BY Zenon, <1>0, <1>2 DEF ScheduledKept, Live
<1>15. QuotaKept' BY Zenon, <1>0, <1>2, <1>3, RoomSame
<1>16. ThumbnailsFollow' BY <1>0, <1>2, <1>5, <1>6, <1>8 DEF ThumbnailsFollow, JobHolds, Removing, AttachTyped
<1> QED BY Zenon, <1>3, <1>9, <1>10, <1>11, <1>12, <1>13, <1>14, <1>15, <1>16 DEF AttachInv

(* Copy, admitted: inside storagebudget.Mu, with room for the content.     *)
LEMMA CopyKeeps ==
  ASSUME AttachInv, NEW h \in Handlers, NEW i \in Ids, proc[h] = Idle, BudgetFree, WithinBudget(i),
         i \in open, ~Live(i),
         proc' = [proc EXCEPT ![h] = At("copying", i, CopyTemp(i), {})],
         UNCHANGED <<rows, files, thumbs, jobs, open, gone, quota, plan, ceiling, purged, job, load, orphaned>>
  PROVE  AttachInv'
<1>0. AttachTyped /\ MutexOK /\ RemovedOK /\ StoringOK /\ PublishOK /\ StoredWhole /\ ScheduledKept
      /\ QuotaKept /\ ThumbnailsFollow
  BY Zenon DEF AttachInv
<1>1. /\ proc' \in [Handlers -> Procs] /\ Others(h) /\ proc'[h].pc = "copying" /\ proc'[h].id = i
      /\ \A g \in Handlers : proc'[g].pc \notin {"idle", "tombstone"} => proc'[g].id \in Ids
  <2>1. PICK p : p = At("copying", i, CopyTemp(i), {}) OBVIOUS
  <2>2. p \in Procs /\ p.pc = "copying" /\ p.id = i BY Zenon, <2>1 DEF Procs, At, Pcs, Storing
  <2>3. proc' = [proc EXCEPT ![h] = p] BY Zenon, <2>1
  <2> QED BY Zenon, <1>0, <2>2, <2>3, StartsWith
<1>2. AttachTyped' BY Zenon, <1>0, <1>1 DEF AttachTyped
<1>3. ~JobHolds /\ ~JobHolds' BY Zenon DEF BudgetFree, JobHolds
<1>4. \A g \in Handlers : proc[g].pc \notin Storing BY Zenon DEF BudgetFree, Storing
<1>5. \A g \in Handlers : proc'[g].pc \in Storing => g = h BY Zenon, <1>1, <1>4 DEF Others
<1>6. \A g \in Handlers : proc'[g].pc \in Holding \cup Removing \/ proc[g].pc \in Holding \cup Removing
        => g # h /\ proc'[g] = proc[g]
  BY Zenon, <1>1, IdleIs DEF Others, Holding, Removing
<1>7. MutexOK' BY Zenon, <1>0, <1>3, <1>5, <1>6 DEF MutexOK
<1>8. RemovedOK' BY <1>0, <1>3, <1>6 DEF RemovedOK
<1>9. StoringOK'
  <2>1. Fits(i) BY Zenon, <1>0, BudgetFits
  <2>2. Fits(i)' /\ ~Live(i)' BY Zenon, <1>0, <1>2, <2>1, RoomSame DEF Live
  <2> QED BY Zenon, <1>1, <1>5, <2>2, StoringOne
<1>10. PublishOK'
  <2>1. ASSUME NEW k \in Ids, Leaving(k) PROVE Leaving(k)' BY Zenon, <1>6, <2>1 DEF Leaving, Removing
  <2>2. ASSUME NEW k \in Ids, Kept(k) PROVE Kept(k)'
    <3>1. k # i \/ Live(k) BY Zenon, <2>2 DEF Kept
    <3> QED BY Zenon, <1>1, <1>5, <2>2, <3>1 DEF Kept, Live
  <2>3. \A g \in Handlers : proc'[g].pc = "publish" => proc'[g] = proc[g] BY Zenon, <1>6 DEF Holding
  <2> QED BY Zenon, <1>0, <2>1, <2>2, <2>3, PublishStays
<1>11. StoredWhole' /\ ScheduledKept' BY Zenon, <1>0 DEF StoredWhole, ScheduledKept, Live
<1>12. QuotaKept' BY Zenon, <1>0, <1>2, RoomSame
<1>13. ThumbnailsFollow' BY <1>0, <1>3, <1>6 DEF ThumbnailsFollow, JobHolds, Removing
<1> QED BY Zenon, <1>2, <1>7, <1>8, <1>9, <1>10, <1>11, <1>12, <1>13 DEF AttachInv

(* Copied: the copy takes its name.                                        *)
LEMMA CopiedKeeps ==
  ASSUME AttachInv, NEW h \in Handlers, NEW i \in Ids, i = proc[h].id, proc[h].pc = "copying",
         files' = [files EXCEPT ![i] = Size[i]], Goto(h, "insertCopy"),
         UNCHANGED <<rows, thumbs, jobs, open, gone, quota, plan, ceiling, purged, job, load, orphaned>>
  PROVE  AttachInv'
<1>0. AttachTyped /\ MutexOK /\ RemovedOK /\ StoringOK /\ PublishOK /\ StoredWhole /\ ScheduledKept
      /\ QuotaKept /\ ThumbnailsFollow
  BY Zenon DEF AttachInv
<1>1. /\ proc' \in [Handlers -> Procs] /\ Others(h) /\ proc'[h].pc = "insertCopy" /\ proc'[h].id = i
      /\ \A g \in Handlers : proc'[g].pc \notin {"idle", "tombstone"} => proc'[g].id \in Ids
  BY Zenon, <1>0, GotoIs DEF Pcs, Storing
<1>2. Size[i] \in Nat \ {0} BY Zenon, AttachmentsAssumption DEF AttachmentsAssumption
<1>3. AttachTyped' BY Zenon, <1>0, <1>1, <1>2 DEF AttachTyped
<1>4. files'[i] = Size[i] /\ \A k \in Ids \ {i} : files'[k] = files[k] BY Zenon, <1>0 DEF AttachTyped
<1>5. ~JobHolds /\ ~JobHolds' BY Zenon, <1>0 DEF MutexOK, JobHolds, Storing
<1>6. ~Live(i) /\ Fits(i) BY Zenon, <1>0 DEF StoringOK, Storing
<1>7. \A g \in Handlers : proc'[g].pc \in Storing => g = h
  <2>1. proc[h].pc \in Storing BY Zenon DEF Storing
  <2> QED BY Zenon, <1>0, <1>1, <2>1 DEF MutexOK, Others
<1>8. \A g \in Handlers : proc'[g].pc \in Holding \cup Removing \/ proc[g].pc \in Holding \cup Removing
        => g # h /\ proc'[g] = proc[g]
  BY Zenon, <1>1 DEF Others, Holding, Removing
<1>9. MutexOK' BY Zenon, <1>0, <1>5, <1>7, <1>8 DEF MutexOK
<1>10. RemovedOK' BY Zenon, <1>0, <1>5, <1>8 DEF RemovedOK
<1>11. StoringOK'
  <2>1. Fits(i)' /\ ~Live(i)' BY Zenon, <1>0, <1>3, <1>6, RoomSame DEF Live
  <2> QED BY Zenon, <1>1, <1>4, <1>7, <2>1, StoringOne
<1>12. PublishOK'
  <2>1. ASSUME NEW k \in Ids, Leaving(k) PROVE Leaving(k)' BY Zenon, <1>8, <2>1 DEF Leaving, Removing
  <2>2. ASSUME NEW k \in Ids, Kept(k) PROVE Kept(k)'
    <3>1. proc[h].pc \in Storing BY Zenon DEF Storing
    <3>2. k # i BY Zenon, <1>6, <2>2, <3>1 DEF Kept
    <3> QED BY Zenon, <1>1, <1>4, <1>7, <2>2, <3>2 DEF Kept, Live
  <2>3. \A g \in Handlers : proc'[g].pc = "publish" => proc'[g] = proc[g] BY Zenon, <1>8 DEF Holding
  <2> QED BY Zenon, <1>0, <2>1, <2>2, <2>3, PublishStays
<1>13. StoredWhole' BY Zenon, <1>0, <1>4, <1>6 DEF StoredWhole, Live
<1>14. ScheduledKept' BY Zenon, <1>0 DEF ScheduledKept, Live
<1>15. QuotaKept' BY Zenon, <1>0, <1>3, RoomSame
<1>16. ThumbnailsFollow'
  <2>1. \A k \in Ids : files[k] > 0 => files'[k] > 0 BY <1>2, <1>4
  <2> QED BY SMTT(30), <1>0, <1>8, <2>1 DEF ThumbnailsFollow, AttachTyped, Removing
<1> QED BY Zenon, <1>3, <1>9, <1>10, <1>11, <1>12, <1>13, <1>14, <1>15, <1>16 DEF AttachInv

(* Recheck: the attachment is still there when s.mu has been taken.        *)
LEMMA RecheckKeeps ==
  ASSUME AttachInv, NEW h \in Handlers, NEW i \in Ids, i = proc[h].id, proc[h].pc = "decode", MuFree, Live(i),
         Goto(h, "publish"),
         UNCHANGED <<rows, files, thumbs, jobs, open, gone, quota, plan, ceiling, purged, job, load, orphaned>>
  PROVE  AttachInv'
<1>0. AttachTyped /\ MutexOK /\ RemovedOK /\ StoringOK /\ PublishOK /\ StoredWhole /\ ScheduledKept
      /\ QuotaKept /\ ThumbnailsFollow
  BY Zenon DEF AttachInv
<1>1. /\ proc' \in [Handlers -> Procs] /\ Others(h) /\ proc'[h].pc = "publish" /\ proc'[h].id = i
      /\ \A g \in Handlers : proc'[g].pc \notin {"idle", "tombstone"} => proc'[g].id \in Ids
  BY Zenon, <1>0, GotoIs DEF Pcs, Holding
<1>2. AttachTyped' BY Zenon, <1>0, <1>1 DEF AttachTyped
<1>3. ~JobHolds /\ ~JobHolds' BY Zenon DEF MuFree, JobHolds
<1>4. \A g \in Handlers : proc[g].pc \notin Holding BY Zenon DEF MuFree, Holding
<1>5. \A g \in Handlers : proc'[g].pc \in Holding \cup {"publish"} => g = h BY Zenon, <1>1, <1>4 DEF Others, Holding
<1>6. \A g \in Handlers : proc'[g].pc \in Storing \cup Removing \/ proc[g].pc \in Storing \cup Removing
        => g # h /\ proc'[g] = proc[g]
  BY Zenon, <1>1 DEF Others, Storing, Removing
<1>7. MutexOK' BY Zenon, <1>0, <1>3, <1>5, <1>6 DEF MutexOK
<1>8. RemovedOK' BY Zenon, <1>0, <1>3, <1>6 DEF RemovedOK
<1>9. StoringOK' BY Zenon, <1>0, <1>2, <1>6, StoringSame
<1>10. PublishOK'
  <2>1. Size[i] > 0 BY AttachmentsAssumption DEF AttachmentsAssumption
  <2>2. files'[proc'[h].id] > 0 /\ Live(proc[h].id)' BY Zenon, <1>0, <1>1, <2>1 DEF StoredWhole, Live
  <2> QED BY Zenon, <1>5, <2>2 DEF PublishOK, Kept
<1>11. StoredWhole' /\ ScheduledKept' BY Zenon, <1>0 DEF StoredWhole, ScheduledKept, Live
<1>12. QuotaKept' BY Zenon, <1>0, <1>2, RoomSame
<1>13. ThumbnailsFollow' BY Zenon, <1>0, <1>6 DEF ThumbnailsFollow, Removing
<1> QED BY Zenon, <1>2, <1>7, <1>8, <1>9, <1>10, <1>11, <1>12, <1>13 DEF AttachInv

(* PublishThumbnail: its original is there, or about to be removed.        *)
LEMMA ThumbnailKeeps ==
  ASSUME AttachInv, NEW h \in Handlers, PublishThumbnail(h)
  PROVE  AttachInv'
<1>0. AttachTyped /\ MutexOK /\ RemovedOK /\ StoringOK /\ PublishOK /\ StoredWhole /\ ScheduledKept
      /\ QuotaKept /\ ThumbnailsFollow
  BY Zenon DEF AttachInv
<1>1. PICK i \in Ids : i = proc[h].id /\ proc[h].pc = "publish" BY Zenon, <1>0 DEF PublishThumbnail, AttachTyped
<1>2. /\ Finish(h) /\ thumbs' \subseteq thumbs \cup {i}
      /\ UNCHANGED <<rows, files, jobs, open, gone, quota, plan, ceiling, purged, job, load, orphaned>>
  BY Zenon, <1>1 DEF PublishThumbnail, wishes, bounds
<1>3. /\ proc' \in [Handlers -> Procs] /\ Others(h) /\ proc'[h].pc = "idle"
      /\ \A g \in Handlers : proc'[g].pc \notin {"idle", "tombstone"} => proc'[g].id \in Ids
  BY Zenon, <1>0, <1>2, FinishIs
<1>4. AttachTyped' BY Zenon, <1>0, <1>2, <1>3 DEF AttachTyped
<1>5. \A g \in Handlers : proc'[g].pc \notin Holding
  <2>1. proc[h].pc \in Holding BY Zenon, <1>1 DEF Holding
  <2> QED BY Zenon, <1>0, <1>3, <2>1 DEF MutexOK, Others, Holding
<1>6. \A g \in Handlers : proc'[g].pc \in Storing \cup Removing \/ proc[g].pc \in Storing \cup Removing
        => g # h /\ proc'[g] = proc[g]
  BY Zenon, <1>1, <1>3 DEF Others, Storing, Removing
<1>7. ~JobHolds /\ ~JobHolds' BY Zenon, <1>0, <1>1, <1>2 DEF MutexOK, JobHolds, Holding
<1>8. MutexOK' BY Zenon, <1>0, <1>5, <1>6, <1>7 DEF MutexOK
<1>9. RemovedOK' BY Zenon, <1>0, <1>2, <1>6, <1>7 DEF RemovedOK
<1>10. StoringOK' BY Zenon, <1>0, <1>2, <1>4, <1>6, StoringSame
<1>11. PublishOK' BY Zenon, <1>5 DEF PublishOK, Holding
<1>12. StoredWhole' /\ ScheduledKept' BY Zenon, <1>0, <1>2 DEF StoredWhole, ScheduledKept, Live
<1>13. QuotaKept' BY Zenon, <1>0, <1>2, <1>4, RoomSame
<1>14. ThumbnailsFollow'
  <2>1. Leaving(i) \/ files[i] > 0 BY Zenon, <1>0, <1>1 DEF PublishOK, Kept
  <2>2. files'[i] > 0 \/ \E g \in Handlers : proc'[g].pc \in {"removeFile", "removeThumb"} /\ proc'[g].id = i
    BY Zenon, <1>2, <1>6, <2>1 DEF Leaving, Removing
  <2>3. \A k \in thumbs' : k = i \/ k \in thumbs BY Zenon, <1>2
  <2> QED BY Zenon, <1>0, <1>2, <1>6, <2>2, <2>3 DEF ThumbnailsFollow, Removing
<1> QED BY Zenon, <1>4, <1>8, <1>9, <1>10, <1>11, <1>12, <1>13, <1>14 DEF AttachInv

(* DeleteDestination: the row goes, and no upload gets it back.            *)
LEMMA DestinationKeeps ==
  ASSUME AttachInv, NEW i \in Ids, DeleteDestination(i)
  PROVE  AttachInv'
<1>0. AttachTyped /\ MutexOK /\ RemovedOK /\ StoringOK /\ PublishOK /\ StoredWhole /\ ScheduledKept
      /\ QuotaKept /\ ThumbnailsFollow
  BY Zenon DEF AttachInv
<1>1. /\ gone' = gone \cup {i} /\ open' = open \ {i} /\ jobs' = jobs \ {i}
      /\ rows' = [rows EXCEPT ![i] = NoRow]
      /\ UNCHANGED <<files, thumbs, quota, plan, ceiling, purged, proc, job, load, orphaned>>
  BY Zenon DEF DeleteDestination, SetRow, Ask
<1>2. rows'[i] = NoRow /\ ~Live(i)' /\ \A k \in Ids \ {i} : rows'[k] = rows[k] /\ Live(k)' = Live(k)
  BY Zenon, <1>0, <1>1 DEF AttachTyped, Live, NoRow
<1>3. AttachTyped' BY Zenon, <1>0, <1>1 DEF AttachTyped, RowTypes, NoRow
<1>4. (\A k \in Ids : Fits(k) => Fits(k)') /\ QuotaKept'
  <2>1. \A c \in Categories : ceiling[c] <= ceiling'[c] BY <1>0, <1>1 DEF AttachTyped
  <2>2. \A k \in Ids : Live(k)' => Live(k) BY Zenon, <1>2
  <2> QED BY Zenon, <1>0, <1>3, <2>1, <2>2, RoomStays
<1>5. MutexOK' BY Zenon, <1>0, <1>1 DEF MutexOK, JobHolds
<1>6. RemovedOK'
  <2>1. \A k \in gone' : rows'[k] = NoRow /\ k \notin open' BY Zenon, <1>0, <1>1, <1>2 DEF RemovedOK, AttachTyped
  <2>2. \A g \in Handlers : proc'[g].pc \in Removing => rows'[proc'[g].id].is = "deleted" \/ proc'[g].id \in gone'
    BY Zenon, <1>0, <1>1, <1>2 DEF RemovedOK, AttachTyped, Removing
  <2>3. JobHolds' => Min(job'.rest) \in Ids /\ ~Live(Min(job.rest))'
    <3>1. ASSUME JobHolds' PROVE Min(job'.rest) \in Ids /\ ~Live(Min(job.rest))'
      <4>1. PICK n \in Ids : n = Min(job.rest) /\ ~Live(n) BY Zenon, <1>0, <1>1, <3>1 DEF RemovedOK, JobHolds
      <4>2. ~Live(n)' BY Zenon, <1>2, <4>1
      <4> QED BY Zenon, <1>1, <4>1, <4>2 DEF Live
    <3> QED BY Zenon, <3>1
  <2> QED BY Zenon, <2>1, <2>2, <2>3 DEF RemovedOK
<1>7. StoringOK'
  <2> SUFFICES ASSUME NEW g \in Handlers, proc'[g].pc \in Storing
               PROVE  /\ ~Live(proc[g].id)' /\ Fits(proc[g].id)'
                      /\ /\ proc'[g].pc \in {"insert", "insertCopy"}
                         /\ rows'[proc'[g].id] = NoRow /\ proc'[g].id \notin gone'
                         => files'[proc'[g].id] = Size[proc'[g].id]
    BY Zenon DEF StoringOK, Storing
  <2>1. PICK k \in Ids : k = proc[g].id /\ proc'[g] = proc[g] BY Zenon, <1>0, <1>1 DEF AttachTyped, Storing
  <2>2. ~Live(k) /\ Fits(k) BY Zenon, <1>0, <2>1 DEF StoringOK
  <2>3. ~Live(k)' /\ Fits(k)' BY Zenon, <1>2, <1>4, <2>2
  <2>4. ~Live(proc[g].id)' /\ Fits(proc[g].id)' BY Zenon, <2>1, <2>3 DEF Live, Fits
  <2> QED BY Zenon, <1>0, <1>1, <1>2, <2>1, <2>4 DEF StoringOK
<1>8. PublishOK'
  <2>1. ASSUME NEW k \in Ids, Leaving(k) PROVE Leaving(k)' BY Zenon, <1>1, <2>1 DEF Leaving
  <2>2. ASSUME NEW k \in Ids, Kept(k) PROVE Kept(k)'
    <3>1. Live(k) => \A g \in Handlers : proc[g].pc \in Storing => proc[g].id # k BY Zenon, <1>0 DEF StoringOK
    <3> QED BY Zenon, <1>1, <1>2, <2>2, <3>1 DEF Kept
  <2>3. \A g \in Handlers : proc'[g].pc = "publish" => proc'[g] = proc[g] BY Zenon, <1>1
  <2> QED BY Zenon, <1>0, <2>1, <2>2, <2>3, PublishStays
<1>9. StoredWhole' BY Zenon, <1>0, <1>1, <1>2 DEF StoredWhole
<1>10. ScheduledKept' BY Zenon, <1>0, <1>1, <1>2 DEF ScheduledKept, AttachTyped
<1>11. ThumbnailsFollow' BY Zenon, <1>0, <1>1 DEF ThumbnailsFollow
<1> QED BY SMTT(30), <1>3, <1>4, <1>5, <1>6, <1>7, <1>8, <1>9, <1>10, <1>11 DEF AttachInv

(* Tombstone: the row is marked before anything is removed.                *)
LEMMA TombstoneKeeps ==
  ASSUME AttachInv, NEW h \in Handlers, NEW i \in Ids, proc[h].pc = "tombstone", Live(i),
         rows' = [rows EXCEPT ![i].is = "deleted"], purged' = purged \cup {i},
         proc' = [proc EXCEPT ![h] = At("removeFile", i, 0, @.rest \ {i})],
         UNCHANGED <<files, thumbs, jobs, open, gone, quota, plan, ceiling, job, load, orphaned>>
  PROVE  AttachInv'
<1>0. AttachTyped /\ MutexOK /\ RemovedOK /\ StoringOK /\ PublishOK /\ StoredWhole /\ ScheduledKept
      /\ QuotaKept /\ ThumbnailsFollow
  BY Zenon DEF AttachInv
<1>1. /\ proc' \in [Handlers -> Procs] /\ Others(h) /\ proc'[h].pc = "removeFile" /\ proc'[h].id = i
      /\ \A g \in Handlers : proc'[g].pc \notin {"idle", "tombstone"} => proc'[g].id \in Ids
  <2>1. PICK p : p = At("removeFile", i, 0, proc[h].rest \ {i}) OBVIOUS
  <2>2. p \in Procs /\ p.pc = "removeFile" /\ p.id = i
    BY Zenon, <1>0, <2>1 DEF AttachTyped, Procs, At, Pcs, Removing
  <2>3. proc' = [proc EXCEPT ![h] = p] BY Zenon, <2>1
  <2> QED BY Zenon, <1>0, <2>2, <2>3, StartsWith
<1>2. rows'[i].is = "deleted" /\ ~Live(i)' /\ \A k \in Ids \ {i} : rows'[k] = rows[k] /\ Live(k)' = Live(k)
  BY Zenon, <1>0 DEF AttachTyped, Live, RowTypes
<1>3. AttachTyped'
  <2>1. rows' \in [Ids -> RowTypes] BY <1>0 DEF AttachTyped, RowTypes
  <2> QED BY Zenon, <1>0, <1>1, <1>2, <2>1 DEF AttachTyped
<1>4. (\A k \in Ids : Fits(k) => Fits(k)') /\ QuotaKept'
  <2>1. \A c \in Categories : ceiling[c] <= ceiling'[c] BY <1>0 DEF AttachTyped
  <2>2. \A k \in Ids : Live(k)' => Live(k) BY Zenon, <1>2
  <2> QED BY Zenon, <1>0, <1>3, <2>1, <2>2, RoomStays
<1>5. \A g \in Handlers : proc'[g].pc \in Storing \cup Holding \/ proc[g].pc \in Storing \cup Holding \cup Removing
        => g # h /\ proc'[g] = proc[g]
  BY Zenon, <1>1 DEF Others, Storing, Holding, Removing
<1>6. MutexOK' BY Zenon, <1>0, <1>5 DEF MutexOK, JobHolds
<1>7. \A k \in gone : k \in Ids /\ k # i BY <1>0 DEF RemovedOK, Live, NoRow, AttachTyped
<1>8. RemovedOK'
  <2>1. \A k \in gone' : rows'[k] = NoRow /\ k \notin open' BY Zenon, <1>0, <1>2, <1>7 DEF RemovedOK
  <2>2. ASSUME NEW g \in Handlers, proc'[g].pc \in Removing
        PROVE  rows'[proc'[g].id].is = "deleted" \/ proc'[g].id \in gone'
    <3>1. CASE g = h BY Zenon, <1>1, <1>2, <3>1
    <3>2. CASE g # h
      <4>1. proc'[g] = proc[g] /\ proc[g].id \in Ids BY Zenon, <1>0, <1>1, <2>2, <3>2 DEF Others, AttachTyped, Removing
      <4> QED BY <1>0, <1>2, <2>2, <4>1 DEF RemovedOK
    <3> QED BY Zenon, <3>1, <3>2
  <2>3. ASSUME JobHolds' PROVE Min(job'.rest) \in Ids /\ ~Live(Min(job.rest))'
    <3>1. PICK n \in Ids : n = Min(job.rest) /\ ~Live(n) BY Zenon, <1>0, <2>3 DEF RemovedOK, JobHolds
    <3>2. ~Live(n)' BY Zenon, <1>2, <3>1
    <3> QED BY Zenon, <3>1, <3>2 DEF Live
  <2> QED BY Zenon, <2>1, <2>2, <2>3 DEF RemovedOK
<1>9. StoringOK'
  <2> SUFFICES ASSUME NEW g \in Handlers, proc'[g].pc \in Storing
               PROVE  /\ ~Live(proc[g].id)' /\ Fits(proc[g].id)'
                      /\ /\ proc'[g].pc \in {"insert", "insertCopy"}
                         /\ rows'[proc'[g].id] = NoRow /\ proc'[g].id \notin gone'
                         => files'[proc'[g].id] = Size[proc'[g].id]
    BY Zenon DEF StoringOK, Storing
  <2>1. PICK k \in Ids : k = proc[g].id /\ proc'[g] = proc[g] BY Zenon, <1>0, <1>5 DEF AttachTyped, Storing
  <2>2. ~Live(k) /\ Fits(k) BY Zenon, <1>0, <2>1 DEF StoringOK
  <2>3. ~Live(k)' /\ Fits(k)' /\ k # i BY Zenon, <1>2, <1>4, <2>2
  <2>4. ~Live(proc[g].id)' /\ Fits(proc[g].id)' BY Zenon, <2>1, <2>3 DEF Live, Fits
  <2> QED BY SMTT(30), <1>0, <1>2, <2>1, <2>3, <2>4 DEF StoringOK
<1>10. PublishOK'
  <2>1. ASSUME NEW k \in Ids, Leaving(k) PROVE Leaving(k)' BY Zenon, <1>5, <2>1 DEF Leaving, Removing
  <2>2. ASSUME NEW k \in Ids, Kept(k) PROVE Leaving(k)' \/ Kept(k)'
    <3>1. CASE k = i BY Zenon, <1>1, <3>1 DEF Leaving
    <3>2. CASE k # i BY Zenon, <1>2, <1>5, <2>2, <3>2 DEF Kept
    <3> QED BY Zenon, <3>1, <3>2
  <2>3. \A g \in Handlers : proc'[g].pc = "publish" => proc'[g] = proc[g] BY Zenon, <1>5 DEF Holding
  <2> QED BY Zenon, <1>0, <2>1, <2>2, <2>3, PublishStays
<1>11. StoredWhole' BY Zenon, <1>0, <1>2 DEF StoredWhole
<1>12. ScheduledKept' BY Zenon, <1>0, <1>2 DEF ScheduledKept, AttachTyped
<1>13. ThumbnailsFollow' BY <1>0, <1>5 DEF ThumbnailsFollow, Removing
<1> QED BY SMTT(30), <1>3, <1>4, <1>6, <1>8, <1>9, <1>10, <1>11, <1>12, <1>13 DEF AttachInv

(* RemoveFile: what is removed cannot be read any more, and an upload of   *)
(* the same id does not succeed.                                           *)
LEMMA RemovalKeeps ==
  ASSUME AttachInv, NEW h \in Handlers, NEW i \in Ids, i = proc[h].id, proc[h].pc = "removeFile", MuFree,
         Remove(i), Goto(h, "removeThumb"),
         UNCHANGED <<rows, jobs, open, gone, quota, plan, ceiling, purged, job, load, orphaned>>
  PROVE  AttachInv'
<1>0. AttachTyped /\ MutexOK /\ RemovedOK /\ StoringOK /\ PublishOK /\ StoredWhole /\ ScheduledKept
      /\ QuotaKept /\ ThumbnailsFollow
  BY Zenon DEF AttachInv
<1>1. /\ proc' \in [Handlers -> Procs] /\ Others(h) /\ proc'[h].pc = "removeThumb" /\ proc'[h].id = i
      /\ \A g \in Handlers : proc'[g].pc \notin {"idle", "tombstone"} => proc'[g].id \in Ids
  BY Zenon, <1>0, GotoIs DEF Pcs, Holding
<1>2. UNCHANGED thumbs /\ files' = [files EXCEPT ![i] = 0] BY Zenon DEF Remove
<1>3. AttachTyped' BY Zenon, <1>0, <1>1, <1>2 DEF AttachTyped
<1>4. \A k \in Ids \ {i} : files'[k] = files[k] BY Zenon, <1>0, <1>2 DEF AttachTyped
<1>5. rows[i].is = "deleted" \/ i \in gone BY ZenonT(40), <1>0 DEF RemovedOK, Removing
<1>6. ~Live(i) /\ (rows[i] = NoRow => i \in gone) BY <1>0, <1>5 DEF RemovedOK, Live, NoRow
<1>7. ~JobHolds /\ ~JobHolds' BY Zenon DEF MuFree, JobHolds
<1>8. \A g \in Handlers : proc'[g].pc \in Holding => g = h BY Zenon, <1>1 DEF MuFree, Others, Holding
<1>9. \A g \in Handlers : proc'[g].pc \in Storing => g # h /\ proc'[g] = proc[g] BY Zenon, <1>1 DEF Others, Storing
<1>10. MutexOK' BY Zenon, <1>0, <1>7, <1>8, <1>9 DEF MutexOK
<1>11. RemovedOK'
  <2>1. ASSUME NEW g \in Handlers, proc'[g].pc \in Removing
        PROVE  rows'[proc'[g].id].is = "deleted" \/ proc'[g].id \in gone'
    BY Zenon, <1>0, <1>1, <1>5, <2>1 DEF RemovedOK, Others
  <2> QED BY Zenon, <1>0, <1>7, <2>1 DEF RemovedOK
<1>12. StoringOK'
  <2> SUFFICES ASSUME NEW g \in Handlers, proc'[g].pc \in Storing
               PROVE  /\ ~Live(proc[g].id)' /\ Fits(proc[g].id)'
                      /\ /\ proc'[g].pc \in {"insert", "insertCopy"}
                         /\ rows'[proc'[g].id] = NoRow /\ proc'[g].id \notin gone'
                         => files'[proc'[g].id] = Size[proc'[g].id]
    BY Zenon DEF StoringOK, Storing
  <2>1. PICK k \in Ids : k = proc[g].id /\ proc'[g] = proc[g] BY Zenon, <1>0, <1>9 DEF AttachTyped, Storing
  <2>2. ~Live(k) /\ Fits(k) BY Zenon, <1>0, <2>1 DEF StoringOK
  <2>3. ~Live(k)' /\ Fits(k)' BY Zenon, <1>0, <1>3, <2>2, RoomSame DEF Live
  <2>4. ~Live(proc[g].id)' /\ Fits(proc[g].id)' BY Zenon, <2>1, <2>3 DEF Live, Fits
  <2> QED BY Zenon, <1>0, <1>4, <1>6, <2>1, <2>4 DEF StoringOK
<1>13. PublishOK' BY Zenon, <1>1, <1>8 DEF PublishOK, Holding
<1>14. StoredWhole' BY Zenon, <1>0, <1>4, <1>6 DEF StoredWhole, Live
<1>15. ScheduledKept' BY Zenon, <1>0 DEF ScheduledKept, Live
<1>16. QuotaKept' BY Zenon, <1>0, <1>3, RoomSame
<1>17. ThumbnailsFollow'
  <2> SUFFICES ASSUME NEW k \in thumbs', k # i
               PROVE  \/ files'[k] > 0 \/ k \in orphaned'
                      \/ \E g \in Handlers : proc'[g].pc \in {"removeFile", "removeThumb"} /\ proc'[g].id = k
    BY Zenon, <1>1 DEF ThumbnailsFollow
  <2>1. k \in thumbs /\ k \in Ids BY Zenon, <1>0, <1>2 DEF AttachTyped
  <2> QED BY SMTT(30), <1>0, <1>1, <1>4, <1>7, <2>1 DEF ThumbnailsFollow, JobHolds, Others
<1> QED BY Zenon, <1>3, <1>10, <1>11, <1>12, <1>13, <1>14, <1>15, <1>16, <1>17 DEF AttachInv

LEMMA ThumbRemovalKeeps ==
  ASSUME AttachInv, NEW h \in Handlers, NEW i \in Ids, i = proc[h].id, proc[h].pc = "removeThumb",
         RemoveThumb(i), Goto(h, "tombstone"),
         UNCHANGED <<rows, jobs, open, gone, quota, plan, ceiling, purged, job, load, orphaned>>
  PROVE  AttachInv'
<1>0. AttachTyped /\ MutexOK /\ RemovedOK /\ StoringOK /\ PublishOK /\ StoredWhole /\ ScheduledKept
      /\ QuotaKept /\ ThumbnailsFollow
  BY Zenon DEF AttachInv
<1>1. /\ proc' \in [Handlers -> Procs] /\ Others(h) /\ proc'[h].pc = "tombstone"
      /\ \A g \in Handlers : proc'[g].pc \notin {"idle", "tombstone"} => proc'[g].id \in Ids
  BY Zenon, <1>0, GotoIs DEF Pcs
<1>2. UNCHANGED files /\ thumbs' = thumbs \ {i} BY Zenon DEF RemoveThumb
<1>3. AttachTyped' BY Zenon, <1>0, <1>1, <1>2 DEF AttachTyped
<1>4. proc[h].pc \in Holding BY Zenon DEF Holding
<1>5. ~JobHolds /\ ~JobHolds' BY Zenon, <1>0, <1>4 DEF MutexOK, JobHolds
<1>6. \A g \in Handlers : proc'[g].pc \notin Holding BY Zenon, <1>0, <1>1, <1>4 DEF MutexOK, Others, Holding
<1>7. \A g \in Handlers : proc'[g].pc \in Storing \cup Removing => g # h /\ proc'[g] = proc[g]
  BY Zenon, <1>1 DEF Others, Storing, Removing
<1>8. MutexOK' BY Zenon, <1>0, <1>5, <1>6, <1>7 DEF MutexOK
<1>9. RemovedOK' BY Zenon, <1>0, <1>5, <1>7 DEF RemovedOK
<1>10. StoringOK' BY Zenon, <1>0, <1>2, <1>3, <1>7, StoringSame
<1>11. PublishOK' BY Zenon, <1>6 DEF PublishOK, Holding
<1>12. StoredWhole' /\ ScheduledKept' BY Zenon, <1>0, <1>2 DEF StoredWhole, ScheduledKept, Live
<1>13. QuotaKept' BY Zenon, <1>0, <1>3, RoomSame
<1>14. ThumbnailsFollow' BY SMTT(30), <1>0, <1>1, <1>2, <1>5 DEF ThumbnailsFollow, JobHolds, Others
<1> QED BY ZenonT(40), <1>3, <1>8, <1>9, <1>10, <1>11, <1>12, <1>13, <1>14 DEF AttachInv

(* cleanupEntry: maintenance claims an abandoned file inside both mutexes. *)
LEMMA ClaimKeeps ==
  ASSUME AttachInv, NEW n \in Ids, n = Min(job.rest), job.pc = "entry", MuFree, BudgetFree,
         claimAbandoned(n), Claim(n), job' = [job EXCEPT !.pc = "remove"],
         UNCHANGED <<files, thumbs, jobs, open, gone, quota, plan, ceiling, purged, proc, load, orphaned>>
  PROVE  AttachInv'
<1>0. AttachTyped /\ MutexOK /\ RemovedOK /\ StoringOK /\ PublishOK /\ StoredWhole /\ ScheduledKept
      /\ QuotaKept /\ ThumbnailsFollow
  BY Zenon DEF AttachInv
<1>1. job' \in Jobs /\ job'.rest = job.rest BY Zenon, <1>0 DEF AttachTyped, Jobs
<1>2. /\ rows' \in [Ids -> RowTypes] /\ ~Live(n)' /\ \A k \in Ids \ {n} : rows'[k] = rows[k]
      /\ ~Live(n) => rows'[n] = rows[n]
      /\ rows'[n].is # rows[n].is => Live(n) /\ rows'[n].is = "deleted"
  BY <1>0 DEF AttachTyped, RowTypes, Claim, Live
<1>3. AttachTyped'
  <2>1. \A k \in Ids : rows'[k].is = "none" => rows'[k] = NoRow BY Zenon, <1>0, <1>2 DEF AttachTyped, Live
  <2> QED BY Zenon, <1>0, <1>1, <1>2, <2>1 DEF AttachTyped
<1>4. \A k \in Ids : Live(k)' => Live(k) BY Zenon, <1>2 DEF Live
<1>5. QuotaKept'
  <2>1. \A c \in Categories : ceiling[c] <= ceiling'[c] BY <1>0 DEF AttachTyped
  <2> QED BY Zenon, <1>0, <1>3, <1>4, <2>1, RoomStays
<1>6. \A g \in Handlers : proc'[g].pc \notin Storing \cup Holding BY Zenon DEF MuFree, BudgetFree, Storing, Holding
<1>7. MutexOK' BY Zenon, <1>6 DEF MutexOK
<1>8. RemovedOK'
  <2>1. \A k \in gone' : rows'[k] = NoRow /\ k \notin open' BY SMTT(30), <1>0, <1>2 DEF RemovedOK, AttachTyped, Live, NoRow
  <2>2. \A g \in Handlers : proc'[g].pc \in Removing => rows'[proc'[g].id].is = "deleted" \/ proc'[g].id \in gone'
    BY <1>0, <1>2 DEF RemovedOK, AttachTyped, Removing
  <2>3. Min(job'.rest) \in Ids /\ ~Live(Min(job.rest))' BY Zenon, <1>1, <1>2 DEF Live
  <2> QED BY Zenon, <2>1, <2>2, <2>3 DEF RemovedOK
<1>9. StoringOK' BY Zenon, <1>6 DEF StoringOK, Storing
<1>10. PublishOK' BY Zenon, <1>6 DEF PublishOK, Holding
<1>11. StoredWhole' BY Zenon, <1>0, <1>4 DEF StoredWhole
<1>12. ScheduledKept'
  <2>1. \A k \in Ids \ {n} : Live(k)' = Live(k) BY Zenon, <1>2 DEF Live
  <2>2. n \in jobs => ~Live(n) BY Zenon DEF claimAbandoned
  <2> QED BY Zenon, <1>0, <2>1, <2>2 DEF ScheduledKept, AttachTyped
<1>13. ThumbnailsFollow' BY Zenon, <1>0, <1>1 DEF ThumbnailsFollow
<1> QED BY ZenonT(40), <1>3, <1>5, <1>7, <1>8, <1>9, <1>10, <1>11, <1>12, <1>13 DEF AttachInv

(* Reclaim: maintenance removes the file and then the thumbnail.           *)
LEMMA ReclaimKeeps ==
  ASSUME AttachInv, Reclaim
  PROVE  AttachInv'
<1>0. AttachTyped /\ MutexOK /\ RemovedOK /\ StoringOK /\ PublishOK /\ StoredWhole /\ ScheduledKept
      /\ QuotaKept /\ ThumbnailsFollow
  BY Zenon DEF AttachInv
<1>1. JobHolds BY Zenon DEF Reclaim, JobHolds
<1>2. PICK n \in Ids : n = Min(job.rest) /\ ~Live(n) BY Zenon, <1>0, <1>1 DEF RemovedOK
<1>3. UNCHANGED <<rows, jobs, open, gone, quota, plan, ceiling, purged, proc, load, orphaned>>
  BY Zenon DEF Reclaim, wishes, bounds
<1>4. \/ /\ job.pc = "remove" /\ files' = [files EXCEPT ![n] = 0] /\ UNCHANGED thumbs
         /\ job' = [job EXCEPT !.pc = "removeThumb"]
      \/ /\ job.pc = "removeThumb" /\ thumbs' = thumbs \ {n} /\ UNCHANGED files
         /\ job' = [job EXCEPT !.pc = "entry", !.rest = @ \ {n}]
  BY Zenon, <1>2 DEF Reclaim, Remove, RemoveThumb, Advance
<1>5. /\ files' \in [Ids -> Nat] /\ thumbs' \subseteq thumbs
      /\ \A k \in Ids \ {n} : files'[k] = files[k]
  BY <1>0, <1>4 DEF AttachTyped
<1>6. /\ job' \in Jobs
      /\ \/ job'.pc = "removeThumb" /\ job'.rest = job.rest
         \/ job'.pc = "entry" /\ n \notin thumbs'
  BY ZenonT(40), <1>0, <1>4 DEF AttachTyped, Jobs
<1>7. AttachTyped' BY Zenon, <1>0, <1>3, <1>5, <1>6 DEF AttachTyped
<1>8. \A g \in Handlers : proc'[g].pc \notin Storing \cup Holding BY Zenon, <1>0, <1>1, <1>3 DEF MutexOK
<1>9. MutexOK' BY Zenon, <1>8 DEF MutexOK
<1>10. RemovedOK'
  <2>1. JobHolds' => Min(job'.rest) \in Ids /\ ~Live(Min(job.rest))'
    BY Zenon, <1>2, <1>3, <1>6 DEF JobHolds, Live
  <2> QED BY Zenon, <1>0, <1>3, <2>1 DEF RemovedOK
<1>11. StoringOK' BY Zenon, <1>8 DEF StoringOK, Storing
<1>12. PublishOK' BY Zenon, <1>8 DEF PublishOK, Holding
<1>13. StoredWhole' BY Zenon, <1>0, <1>2, <1>3, <1>5 DEF StoredWhole, Live
<1>14. ScheduledKept' BY Zenon, <1>0, <1>3 DEF ScheduledKept, Live
<1>15. QuotaKept' BY Zenon, <1>0, <1>3, <1>7, RoomSame
<1>16. ThumbnailsFollow'
  <2> SUFFICES ASSUME NEW k \in thumbs'
               PROVE  \/ files'[k] > 0 \/ k \in orphaned'
                      \/ \E g \in Handlers : proc'[g].pc \in {"removeFile", "removeThumb"} /\ proc'[g].id = k
                      \/ job'.pc = "removeThumb" /\ k = Min(job'.rest)
    BY Zenon DEF ThumbnailsFollow
  <2>1. k \in thumbs /\ k \in Ids BY Zenon, <1>0, <1>5 DEF AttachTyped
  <2>2. CASE k = n BY Zenon, <1>2, <1>6, <2>2
  <2>3. CASE k # n BY Zenon, <1>0, <1>2, <1>3, <1>5, <2>1, <2>3 DEF ThumbnailsFollow
  <2> QED BY Zenon, <2>2, <2>3
<1> QED BY ZenonT(40), <1>7, <1>9, <1>10, <1>11, <1>12, <1>13, <1>14, <1>15, <1>16 DEF AttachInv

(* Crash: what is on disk and in the database stays.                       *)
LEMMA CrashKeeps ==
  ASSUME AttachInv, Crash
  PROVE  AttachInv'
<1>0. AttachTyped /\ MutexOK /\ RemovedOK /\ StoringOK /\ PublishOK /\ StoredWhole /\ ScheduledKept
      /\ QuotaKept /\ ThumbnailsFollow
  BY Zenon DEF AttachInv
<1>1. /\ proc' = [h \in Handlers |-> Idle] /\ job' = Resting /\ plan' = {}
      /\ orphaned' = orphaned \cup {i \in thumbs : files[i] = 0}
      /\ UNCHANGED <<rows, files, thumbs, jobs, open, gone, quota, ceiling, purged, load>>
  BY Zenon DEF Crash, store
<1>2. \A g \in Handlers : proc'[g].pc = "idle" BY Zenon, <1>1, IdleIs
<1>3. job' \in Jobs /\ ~JobHolds' BY Zenon, <1>1 DEF Resting, Jobs, JobHolds
<1>4. AttachTyped' BY Zenon, <1>0, <1>1, <1>2, <1>3, IdleIs DEF AttachTyped
<1>5. MutexOK' BY Zenon, <1>2, <1>3 DEF MutexOK, Storing, Holding
<1>6. RemovedOK' BY Zenon, <1>0, <1>1, <1>2, <1>3 DEF RemovedOK, Removing
<1>7. StoringOK' BY Zenon, <1>2 DEF StoringOK, Storing
<1>8. PublishOK' BY Zenon, <1>2 DEF PublishOK
<1>9. StoredWhole' /\ ScheduledKept' BY Zenon, <1>0, <1>1 DEF StoredWhole, ScheduledKept, Live
<1>10. QuotaKept' BY ZenonT(40), <1>0, <1>1, <1>4, RoomSame
<1>11. ThumbnailsFollow' BY <1>0, <1>1 DEF ThumbnailsFollow, AttachTyped
<1> QED BY SMTT(30), <1>4, <1>5, <1>6, <1>7, <1>8, <1>9, <1>10, <1>11 DEF AttachInv

-----------------------------------------------------------------------------
(* The quiet steps. *)

LEMMA QuietMove ==
  ASSUME AttachInv, NEW h \in Handlers, Others(h), proc' \in [Handlers -> Procs],
         \A g \in Handlers : proc'[g].pc \notin {"idle", "tombstone"} => proc'[g].id \in Ids,
         proc[h].pc \notin Removing, proc'[h].pc \notin Storing \cup Holding \cup Removing, plan' \subseteq Ids,
         UNCHANGED <<rows, files, thumbs, jobs, open, gone, quota, ceiling, purged, job, load, orphaned>>
  PROVE  AttachInv'
<1>1. AttachTyped BY Zenon DEF AttachInv
<1>2. AttachTyped' BY Zenon, <1>1 DEF AttachTyped
<1>3. /\ \A g \in Handlers : proc'[g].pc \in Storing \cup Holding \cup Removing => proc'[g] = proc[g]
      /\ \A g \in Handlers : proc[g].pc \in Removing => proc'[g] = proc[g]
  BY Zenon DEF Others
<1>4. \A c \in Categories : ceiling[c] <= ceiling'[c] BY <1>1 DEF AttachTyped
<1> QED BY Zenon, <1>2, <1>3, <1>4, QuietStep

LEMMA QuietData ==
  ASSUME AttachInv, AttachTyped', UNCHANGED <<files, thumbs, gone, orphaned, purged, proc, job>>,
         \A i \in Ids : rows'[i].is = rows[i].is, \A i \in jobs' : i \in jobs \/ Live(i),
         open' \subseteq open, \A c \in Categories : ceiling[c] <= ceiling'[c]
  PROVE  AttachInv'
BY Zenon, QuietStep

LEMMA QuietJob ==
  ASSUME AttachInv, job' \in Jobs, ~JobHolds, ~JobHolds',
         UNCHANGED <<rows, files, thumbs, jobs, open, gone, quota, plan, ceiling, purged, proc, load, orphaned>>
  PROVE  AttachInv'
<1>1. AttachTyped BY Zenon DEF AttachInv
<1>2. AttachTyped' BY Zenon, <1>1 DEF AttachTyped
<1>3. \A c \in Categories : ceiling[c] <= ceiling'[c] BY <1>1 DEF AttachTyped
<1> QED BY Zenon, <1>2, <1>3, QuietStep

LEMMA NothingMoves ==
  ASSUME AttachInv, plan' \subseteq Ids,
         UNCHANGED <<rows, files, thumbs, jobs, open, gone, quota, ceiling, purged, proc, job, load, orphaned>>
  PROVE  AttachInv'
<1>1. AttachTyped BY Zenon DEF AttachInv
<1>2. AttachTyped' BY Zenon, <1>1 DEF AttachTyped
<1>3. \A c \in Categories : ceiling[c] <= ceiling'[c] BY <1>1 DEF AttachTyped
<1> QED BY Zenon, <1>2, <1>3, QuietData

(* The requests that start a process.                                      *)
LEMMA StartKeeps ==
  ASSUME AttachInv, NEW h \in Handlers, NEW i \in Ids, upload(h, i) \/ Copy(h, i) \/ thumbnail(h, i)
  PROVE  AttachInv'
<1>0. AttachTyped /\ plan \subseteq Ids BY Zenon DEF AttachInv, AttachTyped
<1>1. /\ proc[h] = Idle
      /\ UNCHANGED <<rows, files, thumbs, jobs, open, gone, quota, plan, ceiling, purged, job, load, orphaned>>
  BY Zenon DEF upload, Copy, thumbnail, Ask, wishes, store
<1>2. proc[h].pc \notin Removing BY Zenon, <1>1, IdleIs DEF Removing
<1>3. CASE UNCHANGED proc BY Zenon, <1>0, <1>1, <1>3, NothingMoves
<1>4. ASSUME NEW p, p \in Procs, p.id = i, p.pc \in {"body", "decode"}, proc' = [proc EXCEPT ![h] = p]
      PROVE  AttachInv'
  <2>1. /\ proc' \in [Handlers -> Procs] /\ Others(h) /\ proc'[h].pc = p.pc /\ proc'[h].id = i
        /\ \A g \in Handlers : proc'[g].pc \notin {"idle", "tombstone"} => proc'[g].id \in Ids
    BY Zenon, <1>0, <1>4, StartsWith
  <2>2. proc'[h].pc \notin Storing \cup Holding \cup Removing BY Zenon, <1>4, <2>1 DEF Storing, Holding, Removing
  <2>3. plan' \subseteq Ids BY Zenon, <1>0, <1>1
  <2> QED BY Zenon, <1>1, <1>2, <2>1, <2>2, <2>3, QuietMove
<1>5. CASE upload(h, i) /\ proc' # proc
  <2>1. PICK t \in Temps : proc' = [proc EXCEPT ![h] = At("body", i, t, {})] BY Zenon, <1>5 DEF upload
  <2>2. PICK p : p = At("body", i, t, {}) OBVIOUS
  <2>3. p \in Procs /\ p.id = i /\ p.pc = "body" BY Zenon, <2>2 DEF At, Procs, Pcs
  <2>4. proc' = [proc EXCEPT ![h] = p] BY Zenon, <2>1, <2>2
  <2> QED BY Zenon, <1>4, <2>3, <2>4
<1>6. CASE thumbnail(h, i) /\ proc' # proc
  <2>1. proc' = [proc EXCEPT ![h] = At("decode", i, 0, {})] BY Zenon, <1>6 DEF thumbnail
  <2>2. PICK p : p = At("decode", i, 0, {}) OBVIOUS
  <2>3. p \in Procs /\ p.id = i /\ p.pc = "decode" BY Zenon, <2>2 DEF At, Procs, Pcs
  <2>4. proc' = [proc EXCEPT ![h] = p] BY Zenon, <2>1, <2>2
  <2> QED BY Zenon, <1>4, <2>3, <2>4
<1>7. CASE Copy(h, i) /\ proc' # proc
  <2>1. /\ BudgetFree /\ WithinBudget(i) /\ i \in open /\ ~Live(i)
        /\ proc' = [proc EXCEPT ![h] = At("copying", i, CopyTemp(i), {})]
    BY Zenon, <1>7 DEF Copy
  <2> QED BY Zenon, <1>1, <2>1, CopyKeeps
<1> QED BY Zenon, <1>3, <1>5, <1>6, <1>7

LEMMA CleanupKeeps ==
  ASSUME AttachInv, NEW h \in Handlers, cleanup(h)
  PROVE  AttachInv'
<1>0. AttachTyped BY Zenon DEF AttachInv
<1>1. /\ proc[h] = Idle /\ plan' = {} /\ proc' = [proc EXCEPT ![h] = At("tombstone", 0, 0, plan)]
      /\ UNCHANGED <<rows, files, thumbs, jobs, open, gone, quota, ceiling, purged, job, load, orphaned>>
  BY Zenon DEF cleanup, Ask, store
<1>2. PICK p : p = At("tombstone", 0, 0, plan) OBVIOUS
<1>3. p \in Procs /\ p.pc = "tombstone" BY Zenon, <1>0, <1>2 DEF At, Procs, Pcs, AttachTyped
<1>4. proc' = [proc EXCEPT ![h] = p] BY Zenon, <1>1, <1>2
<1>5. /\ proc' \in [Handlers -> Procs] /\ Others(h) /\ proc'[h] = p
      /\ \A g \in Handlers : proc'[g].pc \notin {"idle", "tombstone"} => proc'[g].id \in Ids
  BY Zenon, <1>0, <1>3, <1>4, StartIs
<1>6. proc[h].pc \notin Removing /\ proc'[h].pc \notin Storing \cup Holding \cup Removing
  BY Zenon, <1>1, <1>3, <1>5, IdleIs DEF Storing, Holding, Removing
<1>7. plan' \subseteq Ids BY Zenon, <1>1
<1> QED BY Zenon, <1>1, <1>5, <1>6, <1>7, QuietMove

(* The transactions of messages and permissions.                           *)
LEMMA MessageKeeps ==
  ASSUME AttachInv, NEW i \in Ids,
         Send(i) \/ DeleteMessage(i) \/ Schedule(i) \/ CancelSchedule(i) \/ Revoke(i)
  PROVE  AttachInv'
<1>0. AttachTyped BY Zenon DEF AttachInv
<1>1. UNCHANGED <<files, thumbs, gone, orphaned, purged, proc, job, quota, ceiling, plan, load>>
  BY Zenon DEF Send, DeleteMessage, Schedule, CancelSchedule, Revoke, SetRow, Ask, wishes, store
<1>2. /\ rows' \in [Ids -> RowTypes] /\ \A k \in Ids : rows'[k].is = rows[k].is
      /\ \A k \in Ids : rows'[k].is = "none" => rows'[k] = NoRow
  <2>1. CASE UNCHANGED rows BY Zenon, <1>0, <2>1 DEF AttachTyped
  <2>2. ASSUME NEW b \in BOOLEAN, rows[i].is # "none" \/ rows[i].linked,
               rows' = [rows EXCEPT ![i] = [rows[i] EXCEPT !.linked = b]]
        PROVE  /\ rows' \in [Ids -> RowTypes] /\ \A k \in Ids : rows'[k].is = rows[k].is
               /\ \A k \in Ids : rows'[k].is = "none" => rows'[k] = NoRow
    BY ZenonT(40), <1>0, <2>2 DEF AttachTyped, RowTypes, NoRow
  <2>3. CASE Send(i) BY Zenon, <2>2, <2>3 DEF Send, SetRow, Live
  <2>4. CASE DeleteMessage(i) BY Zenon, <2>2, <2>4 DEF DeleteMessage, SetRow
  <2> QED BY Zenon, <2>1, <2>3, <2>4 DEF Schedule, CancelSchedule, Revoke, store
<1>3. /\ jobs' \subseteq Ids /\ \A k \in jobs' : k \in jobs \/ Live(k)
      /\ open' \subseteq open
  BY Zenon, <1>0 DEF Send, DeleteMessage, Schedule, CancelSchedule, Revoke, wishes, AttachTyped
<1>4. AttachTyped' BY Zenon, <1>0, <1>1, <1>2, <1>3 DEF AttachTyped
<1>5. \A c \in Categories : ceiling[c] <= ceiling'[c] BY <1>0, <1>1 DEF AttachTyped
<1> QED BY Zenon, <1>1, <1>2, <1>3, <1>4, <1>5, QuietData

(* The owner's storage page.                                               *)
LEMMA StoragePageKeeps ==
  ASSUME AttachInv, NEW c \in Categories, preview(c) \/ \E q \in Quotas : storage(c, q)
  PROVE  AttachInv'
<1>0. AttachTyped BY Zenon DEF AttachInv
<1>1. CASE preview(c)
  <2>1. /\ plan' \subseteq Ids
        /\ UNCHANGED <<rows, files, thumbs, jobs, open, gone, quota, ceiling, purged, proc, job, load, orphaned>>
    BY Zenon, <1>1 DEF preview, Ask, store
  <2> QED BY Zenon, <2>1, NothingMoves
<1>2. ASSUME NEW q \in Quotas, storage(c, q) PROVE AttachInv'
  <2>1. UNCHANGED <<rows, files, thumbs, jobs, open, gone, plan, purged, proc, job, load, orphaned>>
    BY Zenon, <1>2 DEF storage, Ask, store
  <2>2. q \in Nat BY Zenon, AttachmentsAssumption DEF AttachmentsAssumption
  <2>3. ceiling[c] \in Nat BY Zenon, <1>0 DEF AttachTyped
  <2>4. PICK m : m = Max({ceiling[c], q}) OBVIOUS
  <2>5. m \in Nat /\ m >= ceiling[c] /\ m >= q BY Zenon, <2>2, <2>3, <2>4, MaxOfTwo
  <2>6. UNCHANGED <<quota, ceiling>> \/ (quota' = [quota EXCEPT ![c] = q] /\ ceiling' = [ceiling EXCEPT ![c] = m])
    BY Zenon, <1>2, <2>4 DEF storage
  <2>7. /\ quota' \in [Categories -> Nat] /\ ceiling' \in [Categories -> Nat]
        /\ \A d \in Categories : quota'[d] <= ceiling'[d] /\ ceiling[d] <= ceiling'[d]
    BY SMTT(30), <1>0, <2>2, <2>3, <2>5, <2>6 DEF AttachTyped
  <2>8. AttachTyped' BY Zenon, <1>0, <2>1, <2>7 DEF AttachTyped
  <2> QED BY Zenon, <2>1, <2>7, <2>8, QuietData
<1> QED BY Zenon, <1>1, <1>2

LEMMA RequestKeeps == ASSUME AttachInv, Request PROVE AttachInv'
<1>1. load.ids \subseteq Ids
  <2>1. load \in Loads BY Zenon DEF AttachInv, AttachTyped
  <2> QED BY Zenon, <2>1, AttachmentsAssumption DEF AttachmentsAssumption
<1> QED BY Zenon, <1>1, StartKeeps, CleanupKeeps, MessageKeeps, DestinationKeeps, StoragePageKeeps DEF Request

(* The steps of a request under way.                                       *)
LEMMA ServeKeeps == ASSUME AttachInv, NEW h \in Handlers, Serve(h) PROVE AttachInv'
<1>0. AttachTyped /\ plan \subseteq Ids BY Zenon DEF AttachInv, AttachTyped
<1>1. ASSUME Finish(h), proc[h].pc \notin Removing,
             UNCHANGED <<rows, files, thumbs, jobs, open, gone, quota, plan, ceiling, purged, job, load, orphaned>>
      PROVE  AttachInv'
  <2>1. /\ proc' \in [Handlers -> Procs] /\ Others(h) /\ proc'[h].pc = "idle"
        /\ \A g \in Handlers : proc'[g].pc \notin {"idle", "tombstone"} => proc'[g].id \in Ids
    BY Zenon, <1>0, <1>1, FinishIs
  <2>2. proc'[h].pc \notin Storing \cup Holding \cup Removing BY Zenon, <2>1 DEF Storing, Holding, Removing
  <2>3. plan' \subseteq Ids BY Zenon, <1>0, <1>1
  <2> QED BY Zenon, <1>1, <2>1, <2>2, <2>3, QuietMove
<1>2. CASE Receive(h)
  <2>1. /\ proc[h].pc = "body" /\ (Finish(h) \/ Goto(h, "received"))
        /\ UNCHANGED <<rows, files, thumbs, jobs, open, gone, quota, plan, ceiling, purged, job, load, orphaned>>
    BY Zenon, <1>2 DEF Receive, wishes, bounds
  <2>2. proc[h].pc \notin Removing /\ proc[h].id \in Ids BY Zenon, <1>0, <2>1 DEF Removing, AttachTyped
  <2>3. CASE Goto(h, "received")
    <3>1. /\ proc' \in [Handlers -> Procs] /\ Others(h) /\ proc'[h].pc = "received"
          /\ \A g \in Handlers : proc'[g].pc \notin {"idle", "tombstone"} => proc'[g].id \in Ids
      BY Zenon, <1>0, <2>2, <2>3, GotoIs DEF Pcs
    <3>2. proc'[h].pc \notin Storing \cup Holding \cup Removing BY Zenon, <3>1 DEF Storing, Holding, Removing
    <3>3. plan' \subseteq Ids BY Zenon, <1>0, <2>1
    <3> QED BY ZenonT(40), <2>1, <2>2, <3>1, <3>2, <3>3, QuietMove
  <2> QED BY Zenon, <1>1, <2>1, <2>2, <2>3
<1>3. CASE Publish(h)
  <2>1. proc[h].pc = "received" BY Zenon, <1>3 DEF Publish
  <2>2. CASE Goto(h, "insert")
    <3>1. proc'[h].pc = "insert" BY Zenon, <1>0, <2>1, <2>2, GotoIs DEF Pcs, Storing, AttachTyped
    <3> QED BY Zenon, <1>3, <3>1, PublishKeeps
  <2>3. CASE ~Goto(h, "insert")
    <3>1. /\ Finish(h) /\ proc[h].pc \notin Removing
          /\ UNCHANGED <<rows, files, thumbs, jobs, open, gone, quota, plan, ceiling, purged, job, load, orphaned>>
      BY Zenon, <1>3, <2>1, <2>3 DEF Publish, wishes, bounds, Removing
    <3> QED BY Zenon, <1>1, <3>1
  <2> QED BY Zenon, <2>2, <2>3
<1>4. CASE Insert(h)
  <2>1. PICK i \in Ids : i = proc[h].id /\ proc[h].pc \in {"insert", "insertCopy"}
    BY Zenon, <1>0, <1>4 DEF Insert, AttachTyped
  <2>2. /\ Finish(h) /\ UNCHANGED <<jobs, open, gone, quota, plan, ceiling, purged, job, load, orphaned>>
        /\ (rows[i] = NoRow /\ i \notin gone /\ Inserted(i)) \/ NotInserted(i)
    BY ZenonT(40), <1>4, <2>1 DEF Insert, wishes, bounds
  <2> QED BY Zenon, <2>1, <2>2, InsertKeeps, InsertFails
<1>5. CASE Copied(h)
  <2>1. PICK i \in Ids : i = proc[h].id /\ proc[h].pc = "copying" BY Zenon, <1>0, <1>5 DEF Copied, AttachTyped
  <2>2. /\ UNCHANGED <<rows, thumbs, jobs, open, gone, quota, plan, ceiling, purged, job, load, orphaned>>
        /\ \/ files' = [files EXCEPT ![i] = Size[i]] /\ Goto(h, "insertCopy")
           \/ Finish(h) /\ UNCHANGED files
    BY Zenon, <1>5, <2>1 DEF Copied, wishes, bounds
  <2>3. proc[h].pc \notin Removing BY Zenon, <2>1 DEF Removing
  <2> QED BY SMTT(30), <1>1, <2>1, <2>2, <2>3, CopiedKeeps
<1>6. CASE Recheck(h)
  <2>1. PICK i \in Ids : i = proc[h].id /\ proc[h].pc = "decode" BY Zenon, <1>0, <1>6 DEF Recheck, AttachTyped
  <2>2. /\ UNCHANGED <<rows, files, thumbs, jobs, open, gone, quota, plan, ceiling, purged, job, load, orphaned>>
        /\ MuFree /\ ((Live(i) /\ Goto(h, "publish")) \/ Finish(h))
    BY Zenon, <1>6, <2>1 DEF Recheck, StillThere, store, wishes, bounds
  <2>3. proc[h].pc \notin Removing BY Zenon, <2>1 DEF Removing
  <2> QED BY Zenon, <1>1, <2>1, <2>2, <2>3, RecheckKeeps
<1>7. CASE Tombstone(h)
  <2>1. /\ proc[h].pc = "tombstone" /\ proc[h].rest \subseteq Ids
        /\ UNCHANGED <<files, thumbs, jobs, open, gone, quota, plan, ceiling, job, load, orphaned>>
    BY Zenon, <1>0, <1>7 DEF Tombstone, bounds, AttachTyped, Procs
  <2>2. proc[h].pc \notin Removing BY Zenon, <2>1 DEF Removing
  <2>3. CASE Finish(h) /\ UNCHANGED <<rows, purged>> BY Zenon, <1>1, <2>1, <2>2, <2>3
  <2>4. ASSUME NEW i \in proc[h].rest, ~Live(i), proc' = [proc EXCEPT ![h].rest = @ \ {i}], UNCHANGED <<rows, purged>>
        PROVE  AttachInv'
    <3>1. /\ proc' \in [Handlers -> Procs] /\ Others(h) /\ proc'[h].pc = "tombstone"
          /\ \A g \in Handlers : proc'[g].pc \notin {"idle", "tombstone"} => proc'[g].id \in Ids
      BY <1>0, <2>1, <2>4 DEF AttachTyped, Procs, Others
    <3>2. proc'[h].pc \notin Storing \cup Holding \cup Removing BY Zenon, <3>1 DEF Storing, Holding, Removing
    <3>3. plan' \subseteq Ids BY Zenon, <1>0, <2>1
    <3> QED BY SMTT(30), <2>1, <2>2, <2>4, <3>1, <3>2, <3>3, QuietMove
  <2>5. ASSUME NEW i \in proc[h].rest, Live(i), rows' = [rows EXCEPT ![i].is = "deleted"],
               purged' = purged \cup {i}, proc' = [proc EXCEPT ![h] = At("removeFile", i, 0, @.rest \ {i})]
        PROVE  AttachInv'
    <3>1. i \in Ids BY Zenon, <2>1
    <3> QED BY Zenon, <2>1, <2>5, <3>1, TombstoneKeeps
  <2> QED BY Zenon, <1>7, <2>3, <2>4, <2>5 DEF Tombstone
<1>8. CASE RemoveFile(h)
  <2>1. PICK i \in Ids : i = proc[h].id BY Zenon, <1>0, <1>8 DEF RemoveFile, AttachTyped
  <2>2. UNCHANGED <<rows, jobs, open, gone, quota, plan, ceiling, purged, job, load, orphaned>>
    BY Zenon, <1>8 DEF RemoveFile, wishes, bounds
  <2>3. CASE proc[h].pc = "removeFile" /\ MuFree /\ Remove(i) /\ Goto(h, "removeThumb")
    BY Zenon, <2>1, <2>2, <2>3, RemovalKeeps
  <2>4. CASE proc[h].pc = "removeThumb" /\ RemoveThumb(i) /\ Goto(h, "tombstone")
    BY Zenon, <2>1, <2>2, <2>4, ThumbRemovalKeeps
  <2> QED BY Zenon, <1>8, <2>1, <2>3, <2>4 DEF RemoveFile
<1> QED BY ZenonT(40), <1>2, <1>3, <1>4, <1>5, <1>6, <1>7, <1>8, ThumbnailKeeps DEF Serve

(* The steps of maintenance.                                               *)
LEMMA MaintainKeeps == ASSUME AttachInv, Maintain \/ Interrupt PROVE AttachInv'
<1>0. AttachTyped BY Zenon DEF AttachInv
<1>1. CASE Reclaim BY Zenon, <1>1, ReclaimKeeps
<1>2. CASE ~Reclaim
  <2>1. /\ job.pc \in {"idle", "candidates", "entry"}
        /\ UNCHANGED <<files, thumbs, jobs, open, gone, quota, plan, ceiling, purged, proc, load, orphaned>>
    BY Zenon, <1>2 DEF Maintain, List, cleanupCandidates, cleanupEntry, Done, Interrupt, store, wishes, bounds
  <2>2. ~JobHolds BY Zenon, <2>1 DEF JobHolds
  <2>3. ASSUME job' \in Jobs, job'.pc \in {"idle", "candidates", "entry"}, UNCHANGED rows PROVE AttachInv'
    <3>1. ~JobHolds' BY Zenon, <2>3 DEF JobHolds
    <3> QED BY Zenon, <2>1, <2>2, <2>3, <3>1, QuietJob
  <2>4. CASE List
    <3>1. {n \in Names : n > cursor} \subseteq Ids \cup Temps BY Zenon DEF Names
    <3> QED BY Zenon, <2>3, <2>4, <3>1 DEF List, Jobs, store
  <2>5. CASE cleanupCandidates BY ZenonT(40), <1>0, <2>3, <2>5 DEF cleanupCandidates, Jobs, AttachTyped, store
  <2>6. CASE Done \/ Interrupt BY <2>3, <2>6 DEF Done, Rewind, Interrupt, Resting, Jobs, store
  <2>7. CASE cleanupEntry
    <3>1. PICK n : n = Min(job.rest) OBVIOUS
    <3>2. CASE Advance(n) /\ UNCHANGED rows
      BY Zenon, <1>0, <2>3, <3>2 DEF Advance, Jobs, AttachTyped
    <3>3. CASE n \in Ids /\ MuFree /\ BudgetFree /\ claimAbandoned(n) /\ Claim(n) /\ job' = [job EXCEPT !.pc = "remove"]
      <4>1. job.pc = "entry" BY Zenon, <2>7 DEF cleanupEntry
      <4> QED BY Zenon, <2>1, <3>1, <3>3, <4>1, ClaimKeeps
    <3> QED BY Zenon, <2>7, <3>1, <3>2, <3>3 DEF cleanupEntry, Names
  <2> QED BY Zenon, <1>2, <2>4, <2>5, <2>6, <2>7 DEF Maintain
<1> QED BY Zenon, <1>1, <1>2

LEMMA AttachStep == ASSUME AttachInv, Next PROVE AttachInv'
<1>1. CASE \E n \in Ids \cup Temps : Age(n)
  <2>1. plan \subseteq Ids BY Zenon DEF AttachInv, AttachTyped
  <2>2. UNCHANGED <<rows, files, thumbs, jobs, open, gone, quota, plan, ceiling, purged, proc, job, load, orphaned>>
    BY Zenon, <1>1 DEF Age, wishes, bounds
  <2> QED BY Zenon, <2>1, <2>2, NothingMoves
<1> QED BY Zenon, <1>1, RequestKeeps, ServeKeeps, MaintainKeeps, CrashKeeps DEF Next

LEMMA AttachInit == ASSUME Init PROVE AttachInv
<1>0. load.rows \subseteq Ids /\ load \in Loads BY Zenon, AttachmentsAssumption DEF Init, AttachmentsAssumption
<1>1. Max(Quotas) \in Nat BY Zenon, AttachmentsAssumption, MaxNat DEF AttachmentsAssumption
<1>2. \A i \in Ids : /\ rows[i] = IF i \in load.rows THEN [is |-> "live", linked |-> TRUE] ELSE NoRow
                     /\ files[i] = IF i \in load.rows THEN Size[i] ELSE 0
  BY Zenon DEF Init
<1>3. \A i \in Ids : Live(i) <=> i \in load.rows BY <1>2 DEF Live, NoRow
<1>4. \A h \in Handlers : proc[h] = Idle /\ proc[h].pc = "idle" BY Zenon, IdleIs DEF Init
<1>5. ~JobHolds BY Zenon DEF Init, JobHolds, Resting
<1>6. AttachTyped
  <2>1. rows \in [Ids -> RowTypes] BY Zenon DEF Init, RowTypes, NoRow
  <2>2. files \in [Ids -> Nat] BY Zenon, IdsFinite DEF Init
  <2>3. quota \in [Categories -> Nat] /\ quota = ceiling BY Zenon, <1>1 DEF Init
  <2>4. proc \in [Handlers -> Procs] BY Zenon, IdleIs DEF Init
  <2>5. job \in Jobs BY Zenon DEF Init, Resting, Jobs
  <2>6. \A i \in Ids : rows[i].is = "none" => rows[i] = NoRow BY <1>2
  <2>7. \A c \in Categories : quota[c] <= ceiling[c] BY <2>3
  <2> QED BY SMTT(30), <1>0, <1>4, <2>1, <2>2, <2>3, <2>4, <2>5, <2>6, <2>7 DEF AttachTyped, Init
<1>7. MutexOK BY Zenon, <1>4, <1>5 DEF MutexOK, Storing, Holding
<1>8. RemovedOK BY Zenon, <1>4, <1>5 DEF RemovedOK, Removing, Init
<1>9. StoringOK BY Zenon, <1>4 DEF StoringOK, Storing
<1>10. PublishOK BY Zenon, <1>4 DEF PublishOK
<1>11. StoredWhole BY Zenon, <1>2, <1>3 DEF StoredWhole
<1>12. ScheduledKept BY Zenon DEF ScheduledKept, Init
<1>13. ThumbnailsFollow BY Zenon DEF ThumbnailsFollow, Init
<1>14. QuotaKept
  <2> SUFFICES ASSUME NEW c \in Categories PROVE Used(c) <= ceiling[c] BY Zenon DEF QuotaKept
  <2>1. ceiling[c] = Max(Quotas) BY Zenon DEF Init
  <2>2. LiveIn(rows, c) = {i \in load.rows : Category[i] = c} BY Zenon, <1>0, <1>3 DEF LiveIn, Live
  <2>3. Sum(Size, {i \in load.rows : Category[i] = c}) <= Max(Quotas)
    BY Zenon, <1>0, AttachmentsAssumption DEF AttachmentsAssumption, Sum, MapThenSumSet, MapThenFoldSet, Categories
  <2> QED BY Zenon, <2>1, <2>2, <2>3, UsedIs
<1> QED BY ZenonT(40), <1>6, <1>7, <1>8, <1>9, <1>10, <1>11, <1>12, <1>13, <1>14 DEF AttachInv

(* AttachmentsKept, for any number of requests, attachments, quotas,       *)
(* crashes and interrupted clean-ups: an attachment somebody can read is   *)
(* stored whole, one that a pending scheduled message carries is kept,     *)
(* every category stays within the largest quota it had, and a thumbnail   *)
(* has its original.                                                       *)
THEOREM AttachmentsAreKept == Spec => []AttachmentsKept
<1>1. Init => AttachInv BY AttachInit
<1>2. AttachInv /\ [Next]_vars => AttachInv'
  <2> SUFFICES ASSUME AttachInv, [Next]_vars PROVE AttachInv' OBVIOUS
  <2>1. CASE Next BY <2>1, AttachStep
  <2>2. CASE UNCHANGED vars
    <3>1. plan \subseteq Ids BY DEF AttachInv, AttachTyped
    <3>2. UNCHANGED <<rows, files, thumbs, jobs, open, gone, quota, plan, ceiling, purged, proc, job, load, orphaned>>
      BY <2>2 DEF vars, store, wishes, bounds
    <3> QED BY SMTT(30), <3>1, <3>2, NothingMoves
  <2> QED BY <2>1, <2>2
<1>3. AttachInv => AttachmentsKept BY DEF AttachInv, AttachmentsKept
<1> QED BY <1>1, <1>2, <1>3, PTL DEF Spec
=============================================================================
