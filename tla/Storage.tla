------------------------------ MODULE Storage ------------------------------
(***************************************************************************)
(* The files the server keeps: attachments (internal/attachments) and call *)
(* recordings (internal/recordings).  Each has its own rows, files and     *)
(* mutex, so a behaviour runs one of them while the other rests in its     *)
(* initial state.                                                          *)
(***************************************************************************)
EXTENDS Attachments, Recordings

VARIABLE side

StorageInit ==
  /\ side \in {"attachments", "recordings"}
  /\ Init /\ RecordingsInit
  /\ side # "attachments" => load = CHOOSE l \in Loads : TRUE
  /\ side # "recordings" => work = CHOOSE l \in Works : TRUE

StorageNext ==
  \/ side = "attachments" /\ Next /\ UNCHANGED <<side, recordings>>
  \/ side = "recordings" /\ RecordingsNext /\ UNCHANGED <<side, vars>>

(* Less than the two specifications ask for, and enough because requests   *)
(* are bounded: some handler, some recorder and some clock goes on.        *)
StorageFairness ==
  /\ WF_vars(side = "attachments" /\ \E h \in Handlers : Serve(h))
  /\ WF_vars(side = "attachments" /\ Maintain)
  /\ WF_vars(side = "attachments" /\ \E n \in Ids \cup Temps : Age(n))
  /\ WF_recordings(side = "recordings" /\ \E h \in RecHandlers : ServeRecording(h))
  /\ SF_recordings(side = "recordings" /\ \E r \in Recs : Upload(r))

StorageSpec == StorageInit /\ [][StorageNext]_<<side, vars, recordings>> /\ StorageFairness

(* Storage settles: files nobody refers to and abandoned temporary files   *)
(* go (maintenance), and an upload of a recording comes to an end, however *)
(* often answers are lost and processes die.                               *)
StorageSettles == GarbageGoes /\ UploadEnds
=============================================================================
