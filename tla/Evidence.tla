------------------------------- MODULE Evidence -------------------------------
(***************************************************************************)
(* The stored observations of a gate, the photos kept for those that wait  *)
(* for a review and the audit of the calls of the external service: what   *)
(* monitoring.service, auto-registration, movement-evidence.service,       *)
(* external-interaction.service and purge-confirmed-evidence.mjs write.    *)
(*                                                                         *)
(* A step ends where the code awaits the database, the storage or the      *)
(* external service.  save writes every column of the entity that was read *)
(* earlier, query builders and the script write the columns they name.     *)
(* EventPipeline shows that a gate has one job at a time, Registration how *)
(* it decides: its decisions are choices here.  Expiry only refuses a      *)
(* confirmation, and the key of a photo stands for its observation.        *)
(***************************************************************************)
EXTENDS Naturals, Sequences, FiniteSets

CONSTANTS
    Observations,
    Readers,      \* requests that read the current observation
    Answers,      \* outcomes that a call of the external service may have
    MaxSeen,      \* bound: instants
    MaxMishaps    \* bound: failures and crashes

Outcomes == {"success", "no_plate", "low_confidence", "timeout", "error", "rate_limited"}

ASSUME EvidenceAssumption ==
    /\ Answers \subseteq Outcomes
    /\ "any" \notin Observations
    /\ MaxSeen \in Nat
    /\ MaxMishaps \in Nat

VARIABLES
    seen,       \* lastSeenAt in the ANPR service, 0 before the observation is shown
    stored,     \* camera_observations
    decision,   \* status of the movement of each observation, "none" without one
    photos,     \* the observations whose photo is in the storage
    audit,      \* anpr_external_interactions, in order
    marked,     \* history: observations whose external result was stored
    processed,  \* this.processed of the auto-registration
    job,        \* the observation in progress
    reads,      \* what the requests in Readers remember
    review,     \* a review whose photos are being removed
    purge,      \* the run of the purge script
    mishaps     \* for the bound

outsideJob == <<seen, reads, review, purge>>
evidenceVars == <<seen, stored, decision, photos, audit, marked, processed, job, reads,
                  review, purge, mishaps>>

Mishap == mishaps < MaxMishaps /\ mishaps' = mishaps + 1

\* A step that goes well leaves mishaps alone, one that fails counts.
Fails(failure) == IF failure THEN Mishap ELSE UNCHANGED mishaps

-----------------------------------------------------------------------------
(* The table of observations.                                              *)

NewRow(instant) == [seen |-> instant, photo |-> FALSE, checked |-> FALSE]

\* INSERT ... ON CONFLICT DO NOTHING
InsertOrIgnore(o, instant) ==
    IF o \in DOMAIN stored THEN stored
    ELSE [x \in DOMAIN stored \cup {o} |-> IF x = o THEN NewRow(instant) ELSE stored[x]]

\* save: every column of the entities, whatever the rows hold by now.
SaveRows(entities) ==
    stored' = [o \in DOMAIN stored |-> IF o \in DOMAIN entities THEN entities[o] ELSE stored[o]]

SaveRow(o, entity) == SaveRows([x \in {o} |-> entity])

\* The camera sees the vehicle, for the first time or again.
See(o) ==
    /\ seen[o] < MaxSeen
    /\ seen' = [seen EXCEPT ![o] = @ + 1]
    /\ UNCHANGED <<stored, decision, photos, audit, marked, processed, job, reads,
                   review, purge, mishaps>>

-----------------------------------------------------------------------------
(* MonitoringService.current.                                              *)

NoRead == [pc |-> "idle"]

SetRead(r, read) ==
    /\ reads' = [reads EXCEPT ![r] = read]
    /\ UNCHANGED <<seen, decision, photos, audit, marked, processed, job, review,
                   purge, mishaps>>

ReadState(r, o) ==
    /\ reads[r] = NoRead /\ seen[o] > 0
    /\ SetRead(r, [pc |-> "store", obs |-> o, seen |-> seen[o]])
    /\ UNCHANGED stored

\* The row is inserted unless it exists, then UPDATE ... WHERE "lastSeenAt" < :lastSeenAt.
ReadStore(r) ==
    /\ reads[r].pc = "store"
    /\ stored' = [InsertOrIgnore(reads[r].obs, reads[r].seen) EXCEPT
                     ![reads[r].obs].seen = IF @ < reads[r].seen THEN reads[r].seen ELSE @]
    /\ SetRead(r, NoRead)

-----------------------------------------------------------------------------
(* The job of the auto-registration.                                       *)

NoJob == [pc |-> "idle"]

\* processObservation returned true.
Finish == job' = NoJob /\ processed' = processed \cup {job.obs}

Proceed(pc) == job' = [job EXCEPT !.pc = pc] /\ UNCHANGED processed

JobFetch(o) ==
    /\ job = NoJob /\ seen[o] > 0 /\ o \notin processed
    /\ job' = [pc |-> "persist", obs |-> o, row |-> NewRow(seen[o]), registered |-> FALSE, call |-> 0]
    /\ UNCHANGED <<outsideJob, stored, decision, photos, audit, marked, processed, mishaps>>

\* Mutant: an observation that was stored before is taken from the state read.
PersistFromState ==
    /\ job.pc = "persist"
    /\ stored' = InsertOrIgnore(job.obs, job.row.seen)
    /\ IF decision[job.obs] # "none" THEN Finish ELSE Proceed("decide")
    /\ UNCHANGED <<outsideJob, decision, photos, audit, marked, mishaps>>

\* ensureObservationPersisted, which reads the row that a request may have
\* inserted, and findExistingByObservation.
JobPersist ==
    /\ job.pc = "persist"
    /\ stored' = InsertOrIgnore(job.obs, job.row.seen)
    /\ IF decision[job.obs] # "none" THEN Finish
       ELSE /\ job' = [job EXCEPT !.pc = "decide", !.row = stored'[job.obs]]
            /\ UNCHANGED processed
    /\ UNCHANGED <<outsideJob, decision, photos, audit, marked, mishaps>>

\* Registration is switched off, a cooldown, or a decision without a plate.
JobDrop ==
    /\ job.pc \in {"decide", "commit"} /\ Finish
    /\ UNCHANGED <<outsideJob, stored, decision, photos, audit, marked, mishaps>>

\* The plate of the camera, or the stored answer of the external service.
JobNoCall ==
    /\ job.pc = "decide" /\ Proceed("commit")
    /\ UNCHANGED <<outsideJob, stored, decision, photos, audit, marked, mishaps>>

\* What the resolver uses: the external plate, or the camera's when it may.
FinalSources(outcome) == IF outcome = "success" THEN {"external"} ELSE {"local_fallback", "none"}

Interaction(o, outcome, source) == [obs |-> o, outcome |-> outcome, source |-> source, movement |-> FALSE]

JobCall ==
    /\ job.pc = "decide" /\ ~job.row.checked
    /\ \E outcome \in Answers, lost \in BOOLEAN :
          \E source \in FinalSources(outcome) :
             /\ Fails(lost)
             \* record, best effort
             /\ audit' = IF lost THEN audit ELSE Append(audit, Interaction(job.obs, outcome, source))
             /\ job' = [job EXCEPT !.pc = IF source = "none" THEN "mark and drop" ELSE "mark",
                                   !.row.checked = TRUE,
                                   !.call = IF lost THEN 0 ELSE Len(audit) + 1]
    /\ UNCHANGED <<outsideJob, stored, decision, photos, marked, processed>>

\* The image cannot be read or the provider is unknown: marked without a call.
JobNoImage ==
    /\ job.pc = "decide" /\ ~job.row.checked
    /\ Mishap
    /\ \E pc \in {"mark", "mark and drop"} : job' = [job EXCEPT !.pc = pc, !.row.checked = TRUE]
    /\ UNCHANGED <<outsideJob, stored, decision, photos, audit, marked, processed>>

\* markExternalChecked; a failure of the save is only logged.
JobMark ==
    /\ job.pc \in {"mark", "mark and drop"}
    /\ \E failure \in BOOLEAN :
          /\ Fails(failure)
          /\ IF failure THEN UNCHANGED <<stored, marked>>
             ELSE SaveRow(job.obs, job.row) /\ marked' = marked \cup {job.obs}
    /\ IF job.pc = "mark" THEN Proceed("commit") ELSE Finish
    /\ UNCHANGED <<outsideJob, decision, photos, audit>>

\* commitRecognition: is the vehicle registered, and is a photo wanted?
JobCommit ==
    /\ job.pc = "commit"
    /\ \/ job' = [job EXCEPT !.pc = "create", !.registered = TRUE]
       \/ \E pc \in {"put", "create"} : job' = [job EXCEPT !.pc = pc]
    /\ UNCHANGED <<outsideJob, stored, decision, photos, audit, marked, processed, mishaps>>

\* saveEvidencePhoto: the file, then its key.  Failures are only logged.
JobPutPhoto ==
    /\ job.pc = "put"
    /\ \E failure \in BOOLEAN :
          /\ Fails(failure)
          /\ photos' = IF failure THEN photos ELSE photos \cup {job.obs}
          /\ IF failure THEN Proceed("create")
             ELSE job' = [job EXCEPT !.pc = "save", !.row.photo = TRUE] /\ UNCHANGED processed
    /\ UNCHANGED <<outsideJob, stored, decision, audit, marked>>

JobSavePhoto ==
    /\ job.pc = "save"
    /\ \E failure \in BOOLEAN :
          /\ Fails(failure)
          /\ IF failure THEN UNCHANGED stored ELSE SaveRow(job.obs, job.row)
    /\ Proceed("create")
    /\ UNCHANGED <<outsideJob, decision, photos, audit, marked>>

\* createAutoRegistered returns the movement that exists by now, if any.
JobCreate ==
    /\ job.pc = "create"
    /\ decision' = IF decision[job.obs] # "none" THEN decision
                   ELSE [decision EXCEPT ![job.obs] = IF job.registered THEN "open" ELSE "pending_review"]
    /\ IF job.call = 0 THEN Finish ELSE Proceed("attach")
    /\ UNCHANGED <<outsideJob, stored, photos, audit, marked, mishaps>>

\* attachMovement, best effort.
JobAttach ==
    /\ job.pc = "attach"
    /\ \E failure \in BOOLEAN :
          /\ Fails(failure)
          /\ audit' = IF failure THEN audit ELSE [audit EXCEPT ![job.call].movement = TRUE]
    /\ Finish
    /\ UNCHANGED <<outsideJob, stored, decision, photos, marked>>

\* A query of the job fails.
JobAbort ==
    /\ job.pc \in {"persist", "decide", "commit", "create"}
    /\ Mishap
    /\ job' = NoJob
    /\ UNCHANGED <<outsideJob, stored, decision, photos, audit, marked, processed>>

-----------------------------------------------------------------------------
(* Gatekeepers.                                                            *)

\* createFromObservation
ConfirmObservation(o) ==
    /\ o \in DOMAIN stored /\ decision[o] = "none"
    /\ decision' = [decision EXCEPT ![o] = "open"]
    /\ UNCHANGED <<seen, stored, photos, audit, marked, processed, job, reads, review,
                   purge, mishaps>>

NoReview == [pc |-> "idle"]

SetReview(new) ==
    /\ review' = new
    /\ UNCHANGED <<seen, audit, marked, processed, job, reads, purge>>

\* The transaction of discard and that of recalculate, which opens the movement
\* reviewed and discards the other readings of its passage.
Review(set) ==
    /\ review = NoReview
    /\ set # {} /\ \A o \in set : decision[o] = "pending_review"
    /\ \E opened \in SUBSET set :
          /\ Cardinality(opened) <= 1
          /\ decision' = [o \in Observations |->
                             IF o \in opened THEN "open" ELSE IF o \in set THEN "discarded" ELSE decision[o]]
    /\ SetReview([pc |-> "find", ids |-> set])
    /\ UNCHANGED <<stored, photos, mishaps>>

\* removeEvidenceForObservations, after the transaction.
ReviewFind ==
    /\ review.pc = "find"
    /\ LET withPhoto == {o \in review.ids : stored[o].photo}
       IN  SetReview(IF withPhoto = {} THEN NoReview
                     ELSE [pc |-> "remove", entities |-> [o \in withPhoto |-> stored[o]]])
    /\ UNCHANGED <<stored, decision, photos, mishaps>>

\* A photo that cannot be removed is logged and forgotten.
ReviewRemove ==
    /\ review.pc = "remove"
    /\ \E removed \in SUBSET DOMAIN review.entities :
          /\ Fails(removed # DOMAIN review.entities)
          /\ photos' = photos \ removed
    /\ SetReview([review EXCEPT !.pc = "save"])
    /\ UNCHANGED <<stored, decision>>

ReviewSave ==
    /\ review.pc = "save"
    /\ \E failure \in BOOLEAN :
          /\ Fails(failure)
          /\ IF failure THEN UNCHANGED stored
             ELSE SaveRows([o \in DOMAIN review.entities |-> [review.entities[o] EXCEPT !.photo = FALSE]])
    /\ SetReview(NoReview)
    /\ UNCHANGED <<decision, photos>>

\* loadEvidence: the photo that a gatekeeper gets to see.
Loadable(o) == o \in DOMAIN stored /\ stored[o].photo /\ o \in photos

-----------------------------------------------------------------------------
(* purge-confirmed-evidence.mjs, a process of its own.                     *)

NoPurge == [pc |-> "idle", listed |-> {}, batch |-> {}]

SetPurge(new) ==
    /\ purge' = new
    /\ UNCHANGED <<seen, decision, audit, marked, processed, job, reads, review>>

\* Mutant: whatever has a movement.
AnyDecision == {"pending_review", "open", "discarded"}

\* STATUSES ("closed" is "open" here).
Statuses == {"open", "discarded"}

PurgeFind ==
    /\ purge.pc = "idle"
    /\ LET listed == {o \in DOMAIN stored : stored[o].photo /\ decision[o] \in Statuses}
       IN  /\ listed # {}
           /\ SetPurge([pc |-> "remove", listed |-> listed, batch |-> {}])
    /\ UNCHANGED <<stored, photos, mishaps>>

\* A batch of photos; those that cannot be removed keep their key.
PurgeRemove ==
    /\ purge.pc = "remove"
    /\ \E batch \in SUBSET purge.listed \ {{}} :
          \E removed \in SUBSET batch :
             /\ Fails(removed # batch)
             /\ photos' = photos \ removed
             /\ SetPurge([pc |-> "clear", listed |-> purge.listed \ batch, batch |-> removed])
    /\ UNCHANGED stored

\* UPDATE camera_observations SET "photoPath" = NULL
PurgeClear ==
    /\ purge.pc = "clear"
    /\ stored' = [o \in DOMAIN stored |->
                     IF o \in purge.batch THEN [stored[o] EXCEPT !.photo = FALSE] ELSE stored[o]]
    /\ SetPurge(IF purge.listed = {} THEN NoPurge ELSE [purge EXCEPT !.pc = "remove", !.batch = {}])
    /\ UNCHANGED <<photos, mishaps>>

\* The script is stopped, or loses the database.
PurgeStop ==
    /\ purge.pc # "idle"
    /\ Mishap
    /\ SetPurge(NoPurge)
    /\ UNCHANGED <<stored, photos>>

-----------------------------------------------------------------------------
(* findAll and findUsage of the interactions.                              *)

\* filters.observationId; "any" when it was not sent.
Listed(filter) == {k \in 1 .. Len(audit) : filter \in {"any", audit[k].obs}}

Count(listed, outcomes) == Cardinality({k \in listed : audit[k].outcome \in outcomes})

Summarize(listed) ==
    [calls |-> Cardinality(listed),
     success |-> Count(listed, {"success"}),
     noPlate |-> Count(listed, {"no_plate", "low_confidence"}),
     failures |-> Count(listed, {"timeout", "error", "rate_limited"}),
     externalUsed |-> Cardinality({k \in listed : audit[k].source = "external"})]

-----------------------------------------------------------------------------

EvidenceInit ==
    /\ seen = [o \in Observations |-> 0]
    /\ stored = [o \in {} |-> NewRow(0)]
    /\ decision = [o \in Observations |-> "none"]
    /\ photos = {}
    /\ audit = <<>>
    /\ marked = {}
    /\ processed = {}
    /\ job = NoJob
    /\ reads = [r \in Readers |-> NoRead]
    /\ review = NoReview
    /\ purge = NoPurge
    /\ mishaps = 0

\* The API restarts; the script goes on.
CrashApi ==
    /\ Mishap
    /\ job' = NoJob /\ processed' = {}
    /\ reads' = [r \in Readers |-> NoRead]
    /\ review' = NoReview
    /\ UNCHANGED <<seen, stored, decision, photos, audit, marked, purge>>

JobNext ==
    \/ JobPersist \/ JobDrop \/ JobNoCall \/ JobCall \/ JobNoImage \/ JobMark
    \/ JobCommit \/ JobPutPhoto \/ JobSavePhoto \/ JobCreate \/ JobAttach \/ JobAbort

EvidenceNext ==
    \/ \E o \in Observations : See(o) \/ JobFetch(o) \/ ConfirmObservation(o)
    \/ \E r \in Readers : ReadStore(r) \/ \E o \in Observations : ReadState(r, o)
    \/ JobNext
    \/ \E set \in SUBSET Observations : Review(set)
    \/ ReviewFind \/ ReviewRemove \/ ReviewSave
    \/ PurgeFind \/ PurgeRemove \/ PurgeClear \/ PurgeStop
    \/ CrashApi

EvidenceSpec == EvidenceInit /\ [][EvidenceNext]_evidenceVars

-----------------------------------------------------------------------------
(* Properties.                                                             *)

ObservationRow == [seen: 1 .. MaxSeen, photo: BOOLEAN, checked: BOOLEAN]

\* Tables and the memory of requests, of the job and of the script keep their
\* types, and a movement has its observation.
EvidenceTypeOK ==
    /\ seen \in [Observations -> 0 .. MaxSeen]
    /\ DOMAIN stored \subseteq Observations /\ \A o \in DOMAIN stored : stored[o] \in ObservationRow
    /\ \A o \in Observations : decision[o] # "none" => o \in DOMAIN stored /\ decision[o] \in AnyDecision
    /\ \A k \in 1 .. Len(audit) : audit[k].obs \in Observations /\ audit[k].outcome \in Outcomes
    /\ job # NoJob => job.row \in ObservationRow /\ job.call \in 0 .. Len(audit)
    /\ purge.listed \cup purge.batch \cup processed \cup marked \cup photos \subseteq DOMAIN stored

\* A gatekeeper who has to decide sees the photo: the photo of an undecided
\* observation stays loadable while jobs, reviews of other observations and the
\* purge script, that listed its photos earlier, go on, fail or stop half way.
PendingPhotoLoadable ==
    \A o \in DOMAIN stored : decision[o] = "pending_review" /\ stored[o].photo => Loadable(o)

\* The answer that was paid for is not forgotten, so that the external service
\* is not called again, although every save writes columns read before; and the
\* usage adds up: each call is counted in one class and under one observation.
PaidCallKept ==
    /\ \A o \in marked : stored[o].checked
    /\ LET all == Summarize(Listed("any"))
           of == [o \in Observations |-> Summarize(Listed(o))]
       IN  /\ all.calls = all.success + all.noPlate + all.failures
           /\ all.externalUsed <= all.success
           /\ \A o \in Observations : of[o].calls <= 1 \/ mishaps > 0

=============================================================================
