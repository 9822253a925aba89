------------------------- MODULE RegistrationProofs -------------------------
(***************************************************************************)
(* Proofs about Registration, for any observations, plates and settings,   *)
(* any cooldown and any number of instants, failures and crashes, and      *)
(* about Recognition, for any texts that readers may return.               *)
(***************************************************************************)
EXTENDS Registration, Recognition, FiniteSetTheorems, SequenceTheorems, WellFoundedInduction, TLAPS

-----------------------------------------------------------------------------
(* What the memory of the job holds at each of its steps.                  *)

Routes == {"registered", "local", "verified", "external"}

Paid == {"verified", "external"}

Committing == {"commit", "cooldown", "photo", "create"}

JobType ==
    [pc: {"none", "config", "existing", "vehicle", "recent", "external", "mark"} \cup Committing,
     obs: Observations \cup {None}, confirmed: BOOLEAN, config: Resolved \cup {None},
     mark: Checked \cup {"unchecked"}, vehicle: {"absent", "active", "inactive", None},
     save: BOOLEAN, route: Routes \cup {None}, answer: Checked \cup {"unavailable"},
     plate: Checked]

\* The types, of every field of the job too.
DataInv ==
    /\ now \in Nat /\ events \in Nat
    /\ company \in CompanySettings /\ point \in PointSettings
    /\ vehicles \in [Plates -> {"absent", "active", "inactive"}]
    /\ shown \in [Observations -> {"hidden", "candidate", "confirmed"}]
    /\ captured \in [Observations -> Nat]
    /\ movements \in Seq(Movement)
    /\ marks \in [Observations -> Checked \cup {"unchecked"}]
    /\ processed \in Seq(Observations) /\ Len(processed) <= MaxProcessed
    /\ calls \in [Observations -> Nat]
    /\ answers \in [Observations -> SUBSET Plates]

JobInv ==
    /\ job \in JobType
    /\ IF job.pc = "none" THEN job = NoJob ELSE job.obs \in Observations
    /\ job.pc \in {"existing", "vehicle", "recent"} => job.config \in Resolved /\ job.config.auto
    /\ job.pc \in Committing \cup {"external", "mark"} => job.route \in Routes
    /\ job.pc \in Committing => job.plate \in Plates
    /\ job.pc \in {"cooldown", "photo", "create"} => job.vehicle \in {"absent", "active", "inactive"}

-----------------------------------------------------------------------------
(* Operators.                                                              *)

\* The settings that apply are a choice of the settings of company and gate.
LEMMA ResolveType ==
  ASSUME NEW c \in CompanySettings, NEW p \in PointSettings
  PROVE  Resolve(c, p) \in Resolved
<1> DEFINE r == Resolve(c, p)
<1>1. c \in Resolved /\ p.inherit \in BOOLEAN
  BY RegistrationAssumption
<1>2. ASSUME NEW f \in Fields
      PROVE  \E s \in Resolved : r[f] = s[f] \/ (f = "auto" /\ r[f] = FALSE)
  <2>1. p[f] = None \/ \E s \in Resolved : p[f] = s[f]
    BY RegistrationAssumption
  <2> QED  BY <1>1, <2>1 DEF Resolve
<1>3. /\ r["auto"] \in BOOLEAN /\ r["save"] \in BOOLEAN
      /\ r["mode"] \in {"local", "verified", "external"}
      /\ r["trigger"] \in {"after_single_read", "after_confirmation"}
      /\ r["fallback"] \in BOOLEAN /\ r["trust"] \in BOOLEAN /\ r["firstRead"] \in BOOLEAN
  BY <1>2 DEF Fields, Resolved
<1>4. r = [f \in Fields |-> r[f]]
  BY DEF Resolve
<1> HIDE DEF r
<1>5. r = [auto |-> r["auto"], save |-> r["save"], mode |-> r["mode"], trigger |-> r["trigger"],
           fallback |-> r["fallback"], trust |-> r["trust"], firstRead |-> r["firstRead"]]
  BY <1>4 DEF Fields
<1>6. r \in Resolved
  BY <1>3, <1>5 DEF Resolved
<1> QED  BY <1>6 DEF r

\* Remembering an observation forgets the oldest ones.
LEMMA RememberType ==
  ASSUME processed \in Seq(Observations), Len(processed) <= MaxProcessed, NEW o \in Observations
  PROVE  Remember(o) \in Seq(Observations) /\ Len(Remember(o)) <= MaxProcessed
<1> DEFINE all == Append(processed, o)
           from == Len(all) - KeptProcessed + 1
<1>1. all \in Seq(Observations) /\ Len(all) = Len(processed) + 1
  OBVIOUS
<1>2. KeptProcessed \in Nat /\ MaxProcessed \in Nat /\ KeptProcessed <= MaxProcessed
  BY RegistrationAssumption
<1>3. CASE Len(all) <= MaxProcessed
  BY <1>1, <1>3 DEF Remember
<1>4. CASE ~(Len(all) <= MaxProcessed)
  <2>1. from \in Int /\ Len(all) \in Int /\ from >= 1
    BY <1>1, <1>2, <1>4
  <2>2. \A i \in from .. Len(all) : all[i] \in Observations
    BY <1>1, <2>1
  <2>3. /\ SubSeq(all, from, Len(all)) \in Seq(Observations)
        /\ Len(SubSeq(all, from, Len(all))) = IF from <= Len(all) THEN Len(all) - from + 1 ELSE 0
    BY <2>1, <2>2, SubSeqProperties
  <2>4. Remember(o) = SubSeq(all, from, Len(all))
    BY <1>4 DEF Remember
  <2> QED  BY <1>1, <1>2, <2>1, <2>3, <2>4
<1> QED  BY <1>3, <1>4

-----------------------------------------------------------------------------
(* Types.                                                                  *)

\* The history of a call that is lost.
LEMMA ForgottenType ==
  ASSUME calls \in [Observations -> Nat], Forgotten, JobInv,
         job.pc = "mark" /\ job.answer # "unavailable" => calls[job.obs] = 1
  PROVE  calls' \in [Observations -> Nat]
<1>1. CASE job.pc = "mark" /\ job.answer # "unavailable"
  <2>1. calls' = [calls EXCEPT ![job.obs] = calls[job.obs] - 1]
    BY <1>1 DEF Forgotten
  <2>2. calls[job.obs] - 1 \in Nat
    BY <1>1
  <2> QED  BY <2>1, <2>2
<1>2. CASE ~(job.pc = "mark" /\ job.answer # "unavailable")
  BY <1>2 DEF Forgotten
<1> QED  BY <1>1, <1>2

Typed == DataInv /\ JobInv

LEMMA TypedSuffices == Typed => TypeOK
BY DEF Typed, DataInv, JobInv, TypeOK, Committing

\* The result of a call is in the memory of the job alone.
Unstored(o) == job.pc = "mark" /\ job.obs = o /\ job.answer # "unavailable"

\* What calls counts: an observation that is not marked was not asked about,
\* but for a call whose result is not stored yet.
CallInv ==
    \A o \in Observations :
        /\ calls[o] <= 1
        /\ Unstored(o) => calls[o] = 1
        /\ marks[o] = "unchecked" /\ ~Unstored(o) => calls[o] = 0

\* A call whose result is in the memory of the job was counted.
Counted == job.pc = "mark" /\ job.answer # "unavailable" => calls[job.obs] = 1

LEMMA InitType == Init => Typed
<1> SUFFICES ASSUME Init PROVE Typed
  OBVIOUS
<1> USE RegistrationAssumption DEF Init
<1>1. movements \in Seq(Movement) /\ processed \in Seq(Observations) /\ Len(processed) <= MaxProcessed
  OBVIOUS
<1>2. JobInv
  BY DEF JobInv, JobType, NoJob, Committing, Checked
<1> QED  BY <1>1, <1>2 DEF Typed, DataInv, Checked

\* What the steps of evaluateExternal lead to.
LEMMA ConcludeType ==
  ASSUME Typed, NEW mark \in Checked, Conclude(mark), job.pc \in {"external", "mark"}
  PROVE  JobInv' /\ processed' \in Seq(Observations) /\ Len(processed') <= MaxProcessed
<1>1. CASE Handled
  <2>1. Remember(job.obs) \in Seq(Observations) /\ Len(Remember(job.obs)) <= MaxProcessed
    BY RememberType DEF Typed, DataInv, JobInv
  <2> QED  BY <1>1, <2>1 DEF Handled, NoJob, JobType, Committing, Checked, JobInv
<1>2. CASE ~Handled
  <2>1. /\ job' = [job EXCEPT !.pc = "commit", !.mark = mark, !.answer = None,
                              !.plate = IF mark = None THEN ObsPlate[job.obs] ELSE mark]
        /\ UNCHANGED processed
    BY <1>2 DEF Conclude
  <2>2. job.obs \in Observations /\ job \in JobType
    BY DEF Typed, JobInv
  <2>3. (IF mark = None THEN ObsPlate[job.obs] ELSE mark) \in Plates
    BY <2>2, RegistrationAssumption DEF Checked
  <2>4. job' \in JobType
    BY <2>1, <2>2, <2>3 DEF JobType, Committing, Checked
  <2>5. job'.pc = "commit" /\ job'.obs = job.obs /\ job'.plate \in Plates
    BY <2>1, <2>2, <2>3 DEF JobType
  <2> QED  BY <2>1, <2>2, <2>4, <2>5 DEF JobInv, Typed, DataInv
<1> QED BY <1>1, <1>2

LEMMA StepType ==
  ASSUME Typed, Counted, [Next]_vars
  PROVE  Typed'
<1> USE DEF Typed, DataInv, outside, history
<1>0. /\ job \in JobType
      /\ job.pc # "none" => job.obs \in Observations
      /\ ObsPlate \in [Observations -> Plates]
  BY RegistrationAssumption DEF JobInv
\* A job that ends, and one that goes on with what it has.
<1>a. ASSUME Handled, job.pc # "none"
      PROVE  JobInv' /\ processed' \in Seq(Observations) /\ Len(processed') <= MaxProcessed
  <2>1. Remember(job.obs) \in Seq(Observations) /\ Len(Remember(job.obs)) <= MaxProcessed
    BY <1>a, <1>0, RememberType
  <2> QED  BY <1>a, <2>1 DEF Handled, JobInv, NoJob, JobType, Committing, Checked
<1>b. ASSUME job' = NoJob PROVE JobInv'
  BY <1>b DEF JobInv, NoJob, JobType, Committing, Checked
<1>c. ASSUME NEW pc \in {"vehicle", "photo", "create"}, Goto(pc), job.pc # "none",
             pc = "vehicle" => job.pc = "existing", pc # "vehicle" => job.pc \in {"cooldown", "photo"}
      PROVE  JobInv' /\ UNCHANGED processed
  BY <1>0, <1>c DEF Goto, JobInv, JobType, Committing
<1>d. UNCHANGED job => JobInv'
  BY DEF JobInv
<1>1. CASE UNCHANGED vars
  BY <1>1, <1>d DEF vars
<1>2. CASE ReadConfig
  <2>1. Resolve(company, point) \in Resolved
    BY ResolveType
  <2>2. CASE ~Resolve(company, point).auto
    BY <1>2, <2>2, <1>a DEF ReadConfig
  <2>3. CASE Resolve(company, point).auto
    <3>1. /\ job' = [job EXCEPT !.pc = "existing", !.config = Resolve(company, point),
                                !.mark = marks[job.obs]]
          /\ job.pc = "config"
      BY <1>2, <2>3 DEF ReadConfig
    <3>2. marks[job.obs] \in Checked \cup {"unchecked"}
      BY <1>0, <3>1
    <3>3. JobInv'
      BY <1>0, <2>1, <2>3, <3>1, <3>2 DEF JobInv, JobType, Committing
    <3> QED  BY <1>2, <2>3, <3>3 DEF ReadConfig
  <2> QED  BY <2>2, <2>3
<1>3. CASE ReadExisting
  BY <1>3, <1>a, <1>c DEF ReadExisting
<1>4. CASE ReadVehicle
  <2>1. JobInv'
    <3>1. vehicles[ObsPlate[job.obs]] \in {"absent", "active", "inactive"}
      BY <1>0, <1>4 DEF ReadVehicle
    <3> QED  BY <1>0, <1>4, <3>1 DEF ReadVehicle, JobInv, JobType, Committing
  <2> QED  BY <1>4, <2>1 DEF ReadVehicle
<1>5. CASE Decide
  <2>1. CASE Handled
    BY <1>5, <2>1, <1>a DEF Decide
  <2>2. CASE ~Handled /\ job' = NoJob
    BY <1>5, <2>2, <1>b DEF Decide
  <2>3. CASE ~Handled /\ job' # NoJob
    <3>1. /\ Route \in Routes
          /\ job' = [NoJob EXCEPT !.pc = IF Route \in {"registered", "local"} THEN "commit"
                                                ELSE "external",
                                  !.obs = job.obs, !.mark = job.mark, !.route = Route,
                                  !.save = job.config.save, !.plate = ObsPlate[job.obs]]
          /\ UNCHANGED processed
      BY <1>5, <2>3 DEF Decide, Route, Routes
    <3>2. job.config.save \in BOOLEAN /\ job.obs \in Observations /\ ObsPlate[job.obs] \in Plates
      BY <1>0, <1>5 DEF Decide, JobInv, Resolved
    <3>3. job.mark \in Checked \cup {"unchecked"}
      BY <1>0 DEF JobType
    <3> HIDE DEF Route
    <3>4. JobInv'
      <4> DEFINE pc == IF Route \in {"registered", "local"} THEN "commit" ELSE "external"
      <4>1. job' = [NoJob EXCEPT !.pc = pc, !.obs = job.obs, !.mark = job.mark, !.route = Route,
                                 !.save = job.config.save, !.plate = ObsPlate[job.obs]]
        BY <3>1
      <4>2. pc \in {"commit", "external"}
        OBVIOUS
      <4> HIDE DEF pc
      <4>3. job' \in JobType
        BY <3>1, <3>2, <3>3, <4>1, <4>2 DEF JobType, NoJob, Committing, Checked
      <4>4. /\ job'.pc = pc /\ job'.obs = job.obs /\ job'.route = Route
            /\ job'.plate = ObsPlate[job.obs]
        BY <4>1 DEF NoJob
      <4> QED  BY <3>1, <3>2, <4>2, <4>3, <4>4 DEF JobInv, Committing
    <3> QED  BY <1>5, <3>1, <3>4 DEF Decide
  <2> QED  BY <2>1, <2>2, <2>3
<1>6. CASE ReuseAnswer
  <2>1. job.mark \in Checked
    BY <1>0, <1>6 DEF ReuseAnswer, Asked, JobType
  <2> QED  BY <1>6, <2>1, ConcludeType DEF ReuseAnswer
<1>7. CASE ImageMissing
  <2>1. JobInv'
    BY <1>0, <1>7 DEF ImageMissing, JobInv, JobType, Committing
  <2> QED  BY <1>7, <2>1 DEF ImageMissing, Event
<1>8. CASE CallExternal
  <2>1. PICK plate \in Plates \cup {None} :
          /\ job' = [job EXCEPT !.pc = "mark", !.answer = plate]
          /\ answers' = [answers EXCEPT ![job.obs] = @ \cup ({plate} \ {None})]
    BY <1>8 DEF CallExternal
  <2>2. JobInv'
    BY <1>0, <1>8, <2>1 DEF CallExternal, JobInv, JobType, Committing, Checked
  <2>3. answers' \in [Observations -> SUBSET Plates]
    BY <2>1
  <2>4. calls' \in [Observations -> Nat]
    <3>1. calls' = [calls EXCEPT ![job.obs] = calls[job.obs] + 1] /\ job.obs \in Observations
      BY <1>0, <1>8 DEF CallExternal
    <3>2. calls[job.obs] + 1 \in Nat
      BY <3>1
    <3> QED  BY <3>1, <3>2
  <2> QED  BY <1>8, <2>2, <2>3, <2>4 DEF CallExternal
<1>9. CASE Mark
  <2> DEFINE mark == IF job.answer = "unavailable" THEN None ELSE job.answer
  <2>1. mark \in Checked
    BY <1>0 DEF JobType, Checked
  <2>2. Conclude(mark) /\ job.pc = "mark"
    BY <1>9 DEF Mark
  <2>3. JobInv' /\ processed' \in Seq(Observations) /\ Len(processed') <= MaxProcessed
    BY <2>1, <2>2, ConcludeType
  <2>4. /\ marks' = [marks EXCEPT ![job.obs] = mark] \/ UNCHANGED marks
        /\ UNCHANGED calls \/ Forgotten
        /\ UNCHANGED events \/ events' = events + 1
    BY <1>9 DEF Mark, Event
  <2>5. calls' \in [Observations -> Nat]
    BY <2>4, ForgottenType DEF Counted
  <2>6. marks' \in [Observations -> Checked \cup {"unchecked"}]
    BY <2>1, <2>4
  <2> HIDE DEF mark
  <2> QED  BY <1>9, <2>3, <2>4, <2>5, <2>6 DEF Mark
<1>10. CASE CommitVehicle
  <2>1. JobInv'
    BY <1>0, <1>10 DEF CommitVehicle, JobInv, JobType, Committing
  <2> QED  BY <1>10, <2>1 DEF CommitVehicle
<1>11. CASE CommitCooldown
  <2>1. JobInv' /\ processed' \in Seq(Observations) /\ Len(processed') <= MaxProcessed
    BY <1>11, <1>a, <1>c DEF CommitCooldown
  <2> QED  BY <1>11, <2>1 DEF CommitCooldown
<1>12. CASE SavePhoto
  <2>1. JobInv' /\ UNCHANGED processed
    BY <1>12, <1>c DEF SavePhoto
  <2>2. marks' \in [Observations -> Checked \cup {"unchecked"}]
    BY <1>0, <1>12 DEF SavePhoto, JobType
  <2> QED  BY <1>12, <2>1, <2>2 DEF SavePhoto
<1>13. CASE Create
  <2>1. JobInv' /\ processed' \in Seq(Observations) /\ Len(processed') <= MaxProcessed
    <3>1. Handled \/ (job' = NoJob /\ UNCHANGED processed)
      BY <1>13 DEF Create
    <3> QED  BY <1>13, <3>1, <1>a, <1>b DEF Create
  <2>2. movements' \in Seq(Movement)
    <3> DEFINE m == [obs |-> job.obs, time |-> captured[job.obs], plate |-> job.plate, at |-> now,
                     vehicle |-> IF job.vehicle = "absent" THEN None ELSE job.plate,
                     route |-> job.route]
    <3>1. movements' = movements \/ movements' = Append(movements, m)
      BY <1>13 DEF Create
    <3>2. m \in Movement
      BY <1>0, <1>13 DEF Create, Movement, JobInv, JobType, Committing, Routes
    <3> HIDE DEF m
    <3>3. movements \in Seq(Movement)
      OBVIOUS
    <3>4. Append(movements, m) \in Seq(Movement)
      BY <3>2, <3>3, AppendProperties
    <3> QED  BY <3>1, <3>3, <3>4
  <2> QED  BY <1>13, <2>1, <2>2 DEF Create
<1>14. CASE JobFail
  BY <1>14, <1>b DEF JobFail, Event
<1>15. CASE Crash
  <2>1. calls' \in [Observations -> Nat]
    BY <1>15, ForgottenType DEF Crash, Counted
  <2>2. processed' \in Seq(Observations) /\ Len(processed') <= MaxProcessed
    BY <1>15, RegistrationAssumption DEF Crash
  <2> QED  BY <1>15, <2>1, <2>2, <1>b DEF Crash, Event
<1>16. ASSUME NEW o \in Observations, JobStart(o) PROVE Typed'
  <2>1. JobInv'
    BY <1>16 DEF JobStart, NoJob, JobInv, JobType, Committing, Checked
  <2> QED  BY <1>16, <2>1 DEF JobStart
<1>17. ASSUME NEW o \in Observations, Show(o) PROVE Typed'
  BY <1>17, <1>d DEF Show
<1>18. ASSUME NEW o \in Observations, Confirm(o) PROVE Typed'
  <2> DEFINE m == [obs |-> o, time |-> now, plate |-> None, at |-> now,
                   vehicle |-> ObsPlate[o], route |-> "confirmed"]
  <2>1. movements' = Append(movements, m) /\ m \in Movement
    BY <1>0, <1>18 DEF Confirm, Movement
  <2>2. movements' \in Seq(Movement)
    BY <2>1
  <2> QED  BY <1>18, <1>d, <2>2 DEF Confirm
<1>19. ASSUME NEW p \in Plates, ChangeVehicle(p) PROVE Typed'
  BY <1>19, <1>d DEF ChangeVehicle, Event
<1>20. CASE ChangeSettings
  BY <1>20, <1>d DEF ChangeSettings, Event
<1>21. CASE Tick
  BY <1>21, <1>d DEF Tick
<1> QED
  BY <1>1, <1>2, <1>3, <1>4, <1>5, <1>6, <1>7, <1>8, <1>9, <1>10, <1>11, <1>12, <1>13, <1>14,
     <1>15, <1>16, <1>17, <1>18, <1>19, <1>20, <1>21 DEF Next

-----------------------------------------------------------------------------
(* Marks: what the row of an observation and the memory of its job say     *)
(* about the external service.                                             *)

\* The job works with the mark of the row until it asks; what it has learnt
\* then may be missing in the row, when saving failed, but never contradicts
\* it.  A plate that is stored or committed as the answer was returned.
MarkInv ==
    /\ job.pc \in {"existing", "vehicle", "recent", "external"} => job.mark = marks[job.obs]
    /\ job.pc \in {"external", "mark"} => job.route \in Paid
    /\ job.pc = "mark" =>
          /\ marks[job.obs] = "unchecked"
          /\ job.answer \in Plates => job.answer \in answers[job.obs]
    /\ job.pc \in Committing /\ job.route \notin Paid => job.mark = marks[job.obs]
    /\ job.pc \in Committing /\ job.route \in Paid =>
          /\ job.mark \in Checked
          /\ marks[job.obs] \in {"unchecked", job.mark}
          /\ job.mark \in Plates => job.mark \in answers[job.obs]
          /\ job.plate = IF job.mark = None THEN ObsPlate[job.obs] ELSE job.mark
          /\ job.route = "external" => job.mark # None
    /\ \A o \in Observations : marks[o] \in Plates => marks[o] \in answers[o]

\* A conclusion commits the mark it was given.
LEMMA ConcludeMark ==
  ASSUME Typed, NEW mark \in Checked, Conclude(mark), job.pc \in {"external", "mark"},
         MarkInv, marks' \in {marks, [marks EXCEPT ![job.obs] = mark]}, UNCHANGED answers,
         marks[job.obs] \in {"unchecked", mark}, mark \in Plates => mark \in answers[job.obs]
  PROVE  MarkInv'
<1>1. job.obs \in Observations /\ job \in JobType /\ job.route \in Paid
  BY DEF Typed, JobInv, MarkInv
<1>2. \A o \in Observations : marks'[o] \in Plates => marks'[o] \in answers'[o]
  BY <1>1 DEF MarkInv, Typed, DataInv
<1>3. marks'[job.obs] \in {"unchecked", mark}
  BY <1>1 DEF Typed, DataInv
<1>4. CASE job' = NoJob
  BY <1>2, <1>4 DEF MarkInv, NoJob, Committing
<1>5. CASE job' # NoJob
  <2>1. /\ ~(mark = None /\ job.route = "external")
        /\ job' = [job EXCEPT !.pc = "commit", !.mark = mark, !.answer = None,
                              !.plate = IF mark = None THEN ObsPlate[job.obs] ELSE mark]
    BY <1>5 DEF Conclude, Handled
  <2>2. /\ job'.pc = "commit" /\ job'.mark = mark /\ job'.obs = job.obs /\ job'.route = job.route
        /\ job'.plate = IF mark = None THEN ObsPlate[job.obs] ELSE mark
    BY <1>1, <2>1 DEF JobType
  <2> QED  BY <1>1, <1>2, <1>3, <2>1, <2>2 DEF MarkInv, Committing
<1> QED  BY <1>4, <1>5

LEMMA StepMark ==
  ASSUME Typed, MarkInv, [Next]_vars
  PROVE  MarkInv'
<1>0. /\ job \in JobType
      /\ job.pc # "none" => job.obs \in Observations
      /\ marks \in [Observations -> Checked \cup {"unchecked"}]
      /\ answers \in [Observations -> SUBSET Plates]
  BY DEF Typed, DataInv, JobInv
<1> USE DEF MarkInv, outside, history
<1>a. ASSUME job' = NoJob, UNCHANGED <<marks, answers>> PROVE MarkInv'
  BY <1>a DEF NoJob, Committing
<1>b. UNCHANGED <<job, marks, answers>> => MarkInv'
  OBVIOUS
<1>c. ASSUME NEW pc \in {"photo", "create"}, Goto(pc), UNCHANGED <<marks, answers>>,
             job.pc = "cooldown"
      PROVE  MarkInv'
  BY <1>0, <1>c DEF Goto, JobType, Committing
<1>1. CASE UNCHANGED vars
  BY <1>1, <1>b DEF vars
<1>2. CASE ReadConfig
  <2>1. CASE job' = NoJob
    BY <1>2, <2>1, <1>a DEF ReadConfig
  <2>2. CASE job' # NoJob
    <3>1. /\ job' = [job EXCEPT !.pc = "existing", !.config = Resolve(company, point),
                                !.mark = marks[job.obs]]
          /\ UNCHANGED <<marks, answers>>
      BY <1>2, <2>2 DEF ReadConfig, Handled
    <3>2. job'.pc = "existing" /\ job'.obs = job.obs /\ job'.mark = marks[job.obs]
      BY <1>0, <3>1 DEF JobType
    <3> QED  BY <3>1, <3>2 DEF Committing
  <2> QED  BY <2>1, <2>2
<1>3. CASE ReadExisting
  <2>1. CASE Registered(job.obs)
    BY <1>3, <2>1, <1>a DEF ReadExisting, Handled
  <2>2. CASE ~Registered(job.obs)
    BY <1>0, <1>3, <2>2 DEF ReadExisting, Goto, JobType, Committing
  <2> QED  BY <2>1, <2>2
<1>4. CASE ReadVehicle
  BY <1>0, <1>4 DEF ReadVehicle, JobType, Committing
<1>5. CASE Decide
  <2>1. CASE job' = NoJob
    BY <1>5, <2>1, <1>a DEF Decide
  <2>2. CASE job' # NoJob
    <3>1. job' = [NoJob EXCEPT !.pc = IF Route \in {"registered", "local"} THEN "commit"
                                      ELSE "external",
                               !.obs = job.obs, !.mark = job.mark, !.route = Route,
                               !.save = job.config.save, !.plate = ObsPlate[job.obs]]
      BY <1>5, <2>2 DEF Decide, Handled
    <3>2. Route \in Routes
      BY <1>5, <2>2 DEF Decide, Handled, Route, Routes
    <3>3. /\ job'.pc = (IF Route \in {"registered", "local"} THEN "commit" ELSE "external")
          /\ job'.obs = job.obs /\ job'.mark = job.mark /\ job'.route = Route
      BY <3>1 DEF NoJob
    <3>4. Route \in {"registered", "local"} <=> Route \notin Paid
      BY <3>2 DEF Routes, Paid
    <3> HIDE DEF Route
    <3> QED  BY <1>5, <3>3, <3>4 DEF Decide, Committing
  <2> QED  BY <2>1, <2>2
<1>6. CASE ReuseAnswer
  <2>1. job.mark \in Checked /\ job.mark = marks[job.obs] /\ job.obs \in Observations
    BY <1>0, <1>6 DEF ReuseAnswer, Asked, JobType
  <2> QED  BY <1>6, <2>1, ConcludeMark DEF ReuseAnswer
<1>7. CASE ImageMissing
  BY <1>0, <1>7, RegistrationAssumption DEF ImageMissing, Asked, JobType, Committing
<1>8. CASE CallExternal
  <2>1. PICK plate \in Plates \cup {None} :
          /\ job' = [job EXCEPT !.pc = "mark", !.answer = plate]
          /\ answers' = [answers EXCEPT ![job.obs] = @ \cup ({plate} \ {None})]
    BY <1>8 DEF CallExternal
  <2>2. /\ job'.pc = "mark" /\ job'.obs = job.obs /\ job'.answer = plate /\ job'.route = job.route
    BY <1>0, <2>1 DEF JobType
  <2>3. \A o \in Observations : answers[o] \subseteq answers'[o]
    BY <1>0, <2>1
  <2>4. plate \in Plates => plate \in answers'[job.obs]
    BY <1>0, <1>8, <2>1, RegistrationAssumption DEF CallExternal
  <2> QED  BY <1>0, <1>8, <2>2, <2>3, <2>4 DEF CallExternal, Asked, Committing
<1>9. CASE Mark
  <2> DEFINE mark == IF job.answer = "unavailable" THEN None ELSE job.answer
  <2>1. mark \in Checked
    BY <1>0 DEF JobType, Checked
  <2>2. /\ Conclude(mark) /\ job.pc = "mark" /\ UNCHANGED answers
        /\ marks' \in {marks, [marks EXCEPT ![job.obs] = mark]}
    BY <1>9 DEF Mark
  <2>3. marks[job.obs] = "unchecked" /\ (mark \in Plates => mark \in answers[job.obs])
    BY <2>2, RegistrationAssumption
  <2> QED  BY <2>1, <2>2, <2>3, ConcludeMark
<1>10. CASE CommitVehicle
  BY <1>0, <1>10 DEF CommitVehicle, JobType, Committing
<1>11. CASE CommitCooldown
  BY <1>11, <1>a, <1>c DEF CommitCooldown, Handled
<1>12. CASE SavePhoto
  <2>1. /\ job.pc = "photo" /\ job' = [job EXCEPT !.pc = "create"] /\ UNCHANGED answers
        /\ marks' \in {marks, [marks EXCEPT ![job.obs] = job.mark]}
    BY <1>12 DEF SavePhoto, Goto
  <2>2. /\ job'.pc = "create" /\ job'.obs = job.obs /\ job'.mark = job.mark
        /\ job'.route = job.route /\ job'.plate = job.plate
    BY <1>0, <2>1 DEF JobType
  <2>3. job.mark \in Plates => job.mark \in answers[job.obs]
    BY <1>0, <2>1 DEF Committing
  <2>4. \A o \in Observations : marks'[o] \in Plates => marks'[o] \in answers'[o]
    BY <1>0, <2>1, <2>3
  <2>5. marks'[job.obs] \in {marks[job.obs], job.mark}
    BY <1>0, <2>1
  <2> QED  BY <2>1, <2>2, <2>4, <2>5 DEF Committing
<1>13. CASE Create
  BY <1>13, <1>a DEF Create, Handled
<1>14. CASE JobFail
  BY <1>14, <1>a DEF JobFail
<1>15. CASE Crash
  BY <1>15, <1>a DEF Crash
<1>16. ASSUME NEW o \in Observations, JobStart(o) PROVE MarkInv'
  BY <1>16 DEF JobStart, NoJob, Committing
<1>17. ASSUME NEW o \in Observations, Show(o) \/ Confirm(o) PROVE MarkInv'
  BY <1>17, <1>b DEF Show, Confirm
<1>18. CASE \/ \E p \in Plates : ChangeVehicle(p)
            \/ ChangeSettings \/ Tick
  BY <1>18, <1>b DEF ChangeVehicle, ChangeSettings, Tick
<1> QED
  BY <1>1, <1>2, <1>3, <1>4, <1>5, <1>6, <1>7, <1>8, <1>9, <1>10, <1>11, <1>12, <1>13, <1>14,
     <1>15, <1>16, <1>17, <1>18 DEF Next

-----------------------------------------------------------------------------
(* Calls of the external service.                                          *)

LEMMA StepCall ==
  ASSUME Typed, MarkInv, CallInv, [Next]_vars
  PROVE  CallInv'
<1>0. /\ job \in JobType
      /\ job.pc # "none" => job.obs \in Observations
      /\ marks \in [Observations -> Checked \cup {"unchecked"}]
      /\ calls \in [Observations -> Nat]
  BY DEF Typed, DataInv, JobInv
<1> USE DEF CallInv, outside, history
<1>a. UNCHANGED <<job, marks, calls>> => CallInv'
  BY DEF Unstored
<1>b. ASSUME UNCHANGED <<marks, calls>>, job.pc # "mark", job'.pc # "mark" PROVE CallInv'
  BY <1>b DEF Unstored
\* The result of a call is given up.
<1>c. ASSUME Forgotten, UNCHANGED marks, job'.pc # "mark" PROVE CallInv'
  <2>1. CASE \E o \in Observations : Unstored(o)
    <3>1. PICK o \in Observations : Unstored(o)
      BY <2>1
    <3>2. calls' = [calls EXCEPT ![o] = calls[o] - 1]
      BY <1>c, <3>1 DEF Forgotten, Unstored
    <3>3. calls[o] = 1 /\ \A p \in Observations \ {o} : ~Unstored(p)
      BY <3>1 DEF Unstored
    <3> QED  BY <1>0, <1>c, <3>2, <3>3 DEF Unstored
  <2>2. CASE ~\E o \in Observations : Unstored(o)
    <3>1. UNCHANGED calls
      BY <1>0, <1>c, <2>2 DEF Forgotten, Unstored
    <3> QED  BY <1>c, <2>2, <3>1 DEF Unstored
  <2> QED  BY <2>1, <2>2
<1>d. Handled => job'.pc = "none"
  BY DEF Handled, NoJob
<1>e. ASSUME NEW mark, Conclude(mark), job.pc \in {"external", "mark"} PROVE job'.pc # "mark"
  <2>1. CASE Handled
    BY <1>d, <2>1
  <2>2. CASE ~Handled
    <3>1. job' = [job EXCEPT !.pc = "commit", !.mark = mark, !.answer = None,
                             !.plate = IF mark = None THEN ObsPlate[job.obs] ELSE mark]
      BY <1>e, <2>2 DEF Conclude
    <3> QED  BY <1>0, <3>1 DEF JobType
  <2> QED  BY <2>1, <2>2
<1>1. CASE UNCHANGED vars
  BY <1>1, <1>a DEF vars
<1>2. CASE ReadConfig \/ ReadExisting \/ ReadVehicle \/ CommitVehicle \/ CommitCooldown \/ Create
  <2>1. job'.pc # "mark"
    <3>1. CASE ReadConfig
      BY <1>0, <1>d, <3>1 DEF ReadConfig, JobType
    <3>2. CASE ReadExisting \/ CommitCooldown
      BY <1>0, <1>d, <3>2 DEF ReadExisting, CommitCooldown, Goto, JobType
    <3>3. CASE ReadVehicle \/ CommitVehicle
      BY <1>0, <3>3 DEF ReadVehicle, CommitVehicle, JobType
    <3>4. CASE Create
      BY <1>d, <3>4 DEF Create, NoJob
    <3> QED  BY <1>2, <3>1, <3>2, <3>3, <3>4
  <2>2. job.pc # "mark" /\ UNCHANGED <<marks, calls>>
    BY <1>2 DEF ReadConfig, ReadExisting, ReadVehicle, CommitVehicle, CommitCooldown, Create
  <2> QED  BY <2>1, <2>2, <1>b
<1>3. CASE Decide
  <2>1. CASE job' = NoJob
    BY <1>3, <2>1, <1>b DEF Decide, NoJob
  <2>2. CASE job' # NoJob
    <3>1. job' = [NoJob EXCEPT !.pc = IF Route \in {"registered", "local"} THEN "commit"
                                      ELSE "external",
                               !.obs = job.obs, !.mark = job.mark, !.route = Route,
                               !.save = job.config.save, !.plate = ObsPlate[job.obs]]
      BY <1>3, <2>2 DEF Decide, Handled
    <3>2. job'.pc # "mark"
      BY <3>1 DEF NoJob
    <3> QED  BY <1>3, <1>b, <3>2 DEF Decide
  <2> QED  BY <2>1, <2>2
<1>4. CASE ReuseAnswer
  <2>1. job'.pc # "mark"
    BY <1>4, <1>e DEF ReuseAnswer
  <2> QED  BY <1>4, <2>1, <1>b DEF ReuseAnswer
<1>5. CASE ImageMissing
  BY <1>0, <1>5 DEF ImageMissing, Unstored, JobType
<1>6. CASE CallExternal
  <2>1. PICK plate \in Plates \cup {None} : job' = [job EXCEPT !.pc = "mark", !.answer = plate]
    BY <1>6 DEF CallExternal
  <2>2. job'.pc = "mark" /\ job'.obs = job.obs /\ job'.answer # "unavailable"
    BY <1>0, <2>1, RegistrationAssumption DEF JobType
  <2>3. calls[job.obs] = 0
    BY <1>0, <1>6 DEF CallExternal, Asked, MarkInv, Unstored
  <2>4. calls' = [calls EXCEPT ![job.obs] = 1]
    <3>1. calls' = [calls EXCEPT ![job.obs] = calls[job.obs] + 1] /\ calls[job.obs] + 1 = 1
      BY <1>6, <2>3 DEF CallExternal
    <3> QED  BY <3>1
  <2> QED  BY <1>0, <1>6, <2>2, <2>4 DEF CallExternal, Unstored
<1>7. CASE Mark
  <2> DEFINE mark == IF job.answer = "unavailable" THEN None ELSE job.answer
  <2>1. mark # "unchecked"
    BY <1>0, RegistrationAssumption DEF JobType, Checked
  <2>2. job.pc = "mark" /\ job'.pc # "mark" /\ job.obs \in Observations
    BY <1>0, <1>7, <1>e DEF Mark
  <2>3. CASE UNCHANGED marks /\ Forgotten
    BY <2>2, <2>3, <1>c
  <2>4. CASE marks' = [marks EXCEPT ![job.obs] = mark] /\ UNCHANGED calls
    BY <1>0, <2>1, <2>2, <2>4 DEF Unstored
  <2> QED  BY <1>7, <2>3, <2>4 DEF Mark
<1>8. CASE SavePhoto
  <2>1. /\ job.pc = "photo" /\ job'.pc = "create" /\ UNCHANGED calls
        /\ marks' \in {marks, [marks EXCEPT ![job.obs] = job.mark]}
    BY <1>0, <1>8 DEF SavePhoto, Goto, JobType
  <2>2. job.mark = "unchecked" => marks[job.obs] = "unchecked"
    BY <2>1, RegistrationAssumption DEF MarkInv, Committing, Checked
  <2> QED  BY <1>0, <2>1, <2>2 DEF Unstored
<1>9. CASE JobFail
  BY <1>9, <1>b DEF JobFail, NoJob
<1>10. CASE Crash
  BY <1>10, <1>c DEF Crash, NoJob
<1>11. ASSUME NEW o \in Observations, JobStart(o) PROVE CallInv'
  <2>1. job.pc = "none" /\ job'.pc = "config"
    BY <1>11 DEF JobStart, NoJob
  <2> QED  BY <1>11, <2>1, <1>b DEF JobStart
<1>12. ASSUME NEW o \in Observations, Show(o) \/ Confirm(o) PROVE CallInv'
  BY <1>12, <1>a DEF Show, Confirm
<1>13. CASE (\E p \in Plates : ChangeVehicle(p)) \/ ChangeSettings \/ Tick
  BY <1>13, <1>a DEF ChangeVehicle, ChangeSettings, Tick
<1> QED
  BY <1>1, <1>2, <1>3, <1>4, <1>5, <1>6, <1>7, <1>8, <1>9, <1>10, <1>11, <1>12, <1>13 DEF Next

-----------------------------------------------------------------------------
(* Movements.                                                              *)

Table == {movements[k] : k \in 1 .. Len(movements)}

\* A movement that the external service decided has a plate that it returned,
\* the one that is stored.
Decided(m) ==
    /\ m.route = "external" => m.plate \in answers[m.obs]
    /\ m.route \in Paid /\ marks[m.obs] \in Plates => m.plate = marks[m.obs]

\* The movements that the cooldown of a plate counts from, for a job that found
\* its vehicle or not.
Counts(m, plate, vehicle) == m.plate = plate /\ (m.vehicle = None => vehicle = "absent")

\* What the job relies on until it inserts its movement: there is none for its
\* observation that an earlier job decided with the external service, and none
\* of its plate within the cooldown.
StoryInv ==
    /\ \A m \in Table : Decided(m) /\ (m.plate # None => m.vehicle \in {None, m.plate})
    /\ job.pc \in {"vehicle", "recent", "external", "mark"} \cup Committing =>
          \A m \in Table : m.obs = job.obs => m.route \notin Paid
    /\ job.pc \in {"photo", "create"} /\ Cooldown > 0 =>
          \A m \in Table : Counts(m, job.plate, job.vehicle) => m.time + Cooldown < now

\* A movement appended is the last one.
LEMMA Appended ==
  ASSUME movements \in Seq(Movement), NEW m \in Movement, movements' = Append(movements, m)
  PROVE  /\ Table' = Table \cup {m}
         /\ Len(movements') = Len(movements) + 1 /\ Len(movements) \in Nat
         /\ \A k \in 1 .. Len(movements) : movements'[k] = movements[k]
         /\ movements'[Len(movements) + 1] = m
<1>1. /\ Len(movements') = Len(movements) + 1 /\ Len(movements) \in Nat
      /\ \A k \in 1 .. Len(movements) : movements'[k] = movements[k]
      /\ movements'[Len(movements) + 1] = m
  BY AppendProperties
<1>2. 1 .. Len(movements') = (1 .. Len(movements)) \cup {Len(movements) + 1}
  BY <1>1
<1> QED  BY <1>1, <1>2 DEF Table

\* Marks change for the observation of the job alone, and answers grow.
LEMMA MarksOfJob ==
  ASSUME Typed, MarkInv, [Next]_vars
  PROVE  /\ \A o \in Observations : answers[o] \subseteq answers'[o]
         /\ \A o \in Observations \ {job.obs} : marks'[o] = marks[o]
         /\ UNCHANGED marks \/ job.pc \in {"mark", "photo"}
<1>1. CASE UNCHANGED <<marks, answers>>
  BY <1>1
<1>2. CASE CallExternal
  BY <1>2 DEF CallExternal, Typed, DataInv
<1>3. CASE Mark
  BY <1>3 DEF Mark, Typed, DataInv
<1>4. CASE SavePhoto
  BY <1>4 DEF SavePhoto, Typed, DataInv, history
<1> QED
  BY <1>1, <1>2, <1>3, <1>4
     DEF Next, vars, history, ReadConfig, ReadExisting, ReadVehicle, Decide, ReuseAnswer, ImageMissing,
         CommitVehicle, CommitCooldown, Create, JobFail, Crash, JobStart, Show, Confirm,
         ChangeVehicle, ChangeSettings, Tick

\* How a job gets from one step to the next.
Past == {"vehicle", "recent", "external", "mark"} \cup Committing

JobPath ==
    \/ job'.pc \in {"none", "config", "existing"}
    \/ job'.obs = job.obs /\ ~Registered(job.obs) /\ UNCHANGED movements /\ job'.pc = "vehicle"
    \/ job'.obs = job.obs /\ job.pc \in Past /\ job'.pc \in Past \ {"photo", "create"}
    \/ /\ job'.obs = job.obs /\ job'.plate = job.plate /\ job'.vehicle = job.vehicle
       /\ job'.pc \in {"photo", "create"}
       /\ \/ job.pc \in {"photo", "create"}
          \/ job.pc = "cooldown" /\ ~InCooldown /\ UNCHANGED <<now, movements>>

LEMMA StepPath ==
  ASSUME Typed, [Next]_vars
  PROVE  JobPath
<1>0. job \in JobType
  BY DEF Typed, JobInv
<1> USE DEF JobPath, Past
<1>a. job' = NoJob => JobPath
  BY DEF NoJob
<1>b. job' = job => JobPath
  BY <1>0 DEF JobType, Committing
<1>c. ASSUME NEW mark, Conclude(mark), job.pc \in {"external", "mark"} PROVE JobPath
  <2>1. CASE Handled
    BY <1>a, <2>1 DEF Handled
  <2>2. CASE ~Handled
    <3>1. job' = [job EXCEPT !.pc = "commit", !.mark = mark, !.answer = None,
                             !.plate = IF mark = None THEN ObsPlate[job.obs] ELSE mark]
      BY <1>c, <2>2 DEF Conclude
    <3>2. job'.pc = "commit" /\ job'.obs = job.obs
      BY <1>0, <3>1 DEF JobType
    <3> QED  BY <1>c, <3>2 DEF Committing
  <2> QED  BY <2>1, <2>2
<1>1. CASE UNCHANGED vars
  BY <1>1, <1>b DEF vars
<1>2. CASE ReadConfig
  BY <1>0, <1>2, <1>a DEF ReadConfig, Handled, JobType
<1>3. CASE ReadExisting
  <2>1. CASE Registered(job.obs)
    BY <1>3, <2>1, <1>a DEF ReadExisting, Handled
  <2>2. CASE ~Registered(job.obs)
    <3>1. job' = [job EXCEPT !.pc = "vehicle"] /\ UNCHANGED movements
      BY <1>3, <2>2 DEF ReadExisting, Goto
    <3> QED  BY <1>0, <2>2, <3>1 DEF JobType
  <2> QED  BY <2>1, <2>2
<1>4. CASE ReadVehicle
  BY <1>0, <1>4 DEF ReadVehicle, JobType, Committing
<1>5. CASE Decide
  <2>1. CASE job' = NoJob
    BY <2>1, <1>a
  <2>2. CASE job' # NoJob
    <3>1. job' = [NoJob EXCEPT !.pc = IF Route \in {"registered", "local"} THEN "commit"
                                      ELSE "external",
                               !.obs = job.obs, !.mark = job.mark, !.route = Route,
                               !.save = job.config.save, !.plate = ObsPlate[job.obs]]
      BY <1>5, <2>2 DEF Decide, Handled
    <3>2. job'.pc \in {"commit", "external"} /\ job'.obs = job.obs
      BY <3>1 DEF NoJob
    <3> QED  BY <1>5, <3>2 DEF Decide, Committing
  <2> QED  BY <2>1, <2>2
<1>6. CASE ReuseAnswer
  BY <1>6, <1>c DEF ReuseAnswer
<1>7. CASE ImageMissing
  BY <1>0, <1>7 DEF ImageMissing, JobType, Committing
<1>8. CASE CallExternal
  BY <1>0, <1>8 DEF CallExternal, JobType, Committing
<1>9. CASE Mark
  BY <1>9, <1>c DEF Mark
<1>10. CASE CommitVehicle
  BY <1>0, <1>10 DEF CommitVehicle, JobType, Committing
<1>11. CASE CommitCooldown
  <2>1. CASE InCooldown
    BY <1>11, <2>1, <1>a DEF CommitCooldown, Handled
  <2>2. CASE ~InCooldown
    <3>1. PICK pc \in {"photo", "create"} : job' = [job EXCEPT !.pc = pc]
      BY <1>11, <2>2 DEF CommitCooldown, Goto
    <3> QED  BY <1>0, <1>11, <2>2, <3>1 DEF CommitCooldown, JobType
  <2> QED  BY <2>1, <2>2
<1>12. CASE SavePhoto
  <2>1. job' = [job EXCEPT !.pc = "create"] /\ job.pc = "photo"
    BY <1>12 DEF SavePhoto, Goto
  <2> QED  BY <1>0, <2>1 DEF JobType
<1>13. CASE Create \/ JobFail \/ Crash
  BY <1>13, <1>a DEF Create, Handled, JobFail, Crash
<1>14. ASSUME NEW o \in Observations, JobStart(o) PROVE JobPath
  BY <1>14 DEF JobStart, NoJob
<1>15. ASSUME NEW o \in Observations, Show(o) \/ Confirm(o) PROVE JobPath
  BY <1>15, <1>b DEF Show, Confirm
<1>16. CASE (\E p \in Plates : ChangeVehicle(p)) \/ ChangeSettings \/ Tick
  BY <1>16, <1>b DEF ChangeVehicle, ChangeSettings, Tick
<1> QED
  BY <1>1, <1>2, <1>3, <1>4, <1>5, <1>6, <1>7, <1>8, <1>9, <1>10, <1>11, <1>12, <1>13, <1>14,
     <1>15, <1>16 DEF Next

\* What is inserted: by a gatekeeper, a movement without recognised plate; by
\* the job, the movement that it has worked towards.
Confirmed(m) == m \in Movement /\ m.route = "confirmed" /\ m.plate = None

Registering(m) ==
    /\ job.pc = "create" /\ m \in Movement
    /\ m.obs = job.obs /\ m.plate = job.plate /\ m.route = job.route /\ m.at = now
    /\ m.vehicle = IF job.vehicle = "absent" THEN None ELSE job.plate

LEMMA StepRows ==
  ASSUME Typed, [Next]_vars
  PROVE  \/ UNCHANGED movements
         \/ \E m : /\ movements' = Append(movements, m) /\ UNCHANGED <<marks, answers, now>>
                   /\ \/ Confirmed(m) /\ UNCHANGED job
                      \/ Registering(m) /\ job' = NoJob
<1>1. CASE Create
  <2>1. CASE UNCHANGED movements
    BY <2>1
  <2>2. CASE ~UNCHANGED movements
    <3> DEFINE m == [obs |-> job.obs, time |-> captured[job.obs], plate |-> job.plate, at |-> now,
                     vehicle |-> IF job.vehicle = "absent" THEN None ELSE job.plate,
                     route |-> job.route]
    <3>1. /\ movements' = Append(movements, m) /\ job' = NoJob /\ job.pc = "create"
          /\ UNCHANGED <<marks, answers, now>>
      BY <1>1, <2>2 DEF Create, Handled, history
    <3>2. m \in Movement
      BY <3>1 DEF Typed, DataInv, Movement, JobInv, JobType, Committing, Routes
    <3>3. Registering(m)
      BY <3>1, <3>2 DEF Registering
    <3> QED  BY <3>1, <3>3
  <2> QED  BY <2>1, <2>2
<1>2. ASSUME NEW o \in Observations, Confirm(o)
      PROVE  \E m : /\ movements' = Append(movements, m) /\ UNCHANGED <<marks, answers, now>>
                    /\ Confirmed(m) /\ UNCHANGED job
  <2> DEFINE m == [obs |-> o, time |-> now, plate |-> None, at |-> now,
                   vehicle |-> ObsPlate[o], route |-> "confirmed"]
  <2>1. m \in Movement
    BY RegistrationAssumption DEF Typed, DataInv, Movement
  <2>2. Confirmed(m)
    BY <2>1 DEF Confirmed
  <2> QED  BY <1>2, <2>2 DEF Confirm, history
<1> QED
  BY <1>1, <1>2
     DEF Next, vars, ReadConfig, ReadExisting, ReadVehicle, Decide, ReuseAnswer, ImageMissing,
         CallExternal, Mark, SavePhoto, CommitVehicle, CommitCooldown, JobFail, Crash, JobStart, Show,
         ChangeVehicle, ChangeSettings, Tick

LEMMA Clock ==
  ASSUME Typed, [Next]_vars
  PROVE  now' \in Nat /\ now \in Nat /\ now <= now'
<1>1. now \in Nat
  BY DEF Typed, DataInv
<1>2. UNCHANGED now \/ now' = now + 1
  BY DEF Next, vars, ReadConfig, ReadExisting, ReadVehicle, Decide, ReuseAnswer, ImageMissing,
         CallExternal, Mark, SavePhoto, CommitVehicle, CommitCooldown, Create, JobFail, Crash,
         JobStart, Show, Confirm, ChangeVehicle, ChangeSettings, Tick
<1> QED  BY <1>1, <1>2

LEMMA StepStory ==
  ASSUME Typed, MarkInv, StoryInv, [Next]_vars
  PROVE  StoryInv'
<1>0. \A m \in Table : m \in Movement
  BY DEF Table, Typed, DataInv
\* The movements there were.
<1>1. \A m \in Table : Decided(m)' /\ (m.plate # None => m.vehicle \in {None, m.plate})
  <2> SUFFICES ASSUME NEW m \in Table PROVE Decided(m)'
    BY DEF StoryInv
  <2>1. Decided(m) /\ m.obs \in Observations
    BY <1>0 DEF StoryInv, Movement
  <2>2. answers[m.obs] \subseteq answers'[m.obs]
    BY <2>1, MarksOfJob
  <2>3. m.route \in Paid => marks'[m.obs] = marks[m.obs]
    BY <2>1, MarksOfJob DEF StoryInv, Committing
  <2> QED  BY <2>1, <2>2, <2>3 DEF Decided
<1>2. CASE UNCHANGED movements
  <2>1. Table' = Table
    BY <1>2 DEF Table
  <2>2. ASSUME job'.pc \in Past, NEW m \in Table, m.obs = job'.obs PROVE m.route \notin Paid
    <3>1. CASE job.pc \in Past /\ job'.obs = job.obs
      BY <2>2, <3>1 DEF StoryInv, Past
    <3>2. CASE job'.obs = job.obs /\ ~Registered(job.obs)
      BY <2>2, <3>2 DEF Table, Registered
    <3> QED  BY <2>2, <3>1, <3>2, StepPath DEF JobPath, Past, Committing
  <2>3. ASSUME job'.pc \in {"photo", "create"}, Cooldown > 0,
               NEW m \in Table, Counts(m, job'.plate, job'.vehicle)
        PROVE  m.time + Cooldown < now'
    <3>1. job'.plate = job.plate /\ job'.vehicle = job.vehicle
      BY <2>3, StepPath DEF JobPath, Past
    <3>2. CASE job.pc \in {"photo", "create"}
      <4>1. m.time + Cooldown < now
        BY <2>3, <3>1, <3>2 DEF StoryInv
      <4> QED  BY <1>0, <4>1, Clock, RegistrationAssumption DEF Movement
    <3>3. CASE job.pc = "cooldown" /\ ~InCooldown /\ UNCHANGED now
      <4>1. PICK k \in 1 .. Len(movements) : m = movements[k]
        BY DEF Table
      <4>2. job.plate \in Plates /\ job.vehicle \in {"absent", "active", "inactive"}
        BY <3>3 DEF Typed, JobInv, Committing
      <4>3. m.plate = job.plate /\ m.vehicle \in {None, m.plate} /\ m \in Movement
        BY <1>0, <2>3, <3>1, <4>2, RegistrationAssumption DEF Counts, StoryInv
      <4>4. ~(m.time + Cooldown >= now)
        BY <2>3, <3>1, <3>3, <4>1, <4>2, <4>3 DEF InCooldown, Recent, Counts
      <4>5. m.time \in Nat /\ Cooldown \in Nat /\ now \in Nat
        BY <4>3, RegistrationAssumption DEF Movement, Typed, DataInv
      <4> QED  BY <3>3, <4>4, <4>5
    <3> QED  BY <2>3, <3>2, <3>3, StepPath DEF JobPath, Past
  <2> QED  BY <1>1, <2>1, <2>2, <2>3 DEF StoryInv, Past
<1>3. ASSUME NEW m, movements' = Append(movements, m), UNCHANGED <<marks, answers, now, job>>, Confirmed(m)
      PROVE  StoryInv'
  <2>1. Table' = Table \cup {m}
    BY <1>3, Appended DEF Confirmed, Typed, DataInv
  <2>2. m.route \notin Paid /\ m.route # "external" /\ m.plate = None
    BY <1>3 DEF Confirmed, Paid
  <2>3. ASSUME job.pc \in {"photo", "create"} PROVE ~Counts(m, job.plate, job.vehicle)
    BY <2>2, <2>3, RegistrationAssumption DEF Counts, Typed, JobInv, Committing
  <2> QED  BY <1>1, <1>3, <2>1, <2>2, <2>3 DEF StoryInv, Decided
<1>4. ASSUME NEW m, movements' = Append(movements, m), UNCHANGED <<marks, answers, now>>, Registering(m),
             job' = NoJob
      PROVE  StoryInv'
  <2>1. Table' = Table \cup {m}
    BY <1>4, Appended DEF Registering, Typed, DataInv
  <2>2. Decided(m)
    <3>1. job.pc \in Committing /\ job.plate \in Plates
      BY <1>4 DEF Registering, Committing, Typed, JobInv
    <3> QED  BY <1>4, <3>1, RegistrationAssumption DEF Registering, Decided, MarkInv, Paid, Checked
  <2>3. m.vehicle \in {None, m.plate}
    BY <1>4 DEF Registering
  <2>4. job'.pc = "none"
    BY <1>4 DEF NoJob
  <2> QED  BY <1>1, <1>4, <2>1, <2>2, <2>3, <2>4 DEF StoryInv, Decided, Committing
<1> QED  BY <1>2, <1>3, <1>4, StepRows

-----------------------------------------------------------------------------
(* Theorems.                                                               *)

IInv == Typed /\ MarkInv /\ CallInv /\ StoryInv /\ CreatedAfterCooldown

LEMMA InitInv == Init => IInv
<1> SUFFICES ASSUME Init PROVE IInv
  OBVIOUS
<1>1. Typed
  BY InitType
<1>2. job.pc = "none" /\ Table = {} /\ Len(movements) = 0
  BY DEF Init, NoJob, Table
<1>3. MarkInv /\ CallInv
  BY <1>2, RegistrationAssumption DEF Init, MarkInv, CallInv, Unstored, Committing
<1>4. StoryInv /\ CreatedAfterCooldown
  BY <1>2 DEF StoryInv, Committing, CreatedAfterCooldown
<1> QED  BY <1>1, <1>3, <1>4 DEF IInv

\* Only the job inserts movements with a recognised plate, and it has found
\* none of its plate within the cooldown.
LEMMA StepCooldown ==
  ASSUME Typed, StoryInv, CreatedAfterCooldown, [Next]_vars
  PROVE  CreatedAfterCooldown'
<1>1. CASE UNCHANGED movements
  BY <1>1 DEF CreatedAfterCooldown
<1>2. ASSUME NEW m, m \in Movement, movements' = Append(movements, m),
             m.plate # None => Registering(m)
      PROVE  CreatedAfterCooldown'
  <2>1. /\ Len(movements') = Len(movements) + 1 /\ Len(movements) \in Nat
        /\ \A k \in 1 .. Len(movements) : movements'[k] = movements[k]
        /\ movements'[Len(movements) + 1] = m
    BY <1>2, Appended DEF Typed, DataInv
  <2> SUFFICES ASSUME NEW j \in 1 .. Len(movements'), NEW k \in 1 .. Len(movements'), j < k,
                      movements'[j].plate = movements'[k].plate, movements'[j].plate # None,
                      ~(movements'[j].vehicle = None /\ movements'[k].vehicle # None), Cooldown > 0
               PROVE  movements'[j].time + Cooldown < movements'[k].at
    BY DEF CreatedAfterCooldown
  <2>2. j \in 1 .. Len(movements) /\ movements'[j] = movements[j]
    BY <2>1
  <2>3. CASE k \in 1 .. Len(movements)
    BY <2>1, <2>2, <2>3 DEF CreatedAfterCooldown
  <2>4. CASE k = Len(movements) + 1
    <3>1. Registering(m) /\ movements'[k] = m
      BY <1>2, <2>1, <2>4
    <3>2. movements[j] \in Table
      BY <2>2 DEF Table
    <3>3. job.plate \in Plates
      BY <3>1 DEF Registering, Typed, JobInv, Committing
    <3>4. Counts(movements[j], job.plate, job.vehicle)
      BY <2>2, <3>1, <3>3, RegistrationAssumption DEF Counts, Registering
    <3> QED  BY <2>2, <3>1, <3>2, <3>4 DEF StoryInv, Registering
  <2> QED  BY <2>1, <2>3, <2>4
<1> QED  BY <1>1, <1>2, StepRows DEF Confirmed, Registering

LEMMA StepInv == IInv /\ [Next]_vars => IInv'
<1> SUFFICES ASSUME IInv, [Next]_vars PROVE IInv'
  OBVIOUS
<1>1. Counted
  BY DEF Counted, IInv, CallInv, Unstored, Typed, JobInv
<1> QED  BY <1>1, StepType, StepMark, StepCall, StepStory, StepCooldown DEF IInv

LEMMA Invariance == Spec => []IInv
BY InitInv, StepInv, PTL DEF Spec

\* TypeOK of a gate's observations, settings, job and movements.
THEOREM RegistrationTypeCorrect == Spec => []TypeOK
<1>1. IInv => TypeOK
  BY TypedSuffices DEF IInv
<1> QED  BY <1>1, Invariance, PTL

\* The paid service is asked once about an observation, through failures of the
\* save and crashes: again only when an earlier result could not be stored.
THEOREM ServiceAskedOnce == Spec => []AskedOnce
<1>1. IInv => AskedOnce
  BY DEF IInv, CallInv, AskedOnce
<1> QED  BY <1>1, Invariance, PTL

\* No movement that the settings leave to the external service carries a plate
\* that it did not return or that differs from the stored one.
THEOREM ServiceDecides == Spec => []ExternalDecides
<1>1. IInv => ExternalDecides
  BY DEF IInv, StoryInv, Decided, Table, ExternalDecides, Paid
<1> QED  BY <1>1, Invariance, PTL

\* When an automatic movement is created, the capture of every earlier one of its
\* plate lies more than a cooldown back, whatever gatekeepers and administrators do
\* while the job is in progress; only a vehicle that the first movement does not
\* know and the second does is left out (hasRecentMovement looks it up by its id).
THEOREM CooldownBeforeCreation == Spec => []CreatedAfterCooldown
<1>1. IInv => CreatedAfterCooldown
  BY DEF IInv
<1> QED  BY <1>1, Invariance, PTL

-----------------------------------------------------------------------------
(* Recognition: what a text can mean.                                      *)

LEMMA LeastNumber ==
  ASSUME NEW T \in SUBSET Nat, T # {}
  PROVE  Min(T) \in T /\ \A k \in T : Min(T) <= k
<1> DEFINE R == OpToRel(<, Nat)
<1>1. IsWellFoundedOn(R, Nat)
  BY NatLessThanWellFounded DEF OpToRel
<1>2. \A x, y \in Nat : x < y => <<x, y>> \in R
  BY DEF OpToRel
<1> HIDE DEF R
<1>3. \E n \in T : \A k \in T : ~ (<<k, n>> \in R)
  BY <1>1, WFMin
<1>4. PICK n \in T : \A k \in T : ~ (k < n)
  BY <1>2, <1>3
<1>5. \A k \in T : n <= k
  BY <1>4
<1> QED  BY <1>5 DEF Min

\* The letters a digit is taken for are no digits, and the other way round.
LEMMA Tables ==
  /\ Letters \cap Digits = {}
  /\ DOMAIN DigitToLetter = Digits /\ DOMAIN LetterToDigit \subseteq Letters
  /\ \A c \in Digits : DigitToLetter[c] \in Letters
  /\ \A c \in DOMAIN LetterToDigit : LetterToDigit[c] \in Digits
<1>1. Letters \cap Digits = {}
  BY DEF Letters, Digits
<1>2. DOMAIN DigitToLetter = Digits
  BY DEF DigitToLetter
<1>3. DOMAIN LetterToDigit = {"O", "Q", "D", "I", "L", "J", "Z", "E", "A", "S", "G", "T", "B"}
  BY DEF LetterToDigit
<1>4. DOMAIN LetterToDigit \subseteq Letters
  BY <1>3 DEF Letters
<1>5. ASSUME NEW c \in Digits PROVE DigitToLetter[c] \in Letters
  <2>1. DigitToLetter[c] = CASE c = "0" -> "O" [] c = "1" -> "I" [] c = "2" -> "Z" [] c = "3" -> "E" [] c = "4" -> "A"
                      [] c = "5" -> "S" [] c = "6" -> "G" [] c = "7" -> "T" [] c = "8" -> "B" [] c = "9" -> "Q"
    BY DEF DigitToLetter
  <2>2. DigitToLetter[c] \in {"O", "I", "Z", "E", "A", "S", "G", "T", "B", "Q"}
    BY <2>1 DEF Digits
  <2>3. QED
    BY <2>2 DEF Letters
<1>6. ASSUME NEW c \in DOMAIN LetterToDigit PROVE LetterToDigit[c] \in Digits
  <2>1. LetterToDigit[c] =
          CASE c \in {"O", "Q", "D"} -> "0" [] c \in {"I", "L", "J"} -> "1" [] c = "Z" -> "2" [] c = "E" -> "3"
            [] c = "A" -> "4" [] c = "S" -> "5" [] c = "G" -> "6" [] c = "T" -> "7" [] c = "B" -> "8"
    BY <1>3 DEF LetterToDigit
  <2>2. LetterToDigit[c] \in {"0", "1", "2", "3", "4", "5", "6", "7", "8"}
    BY <1>3, <2>1
  <2>3. QED
    BY <2>2 DEF Digits
<1> QED  BY <1>1, <1>2, <1>4, <1>5, <1>6

Right(kind) == IF kind = "L" THEN Letters ELSE Digits

Confused(c) == IF c \in Digits THEN DigitToLetter[c] ELSE LetterToDigit[c]

Confusable(c) == c \in Digits \cup DOMAIN LetterToDigit

\* A position is fixed to what fits it, by its one confusion if at all.
LEMMA Fixed ==
  ASSUME NEW c, NEW kind
  PROVE  /\ Fix(c, kind) = NoPlate \/ Fix(c, kind) \in Right(kind)
         /\ Fix(c, kind) # NoPlate => Fix(c, kind) = c \/ (Confusable(c) /\ Fix(c, kind) = Confused(c))
         /\ c \in Right(kind) => Fix(c, kind) = c /\ (Confusable(c) => Confused(c) \notin Right(kind))
         /\ Confusable(c) /\ Confused(c) \in Right(kind) => Fix(c, kind) = Confused(c)
         /\ Right(kind) \subseteq Alphanumeric
BY Tables DEF Fix, Right, Confused, Confusable, Alphanumeric

LEMMA FormatsAre ==
  DOMAIN Pattern = {"mercosul", "antiga"}
BY DEF Pattern

LEMMA FitsIs ==
  ASSUME NEW word, NEW format
  PROVE  Fits(word, format) <=> Len(word) = Size /\ \A i \in 1 .. Size : word[i] \in Right(Pattern[format][i])
BY DEF Fits, Right

Near(word) == {f \in DOMAIN Pattern : \A i \in 1 .. Size : Adjusted(word, f)[i] # NoPlate}

\* What is adjusted in every position is a plate.
LEMMA AdjustedFits ==
  ASSUME NEW word, NEW f \in Near(word)
  PROVE  /\ Adjusted(word, f) \in [1 .. Size -> Alphanumeric]
         /\ Len(Adjusted(word, f)) = Size
         /\ Fits(Adjusted(word, f), f)
<1> DEFINE plate == Adjusted(word, f)
<1>1. \A i \in 1 .. Size : plate[i] = Fix(word[i], Pattern[f][i]) /\ plate[i] # NoPlate
  BY DEF Adjusted, Near
<1>2. \A i \in 1 .. Size : plate[i] \in Right(Pattern[f][i]) /\ plate[i] \in Alphanumeric
  BY <1>1, Fixed
<1>3. DOMAIN plate = 1 .. Size /\ plate = [i \in 1 .. Size |-> plate[i]] /\ Size \in Nat
  BY DEF Adjusted, Size
<1> HIDE DEF plate
<1>4. plate \in [1 .. Size -> Alphanumeric]
  BY <1>2, <1>3
<1>5. plate \in Seq(Alphanumeric) /\ Len(plate) = Size
  BY <1>3, <1>4
<1>6. Fits(plate, f)
  BY <1>2, <1>5, FitsIs
<1> QED  BY <1>4, <1>5, <1>6 DEF plate

\* The plates that confusions make of a word are its adjustments.
LEMMA RepairsAre ==
  ASSUME NEW word, Len(word) = Size
  PROVE  /\ \A f \in Near(word) : Adjusted(word, f) \in Repairs(word)
         /\ \A p \in Repairs(word) : \E f \in Near(word) : p = Adjusted(word, f)
<1> DEFINE confusable == {i \in 1 .. Size : Confusable(word[i])}
           changed(S) == [i \in 1 .. Size |-> IF i \in S THEN Confused(word[i]) ELSE word[i]]
<1>1. Repairs(word) = {p \in {changed(S) : S \in SUBSET confusable} : \E f \in DOMAIN Pattern : Fits(p, f)}
  BY DEF Repairs, Confusable, Confused
<1>2. ASSUME NEW f \in Near(word)
      PROVE  Adjusted(word, f) \in Repairs(word)
  <2> DEFINE S == {i \in 1 .. Size : Adjusted(word, f)[i] # word[i]}
  <2>1. \A i \in 1 .. Size : Adjusted(word, f)[i] = Fix(word[i], Pattern[f][i]) /\ Adjusted(word, f)[i] # NoPlate
    BY DEF Adjusted, Near
  <2>2. \A i \in S : Confusable(word[i]) /\ Adjusted(word, f)[i] = Confused(word[i])
    BY <2>1, Fixed
  <2>3. S \in SUBSET confusable
    BY <2>2
  <2>4. Adjusted(word, f) = changed(S)
    <3>1. Adjusted(word, f) = [i \in 1 .. Size |-> Adjusted(word, f)[i]]
      BY DEF Adjusted
    <3>2. \A i \in 1 .. Size : Adjusted(word, f)[i] = IF i \in S THEN Confused(word[i]) ELSE word[i]
      BY <2>2
    <3> QED  BY <3>1, <3>2
  <2>5. Fits(Adjusted(word, f), f) /\ f \in DOMAIN Pattern
    BY AdjustedFits DEF Near
  <2> HIDE DEF S, changed, confusable
  <2> QED  BY <1>1, <2>3, <2>4, <2>5
<1>3. ASSUME NEW p \in Repairs(word)
      PROVE  \E f \in Near(word) : p = Adjusted(word, f)
  <2>1. PICK S \in SUBSET confusable : p = changed(S)
    BY <1>1
  <2>2. PICK f \in DOMAIN Pattern : Fits(p, f)
    BY <1>1
  <2>3. ASSUME NEW i \in 1 .. Size
        PROVE  p[i] = Fix(word[i], Pattern[f][i]) /\ p[i] # NoPlate
    <3>1. p[i] \in Right(Pattern[f][i])
      BY <2>2, FitsIs
    <3>2. p[i] = IF i \in S THEN Confused(word[i]) ELSE word[i]
      BY <2>1
    <3>3. i \in S => Confusable(word[i])
      BY <2>1
    <3>4. p[i] = Fix(word[i], Pattern[f][i])
      BY <3>1, <3>2, <3>3, Fixed
    <3>5. p[i] \in Alphanumeric
      BY <3>1, Fixed
    <3> QED  BY <3>4, <3>5, RecognitionAssumption
  <2>4. p = Adjusted(word, f)
    BY <2>1, <2>3 DEF Adjusted
  <2> QED  BY <2>3, <2>4 DEF Near
<1> QED  BY <1>2, <1>3

\* How many positions a set has.
LEMMA Positions ==
  ASSUME NEW S \in SUBSET (1 .. Size)
  PROVE  Cardinality(S) \in Nat /\ (Cardinality(S) = 0 <=> S = {})
<1>1. IsFiniteSet(1 .. Size)
  <2>1. 1 \in Int /\ Size \in Int
    BY DEF Size
  <2> QED  BY <2>1, FS_Interval
<1>2. IsFiniteSet(S)
  BY <1>1, FS_Subset
<1> QED  BY <1>2, FS_CardinalityType, FS_EmptySet

LEMMA DistanceOf ==
  ASSUME NEW word, NEW f
  PROVE  /\ Distance(word, Adjusted(word, f)) = Corrections(word, f)
         /\ Corrections(word, f) \in Nat
         /\ (\A i \in 1 .. Size : Adjusted(word, f)[i] = word[i]) => Corrections(word, f) = 0
<1> DEFINE S == {i \in 1 .. Size : Adjusted(word, f)[i] # word[i]}
<1>1. Corrections(word, f) = Cardinality(S)
  BY DEF Corrections
<1>2. {i \in 1 .. Size : word[i] # Adjusted(word, f)[i]} = S
  OBVIOUS
<1>3. S \in SUBSET (1 .. Size)
  OBVIOUS
<1>4. (\A i \in 1 .. Size : Adjusted(word, f)[i] = word[i]) => S = {}
  OBVIOUS
<1>5. Distance(word, Adjusted(word, f)) = Cardinality(S)
  BY <1>2 DEF Distance
<1> HIDE DEF S
<1> QED  BY <1>1, <1>3, <1>4, <1>5, Positions

\* The fewest corrections make the nearest plate.
LEMMA FewestIsNearest ==
  ASSUME NEW word, Len(word) = Size, NEW f \in Near(word),
         \A g \in Near(word) : Corrections(word, f) <= Corrections(word, g)
  PROVE  Adjusted(word, f) \in Nearest(word)
<1>1. Adjusted(word, f) \in Repairs(word)
  BY RepairsAre
<1>2. ASSUME NEW q \in Repairs(word)
      PROVE  Distance(word, Adjusted(word, f)) <= Distance(word, q)
  <2>1. PICK g \in Near(word) : q = Adjusted(word, g)
    BY RepairsAre
  <2> QED  BY <2>1, DistanceOf
<1> QED  BY <1>1, <1>2 DEF Nearest

\* What fits a format needs no correction for it.
LEMMA FittingStays ==
  ASSUME NEW word, NEW f \in DOMAIN Pattern, Fits(word, f)
  PROVE  f \in Near(word) /\ Corrections(word, f) = 0
<1>1. ASSUME NEW i \in 1 .. Size
      PROVE  Adjusted(word, f)[i] = word[i] /\ Adjusted(word, f)[i] # NoPlate
  <2>1. word[i] \in Right(Pattern[f][i])
    BY FitsIs
  <2>2. Adjusted(word, f)[i] = Fix(word[i], Pattern[f][i])
    BY DEF Adjusted
  <2>3. word[i] # NoPlate
    BY <2>1, Fixed, RecognitionAssumption
  <2> QED  BY <2>1, <2>2, <2>3, Fixed
<1> QED  BY <1>1, DistanceOf DEF Near

\* Where a word can be adjusted at all, some format takes the fewest corrections.
LEMMA SomeFewest ==
  ASSUME NEW word, Near(word) # {}
  PROVE  \E f \in Near(word) : \A g \in Near(word) : Corrections(word, f) <= Corrections(word, g)
<1>1. Near(word) \subseteq {"mercosul", "antiga"}
  BY FormatsAre DEF Near
<1>2. \A f \in {"mercosul", "antiga"} : Corrections(word, f) \in Nat
  BY DistanceOf
<1> QED  BY <1>1, <1>2

\* A word becomes the nearest plate; it becomes none only if it is not legible.
LEMMA Classified ==
  ASSUME NEW word
  PROVE  /\ Classify(word) # NoPlate =>
              \E f \in Near(word) : /\ Classify(word) = [value |-> Adjusted(word, f), format |-> f]
                                    /\ Adjusted(word, f) \in Nearest(word)
         /\ Legible(word) => Classify(word) # NoPlate
<1> DEFINE exact == {f \in DOMAIN Pattern : Fits(word, f)}
           near == Near(word)
           few == {f \in near : \A g \in near : Corrections(word, f) <= Corrections(word, g)}
           choice(formats) == IF "mercosul" \in formats THEN "mercosul" ELSE "antiga"
           plate(formats) == [value |-> Adjusted(word, choice(formats)), format |-> choice(formats)]
           digits == Cardinality({i \in 1 .. Size : word[i] \in Digits})
<1>1. Classify(word) = IF Len(word) # Size THEN NoPlate
                       ELSE IF exact # {} THEN plate(exact)
                       ELSE IF digits < 2 \/ near = {} THEN NoPlate
                       ELSE plate(few)
  BY DEF Classify, Near
<1>2. ASSUME NEW F \in SUBSET DOMAIN Pattern, F # {}
      PROVE  choice(F) \in F
  <2>1. CASE "mercosul" \in F
    BY <2>1
  <2>2. CASE ~ ("mercosul" \in F)
    <3>1. F \subseteq {"mercosul", "antiga"}
      BY FormatsAre
    <3>2. "antiga" \in F
      BY <1>2, <2>2, <3>1
    <3> QED  BY <2>2, <3>2
  <2> QED  BY <2>1, <2>2
<1>3. exact \subseteq near /\ \A f \in exact : f \in few
  <2>1. ASSUME NEW f \in exact PROVE f \in near /\ \A g \in near : Corrections(word, f) <= Corrections(word, g)
    BY FittingStays, DistanceOf
  <2> QED  BY <2>1
<1>4. few \subseteq near /\ near \subseteq DOMAIN Pattern /\ exact \subseteq DOMAIN Pattern
  BY DEF Near
<1>5. near # {} => few # {}
  BY SomeFewest
<1>6. ASSUME Len(word) = Size, NEW f \in few
      PROVE  /\ Adjusted(word, f) \in Nearest(word)
             /\ [value |-> Adjusted(word, f), format |-> f] # NoPlate
  <2>1. Adjusted(word, f) \in Nearest(word)
    BY <1>6, FewestIsNearest
  <2>2. Adjusted(word, f) \in [1 .. Size -> Alphanumeric] /\ f \in DOMAIN Pattern
    BY <1>4, AdjustedFits
  <2> QED  BY <2>1, <2>2, RecognitionAssumption
<1>7. ASSUME Legible(word)
      PROVE  Len(word) = Size /\ near # {} /\ (exact # {} \/ digits >= 2)
  <2>1. Len(word) = Size /\ Repairs(word) # {}
    BY <1>7 DEF Legible
  <2>2. near # {}
    BY <2>1, RepairsAre
  <2>3. ASSUME NEW p \in Repairs(word), Distance(word, p) = 0
        PROVE  exact # {}
    <3>1. \A i \in 1 .. Size : word[i] = p[i]
      <4> DEFINE S == {i \in 1 .. Size : word[i] # p[i]}
      <4>1. Cardinality(S) = 0
        BY <2>3 DEF Distance
      <4>2. S \in SUBSET (1 .. Size)
        OBVIOUS
      <4>3. S = {}
        BY <4>1, <4>2, Positions
      <4> QED  BY <4>3
    <3>2. PICK f \in Near(word) : p = Adjusted(word, f)
      BY <2>1, RepairsAre
    <3>3. Fits(p, f) /\ f \in DOMAIN Pattern
      BY <3>2, AdjustedFits DEF Near
    <3>4. Fits(word, f)
      BY <2>1, <3>1, <3>3, FitsIs
    <3> QED  BY <3>3, <3>4
  <2>4. digits \in Nat
    <3>1. {i \in 1 .. Size : word[i] \in Digits} \in SUBSET (1 .. Size)
      OBVIOUS
    <3> QED  BY <3>1, Positions
  <2>5. (\E p \in Repairs(word) : Distance(word, p) = 0) \/ digits >= 2
    BY <1>7 DEF Legible
  <2> QED  BY <2>1, <2>2, <2>3, <2>4, <2>5
<1>8. digits \in Nat
  <2>1. {i \in 1 .. Size : word[i] \in Digits} \in SUBSET (1 .. Size)
    OBVIOUS
  <2> QED  BY <2>1, Positions
<1> HIDE DEF exact, near, few, choice, digits
<1>9. CASE Len(word) # Size
  BY <1>1, <1>7, <1>9
<1>10. CASE Len(word) = Size /\ exact # {}
  <2>1. Classify(word) = plate(exact)
    BY <1>1, <1>10
  <2>2. choice(exact) \in few /\ choice(exact) \in near
    BY <1>2, <1>3, <1>4, <1>10
  <2>3. Adjusted(word, choice(exact)) \in Nearest(word) /\ plate(exact) # NoPlate
    BY <1>6, <1>10, <2>2
  <2> QED  BY <2>1, <2>2, <2>3 DEF near
<1>11. CASE Len(word) = Size /\ exact = {} /\ (digits < 2 \/ near = {})
  BY <1>1, <1>7, <1>8, <1>11
<1>12. CASE Len(word) = Size /\ exact = {} /\ ~ (digits < 2 \/ near = {})
  <2>1. Classify(word) = plate(few)
    BY <1>1, <1>12
  <2>2. choice(few) \in few /\ choice(few) \in near
    BY <1>2, <1>4, <1>5, <1>12
  <2>3. Adjusted(word, choice(few)) \in Nearest(word) /\ plate(few) # NoPlate
    BY <1>6, <1>12, <2>2
  <2> QED  BY <2>1, <2>2, <2>3 DEF near
<1> QED  BY <1>9, <1>10, <1>11, <1>12

\* A plate that is answered is what a gatekeeper may type.
LEMMA TypedAsItIs ==
  ASSUME NEW word, NEW f \in DOMAIN Pattern, Fits(word, f)
  PROVE  TypedPlate(word) = word
<1>1. Len(word) = Size /\ Size = 7
  BY FitsIs DEF Size
<1>2. f = "mercosul" \/ f = "antiga"
  BY FormatsAre
<1>3. ~ (Len(word) = Size + 1)
  BY <1>1
<1> QED  BY <1>2, <1>3 DEF TypedPlate

\* The pieces of a text, in the order they are tried.
LEMMA Normalised ==
  ASSUME NEW X, NEW text \in Seq(X)
  PROVE  /\ Normalise(text) # NoPlate => \E piece \in Pieces(text) : Normalise(text) = Classify(piece)
         /\ Normalise(text) = NoPlate => \A piece \in Pieces(text) : Classify(piece) = NoPlate
<1> DEFINE words == [k \in DOMAIN text |-> Clean(text[k])]
           whole == <<Clean(FlattenSeq(text))>>
           pieces == whole \o words
           legible == {k \in DOMAIN pieces : Classify(pieces[k]) # NoPlate}
<1>1. Normalise(text) = IF legible = {} THEN NoPlate ELSE Classify(pieces[Min(legible)])
  BY DEF Normalise
<1>2. words \in Seq(Pieces(text)) /\ whole \in Seq(Pieces(text)) /\ Len(words) = Len(text) /\ Len(whole) = 1
  <2>1. DOMAIN text = 1 .. Len(text) /\ Len(text) \in Nat
    OBVIOUS
  <2>2. \A k \in 1 .. Len(text) : Clean(text[k]) \in Pieces(text)
    BY <2>1 DEF Pieces
  <2>3. Clean(FlattenSeq(text)) \in Pieces(text)
    BY DEF Pieces
  <2> HIDE DEF Pieces
  <2> QED  BY <2>1, <2>2, <2>3
<1>3. whole[1] = Clean(FlattenSeq(text)) /\ \A k \in DOMAIN text : words[k] = Clean(text[k])
  OBVIOUS
<1>4. DOMAIN text = 1 .. Len(text) /\ Len(text) \in Nat
  OBVIOUS
<1> HIDE DEF words, whole
<1>5. pieces \in Seq(Pieces(text)) /\ Len(pieces) = 1 + Len(text) /\ DOMAIN pieces = 1 .. 1 + Len(text)
  <2>1. pieces \in Seq(Pieces(text)) /\ Len(pieces) = Len(whole) + Len(words)
    BY <1>2, ConcatProperties
  <2> HIDE DEF pieces
  <2> QED  BY <1>2, <1>4, <2>1
<1>6. pieces[1] = whole[1] /\ \A k \in 1 .. Len(text) : pieces[k + 1] = words[k]
  <2>1. \A i \in 1 .. Len(whole) + Len(words) :
           pieces[i] = IF i <= Len(whole) THEN whole[i] ELSE words[i - Len(whole)]
    BY <1>2, ConcatProperties
  <2> HIDE DEF pieces
  <2>2. 1 \in 1 .. Len(whole) + Len(words) /\ 1 <= Len(whole)
    BY <1>2, <1>4
  <2>3. ASSUME NEW k \in 1 .. Len(text) PROVE pieces[k + 1] = words[k]
    <3>1. k + 1 \in 1 .. Len(whole) + Len(words) /\ ~ (k + 1 <= Len(whole)) /\ k + 1 - Len(whole) = k
      BY <1>2, <1>4
    <3> QED  BY <2>1, <3>1
  <2> QED  BY <2>1, <2>2, <2>3
<1> HIDE DEF pieces
<1>7. \A piece \in Pieces(text) : \E k \in DOMAIN pieces : pieces[k] = piece
  <2>1. SUFFICES ASSUME NEW piece \in Pieces(text) PROVE \E k \in DOMAIN pieces : pieces[k] = piece
    OBVIOUS
  <2>2. CASE piece = Clean(FlattenSeq(text))
    <3>1. 1 \in DOMAIN pieces /\ pieces[1] = piece
      BY <1>3, <1>4, <1>5, <1>6, <2>2
    <3> QED  BY <3>1
  <2>3. ASSUME NEW k \in DOMAIN text, piece = Clean(text[k])
        PROVE  \E m \in DOMAIN pieces : pieces[m] = piece
    <3>1. k \in 1 .. Len(text) /\ k + 1 \in DOMAIN pieces
      BY <1>4, <1>5
    <3>2. pieces[k + 1] = piece
      BY <1>3, <1>6, <2>3, <3>1
    <3> QED  BY <3>1, <3>2
  <2> QED  BY <2>2, <2>3 DEF Pieces
<1>8. legible # {} => Min(legible) \in legible
  <2>1. legible \in SUBSET Nat
    BY <1>4, <1>5
  <2> HIDE DEF legible
  <2> QED  BY <2>1, LeastNumber
<1>9. legible # {} => /\ Normalise(text) # NoPlate
                      /\ \E piece \in Pieces(text) : Normalise(text) = Classify(piece)
  <2>1. SUFFICES ASSUME legible # {}
                 PROVE  /\ Normalise(text) # NoPlate
                        /\ \E piece \in Pieces(text) : Normalise(text) = Classify(piece)
    OBVIOUS
  <2> DEFINE k == Min(legible)
  <2>2. k \in DOMAIN pieces /\ Classify(pieces[k]) # NoPlate
    BY <1>8, <2>1
  <2>3. Normalise(text) = Classify(pieces[k])
    BY <1>1, <2>1
  <2> HIDE DEF k
  <2>4. pieces[k] \in Pieces(text)
    BY <1>5, <2>2
  <2> QED  BY <2>2, <2>3, <2>4
<1>10. legible = {} => Normalise(text) = NoPlate /\ \A piece \in Pieces(text) : Classify(piece) = NoPlate
  <2>1. legible = {} => \A k \in DOMAIN pieces : Classify(pieces[k]) = NoPlate
    OBVIOUS
  <2>2. legible = {} => Normalise(text) = NoPlate
    BY <1>1
  <2> HIDE DEF legible
  <2> QED  BY <1>7, <2>1, <2>2
<1> QED  BY <1>9, <1>10

\* What normalisation makes of a text that was read.
LEMMA Meaning ==
  ASSUME NEW X, NEW text \in Seq(X)
  PROVE  /\ Normalise(text) # NoPlate =>
              /\ \E piece \in Pieces(text) : Normalise(text).value \in Nearest(piece)
              /\ Normalise(text).format \in DOMAIN Pattern
              /\ Fits(Normalise(text).value, Normalise(text).format)
              /\ TypedPlate(Normalise(text).value) = Normalise(text).value
         /\ Normalise(text) = NoPlate => \A piece \in Pieces(text) : ~Legible(piece)
<1>1. ASSUME Normalise(text) # NoPlate
      PROVE  /\ \E piece \in Pieces(text) : Normalise(text).value \in Nearest(piece)
             /\ Normalise(text).format \in DOMAIN Pattern
             /\ Fits(Normalise(text).value, Normalise(text).format)
             /\ TypedPlate(Normalise(text).value) = Normalise(text).value
  <2>1. PICK piece \in Pieces(text) : Normalise(text) = Classify(piece)
    BY <1>1, Normalised
  <2>2. PICK f \in Near(piece) : /\ Classify(piece) = [value |-> Adjusted(piece, f), format |-> f]
                                 /\ Adjusted(piece, f) \in Nearest(piece)
    BY <1>1, <2>1, Classified
  <2>3. Normalise(text).value = Adjusted(piece, f) /\ Normalise(text).format = f
    BY <2>1, <2>2
  <2>4. f \in DOMAIN Pattern /\ Fits(Adjusted(piece, f), f)
    BY AdjustedFits DEF Near
  <2>5. TypedPlate(Adjusted(piece, f)) = Adjusted(piece, f)
    BY <2>4, TypedAsItIs
  <2> QED  BY <2>2, <2>3, <2>4, <2>5
<1>2. ASSUME Normalise(text) = NoPlate PROVE \A piece \in Pieces(text) : ~Legible(piece)
  BY <1>2, Normalised, Classified
<1> QED  BY <1>1, <1>2

-----------------------------------------------------------------------------
(* Recognition: what is answered stands for what was read.                 *)

Texts == Seq(Seq(Alphanumeric \cup {"-"}))

\* AnswersStand, of an answer and the texts that were read for it.
Stands(answer, texts) ==
    /\ answer.plate # NoPlate =>
          /\ \E piece \in Pieces(answer.raw) : answer.plate.value \in Nearest(piece)
          /\ Fits(answer.plate.value, answer.plate.format)
          /\ TypedPlate(answer.plate.value) = answer.plate.value
    /\ answer.status \in {"422", "no_plate"} =>
          \A text \in texts : \A piece \in Pieces(text) : ~Legible(piece)

\* Until the answer, the candidates are the texts read that are plates.
ReadingInv ==
    /\ heard \subseteq Texts
    /\ stage = "idle" => heard = {}
    /\ stage # "done" => candidates = Readable(heard)
    /\ stage = "done" => Stands(reply, heard)

LEMMA RefusalStands ==
  ASSUME NEW status, NEW texts \in SUBSET Texts, status \in {"422", "no_plate"} => Readable(texts) = {}
  PROVE  Stands(Refusal(status), texts)
<1>1. Refusal(status).plate = NoPlate /\ Refusal(status).status = status
  BY DEF Refusal
<1>2. ASSUME status \in {"422", "no_plate"}, NEW text \in texts
      PROVE  \A piece \in Pieces(text) : ~Legible(piece)
  <2>1. Normalise(text) = NoPlate
    BY <1>2 DEF Readable
  <2>2. text \in Seq(Seq(Alphanumeric \cup {"-"}))
    BY DEF Texts
  <2> QED  BY <2>1, <2>2, Meaning
<1> QED  BY <1>1, <1>2 DEF Stands

LEMMA PlateStands ==
  ASSUME NEW status, status \notin {"422", "no_plate"}, NEW texts, NEW text \in Texts, Normalise(text) # NoPlate
  PROVE  Stands([status |-> status, plate |-> Normalise(text), raw |-> text], texts)
<1> DEFINE answer == [status |-> status, plate |-> Normalise(text), raw |-> text]
<1>1. answer.status = status /\ answer.plate = Normalise(text) /\ answer.raw = text
  OBVIOUS
<1>2. text \in Seq(Seq(Alphanumeric \cup {"-"}))
  BY DEF Texts
<1> HIDE DEF answer
<1>3. Stands(answer, texts)
  BY <1>1, <1>2, Meaning DEF Stands
<1> QED  BY <1>3 DEF answer

\* What a second reading adds to the texts are texts.
LEMMA RowsAreTexts ==
  ASSUME NEW rows \in SeqOf(ReadTexts, 2)
  PROVE  Range(rows) \subseteq Texts /\ Rows(rows) \subseteq Texts
<1>1. PICK m \in 0 .. 2 : rows \in [1 .. m -> ReadTexts]
  BY DEF SeqOf
<1>2. Range(rows) \subseteq ReadTexts
  BY <1>1 DEF Range
<1>3. \A t \in ReadTexts : t \in Texts /\ t # <<>>
  BY RecognitionAssumption DEF Texts
<1>4. CASE Len(rows) # 2
  BY <1>2, <1>3, <1>4 DEF Rows
<1>5. CASE Len(rows) = 2
  <2> DEFINE first == rows[1]  second == rows[2]
             W == Seq(Alphanumeric \cup {"-"})
  <2>1. m = 2
    <3>1. rows \in Seq(ReadTexts) /\ Len(rows) = m
      BY <1>1
    <3> QED  BY <1>5, <3>1
  <2>2. first \in Seq(W) /\ first # <<>> /\ second \in Seq(W) /\ second # <<>>
    BY <1>1, <1>3, <2>1 DEF Texts
  <2> HIDE DEF first, second
  <2>3. Len(first) \in Nat /\ Len(first) >= 1
    BY <2>2
  <2>4. Last(first) \in W
    BY <2>2, <2>3 DEF Last
  <2>5. Front(first) \in Seq(W)
    BY <2>2, <2>3 DEF Front
  <2>6. Head(second) \in W /\ Tail(second) \in Seq(W)
    BY <2>2
  <2>7. Last(first) \o Head(second) \in W
    BY <2>4, <2>6, ConcatProperties
  <2> HIDE DEF W
  <2>8. <<Last(first) \o Head(second)>> \in Seq(W)
    BY <2>7
  <2>9. Front(first) \o <<Last(first) \o Head(second)>> \in Seq(W)
    BY <2>5, <2>8, ConcatProperties
  <2>10. Front(first) \o <<Last(first) \o Head(second)>> \o Tail(second) \in Seq(W)
    BY <2>6, <2>9, ConcatProperties
  <2>11. Seq(W) = Texts
    BY DEF W, Texts
  <2>12. Rows(rows) = Range(rows) \cup {Front(first) \o <<Last(first) \o Head(second)>> \o Tail(second)}
    BY <1>5 DEF Rows, first, second
  <2> QED  BY <1>2, <1>3, <2>10, <2>11, <2>12
<1> QED  BY <1>2, <1>3, <1>4, <1>5

LEMMA FewRowsAreTexts ==
  ASSUME NEW n \in 0 .. 2, NEW rows \in SeqOf(ReadTexts, n)
  PROVE  Range(rows) \subseteq Texts
<1>1. PICK m \in 0 .. n : rows \in [1 .. m -> ReadTexts]
  BY DEF SeqOf
<1>2. m \in 0 .. 2
  OBVIOUS
<1>3. rows \in SeqOf(ReadTexts, 2)
  BY <1>1, <1>2 DEF SeqOf
<1> QED  BY <1>3, RowsAreTexts

\* Hearing keeps the candidates what they are.
LEMMA Heard ==
  ASSUME NEW texts \in SUBSET Texts, Hear(texts), heard \subseteq Texts, candidates = Readable(heard)
  PROVE  heard' \subseteq Texts /\ candidates' = Readable(heard')
BY DEF Hear, Readable

LEMMA ReadingInit == RecognitionInit => ReadingInv
BY DEF RecognitionInit, ReadingInv, Readable

LEMMA ReadingStep == ReadingInv /\ [RecognitionNext]_recognitionVars => ReadingInv'
<1> SUFFICES ASSUME ReadingInv, [RecognitionNext]_recognitionVars
             PROVE  ReadingInv'
  OBVIOUS
<1>1. heard \in SUBSET Texts
  BY DEF ReadingInv
<1>2. ASSUME NEW status, status \notin {"422", "no_plate"}, Done(Refusal(status)), UNCHANGED heard
      PROVE  ReadingInv'
  <2>1. Stands(Refusal(status), heard)
    BY <1>1, <1>2, RefusalStands
  <2> QED  BY <1>1, <1>2, <2>1 DEF ReadingInv, Done
<1>3. ASSUME stage \notin {"idle", "done"}, stage' \notin {"idle", "done"}, UNCHANGED <<heard, candidates>>
      PROVE  ReadingInv'
  BY <1>3 DEF ReadingInv
<1>4. CASE SendPhoto
  <2>1. ASSUME stage' = "detect", UNCHANGED reply
        PROVE  ReadingInv'
    BY <1>4, <2>1 DEF ReadingInv, SendPhoto
  <2>2. CASE stage' = "detect" /\ UNCHANGED reply
    BY <2>1, <2>2
  <2>3. CASE Done(Refusal("400"))
    BY <1>2, <1>4, <2>3 DEF SendPhoto
  <2>4. CASE Done(Refusal("502"))
    BY <1>2, <1>4, <2>4 DEF SendPhoto
  <2> QED  BY <1>4, <2>2, <2>3, <2>4 DEF SendPhoto
<1>5. CASE Detect
  BY <1>3, <1>5 DEF Detect
<1>6. CASE ReadCrop
  <2>1. PICK direct \in SeqOf(ReadTexts, 1) :
          \E rows \in IF options.rereadCrop /\ Readable(Range(direct)) = {} THEN SeqOf(ReadTexts, 2)
                      ELSE {<<>>} :
             Hear(Range(direct) \cup Rows(rows))
    BY <1>6 DEF ReadCrop
  <2>2. PICK rows \in IF options.rereadCrop /\ Readable(Range(direct)) = {} THEN SeqOf(ReadTexts, 2)
                      ELSE {<<>>} :
             Hear(Range(direct) \cup Rows(rows))
    BY <2>1
  <2>3. Range(direct) \subseteq Texts
    BY FewRowsAreTexts
  <2>4. <<>> \in SeqOf(ReadTexts, 2)
    BY DEF SeqOf
  <2>5. Rows(rows) \subseteq Texts
    BY <2>4, RowsAreTexts
  <2>6. stage = "crops" /\ UNCHANGED <<stage, reply>>
    BY <1>6 DEF ReadCrop
  <2>7. heard' \subseteq Texts /\ candidates' = Readable(heard')
    BY <1>1, <2>2, <2>3, <2>5, <2>6, Heard DEF ReadingInv
  <2> QED  BY <2>6, <2>7 DEF ReadingInv
<1>7. CASE CropsRead
  BY <1>3, <1>7 DEF CropsRead
<1>8. CASE ReadFrame
  <2>1. PICK texts \in IF options.wholeFrame THEN SeqOf(ReadTexts, 2) ELSE {<<>>} : Hear(Range(texts))
    BY <1>8 DEF ReadFrame
  <2>2. <<>> \in SeqOf(ReadTexts, 2)
    BY DEF SeqOf
  <2>3. Range(texts) \subseteq Texts
    BY <2>2, RowsAreTexts
  <2>4. stage = "frame" /\ stage' = "best"
    BY <1>8 DEF ReadFrame
  <2>5. heard' \subseteq Texts /\ candidates' = Readable(heard')
    BY <1>1, <2>1, <2>3, <2>4, Heard DEF ReadingInv
  <2> QED  BY <2>4, <2>5 DEF ReadingInv
<1>9. CASE Answer
  <2>1. stage = "best" /\ candidates = Readable(heard) /\ UNCHANGED <<heard, candidates>>
    BY <1>9 DEF Answer, ReadingInv
  <2>2. CASE candidates = {} /\ Done(Refusal("422"))
    <3>1. Stands(Refusal("422"), heard)
      BY <1>1, <2>1, <2>2, RefusalStands
    <3> QED  BY <1>1, <2>1, <2>2, <3>1 DEF ReadingInv, Done
  <2>3. ASSUME NEW best \in candidates,
               Done(IF ApiAccepts(Normalise(best).value)
                    THEN [status |-> "200", plate |-> Normalise(best), raw |-> best] ELSE Refusal("502"))
        PROVE  ReadingInv'
    <3>1. CASE Done(Refusal("502"))
      BY <1>2, <2>1, <3>1
    <3>2. CASE Done([status |-> "200", plate |-> Normalise(best), raw |-> best])
      <4>1. best \in Texts /\ Normalise(best) # NoPlate
        BY <1>1, <2>1 DEF Readable
      <4>2. Stands([status |-> "200", plate |-> Normalise(best), raw |-> best], heard)
        BY <4>1, PlateStands
      <4> QED  BY <1>1, <2>1, <3>2, <4>2 DEF ReadingInv, Done
    <3> QED  BY <2>3, <3>1, <3>2
  <2> QED  BY <1>9, <2>2, <2>3 DEF Answer
<1>10. CASE GiveUp
  BY <1>2, <1>10 DEF GiveUp
<1>11. CASE AskProvider
  <2>1. heard = {} /\ stage = "idle" /\ Readable(heard) = {}
    BY <1>11 DEF AskProvider, ReadingInv, Readable
  <2>2. ASSUME NEW error \in ProviderErrors, Done(Refusal(error)) /\ UNCHANGED heard
        PROVE  ReadingInv'
    BY <1>2, <2>2 DEF ProviderErrors
  <2>3. CASE Done(Refusal("no_plate")) /\ UNCHANGED heard
    <3>1. Stands(Refusal("no_plate"), heard)
      BY <1>1, <2>1, RefusalStands
    <3> QED  BY <1>1, <2>3, <3>1 DEF ReadingInv, Done
  <2>4. ASSUME NEW text \in VisionTexts, Done(ExtractPlate(text)) /\ heard' = {text}
        PROVE  ReadingInv'
    <3>1. text \in Texts /\ {text} \in SUBSET Texts
      BY RecognitionAssumption DEF Texts
    <3>2. Stands(ExtractPlate(text), {text})
      <4>1. CASE Normalise(text) = NoPlate
        <5>1. Readable({text}) = {}
          BY <4>1 DEF Readable
        <5>2. Stands(Refusal("no_plate"), {text})
          BY <3>1, <5>1, RefusalStands
        <5> QED  BY <4>1, <5>2 DEF ExtractPlate
      <4>2. CASE Normalise(text) # NoPlate
        <5> DEFINE confidence == IF IsToken(Normalise(text).value, text) THEN "95" ELSE "80"
        <5>1. confidence \notin {"422", "no_plate"}
          OBVIOUS
        <5>2. ExtractPlate(text) = [status |-> confidence, plate |-> Normalise(text), raw |-> text]
          BY <4>2 DEF ExtractPlate
        <5> HIDE DEF confidence
        <5> QED  BY <3>1, <4>2, <5>1, <5>2, PlateStands
      <4> QED  BY <4>1, <4>2
    <3> QED  BY <2>4, <3>1, <3>2 DEF ReadingInv, Done
  <2> QED  BY <1>11, <2>2, <2>3, <2>4 DEF AskProvider
<1>12. CASE UNCHANGED recognitionVars
  BY <1>12 DEF ReadingInv, recognitionVars
<1> QED
  BY <1>4, <1>5, <1>6, <1>7, <1>8, <1>9, <1>10, <1>11, <1>12 DEF RecognitionNext

\* A plate that is answered is one nearest to a piece of a text that was read,
\* and a form a gatekeeper may type; "no plate" is answered only when no piece
\* of any text read was legible (plate.py:93, plate.ts:115, recognizer.py:97,
\* google-vision.provider.ts:47): whatever readers and provider return.
THEOREM NoPlateIsMadeUp == RecognitionSpec => []AnswersStand
<1>1. ReadingInv => AnswersStand
  BY DEF ReadingInv, AnswersStand, Stands
<1> QED  BY <1>1, ReadingInit, ReadingStep, PTL DEF RecognitionSpec
=============================================================================
