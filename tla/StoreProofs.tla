---------------------------- MODULE StoreProofs ----------------------------
(***************************************************************************)
(* What holds around the local store: a sync's watermark is not ahead of   *)
(* its rows, what was looked up stays stored, and behind the tenant gate   *)
(* everybody is served one's own, and nothing old is lost.  A file that    *)
(* processes of any number of releases open, in any order and with any     *)
(* failure, has a stamp that tells the truth, and no migration loses       *)
(* anything.  A sync that exits with zero has earned it: no resource took  *)
(* a failed or a lost answer for a success, whatever shapes the replies    *)
(* have.  Last, what holds of all these machines side by side (MCStore).   *)
(***************************************************************************)
EXTENDS MCStore, FiniteSetTheorems, TLAPS

-----------------------------------------------------------------------------
(* SyncRun                                                                 *)

Jobs ==
    [step : {"queued"} \cup Busies \cup Results, at : Nat, answered : Nat, reply : Replies,
     dropped : BOOLEAN]

\* A resource's rows y are of its last answer that was stored, and no request of
\* a later job x is older than they are.
Fits(x, y) ==
    /\ y.watermark <= y.asOf /\ y.asOf <= instant
    /\ x.step \in Busies => x.at <= instant /\ y.watermark <= x.at
    /\ x.step \in {"requested", "answered", "unstored"} => y.asOf <= x.at
    /\ x.step = "answered" => x.at <= x.answered /\ x.answered <= instant
    /\ x.step = "stored" => x.at <= y.asOf
JobOK(r) == Fits(job[r], state[r])

SyncInv ==
    /\ instant \in Nat
    /\ state \in [Resource -> [watermark : Nat, asOf : Nat]]
    /\ job \in [Resource -> Jobs]
    /\ \A r \in Resource : JobOK(r)

LEMMA ReplyTyped ==
    /\ \A answer \in Answer, param \in BOOLEAN : ReplyTo(answer, param) \in Replies
    /\ NoReply \in Replies /\ [NoReply EXCEPT !.kind = "error"] \in Replies
    /\ NewJob \in Jobs
    /\ \A b \in BOOLEAN, result \in Results :
         [NewJob EXCEPT !.step = result, !.dropped = b] \in Jobs
<1>1. \A answer \in Answer, param \in BOOLEAN : ReplyTo(answer, param) \in Replies
  BY DEF ReplyTo, Replies, KindOf
<1>2. NoReply \in Replies /\ [NoReply EXCEPT !.kind = "error"] \in Replies
  BY DEF NoReply, Replies
<1>3. NewJob \in Jobs
  BY <1>2 DEF NewJob, Jobs, Never
<1>4. \A b \in BOOLEAN, result \in Results :
         [NewJob EXCEPT !.step = result, !.dropped = b] \in Jobs
  BY <1>3 DEF Jobs
<1> QED BY <1>1, <1>2, <1>3, <1>4

LEMMA SyncInitSound == SyncInit => SyncInv
<1> SUFFICES ASSUME SyncInit PROVE SyncInv
  OBVIOUS
<1>1. /\ instant \in Nat /\ state \in [Resource -> [watermark : Nat, asOf : Nat]]
      /\ job \in [Resource -> Jobs]
  BY ReplyTyped DEF SyncInit, Never
<1>2. \A r \in Resource : JobOK(r)
  BY DEF SyncInit, JobOK, Fits, NewJob, Never, Busies
<1> QED BY <1>1, <1>2 DEF SyncInv

\* A job's step: all others stay as they are.
LEMMA OneJob ==
    ASSUME SyncInv, NEW r \in Resource, NEW x \in Jobs, NEW y \in [watermark : Nat, asOf : Nat],
           job' = [job EXCEPT ![r] = x], state' = [state EXCEPT ![r] = y], instant' = instant,
           Fits(x, y)
    PROVE  SyncInv'
<1>1. /\ instant' \in Nat /\ state' \in [Resource -> [watermark : Nat, asOf : Nat]]
      /\ job' \in [Resource -> Jobs]
  BY DEF SyncInv
<1>2. ASSUME NEW q \in Resource PROVE JobOK(q)'
  <2>1. CASE q = r
    <3>1. job'[q] = x /\ state'[q] = y
      BY <2>1 DEF SyncInv
    <3> QED BY <3>1 DEF JobOK, Fits
  <2>2. CASE q # r
    <3>1. job'[q] = job[q] /\ state'[q] = state[q] /\ JobOK(q)
      BY <2>2 DEF SyncInv
    <3> QED BY <3>1 DEF JobOK, Fits
  <2> QED BY <2>1, <2>2
<1> QED BY <1>1, <1>2 DEF SyncInv

LEMMA FinishSound ==
    ASSUME SyncInv, NEW r \in Resource, NEW result \in Results, Finish(r, result),
           NEW y \in [watermark : Nat, asOf : Nat], state' = [state EXCEPT ![r] = y],
           y.watermark <= y.asOf, y.asOf <= instant
    PROVE  SyncInv'
<1> DEFINE x == [NewJob EXCEPT !.step = result, !.dropped = job[r].reply.drops]
<1>1. job[r].reply.drops \in BOOLEAN
  BY DEF SyncInv, Jobs, Replies
<1>2. x \in Jobs
  BY <1>1, ReplyTyped
<1>3. job' = [job EXCEPT ![r] = x] /\ instant' = instant
  BY DEF Finish
<1>4. x.step = result
  BY DEF NewJob
<1>5. x.step \notin Busies /\ x.step \notin {"requested", "answered", "unstored", "stored"}
  BY <1>4 DEF Results, Busies
<1> HIDE DEF x
<1>6. Fits(x, y)
  BY <1>5 DEF Fits
<1> QED BY <1>2, <1>3, <1>6, OneJob

LEMMA WorkSound ==
    ASSUME SyncInv, NEW r \in Resource, Work(r)
    PROVE  SyncInv'
<1>0. /\ instant \in Nat /\ job[r] \in Jobs /\ state[r] \in [watermark : Nat, asOf : Nat]
      /\ state = [state EXCEPT ![r] = state[r]] /\ JobOK(r)
      /\ state[r].watermark <= state[r].asOf /\ state[r].asOf <= instant
      /\ job \in [Resource -> Jobs] /\ state \in [Resource -> [watermark : Nat, asOf : Nat]]
  BY DEF SyncInv, JobOK, Fits
<1>1. CASE TakeJob(r)
  <2> DEFINE x == IF r \in Unknown THEN [NewJob EXCEPT !.step = "errored"]
                  ELSE [NewJob EXCEPT !.step = "requested", !.at = instant]
  <2>1. x \in Jobs
    BY <1>0, ReplyTyped DEF Jobs, Busies, Results
  <2>2. job' = [job EXCEPT ![r] = x] /\ state' = [state EXCEPT ![r] = state[r]]
        /\ instant' = instant
    BY <1>0, <1>1 DEF TakeJob
  <2>3. x.step = "errored" \/ (x.step = "requested" /\ x.at = instant)
    BY DEF NewJob
  <2> HIDE DEF x
  <2>6. Fits(x, state[r])
    <3>1. CASE x.step = "errored"
      BY <1>0, <3>1 DEF Fits, Busies
    <3>2. CASE x.step = "requested" /\ x.at = instant
      BY <1>0, <3>2 DEF Fits, Busies
    <3> QED BY <2>3, <3>1, <3>2
  <2> QED BY <1>0, <2>1, <2>2, <2>6, OneJob
<1>2. CASE TakeReply(r)
  <2>0. CursorReplies \subseteq Replies /\ CursorlessReplies \subseteq Replies
    BY ReplyTyped DEF CursorReplies, CursorlessReplies
  <2>1. PICK reply \in Replies :
          job' = [job EXCEPT ![r].step = "answered", ![r].answered = instant, ![r].reply = reply]
    BY <1>2, <2>0, ReplyTyped DEF TakeReply
  <2> DEFINE x == [job[r] EXCEPT !.step = "answered", !.answered = instant, !.reply = reply]
  <2>2. x \in Jobs
    BY <1>0 DEF Jobs, Busies
  <2>3. job' = [job EXCEPT ![r] = x] /\ state' = [state EXCEPT ![r] = state[r]]
        /\ instant' = instant
    BY <1>0, <1>2, <2>1 DEF TakeReply
  <2>4. x.step = "answered" /\ x.at = job[r].at /\ x.answered = instant
    BY <1>0 DEF Jobs
  <2>5. /\ job[r].at <= instant /\ state[r].asOf <= job[r].at
        /\ state[r].watermark <= job[r].at
    BY <1>0, <1>2 DEF TakeReply, JobOK, Fits, Busies
  <2> HIDE DEF x
  <2>6. Fits(x, state[r])
    BY <1>0, <2>4, <2>5 DEF Fits
  <2> QED BY <1>0, <2>2, <2>3, <2>4, <2>5, <2>6, OneJob
<1>3. CASE Previewed(r) \/ RefuseReply(r)
  <2>1. PICK result \in Results : Finish(r, result)
    BY <1>3 DEF Previewed, RefuseReply, Refusal, Results
  <2>2. state' = [state EXCEPT ![r] = state[r]]
    BY <1>0, <1>3 DEF Previewed, RefuseReply
  <2> QED BY <1>0, <2>1, <2>2, FinishSound
<1>4. CASE StoreRows(r)
  <2>1. CASE Finish(r, "errored") /\ UNCHANGED state
    <3>1. "errored" \in Results /\ state' = [state EXCEPT ![r] = state[r]]
      BY <1>0, <2>1 DEF Results
    <3> QED BY <1>0, <2>1, <3>1, FinishSound
  <2>2. CASE /\ state' = Stored(r, job[r].reply, job[r].answered)
             /\ job' = [job EXCEPT ![r].step = "stored"]
             /\ UNCHANGED <<instant, command, runsLeft>>
    <3> DEFINE x == [job[r] EXCEPT !.step = "stored"]
               y == [state[r] EXCEPT !.asOf = job[r].answered]
    <3>1. x \in Jobs /\ y \in [watermark : Nat, asOf : Nat]
      BY <1>0 DEF Jobs, Busies
    <3>2. /\ job' = [job EXCEPT ![r] = x] /\ state' = [state EXCEPT ![r] = y]
          /\ instant' = instant
      BY <1>0, <2>2 DEF Stored
    <3>3. /\ x.step = "stored" /\ x.at = job[r].at
          /\ y.asOf = job[r].answered /\ y.watermark = state[r].watermark
      BY <1>0 DEF Jobs
    <3>4. /\ state[r].asOf <= job[r].at /\ job[r].at <= job[r].answered
          /\ job[r].answered <= instant /\ job[r].at <= instant
      BY <1>0, <1>4 DEF StoreRows, JobOK, Fits, Busies
    <3>5. job[r].at \in Nat /\ job[r].answered \in Nat
      BY <1>0 DEF Jobs
    <3> HIDE DEF x, y
    <3>6. Fits(x, y)
      BY <1>0, <3>3, <3>4, <3>5 DEF Fits
    <3> QED BY <3>1, <3>2, <3>6, OneJob
  <2> QED BY <1>4, <2>1, <2>2 DEF StoreRows
<1>5. CASE SkipText(r)
  <2> DEFINE x == [job[r] EXCEPT !.step = "unstored"]
  <2>1. x \in Jobs
    BY <1>0 DEF Jobs, Busies
  <2>2. job' = [job EXCEPT ![r] = x] /\ state' = [state EXCEPT ![r] = state[r]]
        /\ instant' = instant
    BY <1>0, <1>5 DEF SkipText
  <2>3. x.step = "unstored" /\ x.at = job[r].at
    BY <1>0 DEF Jobs
  <2>4. /\ job[r].at <= instant /\ state[r].asOf <= job[r].at
        /\ state[r].watermark <= job[r].at
    BY <1>0, <1>5 DEF SkipText, JobOK, Fits, Busies
  <2> HIDE DEF x
  <2>6. Fits(x, state[r])
    BY <1>0, <2>3, <2>4 DEF Fits
  <2> QED BY <1>0, <2>1, <2>2, <2>3, <2>4, <2>6, OneJob
<1>6. CASE SaveState(r)
  <2>1. PICK result \in Results : Finish(r, result)
    BY <1>6 DEF SaveState, Results
  <2>2. PICK y \in [watermark : Nat, asOf : Nat] :
          /\ state' = [state EXCEPT ![r] = y]
          /\ y = state[r] \/ (Complete(r) /\ y = [state[r] EXCEPT !.watermark = job[r].at])
    <3>1. CASE UNCHANGED state
      BY <1>0, <3>1
    <3>2. CASE /\ Complete(r)
               /\ state' = [state EXCEPT ![r].watermark = job[r].at]
      <4>1. job[r].at \in Nat
        BY <1>0 DEF Jobs
      <4> QED BY <1>0, <3>2, <4>1
    <3> QED BY <1>6, <3>1, <3>2 DEF SaveState, Watermark
  <2>3. y.watermark <= y.asOf /\ y.asOf <= instant
    BY <1>0, <2>2 DEF Complete, JobOK, Fits
  <2> QED BY <2>1, <2>2, <2>3, FinishSound
<1> QED BY <1>1, <1>2, <1>3, <1>4, <1>5, <1>6 DEF Work

LEMMA SyncStep == SyncInv /\ [SyncNext]_syncVars => SyncInv'
<1> SUFFICES ASSUME SyncInv, [SyncNext]_syncVars PROVE SyncInv'
  OBVIOUS
<1>1. ASSUME NEW f \in Flags, StartSync(f) PROVE SyncInv'
  <2>1. job' \in [Resource -> Jobs] /\ \A r \in Resource : job'[r].step = "queued"
    BY <1>1, ReplyTyped DEF StartSync, NewJob
  <2>2. /\ instant' = instant /\ state' \in [Resource -> [watermark : Nat, asOf : Nat]]
        /\ \A r \in Resource : /\ state'[r].asOf = state[r].asOf
                               /\ state'[r].watermark \in {0, state[r].watermark}
    BY <1>1 DEF StartSync, SyncInv, Never
  <2> QED BY <2>1, <2>2 DEF SyncInv, JobOK, Fits, Busies
<1>2. ASSUME NEW r \in Resource, Work(r) PROVE SyncInv'
  BY <1>2, WorkSound
<1>3. CASE EndSync \/ UNCHANGED syncVars
  BY <1>3 DEF EndSync, syncVars, SyncInv, JobOK, Fits
<1>4. CASE KillSync
  <2>1. job' \in [Resource -> Jobs] /\ \A r \in Resource : job'[r].step = "queued"
    BY <1>4, ReplyTyped DEF KillSync, NewJob
  <2>2. instant' = instant /\ state' = state
    BY <1>4 DEF KillSync
  <2> QED BY <2>1, <2>2 DEF SyncInv, JobOK, Fits, Busies
<1>5. CASE PassTime
  <2>1. instant' \in Nat /\ instant <= instant' /\ state' = state /\ job' = job
    BY <1>5 DEF PassTime, SyncInv
  <2>2. ASSUME NEW r \in Resource PROVE JobOK(r)'
    <3>1. /\ JobOK(r) /\ state[r].asOf \in Nat /\ job[r].at \in Nat /\ job[r].answered \in Nat
          /\ instant \in Nat
      BY DEF SyncInv, Jobs
    <3> QED BY <2>1, <3>1 DEF JobOK, Fits
  <2> QED BY <2>1, <2>2 DEF SyncInv
<1> QED BY <1>1, <1>2, <1>3, <1>4, <1>5 DEF SyncNext

(* The watermark is never later than the answer the rows come from, for    *)
(* any resources and workers, whatever fails, however long a batch takes,  *)
(* and whenever the command is killed and run again.                       *)
THEOREM WatermarkCorrect == SyncSpec => []WatermarkNotAhead
<1>1. SyncInv => WatermarkNotAhead
  BY DEF SyncInv, JobOK, Fits, WatermarkNotAhead
<1> QED BY <1>1, SyncInitSound, SyncStep, PTL DEF SyncSpec

\* Rows and watermarks go forward, but for a start that clears the watermarks.
NeverBack ==
    /\ \A r \in Resource : state[r].asOf <= state'[r].asOf
    /\ (\E r \in Resource : state'[r].watermark < state[r].watermark)
         => \E f \in Flags : StartSync(f) /\ Cleared(f)

LEMMA WorkForward ==
    ASSUME SyncInv, NEW r \in Resource, Work(r)
    PROVE  \A q \in Resource : /\ state[q].asOf <= state'[q].asOf
                               /\ state[q].watermark <= state'[q].watermark
<1>0. /\ state \in [Resource -> [watermark : Nat, asOf : Nat]] /\ job[r] \in Jobs
      /\ JobOK(r)
  BY DEF SyncInv
<1>1. CASE UNCHANGED state
  BY <1>0, <1>1
<1>2. CASE /\ StoreRows(r)
           /\ state' = [state EXCEPT ![r].asOf = job[r].answered]
  <2>1. state[r].asOf <= job[r].at /\ job[r].at <= job[r].answered
    BY <1>0, <1>2 DEF StoreRows, JobOK, Fits
  <2>2. /\ job[r].at \in Nat /\ job[r].answered \in Nat
        /\ state[r].asOf \in Nat
    BY <1>0 DEF Jobs
  <2>3. state[r].asOf <= job[r].answered
    BY <2>1, <2>2
  <2> QED BY <1>0, <1>2, <2>3
<1>3. CASE /\ SaveState(r)
           /\ state' = [state EXCEPT ![r].watermark = job[r].at]
  <2>1. state[r].watermark <= job[r].at
    BY <1>0, <1>3 DEF SaveState, JobOK, Fits, Busies
  <2> QED BY <1>0, <1>3, <2>1
<1> QED BY <1>1, <1>2, <1>3 DEF Work, TakeJob, TakeReply, Previewed, RefuseReply, StoreRows,
           SkipText, SaveState, Stored, Watermark

LEMMA SyncForward == SyncInv /\ [SyncNext]_syncVars => NeverBack \/ UNCHANGED syncVars
<1> SUFFICES ASSUME SyncInv, [SyncNext]_syncVars PROVE NeverBack \/ UNCHANGED syncVars
  OBVIOUS
<1>0. state \in [Resource -> [watermark : Nat, asOf : Nat]]
  BY DEF SyncInv
<1>1. ASSUME NEW f \in Flags, StartSync(f) PROVE NeverBack
  <2>1. CASE Cleared(f)
    <3>1. \A r \in Resource : state'[r].asOf = state[r].asOf
      BY <1>0, <1>1, <2>1 DEF StartSync
    <3> QED BY <1>0, <1>1, <2>1, <3>1 DEF NeverBack
  <2>2. CASE ~Cleared(f)
    BY <1>0, <1>1, <2>2 DEF StartSync, NeverBack
  <2> QED BY <2>1, <2>2
<1>2. ASSUME NEW r \in Resource, Work(r) PROVE NeverBack
  <2>1. \A q \in Resource : /\ state[q].asOf <= state'[q].asOf
                            /\ state[q].watermark <= state'[q].watermark
    BY <1>2, WorkForward
  <2>2. state' \in [Resource -> [watermark : Nat, asOf : Nat]]
    BY <1>2, WorkSound DEF SyncInv
  <2>3. ~ \E q \in Resource : state'[q].watermark < state[q].watermark
    BY <1>0, <2>1, <2>2
  <2> QED BY <2>1, <2>3 DEF NeverBack
<1>3. CASE EndSync \/ KillSync \/ PassTime
  BY <1>0, <1>3 DEF EndSync, KillSync, PassTime, NeverBack
<1> QED BY <1>1, <1>2, <1>3 DEF SyncNext

(* A sync never puts rows of an older answer over those of a newer one, and *)
(* lowers no watermark but by starting with --full or --latest-only: for    *)
(* any resources and workers, and whatever fails or is killed between the   *)
(* rows and the watermark.                                                  *)
THEOREM SyncGoesForward == SyncSpec => [][NeverBack]_syncVars
<1>1. SyncInv /\ [SyncNext]_syncVars => [NeverBack]_syncVars
  BY SyncForward
<1> QED BY <1>1, SyncInitSound, SyncStep, PTL DEF SyncSpec

\* What a resource's job and its row in the store hold.
TypedJobs ==
    [step : {"queued"} \cup Busies \cup Results, at : 0..LastInstant, answered : 0..LastInstant,
     reply : Replies, dropped : BOOLEAN]
States == [watermark : 0..LastInstant, asOf : 0..LastInstant]

SyncType ==
    /\ instant \in 1..LastInstant /\ runsLeft \in 0..Runs
    /\ state \in [Resource -> States] /\ job \in [Resource -> TypedJobs]
    /\ command \in [flags : Flags, step : {"none", "pool", "ended"},
                    exit : {"none", "ok", "failed", "killed"}]
    /\ Cardinality(Busy) <= Workers

LEMMA NewJobTyped ==
    /\ NewJob \in TypedJobs /\ NewJob.step = "queued"
    /\ \A step \in {"queued"} \cup Busies \cup Results, b \in BOOLEAN :
         [NewJob EXCEPT !.step = step, !.dropped = b] \in TypedJobs
    /\ \A step \in Busies \cup Results, at \in 0..LastInstant :
         /\ [NewJob EXCEPT !.step = step] \in TypedJobs
         /\ [NewJob EXCEPT !.step = step, !.at = at] \in TypedJobs
<1>1. NoReply \in Replies /\ 0 \in 0..LastInstant
  BY SyncAssumption DEF NoReply, Replies
<1> QED BY <1>1 DEF NewJob, TypedJobs, Never

LEMMA NoMore ==
    ASSUME NEW S, NEW T \in SUBSET S, IsFiniteSet(S)
    PROVE  Cardinality(T) \in Nat /\ Cardinality(S) \in Nat /\ Cardinality(T) <= Cardinality(S)
<1>1. IsFiniteSet(T) /\ Cardinality(T) <= Cardinality(S)
  BY FS_Subset
<1> QED BY <1>1, FS_CardinalityType

LEMMA OneMore ==
    ASSUME NEW S, NEW e, NEW T \in SUBSET (S \cup {e}), IsFiniteSet(S)
    PROVE  /\ Cardinality(T) \in Nat /\ Cardinality(S) \in Nat
           /\ Cardinality(T) <= Cardinality(S) + 1
<1>1. Cardinality(S) \in Nat
  BY FS_CardinalityType
<1>2. /\ IsFiniteSet(S \cup {e})
      /\ Cardinality(S \cup {e}) = IF e \in S THEN Cardinality(S) ELSE Cardinality(S) + 1
  BY FS_AddElement
<1>3. Cardinality(T) \in Nat /\ Cardinality(T) <= Cardinality(S \cup {e})
  BY <1>2, NoMore
<1> QED BY <1>1, <1>2, <1>3

\* No worker has a job before a command starts, or after it ends.
LEMMA NoneBusy ==
    ASSUME \A r \in Resource : job[r] = NewJob
    PROVE  Cardinality(Busy) <= Workers
<1>1. Busy = {}
  BY NewJobTyped DEF Busy, Busies
<1> QED BY <1>1, FS_EmptySet, SyncAssumption

LEMMA SyncTypeInit == SyncInit => SyncType
<1> SUFFICES ASSUME SyncInit PROVE SyncType
  OBVIOUS
<1>1. /\ instant \in 1..LastInstant /\ runsLeft \in 0..Runs
      /\ state \in [Resource -> States] /\ job \in [Resource -> TypedJobs]
  <2>1. /\ instant = 1 /\ runsLeft = Runs /\ job = [r \in Resource |-> NewJob]
        /\ state = [r \in Resource |-> [watermark |-> 0, asOf |-> 0]]
    BY DEF SyncInit, Never
  <2>2. [watermark |-> 0, asOf |-> 0] \in States /\ 1 \in 1..LastInstant /\ Runs \in 0..Runs
    BY SyncAssumption DEF States
  <2> QED BY <2>1, <2>2, NewJobTyped
<1>2. command \in [flags : Flags, step : {"none", "pool", "ended"},
                  exit : {"none", "ok", "failed", "killed"}]
  BY SyncAssumption DEF SyncInit
<1>3. Cardinality(Busy) <= Workers
  BY NoneBusy DEF SyncInit
<1> QED BY <1>1, <1>2, <1>3 DEF SyncType

\* A job's step: none becomes busy unless a worker is free.
LEMMA JobTyped ==
    ASSUME SyncType, NEW r \in Resource, NEW x \in TypedJobs, job' = [job EXCEPT ![r] = x],
           x.step \in Busies => job[r].step \in Busies \/ Cardinality(Busy) < Workers,
           state' \in [Resource -> States],
           instant' = instant, command' = command, runsLeft' = runsLeft
    PROVE  SyncType'
<1>1. job' \in [Resource -> TypedJobs] /\ job'[r] = x
      /\ \A q \in Resource \ {r} : job'[q] = job[q]
  BY DEF SyncType
<1>2. IsFiniteSet(Busy) /\ Cardinality(Busy) \in Nat
  BY SyncAssumption, FS_Subset, FS_CardinalityType DEF Busy
<1>3. Cardinality(Busy) <= Workers /\ Workers \in Nat
  BY SyncAssumption DEF SyncType
<1>4. Cardinality(Busy') <= Workers
  <2>1. CASE Busy' \subseteq Busy
    <3>1. Cardinality(Busy') \in Nat /\ Cardinality(Busy') <= Cardinality(Busy)
      BY <1>2, <2>1, NoMore
    <3> QED BY <1>2, <1>3, <3>1
  <2>2. CASE Cardinality(Busy) < Workers
    <3>1. Busy' \subseteq Busy \cup {r}
      BY <1>1 DEF Busy
    <3>2. Cardinality(Busy') \in Nat /\ Cardinality(Busy') <= Cardinality(Busy) + 1
      BY <1>2, <3>1, OneMore
    <3> QED BY <1>2, <1>3, <2>2, <3>2
  <2>3. x.step \notin Busies \/ job[r].step \in Busies => Busy' \subseteq Busy
    BY <1>1 DEF Busy
  <2> QED BY <2>1, <2>2, <2>3
<1> QED BY <1>1, <1>4 DEF SyncType

LEMMA FinishTyped ==
    ASSUME SyncType, NEW r \in Resource, NEW result \in Results, Finish(r, result),
           state' \in [Resource -> States]
    PROVE  SyncType'
<1> DEFINE x == [NewJob EXCEPT !.step = result, !.dropped = job[r].reply.drops]
<1>1. job[r].reply.drops \in BOOLEAN
  BY DEF SyncType, TypedJobs, Replies
<1>2. x \in TypedJobs
  BY <1>1, NewJobTyped
<1>3. x.step \notin Busies
  BY DEF NewJob, Results, Busies
<1>4. job' = [job EXCEPT ![r] = x] /\ UNCHANGED <<instant, command, runsLeft>>
  BY DEF Finish
<1> HIDE DEF x
<1> QED BY <1>2, <1>3, <1>4, JobTyped

LEMMA WorkTyped ==
    ASSUME SyncType, NEW r \in Resource, Work(r)
    PROVE  SyncType'
<1>0. /\ job \in [Resource -> TypedJobs] /\ job[r] \in TypedJobs
      /\ state \in [Resource -> States] /\ state[r] \in States
      /\ instant \in 0..LastInstant
  BY SyncAssumption DEF SyncType
<1>1. CASE TakeJob(r)
  <2> DEFINE x == IF r \in Unknown THEN [NewJob EXCEPT !.step = "errored"]
                  ELSE [NewJob EXCEPT !.step = "requested", !.at = instant]
  <2>1. "errored" \in Results /\ "requested" \in Busies
    BY DEF Results, Busies
  <2>2. x \in TypedJobs
    BY <1>0, <2>1, NewJobTyped
  <2>3. /\ job' = [job EXCEPT ![r] = x] /\ Cardinality(Busy) < Workers
        /\ UNCHANGED <<instant, state, command, runsLeft>>
    BY <1>1 DEF TakeJob
  <2> HIDE DEF x
  <2> QED BY <1>0, <2>2, <2>3, JobTyped
<1>2. CASE TakeReply(r)
  <2>1. CursorReplies \subseteq Replies /\ CursorlessReplies \subseteq Replies
    BY ReplyTyped DEF CursorReplies, CursorlessReplies
  <2>2. PICK reply \in Replies :
          job' = [job EXCEPT ![r].step = "answered", ![r].answered = instant, ![r].reply = reply]
    BY <1>2, <2>1, ReplyTyped DEF TakeReply
  <2> DEFINE x == [job[r] EXCEPT !.step = "answered", !.answered = instant, !.reply = reply]
  <2>3. x \in TypedJobs
    BY <1>0 DEF TypedJobs, Busies
  <2>4. /\ job' = [job EXCEPT ![r] = x] /\ job[r].step \in Busies
        /\ UNCHANGED <<instant, state, command, runsLeft>>
    BY <1>0, <1>2, <2>2 DEF TakeReply, Busies
  <2> HIDE DEF x
  <2> QED BY <1>0, <2>3, <2>4, JobTyped
<1>3. CASE Previewed(r) \/ RefuseReply(r)
  <2>1. PICK result \in Results : Finish(r, result)
    BY <1>3 DEF Previewed, RefuseReply, Refusal, Results
  <2>2. state' = state
    BY <1>3 DEF Previewed, RefuseReply
  <2> QED BY <1>0, <2>1, <2>2, FinishTyped
<1>4. CASE StoreRows(r) \/ SkipText(r)
  <2>1. state' \in [Resource -> States]
    <3>1. job[r].answered \in 0..LastInstant
      BY <1>0 DEF TypedJobs
    <3>2. [state[r] EXCEPT !.asOf = job[r].answered] \in States
      BY <1>0, <3>1 DEF States
    <3>3. state' \in {state, [state EXCEPT ![r] = [state[r] EXCEPT !.asOf = job[r].answered]]}
      BY <1>0, <1>4 DEF StoreRows, SkipText, Stored
    <3> QED BY <1>0, <3>2, <3>3
  <2>2. CASE Finish(r, "errored")
    BY <2>1, <2>2, FinishTyped DEF Results
  <2>3. ASSUME NEW step \in {"stored", "unstored"}, job' = [job EXCEPT ![r].step = step],
               UNCHANGED <<instant, command, runsLeft>>
        PROVE  SyncType'
    <3> DEFINE x == [job[r] EXCEPT !.step = step]
    <3>1. x \in TypedJobs
      BY <1>0 DEF TypedJobs, Busies
    <3>2. job' = [job EXCEPT ![r] = x] /\ job[r].step \in Busies
      BY <1>0, <1>4, <2>3 DEF StoreRows, SkipText, Busies
    <3> HIDE DEF x
    <3> QED BY <2>1, <2>3, <3>1, <3>2, JobTyped
  <2> QED BY <1>4, <2>2, <2>3 DEF StoreRows, SkipText
<1>5. CASE SaveState(r)
  <2>1. PICK result \in Results : Finish(r, result)
    BY <1>5 DEF SaveState, Results
  <2>2. state' \in [Resource -> States]
    <3>1. job[r].at \in 0..LastInstant
      BY <1>0 DEF TypedJobs
    <3>2. [state[r] EXCEPT !.watermark = job[r].at] \in States
      BY <1>0, <3>1 DEF States
    <3>3. state' \in {state, [state EXCEPT ![r] = [state[r] EXCEPT !.watermark = job[r].at]]}
      BY <1>0, <1>5 DEF SaveState, Watermark
    <3> QED BY <1>0, <3>2, <3>3
  <2> QED BY <2>1, <2>2, FinishTyped
<1> QED BY <1>1, <1>2, <1>3, <1>4, <1>5 DEF Work

LEMMA SyncTypeStep == SyncType /\ [SyncNext]_syncVars => SyncType'
<1> SUFFICES ASSUME SyncType, [SyncNext]_syncVars PROVE SyncType'
  OBVIOUS
<1>1. ASSUME NEW f \in Flags, StartSync(f) PROVE SyncType'
  <2>1. /\ job' \in [Resource -> TypedJobs] /\ \A r \in Resource : job'[r] = NewJob
        /\ command' \in [flags : Flags, step : {"none", "pool", "ended"},
                         exit : {"none", "ok", "failed", "killed"}]
        /\ instant' = instant
    BY <1>1, NewJobTyped DEF StartSync
  <2>2. Cardinality(Busy') <= Workers
    <3>1. Busy' = {}
      BY <2>1, NewJobTyped DEF Busy, Busies
    <3> QED BY <3>1, FS_EmptySet, SyncAssumption
  <2>3. runsLeft' \in 0..Runs
    BY <1>1, SyncAssumption DEF StartSync, SyncType
  <2>4. state' \in [Resource -> States]
    BY <1>1, SyncAssumption DEF StartSync, SyncType, States, Never
  <2> QED BY <2>1, <2>2, <2>3, <2>4 DEF SyncType
<1>2. ASSUME NEW r \in Resource, Work(r) PROVE SyncType'
  BY <1>2, WorkTyped
<1>3. CASE EndSync
  <2>1. ExitPolicy \in {"ok", "failed"}
    BY DEF ExitPolicy
  <2>2. command' \in [flags : Flags, step : {"none", "pool", "ended"},
                     exit : {"none", "ok", "failed", "killed"}]
    BY <1>3, <2>1 DEF EndSync, SyncType
  <2> QED BY <1>3, <2>2 DEF EndSync, SyncType, Busy
<1>4. CASE KillSync
  <2>1. /\ job' \in [Resource -> TypedJobs] /\ \A r \in Resource : job'[r] = NewJob
        /\ command' \in [flags : Flags, step : {"none", "pool", "ended"},
                         exit : {"none", "ok", "failed", "killed"}]
        /\ UNCHANGED <<instant, state, runsLeft>>
    BY <1>4, NewJobTyped DEF KillSync, SyncType
  <2>2. Cardinality(Busy') <= Workers
    <3>1. Busy' = {}
      BY <2>1, NewJobTyped DEF Busy, Busies
    <3> QED BY <3>1, FS_EmptySet, SyncAssumption
  <2> QED BY <2>1, <2>2 DEF SyncType
<1>5. CASE PassTime \/ UNCHANGED syncVars
  <2>1. instant' \in 1..LastInstant /\ UNCHANGED <<state, command, job, runsLeft>>
    BY <1>5, SyncAssumption DEF PassTime, syncVars, SyncType
  <2> QED BY <2>1 DEF SyncType, Busy
<1> QED BY <1>1, <1>2, <1>3, <1>4, <1>5 DEF SyncNext

LEMMA SyncTypeMeans == SyncType => SyncTypeOK
BY DEF SyncType, SyncTypeOK, TypedJobs, States

(* A sync keeps to its ranges, for any resources and flags: a watermark is *)
(* an instant that has been, a job holds a reply only of the kinds there   *)
(* are, and never are more jobs under way than there are workers.          *)
THEOREM SyncTypeCorrect == SyncSpec => []SyncTypeOK
<1> QED BY SyncTypeMeans, SyncTypeInit, SyncTypeStep, PTL DEF SyncSpec

-----------------------------------------------------------------------------
(* DataSource                                                              *)

Says == UNION {[s -> Int] : s \in SUBSET Record}
Reads ==
    [step : {"idle", "asked", "answered"}, scope : SUBSET Record,
     from : {"auto", "live", "local"}, says : Says,
     label : {"none", "live", "unstored", "local", "error"}, left : Int]

\* A read under way holds rows of its scope; those it has shown are kept.
Attends(x, shape, kept) ==
    /\ x.step # "idle" => x.scope \in Scope
    /\ x.step = "answered" => x.says \in [x.scope -> Nat]
    /\ x.step = "idle" /\ x.label = "live" /\ x.from = "auto"
         /\ Shows(shape[x.scope], x.scope)
       => \A r \in x.scope : kept[r] # NotStored

DataInv ==
    /\ form \in [Scope -> Envelope]
    /\ version \in Nat
    /\ body \in [Scope -> [body : Nat, age : Nat]]
    /\ stored \in [Record -> Int]
    /\ sync \in Nat \cup {Nothing}
    /\ read \in [Reader -> Reads]
    /\ \A p \in Reader : Attends(read[p], form, stored)

\* An answer that shows its records has all of them written through.
LEMMA ShownAreRows ==
    ASSUME NEW e \in Envelopes, NEW records, Shows(e, records)
    PROVE  RowsOf(e, records) = records
<1>1. CASE /\ e.id /\ e.nested \notin Lists
           /\ e.wrapper \notin {"objects", "scalars"}
  <2>1. ListField(e) = "none"
    BY <1>1 DEF ListField
  <2>2. ~EmptyPage(e)
    BY <1>1 DEF EmptyPage
  <2> QED BY <1>1, <2>1, <2>2 DEF RowsOf
<1>2. CASE ListField(e) # "none" /\ e[ListField(e)] = "objects"
  BY <1>2 DEF RowsOf
<1> QED BY <1>1, <1>2 DEF Shows

LEMMA NoReadTyped == [r \in {} |-> 0] \in Says /\ NoRead \in Reads
<1>1. [r \in {} |-> 0] \in Says
  <2>1. [r \in {} |-> 0] \in [{} -> Int] /\ {} \in SUBSET Record
    OBVIOUS
  <2> QED BY <2>1 DEF Says
<1>2. NoRead \in Reads
  BY <1>1, DataSourceAssumption DEF NoRead, Reads
<1> QED BY <1>1, <1>2

LEMMA DataInitSound == DataInit => DataInv
<1> SUFFICES ASSUME DataInit PROVE DataInv
  OBVIOUS
<1>2. NoRead \in Reads
  BY NoReadTyped
<1>3. \A p \in Reader : Attends(read[p], form, stored)
  BY DEF DataInit, Attends, NoRead
<1>4. body \in [Scope -> [body : Nat, age : Nat]]
  BY TTLAssumption DEF DataInit, Absent
<1> QED BY <1>2, <1>3, <1>4 DEF DataInit, DataInv, NotStored, Nothing

\* What one reader does leaves what the others have been shown in the store.
LEMMA OneRead ==
    ASSUME DataInv, NEW p \in Reader, NEW x \in Reads,
           read' = [read EXCEPT ![p] = x], UNCHANGED <<form, version, sync>>,
           body' \in [Scope -> [body : Nat, age : Nat]], stored' \in [Record -> Int],
           \A r \in Record : stored[r] # NotStored => stored'[r] # NotStored,
           Attends(x, form, stored')
    PROVE  DataInv'
<1>1. read' \in [Reader -> Reads]
  BY DEF DataInv
<1>2. ASSUME NEW q \in Reader PROVE Attends(read[q], form, stored)'
  <2>1. CASE q = p
    BY <2>1 DEF DataInv
  <2>2. CASE q # p
    <3>1. read'[q] = read[q] /\ Attends(read[q], form, stored) /\ read[q].scope \subseteq Record
          /\ form' = form
      BY <2>2 DEF DataInv, Reads
    <3> QED BY <3>1 DEF Attends
  <2> QED BY <2>1, <2>2
<1> QED BY <1>1, <1>2 DEF DataInv

LEMMA ReadSound ==
    ASSUME DataInv, NEW p \in Reader,
           \/ \E s \in Scope :
                ReadLocal(p, s) \/ StartRead(p, s, "auto") \/ StartRead(p, s, "live")
           \/ Answered(p) \/ RefusedRead(p) \/ Unreachable(p)
           \/ WriteThrough(p) \/ WriteThroughFails(p) \/ AnswerLive(p)
    PROVE  DataInv'
<1>0. /\ read[p] \in Reads /\ Attends(read[p], form, stored) /\ Scope \subseteq SUBSET Record
      /\ version \in Nat /\ body \in [Scope -> [body : Nat, age : Nat]]
      /\ stored \in [Record -> Int] /\ read \in [Reader -> Reads]
  BY DataSourceAssumption DEF DataInv
<1>1. \A z \in SUBSET Record : [z -> Int] \subseteq Says
  BY DEF Says
<1>2. [r \in {} |-> 0] \in Says /\ NoRead \in Reads
  BY NoReadTyped
<1>3. \A z \in SUBSET Record : Local(z) \in Says
  <2>1. ASSUME NEW z \in SUBSET Record PROVE Local(z) \in Says
    <3> DEFINE known == {r \in z : stored[r] # NotStored}
    <3>1. known \in SUBSET Record /\ [r \in known |-> stored[r]] \in [known -> Int]
      BY <1>0
    <3>2. Local(z) = [r \in known |-> stored[r]]
      BY DEF Local
    <3> HIDE DEF known
    <3> QED BY <1>1, <3>1, <3>2
  <2> QED BY <2>1
<1>4. ASSUME NEW s \in Scope, ReadLocal(p, s) PROVE DataInv'
  <2> DEFINE label == IF DOMAIN Local(s) = {} THEN "error" ELSE "local"
             left == read[p].left - 1
             x == [NoRead EXCEPT !.left = left, !.scope = s, !.from = "local", !.label = label,
                                 !.says = Local(s)]
  <2>1. label \in {"error", "local"} /\ left \in Int /\ Local(s) \in Says
    BY <1>0, <1>3 DEF Reads
  <2>2. read' = [read EXCEPT ![p] = x] /\ UNCHANGED <<form, version, body, stored, sync>>
    BY <1>4 DEF ReadLocal
  <2> HIDE DEF label, left
  <2>3. x \in Reads /\ x.step = NoRead.step /\ x.from = "local"
    BY <1>0, <1>2, <2>1 DEF Reads
  <2>4. x.step = "idle"
    BY <2>3 DEF NoRead
  <2> HIDE DEF x
  <2>5. Attends(x, form, stored')
    BY <2>3, <2>4 DEF Attends
  <2> QED BY <1>0, <2>2, <2>3, <2>5, OneRead
<1>5. ASSUME NEW s \in Scope, NEW from \in {"auto", "live"}, StartRead(p, s, from)
      PROVE  DataInv'
  <2> DEFINE step == IF Fresh(body[s]) THEN "answered" ELSE "asked"
             left == read[p].left - 1
             says == [r \in s |-> body[s].body]
             x == [NoRead EXCEPT !.left = left, !.scope = s, !.from = from, !.step = step,
                                 !.says = says]
  <2>1. says \in [s -> Nat] /\ says \in [s -> Int] /\ s \in SUBSET Record
    BY <1>0
  <2>2. step \in {"answered", "asked"} /\ left \in Int
    BY <1>0 DEF Reads
  <2>3. read' = [read EXCEPT ![p] = x] /\ UNCHANGED <<form, version, body, stored, sync>>
    BY <1>5 DEF StartRead
  <2> HIDE DEF step, left, says
  <2>4. says \in Says
    BY <1>1, <2>1
  <2>5. x \in Reads /\ x.step = step /\ x.scope = s /\ x.says = says
    BY <1>2, <2>1, <2>2, <2>4 DEF Reads
  <2> HIDE DEF x
  <2>6. Attends(x, form, stored')
    BY <2>1, <2>2, <2>5 DEF Attends
  <2> QED BY <1>0, <2>3, <2>5, <2>6, OneRead
<1>6. CASE Answered(p)
  <2> DEFINE scope == read[p].scope
             says == [r \in scope |-> version]
             x == [read[p] EXCEPT !.step = "answered", !.says = says]
  <2>1. scope \in Scope /\ scope \in SUBSET Record
    BY <1>0, <1>6 DEF Answered, InStep, Attends, Reads
  <2>2. says \in [scope -> Nat] /\ says \in [scope -> Int]
    BY <1>0
  <2>3. says \in Says
    BY <1>1, <2>1, <2>2
  <2>4. /\ read' = [read EXCEPT ![p] = x] /\ UNCHANGED <<form, version, stored, sync>>
        /\ body' = [body EXCEPT ![scope] = Written(version)]
    BY <1>0, <1>6 DEF Answered
  <2>5. body' \in [Scope -> [body : Nat, age : Nat]]
    BY <1>0, <2>1, <2>4 DEF Written
  <2> HIDE DEF says
  <2>6. x \in Reads /\ x.step = "answered" /\ x.scope = scope /\ x.says = says
    BY <1>0, <2>3 DEF Reads
  <2> HIDE DEF x
  <2>7. Attends(x, form, stored')
    BY <2>1, <2>2, <2>6 DEF Attends
  <2> QED BY <1>0, <2>4, <2>5, <2>6, <2>7, OneRead
<1>7. ASSUME NEW label \in {"live", "unstored", "local", "error"}, NEW says \in Says,
             Deliver(p, label, says), UNCHANGED <<form, version, body, sync>>,
             stored' \in [Record -> Int],
             \A r \in Record : stored[r] # NotStored => stored'[r] # NotStored,
             label = "live" /\ read[p].from = "auto" /\ Shows(form[read[p].scope], read[p].scope)
               => \A r \in read[p].scope : stored'[r] # NotStored
      PROVE  DataInv'
  <2> DEFINE x == [read[p] EXCEPT !.step = "idle", !.label = label, !.says = says]
  <2>1. read' = [read EXCEPT ![p] = x]
    BY <1>0, <1>7 DEF Deliver
  <2>2. /\ x \in Reads /\ x.step = "idle" /\ x.label = label /\ x.scope = read[p].scope
        /\ x.from = read[p].from
    BY <1>0, <1>7 DEF Reads
  <2> HIDE DEF x
  <2>3. Attends(x, form, stored')
    BY <1>7, <2>2 DEF Attends
  <2> QED BY <1>0, <1>7, <2>1, <2>2, <2>3, OneRead
<1>8. CASE RefusedRead(p) \/ Unreachable(p)
  <2>1. Local(read[p].scope) \in Says
    BY <1>0, <1>3 DEF Reads
  <2>2. PICK label \in {"local", "error"}, says \in Says : Deliver(p, label, says)
    BY <1>2, <1>8, <2>1 DEF RefusedRead, Unreachable, Fail, AnswerLocally
  <2>3. UNCHANGED <<form, version, body, stored, sync>>
    BY <1>8 DEF RefusedRead, Unreachable
  <2> QED BY <1>0, <1>7, <2>2, <2>3
<1>9. CASE WriteThroughFails(p) \/ AnswerLive(p)
  <2>1. read[p].says \in Says
    BY <1>0 DEF Reads
  <2>2. UNCHANGED <<form, version, body, stored, sync>>
    BY <1>9 DEF WriteThroughFails, AnswerLive
  <2>3. \/ Deliver(p, "unstored", read[p].says)
        \/ read[p].from = "live" /\ Deliver(p, "live", read[p].says)
    BY <1>9 DEF WriteThroughFails, AnswerLive
  <2> QED BY <1>0, <1>7, <2>1, <2>2, <2>3
<1>10. CASE WriteThrough(p)
  <2> DEFINE scope == read[p].scope
             says == read[p].says
             rows == RowsOf(form[scope], scope)
  <2>1. /\ scope \in Scope /\ scope \subseteq Record /\ says \in [scope -> Nat]
        /\ says \in Says /\ form[scope] \in Envelopes
    BY <1>0, <1>10, DataSourceAssumption DEF WriteThrough, InStep, Attends, Reads, DataInv
  <2>2. rows \subseteq scope
    BY DEF RowsOf
  <2>3. /\ stored' = [r \in Record |-> IF r \in rows THEN says[r] ELSE stored[r]]
        /\ Deliver(p, "live", says) /\ UNCHANGED <<form, version, body, sync>>
    BY <1>10 DEF WriteThrough
  <2>4. Shows(form[scope], scope) => rows = scope
    BY <2>1, ShownAreRows
  <2> HIDE DEF rows, scope, says
  <2>5. /\ stored' \in [Record -> Int]
        /\ \A r \in Record : stored[r] # NotStored => stored'[r] # NotStored
        /\ \A r \in rows : stored'[r] # NotStored
    BY <1>0, <2>1, <2>2, <2>3 DEF NotStored
  <2> QED BY <1>7, <2>1, <2>3, <2>4, <2>5 DEF scope, says
<1> QED BY <1>4, <1>5, <1>6, <1>8, <1>9, <1>10

LEMMA DataStep == DataInv /\ [DataNext]_dataVars => DataInv'
<1> SUFFICES ASSUME DataInv, [DataNext]_dataVars PROVE DataInv'
  OBVIOUS
<1>1. ASSUME NEW p \in Reader,
             \/ \E s \in Scope :
                  ReadLocal(p, s) \/ StartRead(p, s, "auto") \/ StartRead(p, s, "live")
             \/ Answered(p) \/ RefusedRead(p) \/ Unreachable(p)
             \/ WriteThrough(p) \/ WriteThroughFails(p) \/ AnswerLive(p)
      PROVE  DataInv'
  BY <1>1, ReadSound
<1>2. CASE \/ SyncAsks \/ SyncStores \/ ApiChanges \/ CacheAges \/ UNCHANGED dataVars
  <2>1. UNCHANGED <<form, read>>
    BY <1>2 DEF SyncAsks, SyncStores, ApiChanges, CacheAges, dataVars
  <2>2. /\ stored' \in [Record -> Int]
        /\ \A r \in Record : stored[r] # NotStored => stored'[r] # NotStored
    BY <1>2 DEF SyncAsks, SyncStores, ApiChanges, CacheAges, dataVars, DataInv, NotStored, Nothing
  <2>3. version' \in Nat /\ sync' \in Nat \cup {Nothing}
    BY <1>2 DEF SyncAsks, SyncStores, ApiChanges, CacheAges, dataVars, DataInv
  <2>4. body' \in [Scope -> [body : Nat, age : Nat]]
    BY <1>2, TTLAssumption DEF SyncAsks, SyncStores, ApiChanges, CacheAges, dataVars, DataInv, Aged
  <2>5. ASSUME NEW p \in Reader PROVE Attends(read[p], form, stored)'
    <3>1. read[p] \in Reads /\ Attends(read[p], form, stored)
      BY DEF DataInv
    <3> QED BY <2>1, <2>2, <3>1 DEF Attends, Reads
  <2> QED BY <2>1, <2>2, <2>3, <2>4, <2>5 DEF DataInv
<1> QED BY <1>1, <1>2 DEF DataNext

(* What a live answer has shown is in the store ever after, for any        *)
(* records, scopes and shapes of answers, any cache and any reader, and    *)
(* whatever syncs run in between.                                          *)
THEOREM LookedUpCorrect == DataSpec => []LookedUpIsStored
<1>1. DataInv => LookedUpIsStored
  BY DEF DataInv, Attends, LookedUpIsStored, InStep
<1> QED BY <1>1, DataInitSound, DataStep, PTL DEF DataSpec

\* What the readers and the cache pass around are versions the API has had.
Versions == 0 .. LastVersion
Brings(x) == x.step = "answered" => x.says \in [x.scope -> Versions]

DataTyped ==
    /\ version \in Versions
    /\ body \in [Scope -> Entry(Versions)]
    /\ stored \in [Record -> -1 .. LastVersion]
    /\ sync \in -1 .. LastVersion
    /\ \A p \in Reader : Brings(read[p])

LEMMA DataTypedInit == DataInit => DataTyped
<1> SUFFICES ASSUME DataInit PROVE DataTyped
  OBVIOUS
<1>1. 0 \in Versions /\ LastVersion \in Nat /\ TTL + 1 \in 0 .. TTL + 1
  BY DataSourceAssumption, TTLAssumption DEF Versions
<1>2. body \in [Scope -> Entry(Versions)]
  BY <1>1 DEF DataInit, Absent, Entry
<1>3. \A p \in Reader : Brings(read[p])
  BY DEF DataInit, Brings, NoRead
<1> QED BY <1>1, <1>2, <1>3 DEF DataInit, DataTyped, NotStored, Nothing

\* What one reader does, when what it holds and leaves are such versions.
LEMMA OneBrings ==
    ASSUME DataInv, DataTyped, NEW p \in Reader, NEW x, read' = [read EXCEPT ![p] = x],
           UNCHANGED <<version, sync>>, body' \in [Scope -> Entry(Versions)],
           stored' \in [Record -> -1 .. LastVersion], Brings(x)
    PROVE  DataTyped'
<1>1. read \in [Reader -> Reads]
  BY DEF DataInv
<1>2. ASSUME NEW q \in Reader PROVE Brings(read[q])'
  BY <1>1, <1>2 DEF DataTyped, Brings
<1> QED BY <1>2 DEF DataTyped, Versions

LEMMA ReadTyped ==
    ASSUME DataInv, DataTyped, NEW p \in Reader,
           \/ \E s \in Scope :
                ReadLocal(p, s) \/ StartRead(p, s, "auto") \/ StartRead(p, s, "live")
           \/ Answered(p) \/ RefusedRead(p) \/ Unreachable(p)
           \/ WriteThrough(p) \/ WriteThroughFails(p) \/ AnswerLive(p)
    PROVE  DataTyped'
<1>0. /\ read \in [Reader -> Reads] /\ read[p] \in Reads /\ Attends(read[p], form, stored)
      /\ version \in Versions /\ body \in [Scope -> Entry(Versions)]
      /\ stored \in [Record -> -1 .. LastVersion] /\ Brings(read[p])
  BY DEF DataInv, DataTyped
<1>1. ASSUME NEW s \in Scope, ReadLocal(p, s) PROVE DataTyped'
  <2> DEFINE x == [NoRead EXCEPT !.left = read[p].left - 1, !.scope = s, !.from = "local",
                     !.label = IF DOMAIN Local(s) = {} THEN "error" ELSE "local",
                     !.says = Local(s)]
  <2>1. Brings(x)
    BY DEF Brings, NoRead
  <2>2. read' = [read EXCEPT ![p] = x] /\ UNCHANGED <<version, body, stored, sync>>
    BY <1>1 DEF ReadLocal
  <2> HIDE DEF x
  <2> QED BY <1>0, <2>1, <2>2, OneBrings
<1>2. ASSUME NEW s \in Scope, NEW from \in {"auto", "live"}, StartRead(p, s, from)
      PROVE  DataTyped'
  <2> DEFINE x == [NoRead EXCEPT !.left = read[p].left - 1, !.scope = s, !.from = from,
                     !.step = IF Fresh(body[s]) THEN "answered" ELSE "asked",
                     !.says = [r \in s |-> body[s].body]]
  <2>1. body[s].body \in Versions
    BY <1>0 DEF Entry
  <2>2. x.scope = s /\ x.says = [r \in s |-> body[s].body]
    BY DEF NoRead
  <2>3. Brings(x)
    BY <2>1, <2>2 DEF Brings
  <2>4. read' = [read EXCEPT ![p] = x] /\ UNCHANGED <<version, body, stored, sync>>
    BY <1>2 DEF StartRead
  <2> HIDE DEF x
  <2> QED BY <1>0, <2>3, <2>4, OneBrings
<1>3. CASE Answered(p)
  <2> DEFINE x == [read[p] EXCEPT !.step = "answered", !.says = [r \in read[p].scope |-> version]]
  <2>1. x.scope = read[p].scope /\ x.says = [r \in read[p].scope |-> version]
    BY <1>0 DEF Reads
  <2>2. Brings(x)
    BY <1>0, <2>1 DEF Brings
  <2>3. body' \in [Scope -> Entry(Versions)]
    <3>1. Written(version) \in Entry(Versions)
      BY <1>0, TTLAssumption DEF Written, Entry
    <3> QED BY <1>0, <1>3, <3>1 DEF Answered
  <2>4. read' = [read EXCEPT ![p] = x] /\ UNCHANGED <<version, stored, sync>>
    BY <1>3 DEF Answered
  <2> HIDE DEF x
  <2> QED BY <1>0, <2>2, <2>3, <2>4, OneBrings
<1>4. ASSUME UNCHANGED <<version, body, sync>>, stored' \in [Record -> -1 .. LastVersion],
             NEW label, NEW says, Deliver(p, label, says)
      PROVE  DataTyped'
  <2> DEFINE x == [read[p] EXCEPT !.step = "idle", !.label = label, !.says = says]
  <2>1. Brings(x)
    BY <1>0 DEF Brings, Reads
  <2>2. read' = [read EXCEPT ![p] = x]
    BY <1>4 DEF Deliver
  <2> HIDE DEF x
  <2> QED BY <1>0, <1>4, <2>1, <2>2, OneBrings
<1>5. CASE RefusedRead(p) \/ Unreachable(p)
  <2>1. UNCHANGED <<version, body, stored, sync>>
    BY <1>5 DEF RefusedRead, Unreachable
  <2>2. PICK label, says : Deliver(p, label, says)
    BY <1>5 DEF RefusedRead, Unreachable, Fail, AnswerLocally
  <2> QED BY <1>0, <1>4, <2>1, <2>2
<1>6. CASE WriteThrough(p)
  <2> DEFINE scope == read[p].scope
             rows == RowsOf(form[scope], scope)
  <2>1. InStep(p, "answered") /\ scope \in Scope /\ read[p].says \in [scope -> Versions]
    BY <1>0, <1>6 DEF WriteThrough, InStep, Attends, Brings
  <2>2. rows \subseteq scope
    BY DEF RowsOf
  <2>3. /\ stored' = [r \in Record |-> IF r \in rows THEN read[p].says[r] ELSE stored[r]]
        /\ Deliver(p, "live", read[p].says) /\ UNCHANGED <<version, body, sync>>
    BY <1>6 DEF WriteThrough
  <2> HIDE DEF rows
  <2>4. \A r \in rows : read[p].says[r] \in -1 .. LastVersion
    BY <2>1, <2>2 DEF Versions
  <2>5. stored' \in [Record -> -1 .. LastVersion]
    BY <1>0, <2>3, <2>4
  <2> QED BY <1>4, <2>3, <2>5
<1>7. CASE WriteThroughFails(p) \/ AnswerLive(p)
  <2>1. UNCHANGED <<version, body, stored, sync>>
    BY <1>7 DEF WriteThroughFails, AnswerLive
  <2>2. PICK label, says : Deliver(p, label, says)
    BY <1>7 DEF WriteThroughFails, AnswerLive
  <2> QED BY <1>0, <1>4, <2>1, <2>2
<1> QED BY <1>1, <1>2, <1>3, <1>5, <1>6, <1>7

LEMMA DataTypedStep == DataInv /\ DataTyped /\ [DataNext]_dataVars => DataTyped'
<1> SUFFICES ASSUME DataInv, DataTyped, [DataNext]_dataVars PROVE DataTyped'
  OBVIOUS
<1>1. ASSUME NEW p \in Reader,
             \/ \E s \in Scope :
                  ReadLocal(p, s) \/ StartRead(p, s, "auto") \/ StartRead(p, s, "live")
             \/ Answered(p) \/ RefusedRead(p) \/ Unreachable(p)
             \/ WriteThrough(p) \/ WriteThroughFails(p) \/ AnswerLive(p)
      PROVE  DataTyped'
  BY <1>1, ReadTyped
<1>2. CASE \/ SyncAsks \/ SyncStores \/ ApiChanges \/ CacheAges \/ UNCHANGED dataVars
  <2>0. LastVersion \in Nat
    BY DataSourceAssumption
  <2>1. read' = read
    BY <1>2 DEF SyncAsks, SyncStores, ApiChanges, CacheAges, dataVars
  <2>2. version' \in Versions /\ sync' \in -1 .. LastVersion
    BY <1>2, <2>0 DEF SyncAsks, SyncStores, ApiChanges, CacheAges, dataVars, DataTyped, Versions,
                      Nothing
  <2>3. stored' \in [Record -> -1 .. LastVersion]
    BY <1>2 DEF SyncAsks, SyncStores, ApiChanges, CacheAges, dataVars, DataTyped
  <2>4. body' \in [Scope -> Entry(Versions)]
    <3>1. \A e \in Entry(Versions) : Aged(e) \in Entry(Versions)
      BY TTLAssumption DEF Aged, Entry
    <3> QED BY <1>2, <3>1 DEF SyncAsks, SyncStores, ApiChanges, CacheAges, dataVars, DataTyped
  <2>5. \A p \in Reader : Brings(read[p])'
    BY <2>1 DEF DataTyped, Brings, Versions
  <2> QED BY <2>2, <2>3, <2>4, <2>5 DEF DataTyped, Versions, Entry
<1> QED BY <1>1, <1>2 DEF DataNext

LEMMA DataTypeMeans == DataInv /\ DataTyped => DataTypeOK
BY DEF DataInv, Reads, DataTyped, Versions, DataTypeOK

-----------------------------------------------------------------------------
(* ClientProfiles                                                          *)

StepNames ==
    {"rest", "prepared", "verified", "served", "saving", "saved", "inspect", "migrate", "gated",
     "adopt", "copy", "copying", "copied", "adopted", "backup"}
Copying == {"copy", "copying", "copied"}
Prints == Nat \cup {Short}
Statuses == {None, "pending", "backed up", "quarantined", "adopted"}
Works ==
    [step : StepNames, name : Profile \cup {None}, stanza : Stanza \cup {NoStanza},
     print : Prints, body : Tenant \cup {None}, known : BOOLEAN, given : SUBSET Artifact,
     status : [Artifact -> Statuses], cleanup : BOOLEAN, moved : SUBSET Artifact]

CacheKeys == [name : Profile, expect : Tenant, observed : Tenant, print : Prints \X Credential]
Responses == {r \in [key : CacheKeys, of : Tenant] : r.of = r.key.observed}

\* A file is at one of its two places.
Whereabouts == {[path |-> TRUE, backup |-> FALSE], [path |-> FALSE, backup |-> TRUE]}
Copies == [state : {"absent", "other", "partial", "whole"}, by : Invoker \cup {None}]

\* What an invocation has passed: the gate, with the tenant that was observed ...
Admitted(x) ==
    /\ x.step # "rest" => x.name \in Profile /\ x.stanza \in Stanza
    /\ x.step = "verified" => TenantOf[x.stanza.ref] = x.stanza.expect
    /\ x.body # None => x.body = x.stanza.expect

\* ... and, as a migration, the questions about the old database.
Migrates(x, tenant) ==
    /\ x.step \in Copying =>
         /\ tenant = Owner(x.name, x.stanza.expect, TenantOf[x.stanza.ref])
         /\ x.status["database"] = "pending"
    /\ x.step \in {"adopted", "backup"} => x.status["database"] # "pending"
    /\ x.step = "backup" => x.status["database"] # "quarantined"
    /\ x.status["database"] = "adopted" => x.name \in Profile

\* Who makes a key file has it there; who uses a key uses the one on disk or a
\* withdrawn one; what was adopted is there, or was removed by another.
Relies(x, key, copies, lost) ==
    /\ x.print = Short => key[1] # NoKey
    /\ x.print \notin {NoKey, Short} => x.print = key[1] \/ x.print \in 1 .. key[2]
    /\ x.status["database"] = "adopted" => lost \/ copies[x.name].state = "whole"

Fine(x, key, tenant, copies, lost) ==
    Admitted(x) /\ Migrates(x, tenant) /\ Relies(x, key, copies, lost)

OnlyTheOwners(copies, tenant) ==
    \A n \in Profile : copies[n].state = "whole" => tenant.name = n
KeptFor(files, copies, lost) ==
    files["database"].backup => lost \/ \E n \in Profile : copies[n].state = "whole"

\* Keys are counted: a whole one comes after all that were withdrawn.
KeyOK == withdrawn \in Nat /\ hashKey \in {NoKey, Short, withdrawn + 1}

ProfilesInv ==
    /\ profile \in [Profile -> Stanza \cup {NoStanza}] /\ responses \subseteq Responses
    /\ old \in [Artifact -> Whereabouts] /\ target \in [Profile -> Copies]
    /\ inv \in [Invoker -> Works] /\ KeyOK
    /\ OnlyTheOwners(target, owner) /\ KeptFor(old, target, trampled)
    /\ \A p \in Invoker : Fine(inv[p], keyVars, owner, target, trampled)
    /\ \A p, q \in Invoker : inv[p].print = Short /\ inv[q].print = Short => p = q

LEMMA KeyStays == KeyOK /\ UNCHANGED keyVars => KeyOK'
  BY DEF KeyOK, keyVars

LEMMA RestIsFine ==
    /\ AtRest \in Works /\ AtRest.print = NoKey
    /\ \A key, tenant, copies, lost : Fine(AtRest, key, tenant, copies, lost)
<1>1. AtRest \in Works
  BY DEF AtRest, Works, StepNames, Prints, Statuses, NoKey
<1>2. /\ AtRest.step = "rest" /\ AtRest.print = NoKey /\ AtRest.body = None
      /\ AtRest.status["database"] = None
  BY DEF AtRest, Artifact
<1>3. None # "adopted"
  BY DEF None
<1>4. \A key, tenant, copies, lost : Fine(AtRest, key, tenant, copies, lost)
  BY <1>2, <1>3 DEF Fine, Admitted, Migrates, Relies, Copying, NoKey, Short
<1> QED BY <1>1, <1>2, <1>4

LEMMA ProfilesInitSound == ProfilesInit => ProfilesInv
<1> SUFFICES ASSUME ProfilesInit PROVE ProfilesInv
  OBVIOUS
<1>1. old \in [Artifact -> Whereabouts] /\ ~old["database"].backup
  BY DEF ProfilesInit, Whereabouts, Artifact
<1>2. target \in [Profile -> Copies] /\ \A n \in Profile : target[n].state # "whole"
  BY DEF ProfilesInit, Copies, Gone
<1>3. inv \in [Invoker -> Works] /\ \A p \in Invoker : inv[p] = AtRest
  BY RestIsFine DEF ProfilesInit
<1>4. \A p \in Invoker : Fine(inv[p], keyVars, owner, target, trampled) /\ inv[p].print # Short
  BY <1>3, RestIsFine DEF NoKey, Short
<1>5. OnlyTheOwners(target, owner) /\ KeptFor(old, target, trampled)
  BY <1>1, <1>2 DEF OnlyTheOwners, KeptFor
<1>6. KeyOK
  BY DEF ProfilesInit, KeyOK, NoKey
<1> QED BY <1>1, <1>2, <1>3, <1>4, <1>5, <1>6 DEF ProfilesInv, ProfilesInit

\* One invocation's step, seen by the others.
LEMMA OneInvocation ==
    ASSUME ProfilesInv, NEW p \in Invoker, NEW x \in Works, inv' = [inv EXCEPT ![p] = x],
           Fine(x, keyVars', owner', target', trampled'),
           \A q \in Invoker \ {p} : Fine(inv[q], keyVars', owner', target', trampled'),
           x.print # Short \/ \A q \in Invoker \ {p} : inv[q].print # Short
    PROVE  /\ inv' \in [Invoker -> Works]
           /\ \A q \in Invoker : Fine(inv'[q], keyVars', owner', target', trampled')
           /\ \A q, r \in Invoker : inv'[q].print = Short /\ inv'[r].print = Short => q = r
<1>1. inv' \in [Invoker -> Works] /\ inv'[p] = x
      /\ \A q \in Invoker \ {p} : inv'[q] = inv[q]
  BY DEF ProfilesInv
<1>2. \A q, r \in Invoker : inv[q].print = Short /\ inv[r].print = Short => q = r
  BY DEF ProfilesInv
<1>3. \A q \in Invoker : Fine(inv'[q], keyVars', owner', target', trampled')
  BY <1>1
<1>4. \A q, r \in Invoker : inv'[q].print = Short /\ inv'[r].print = Short => q = r
  BY <1>1, <1>2
<1> QED BY <1>1, <1>3, <1>4

\* A step that leaves the key, the owner record and all databases alone.
LEMMA QuietStep ==
    ASSUME ProfilesInv, NEW p \in Invoker, NEW x \in Works, inv' = [inv EXCEPT ![p] = x],
           UNCHANGED <<keyVars, owner, old, target, trampled>>,
           profile' \in [Profile -> Stanza \cup {NoStanza}], responses' \subseteq Responses,
           Fine(x, keyVars, owner, target, trampled), x.print \in {NoKey, inv[p].print}
    PROVE  ProfilesInv'
<1>1. \A q \in Invoker : Fine(inv[q], keyVars', owner', target', trampled')
  BY DEF ProfilesInv
<1>2. x.print # Short \/ \A q \in Invoker \ {p} : inv[q].print # Short
  BY DEF ProfilesInv, NoKey, Short
<1>3. Fine(x, keyVars', owner', target', trampled')
  OBVIOUS
<1>4. /\ inv' \in [Invoker -> Works]
      /\ \A q \in Invoker : Fine(inv'[q], keyVars', owner', target', trampled')
      /\ \A q, r \in Invoker : inv'[q].print = Short /\ inv'[r].print = Short => q = r
  BY <1>1, <1>2, <1>3, OneInvocation
<1>5. /\ old' \in [Artifact -> Whereabouts] /\ target' \in [Profile -> Copies]
      /\ OnlyTheOwners(target', owner') /\ KeptFor(old', target', trampled')
      /\ KeyOK'
  BY DEF ProfilesInv, KeyOK, keyVars
<1> QED BY <1>4, <1>5 DEF ProfilesInv

LEMMA EndStep ==
    ASSUME ProfilesInv, NEW p \in Invoker, Ends(p),
           UNCHANGED <<profile, keyVars, responses, owner, old, target, trampled>>
    PROVE  ProfilesInv'
<1>1. inv' = [inv EXCEPT ![p] = AtRest]
  BY DEF Ends
<1>2. profile' \in [Profile -> Stanza \cup {NoStanza}] /\ responses' \subseteq Responses
  BY DEF ProfilesInv
<1> QED BY <1>1, <1>2, RestIsFine, QuietStep

LEMMA InvokeStep ==
    ASSUME ProfilesInv, NEW p \in Invoker, NEW n \in Profile, NEW stanza \in Stanza,
           NEW step \in {"prepared", "saving", "inspect"}, Invoke(p, n, step, stanza),
           UNCHANGED <<profile, keyVars, responses, owner, old, target, trampled>>
    PROVE  ProfilesInv'
<1> DEFINE x == [AtRest EXCEPT !.step = step, !.name = n, !.stanza = stanza]
<1>1. inv' = [inv EXCEPT ![p] = x]
  BY DEF Invoke
<1>2. AtRest \in Works /\ step \in StepNames
  BY RestIsFine DEF StepNames
<1>3. /\ x \in Works /\ x.step = step /\ x.name = n /\ x.stanza = stanza
      /\ x.print = AtRest.print /\ x.body = AtRest.body /\ x.status = AtRest.status
  BY <1>2 DEF Works
<1>4. x.print = NoKey /\ x.body = None /\ x.status["database"] = None
  BY <1>3 DEF AtRest, Artifact
<1> HIDE DEF x
<1>5. None # "adopted"
  BY DEF None
<1>6. Fine(x, keyVars, owner, target, trampled)
  BY <1>3, <1>4, <1>5 DEF Fine, Admitted, Migrates, Relies, Copying, NoKey, Short
<1>7. profile' \in [Profile -> Stanza \cup {NoStanza}] /\ responses' \subseteq Responses
  BY DEF ProfilesInv
<1> QED BY <1>1, <1>3, <1>4, <1>6, <1>7, QuietStep

\* What an invocation keeps when it goes on to another step.
LEMMA StepKeeps ==
    ASSUME ProfilesInv, NEW p \in Invoker, NEW step \in StepNames, NEW x,
           x = [inv[p] EXCEPT !.step = step]
    PROVE  /\ x \in Works /\ x.step = step /\ x.name = inv[p].name
           /\ x.stanza = inv[p].stanza /\ x.print = inv[p].print /\ x.body = inv[p].body
           /\ x.status = inv[p].status
BY DEF ProfilesInv, Works

LEMMA SettleKeeps ==
    ASSUME ProfilesInv, NEW p \in Invoker, NEW step \in StepNames, NEW status \in Statuses,
           Settle(p, status, step)
    PROVE  \E x \in Works :
             /\ inv' = [inv EXCEPT ![p] = x] /\ x.step = step /\ x.name = inv[p].name
             /\ x.stanza = inv[p].stanza /\ x.print = inv[p].print /\ x.body = inv[p].body
             /\ x.status["database"] = status
<1> DEFINE s == [inv[p].status EXCEPT !["database"] = status]
           x == [inv[p] EXCEPT !.status = s, !.step = step]
<1>1. inv[p] \in Works /\ inv[p].status \in [Artifact -> Statuses] /\ "database" \in Artifact
  BY DEF ProfilesInv, Works, Artifact
<1>2. s \in [Artifact -> Statuses] /\ s["database"] = status
  BY <1>1
<1>3. inv' = [inv EXCEPT ![p] = x]
  BY DEF Settle, ProfilesInv
<1> HIDE DEF s
<1>4. /\ x \in Works /\ x.step = step /\ x.name = inv[p].name /\ x.stanza = inv[p].stanza
      /\ x.print = inv[p].print /\ x.body = inv[p].body /\ x.status = s
  BY <1>1, <1>2 DEF Works
<1> QED BY <1>2, <1>3, <1>4

\* What a step asks of the invocation that takes it.
MayGoOn(x, step, tenant) ==
    /\ x.step # "rest"
    /\ step = "verified" => TenantOf[x.stanza.ref] = x.stanza.expect
    /\ step \in Copying =>
         /\ tenant = Owner(x.name, x.stanza.expect, TenantOf[x.stanza.ref])
         /\ x.status["database"] = "pending"
    /\ step \in {"adopted", "backup"} => x.status["database"] # "pending"
    /\ step = "backup" => x.status["database"] # "quarantined"

LEMMA GoOn ==
    ASSUME ProfilesInv, NEW p \in Invoker, NEW step \in StepNames, Steps(p, step),
           MayGoOn(inv[p], step, owner)
    PROVE  \E x \in Works :
             /\ inv' = [inv EXCEPT ![p] = x] /\ Fine(x, keyVars, owner, target, trampled)
             /\ x.print = inv[p].print
             /\ \A copies, lost : Relies(inv[p], keyVars, copies, lost)
                                    => Fine(x, keyVars, owner, copies, lost)
<1> DEFINE x == [inv[p] EXCEPT !.step = step]
<1>1. /\ x \in Works /\ x.step = step /\ x.name = inv[p].name
      /\ x.stanza = inv[p].stanza /\ x.print = inv[p].print /\ x.body = inv[p].body
      /\ x.status = inv[p].status
  BY StepKeeps
<1>2. inv' = [inv EXCEPT ![p] = x]
  BY DEF Steps, ProfilesInv
<1>3. Fine(inv[p], keyVars, owner, target, trampled)
  BY DEF ProfilesInv
<1> HIDE DEF x
<1>4. Admitted(x)
  BY <1>1, <1>3 DEF MayGoOn, Fine, Admitted
<1>5. Migrates(x, owner)
  BY <1>1, <1>3 DEF MayGoOn, Fine, Migrates
<1>6. \A copies, lost : Relies(inv[p], keyVars, copies, lost) => Relies(x, keyVars, copies, lost)
  BY <1>1 DEF Relies
<1>7. \A copies, lost : Relies(inv[p], keyVars, copies, lost)
                          => Fine(x, keyVars, owner, copies, lost)
  BY <1>4, <1>5, <1>6 DEF Fine
<1>8. Fine(x, keyVars, owner, target, trampled)
  BY <1>3, <1>7 DEF Fine
<1> QED BY <1>1, <1>2, <1>7, <1>8

LEMMA QuietGoOn ==
    ASSUME ProfilesInv, NEW p \in Invoker, NEW step \in StepNames, Steps(p, step),
           MayGoOn(inv[p], step, owner),
           UNCHANGED <<keyVars, responses, owner, old, target, trampled>>,
           profile' \in [Profile -> Stanza \cup {NoStanza}]
    PROVE  ProfilesInv'
<1>1. PICK x \in Works :
        /\ inv' = [inv EXCEPT ![p] = x] /\ Fine(x, keyVars, owner, target, trampled)
        /\ x.print = inv[p].print
  BY GoOn
<1>2. responses' \subseteq Responses
  BY DEF ProfilesInv
<1> QED BY <1>1, <1>2, QuietStep

\* An invocation settles what becomes of the database, and goes on.
LEMMA SettleStep ==
    ASSUME ProfilesInv, NEW p \in Invoker, NEW status \in {"quarantined", "adopted"},
           Settle(p, status, "adopted"), inv[p].step # "rest",
           status = "adopted" => Place(p).state = "whole",
           UNCHANGED <<profile, keyVars, responses, owner, old, target, trampled>>
    PROVE  ProfilesInv'
<1>1. "adopted" \in StepNames /\ status \in Statuses
  BY DEF StepNames, Statuses
<1>2. PICK x \in Works :
        /\ inv' = [inv EXCEPT ![p] = x] /\ x.step = "adopted" /\ x.name = inv[p].name
        /\ x.stanza = inv[p].stanza /\ x.print = inv[p].print /\ x.body = inv[p].body
        /\ x.status["database"] = status
  BY <1>1, SettleKeeps
<1>4. Fine(inv[p], keyVars, owner, target, trampled)
  BY DEF ProfilesInv
<1>5. Admitted(x) /\ x.name \in Profile
  BY <1>2, <1>4 DEF Fine, Admitted
<1>6. Migrates(x, owner)
  BY <1>2, <1>5 DEF Migrates, Copying
<1>7. Relies(x, keyVars, target, trampled)
  BY <1>2, <1>4 DEF Fine, Relies, Place
<1>8. profile' \in [Profile -> Stanza \cup {NoStanza}] /\ responses' \subseteq Responses
  BY DEF ProfilesInv
<1>9. Fine(x, keyVars, owner, target, trampled)
  BY <1>5, <1>6, <1>7 DEF Fine
<1> QED BY <1>2, <1>8, <1>9, QuietStep

\* Loading, verifying and saving profiles.
LEMMA GateSound ==
    ASSUME ProfilesInv, NEW p \in Invoker,
           \/ \E n \in Profile :
                \/ Prepare(p, n)
                \/ \E stanza \in Stanza : BeginWrite(p, n, stanza) \/ BeginMigrate(p, n, stanza)
           \/ Verify(p, "prepared", "verified") \/ Verify(p, "migrate", "gated")
           \/ SaveProfile(p, "saving", "saved") \/ SaveProfile(p, "gated", "adopt")
           \/ KeepProfile(p) \/ GiveUpOn(p)
    PROVE  ProfilesInv'
<1>1. ASSUME NEW n \in Profile, Prepare(p, n) PROVE ProfilesInv'
  <2>1. profile[n] \in Stanza
    BY <1>1 DEF Prepare, Loads, ProfilesInv
  <2>2. /\ Invoke(p, n, "prepared", profile[n])
        /\ UNCHANGED <<profile, keyVars, responses, owner, old, target, trampled>>
    BY <1>1 DEF Prepare
  <2> QED BY <2>1, <2>2, InvokeStep
<1>2. ASSUME NEW n \in Profile, NEW stanza \in Stanza,
             BeginWrite(p, n, stanza) \/ BeginMigrate(p, n, stanza)
      PROVE  ProfilesInv'
  <2>1. PICK step \in {"saving", "inspect"} : Invoke(p, n, step, stanza)
    BY <1>2 DEF BeginWrite, BeginMigrate
  <2>2. UNCHANGED <<profile, keyVars, responses, owner, old, target, trampled>>
    BY <1>2 DEF BeginWrite, BeginMigrate
  <2> QED BY <2>1, <2>2, InvokeStep
<1>3. CASE Verify(p, "prepared", "verified") \/ Verify(p, "migrate", "gated")
  <2>1. PICK step \in {"verified", "gated"} : Steps(p, step)
    BY <1>3 DEF Verify
  <2>2. /\ inv[p].step # "rest" /\ TenantOf[inv[p].stanza.ref] = inv[p].stanza.expect
        /\ UNCHANGED <<profile, keyVars, responses, owner, old, target, trampled>>
    BY <1>3 DEF Verify, Stands, Identified, Observed
  <2>3. MayGoOn(inv[p], step, owner) /\ step \in StepNames
    BY <2>1, <2>2 DEF MayGoOn, Copying, StepNames
  <2>4. profile' \in [Profile -> Stanza \cup {NoStanza}]
    BY <2>2 DEF ProfilesInv
  <2> QED BY <2>1, <2>2, <2>3, <2>4, QuietGoOn
<1>4. CASE \/ SaveProfile(p, "saving", "saved") \/ SaveProfile(p, "gated", "adopt")
           \/ KeepProfile(p)
  <2>1. PICK step \in {"saved", "adopt"} : Steps(p, step)
    BY <1>4 DEF SaveProfile, KeepProfile
  <2>2. /\ inv[p].step # "rest" /\ UNCHANGED <<keyVars, responses, owner, old, target, trampled>>
        /\ profile' \in {profile, [profile EXCEPT ![inv[p].name] = inv[p].stanza]}
    BY <1>4 DEF SaveProfile, KeepProfile, Stands, Replaced
  <2>3. MayGoOn(inv[p], step, owner) /\ step \in StepNames
    BY <2>1, <2>2 DEF MayGoOn, Copying, StepNames
  <2>4. inv[p].stanza \in Stanza \cup {NoStanza}
    BY DEF ProfilesInv, Works
  <2>5. profile' \in [Profile -> Stanza \cup {NoStanza}]
    BY <2>2, <2>4 DEF ProfilesInv
  <2> QED BY <2>1, <2>2, <2>3, <2>5, QuietGoOn
<1>5. CASE GiveUpOn(p)
  BY <1>5, EndStep DEF GiveUpOn
<1> QED BY <1>1, <1>2, <1>3, <1>4, <1>5

LEMMA GetSound == ASSUME ProfilesInv, NEW p \in Invoker, Get(p) PROVE ProfilesInv'
<1>0. /\ inv[p] \in Works /\ inv[p].step = "verified" /\ inv[p].name \in Profile
      /\ inv[p].stanza \in Stanza /\ Observed(p) = inv[p].stanza.expect
      /\ Fine(inv[p], keyVars, owner, target, trampled)
  BY DEF Get, Stands, ProfilesInv, Fine, Admitted, Observed
<1>1. Observed(p) \in Tenant /\ inv[p].stanza.ref \in Credential /\ inv[p].print \in Prints
  BY <1>0 DEF Stanza, Works
<1>2. Fingerprint(p) \in Prints \X Credential
  BY <1>1 DEF Fingerprint
<1>3. Key(p) \in CacheKeys /\ Key(p).observed = Observed(p)
  BY <1>0, <1>1, <1>2 DEF Key, CacheKeys
<1>4. ASSUME NEW of \in Tenant, of = Observed(p),
             inv' = [inv EXCEPT ![p] = [@ EXCEPT !.step = "served", !.body = of]],
             responses' \subseteq Responses
      PROVE  ProfilesInv'
  <2> DEFINE x == [inv[p] EXCEPT !.step = "served", !.body = of]
  <2>1. inv' = [inv EXCEPT ![p] = x]
    BY <1>4 DEF ProfilesInv
  <2>2. "served" \in StepNames
    BY DEF StepNames
  <2>3. /\ x \in Works /\ x.step = "served" /\ x.body = of /\ x.name = inv[p].name
        /\ x.stanza = inv[p].stanza /\ x.print = inv[p].print /\ x.status = inv[p].status
    BY <1>0, <2>2 DEF Works
  <2> HIDE DEF x
  <2>4. Fine(x, keyVars, owner, target, trampled)
    BY <1>0, <1>4, <2>3 DEF Fine, Admitted, Migrates, Relies, Copying
  <2>5. /\ UNCHANGED <<keyVars, owner, old, target, trampled>>
        /\ profile' \in [Profile -> Stanza \cup {NoStanza}]
    BY DEF Get, ProfilesInv
  <2> QED BY <1>4, <2>1, <2>3, <2>4, <2>5, QuietStep
<1>5. CASE Cached(p) # {}
  <2>1. PICK r \in Cached(p) :
          inv' = [inv EXCEPT ![p] = [@ EXCEPT !.step = "served", !.body = r.of]]
    BY <1>5 DEF Get
  <2>2. r \in Responses /\ r.key = Key(p)
    BY <2>1 DEF Cached, ProfilesInv
  <2>3. r.of \in Tenant /\ r.of = Observed(p)
    BY <1>3, <2>2 DEF Responses
  <2>4. responses' \subseteq Responses
    BY <1>5 DEF Get, ProfilesInv
  <2> QED BY <1>4, <2>1, <2>3, <2>4
<1>6. CASE Cached(p) = {}
  <2> DEFINE r == [key |-> Key(p), of |-> Observed(p)]
  <2>1. /\ responses' = responses \cup {r}
        /\ inv' = [inv EXCEPT ![p] = [@ EXCEPT !.step = "served", !.body = Observed(p)]]
    BY <1>6 DEF Get
  <2>2. r \in Responses
    BY <1>1, <1>3 DEF Responses
  <2>3. responses' \subseteq Responses
    BY <2>1, <2>2 DEF ProfilesInv
  <2> QED BY <1>1, <1>4, <2>1, <2>3
<1> QED BY <1>5, <1>6

\* A step that makes, fills, closes or removes the key file.
LEMMA KeyStep ==
    ASSUME ProfilesInv, NEW p \in Invoker, NEW x \in Works, inv' = [inv EXCEPT ![p] = x],
           UNCHANGED <<profile, responses, owner, old, target, trampled>>, KeyOK',
           Fine(x, keyVars', owner, target, trampled),
           \A q \in Invoker \ {p} : Relies(inv[q], keyVars', target, trampled),
           x.print # Short \/ \A q \in Invoker \ {p} : inv[q].print # Short
    PROVE  ProfilesInv'
<1>1. \A q \in Invoker : Fine(inv[q], keyVars, owner, target, trampled)
  BY DEF ProfilesInv
<1>2. \A q \in Invoker \ {p} : Fine(inv[q], keyVars', owner', target', trampled')
  BY <1>1 DEF Fine
<1>3. Fine(x, keyVars', owner', target', trampled')
  OBVIOUS
<1>4. /\ inv' \in [Invoker -> Works]
      /\ \A q \in Invoker : Fine(inv'[q], keyVars', owner', target', trampled')
      /\ \A q, r \in Invoker : inv'[q].print = Short /\ inv'[r].print = Short => q = r
  BY <1>2, <1>3, OneInvocation
<1>5. /\ profile' \in [Profile -> Stanza \cup {NoStanza}] /\ responses' \subseteq Responses
      /\ old' \in [Artifact -> Whereabouts] /\ target' \in [Profile -> Copies]
      /\ OnlyTheOwners(target', owner') /\ KeptFor(old', target', trampled')
  BY DEF ProfilesInv
<1> QED BY <1>4, <1>5 DEF ProfilesInv

\* Who uses a key may go on: it stays, or counts among those withdrawn.
LEMMA UseGoesOn ==
    ASSUME ProfilesInv, NEW q \in Invoker, inv[q].print # Short,
           withdrawn' \in Nat, withdrawn <= withdrawn',
           hashKey \in {NoKey, Short} \/ hashKey' = hashKey \/ hashKey \in 1 .. withdrawn'
    PROVE  Relies(inv[q], keyVars', target, trampled)
<1>1. Relies(inv[q], keyVars, target, trampled) /\ withdrawn \in Nat
  BY DEF ProfilesInv, Fine, KeyOK
<1>2. /\ inv[q].print \notin {NoKey, Short} =>
           inv[q].print = hashKey \/ inv[q].print \in 1 .. withdrawn
      /\ inv[q].status["database"] = "adopted"
           => trampled \/ target[inv[q].name].state = "whole"
  BY <1>1 DEF Relies, keyVars
<1>3. inv[q].print \notin {NoKey, Short} =>
        inv[q].print = hashKey' \/ inv[q].print \in 1 .. withdrawn'
  BY <1>1, <1>2
<1> QED BY <1>2, <1>3 DEF Relies, keyVars

LEMMA KeySound ==
    ASSUME ProfilesInv, NEW p \in Invoker,
           OpenKey(p) \/ FillKey(p) \/ CloseKey(p) \/ FillFails(p)
    PROVE  ProfilesInv'
<1>0. /\ inv[p] \in Works /\ Fine(inv[p], keyVars, owner, target, trampled)
      /\ withdrawn \in Nat /\ hashKey \in {NoKey, Short, withdrawn + 1}
      /\ \A q \in Invoker : Relies(inv[q], keyVars, target, trampled)
      /\ \A q \in Invoker : inv[q].print = Short => hashKey # NoKey
  BY DEF ProfilesInv, Fine, Relies, KeyOK, keyVars
<1>1. inv[p].print = Short => \A q \in Invoker \ {p} : inv[q].print # Short
  BY DEF ProfilesInv
<1>2. UNCHANGED <<profile, responses, owner, old, target, trampled>>
  BY DEF OpenKey, FillKey, CloseKey, FillFails, keyVars
\* the process with another key
<1>3. ASSUME NEW key \in Prints, inv' = [inv EXCEPT ![p].print = key], KeyOK',
             key = hashKey', key # NoKey,
             key # Short \/ \A q \in Invoker \ {p} : inv[q].print # Short,
             \A q \in Invoker \ {p} : Relies(inv[q], keyVars', target, trampled)
      PROVE  ProfilesInv'
  <2> DEFINE x == [inv[p] EXCEPT !.print = key]
  <2>1. inv' = [inv EXCEPT ![p] = x]
    BY <1>3 DEF ProfilesInv
  <2>2. /\ x \in Works /\ x.print = key /\ x.step = inv[p].step /\ x.name = inv[p].name
        /\ x.stanza = inv[p].stanza /\ x.body = inv[p].body /\ x.status = inv[p].status
    BY <1>0 DEF Works
  <2> HIDE DEF x
  <2>3. Relies(x, keyVars', target, trampled)
    BY <1>0, <1>3, <2>2 DEF Relies, keyVars
  <2>4. Fine(x, keyVars', owner, target, trampled)
    BY <1>0, <2>2, <2>3 DEF Fine, Admitted, Migrates
  <2> QED BY <1>2, <1>3, <2>1, <2>2, <2>4, KeyStep
<1>4. CASE OpenKey(p)
  <2>1. /\ hashKey # Short /\ withdrawn' = withdrawn
        /\ hashKey' = IF hashKey = NoKey THEN Short ELSE hashKey
        /\ inv' = [inv EXCEPT ![p].print = hashKey']
    BY <1>4 DEF OpenKey
  <2>2. hashKey' \in Prints /\ hashKey' # NoKey /\ KeyOK'
    BY <1>0, <2>1 DEF Prints, KeyOK, NoKey, Short
  <2>3. CASE hashKey = NoKey
    <3>1. \A q \in Invoker \ {p} : inv[q].print # Short
      BY <1>0, <2>3
    <3>2. \A q \in Invoker \ {p} : Relies(inv[q], keyVars', target, trampled)
      BY <1>0, <2>1, <2>3, <3>1, UseGoesOn
    <3> QED BY <1>3, <2>1, <2>2, <3>1, <3>2
  <2>4. CASE hashKey # NoKey
    <3>1. keyVars' = keyVars
      BY <2>1, <2>4 DEF keyVars
    <3>2. \A q \in Invoker \ {p} : Relies(inv[q], keyVars', target, trampled)
      BY <1>0, <3>1
    <3> QED BY <1>3, <2>1, <2>2, <2>4, <3>2
  <2> QED BY <2>3, <2>4
<1>5. CASE FillKey(p)
  <2>1. /\ inv[p].print = Short /\ hashKey = Short /\ hashKey' = withdrawn + 1
        /\ withdrawn' = withdrawn /\ inv' = inv
    BY <1>5 DEF FillKey
  <2>2. KeyOK' /\ hashKey' # NoKey
    BY <1>0, <2>1 DEF KeyOK, NoKey
  <2>3. \A q \in Invoker \ {p} : Relies(inv[q], keyVars', target, trampled)
    BY <1>0, <1>1, <2>1, UseGoesOn
  <2>4. Relies(inv[p], keyVars', target, trampled)
    BY <1>0, <2>1, <2>2 DEF Relies, keyVars
  <2>5. Fine(inv[p], keyVars', owner, target, trampled)
    BY <1>0, <2>4 DEF Fine
  <2>6. inv' = [inv EXCEPT ![p] = inv[p]]
    BY <2>1 DEF ProfilesInv
  <2> QED BY <1>0, <1>1, <1>2, <2>1, <2>2, <2>3, <2>5, <2>6, KeyStep
<1>6. CASE CloseKey(p)
  <2>1. /\ inv[p].print = Short /\ hashKey # Short /\ keyVars' = keyVars
        /\ hashKey' = hashKey /\ withdrawn' = withdrawn
        /\ inv' = [inv EXCEPT ![p].print = hashKey]
    BY <1>6 DEF CloseKey, keyVars
  <2>2. hashKey \in Prints /\ hashKey # NoKey /\ KeyOK'
    BY <1>0, <2>1 DEF Prints, KeyOK, NoKey, Short
  <2>3. \A q \in Invoker \ {p} : Relies(inv[q], keyVars', target, trampled)
    BY <1>0, <2>1
  <2> QED BY <1>3, <2>1, <2>2, <2>3
<1>7. CASE FillFails(p)
  <2>1. /\ inv[p].print = Short /\ inv' = [inv EXCEPT ![p] = AtRest] /\ hashKey' = NoKey
        /\ withdrawn' = IF hashKey = Short THEN withdrawn ELSE hashKey
    BY <1>7 DEF FillFails, Ends
  <2>2. /\ KeyOK' /\ withdrawn' \in Nat /\ withdrawn <= withdrawn'
        /\ hashKey = Short \/ hashKey \in 1 .. withdrawn'
    BY <1>0, <2>1 DEF KeyOK
  <2>3. \A q \in Invoker \ {p} : Relies(inv[q], keyVars', target, trampled)
    BY <1>1, <2>1, <2>2, UseGoesOn
  <2>4. AtRest.print # Short
    BY RestIsFine DEF NoKey, Short
  <2> QED BY <1>2, <2>1, <2>2, <2>3, <2>4, RestIsFine, KeyStep
<1> QED BY <1>4, <1>5, <1>6, <1>7

\* Inspecting, adopting without a copy of one's own, and the start of a cleanup.
LEMMA SettlingSound ==
    ASSUME ProfilesInv, NEW p \in Invoker,
           \/ \E given \in SUBSET Artifact, cleanup \in BOOLEAN : Inspect(p, given, cleanup)
           \/ Adopt(p) \/ AcceptCopy(p) \/ BeginBackup(p)
    PROVE  ProfilesInv'
<1>0. /\ inv[p] \in Works /\ Fine(inv[p], keyVars, owner, target, trampled)
      /\ inv[p].step # "rest" => inv[p].name \in Profile
      /\ profile \in [Profile -> Stanza \cup {NoStanza}] /\ responses \subseteq Responses
  BY DEF ProfilesInv, Fine, Admitted
<1>1. ASSUME NEW given \in SUBSET Artifact, NEW cleanup \in BOOLEAN, Inspect(p, given, cleanup)
      PROVE  ProfilesInv'
  <2> DEFINE known == profile[inv[p].name] = inv[p].stanza
             status == [a \in Artifact |-> IF a \notin given THEN None
                                           ELSE IF old[a].path THEN "pending" ELSE "backed up"]
             x == [inv[p] EXCEPT !.step = "migrate", !.given = given, !.cleanup = cleanup,
                                 !.known = known, !.status = status]
  <2>1. inv' = [inv EXCEPT ![p] = x]
    BY <1>1 DEF Inspect, ProfilesInv
  <2>2. status \in [Artifact -> Statuses] /\ status["database"] # "adopted"
    BY DEF Statuses, Artifact, None
  <2>3. known \in BOOLEAN /\ "migrate" \in StepNames
    BY DEF StepNames
  <2> HIDE DEF known, status
  <2>4. /\ x \in Works /\ x.step = "migrate" /\ x.name = inv[p].name
        /\ x.stanza = inv[p].stanza /\ x.print = inv[p].print /\ x.body = inv[p].body
        /\ x.status = status
    BY <1>0, <2>2, <2>3 DEF Works
  <2> HIDE DEF x
  <2>5. inv[p].step # "rest"
    BY <1>1 DEF Inspect, Stands
  <2>6. Fine(x, keyVars, owner, target, trampled)
    BY <1>0, <2>2, <2>4, <2>5 DEF Fine, Admitted, Migrates, Relies, Copying
  <2>7. UNCHANGED <<profile, keyVars, responses, owner, old, target, trampled>>
    BY <1>1 DEF Inspect
  <2> QED BY <1>0, <2>1, <2>4, <2>6, <2>7, QuietStep
<1>2. CASE Adopt(p)
  <2>1. /\ inv[p].step # "rest"
        /\ UNCHANGED <<profile, keyVars, responses, owner, old, target, trampled>>
    BY <1>2 DEF Adopt, Stands
  <2>2. CASE inv[p].status["database"] \in {None, "backed up"} /\ Steps(p, "adopted")
    <3>1. MayGoOn(inv[p], "adopted", owner) /\ "adopted" \in StepNames
      BY <2>1, <2>2 DEF MayGoOn, Copying, StepNames, None
    <3> QED BY <1>0, <2>1, <2>2, <3>1, QuietGoOn
  <2>3. CASE Settle(p, "quarantined", "adopted")
    BY <2>1, <2>3, SettleStep
  <2>4. CASE Verifies(p) /\ Settle(p, "adopted", "adopted")
    <3>1. Place(p).state = "whole"
      BY <2>4 DEF Verifies
    <3> QED BY <2>1, <2>4, <3>1, SettleStep
  <2>5. CASE /\ inv[p].status["database"] = "pending" /\ ~Quarantines(p) /\ Steps(p, "copy")
    <3>1. owner = Owner(inv[p].name, inv[p].stanza.expect, TenantOf[inv[p].stanza.ref])
      BY <2>5 DEF Quarantines, Mine, Observed
    <3>2. MayGoOn(inv[p], "copy", owner) /\ "copy" \in StepNames
      BY <2>1, <2>5, <3>1 DEF MayGoOn, StepNames
    <3> QED BY <1>0, <2>1, <2>5, <3>2, QuietGoOn
  <2> QED BY <1>2, <2>2, <2>3, <2>4, <2>5 DEF Adopt
<1>3. CASE AcceptCopy(p)
  <2>1. /\ inv[p].step # "rest" /\ Place(p).state = "whole" /\ Settle(p, "adopted", "adopted")
        /\ UNCHANGED <<profile, keyVars, responses, owner, old, target, trampled>>
    BY <1>3 DEF AcceptCopy, Stands, Verifies
  <2> QED BY <2>1, SettleStep
<1>4. CASE BeginBackup(p)
  <2>1. /\ inv[p].step = "adopted" /\ Steps(p, "backup")
        /\ inv[p].status["database"] # "quarantined"
        /\ UNCHANGED <<profile, keyVars, responses, owner, old, target, trampled>>
    BY <1>4 DEF BeginBackup, Stands, Refuses
  <2>2. inv[p].status["database"] # "pending"
    BY <1>0, <2>1 DEF Fine, Migrates
  <2>3. MayGoOn(inv[p], "backup", owner) /\ "backup" \in StepNames
    BY <2>1, <2>2 DEF MayGoOn, Copying, StepNames
  <2> QED BY <1>0, <2>1, <2>3, QuietGoOn
<1> QED BY <1>1, <1>2, <1>3, <1>4

\* A step that changes the databases at the profiles' places.
LEMMA CopyStep ==
    ASSUME ProfilesInv, NEW p \in Invoker, NEW x \in Works, inv' = [inv EXCEPT ![p] = x],
           x.print \in {NoKey, inv[p].print},
           UNCHANGED <<profile, keyVars, responses, owner, old>>,
           target' \in [Profile -> Copies], OnlyTheOwners(target', owner),
           KeptFor(old, target', trampled'), Fine(x, keyVars, owner, target', trampled'),
           \A q \in Invoker \ {p} : Relies(inv[q], keyVars, target', trampled')
    PROVE  ProfilesInv'
<1>1. \A q \in Invoker : Fine(inv[q], keyVars, owner, target, trampled)
  BY DEF ProfilesInv
<1>2. \A q \in Invoker \ {p} : Fine(inv[q], keyVars', owner', target', trampled')
  BY <1>1 DEF Fine
<1>3. x.print # Short \/ \A q \in Invoker \ {p} : inv[q].print # Short
  BY DEF ProfilesInv, NoKey, Short
<1>4. Fine(x, keyVars', owner', target', trampled')
  OBVIOUS
<1>5. /\ inv' \in [Invoker -> Works]
      /\ \A q \in Invoker : Fine(inv'[q], keyVars', owner', target', trampled')
      /\ \A q, r \in Invoker : inv'[q].print = Short /\ inv'[r].print = Short => q = r
  BY <1>2, <1>3, <1>4, OneInvocation
<1>6. OnlyTheOwners(target', owner') /\ KeptFor(old', target', trampled')
  OBVIOUS
<1>7. KeyOK'
  BY KeyStays DEF ProfilesInv
<1> QED BY <1>5, <1>6, <1>7 DEF ProfilesInv

\* While no copy disappears, all who rely on one still can.
LEMMA GrowingStep ==
    ASSUME ProfilesInv, NEW p \in Invoker, NEW step \in StepNames, Steps(p, step),
           MayGoOn(inv[p], step, owner),
           UNCHANGED <<profile, keyVars, responses, owner, old, trampled>>,
           target' \in [Profile -> Copies], OnlyTheOwners(target', owner),
           \A n \in Profile : target[n].state = "whole" => target'[n].state = "whole"
    PROVE  ProfilesInv'
<1>1. \A q \in Invoker : Relies(inv[q], keyVars, target', trampled)
  <2>1. ASSUME NEW q \in Invoker PROVE Relies(inv[q], keyVars, target', trampled)
    <3>1. /\ Relies(inv[q], keyVars, target, trampled)
          /\ inv[q].status["database"] = "adopted" => inv[q].name \in Profile
      BY DEF ProfilesInv, Fine, Migrates
    <3> QED BY <3>1 DEF Relies
  <2> QED BY <2>1
<1>2. KeptFor(old, target', trampled)
  BY DEF ProfilesInv, KeptFor
<1>3. PICK x \in Works :
        /\ inv' = [inv EXCEPT ![p] = x] /\ x.print = inv[p].print
        /\ \A copies, lost : Relies(inv[p], keyVars, copies, lost)
                               => Fine(x, keyVars, owner, copies, lost)
  BY GoOn
<1>4. Fine(x, keyVars, owner, target', trampled)
  BY <1>1, <1>3
<1>5. trampled' = trampled
  OBVIOUS
<1>6. /\ KeptFor(old, target', trampled') /\ Fine(x, keyVars, owner, target', trampled')
      /\ \A q \in Invoker \ {p} : Relies(inv[q], keyVars, target', trampled')
  BY <1>1, <1>2, <1>4, <1>5
<1> QED BY <1>3, <1>6, CopyStep

LEMMA CopyingSound ==
    ASSUME ProfilesInv, NEW p \in Invoker, BeginCopy(p) \/ EndCopy(p) \/ CopyFails(p)
    PROVE  ProfilesInv'
<1>0. /\ inv[p] \in Works /\ target \in [Profile -> Copies] /\ OnlyTheOwners(target, owner)
      /\ inv[p].step \in Copying
      /\ inv[p].name \in Profile /\ inv[p].status["database"] = "pending"
      /\ owner = Owner(inv[p].name, inv[p].stanza.expect, TenantOf[inv[p].stanza.ref])
  <2>1. inv[p].step \in Copying
    BY DEF BeginCopy, EndCopy, CopyFails, Stands, Copying
  <2>2. /\ inv[p] \in Works /\ target \in [Profile -> Copies] /\ OnlyTheOwners(target, owner)
        /\ Admitted(inv[p]) /\ Migrates(inv[p], owner)
    BY DEF ProfilesInv, Fine
  <2> QED BY <2>1, <2>2 DEF Admitted, Migrates, Copying
<1>1. owner.name = inv[p].name
  BY <1>0 DEF Owner
<1>2. CASE BeginCopy(p)
  <2> DEFINE c == [state |-> "partial", by |-> p]
  <2>1. /\ target' = [target EXCEPT ![inv[p].name] = c] /\ target[inv[p].name].state = "absent"
        /\ Steps(p, "copying")
        /\ UNCHANGED <<profile, keyVars, responses, owner, old, trampled>>
    BY <1>2 DEF BeginCopy, Place
  <2>2. c \in Copies /\ c.state # "whole"
    BY DEF Copies
  <2> HIDE DEF c
  <2>3. /\ target' \in [Profile -> Copies] /\ OnlyTheOwners(target', owner)
        /\ \A n \in Profile : target[n].state = "whole" => target'[n].state = "whole"
    BY <1>0, <2>1, <2>2 DEF OnlyTheOwners
  <2>4. MayGoOn(inv[p], "copying", owner) /\ "copying" \in StepNames
    BY <1>0 DEF MayGoOn, Copying, StepNames
  <2> QED BY <2>1, <2>3, <2>4, GrowingStep
<1>3. CASE EndCopy(p)
  <2>1. /\ Steps(p, "copied") /\ UNCHANGED <<profile, keyVars, responses, owner, old, trampled>>
        /\ \/ target' = target
           \/ target' = [target EXCEPT ![inv[p].name].state = "whole"]
    BY <1>3 DEF EndCopy
  <2>2. /\ target' \in [Profile -> Copies] /\ OnlyTheOwners(target', owner)
        /\ \A n \in Profile : target[n].state = "whole" => target'[n].state = "whole"
    <3>1. CASE target' = target
      BY <1>0, <3>1
    <3>2. CASE target' = [target EXCEPT ![inv[p].name].state = "whole"]
      <4> DEFINE c == [target[inv[p].name] EXCEPT !.state = "whole"]
      <4>1. target' = [target EXCEPT ![inv[p].name] = c]
        BY <1>0, <3>2
      <4>2. c \in Copies /\ c.state = "whole"
        BY <1>0 DEF Copies
      <4> HIDE DEF c
      <4> QED BY <1>0, <1>1, <4>1, <4>2 DEF OnlyTheOwners
    <3> QED BY <2>1, <3>1, <3>2
  <2>3. MayGoOn(inv[p], "copied", owner) /\ "copied" \in StepNames
    BY <1>0 DEF MayGoOn, Copying, StepNames
  <2> QED BY <2>1, <2>2, <2>3, GrowingStep
<1>4. CASE CopyFails(p)
  <2>1. /\ target' = [target EXCEPT ![inv[p].name] = Gone]
        /\ inv' = [inv EXCEPT ![p] = AtRest]
        /\ UNCHANGED <<profile, keyVars, responses, owner, old>>
    BY <1>4 DEF CopyFails, Ends
  <2>2. trampled' = (trampled \/ (Place(p).state = "whole" /\ Relied(p)))
    BY <1>4 DEF CopyFails
  <2>3. trampled => trampled'
    BY <2>2, Zenon
  <2>4. Place(p).state = "whole" /\ Relied(p) => trampled'
    BY <2>2, Zenon
  <2>5. Gone \in Copies /\ Gone.state # "whole"
    BY DEF Gone, Copies
  <2>6. /\ target' \in [Profile -> Copies] /\ target'[inv[p].name] = Gone
        /\ \A n \in Profile : n # inv[p].name => target'[n] = target[n]
    BY <1>0, <2>1, <2>5
  <2>7. OnlyTheOwners(target', owner)
    BY <1>0, <2>5, <2>6 DEF OnlyTheOwners
  <2>8. KeptFor(old, target', trampled')
    <3>1. ASSUME old["database"].backup, ~trampled'
          PROVE  \E n \in Profile : target'[n].state = "whole"
      <4>1. ~trampled
        BY <2>3, <3>1, Zenon
      <4>2. PICK n \in Profile : target[n].state = "whole"
        BY <3>1, <4>1 DEF ProfilesInv, KeptFor
      <4>3. Relied(p)
        BY <3>1 DEF Relied
      <4>4. Place(p).state # "whole"
        BY <2>4, <3>1, <4>3, Zenon
      <4> QED BY <2>6, <4>2, <4>4 DEF Place
    <3> QED BY <3>1 DEF KeptFor
  <2>9. ASSUME NEW q \in Invoker \ {p} PROVE Relies(inv[q], keyVars, target', trampled')
    <3>1. /\ Relies(inv[q], keyVars, target, trampled)
          /\ inv[q].status["database"] = "adopted" => inv[q].name \in Profile
      BY DEF ProfilesInv, Fine, Migrates
    <3>2. ASSUME inv[q].status["database"] = "adopted", ~trampled'
          PROVE  target'[inv[q].name].state = "whole"
      <4>1. ~trampled
        BY <2>3, <3>2, Zenon
      <4>2. target[inv[q].name].state = "whole"
        BY <3>1, <3>2, <4>1 DEF Relies
      <4>3. CASE inv[q].name = inv[p].name
        <5>1. Relied(p)
          BY <3>2, <4>3 DEF Relied
        <5>2. Place(p).state = "whole"
          BY <4>2, <4>3 DEF Place
        <5> QED BY <2>4, <3>2, <5>1, <5>2, Zenon
      <4> QED BY <2>6, <3>1, <3>2, <4>2, <4>3
    <3> QED BY <3>1, <3>2 DEF Relies
  <2> QED BY <2>1, <2>6, <2>7, <2>8, <2>9, RestIsFine, CopyStep
<1> QED BY <1>2, <1>3, <1>4

\* A step that moves the old files.
LEMMA FilesStep ==
    ASSUME ProfilesInv, NEW p \in Invoker, NEW x \in Works, inv' = [inv EXCEPT ![p] = x],
           x.print \in {NoKey, inv[p].print}, Fine(x, keyVars, owner, target, trampled),
           UNCHANGED <<profile, keyVars, responses, owner, target, trampled>>,
           old' \in [Artifact -> Whereabouts], KeptFor(old', target, trampled)
    PROVE  ProfilesInv'
<1>1. \A q \in Invoker : Fine(inv[q], keyVars', owner', target', trampled')
  BY DEF ProfilesInv
<1>2. x.print # Short \/ \A q \in Invoker \ {p} : inv[q].print # Short
  BY DEF ProfilesInv, NoKey, Short
<1>3. Fine(x, keyVars', owner', target', trampled')
  OBVIOUS
<1>4. /\ inv' \in [Invoker -> Works]
      /\ \A q \in Invoker : Fine(inv'[q], keyVars', owner', target', trampled')
      /\ \A q, r \in Invoker : inv'[q].print = Short /\ inv'[r].print = Short => q = r
  BY <1>1, <1>2, <1>3, OneInvocation
<1>5. OnlyTheOwners(target', owner') /\ KeptFor(old', target', trampled') /\ KeyOK'
  BY KeyStays DEF ProfilesInv
<1> QED BY <1>4, <1>5 DEF ProfilesInv

LEMMA MovingSound ==
    ASSUME ProfilesInv, NEW p \in Invoker, MoveOld(p) \/ MoveFails(p)
    PROVE  ProfilesInv'
<1>0. /\ inv[p] \in Works /\ inv[p].step = "backup" /\ old \in [Artifact -> Whereabouts]
      /\ Fine(inv[p], keyVars, owner, target, trampled) /\ KeptFor(old, target, trampled)
      /\ "database" \in Artifact
  BY DEF MoveOld, MoveFails, Stands, ProfilesInv, Artifact
<1>1. CASE MoveOld(p)
  <2>1. PICK a \in ToMove(p) :
          old' = Moved(a) /\ inv' = [inv EXCEPT ![p].moved = @ \cup {a}]
    BY <1>1 DEF MoveOld
  <2> DEFINE x == [inv[p] EXCEPT !.moved = inv[p].moved \cup {a}]
             f == [path |-> FALSE, backup |-> TRUE]
  <2>2. a \in Artifact /\ inv[p].status[a] \notin {None, "backed up"}
    BY <2>1 DEF ToMove
  <2>3. inv[p].moved \cup {a} \in SUBSET Artifact
    BY <1>0, <2>2 DEF Works
  <2>4. inv' = [inv EXCEPT ![p] = x]
    BY <2>1 DEF ProfilesInv
  <2>5. /\ x \in Works /\ x.step = inv[p].step /\ x.name = inv[p].name
        /\ x.stanza = inv[p].stanza /\ x.print = inv[p].print /\ x.body = inv[p].body
        /\ x.status = inv[p].status
    BY <1>0, <2>3 DEF Works
  <2> HIDE DEF x
  <2>6. Fine(x, keyVars, owner, target, trampled)
    BY <1>0, <2>5 DEF Fine, Admitted, Migrates, Relies
  <2>7. old' = [old EXCEPT ![a] = f] /\ f \in Whereabouts
    BY <2>1 DEF Moved, Whereabouts
  <2> HIDE DEF f
  <2>8. old' \in [Artifact -> Whereabouts]
    BY <1>0, <2>7
  <2>9. KeptFor(old', target, trampled)
    <3>1. CASE a = "database"
      <4>1. inv[p].status \in [Artifact -> Statuses]
        BY <1>0 DEF Works
      <4>2. inv[p].status["database"] = "adopted"
        BY <1>0, <2>2, <3>1, <4>1 DEF Fine, Migrates, Statuses
      <4>3. /\ inv[p].name \in Profile
            /\ trampled \/ target[inv[p].name].state = "whole"
        BY <1>0, <4>2 DEF Fine, Migrates, Relies
      <4> QED BY <4>3 DEF KeptFor
    <3>2. CASE a # "database"
      <4>1. old'["database"] = old["database"]
        BY <1>0, <2>7, <3>2
      <4> QED BY <1>0, <4>1 DEF KeptFor
    <3> QED BY <3>1, <3>2
  <2>10. UNCHANGED <<profile, keyVars, responses, owner, target, trampled>>
    BY <1>1 DEF MoveOld
  <2> QED BY <2>4, <2>5, <2>6, <2>8, <2>9, <2>10, FilesStep
<1>2. CASE MoveFails(p)
  <2>1. /\ old' = [a \in Artifact |-> IF a \in inv[p].moved /\ old[a].backup
                                      THEN [path |-> TRUE, backup |-> FALSE] ELSE old[a]]
        /\ inv' = [inv EXCEPT ![p] = AtRest]
        /\ UNCHANGED <<profile, keyVars, responses, owner, target, trampled>>
    BY <1>2 DEF MoveFails, Ends
  <2>2. old' \in [Artifact -> Whereabouts]
    BY <1>0, <2>1 DEF Whereabouts
  <2>3. KeptFor(old', target, trampled)
    <3>1. old'["database"].backup => old["database"].backup
      BY <1>0, <2>1
    <3> QED BY <1>0, <3>1 DEF KeptFor
  <2> QED BY <2>1, <2>2, <2>3, RestIsFine, FilesStep
<1> QED BY <1>1, <1>2

LEMMA ProfilesStep == ProfilesInv /\ [ProfilesNext]_profilesVars => ProfilesInv'
<1> SUFFICES ASSUME ProfilesInv, [ProfilesNext]_profilesVars PROVE ProfilesInv'
  OBVIOUS
<1>1. ASSUME NEW n \in Profile, DeleteProfile(n) \/ ClearCache(n) PROVE ProfilesInv'
  <2>1. UNCHANGED <<keyVars, owner, old, target, inv, trampled>>
    BY <1>1 DEF DeleteProfile, ClearCache
  <2>2. profile' \in [Profile -> Stanza \cup {NoStanza}] /\ responses' \subseteq Responses
    BY <1>1 DEF DeleteProfile, ClearCache, Replaced, ProfilesInv
  <2>3. KeyOK'
    BY <2>1, KeyStays DEF ProfilesInv
  <2> QED BY <2>1, <2>2, <2>3 DEF ProfilesInv
<1>2. ASSUME NEW p \in Invoker,
             \/ \E n \in Profile :
                  Prepare(p, n) \/ \E stanza \in Stanza : BeginWrite(p, n, stanza)
             \/ Verify(p, "prepared", "verified") \/ Get(p)
             \/ OpenKey(p) \/ FillKey(p) \/ CloseKey(p) \/ FillFails(p)
             \/ SaveProfile(p, "saving", "saved") \/ GiveUpOn(p)
      PROVE  ProfilesInv'
  BY <1>2, GateSound, GetSound, KeySound
<1>3. ASSUME NEW p \in Invoker,
             \/ \E n \in Profile, stanza \in Stanza : BeginMigrate(p, n, stanza)
             \/ OpenKey(p) \/ FillKey(p) \/ CloseKey(p) \/ FillFails(p)
             \/ MigrateStep(p) \/ GiveUpOn(p)
      PROVE  ProfilesInv'
  BY <1>3, GateSound, KeySound, SettlingSound, CopyingSound, MovingSound DEF MigrateStep
<1>4. CASE UNCHANGED profilesVars
  <2>1. UNCHANGED keyVars /\ KeyOK'
    BY <1>4, KeyStays DEF profilesVars, ProfilesInv
  <2> QED BY <1>4, <2>1 DEF profilesVars, ProfilesInv
<1> QED BY <1>1, <1>2, <1>3, <1>4 DEF ProfilesNext, GateNext, MigrateNext

(* Behind the gate everybody is served the tenant's own responses, and all *)
(* fingerprints are made with the key on disk or with one that its maker   *)
(* removed as it could not be closed, for any profiles, tenants,           *)
(* credentials and processes, whatever changes in the profiles meanwhile   *)
(* and wherever a process gives up or dies.                                *)
THEOREM ServedOwnTenantCorrect == ProfilesSpec => []ServedOwnTenant
<1>1. ProfilesInv => ServedOwnTenant
  BY DEF ProfilesInv, Fine, Admitted, Relies, ServedOwnTenant, keyVars
<1> QED BY <1>1, ProfilesInitSound, ProfilesStep, PTL DEF ProfilesSpec

(* A migration loses no old file, copies only what the owner record        *)
(* allows, and moves the old database away only behind a copy, unless a    *)
(* failed migration has removed that copy: for any number of migrations at *)
(* a time, however they interleave, fail and die.                          *)
THEOREM AdoptionKeepsCorrect == ProfilesSpec => []AdoptionKeeps
<1>1. ProfilesInv => AdoptionKeeps
  BY DEF ProfilesInv, Whereabouts, OnlyTheOwners, KeptFor, AdoptionKeeps
<1> QED BY <1>1, ProfilesInitSound, ProfilesStep, PTL DEF ProfilesSpec

\* The bound on what is left to invoke.
InvocationsLeft == invocationsLeft \in 0 .. Invocations

LEMMA InvocationsStep == InvocationsLeft /\ [ProfilesNext]_profilesVars => InvocationsLeft'
<1> SUFFICES ASSUME InvocationsLeft, [ProfilesNext]_profilesVars PROVE InvocationsLeft'
  OBVIOUS
<1>1. ASSUME NEW p \in Invoker, NEW n, NEW step, NEW stanza, Invoke(p, n, step, stanza)
      PROVE  InvocationsLeft'
  BY <1>1, ProfilesAssumption DEF Invoke, InvocationsLeft
<1>2. ASSUME NEW p \in Invoker,
             \/ \E n \in Profile : \/ Prepare(p, n)
                                   \/ \E stanza \in Stanza :
                                        BeginWrite(p, n, stanza) \/ BeginMigrate(p, n, stanza)
      PROVE  InvocationsLeft'
  BY <1>1, <1>2 DEF Prepare, BeginWrite, BeginMigrate
<1>3. ASSUME NEW p \in Invoker,
             \/ Verify(p, "prepared", "verified") \/ Get(p)
             \/ OpenKey(p) \/ FillKey(p) \/ CloseKey(p) \/ FillFails(p)
             \/ SaveProfile(p, "saving", "saved") \/ GiveUpOn(p)
      PROVE  invocationsLeft' = invocationsLeft
  BY <1>3 DEF Verify, Get, OpenKey, FillKey, CloseKey, FillFails, SaveProfile, GiveUpOn
<1>4. ASSUME NEW p \in Invoker, MigrateStep(p)
      PROVE  invocationsLeft' = invocationsLeft
  BY <1>4 DEF MigrateStep, Inspect, Verify, SaveProfile, KeepProfile, Adopt, BeginCopy, EndCopy,
              AcceptCopy, CopyFails, BeginBackup, MoveOld, MoveFails
<1>5. ASSUME NEW n \in Profile, DeleteProfile(n) \/ ClearCache(n)
      PROVE  invocationsLeft' = invocationsLeft
  BY <1>5 DEF DeleteProfile, ClearCache
<1>6. CASE UNCHANGED profilesVars
  BY <1>6 DEF profilesVars, InvocationsLeft
<1>7. CASE GateNext
  BY <1>2, <1>3, <1>5, <1>7 DEF GateNext, InvocationsLeft
<1>8. CASE MigrateNext
  BY <1>2, <1>3, <1>4, <1>8 DEF MigrateNext, InvocationsLeft
<1> QED BY <1>6, <1>7, <1>8 DEF ProfilesNext

LEMMA ProfilesTypeMeans == ProfilesInv /\ InvocationsLeft => ProfilesTypeOK
<1> SUFFICES ASSUME ProfilesInv, InvocationsLeft PROVE ProfilesTypeOK
  OBVIOUS
<1>1. \A r \in responses : r.of \in Tenant
  BY DEF ProfilesInv, Responses
<1>2. \A n \in Profile : target[n].state \in {"absent", "other", "partial", "whole"}
  BY DEF ProfilesInv, Copies
<1> QED BY <1>1, <1>2 DEF ProfilesInv, InvocationsLeft, ProfilesTypeOK

-----------------------------------------------------------------------------
(* StoreSchema                                                             *)

USE DEF OpenerState

(***************************************************************************)
(* The inductive invariant.  A committed file is consistent with its       *)
(* stamp; the lock holder's work is exactly what its steps so far make of  *)
(* the committed file, for nobody else writes while it holds the lock; and *)
(* the version it acts on is the committed one, because it read it again   *)
(* inside the lock.                                                        *)
(***************************************************************************)
Consistent(d) ==
    /\ d \in Database
    /\ d.version >= CompositeKeyRelease => d.key = "pair"
    /\ d.version > CompositeKeyRelease => d.ftsKey = "pair"
    /\ d.version >= ContentRelease => d.content = "leaves"
    /\ d.tables >= d.version
    /\ d.indexed \subseteq d.rows

WithContent(d, seen) == IF NeedsContent(seen) THEN FTSContent(d) ELSE d

\* What a migration to release r has made of d when it is at a step.
Staged(d, r, step) ==
    LET keyed   == Keyed(d, d.version)
        tabled  == Tabled(keyed, r)
        filled  == WithContent(tabled, d.version)
    IN IF step \in {"locked", "keys"} THEN d
       ELSE IF step = "tables" THEN keyed
       ELSE IF step = "content" THEN tabled
       ELSE IF step = "stamp" THEN filled
       ELSE [filled EXCEPT !.version = r]

HolderInv(p) ==
    opener[p].step \in Migrating =>
        /\ work = Staged(file, opener[p].release, opener[p].step)
        /\ opener[p].step # "locked" =>
              opener[p].seen = file.version /\ file.version <= opener[p].release

OpenInv(p) ==
    opener[p].step = "open" =>
        file.tables >= opener[p].release /\ file.key = "pair" /\ file.ftsKey = "pair"

SchemaInv ==
    /\ SchemaTypeOK
    /\ Consistent(file)
    /\ \A p \in Opener : HolderInv(p) /\ OpenInv(p)

-----------------------------------------------------------------------------
(* The steps of a migration, as functions of the database                  *)

LEMMA VersionsAreNumbers ==
    /\ Found \cup Release \subseteq Nat
    /\ \A d \in Database : d.version \in Nat /\ d.tables \in Nat
    /\ \A r \in Release : r \in Nat /\ r >= ContentRelease
  BY SchemaAssumption DEF Database

LEMMA RebuiltTyped ==
    ASSUME NEW d \in Database
    PROVE  /\ Rebuilt(d) \in Database
           /\ Rebuilt(d).version = d.version /\ Rebuilt(d).tables = d.tables
           /\ Rebuilt(d).key = d.key /\ Rebuilt(d).ftsKey = "pair"
           /\ Rebuilt(d).content = "leaves"
           /\ Rebuilt(d).rows = d.rows /\ Rebuilt(d).indexed = d.rows
<1>1. Rebuilt(d) \in Database
  BY DEF Rebuilt, Database
<1>2. /\ Rebuilt(d).version = d.version /\ Rebuilt(d).tables = d.tables
      /\ Rebuilt(d).key = d.key /\ Rebuilt(d).ftsKey = "pair"
      /\ Rebuilt(d).content = "leaves"
      /\ Rebuilt(d).rows = d.rows /\ Rebuilt(d).indexed = d.rows
  BY DEF Rebuilt, Database
<1> QED BY <1>1, <1>2

LEMMA RekeyedTyped ==
    ASSUME NEW d \in Database
    PROVE  /\ Rekeyed(d) \in Database
           /\ Rekeyed(d).version = d.version /\ Rekeyed(d).tables = d.tables
           /\ Rekeyed(d).key = "pair" /\ Rekeyed(d).ftsKey = d.ftsKey
           /\ Rekeyed(d).content = d.content
           /\ Rekeyed(d).rows = d.rows /\ Rekeyed(d).indexed = d.indexed
<1>1. CASE d.key = "pair"
  BY <1>1 DEF Rekeyed
<1>2. CASE d.key # "pair"
  <2>1. Rekeyed(d) = [version |-> d.version, tables |-> d.tables, key |-> "pair",
                      ftsKey |-> d.ftsKey, content |-> d.content, rows |-> d.rows,
                      indexed |-> d.indexed]
    BY <1>2 DEF Rekeyed, Database
  <2> QED BY <2>1 DEF Database
<1> QED BY <1>1, <1>2

\* The keys come out right wherever the migration starts from.
LEMMA KeyedSound ==
    ASSUME NEW d, Consistent(d)
    PROVE  /\ Keyed(d, d.version) \in Database
           /\ Keyed(d, d.version).version = d.version
           /\ Keyed(d, d.version).tables = d.tables
           /\ Keyed(d, d.version).rows = d.rows
           /\ d.indexed \subseteq Keyed(d, d.version).indexed
           /\ Keyed(d, d.version).indexed \subseteq d.rows
           /\ Keyed(d, d.version).key \in {"absent", "pair"}
           /\ d.version >= CompositeKeyRelease => Keyed(d, d.version).ftsKey = "pair"
           /\ d.version >= ContentRelease => Keyed(d, d.version).content = "leaves"
<1>0. d \in Database /\ d.version \in Nat /\ d.key \in {"absent", "id", "pair"}
      /\ d.indexed \subseteq d.rows
  BY VersionsAreNumbers DEF Consistent, Database
<1>1. CASE d.key = "absent"
  <2>1. d.version < CompositeKeyRelease
    BY <1>0, <1>1 DEF Consistent, CompositeKeyRelease
  <2>2. Keyed(d, d.version) = d
    BY <1>1, <2>1 DEF Keyed, CompositeKey
  <2> QED BY <1>0, <1>1, <2>1, <2>2 DEF CompositeKeyRelease, ContentRelease
<1>2. CASE d.key # "absent" /\ d.version < CompositeKeyRelease
  <2>1. Keyed(d, d.version) = Rebuilt(Rekeyed(d))
    BY <1>2 DEF Keyed, CompositeKey
  <2> QED BY <1>0, <1>2, <2>1, RekeyedTyped, RebuiltTyped
<1>3. CASE d.key # "absent" /\ d.version = CompositeKeyRelease
  <2>1. Keyed(d, d.version) = Rebuilt(d)
    BY <1>3 DEF Keyed, FTSRowIDs, CompositeKeyRelease
  <2>2. d.key = "pair"
    BY <1>3 DEF Consistent, CompositeKeyRelease
  <2> QED BY <1>0, <2>1, <2>2, RebuiltTyped
<1>4. CASE d.version > CompositeKeyRelease
  <2>1. Keyed(d, d.version) = d
    BY <1>0, <1>4 DEF Keyed, CompositeKeyRelease
  <2> QED BY <1>0, <1>4, <2>1 DEF Consistent, CompositeKeyRelease
<1> QED BY <1>0, <1>1, <1>2, <1>3, <1>4 DEF CompositeKeyRelease

LEMMA TabledSound ==
    ASSUME NEW d \in Database, NEW r \in Release, d.key \in {"absent", "pair"}
    PROVE  /\ Tabled(d, r) \in Database
           /\ Tabled(d, r).version = d.version
           /\ Tabled(d, r).tables >= r /\ Tabled(d, r).tables >= d.tables
           /\ Tabled(d, r).rows = d.rows /\ Tabled(d, r).indexed = d.indexed
           /\ Tabled(d, r).key = "pair"
           /\ d.ftsKey = "pair" => Tabled(d, r).ftsKey = "pair"
           /\ d.content = "leaves" => Tabled(d, r).content = "leaves"
<1>1. Tabled(d, r) \in Database
  BY DEF Tabled, Database
<1>2. /\ Tabled(d, r).version = d.version
      /\ Tabled(d, r).rows = d.rows /\ Tabled(d, r).indexed = d.indexed
      /\ Tabled(d, r).key = "pair"
      /\ d.ftsKey = "pair" => Tabled(d, r).ftsKey = "pair"
      /\ d.content = "leaves" => Tabled(d, r).content = "leaves"
      /\ Tabled(d, r).tables = IF r > d.tables THEN r ELSE d.tables
  BY DEF Tabled, Database
<1> QED BY <1>1, <1>2, VersionsAreNumbers

\* The finished work is consistent with the release it is stamped for.
LEMMA StagedSound ==
    ASSUME NEW d, Consistent(d), NEW r \in Release, d.version <= r, NEW step
    PROVE  /\ Staged(d, r, step) \in Database
           /\ step = "commit" =>
                LET e == Staged(d, r, step)
                IN  /\ Consistent(e)
                    /\ e.version = r /\ e.tables >= r /\ e.tables >= d.tables
                    /\ e.key = "pair" /\ e.ftsKey = "pair"
                    /\ e.rows = d.rows /\ d.indexed \subseteq e.indexed
<1> DEFINE keyed == Keyed(d, d.version)
           tabled == Tabled(keyed, r)
           filled == WithContent(tabled, d.version)
           stamped == [filled EXCEPT !.version = r]
<1>0. d \in Database /\ d.version \in Nat /\ r \in Nat /\ r >= ContentRelease
      /\ d.tables \in Nat
  BY VersionsAreNumbers DEF Consistent
<1>1. /\ keyed \in Database /\ keyed.tables = d.tables /\ keyed.version = d.version
      /\ keyed.rows = d.rows /\ d.indexed \subseteq keyed.indexed
      /\ keyed.indexed \subseteq d.rows /\ keyed.key \in {"absent", "pair"}
      /\ d.version >= CompositeKeyRelease => keyed.ftsKey = "pair"
      /\ d.version >= ContentRelease => keyed.content = "leaves"
  BY KeyedSound
<1>2. /\ tabled \in Database /\ tabled.version = d.version
      /\ tabled.tables >= r /\ tabled.tables >= d.tables
      /\ tabled.rows = d.rows /\ tabled.indexed = keyed.indexed /\ tabled.key = "pair"
      /\ d.version >= CompositeKeyRelease => tabled.ftsKey = "pair"
      /\ d.version >= ContentRelease => tabled.content = "leaves"
  <2> HIDE DEF keyed
  <2> QED BY <1>0, <1>1, TabledSound
<1> HIDE DEF keyed, tabled
<1>3. /\ filled \in Database /\ filled.version = d.version
      /\ filled.tables = tabled.tables /\ filled.rows = d.rows
      /\ d.indexed \subseteq filled.indexed /\ filled.indexed \subseteq d.rows
      /\ filled.key = "pair" /\ filled.ftsKey = "pair" /\ filled.content = "leaves"
  <2>1. CASE d.version < ContentRelease
    <3>1. filled = Rebuilt(tabled)
      BY <2>1, <1>2 DEF WithContent, NeedsContent, FTSContent
    <3> QED BY <1>1, <1>2, <3>1, RebuiltTyped DEF Consistent
  <2>2. CASE d.version >= ContentRelease
    <3>1. filled = tabled
      BY <1>0, <2>2 DEF WithContent, NeedsContent, ContentRelease
    <3> QED BY <1>0, <1>1, <1>2, <2>2, <3>1 DEF CompositeKeyRelease, ContentRelease
  <2> QED BY <1>0, <2>1, <2>2 DEF ContentRelease
<1> HIDE DEF filled
<1>4. stamped = [version |-> r, tables |-> filled.tables, key |-> filled.key,
                 ftsKey |-> filled.ftsKey, content |-> filled.content,
                 rows |-> filled.rows, indexed |-> filled.indexed]
  BY <1>3 DEF Database
<1>5. stamped \in Database
  BY <1>3, <1>4 DEF Database
<1> HIDE DEF stamped
<1>6. Staged(d, r, step) \in {d, keyed, tabled, filled, stamped}
  BY DEF Staged, keyed, tabled, filled, stamped
<1>7. step = "commit" => Staged(d, r, step) = stamped
  BY DEF Staged, keyed, tabled, filled, stamped
<1>8. Consistent(stamped)
  BY <1>0, <1>2, <1>3, <1>4, <1>5 DEF Consistent
<1> QED BY <1>0, <1>1, <1>2, <1>3, <1>4, <1>5, <1>6, <1>7, <1>8

-----------------------------------------------------------------------------
(* The specification                                                       *)

LEMMA SchemaInitSound == SchemaInit => SchemaInv
<1> SUFFICES ASSUME SchemaInit PROVE SchemaInv
  OBVIOUS
<1>1. PICK v \in Found : file \in Shapes(v)
  BY DEF SchemaInit
<1>2. Consistent(file)
  BY <1>1, SchemaAssumption
     DEF Shapes, Consistent, Database, CompositeKeyRelease, ContentRelease
<1>3. \A p \in Opener : \E r \in Release : opener[p] = Shut(r, Opens)
  BY DEF SchemaInit
<1>4. opener \in [Opener -> OpenerState]
  <2>1. {Shut(r, Opens) : r \in Release} \subseteq OpenerState
    BY SchemaAssumption DEF Shut
  <2> QED BY <2>1 DEF SchemaInit
<1>5. ASSUME NEW p \in Opener PROVE opener[p].step = "shut"
  <2>1. PICK r \in Release : opener[p] = Shut(r, Opens) BY <1>3
  <2> QED BY <2>1 DEF Shut
<1>6. SchemaTypeOK
  BY <1>2, <1>4, <1>5, SchemaAssumption
     DEF SchemaTypeOK, SchemaInit, Consistent, Migrating
<1> QED BY <1>2, <1>5, <1>6 DEF SchemaInv, HolderInv, OpenInv, Migrating

\* The type of an opener, and what moving one of them to another step leaves.
LEMMA GoToSound ==
    ASSUME SchemaTypeOK, NEW p \in Opener,
           NEW step \in {"shut", "connected", "waiting", "open"} \cup Migrating, GoTo(p, step)
    PROVE  /\ opener' \in [Opener -> OpenerState]
           /\ \A q \in Opener : opener'[q].release = opener[q].release
                                /\ opener'[q].seen = opener[q].seen
           /\ opener'[p].step = step
           /\ \A q \in Opener \ {p} : opener'[q] = opener[q]
  BY DEF SchemaTypeOK, GoTo

\* A step outside the lock, to a step outside the lock, with the file as it was.
LEMMA OutsideSound ==
    ASSUME SchemaInv, NEW p \in Opener, UNCHANGED <<file, holder, work>>,
           opener' \in [Opener -> OpenerState],
           opener[p].step \notin Migrating,
           opener'[p].step \in {"shut", "connected", "waiting"},
           \A q \in Opener \ {p} : opener'[q] = opener[q]
    PROVE  SchemaInv'
<1>1. SchemaTypeOK'
  BY DEF SchemaInv, SchemaTypeOK, Migrating
<1>2. ASSUME NEW q \in Opener PROVE HolderInv(q)' /\ OpenInv(q)'
  <2>1. CASE q = p
    BY <2>1 DEF HolderInv, OpenInv, Migrating
  <2>2. CASE q # p
    BY <2>2 DEF SchemaInv, HolderInv, OpenInv
  <2> QED BY <2>1, <2>2
<1> QED BY <1>1, <1>2 DEF SchemaInv

\* The lock holder's next step, with the committed file as it was.
LEMMA InsideSound ==
    ASSUME SchemaInv, NEW p \in Opener, UNCHANGED <<file, holder>>,
           opener' \in [Opener -> OpenerState],
           opener[p].step \in Migrating,
           opener'[p].step \in Migrating,
           opener'[p].release = opener[p].release,
           opener'[p].seen = file.version, file.version <= opener[p].release,
           work' = Staged(file, opener[p].release, opener'[p].step),
           \A q \in Opener \ {p} : opener'[q] = opener[q]
    PROVE  SchemaInv'
<1>1. work' \in Database
  BY StagedSound DEF SchemaInv, SchemaTypeOK
<1>2. SchemaTypeOK'
  BY <1>1 DEF SchemaInv, SchemaTypeOK
<1>3. holder = p /\ \A q \in Opener \ {p} : opener[q].step \notin Migrating
  BY DEF SchemaInv, SchemaTypeOK
<1>4. ASSUME NEW q \in Opener PROVE HolderInv(q)' /\ OpenInv(q)'
  <2>1. CASE q = p
    BY <2>1 DEF HolderInv, OpenInv, Migrating
  <2>2. CASE q # p
    BY <1>3, <2>2 DEF SchemaInv, HolderInv, OpenInv
  <2> QED BY <2>1, <2>2
<1> QED BY <1>2, <1>4 DEF SchemaInv

\* ROLLBACK.
LEMMA AbandonSound ==
    ASSUME SchemaInv, NEW p \in Opener, opener[p].step \in Migrating, Abandon(p)
    PROVE  SchemaInv' /\ file' = file
<1>1. /\ opener' \in [Opener -> OpenerState]
      /\ opener'[p].step = "shut" /\ \A q \in Opener \ {p} : opener'[q] = opener[q]
  BY GoToSound DEF Abandon, SchemaInv
<1>2. /\ holder = p /\ holder' = NoOpener /\ work' = file /\ file' = file
      /\ \A q \in Opener \ {p} : opener[q].step \notin Migrating
  BY DEF Abandon, SchemaInv, SchemaTypeOK
<1>3. SchemaTypeOK'
  BY <1>1, <1>2, SchemaAssumption DEF SchemaInv, SchemaTypeOK, Migrating
<1>4. ASSUME NEW q \in Opener PROVE HolderInv(q)' /\ OpenInv(q)'
  <2>1. CASE q = p
    BY <1>1, <2>1 DEF HolderInv, OpenInv, Migrating
  <2>2. CASE q # p
    BY <1>1, <1>2, <2>2 DEF SchemaInv, HolderInv, OpenInv
  <2> QED BY <2>1, <2>2
<1> QED BY <1>2, <1>3, <1>4 DEF SchemaInv

LEMMA BeginSound ==
    ASSUME SchemaInv, NEW p \in Opener, BeginMigration(p)
    PROVE  SchemaInv' /\ file' = file
<1>1. /\ opener' \in [Opener -> OpenerState]
      /\ opener'[p].step = "locked" /\ \A q \in Opener \ {p} : opener'[q] = opener[q]
  BY GoToSound DEF BeginMigration, SchemaInv, Migrating
<1>2. /\ holder' = p /\ work' = file /\ file' = file
      /\ \A q \in Opener : opener[q].step \notin Migrating
  BY SchemaAssumption DEF BeginMigration, SchemaInv, SchemaTypeOK
<1>3. SchemaTypeOK'
  BY <1>1, <1>2 DEF SchemaInv, SchemaTypeOK, Migrating
<1>4. ASSUME NEW q \in Opener PROVE HolderInv(q)' /\ OpenInv(q)'
  <2>1. CASE q = p
    BY <1>1, <1>2, <2>1 DEF HolderInv, OpenInv, Staged, Migrating
  <2>2. CASE q # p
    BY <1>1, <1>2, <2>2 DEF SchemaInv, HolderInv, OpenInv
  <2> QED BY <2>1, <2>2
<1> QED BY <1>2, <1>3, <1>4 DEF SchemaInv

\* The steps between the lock and the commit.
LEMMA MigrationWorkSound ==
    ASSUME SchemaInv, NEW p \in Opener,
           Reread(p) \/ MigrateKeys(p) \/ CreateTables(p) \/ MigrateContent(p) \/ Stamp(p)
    PROVE  SchemaInv' /\ file' = file
<1> DEFINE r == opener[p].release
           moved(step) == /\ opener' \in [Opener -> OpenerState]
                          /\ opener'[p].step = step
                          /\ opener'[p].release = r
                          /\ \A q \in Opener \ {p} : opener'[q] = opener[q]
<1>0. /\ HolderInv(p) /\ SchemaTypeOK /\ r \in Release /\ r \in Nat
      /\ file.version \in Nat /\ file.version \in Found \cup Release
  BY VersionsAreNumbers DEF SchemaInv, SchemaTypeOK, Database
<1>1. CASE Reread(p)
  <2>1. work = file
    BY <1>0, <1>1 DEF Reread, AtStep, HolderInv, Staged, Migrating
  <2>2. CASE work.version > r
    BY <1>1, <2>2, AbandonSound DEF Reread, AtStep, Migrating
  <2>3. CASE ~(work.version > r)
    <3>1. /\ moved("keys") /\ opener'[p].seen = file.version
          /\ UNCHANGED <<file, holder, work>> /\ opener[p].step = "locked"
      BY <1>0, <1>1, <2>1, <2>3 DEF Reread, AtStep, SchemaTypeOK, Migrating
    <3>2. work' = Staged(file, r, "keys")
      BY <2>1, <3>1 DEF Staged
    <3> QED BY <1>0, <2>1, <2>3, <3>1, <3>2, InsideSound DEF Migrating
  <2> QED BY <2>2, <2>3
<1>2. CASE MigrateKeys(p)
  <2>1. /\ moved("tables") /\ opener'[p].seen = opener[p].seen
        /\ UNCHANGED <<file, holder>> /\ opener[p].step = "keys"
    BY <1>0, <1>2, GoToSound DEF MigrateKeys, AtStep, Migrating
  <2>2. opener[p].seen = file.version /\ file.version <= r /\ work = file
    BY <1>0, <2>1 DEF HolderInv, Staged, Migrating
  <2>3. work' = Staged(file, r, "tables")
    BY <1>2, <2>2 DEF MigrateKeys, Staged
  <2> QED BY <2>1, <2>2, <2>3, InsideSound DEF Migrating
<1>3. CASE CreateTables(p)
  <2>1. /\ moved("content") /\ opener'[p].seen = opener[p].seen
        /\ UNCHANGED <<file, holder>> /\ opener[p].step = "tables"
    BY <1>0, <1>3, GoToSound DEF CreateTables, AtStep, Migrating
  <2>2. opener[p].seen = file.version /\ file.version <= r /\ work = Staged(file, r, "tables")
    BY <1>0, <2>1 DEF HolderInv, Migrating
  <2>3. work' = Staged(file, r, "content")
    BY <1>3, <2>2 DEF CreateTables, Staged
  <2> QED BY <2>1, <2>2, <2>3, InsideSound DEF Migrating
<1>4. CASE MigrateContent(p)
  <2>1. /\ moved("stamp") /\ opener'[p].seen = opener[p].seen
        /\ UNCHANGED <<file, holder>> /\ opener[p].step = "content"
    BY <1>0, <1>4, GoToSound DEF MigrateContent, AtStep, Migrating
  <2>2. opener[p].seen = file.version /\ file.version <= r /\ work = Staged(file, r, "content")
    BY <1>0, <2>1 DEF HolderInv, Migrating
  <2>3. work' = Staged(file, r, "stamp")
    BY <1>4, <2>2 DEF MigrateContent, Staged, WithContent
  <2> QED BY <2>1, <2>2, <2>3, InsideSound DEF Migrating
<1>5. CASE Stamp(p)
  <2>1. /\ moved("commit") /\ opener'[p].seen = opener[p].seen
        /\ UNCHANGED <<file, holder>> /\ opener[p].step = "stamp"
    BY <1>0, <1>5, GoToSound DEF Stamp, AtStep, Migrating
  <2>2. opener[p].seen = file.version /\ file.version <= r /\ work = Staged(file, r, "stamp")
    BY <1>0, <2>1 DEF HolderInv, Migrating
  <2>3. work' = Staged(file, r, "commit")
    BY <1>5, <2>2 DEF Stamp, Staged
  <2> QED BY <2>1, <2>2, <2>3, InsideSound DEF Migrating
<1> QED BY <1>1, <1>2, <1>3, <1>4, <1>5

-----------------------------------------------------------------------------
(* The file changes                                                        *)

\* What one step may do to the committed file: the action of MigrationKeeps.
Keeps ==
    /\ file.rows \subseteq file'.rows /\ file.indexed \subseteq file'.indexed
    /\ file'.version >= file.version
    /\ \A p \in Opener : holder = p /\ file' # file => opener[p].release >= file.version

\* The commit publishes work that is consistent with its stamp, and whoever has
\* the store open still finds its tables.
LEMMA CommitSound ==
    ASSUME SchemaInv, NEW p \in Opener, CommitMigration(p)
    PROVE  SchemaInv' /\ Keeps
<1> DEFINE r == opener[p].release
<1>0. /\ opener[p].step = "commit" /\ r \in Release /\ HolderInv(p) /\ Consistent(file)
      /\ SchemaTypeOK
  BY DEF CommitMigration, AtStep, SchemaInv, SchemaTypeOK
<1>1. file.version <= r /\ work = Staged(file, r, "commit") /\ file' = work /\ work' = work
      /\ holder' = NoOpener
  BY <1>0 DEF HolderInv, CommitMigration, Migrating
<1>2. /\ Consistent(file') /\ file' \in Database /\ work' \in Database
      /\ file'.version = r /\ file'.tables >= r /\ file'.tables >= file.tables
      /\ file'.key = "pair" /\ file'.ftsKey = "pair"
      /\ file'.rows = file.rows /\ file.indexed \subseteq file'.indexed
  BY <1>0, <1>1, StagedSound DEF Consistent
<1>3. /\ opener' \in [Opener -> OpenerState]
      /\ opener'[p].step = "open" /\ opener'[p].release = r
      /\ \A q \in Opener \ {p} : opener'[q] = opener[q]
  BY <1>0, GoToSound DEF CommitMigration
<1>4. holder = p /\ \A q \in Opener \ {p} : opener[q].step \notin Migrating
  BY <1>0 DEF SchemaTypeOK, Migrating
<1>5. SchemaTypeOK'
  BY <1>1, <1>2, <1>3, <1>4, SchemaAssumption DEF SchemaTypeOK, Migrating
<1>6. ASSUME NEW q \in Opener PROVE HolderInv(q)' /\ OpenInv(q)'
  <2>1. CASE q = p
    BY <1>2, <1>3, <2>1 DEF HolderInv, OpenInv, Migrating
  <2>2. CASE q # p
    <3>1. HolderInv(q)'
      BY <1>3, <1>4, <2>2 DEF HolderInv
    <3>2. opener[q].step = "open" => file.tables >= opener[q].release
      BY DEF SchemaInv, OpenInv
    <3>3. file.tables \in Nat /\ file'.tables \in Nat /\ opener[q].release \in Nat
      BY <1>0, <1>2, VersionsAreNumbers DEF SchemaTypeOK
    <3>4. OpenInv(q)'
      BY <1>2, <1>3, <2>2, <3>2, <3>3 DEF OpenInv
    <3> QED BY <3>1, <3>4
  <2> QED BY <2>1, <2>2
<1>7. Keeps
  BY <1>0, <1>1, <1>2, <1>4 DEF Keeps
<1> QED BY <1>2, <1>5, <1>6, <1>7 DEF SchemaInv

LEMMA UpsertSound ==
    ASSUME SchemaInv, NEW p \in Opener, UpsertRow(p)
    PROVE  SchemaInv' /\ Keeps
<1>1. PICK x \in Row \ file.rows, found \in BOOLEAN :
         file' = [file EXCEPT !.rows = @ \cup {x},
                              !.indexed = IF found THEN @ \cup {x} ELSE @ \ {x}]
  BY DEF UpsertRow
<1>2. file \in Database /\ file.indexed \subseteq file.rows /\ x \notin file.indexed
      /\ Consistent(file) /\ holder = NoOpener /\ file.version \in Nat
  BY VersionsAreNumbers DEF SchemaInv, Consistent, UpsertRow
<1>3. file' \in Database
  BY <1>1, <1>2 DEF Database
<1>4. /\ file'.version = file.version /\ file'.tables = file.tables
      /\ file'.key = file.key /\ file'.ftsKey = file.ftsKey
      /\ file'.content = file.content
      /\ file'.rows = file.rows \cup {x}
      /\ file'.indexed = IF found THEN file.indexed \cup {x} ELSE file.indexed \ {x}
  BY <1>1, <1>2 DEF Database
<1>5. Consistent(file')
  BY <1>2, <1>3, <1>4 DEF Consistent
<1>6. UNCHANGED <<holder, work, opener>>
  BY DEF UpsertRow
<1>7. \A q \in Opener : opener[q].step \notin Migrating
  BY <1>2, SchemaAssumption DEF SchemaInv, SchemaTypeOK
<1>8. SchemaTypeOK'
  BY <1>3, <1>6 DEF SchemaInv, SchemaTypeOK
<1>9. \A q \in Opener : HolderInv(q)' /\ OpenInv(q)'
  BY <1>4, <1>6, <1>7 DEF SchemaInv, HolderInv, OpenInv
<1>10. Keeps
  BY <1>2, <1>4, SchemaAssumption DEF Keeps
<1> QED BY <1>5, <1>8, <1>9, <1>10 DEF SchemaInv

-----------------------------------------------------------------------------

LEMMA Quiet == ASSUME SchemaInv, file' = file PROVE Keeps
  BY VersionsAreNumbers DEF SchemaInv, SchemaTypeOK, Keeps

LEMMA SchemaStep == SchemaInv /\ [SchemaNext]_schemaVars => SchemaInv' /\ Keeps
<1> SUFFICES ASSUME SchemaInv, [SchemaNext]_schemaVars PROVE SchemaInv' /\ Keeps
  OBVIOUS
<1>1. CASE UNCHANGED schemaVars
  <2>1. SchemaInv'
    BY <1>1 DEF schemaVars, SchemaInv, SchemaTypeOK, HolderInv, OpenInv
  <2> QED BY <1>1, <2>1, Quiet DEF schemaVars
<1>2. ASSUME NEW p \in Opener, Preflight(p) PROVE SchemaInv' /\ Keeps
  <2>a. PICK to \in {"shut", "connected"} :
          opener' = [opener EXCEPT ![p].left = @ - 1, ![p].step = to]
    BY <1>2 DEF Preflight
  <2>b. opener[p].left - 1 \in 0 .. Opens /\ opener[p].step = "shut"
    BY <1>2, SchemaAssumption DEF Preflight, AtStep, SchemaInv, SchemaTypeOK
  <2>1. /\ opener' \in [Opener -> OpenerState]
        /\ opener[p].step \notin Migrating /\ opener'[p].step \in {"shut", "connected"}
        /\ \A q \in Opener \ {p} : opener'[q] = opener[q]
    BY <2>a, <2>b DEF SchemaInv, SchemaTypeOK, Migrating
  <2> QED BY <1>2, <2>1, OutsideSound, Quiet DEF Preflight
<1>3. ASSUME NEW p \in Opener, ReadVersion(p) PROVE SchemaInv' /\ Keeps
  <2>1. file.version \in Found \cup Release
    BY DEF SchemaInv, SchemaTypeOK, Database
  <2>2. /\ opener' \in [Opener -> OpenerState]
        /\ opener[p].step \notin Migrating /\ opener'[p].step \in {"shut", "waiting"}
        /\ \A q \in Opener \ {p} : opener'[q] = opener[q]
    BY <1>3, <2>1 DEF ReadVersion, AtStep, SchemaInv, SchemaTypeOK, Migrating
  <2> QED BY <1>3, <2>2, OutsideSound, Quiet DEF ReadVersion
<1>4. ASSUME NEW p \in Opener, BeginMigration(p) PROVE SchemaInv' /\ Keeps
  BY <1>4, BeginSound, Quiet
<1>5. ASSUME NEW p \in Opener, BusyTooLong(p) \/ Close(p) PROVE SchemaInv' /\ Keeps
  <2>1. GoTo(p, "shut") /\ UNCHANGED <<file, holder, work>> /\ opener[p].step \notin Migrating
    BY <1>5 DEF BusyTooLong, Close, AtStep, Migrating
  <2>2. /\ opener' \in [Opener -> OpenerState]
        /\ opener'[p].step = "shut" /\ \A q \in Opener \ {p} : opener'[q] = opener[q]
    BY <2>1, GoToSound DEF SchemaInv
  <2> QED BY <2>1, <2>2, OutsideSound, Quiet
<1>6. ASSUME NEW p \in Opener, Migrate(p) PROVE SchemaInv' /\ Keeps
  BY <1>6, MigrationWorkSound, CommitSound, Quiet DEF Migrate
<1>7. ASSUME NEW p \in Opener, FailMigration(p) PROVE SchemaInv' /\ Keeps
  BY <1>7, AbandonSound, Quiet DEF FailMigration
<1>8. ASSUME NEW p \in Opener, UpsertRow(p) PROVE SchemaInv' /\ Keeps
  BY <1>8, UpsertSound
<1> QED BY <1>1, <1>2, <1>3, <1>4, <1>5, <1>6, <1>7, <1>8 DEF SchemaNext

LEMMA InvMatches == SchemaInv => SchemaMatchesStamp
  BY VersionsAreNumbers
     DEF SchemaInv, Consistent, OpenInv, SchemaMatchesStamp, AtStep,
         CompositeKeyRelease, ContentRelease

(* The database and what each process holds keep to their ranges; only the *)
(* process inside BEGIN IMMEDIATE is migrating.                            *)
THEOREM SchemaTypeCorrect == SchemaSpec => []SchemaTypeOK
<1>1. SchemaInv => SchemaTypeOK
  BY DEF SchemaInv
<1> QED BY <1>1, SchemaInitSound, SchemaStep, PTL DEF SchemaSpec

(* Whatever releases open one file, in whichever order, and whichever      *)
(* migration fails, dies or gives up: the stamped version is one the       *)
(* tables, keys and index content bear out, and whoever has the store open *)
(* finds the tables of its own release.                                    *)
THEOREM SchemaMatchesStampCorrect == SchemaSpec => []SchemaMatchesStamp
  BY InvMatches, SchemaInitSound, SchemaStep, PTL DEF SchemaSpec

(* No migration loses a row or an index entry, lowers the stamp, or is of  *)
(* a release older than the file: the version is read again inside the     *)
(* lock.                                                                   *)
THEOREM MigrationKeepsCorrect == SchemaSpec => MigrationKeeps
<1>1. SchemaInv /\ [SchemaNext]_schemaVars =>
        [/\ file.rows \subseteq file'.rows /\ file.indexed \subseteq file'.indexed
         /\ file'.version >= file.version
         /\ \A p \in Opener : holder = p /\ file' # file => opener[p].release >= file.version
        ]_schemaVars
  BY SchemaStep DEF Keeps
<1> QED BY <1>1, SchemaInitSound, SchemaStep, PTL DEF SchemaSpec, MigrationKeeps

-----------------------------------------------------------------------------
(* What an answer is taken for                                             *)

\* What is found in a table: one of its keys that passes, if there is one.
LEMMA KeysFound ==
    ASSUME NEW S
    PROVE  /\ FirstKey(pageItemKeys, S) \in (S \cap {"data", "results", "items"}) \cup {"none"}
           /\ S \cap {"data", "results", "items"} # {} => FirstKey(pageItemKeys, S) \in S
           /\ FirstKey(dataEnvelopeKeys, S) \in (S \cap {"data", "result"}) \cup {"none"}
           /\ S \cap {"data", "result"} # {} => FirstKey(dataEnvelopeKeys, S) \in S
<1>1. ASSUME NEW hits \in SUBSET (1..3), hits # {}
      PROVE  (CHOOSE i \in hits : \A j \in hits : i <= j) \in hits
  <2>1. \E i \in hits : \A j \in hits : i <= j
    <3>1. CASE 1 \in hits
      BY <3>1
    <3>2. CASE 1 \notin hits /\ 2 \in hits
      <4>1. \A j \in hits : j \in 1..3 /\ j # 1
        BY <3>2
      <4> QED BY <3>2, <4>1
    <3>3. CASE 1 \notin hits /\ 2 \notin hits
      <4>1. \A j \in hits : j \in 1..3 /\ j # 1 /\ j # 2
        BY <3>3
      <4>2. \A j \in hits : j = 3
        BY <4>1
      <4>3. 3 \in hits
        BY <1>1, <4>2
      <4> QED BY <4>2, <4>3
    <3> QED BY <3>1, <3>2, <3>3
  <2> QED BY <2>1
<1>2. /\ DOMAIN pageItemKeys = 1..3 /\ pageItemKeys[1] = "data"
      /\ pageItemKeys[2] = "results" /\ pageItemKeys[3] = "items"
      /\ DOMAIN dataEnvelopeKeys = 1..2 /\ dataEnvelopeKeys[1] = "data"
      /\ dataEnvelopeKeys[2] = "result"
  BY DEF pageItemKeys, dataEnvelopeKeys
<1>3. /\ FirstKey(pageItemKeys, S) \in (S \cap {"data", "results", "items"}) \cup {"none"}
      /\ S \cap {"data", "results", "items"} # {} => FirstKey(pageItemKeys, S) \in S
  <2> DEFINE hits == {i \in DOMAIN pageItemKeys : pageItemKeys[i] \in S}
             first == CHOOSE i \in hits : \A j \in hits : i <= j
  <2>1. hits \in SUBSET (1..3)
    BY <1>2
  <2>2. hits # {} => first \in hits
    BY <1>1, <2>1
  <2>3. FirstKey(pageItemKeys, S) = IF hits = {} THEN "none" ELSE pageItemKeys[first]
    BY DEF FirstKey
  <2>4. S \cap {"data", "results", "items"} # {} => hits # {}
    BY <1>2
  <2>5. \A i \in hits : pageItemKeys[i] \in S \cap {"data", "results", "items"}
    BY <1>2
  <2> HIDE DEF first, hits
  <2> QED BY <2>2, <2>3, <2>4, <2>5
<1>4. /\ FirstKey(dataEnvelopeKeys, S) \in (S \cap {"data", "result"}) \cup {"none"}
      /\ S \cap {"data", "result"} # {} => FirstKey(dataEnvelopeKeys, S) \in S
  <2> DEFINE hits == {i \in DOMAIN dataEnvelopeKeys : dataEnvelopeKeys[i] \in S}
             first == CHOOSE i \in hits : \A j \in hits : i <= j
  <2>1. hits \in SUBSET (1..3)
    BY <1>2
  <2>2. hits # {} => first \in hits
    BY <1>1, <2>1
  <2>3. FirstKey(dataEnvelopeKeys, S) = IF hits = {} THEN "none" ELSE dataEnvelopeKeys[first]
    BY DEF FirstKey
  <2>4. S \cap {"data", "result"} # {} => hits # {}
    BY <1>2
  <2>5. \A i \in hits : dataEnvelopeKeys[i] \in S \cap {"data", "result"}
    BY <1>2
  <2> HIDE DEF first, hits
  <2> QED BY <2>2, <2>3, <2>4, <2>5
<1> QED BY <1>3, <1>4

ListsIn(e) == {k \in Keys : IsList(e[k])}

\* An object whose only list holds records is taken for those, by sync and export.
LEMMA OneList ==
    ASSUME NEW e \in [Keys -> Held], NEW k \in Keys \ pageMetadataArrayKeys,
           ListsIn(e) = {k}, e[k] = "objects"
    PROVE  /\ extractItemsByKnownKeys(e) \in {"objects", "none"}
           /\ extractItemsFromEnvelope(e) = "objects"
           /\ extractItemsByKnownKeys(e) = "none" => extractSingleObjectArraySibling(e) = "objects"
           /\ ResourceList(e) \in {"objects", "none"}
           /\ resourceSingleArray(e) \in {"objects", "none"}
<1>0. "items" \in Keys /\ \A j \in Keys : j # k => ~IsList(e[j])
  BY DEF ListsIn, Keys, pageEnvelopeMetadataKeys
<1>1. extractItemsByKnownKeys(e) \in {"objects", "none"}
  <2> DEFINE filled == {j \in Keys : e[j] = "objects" \/ (j = "items" /\ e[j] = "scalars")}
             key == FirstKey(pageItemKeys, filled)
  <2>1. \A j \in filled : e[j] = "objects"
    BY <1>0 DEF IsList
  <2>2. key \in filled \cup {"none"}
    BY KeysFound
  <2>3. e.items # "empty"
    BY <1>0 DEF IsList
  <2>4. extractItemsByKnownKeys(e) = CASE key # "none" -> e[key]
                                       [] key = "none" /\ e.items = "empty" -> "empty"
                                       [] OTHER -> "none"
    BY DEF extractItemsByKnownKeys
  <2> HIDE DEF key, filled
  <2> QED BY <2>1, <2>2, <2>3, <2>4
<1>2. extractSingleObjectArraySibling(e) = "objects"
  <2>1. {j \in Keys \ pageMetadataArrayKeys : e[j] = "objects"} = {k}
    BY <1>0 DEF IsList
  <2>2. Cardinality({k}) = 1
    BY FS_Singleton
  <2> QED BY <2>1, <2>2 DEF extractSingleObjectArraySibling
<1>3. ResourceList(e) \in {"objects", "none"}
  <2>1. FirstKey(pageItemKeys, ListsIn(e)) \in {k, "none"}
    BY KeysFound
  <2> QED BY <2>1 DEF ResourceList, ListsIn
<1>4. resourceSingleArray(e) \in {"objects", "none"}
  <2> DEFINE arrays == {j \in Keys \ resourceEnvelopeMetadataKeys : IsList(e[j])}
  <2>1. arrays = {} \/ arrays = {k}
    BY <1>0
  <2>2. Cardinality({}) = 0
    BY FS_EmptySet
  <2>3. CASE arrays = {k}
    BY <2>3 DEF resourceSingleArray
  <2>4. CASE arrays = {}
    BY <2>2, <2>4 DEF resourceSingleArray
  <2> QED BY <2>1, <2>3, <2>4
<1> QED BY <1>1, <1>2, <1>3, <1>4 DEF extractItemsFromEnvelope

LEMMA NoList ==
    ASSUME NEW e \in [Keys -> Held], ListsIn(e) = {}
    PROVE  /\ extractItemsByKnownKeys(e) = "none"
           /\ ResourceList(e) = "none" /\ resourceSingleArray(e) = "none"
<1>0. "items" \in Keys /\ \A j \in Keys : ~IsList(e[j])
  BY DEF ListsIn, Keys, pageEnvelopeMetadataKeys
<1>1. extractItemsByKnownKeys(e) = "none"
  <2>1. {j \in Keys : e[j] = "objects" \/ (j = "items" /\ e[j] = "scalars")} = {}
    BY <1>0 DEF IsList
  <2>2. FirstKey(pageItemKeys, {}) = "none"
    BY KeysFound
  <2>3. e.items # "empty"
    BY <1>0 DEF IsList
  <2> QED BY <2>1, <2>2, <2>3 DEF extractItemsByKnownKeys
<1>2. ResourceList(e) = "none"
  BY KeysFound DEF ResourceList, ListsIn
<1>3. resourceSingleArray(e) = "none"
  <2>1. {j \in Keys \ resourceEnvelopeMetadataKeys : IsList(e[j])} = {}
    BY <1>0
  <2>2. Cardinality({}) = 0
    BY FS_EmptySet
  <2> QED BY <2>1, <2>2 DEF resourceSingleArray
<1> QED BY <1>1, <1>2, <1>3

\* The answer's only list: sync takes it for the page's items, unless the answer
\* says it is a failure, and export takes it or the answer itself for records.
LEMMA OnlyListFound ==
    ASSUME NEW answer \in Answers, CarriesRecords(answer)
    PROVE  /\ extractPageItems(answer) = "objects"
           /\ KindOf(answer) \in {"failure", "items"}
           /\ extractResourcePage(answer) \in {"objects", "none"}
<1> DEFINE nested == \E k \in {"data", "result", "_embedded"} : answer.top[k] = "object"
           objects == {k \in Keys : answer.top[k] = "object"}
<1>0. /\ answer.top \in [Keys -> Held] /\ answer.inner \in [Keys -> Held]
      /\ {"data", "result", "_embedded"} \subseteq Keys
  BY DEF Answers, Keys, pageEnvelopeMetadataKeys
<1>1. CASE answer.form = "objects"
  BY <1>1 DEF extractPageItems, IsList, KindOf, extractResourcePage
<1>2. CASE answer.form = "object"
  <2>0. ~IsList(answer.form)
    BY <1>2 DEF IsList
  <2>1. PICK k \in Keys \ pageMetadataArrayKeys :
          \/ ListsIn(answer.top) = {k} /\ ~nested /\ answer.top[k] = "objects"
          \/ ListsIn(answer.top) = {} /\ nested
               /\ ListsIn(answer.inner) = {k} /\ answer.inner[k] = "objects"
    BY <1>2 DEF CarriesRecords, ListsIn
  <2>2. CASE ListsIn(answer.top) = {k} /\ ~nested /\ answer.top[k] = "objects"
    <3>1. FirstKey(dataEnvelopeKeys, objects) = "none" /\ answer.top["_embedded"] # "object"
      BY <2>2, KeysFound
    <3>2. /\ extractItemsByKnownKeys(answer.top) \in {"objects", "none"}
          /\ extractItemsFromEnvelope(answer.top) = "objects"
          /\ extractItemsByKnownKeys(answer.top) = "none"
               => extractSingleObjectArraySibling(answer.top) = "objects"
          /\ ResourceList(answer.top) \in {"objects", "none"}
          /\ resourceSingleArray(answer.top) \in {"objects", "none"}
      BY <1>0, <2>2, OneList
    <3>3. ListAt(answer) = "top"
      BY <3>1, <3>2 DEF ListAt
    <3>4. extractPageItems(answer) = "objects"
      BY <1>2, <2>0, <3>2, <3>3 DEF extractPageItems
    <3>5. extractResourcePage(answer) \in {"objects", "none"}
      BY <1>2, <2>0, <3>1, <3>2 DEF extractResourcePage
    <3> QED BY <3>4, <3>5 DEF KindOf
  <2>3. CASE /\ ListsIn(answer.top) = {} /\ nested
             /\ ListsIn(answer.inner) = {k} /\ answer.inner[k] = "objects"
    <3>1. FirstKey(dataEnvelopeKeys, objects) # "none" \/ answer.top["_embedded"] = "object"
      <4>1. "none" \notin objects
        BY DEF Keys, pageEnvelopeMetadataKeys
      <4>2. objects \cap {"data", "result"} # {} \/ answer.top["_embedded"] = "object"
        BY <1>0, <2>3
      <4> HIDE DEF objects
      <4> QED BY <4>1, <4>2, KeysFound
    <3>2. /\ extractItemsFromEnvelope(answer.inner) = "objects"
          /\ ResourceList(answer.inner) \in {"objects", "none"}
          /\ resourceSingleArray(answer.inner) \in {"objects", "none"}
      BY <1>0, <2>3, OneList
    <3>3. /\ extractItemsByKnownKeys(answer.top) = "none"
          /\ ResourceList(answer.top) = "none" /\ resourceSingleArray(answer.top) = "none"
      BY <1>0, <2>3, NoList
    <3>4. ListAt(answer) \in {"inner", "embedded"}
      BY <3>1, <3>2, <3>3 DEF ListAt
    <3>5. extractPageItems(answer) = "objects"
      BY <1>2, <2>0, <3>2, <3>4 DEF extractPageItems
    <3>6. extractResourcePage(answer) \in {"objects", "none"}
      BY <1>2, <2>0, <3>2, <3>3 DEF extractResourcePage
    <3> QED BY <3>5, <3>6 DEF KindOf
  <2> QED BY <2>1, <2>2, <2>3
<1> QED BY <1>1, <1>2 DEF CarriesRecords

\* Records that can be told apart have a row each: a field tells which.
LEMMA KeyFieldFound ==
    ASSUME NEW item \in Item, NEW field \in {"id", "own", "name", "wrapped"},
           item[field] \in {"a", "b"},
           field # "id" => \A f \in {"id", "own", "name", "wrapped"} :
             item[f] \notin {"absent", "blank"} => f = field \/ (field = "own" /\ f = "name")
    PROVE  StorageID(item) = item[field]
<1> DEFINE usable == {f \in {"id", "own", "name"} : Usable(item, f)}
           hits == {i \in DOMAIN Fields : Fields[i] \in usable}
           first == CHOOSE i \in hits : \A j \in hits : i <= j
<1>1. /\ DOMAIN Fields = 1..3 /\ Fields[1] = "id" /\ Fields[2] = "own" /\ Fields[3] = "name"
  BY DEF Fields
<1>2. ExtractResourceID(item) = LET key == FirstKey(Fields, usable)
                                IN IF key = "none" THEN "none" ELSE item[key]
  BY DEF ExtractResourceID
<1>3. FirstKey(Fields, usable) = IF hits = {} THEN "none" ELSE Fields[first]
  BY DEF FirstKey
<1>4. \A f \in {"id", "own", "name", "wrapped"} :
        Usable(item, f) => item[f] \notin {"absent", "blank"}
  BY DEF Usable, suffixIDFieldFallback
<1>5. Usable(item, field)
  BY DEF Usable, suffixIDFieldFallback
<1>6. CASE field = "id"
  <2>1. 1 \in hits /\ \A j \in hits : j \in 1..3
    BY <1>1, <1>5, <1>6
  <2>2. first = 1
    <3> HIDE DEF hits
    <3> QED BY <2>1
  <2> HIDE DEF first, hits, usable
  <2>3. ExtractResourceID(item) = item[field]
    BY <1>1, <1>2, <1>3, <1>6, <2>1, <2>2
  <2> QED BY <2>3 DEF StorageID
<1>7. CASE field = "own"
  <2>1. 2 \in hits /\ \A j \in hits : j \in 2..3
    BY <1>1, <1>4, <1>5, <1>7
  <2>2. first = 2
    <3> HIDE DEF hits
    <3> QED BY <2>1
  <2> HIDE DEF first, hits, usable
  <2>3. ExtractResourceID(item) = item[field]
    BY <1>1, <1>2, <1>3, <1>7, <2>1, <2>2
  <2> QED BY <2>3 DEF StorageID
<1>8. CASE field = "name"
  <2>1. 3 \in hits /\ \A j \in hits : j = 3
    BY <1>1, <1>4, <1>5, <1>8
  <2>2. first = 3
    <3> HIDE DEF hits
    <3> QED BY <2>1
  <2> HIDE DEF first, hits, usable
  <2>3. ExtractResourceID(item) = item[field]
    BY <1>1, <1>2, <1>3, <1>8, <2>1, <2>2
  <2> QED BY <2>3 DEF StorageID
<1>9. CASE field = "wrapped"
  <2>1. hits = {}
    BY <1>1, <1>4, <1>9
  <2> HIDE DEF first, hits, usable
  <2>2. ExtractResourceID(item) = "none"
    BY <1>2, <1>3, <2>1
  <2> QED BY <1>5, <1>9, <2>2 DEF StorageID
<1> QED BY <1>6, <1>7, <1>8, <1>9

LEMMA RowForEach ==
    ASSUME NEW items \in Seq(Item), Distinguished(items)
    PROVE  Cardinality(RowsStored(items)) = Len(items) /\ Len(items) > 0
<1>1. PICK field \in {"id", "own", "name", "wrapped"} :
        /\ TellsApart(items, field)
        /\ field # "id" =>
             \A i \in DOMAIN items, f \in {"id", "own", "name", "wrapped"} :
               items[i][f] \notin {"absent", "blank"} => f = field \/ (field = "own" /\ f = "name")
  BY DEF Distinguished
<1> DEFINE values == {items[i][field] : i \in DOMAIN items}
<1>2. values \subseteq {"a", "b"} /\ Cardinality(values) = Len(items)
  <2>1. TellsApart(items, field)
    BY <1>1
  <2> QED BY <2>1 DEF TellsApart
<1>3. \A i \in DOMAIN items : items[i] \in Item
  OBVIOUS
<1>4. \A i \in DOMAIN items : StorageID(items[i]) = items[i][field]
  BY <1>1, <1>2, <1>3, KeyFieldFound
<1>5. {StorageID(items[i]) : i \in DOMAIN items} = values
  BY <1>4
<1>6. RowsStored(items) = values
  BY <1>2, <1>5 DEF RowsStored
<1>7. Len(items) > 0
  BY DEF Distinguished
<1> QED BY <1>2, <1>6, <1>7

\* A reply that drops records is refused.
LEMMA DropsRefused ==
    ASSUME NEW answer \in Answer, NEW param \in BOOLEAN, ReplyTo(answer, param).drops
    PROVE  Refusal(ReplyTo(answer, param)) # "none"
<1>1. answer \in Answers /\ answer.items \in Seq(Item)
  BY SyncAssumption DEF Answers
<1>2. CarriesRecords(answer)
  BY DEF ReplyTo
<1>3. Cardinality(RowsStored(answer.items)) = Len(answer.items) /\ Len(answer.items) > 0
  BY <1>1, <1>2, RowForEach DEF CarriesRecords
<1>4. KindOf(answer) \in {"failure", "items"}
  BY <1>1, <1>2, OnlyListFound
<1>5. KindOf(answer) # "items"
  <2>1. KindOf(answer) = "items" => Cardinality(RowsStored(answer.items)) < Len(answer.items)
    BY DEF ReplyTo
  <2>2. ~(Len(answer.items) < Len(answer.items))
    BY <1>1
  <2> QED BY <1>3, <2>1, <2>2
<1> QED BY <1>4, <1>5 DEF ReplyTo, Refusal

\* An answer that carries records is exported as one record at least.
LEMMA CarriedExported ==
    ASSUME NEW answer \in Body, CarriesRecords(answer)
    PROVE  ExportedRecords(answer) \in Nat /\ ExportedRecords(answer) > 0
<1>1. answer \in Answers /\ answer.items \in Seq(Item)
  BY ExportAssumption DEF Answers
<1>2. Len(answer.items) > 0 /\ Len(answer.items) \in Nat
  BY <1>1, RowForEach DEF CarriesRecords
<1>3. extractResourcePage(answer) \in {"objects", "none"}
  BY <1>1, OnlyListFound
<1> QED BY <1>2, <1>3 DEF ExportedRecords

-----------------------------------------------------------------------------
(* The exit code of a sync                                                 *)

\* A reply that drops records waits to be refused; a success dropped none.
JobHonest(x) ==
    /\ x.reply.drops => x.step = "answered" /\ Refusal(x.reply) # "none"
    /\ x.step = "success" => ~x.dropped

\* A zero exit was earned by the results, which nobody changes afterwards.
ExitEarned ==
    command.exit = "ok" =>
        /\ command.step = "ended"
        /\ Count("critical") = 0 /\ Count("success") > 0
        /\ command.flags.strict => Count("errored") = 0

HonestInv ==
    /\ SyncInv /\ ExitEarned
    /\ command \in [flags : {command.flags}, step : {"none", "pool", "ended"},
                    exit : {"none", "ok", "failed", "killed"}]
    /\ command.step # "pool" => \A r \in Resource : job[r].step \notin Busies
    /\ \A r \in Resource : JobHonest(job[r])

LEMMA NewJobHonest ==
    /\ JobHonest(NewJob) /\ NewJob.step = "queued"
    /\ JobHonest([NewJob EXCEPT !.step = "errored"])
    /\ \A at : JobHonest([NewJob EXCEPT !.step = "requested", !.at = at])
BY DEF NewJob, NoReply, JobHonest

LEMMA HonestInit == SyncInit => HonestInv
<1> SUFFICES ASSUME SyncInit PROVE HonestInv
  OBVIOUS
<1>1. SyncInv
  BY SyncInitSound
<1>2. \A r \in Resource : job[r] = NewJob
  BY DEF SyncInit
<1> QED BY <1>1, <1>2, NewJobHonest DEF SyncInit, HonestInv, ExitEarned, Busies

\* One job of a running command goes on.
LEMMA HonestJob ==
    ASSUME HonestInv, SyncInv', command.step = "pool", command' = command,
           NEW r \in Resource, NEW x, job' = [job EXCEPT ![r] = x], JobHonest(x)
    PROVE  HonestInv'
<1>1. command.exit # "ok"
  BY DEF HonestInv, ExitEarned
<1>2. \A q \in Resource : JobHonest(job'[q])
  BY DEF HonestInv, SyncInv
<1> QED BY <1>1, <1>2 DEF HonestInv, ExitEarned

LEMMA HonestFinish ==
    ASSUME HonestInv, SyncInv', command.step = "pool", NEW r \in Resource,
           NEW result \in Results, Finish(r, result),
           result = "success" => ~job[r].reply.drops
    PROVE  HonestInv'
<1> DEFINE x == [NewJob EXCEPT !.step = result, !.dropped = job[r].reply.drops]
<1>1. job' = [job EXCEPT ![r] = x] /\ command' = command
  BY DEF Finish
<1>2. x.step = result /\ x.dropped = job[r].reply.drops /\ x.reply = NoReply
  BY DEF NewJob
<1>3. ~NoReply.drops
  BY DEF NoReply
<1> HIDE DEF x
<1>4. JobHonest(x)
  BY <1>2, <1>3 DEF JobHonest
<1> QED BY <1>1, <1>4, HonestJob

LEMMA HonestWork ==
    ASSUME HonestInv, SyncInv', NEW r \in Resource, Work(r)
    PROVE  HonestInv'
<1>0. /\ command.step = "pool" /\ job \in [Resource -> Jobs] /\ job[r] \in Jobs
      /\ JobHonest(job[r])
  BY DEF HonestInv, SyncInv, Work, TakeJob, TakeReply, Previewed, RefuseReply, StoreRows,
     SkipText, SaveState, Complete, Busies
<1>1. CASE TakeJob(r)
  <2> DEFINE x == IF r \in Unknown THEN [NewJob EXCEPT !.step = "errored"]
                  ELSE [NewJob EXCEPT !.step = "requested", !.at = instant]
  <2>1. job' = [job EXCEPT ![r] = x] /\ command' = command
    BY <1>1 DEF TakeJob
  <2>2. JobHonest(x)
    BY NewJobHonest
  <2> HIDE DEF x
  <2> QED BY <1>0, <2>1, <2>2, HonestJob
<1>2. CASE TakeReply(r)
  <2>1. PICK reply \in CursorReplies \cup CursorlessReplies
                        \cup {[NoReply EXCEPT !.kind = "error"]} :
          /\ job' = [job EXCEPT ![r].step = "answered", ![r].answered = instant, ![r].reply = reply]
          /\ command' = command
    BY <1>2 DEF TakeReply
  <2>2. reply.drops => Refusal(reply) # "none"
    BY DropsRefused DEF CursorReplies, CursorlessReplies, NoReply
  <2> DEFINE x == [job[r] EXCEPT !.step = "answered", !.answered = instant, !.reply = reply]
  <2>3. job' = [job EXCEPT ![r] = x]
    BY <1>0, <2>1
  <2>4. x.step = "answered" /\ x.reply = reply
    BY <1>0 DEF Jobs
  <2> HIDE DEF x
  <2>5. JobHonest(x)
    BY <2>2, <2>4 DEF JobHonest
  <2> QED BY <1>0, <2>1, <2>3, <2>5, HonestJob
<1>3. CASE Previewed(r)
  BY <1>0, <1>3, HonestFinish DEF Previewed, Results, JobHonest
<1>4. CASE RefuseReply(r)
  <2>1. Refusal(job[r].reply) \in Results \ {"success"} /\ Finish(r, Refusal(job[r].reply))
    BY <1>4 DEF RefuseReply, Refusal, Results
  <2> QED BY <1>0, <2>1, HonestFinish
<1>5. CASE StoreRows(r) \/ SkipText(r)
  <2>1. ~job[r].reply.drops
    BY <1>0, <1>5 DEF StoreRows, SkipText, JobHonest, Refusal
  <2>2. CASE Finish(r, "errored")
    BY <1>0, <2>2, HonestFinish DEF Results
  <2>3. ASSUME NEW step \in {"stored", "unstored"}, job' = [job EXCEPT ![r].step = step],
               command' = command
        PROVE  HonestInv'
    <3> DEFINE x == [job[r] EXCEPT !.step = step]
    <3>1. job' = [job EXCEPT ![r] = x]
      BY <1>0, <2>3
    <3>2. x.step = step /\ x.reply = job[r].reply
      BY <1>0 DEF Jobs
    <3> HIDE DEF x
    <3>3. JobHonest(x)
      BY <2>1, <3>2 DEF JobHonest
    <3> QED BY <1>0, <2>3, <3>1, <3>3, HonestJob
  <2> QED BY <1>5, <2>2, <2>3 DEF StoreRows, SkipText
<1>6. CASE SaveState(r)
  <2>1. ~job[r].reply.drops
    BY <1>0, <1>6 DEF SaveState, JobHonest
  <2> QED BY <1>0, <1>6, <2>1, HonestFinish DEF SaveState, Results
<1> QED BY <1>1, <1>2, <1>3, <1>4, <1>5, <1>6 DEF Work

\* The exit policy, with a result for every resource: zero is earned.
LEMMA PolicyHonest ==
    ASSUME \A r \in Resource : job[r].step \in Results, ExitPolicy = "ok"
    PROVE  /\ Count("critical") = 0 /\ Count("success") > 0
           /\ command.flags.strict => Count("errored") = 0
<1>1. ASSUME NEW result PROVE
        /\ Count(result) \in Nat
        /\ Count(result) = 0 => \A r \in Resource : job[r].step # result
  <2> DEFINE S == {r \in Resource : job[r].step = result}
  <2>1. IsFiniteSet(S)
    BY SyncAssumption, FS_Subset
  <2>2. Cardinality(S) \in Nat
    BY <2>1, FS_CardinalityType
  <2>3. Cardinality(S) = 0 => S = {}
    BY <2>1, FS_EmptySet
  <2> QED BY <2>2, <2>3 DEF Count
<1>2. PICK r \in Resource : job[r].step \in {"success", "errored", "critical"}
  BY SyncAssumption DEF Results
<1> DEFINE c == Count("critical")
           s == Count("success")
           e == Count("errored")
<1>3. c \in Nat /\ s \in Nat /\ e \in Nat
  BY <1>1
<1>4. ~(c = 0 /\ s = 0 /\ e = 0)
  BY <1>1, <1>2
<1>5. /\ ~(command.flags.strict /\ e + c > 0)
      /\ ~(c > 0)
      /\ ~(s = 0 /\ e > 0)
  BY DEF ExitPolicy
<1> HIDE DEF c, s, e
<1>6. c = 0 /\ s > 0
  BY <1>3, <1>4, <1>5
<1>7. command.flags.strict => e = 0
  <2>1. ~(e + c > 0) => e = 0
    BY <1>3
  <2> QED BY <1>5, <2>1
<1> QED BY <1>6, <1>7 DEF c, s, e

LEMMA HonestStep == HonestInv /\ [SyncNext]_syncVars => HonestInv'
<1> SUFFICES ASSUME HonestInv, [SyncNext]_syncVars PROVE HonestInv'
  OBVIOUS
<1>0. SyncInv' /\ job \in [Resource -> Jobs]
  BY SyncStep DEF HonestInv, SyncInv
<1>1. ASSUME NEW f \in Flags, StartSync(f) PROVE HonestInv'
  <2>1. /\ command' = [flags |-> f, step |-> "pool", exit |-> "none"]
        /\ \A r \in Resource : job'[r] = NewJob
    BY <1>1 DEF StartSync
  <2> QED BY <1>0, <2>1, NewJobHonest DEF HonestInv, ExitEarned
<1>2. ASSUME NEW r \in Resource, Work(r) PROVE HonestInv'
  BY <1>0, <1>2, HonestWork
<1>3. CASE EndSync
  <2>1. /\ command' = [command EXCEPT !.step = "ended", !.exit = ExitPolicy] /\ job' = job
        /\ \A r \in Resource : job[r].step \in Results
    BY <1>3 DEF EndSync
  <2>2. /\ command' = [flags |-> command.flags, step |-> "ended", exit |-> ExitPolicy]
        /\ ExitPolicy \in {"ok", "failed"}
    BY <2>1 DEF HonestInv, ExitPolicy
  <2>3. \A r \in Resource : job'[r].step \notin Busies
    BY <2>1 DEF Results, Busies
  <2>4. ExitEarned'
    BY <2>1, <2>2, PolicyHonest DEF ExitEarned, Count
  <2> QED BY <1>0, <2>1, <2>2, <2>3, <2>4 DEF HonestInv
<1>4. CASE KillSync
  <2>1. /\ command' = [command EXCEPT !.step = "ended", !.exit = "killed"]
        /\ \A r \in Resource : job'[r] = NewJob
    BY <1>4 DEF KillSync
  <2>2. command' = [flags |-> command.flags, step |-> "ended", exit |-> "killed"]
    BY <2>1 DEF HonestInv
  <2> QED BY <1>0, <2>1, <2>2, NewJobHonest DEF HonestInv, ExitEarned, Busies
<1>5. CASE PassTime \/ UNCHANGED syncVars
  <2>1. command' = command /\ job' = job
    BY <1>5 DEF PassTime, syncVars
  <2> QED BY <1>0, <2>1 DEF HonestInv, ExitEarned, Count
<1> QED BY <1>1, <1>2, <1>3, <1>4, <1>5 DEF SyncNext

LEMMA HonestMeans == HonestInv => SyncHonest
BY DEF HonestInv, ExitEarned, SyncHonest, JobHonest

-----------------------------------------------------------------------------
(* The exit code of an export                                              *)

ExportInv ==
    /\ outFile \in [from : {"earlier", "export"}, records : Nat]
    /\ export \in [step : {"idle", "asked", "writing"}, limit : Nat, carries : BOOLEAN,
                   records : Nat, written : Nat, exit : {"none", "ok", "failed", "killed"}]
    /\ export.step # "idle" => outFile.from = "export" /\ export.exit = "none"
    /\ export.step = "writing" /\ export.carries => export.records > 0
    /\ ExportHonest

LEMMA ExportInitSound == ExportInit => ExportInv
BY DEF ExportInit, ExportInv, ExportHonest, File, Idle

LEMMA ExportStep == ExportInv /\ [ExportNext]_exportVars => ExportInv'
<1> SUFFICES ASSUME ExportInv, [ExportNext]_exportVars PROVE ExportInv'
  OBVIOUS
<1> USE DEF ExportInv, ExportHonest
<1>1. CASE RejectExport
  BY <1>1 DEF RejectExport, Idle
<1>2. ASSUME NEW limit \in Limit, OpenExport(limit) PROVE ExportInv'
  <2>1. limit \in Nat
    BY ExportAssumption
  <2> QED BY <1>2, <2>1 DEF OpenExport, Idle, File
<1>3. CASE ExportFails \/ WriteExportFails \/ KillExport
  BY <1>3 DEF ExportFails, WriteExportFails, KillExport, Stop
<1>4. CASE ReadExport
  <2>1. PICK answer \in Body :
          export' = [export EXCEPT !.step = "writing", !.carries = CarriesRecords(answer),
                       !.records = RecordsWithin(export.limit, ExportedRecords(answer))]
    BY <1>4 DEF ReadExport
  <2> DEFINE n == ExportedRecords(answer)
             m == RecordsWithin(export.limit, n)
  <2>2. n \in Nat
    <3>1. Len(answer.items) \in Nat
      BY ExportAssumption DEF Answers
    <3> QED BY <3>1 DEF ExportedRecords
  <2>3. CarriesRecords(answer) => n > 0
    BY CarriedExported
  <2>4. CarriesRecords(answer) \in BOOLEAN
    BY DEF CarriesRecords
  <2> HIDE DEF n
  <2>5. m \in Nat /\ (n > 0 => m > 0)
    BY <2>2 DEF RecordsWithin
  <2> HIDE DEF m
  <2>6. /\ export' = [export EXCEPT !.step = "writing", !.carries = CarriesRecords(answer),
                        !.records = m]
        /\ outFile' = outFile /\ export.step = "asked"
    BY <1>4, <2>1 DEF ReadExport, m, n
  <2> QED BY <2>3, <2>4, <2>5, <2>6
<1>5. CASE WriteRecord
  <2>1. PICK n \in outFile.records .. export.written + 1 : outFile' = [outFile EXCEPT !.records = n]
    BY <1>5 DEF WriteRecord
  <2>2. n \in Nat
    OBVIOUS
  <2> QED BY <1>5, <2>1, <2>2 DEF WriteRecord
<1>6. CASE FinishExport
  BY <1>6 DEF FinishExport, Stop, File
<1>7. CASE UNCHANGED exportVars
  BY <1>7 DEF exportVars
<1> QED BY <1>1, <1>2, <1>3, <1>4, <1>5, <1>6, <1>7 DEF ExportNext

\* The bound on what is left to export.
ExportsLeft == exportsLeft \in 0 .. Exports

LEMMA ExportsLeftStep == ExportsLeft /\ [ExportNext]_exportVars => ExportsLeft'
<1> SUFFICES ASSUME ExportsLeft, [ExportNext]_exportVars PROVE ExportsLeft'
  OBVIOUS
<1>1. CASE RejectExport \/ \E limit \in Limit : OpenExport(limit)
  <2>1. exportsLeft > 0 /\ exportsLeft' = exportsLeft - 1
    BY <1>1, Zenon DEF RejectExport, OpenExport
  <2>2. Exports \in Nat /\ exportsLeft \in 0 .. Exports
    BY ExportAssumption DEF ExportsLeft
  <2>3. exportsLeft' \in 0 .. Exports
    BY <2>1, <2>2
  <2> QED BY <2>3 DEF ExportsLeft
<1>2. CASE \/ ExportFails \/ ReadExport \/ WriteRecord \/ WriteExportFails \/ FinishExport
           \/ KillExport \/ UNCHANGED exportVars
  <2>1. exportsLeft' = exportsLeft
    BY <1>2 DEF ExportFails, ReadExport, WriteRecord, WriteExportFails, FinishExport, KillExport,
                exportVars
  <2> QED BY <2>1 DEF ExportsLeft
<1> QED BY <1>1, <1>2 DEF ExportNext

(* A zero exit is what it promises, for any resources, answers, flags,     *)
(* limits and bodies, whatever is refused, fails or is killed: of a sync,  *)
(* that no job lost data it was given and some succeeded, and of an        *)
(* export, that the file holds the records of the answer (MCStore!ExitHonest). *)
THEOREM ExitHonestCorrect == SyncSpec /\ ExportSpec => []ExitHonest
<1>1. HonestInv /\ ExportInv => ExitHonest
  BY HonestMeans DEF ExportInv, ExitHonest
<1> QED BY <1>1, HonestInit, HonestStep, ExportInitSound, ExportStep, PTL
        DEF SyncSpec, ExportSpec

-----------------------------------------------------------------------------
(* The machines together                                                   *)

\* A sync's steps, without the fairness that only its end needs.
SyncSteps == SyncInit /\ [][SyncNext]_syncVars

LEMMA StoreMoves ==
    [StoreNext]_storeVars =>
        /\ [SchemaNext]_schemaVars /\ [SyncNext]_syncVars /\ [ExportNext]_exportVars
        /\ [DataNext]_dataVars /\ [ProfilesNext]_profilesVars
<1> SUFFICES ASSUME [StoreNext]_storeVars
             PROVE  /\ [SchemaNext]_schemaVars /\ [SyncNext]_syncVars /\ [ExportNext]_exportVars
                    /\ [DataNext]_dataVars /\ [ProfilesNext]_profilesVars
  OBVIOUS
<1>1. CASE Opening(SchemaNext)
  BY <1>1 DEF Opening
<1>2. CASE Syncing(SyncNext)
  BY <1>2 DEF Syncing
<1>3. CASE Exporting(ExportNext)
  BY <1>3 DEF Exporting
<1>4. CASE Reading(DataNext)
  BY <1>4 DEF Reading
<1>5. CASE Gated(GateNext) \/ Gated(MigrateNext)
  BY <1>5 DEF Gated, ProfilesNext
<1>6. CASE UNCHANGED storeVars
  BY <1>6 DEF storeVars
<1> QED BY <1>1, <1>2, <1>3, <1>4, <1>5, <1>6 DEF StoreNext

(* A behaviour of all five machines is one of each: of opening the file,   *)
(* of a sync's steps, of an export, of reading, and of the profiles and    *)
(* their migration.  What is proved of each holds of them together.        *)
THEOREM StoreComposed ==
    StoreSpec => SchemaSpec /\ SyncSteps /\ ExportSpec /\ DataSpec /\ ProfilesSpec
<1>1. StoreInit => SchemaInit /\ SyncInit /\ ExportInit /\ DataInit /\ ProfilesInit
  BY DEF StoreInit
<1> QED BY <1>1, StoreMoves, PTL
        DEF StoreSpec, SchemaSpec, SyncSteps, ExportSpec, DataSpec, ProfilesSpec

(* Everything the run of the store checks but the end of a sync, for any   *)
(* processes, resources, records, profiles and tenants: all machines keep  *)
(* to their ranges (MCStore!StoreTypeOK), stamps and watermarks tell the   *)
(* truth, a zero exit is what it promises, what was looked up is stored,   *)
(* everybody is served one's own, and no migration loses anything.         *)
THEOREM StoreCorrect ==
    StoreSpec =>
        /\ [](/\ StoreTypeOK /\ SchemaMatchesStamp /\ WatermarkNotAhead /\ ExitHonest
              /\ LookedUpIsStored /\ ServedOwnTenant /\ AdoptionKeeps)
        /\ MigrationKeeps
<1>1. SyncSteps => [](WatermarkNotAhead /\ SyncTypeOK /\ SyncHonest)
  <2>1. SyncInv => WatermarkNotAhead
    BY DEF SyncInv, JobOK, Fits, WatermarkNotAhead
  <2> QED BY <2>1, SyncInitSound, SyncStep, SyncTypeInit, SyncTypeStep, SyncTypeMeans,
             HonestInit, HonestStep, HonestMeans, PTL DEF SyncSteps
<1>2. ExportSpec => [](ExportTypeOK /\ ExportHonest)
  <2>1. ExportInv /\ ExportsLeft => ExportTypeOK /\ ExportHonest
    BY DEF ExportInv, ExportsLeft, ExportTypeOK
  <2>2. ExportInit => ExportsLeft
    BY ExportAssumption DEF ExportInit, ExportsLeft
  <2> QED BY <2>1, <2>2, ExportInitSound, ExportStep, ExportsLeftStep, PTL DEF ExportSpec
<1>3. DataSpec => []DataTypeOK
  BY DataInitSound, DataStep, DataTypedInit, DataTypedStep, DataTypeMeans, PTL DEF DataSpec
<1>4. ProfilesSpec => []ProfilesTypeOK
  <2>1. ProfilesInit => InvocationsLeft
    BY DEF ProfilesInit, InvocationsLeft
  <2> QED BY <2>1, ProfilesInitSound, ProfilesStep, InvocationsStep, ProfilesTypeMeans, PTL
          DEF ProfilesSpec
<1>5. /\ SchemaTypeOK /\ SyncTypeOK /\ ExportTypeOK /\ DataTypeOK /\ ProfilesTypeOK => StoreTypeOK
      /\ SyncHonest /\ ExportHonest => ExitHonest
  BY DEF StoreTypeOK, ExitHonest
<1> QED BY <1>1, <1>2, <1>3, <1>4, <1>5, StoreComposed, SchemaTypeCorrect,
           SchemaMatchesStampCorrect, MigrationKeepsCorrect, LookedUpCorrect,
           ServedOwnTenantCorrect, AdoptionKeepsCorrect, PTL

=============================================================================
