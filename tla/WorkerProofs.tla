----------------------------- MODULE WorkerProofs ---------------------------
(***************************************************************************)
(* A command is not started twice without cause, for any number of         *)
(* targets, workers, attempts, deliveries and faults.                      *)
(***************************************************************************)
EXTENDS WorkerProperties, TLAPS

Row == [status : {"pending", "running", "succeeded", "dead"}, attempt : Nat, lapsed : BOOLEAN]

JobSteps == {"acknowledge", "verify", "run", "report"}

Claimed == [at : JobSteps, target : JobTargets, attempt : Nat, tries : Nat, ok : BOOLEAN]

WorkerState == {Idle} \cup [at : {"notified", "dismiss"}, target : JobTargets] \cup Claimed

Messages == [target : JobTargets, deliveries : Nat, out : BOOLEAN]

RowsAndStates ==
    /\ jobs \in [JobTargets -> Row]
    /\ workers \in [Workers -> WorkerState]
    /\ stream \subseteq Messages
    /\ runs \in [JobTargets -> Nat]
    /\ excused \in [JobTargets -> Nat]

\* An attempt that is over has its excuse.
AttemptsAreExcused ==
    \A t \in JobTargets :
       jobs[t].attempt <= IF jobs[t].status = "succeeded" \/ (jobs[t].status = "running" /\ ~jobs[t].lapsed)
                            THEN excused[t] + 1
                            ELSE excused[t]

HasJob(w) == workers[w] \in Claimed

\* No two workers have a job of one attempt.
OneWorkerPerAttempt ==
    /\ \A w \in Workers : HasJob(w) => workers[w].attempt <= jobs[workers[w].target].attempt
    /\ \A w, v \in Workers :
          (HasJob(w) /\ HasJob(v) /\ workers[w].target = workers[v].target
           /\ workers[w].attempt = workers[v].attempt) => w = v

\* An attempt starts its command at most once: not before it is verified.
Unstarted(w, t) ==
    /\ HasJob(w) /\ workers[w].at \in {"acknowledge", "verify"}
    /\ workers[w].target = t /\ workers[w].attempt = jobs[t].attempt

OneStartPerAttempt ==
    \A t \in JobTargets :
       /\ runs[t] <= jobs[t].attempt
       /\ \A w \in Workers : Unstarted(w, t) => runs[t] < jobs[t].attempt

WorkerInvariant ==
    RowsAndStates /\ AttemptsAreExcused /\ OneWorkerPerAttempt /\ OneStartPerAttempt

USE WorkerAssumption

\* Nothing has been claimed or started at first.
LEMMA WorkerInvariantInit == WorkerInit => WorkerInvariant
BY DEF WorkerInit, WorkerInvariant, RowsAndStates, AttemptsAreExcused, OneWorkerPerAttempt,
       OneStartPerAttempt, Unstarted, HasJob, WorkerState, Row, Idle, Claimed, JobSteps

\* The steps of the loop at which a worker has a job in hand.
LEMMA StateShapes ==
    ASSUME NEW state \in WorkerState
    PROVE  /\ state.at \in JobSteps <=> state \in Claimed
           /\ state.at \in {"notified", "dismiss"} => state.target \in JobTargets
           /\ Idle \in WorkerState \ Claimed
           /\ state \in Claimed => state.target \in JobTargets
BY DEF WorkerState, Claimed, JobSteps, Idle

\* A step after which nobody has a job but those who had it, no earlier in its course.
Keeps ==
    /\ workers' \in [Workers -> WorkerState]
    /\ \A v \in Workers : workers'[v] \in Claimed =>
          /\ HasJob(v)
          /\ workers'[v].target = workers[v].target
          /\ workers'[v].attempt = workers[v].attempt
          /\ workers'[v].at \in {"acknowledge", "verify"} => workers[v].at \in {"acknowledge", "verify"}

(***************************************************************************)
(* A worker that lets its job go, or has only a message in hand, and one   *)
(* whose job goes on.                                                      *)
(***************************************************************************)
LEMMA LettingGo ==
    ASSUME WorkerInvariant, NEW w \in Workers, NEW state \in WorkerState \ Claimed,
           Enters(w, state)
    PROVE  Keeps
BY DEF WorkerInvariant, RowsAndStates, Keeps, Enters, HasJob

\* A worker whose job goes on keeps its attempt.
LEMMA GoingOn ==
    ASSUME WorkerInvariant, NEW w \in Workers, HasJob(w), NEW state \in Claimed,
           state.target = workers[w].target, state.attempt = workers[w].attempt,
           state.at \in {"acknowledge", "verify"} => workers[w].at \in {"acknowledge", "verify"},
           Enters(w, state)
    PROVE  Keeps
BY DEF WorkerInvariant, RowsAndStates, Keeps, Enters, HasJob, WorkerState

\* Where jobs only end or go on and the rows stay, the invariant stays.
LEMMA Keeping ==
    ASSUME WorkerInvariant, Keeps, UNCHANGED <<jobs, runs, excused>>, stream' \subseteq Messages
    PROVE  WorkerInvariant'
BY DEF WorkerInvariant, RowsAndStates, AttemptsAreExcused, OneWorkerPerAttempt,
       OneStartPerAttempt, Unstarted, HasJob, Keeps

(***************************************************************************)
(* A claim makes a new attempt, excused by the end of the last one; nobody *)
(* has a job of it yet.                                                    *)
(***************************************************************************)
LEMMA Claiming ==
    ASSUME WorkerInvariant, NEW t \in JobTargets, Claimable(t),
           jobs' = [jobs EXCEPT ![t] = Leased(t)], UNCHANGED <<runs, excused>>,
           stream' \subseteq Messages,
           NEW w \in Workers, NEW at \in JobSteps,
           \/ workers' = workers
           \/ Enters(w, Idle)
           \/ Enters(w, Job(t, at))
    PROVE  WorkerInvariant'
<1> USE DEF WorkerInvariant, HasJob
<1>1. /\ jobs[t].attempt \in Nat
      /\ Leased(t) \in Row
      /\ Leased(t).attempt = jobs[t].attempt + 1
      /\ Leased(t).status = "running" /\ ~Leased(t).lapsed
    BY DEF RowsAndStates, Row, Leased
<1>2. /\ Job(t, at) \in Claimed
      /\ Job(t, at).target = t /\ Job(t, at).attempt = jobs[t].attempt + 1
    BY <1>1 DEF Job, Claimed
<1>3. Idle \in WorkerState \ Claimed
    BY DEF WorkerState, Claimed, Idle, JobSteps
<1>4. RowsAndStates'
    BY <1>1, <1>2, <1>3 DEF RowsAndStates, Enters, WorkerState
<1>5. AttemptsAreExcused'
    BY <1>1 DEF RowsAndStates, AttemptsAreExcused, Claimable, Row
<1>6. OneWorkerPerAttempt'
    <2>1. \A v \in Workers :
             \/ workers'[v] = workers[v]
             \/ v = w /\ workers'[v] \notin Claimed
             \/ v = w /\ workers'[v] = Job(t, at)
        BY <1>3 DEF RowsAndStates, Enters
    <2>2. \A v \in Workers : HasJob(v) /\ workers[v].target = t =>
             workers[v].attempt <= jobs[t].attempt /\ workers[v].attempt \in Nat
        BY DEF OneWorkerPerAttempt, Claimed
    <2>3. \A v \in Workers : workers'[v] \in Claimed =>
             workers'[v].attempt <= jobs'[workers'[v].target].attempt
        BY <1>1, <1>2, <2>1, <2>2 DEF RowsAndStates, OneWorkerPerAttempt, Claimed
    <2>4. ASSUME NEW u \in Workers, NEW v \in Workers,
                 workers'[u] \in Claimed, workers'[v] \in Claimed,
                 workers'[u].target = workers'[v].target,
                 workers'[u].attempt = workers'[v].attempt
          PROVE  u = v
        BY <1>1, <1>2, <2>1, <2>2, <2>4 DEF OneWorkerPerAttempt
    <2> QED
        BY <2>3, <2>4 DEF OneWorkerPerAttempt
<1>7. OneStartPerAttempt'
    BY <1>1, <1>2, <1>3 DEF RowsAndStates, OneStartPerAttempt, OneWorkerPerAttempt, Unstarted,
       Enters, Row, Claimed
<1> QED
    BY <1>4, <1>5, <1>6, <1>7

(***************************************************************************)
(* A row whose attempt ends, or lapses, keeps its attempt and is excused.  *)
(***************************************************************************)
LEMMA Ending ==
    ASSUME WorkerInvariant, NEW t \in JobTargets, NEW row \in Row,
           jobs[t].status = "running",
           row.attempt = jobs[t].attempt,
           jobs' = [jobs EXCEPT ![t] = row],
           NEW n \in {0, 1}, excused' = [excused EXCEPT ![t] = @ + n],
           jobs[t].attempt <= IF row.status = "succeeded" THEN excused[t] + 1 ELSE excused[t] + n,
           Keeps, UNCHANGED runs, stream' \subseteq Messages
    PROVE  WorkerInvariant'
<1> USE DEF WorkerInvariant
<1>1. RowsAndStates'
    BY DEF RowsAndStates, Keeps
<1>2. AttemptsAreExcused'
    BY DEF RowsAndStates, AttemptsAreExcused, Row
<1>3. OneWorkerPerAttempt' /\ OneStartPerAttempt'
    BY DEF RowsAndStates, OneWorkerPerAttempt, OneStartPerAttempt, Unstarted, HasJob, Claimed, Keeps
<1> QED
    BY <1>1, <1>2, <1>3

(***************************************************************************)
(* What becomes of messages.                                               *)
(***************************************************************************)
LEMMA MessagesStay ==
    ASSUME stream \subseteq Messages, NEW t \in JobTargets
    PROVE  /\ stream \cup {Message(t)} \subseteq Messages
           /\ Return(t) \subseteq Messages
           /\ \A m \in stream :
                 (stream \ {m}) \cup {[m EXCEPT !.out = TRUE, !.deliveries = @ + 1]} \subseteq Messages
<1>1. Message(t) \in Messages
    BY DEF Messages, Message
<1>2. ASSUME NEW m \in Messages, NEW out \in BOOLEAN, NEW n \in Nat
      PROVE  [m EXCEPT !.out = out] \in Messages /\ [m EXCEPT !.out = out, !.deliveries = n] \in Messages
    BY <1>2 DEF Messages
<1>3. \A m \in stream : m.deliveries + 1 \in Nat
    BY DEF Messages
<1> QED
    BY <1>1, <1>2, <1>3 DEF Return

(***************************************************************************)
(* The command starts once for an attempt that is verified in time.        *)
(***************************************************************************)
LEMMA Starting ==
    ASSUME WorkerInvariant, NEW w \in Workers, VerifyAndRun(w)
    PROVE  WorkerInvariant'
<1> DEFINE j == workers[w]
<1> USE DEF WorkerInvariant
<1>1. /\ HasJob(w) /\ j.target \in JobTargets /\ j.at = "verify"
    BY StateShapes DEF VerifyAndRun, HasJob, RowsAndStates, JobSteps
<1>2. stream' \subseteq Messages
    BY DEF VerifyAndRun, RowsAndStates
<1>3. CASE TooLate(w)
    <2>1. [j EXCEPT !.at = "report"] \in Claimed
        BY <1>1 DEF HasJob, Claimed, JobSteps
    <2>2. Keeps
        BY <1>1, <1>3, <2>1, GoingOn DEF VerifyAndRun, Claimed, HasJob
    <2> QED
        BY <1>2, <1>3, <2>2, Keeping DEF VerifyAndRun
<1>4. CASE ~TooLate(w)
    <2> DEFINE t == j.target
    <2>1. /\ [j EXCEPT !.at = "run"] \in Claimed
          /\ [j EXCEPT !.at = "run"].at = "run"
          /\ [j EXCEPT !.at = "run"].target = j.target
          /\ [j EXCEPT !.at = "run"].attempt = j.attempt
        BY <1>1 DEF HasJob, Claimed, JobSteps
    <2>2. /\ workers' = [workers EXCEPT ![w] = [j EXCEPT !.at = "run"]]
          /\ runs' = [runs EXCEPT ![t] = @ + 1]
          /\ UNCHANGED <<jobs, excused, stream>>
        BY <1>4 DEF VerifyAndRun, Enters
    <2>3. j.attempt = jobs[t].attempt
        BY <1>4 DEF TooLate, Current
    <2>4. runs[t] < jobs[t].attempt
        BY <1>1, <2>3 DEF OneStartPerAttempt, Unstarted
    <2>5. RowsAndStates'
        BY <1>1, <2>1, <2>2 DEF RowsAndStates, WorkerState
    <2>6. AttemptsAreExcused'
        BY <2>2 DEF AttemptsAreExcused
    <2>7. OneWorkerPerAttempt'
        BY <1>1, <2>1, <2>2 DEF OneWorkerPerAttempt, RowsAndStates, HasJob
    <2>8. \A v \in Workers : ~Unstarted(v, t)'
        BY <1>1, <2>1, <2>2, <2>3 DEF Unstarted, HasJob, RowsAndStates, OneWorkerPerAttempt
    <2>9. OneStartPerAttempt'
        BY <1>1, <2>1, <2>2, <2>4, <2>8 DEF OneStartPerAttempt, RowsAndStates, Row, Unstarted, HasJob
    <2> QED
        BY <2>5, <2>6, <2>7, <2>9
<1> QED
    BY <1>3, <1>4

(***************************************************************************)
(* A result is taken only while its attempt is the target's.               *)
(***************************************************************************)
LEMMA Taking ==
    ASSUME WorkerInvariant, NEW w \in Workers, HasJob(w), Current(w), Take(w),
           Keeps, UNCHANGED runs, stream' \subseteq Messages
    PROVE  WorkerInvariant'
<1> DEFINE t == workers[w].target
           ok == workers[w].ok
           row == jobs'[t]
           n == IF ok THEN 0 ELSE 1
<1>1. t \in JobTargets /\ ok \in BOOLEAN
    BY DEF HasJob, Claimed
<1>2. jobs[t] \in Row /\ jobs \in [JobTargets -> Row] /\ excused \in [JobTargets -> Nat]
    BY <1>1 DEF WorkerInvariant, RowsAndStates
<1>3. /\ row \in Row /\ row.attempt = jobs[t].attempt
      /\ row.status # "running" /\ (ok <=> row.status = "succeeded")
      /\ jobs' = [jobs EXCEPT ![t] = row]
    BY <1>1, <1>2 DEF Take, Recorded, Row
<1>4. excused' = [excused EXCEPT ![t] = @ + n]
    <2>1. CASE ok
        BY <1>1, <1>2, <2>1 DEF Take
    <2>2. CASE ~ok
        BY <1>1, <1>2, <2>2 DEF Take
    <2> QED
        BY <2>1, <2>2
<1>5. jobs[t].status = "running"
    BY DEF Current
<1>6. jobs[t].attempt <= excused[t] + 1
    BY <1>1, <1>2 DEF WorkerInvariant, AttemptsAreExcused, Row
<1>7. jobs[t].attempt <= IF row.status = "succeeded" THEN excused[t] + 1 ELSE excused[t] + n
    BY <1>3, <1>6
<1>8. n \in {0, 1}
    OBVIOUS
<1> HIDE DEF row, n
<1> QED
    BY <1>1, <1>3, <1>4, <1>5, <1>7, <1>8, Ending

(***************************************************************************)
(* Notifications and the clock.                                            *)
(***************************************************************************)
LEMMA NotifyKeepsInvariant == WorkerInvariant /\ Notify => WorkerInvariant'
<1> SUFFICES ASSUME WorkerInvariant, Notify PROVE WorkerInvariant'
    OBVIOUS
<1>1. stream \subseteq Messages
    BY DEF WorkerInvariant, RowsAndStates
<1>2. stream' \subseteq Messages
    BY <1>1, MessagesStay
       DEF Notify, Publish, PublishFails, PublisherStops, AckWaitPasses
<1>3. UNCHANGED <<jobs, workers, runs, excused>>
    BY DEF Notify, Publish, PublishFails, PublisherStops, AckWaitPasses
<1>4. Keeps
    BY <1>3 DEF Keeps, HasJob, WorkerInvariant, RowsAndStates
<1> QED
    BY <1>2, <1>3, <1>4, Keeping

\* A lapse and its reclamation excuse the attempt they end.
LEMMA LeasesKeepInvariant == WorkerInvariant /\ Leases => WorkerInvariant'
<1> SUFFICES ASSUME WorkerInvariant, NEW t \in JobTargets, LeaseLapses(t) \/ Reclaim(t)
             PROVE  WorkerInvariant'
    BY DEF Leases
<1>1. /\ jobs[t] \in Row /\ jobs \in [JobTargets -> Row] /\ excused \in [JobTargets -> Nat]
      /\ stream \subseteq Messages
    BY DEF WorkerInvariant, RowsAndStates
<1>2. Keeps /\ UNCHANGED <<workers, runs, stream>>
    BY DEF LeaseLapses, Reclaim, Keeps, HasJob, WorkerInvariant, RowsAndStates
<1>3. CASE LeaseLapses(t)
    <2> DEFINE row == [jobs[t] EXCEPT !.lapsed = TRUE]
    <2>1. row \in Row /\ row.attempt = jobs[t].attempt /\ row.status = "running"
        BY <1>1, <1>3 DEF LeaseLapses, Row
    <2>2. /\ jobs' = [jobs EXCEPT ![t] = row]
          /\ excused' = [excused EXCEPT ![t] = @ + 1]
          /\ jobs[t].status = "running"
        BY <1>3 DEF LeaseLapses
    <2>3. jobs[t].attempt <= excused[t] + 1
        BY <1>1 DEF WorkerInvariant, AttemptsAreExcused, Row
    <2> HIDE DEF row
    <2> QED
        BY <1>1, <1>2, <2>1, <2>2, <2>3, Ending
<1>4. CASE Reclaim(t)
    <2> DEFINE row == jobs'[t]
    <2>1. /\ row \in Row /\ row.attempt = jobs[t].attempt /\ row.status # "succeeded"
          /\ jobs' = [jobs EXCEPT ![t] = row]
        BY <1>1, <1>4 DEF Reclaim, Row
    <2>2. excused' = [excused EXCEPT ![t] = @ + 0]
        BY <1>1, <1>4 DEF Reclaim
    <2>3. jobs[t].status = "running" /\ jobs[t].attempt <= excused[t] + 0
        BY <1>1, <1>4 DEF Reclaim, WorkerInvariant, AttemptsAreExcused, Row
    <2> HIDE DEF row
    <2> QED
        BY <1>1, <1>2, <2>1, <2>2, <2>3, Ending
<1> QED
    BY <1>3, <1>4

(***************************************************************************)
(* The steps of a worker's loop, and what may go wrong in it.              *)
(***************************************************************************)
LEMMA LoopKeepsInvariant ==
    ASSUME WorkerInvariant, NEW w \in Workers, Loop(w) \/ LoopFails(w)
    PROVE  WorkerInvariant'
<1> DEFINE j == workers[w]
<1>1. /\ j \in WorkerState /\ stream \subseteq Messages
      /\ jobs \in [JobTargets -> Row]
    BY DEF WorkerInvariant, RowsAndStates
<1>2. Idle \in WorkerState \ Claimed
    BY <1>1, StateShapes
<1>3. CASE TakeNotification(w)
    <2>1. PICK m \in stream :
              /\ stream' = (stream \ {m}) \cup {[m EXCEPT !.out = TRUE, !.deliveries = @ + 1]}
              /\ Enters(w, [at |-> "notified", target |-> m.target])
        BY <1>3 DEF TakeNotification, Deliverable
    <2>2. stream' \subseteq Messages /\ m.target \in JobTargets
        BY <1>1, <2>1, MessagesStay DEF Messages
    <2>3. [at |-> "notified", target |-> m.target] \in WorkerState \ Claimed
        BY <2>2 DEF WorkerState, Claimed, JobSteps
    <2>4. Keeps
        BY <2>1, <2>3, LettingGo
    <2> QED
        BY <1>3, <2>2, <2>4, Keeping DEF TakeNotification
<1>4. CASE ClaimNotified(w)
    <2>1. j.target \in JobTargets
        BY <1>1, <1>4, StateShapes DEF ClaimNotified
    <2>2. CASE Claimable(j.target)
        BY <1>1, <1>4, <2>1, <2>2, Claiming DEF ClaimNotified, JobSteps
    <2>3. CASE ~Claimable(j.target)
        <3>1. [at |-> "dismiss", target |-> j.target] \in WorkerState \ Claimed
            BY <2>1 DEF WorkerState, Claimed, JobSteps
        <3>2. Keeps
            BY <1>4, <2>3, <3>1, LettingGo DEF ClaimNotified
        <3> QED
            BY <1>1, <1>4, <2>3, <3>2, Keeping DEF ClaimNotified
    <2> QED
        BY <2>2, <2>3
<1>5. CASE ClaimNotifiedFails(w)
    <2>1. j.target \in JobTargets
        BY <1>1, <1>5, StateShapes DEF ClaimNotifiedFails
    <2>2. stream' \subseteq Messages
        BY <1>1, <1>5, <2>1, MessagesStay DEF ClaimNotifiedFails
    <2>3. CASE UNCHANGED jobs
        BY <1>2, <1>5, <2>2, <2>3, LettingGo, Keeping DEF ClaimNotifiedFails
    <2>4. CASE Claimable(j.target) /\ jobs' = [jobs EXCEPT ![j.target] = Leased(j.target)]
        BY <1>5, <2>1, <2>2, <2>4, Claiming DEF ClaimNotifiedFails, JobSteps
    <2> QED
        BY <1>5, <2>3, <2>4 DEF ClaimNotifiedFails
<1>6. CASE Acknowledge(w) \/ AcknowledgeFails(w)
    <2>1. stream' \subseteq Messages /\ UNCHANGED <<jobs, runs, excused>>
        BY <1>1, <1>6 DEF Acknowledge, AcknowledgeFails
    <2>2. CASE Enters(w, Idle)
        BY <1>2, <2>1, <2>2, LettingGo, Keeping
    <2>3. CASE j.at = "acknowledge" /\ Enters(w, [j EXCEPT !.at = "verify"])
        <3>1. HasJob(w)
            BY <1>1, <2>3, StateShapes DEF HasJob, JobSteps
        <3>2. /\ [j EXCEPT !.at = "verify"] \in Claimed
              /\ [j EXCEPT !.at = "verify"].target = j.target
              /\ [j EXCEPT !.at = "verify"].attempt = j.attempt
            BY <3>1 DEF HasJob, Claimed, JobSteps
        <3> QED
            BY <2>1, <2>3, <3>1, <3>2, GoingOn, Keeping
    <2> QED
        BY <1>6, <2>2, <2>3 DEF Acknowledge, AcknowledgeFails
<1>7. CASE Poll(w)
    BY <1>1, <1>7, Claiming DEF Poll, JobSteps
<1>8. CASE PollAnswerIsLost(w)
    BY <1>1, <1>8, Claiming DEF PollAnswerIsLost, JobSteps
<1>9. CASE VerifyAndRun(w)
    BY <1>9, Starting
<1>10. CASE CommandEnds(w)
    <2>1. HasJob(w)
        BY <1>1, <1>10, StateShapes DEF CommandEnds, HasJob, JobSteps
    <2>2. PICK ok \in BOOLEAN : Enters(w, [j EXCEPT !.at = "report", !.ok = ok])
        BY <1>10 DEF CommandEnds
    <2>3. /\ [j EXCEPT !.at = "report", !.ok = ok] \in Claimed
          /\ [j EXCEPT !.at = "report", !.ok = ok].target = j.target
          /\ [j EXCEPT !.at = "report", !.ok = ok].attempt = j.attempt
          /\ [j EXCEPT !.at = "report", !.ok = ok].at = "report"
        BY <2>1 DEF HasJob, Claimed, JobSteps
    <2>4. Keeps
        BY <2>1, <2>2, <2>3, GoingOn
    <2> QED
        BY <1>1, <1>10, <2>4, Keeping DEF CommandEnds
<1>11. CASE Submit(w)
    <2>1. HasJob(w)
        BY <1>1, <1>11, StateShapes DEF Submit, HasJob, JobSteps
    <2>2. Keeps
        BY <1>2, <1>11, LettingGo DEF Submit
    <2> QED
        BY <1>1, <1>11, <2>1, <2>2, Keeping, Taking DEF Submit
<1>12. CASE SubmitFails(w)
    <2>1. HasJob(w) /\ j.at = "report"
        BY <1>1, <1>12, StateShapes DEF SubmitFails, HasJob, JobSteps
    <2>2. /\ [j EXCEPT !.tries = j.tries + 1] \in Claimed
          /\ [j EXCEPT !.tries = j.tries + 1].target = j.target
          /\ [j EXCEPT !.tries = j.tries + 1].attempt = j.attempt
          /\ [j EXCEPT !.tries = j.tries + 1].at = "report"
        BY <2>1 DEF HasJob, Claimed, JobSteps
    <2>3. Enters(w, Idle) \/ Enters(w, [j EXCEPT !.tries = j.tries + 1])
        BY <1>12 DEF SubmitFails
    <2>4. Keeps
        BY <1>2, <2>1, <2>2, <2>3, LettingGo, GoingOn
    <2> QED
        BY <1>1, <1>12, <2>1, <2>4, Keeping, Taking DEF SubmitFails
<1>13. CASE WorkerStops(w)
    BY <1>1, <1>2, <1>13, LettingGo, Keeping DEF WorkerStops
<1> QED
    BY <1>3, <1>4, <1>5, <1>6, <1>7, <1>8, <1>9, <1>10, <1>11, <1>12, <1>13 DEF Loop, LoopFails

(***************************************************************************)
(* Attempts are excused, belong to one worker each and start once, in      *)
(* every reachable state.                                                  *)
(***************************************************************************)
THEOREM AttemptsStartOnce == WorkerSpec => []WorkerInvariant
<1>1. ASSUME WorkerInvariant, [WorkerNext]_workerVars PROVE WorkerInvariant'
    <2>1. CASE WorkerNext
        BY <1>1, <2>1, NotifyKeepsInvariant, LeasesKeepInvariant, LoopKeepsInvariant DEF WorkerNext
    <2>2. CASE UNCHANGED workerVars
        BY <1>1, <2>2 DEF workerVars, WorkerInvariant, RowsAndStates, AttemptsAreExcused,
           OneWorkerPerAttempt, OneStartPerAttempt, Unstarted, HasJob
    <2> QED
        BY <1>1, <2>1, <2>2
<1> QED
    BY <1>1, WorkerInvariantInit, PTL DEF WorkerSpec

(***************************************************************************)
(* "Duplicate delivery must never result in a second infrastructure        *)
(* change": with as many workers, messages and faults as one likes.        *)
(***************************************************************************)
THEOREM DuplicatesAreHarmless == WorkerSpec => []DuplicatesRunNothing
<1>1. WorkerInvariant => DuplicatesRunNothing
    BY DEF WorkerInvariant, RowsAndStates, AttemptsAreExcused, OneStartPerAttempt,
       DuplicatesRunNothing, Row
<1> QED
    BY <1>1, AttemptsStartOnce, PTL

(***************************************************************************)
(* No target is claimed more than MaxTries times and no message delivered  *)
(* more than MaxDeliver times.                                             *)
(***************************************************************************)
WithinBounds ==
    /\ \A t \in JobTargets : jobs[t].attempt <= MaxTries
    /\ unpublished \subseteq JobTargets /\ known \subseteq JobTargets
    /\ \A m \in stream : m.deliveries <= MaxDeliver

(***************************************************************************)
(* Only a delivery counts, and only a message with deliveries left is      *)
(* delivered.                                                              *)
(***************************************************************************)
LEMMA DeliveriesAreBounded ==
    ASSUME stream \subseteq Messages, \A m \in stream : m.deliveries <= MaxDeliver,
           NEW t \in JobTargets
    PROVE  /\ \A m \in Return(t) : m.deliveries <= MaxDeliver
           /\ \A m \in stream \cup {Message(t)} : m.deliveries <= MaxDeliver
           /\ \A d \in Deliverable :
                 \A m \in (stream \ {d}) \cup {[d EXCEPT !.out = TRUE, !.deliveries = @ + 1]} :
                    m.deliveries <= MaxDeliver
<1>1. Message(t).deliveries = 0
    BY DEF Message
<1>2. \A m \in stream : [m EXCEPT !.out = FALSE].deliveries = m.deliveries
    BY DEF Messages
<1>3. \A d \in stream : [d EXCEPT !.out = TRUE, !.deliveries = @ + 1].deliveries = d.deliveries + 1
    BY DEF Messages
<1>4. \A d \in Deliverable : d \in stream /\ d.deliveries \in Nat /\ d.deliveries + 1 <= MaxDeliver
    BY DEF Deliverable, Messages
<1>5. \A m \in Return(t) : m.deliveries <= MaxDeliver
    BY <1>2 DEF Return
<1>6. \A m \in stream \cup {Message(t)} : m.deliveries <= MaxDeliver
    BY <1>1
<1>7. ASSUME NEW d \in Deliverable,
             NEW m \in (stream \ {d}) \cup {[d EXCEPT !.out = TRUE, !.deliveries = @ + 1]}
      PROVE  m.deliveries <= MaxDeliver
    <2>1. CASE m \in stream
        BY <2>1
    <2>2. CASE m = [d EXCEPT !.out = TRUE, !.deliveries = @ + 1]
        BY <1>3, <1>4, <2>2
    <2> QED
        BY <1>7, <2>1, <2>2
<1> QED
    BY <1>5, <1>6, <1>7

(***************************************************************************)
(* A claim takes one of the attempts left; nothing else adds to them.      *)
(***************************************************************************)
LEMMA AttemptsAreBounded ==
    ASSUME jobs \in [JobTargets -> Row], \A t \in JobTargets : jobs[t].attempt <= MaxTries,
           NEW t \in JobTargets
    PROVE  /\ Claimable(t) => [jobs EXCEPT ![t] = Leased(t)][t].attempt <= MaxTries
           /\ \A ok \in BOOLEAN : Recorded(t, ok)[t].attempt <= MaxTries
           /\ \A u \in JobTargets : u # t =>
                 /\ [jobs EXCEPT ![t] = Leased(t)][u] = jobs[u]
                 /\ \A ok \in BOOLEAN : Recorded(t, ok)[u] = jobs[u]
BY DEF Claimable, Leased, Recorded, Row

(***************************************************************************)
(* The rows after any step.                                                *)
(***************************************************************************)
LEMMA RowsStayBounded ==
    ASSUME WorkerInvariant, WithinBounds, WorkerNext
    PROVE  \A u \in JobTargets : jobs'[u].attempt <= MaxTries
<1>1. /\ jobs \in [JobTargets -> Row]
      /\ \A w \in Workers : workers[w] \in WorkerState
      /\ \A t \in JobTargets : jobs[t].attempt <= MaxTries
    BY DEF WorkerInvariant, RowsAndStates, WithinBounds
<1>2. CASE UNCHANGED jobs
    BY <1>1, <1>2
<1>3. CASE \E t \in JobTargets : Claimable(t) /\ jobs' = [jobs EXCEPT ![t] = Leased(t)]
    BY <1>1, <1>3, AttemptsAreBounded
<1>4. ASSUME NEW w \in Workers, workers[w].at = "report", Take(w)
      PROVE  \A u \in JobTargets : jobs'[u].attempt <= MaxTries
    <2>1. workers[w] \in Claimed
        BY <1>1, <1>4, StateShapes DEF JobSteps
    <2>2. workers[w].target \in JobTargets /\ workers[w].ok \in BOOLEAN
        BY <2>1 DEF Claimed
    <2> QED
        BY <1>1, <1>4, <2>2, AttemptsAreBounded DEF Take
<1>5. ASSUME NEW t \in JobTargets, LeaseLapses(t) \/ Reclaim(t)
      PROVE  \A u \in JobTargets : jobs'[u].attempt <= MaxTries
    BY <1>1, <1>5 DEF LeaseLapses, Reclaim, Row
<1>6. ASSUME NEW w \in Workers, Loop(w) \/ LoopFails(w)
      PROVE  \/ UNCHANGED jobs
             \/ \E t \in JobTargets : Claimable(t) /\ jobs' = [jobs EXCEPT ![t] = Leased(t)]
             \/ workers[w].at = "report" /\ Take(w)
    <2>1. workers[w].at \in {"notified", "dismiss"} => workers[w].target \in JobTargets
        BY <1>1, StateShapes
    <2>2. CASE TakeNotification(w) \/ Acknowledge(w) \/ VerifyAndRun(w) \/ CommandEnds(w)
               \/ AcknowledgeFails(w) \/ WorkerStops(w)
        BY <2>2 DEF TakeNotification, Acknowledge, VerifyAndRun, CommandEnds, AcknowledgeFails,
           WorkerStops
    <2>3. CASE ClaimNotified(w) \/ ClaimNotifiedFails(w)
        BY <2>1, <2>3 DEF ClaimNotified, ClaimNotifiedFails
    <2>4. CASE Poll(w) \/ PollAnswerIsLost(w)
        BY <2>4 DEF Poll, PollAnswerIsLost
    <2>5. CASE Submit(w) \/ SubmitFails(w)
        BY <2>5 DEF Submit, SubmitFails
    <2> QED
        BY <1>6, <2>2, <2>3, <2>4, <2>5 DEF Loop, LoopFails
<1>7. Notify => UNCHANGED jobs
    BY DEF Notify, Publish, PublishFails, PublisherStops, AckWaitPasses
<1> QED
    BY <1>2, <1>3, <1>4, <1>5, <1>6, <1>7 DEF WorkerNext, Leases

(***************************************************************************)
(* The messages after any step.                                            *)
(***************************************************************************)
LEMMA MessagesStayBounded ==
    ASSUME WorkerInvariant, WithinBounds, WorkerNext
    PROVE  /\ unpublished' \subseteq JobTargets /\ known' \subseteq JobTargets
           /\ \A m \in stream' : m.deliveries <= MaxDeliver
<1>1. /\ stream \subseteq Messages
      /\ \A w \in Workers : workers[w] \in WorkerState
      /\ unpublished \subseteq JobTargets /\ known \subseteq JobTargets
      /\ \A m \in stream : m.deliveries <= MaxDeliver
    BY DEF WorkerInvariant, RowsAndStates, WithinBounds
<1>2. CASE Notify
    <2>1. unpublished' \subseteq JobTargets /\ known' \subseteq JobTargets
        BY <1>1, <1>2 DEF Notify, Publish, PublishFails, PublisherStops, AckWaitPasses
    <2>2. stream' = stream \/ \E t \in JobTargets : stream' \in {Return(t), stream \cup {Message(t)}}
        BY <1>2 DEF Notify, Publish, PublishFails, PublisherStops, AckWaitPasses
    <2> QED
        BY <1>1, <2>1, <2>2, DeliveriesAreBounded
<1>3. CASE Leases
    BY <1>1, <1>3 DEF Leases, LeaseLapses, Reclaim
<1>4. ASSUME NEW w \in Workers, Loop(w) \/ LoopFails(w)
      PROVE  /\ UNCHANGED <<unpublished, known>>
             /\ \/ stream' \subseteq stream
                \/ \E t \in JobTargets : stream' = Return(t)
                \/ \E d \in Deliverable :
                      stream' = (stream \ {d}) \cup {[d EXCEPT !.out = TRUE, !.deliveries = @ + 1]}
    <2>1. workers[w].at = "notified" => workers[w].target \in JobTargets
        BY <1>1, StateShapes
    <2>2. CASE TakeNotification(w)
        BY <2>2 DEF TakeNotification
    <2>3. CASE ClaimNotifiedFails(w)
        BY <2>1, <2>3 DEF ClaimNotifiedFails
    <2>4. CASE Acknowledge(w) \/ AcknowledgeFails(w)
        BY <2>4 DEF Acknowledge, AcknowledgeFails
    <2>5. CASE ClaimNotified(w) \/ Poll(w) \/ PollAnswerIsLost(w) \/ VerifyAndRun(w)
               \/ CommandEnds(w) \/ Submit(w) \/ SubmitFails(w) \/ WorkerStops(w)
        BY <2>5 DEF ClaimNotified, Poll, PollAnswerIsLost, VerifyAndRun, CommandEnds, Submit,
           SubmitFails, WorkerStops
    <2> QED
        BY <1>4, <2>2, <2>3, <2>4, <2>5 DEF Loop, LoopFails
<1>5. JobTargets # {} => \A d \in Deliverable :
         \A m \in (stream \ {d}) \cup {[d EXCEPT !.out = TRUE, !.deliveries = @ + 1]} :
            m.deliveries <= MaxDeliver
    BY <1>1, DeliveriesAreBounded
<1>6. \A d \in Deliverable : d.target \in JobTargets
    BY <1>1 DEF Deliverable, Messages
<1>7. CASE \E w \in Workers : Loop(w) \/ LoopFails(w)
    BY <1>1, <1>4, <1>5, <1>6, <1>7, DeliveriesAreBounded
<1> QED
    BY <1>2, <1>3, <1>7 DEF WorkerNext

(***************************************************************************)
(* The worker's state is well formed: attempts and deliveries stay within  *)
(* max_attempts and MaxDeliver, however often messages come again.         *)
(***************************************************************************)
THEOREM WorkerTypes == WorkerSpec => []WorkerTypeOK
<1>1. WorkerInit => WithinBounds
    BY DEF WorkerInit, WithinBounds
<1>2. WorkerInvariant /\ WithinBounds /\ [WorkerNext]_workerVars => WithinBounds'
    <2>1. WorkerInvariant /\ WithinBounds /\ WorkerNext => WithinBounds'
        BY RowsStayBounded, MessagesStayBounded DEF WithinBounds
    <2>2. WithinBounds /\ UNCHANGED workerVars => WithinBounds'
        BY DEF WithinBounds, workerVars
    <2> QED
        BY <2>1, <2>2
<1>3. WorkerInvariant /\ WithinBounds => WorkerTypeOK
    <2> SUFFICES ASSUME WorkerInvariant, WithinBounds PROVE WorkerTypeOK
        OBVIOUS
    <2>1. \A t \in JobTargets : jobs[t].attempt \in 0 .. MaxTries /\ jobs[t] \in Row
        BY DEF WorkerInvariant, RowsAndStates, WithinBounds, Row
    <2>2. jobs \in [JobTargets -> [status : {"pending", "running", "succeeded", "dead"},
                                   attempt : 0 .. MaxTries, lapsed : BOOLEAN]]
        BY <2>1 DEF WorkerInvariant, RowsAndStates, Row
    <2>3. stream \subseteq [target : JobTargets, deliveries : 0 .. MaxDeliver, out : BOOLEAN]
        BY DEF WorkerInvariant, RowsAndStates, WithinBounds, Messages
    <2>4. \A w \in Workers : workers[w] # Idle => workers[w].target \in JobTargets
        BY DEF WorkerInvariant, RowsAndStates, WorkerState, Claimed
    <2> QED
        BY <2>2, <2>3, <2>4 DEF WorkerTypeOK, WithinBounds
<1> QED
    BY <1>1, <1>2, <1>3, AttemptsStartOnce, PTL DEF WorkerSpec
=============================================================================
