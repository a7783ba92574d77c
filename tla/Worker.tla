------------------------------- MODULE Worker -------------------------------
(***************************************************************************)
(* The runner's loop (apps/runner/main.go) and the notifications that tell *)
(* it of new targets (apps/api/dispatch.go, packages/dispatch).  The queue *)
(* appears as the API shows it to a runner: claims, renewals and results   *)
(* of targets; the module JobQueue is about what is behind it.  All        *)
(* workers share the durable consumer, and all may take every target.      *)
(***************************************************************************)
EXTENDS Handlers, FiniteSets

CONSTANTS
    JobTargets,     \* pending targets of one execution
    Workers,
    MaxTries,       \* of a target: max_attempts
    MaxDeliver,     \* of a message
    MaxFaults       \* bound: processes stopped, answers and messages lost

ASSUME WorkerAssumption ==
    /\ MaxTries \in Nat \ {0} /\ MaxFaults \in Nat
    /\ MaxDeliver \in 1 .. 20     \* validateJetStreamConfig

VARIABLES
    jobs,           \* the targets' rows
    unpublished,    \* what the creation's handler has still to publish
    stream,         \* messages of the work queue
    known,          \* message ids within the duplicate window
    workers,
    runs,           \* history: commands started per target
    excused,        \* history: leases lapsed and failures recorded per target
    faults          \* history: how many things went wrong

workerVars == <<jobs, unpublished, stream, known, workers, runs, excused, faults>>

Fault == faults < MaxFaults /\ faults' = faults + 1

Message(t) == [target |-> t, deliveries |-> 0, out |-> FALSE]

WorkerInit ==
    /\ jobs = [t \in JobTargets |-> [status |-> "pending", attempt |-> 0, lapsed |-> FALSE]]
    /\ unpublished = JobTargets
    /\ stream = {} /\ known = {}
    /\ workers = [w \in Workers |-> Idle]
    /\ runs = [t \in JobTargets |-> 0]
    /\ excused = [t \in JobTargets |-> 0]
    /\ faults = 0

Enters(w, state) == workers' = [workers EXCEPT ![w] = state]

-----------------------------------------------------------------------------
(* The notifications: published after the commit, one target after another, *)
(* going on after an error.                                                 *)

Publish(t) ==
    /\ t \in unpublished
    /\ unpublished' = unpublished \ {t}
    /\ known' = known \cup {t}
    /\ stream' = IF t \in known THEN stream ELSE stream \cup {Message(t)}
    /\ UNCHANGED <<jobs, workers, runs, excused, faults>>

PublishFails(t) ==
    /\ Fault
    /\ t \in unpublished
    /\ unpublished' = unpublished \ {t}
    /\ UNCHANGED <<jobs, stream, known, workers, runs, excused>>

\* The process ends between two messages: nobody publishes the rest.
PublisherStops ==
    /\ Fault
    /\ unpublished # {}
    /\ unpublished' = {}
    /\ UNCHANGED <<jobs, stream, known, workers, runs, excused>>

\* MaxAckPending is 1: nothing more is delivered while a message is out.
Deliverable == {m \in stream : m.deliveries < MaxDeliver /\ \A n \in stream : ~n.out}

TakeNotification(w) ==
    /\ workers[w] = Idle
    /\ \E m \in Deliverable :
          /\ stream' = (stream \ {m}) \cup {[m EXCEPT !.out = TRUE, !.deliveries = @ + 1]}
          /\ Enters(w, [at |-> "notified", target |-> m.target])
    /\ UNCHANGED <<jobs, unpublished, known, runs, excused, faults>>

\* AckWait passes, or a Nak: the message may be delivered again.
Return(t) == {IF m.target = t THEN [m EXCEPT !.out = FALSE] ELSE m : m \in stream}

AckWaitPasses(t) ==
    /\ stream' = Return(t)
    /\ stream' # stream
    /\ UNCHANGED <<jobs, unpublished, known, workers, runs, excused, faults>>

-----------------------------------------------------------------------------
(* Claims. *)

(* Mutant: a target is handed out again while its lease is live. *)
ClaimableWhileRunning(t) ==
    jobs[t].attempt < MaxTries /\ jobs[t].status \in {"pending", "running"}

Claimable(t) ==
    /\ jobs[t].attempt < MaxTries
    /\ jobs[t].status = "pending" \/ (jobs[t].status = "running" /\ jobs[t].lapsed)

Leased(t) == [status |-> "running", attempt |-> jobs[t].attempt + 1, lapsed |-> FALSE]

\* The job in hand; its attempt stands for its lease id.
Job(t, at) == [at |-> at, target |-> t, attempt |-> jobs[t].attempt + 1, tries |-> 0, ok |-> FALSE]

\* claimNotification asks for the target of the message; answered with a job or no_jobs.
ClaimNotified(w) ==
    LET t == workers[w].target
    IN  /\ workers[w].at = "notified"
        /\ IF Claimable(t)
             THEN /\ jobs' = [jobs EXCEPT ![t] = Leased(t)]
                  /\ Enters(w, Job(t, "acknowledge"))
             ELSE /\ Enters(w, [at |-> "dismiss", target |-> t])
                  /\ UNCHANGED jobs
        /\ UNCHANGED <<unpublished, stream, known, runs, excused, faults>>

\* The claim fails, or its answer is lost after it was made: Nak, and the loop goes on.
ClaimNotifiedFails(w) ==
    LET t == workers[w].target
    IN  /\ Fault
        /\ workers[w].at = "notified"
        /\ \/ UNCHANGED jobs
           \/ Claimable(t) /\ jobs' = [jobs EXCEPT ![t] = Leased(t)]
        /\ stream' = Return(t)
        /\ Enters(w, Idle)
        /\ UNCHANGED <<unpublished, known, runs, excused>>

Acknowledge(w) ==
    /\ workers[w].at \in {"acknowledge", "dismiss"}
    /\ stream' = {m \in stream : m.target # workers[w].target}
    /\ Enters(w, IF workers[w].at = "dismiss" THEN Idle ELSE [workers[w] EXCEPT !.at = "verify"])
    /\ UNCHANGED <<jobs, unpublished, known, runs, excused, faults>>

\* Without the acknowledgement's answer the loop drops the job it has claimed.
AcknowledgeFails(w) ==
    /\ Fault
    /\ workers[w].at \in {"acknowledge", "dismiss"}
    /\ stream' \in {stream, {m \in stream : m.target # workers[w].target}}
    /\ Enters(w, Idle)
    /\ UNCHANGED <<jobs, unpublished, known, runs, excused>>

(* Mutant: with notifications configured the worker no longer polls. *)
NoPoll == FALSE

\* No notification was handled: ErrNoMessage.  (An error of the consumer is a fault.)
NothingNotified == Deliverable = {}

Poll(w) ==
    /\ workers[w] = Idle
    /\ \/ NothingNotified /\ UNCHANGED faults
       \/ Fault
    /\ \E t \in JobTargets :
          /\ Claimable(t)
          /\ jobs' = [jobs EXCEPT ![t] = Leased(t)]
          /\ Enters(w, Job(t, "verify"))
    /\ UNCHANGED <<unpublished, stream, known, runs, excused>>

PollAnswerIsLost(w) ==
    /\ Fault
    /\ workers[w] = Idle
    /\ \E t \in JobTargets : Claimable(t) /\ jobs' = [jobs EXCEPT ![t] = Leased(t)]
    /\ UNCHANGED <<unpublished, stream, known, workers, runs, excused>>

-----------------------------------------------------------------------------
(* The job in hand. *)

InHand(w, t) == workers[w] # Idle /\ workers[w].target = t /\ workers[w].at \in {"verify", "run", "report"}
Current(w) == LET j == workers[w]
              IN  jobs[j.target].status = "running" /\ jobs[j.target].attempt = j.attempt

\* The signature is the API's and good until the first lease's end.
TooLate(w) == ~Current(w) \/ jobs[workers[w].target].lapsed

\* A job that came too late is refused and reported as failed.
VerifyAndRun(w) ==
    LET j == workers[w]
    IN  /\ j.at = "verify"
        /\ IF TooLate(w)
             THEN Enters(w, [j EXCEPT !.at = "report"]) /\ UNCHANGED runs
             ELSE Enters(w, [j EXCEPT !.at = "run"]) /\ runs' = [runs EXCEPT ![j.target] = @ + 1]
        /\ UNCHANGED <<jobs, unpublished, stream, known, excused, faults>>

\* The command ends, is refused for want of a host key or credential, or runs out of time.
CommandEnds(w) ==
    /\ workers[w].at = "run"
    /\ \E ok \in BOOLEAN : Enters(w, [workers[w] EXCEPT !.at = "report", !.ok = ok])
    /\ UNCHANGED <<jobs, unpublished, stream, known, runs, excused, faults>>

\* The API's answer to a result: recorded, or refused because the lease is not the target's.
Recorded(t, ok) ==
    [jobs EXCEPT ![t].status = IF ok THEN "succeeded"
                               ELSE IF jobs[t].attempt < MaxTries THEN "pending" ELSE "dead"]

Take(w) ==
    LET j == workers[w]
    IN  /\ jobs' = Recorded(j.target, j.ok)
        /\ excused' = IF j.ok THEN excused ELSE [excused EXCEPT ![j.target] = @ + 1]

Submit(w) ==
    /\ workers[w].at = "report"
    /\ IF Current(w) THEN Take(w) ELSE UNCHANGED <<jobs, excused>>
    /\ Enters(w, Idle)
    /\ UNCHANGED <<unpublished, stream, known, runs, faults>>

\* No answer, a 5xx, 408 or 429: up to three tries, the result recorded or not.
SubmitFails(w) ==
    LET j == workers[w]
    IN  /\ Fault
        /\ j.at = "report"
        /\ UNCHANGED <<jobs, excused>> \/ (Current(w) /\ Take(w))
        /\ Enters(w, IF j.tries < 2 THEN [j EXCEPT !.tries = @ + 1] ELSE Idle)
        /\ UNCHANGED <<unpublished, stream, known, runs>>

\* renewLeaseLoop renews every 60 s of five minutes while the command runs: the lease of a
\* job in hand lapses only when renewals fail.
LeaseLapses(t) ==
    /\ jobs[t].status = "running" /\ ~jobs[t].lapsed
    /\ \/ Fault
       \/ (\A w \in Workers : ~(InHand(w, t) /\ Current(w))) /\ UNCHANGED faults
    /\ jobs' = [jobs EXCEPT ![t].lapsed = TRUE]
    /\ excused' = [excused EXCEPT ![t] = @ + 1]
    /\ UNCHANGED <<unpublished, stream, known, workers, runs>>

\* The sweep of the API.
Reclaim(t) ==
    /\ jobs[t].status = "running" /\ jobs[t].lapsed
    /\ jobs' = [jobs EXCEPT ![t].status = IF jobs[t].attempt < MaxTries THEN "pending" ELSE "dead",
                            ![t].lapsed = FALSE]
    /\ UNCHANGED <<unpublished, stream, known, workers, runs, excused, faults>>

\* The worker is stopped and started again: it knows nothing of its job.
WorkerStops(w) ==
    /\ Fault
    /\ workers[w] # Idle
    /\ Enters(w, Idle)
    /\ UNCHANGED <<jobs, unpublished, stream, known, runs, excused>>
-----------------------------------------------------------------------------
Notify == \/ \E t \in JobTargets : Publish(t) \/ PublishFails(t) \/ AckWaitPasses(t)
          \/ PublisherStops

Loop(w) == \/ TakeNotification(w) \/ ClaimNotified(w) \/ Acknowledge(w)
           \/ Poll(w) \/ VerifyAndRun(w) \/ CommandEnds(w) \/ Submit(w)

LoopFails(w) == \/ ClaimNotifiedFails(w) \/ AcknowledgeFails(w) \/ PollAnswerIsLost(w)
                \/ SubmitFails(w) \/ WorkerStops(w)

Leases == \E t \in JobTargets : LeaseLapses(t) \/ Reclaim(t)

WorkerNext == Notify \/ Leases \/ \E w \in Workers : Loop(w) \/ LoopFails(w)

WorkerSpec == WorkerInit /\ [][WorkerNext]_workerVars
=============================================================================
