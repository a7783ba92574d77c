----------------------------- MODULE Scheduler ------------------------------
(***************************************************************************)
(* The embedded scheduler (apps/api/automation.go, packages/automation):   *)
(* every ten seconds a cycle looks for due schedules and runs them, each   *)
(* of its statements on its own; users create and disable schedules, pause *)
(* and resume meanwhile.  More than one API process may run a scheduler.   *)
(* What a run does is Governance's ReadScheduled and CommitScheduled.      *)
(***************************************************************************)
EXTENDS Handlers, Integers, FiniteSets

CONSTANTS
    ScheduleIds,     \* ids of schedules
    Organisations,
    OwnerOf,        \* a schedule's organisation
    FirstRun,       \* next_run_at of the schedules there are at the start
    FirstTimes,     \* next_run_at a request may ask for
    Interval,       \* interval_seconds, in ticks
    Batch,          \* LIMIT 20
    Schedulers,     \* processes with a scheduler
    LastTick, MaxDisturbances   \* bounds

ASSUME SchedulerAssumption ==
    /\ OwnerOf \in [ScheduleIds -> Organisations]
    /\ DOMAIN FirstRun \subseteq ScheduleIds /\ \A s \in DOMAIN FirstRun : FirstRun[s] \in Nat
    /\ FirstTimes \subseteq Nat
    /\ Interval \in Nat \ {0} /\ Batch \in Nat \ {0}
    /\ LastTick \in Nat /\ MaxDisturbances \in Nat

VARIABLES
    now,
    schedules,      \* their rows
    paused,         \* organisations whose automation is paused
    cycles,         \* a scheduler's cycle under way
    slots,          \* history: <<schedule, next_run_at>> that were claimed
    late,           \* history: runs each scheduler started since an organisation was paused
    disturbances    \* history: pauses, disabled schedules, and cycles that stopped

schedulerVars == <<now, schedules, paused, cycles, slots, late, disturbances>>

Scheduled(next) == [next |-> next, enabled |-> TRUE]

NoneLate == [p \in Schedulers |-> 0]

SchedulerInit ==
    /\ now = 0
    /\ schedules = [s \in DOMAIN FirstRun |-> Scheduled(FirstRun[s])]
    /\ paused = {}
    /\ cycles = [p \in Schedulers |-> Idle]
    /\ slots = {}
    /\ late = [o \in Organisations |-> NoneLate]
    /\ disturbances = 0

IsDue(s) == s \in DOMAIN schedules /\ schedules[s].enabled /\ schedules[s].next <= now

(* Mutant: the loop stops at the present. *)
NextFrom(next, time) ==
    IF next >= time THEN next
    ELSE next + Interval * ((time - next + Interval - 1) \div Interval)

\* What the loop ends with: the first instant after time, whole intervals from next on.
NextAfter(next, time) ==
    IF next > time THEN next
    ELSE next + Interval * ((time - next) \div Interval + 1)

Proceeds(p, cycle) == cycles' = [cycles EXCEPT ![p] = cycle]

-----------------------------------------------------------------------------
(* runDueSchedulesOnce. *)

StartCycle(p) ==
    /\ cycles[p] = Idle
    /\ \E s \in ScheduleIds : IsDue(s)       \* otherwise it returns
    /\ Proceeds(p, [at |-> "pauses", orgs |-> {OwnerOf[s] : s \in {s \in ScheduleIds : IsDue(s)}},
                    paused |-> {}])
    /\ UNCHANGED <<now, schedules, paused, slots, late, disturbances>>

ReadPause(p) ==
    /\ cycles[p].at = "pauses"
    /\ \E o \in cycles[p].orgs :
          Proceeds(p, [cycles[p] EXCEPT !.orgs = @ \ {o}, !.paused = @ \cup (paused \cap {o})])
    /\ UNCHANGED <<now, schedules, paused, slots, late, disturbances>>

\* What is left of a batch, and the end of the cycle when nothing is.
StillDue(due) == IF DOMAIN due = {} THEN Idle ELSE [at |-> "loop", due |-> due]

Without(due, s) == [t \in DOMAIN due \ {s} |-> due[t]]

\* ORDER BY next_run_at LIMIT limit, over all organisations, paused ones too.
Earliest(limit) ==
    LET due == {s \in ScheduleIds : IsDue(s)}
    IN  {b \in SUBSET due :
            /\ Cardinality(b) = IF Cardinality(due) < limit THEN Cardinality(due) ELSE limit
            /\ \A s \in b, t \in due \ b : schedules[s].next <= schedules[t].next}

(* Mutant: the batch holds a row less than there is room for. *)
ShortBatches == Earliest(Batch - 1)

Batches == Earliest(Batch)

\* Nothing is looked at again for the rows of organisations that were paused at the start.
SelectDue(p) ==
    /\ cycles[p].at = "pauses" /\ cycles[p].orgs = {}
    /\ \E b \in Batches :
          Proceeds(p, StillDue([s \in {s \in b : OwnerOf[s] \notin cycles[p].paused} |->
                                  schedules[s].next]))
    /\ UNCHANGED <<now, schedules, paused, slots, late, disturbances>>

IsFirst(s, due) == s \in DOMAIN due /\ \A t \in DOMAIN due : due[s] <= due[t]

(* Mutant: only what the start of the cycle saw counts. *)
PausedAtStart(o) == FALSE

IsPaused(o) == o \in paused

CheckPause(p) ==
    /\ cycles[p].at = "loop"
    /\ \E s \in ScheduleIds :
          /\ IsFirst(s, cycles[p].due)
          /\ Proceeds(p, IF IsPaused(OwnerOf[s])
                           THEN StillDue(Without(cycles[p].due, s))
                           ELSE [at |-> "claim", schedule |-> s, due |-> cycles[p].due])
    /\ UNCHANGED <<now, schedules, paused, slots, late, disturbances>>

\* The UPDATE asks again whether the schedule is due; next comes from the row as it was read.
ClaimDue(p) ==
    LET s == cycles[p].schedule
    IN  /\ cycles[p].at = "claim"
        /\ IF IsDue(s)
             THEN /\ schedules' = [schedules EXCEPT ![s].next = NextAfter(cycles[p].due[s], now)]
                  /\ slots' = slots \cup {<<s, schedules[s].next>>}
                  /\ Proceeds(p, [cycles[p] EXCEPT !.at = "execute"])
             ELSE /\ Proceeds(p, StillDue(Without(cycles[p].due, s)))
                  /\ UNCHANGED <<schedules, slots>>
        /\ UNCHANGED <<now, paused, late, disturbances>>

\* executeScheduledRun commits an execution or fails, and its error is recorded in the row.
Execute(p) ==
    LET s == cycles[p].schedule
        o == OwnerOf[s]
    IN  /\ cycles[p].at = "execute"
        /\ \/ late' = IF o \in paused THEN [late EXCEPT ![o][p] = @ + 1] ELSE late
           \/ late' = late
        /\ Proceeds(p, StillDue(Without(cycles[p].due, s)))
        /\ UNCHANGED <<now, schedules, paused, slots, disturbances>>

\* A statement fails, or the process ends: the cycle is over wherever it is.
CycleStops(p) ==
    /\ disturbances < MaxDisturbances
    /\ cycles[p] # Idle
    /\ disturbances' = disturbances + 1
    /\ Proceeds(p, Idle)
    /\ UNCHANGED <<now, schedules, paused, slots, late>>

-----------------------------------------------------------------------------
(* Users and the clock. *)

PauseAutomation(o) ==
    /\ disturbances < MaxDisturbances
    /\ o \notin paused
    /\ paused' = paused \cup {o}
    /\ disturbances' = disturbances + 1
    /\ late' = [late EXCEPT ![o] = NoneLate]
    /\ UNCHANGED <<now, schedules, cycles, slots>>

ResumeAutomation(o) ==
    /\ o \in paused
    /\ paused' = paused \ {o}
    /\ late' = [late EXCEPT ![o] = NoneLate]
    /\ UNCHANGED <<now, schedules, cycles, slots, disturbances>>

\* The first run is an interval from now, or whenever the request says, the past included.
CreateSchedule(s) ==
    /\ s \notin DOMAIN schedules
    /\ \E next \in {now + Interval} \cup FirstTimes :
          schedules' = [t \in DOMAIN schedules \cup {s} |->
                          IF t = s THEN Scheduled(next) ELSE schedules[t]]
    /\ UNCHANGED <<now, paused, cycles, slots, late, disturbances>>

DisableSchedule(s) ==
    /\ disturbances < MaxDisturbances
    /\ s \in DOMAIN schedules /\ schedules[s].enabled
    /\ schedules' = [schedules EXCEPT ![s].enabled = FALSE]
    /\ disturbances' = disturbances + 1
    /\ UNCHANGED <<now, paused, cycles, slots, late>>

Tick ==
    /\ now < LastTick
    /\ now' = now + 1
    /\ UNCHANGED <<schedules, paused, cycles, slots, late, disturbances>>

Cycle(p) == \/ StartCycle(p) \/ ReadPause(p) \/ SelectDue(p) \/ CheckPause(p)
            \/ ClaimDue(p) \/ Execute(p)

SchedulerNext ==
    \/ \E p \in Schedulers : Cycle(p) \/ CycleStops(p)
    \/ \E o \in Organisations : PauseAutomation(o) \/ ResumeAutomation(o)
    \/ \E s \in ScheduleIds : CreateSchedule(s) \/ DisableSchedule(s)
    \/ Tick

SchedulerSpec == SchedulerInit /\ [][SchedulerNext]_schedulerVars
=============================================================================
