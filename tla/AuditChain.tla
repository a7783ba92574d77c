----------------------------- MODULE AuditChain -----------------------------
(***************************************************************************)
(* The audit events of one organisation and their hash chain               *)
(* (apps/api/helpers.go).  An event written inside a handler's transaction *)
(* is one action; writeAuditEvent, which most handlers use, takes the      *)
(* time, reads the latest hash and inserts in separate steps.              *)
(***************************************************************************)
EXTENDS Handlers, FiniteSets

CONSTANTS
    Loose,          \* handlers that use writeAuditEvent
    Legacy,         \* events from before there were hashes
    MaxEvents       \* bound

ASSUME AuditAssumption == Legacy \in Nat /\ MaxEvents \in Nat

VARIABLES
    events,         \* audit_events
    time,           \* the clock: no two stamps are equal
    loose,          \* writeAuditEvent under way
    served,         \* the backfill of the start is done
    forked,         \* history: a loose event was written around another one
    altered         \* history: times of events somebody changed in the database

auditVars == <<events, time, loose, served, forked, altered>>

NoHash == <<>>

\* The hash stands for everything that goes into it.
HashOf(e) == <<e.at, e.text, e.previous>>

AuditInit ==
    /\ events = {[at |-> i, text |-> "written", previous |-> NoHash, hash |-> NoHash] : i \in 1 .. Legacy}
    /\ time = Legacy
    /\ loose = [h \in Loose |-> Idle]
    /\ served = FALSE
    /\ forked = FALSE
    /\ altered = {}

\* ORDER BY occurred_at; the id would break ties.
Earlier(e) == {f \in events : f.at < e.at}
IsLast(f, set) == f \in set /\ \A g \in set : g.at <= f.at

LatestHash == IF events = {} THEN NoHash ELSE (CHOOSE f \in events : IsLast(f, events)).hash

Event(at, previous) ==
    LET e == [at |-> at, text |-> "written", previous |-> previous, hash |-> NoHash]
    IN  [e EXCEPT !.hash = HashOf(e)]

-----------------------------------------------------------------------------
(* backfillAuditHashChain, before the API serves: one UPDATE per event     *)
(* without a hash, in order.  A process that stops starts here again.      *)

(* Mutant: the chain begins again at each event. *)
BackfilledAlone(e) == Event(e.at, NoHash)

Backfilled(e) ==
    LET before == {f \in Earlier(e) : IsLast(f, Earlier(e))}
    IN  IF before = {} THEN Event(e.at, NoHash)
        ELSE Event(e.at, (CHOOSE f \in before : TRUE).hash)

Backfill ==
    /\ ~served
    /\ \E e \in events :
          /\ e.hash = NoHash
          /\ \A f \in Earlier(e) : f.hash # NoHash
          /\ events' = (events \ {e}) \cup {Backfilled(e)}
    /\ UNCHANGED <<time, loose, served, forked, altered>>

Serve ==
    /\ ~served
    /\ \A e \in events : e.hash # NoHash
    /\ served' = TRUE
    /\ UNCHANGED <<events, time, loose, forked, altered>>

ProcessStops ==
    /\ served
    /\ served' = FALSE
    /\ loose' = [h \in Loose |-> Idle]
    /\ UNCHANGED <<events, time, forked, altered>>

-----------------------------------------------------------------------------
MayWrite == served /\ time < MaxEvents

\* Any event written makes the loose ones under way late.
Overtaken(writers) ==
    [h \in Loose |-> IF writers[h] = Idle THEN Idle ELSE [writers[h] EXCEPT !.alone = FALSE]]

\* In a transaction, which holds the connection from before the stamp.
WriteInTransaction ==
    /\ MayWrite
    /\ time' = time + 1
    /\ events' = events \cup {Event(time + 1, LatestHash)}
    /\ loose' = Overtaken(loose)
    /\ UNCHANGED <<served, forked, altered>>

Stamp(h) ==
    /\ MayWrite
    /\ loose[h] = Idle
    /\ time' = time + 1
    /\ loose' = [loose EXCEPT ![h] = [at |-> "stamped", time |-> time + 1, alone |-> TRUE]]
    /\ UNCHANGED <<events, served, forked, altered>>

ReadLatest(h) ==
    /\ loose[h].at = "stamped"
    /\ loose' = [loose EXCEPT ![h] = [at |-> "read", time |-> loose[h].time, alone |-> loose[h].alone,
                                      previous |-> LatestHash]]
    /\ UNCHANGED <<events, time, served, forked, altered>>

InsertEvent(h) ==
    /\ loose[h].at = "read"
    /\ events' = events \cup {Event(loose[h].time, loose[h].previous)}
    /\ forked' = (forked \/ ~loose[h].alone)
    /\ loose' = Overtaken([loose EXCEPT ![h] = Idle])
    /\ UNCHANGED <<time, served, altered>>

\* A failed write is only logged: the handler answers success all the same.
WriteFails(h) ==
    /\ loose[h] # Idle
    /\ loose' = [loose EXCEPT ![h] = Idle]
    /\ UNCHANGED <<events, time, served, forked, altered>>

\* Somebody edits an event in the database.
Alter ==
    /\ served
    /\ \E e \in events :
          /\ events' = (events \ {e}) \cup {[e EXCEPT !.text = "altered"]}
          /\ altered' = altered \cup {e.at}
    /\ UNCHANGED <<time, loose, served, forked>>

-----------------------------------------------------------------------------
(* verifyAuditHashChain. *)

Intact(e) ==
    LET before == {f \in Earlier(e) : IsLast(f, Earlier(e))}
    IN  /\ e.hash = HashOf(e)
        /\ e.previous = IF before = {} THEN NoHash ELSE (CHOOSE f \in before : TRUE).hash

Verifies == \A e \in events : Intact(e)

AuditNext ==
    \/ Backfill \/ Serve \/ ProcessStops \/ WriteInTransaction \/ Alter
    \/ \E h \in Loose : Stamp(h) \/ ReadLatest(h) \/ InsertEvent(h) \/ WriteFails(h)

AuditSpec == AuditInit /\ [][AuditNext]_auditVars

\* One event to an instant, none from the future.
AuditTypeOK ==
    /\ time \in 0 .. Legacy + MaxEvents
    /\ \A e \in events : e.at \in 1 .. time /\ e.text \in {"written", "altered"}
    /\ \A e, f \in events : e.at = f.at => e = f

(***************************************************************************)
(* The verdict on the chain (GET /api/v1/audit/verify) has a cause: a      *)
(* changed event never passes, over however many starts the others were    *)
(* backfilled; and a chain without one fails only if a loose event was     *)
(* written around another.  That second cause is no tampering: two         *)
(* handlers that record something at the same time may break the chain     *)
(* for good (helpers.go:124-145).  SQLite, where writers in transactions   *)
(* take turns, and stamps that differ; altered means that the text of an   *)
(* event was edited: nothing notices that the last events were removed.    *)
(***************************************************************************)
VerdictHasCause ==
    served => /\ altered # {} => ~Verifies
              /\ ~Verifies => altered # {} \/ forked
=============================================================================
