------------------------------ MODULE Inventory ------------------------------
(***************************************************************************)
(* The servers of one organisation and the targets a request resolves to   *)
(* (apps/api/servers.go; resolveTargets, targetEnvironment and             *)
(* snapshotTargets in executions.go).  Each statement outside a            *)
(* transaction is an action: between the SELECTs of a request, servers are *)
(* edited, archived and checked.                                           *)
(***************************************************************************)
EXTENDS Handlers, FiniteSets

CONSTANTS
    Servers,
    Stages,
    Lookups,        \* requests for work, resolving their targets
    MaxHalf         \* bound: handlers of servers between two statements

ASSUME InventoryAssumption == MaxHalf \in Nat

VARIABLES
    servers,        \* their rows, with whether they have the tag requests select by
    half,           \* servers added, and checks, whose handler has one more statement to do
    lookups,
    queued,         \* the execution the last request of each queued
    been            \* history: the environments a server had during a request

inventoryVars == <<servers, half, lookups, queued, been>>

NoServer == [status |-> "none"]
There(s) == servers[s] # NoServer
Unqueued == [environment |-> "none", snapshot |-> <<>>]

InventoryInit ==
    /\ servers = [s \in Servers |-> NoServer]
    /\ half = {}
    /\ lookups = [l \in Lookups |-> Idle]
    /\ queued = [l \in Lookups |-> Unqueued]
    /\ been = [l \in Lookups |-> [s \in Servers |-> {}]]

\* An edit changes what a request under way may have seen.
Seen(s, environment) ==
    been' = [l \in Lookups |-> IF lookups[l] = Idle THEN been[l]
                               ELSE [been[l] EXCEPT ![s] = @ \cup {environment}]]

-----------------------------------------------------------------------------
AddServer(s) ==
    /\ ~There(s)
    /\ \E environment \in Stages, tagged \in BOOLEAN :
          /\ servers' = [servers EXCEPT ![s] =
                [status |-> "active", environment |-> environment, tagged |-> FALSE]]
          /\ half' = IF tagged THEN half \cup {<<"tag", s>>} ELSE half
          /\ Cardinality(half') <= MaxHalf
          /\ Seen(s, environment)
    /\ UNCHANGED <<lookups, queued>>

\* The tags follow in statements of their own, whose errors nobody looks at.
AddTag(s) ==
    /\ <<"tag", s>> \in half
    /\ half' = half \ {<<"tag", s>>}
    /\ servers' \in {servers, [servers EXCEPT ![s].tagged = TRUE]}
    /\ UNCHANGED <<lookups, queued, been>>

\* One transaction; an archived server is not found.
UpdateServer(s) ==
    /\ There(s) /\ servers[s].status # "archived"
    /\ \E environment \in Stages, tagged \in BOOLEAN :
          /\ servers' = [servers EXCEPT ![s].environment = environment, ![s].tagged = tagged]
          /\ Seen(s, environment)
    /\ UNCHANGED <<half, lookups, queued>>

ArchiveServer(s) ==
    /\ There(s) /\ servers[s].status # "archived"
    /\ servers' = [servers EXCEPT ![s].status = "archived"]
    /\ UNCHANGED <<half, lookups, queued, been>>

\* handleCheckServer looks whether the server is there, and then makes it active.
StartCheck(s) ==
    /\ There(s)
    /\ half' = half \cup {<<"check", s>>}
    /\ Cardinality(half') <= MaxHalf
    /\ UNCHANGED <<servers, lookups, queued, been>>

FinishCheck(s) ==
    /\ <<"check", s>> \in half
    /\ half' = half \ {<<"check", s>>}
    /\ servers' = [servers EXCEPT ![s].status = "active"]
    /\ UNCHANGED <<lookups, queued, been>>

-----------------------------------------------------------------------------
(* A request resolves its target, reads the environment of each server it  *)
(* found, then each server again for the snapshot, and queues them all.    *)

Advance(l, lookup) == lookups' = [lookups EXCEPT ![l] = lookup]

Found(l, set) ==
    /\ set # {}
    /\ Advance(l, [at |-> "environment", targets |-> set, todo |-> set, environment |-> "none",
                   snapshot |-> <<>>])
    /\ queued' = [queued EXCEPT ![l] = Unqueued]
    /\ been' = [been EXCEPT ![l] = [s \in Servers |-> IF There(s) THEN {servers[s].environment} ELSE {}]]

\* By name or id: not an archived one.
ResolveServer(l) ==
    /\ lookups[l] = Idle
    /\ \E s \in Servers : There(s) /\ servers[s].status # "archived" /\ Found(l, {s})
    /\ UNCHANGED <<servers, half>>

\* By tag: server_tags alone, so archived servers too.
ResolveTag(l) ==
    /\ lookups[l] = Idle
    /\ Found(l, {s \in Servers : There(s) /\ servers[s].tagged})
    /\ UNCHANGED <<servers, half>>

(* Mutant: the environment of the first target counts. *)
FirstDecides(l, s) == TRUE

\* The first read of all, or the same as the reads before.
Agrees(l, s) == lookups[l].todo = lookups[l].targets \/ lookups[l].environment = servers[s].environment

ReadEnvironment(l) ==
    /\ lookups[l].at = "environment"
    /\ \E s \in lookups[l].todo :
          LET read == [lookups[l] EXCEPT !.todo = @ \ {s}, !.environment = servers[s].environment]
          IN  \/ ~Agrees(l, s) /\ Advance(l, Idle)       \* mixed: refused
              \/ Agrees(l, s) /\ Advance(l, IF read.todo # {} THEN read
                                       ELSE [read EXCEPT !.at = "snapshot", !.todo = read.targets])
    /\ UNCHANGED <<servers, half, queued, been>>

SnapshotTarget(l) ==
    /\ lookups[l].at = "snapshot"
    /\ \E s \in lookups[l].todo :
          Advance(l, [lookups[l] EXCEPT !.todo = @ \ {s},
                        !.snapshot = [x \in DOMAIN @ \cup {s} |->
                                          IF x = s THEN servers[s].environment ELSE @[x]]])
    /\ UNCHANGED <<servers, half, queued, been>>

\* The transaction looks at no server again.
QueueTargets(l) ==
    /\ lookups[l].at = "snapshot" /\ lookups[l].todo = {}
    /\ queued' = [queued EXCEPT ![l] =
          [environment |-> lookups[l].environment, snapshot |-> lookups[l].snapshot]]
    /\ Advance(l, Idle)
    /\ UNCHANGED <<servers, half, been>>

-----------------------------------------------------------------------------
EditServers ==
    \E s \in Servers : \/ AddServer(s) \/ AddTag(s) \/ UpdateServer(s) \/ ArchiveServer(s)
                       \/ StartCheck(s) \/ FinishCheck(s)

LookUp == \E l \in Lookups : \/ ResolveServer(l) \/ ResolveTag(l)
                             \/ ReadEnvironment(l)
                         \/ SnapshotTarget(l) \/ QueueTargets(l)

InventoryNext == EditServers \/ LookUp

InventorySpec == InventoryInit /\ [][InventoryNext]_inventoryVars

InventoryTypeOK ==
    /\ \A s \in Servers : There(s) => servers[s].status \in {"active", "archived"}
                                      /\ servers[s].environment \in Stages
    /\ \A l \in Lookups : DOMAIN queued[l].snapshot \subseteq {s \in Servers : There(s)}

(***************************************************************************)
(* The environment the policy decided on is one that each target was in,   *)
(* at some moment of the request, and so is each target's snapshot.  They  *)
(* need not be one and the same: a server that is moved between the reads  *)
(* is run on under the environment it was in before, and a claim looks at  *)
(* the server of that day (jobs.go:62).  So what is excluded is a target   *)
(* in an environment it never was in, as one list of mixed environments    *)
(* decided by its first server would give, not a change that comes late.   *)
(***************************************************************************)
DecidedOnWhatWas ==
    \A l \in Lookups : \A s \in DOMAIN queued[l].snapshot :
        lookups[l] = Idle => {queued[l].environment, queued[l].snapshot[s]} \subseteq been[l][s]
=============================================================================
