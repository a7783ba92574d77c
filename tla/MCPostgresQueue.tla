--------------------------- MODULE MCPostgresQueue ---------------------------
(***************************************************************************)
(* Small instances of the execution queue on PostgreSQL.                   *)
(***************************************************************************)
EXTENDS PostgresQueueProperties, TLC

CONSTANTS e1, t1, t2, r1, r2, c1, c2

OneExecution == (t1 :> e1) @@ (t2 :> e1)

(* Every runner has a scope of type 'all'. *)
AllScope == [r \in Runners |-> Targets]

(* So the targets are alike, and the runners, and the connections. *)
Alike == Permutations(Targets) \cup Permutations(Runners) \cup Permutations(Connections)
=============================================================================
