----------------------------- MODULE MCJobQueue -----------------------------
(***************************************************************************)
(* A small instance of the execution queue: one execution on two servers.  *)
(***************************************************************************)
EXTENDS JobQueueInvariant, TLC

CONSTANTS e1, t1, t2, r1, r2

OneExecution == (t1 :> e1) @@ (t2 :> e1)

(* r1 has a scope of type 'all', r2 one server. *)
MCScope == [r \in Runners |-> IF r = r1 THEN {t1, t2} ELSE {t1}]
=============================================================================
