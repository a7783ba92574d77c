------------------------------ MODULE Handlers ------------------------------
(***************************************************************************)
(* What the models of the API's handlers share.  A handler that has run    *)
(* some of its statements is a record of what it read and where it is; one *)
(* that is free is Idle.                                                   *)
(***************************************************************************)
EXTENDS Naturals

Idle == [at |-> "idle"]

\* shortID: an id nothing has yet.  Ids are numbers in the order they were taken.
Fresh(ids, table, none) ==
    {i \in ids : table[i] = none /\ \A j \in ids : j < i => table[j] # none}
=============================================================================
