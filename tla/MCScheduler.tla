---------------------------- MODULE MCScheduler -----------------------------
(***************************************************************************)
(* A small instance of the embedded scheduler: more schedules than a batch *)
(* takes, of two organisations.                                            *)
(***************************************************************************)
EXTENDS SchedulerProperties, TLC

CONSTANTS s1, s2, s3, o1, o2

(* Two schedules of one organisation can fill a batch of two, and the third *)
(* is somebody else's, created at any time.                                 *)
MCOwnerOf == (s1 :> o1) @@ (s2 :> o1) @@ (s3 :> o2)
MCFirstRun == (s1 :> 0) @@ (s2 :> 1)
=============================================================================
