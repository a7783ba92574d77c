---------------------------- MODULE MCGovernance ----------------------------
(***************************************************************************)
(* Small instances of the path from a runbook to a queued execution.       *)
(***************************************************************************)
EXTENDS GovernanceProperties, TLC

CONSTANTS jo, sam, k

MCRoleOf == (jo :> "junior_engineer") @@ (sam :> "senior_engineer")

(* High risk from YAML, with an approval rule for the other environment and *)
(* a parameter whose default its command needs; and the same risk spelled   *)
(* with a capital, from the fields of a request.                            *)
Risky == [risk |-> "high", roles |-> Roles, envs |-> {"production", "development"},
          approval |-> "development", tokens |-> {"n"},
          params |-> {[name |-> "n", type |-> "integer", allowed |-> {}, default |-> "7",
                       required |-> TRUE]}]
Spelled == [risk |-> "High", roles |-> Roles, envs |-> {"*"}, approval |-> "no",
            params |-> {}, tokens |-> {}]
MCDefinitions == {Risky, Spelled}

NoInputs == [n \in {} |-> ""]

(* Two users with one key; both need an approval for Risky.  The junior is *)
(* refused Spelled in production, the senior runs it.                      *)
MCRunAsks ==
    {[user |-> jo, key |-> k, env |-> "production", reason |-> TRUE, inputs |-> NoInputs],
     [user |-> sam, key |-> k, env |-> "development", reason |-> TRUE, inputs |-> NoInputs]}

MCCommandAsks ==
    {[user |-> sam, key |-> NoKey, env |-> "production", reason |-> TRUE,
      words |-> {"highRisk", "mediumRisk"}]}

MCSchedules == {[user |-> sam, env |-> "production", reason |-> TRUE, inputs |-> NoInputs]}

(* Handlers are alike. *)
MCSymmetry == Permutations(Clients) \cup Permutations(Editors)
=============================================================================
