-------------------------- MODULE FleetProperties ---------------------------
(***************************************************************************)
(* What revoking a runner promises.                                        *)
(***************************************************************************)
EXTENDS Fleet

FleetTypeOK ==
    /\ runners \in [RunnerIds -> {"none", "pending", "active", "paused", "revoked"}]
    /\ scopes \subseteq {r \in RunnerIds : runners[r] # "none"}
    /\ credentials \in [CredentialIds -> [runner : RunnerIds \cup {NoRunner}, live : BOOLEAN]]
    /\ \A k \in CredentialIds : credentials[k].runner # NoRunner => credentials[k].live

Holds(c, r) == calls[c] # Idle /\ calls[c].at # "enrol" /\ calls[c].runner = r

\* Revoked, with no credential and no handler under way that knows the runner.
LockedOut(r) ==
    /\ runners[r] = "revoked"
    /\ \A k \in CredentialIds : credentials[k].runner # r
    /\ \A c \in Calls : Holds(c, r) => calls[c].at = "issue"

(***************************************************************************)
(* A revoked runner that no handler was serving when its credentials went  *)
(* stays revoked and without credentials for good, whatever is asked of    *)
(* the API afterwards: a rotation, an update, a replay of its last         *)
(* credential or a second registration.  (runners.go:120-142, :290-307.)   *)
(* Of a revocation that left a credential or met a handler under way only  *)
(* RevokedClaimsNothing speaks.                                            *)
(***************************************************************************)
RevocationHolds ==
    [][\A r \in RunnerIds : LockedOut(r) => LockedOut(r)']_fleetVars

(***************************************************************************)
(* "Revoked runners must not claim new jobs."                              *)
(* (vps_tools_data_model_and_initial_schema_spec.md:721.)  Once the        *)
(* revocation is answered.                                                 *)
(***************************************************************************)
RevokedClaimsNothing == trespassed = {}
=============================================================================
