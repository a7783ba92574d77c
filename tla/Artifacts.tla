------------------------------ MODULE Artifacts ------------------------------
(***************************************************************************)
(* Outputs kept outside the database (packages/artifacts, jobs.go:428) and *)
(* the tool that moves them to S3 and back (cmd/artifact-migrate).  Ids    *)
(* are made from the target, so another attempt writes the same id again:  *)
(* an object is the number of the write that made it, 0 if there is none.  *)
(* S3 itself is external: a request is applied or not, and answered or not *)
(* (doResponse sends it again a few times before it reports an error).     *)
(***************************************************************************)
EXTENDS Handlers, FiniteSets

CONSTANTS
    Outputs,        \* artifact ids
    MaxWrites       \* bound

ASSUME ArtifactsAssumption == MaxWrites \in Nat

VARIABLES
    local, remote,  \* the directory of .bin files, the bucket
    restored,       \* the directory a restore writes to
    records,        \* artifact_records
    backend,        \* where the API keeps its outputs
    result,         \* a result's handler between Put and its commit
    tool,           \* a run of artifact-migrate
    manifest,       \* the last inventory written
    written,        \* history: writes so far
    fresh,          \* history: what holds all the API has written
    covered         \* history: the documented order was kept

artifactVars == <<local, remote, restored, records, backend, result, tool, manifest,
                  written, fresh, covered>>
stores == <<local, remote, restored>>

Nothing == [o \in Outputs |-> 0]
Ids(store) == {o \in Outputs : store[o] # 0}

ArtifactsInit ==
    /\ local = Nothing /\ remote = Nothing /\ restored = Nothing /\ records = Nothing
    /\ backend = "local"
    /\ result = Idle /\ tool = Idle
    /\ manifest = Nothing
    /\ written = 0
    /\ fresh = {"local", "s3", "restored", "manifest"}
    /\ covered = TRUE

-----------------------------------------------------------------------------
(* persistExecutionArtifacts: the object first, then its record in the       *)
(* result's transaction, which may still be rolled back.                     *)

PutOutput(o) ==
    /\ result = Idle
    /\ written < MaxWrites
    /\ written' = written + 1
    /\ local' = IF backend = "local" THEN [local EXCEPT ![o] = written'] ELSE local
    /\ remote' = IF backend = "s3" THEN [remote EXCEPT ![o] = written'] ELSE remote
    /\ restored' = IF backend = "restored" THEN [restored EXCEPT ![o] = written'] ELSE restored
    /\ result' = [at |-> "record", output |-> o, content |-> written']
    /\ tool' = IF tool = Idle THEN Idle ELSE [tool EXCEPT !.quiet = FALSE]
    /\ fresh' = {backend}
    /\ UNCHANGED <<records, backend, manifest, covered>>

CommitRecord ==
    /\ result # Idle
    /\ records' = [records EXCEPT ![result.output] = result.content]
    /\ result' = Idle
    /\ UNCHANGED <<stores, backend, tool, manifest, written, fresh, covered>>

\* Put was applied but reported an error, or the transaction is rolled back.
ResultFails ==
    /\ result # Idle
    /\ result' = Idle
    /\ UNCHANGED <<stores, records, backend, tool, manifest, written, fresh, covered>>

\* The API is restarted with another ARTIFACT_STORE or directory.
MoveApi ==
    /\ \E to \in {"local", "s3", "restored"} \ {backend} :
          /\ backend' = to
          /\ covered' = (covered /\ to \in fresh /\ tool = Idle)
    /\ result' = Idle
    /\ UNCHANGED <<stores, records, tool, manifest, written, fresh>>

-----------------------------------------------------------------------------
(* The tool.  An error ends a run wherever it is, and so does its operator;  *)
(* "safe to rerun" (docs/migration.md).                                      *)

Run(kind, list, force, complete) ==
    tool' = [at |-> kind, todo |-> Ids(list), listed |-> list, force |-> force, quiet |-> complete,
             output |-> 0, data |-> 0]

ToolUnchanged == <<records, backend, result, written>>

ToolStops ==
    /\ tool # Idle
    /\ tool' = Idle
    /\ UNCHANGED <<stores, ToolUnchanged, manifest, fresh, covered>>

\* MigrateLocalToS3 lists the directory.  Forcing it upon a bucket in use is what the manual
\* warns of.
StartMigration ==
    /\ tool = Idle
    /\ \E force \in BOOLEAN :
          /\ Run("read", local, force, "local" \in fresh)
          /\ covered' = (covered /\ (force => backend # "s3"))
    /\ UNCHANGED <<stores, ToolUnchanged, manifest, fresh>>

ReadLocal ==
    /\ tool.at = "read"
    /\ \E o \in tool.todo :
          tool' = [tool EXCEPT !.at = "inspect", !.todo = @ \ {o}, !.output = o, !.data = local[o]]
    /\ UNCHANGED <<stores, ToolUnchanged, manifest, fresh, covered>>

Entered == [tool EXCEPT !.at = "read", !.listed[tool.output] = tool.data]

(* Mutant: an object that is there is taken for the same. *)
InspectPresence ==
    /\ tool.at = "inspect"
    /\ tool' = IF remote[tool.output] # 0 THEN Entered ELSE [tool EXCEPT !.at = "copy"]
    /\ UNCHANGED <<stores, ToolUnchanged, manifest, fresh, covered>>

\* The same content is skipped; another one ends the run, unless it is forced.
InspectRemote ==
    /\ tool.at = "inspect"
    /\ remote[tool.output] \in {0, tool.data} \/ tool.force
    /\ tool' = IF remote[tool.output] = tool.data THEN Entered ELSE [tool EXCEPT !.at = "copy"]
    /\ UNCHANGED <<stores, ToolUnchanged, manifest, fresh, covered>>

\* The object is put; ToolStops is the answer that is lost.
CopyObject ==
    /\ tool.at = "copy"
    /\ remote' = [remote EXCEPT ![tool.output] = tool.data]
    /\ tool' = [tool EXCEPT !.at = "verify"]
    /\ UNCHANGED <<local, restored, ToolUnchanged, manifest, fresh, covered>>

ReadBack ==
    /\ tool.at = "verify"
    /\ remote[tool.output] = tool.data
    /\ tool' = Entered
    /\ UNCHANGED <<stores, ToolUnchanged, manifest, fresh, covered>>

\* Only a run that met no error writes its inventory.
WriteManifest ==
    /\ tool.at = "read" /\ tool.todo = {}
    /\ manifest' = tool.listed
    /\ fresh' = (fresh \ {"manifest"}) \cup (IF tool.quiet THEN {"s3", "manifest"} ELSE {})
    /\ tool' = Idle
    /\ UNCHANGED <<stores, ToolUnchanged, covered>>

\* RestoreS3Manifest reads all objects before it writes the first.
StartRestore ==
    /\ tool = Idle
    /\ Ids(manifest) # {}
    /\ \A o \in Ids(manifest) : remote[o] = manifest[o]
    /\ Run("fetch", manifest, FALSE, "manifest" \in fresh)
    /\ covered' = (covered /\ backend # "restored")
    /\ UNCHANGED <<stores, ToolUnchanged, manifest, fresh>>

\* What is there already is skipped; what changed since it was verified ends the run.
FetchObject ==
    /\ tool.at = "fetch"
    /\ \E o \in tool.todo :
          /\ tool.listed[o] \in {restored[o], remote[o]}
          /\ restored' = [restored EXCEPT ![o] = tool.listed[o]]
          /\ tool' = [tool EXCEPT !.todo = @ \ {o}]
    /\ UNCHANGED <<local, remote, ToolUnchanged, manifest, fresh, covered>>

FinishRestore ==
    /\ tool.at = "fetch" /\ tool.todo = {}
    /\ fresh' = fresh \cup (IF tool.quiet THEN {"restored"} ELSE {})
    /\ tool' = Idle
    /\ UNCHANGED <<stores, ToolUnchanged, manifest, covered>>

-----------------------------------------------------------------------------
KeepOutputs == (\E o \in Outputs : PutOutput(o)) \/ CommitRecord \/ ResultFails \/ MoveApi

Migrate == \/ StartMigration \/ ReadLocal \/ InspectRemote \/ CopyObject \/ ReadBack
           \/ WriteManifest \/ ToolStops

Restore == StartRestore \/ FetchObject \/ FinishRestore

ArtifactsNext == KeepOutputs \/ Migrate \/ Restore

ArtifactsSpec == ArtifactsInit /\ [][ArtifactsNext]_artifactVars

Store == CASE backend = "local" -> local
           [] backend = "s3" -> remote
           [] backend = "restored" -> restored

ArtifactsTypeOK ==
    /\ {local, remote, restored, records, manifest} \subseteq [Outputs -> 0 .. MaxWrites]
    /\ tool.at \in {"idle", "read", "inspect", "copy", "verify", "fetch"}

(***************************************************************************)
(* References stay valid while storage moves (docs/migration.md: "artefact *)
(* references ... must remain stable"): if the API was moved only after a  *)
(* migration or a restore that ended well and during which it wrote        *)
(* nothing, every record's object can be read, and is not older than the   *)
(* record, over any number of runs that were stopped, conflicted or were   *)
(* repeated before.                                                        *)
(***************************************************************************)
RecordsAreReadable ==
    covered => \A o \in Outputs : Store[o] >= records[o]
=============================================================================
