---------------------------- MODULE ArtifactStore ----------------------------
(***************************************************************************)
(* The durable patch artifact store (src/rygnal/patch_artifact.py): one     *)
(* JSON file per artifact, replaced atomically, and one lock file per       *)
(* artifact.                                                                *)
(***************************************************************************)
EXTENDS RygnalSystem, LockFiles

ASSUME ArtifactLocksAssumption == LockNames = Artifacts

ArtifactState == {"absent", "pending", "consumed", "quarantined"}

VARIABLES
    artifact,    \* [Artifacts -> ArtifactState]
    expired      \* artifacts past expires_at

artifactVars == <<artifact, expired, lock>>

ArtifactTypeOK ==
    /\ artifact \in [Artifacts -> ArtifactState]
    /\ expired \subseteq Artifacts
    /\ LocksTypeOK

\* 40 attempts of 50 ms found the file present: PatchArtifactError.
LockBusy(a) == lock[a] # NoLock

\* load(): the file is there and its state and age are acceptable.
Loadable(a, allowExpired, allowConsumed) ==
    /\ artifact[a] \in {"pending", "consumed"}
    /\ allowExpired \/ a \notin expired
    /\ allowConsumed \/ artifact[a] # "consumed"

\* _mark_consumed_unlocked: os.replace of the whole file.
Consume(a) == artifact' = [artifact EXCEPT ![a] = "consumed"]

=============================================================================
