---------------------------- MODULE ArtifactChain ----------------------------
(***************************************************************************)
(* The commands after build-dataset as writers of one store of immutable   *)
(* directories: audit-dataset, build-label-policy, build-model-dataset,    *)
(* train-baseline, build-threshold-policy, build-abstention-policy and     *)
(* build-retrieval-baseline, any number at a time and in any order, and    *)
(* the server and the readiness check that load what they published.       *)
(*                                                                         *)
(* What a command computes is in Curation and Training; here an artifact   *)
(* is what its manifest says of it, [id, from, config], whether its files  *)
(* have the hashes in the manifest, and who built it. A SHA-256 is the     *)
(* value it is made of, so an id is a record of the ids it derives from    *)
(* and of the configuration.                                               *)
(***************************************************************************)
EXTENDS Integers, Sequences, FiniteSets, SequencesExt

CONSTANTS
    Commands,       \* processes, each of which runs one command
    Given,          \* the stores there may be to begin with
    Datasets,       \* ids of normalized datasets, published or not
    Configs(_),     \* the configurations of a kind, as far as they name no artifact
    Winner(_),      \* the candidate a baseline selects
    Faults,         \* file-system calls fail, users interrupt, processes are killed
    None

ASSUME CommandsAssumption == None \notin Commands

\* What is there to begin with was built by none of the commands. A manifest of a
\* threshold policy has one baseline_run_id, and that of an audit no configuration.
ASSUME GivenAssumption ==
    \A given \in Given : \A id \in DOMAIN given :
        /\ given[id].built_by = None
        /\ id.kind = "threshold_policy" => given[id].from = <<given[id].from[1]>>
        /\ id.kind = "audit" => given[id].config = <<>>

ASSUME DatasetsAssumption == \A d \in Datasets : d.kind = "dataset"

\* An id that some command gave a directory: what it derives from up to the dataset, as
\* that command found it among ids.
DerivesFrom(id, ids) ==
    /\ id.kind = "dataset" => id.from = <<>>
    /\ id.kind = "audit" =>
          \E d \in ids : d.kind = "dataset" /\ id.from = <<d>>
    /\ id.kind = "label_policy" =>
          \E d, a \in ids : a.kind = "audit" /\ a.from = <<d>> /\ id.from = <<d, a>>
    /\ id.kind = "model_dataset" =>
          \E d, l \in ids :
             l.kind = "label_policy" /\ l.from = <<d, l.from[2]>> /\ id.from = <<d, l>>

\* It was built by earlier commands. Its files may have been changed or exchanged since,
\* but no directory was renamed or removed.
ASSUME GivenWasBuilt ==
    \A given \in Given : \A id \in DOMAIN given : DerivesFrom(id, DOMAIN given)

ASSUME ConfigsAssumption == Configs("audit") = {<<>>}

Kinds == {"audit", "label_policy", "model_dataset", "baseline", "threshold_policy",
          "abstention_policy", "retrieval"}

VARIABLES
    store,      \* the published directories: a function from ids to artifacts
    pc,         \* where a command is
    request,    \* what it was called with: [kind, named, config]
    staging,    \* the commands whose staging directory exists
    bundle      \* the artifacts the server was started with, or a strict check found ready

vars == <<store, pc, request, staging, bundle>>

Published(kind) == {id \in DOMAIN store : id.kind = kind}

(***************************************************************************)
(* What a request is for.                                                  *)
(***************************************************************************)

\* The artifacts a command reads: those that it was given the ids of, and the baseline
\* a threshold policy names.
Inputs(r) ==
    IF r.kind = "abstention_policy" /\ r.named[1] \in DOMAIN store
    THEN r.named \o store[r.named[1]].from
    ELSE r.named

\* compute_*_id, by kind. An audit has no configuration.
AuditId(from) == [kind |-> "audit", from |-> from, config |-> <<>>]

ContentId(kind, from, config) == [kind |-> kind, from |-> from, config |-> config]

\* Mutant: the environment of a run is left out.
ExperimentId(kind, from, config) == [kind |-> kind, from |-> from, config |-> Front(config)]

\* The last part of the configuration is the numerical environment.
RunId(kind, from, config) == [kind |-> kind, from |-> from, config |-> config]

\* The last part of the configuration is the reference threshold, which is left out.
ThresholdPolicyId(from, config) ==
    [kind |-> "threshold_policy", from |-> from, config |-> Front(config)]

IdOf(kind, from, config) ==
    CASE kind = "audit" -> AuditId(from)
      [] kind \in {"baseline", "retrieval"} -> RunId(kind, from, config)
      [] kind = "threshold_policy" -> ThresholdPolicyId(from, config)
      [] OTHER -> ContentId(kind, from, config)

Target(c) == IdOf(request[c].kind, Inputs(request[c]), request[c].config)

ArtifactOf(c) ==
    [id |-> Target(c), from |-> Inputs(request[c]), config |-> request[c].config,
     intact |-> TRUE, built_by |-> c]

\* validate_*_artifact_integrity: the files are what the manifest says, the manifest is
\* that of the directory, and its id is the one that follows from its contents.
Sound(id) ==
    /\ store[id].intact
    /\ store[id].id = id
    /\ IdOf(id.kind, store[id].from, store[id].config) = id

(***************************************************************************)
(* Which inputs a command accepts.                                         *)
(***************************************************************************)

Present(r) == \A k \in DOMAIN Inputs(r) : Inputs(r)[k] \in DOMAIN store /\ Sound(Inputs(r)[k])

\* Mutant: any audit will do.
AcceptsAnyAudit(r) == TRUE

\* validate_audit_artifact: the audit is one of this dataset.
AcceptsAudit(r) == store[r.named[2]].from[1] = r.named[1]

\* validate_label_policy_artifact_integrity: the policy is one of this dataset.
AcceptsPolicy(r) == store[r.named[2]].from[1] = r.named[1]

\* The configuration names the candidate that the baseline has selected.
AcceptsBaseline(r) == Head(r.config) = Winner(r.named[1])

\* The configuration and the command line name the same threshold policy.
AcceptsThreshold(r) == Head(r.config) = r.named[1]

Accepted(r) ==
    /\ Present(r)
    /\ r.kind = "label_policy" => AcceptsAudit(r)
    /\ r.kind = "model_dataset" => AcceptsPolicy(r)
    /\ r.kind = "threshold_policy" => AcceptsBaseline(r)
    /\ r.kind = "abstention_policy" => AcceptsThreshold(r)

\* What a user can ask for: the ids that are known, and files with configurations.
Requests ==
    LET Ask(kind, ids, configs) ==
            [kind : {kind}, named : ids, config : configs]
    IN UNION {Ask("audit", {<<d>> : d \in Datasets}, Configs("audit")),
              Ask("label_policy", Datasets \X Published("audit"), Configs("label_policy")),
              Ask("model_dataset", Datasets \X Published("label_policy"),
                  Configs("model_dataset")),
              Ask("baseline", {<<m>> : m \in Published("model_dataset")}, Configs("baseline")),
              Ask("retrieval", {<<m>> : m \in Published("model_dataset")},
                  Configs("retrieval")),
              Ask("threshold_policy", {<<b>> : b \in Published("baseline")},
                  Configs("threshold_policy")),
              Ask("abstention_policy", {<<t>> : t \in Published("threshold_policy")},
                  Published("threshold_policy") \X Configs("abstention_policy"))}

(***************************************************************************)
(* Steps of a command.                                                     *)
(***************************************************************************)

Running == {"load", "look", "build", "made", "staged", "rename", "clean"}
Ended == {"hit", "built", "failed", "interrupted", "killed"}

Init ==
    /\ store \in Given
    /\ pc = [c \in Commands |-> "idle"]
    /\ request = [c \in Commands |-> None]
    /\ staging = {}
    /\ bundle = None

At(c, place) == pc[c] = place
Goto(c, place) == pc' = [pc EXCEPT ![c] = place]

Call(c) ==
    /\ At(c, "idle")
    /\ \E r \in Requests : request' = [request EXCEPT ![c] = r]
    /\ Goto(c, "load")
    /\ UNCHANGED <<store, staging, bundle>>

\* The directories that are named are validated, and what they have to do with each other.
LoadInputs(c) ==
    /\ At(c, "load")
    /\ Goto(c, IF Accepted(request[c]) THEN "look" ELSE "failed")
    /\ UNCHANGED <<store, request, staging, bundle>>

\* What is already published under the id is used, or refused.
Look(c) ==
    /\ At(c, "look")
    /\ Goto(c, CASE Target(c) \notin DOMAIN store -> "build"
                [] Target(c) \in DOMAIN store /\ Sound(Target(c)) -> "hit"
                [] Target(c) \in DOMAIN store /\ ~Sound(Target(c)) -> "failed")
    /\ UNCHANGED <<store, request, staging, bundle>>

\* Everything is computed before there is a staging directory; the computation may
\* refuse what Curation and Training say it refuses.
Compute(c) ==
    /\ At(c, "build")
    /\ \/ staging' = staging \cup {c} /\ Goto(c, "made")
       \/ Goto(c, "failed") /\ UNCHANGED staging
    /\ UNCHANGED <<store, request, bundle>>

\* The files are written, the manifest last, and the directory validated like one found;
\* it may be refused, as Curation and Training say.
Write(c) ==
    /\ At(c, "made")
    /\ Goto(c, "staged") \/ Goto(c, "clean")
    /\ UNCHANGED <<store, request, staging, bundle>>

LookAgain(c) ==
    /\ At(c, "staged")
    /\ Goto(c, IF Target(c) \in DOMAIN store THEN "clean" ELSE "rename")
    /\ UNCHANGED <<store, request, staging, bundle>>

\* Mutant: a publication that is refused ends the command at once.
RenameOnly(c) ==
    /\ At(c, "rename")
    /\ IF Target(c) \in DOMAIN store
       THEN Goto(c, "failed") /\ UNCHANGED <<store, staging>>
       ELSE /\ store' = [id \in DOMAIN store \cup {Target(c)} |->
                            IF id = Target(c) THEN ArtifactOf(c) ELSE store[id]]
            /\ staging' = staging \ {c}
            /\ Goto(c, "built")
    /\ UNCHANGED <<request, bundle>>

\* os.rename does not replace a directory that has files in it.
Rename(c) ==
    /\ At(c, "rename")
    /\ IF Target(c) \in DOMAIN store
       THEN Goto(c, "clean") /\ UNCHANGED <<store, staging>>
       ELSE /\ store' = [id \in DOMAIN store \cup {Target(c)} |->
                            IF id = Target(c) THEN ArtifactOf(c) ELSE store[id]]
            /\ staging' = staging \ {c}
            /\ Goto(c, "built")
    /\ UNCHANGED <<request, bundle>>

\* best_effort_remove_tree(staging_dir); raise
Cleanup(c) ==
    /\ At(c, "clean")
    /\ staging' = staging \ {c}
    /\ Goto(c, "failed")
    /\ UNCHANGED <<store, request, bundle>>

\* A file-system call fails; best_effort_remove_tree swallows it.
DiskError(c) ==
    /\ Faults
    /\ \/ pc[c] \in {"load", "look", "build", "clean"} /\ Goto(c, "failed")
       \/ pc[c] \in {"made", "staged", "rename"} /\ Goto(c, "clean")
    /\ UNCHANGED <<store, request, staging, bundle>>

\* The commands whose clean-up is under `except BaseException'.
CleansUpAlways == {"audit", "label_policy", "model_dataset"}

\* KeyboardInterrupt: in the try statement, which is entered after the directory was
\* made, it runs the clean-up of those; a SIGKILL runs nothing.
Stop(c) ==
    /\ Faults
    /\ \/ pc[c] \in Running /\ Goto(c, "killed")
       \/ pc[c] \in {"load", "look", "build", "clean"} /\ Goto(c, "interrupted")
       \/ pc[c] \in {"made", "staged", "rename"} /\
             Goto(c, IF request[c].kind \in CleansUpAlways THEN "clean" ELSE "interrupted")
       \/ pc[c] = "made" /\ Goto(c, "interrupted")
    /\ UNCHANGED <<store, request, staging, bundle>>

(***************************************************************************)
(* The server and the readiness check.                                     *)
(***************************************************************************)

BundleConfig ==
    [model_dataset : Published("model_dataset"), baseline : Published("baseline"),
     threshold_policy : Published("threshold_policy"),
     abstention_policy : Published("abstention_policy"), retrieval : Published("retrieval")]

\* Mutant: the retrieval index is not compared with the model dataset.
CompatibleButRetrieval(b) ==
    /\ store[b.threshold_policy].from = <<b.baseline>>
    /\ store[b.abstention_policy].from = <<b.threshold_policy, b.baseline>>
    /\ store[b.baseline].from = <<b.model_dataset>>

\* validate_inference_bundle_compatibility.
Compatible(b) ==
    /\ store[b.threshold_policy].from = <<b.baseline>>
    /\ store[b.abstention_policy].from = <<b.threshold_policy, b.baseline>>
    /\ store[b.baseline].from = <<b.model_dataset>>
    /\ store[b.retrieval].from = <<b.model_dataset>>

\* check-artifacts by mode: are all five there, are they sound, do they fit together.
Ready(b, mode) ==
    /\ \A part \in DOMAIN b : b[part] \in DOMAIN store
    /\ mode # "presence" => \A part \in DOMAIN b : Sound(b[part])
    /\ mode = "strict" => Compatible(b)

\* serve, or check-artifacts in strict mode, with a configuration they do not refuse.
LoadBundle ==
    /\ \E b \in BundleConfig : Ready(b, "strict") /\ bundle' = b
    /\ UNCHANGED <<store, pc, request, staging>>

Step(c) ==
    \/ LoadInputs(c) \/ Look(c) \/ Compute(c) \/ Write(c) \/ LookAgain(c) \/ Rename(c)
    \/ Cleanup(c)

Next ==
    \/ \E c \in Commands : Call(c) \/ Step(c) \/ DiskError(c) \/ Stop(c)
    \/ LoadBundle

Spec == Init /\ [][Next]_vars

-----------------------------------------------------------------------------
(* Properties.                                                             *)

\* Everything that a command has built was made from what is published and sound, and
\* from artifacts that belong together: a label policy and the audit it was checked
\* against are of one dataset, as are the policy and the issues of a model dataset, and
\* an abstention policy stands on the baseline its threshold policy was selected on.
LineageIsClosed ==
    \A id \in DOMAIN store : store[id].built_by # None =>
        LET from == store[id].from
        IN /\ \A k \in DOMAIN from : from[k] \in DOMAIN store /\ Sound(from[k])
           /\ id.kind \in {"label_policy", "model_dataset"} =>
                 store[from[2]].from[1] = from[1]
           /\ id.kind = "abstention_policy" => store[from[1]].from[1] = from[2]

\* Whatever a command returns, found there, damaged or misplaced as it may be, or built by
\* it while others built the same, is sound and what it was asked for, but for a threshold
\* policy's reference threshold.
AnswersRequest ==
    \A c \in Commands : pc[c] \in {"hit", "built"} =>
        LET r == request[c]
            artifact == store[Target(c)]
        IN /\ Sound(Target(c))
           /\ artifact.from = Inputs(r)
           /\ IF r.kind = "threshold_policy" THEN Front(artifact.config) = Front(r.config)
              ELSE artifact.config = r.config
           /\ pc[c] = "built" => artifact.built_by = c

\* From a set of ids, everything they were made from; a chain has seven links.
Ancestry(ids) ==
    LET upto[links \in 0..7] ==
            IF links = 0 THEN ids
            ELSE LET nearer == upto[links - 1]
                 IN  nearer \cup UNION {ToSet(id.from) : id \in nearer}
    IN upto[7]

\* What the server has loaded, or a strict check has found ready, goes back to one dataset,
\* by one label policy and one split, whatever was built since: the five parts are still
\* there and sound, and what they were made from is there under its id (nobody opens it
\* when a bundle is loaded, so it may be damaged).
BundlesAreOneChain ==
    bundle # None =>
        LET ids == Ancestry({bundle[part] : part \in DOMAIN bundle})
        IN /\ ids \subseteq DOMAIN store /\ Ready(bundle, "strict")
           /\ \A x, y \in ids : x.kind = y.kind => x = y

\* A command ends with its staging directory still there only if it was killed, if
\* removing it failed, or if a user interrupted it: between mkdtemp and the try
\* statement, or where only `except Exception' cleans up.
LitterIsExplained ==
    [][\A c \in Commands :
          (pc[c] \in Running /\ pc'[c] \in Ended /\ c \in staging') =>
              \/ pc'[c] = "killed" \/ pc[c] = "clean"
              \/ /\ pc'[c] = "interrupted"
                 /\ pc[c] = "made" \/ request[c].kind \notin CleansUpAlways]_vars
=============================================================================
