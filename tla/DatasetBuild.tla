---------------------------- MODULE DatasetBuild ----------------------------
(***************************************************************************)
(* build_dataset of src/repotriage/dataset/builder.py: calls that build,   *)
(* or reuse, the normalized dataset of one repository's raw snapshot.      *)
(*                                                                         *)
(* The raw cache is AbsRawCache: while a build runs, a refresh may take    *)
(* the live snapshot away, put a new one in its place or bring the old one *)
(* back.  The build takes no lock and opens every file by its path, so it  *)
(* reads each file of whatever snapshot is live then: the manifest three   *)
(* times and every page twice.                                             *)
(*                                                                         *)
(* The SHA-256 of some bytes is those bytes.  The bytes of the manifest of *)
(* snapshot d are d (it holds fetched_at); those of its page k are         *)
(* Content[d][k], and two snapshots may have pages in common.              *)
(***************************************************************************)
EXTENDS Integers, Sequences, FiniteSets, FiniteSetsExt

CONSTANTS
    Builds,      \* the calls of build_dataset
    Dirs,        \* the raw snapshots
    None,        \* no directory, nothing published
    MaxPages,    \* bound: pages of a snapshot
    Content,     \* what is on each page: a set of issues, a number of pull requests
    RawChanges,  \* may the raw cache change while a dataset is built?
    DiskErrors,  \* may a file-system call raise OSError?
    Stops        \* may a build be interrupted or killed?

(* An issue is what normalize_issue makes of a raw record: its number and   *)
(* the rest of it.                                                          *)
ASSUME PageContents ==
    \A d \in Dirs : \A k \in 1 .. MaxPages :
        /\ Content[d][k].pulls \in Nat
        /\ IsFiniteSet(Content[d][k].issues)
ASSUME BuildEnvironment ==
    /\ MaxPages \in Nat /\ None \notin Dirs
    /\ RawChanges \in BOOLEAN /\ DiskErrors \in BOOLEAN /\ Stops \in BOOLEAN

VARIABLES
    live, files, pages, published,  \* the raw cache, see AbsRawCache
    pc,        \* where each build is
    manifest,  \* the snapshot whose manifest it has parsed (raw_manifest)
    sha,       \* source_manifest_sha256
    head,      \* the manifest bytes that went into source_snapshot_sha256
    hashed,    \* the pages that went into it
    read,      \* the pages that were normalized
    checked,   \* output files validate_cache_integrity has found so far
    staged,    \* the builds whose staging directory exists
    store      \* processed_root/slug: the dataset under each id

rawVars == <<live, files, pages, published>>
readVars == <<manifest, sha, head, hashed, read, checked>>
vars == <<rawVars, pc, readVars, staged, store>>

Raw == INSTANCE AbsRawCache

Ended == {"ok", "hit", "error", "corrupt", "stopped"}

-----------------------------------------------------------------------------
(* The pages a build has read.                                              *)

Snapshot(b) == [manifest |-> head[b], pages |-> hashed[b]]

(* compute_dataset_id.                                                      *)
DatasetId(b) == [fetched_at |-> manifest[b], snapshot |-> Snapshot(b)]

Contents(d) == [k \in 1 .. pages[d] |-> Content[d][k]]

IssuesOn(contents) == UNION {contents[k].issues : k \in DOMAIN contents}

(* _reject_duplicates lets these pages pass: no number occurs twice.        *)
NoDuplicates(contents) ==
    /\ \A k, l \in DOMAIN contents : \A x \in contents[k].issues, y \in contents[l].issues :
          x.number = y.number => k = l /\ x = y

Sum(contents, f(_)) == MapThenSumSet(LAMBDA k : f(contents[k]), DOMAIN contents)

(* The counts of a manifest and of _normalize_snapshot.                     *)
Totals(contents) ==
    [issues |-> Sum(contents, LAMBDA page : Cardinality(page.issues)),
     pulls  |-> Sum(contents, LAMBDA page : page.pulls)]

Init ==
    /\ Raw!Init
    /\ pc = [b \in Builds |-> "idle"]
    /\ manifest = [b \in Builds |-> None]
    /\ sha = [b \in Builds |-> None]
    /\ head = [b \in Builds |-> None]
    /\ hashed = [b \in Builds |-> <<>>]
    /\ read = [b \in Builds |-> <<>>]
    /\ checked = [b \in Builds |-> 0]
    /\ staged = {}
    /\ store = <<>>

-----------------------------------------------------------------------------
(* Steps of a build.                                                        *)

Goto(b, place) == pc' = [pc EXCEPT ![b] = place]

At(b, place) == pc[b] = place

(* A file of the live snapshot, as the code finds it: by its path.          *)
IsFile(k) == live # None /\ k \in files[live]

Call(b) ==
    /\ At(b, "idle")
    /\ Goto(b, "manifest")
    /\ UNCHANGED <<rawVars, readVars, staged, store>>

(* validate_cache_integrity: the manifest, then each output file it lists.  *)
ReadManifest(b) ==
    /\ At(b, "manifest")
    /\ IF IsFile(0)
       THEN manifest' = [manifest EXCEPT ![b] = live] /\ Goto(b, "check")
       ELSE Goto(b, "corrupt") /\ UNCHANGED manifest
    /\ UNCHANGED <<rawVars, sha, head, hashed, read, checked, staged, store>>

CheckOutputFile(b) ==
    /\ At(b, "check")
    /\ checked[b] < pages[manifest[b]]
    /\ IF IsFile(checked[b] + 1)
       THEN checked' = [checked EXCEPT ![b] = @ + 1] /\ UNCHANGED pc
       ELSE Goto(b, "corrupt") /\ UNCHANGED checked
    /\ UNCHANGED <<rawVars, manifest, sha, head, hashed, read, staged, store>>

(* source_manifest_sha256, once all output files are there.                 *)
HashManifest(b) ==
    /\ At(b, "check")
    /\ checked[b] = pages[manifest[b]]
    /\ IF IsFile(0)
       THEN sha' = [sha EXCEPT ![b] = live] /\ Goto(b, "snapshot")
       ELSE Goto(b, "error") /\ UNCHANGED sha
    /\ UNCHANGED <<rawVars, manifest, head, hashed, read, checked, staged, store>>

(* compute_raw_snapshot_sha256: the manifest's bytes, then every page's.    *)
HashHead(b) ==
    /\ At(b, "snapshot")
    /\ IF IsFile(0)
       THEN head' = [head EXCEPT ![b] = live] /\ Goto(b, "hash")
       ELSE Goto(b, "error") /\ UNCHANGED head
    /\ UNCHANGED <<rawVars, manifest, sha, hashed, read, checked, staged, store>>

(* Mutant: the first page is hashed for every page.                         *)
HashFirstPage(b) ==
    LET k == Len(hashed[b]) + 1 IN
    /\ At(b, "hash")
    /\ k <= pages[manifest[b]]
    /\ IF IsFile(k)
       THEN hashed' = [hashed EXCEPT ![b] = Append(@, Content[live][1])] /\ UNCHANGED pc
       ELSE Goto(b, "error") /\ UNCHANGED hashed
    /\ UNCHANGED <<rawVars, manifest, sha, head, read, checked, staged, store>>

HashPage(b) ==
    LET k == Len(hashed[b]) + 1 IN
    /\ At(b, "hash")
    /\ k <= pages[manifest[b]]
    /\ IF IsFile(k)
       THEN hashed' = [hashed EXCEPT ![b] = Append(@, Content[live][k])] /\ UNCHANGED pc
       ELSE Goto(b, "error") /\ UNCHANGED hashed
    /\ UNCHANGED <<rawVars, manifest, sha, head, read, checked, staged, store>>

IsPublished(id) == id \in DOMAIN store

(* final_dir exists: it is used if validate_processed_dataset accepts it.   *)
UseDataset(b) ==
    /\ At(b, "hash")
    /\ Len(hashed[b]) = pages[manifest[b]]
    /\ IsPublished(DatasetId(b))
    /\ Goto(b, IF store[DatasetId(b)].sha = sha[b] THEN "hit" ELSE "corrupt")
    /\ UNCHANGED <<rawVars, readVars, staged, store>>

NoDatasetYet(b) ==
    /\ At(b, "hash")
    /\ Len(hashed[b]) = pages[manifest[b]]
    /\ ~IsPublished(DatasetId(b))
    /\ Goto(b, "read")
    /\ UNCHANGED <<rawVars, readVars, staged, store>>

(* _normalize_snapshot reads every page once more.                          *)
ReadPage(b) ==
    LET k == Len(read[b]) + 1 IN
    /\ At(b, "read")
    /\ k <= pages[manifest[b]]
    /\ IF IsFile(k)
       THEN read' = [read EXCEPT ![b] = Append(@, Content[live][k])] /\ UNCHANGED pc
       ELSE Goto(b, "error") /\ UNCHANGED read
    /\ UNCHANGED <<rawVars, manifest, sha, head, hashed, checked, staged, store>>

(* Mutant: the counts are not compared with the manifest's.                 *)
CrossCheckNothing(b) == TRUE

(* _cross_check_raw_manifest.                                               *)
CrossCheck(b) == Totals(read[b]) = Totals(Contents(manifest[b]))

(* Mutant: duplicates are not looked for.                                   *)
ReconcileCounts(b) ==
    /\ At(b, "read")
    /\ Len(read[b]) = pages[manifest[b]]
    /\ IF CrossCheck(b)
       THEN staged' = staged \cup {b} /\ Goto(b, "write")
       ELSE Goto(b, "error") /\ UNCHANGED staged
    /\ UNCHANGED <<rawVars, readVars, store>>

(* The checks on what was read, and the staging directory.                  *)
Reconcile(b) ==
    /\ At(b, "read")
    /\ Len(read[b]) = pages[manifest[b]]
    /\ IF NoDuplicates(read[b]) /\ CrossCheck(b)
       THEN staged' = staged \cup {b} /\ Goto(b, "write")
       ELSE Goto(b, "error") /\ UNCHANGED staged
    /\ UNCHANGED <<rawVars, readVars, store>>

(* Mutant: a build that sees another one at work leaves it to it.           *)
WriteUnlessBusy(b) ==
    /\ At(b, "write")
    /\ Goto(b, IF IsPublished(DatasetId(b)) \/ staged # {b} THEN "cleanup" ELSE "rename")
    /\ UNCHANGED <<rawVars, readVars, staged, store>>

(* Mutant: a build that lost the race waits for the dataset to go away.     *)
WriteAndWait(b) ==
    /\ At(b, "write")
    /\ ~IsPublished(DatasetId(b))
    /\ Goto(b, "rename")
    /\ UNCHANGED <<rawVars, readVars, staged, store>>

(* The output file and the manifest are written into staging and validated  *)
(* there; publish_dataset looks for a dataset of this id.                   *)
WriteAndLook(b) ==
    /\ At(b, "write")
    /\ Goto(b, IF IsPublished(DatasetId(b)) THEN "cleanup" ELSE "rename")
    /\ UNCHANGED <<rawVars, readVars, staged, store>>

(* The manifest's built_at tells the results of two builds apart.           *)
Dataset(b) ==
    [sha |-> sha[b], snapshot |-> Snapshot(b), totals |-> Totals(read[b]),
     built_at |-> b, issues |-> IssuesOn(read[b])]

(* Mutant: what is at the final path is replaced.                           *)
RenameOver(b) ==
    /\ At(b, "rename")
    /\ store' = [id \in DOMAIN store \cup {DatasetId(b)} |->
                     IF id = DatasetId(b) THEN Dataset(b) ELSE store[id]]
    /\ staged' = staged \ {b}
    /\ Goto(b, "ok")
    /\ UNCHANGED <<rawVars, readVars>>

(* os.rename does not replace a directory that has files in it.             *)
Rename(b) ==
    /\ At(b, "rename")
    /\ IF IsPublished(DatasetId(b))
       THEN Goto(b, "cleanup") /\ UNCHANGED <<staged, store>>
       ELSE /\ store' = [id \in DOMAIN store \cup {DatasetId(b)} |->
                            IF id = DatasetId(b) THEN Dataset(b) ELSE store[id]]
            /\ staged' = staged \ {b}
            /\ Goto(b, "ok")
    /\ UNCHANGED <<rawVars, readVars>>

(* Mutant: the staging directory stays.                                     *)
NoCleanup(b) ==
    /\ At(b, "cleanup")
    /\ Goto(b, "error")
    /\ UNCHANGED <<rawVars, readVars, staged, store>>

(* except BaseException: best_effort_remove_tree(staging_dir); raise        *)
Cleanup(b) ==
    /\ At(b, "cleanup")
    /\ staged' = staged \ {b}
    /\ Goto(b, "error")
    /\ UNCHANGED <<rawVars, readVars, store>>

(* A file-system call fails.  Where the manifest is parsed that is reported *)
(* as corruption; best_effort_remove_tree swallows it.                      *)
DiskError(b) ==
    /\ DiskErrors
    /\ \/ At(b, "manifest") /\ Goto(b, "corrupt")
       \/ pc[b] \in {"check", "snapshot", "hash", "read", "cleanup"} /\ Goto(b, "error")
       \/ pc[b] \in {"write", "rename"} /\ Goto(b, "cleanup")
    /\ UNCHANGED <<rawVars, readVars, staged, store>>

(* KeyboardInterrupt runs the cleanup of the try around staging; SIGKILL    *)
(* runs nothing.                                                            *)
Stop(b) ==
    /\ Stops
    /\ pc[b] \notin Ended \cup {"idle"}
    /\ \/ Goto(b, "stopped")
       \/ pc[b] \in {"write", "rename"} /\ Goto(b, "cleanup")
    /\ UNCHANGED <<rawVars, readVars, staged, store>>

Step(b) ==
    \/ ReadManifest(b) \/ CheckOutputFile(b) \/ HashManifest(b) \/ HashHead(b) \/ HashPage(b)
    \/ UseDataset(b) \/ NoDatasetYet(b) \/ ReadPage(b) \/ Reconcile(b)
    \/ WriteAndLook(b) \/ Rename(b) \/ Cleanup(b)

(* fetch-issues --refresh, in another process.                              *)
Refresh ==
    /\ RawChanges
    /\ Raw!Next
    /\ UNCHANGED <<pc, readVars, staged, store>>

Next ==
    \/ \E b \in Builds : Call(b) \/ Step(b) \/ DiskError(b) \/ Stop(b)
    \/ Refresh

Spec == Init /\ [][Next]_vars

(* A process that is running is scheduled.                                  *)
FairSpec == Spec /\ \A b \in Builds : WF_vars(Step(b))

-----------------------------------------------------------------------------
(* Properties.                                                              *)

Places == {"idle", "manifest", "check", "snapshot", "hash", "read", "write", "rename", "cleanup"}
              \cup Ended

Pages == {Content[d][k] : d \in Dirs, k \in 1 .. MaxPages}

TypeOK ==
    /\ live \in Dirs \cup {None} /\ published \subseteq Dirs
    /\ pages \in [Dirs -> 0 .. MaxPages]
    /\ files \in [Dirs -> SUBSET (0 .. MaxPages)]
    /\ pc \in [Builds -> Places]
    /\ manifest \in [Builds -> Dirs \cup {None}]
    /\ sha \in [Builds -> Dirs \cup {None}]
    /\ head \in [Builds -> Dirs \cup {None}]
    /\ hashed \in [Builds -> Seq(Pages)]
    /\ read \in [Builds -> Seq(Pages)]
    /\ checked \in [Builds -> 0 .. MaxPages]
    /\ staged \subseteq Builds

(* The processed datasets are an immutable store: concurrent builds of one  *)
(* id publish at most one of their results, whole, and nothing ever         *)
(* replaces it.                                                             *)
Store == INSTANCE ArtifactStore
PublishedDatasetsStay == Store!Spec

(* A dataset has no two issues of the same number, even if its pages come   *)
(* from two snapshots that a refresh swapped.                               *)
NumbersAreUnique ==
    \A id \in DOMAIN store : \A x, y \in store[id].issues : x.number = y.number => x = y

(* A dataset has as many issues as the manifest its id is made from says,   *)
(* even if its pages come from elsewhere.                                   *)
CountsMatchManifest ==
    \A id \in DOMAIN store :
        Cardinality(store[id].issues) = Totals(Contents(id.fetched_at)).issues

(* The issues of a dataset are those of the pages its id is the hash of:    *)
(* "Identity is source contents + transformation version" (dataset/models.  *)
(* py, compute_dataset_id).                                                 *)
LineageIsTrue ==
    \A id \in DOMAIN store : store[id].issues = IssuesOn(id.snapshot.pages)

(* Concurrent builds end in order: none leaves its staging directory, and  *)
(* if the raw snapshot is sound and nothing fails they do not all turn     *)
(* each other away, one of them ends with the dataset.                     *)
BuildsEndInOrder ==
    /\ \A b \in Builds : pc[b] \in Ended => b \notin staged
    /\ (/\ live # None
        /\ files[live] = 0 .. pages[live] /\ NoDuplicates(Contents(live))
        /\ \A b \in Builds : pc[b] \in Ended)
          => \E b \in Builds : pc[b] \in {"ok", "hit"}

(* Every build ends.                                                        *)
BuildEnds == \A b \in Builds : (pc[b] \notin {"idle"} \cup Ended) ~> (pc[b] \in Ended)
=============================================================================
