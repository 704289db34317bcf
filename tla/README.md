# RepoTriage in TLA+

TLA+ specifications of RepoTriage, model-checked with TLC on small instances,
and theorems about them that TLAPS proves for every value of the constants.
Paths below are relative to the root of the repository; `repotriage/` stands
for `src/repotriage/` and `frontend/` for `frontend/src/`.

## 1. The system

RepoTriage downloads the issues of a GitHub repository, turns them in a chain of
batch commands into datasets, a classifier, decision policies and a retrieval
index, and serves predictions over HTTP to a React page on which maintainers
review them. There is no database but the feedback table and no lock anywhere:
the commands communicate through directories that are published by rename, and
each of them may be started at any time, twice, or be killed.

| Component | State it keeps | Operations | Talks to |
| --- | --- | --- | --- |
| Raw cache, `repotriage/github/ingestion.py`, `filesystem.py` | one directory per repository: `manifest.json`, `pages/*.json`; staging and backup siblings | `fetch_repository_issues`, `publish_staging_directory`, `_rollback_publication`, `validate_cache` | GitHub client (pages), dataset builder (reads the directory) |
| GitHub client, `repotriage/github/client.py` | attempt, page number, next URL | `fetch_issues_pages`, `_request_with_retries` | GitHub |
| Dataset builder, `repotriage/dataset/builder.py` | immutable directory per dataset id | `build_dataset`, `validate_processed_dataset`, `publish_dataset` | reads the raw cache; read by audit, policy, model dataset |
| Curation: `repotriage/audit/`, `label_policy/`, `model_dataset/` | immutable directory per artifact id | `audit_dataset`, `build_label_policy`, `build_model_dataset`, one `validate_*` each | each reads the ones before it, in the order given |
| Retrieval, `repotriage/retrieval/` | immutable directory per run id: corpus, matrix, vectorizer, neighbours | `build_retrieval_baseline`, `validate_retrieval_*`, `retrieve_similar_issues` | reads the model dataset; served |
| Training: `repotriage/baseline/`, `threshold_policy/`, `abstention_policy/` | immutable directory per id: predictions, metrics, decision | `train_baseline`, `build_threshold_policy`, `build_abstention_policy`, one `validate_*` each | each reads the ones before it; served |
| Inference bundle, `repotriage/inference/` | the five artifacts, loaded once per server start | `load_inference_bundle`, `infer_issue`, `check_inference_artifacts` | read by the API |
| Feedback API and persistence, `repotriage/api/`, `repotriage/persistence/` | the loaded bundle; table `feedback_events` | `POST /infer`, `POST /feedback`, `validate_feedback_request`, `store` | review page, database |
| Review page, `frontend/` | form, one inference result, one feedback outcome, correction box | the two hooks' `submit` and `reset`, the panel's buttons | API |
| Command line, `repotriage/cli.py` | none | parses, calls, prints | all of the above |

What is hard in it:

* **Interleaving.** Refreshes of one repository overlap each other and overlap
  `build-dataset`; builds of one dataset race for the same directory; answers to
  several HTTP requests cross, and the page does not know whose answer it gets.
* **Crashes and partial failure.** Publication is two renames with a rollback; any
  of the system calls may fail, `KeyboardInterrupt` may come between two
  statements, and the process may be killed. A commit may fail after the row
  was written; a server restarts with other artifacts under an open page.
* **Ordering.** GitHub's listing shifts while it is paged; pages are hashed once
  and read again later; the title is read from the form when the prediction is
  that of an earlier form.
* **Retries and limits.** Attempts, delays and caps of the client.
* **Two computations of one thing.** Every artifact is validated by code that was
  written a second time: counts against counts, a selection against the audit of
  the selection, a report against records. Where the two disagree, a command
  refuses what it has just made, or accepts what was altered.
* **Boundaries.** Time cutoffs, support thresholds, ties of metrics, a score that
  equals a threshold, labels nobody predicts, grids that miss the reference.

What makes each component correct, in one line:

* raw cache: a complete snapshot is never lost, readers see whole snapshots,
  failures repair themselves, hits match their request;
* client: bounded patience, nothing overlooked but for deletions, repeated but for
  openings, every listing ends;
* dataset builder: immutable datasets, unique numbers, counts that agree, ids that
  tell the truth about contents, races with a winner, no litter;
* curation: splits that never look ahead, targets that carry over from the policy,
  what is used is what the inputs imply, nothing in order is refused;
* retrieval: the nearest older issues, the same ones when served;
* training: the selected candidate and thresholds follow from the predictions beside
  them, the average that selects leaves no label out, abstaining only drops;
* the chain: immutable artifacts whose inputs are published and belong together,
  answers that are what was asked for, bundles of one dataset;
* inference: decisions that agree with the thresholds that were selected;
* review loop: events match the prediction they review, a success is in the
  table, corrections are made over what is shown, no button is stuck.

## 2. The modules

```
AbsRawCache  <---- refined by ----  RawCache           (calls of fetch-issues)
     ^                                 ^  EXTENDS
     | Raw == INSTANCE              RawCacheProofs <- RawCacheRefinement
     |
DatasetBuild ---- refines ---->  ArtifactStore         (calls of build-dataset)
     ^  EXTENDS
DatasetBuildProofs

IssueListing  <- IssueListingProofs                    (one GitHub listing)
ReviewLoop    <- ReviewLoopProofs                      (page, API, table)

DatasetAudit <- LabelPolicy <- ModelDataset <- RetrievalIndex <- Curation <- CurationProofs
       (what four commands compute)                    (the commands in a row)

Metrics <- BaselineSelection <- ThresholdSelection <- AbstentionSelection
        <- IssueDecision <- Training <- TrainingProofs (three commands, and answers)

ArtifactChain <- ArtifactChainProofs                   (all seven as writers of one store)
```

`A <- B` is "B EXTENDS A". `MCRawCache`, `MCDatasetBuild`, `MCReviewLoop`,
`MCCuration`, `MCTraining` and `MCArtifactChain` give the constants values for TLC;
`IssueListing` is checked directly. A comment `Mutant:` marks an operator
that is not part of the specification: it is a broken form of the operator after
it, and the property named in `PROJECT.json` fails when it takes that one's place.

The commands after `build-dataset` are modelled twice, from two sides. What they
compute is in `Curation` and `Training`: no concurrency and no faults, but every
small input and every comparison that the validators make. How they publish is in
`ArtifactChain`: any number of commands at a time, every fault, but an artifact is
no more than its manifest and whether its files are intact. `ArtifactChain` may
fail where the other two may refuse (`Compute`, `Write`); the two others may be
altered where the chain has a directory that is not `Sound`.

### RawCache

One state machine for any number of calls (`Fetches`) of
`fetch_repository_issues`. The shared state is what a path holds: `live`, and for
each call its `staged` directory and its `backup` path. A directory is named by the
call that made it and keeps its name when it is renamed; `files` is what it contains
(0 is the manifest), `pages` the count its manifest declares.

| Code (`ingestion.py`) | Actions |
| --- | --- |
| cache hit: `_read_manifest_file`, `validate_cache_integrity`, `validate_cache` (70-171) | `Call`, `ReadManifest`, `CheckOutputFile`, `CompareRequest` |
| download into staging (269-334) | `CreateStaging`, `OpenClient`, `StorePage`, `FetchFails`, `WriteManifest` |
| `publish_staging_directory` (193-230) | `ChooseBackup`, `LookAgain`, `MoveOut`, `SetFlag`, `MoveIn`, `DropBackup`, `RemoveBackup`, `PublishRaises` |
| `_rollback_publication` (174-191) | `RollbackLooks`, `OpenLive`, `Unlink`, `LoseEntry`, `RemoveLive`, `CannotRemoveLive`, `Restore`, `Reraise`, `Raise` |
| `finally` (343-348) | `Cleanup` |

`Unlink` removes one file at a time, so a half-removed directory is a state; the
removal goes on in a directory that was opened even when another call renames it
away. So two removals can be at one directory: a rollback has opened it while it was
live, and another call has since moved it aside and is dropping its backup, which takes
three calls, or two rollbacks have opened it. `listed` is what a call's `rmtree` has
listed; if an entry of it is gone, `LoseEntry` is the `FileNotFoundError` that `rmtree`
raises up to Python 3.12 (the project asks for 3.11 or later). It needs no fault of the
disk. The call may as well have listed that part later and miss nothing, so the step is a
choice. `SetFlag` is an action of its own since `backup_moved = True` is a statement
of its own, after the rename. `DiskError`, `Interrupt` and `Crash` may strike at
every step, under the constants of the same purpose.

Abstractions: what `validate_cache` compares (repository, API version, request
parameters, `max_pages`) is one value, a request; `atomic_write_*` is one step,
its temporary file is private to the staging directory; backup paths are never
taken (`secrets.token_hex`); the removal of a private staging directory is one
step.

`AbsRawCache` is what a reader may rely on: a directory gets to the live path
whole, may be taken away and brought back, and only ever loses files.

### IssueListing

The repository (`present`, `created`) is external and changes between requests;
`Rank`, `PageOf` and `HasNext` are how GitHub cuts a newest-first listing into pages.
The client's state is `pc`, `page` (`page_number`), `url`, `attempt`, `limit`,
`received`. `ReceivePage`, `ReceiveEmpty`, `ReceiveForeignLink`, `NetworkFails`,
`RateLimited`, `ServerFails` and `Refuse` are the outcomes of one request in
`_request_with_retries` and `fetch_issues_pages`; `RetryDelay` is
`compute_retry_delay`. The history variables `asked` and `slept` count what one
page has cost.

### DatasetBuild

Any number of calls of `build_dataset` over the raw cache of `AbsRawCache`, whose
steps are interleaved with theirs (`Refresh`): the composition of the two
components goes through the abstract one, which RawCache implements. Every file a
build opens is one step, since it is opened by path: the manifest (three times),
each output file for its presence, each page when it is hashed (`HashPage`) and once
more when it is normalized (`ReadPage`). `CrossCheck`, `NoDuplicates` and
`Reconcile` are the comparisons before anything is written, `WriteAndLook` and
`Rename` are `publish_dataset`, `Cleanup` the `except BaseException`. A SHA-256 is the
bytes it is made from. `UseDataset` is the early return for a dataset that is
there; the checks of `validate_processed_dataset` that compare a dataset with
itself are not repeated, and the manifest's `built_at` is the call, which tells two
builds' results apart.

`ArtifactStore` is the promise of every builder of the chain: an artifact appears
once under its id and is never changed.

### ReviewLoop

The page's two hooks (`inference`, `feedback`), the form, the correction box
(`picks`), every `POST /infer` (`scores`) and `POST /feedback` (`reviews`) with how
the server replied and what the page heard, and the bundle the server has loaded.
The maintainer's clicks are `Edit`, `ScoreIssue`, `ReviewAnother`, `DismissError`,
`Accept`, `Reject`, `OpenCorrection`, `Toggle`, `CancelCorrection`,
`SubmitCorrection`; the server's steps `Infer`, `TakeFeedback` (with the checks of
`persistence/validators.py`), `Restart`; the answers `HearScore`, `ScoreFails`,
`HearFeedback`, `FeedbackFails`. A connection may fail before or after the server
has acted. `Hasty` lets the maintainer go on while requests are on their way,
`Edits` lets the form change under a result.

Three history variables, which no guard reads, say what the maintainer's own clicks have
made possible: `crossed`, which scorings and reviews were on their way together; `left`,
the scores, shown or awaited, whose issue has given way to another text in a form that was
open; `retitled`, the reviews sent under such a text. The page prevents neither, so
`ReviewableAfterScoring` and `EventDescribesScoredIssue` are not true as one would wish them:
they say that nothing else settles a result by another one's review, or puts another title into
an event. `App.tsx:42` (a new scoring forgets the old outcome), `FeedbackPanel.tsx:53` and the form's
`disabled` are what keeps them true.

The panel closes the correction box when `generated_at` or the predicted labels
change; `generated_at` counts seconds, so two results with the same labels may look
equal to it (`SameLabels`), and then either happens. Left out: the issue number
and the note (filled in before the click), the inference error banner, the health
poll, reloading the page, and checks of id formats and lengths that hold for every
request the page builds. What a bundle predicts is a constant.

### Curation: DatasetAudit, LabelPolicy, ModelDataset, RetrievalIndex

Each of the four modules holds one command's computation as operators over a
dataset, a sequence of `[created, labels]` whose places are the issues' ids; Curation
runs them one after the other over every small dataset and configuration.

| Code | Definitions and actions |
| --- | --- |
| `audit/analyzer.py`, `audit/models.py` | `AuditOf`, the one-pass accumulator; `ConsistentAudit`, the document's invariants; `AuditDataset` |
| `label_policy/builder.py`, `models.py` | `PolicyOf` (support, months, recency, decisions, coverage), `Selectable`, `AgreesWithAudit`, `ConsistentPolicy`; `BuildLabelPolicy` |
| `model_dataset/splitter.py`, `targets.py`, `builder.py` | `AssignSplit`, `TargetVector`, `Supported`, `SplitReport`, `ArtifactOf`, `AgainstInputs` with its scan of the records; `BuildModelDataset`, `ValidateStaged`, `Reuse` |
| `retrieval/` | `RetrievalOf` (corpus, ranking, metrics), `RetrievalAgainstModelDataset`, `IndexConsistent`, `SimilarIssues` as served; `BuildRetrieval`, `ValidateRetrieval`, `ReuseRetrieval` |

`Alter` and `AlterRetrieval` change one thing in what was published so that every
hash still agrees: not a fault the program has, but the question its validators
answer when they recompute. For the index that includes a corpus in another order, with an
issue less, one more, or another in the place of one, with `trainIds`, the list of train issues in
manifest and metadata, changed along: the validators compare the corpus with that list
(`retrieval/validators.py:268`, `280-285`) and only the fingerprint, `fitted`, with the model
dataset (`433`), so the build command uses such an index again, and the server refuses it (`IndexConsistent`).
`sorted()` is `SortedBy(S, before)`, whose k-th element is the
one that k - 1 others come before; the validator's one pass over the records is a recursive
function, `ScanRecords`, that counts as the code does. Similarities are given (`Similarities`): TF-IDF and the
cosine are library arithmetic. The text representation is a function of the record
and left out, as are text lengths and percentiles of the audit.

### Training: Metrics, BaselineSelection, ThresholdSelection, AbstentionSelection, IssueDecision

A candidate's model is the scores it gives for the texts of two splits, and any
scores are possible. Scores are whole numbers of `1/Unit`, thresholds `[bp, den]`,
metrics whole numbers of `1/Scale`: exact where the code's are floating-point if `Scale` is a
common multiple of the denominators, as in the run, and rounded down for any other `Scale`.

| Code | Definitions and actions |
| --- | --- |
| `baseline/evaluator.py`, `scores.py` | `SplitMetrics` and what it averages |
| `baseline/selector.py`, `builder.py` | `CandidateSelection`, `BaselineOf`, `BaselineAgainstInputs` with `_audit_candidate_selection`, `ModelConsistent` (staging only); `TrainBaseline`, `ValidateBaseline` |
| `threshold_policy/` | `GridPoints`, `Sweep`, `SelectThreshold`, `ThresholdPolicyOf`, `AgainstBaseline`; `BuildThresholdPolicy`, `ValidateThreshold` |
| `abstention_policy/` | `ResolveGrid`, `AbstentionPolicyOf` (confidence, eligibility, selection, bins), `AbstentionAgainstInputs`; `BuildAbstentionPolicy`, `ValidateAbstention` |
| `inference/` (`artifact_loader`, `thresholding`, `abstention`, `pipeline`, `validators`) | `LoadThresholds`, `InferIssue`, `ResponseValid`; `Serve` |

`Alter` and `Reuse` are as in Curation. The order of statements inside a builder,
such as that the test split is opened after the choice (`baseline/builder.py:688`),
has no state of its own here: that the choice depends on the validation split
alone is the shape of the operators.

### ArtifactChain

One store of immutable directories, from ids to `[id, from, config, intact,
built_by]`. A SHA-256 is the value it is made of, so an id is the record of what it
hashes, and ids agree exactly when their contents do; that the program keeps 48 bits
of it is left out. Each of the commands goes through the same places:

| Code, in each builder | Actions |
| --- | --- |
| the command line with files and ids | `Call` |
| loading and validating what is named, and what they have to do with each other | `LoadInputs` (`Present`, `Sound`, `AcceptsAudit`, `AcceptsPolicy`, `AcceptsBaseline`, `AcceptsThreshold`) |
| the look at the final path: cache hit, or refusal | `Look` |
| the computation, then `mkdtemp` | `Compute` |
| the writing, the manifest last, and the validation of the staged directory | `Write` |
| the second look, `os.rename` | `LookAgain`, `Rename` |
| `except`, `best_effort_remove_tree` | `Cleanup` |

`DiskError` and `Stop` strike at every place. Which clean-up an interrupt runs differs:
`except BaseException` in audit, label policy and model dataset, `except Exception` in
the four others; and an interrupt between `mkdtemp` and `try` runs none. `LoadBundle` is
the server, or a readiness check, that takes any five artifacts which
`validate_inference_bundle_compatibility` lets pass.

## 3. The runs

All are complete explorations; no run is bounded by depth.

| Run | What it shows | Instance |
| --- | --- | --- |
| `raw_faults` | the inductive invariant, `SnapshotSurvives`, `QuiescentCacheUsable`, refinement of `AbsRawCache` (`ReadersSeeSnapshots`), `EveryCallEnds` | two overlapping fetches, one page, every fault; 603 634 states |
| `raw_hits` | `HitMatchesRequest`, `NoLitter` | three fetches, two requests, one page, no faults; 3 521 084 states |
| `listing` | `PatienceIsBounded`, `OverlooksOnlyForDeletions`, `RepeatsOnlyForOpenings`, `ListingEnds` | four issues, one a page, three pages, three retries; 444 915 states |
| `dataset_refreshed` | `NumbersAreUnique`, `CountsMatchManifest` | one build, two snapshots of two pages, refreshes at any step, every fault |
| `dataset_race` | `LineageIsTrue`, `BuildsEndInOrder`, refinement of `ArtifactStore` (`PublishedDatasetsStay`), `BuildEnds` | two builds, the raw cache at rest |
| `review_hasty` | `SuccessIsStored`, `EventsMatchTheirPrediction`, `RefusedOnlyIfOutdated`, `PicksAreOverShown`, `ReviewableAfterScoring`, `EventDescribesScoredIssue` | three scorings, one review, two bundles, edits, faults; 4 741 238 states |
| `review_patient` | `SecondReviewOnlyAfterFailure`, `LoadingEnds` | two scorings, two reviews, faults, a maintainer who waits; 173 578 states |
| `curation` | `TargetsAreInUse`, `NoLookAhead`, `TargetsCarryOver`, `UsedMeansDerived`, `RefusalsAreExplained`, `NeighborsAreTheNearest` | two labels, three times, up to four issues, six configurations, every alteration; 283 198 states |
| `training` | `RefusedOnlyOnTies`, `PerfectMeansNoMistake`, `AbstentionOnlyDrops`, `ReusedDecisionsFollow`, `ServedAsSelected` | two candidates, two labels, two records a split, every score matrix of one candidate, every alteration; 8 352 states |
| `chain` | `LineageIsClosed`, `AnswersRequest`, `BundlesAreOneChain`, `LitterIsExplained` | two commands of any kinds, two datasets, 27 stores, every fault; 165 075 states |
| `dataset_torn` | fails: `LineageIsTrue` while refreshes go on | one build |
| `training_tie` | fails: `StagedIsAccepted` | as `training` |

Why the bounds are enough. Everything two fetches can do to each other happens
through the live path. A third one is what it takes for two removals to meet in one
directory (`LoseEntry`), so `raw_hits` has three; with every fault three are beyond a
short run, and `raw_faults` has two. For any number of fetches and pages the safety
properties are proved. One page suffices since a directory with two files (manifest and
page) can be half-removed, and a check can find them in two directories. Four issues with one a page let every page boundary shift both ways
during a listing of three pages, and `max_pages` is chosen from zero on. The
snapshots of `MCDatasetBuild` differ by an opened issue, which moves another one
across the page boundary, and by an edit, so mixed reads give duplicates, wrong
counts, or neither. Crossing answers need three scorings: one to be
reviewed, one to be left behind by "review another", one to be shown when its
answer comes; two are enough for a maintainer who waits. One review is enough there: it settles a
result that is not its own, and it is sent under an edited form; `ScoredIsReviewable` and
`EventsDescribeTheScoredIssue` are proved for any number. A maintainer who waits reviews twice. The bundles of `MCReviewLoop` predict two labels in another order
than the label order, one label, and none.

`MCCuration` has three times in three months, one at each side of both cutoffs, with
a month without issues between the first two, so that the last active months are not
the last calendar months; two labels can be included, overridden, deferred and
unlisted; three issues can be in any order of ids and times, and four give each split
one and one more. `FallbackThreshold` is 2 where the code has 5, with configured
thresholds on both sides of it. `MCTraining` has two labels with two records, which
give labels nobody has, nobody predicts, and ties of all metrics; scores below the
first confidence bin and on the bounds of bins; one abstention grid in twentieths, the
others in tenths, as the served unit is (10 for the code's 100). Two commands meet in
`MCArtifactChain` at one id, or one reads what the other writes; a store has the second
dataset's chain complete, by half or not at all, or one directory of the first's that
is damaged, is another's, or is another's with the id of its place; two environments
and two references tell the ids apart that hash them from those that do not.

Deadlock checking is off in every run since calls, listings, builds, commands and
bounded requests really end. `raw_hits` and `chain`, which check no liveness, declare
symmetry of their processes.

### Fairness

* `RawCache`, `DatasetBuild`: weak fairness of each call's own steps: a process that
  runs is scheduled. No fairness for faults, for starting a call or for refreshes.
* `IssueListing`: weak fairness of the client: every request is answered or runs into
  the HTTP client's timeout, and the process is scheduled. None for GitHub.
* `ReviewLoop`: for every request, weak fairness of its own steps: it is answered or
  its connection fails. Nobody has to click.
* `Curation`, `Training`, `ArtifactChain`: no liveness is checked. Their commands have no
  loop but over finite inputs, and wait for nobody.

### Where the code disagrees with what is said of it

Two runs fail, and are described under `findings` in `PROJECT.json`: the dataset whose id
vouches for pages it was not made from (`dataset/builder.py:370`), and the baseline that
its own validation refuses when two candidates tie (`baseline/builder.py:373`). The
others were met while reading and modelling, and are recorded here without a run.

Raw cache and client:

* `ingestion.py:217`: an interrupt between the rename and `backup_moved = True` leaves the
  old snapshot at the backup path only, where `tests/test_ingestion.py:483` expects that
  interrupts restore it. `SnapshotSurvives` still holds.
* `ingestion.py:183`: a failing refresh rolls back over a snapshot that an overlapping
  refresh has just published and reported; an older snapshot becomes live.
* `ingestion.py:188`: with three overlapping refreshes, `CacheRecoveryError` can
  name a backup that another call's rollback has begun to empty.
* `client.py:299`: an issue that a new one pushes over a page boundary is listed twice;
  `build-dataset` then refuses the snapshot.
* `client.py:333`: `GitHubRateLimitError` says that the wait is longer than allowed
  also when only the attempts were used up.
* `client.py:334`, `cli.py:652`: a 5xx on the last attempt is an
  `httpx.HTTPStatusError`, which no handler of the command expects.

Review page:

* `useFeedback.ts:16`: a late answer to one review settles the result that is shown by
  then, if the review and the scoring of that result were on their way together
  (`ReviewableAfterScoring` states that it happens in no other way, so waiting avoids it).
* `App.tsx:117` and `lib/feedback.ts:27`: title and body come from the form at the
  click, so an edit under a result is stored with the old prediction (`EventDescribesScoredIssue` states
  that an event has another title in no other way); and labels
  unticked and ticked again come in label order, which counts as a correction.

Curation:

* `model_dataset/builder.py:391`: a configured warning threshold below the one the
  validator falls back to makes a build refuse its own staging directory
  (`RefusalsAreExplained` states that nothing else does).
* `retrieval/validators.py:160-187`: stored neighbours are compared by id, rank and
  similarity; the labels and overlaps beside them are never computed again, nor are the
  labels of the corpus. A corpus that was changed together with the artifact's list of train
  issues is used again by the build command, which compares the two with each other only; its
  stored neighbours are the right ones (`NeighborsAreTheNearest`), and the server does not load it. Only validation's count of all-zero queries is rechecked. Matrix
  and vectorizer are compared with their fingerprint when they are staged and when the
  server loads them, not on a cache hit; validation reads the configuration file again.

Policies and inference:

* `threshold_policy/models.py:268`: the id of a threshold policy hashes what "fully
  determines the generated policy", but not `reference_threshold_basis_points`, which
  breaks ties (`selector.py:63`). A second configuration with another reference gets
  the first one's policy as a cache hit (`builder.py:460`): the exception in
  `AnswersRequest`.
* `threshold_policy/builder.py:502`: a reference that is not on the grid is noticed, as a
  `ThresholdPolicyCorruptionError`, after the test split was opened.
* `abstention_policy/builder.py:408`, `480`, `729`: the classification threshold is divided by
  the denominator of the abstention grid, and `inference/artifact_loader.py:287`, `299` divide
  both thresholds by 100: the two "if" in `AbstentionOnlyDrops` and `ServedAsSelected`.
* `verify_baseline_model_consistency` runs on staging only; of a stored sweep only the
  selected row is computed again, and of the abstention policy's comparison not the test side.
* The environment is hashed into the ids of baselines and indexes, and the loader does not
  compare it with its own. `check-artifacts` in presence or integrity mode says "ready",
  though only strict mode compares the artifacts with each other.

Publication of every artifact:

* `os.rename` onto a directory that a racing build has just published raises `OSError`, which only
  retrieval (`retrieval/builder.py:85-90`) turns into an error of its own.
* A damaged directory is refused at each attempt and never rebuilt.

## 4. The proofs

Every theorem is about the specification a run checks, with its constants free.

`RawCacheProofs`, for any finite set of fetches, any bound on pages and any choice
of faults:

* `TypeCorrect`, `Invariant` (`Spec => []IInv`), `SnapshotAlwaysSurvives`,
  `QuiescentCacheIsUsable`.
* `HitsMatchTheirRequest`: a call that has read a manifest holds one of a directory that was
  published (`HitsAreKnown`), and what a request is compared with is fixed with the directory.
* `CallsLeaveNoLitter`, under `~DiskErrors`, `~Interrupts`, `~Crashes` (each of the three
  does leave directories): `Tidy` says at which places a call has a staging directory, and that
  a call that has ended without `CacheRecoveryError` has no backup or has published and was
  dropping it; `RemovesAlone`, that it then stopped for an entry that is gone and that only the
  rollback of another call can have taken it. What the theorem does not say is that no backup
  stays: with three calls one does (`TornByRollback`), and the call that has published its cache
  reports an error.

`SnapshotSurvives` is far from inductive: a rollback removes the live directory,
which may be somebody else's, and several may do so at once. The invariant counts.
A directory is `Reachable` if it is live or at a backup path that has not been given
up; it is `Damaged` if it is reachable and incomplete, or opened by a removal. A call
is a debtor (`Debtors`) if it holds a backup and has opened a directory, a waiter (`Waiters`) if it
holds a backup and has not. `DamageIsCovered` says that there are at most as many
damaged directories as debtors, and `AbsenceIsCovered` that some waiter exists
whenever nothing is live. Each debtor holds one backup at a path of its own, so the
backups alone outnumber or equal the damage; if all were damaged, there would be a
damaged live directory more than debtors, or no live one and hence a waiter with one
backup more. The proof of the step has one case per action; the counting is in the
lemmas `AtMostSame`, `AtMostPlusOne`, `AtMostMinusOne`. `Known` (types, disjoint
paths, what each call knows at each place) carries the rest. The assumptions are
those in `RawCache`: `Fetches` is finite, the names are distinct.

`RawCacheRefinement`: `Implementation`, `Spec => ReadersSeeSnapshots`. The mapping hides
what is in a directory before it is published; each action is a publication, a
removal of one file, a taking away, a bringing back, or a stutter.

`DatasetBuildProofs`, for any number of builds, snapshots and pages:

* `TypeCorrect`; `DatasetsAreImmutable` (`Spec => PublishedDatasetsStay`), with every
  fault and a raw cache that changes;
* `DatasetNumbersAreUnique`, from the fact that a build at or past the writing has
  passed `NoDuplicates` over what it has read;
* `DatasetCountsMatchManifest`, with every fault and a cache that is refreshed at any step:
  a build past its second read of the manifest holds one that was published, and at the
  writing it has passed `CrossCheck` against it (`CountsAreSettled`);
* `DatasetLineageIsTrue`, under `~RawChanges`: then every file a build opens is one
  of the snapshot that was live when it began. `dataset_torn` shows that the
  hypothesis is needed;
* `OverlappingBuildsEndInOrder`, under `~RawChanges`, `~DiskErrors`, `~Stops`: on a sound
  snapshot a build takes no exit but those the other builds cause (`GoesAsFarAsItShould`), a
  build that lost the race has a winner, and staging directories are only where one is cleaned up.

`IssueListingProofs`, for repositories and pages of any size, any number of retries, any
backoff and any Retry-After values:

* `TypeCorrect` and `PatienceIsAlwaysBounded`. The invariant `Cost` ties the two histories to
  `attempt`: one request turned down for each attempt made, one more once the listing has
  ended, and no more sleep than attempts times `MaxWait`. Assumed: `Cap =< MaxWait`, as in
  the code (30 and 60);
* `OverlooksAreAlwaysDeletions`, `RepeatsAreAlwaysOpenings`. In the middle of a listing neither
  is inductive, since what was overlooked shows only at its end. `Counted` bounds what lies
  before the next page's boundary: the issues there that were not received by the deletions,
  those beyond it that were by the openings. A deletion moves at most one issue over a
  boundary towards the pages that were read, an opening at most one away from them.

`ReviewLoopProofs`, for any number of scoring and feedback requests on their way at a
time, any bundles and predictions, restarts and failing commits:

* `SuccessIsAlwaysStored`. The invariant is `Shape` (what a feedback request has come to)
  and `Honest`: the server says "created" only of an event it has stored, a success is heard
  only of that, and the success the page shows is one that was heard. A late answer is of a
  request that was not heard of, hence never of the one that is shown;
* `PicksAreAlwaysOverShown`, `EventsAlwaysMatchTheirPrediction`, from `Consistent`: every
  review is about a scoring that was answered (`IsAbout`), and what the server has said of it
  agrees with its own checks under the bundle it ran with (`Judged`);
* `RefusalsAreOnlyOfTheOutdated`, from `Acceptable`: a review's labels are without repetition and of
  the label order of the bundle that predicted (`Sound`), so that of the server's checks only
  those of title and artifacts can fail (`Refusable`). What `labelsInOrder` returns is the lemma
  about `Among`. Assumed, as `model_dataset/models.py:269` enforces: no label map has a label twice;
* `ScoredIsReviewable`, from `Crossing`, and `EventsDescribeTheScoredIssue`, from `Titled`, without any
  assumption on the maintainer: a review that is awaited or shown (`LiveReviews`) is of every score that is
  awaited or shown (`LiveScores`), or has crossed it; and a live score is of the issue in the form, or an
  edit has left it. What sends nothing keeps both (`Quiet`); `ScoreIssue` leaves no live review
  but those it crosses, and a decision no live score but the one on the page and those it crosses
  (`ScoreIssueLives`, `DecisionLives`);
* `NoSecondReviewWithoutFailure`, under `~Hasty`: `Patient` says that at most one request is on its
  way, that it is the page's, and that the panel is settled only by a review of what it shows. Under
  a hasty maintainer, the failure of an earlier result's review clears the loading flag that the review of
  this one has set, and the panel lets it be sent again.

`CurationProofs`, for any datasets, policies, cutoffs, similarities and numbers of neighbours,
whatever `Alter` and `AlterRetrieval` have done to a directory:

* `TargetsAreAlwaysInUse`: the decisions of a policy are those of the current configuration and passed
  `Selectable` (`Decided`);
* `ThereIsNoLookAhead`: a directory at a stage in `Held` was accepted by `AgainstInputs`; as many records
  as issues, none twice and each an issue's, are all of them (`EveryIssueHasARecord`);
* `UsedIsAlwaysDerived`: the records that were accepted are sorted without repetition, and there is
  one such list (`SortedIsUnique`); after n records the validator's scan holds the statistics of the
  first n (`UpTo`, `ReadOn`, `ScanIsUpTo`), by induction on n, so that what it compares the report
  with is what the builder's own statistics give, histogram, time range and all (`UpToTheEnd`);
* `TargetsAlwaysCarryOver`: from that, and since records and issues correspond one to one
  (`OneRecordEach`), the policy's counts over issues are the report's counts over records;
  the support of every split was checked before anything was written (`Split`);
* `RefusalsAreAlwaysExplained`: the audit's pass over the issues holds, after n of them, the counts, months
  and times of the first n (`Counted`, `CountedOn`, `AllAreCounted`), so the audit agrees with
  itself and with what the policy counts again (`AuditCounts`); a policy agrees with itself
  (`PolicyIsConsistent`), which leaves only the criteria (`PolicyRefusalIsExplained`); what is staged
  is what its validator expects, but for the warnings: without any it takes `FallbackThreshold` for the
  threshold and may then expect some (`WarningsAgree`, `StagedRefusalIsExplained`). `Explained` carries
  this along the commands;
* `NeighborsAreAlwaysTheNearest`: what was accepted agrees with a new search by id and rank
  over the training split (`AcceptedRows`, `Trained`), whatever the corpus beside it has become
  (`WithoutOne` and `WithOneMore` for the shapes of an altered one); a new search finds the nearest
  (`NearestFound`, from the lemmas on ranks in sorted lists). What the server sorts is the corpus it
  has loaded (`ServedIsFound`); it loads none but that of the fingerprint, which is the training
  split (`LoadedCorpus`, `TrainedIsCorpus`). Of an index the server refuses the theorem says only what is
  stored in it;

Its invariant is `IInv`: `Decided`, `Split` and `Indexed` say what was checked of the policy, the
directory and the index at each stage. Assumed (`CurationAssumption`), as the code's models
enforce: the counts a configuration asks for are positive, its entries decide for or against a
label, the validation cutoff is before the test cutoff, times, similarities and thresholds are numbers.

`TrainingProofs`, for any candidates, scores, grids and configurations, whatever `Alter` has changed in
an artifact:

* `RefusalsAreOnlyOfTies`: keys are ordered by the first number that differs (`KeysAreOrdered`), so among
  candidates with different keys one is first (`BestIsFirst`). The audit takes zero for undefined; over a
  validation split that changes no comparison (`AuditOrdersAlike`), since there the average precision
  is defined and a micro F1 is undefined or positive (`MicroMeans`). Hence the audit's choice and the
  selection's differ only with equal metrics (`DisagreementIsATie`). What the two policy builders make is
  accepted (`PoliciesAreAccepted`, `AbstentionsAreAccepted`);
* `ReusedDecisionsAlwaysFollow`: no metrics beat those of the audit's choice
  (`NothingBeatsTheAudited`), and an altered baseline still has the records of its split
  (`AlteredBaselinesRemain`), so its metrics are such as the lemma needs;
* `PerfectIsWithoutMistake`, from the arithmetic of the metrics (`MetricsAreSound`): a sum is largest if every
  summand is (`TotalsCompare`), an average is one if every value is, a harmonic mean if both
  sides are;
* `AbstainingOnlyDrops` (that the classification is the threshold policy's only for grids of one
  denominator; with two the code may take another, section 3): rows that are kept are an injective choice of the rows there are
  (`RowsAreListed`), so errors are not counted twice (`FewerRowsFewerErrors`); a confidence that reaches
  the lowest bound is in one bin (`OneBin`), and the sizes of the parts add up (`PartsAddUp`);
* `ServedIsAlwaysAsSelected` (that labels and abstentions are the reported ones only for grids in the
  server's unit; that answers are valid for any): an answer's labels are the row's predictions (`AnswerIs`, with
  `HighestFirstLists` for their order), so labels and abstentions of a split are those of the
  confidence table (`AnswersAre`, `LabelsAreMeasured`).

Its invariant is `IInv`: at each stage, that the artifacts are what their builders make of one
another (`BaselineTrained`, `PolicySelected`, `AbstentionSelected`), that altered ones keep the split's
records or a row of the sweep (`RecordsRemain`, `AbstentionSwept`), that those used again were
validated, and what the server answers (`AnswersFor`). `RefusedOnlyOnTies` is a conjunct of it.
Assumed (`TrainingAssumption`): a split has records and labels, a target and every candidate's score for each,
the same number of labels in both; there is a candidate, with numbers for its id and n-gram; grids
are of whole numbers; every label has a positive in the validation split, which
`model_dataset/splitter.py:29` enforces with the supports of `config.py:29`; and `Scale` is at
least the number of decisions in a split, else one mistake could round to none.

`ArtifactChainProofs`, for any number of commands, any store to begin with and every fault:

* `LineageIsAlwaysClosed` (for what these commands build, and its direct inputs),
  `EveryRequestIsAnswered`, `Invariant`. The invariant is
  `Types`, the shape of what is asked for and stored (`WellMade`, `Asked`), that a command
  past `LoadInputs` still has its inputs accepted, and the two properties. The store only
  grows (`Grows`), so what was accepted stays accepted until `Rename`; and a racing build
  of the same id has published the same inputs and configuration, since an id is what it
  hashes. The one case by case argument is that ids of two requests agree only if what
  they hash does (with `Front` for the reference threshold).
* `BundlesAreAlwaysOneChain`: every id in the store derives from ids in it (`Descent`), so that going
  up seven links from a compatible bundle (`Ancestry`) meets one artifact of each kind. The
  five parts of the bundle are sound; their ancestors are there under their ids, which the
  loader does not look at, and may be damaged. That they are there rests on
  `GivenWasBuilt`: the store to begin with has nothing whose inputs are missing;
* `LitterIsAlwaysExplained`, an action property: by the places `Stop` and `DiskError`
  leave from.

Its assumptions, all checked by TLC on the instance: the stores to begin with were built
by earlier commands and none of these (`GivenAssumption`, `GivenWasBuilt`), a stored threshold policy names one
baseline, an audit has no configuration. They say nothing of whether the stored artifacts are sound.

How far the prover reaches. Induction over data is done without the library's induction
theorems, whose operator parameters the provers cannot instantiate: a set of numbers that is not
all of them has a least one missing (`FirstMissing`, `Numbers`, from `WFMin`). What the
prover cannot look into are `SelectSeq`, `SortSeq` and the folds of the community modules; where a theorem depends
on such a list, the model defines it as a recursive function (`Among`, `Ancestry`, `ScanRecords`, `Analyze`,
`Total`, `RowsOf`) or by ranks (`SortedBy`, `HighestFirst`), which TLC evaluates to the same.

Model-checked only:

* all liveness (`EveryCallEnds`, `ListingEnds`, `BuildEnds`, `LoadingEnds`): the prover has
  no reasoning about `ENABLED`.

## 5. What is not modelled, and the plan

Not modelled: the command line (parsing and printing, no state); the deployment scripts
and compose files; scikit-learn's training, TF-IDF and floating-point arithmetic; the
formatting of reports; the warnings of the audit (`audit/policy.py`), its text lengths and
percentiles; the text representation of issues; the loading of configuration files but
for what of them decides; the issue number, the note and the health poll of the page.
Of the feedback API, checks of id formats and lengths that hold for every request the
page builds.

What is left: every invariant and every action property of a passing run is now a theorem, the
four liveness properties stay with TLC. Two steps would say more. `Curation` could carry the warnings of a staged
dataset, and `RefusalsAreAlwaysExplained` say which. `Training` and `Curation` prove what one
command computes and `ArtifactChain` how commands meet; a refinement between them would join the two sides.
