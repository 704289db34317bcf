------------------------------ MODULE RawCache ------------------------------
(***************************************************************************)
(* The raw issue cache of one repository: fetch_repository_issues and      *)
(* publish_staging_directory of src/repotriage/github/ingestion.py.        *)
(*                                                                         *)
(* Each member of Fetches is one call of fetch_repository_issues ("repo-   *)
(* triage fetch-issues", with or without --refresh).  Calls share nothing  *)
(* but the directory tree under the output root, and they may overlap: the *)
(* code takes no lock, and gives every call a staging directory and a      *)
(* backup path of its own (mkdtemp, secrets.token_hex).                    *)
(*                                                                         *)
(* A directory keeps its identity when it is renamed, so it is named by    *)
(* the call that made it; Seed is one that an earlier, finished call left. *)
(* What a path holds is a directory or None:                               *)
(*    live        the live cache path, output_root/slug                    *)
(*    backup[f]   the path create_backup_path chose for call f             *)
(*    staged      the directories that are at their own staging path       *)
(* The content of a directory is a set of numbers: 0 is manifest.json and  *)
(* k > 0 is pages/page_000k.json.  (The "pages" subdirectory goes with the *)
(* last of its files.)  pages[d] is the pages_fetched of the manifest.     *)
(***************************************************************************)
EXTENDS Integers, FiniteSets

CONSTANTS
    Fetches,     \* the calls of fetch_repository_issues
    Seed,        \* the directory an earlier call may have left at the live path
    None,        \* no directory
    Requests,    \* what a manifest is compared on: repository, api version,
                 \* request parameters and max_pages, taken together
    MaxPages,    \* bound: pages a call receives at most
    Overlap,     \* may two calls run at the same time?
    DiskErrors,  \* may a file-system call raise OSError?
    Interrupts,  \* may KeyboardInterrupt or SystemExit arrive between two steps?
    Crashes      \* may a call's process be killed?

ASSUME DirectoryNames == Seed \notin Fetches /\ None \notin Fetches /\ Seed # None
ASSUME PageBound == MaxPages \in Nat
ASSUME Environment ==
    /\ Overlap \in BOOLEAN /\ DiskErrors \in BOOLEAN
    /\ Interrupts \in BOOLEAN /\ Crashes \in BOOLEAN
ASSUME FetchesAreFinite == IsFiniteSet(Fetches)

VARIABLES
    pc,        \* where each call is
    why,       \* how a call that is unwinding will end
    refresh,   \* the call's --refresh flag
    request,   \* the request a call was made with; of a directory, its manifest's
    live, backup, staged,
    files,     \* what each directory contains
    pages,     \* pages_fetched of each directory
    mark,      \* created_backup and backup_moved of publish_staging_directory
    target,    \* the directory a rollback's rmtree has opened and not removed
    listed,    \* what a call's rmtree has listed and not unlinked itself
    seen,      \* the directory whose manifest a cache-hit check has read
    checked,   \* output files a cache-hit check has found so far
    published  \* history: directories that have ever been at the live path

vars == <<pc, why, refresh, request, live, backup, staged, files, pages,
          mark, target, listed, seen, checked, published>>

hitVars == <<seen, checked>>
callVars == <<refresh, request>>

Dirs == Fetches \cup {Seed}

(* How a call ends: "ok" and "hit" return a FetchResult, the others raise.  *)
Raised == {"conflict", "corrupt", "error", "interrupted", "recovery"}
Ended == {"ok", "hit", "killed"} \cup Raised

(* The places at which a call that has not ended can be. *)
Rollback == {"rollback", "open_live", "destroy", "restore", "restored"}
Publish == {"choose", "look", "move_out", "flag", "move_in", "published"} \cup Rollback
Running == {"peek", "check", "staging", "client", "pages", "rm_backup", "cleanup"}
              \cup Publish

Complete(d) == files[d] = 0 .. pages[d]

Exists(path) == path # None

(* rename(2) of a directory succeeds if the target path holds nothing, or   *)
(* an empty directory, which it replaces.                                   *)
CanRenameOnto(path) == path = None \/ files[path] = {}

Init ==
    /\ pc = [f \in Fetches |-> "idle"]
    /\ why = [f \in Fetches |-> "ok"]
    /\ refresh = [f \in Fetches |-> FALSE]
    /\ request \in {[d \in Dirs |-> r] : r \in Requests}
    /\ live \in {None, Seed}
    /\ backup = [f \in Fetches |-> None]
    /\ staged = {}
    /\ pages \in {[d \in Dirs |-> IF d = Seed /\ live = Seed THEN n ELSE 0] : n \in 0 .. MaxPages}
    /\ files = [d \in Dirs |-> IF d = Seed /\ live = Seed THEN 0 .. pages[Seed] ELSE {}]
    /\ mark = [f \in Fetches |-> "none"]
    /\ target = [f \in Fetches |-> None]
    /\ listed = [f \in Fetches |-> {}]
    /\ seen = [f \in Fetches |-> None]
    /\ checked = [f \in Fetches |-> 0]
    /\ published = {live} \ {None}

-----------------------------------------------------------------------------
(* Steps of a call.                                                         *)

Goto(f, place) == pc' = [pc EXCEPT ![f] = place]

At(f, place) == pc[f] = place

(* An exception that call f does not handle itself: the finally clauses of  *)
(* fetch_repository_issues run and the call ends with it.                   *)
Unwind(f, outcome) ==
    /\ why' = [why EXCEPT ![f] = outcome]
    /\ Goto(f, "cleanup")

(* Mutant: the backup_moved flag is not consulted.                          *)
PublishRaisesUnguarded(f, outcome) ==
    IF mark[f] \in {"chosen", "moved"}
    THEN /\ why' = [why EXCEPT ![f] = outcome]
         /\ Goto(f, "rollback")
    ELSE Unwind(f, outcome)

(* Mutant: there is no rollback.                                            *)
PublishRaisesOnly(f, outcome) == Unwind(f, outcome)

(* An exception inside the try of publish_staging_directory.                *)
PublishRaises(f, outcome) ==
    IF mark[f] = "moved" /\ Exists(backup[f])
    THEN /\ why' = [why EXCEPT ![f] = outcome]
         /\ Goto(f, "rollback")
    ELSE Unwind(f, outcome)

(* The call: an existing cache is used unless --refresh is given.           *)
Call(f) ==
    /\ At(f, "idle")
    /\ Overlap \/ \A g \in Fetches : pc[g] \in Ended \cup {"idle"}
    /\ \E r \in Requests, again \in BOOLEAN :
          /\ request' = [request EXCEPT ![f] = r]
          /\ refresh' = [refresh EXCEPT ![f] = again]
          /\ Goto(f, IF ~again /\ Exists(live) THEN "peek" ELSE "staging")
    /\ UNCHANGED <<why, live, backup, staged, files, pages, mark, target, listed, published>>
    /\ UNCHANGED hitVars

(* validate_cache_integrity: the manifest of whatever is live now.          *)
ReadManifest(f) ==
    /\ At(f, "peek")
    /\ IF Exists(live) /\ 0 \in files[live]
       THEN /\ seen' = [seen EXCEPT ![f] = live]
            /\ Goto(f, "check")
       ELSE /\ Goto(f, "corrupt")
            /\ UNCHANGED seen
    /\ UNCHANGED <<why, live, backup, staged, files, pages, mark, target, listed, checked, published>>
    /\ UNCHANGED callVars

(* Each output file the manifest lists is looked up by its path, in the     *)
(* directory that is live at that moment.                                   *)
CheckOutputFile(f) ==
    /\ At(f, "check")
    /\ checked[f] < pages[seen[f]]
    /\ IF Exists(live) /\ checked[f] + 1 \in files[live]
       THEN /\ checked' = [checked EXCEPT ![f] = @ + 1]
            /\ UNCHANGED pc
       ELSE /\ Goto(f, "corrupt")
            /\ UNCHANGED checked
    /\ UNCHANGED <<why, live, backup, staged, files, pages, mark, target, listed, seen, published>>
    /\ UNCHANGED callVars

(* Mutant: any complete cache will do.                                      *)
CompareNothing(f) ==
    /\ At(f, "check")
    /\ checked[f] = pages[seen[f]]
    /\ Goto(f, "hit")
    /\ UNCHANGED <<why, live, backup, staged, files, pages, mark, target, listed, published>>
    /\ UNCHANGED <<callVars, hitVars>>

(* validate_cache: the manifest must match the current request.             *)
CompareRequest(f) ==
    /\ At(f, "check")
    /\ checked[f] = pages[seen[f]]
    /\ Goto(f, IF request[seen[f]] = request[f] THEN "hit" ELSE "conflict")
    /\ UNCHANGED <<why, live, backup, staged, files, pages, mark, target, listed, published>>
    /\ UNCHANGED <<callVars, hitVars>>

(* create_staging_directory.                                                *)
CreateStaging(f) ==
    /\ At(f, "staging")
    /\ staged' = staged \cup {f}
    /\ Goto(f, "client")
    /\ UNCHANGED <<why, live, backup, files, pages, mark, target, listed, published>>
    /\ UNCHANGED <<callVars, hitVars>>

(* GitHubClient(...), between mkdtemp and the try that removes staging.     *)
OpenClient(f) ==
    /\ At(f, "client")
    /\ Goto(f, "pages")
    /\ UNCHANGED <<why, live, backup, staged, files, pages, mark, target, listed, published>>
    /\ UNCHANGED <<callVars, hitVars>>

(* One page arrives and is written with atomic_write_json.                  *)
StorePage(f) ==
    /\ At(f, "pages")
    /\ pages[f] < MaxPages
    /\ pages' = [pages EXCEPT ![f] = @ + 1]
    /\ files' = [files EXCEPT ![f] = @ \cup {pages[f] + 1}]
    /\ UNCHANGED <<pc, why, live, backup, staged, mark, target, listed, published>>
    /\ UNCHANGED <<callVars, hitVars>>

(* Mutant: the manifest is left for later.                                  *)
NoManifestYet(f) ==
    /\ At(f, "pages")
    /\ Goto(f, "choose")
    /\ UNCHANGED <<why, live, backup, staged, files, pages, mark, target, listed, published>>
    /\ UNCHANGED <<callVars, hitVars>>

(* The client has no further page; the manifest is written last.            *)
WriteManifest(f) ==
    /\ At(f, "pages")
    /\ files' = [files EXCEPT ![f] = @ \cup {0}]
    /\ Goto(f, "choose")
    /\ UNCHANGED <<why, live, backup, staged, pages, mark, target, listed, published>>
    /\ UNCHANGED <<callVars, hitVars>>

(* The client gives up, with an error of its own.                           *)
FetchFails(f) ==
    /\ At(f, "pages")
    /\ Unwind(f, "error")
    /\ UNCHANGED <<live, backup, staged, files, pages, mark, target, listed, published>>
    /\ UNCHANGED <<callVars, hitVars>>

-----------------------------------------------------------------------------
(* publish_staging_directory.                                               *)

ChooseBackup(f) ==
    /\ At(f, "choose")
    /\ IF f \in staged
       THEN /\ mark' = [mark EXCEPT ![f] = IF Exists(live) THEN "chosen" ELSE "none"]
            /\ Goto(f, "look")
            /\ UNCHANGED why
       ELSE /\ Unwind(f, "corrupt")
            /\ UNCHANGED mark
    /\ UNCHANGED <<live, backup, staged, files, pages, target, listed, published>>
    /\ UNCHANGED <<callVars, hitVars>>

(* Mutant: a call that finds a cache it did not expect waits for it to go.  *)
LookAgainWaits(f) ==
    /\ At(f, "look")
    /\ \/ /\ ~Exists(live)
          /\ Goto(f, "move_in")
       \/ /\ Exists(live) /\ mark[f] = "chosen"
          /\ Goto(f, "move_out")
    /\ UNCHANGED <<why, live, backup, staged, files, pages, mark, target, listed, published>>
    /\ UNCHANGED <<callVars, hitVars>>

(* The second look at the live path, inside the try.                        *)
LookAgain(f) ==
    /\ At(f, "look")
    /\ \/ /\ ~Exists(live)
          /\ Goto(f, "move_in")
          /\ UNCHANGED why
       \/ /\ Exists(live) /\ mark[f] = "chosen"
          /\ Goto(f, "move_out")
          /\ UNCHANGED why
       \/ /\ Exists(live) /\ mark[f] = "none"
          /\ PublishRaises(f, "corrupt")
    /\ UNCHANGED <<live, backup, staged, files, pages, mark, target, listed, published>>
    /\ UNCHANGED <<callVars, hitVars>>

(* rename_path(cache_dir, created_backup).                                  *)
MoveOut(f) ==
    /\ At(f, "move_out")
    /\ IF Exists(live)
       THEN /\ backup' = [backup EXCEPT ![f] = live]
            /\ live' = None
            /\ Goto(f, "flag")
            /\ UNCHANGED why
       ELSE /\ PublishRaises(f, "error")
            /\ UNCHANGED <<backup, live>>
    /\ UNCHANGED <<staged, files, pages, mark, target, listed, published>>
    /\ UNCHANGED <<callVars, hitVars>>

(* Mutant: the flag is never set.                                           *)
ForgetFlag(f) ==
    /\ At(f, "flag")
    /\ Goto(f, "move_in")
    /\ UNCHANGED <<why, live, backup, staged, files, pages, mark, target, listed, published>>
    /\ UNCHANGED <<callVars, hitVars>>

(* backup_moved = True.                                                     *)
SetFlag(f) ==
    /\ At(f, "flag")
    /\ mark' = [mark EXCEPT ![f] = "moved"]
    /\ Goto(f, "move_in")
    /\ UNCHANGED <<why, live, backup, staged, files, pages, target, listed, published>>
    /\ UNCHANGED <<callVars, hitVars>>

(* rename_path(staging_dir, cache_dir).                                     *)
MoveIn(f) ==
    /\ At(f, "move_in")
    /\ IF CanRenameOnto(live)
       THEN /\ live' = f
            /\ staged' = staged \ {f}
            /\ published' = published \cup {f}
            /\ Goto(f, "published")
            /\ UNCHANGED why
       ELSE /\ PublishRaises(f, "error")
            /\ UNCHANGED <<live, staged, published>>
    /\ UNCHANGED <<backup, files, pages, mark, target, listed>>
    /\ UNCHANGED <<callVars, hitVars>>

(* Mutant: the backup is kept.                                              *)
KeepBackup(f) ==
    /\ At(f, "published")
    /\ mark' = [mark EXCEPT ![f] = "dropped"]
    /\ Goto(f, "ok")
    /\ UNCHANGED <<why, live, backup, staged, files, pages, target, listed, published>>
    /\ UNCHANGED <<callVars, hitVars>>

(* The else clause: the backup is no longer needed, and rmtree lists it.    *)
DropBackup(f) ==
    /\ At(f, "published")
    /\ mark' = [mark EXCEPT ![f] = "dropped"]
    /\ \/ /\ Exists(backup[f])
          /\ listed' = [listed EXCEPT ![f] = files[backup[f]]]
          /\ Goto(f, "rm_backup")
       \/ /\ ~Exists(backup[f])
          /\ Goto(f, "ok")
          /\ UNCHANGED listed
    /\ UNCHANGED <<why, live, backup, staged, files, pages, target, published>>
    /\ UNCHANGED <<callVars, hitVars>>

(* rmtree takes away one entry of directory d.                              *)
UnlinkFrom(f, d) ==
    \E k \in files[d] :
        /\ files' = [files EXCEPT ![d] = @ \ {k}]
        /\ listed' = [listed EXCEPT ![f] = @ \ {k}]

(* shutil.rmtree(created_backup): its files in any order, then itself.      *)
RemoveBackup(f) ==
    /\ At(f, "rm_backup")
    /\ \/ /\ UnlinkFrom(f, backup[f])
          /\ UNCHANGED <<pc, backup>>
       \/ /\ files[backup[f]] = {}
          /\ backup' = [backup EXCEPT ![f] = None]
          /\ Goto(f, "ok")
          /\ UNCHANGED <<files, listed>>
    /\ UNCHANGED <<why, live, staged, pages, mark, target, published>>
    /\ UNCHANGED <<callVars, hitVars>>

-----------------------------------------------------------------------------
(* _rollback_publication.                                                   *)

RollbackLooks(f) ==
    /\ At(f, "rollback")
    /\ Goto(f, IF Exists(live) THEN "open_live" ELSE "restore")
    /\ UNCHANGED <<why, live, backup, staged, files, pages, mark, target, listed, published>>
    /\ UNCHANGED <<callVars, hitVars>>

(* shutil.rmtree(cache_dir) opens the directory and works on what it opened.*)
OpenLive(f) ==
    /\ At(f, "open_live")
    /\ IF Exists(live)
       THEN /\ target' = [target EXCEPT ![f] = live]
            /\ listed' = [listed EXCEPT ![f] = files[live]]
            /\ Goto(f, "destroy")
            /\ UNCHANGED why
       ELSE /\ Unwind(f, "recovery")
            /\ UNCHANGED <<target, listed>>
    /\ UNCHANGED <<live, backup, staged, files, pages, mark, published>>
    /\ UNCHANGED <<callVars, hitVars>>

(* It unlinks what it opened, wherever that is by now.                      *)
Unlink(f) ==
    /\ At(f, "destroy")
    /\ UnlinkFrom(f, target[f])
    /\ UNCHANGED <<pc, why, live, backup, staged, pages, mark, target, published>>
    /\ UNCHANGED <<callVars, hitVars>>

(* Two removals may have one directory open: that of a rollback, and that   *)
(* of a call which has moved this directory aside since, or of a second     *)
(* rollback.  Either may then be told FileNotFoundError for an entry it has *)
(* listed and the other one has taken; or it has listed that part later.    *)
Collided(f, d) == ~(listed[f] \subseteq files[d])

LoseEntry(f) ==
    /\ \/ /\ At(f, "rm_backup") /\ Collided(f, backup[f])
          /\ Unwind(f, "error")
       \/ /\ At(f, "destroy") /\ Collided(f, target[f])
          /\ Unwind(f, "recovery")
    /\ UNCHANGED <<live, backup, staged, files, pages, mark, target, listed, published>>
    /\ UNCHANGED <<callVars, hitVars>>

(* Its last call, rmdir, names the live path: whatever empty directory is   *)
(* there goes.                                                              *)
RemoveLive(f) ==
    /\ At(f, "destroy")
    /\ files[target[f]] = {}
    /\ Exists(live) /\ files[live] = {}
    /\ live' = None
    /\ target' = [target EXCEPT ![f] = None]
    /\ Goto(f, "restore")
    /\ UNCHANGED <<why, backup, staged, files, pages, mark, listed, published>>
    /\ UNCHANGED <<callVars, hitVars>>

(* It fails if there is nothing, or a directory that is not empty.          *)
CannotRemoveLive(f) ==
    /\ At(f, "destroy")
    /\ files[target[f]] = {}
    /\ Exists(live) => files[live] # {}
    /\ Unwind(f, "recovery")
    /\ UNCHANGED <<live, backup, staged, files, pages, mark, target, listed, published>>
    /\ UNCHANGED <<callVars, hitVars>>

(* rename(backup_dir, cache_dir).                                           *)
Restore(f) ==
    /\ At(f, "restore")
    /\ IF CanRenameOnto(live)
       THEN /\ live' = backup[f]
            /\ backup' = [backup EXCEPT ![f] = None]
            /\ Goto(f, "restored")
            /\ UNCHANGED why
       ELSE /\ Unwind(f, "recovery")
            /\ UNCHANGED <<live, backup>>
    /\ UNCHANGED <<staged, files, pages, mark, target, listed, published>>
    /\ UNCHANGED <<callVars, hitVars>>

(* raise publication_error.                                                 *)
Reraise(f) ==
    /\ At(f, "restored")
    /\ Goto(f, "cleanup")
    /\ UNCHANGED <<why, live, backup, staged, files, pages, mark, target, listed, published>>
    /\ UNCHANGED <<callVars, hitVars>>

(* best_effort_remove_tree(staging_dir), then the exception leaves the call.*)
Cleanup(f) ==
    /\ At(f, "cleanup")
    /\ staged' = staged \ {f}
    /\ files' = IF f \in staged THEN [files EXCEPT ![f] = {}] ELSE files
    /\ Goto(f, why[f])
    /\ UNCHANGED <<why, live, backup, pages, mark, target, listed, published>>
    /\ UNCHANGED <<callVars, hitVars>>

-----------------------------------------------------------------------------
(* What may go wrong at any step.                                           *)

(* An exception that arrives at place pc[f] and goes where the try          *)
(* statements around that place send it.                                    *)
Raise(f, outcome) ==
    \/ /\ pc[f] \in {"pages", "choose", "rm_backup"}
       /\ Unwind(f, outcome)
    \/ /\ pc[f] \in {"look", "move_out", "flag", "move_in", "published"}
       /\ PublishRaises(f, outcome)
    \/ /\ pc[f] \in Rollback
       /\ Unwind(f, "recovery")
    \/ /\ pc[f] \in {"rollback", "restored"}  \* just before or just after the try
       /\ Unwind(f, outcome)                 \* of _rollback_publication

(* A file-system call fails.  Outside the try of the call (mkdtemp, reading *)
(* the manifest) it ends the call; best_effort_remove_tree swallows it and  *)
(* leaves the staging directory behind.                                     *)
DiskError(f) ==
    /\ DiskErrors
    /\ \/ /\ pc[f] \in {"pages", "move_out", "move_in", "rm_backup",
                      "open_live", "destroy", "restore"}
          /\ Raise(f, "error")
       \/ /\ At(f, "staging") /\ Goto(f, "error") /\ UNCHANGED why
       \/ /\ At(f, "peek") /\ Goto(f, "corrupt") /\ UNCHANGED why
       \/ /\ At(f, "cleanup") /\ Goto(f, why[f]) /\ UNCHANGED why
    /\ UNCHANGED <<live, backup, staged, files, pages, mark, target, listed, published>>
    /\ UNCHANGED <<callVars, hitVars>>

(* KeyboardInterrupt or SystemExit before the step that pc[f] names.        *)
Interrupt(f) ==
    /\ Interrupts
    /\ \/ Raise(f, "interrupted")
       \/ /\ pc[f] \in {"peek", "check", "staging", "client", "cleanup"}
          /\ Goto(f, "interrupted")
          /\ UNCHANGED why
    /\ UNCHANGED <<live, backup, staged, files, pages, mark, target, listed, published>>
    /\ UNCHANGED <<callVars, hitVars>>

(* SIGKILL or a power cut: nothing runs any more.                           *)
Crash(f) ==
    /\ Crashes
    /\ pc[f] \in Running
    /\ Goto(f, "killed")
    /\ UNCHANGED <<why, live, backup, staged, files, pages, mark, target, listed, published>>
    /\ UNCHANGED <<callVars, hitVars>>

Step(f) ==
    \/ ReadManifest(f) \/ CheckOutputFile(f) \/ CompareRequest(f)
    \/ CreateStaging(f) \/ OpenClient(f) \/ StorePage(f) \/ WriteManifest(f)
    \/ FetchFails(f)
    \/ ChooseBackup(f) \/ LookAgain(f) \/ MoveOut(f) \/ SetFlag(f) \/ MoveIn(f)
    \/ DropBackup(f) \/ RemoveBackup(f)
    \/ RollbackLooks(f) \/ OpenLive(f) \/ Restore(f) \/ Reraise(f)
    \/ Unlink(f) \/ LoseEntry(f) \/ RemoveLive(f) \/ CannotRemoveLive(f)
    \/ Cleanup(f)

Fault(f) == DiskError(f) \/ Interrupt(f) \/ Crash(f)

Next == \E f \in Fetches : Call(f) \/ Step(f) \/ Fault(f)

(* A process that is running is scheduled: each call's own steps are taken. *)
Fairness == \A f \in Fetches : WF_vars(Step(f))

Spec == Init /\ [][Next]_vars

FairSpec == Spec /\ Fairness

-----------------------------------------------------------------------------
(* Properties.                                                              *)

Places == {"idle"} \cup Running \cup Ended

TypeOK ==
    /\ pc \in [Fetches -> Places]
    /\ why \in [Fetches -> {"ok"} \cup Raised]
    /\ refresh \in [Fetches -> BOOLEAN]
    /\ request \in [Dirs -> Requests]
    /\ live \in Dirs \cup {None}
    /\ backup \in [Fetches -> Dirs \cup {None}]
    /\ staged \subseteq Fetches
    /\ files \in [Dirs -> SUBSET (0 .. MaxPages)]
    /\ pages \in [Dirs -> 0 .. MaxPages]
    /\ mark \in [Fetches -> {"none", "chosen", "moved", "dropped"}]
    /\ target \in [Fetches -> Dirs \cup {None}]
    /\ listed \in [Fetches -> SUBSET (0 .. MaxPages)]
    /\ seen \in [Fetches -> Dirs \cup {None}]
    /\ checked \in [Fetches -> 0 .. MaxPages]
    /\ published \subseteq Dirs

(* The calls whose backup path holds a cache that has not been given up:    *)
(* the else clause of publish_staging_directory has not been reached.       *)
Holders == {f \in Fetches : Exists(backup[f]) /\ mark[f] # "dropped"}

(* The directories from which a user can get a cache back: the live one and *)
(* the backups that have not been given up.                                 *)
Reachable == ({live} \ {None}) \cup {backup[f] : f \in Holders}

(* Once a cache has been published, a complete one is always within reach,  *)
(* whatever calls overlap, fail, are interrupted or are killed, and at      *)
(* whatever step: publication moves the old cache aside before the new one  *)
(* is in place and gives it up only afterwards, and a rollback destroys     *)
(* only while it holds a backup.                                            *)
SnapshotSurvives ==
    published # {} => \E d \in Reachable : Complete(d)

Settled == {"idle", "ok", "hit", "conflict", "corrupt", "error"}

(* When every call has ended and none was killed, interrupted or raised     *)
(* CacheRecoveryError, the live cache is complete, if there ever was one:   *)
(* ordinary failures, also of overlapping calls, repair what they disturb.  *)
QuiescentCacheUsable ==
    (/\ published # {}
     /\ \A f \in Fetches : pc[f] \in Settled)
       => Exists(live) /\ Complete(live)

(* A cache hit was a cache that some call published, fetched for the same   *)
(* request; it is not a mixture of two snapshots that a concurrent refresh  *)
(* swapped, since nothing of it but the manifest is returned.               *)
HitMatchesRequest ==
    \A f \in Fetches : pc[f] = "hit" =>
        seen[f] \in published /\ request[seen[f]] = request[f]

(* The backup of call f is one that the rollback of another call has opened *)
(* while it was live and works on still, or one of which nothing is left    *)
(* but the empty directory.                                                 *)
TornByRollback(f) ==
    \/ files[backup[f]] = {}
    \/ \E g \in Fetches \ {f} : target[g] = backup[f]

(* On a disk without faults, with nothing that kills or interrupts a call,  *)
(* a call that ends leaves no staging directory, and no backup but that of  *)
(* which CacheRecoveryError speaks and one that a rollback of another call  *)
(* was removing at the same time: who loses the race for a file gives up.   *)
NoLitter ==
    \A f \in Fetches : pc[f] \in Ended =>
        /\ f \notin staged
        /\ Exists(backup[f]) => pc[f] = "recovery" \/ TornByRollback(f)

(* Whatever the interleaving of renames and removals, a call that was made  *)
(* ends: no step waits for what another call does.                          *)
EveryCallEnds == \A f \in Fetches : (pc[f] \in Running) ~> (pc[f] \in Ended)

-----------------------------------------------------------------------------
(* What a user of the cache may rely on, stated without the calls.          *)

(* A directory as a reader of the live path knows it: nothing of it can be  *)
(* seen before it has been published.                                       *)
ViewFiles == [d \in Dirs |-> IF d \in published THEN files[d] ELSE {}]
ViewPages == [d \in Dirs |-> IF d \in published THEN pages[d] ELSE 0]

Abs == INSTANCE AbsRawCache WITH files <- ViewFiles, pages <- ViewPages

(* Readers never see a snapshot that is still being written: a directory is *)
(* complete when it first gets to the live path, it never gains a file      *)
(* afterwards, and it is never replaced in place while it contains files.   *)
ReadersSeeSnapshots == Abs!Spec

-----------------------------------------------------------------------------
(* The inductive invariant behind SnapshotSurvives.                         *)

(* Directories within reach that are not, or may soon not be, complete.     *)
Damaged == {d \in Reachable : ~Complete(d) \/ \E f \in Fetches : target[f] = d}

(* Calls that hold a backup and have begun to remove a live directory, and  *)
(* calls that hold one and have not begun, or are through with it.          *)
Debtors == {f \in Holders : target[f] # None}
Waiters == {f \in Holders : target[f] = None /\ pc[f] # "published"}

(* Every damaged directory is paid for by a call that still holds a backup; *)
(* while nothing is live, some call that has damaged nothing holds one.     *)
DamageIsCovered == Cardinality(Damaged) <= Cardinality(Debtors)
AbsenceIsCovered == published # {} /\ ~Exists(live) => Waiters # {}

(* No directory is at two paths, and all that are at a shared path, or are  *)
(* being removed from one, have been published.                             *)
PathsAreDisjoint ==
    /\ Exists(live) => live \in published
    /\ \A f \in Fetches :
          /\ Exists(backup[f]) => backup[f] \in published /\ backup[f] # live
          /\ target[f] # None => target[f] \in published
          /\ f \in staged => f \notin published
          /\ \A g \in Fetches : f # g /\ Exists(backup[f]) => backup[f] # backup[g]

BeforeManifest == {"idle", "peek", "check", "staging", "client", "pages"}
BeforeMoveIn == {"choose", "look", "move_out", "flag", "move_in"}

(* What call f knows at each place.                                         *)
CallKnows(f) ==
    /\ pc[f] \in BeforeManifest =>
          f \notin published /\ files[f] = 1 .. pages[f] /\ mark[f] = "none" /\ backup[f] = None
    /\ pc[f] \in BeforeMoveIn =>
          f \notin published /\ Complete(f) /\ mark[f] \in {"none", "chosen", "moved"}
    /\ pc[f] \in BeforeMoveIn \cup BeforeManifest \cup {"published", "rm_backup"} =>
          target[f] = None
    /\ pc[f] \in {"choose", "look", "move_out"} => backup[f] = None /\ mark[f] # "moved"
    /\ pc[f] = "move_out" => mark[f] = "chosen"
    /\ pc[f] = "flag" => Exists(backup[f]) /\ mark[f] = "chosen"
    /\ pc[f] \in {"move_in", "published"} =>
          mark[f] # "dropped" /\ (mark[f] # "moved" => backup[f] = None)
    /\ pc[f] \in Rollback =>
          /\ mark[f] = "moved"
          /\ Exists(backup[f]) <=> pc[f] # "restored"
          /\ target[f] # None <=> pc[f] = "destroy"
    /\ pc[f] = "rm_backup" => mark[f] = "dropped" /\ Exists(backup[f])
    /\ pc[f] = "check" => seen[f] # None
    /\ pc[f] \in Settled \/ (pc[f] = "cleanup" /\ why[f] \in Settled) => f \notin Holders

Known == TypeOK /\ PathsAreDisjoint /\ \A f \in Fetches : CallKnows(f)

IInv ==
    /\ Known
    /\ DamageIsCovered
    /\ AbsenceIsCovered
=============================================================================
