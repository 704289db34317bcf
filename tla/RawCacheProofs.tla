--------------------------- MODULE RawCacheProofs ---------------------------
(***************************************************************************)
(* Proofs about RawCache, for every set of calls, every bound on the pages *)
(* and every combination of overlap, errors, interrupts and crashes.       *)
(*                                                                         *)
(* The argument is one of counting.  A rollback removes the live directory *)
(* only while the call that runs it holds a backup, so the directories     *)
(* that are damaged can be paid for, one by one, with calls that hold one  *)
(* (DamageIsCovered).  Reachable is the held backups and the live cache:   *)
(* if every directory in it were damaged there would be no live cache and  *)
(* every holder would have damaged something, which AbsenceIsCovered       *)
(* excludes.                                                               *)
(***************************************************************************)
EXTENDS RawCache, FiniteSetTheorems, TLAPS

-----------------------------------------------------------------------------
(* Each conjunct of the inductive invariant is preserved by every step.     *)

LEMMA TypeStep ==
    ASSUME TypeOK, \A f \in Fetches : pc[f] = "check" => seen[f] # None, [Next]_vars
    PROVE  TypeOK'
<1> USE DirectoryNames, PageBound
<1> USE DEF TypeOK, Places, Running, Publish, Rollback, Ended, Raised, Dirs, Goto, At, Exists,
            callVars, hitVars
<1>1. ASSUME NEW f \in Fetches, Call(f) PROVE TypeOK'
  BY <1>1 DEF Call
<1>2. ASSUME NEW f \in Fetches, ReadManifest(f) PROVE TypeOK'
  BY <1>2 DEF ReadManifest
<1>3. ASSUME NEW f \in Fetches, CheckOutputFile(f) PROVE TypeOK'
  BY <1>3 DEF CheckOutputFile
<1>4. ASSUME NEW f \in Fetches, CompareRequest(f) PROVE TypeOK'
  BY <1>4 DEF CompareRequest
<1>5. ASSUME NEW f \in Fetches, CreateStaging(f) PROVE TypeOK'
  BY <1>5 DEF CreateStaging
<1>6. ASSUME NEW f \in Fetches, OpenClient(f) PROVE TypeOK'
  BY <1>6 DEF OpenClient
<1>7. ASSUME NEW f \in Fetches, StorePage(f) PROVE TypeOK'
  BY <1>7 DEF StorePage
<1>8. ASSUME NEW f \in Fetches, WriteManifest(f) PROVE TypeOK'
  BY <1>8 DEF WriteManifest
<1>9. ASSUME NEW f \in Fetches, FetchFails(f) PROVE TypeOK'
  BY <1>9 DEF FetchFails, Unwind
<1>10. ASSUME NEW f \in Fetches, ChooseBackup(f) PROVE TypeOK'
  BY <1>10 DEF ChooseBackup, Unwind
<1>11. ASSUME NEW f \in Fetches, LookAgain(f) PROVE TypeOK'
  BY <1>11 DEF LookAgain, PublishRaises, Unwind
<1>12. ASSUME NEW f \in Fetches, MoveOut(f) PROVE TypeOK'
  BY <1>12 DEF MoveOut, PublishRaises, Unwind
<1>13. ASSUME NEW f \in Fetches, SetFlag(f) PROVE TypeOK'
  BY <1>13 DEF SetFlag
<1>14. ASSUME NEW f \in Fetches, MoveIn(f) PROVE TypeOK'
  BY <1>14 DEF MoveIn, PublishRaises, Unwind, CanRenameOnto
<1>15. ASSUME NEW f \in Fetches, DropBackup(f) PROVE TypeOK'
  BY <1>15 DEF DropBackup
<1>16. ASSUME NEW f \in Fetches, RemoveBackup(f) PROVE TypeOK'
  BY <1>16 DEF RemoveBackup, UnlinkFrom
<1>17. ASSUME NEW f \in Fetches, RollbackLooks(f) PROVE TypeOK'
  BY <1>17 DEF RollbackLooks
<1>18. ASSUME NEW f \in Fetches, OpenLive(f) PROVE TypeOK'
  BY <1>18 DEF OpenLive, Unwind
<1>19. ASSUME NEW f \in Fetches, Unlink(f) PROVE TypeOK'
  <2>1. PICK k \in files[target[f]] : files' = [files EXCEPT ![target[f]] = @ \ {k}]
    BY <1>19 DEF Unlink, UnlinkFrom
  <2>2. files' \in [Dirs -> SUBSET (0 .. MaxPages)]
    BY <2>1
  <2>. QED
    BY <1>19, <2>2 DEF Unlink, UnlinkFrom
<1>lose. ASSUME NEW f \in Fetches, LoseEntry(f) PROVE TypeOK'
  BY <1>lose DEF LoseEntry, Unwind
<1>20. ASSUME NEW f \in Fetches, RemoveLive(f) PROVE TypeOK'
  BY <1>20 DEF RemoveLive
<1>21. ASSUME NEW f \in Fetches, CannotRemoveLive(f) PROVE TypeOK'
  BY <1>21 DEF CannotRemoveLive, Unwind
<1>22. ASSUME NEW f \in Fetches, Restore(f) PROVE TypeOK'
  BY <1>22 DEF Restore, Unwind, CanRenameOnto
<1>23. ASSUME NEW f \in Fetches, Reraise(f) PROVE TypeOK'
  BY <1>23 DEF Reraise
<1>24. ASSUME NEW f \in Fetches, Cleanup(f) PROVE TypeOK'
  BY <1>24 DEF Cleanup
<1>25. ASSUME NEW f \in Fetches, DiskError(f) PROVE TypeOK'
  BY <1>25 DEF DiskError, Raise, PublishRaises, Unwind
<1>26. ASSUME NEW f \in Fetches, Interrupt(f) PROVE TypeOK'
  BY <1>26 DEF Interrupt, Raise, PublishRaises, Unwind
<1>27. ASSUME NEW f \in Fetches, Crash(f) PROVE TypeOK'
  BY <1>27 DEF Crash
<1>28. CASE UNCHANGED vars
  BY <1>28 DEF vars
<1>29. QED
  BY <1>1, <1>2, <1>3, <1>4, <1>5, <1>6, <1>7, <1>8, <1>9, <1>10, <1>11, <1>12, <1>13, <1>14,
     <1>15, <1>16, <1>17, <1>18, <1>19, <1>20, <1>21, <1>22, <1>23, <1>24, <1>25, <1>26,
     <1>27, <1>28, <1>lose DEF Next, Step, Fault

LEMMA PathsStep ==
    ASSUME Known, [Next]_vars
    PROVE  PathsAreDisjoint'
<1> USE DirectoryNames
<1> USE DEF PathsAreDisjoint, Dirs, Goto, At, Exists, callVars, hitVars
<1>1. ASSUME NEW f \in Fetches, Call(f) PROVE PathsAreDisjoint'
  BY <1>1 DEF Call, Known, TypeOK, CallKnows, BeforeManifest, BeforeMoveIn, Rollback
<1>2. ASSUME NEW f \in Fetches, ReadManifest(f) PROVE PathsAreDisjoint'
  BY <1>2 DEF ReadManifest, Known, TypeOK, CallKnows, BeforeManifest, BeforeMoveIn, Rollback
<1>3. ASSUME NEW f \in Fetches, CheckOutputFile(f) PROVE PathsAreDisjoint'
  BY <1>3 DEF CheckOutputFile, Known, TypeOK, CallKnows, BeforeManifest, BeforeMoveIn, Rollback
<1>4. ASSUME NEW f \in Fetches, CompareRequest(f) PROVE PathsAreDisjoint'
  BY <1>4 DEF CompareRequest, Known, TypeOK, CallKnows, BeforeManifest, BeforeMoveIn, Rollback
<1>5. ASSUME NEW f \in Fetches, CreateStaging(f) PROVE PathsAreDisjoint'
  BY <1>5 DEF CreateStaging, Known, TypeOK, CallKnows, BeforeManifest, BeforeMoveIn, Rollback
<1>6. ASSUME NEW f \in Fetches, OpenClient(f) PROVE PathsAreDisjoint'
  BY <1>6 DEF OpenClient, Known, TypeOK, CallKnows, BeforeManifest, BeforeMoveIn, Rollback
<1>7. ASSUME NEW f \in Fetches, StorePage(f) PROVE PathsAreDisjoint'
  BY <1>7 DEF StorePage, Known, TypeOK, CallKnows, BeforeManifest, BeforeMoveIn, Rollback
<1>8. ASSUME NEW f \in Fetches, WriteManifest(f) PROVE PathsAreDisjoint'
  BY <1>8 DEF WriteManifest, Known, TypeOK, CallKnows, BeforeManifest, BeforeMoveIn, Rollback
<1>9. ASSUME NEW f \in Fetches, FetchFails(f) PROVE PathsAreDisjoint'
  BY <1>9 DEF FetchFails, Unwind, Known, TypeOK, CallKnows, BeforeManifest, BeforeMoveIn, Rollback
<1>10. ASSUME NEW f \in Fetches, ChooseBackup(f) PROVE PathsAreDisjoint'
  BY <1>10 DEF ChooseBackup, Unwind, Known, TypeOK, CallKnows, BeforeManifest, BeforeMoveIn,
     Rollback
<1>11. ASSUME NEW f \in Fetches, LookAgain(f) PROVE PathsAreDisjoint'
  BY <1>11 DEF LookAgain, PublishRaises, Unwind, Known, TypeOK, CallKnows, BeforeManifest,
     BeforeMoveIn, Rollback
<1>12. ASSUME NEW f \in Fetches, MoveOut(f) PROVE PathsAreDisjoint'
  <2>1. backup \in [Fetches -> Dirs \cup {None}]
    BY DEF Known, TypeOK
  <2>2. UNCHANGED <<target, staged, published>>
    BY <1>12 DEF MoveOut
  <2>3. \/ UNCHANGED <<live, backup>>
        \/ live # None /\ live' = None /\ backup' = [backup EXCEPT ![f] = live]
    BY <1>12 DEF MoveOut
  <2>. QED
    BY <2>1, <2>2, <2>3 DEF Known
<1>13. ASSUME NEW f \in Fetches, SetFlag(f) PROVE PathsAreDisjoint'
  BY <1>13 DEF SetFlag, Known, TypeOK, CallKnows, BeforeManifest, BeforeMoveIn, Rollback
<1>14. ASSUME NEW f \in Fetches, MoveIn(f) PROVE PathsAreDisjoint'
  BY <1>14 DEF MoveIn, PublishRaises, Unwind, CanRenameOnto, Known, TypeOK, CallKnows,
     BeforeManifest, BeforeMoveIn, Rollback
<1>15. ASSUME NEW f \in Fetches, DropBackup(f) PROVE PathsAreDisjoint'
  BY <1>15 DEF DropBackup, Known, TypeOK, CallKnows, BeforeManifest, BeforeMoveIn, Rollback
<1>16. ASSUME NEW f \in Fetches, RemoveBackup(f) PROVE PathsAreDisjoint'
  <2>1. backup \in [Fetches -> Dirs \cup {None}]
    BY DEF Known, TypeOK
  <2>2. UNCHANGED <<live, target, staged, published>>
    BY <1>16 DEF RemoveBackup
  <2>3. backup' = backup \/ backup' = [backup EXCEPT ![f] = None]
    BY <1>16 DEF RemoveBackup
  <2>. QED
    BY <2>1, <2>2, <2>3 DEF Known
<1>17. ASSUME NEW f \in Fetches, RollbackLooks(f) PROVE PathsAreDisjoint'
  BY <1>17 DEF RollbackLooks, Known, TypeOK, CallKnows, BeforeManifest, BeforeMoveIn, Rollback
<1>18. ASSUME NEW f \in Fetches, OpenLive(f) PROVE PathsAreDisjoint'
  <2>1. target \in [Fetches -> Dirs \cup {None}] /\ (live # None => live \in published)
    BY DEF Known, TypeOK
  <2>2. UNCHANGED <<live, backup, staged, published>>
    BY <1>18 DEF OpenLive
  <2>3. \A g \in Fetches : target'[g] = target[g] \/ (live # None /\ target'[g] = live)
    BY <1>18, <2>1 DEF OpenLive
  <2>. QED
    BY <2>1, <2>2, <2>3 DEF Known
<1>19. ASSUME NEW f \in Fetches, Unlink(f) PROVE PathsAreDisjoint'
  BY <1>19 DEF Unlink, UnlinkFrom, Known, TypeOK, CallKnows, BeforeManifest, BeforeMoveIn, Rollback
<1>lose. ASSUME NEW f \in Fetches, LoseEntry(f) PROVE PathsAreDisjoint'
  BY <1>lose DEF LoseEntry, Known
<1>20. ASSUME NEW f \in Fetches, RemoveLive(f) PROVE PathsAreDisjoint'
  BY <1>20 DEF RemoveLive, Known, TypeOK, CallKnows, BeforeManifest, BeforeMoveIn, Rollback
<1>21. ASSUME NEW f \in Fetches, CannotRemoveLive(f) PROVE PathsAreDisjoint'
  BY <1>21 DEF CannotRemoveLive, Unwind, Known, TypeOK, CallKnows, BeforeManifest,
     BeforeMoveIn, Rollback
<1>22. ASSUME NEW f \in Fetches, Restore(f) PROVE PathsAreDisjoint'
  <2>1. backup \in [Fetches -> Dirs \cup {None}]
    BY DEF Known, TypeOK
  <2>2. UNCHANGED <<target, staged, published>>
    BY <1>22 DEF Restore
  <2>3. \/ UNCHANGED <<live, backup>>
        \/ live' = backup[f] /\ backup' = [backup EXCEPT ![f] = None]
    BY <1>22 DEF Restore
  <2>. QED
    BY <2>1, <2>2, <2>3 DEF Known
<1>23. ASSUME NEW f \in Fetches, Reraise(f) PROVE PathsAreDisjoint'
  BY <1>23 DEF Reraise, Known, TypeOK, CallKnows, BeforeManifest, BeforeMoveIn, Rollback
<1>24. ASSUME NEW f \in Fetches, Cleanup(f) PROVE PathsAreDisjoint'
  BY <1>24 DEF Cleanup, Known, TypeOK, CallKnows, BeforeManifest, BeforeMoveIn, Rollback
<1>25. ASSUME NEW f \in Fetches, DiskError(f) PROVE PathsAreDisjoint'
  BY <1>25 DEF DiskError, Raise, PublishRaises, Unwind, Known, TypeOK, CallKnows,
     BeforeManifest, BeforeMoveIn, Rollback
<1>26. ASSUME NEW f \in Fetches, Interrupt(f) PROVE PathsAreDisjoint'
  BY <1>26 DEF Interrupt, Raise, PublishRaises, Unwind, Known, TypeOK, CallKnows,
     BeforeManifest, BeforeMoveIn, Rollback
<1>27. ASSUME NEW f \in Fetches, Crash(f) PROVE PathsAreDisjoint'
  BY <1>27 DEF Crash, Known, TypeOK, CallKnows, BeforeManifest, BeforeMoveIn, Rollback
<1>28. CASE UNCHANGED vars
  BY <1>28 DEF vars, Known
<1>29. QED
  BY <1>1, <1>2, <1>3, <1>4, <1>5, <1>6, <1>7, <1>8, <1>9, <1>10, <1>11, <1>12, <1>13, <1>14,
     <1>15, <1>16, <1>17, <1>18, <1>19, <1>20, <1>21, <1>22, <1>23, <1>24, <1>25, <1>26,
     <1>27, <1>28, <1>lose DEF Next, Step, Fault

LEMMA KnowsStep ==
    ASSUME Known, [Next]_vars, NEW g \in Fetches
    PROVE  CallKnows(g)'
<1> USE DirectoryNames, PageBound
<1> USE DEF CallKnows, Running, Publish, Rollback, Ended, Raised, Dirs, Goto, At, Exists, Complete,
            BeforeManifest, BeforeMoveIn, Settled, Holders, callVars, hitVars
<1>0. /\ pc \in [Fetches -> Places] /\ why \in [Fetches -> {"ok"} \cup Raised]
      /\ backup \in [Fetches -> Dirs \cup {None}] /\ files \in [Dirs -> SUBSET (0 .. MaxPages)]
      /\ g \in Dirs /\ CallKnows(g)
  BY DEF Known, TypeOK
<1>1. ASSUME NEW f \in Fetches, Call(f) PROVE CallKnows(g)'
  BY <1>1 DEF Call, Known, TypeOK, PathsAreDisjoint, Places
<1>2. ASSUME NEW f \in Fetches, ReadManifest(f) PROVE CallKnows(g)'
  BY <1>2 DEF ReadManifest, Known, TypeOK, PathsAreDisjoint, Places
<1>3. ASSUME NEW f \in Fetches, CheckOutputFile(f) PROVE CallKnows(g)'
  BY <1>3 DEF CheckOutputFile, Known, TypeOK, PathsAreDisjoint, Places
<1>4. ASSUME NEW f \in Fetches, CompareRequest(f) PROVE CallKnows(g)'
  BY <1>4 DEF CompareRequest, Known, TypeOK, PathsAreDisjoint, Places
<1>5. ASSUME NEW f \in Fetches, CreateStaging(f) PROVE CallKnows(g)'
  BY <1>5 DEF CreateStaging, Known, TypeOK, PathsAreDisjoint, Places
<1>6. ASSUME NEW f \in Fetches, OpenClient(f) PROVE CallKnows(g)'
  BY <1>6 DEF OpenClient, Known, TypeOK, PathsAreDisjoint, Places
<1>7. ASSUME NEW f \in Fetches, StorePage(f) PROVE CallKnows(g)'
  <2>1. pages \in [Dirs -> 0 .. MaxPages] /\ f \in Dirs
    BY DEF Known, TypeOK
  <2>2. CASE g = f
    <3>1. pc'[f] = "pages" /\ pc[f] = "pages"
      BY <1>7 DEF StorePage
    <3>2. files[f] = 1 .. pages[f]
      BY <1>0, <2>2, <3>1
    <3>3. files'[f] = 1 .. pages'[f]
      BY <1>7, <1>0, <2>1, <3>2 DEF StorePage
    <3>. QED
      BY <1>7, <1>0, <2>2, <3>1, <3>3 DEF StorePage
  <2>3. CASE g # f
    <3>1. files'[g] = files[g] /\ pages'[g] = pages[g]
      BY <1>7, <1>0, <2>1, <2>3 DEF StorePage
    <3>. QED
      BY <1>7, <1>0, <3>1 DEF StorePage
  <2>. QED
    BY <2>2, <2>3
<1>8. ASSUME NEW f \in Fetches, WriteManifest(f) PROVE CallKnows(g)'
  BY <1>8 DEF WriteManifest, Known, TypeOK, PathsAreDisjoint, Places
<1>9. ASSUME NEW f \in Fetches, FetchFails(f) PROVE CallKnows(g)'
  BY <1>9 DEF FetchFails, Unwind, Known, TypeOK, PathsAreDisjoint, Places
<1>10. ASSUME NEW f \in Fetches, ChooseBackup(f) PROVE CallKnows(g)'
  <2>1. mark \in [Fetches -> {"none", "chosen", "moved", "dropped"}]
    BY DEF Known, TypeOK
  <2>2. CASE g = f
    BY <1>10, <1>0, <2>1, <2>2 DEF ChooseBackup, Unwind
  <2>3. CASE g # f
    BY <1>10, <1>0, <2>1, <2>3 DEF ChooseBackup, Unwind
  <2>. QED
    BY <2>2, <2>3
<1>11. ASSUME NEW f \in Fetches, LookAgain(f) PROVE CallKnows(g)'
  BY <1>11 DEF LookAgain, PublishRaises, Unwind, Known, TypeOK, PathsAreDisjoint, Places
<1>12. ASSUME NEW f \in Fetches, MoveOut(f) PROVE CallKnows(g)'
  <2>1. CASE g = f
    BY <1>12, <1>0, <2>1 DEF MoveOut, PublishRaises, Unwind
  <2>2. CASE g # f
    BY <1>12, <1>0, <2>2 DEF MoveOut, PublishRaises, Unwind
  <2>. QED
    BY <2>1, <2>2
<1>13. ASSUME NEW f \in Fetches, SetFlag(f) PROVE CallKnows(g)'
  BY <1>13 DEF SetFlag, Known, TypeOK, PathsAreDisjoint, Places
<1>14. ASSUME NEW f \in Fetches, MoveIn(f) PROVE CallKnows(g)'
  BY <1>14, SMTT(30) DEF MoveIn, PublishRaises, Unwind, CanRenameOnto, Known, TypeOK, PathsAreDisjoint,
     Places
<1>15. ASSUME NEW f \in Fetches, DropBackup(f) PROVE CallKnows(g)'
  BY <1>15 DEF DropBackup, Known, TypeOK, PathsAreDisjoint, Places
<1>16. ASSUME NEW f \in Fetches, RemoveBackup(f) PROVE CallKnows(g)'
  <2>1. UNCHANGED <<why, pages, mark, target, published, seen>>
    BY <1>16 DEF RemoveBackup
  <2>2. pc[f] = "rm_backup" /\ mark[f] = "dropped" /\ backup[f] \in published /\ target[f] = None
    BY <1>16 DEF RemoveBackup, Known, PathsAreDisjoint
  <2>3. g \notin published => files'[g] = files[g]
    BY <1>0, <1>16, <2>2 DEF RemoveBackup, UnlinkFrom
  <2>4. CASE g = f
    BY <1>0, <1>16, <2>1, <2>2, <2>4 DEF RemoveBackup
  <2>5. CASE g # f
    BY <1>0, <1>16, <2>1, <2>3, <2>5 DEF RemoveBackup
  <2>. QED
    BY <2>4, <2>5
<1>17. ASSUME NEW f \in Fetches, RollbackLooks(f) PROVE CallKnows(g)'
  BY <1>17 DEF RollbackLooks, Known, TypeOK, PathsAreDisjoint, Places
<1>18. ASSUME NEW f \in Fetches, OpenLive(f) PROVE CallKnows(g)'
  <2>1. target \in [Fetches -> Dirs \cup {None}]
    BY DEF Known, TypeOK
  <2>2. CASE g = f
    BY <1>18, <1>0, <2>1, <2>2 DEF OpenLive, Unwind
  <2>3. CASE g # f
    BY <1>18, <1>0, <2>1, <2>3 DEF OpenLive, Unwind
  <2>. QED
    BY <2>2, <2>3
<1>19. ASSUME NEW f \in Fetches, Unlink(f) PROVE CallKnows(g)'
  BY <1>19 DEF Unlink, UnlinkFrom, Known, TypeOK, PathsAreDisjoint, Places
<1>lose. ASSUME NEW f \in Fetches, LoseEntry(f) PROVE CallKnows(g)'
  BY <1>lose, <1>0 DEF LoseEntry, Unwind
<1>20. ASSUME NEW f \in Fetches, RemoveLive(f) PROVE CallKnows(g)'
  BY <1>20 DEF RemoveLive, Known, TypeOK, PathsAreDisjoint, Places
<1>21. ASSUME NEW f \in Fetches, CannotRemoveLive(f) PROVE CallKnows(g)'
  BY <1>21 DEF CannotRemoveLive, Unwind, Known, TypeOK, PathsAreDisjoint, Places
<1>22. ASSUME NEW f \in Fetches, Restore(f) PROVE CallKnows(g)'
  <2>1. CASE g = f
    BY <1>22, <1>0, <2>1 DEF Restore, Unwind
  <2>2. CASE g # f
    BY <1>22, <1>0, <2>2 DEF Restore, Unwind
  <2>. QED
    BY <2>1, <2>2
<1>23. ASSUME NEW f \in Fetches, Reraise(f) PROVE CallKnows(g)'
  BY <1>23 DEF Reraise, Known, TypeOK, PathsAreDisjoint, Places
<1>24. ASSUME NEW f \in Fetches, Cleanup(f) PROVE CallKnows(g)'
  <2>1. CASE g = f
    BY <1>24, <1>0, <2>1 DEF Cleanup
  <2>2. CASE g # f
    BY <1>24, <1>0, <2>2 DEF Cleanup
  <2>. QED
    BY <2>1, <2>2
<1>25. ASSUME NEW f \in Fetches, DiskError(f) PROVE CallKnows(g)'
  <2>1. CASE g = f
    BY <1>25, <1>0, <2>1 DEF DiskError, Raise, PublishRaises, Unwind
  <2>2. CASE g # f
    BY <1>25, <1>0, <2>2 DEF DiskError, Raise, PublishRaises, Unwind
  <2>. QED
    BY <2>1, <2>2
<1>26. ASSUME NEW f \in Fetches, Interrupt(f) PROVE CallKnows(g)'
  BY <1>26 DEF Interrupt, Raise, PublishRaises, Unwind, Known, TypeOK, PathsAreDisjoint, Places
<1>27. ASSUME NEW f \in Fetches, Crash(f) PROVE CallKnows(g)'
  BY <1>27 DEF Crash, Known, TypeOK, PathsAreDisjoint, Places
<1>28. CASE UNCHANGED vars
  BY <1>0, <1>28 DEF vars
<1>29. QED
  BY <1>1, <1>2, <1>3, <1>4, <1>5, <1>6, <1>7, <1>8, <1>9, <1>10, <1>11, <1>12, <1>13, <1>14,
     <1>15, <1>16, <1>17, <1>18, <1>19, <1>20, <1>21, <1>22, <1>23, <1>24, <1>25, <1>26,
     <1>27, <1>28, <1>lose DEF Next, Step, Fault

-----------------------------------------------------------------------------
(* Counting: how the invariant survives a step that damages or gives up a  *)
(* directory.                                                               *)

LEMMA AtMostSame ==
    ASSUME NEW S, NEW T, NEW S2, NEW T2, IsFiniteSet(S), IsFiniteSet(T2),
           Cardinality(S) <= Cardinality(T), S2 \subseteq S, T \subseteq T2
    PROVE  Cardinality(S2) <= Cardinality(T2)
<1>1. IsFiniteSet(S2) /\ Cardinality(S2) <= Cardinality(S)
  BY FS_Subset
<1>2. IsFiniteSet(T) /\ Cardinality(T) <= Cardinality(T2)
  BY FS_Subset
<1>3. /\ Cardinality(S) \in Nat /\ Cardinality(S2) \in Nat
      /\ Cardinality(T) \in Nat /\ Cardinality(T2) \in Nat
  BY <1>1, <1>2, FS_CardinalityType
<1>. QED
  BY <1>1, <1>2, <1>3

LEMMA AtMostPlusOne ==
    ASSUME NEW S, NEW T, NEW S2, NEW T2, NEW d, NEW f, IsFiniteSet(S), IsFiniteSet(T2),
           Cardinality(S) <= Cardinality(T), S2 \subseteq S \cup {d},
           f \notin T, T \cup {f} \subseteq T2
    PROVE  Cardinality(S2) <= Cardinality(T2)
<1>1. IsFiniteSet(S \cup {d}) /\ Cardinality(S \cup {d}) \in {Cardinality(S), Cardinality(S) + 1}
  BY FS_AddElement
<1>2. IsFiniteSet(T)
  BY FS_Subset
<1>3. Cardinality(T \cup {f}) = Cardinality(T) + 1
  BY <1>2, FS_AddElement
<1>4. Cardinality(S) \in Nat /\ Cardinality(T) \in Nat
  BY <1>2, FS_CardinalityType
<1>5. Cardinality(S \cup {d}) <= Cardinality(T \cup {f})
  BY <1>1, <1>3, <1>4
<1>. QED
  BY <1>1, <1>5, AtMostSame

LEMMA AtMostMinusOne ==
    ASSUME NEW S, NEW T, NEW S2, NEW T2, NEW d \in S, NEW f, IsFiniteSet(S), IsFiniteSet(T),
           IsFiniteSet(T2),
           Cardinality(S) <= Cardinality(T), S2 \subseteq S \ {d}, T \ {f} \subseteq T2
    PROVE  Cardinality(S2) <= Cardinality(T2)
<1>1. IsFiniteSet(S \ {d}) /\ Cardinality(S \ {d}) = Cardinality(S) - 1
  BY FS_RemoveElement
<1>2. Cardinality(T \ {f}) \in {Cardinality(T), Cardinality(T) - 1}
  BY FS_RemoveElement
<1>3. Cardinality(S) \in Nat /\ Cardinality(T) \in Nat
  BY FS_CardinalityType
<1>4. Cardinality(S \ {d}) <= Cardinality(T \ {f})
  BY <1>1, <1>2, <1>3
<1>. QED
  BY <1>1, <1>4, AtMostSame

CoverIsFinite ==
    /\ Reachable \subseteq published
    /\ IsFiniteSet(Damaged) /\ IsFiniteSet(Debtors) /\ IsFiniteSet(Holders)

LEMMA Finite == Known => CoverIsFinite
<1> SUFFICES ASSUME Known PROVE CoverIsFinite
  OBVIOUS
<1>1. Reachable \subseteq published
  BY DEF Known, PathsAreDisjoint, Reachable, Holders, Exists
<1>2. published \subseteq Fetches \cup {Seed}
  BY DEF Known, TypeOK, Dirs
<1>3. IsFiniteSet(Fetches \cup {Seed})
  BY FetchesAreFinite, FS_AddElement
<1>4. IsFiniteSet(Damaged)
  BY <1>1, <1>2, <1>3, FS_Subset DEF Damaged
<1>5. IsFiniteSet(Debtors) /\ IsFiniteSet(Holders)
  BY FetchesAreFinite, FS_Subset DEF Debtors, Holders
<1>. QED
  BY <1>1, <1>4, <1>5 DEF CoverIsFinite

LEMMA FiniteNext == Known' => CoverIsFinite'
  BY Finite, PTL

LEMMA QuietStep ==
    ASSUME Known, Known', DamageIsCovered, AbsenceIsCovered,
           UNCHANGED <<live, backup, files, pages, mark, target, published>>,
           \A f \in Fetches : pc'[f] = "published" => pc[f] = "published"
    PROVE  DamageIsCovered' /\ AbsenceIsCovered'
<1>1. Holders' = Holders /\ Reachable' = Reachable
  BY DEF Holders, Reachable, Exists
<1>2. Damaged' = Damaged /\ Debtors' = Debtors
  BY <1>1 DEF Damaged, Debtors, Complete
<1>3. Waiters \subseteq Waiters'
  BY <1>1 DEF Waiters, Holders
<1>. QED
  BY <1>2, <1>3 DEF DamageIsCovered, AbsenceIsCovered, Exists

LEMMA CoverStep ==
    ASSUME Known, Known', DamageIsCovered, AbsenceIsCovered, [Next]_vars
    PROVE  DamageIsCovered' /\ AbsenceIsCovered'
<1>1. /\ pc \in [Fetches -> Places]
      /\ why \in [Fetches -> {"ok"} \cup Raised]
      /\ live \in Dirs \cup {None}
      /\ backup \in [Fetches -> Dirs \cup {None}] /\ files \in [Dirs -> SUBSET (0 .. MaxPages)]
      /\ pages \in [Dirs -> 0 .. MaxPages]
      /\ mark \in [Fetches -> {"none", "chosen", "moved", "dropped"}]
      /\ target \in [Fetches -> Dirs \cup {None}]
  BY DEF Known, TypeOK
<1>2. Reachable \subseteq published /\ Reachable \subseteq Dirs
  BY Finite DEF CoverIsFinite, Known, TypeOK
<1>3. CoverIsFinite /\ CoverIsFinite'
  BY Finite, FiniteNext
<1>4. ASSUME NEW f \in Fetches, Call(f) PROVE DamageIsCovered' /\ AbsenceIsCovered'
  BY <1>4, <1>1, QuietStep DEF Goto, At, Raised, Call
<1>5. ASSUME NEW f \in Fetches, ReadManifest(f) PROVE DamageIsCovered' /\ AbsenceIsCovered'
  BY <1>5, <1>1, QuietStep DEF Goto, At, Raised, ReadManifest
<1>6. ASSUME NEW f \in Fetches, CheckOutputFile(f) PROVE DamageIsCovered' /\ AbsenceIsCovered'
  BY <1>6, <1>1, QuietStep DEF Goto, At, Raised, CheckOutputFile
<1>7. ASSUME NEW f \in Fetches, CompareRequest(f) PROVE DamageIsCovered' /\ AbsenceIsCovered'
  BY <1>7, <1>1, QuietStep DEF Goto, At, Raised, CompareRequest
<1>8. ASSUME NEW f \in Fetches, CreateStaging(f) PROVE DamageIsCovered' /\ AbsenceIsCovered'
  BY <1>8, <1>1, QuietStep DEF Goto, At, Raised, CreateStaging
<1>9. ASSUME NEW f \in Fetches, OpenClient(f) PROVE DamageIsCovered' /\ AbsenceIsCovered'
  BY <1>9, <1>1, QuietStep DEF Goto, At, Raised, OpenClient
<1>10. ASSUME NEW f \in Fetches, StorePage(f) PROVE DamageIsCovered' /\ AbsenceIsCovered'
  <2>1. f \notin Reachable /\ f \in Dirs
    BY <1>10, <1>2 DEF StorePage, CallKnows, BeforeManifest, Known, Dirs, At
  <2>2. Holders' = Holders /\ Reachable' = Reachable /\ Debtors' = Debtors
    BY <1>10 DEF StorePage, Holders, Reachable, Debtors, Exists
  <2>3. \A d \in Reachable : files'[d] = files[d] /\ pages'[d] = pages[d]
    BY <1>10, <1>1, <2>1 DEF StorePage
  <2>4. Damaged' \subseteq Damaged
    BY <1>10, <2>2, <2>3 DEF StorePage, Damaged, Complete
  <2>5. Waiters \subseteq Waiters'
    BY <1>10, <1>1, <2>2 DEF StorePage, Waiters, Holders, Goto, At
  <2>. QED
    BY <1>10, <1>3, <2>2, <2>4, <2>5, AtMostSame DEF StorePage, DamageIsCovered,
       AbsenceIsCovered, Exists, CoverIsFinite
<1>11. ASSUME NEW f \in Fetches, WriteManifest(f) PROVE DamageIsCovered' /\ AbsenceIsCovered'
  <2>1. f \notin Reachable /\ f \in Dirs
    BY <1>11, <1>2 DEF WriteManifest, CallKnows, BeforeManifest, Known, Dirs, At
  <2>2. Holders' = Holders /\ Reachable' = Reachable /\ Debtors' = Debtors
    BY <1>11 DEF WriteManifest, Holders, Reachable, Debtors, Exists
  <2>3. \A d \in Reachable : files'[d] = files[d] /\ pages'[d] = pages[d]
    BY <1>11, <1>1, <2>1 DEF WriteManifest
  <2>4. Damaged' \subseteq Damaged
    BY <1>11, <2>2, <2>3 DEF WriteManifest, Damaged, Complete
  <2>5. Waiters \subseteq Waiters'
    BY <1>11, <1>1, <2>2 DEF WriteManifest, Waiters, Holders, Goto, At
  <2>. QED
    BY <1>11, <1>3, <2>2, <2>4, <2>5, AtMostSame DEF WriteManifest, DamageIsCovered,
       AbsenceIsCovered, Exists, CoverIsFinite
<1>12. ASSUME NEW f \in Fetches, FetchFails(f) PROVE DamageIsCovered' /\ AbsenceIsCovered'
  BY <1>12, <1>1, QuietStep DEF Goto, At, Raised, FetchFails, Unwind
<1>13. ASSUME NEW f \in Fetches, ChooseBackup(f) PROVE DamageIsCovered' /\ AbsenceIsCovered'
  <2>0. backup[f] = None
    BY <1>13 DEF ChooseBackup, Known, CallKnows, At
  <2>1. Holders' = Holders
    BY <1>13, <1>1, <2>0 DEF ChooseBackup, Holders, Exists
  <2>2. Reachable' = Reachable /\ Debtors' = Debtors
    BY <1>13, <2>1 DEF ChooseBackup, Reachable, Debtors
  <2>3. Damaged' = Damaged
    BY <1>13, <2>2 DEF ChooseBackup, Damaged, Complete
  <2>4. Waiters \subseteq Waiters'
    BY <1>13, <1>1, <2>1 DEF ChooseBackup, Waiters, Holders, Goto, At, Unwind
  <2>. QED
    BY <1>13, <2>2, <2>3, <2>4 DEF ChooseBackup, DamageIsCovered, AbsenceIsCovered, Exists
<1>14. ASSUME NEW f \in Fetches, LookAgain(f) PROVE DamageIsCovered' /\ AbsenceIsCovered'
  BY <1>14, <1>1, QuietStep DEF Goto, At, Raised, LookAgain, PublishRaises, Unwind
<1>15. ASSUME NEW f \in Fetches, MoveOut(f) PROVE DamageIsCovered' /\ AbsenceIsCovered'
  <2>1. mark[f] = "chosen" /\ backup[f] = None /\ target[f] = None
    BY <1>15 DEF MoveOut, Known, CallKnows, At, BeforeMoveIn
  <2>2. CASE ~Exists(live)
    BY <1>15, <1>1, <2>1, <2>2, QuietStep DEF MoveOut, PublishRaises, Unwind, Goto, At
  <2>3. CASE Exists(live)
    <3>1. /\ backup' = [backup EXCEPT ![f] = live]
          /\ live' = None
          /\ pc' = [pc EXCEPT ![f] = "flag"]
          /\ UNCHANGED <<files, pages, mark, target, published>>
      BY <1>15, <2>3 DEF MoveOut, Goto
    <3>2. Holders' = Holders \cup {f}
      BY <1>1, <2>1, <2>3, <3>1 DEF Holders, Exists
    <3>3. Reachable' \subseteq Reachable
      BY <1>1, <2>3, <3>1, <3>2 DEF Reachable, Exists, Holders
    <3>4. Damaged' \subseteq Damaged
      BY <3>1, <3>3 DEF Damaged, Complete
    <3>5. Debtors \subseteq Debtors'
      BY <3>1, <3>2 DEF Debtors
    <3>6. f \in Waiters'
      BY <1>1, <2>1, <3>1, <3>2 DEF Waiters
    <3>. QED
      BY <1>3, <3>4, <3>5, <3>6, AtMostSame DEF DamageIsCovered, AbsenceIsCovered, CoverIsFinite
  <2>. QED
    BY <2>2, <2>3
<1>16. ASSUME NEW f \in Fetches, SetFlag(f) PROVE DamageIsCovered' /\ AbsenceIsCovered'
  <2>0. mark[f] = "chosen"
    BY <1>16 DEF SetFlag, Known, CallKnows, At
  <2>1. Holders' = Holders
    BY <1>16, <1>1, <2>0 DEF SetFlag, Holders, Exists
  <2>2. Reachable' = Reachable /\ Debtors' = Debtors
    BY <1>16, <2>1 DEF SetFlag, Reachable, Debtors
  <2>3. Damaged' = Damaged
    BY <1>16, <2>2 DEF SetFlag, Damaged, Complete
  <2>4. Waiters \subseteq Waiters'
    BY <1>16, <1>1, <2>1 DEF SetFlag, Waiters, Holders, Goto, At
  <2>. QED
    BY <1>16, <2>2, <2>3, <2>4 DEF SetFlag, DamageIsCovered, AbsenceIsCovered, Exists
<1>17. ASSUME NEW f \in Fetches, MoveIn(f) PROVE DamageIsCovered' /\ AbsenceIsCovered'
  <2>1. f \notin published /\ Complete(f) /\ f \in Dirs /\ f # None
    BY <1>17, DirectoryNames DEF MoveIn, Known, CallKnows, At, BeforeMoveIn, Dirs
  <2>2. CASE ~CanRenameOnto(live)
    BY <1>17, <1>1, <2>2, QuietStep DEF MoveIn, PublishRaises, Unwind, Goto, At
  <2>3. CASE CanRenameOnto(live)
    <3>1. /\ live' = f /\ UNCHANGED <<backup, files, pages, mark, target>>
      BY <1>17, <2>3 DEF MoveIn
    <3>2. Holders' = Holders /\ Debtors' = Debtors
      BY <3>1 DEF Holders, Debtors, Exists
    <3>3. Reachable' \subseteq Reachable \cup {f}
      BY <3>1, <3>2 DEF Reachable
    <3>4. f \notin Damaged'
      BY <1>1, <2>1, <3>1 DEF Damaged, Complete, Known, PathsAreDisjoint
    <3>5. Damaged' \subseteq Damaged
      BY <3>1, <3>3, <3>4 DEF Damaged, Complete
    <3>. QED
      BY <1>3, <2>1, <3>1, <3>2, <3>5, AtMostSame DEF DamageIsCovered, AbsenceIsCovered,
         CoverIsFinite, Exists
  <2>. QED
    BY <2>2, <2>3
<1>18. ASSUME NEW f \in Fetches, DropBackup(f) PROVE DamageIsCovered' /\ AbsenceIsCovered'
  <2>1. /\ mark' = [mark EXCEPT ![f] = "dropped"]
        /\ UNCHANGED <<live, backup, files, pages, target, published>>
        /\ pc[f] = "published" /\ \A g \in Fetches \ {f} : pc'[g] = pc[g] /\ mark'[g] = mark[g]
    BY <1>18, <1>1 DEF DropBackup, Goto, At
  <2>2. target[f] = None
    BY <2>1 DEF Known, CallKnows
  <2>3. Holders' = Holders \ {f}
    BY <1>1, <2>1 DEF Holders
  <2>4. Reachable' \subseteq Reachable
    BY <2>1, <2>3 DEF Reachable
  <2>5. Damaged' \subseteq Damaged
    BY <2>1, <2>4 DEF Damaged, Complete
  <2>6. Debtors \subseteq Debtors'
    BY <2>1, <2>2, <2>3 DEF Debtors
  <2>7. Waiters \subseteq Waiters'
    BY <2>1, <2>3 DEF Waiters, Holders
  <2>. QED
    BY <1>3, <2>1, <2>5, <2>6, <2>7, AtMostSame DEF DamageIsCovered, AbsenceIsCovered,
       CoverIsFinite, Exists
<1>19. ASSUME NEW f \in Fetches, RemoveBackup(f) PROVE DamageIsCovered' /\ AbsenceIsCovered'
  <2>1. mark[f] = "dropped" /\ Exists(backup[f])
    BY <1>19 DEF RemoveBackup, UnlinkFrom, Known, CallKnows, At
  <2>2. backup[f] \notin Reachable
    BY <2>1 DEF Reachable, Holders, Known, PathsAreDisjoint, Exists
  <2>3. /\ UNCHANGED <<live, mark, target, pages, published>>
        /\ \A g \in Fetches \ {f} : backup'[g] = backup[g]
    BY <1>19, <1>1 DEF RemoveBackup, UnlinkFrom
  <2>4. Holders' = Holders
    BY <2>1, <2>3 DEF Holders
  <2>5. Reachable' = Reachable
    BY <2>1, <2>3, <2>4 DEF Reachable, Holders
  <2>6. \A d \in Reachable : files'[d] = files[d]
    BY <1>19, <1>1, <1>2, <2>2 DEF RemoveBackup, UnlinkFrom
  <2>7. Damaged' \subseteq Damaged /\ Debtors' = Debtors
    BY <2>3, <2>4, <2>5, <2>6 DEF Damaged, Debtors, Complete
  <2>8. Waiters \subseteq Waiters'
    BY <1>19, <1>1, <2>3, <2>4 DEF RemoveBackup, UnlinkFrom, Waiters, Holders, Goto
  <2>. QED
    BY <1>3, <2>3, <2>7, <2>8, AtMostSame DEF DamageIsCovered, AbsenceIsCovered,
       CoverIsFinite, Exists
<1>20. ASSUME NEW f \in Fetches, RollbackLooks(f) PROVE DamageIsCovered' /\ AbsenceIsCovered'
  BY <1>20, <1>1, QuietStep DEF Goto, At, Raised, RollbackLooks
<1>21. ASSUME NEW f \in Fetches, OpenLive(f) PROVE DamageIsCovered' /\ AbsenceIsCovered'
  <2>1. Exists(backup[f]) /\ mark[f] = "moved" /\ target[f] = None
    BY <1>21 DEF OpenLive, Known, CallKnows, At, Rollback
  <2>2. CASE ~Exists(live)
    BY <1>21, <1>1, <2>2, QuietStep DEF OpenLive, Unwind, Goto, At
  <2>3. CASE Exists(live)
    <3>1. /\ target' = [target EXCEPT ![f] = live]
          /\ UNCHANGED <<live, backup, files, pages, mark, published>>
      BY <1>21, <2>3 DEF OpenLive
    <3>2. Holders' = Holders /\ Reachable' = Reachable
      BY <3>1 DEF Holders, Reachable, Exists
    <3>3. f \notin Debtors /\ Debtors \cup {f} \subseteq Debtors'
      BY <1>1, <2>1, <2>3, <3>1, <3>2 DEF Debtors, Holders, Exists
    <3>4. Damaged' \subseteq Damaged \cup {live}
      BY <1>1, <3>1, <3>2 DEF Damaged, Complete
    <3>. QED
      BY <1>3, <2>3, <3>1, <3>3, <3>4, AtMostPlusOne DEF DamageIsCovered,
         AbsenceIsCovered, CoverIsFinite, Exists
  <2>. QED
    BY <2>2, <2>3
<1>22. ASSUME NEW f \in Fetches, Unlink(f) PROVE DamageIsCovered' /\ AbsenceIsCovered'
  <2>1. target[f] # None /\ UNCHANGED <<live, backup, pages, mark, target, published, pc>>
    BY <1>22 DEF Unlink, UnlinkFrom, Known, CallKnows, At, Rollback
  <2>2. Holders' = Holders /\ Reachable' = Reachable /\ Debtors' = Debtors /\ Waiters' = Waiters
    BY <2>1 DEF Holders, Reachable, Debtors, Waiters, Exists
  <2>3. \A d \in Reachable : d # target[f] => files'[d] = files[d]
    BY <1>22, <1>1, <1>2 DEF Unlink, UnlinkFrom
  <2>4. Damaged' \subseteq Damaged
    BY <2>1, <2>2, <2>3 DEF Damaged, Complete
  <2>. QED
    BY <1>3, <2>1, <2>2, <2>4, AtMostSame
       DEF DamageIsCovered, AbsenceIsCovered, CoverIsFinite, Exists
<1>lose. ASSUME NEW f \in Fetches, LoseEntry(f) PROVE DamageIsCovered' /\ AbsenceIsCovered'
  BY <1>lose, <1>1, QuietStep DEF LoseEntry, Unwind, Goto, At
<1>23. ASSUME NEW f \in Fetches, RemoveLive(f) PROVE DamageIsCovered' /\ AbsenceIsCovered'
  <2>1. /\ Exists(backup[f]) /\ mark[f] = "moved"
        /\ files[target[f]] = {} /\ Exists(live) /\ files[live] = {}
    BY <1>23 DEF RemoveLive, Known, CallKnows, At, Rollback
  <2>2. /\ live' = None /\ target' = [target EXCEPT ![f] = None] /\ pc'[f] = "restore"
        /\ UNCHANGED <<backup, pages, mark, files, published>>
    BY <1>23, <1>1 DEF RemoveLive, Goto
  <2>3. Holders' = Holders /\ f \in Holders
    BY <2>1, <2>2 DEF Holders, Exists
  <2>4. Reachable' \subseteq Reachable \ {live}
    BY <2>2, <2>3 DEF Reachable, Holders, Known, PathsAreDisjoint, Exists
  <2>5. \A d \in Dirs : files[d] = {} => ~Complete(d)
    BY <1>1, PageBound DEF Complete
  <2>6. live \in Damaged
    BY <1>1, <2>1, <2>5 DEF Damaged, Reachable, Exists
  <2>7. Damaged' \subseteq Damaged
    <3> SUFFICES ASSUME NEW d \in Damaged' PROVE d \in Damaged
      OBVIOUS
    <3>1. d \in Reachable /\ (~Complete(d) \/ \E g \in Fetches : target'[g] = d) /\ d \in Dirs
      BY <1>2, <2>2, <2>4 DEF Damaged, Complete
    <3>2. \A g \in Fetches : target'[g] = d => g # f \/ d = None
      BY <1>1, <2>2
    <3>. QED
      BY <1>1, <2>2, <3>1, <3>2, DirectoryNames DEF Damaged, Dirs
  <2>8. Damaged' \subseteq Damaged \ {live}
    BY <2>4, <2>7 DEF Damaged
  <2>9. Debtors \ {f} \subseteq Debtors'
    BY <1>1, <2>2, <2>3 DEF Debtors, Holders
  <2>10. f \in Waiters'
    BY <1>1, <2>2, <2>3 DEF Waiters
  <2>11. DamageIsCovered'
    BY <1>3, <2>6, <2>8, <2>9, AtMostMinusOne DEF DamageIsCovered, CoverIsFinite
  <2>. QED
    BY <2>10, <2>11 DEF AbsenceIsCovered
<1>24. ASSUME NEW f \in Fetches, CannotRemoveLive(f) PROVE DamageIsCovered' /\ AbsenceIsCovered'
  BY <1>24, <1>1, QuietStep DEF CannotRemoveLive, Unwind, Goto, At
<1>25. ASSUME NEW f \in Fetches, Restore(f) PROVE DamageIsCovered' /\ AbsenceIsCovered'
  <2>1. Exists(backup[f]) /\ mark[f] = "moved" /\ target[f] = None
    BY <1>25 DEF Restore, Known, CallKnows, At, Rollback
  <2>2. CASE ~CanRenameOnto(live)
    BY <1>25, <1>1, <2>2, QuietStep DEF Restore, Unwind, Goto, At
  <2>3. CASE CanRenameOnto(live)
    <3>1. /\ live' = backup[f]
          /\ backup' = [backup EXCEPT ![f] = None]
          /\ UNCHANGED <<files, pages, mark, target, published>>
      BY <1>25, <2>3 DEF Restore
    <3>2. Holders' = Holders \ {f} /\ f \in Holders
      BY <1>1, <2>1, <3>1 DEF Holders, Exists
    <3>3. Reachable' \subseteq Reachable
      BY <1>1, <2>1, <3>1, <3>2 DEF Reachable, Holders, Exists
    <3>4. Damaged' \subseteq Damaged
      BY <3>1, <3>3 DEF Damaged, Complete
    <3>5. Debtors \subseteq Debtors'
      BY <2>1, <3>1, <3>2 DEF Debtors
    <3>. QED
      BY <1>3, <2>1, <3>1, <3>4, <3>5, AtMostSame DEF DamageIsCovered, AbsenceIsCovered,
         CoverIsFinite, Exists
  <2>. QED
    BY <2>2, <2>3
<1>26. ASSUME NEW f \in Fetches, Reraise(f) PROVE DamageIsCovered' /\ AbsenceIsCovered'
  BY <1>26, <1>1, QuietStep DEF Goto, At, Raised, Reraise
<1>27. ASSUME NEW f \in Fetches, Cleanup(f) PROVE DamageIsCovered' /\ AbsenceIsCovered'
  <2>1. CASE f \notin staged
    BY <1>27, <1>1, <2>1, QuietStep DEF Cleanup, Goto, At, Raised
  <2>2. CASE f \in staged
    <3>1. f \notin Reachable /\ f \in Dirs
      BY <1>2, <2>2 DEF Known, PathsAreDisjoint, Dirs
    <3>2. Holders' = Holders /\ Reachable' = Reachable /\ Debtors' = Debtors
      BY <1>27 DEF Cleanup, Holders, Reachable, Debtors, Exists
    <3>3. \A d \in Reachable : files'[d] = files[d] /\ pages'[d] = pages[d]
      BY <1>27, <1>1, <3>1 DEF Cleanup
    <3>4. Damaged' \subseteq Damaged
      BY <1>27, <3>2, <3>3 DEF Cleanup, Damaged, Complete
    <3>5. Waiters \subseteq Waiters'
      BY <1>27, <1>1, <3>2 DEF Cleanup, Waiters, Holders, Goto, At, Raised
    <3>. QED
      BY <1>27, <1>3, <3>2, <3>4, <3>5, AtMostSame DEF Cleanup, DamageIsCovered,
         AbsenceIsCovered, Exists, CoverIsFinite
  <2>. QED
    BY <2>1, <2>2
<1>28. ASSUME NEW f \in Fetches, DiskError(f) PROVE DamageIsCovered' /\ AbsenceIsCovered'
  BY <1>28, <1>1, QuietStep DEF Goto, At, Raised, DiskError, Raise, PublishRaises, Unwind
<1>29. ASSUME NEW f \in Fetches, Interrupt(f) PROVE DamageIsCovered' /\ AbsenceIsCovered'
  BY <1>29, <1>1, QuietStep DEF Goto, At, Raised, Interrupt, Raise, PublishRaises, Unwind
<1>30. ASSUME NEW f \in Fetches, Crash(f) PROVE DamageIsCovered' /\ AbsenceIsCovered'
  BY <1>30, <1>1, QuietStep DEF Goto, At, Raised, Crash
<1>31. CASE UNCHANGED vars
  BY <1>31, QuietStep DEF vars
<1>32. QED
  BY <1>4, <1>5, <1>6, <1>7, <1>8, <1>9, <1>10, <1>11, <1>12, <1>13, <1>14, <1>15, <1>16,
     <1>17, <1>18, <1>19, <1>20, <1>21, <1>22, <1>23, <1>24, <1>25, <1>26, <1>27, <1>28,
     <1>29, <1>30, <1>31, <1>lose DEF Next, Step, Fault

LEMMA CoverGivesSurvival ==
    ASSUME Known, DamageIsCovered, AbsenceIsCovered
    PROVE  SnapshotSurvives
<1> SUFFICES ASSUME published # {}, Reachable \subseteq Damaged PROVE FALSE
  BY DEF SnapshotSurvives, Damaged
<1> DEFINE held == {backup[f] : f \in Holders}
           b == [f \in Holders |-> backup[f]]
<1>0. CoverIsFinite
  BY Finite
<1>1. b \in Bijection(Holders, held)
  BY DEF Bijection, Injection, Surjection, IsInjective, Known, PathsAreDisjoint, Holders, Exists
<1>2. IsFiniteSet(held) /\ Cardinality(held) = Cardinality(Holders)
  BY <1>0, <1>1, FS_Bijection DEF ExistsBijection, CoverIsFinite
<1>3. held \subseteq Damaged /\ Cardinality(held) <= Cardinality(Damaged)
  BY <1>0, FS_Subset DEF Reachable, CoverIsFinite
<1>4. Debtors \subseteq Holders /\ Cardinality(Debtors) <= Cardinality(Holders)
  BY <1>0, FS_Subset DEF Debtors, CoverIsFinite
<1>5. /\ Cardinality(Holders) \in Nat /\ Cardinality(Debtors) \in Nat
      /\ Cardinality(Damaged) \in Nat
  BY <1>0, FS_CardinalityType DEF CoverIsFinite
<1>6. Cardinality(Debtors) = Cardinality(Holders) /\ Cardinality(held) = Cardinality(Damaged)
  BY <1>2, <1>3, <1>4, <1>5 DEF DamageIsCovered
<1>7. Debtors = Holders /\ held = Damaged
  BY <1>0, <1>3, <1>4, <1>6, FS_Subset DEF CoverIsFinite
<1>8. CASE Exists(live)
  <2>1. live \notin held
    BY <1>8 DEF Known, PathsAreDisjoint, Holders, Exists
  <2>. QED
    BY <2>1, <1>7, <1>8 DEF Reachable, Exists
<1>9. CASE ~Exists(live)
  BY <1>7, <1>9 DEF AbsenceIsCovered, Waiters, Debtors
<1>. QED
  BY <1>8, <1>9

-----------------------------------------------------------------------------
(* The theorems.                                                            *)

LEMMA InitInvariant == Init => IInv
<1> SUFFICES ASSUME Init PROVE IInv
  OBVIOUS
<1> USE DirectoryNames, PageBound
<1>1. Known
  <2>1. TypeOK
    BY DEF Init, TypeOK, Dirs, Places
  <2>2. PathsAreDisjoint
    BY DEF Init, PathsAreDisjoint, Exists
  <2>3. ASSUME NEW f \in Fetches PROVE CallKnows(f)
    <3>1. /\ pc[f] = "idle" /\ f \notin published /\ pages[f] = 0 /\ files[f] = {}
          /\ mark[f] = "none" /\ backup[f] = None /\ target[f] = None
      BY DEF Init, Dirs
    <3>2. {} = 1 .. 0
      OBVIOUS
    <3>. QED
      BY <3>1, <3>2 DEF CallKnows, BeforeManifest, BeforeMoveIn, Rollback, Holders, Exists
  <2>. QED
    BY <2>1, <2>2, <2>3 DEF Known
<1>2. Holders = {} /\ Debtors = {}
  BY DEF Init, Holders, Debtors, Exists
<1>3. Damaged = {}
  BY <1>2 DEF Init, Damaged, Reachable, Complete, Dirs
<1>4. DamageIsCovered
  BY <1>2, <1>3, FS_EmptySet DEF DamageIsCovered
<1>5. AbsenceIsCovered
  BY DEF Init, AbsenceIsCovered, Exists
<1>. QED
  BY <1>1, <1>4, <1>5 DEF IInv

LEMMA StepInvariant == IInv /\ [Next]_vars => IInv'
<1> SUFFICES ASSUME IInv, [Next]_vars PROVE IInv'
  OBVIOUS
<1>1. Known
  BY DEF IInv
<1>2. TypeOK'
  BY <1>1, TypeStep DEF Known, CallKnows
<1>3. PathsAreDisjoint'
  BY <1>1, PathsStep
<1>4. \A g \in Fetches : CallKnows(g)'
  BY <1>1, KnowsStep
<1>5. Known'
  BY <1>2, <1>3, <1>4 DEF Known
<1>. QED
  BY <1>1, <1>5, CoverStep DEF IInv

(* The inductive invariant holds, and with it the types of all variables.   *)
THEOREM Invariant == Spec => []IInv
  BY InitInvariant, StepInvariant, PTL DEF Spec

(* The variables of the fetches and of the output root have their types.    *)
THEOREM TypeCorrect == Spec => []TypeOK
<1>1. IInv => TypeOK
  BY DEF IInv, Known
<1>. QED
  BY <1>1, Invariant, PTL

(* However many calls overlap, and whatever fails or is interrupted or      *)
(* killed at whatever step, once a cache has been published a complete one  *)
(* is at the live path or at a backup path that no call is removing.        *)
THEOREM SnapshotAlwaysSurvives == Spec => []SnapshotSurvives
<1>1. IInv => SnapshotSurvives
  BY CoverGivesSurvival DEF IInv
<1>. QED
  BY <1>1, Invariant, PTL

(* Calls that end with ordinary errors, or succeed, leave a complete cache  *)
(* at the live path.                                                        *)
THEOREM QuiescentCacheIsUsable == Spec => []QuiescentCacheUsable
<1>1. IInv => QuiescentCacheUsable
  <2> SUFFICES ASSUME IInv, published # {}, \A f \in Fetches : pc[f] \in Settled
               PROVE  Exists(live) /\ Complete(live)
    BY DEF QuiescentCacheUsable
  <2>1. Holders = {}
    BY DEF IInv, Known, CallKnows, Holders
  <2>2. SnapshotSurvives
    BY CoverGivesSurvival DEF IInv
  <2>. QED
    BY <2>1, <2>2 DEF SnapshotSurvives, Reachable, Exists
<1>. QED
  BY <1>1, Invariant, PTL
-----------------------------------------------------------------------------
(* What a cache hit has compared, and what a call leaves behind.            *)

(* A check reads manifests of published directories only.                   *)
HitsAreKnown ==
    \A f \in Fetches :
        /\ pc[f] \in {"check", "hit"} => seen[f] \in published
        /\ pc[f] = "hit" => request[seen[f]] = request[f]

(* A step of call f that is no part of a cache-hit check.                   *)
ChecksNothing(f) ==
    /\ UNCHANGED <<callVars, hitVars>>
    /\ published \subseteq published'
    /\ \E place \in Places \ {"check", "hit"} : pc' = pc \/ pc' = [pc EXCEPT ![f] = place]

(* Every step but the call itself and the four of the check is such a step. *)
LEMMA OtherSteps ==
    ASSUME Known, NEW f \in Fetches,
           Step(f) \/ Fault(f), ~ReadManifest(f), ~CheckOutputFile(f), ~CompareRequest(f)
    PROVE  ChecksNothing(f)
<1> USE DEF ChecksNothing, Goto, At, Places, Running, Publish, Rollback, Ended, Raised
<1>1. why \in [Fetches -> {"ok"} \cup Raised]
  BY DEF Known, TypeOK
<1>2. CASE CreateStaging(f) \/ OpenClient(f) \/ StorePage(f) \/ WriteManifest(f) \/ FetchFails(f)
  BY <1>2 DEF CreateStaging, OpenClient, StorePage, WriteManifest, FetchFails, Unwind
<1>3. CASE ChooseBackup(f) \/ SetFlag(f) \/ DropBackup(f) \/ RemoveBackup(f)
  BY <1>3 DEF ChooseBackup, SetFlag, DropBackup, RemoveBackup, Unwind
<1>4. CASE LookAgain(f) \/ MoveOut(f)
  BY <1>4 DEF LookAgain, MoveOut, PublishRaises, Unwind
<1>5. CASE MoveIn(f)
  BY <1>5 DEF MoveIn, PublishRaises, Unwind
<1>6. CASE RollbackLooks(f) \/ OpenLive(f) \/ Restore(f) \/ Reraise(f)
  BY <1>6 DEF RollbackLooks, OpenLive, Restore, Reraise, Unwind
<1>7. CASE Unlink(f) \/ LoseEntry(f) \/ RemoveLive(f) \/ CannotRemoveLive(f)
  BY <1>7 DEF Unlink, LoseEntry, RemoveLive, CannotRemoveLive, Unwind
<1>8. CASE Cleanup(f)
  BY <1>1, <1>8 DEF Cleanup
<1>9. CASE DiskError(f)
  BY <1>1, <1>9 DEF DiskError, Raise, PublishRaises, Unwind
<1>10. CASE Interrupt(f) \/ Crash(f)
  BY <1>10 DEF Interrupt, Crash, Raise, PublishRaises, Unwind
<1>. QED
  BY <1>2, <1>3, <1>4, <1>5, <1>6, <1>7, <1>8, <1>9, <1>10 DEF Step, Fault

(* Every step keeps hits matching: the steps of the check one by one, the   *)
(* others because they leave alone what was checked.                        *)
LEMMA HitStep ==
    ASSUME Known, HitsAreKnown, [Next]_vars
    PROVE  HitsAreKnown'
<1> USE DEF HitsAreKnown, Goto, At
<1>1. /\ pc \in [Fetches -> Places] /\ request \in [Dirs -> Requests]
      /\ seen \in [Fetches -> Dirs \cup {None}] /\ Fetches \subseteq Dirs
      /\ published \subseteq Dirs
  BY DEF Known, TypeOK, Dirs
<1>2. ASSUME NEW f \in Fetches, Call(f) PROVE HitsAreKnown'
  <2>1. f \notin published
    BY <1>2 DEF Call, Known, CallKnows, BeforeManifest
  <2>2. PICK r \in Requests, place \in {"peek", "staging"} :
          /\ request' = [request EXCEPT ![f] = r]
          /\ pc' = [pc EXCEPT ![f] = place]
    BY <1>2 DEF Call
  <2>3. published' = published /\ seen' = seen
    BY <1>2 DEF Call, hitVars
  <2>. QED
    BY <1>1, <2>1, <2>2, <2>3
<1>3. ASSUME NEW f \in Fetches, ReadManifest(f) PROVE HitsAreKnown'
  <2>1. Exists(live) => live \in published
    BY DEF Known, PathsAreDisjoint
  <2>. QED
    BY <1>1, <1>3, <2>1 DEF ReadManifest, callVars
<1>4. ASSUME NEW f \in Fetches, CheckOutputFile(f) PROVE HitsAreKnown'
  BY <1>1, <1>4 DEF CheckOutputFile, callVars
<1>5. ASSUME NEW f \in Fetches, CompareRequest(f) PROVE HitsAreKnown'
  BY <1>1, <1>5 DEF CompareRequest, callVars, hitVars
<1>6. ASSUME NEW f \in Fetches, ChecksNothing(f) PROVE HitsAreKnown'
  BY <1>1, <1>6 DEF ChecksNothing, callVars, hitVars
<1>7. CASE UNCHANGED vars
  BY <1>7 DEF vars
<1>. QED
  BY <1>2, <1>3, <1>4, <1>5, <1>6, <1>7, OtherSteps DEF Next

(* A cache hit is of a directory that some call published, fetched for the  *)
(* request of the call that hits (validate_cache), for any number of calls  *)
(* that overlap and with every fault.                                       *)
THEOREM HitsMatchTheirRequest == Spec => []HitMatchesRequest
<1>1. Init => HitsAreKnown
  BY DEF Init, HitsAreKnown
<1>2. IInv => Known
  BY DEF IInv
<1>3. Known /\ HitsAreKnown /\ [Next]_vars => HitsAreKnown'
  BY HitStep
<1>4. HitsAreKnown => HitMatchesRequest
  BY DEF HitsAreKnown, HitMatchesRequest
<1>. QED
  BY <1>1, <1>2, <1>3, <1>4, Invariant, PTL DEF Spec

(* A call that is removing its backup, or has stopped to, is no rollback;   *)
(* it has listed nothing that is gone unless another call's rollback is at  *)
(* the same directory, or nothing is left there; and only that stops it.    *)
RemovesAlone(f) ==
    mark[f] = "dropped" /\ Exists(backup[f]) =>
        /\ target[f] = None
        /\ Collided(f, backup[f]) => TornByRollback(f)
        /\ pc[f] # "rm_backup" => Collided(f, backup[f])

RemovalsAreKnown == \A f \in Fetches : RemovesAlone(f)

(* Every step leaves it so that only rollbacks take entries from others.    *)
LEMMA RemovalStep ==
    ASSUME ~DiskErrors, ~Interrupts, ~Crashes,
           Known, RemovalsAreKnown, [Next]_vars, NEW g \in Fetches
    PROVE  RemovesAlone(g)'
<1> USE DEF RemovesAlone, Collided, TornByRollback, Goto, At, Exists
<1>1. /\ pc \in [Fetches -> Places]
      /\ backup \in [Fetches -> Dirs \cup {None}] /\ staged \subseteq Fetches
      /\ mark \in [Fetches -> {"none", "chosen", "moved", "dropped"}]
      /\ target \in [Fetches -> Dirs \cup {None}]
      /\ listed \in [Fetches -> SUBSET (0 .. MaxPages)]
      /\ files \in [Dirs -> SUBSET (0 .. MaxPages)]
      /\ Fetches \subseteq Dirs /\ RemovesAlone(g)
  BY DEF Known, TypeOK, Dirs, RemovalsAreKnown
<1>2. \A f \in Fetches : CallKnows(f)
  BY DEF Known
<1>3. /\ \A f \in Fetches : f \in staged => f \notin published
      /\ Exists(backup[g]) => backup[g] \in published
      /\ \A f \in Fetches : f # g /\ Exists(backup[g]) => backup[g] # backup[f]
  BY DEF Known, PathsAreDisjoint
(* Steps that touch neither a backup nor a removal.                         *)
<1>4. ASSUME UNCHANGED <<backup, mark, target, listed, files>>,
             pc[g] = "rm_backup" => pc'[g] = "rm_backup" \/ Collided(g, backup[g])
      PROVE  RemovesAlone(g)'
  BY <1>1, <1>4
<1>5. ASSUME NEW f \in Fetches,
             \/ Call(f) \/ ReadManifest(f) \/ CheckOutputFile(f) \/ CompareRequest(f)
             \/ CreateStaging(f) \/ OpenClient(f) \/ FetchFails(f) \/ LookAgain(f) \/ MoveIn(f)
             \/ RollbackLooks(f) \/ LoseEntry(f) \/ CannotRemoveLive(f) \/ Reraise(f)
      PROVE  RemovesAlone(g)'
  <2>1. UNCHANGED <<backup, mark, target, listed, files>>
    BY <1>5 DEF Call, ReadManifest, CheckOutputFile, CompareRequest, CreateStaging, OpenClient,
       FetchFails, LookAgain, MoveIn, RollbackLooks, LoseEntry, CannotRemoveLive, Reraise
  <2>2. pc[g] = "rm_backup" => pc'[g] = "rm_backup" \/ Collided(g, backup[g])
    BY <1>1, <1>5 DEF Call, ReadManifest, CheckOutputFile, CompareRequest, CreateStaging, OpenClient,
       FetchFails, LookAgain, MoveIn, RollbackLooks, LoseEntry, CannotRemoveLive, Reraise,
       PublishRaises, Unwind
  <2>. QED
    BY <1>4, <2>1, <2>2
(* Steps on files of a directory that no backup path holds.                 *)
<1>6. ASSUME NEW f \in Fetches, StorePage(f) \/ WriteManifest(f) \/ Cleanup(f)
      PROVE  RemovesAlone(g)'
  <2>1. UNCHANGED <<backup, mark, target, listed>>
    BY <1>6 DEF StorePage, WriteManifest, Cleanup
  <2>2. Exists(backup[g]) => files'[backup[g]] = files[backup[g]]
    BY <1>1, <1>2, <1>3, <1>6 DEF StorePage, WriteManifest, Cleanup, CallKnows, BeforeManifest
  <2>3. pc[g] = "rm_backup" => pc'[g] = "rm_backup"
    BY <1>1, <1>6 DEF StorePage, WriteManifest, Cleanup
  <2>. QED
    BY <1>1, <2>1, <2>2, <2>3
<1>7. ASSUME NEW f \in Fetches, ChooseBackup(f) \/ SetFlag(f) PROVE RemovesAlone(g)'
  <2>1. UNCHANGED <<backup, target, listed, files>>
    BY <1>7 DEF ChooseBackup, SetFlag
  <2>2. mark'[g] = "dropped" => mark[g] = "dropped"
    BY <1>1, <1>7 DEF ChooseBackup, SetFlag
  <2>3. pc[g] = "rm_backup" => pc'[g] = "rm_backup"
    BY <1>1, <1>7 DEF ChooseBackup, SetFlag, Unwind
  <2>. QED
    BY <1>1, <2>1, <2>2, <2>3
<1>8. ASSUME NEW f \in Fetches, MoveOut(f) PROVE RemovesAlone(g)'
  <2>1. UNCHANGED <<mark, target, listed, files>> /\ mark[f] = "chosen"
    BY <1>2, <1>8 DEF MoveOut, CallKnows
  <2>2. mark[g] = "dropped" => backup'[g] = backup[g]
    BY <1>1, <1>8, <2>1 DEF MoveOut
  <2>3. pc[g] = "rm_backup" => pc'[g] = "rm_backup"
    BY <1>1, <1>8 DEF MoveOut, PublishRaises, Unwind
  <2>. QED
    BY <1>1, <2>1, <2>2, <2>3
<1>9. ASSUME NEW f \in Fetches, DropBackup(f) PROVE RemovesAlone(g)'
  <2>1. UNCHANGED <<backup, target, files>> /\ target[f] = None
    BY <1>2, <1>9 DEF DropBackup, CallKnows, BeforeMoveIn, BeforeManifest
  <2>2. CASE g = f
    BY <1>1, <1>9, <2>1, <2>2 DEF DropBackup
  <2>3. CASE g # f
    <3>1. mark'[g] = mark[g] /\ listed'[g] = listed[g] /\ pc'[g] = pc[g]
      BY <1>1, <1>9, <2>3 DEF DropBackup
    <3>. QED
      BY <1>1, <2>1, <3>1
  <2>. QED
    BY <2>2, <2>3
<1>10. ASSUME NEW f \in Fetches, RemoveBackup(f) PROVE RemovesAlone(g)'
  <2>1. UNCHANGED <<mark, target>> /\ Exists(backup[f]) /\ backup[f] \in Dirs
    BY <1>1, <1>2, <1>10 DEF RemoveBackup, CallKnows
  <2>2. CASE g = f
    <3>1. CASE UnlinkFrom(f, backup[f]) /\ UNCHANGED backup
      <4>1. PICK k \in files[backup[f]] : /\ files' = [files EXCEPT ![backup[f]] = @ \ {k}]
                                          /\ listed' = [listed EXCEPT ![f] = @ \ {k}]
        BY <3>1 DEF UnlinkFrom
      <4>2. /\ files'[backup[g]] = files[backup[g]] \ {k} /\ listed'[g] = listed[g] \ {k}
            /\ backup'[g] = backup[g]
        BY <1>1, <2>1, <2>2, <3>1, <4>1
      <4>3. Collided(g, backup[g])' => Collided(g, backup[g])
        BY <4>2
      <4>4. TornByRollback(g) => TornByRollback(g)'
        BY <2>1, <4>2
      <4>5. pc'[g] = "rm_backup"
        BY <1>10, <2>1, <2>2, <3>1 DEF RemoveBackup
      <4>. QED
        BY <1>1, <2>1, <4>2, <4>3, <4>4, <4>5
    <3>2. CASE backup' = [backup EXCEPT ![f] = None]
      BY <1>1, <2>2, <3>2
    <3>. QED
      BY <1>10, <3>1, <3>2 DEF RemoveBackup
  <2>3. CASE g # f
    <3>1. backup'[g] = backup[g] /\ listed'[g] = listed[g] /\ pc'[g] = pc[g]
      BY <1>1, <1>10, <2>3 DEF RemoveBackup, UnlinkFrom
    <3>2. Exists(backup[g]) => files'[backup[g]] = files[backup[g]]
      BY <1>1, <1>3, <1>10, <2>1, <2>3 DEF RemoveBackup, UnlinkFrom
    <3>. QED
      BY <1>1, <2>1, <3>1, <3>2
  <2>. QED
    BY <2>2, <2>3
<1>11. ASSUME NEW f \in Fetches, OpenLive(f) PROVE RemovesAlone(g)'
  <2>1. UNCHANGED <<backup, mark, files>> /\ mark[f] = "moved" /\ target[f] = None
    BY <1>2, <1>11 DEF OpenLive, CallKnows, Rollback
  <2>2. mark[g] = "dropped" => g # f
    BY <2>1
  <2>3. /\ g # f => listed'[g] = listed[g] /\ target'[g] = target[g] /\ pc'[g] = pc[g]
        /\ \A h \in Fetches : target[h] # None => target'[h] = target[h]
    BY <1>1, <1>11, <2>1 DEF OpenLive, Unwind
  <2>. QED
    BY <1>1, <2>1, <2>2, <2>3
<1>12. ASSUME NEW f \in Fetches, Unlink(f) PROVE RemovesAlone(g)'
  <2>1. /\ UNCHANGED <<pc, backup, mark, target>> /\ mark[f] = "moved"
        /\ target[f] # None /\ target[f] \in Dirs
    BY <1>1, <1>2, <1>12 DEF Unlink, CallKnows, Rollback
  <2>2. PICK k \in files[target[f]] : /\ files' = [files EXCEPT ![target[f]] = @ \ {k}]
                                      /\ listed' = [listed EXCEPT ![f] = @ \ {k}]
    BY <1>12 DEF Unlink, UnlinkFrom
  <2>3. CASE mark[g] = "dropped" /\ Exists(backup[g]) /\ backup[g] = target[f]
    <3>1. f # g
      BY <2>1, <2>3
    <3>2. TornByRollback(g)'
      BY <2>1, <2>3, <3>1
    <3>3. listed'[g] = listed[g] /\ files'[backup[g]] \subseteq files[backup[g]]
      BY <1>1, <2>1, <2>2, <3>1
    <3>. QED
      BY <1>1, <2>1, <2>3, <3>2, <3>3
  <2>4. CASE mark[g] = "dropped" /\ Exists(backup[g]) /\ backup[g] # target[f]
    <3>1. g # f /\ listed'[g] = listed[g] /\ files'[backup[g]] = files[backup[g]]
      BY <1>1, <2>1, <2>2, <2>4
    <3>. QED
      BY <1>1, <2>1, <3>1
  <2>. QED
    BY <2>1, <2>3, <2>4
<1>13. ASSUME NEW f \in Fetches, RemoveLive(f) PROVE RemovesAlone(g)'
  <2>1. /\ UNCHANGED <<backup, mark, listed, files>> /\ files[target[f]] = {}
        /\ target' = [target EXCEPT ![f] = None] /\ pc[f] = "destroy"
    BY <1>13 DEF RemoveLive
  <2>2. target[g] = None => target'[g] = None
    BY <1>1, <2>1
  <2>3. TornByRollback(g) => TornByRollback(g)'
    BY <1>1, <2>1
  <2>4. pc[g] = "rm_backup" => pc'[g] = "rm_backup"
    BY <1>1, <1>13 DEF RemoveLive
  <2>. QED
    BY <1>1, <2>1, <2>2, <2>3, <2>4
<1>14. ASSUME NEW f \in Fetches, Restore(f) PROVE RemovesAlone(g)'
  <2>1. UNCHANGED <<mark, target, listed, files>> /\ mark[f] = "moved"
    BY <1>2, <1>14 DEF Restore, CallKnows, Rollback
  <2>2. mark[g] = "dropped" => backup'[g] = backup[g]
    BY <1>1, <1>14, <2>1 DEF Restore
  <2>3. pc[g] = "rm_backup" => pc'[g] = "rm_backup"
    BY <1>1, <1>14 DEF Restore, Unwind
  <2>. QED
    BY <1>1, <2>1, <2>2, <2>3
<1>15. CASE UNCHANGED vars
  BY <1>4, <1>15 DEF vars
<1>16. ASSUME NEW f \in Fetches, Fault(f) PROVE RemovesAlone(g)'
  BY <1>16 DEF Fault, DiskError, Interrupt, Crash
<1>. QED
  BY <1>16, <1>5, <1>6, <1>7, <1>8, <1>9, <1>10, <1>11, <1>12, <1>13, <1>14, <1>15 DEF Next, Step

(* Where a call may still have a staging directory, and when a backup that  *)
(* its publication has given up is the only trace that is left.             *)
Tidy ==
    \A f \in Fetches :
        /\ pc[f] \in {"idle", "peek", "check", "staging", "published", "rm_backup"} \cup Ended =>
              f \notin staged
        /\ pc[f] \notin {"interrupted", "killed"}
        /\ pc[f] = "cleanup" => why[f] \in Raised \ {"interrupted"}
        /\ pc[f] \in Rollback => why[f] \in Raised \ {"interrupted"}
        /\ pc[f] = "cleanup" /\ why[f] # "recovery" => backup[f] = None \/ mark[f] = "dropped"
        /\ pc[f] \in Ended \ {"recovery"} => backup[f] = None \/ mark[f] = "dropped"

(* Every step of calls that fail in the ordinary ways keeps the cache tidy. *)
LEMMA TidyStep ==
    ASSUME ~DiskErrors, ~Interrupts, ~Crashes, Known, Tidy, [Next]_vars
    PROVE  Tidy'
<1> USE DEF Tidy, Goto, At, Exists, Running, Publish, Rollback, Ended, Raised
<1>1. /\ pc \in [Fetches -> Places] /\ why \in [Fetches -> {"ok"} \cup Raised]
      /\ backup \in [Fetches -> Dirs \cup {None}] /\ staged \subseteq Fetches
      /\ mark \in [Fetches -> {"none", "chosen", "moved", "dropped"}]
  BY DEF Known, TypeOK
<1>2. \A f \in Fetches : CallKnows(f)
  BY DEF Known
<1>3. ASSUME NEW f \in Fetches, Call(f) \/ ReadManifest(f) \/ CheckOutputFile(f) \/ CompareRequest(f)
      PROVE  Tidy'
  BY <1>1, <1>2, <1>3 DEF Call, ReadManifest, CheckOutputFile, CompareRequest, CallKnows,
     BeforeManifest
<1>4. ASSUME NEW f \in Fetches, CreateStaging(f) \/ OpenClient(f) \/ StorePage(f)
                                \/ WriteManifest(f) \/ FetchFails(f)
      PROVE  Tidy'
  BY <1>1, <1>2, <1>4 DEF CreateStaging, OpenClient, StorePage, WriteManifest, FetchFails, Unwind,
     CallKnows, BeforeManifest
<1>5. ASSUME NEW f \in Fetches, ChooseBackup(f) \/ SetFlag(f) PROVE Tidy'
  BY <1>1, <1>2, <1>5 DEF ChooseBackup, SetFlag, Unwind, CallKnows
<1>6. ASSUME NEW f \in Fetches, LookAgain(f) PROVE Tidy'
  BY <1>1, <1>2, <1>6 DEF LookAgain, PublishRaises, Unwind, CallKnows
<1>7. ASSUME NEW f \in Fetches, MoveOut(f) PROVE Tidy'
  BY <1>1, <1>2, <1>7 DEF MoveOut, PublishRaises, Unwind, CallKnows
<1>8. ASSUME NEW f \in Fetches, MoveIn(f) PROVE Tidy'
  BY <1>1, <1>2, <1>8 DEF MoveIn, PublishRaises, Unwind, CallKnows
<1>9. ASSUME NEW f \in Fetches, DropBackup(f) \/ RemoveBackup(f) PROVE Tidy'
  BY <1>1, <1>9 DEF DropBackup, RemoveBackup
<1>10. ASSUME NEW f \in Fetches, RollbackLooks(f) \/ OpenLive(f) \/ Unlink(f)
                                 \/ LoseEntry(f)
      PROVE  Tidy'
  BY <1>1, <1>2, <1>10 DEF RollbackLooks, OpenLive, Unlink, LoseEntry, Unwind, CallKnows
<1>11. ASSUME NEW f \in Fetches, RemoveLive(f) \/ CannotRemoveLive(f) PROVE Tidy'
  BY <1>1, <1>11 DEF RemoveLive, CannotRemoveLive, Unwind
<1>12. ASSUME NEW f \in Fetches, Restore(f) \/ Reraise(f) PROVE Tidy'
  BY <1>1, <1>2, <1>12 DEF Restore, Reraise, Unwind, CallKnows
<1>13. ASSUME NEW f \in Fetches, Cleanup(f) PROVE Tidy'
  BY <1>1, <1>13 DEF Cleanup
<1>14. ASSUME NEW f \in Fetches, Fault(f) PROVE Tidy'
  BY <1>14 DEF Fault, DiskError, Interrupt, Crash
<1>15. CASE UNCHANGED vars
  BY <1>15 DEF vars
<1>. QED
  BY <1>3, <1>4, <1>5, <1>6, <1>7, <1>8, <1>9, <1>10, <1>11, <1>12, <1>13, <1>14, <1>15
     DEF Next, Step

(* However many calls overlap, and whatever ordinary error each of them     *)
(* ends with, no staging directory stays and no backup but the one that     *)
(* CacheRecoveryError names or one that met with a rollback's rmtree: the   *)
(* file that is missed there is no fault of the disk, so none is assumed.   *)
THEOREM CallsLeaveNoLitter ==
    ASSUME ~DiskErrors, ~Interrupts, ~Crashes
    PROVE  Spec => []NoLitter
<1>1. Init => Tidy /\ RemovalsAreKnown
  BY DEF Init, Tidy, RemovalsAreKnown, RemovesAlone, Rollback, Ended, Raised
<1>2. IInv => Known
  BY DEF IInv
<1>3. Known /\ Tidy /\ [Next]_vars => Tidy'
  BY TidyStep
<1>4. Known /\ RemovalsAreKnown /\ [Next]_vars => RemovalsAreKnown'
  BY RemovalStep DEF RemovalsAreKnown
<1>5. Tidy /\ RemovalsAreKnown => NoLitter
  BY DEF Tidy, RemovalsAreKnown, RemovesAlone, NoLitter, Exists, Ended, Raised
<1>. QED
  BY <1>1, <1>2, <1>3, <1>4, <1>5, Invariant, PTL DEF Spec
=============================================================================
