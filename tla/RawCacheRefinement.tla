------------------------- MODULE RawCacheRefinement -------------------------
(***************************************************************************)
(* RawCache implements AbsRawCache: what is live, and what is in the       *)
(* directories that have been live, changes only as that module allows.    *)
(***************************************************************************)
EXTENDS RawCacheProofs

(* A step that changes nothing readers can see.                             *)
LEMMA StutterStep ==
    ASSUME Known, UNCHANGED <<live, published>>,
           \A d \in published : files'[d] = files[d] /\ pages'[d] = pages[d]
    PROVE  [Abs!Next]_(Abs!vars)
<1>1. ViewFiles' = ViewFiles /\ ViewPages' = ViewPages
  BY DEF ViewFiles, ViewPages
<1>. QED
  BY <1>1 DEF Abs!vars

(* A step that removes a file of a directory that has been published.       *)
LEMMA LoseStep ==
    ASSUME Known, UNCHANGED <<live, pages, published>>, NEW d \in published,
           \E k \in files[d] : files' = [files EXCEPT ![d] = @ \ {k}]
    PROVE  [Abs!Next]_(Abs!vars)
<1>1. PICK k \in files[d] : files' = [files EXCEPT ![d] = @ \ {k}]
  OBVIOUS
<1>2. d \in Dirs /\ files \in [Dirs -> SUBSET (0 .. MaxPages)]
  BY DEF Known, TypeOK
<1>3. ViewFiles' = [ViewFiles EXCEPT ![d] = @ \ {k}] /\ k \in ViewFiles[d]
  BY <1>1, <1>2 DEF ViewFiles
<1>4. ViewPages' = ViewPages
  BY DEF ViewPages
<1>5. Abs!Lose(d)
  BY <1>3, <1>4 DEF Abs!Lose
<1>. QED
  BY <1>2, <1>5 DEF Abs!Next

LEMMA AbsInit == Init => Abs!Init
<1> SUFFICES ASSUME Init PROVE Abs!Init
  OBVIOUS
<1> USE DirectoryNames, PageBound
<1>1. PICK n \in 0 .. MaxPages :
         pages = [d \in Dirs |-> IF d = Seed /\ live = Seed THEN n ELSE 0]
  BY DEF Init
<1>2. live \in Dirs \cup {None} /\ published = {live} \ {None}
  BY DEF Init, Dirs
<1>3. ViewPages \in [Dirs -> 0 .. MaxPages]
  BY <1>1 DEF ViewPages
<1>4. ViewFiles = [d \in Dirs |-> IF d = live THEN 0 .. ViewPages[d] ELSE {}]
  BY <1>2 DEF Init, ViewFiles, ViewPages, Dirs
<1>. QED
  BY <1>2, <1>3, <1>4 DEF Abs!Init, Abs!Whole

LEMMA AbsStep == IInv /\ [Next]_vars => [Abs!Next]_(Abs!vars)
<1> SUFFICES ASSUME Known, [Next]_vars PROVE [Abs!Next]_(Abs!vars)
  BY DEF IInv
<1>1. /\ pages \in [Dirs -> 0 .. MaxPages] /\ published \subseteq Dirs
      /\ files \in [Dirs -> SUBSET (0 .. MaxPages)]
  BY DEF Known, TypeOK
<1>2. ASSUME NEW f \in Fetches, Call(f) PROVE [Abs!Next]_(Abs!vars)
  BY <1>2, StutterStep DEF At, Goto, Call
<1>3. ASSUME NEW f \in Fetches, ReadManifest(f) PROVE [Abs!Next]_(Abs!vars)
  BY <1>3, StutterStep DEF At, Goto, ReadManifest
<1>4. ASSUME NEW f \in Fetches, CheckOutputFile(f) PROVE [Abs!Next]_(Abs!vars)
  BY <1>4, StutterStep DEF At, Goto, CheckOutputFile
<1>5. ASSUME NEW f \in Fetches, CompareRequest(f) PROVE [Abs!Next]_(Abs!vars)
  BY <1>5, StutterStep DEF At, Goto, CompareRequest
<1>6. ASSUME NEW f \in Fetches, CreateStaging(f) PROVE [Abs!Next]_(Abs!vars)
  BY <1>6, StutterStep DEF At, Goto, CreateStaging
<1>7. ASSUME NEW f \in Fetches, OpenClient(f) PROVE [Abs!Next]_(Abs!vars)
  BY <1>7, StutterStep DEF At, Goto, OpenClient
<1>8. ASSUME NEW f \in Fetches, StorePage(f) PROVE [Abs!Next]_(Abs!vars)
  <2>1. f \notin published
    BY <1>8 DEF StorePage, Known, CallKnows, BeforeManifest, At
  <2>. QED
    BY <1>8, <1>1, <2>1, StutterStep DEF StorePage
<1>9. ASSUME NEW f \in Fetches, WriteManifest(f) PROVE [Abs!Next]_(Abs!vars)
  <2>1. f \notin published
    BY <1>9 DEF WriteManifest, Known, CallKnows, BeforeManifest, At
  <2>. QED
    BY <1>9, <1>1, <2>1, StutterStep DEF WriteManifest
<1>10. ASSUME NEW f \in Fetches, FetchFails(f) PROVE [Abs!Next]_(Abs!vars)
  BY <1>10, StutterStep DEF At, Goto, FetchFails, Unwind
<1>11. ASSUME NEW f \in Fetches, ChooseBackup(f) PROVE [Abs!Next]_(Abs!vars)
  BY <1>11, StutterStep DEF At, Goto, ChooseBackup, Unwind
<1>12. ASSUME NEW f \in Fetches, LookAgain(f) PROVE [Abs!Next]_(Abs!vars)
  BY <1>12, StutterStep DEF At, Goto, LookAgain, PublishRaises, Unwind
<1>13. ASSUME NEW f \in Fetches, MoveOut(f) PROVE [Abs!Next]_(Abs!vars)
  <2>1. CASE Exists(live)
    BY <1>13, <2>1 DEF MoveOut, Abs!Next, Abs!TakeAway, ViewFiles, ViewPages, Exists
  <2>2. CASE ~Exists(live)
    BY <1>13, <2>2, StutterStep DEF MoveOut
  <2>. QED
    BY <2>1, <2>2
<1>14. ASSUME NEW f \in Fetches, SetFlag(f) PROVE [Abs!Next]_(Abs!vars)
  BY <1>14, StutterStep DEF At, Goto, SetFlag
<1>15. ASSUME NEW f \in Fetches, MoveIn(f) PROVE [Abs!Next]_(Abs!vars)
  <2>1. CASE CanRenameOnto(live)
    <3>1. Abs!PathIsFree
      BY <1>1, <2>1 DEF CanRenameOnto, Abs!PathIsFree, ViewFiles, Known, PathsAreDisjoint, Exists
    <3>2. f \notin published /\ files[f] = 0 .. pages[f] /\ f \in Dirs
      BY <1>15 DEF MoveIn, Known, CallKnows, BeforeMoveIn, Complete, At, Dirs
    <3>3. live' = f /\ published' = published \cup {f} /\ UNCHANGED <<files, pages>>
      BY <1>15, <2>1 DEF MoveIn
    <3>4. /\ ViewFiles' = [ViewFiles EXCEPT ![f] = 0 .. pages[f]]
          /\ ViewPages' = [ViewPages EXCEPT ![f] = pages[f]]
      BY <3>2, <3>3 DEF ViewFiles, ViewPages
    <3>5. pages[f] \in 0 .. MaxPages
      BY <1>1, <3>2
    <3>6. Abs!Publish(f)
      BY <3>1, <3>2, <3>3, <3>4, <3>5 DEF Abs!Publish
    <3>. QED
      BY <3>2, <3>6 DEF Abs!Next
  <2>2. CASE ~CanRenameOnto(live)
    BY <1>15, <2>2, StutterStep DEF MoveIn
  <2>. QED
    BY <2>1, <2>2
<1>16. ASSUME NEW f \in Fetches, DropBackup(f) PROVE [Abs!Next]_(Abs!vars)
  BY <1>16, StutterStep DEF At, Goto, DropBackup
<1>17. ASSUME NEW f \in Fetches, RemoveBackup(f) PROVE [Abs!Next]_(Abs!vars)
  <2>1. backup[f] \in published /\ UNCHANGED <<live, pages, published>>
    BY <1>17 DEF RemoveBackup, Known, CallKnows, PathsAreDisjoint, Exists, At
  <2>2. CASE \E k \in files[backup[f]] : files' = [files EXCEPT ![backup[f]] = @ \ {k}]
    BY <2>1, <2>2, LoseStep
  <2>3. CASE UNCHANGED files
    BY <2>1, <2>3, StutterStep
  <2>. QED
    BY <1>17, <2>2, <2>3 DEF RemoveBackup, UnlinkFrom
<1>18. ASSUME NEW f \in Fetches, RollbackLooks(f) PROVE [Abs!Next]_(Abs!vars)
  BY <1>18, StutterStep DEF At, Goto, RollbackLooks
<1>19. ASSUME NEW f \in Fetches, OpenLive(f) PROVE [Abs!Next]_(Abs!vars)
  BY <1>19, StutterStep DEF At, Goto, OpenLive, Unwind
<1>20. ASSUME NEW f \in Fetches, Unlink(f) PROVE [Abs!Next]_(Abs!vars)
  <2>1. target[f] \in published
    BY <1>20 DEF Unlink, Known, CallKnows, PathsAreDisjoint, Rollback, At
  <2>2. \E k \in files[target[f]] : files' = [files EXCEPT ![target[f]] = @ \ {k}]
    BY <1>20 DEF Unlink, UnlinkFrom
  <2>3. UNCHANGED <<live, pages, published>>
    BY <1>20 DEF Unlink
  <2>. QED
    BY <2>1, <2>2, <2>3, LoseStep
<1>lose. ASSUME NEW f \in Fetches, LoseEntry(f) PROVE [Abs!Next]_(Abs!vars)
  BY <1>lose, StutterStep DEF LoseEntry
<1>21. ASSUME NEW f \in Fetches, RemoveLive(f) PROVE [Abs!Next]_(Abs!vars)
  BY <1>21 DEF RemoveLive, Abs!Next, Abs!TakeAway, ViewFiles, ViewPages, Exists
<1>22. ASSUME NEW f \in Fetches, CannotRemoveLive(f) PROVE [Abs!Next]_(Abs!vars)
  BY <1>22, StutterStep DEF At, Goto, CannotRemoveLive, Unwind
<1>23. ASSUME NEW f \in Fetches, Restore(f) PROVE [Abs!Next]_(Abs!vars)
  <2>1. CASE CanRenameOnto(live)
    <3>1. Abs!PathIsFree
      BY <1>1, <2>1 DEF CanRenameOnto, Abs!PathIsFree, ViewFiles, Known, PathsAreDisjoint, Exists
    <3>2. backup[f] \in published /\ backup[f] \in Dirs
      BY <1>23 DEF Restore, Known, TypeOK, CallKnows, PathsAreDisjoint, Rollback, Exists, At
    <3>3. live' = backup[f] /\ UNCHANGED <<files, pages, published>>
      BY <1>23, <2>1 DEF Restore
    <3>4. UNCHANGED <<ViewFiles, ViewPages>>
      BY <3>3 DEF ViewFiles, ViewPages
    <3>5. Abs!BringBack(backup[f])
      BY <3>1, <3>2, <3>3, <3>4 DEF Abs!BringBack
    <3>. QED
      BY <3>2, <3>5 DEF Abs!Next
  <2>2. CASE ~CanRenameOnto(live)
    BY <1>23, <2>2, StutterStep DEF Restore
  <2>. QED
    BY <2>1, <2>2
<1>24. ASSUME NEW f \in Fetches, Reraise(f) PROVE [Abs!Next]_(Abs!vars)
  BY <1>24, StutterStep DEF At, Goto, Reraise
<1>25. ASSUME NEW f \in Fetches, Cleanup(f) PROVE [Abs!Next]_(Abs!vars)
  <2>1. f \in staged => f \notin published
    BY DEF Known, PathsAreDisjoint
  <2>. QED
    BY <1>25, <1>1, <2>1, StutterStep DEF Cleanup
<1>26. ASSUME NEW f \in Fetches, DiskError(f) PROVE [Abs!Next]_(Abs!vars)
  BY <1>26, StutterStep DEF At, Goto, DiskError, Raise, PublishRaises, Unwind
<1>27. ASSUME NEW f \in Fetches, Interrupt(f) PROVE [Abs!Next]_(Abs!vars)
  BY <1>27, StutterStep DEF At, Goto, Interrupt, Raise, PublishRaises, Unwind
<1>28. ASSUME NEW f \in Fetches, Crash(f) PROVE [Abs!Next]_(Abs!vars)
  BY <1>28, StutterStep DEF At, Goto, Crash
<1>29. CASE UNCHANGED vars
  BY <1>29, StutterStep DEF vars
<1>30. QED
  BY <1>2, <1>3, <1>4, <1>5, <1>6, <1>7, <1>8, <1>9, <1>10, <1>11, <1>12, <1>13, <1>14,
     <1>15, <1>16, <1>17, <1>18, <1>19, <1>20, <1>21, <1>22, <1>23, <1>24, <1>25, <1>26,
     <1>27, <1>28, <1>29, <1>lose DEF Next, Step, Fault

(* Readers of the live path never see a snapshot that is being written:     *)
(* every behaviour of the fetches, seen from the live path, is one of the   *)
(* abstract cache.                                                          *)
THEOREM Implementation == Spec => ReadersSeeSnapshots
  BY AbsInit, AbsStep, Invariant, PTL DEF Spec, Abs!Spec, ReadersSeeSnapshots
=============================================================================
