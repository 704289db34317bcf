------------------------- MODULE DatasetBuildProofs -------------------------
(***************************************************************************)
(* Proofs about DatasetBuild, for any number of builds, any raw snapshots  *)
(* and, unless a theorem says otherwise, a raw cache that is refreshed at  *)
(* any moment.                                                             *)
(***************************************************************************)
EXTENDS DatasetBuild, FiniteSetTheorems, WellFoundedInduction, TLAPS

-----------------------------------------------------------------------------
(* Types.                                                                   *)

LEMMA RawTypeStep ==
    ASSUME TypeOK, Refresh
    PROVE  TypeOK'
<1> USE BuildEnvironment DEF TypeOK, Refresh, readVars
<1>1. ASSUME NEW d \in Dirs, Raw!Publish(d) PROVE TypeOK'
  <2>1. PICK n \in 0 .. MaxPages :
           pages' = [pages EXCEPT ![d] = n] /\ files' = [files EXCEPT ![d] = 0 .. n]
    BY <1>1 DEF Raw!Publish
  <2>2. 0 .. n \in SUBSET (0 .. MaxPages)
    OBVIOUS
  <2>. QED
    BY <1>1, <2>1, <2>2 DEF Raw!Publish
<1>2. ASSUME NEW d \in Dirs, Raw!BringBack(d) PROVE TypeOK'
  BY <1>2 DEF Raw!BringBack
<1>3. ASSUME NEW d \in Dirs, Raw!Lose(d) PROVE TypeOK'
  <2>1. PICK k \in files[d] : files' = [files EXCEPT ![d] = @ \ {k}]
    BY <1>3 DEF Raw!Lose
  <2>2. files' \in [Dirs -> SUBSET (0 .. MaxPages)]
    BY <2>1
  <2>. QED
    BY <1>3, <2>2 DEF Raw!Lose
<1>4. CASE Raw!TakeAway
  BY <1>4 DEF Raw!TakeAway
<1>. QED
  BY <1>1, <1>2, <1>3, <1>4 DEF Raw!Next

LEMMA TypeInit == Init => TypeOK
<1> SUFFICES ASSUME Init PROVE TypeOK
  OBVIOUS
<1>1. files \in [Dirs -> SUBSET (0 .. MaxPages)]
  <2>1. pages \in [Dirs -> 0 .. MaxPages]
    BY DEF Init, Raw!Init
  <2>2. \A d \in Dirs : 0 .. pages[d] \in SUBSET (0 .. MaxPages)
    BY <2>1, BuildEnvironment
  <2>. QED
    BY <2>2 DEF Init, Raw!Init, Raw!Whole
<1>. QED
  BY <1>1, BuildEnvironment DEF Init, Raw!Init, TypeOK, Places

LEMMA TypeStep ==
    ASSUME TypeOK, [Next]_vars
    PROVE  TypeOK'
<1> USE BuildEnvironment
<1> USE DEF TypeOK, Places, Ended, Goto, At, rawVars, readVars
<1>0. \A d \in Dirs, k \in 1 .. MaxPages : Content[d][k] \in Pages
  BY DEF Pages
<1>1. ASSUME NEW b \in Builds, Call(b) PROVE TypeOK'
  BY <1>1 DEF Call
<1>2. ASSUME NEW b \in Builds, ReadManifest(b) PROVE TypeOK'
  <2>1. CASE IsFile(0)
    <3>1. manifest' = [manifest EXCEPT ![b] = live] /\ pc' = [pc EXCEPT ![b] = "check"]
      BY <1>2, <2>1 DEF ReadManifest
    <3>. QED
      BY <1>2, <3>1 DEF ReadManifest
  <2>2. CASE ~IsFile(0)
    BY <1>2, <2>2 DEF ReadManifest
  <2>. QED
    BY <2>1, <2>2
<1>3. ASSUME NEW b \in Builds, CheckOutputFile(b) PROVE TypeOK'
  <2>1. CASE IsFile(checked[b] + 1)
    <3>1. checked' = [checked EXCEPT ![b] = @ + 1] /\ UNCHANGED pc
      BY <1>3, <2>1 DEF CheckOutputFile
    <3>2. checked[b] + 1 \in 0 .. MaxPages
      BY <2>1 DEF IsFile
    <3>. QED
      BY <1>3, <3>1, <3>2 DEF CheckOutputFile
  <2>2. CASE ~IsFile(checked[b] + 1)
    BY <1>3, <2>2 DEF CheckOutputFile
  <2>. QED
    BY <2>1, <2>2
<1>4. ASSUME NEW b \in Builds, HashManifest(b) PROVE TypeOK'
  <2>1. CASE IsFile(0)
    <3>1. sha' = [sha EXCEPT ![b] = live] /\ pc' = [pc EXCEPT ![b] = "snapshot"]
      BY <1>4, <2>1 DEF HashManifest
    <3>2. live \in Dirs
      BY <2>1 DEF IsFile
    <3>. QED
      BY <1>4, <3>1, <3>2 DEF HashManifest
  <2>2. CASE ~IsFile(0)
    BY <1>4, <2>2 DEF HashManifest
  <2>. QED
    BY <2>1, <2>2
<1>5. ASSUME NEW b \in Builds, HashHead(b) PROVE TypeOK'
  <2>1. CASE IsFile(0)
    <3>1. head' = [head EXCEPT ![b] = live] /\ pc' = [pc EXCEPT ![b] = "hash"]
      BY <1>5, <2>1 DEF HashHead
    <3>2. live \in Dirs
      BY <2>1 DEF IsFile
    <3>. QED
      BY <1>5, <3>1, <3>2 DEF HashHead
  <2>2. CASE ~IsFile(0)
    BY <1>5, <2>2 DEF HashHead
  <2>. QED
    BY <2>1, <2>2
<1>6. ASSUME NEW b \in Builds, HashPage(b) PROVE TypeOK'
  <2>1. CASE IsFile(Len(hashed[b]) + 1)
    <3>1. hashed[b] \in Seq(Pages) /\ Len(hashed[b]) + 1 \in 1 .. MaxPages /\ live \in Dirs
      BY <2>1 DEF IsFile
    <3>2. Append(hashed[b], Content[live][Len(hashed[b]) + 1]) \in Seq(Pages)
      BY <1>0, <3>1
    <3>. QED
      BY <1>6, <2>1, <3>2 DEF HashPage
  <2>2. CASE ~IsFile(Len(hashed[b]) + 1)
    BY <1>6, <2>2 DEF HashPage
  <2>. QED
    BY <2>1, <2>2
<1>7. ASSUME NEW b \in Builds, UseDataset(b) PROVE TypeOK'
  BY <1>7 DEF UseDataset
<1>8. ASSUME NEW b \in Builds, NoDatasetYet(b) PROVE TypeOK'
  BY <1>8 DEF NoDatasetYet
<1>9. ASSUME NEW b \in Builds, ReadPage(b) PROVE TypeOK'
  <2>1. CASE IsFile(Len(read[b]) + 1)
    <3>1. read[b] \in Seq(Pages) /\ Len(read[b]) + 1 \in 1 .. MaxPages /\ live \in Dirs
      BY <2>1 DEF IsFile
    <3>2. Append(read[b], Content[live][Len(read[b]) + 1]) \in Seq(Pages)
      BY <1>0, <3>1
    <3>. QED
      BY <1>9, <2>1, <3>2 DEF ReadPage
  <2>2. CASE ~IsFile(Len(read[b]) + 1)
    BY <1>9, <2>2 DEF ReadPage
  <2>. QED
    BY <2>1, <2>2
<1>10. ASSUME NEW b \in Builds, Reconcile(b) PROVE TypeOK'
  <2>1. CASE NoDuplicates(read[b]) /\ CrossCheck(b)
    <3>1. staged' = staged \cup {b} /\ pc' = [pc EXCEPT ![b] = "write"]
      BY <1>10, <2>1 DEF Reconcile
    <3>. QED
      BY <1>10, <3>1 DEF Reconcile
  <2>2. CASE ~(NoDuplicates(read[b]) /\ CrossCheck(b))
    BY <1>10, <2>2 DEF Reconcile
  <2>. QED
    BY <2>1, <2>2
<1>11. ASSUME NEW b \in Builds, WriteAndLook(b) PROVE TypeOK'
  BY <1>11 DEF WriteAndLook
<1>12. ASSUME NEW b \in Builds, Rename(b) PROVE TypeOK'
  BY <1>12 DEF Rename
<1>13. ASSUME NEW b \in Builds, Cleanup(b) PROVE TypeOK'
  BY <1>13 DEF Cleanup
<1>14. ASSUME NEW b \in Builds, DiskError(b) PROVE TypeOK'
  BY <1>14 DEF DiskError
<1>15. ASSUME NEW b \in Builds, Stop(b) PROVE TypeOK'
  BY <1>15 DEF Stop
<1>16. CASE Refresh
  BY <1>16, RawTypeStep
<1>17. CASE UNCHANGED vars
  BY <1>17 DEF vars
<1>18. QED
  BY <1>1, <1>2, <1>3, <1>4, <1>5, <1>6, <1>7, <1>8, <1>9, <1>10, <1>11, <1>12, <1>13, <1>14,
     <1>15, <1>16, <1>17 DEF Next, Step

(* Every variable keeps its type, whatever happens to the raw cache.        *)
THEOREM TypeCorrect == Spec => []TypeOK
<1>1. TypeOK /\ [Next]_vars => TypeOK'
  BY TypeStep
<1>. QED
  BY TypeInit, <1>1, PTL DEF Spec

-----------------------------------------------------------------------------
(* The store of processed datasets.                                         *)

(* Only Rename changes the store.                                           *)
LEMMA StoreStep ==
    ASSUME [Next]_vars
    PROVE  UNCHANGED store \/ \E b \in Builds : Rename(b) /\ ~IsPublished(DatasetId(b))
  BY DEF Next, Step, Call, ReadManifest, CheckOutputFile, HashManifest, HashHead, HashPage,
         UseDataset, NoDatasetYet, ReadPage, Reconcile, WriteAndLook, Rename, Cleanup, DiskError,
         Stop, Refresh, vars

(* The datasets are an immutable store: a dataset that has been published   *)
(* is never changed, replaced or removed by a later or concurrent build.    *)
THEOREM DatasetsAreImmutable == Spec => PublishedDatasetsStay
<1>1. Init => Store!Init
  BY DEF Init, Store!Init
<1>2. [Next]_vars => [Store!Next]_store
  <2> SUFFICES ASSUME [Next]_vars, store' # store PROVE Store!Next
    OBVIOUS
  <2>1. PICK b \in Builds : Rename(b) /\ ~IsPublished(DatasetId(b))
    BY StoreStep
  <2>2. store' = [id \in DOMAIN store \cup {DatasetId(b)} |->
                     IF id = DatasetId(b) THEN Dataset(b) ELSE store[id]]
    BY <2>1 DEF Rename
  <2>3. DatasetId(b) \in DOMAIN store' /\ store'[DatasetId(b)] = Dataset(b)
    BY <2>2
  <2>4. Store!Publish(DatasetId(b), store'[DatasetId(b)])
    BY <2>1, <2>2, <2>3 DEF Store!Publish, IsPublished
  <2>. QED
    BY <2>3, <2>4 DEF Store!Next
<1>. QED
  BY <1>1, <1>2, PTL DEF Spec, Store!Spec, PublishedDatasetsStay

-----------------------------------------------------------------------------
(* Issue numbers.                                                           *)

(* Pages that passed _reject_duplicates stay as they were until they are    *)
(* published.                                                               *)
Reconciled == \A b \in Builds : pc[b] \in {"write", "rename"} => NoDuplicates(read[b])

LEMMA ReconciledStep ==
    ASSUME TypeOK, Reconciled, [Next]_vars
    PROVE  Reconciled'
<1> SUFFICES ASSUME NEW c \in Builds, pc'[c] \in {"write", "rename"}
             PROVE  NoDuplicates(read'[c])
  BY DEF Reconciled
<1> USE DEF TypeOK, Reconciled, Ended, Goto, At, rawVars, readVars
<1>1. ASSUME NEW b \in Builds, Call(b) \/ ReadManifest(b) \/ CheckOutputFile(b)
                 \/ HashManifest(b) \/ HashHead(b) \/ HashPage(b) \/ UseDataset(b)
                 \/ NoDatasetYet(b)
      PROVE  NoDuplicates(read'[c])
  BY <1>1 DEF Call, ReadManifest, CheckOutputFile, HashManifest, HashHead, HashPage, UseDataset,
              NoDatasetYet
<1>2. ASSUME NEW b \in Builds, ReadPage(b) PROVE NoDuplicates(read'[c])
  BY <1>2 DEF ReadPage
<1>3. ASSUME NEW b \in Builds, Reconcile(b) PROVE NoDuplicates(read'[c])
  BY <1>3 DEF Reconcile
<1>4. ASSUME NEW b \in Builds, WriteAndLook(b) \/ Rename(b) \/ Cleanup(b)
      PROVE  NoDuplicates(read'[c])
  BY <1>4 DEF WriteAndLook, Rename, Cleanup
<1>5. ASSUME NEW b \in Builds, DiskError(b) \/ Stop(b) PROVE NoDuplicates(read'[c])
  BY <1>5 DEF DiskError, Stop
<1>6. CASE Refresh
  BY <1>6 DEF Refresh
<1>7. CASE UNCHANGED vars
  BY <1>7 DEF vars
<1>. QED
  BY <1>1, <1>2, <1>3, <1>4, <1>5, <1>6, <1>7 DEF Next, Step

LEMMA UniqueStep ==
    ASSUME Reconciled, NumbersAreUnique, [Next]_vars
    PROVE  NumbersAreUnique'
<1>1. CASE UNCHANGED store
  BY <1>1 DEF NumbersAreUnique
<1>2. CASE \E b \in Builds : Rename(b) /\ ~IsPublished(DatasetId(b))
  <2>1. PICK b \in Builds : Rename(b) /\ ~IsPublished(DatasetId(b))
    BY <1>2
  <2>2. store' = [id \in DOMAIN store \cup {DatasetId(b)} |->
                     IF id = DatasetId(b) THEN Dataset(b) ELSE store[id]]
    BY <2>1 DEF Rename
  <2>3. NoDuplicates(read[b])
    BY <2>1 DEF Rename, Reconciled, At
  <2>4. \A x, y \in Dataset(b).issues : x.number = y.number => x = y
    BY <2>3 DEF Dataset, IssuesOn, NoDuplicates
  <2>. QED
    BY <2>2, <2>4 DEF NumbersAreUnique
<1>. QED
  BY <1>1, <1>2, StoreStep

(* No dataset has two issues of one number, even if it was built from the   *)
(* pages of different snapshots.                                            *)
THEOREM DatasetNumbersAreUnique == Spec => []NumbersAreUnique
<1>1. Init => Reconciled /\ NumbersAreUnique
  BY DEF Init, Reconciled, NumbersAreUnique
<1>2. TypeOK /\ Reconciled /\ [Next]_vars => Reconciled'
  BY ReconciledStep
<1>3. Reconciled /\ NumbersAreUnique /\ [Next]_vars => NumbersAreUnique'
  BY UniqueStep
<1>. QED
  BY TypeCorrect, <1>1, <1>2, <1>3, PTL DEF Spec

-----------------------------------------------------------------------------
(* Lineage, while the raw cache is left alone.                              *)

(* What has been hashed, and what has been read, is a prefix of the live    *)
(* snapshot; whoever is about to publish has hashed and read all of it.     *)
ReadsLiveSnapshot ==
    \A b \in Builds :
        /\ \A k \in 1 .. Len(hashed[b]) : hashed[b][k] = Content[live][k]
        /\ \A k \in 1 .. Len(read[b]) : read[b][k] = Content[live][k]
        /\ pc[b] \in {"read", "write", "rename"} => Len(hashed[b]) = pages[manifest[b]]
        /\ pc[b] \in {"write", "rename"} => Len(read[b]) = pages[manifest[b]]

LEMMA ReadsStep ==
    ASSUME ~RawChanges, TypeOK, ReadsLiveSnapshot, [Next]_vars
    PROVE  ReadsLiveSnapshot'
<1> USE DEF TypeOK, ReadsLiveSnapshot, Ended, Goto, At, rawVars, readVars
<1>1. ASSUME NEW b \in Builds, Call(b) \/ CheckOutputFile(b) \/ HashManifest(b) \/ HashHead(b)
      PROVE  ReadsLiveSnapshot'
  <2>1. pc'[b] \notin {"read", "write", "rename"} /\ \A c \in Builds \ {b} : pc'[c] = pc[c]
    BY <1>1 DEF Call, CheckOutputFile, HashManifest, HashHead
  <2>2. UNCHANGED <<live, pages, manifest, hashed, read>>
    BY <1>1 DEF Call, CheckOutputFile, HashManifest, HashHead
  <2>. QED
    BY <2>1, <2>2
<1>2. ASSUME NEW b \in Builds, ReadManifest(b) PROVE ReadsLiveSnapshot'
  <2>1. pc'[b] \notin {"read", "write", "rename"} /\ \A c \in Builds \ {b} : pc'[c] = pc[c]
    BY <1>2 DEF ReadManifest
  <2>2. \A c \in Builds \ {b} : manifest'[c] = manifest[c]
    BY <1>2 DEF ReadManifest
  <2>3. UNCHANGED <<live, pages, hashed, read>>
    BY <1>2 DEF ReadManifest
  <2>4. \A c \in Builds : pc'[c] \in {"read", "write", "rename"}
                             => pc'[c] = pc[c] /\ manifest'[c] = manifest[c]
    BY <2>1, <2>2
  <2> HIDE DEF TypeOK
  <2>. QED
    BY <2>3, <2>4
<1>3. ASSUME NEW b \in Builds, HashPage(b) PROVE ReadsLiveSnapshot'
  <2>1. CASE IsFile(Len(hashed[b]) + 1)
    <3> DEFINE k == Len(hashed[b]) + 1
    <3>1. hashed' = [hashed EXCEPT ![b] = Append(@, Content[live][k])] /\ UNCHANGED pc
      BY <1>3, <2>1 DEF HashPage
    <3>2. hashed[b] \in Seq(Pages) /\ pc[b] = "hash"
      BY <1>3 DEF HashPage
    <3>3. Len(hashed'[b]) = k /\ hashed'[b][k] = Content[live][k]
      BY <3>1, <3>2
    <3>4. \A j \in 1 .. Len(hashed[b]) : hashed'[b][j] = hashed[b][j]
      BY <3>1, <3>2
    <3>5. \A j \in 1 .. Len(hashed'[b]) : hashed'[b][j] = Content[live][j]
      <4> SUFFICES ASSUME NEW j \in 1 .. k PROVE hashed'[b][j] = Content[live][j]
        BY <3>3
      <4>1. j = k \/ j \in 1 .. Len(hashed[b])
        BY <3>2
      <4>. QED
        BY <3>3, <3>4, <4>1
    <3>6. \A c \in Builds \ {b} : hashed'[c] = hashed[c]
      BY <3>1
    <3>7. UNCHANGED <<live, pages, manifest, read>>
      BY <1>3 DEF HashPage
    <3>. QED
      BY <3>1, <3>2, <3>5, <3>6, <3>7
  <2>2. CASE ~IsFile(Len(hashed[b]) + 1)
    BY <1>3, <2>2 DEF HashPage
  <2>. QED
    BY <2>1, <2>2
<1>4. ASSUME NEW b \in Builds, UseDataset(b) \/ NoDatasetYet(b) PROVE ReadsLiveSnapshot'
  BY <1>4 DEF UseDataset, NoDatasetYet
<1>5. ASSUME NEW b \in Builds, ReadPage(b) PROVE ReadsLiveSnapshot'
  <2>1. CASE IsFile(Len(read[b]) + 1)
    <3> DEFINE k == Len(read[b]) + 1
    <3>1. read' = [read EXCEPT ![b] = Append(@, Content[live][k])] /\ UNCHANGED pc
      BY <1>5, <2>1 DEF ReadPage
    <3>2. read[b] \in Seq(Pages) /\ pc[b] = "read"
      BY <1>5 DEF ReadPage
    <3>3. Len(read'[b]) = k /\ read'[b][k] = Content[live][k]
      BY <3>1, <3>2
    <3>4. \A j \in 1 .. Len(read[b]) : read'[b][j] = read[b][j]
      BY <3>1, <3>2
    <3>5. \A j \in 1 .. Len(read'[b]) : read'[b][j] = Content[live][j]
      <4> SUFFICES ASSUME NEW j \in 1 .. k PROVE read'[b][j] = Content[live][j]
        BY <3>3
      <4>1. j = k \/ j \in 1 .. Len(read[b])
        BY <3>2
      <4>. QED
        BY <3>3, <3>4, <4>1
    <3>6. \A c \in Builds \ {b} : read'[c] = read[c]
      BY <3>1
    <3>7. UNCHANGED <<live, pages, manifest, hashed>>
      BY <1>5 DEF ReadPage
    <3>. QED
      BY <3>1, <3>2, <3>5, <3>6, <3>7
  <2>2. CASE ~IsFile(Len(read[b]) + 1)
    BY <1>5, <2>2 DEF ReadPage
  <2>. QED
    BY <2>1, <2>2
<1>6. ASSUME NEW b \in Builds, Reconcile(b) PROVE ReadsLiveSnapshot'
  <2>1. pc' = [pc EXCEPT ![b] = "write"] \/ pc' = [pc EXCEPT ![b] = "error"]
    BY <1>6 DEF Reconcile
  <2>2. pc[b] = "read" /\ Len(read[b]) = pages[manifest[b]]
    BY <1>6 DEF Reconcile
  <2>. QED
    BY <1>6, <2>1, <2>2 DEF Reconcile
<1>7. ASSUME NEW b \in Builds, WriteAndLook(b) \/ Rename(b) \/ Cleanup(b)
      PROVE  ReadsLiveSnapshot'
  BY <1>7 DEF WriteAndLook, Rename, Cleanup
<1>8. ASSUME NEW b \in Builds, DiskError(b) \/ Stop(b) PROVE ReadsLiveSnapshot'
  BY <1>8 DEF DiskError, Stop
<1>9. CASE Refresh
  BY <1>9 DEF Refresh
<1>10. CASE UNCHANGED vars
  BY <1>10 DEF vars
<1>. QED
  BY <1>1, <1>2, <1>3, <1>4, <1>5, <1>6, <1>7, <1>8, <1>9, <1>10 DEF Next, Step

LEMMA LineageStep ==
    ASSUME TypeOK, ReadsLiveSnapshot, LineageIsTrue, [Next]_vars
    PROVE  LineageIsTrue'
<1>1. CASE UNCHANGED store
  BY <1>1 DEF LineageIsTrue
<1>2. CASE \E b \in Builds : Rename(b) /\ ~IsPublished(DatasetId(b))
  <2>1. PICK b \in Builds : Rename(b) /\ ~IsPublished(DatasetId(b))
    BY <1>2
  <2>2. store' = [id \in DOMAIN store \cup {DatasetId(b)} |->
                     IF id = DatasetId(b) THEN Dataset(b) ELSE store[id]]
    BY <2>1 DEF Rename
  <2>3. pc[b] = "rename"
    BY <2>1 DEF Rename, At
  <2>4. read[b] \in Seq(Pages) /\ hashed[b] \in Seq(Pages)
    BY DEF TypeOK
  <2>5. Len(read[b]) = Len(hashed[b])
    BY <2>3 DEF ReadsLiveSnapshot
  <2>6. \A k \in 1 .. Len(read[b]) : read[b][k] = hashed[b][k]
    BY <2>5 DEF ReadsLiveSnapshot
  <2>7. read[b] = hashed[b]
    BY <2>4, <2>5, <2>6
  <2>8. Dataset(b).issues = IssuesOn(DatasetId(b).snapshot.pages)
    BY <2>7 DEF Dataset, DatasetId, Snapshot
  <2>. QED
    BY <2>2, <2>8 DEF LineageIsTrue
<1>. QED
  BY <1>1, <1>2, StoreStep

(* As long as the raw cache is not refreshed, a dataset's issues are those  *)
(* of the snapshot its id is made from, also when builds overlap, fail or   *)
(* are killed.                                                              *)
THEOREM DatasetLineageIsTrue ==
    ASSUME ~RawChanges
    PROVE  Spec => []LineageIsTrue
<1>1. Init => ReadsLiveSnapshot /\ LineageIsTrue
  BY DEF Init, ReadsLiveSnapshot, LineageIsTrue
<1>2. TypeOK /\ ReadsLiveSnapshot /\ [Next]_vars => ReadsLiveSnapshot'
  BY ReadsStep
<1>3. TypeOK /\ ReadsLiveSnapshot /\ LineageIsTrue /\ [Next]_vars => LineageIsTrue'
  BY LineageStep
<1>. QED
  BY TypeCorrect, <1>1, <1>2, <1>3, PTL DEF Spec

-----------------------------------------------------------------------------
(* How builds end, while the raw cache is left alone and nothing fails.     *)

(* The live snapshot is whole and has no issue twice.                       *)
Sound == live # None /\ files[live] = 0 .. pages[live] /\ NoDuplicates(Contents(live))

SomeoneBuilt == \E c \in Builds : pc[c] = "ok"

(* A build of a sound snapshot goes wrong only after another has published. *)
GoesAsFarAsItShould(b) ==
    /\ pc[b] \notin {"corrupt", "stopped"}
    /\ pc[b] \in {"cleanup", "error"} => SomeoneBuilt
    /\ pc[b] \notin {"idle", "manifest"} => manifest[b] = live
    /\ pc[b] \notin {"idle", "manifest", "check"} => sha[b] = live

InOrder ==
    /\ \A b \in Builds : b \in staged => pc[b] \in {"write", "rename", "cleanup"}
    /\ Sound =>
          /\ \A b \in Builds : GoesAsFarAsItShould(b)
          /\ \A id \in DOMAIN store : store[id].sha = live /\ SomeoneBuilt

(* A build that has published stays so.                                     *)
LEMMA BuiltStays ==
    ASSUME TypeOK, [Next]_vars
    PROVE  SomeoneBuilt => SomeoneBuilt'
<1> SUFFICES ASSUME NEW c \in Builds, pc[c] = "ok" PROVE pc'[c] = "ok"
  BY DEF SomeoneBuilt
<1> USE DEF TypeOK, Ended, Goto, At, rawVars, readVars
<1>1. ASSUME NEW b \in Builds, Call(b) \/ ReadManifest(b) \/ CheckOutputFile(b)
                 \/ HashManifest(b) \/ HashHead(b) \/ HashPage(b) \/ UseDataset(b)
                 \/ NoDatasetYet(b)
      PROVE  pc'[c] = "ok"
  BY <1>1 DEF Call, ReadManifest, CheckOutputFile, HashManifest, HashHead, HashPage, UseDataset,
              NoDatasetYet
<1>2. ASSUME NEW b \in Builds, ReadPage(b) \/ Reconcile(b) \/ WriteAndLook(b) \/ Rename(b)
                 \/ Cleanup(b)
      PROVE  pc'[c] = "ok"
  BY <1>2 DEF ReadPage, Reconcile, WriteAndLook, Rename, Cleanup
<1>3. ASSUME NEW b \in Builds, DiskError(b) \/ Stop(b) PROVE pc'[c] = "ok"
  BY <1>3 DEF DiskError, Stop
<1>4. CASE Refresh \/ UNCHANGED vars
  BY <1>4 DEF Refresh, vars
<1>. QED
  BY <1>1, <1>2, <1>3, <1>4 DEF Next, Step

(* What is read of a sound snapshot passes the checks.                      *)
LEMMA SoundPagesPass ==
    ASSUME TypeOK, ReadsLiveSnapshot, Sound, NEW b \in Builds,
           manifest[b] = live, Len(read[b]) = pages[live]
    PROVE  NoDuplicates(read[b]) /\ CrossCheck(b)
<1>1. read[b] \in Seq(Pages)
  BY DEF TypeOK
<1>2. read[b] = Contents(live)
  BY <1>1 DEF ReadsLiveSnapshot, Contents
<1>. QED
  BY <1>2 DEF Sound, CrossCheck

(* Every step keeps the order.                                              *)
LEMMA InOrderStep ==
    ASSUME ~RawChanges, ~DiskErrors, ~Stops, TypeOK, ReadsLiveSnapshot, InOrder, [Next]_vars
    PROVE  InOrder'
<1>1. UNCHANGED rawVars
  BY DEF Next, Step, Call, ReadManifest, CheckOutputFile, HashManifest, HashHead, HashPage,
         UseDataset, NoDatasetYet, ReadPage, Reconcile, WriteAndLook, Rename, Cleanup, DiskError,
         Stop, Refresh, vars
<1>2. Sound' => Sound
  <2>1. live' = live /\ files' = files /\ pages' = pages
    BY <1>1 DEF rawVars
  <2>2. Contents(live)' = Contents(live)
    BY <2>1 DEF Contents
  <2>. QED
    BY <2>1, <2>2 DEF Sound, NoDuplicates
<1> USE DEF TypeOK, Ended, Goto, At, rawVars, readVars
<1>3. SomeoneBuilt => SomeoneBuilt'
  BY BuiltStays
<1>4. ASSUME NEW b \in Builds, Call(b) PROVE InOrder'
  BY <1>1, <1>2, <1>3, <1>4 DEF InOrder, GoesAsFarAsItShould, Call
<1>5. ASSUME NEW b \in Builds, ReadManifest(b) PROVE InOrder'
  <2>1. Sound => IsFile(0)
    BY DEF Sound, IsFile
  <2>. QED
    BY <1>1, <1>2, <1>3, <1>5, <2>1 DEF InOrder, GoesAsFarAsItShould, ReadManifest
<1>6. ASSUME NEW b \in Builds, CheckOutputFile(b) PROVE InOrder'
  <2>1. Sound => IsFile(checked[b] + 1)
    <3> SUFFICES ASSUME Sound PROVE IsFile(checked[b] + 1)
      OBVIOUS
    <3>1. manifest[b] = live
      BY <1>6 DEF InOrder, GoesAsFarAsItShould, CheckOutputFile
    <3>2. checked[b] < pages[live]
      BY <1>6, <3>1 DEF CheckOutputFile
    <3>3. checked[b] \in 0 .. MaxPages /\ live \in Dirs /\ pages[live] \in 0 .. MaxPages
      BY DEF Sound
    <3>4. checked[b] + 1 \in 0 .. pages[live]
      BY <3>2, <3>3, BuildEnvironment
    <3>. QED
      BY <3>4 DEF Sound, IsFile
  <2>. QED
    BY <1>1, <1>2, <1>3, <1>6, <2>1 DEF InOrder, GoesAsFarAsItShould, CheckOutputFile
<1>7. ASSUME NEW b \in Builds, HashManifest(b) PROVE InOrder'
  <2>1. Sound => IsFile(0)
    BY DEF Sound, IsFile
  <2>. QED
    BY <1>1, <1>2, <1>3, <1>7, <2>1 DEF InOrder, GoesAsFarAsItShould, HashManifest
<1>8. ASSUME NEW b \in Builds, HashHead(b) PROVE InOrder'
  <2>1. Sound => IsFile(0)
    BY DEF Sound, IsFile
  <2>. QED
    BY <1>1, <1>2, <1>3, <1>8, <2>1 DEF InOrder, GoesAsFarAsItShould, HashHead
<1>9. ASSUME NEW b \in Builds, HashPage(b) PROVE InOrder'
  <2>1. Sound => IsFile(Len(hashed[b]) + 1)
    <3> SUFFICES ASSUME Sound PROVE IsFile(Len(hashed[b]) + 1)
      OBVIOUS
    <3>1. manifest[b] = live
      BY <1>9 DEF InOrder, GoesAsFarAsItShould, HashPage
    <3>2. Len(hashed[b]) + 1 <= pages[live]
      BY <1>9, <3>1 DEF HashPage
    <3>3. Len(hashed[b]) \in Nat /\ live \in Dirs /\ pages[live] \in 0 .. MaxPages
      BY DEF Sound
    <3>4. Len(hashed[b]) + 1 \in 0 .. pages[live]
      BY <3>2, <3>3, BuildEnvironment
    <3>. QED
      BY <3>4 DEF Sound, IsFile
  <2>. QED
    BY <1>1, <1>2, <1>3, <1>9, <2>1 DEF InOrder, GoesAsFarAsItShould, HashPage
<1>10. ASSUME NEW b \in Builds, UseDataset(b) PROVE InOrder'
  <2>1. Sound => store[DatasetId(b)].sha = sha[b]
    BY <1>10 DEF InOrder, GoesAsFarAsItShould, UseDataset, IsPublished
  <2>. QED
    BY <1>1, <1>2, <1>3, <1>10, <2>1 DEF InOrder, GoesAsFarAsItShould, UseDataset
<1>11. ASSUME NEW b \in Builds, NoDatasetYet(b) PROVE InOrder'
  BY <1>1, <1>2, <1>3, <1>11 DEF InOrder, GoesAsFarAsItShould, NoDatasetYet
<1>12. ASSUME NEW b \in Builds, ReadPage(b) PROVE InOrder'
  <2>1. Sound => IsFile(Len(read[b]) + 1)
    <3> SUFFICES ASSUME Sound PROVE IsFile(Len(read[b]) + 1)
      OBVIOUS
    <3>1. manifest[b] = live
      BY <1>12 DEF InOrder, GoesAsFarAsItShould, ReadPage
    <3>2. Len(read[b]) + 1 <= pages[live]
      BY <1>12, <3>1 DEF ReadPage
    <3>3. Len(read[b]) \in Nat /\ live \in Dirs /\ pages[live] \in 0 .. MaxPages
      BY DEF Sound
    <3>4. Len(read[b]) + 1 \in 0 .. pages[live]
      BY <3>2, <3>3, BuildEnvironment
    <3>. QED
      BY <3>4 DEF Sound, IsFile
  <2>. QED
    BY <1>1, <1>2, <1>3, <1>12, <2>1 DEF InOrder, GoesAsFarAsItShould, ReadPage
<1>13. ASSUME NEW b \in Builds, Reconcile(b) PROVE InOrder'
  <2>1. Sound => NoDuplicates(read[b]) /\ CrossCheck(b)
    BY <1>13, SoundPagesPass DEF InOrder, GoesAsFarAsItShould, Reconcile
  <2>2. CASE NoDuplicates(read[b]) /\ CrossCheck(b)
    <3>1. staged' = staged \cup {b} /\ pc' = [pc EXCEPT ![b] = "write"]
      BY <1>13, <2>2 DEF Reconcile
    <3>. QED
      BY <1>1, <1>2, <1>3, <1>13, <3>1 DEF InOrder, GoesAsFarAsItShould, Reconcile
  <2>3. CASE ~(NoDuplicates(read[b]) /\ CrossCheck(b))
    <3>1. ~Sound /\ staged' = staged /\ pc' = [pc EXCEPT ![b] = "error"] /\ pc[b] = "read"
      BY <1>13, <2>1, <2>3 DEF Reconcile
    <3>. QED
      BY <1>2, <3>1 DEF InOrder
  <2>. QED
    BY <2>2, <2>3
<1>14. ASSUME NEW b \in Builds, WriteAndLook(b) PROVE InOrder'
  BY <1>1, <1>2, <1>3, <1>14 DEF InOrder, GoesAsFarAsItShould, WriteAndLook, IsPublished
<1>15. ASSUME NEW b \in Builds, Rename(b) PROVE InOrder'
  <2>1. CASE IsPublished(DatasetId(b))
    BY <1>1, <1>2, <1>3, <1>15, <2>1 DEF InOrder, GoesAsFarAsItShould, Rename, IsPublished
  <2>2. CASE ~IsPublished(DatasetId(b))
    <3>1. store' = [id \in DOMAIN store \cup {DatasetId(b)} |->
                       IF id = DatasetId(b) THEN Dataset(b) ELSE store[id]]
      BY <1>15, <2>2 DEF Rename
    <3>2. staged' = staged \ {b} /\ pc' = [pc EXCEPT ![b] = "ok"] /\ pc[b] = "rename"
      BY <1>15, <2>2 DEF Rename
    <3>3. SomeoneBuilt'
      BY <3>2 DEF SomeoneBuilt
    <3>4. Sound => \A id \in DOMAIN store' : store'[id].sha = live
      BY <3>1, <3>2 DEF InOrder, GoesAsFarAsItShould, Dataset
    <3>5. UNCHANGED <<manifest, sha, live>>
      BY <1>1, <1>15 DEF Rename
    <3>. QED
      BY <1>2, <3>2, <3>3, <3>4, <3>5 DEF InOrder, GoesAsFarAsItShould
  <2>. QED
    BY <2>1, <2>2
<1>16. ASSUME NEW b \in Builds, Cleanup(b) PROVE InOrder'
  BY <1>1, <1>2, <1>3, <1>16 DEF InOrder, GoesAsFarAsItShould, Cleanup
<1>17. CASE UNCHANGED vars
  BY <1>1, <1>2, <1>3, <1>17 DEF InOrder, GoesAsFarAsItShould, vars
<1>. QED
  BY <1>4, <1>5, <1>6, <1>7, <1>8, <1>9, <1>10, <1>11, <1>12, <1>13, <1>14, <1>15, <1>16, <1>17
     DEF Next, Step, DiskError, Stop, Refresh

(* Builds of a raw cache at rest, when nothing fails: every one removes its *)
(* staging directory, and when all have ended on a sound snapshot at least  *)
(* one has the dataset, however many they are and however they interleave.  *)
THEOREM OverlappingBuildsEndInOrder ==
    ASSUME ~RawChanges, ~DiskErrors, ~Stops, Builds # {}
    PROVE  Spec => []BuildsEndInOrder
<1>1. Init => ReadsLiveSnapshot /\ InOrder
  BY DEF Init, ReadsLiveSnapshot, InOrder, GoesAsFarAsItShould
<1>2. TypeOK /\ ReadsLiveSnapshot /\ [Next]_vars => ReadsLiveSnapshot'
  BY ReadsStep
<1>3. TypeOK /\ ReadsLiveSnapshot /\ InOrder /\ [Next]_vars => InOrder'
  BY InOrderStep
<1>4. TypeOK /\ InOrder => BuildsEndInOrder
  BY DEF TypeOK, InOrder, BuildsEndInOrder, Sound, GoesAsFarAsItShould, SomeoneBuilt, Ended
<1>. QED
  BY TypeCorrect, <1>1, <1>2, <1>3, <1>4, PTL DEF Spec

-----------------------------------------------------------------------------
(* Counts.                                                                  *)

(* Induction on the subsets of a finite set: among those of some kind, if   *)
(* there are any, one has none below it.                                    *)
LEMMA LeastSubset ==
    ASSUME NEW S, IsFiniteSet(S), NEW Ts \in SUBSET SUBSET S, Ts # {}
    PROVE  \E s \in Ts : \A x \in s : s \ {x} \notin Ts
<1>1. IsWellFoundedOn(StrictSubsetOrdering(S), SUBSET S)
  BY FS_StrictSubsetOrderingWellFounded, FS_FiniteSubsetsOfFinite
<1>2. PICK s \in Ts : \A t \in Ts : <<t, s>> \notin StrictSubsetOrdering(S)
  BY <1>1, WFMin
<1>3. ASSUME NEW x \in s, s \ {x} \in Ts PROVE <<s \ {x}, s>> \in StrictSubsetOrdering(S)
  BY <1>3 DEF StrictSubsetOrdering
<1>. QED
  BY <1>2, <1>3

IssuesOf(contents, s) == UNION {contents[k].issues : k \in s}

(* The recursion by which Totals adds up the issues of some pages.          *)
SumsIssues(sum, contents) ==
    sum = [s \in SUBSET DOMAIN contents |->
              IF s = {} THEN 0
              ELSE LET k == CHOOSE x \in s : TRUE
                   IN  Cardinality(contents[k].issues) + sum[s \ {k}]]

(* Totals is a solution of it, if there is one.                             *)
LEMMA TotalIsSum ==
    ASSUME NEW contents
    PROVE  Totals(contents).issues
               = (CHOOSE sum : SumsIssues(sum, contents))[DOMAIN contents]
<1>1. Totals(contents).issues = Sum(contents, LAMBDA page : Cardinality(page.issues))
  BY DEF Totals
<1>. QED
  BY <1>1 DEF Sum, MapThenSumSet, MapThenFoldSet, SumsIssues

(* Without duplicates, a page adds its issues to those of the others.       *)
LEMMA PageAddsItsIssues ==
    ASSUME NEW contents, NoDuplicates(contents),
           \A k \in DOMAIN contents : IsFiniteSet(contents[k].issues),
           NEW s \in SUBSET DOMAIN contents, NEW k \in s,
           IsFiniteSet(IssuesOf(contents, s \ {k}))
    PROVE  /\ IsFiniteSet(IssuesOf(contents, s))
           /\ Cardinality(IssuesOf(contents, s))
                  = Cardinality(contents[k].issues) + Cardinality(IssuesOf(contents, s \ {k}))
<1>1. IssuesOf(contents, s) = contents[k].issues \cup IssuesOf(contents, s \ {k})
  BY DEF IssuesOf
<1>2. contents[k].issues \cap IssuesOf(contents, s \ {k}) = {}
  BY DEF IssuesOf, NoDuplicates
<1>3. IsFiniteSet(contents[k].issues)
  OBVIOUS
<1> DEFINE A == contents[k].issues
           B == IssuesOf(contents, s \ {k})
<1> HIDE DEF A, B
<1>4. IsFiniteSet(A \cup B) /\ Cardinality(A \cup B) = Cardinality(A) + Cardinality(B)
  <2>1. IsFiniteSet(A) /\ IsFiniteSet(B) /\ A \cap B = {}
    BY <1>2, <1>3 DEF A, B
  <2>2. Cardinality(A) \in Nat /\ Cardinality(B) \in Nat
    BY <2>1, FS_CardinalityType
  <2>3. /\ IsFiniteSet(A \cup B)
        /\ Cardinality(A \cup B) = Cardinality(A) + Cardinality(B) - Cardinality(A \cap B)
    BY <2>1, FS_Union
  <2>4. Cardinality(A \cap B) = 0
    BY <2>1, FS_EmptySet
  <2>. QED
    BY <2>2, <2>3, <2>4
<1>. QED
  BY <1>1, <1>4 DEF A, B

LEMMA FinitelyManyIssues ==
    ASSUME NEW contents, IsFiniteSet(DOMAIN contents), NoDuplicates(contents),
           \A k \in DOMAIN contents : IsFiniteSet(contents[k].issues)
    PROVE  \A s \in SUBSET DOMAIN contents : IsFiniteSet(IssuesOf(contents, s))
<1> DEFINE Bad == {s \in SUBSET DOMAIN contents : ~IsFiniteSet(IssuesOf(contents, s))}
<1> SUFFICES ASSUME Bad # {} PROVE FALSE
  OBVIOUS
<1>1. PICK s \in Bad : \A x \in s : s \ {x} \notin Bad
  BY LeastSubset
<1>2. CASE s = {}
  <2>1. IssuesOf(contents, s) = {}
    BY <1>2 DEF IssuesOf
  <2>. QED
    BY <2>1, FS_EmptySet
<1>3. ASSUME NEW k \in s PROVE FALSE
  <2>1. IsFiniteSet(IssuesOf(contents, s \ {k}))
    BY <1>1
  <2>. QED
    BY <1>1, <2>1, PageAddsItsIssues
<1>. QED
  BY <1>2, <1>3

(* Without duplicates, pages hold as many issues as Totals says.            *)
LEMMA TotalCountsIssues ==
    ASSUME NEW contents, IsFiniteSet(DOMAIN contents), NoDuplicates(contents),
           \A k \in DOMAIN contents : IsFiniteSet(contents[k].issues)
    PROVE  Totals(contents).issues = Cardinality(IssuesOn(contents))
<1> DEFINE D == DOMAIN contents
           count == [s \in SUBSET D |-> Cardinality(IssuesOf(contents, s))]
           sum == CHOOSE f : SumsIssues(f, contents)
           Bad == {s \in SUBSET D : sum[s] # count[s]}
<1>1. \A s \in SUBSET D : IsFiniteSet(IssuesOf(contents, s))
  BY FinitelyManyIssues
<1>2. ASSUME NEW s \in SUBSET D, NEW k \in s
      PROVE  count[s] = Cardinality(contents[k].issues) + count[s \ {k}]
  BY <1>1, PageAddsItsIssues
<1>3. count[{}] = 0
  BY FS_EmptySet DEF IssuesOf
<1>4. SumsIssues(count, contents)
  <2>1. \A s \in SUBSET D : s # {} =>
          LET k == CHOOSE x \in s : TRUE
          IN  count[s] = Cardinality(contents[k].issues) + count[s \ {k}]
    BY <1>2
  <2> HIDE DEF count
  <2>2. count = [s \in SUBSET D |-> count[s]]
    BY DEF count
  <2>. QED
    BY <1>3, <2>1, <2>2 DEF SumsIssues
<1>5. SumsIssues(sum, contents)
  BY <1>4
<1>6. Bad = {}
  <2> SUFFICES ASSUME Bad # {} PROVE FALSE
    OBVIOUS
  <2>1. PICK s \in Bad : \A x \in s : s \ {x} \notin Bad
    BY LeastSubset
  <2>2. CASE s = {}
    BY <1>3, <1>5, <2>2 DEF SumsIssues
  <2>3. CASE s # {}
    <3> DEFINE k == CHOOSE x \in s : TRUE
    <3>1. k \in s
      BY <2>3
    <3> HIDE DEF count, sum
    <3>2. sum[s] = Cardinality(contents[k].issues) + sum[s \ {k}]
      BY <1>5, <2>3 DEF SumsIssues
    <3> HIDE DEF k
    <3>3. sum[s \ {k}] = count[s \ {k}]
      BY <2>1, <3>1
    <3>. QED
      BY <1>2, <2>1, <3>1, <3>2, <3>3
  <2>. QED
    BY <2>2, <2>3
<1>7. IssuesOf(contents, D) = IssuesOn(contents)
  BY DEF IssuesOf, IssuesOn
<1>8. sum[D] = count[D]
  BY <1>6
<1>. QED
  BY <1>7, <1>8, TotalIsSum

(* What a build or a dataset calls its snapshot has been published; whoever *)
(* is about to publish a dataset has compared the counts.                   *)
CountsAreSettled ==
    /\ live \in published \cup {None}
    /\ \A b \in Builds : pc[b] \notin {"idle", "manifest"} \cup Ended => manifest[b] \in published
    /\ \A b \in Builds : pc[b] \in {"write", "rename"} => CrossCheck(b)
    /\ \A id \in DOMAIN store : id.fetched_at \in published

(* The number of pages of a snapshot that has been published is settled.    *)
LEMMA PublishedPagesStay ==
    ASSUME TypeOK, CountsAreSettled, [Next]_vars
    PROVE  /\ published \subseteq published' /\ live' \in published' \cup {None}
           /\ \A d \in published : Contents(d)' = Contents(d)
<1>1. CASE UNCHANGED rawVars
  BY <1>1 DEF rawVars, CountsAreSettled, Contents
<1>2. CASE Refresh
  <2>1. ASSUME NEW d \in Dirs, Raw!Publish(d)
        PROVE  /\ published \subseteq published' /\ live' \in published'
               /\ \A e \in published : pages'[e] = pages[e]
    <3>1. PICK n \in 0 .. MaxPages : pages' = [pages EXCEPT ![d] = n]
      BY <2>1 DEF Raw!Publish
    <3>2. d \notin published /\ published' = published \cup {d} /\ live' = d
      BY <2>1 DEF Raw!Publish
    <3>. QED
      BY <3>1, <3>2 DEF TypeOK
  <2>2. CASE Raw!TakeAway \/ \E d \in Dirs : Raw!BringBack(d) \/ Raw!Lose(d)
    BY <2>2 DEF Raw!TakeAway, Raw!BringBack, Raw!Lose, CountsAreSettled, Contents
  <2>. QED
    BY <1>2, <2>1, <2>2 DEF Refresh, Raw!Next, Contents
<1>. QED
  BY <1>1, <1>2 DEF Next, Step, Call, ReadManifest, CheckOutputFile, HashManifest, HashHead,
     HashPage, UseDataset, NoDatasetYet, ReadPage, Reconcile, WriteAndLook, Rename, Cleanup,
     DiskError, Stop, vars

(* Every step keeps the counts settled.                                     *)
LEMMA SettledStep ==
    ASSUME TypeOK, CountsAreSettled, [Next]_vars
    PROVE  CountsAreSettled'
<1>1. /\ published \subseteq published' /\ live' \in published' \cup {None}
      /\ \A d \in published : Contents(d)' = Contents(d)
  BY PublishedPagesStay
<1>2. \A id \in DOMAIN store' : id.fetched_at \in published'
  <2>1. CASE UNCHANGED store
    BY <1>1, <2>1 DEF CountsAreSettled
  <2>2. ASSUME NEW b \in Builds, Rename(b), ~IsPublished(DatasetId(b))
        PROVE  \A id \in DOMAIN store' : id.fetched_at \in published'
    <3>1. DOMAIN store' = DOMAIN store \cup {DatasetId(b)} /\ pc[b] = "rename"
      BY <2>2 DEF Rename, At
    <3>2. DatasetId(b).fetched_at \in published
      BY <3>1 DEF CountsAreSettled, DatasetId, Ended
    <3>. QED
      BY <1>1, <3>1, <3>2 DEF CountsAreSettled
  <2>. QED
    BY <2>1, <2>2, StoreStep
<1> SUFFICES ASSUME NEW c \in Builds
             PROVE  /\ pc'[c] \notin {"idle", "manifest"} \cup Ended => manifest'[c] \in published'
                    /\ pc'[c] \in {"write", "rename"} => CrossCheck(c)'
  BY <1>1, <1>2 DEF CountsAreSettled
<1>3. ASSUME manifest'[c] = manifest[c], read'[c] = read[c], manifest[c] \in published
      PROVE  CrossCheck(c) <=> CrossCheck(c)'
  <2>1. Totals(Contents(manifest[c]))' = Totals(Contents(manifest[c]))
    <3>1. Contents(manifest[c])' = Contents(manifest[c])
      BY <1>1, <1>3 DEF Contents
    <3>. QED
      BY <3>1 DEF Totals, Sum, MapThenSumSet, MapThenFoldSet
  <2>2. Totals(read[c])' = Totals(read[c])
    BY <1>3 DEF Totals, Sum, MapThenSumSet, MapThenFoldSet
  <2>. QED
    BY <2>1, <2>2 DEF CrossCheck
<1> USE DEF TypeOK, CountsAreSettled, Ended, Goto, At, rawVars, readVars
<1>4. ASSUME NEW b \in Builds, Call(b) \/ CheckOutputFile(b) \/ HashManifest(b) \/ HashHead(b)
                 \/ HashPage(b) \/ UseDataset(b) \/ NoDatasetYet(b)
      PROVE  /\ pc'[c] \notin {"idle", "manifest"} \cup Ended => manifest'[c] \in published'
             /\ pc'[c] \in {"write", "rename"} => CrossCheck(c)'
  BY <1>1, <1>3, <1>4 DEF Call, CheckOutputFile, HashManifest, HashHead, HashPage, UseDataset,
     NoDatasetYet
<1>5. ASSUME NEW b \in Builds, ReadManifest(b)
      PROVE  /\ pc'[c] \notin {"idle", "manifest"} \cup Ended => manifest'[c] \in published'
             /\ pc'[c] \in {"write", "rename"} => CrossCheck(c)'
  BY <1>1, <1>3, <1>5 DEF ReadManifest, IsFile
<1>6. ASSUME NEW b \in Builds, ReadPage(b)
      PROVE  /\ pc'[c] \notin {"idle", "manifest"} \cup Ended => manifest'[c] \in published'
             /\ pc'[c] \in {"write", "rename"} => CrossCheck(c)'
  BY <1>1, <1>3, <1>6 DEF ReadPage
<1>7. ASSUME NEW b \in Builds, Reconcile(b)
      PROVE  /\ pc'[c] \notin {"idle", "manifest"} \cup Ended => manifest'[c] \in published'
             /\ pc'[c] \in {"write", "rename"} => CrossCheck(c)'
  BY <1>1, <1>3, <1>7 DEF Reconcile
<1>8. ASSUME NEW b \in Builds, WriteAndLook(b) \/ Rename(b) \/ Cleanup(b)
      PROVE  /\ pc'[c] \notin {"idle", "manifest"} \cup Ended => manifest'[c] \in published'
             /\ pc'[c] \in {"write", "rename"} => CrossCheck(c)'
  BY <1>1, <1>3, <1>8 DEF WriteAndLook, Rename, Cleanup
<1>9. ASSUME NEW b \in Builds, DiskError(b) \/ Stop(b)
      PROVE  /\ pc'[c] \notin {"idle", "manifest"} \cup Ended => manifest'[c] \in published'
             /\ pc'[c] \in {"write", "rename"} => CrossCheck(c)'
  BY <1>1, <1>3, <1>9 DEF DiskError, Stop
<1>10. CASE Refresh \/ UNCHANGED vars
  BY <1>1, <1>3, <1>10 DEF Refresh, vars
<1>. QED
  BY <1>4, <1>5, <1>6, <1>7, <1>8, <1>9, <1>10 DEF Next, Step

(* A dataset is published with the counts of its manifest's snapshot.       *)
LEMMA CountsStep ==
    ASSUME TypeOK, Reconciled, CountsAreSettled, CountsMatchManifest, [Next]_vars
    PROVE  CountsMatchManifest'
<1>1. ASSUME NEW d \in published
      PROVE  (Totals(Contents(d)).issues)' = Totals(Contents(d)).issues
  <2>1. Contents(d)' = Contents(d)
    BY PublishedPagesStay
  <2>. QED
    BY <2>1 DEF Totals, Sum, MapThenSumSet, MapThenFoldSet
<1>2. CASE UNCHANGED store
  BY <1>1, <1>2 DEF CountsMatchManifest, CountsAreSettled
<1>3. ASSUME NEW b \in Builds, Rename(b), ~IsPublished(DatasetId(b))
      PROVE  CountsMatchManifest'
  <2>1. store' = [id \in DOMAIN store \cup {DatasetId(b)} |->
                     IF id = DatasetId(b) THEN Dataset(b) ELSE store[id]]
    BY <1>3 DEF Rename
  <2>2. pc[b] = "rename" /\ read[b] \in Seq(Pages)
    BY <1>3 DEF Rename, At, TypeOK
  <2>3. NoDuplicates(read[b]) /\ CrossCheck(b) /\ DatasetId(b).fetched_at \in published
    BY <2>2 DEF Reconciled, CountsAreSettled, DatasetId, Ended
  <2>4. /\ IsFiniteSet(DOMAIN read[b])
        /\ \A k \in DOMAIN read[b] : IsFiniteSet(read[b][k].issues)
    <3>1. DOMAIN read[b] = 1 .. Len(read[b]) /\ Len(read[b]) \in Nat
      BY <2>2
    <3>2. \A k \in DOMAIN read[b] : read[b][k] \in Pages
      BY <2>2
    <3>3. \A page \in Pages : IsFiniteSet(page.issues)
      BY PageContents DEF Pages
    <3>4. IsFiniteSet(1 .. Len(read[b]))
      BY <3>1, FS_Interval
    <3>. QED
      BY <3>1, <3>2, <3>3, <3>4
  <2>5. Cardinality(Dataset(b).issues) = Totals(Contents(DatasetId(b).fetched_at)).issues
    BY <2>3, <2>4, TotalCountsIssues DEF Dataset, DatasetId, CrossCheck
  <2>. QED
    BY <1>1, <2>1, <2>3, <2>5 DEF CountsMatchManifest, CountsAreSettled
<1>. QED
  BY <1>2, <1>3, StoreStep

(* A dataset has as many issues as the manifest its id is made from says,   *)
(* also if a refresh swaps the snapshot between any two reads of a build    *)
(* and its pages are those of another.                                      *)
THEOREM DatasetCountsMatchManifest == Spec => []CountsMatchManifest
<1>1. Init => Reconciled /\ CountsAreSettled /\ CountsMatchManifest
  BY DEF Init, Raw!Init, Reconciled, CountsAreSettled, CountsMatchManifest, Ended
<1>2. TypeOK /\ Reconciled /\ [Next]_vars => Reconciled'
  BY ReconciledStep
<1>3. TypeOK /\ CountsAreSettled /\ [Next]_vars => CountsAreSettled'
  BY SettledStep
<1>4. TypeOK /\ Reconciled /\ CountsAreSettled /\ CountsMatchManifest /\ [Next]_vars
          => CountsMatchManifest'
  BY CountsStep
<1>. QED
  BY TypeCorrect, <1>1, <1>2, <1>3, <1>4, PTL DEF Spec
=============================================================================
