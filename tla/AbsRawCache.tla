---------------------------- MODULE AbsRawCache ----------------------------
(***************************************************************************)
(* What the raw issue cache promises to those who read its live path: the  *)
(* commands of src/repotriage/dataset and the cache-hit check of           *)
(* src/repotriage/github/ingestion.py.  A snapshot appears whole, may be   *)
(* taken away and brought back, and from its first appearance on can only  *)
(* lose files.  A directory takes the live path only when nothing, or an   *)
(* emptied directory, is there.                                            *)
(***************************************************************************)
EXTENDS Integers

CONSTANTS
    Dirs,      \* the directories that may become snapshots
    None,      \* no directory
    MaxPages   \* bound: pages of a snapshot

VARIABLES
    live,       \* the directory at the live path, or None
    files,      \* of each published directory, the files in it
    pages,      \* the number of pages the manifest of each of them declares
    published   \* the directories that have been live

vars == <<live, files, pages, published>>

Whole(d) == 0 .. pages[d]

PathIsFree == live \in {None} \cup {d \in Dirs : files[d] = {}}

Init ==
    /\ live \in Dirs \cup {None}
    /\ published = {live} \ {None}
    /\ pages \in [Dirs -> 0 .. MaxPages]
    /\ files = [d \in Dirs |-> IF d = live THEN Whole(d) ELSE {}]

(* A new snapshot appears; it is complete.                                  *)
Publish(d) ==
    /\ d \notin published
    /\ PathIsFree
    /\ live' = d
    /\ published' = published \cup {d}
    /\ \E n \in 0 .. MaxPages :
          /\ pages' = [pages EXCEPT ![d] = n]
          /\ files' = [files EXCEPT ![d] = 0 .. n]

(* A failed refresh brings an earlier snapshot back, as it is by now.       *)
BringBack(d) ==
    /\ d \in published
    /\ PathIsFree
    /\ live' = d
    /\ UNCHANGED <<files, pages, published>>

(* A refresh takes the live snapshot away.                                  *)
TakeAway ==
    /\ live # None
    /\ live' = None
    /\ UNCHANGED <<files, pages, published>>

(* A snapshot that has been given up loses a file.                          *)
Lose(d) ==
    /\ d \in published
    /\ \E k \in files[d] : files' = [files EXCEPT ![d] = @ \ {k}]
    /\ UNCHANGED <<live, pages, published>>

Next ==
    \/ \E d \in Dirs : Publish(d) \/ BringBack(d) \/ Lose(d)
    \/ TakeAway

Spec == Init /\ [][Next]_vars
=============================================================================
