--------------------------- MODULE ArtifactStore ---------------------------
(***************************************************************************)
(* What a store of immutable artifacts promises: an artifact appears under *)
(* its id, whole and once, and is never changed, replaced or removed.      *)
(* This is what publish_dataset (src/repotriage/dataset/builder.py) says   *)
(* of itself: "Immutable dataset ids are never overwritten".               *)
(***************************************************************************)

VARIABLE store  \* a function from the ids that are published to the artifacts

Init == store = <<>>

Publish(id, artifact) ==
    /\ id \notin DOMAIN store
    /\ store' = [i \in DOMAIN store \cup {id} |-> IF i = id THEN artifact ELSE store[i]]

Next == \E id \in DOMAIN store' : Publish(id, store'[id])

Spec == Init /\ [][Next]_store
=============================================================================
