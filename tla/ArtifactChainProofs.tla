-------------------------- MODULE ArtifactChainProofs --------------------------
(***************************************************************************)
(* Theorems about ArtifactChain, for any number of commands, any store to  *)
(* begin with, any configurations and every fault.                         *)
(*                                                                         *)
(* What a command has checked of its inputs stays true since the store     *)
(* only grows; the invariant carries it from the check to the publication. *)
(***************************************************************************)
EXTENDS ArtifactChain, SequenceTheorems, WellFoundedInduction, TLAPS

\* Where a command has its inputs accepted.
Loaded == {"look", "build", "made", "staged", "rename", "hit", "built"}

\* Where a command has no staging directory yet.
Before == {"idle", "load", "look", "build"}

Types ==
    /\ pc \in [Commands -> {"idle"} \cup Running \cup Ended]
    /\ DOMAIN request = Commands
    /\ staging \subseteq Commands

\* The shape of what users can ask for.
WellNamed(r) ==
    /\ r.kind \in Kinds
    /\ r.kind \in {"threshold_policy", "abstention_policy"} => r.named = <<r.named[1]>>
    /\ r.kind = "abstention_policy" => r.named[1].kind = "threshold_policy"
    /\ r.kind \in {"label_policy", "model_dataset"} => r.named = <<r.named[1], r.named[2]>>
    /\ r.kind = "audit" => r.config = <<>> /\ r.named = <<r.named[1]>>
    /\ r.kind \in {"audit", "label_policy", "model_dataset"} => r.named[1].kind = "dataset"
    /\ r.kind = "label_policy" => r.named[2].kind = "audit"
    /\ r.kind = "model_dataset" => r.named[2].kind = "label_policy"

\* The shape of what is published.
WellMade ==
    \A id \in DOMAIN store :
        /\ id.kind = "threshold_policy" => store[id].from = <<store[id].from[1]>>
        /\ id.kind = "audit" => store[id].config = <<>>
        /\ /\ store[id].built_by # None
           /\ id.kind \in {"label_policy", "model_dataset", "abstention_policy"}
           => store[id].from = <<store[id].from[1], store[id].from[2]>>

Asked ==
    \A c \in Commands :
        /\ pc[c] # "idle" => WellNamed(request[c])
        /\ pc[c] \in Loaded => Accepted(request[c])
        /\ pc[c] \in {"hit", "built"} => Target(c) \in DOMAIN store
        /\ pc[c] \in Before => c \notin staging

IInv == Types /\ WellMade /\ Asked /\ LineageIsClosed /\ AnswersRequest

Grows ==
    /\ DOMAIN store \subseteq DOMAIN store'
    /\ \A id \in DOMAIN store : store'[id] = store[id]

Publishes(c) ==
    /\ pc[c] = "rename" /\ pc'[c] = "built"
    /\ request' = request
    /\ Target(c) \notin DOMAIN store
    /\ store' = [id \in DOMAIN store \cup {Target(c)} |->
                     IF id = Target(c) THEN ArtifactOf(c) ELSE store[id]]

-----------------------------------------------------------------------------
(* Ids.                                                                    *)

\* An id says what kind of artifact it is one of.
LEMMA KindOfId ==
    ASSUME NEW kind \in Kinds, NEW from, NEW config
    PROVE  IdOf(kind, from, config).kind = kind
BY DEF IdOf, Kinds, AuditId, RunId, ThresholdPolicyId, ContentId

\* Artifacts of one id were made from the same inputs, and with the same configuration
\* but for an audit, which has none, and the reference of a threshold policy.
LEMMA IdsDetermine ==
    ASSUME NEW kind \in Kinds, NEW from, NEW config, NEW from2, NEW config2,
           IdOf(kind, from, config) = IdOf(kind, from2, config2)
    PROVE  /\ from = from2
           /\ kind = "threshold_policy" => Front(config) = Front(config2)
           /\ kind \notin {"audit", "threshold_policy"} => config = config2
BY DEF IdOf, Kinds, AuditId, RunId, ThresholdPolicyId, ContentId

\* An abstention policy is made from two artifacts: the one it was asked for, and that one's.
LEMMA Pair == ASSUME NEW a, NEW b PROVE <<a>> \o <<b>> = <<a, b>>
<1>1. /\ <<a>> \in Seq({a, b}) /\ <<b>> \in Seq({a, b}) /\ <<a, b>> \in Seq({a, b})
      /\ Len(<<a>>) = 1 /\ Len(<<b>>) = 1 /\ Len(<<a, b>>) = 2
  OBVIOUS
<1>2. /\ <<a>> \o <<b>> \in Seq({a, b}) /\ Len(<<a>> \o <<b>>) = 2
      /\ (<<a>> \o <<b>>)[1] = a /\ (<<a>> \o <<b>>)[2] = b
  BY <1>1
<1>3. \A i \in 1..2 : (<<a>> \o <<b>>)[i] = <<a, b>>[i]
  BY <1>2
<1> QED BY <1>1, <1>2, <1>3, SeqEqual

-----------------------------------------------------------------------------
(* A store that grows keeps what was found in it.                          *)

LEMMA SoundStays ==
    ASSUME Grows, NEW id \in DOMAIN store, Sound(id)
    PROVE  Sound(id)'
BY DEF Grows, Sound

\* What the inputs of a request that was accepted are.
LEMMA InputsOf ==
    ASSUME WellMade, NEW r, WellNamed(r), Accepted(r)
    PROVE  /\ r.kind # "abstention_policy" => Inputs(r) = r.named
           /\ r.kind = "abstention_policy" =>
                 /\ r.named[1] \in DOMAIN store
                 /\ Inputs(r) = <<r.named[1], store[r.named[1]].from[1]>>
<1>1. ASSUME r.kind = "abstention_policy", r.named[1] \notin DOMAIN store
      PROVE  FALSE
  <2>1. Inputs(r) = <<r.named[1]>>
    BY <1>1 DEF WellNamed, Inputs
  <2>2. 1 \in DOMAIN Inputs(r) /\ Inputs(r)[1] = r.named[1]
    BY <2>1
  <2> QED BY <1>1, <2>2 DEF Accepted, Present
<1>2. ASSUME r.kind = "abstention_policy", r.named[1] \in DOMAIN store
      PROVE  Inputs(r) = <<r.named[1], store[r.named[1]].from[1]>>
  <2>1. store[r.named[1]].from = <<store[r.named[1]].from[1]>>
    BY <1>2 DEF WellNamed, WellMade
  <2>2. Inputs(r) = <<r.named[1]>> \o <<store[r.named[1]].from[1]>>
    BY <1>2, <2>1 DEF WellNamed, Inputs
  <2> QED BY <2>2, Pair
<1> QED BY <1>1, <1>2 DEF Inputs

\* The inputs of a request that was accepted are what they were, and it still is.
LEMMA AcceptedStays ==
    ASSUME Grows, WellMade, NEW r, WellNamed(r), Accepted(r)
    PROVE  /\ Inputs(r)' = Inputs(r)
           /\ Accepted(r)'
<1>1. Inputs(r)' = Inputs(r)
  <2>1. r.kind = "abstention_policy" => r.named[1] \in DOMAIN store
    BY InputsOf
  <2> QED BY <2>1 DEF Inputs, Grows
<1>2. Present(r)'
  <2>1. SUFFICES ASSUME NEW k \in DOMAIN Inputs(r), NEW id, id = Inputs(r)[k]
                 PROVE  id \in DOMAIN store' /\ Sound(id)'
    BY <1>1 DEF Present, Sound
  <2>2. id \in DOMAIN store /\ Sound(id)
    BY <2>1 DEF Accepted, Present, Sound
  <2> QED BY <2>2, SoundStays DEF Grows
<1>3. ASSUME r.kind \in {"label_policy", "model_dataset"}
      PROVE  r.named[2] \in DOMAIN store
  <2>1. 2 \in DOMAIN Inputs(r) /\ Inputs(r)[2] = r.named[2]
    BY <1>3, InputsOf DEF WellNamed
  <2> QED BY <2>1 DEF Accepted, Present
<1> QED
  BY <1>1, <1>2, <1>3 DEF Accepted, Grows, AcceptsAudit, AcceptsPolicy, AcceptsBaseline,
                    AcceptsThreshold

-----------------------------------------------------------------------------
(* What the steps do.                                                      *)

\* The store changes by publications only.
LEMMA StoreSteps ==
    ASSUME Types, [Next]_vars
    PROVE  store' = store \/ \E c \in Commands : Publishes(c)
<1>1. ASSUME NEW c \in Commands, Rename(c)
      PROVE  store' = store \/ Publishes(c)
  BY <1>1 DEF Types, Rename, Publishes, At, Goto
<1>2. ASSUME NEW c \in Commands, Call(c) \/ LoadInputs(c) \/ Look(c) \/ Compute(c) \/ Write(c)
             \/ LookAgain(c) \/ Cleanup(c) \/ DiskError(c) \/ Stop(c)
      PROVE  store' = store
  BY <1>2 DEF Call, LoadInputs, Look, Compute, Write, LookAgain, Cleanup, DiskError, Stop
<1>3. ASSUME LoadBundle PROVE store' = store
  BY <1>3 DEF LoadBundle
<1> QED BY <1>1, <1>2, <1>3 DEF Next, Step, vars

LEMMA StoreGrows ==
    ASSUME Types, [Next]_vars
    PROVE  Grows
BY StoreSteps DEF Grows, Publishes

\* How a command moves: it is not this one's turn, or it calls, or its request stays and
\* it gets to where inputs are accepted only by accepting them, and to a result only
\* by finding or publishing one.
Moves(c) ==
    /\ pc[c] # "idle" => request'[c] = request[c]
    /\ pc[c] = "idle" /\ pc'[c] # "idle" => WellNamed(request'[c]) /\ pc'[c] = "load"
    /\ pc'[c] = "idle" => pc[c] = "idle"
    /\ pc'[c] \in Loaded => pc[c] \in Loaded \/ (pc[c] = "load" /\ Accepted(request[c]))
                           \/ pc[c] = "idle"
    /\ pc'[c] = "hit" => pc[c] = "hit" \/ (Target(c) \in DOMAIN store /\ Sound(Target(c)))
    /\ pc'[c] = "built" => pc[c] = "built" \/ Publishes(c)
    /\ pc'[c] \in Before => pc[c] \in Before /\ (c \in staging' => c \in staging)

\* What users ask for has the shape that is expected.
LEMMA RequestsAreWellNamed == \A r \in Requests : WellNamed(r)
<1> SUFFICES ASSUME NEW r \in Requests PROVE WellNamed(r)
  OBVIOUS
<1> QED BY ConfigsAssumption, DatasetsAssumption DEF Requests, WellNamed, Kinds, Published

LEMMA EveryMove ==
    ASSUME Types, [Next]_vars
    PROVE  \A c \in Commands : Moves(c)
<1> SUFFICES ASSUME NEW c \in Commands PROVE Moves(c)
  OBVIOUS
<1> USE DEF Moves, Types, At, Goto, Loaded, Before, Running
<1>1. ASSUME NEW b \in Commands, Call(b) PROVE Moves(c)
  BY <1>1, RequestsAreWellNamed DEF Call
<1>2. ASSUME NEW b \in Commands, LoadInputs(b) PROVE Moves(c)
  BY <1>2 DEF LoadInputs
<1>3. ASSUME NEW b \in Commands, Look(b) PROVE Moves(c)
  BY <1>3 DEF Look
<1>4. ASSUME NEW b \in Commands, Compute(b) PROVE Moves(c)
  BY <1>4 DEF Compute
<1>5. ASSUME NEW b \in Commands, Write(b) PROVE Moves(c)
  BY <1>5 DEF Write
<1>6. ASSUME NEW b \in Commands, LookAgain(b) PROVE Moves(c)
  BY <1>6 DEF LookAgain
<1>7. ASSUME NEW b \in Commands, Rename(b) PROVE Moves(c)
  BY <1>7 DEF Rename, Publishes
<1>8. ASSUME NEW b \in Commands, Cleanup(b) PROVE Moves(c)
  BY <1>8 DEF Cleanup
<1>9. ASSUME NEW b \in Commands, DiskError(b) PROVE Moves(c)
  BY <1>9 DEF DiskError
<1>10. ASSUME NEW b \in Commands, Stop(b) PROVE Moves(c)
  BY <1>10 DEF Stop
<1>11. CASE LoadBundle
  BY <1>11 DEF LoadBundle
<1>12. CASE UNCHANGED vars
  BY <1>12 DEF vars
<1> QED
  BY <1>1, <1>2, <1>3, <1>4, <1>5, <1>6, <1>7, <1>8, <1>9, <1>10, <1>11, <1>12
     DEF Next, Step

-----------------------------------------------------------------------------
(* The invariant.                                                          *)

LEMMA Initially == Init => IInv
<1> SUFFICES ASSUME Init PROVE IInv
  OBVIOUS
<1>1. Types /\ Asked /\ AnswersRequest
  BY DEF Init, Types, Asked, AnswersRequest, Loaded
<1>2. WellMade /\ LineageIsClosed
  BY GivenAssumption DEF Init, WellMade, LineageIsClosed
<1> QED BY <1>1, <1>2 DEF IInv

LEMMA TypesStay ==
    ASSUME Types, [Next]_vars
    PROVE  Types'
<1> USE DEF Types, At, Goto, Running, Ended
<1>1. ASSUME NEW c \in Commands, Call(c) PROVE Types'
  BY <1>1 DEF Call
<1>2. ASSUME NEW c \in Commands, LoadInputs(c) \/ Look(c) \/ LookAgain(c) \/ Write(c)
      PROVE Types'
  BY <1>2 DEF LoadInputs, Look, LookAgain, Write
<1>3. ASSUME NEW c \in Commands, Compute(c) \/ Rename(c) \/ Cleanup(c) PROVE Types'
  BY <1>3 DEF Compute, Rename, Cleanup
<1>4. ASSUME NEW c \in Commands, DiskError(c) \/ Stop(c) PROVE Types'
  BY <1>4 DEF DiskError, Stop
<1>5. CASE LoadBundle \/ UNCHANGED vars
  BY <1>5 DEF LoadBundle, vars
<1> QED BY <1>1, <1>2, <1>3, <1>4, <1>5 DEF Next, Step

\* What a publishing command knows of what it publishes.

\* What is published is what was asked for, made from what was accepted.
LEMMA WhatIsPublished ==
    ASSUME IInv, NEW c \in Commands, Publishes(c)
    PROVE  \E r, id :
             /\ r = request[c] /\ id = Target(c) /\ WellNamed(r) /\ Accepted(r)
             /\ id = IdOf(r.kind, Inputs(r), r.config) /\ id.kind = r.kind
             /\ id \notin DOMAIN store /\ DOMAIN store' = DOMAIN store \cup {id}
             /\ store'[id].id = id /\ store'[id].intact
             /\ store'[id].from = Inputs(r) /\ store'[id].config = r.config
             /\ store'[id].built_by = c
<1>1. WellNamed(request[c]) /\ Accepted(request[c])
  BY DEF IInv, Asked, Publishes, Loaded
<1>2. Target(c).kind = request[c].kind
  BY <1>1, KindOfId DEF Target, WellNamed
<1>3. store'[Target(c)] = ArtifactOf(c)
  BY DEF Publishes
<1> QED BY <1>1, <1>2, <1>3 DEF Publishes, ArtifactOf, Target

LEMMA WellMadeStays ==
    ASSUME IInv, [Next]_vars
    PROVE  WellMade'
<1> SUFFICES ASSUME NEW c \in Commands, Publishes(c) PROVE WellMade'
  BY StoreSteps DEF IInv, WellMade
<1>1. PICK r, id :
        /\ WellNamed(r) /\ Accepted(r) /\ id.kind = r.kind
        /\ DOMAIN store' = DOMAIN store \cup {id}
        /\ store'[id].from = Inputs(r) /\ store'[id].config = r.config
  BY WhatIsPublished
<1>2. Grows
  BY StoreGrows DEF IInv
<1>3. r.kind # "abstention_policy" => store'[id].from = r.named
  BY <1>1, InputsOf DEF IInv
<1>4. r.kind = "abstention_policy" =>
        store'[id].from = <<r.named[1], store[r.named[1]].from[1]>>
  BY <1>1, InputsOf DEF IInv
<1>5. SUFFICES ASSUME NEW i \in DOMAIN store'
               PROVE  /\ i.kind = "threshold_policy" =>
                            store'[i].from = <<store'[i].from[1]>>
                      /\ i.kind = "audit" => store'[i].config = <<>>
                      /\ /\ store'[i].built_by # None
                         /\ i.kind \in {"label_policy", "model_dataset", "abstention_policy"}
                         => store'[i].from = <<store'[i].from[1], store'[i].from[2]>>
  BY DEF WellMade
<1>6. CASE i \in DOMAIN store
  BY <1>2, <1>6 DEF IInv, WellMade, Grows
<1>7. CASE i = id
  BY <1>1, <1>3, <1>4, <1>7 DEF WellNamed
<1> QED BY <1>1, <1>6, <1>7

LEMMA LineageStays ==
    ASSUME IInv, [Next]_vars
    PROVE  LineageIsClosed'
<1> SUFFICES ASSUME NEW c \in Commands, Publishes(c) PROVE LineageIsClosed'
  BY StoreSteps DEF IInv, LineageIsClosed, Sound
<1>1. PICK r, id :
        /\ WellNamed(r) /\ Accepted(r) /\ id.kind = r.kind
        /\ DOMAIN store' = DOMAIN store \cup {id}
        /\ store'[id].from = Inputs(r)
  BY WhatIsPublished
<1>2. Grows
  BY StoreGrows DEF IInv
<1>3. SUFFICES ASSUME NEW i \in DOMAIN store', store'[i].built_by # None, NEW from, from = store'[i].from
               PROVE  /\ \A k \in DOMAIN from : from[k] \in DOMAIN store' /\ Sound(from[k])'
                      /\ i.kind \in {"label_policy", "model_dataset"} =>
                            store'[from[2]].from[1] = from[1]
                      /\ i.kind = "abstention_policy" => store'[from[1]].from[1] = from[2]
  BY ZenonT(60) DEF LineageIsClosed, Sound
<1>4. \A k \in DOMAIN from : from[k] \in DOMAIN store /\ Sound(from[k])
  BY <1>1, <1>2, <1>3 DEF IInv, LineageIsClosed, Grows, Accepted, Present, Sound
<1>5. ASSUME NEW k \in DOMAIN from
      PROVE  from[k] \in DOMAIN store' /\ Sound(from[k])'
  BY <1>2, <1>4 DEF Grows, Sound
<1>6. i.kind \in {"label_policy", "model_dataset"} =>
         from = <<from[1], from[2]>> /\ store[from[2]].from[1] = from[1]
  <2>1. CASE i \in DOMAIN store
    BY <1>2, <1>3, <2>1 DEF IInv, WellMade, LineageIsClosed, Grows
  <2>2. CASE i = id
    <3> SUFFICES ASSUME r.kind \in {"label_policy", "model_dataset"}
                 PROVE from = <<from[1], from[2]>> /\ store[from[2]].from[1] = from[1]
      BY <1>1, <2>2
    <3>1. from = r.named
      BY <1>1, <1>3, <2>2, InputsOf DEF IInv
    <3> QED BY <1>1, <3>1 DEF WellNamed, Accepted, AcceptsAudit, AcceptsPolicy
  <2> QED BY <1>1, <2>1, <2>2
<1>7. i.kind = "abstention_policy" =>
         from = <<from[1], from[2]>> /\ store[from[1]].from[1] = from[2]
  <2>1. CASE i \in DOMAIN store
    BY <1>2, <1>3, <2>1 DEF IInv, WellMade, LineageIsClosed, Grows
  <2>2. CASE i = id
    <3> SUFFICES ASSUME r.kind = "abstention_policy"
                 PROVE from = <<from[1], from[2]>> /\ store[from[1]].from[1] = from[2]
      BY <1>1, <2>2
    <3>1. from = <<r.named[1], store[r.named[1]].from[1]>>
      BY <1>1, <1>3, <2>2, InputsOf DEF IInv
    <3> QED BY <3>1
  <2> QED BY <1>1, <2>1, <2>2
<1>8. i.kind \in {"label_policy", "model_dataset", "abstention_policy"} =>
         1 \in DOMAIN from /\ 2 \in DOMAIN from
  BY <1>6, <1>7
<1> QED BY <1>2, <1>4, <1>5, <1>6, <1>7, <1>8 DEF Grows

\* What a command was asked for, and what it is for, stay what they are once accepted.
LEMMA TargetStays ==
    ASSUME IInv, Grows, NEW c \in Commands, Moves(c),
           pc[c] # "idle", Accepted(request[c])
    PROVE  \E r : /\ r = request[c] /\ r = request'[c] /\ WellNamed(r)
                 /\ Inputs(r)' = Inputs(r) /\ Accepted(r)'
                 /\ Target(c) = IdOf(r.kind, Inputs(r), r.config) /\ Target(c)' = Target(c)
<1>1. PICK r : r = request[c]
  OBVIOUS
<1>2. r = request'[c] /\ WellNamed(r) /\ Accepted(r)
  BY <1>1 DEF IInv, Asked, Moves
<1>3. Inputs(r)' = Inputs(r) /\ Accepted(r)'
  BY <1>2, AcceptedStays DEF IInv
<1>4. Target(c)' = IdOf(r.kind, Inputs(r), r.config)
  BY <1>2, <1>3 DEF Target, Inputs
<1> QED BY <1>1, <1>2, <1>3, <1>4 DEF Target

LEMMA AskedStays ==
    ASSUME IInv, [Next]_vars
    PROVE  Asked'
<1> SUFFICES ASSUME NEW c \in Commands
             PROVE  /\ pc'[c] # "idle" => WellNamed(request'[c])
                    /\ pc'[c] \in Loaded => Accepted(request[c])'
                    /\ pc'[c] \in {"hit", "built"} => Target(c)' \in DOMAIN store'
                    /\ pc'[c] \in Before => c \notin staging'
  BY DEF Asked, WellNamed, Loaded, Before
<1>1. Moves(c) /\ Grows
  BY EveryMove, StoreGrows DEF IInv
<1>2. pc'[c] # "idle" => WellNamed(request'[c])
  BY <1>1 DEF IInv, Asked, Moves
<1>3. pc'[c] \in Before => c \notin staging'
  BY <1>1 DEF IInv, Asked, Moves
<1>4. ASSUME pc'[c] \in Loaded
      PROVE  pc[c] # "idle" /\ Accepted(request[c])
  BY <1>1, <1>4 DEF IInv, Asked, Moves, Loaded
<1>5. ASSUME pc'[c] \in Loaded
      PROVE  Accepted(request[c])' /\ Target(c)' = Target(c)
  <2>1. PICK r : r = request'[c] /\ Accepted(r)' /\ Target(c)' = Target(c)
    BY <1>1, <1>4, <1>5, TargetStays
  <2> QED BY <2>1 DEF Accepted, Present, Inputs, AcceptsAudit, AcceptsPolicy,
                      AcceptsBaseline, AcceptsThreshold, Sound
<1>6. ASSUME pc'[c] \in {"hit", "built"}
      PROVE  Target(c) \in DOMAIN store'
  BY <1>1, <1>6 DEF IInv, Asked, Moves, Grows, Publishes
<1> QED BY <1>2, <1>3, <1>5, <1>6 DEF Loaded

LEMMA AnswersStay ==
    ASSUME IInv, [Next]_vars
    PROVE  AnswersRequest'
<1> SUFFICES ASSUME NEW c \in Commands, pc'[c] \in {"hit", "built"},
                    NEW id, id = Target(c)', NEW r, r = request'[c]
             PROVE  /\ Sound(id)'
                    /\ store'[id].from = Inputs(r)'
                    /\ IF r.kind = "threshold_policy"
                       THEN Front(store'[id].config) = Front(r.config)
                       ELSE store'[id].config = r.config
                    /\ pc'[c] = "built" => store'[id].built_by = c
  BY DEF AnswersRequest, Sound, Inputs
<1>1. Moves(c) /\ Grows
  BY EveryMove, StoreGrows DEF IInv
<1>2. pc[c] # "idle" /\ Accepted(request[c])
  BY <1>1 DEF IInv, Asked, Moves, Loaded
<1>3. /\ r = request[c] /\ WellNamed(r) /\ Inputs(r)' = Inputs(r)
      /\ id = IdOf(r.kind, Inputs(r), r.config) /\ id = Target(c)
  BY <1>1, <1>2, TargetStays
<1>4. r.kind \in Kinds /\ id.kind = r.kind
  <2>1. r.kind \in Kinds
    BY <1>3 DEF WellNamed
  <2>2. IdOf(r.kind, Inputs(r), r.config).kind = r.kind
    BY <2>1, KindOfId
  <2> QED BY <1>3, <2>1, <2>2
<1>5. CASE pc[c] \in {"hit", "built"}
  <2>1. /\ id \in DOMAIN store /\ Sound(id) /\ store[id].from = Inputs(r)
        /\ IF r.kind = "threshold_policy" THEN Front(store[id].config) = Front(r.config)
           ELSE store[id].config = r.config
        /\ pc[c] = "built" => store[id].built_by = c
    BY <1>3, <1>5 DEF IInv, Asked, AnswersRequest
  <2>2. pc'[c] = "built" => pc[c] = "built"
    BY <1>1, <1>5 DEF Moves, Publishes
  <2>3. Sound(id)'
    BY <1>1, <2>1, SoundStays
  <2> QED BY <1>1, <1>3, <2>1, <2>2, <2>3 DEF Grows
<1>6. CASE pc'[c] = "hit" /\ pc[c] \notin {"hit", "built"}
  <2>1. id \in DOMAIN store /\ Sound(id)
    BY <1>1, <1>3, <1>6 DEF Moves
  <2>2. Sound(id)' /\ store'[id] = store[id]
    BY <1>1, <2>1, SoundStays DEF Grows
  <2>3. IdOf(r.kind, store[id].from, store[id].config) = IdOf(r.kind, Inputs(r), r.config)
    BY <1>3, <1>4, <2>1 DEF Sound
  <2>4. /\ store[id].from = Inputs(r)
        /\ r.kind = "threshold_policy" => Front(store[id].config) = Front(r.config)
        /\ r.kind \notin {"audit", "threshold_policy"} => store[id].config = r.config
    BY <1>4, <2>3, IdsDetermine
  <2>5. r.kind = "audit" => store[id].config = r.config
    BY <1>3, <1>4, <2>1 DEF IInv, WellMade, WellNamed
  <2> QED BY <1>3, <1>6, <2>2, <2>4, <2>5
<1>7. CASE pc'[c] = "built" /\ pc[c] \notin {"hit", "built"}
  <2>1. Publishes(c)
    BY <1>1, <1>7 DEF Moves
  <2>2. /\ store'[id].id = id /\ store'[id].intact /\ store'[id].from = Inputs(r)
        /\ store'[id].config = r.config /\ store'[id].built_by = c
    <3>1. PICK q, i :
            /\ q = request[c] /\ i = Target(c) /\ store'[i].id = i /\ store'[i].intact
            /\ store'[i].from = Inputs(q) /\ store'[i].config = q.config
            /\ store'[i].built_by = c
      BY <2>1, WhatIsPublished, ZenonT(60)
    <3>2. q = r /\ i = id
      BY <1>3, <3>1
    <3> QED BY <3>1, <3>2
  <2>3. Sound(id)'
    BY <1>3, <1>4, <2>2 DEF Sound
  <2> QED BY <1>3, <2>2, <2>3
<1> QED BY <1>5, <1>6, <1>7

LEMMA Inductive == IInv /\ [Next]_vars => IInv'
BY TypesStay, WellMadeStays, AskedStays, LineageStays, AnswersStay DEF IInv

\* The invariant from which the theorems follow.
THEOREM Invariant == Spec => []IInv
BY Initially, Inductive, PTL DEF Spec

-----------------------------------------------------------------------------
(* What a bundle goes back to.                                             *)

Descent == \A id \in DOMAIN store : DerivesFrom(id, DOMAIN store)

\* An id has what its artifact was made from, of whatever kind.
LEMMA FromOfId ==
    ASSUME NEW id, Sound(id), id.kind \in Kinds \cup {"dataset"}
    PROVE  id.from = store[id].from
BY DEF Sound, IdOf, Kinds, AuditId, RunId, ThresholdPolicyId, ContentId

LEMMA DescentStays ==
    ASSUME IInv, Descent, [Next]_vars
    PROVE  Descent'
<1> SUFFICES ASSUME NEW c \in Commands, Publishes(c) PROVE Descent'
  BY StoreSteps DEF IInv, Descent, DerivesFrom
<1>1. PICK r, id :
        /\ WellNamed(r) /\ Accepted(r)
        /\ id = IdOf(r.kind, Inputs(r), r.config) /\ id.kind = r.kind
        /\ DOMAIN store' = DOMAIN store \cup {id}
  BY WhatIsPublished
<1>2. id.from = Inputs(r) /\ r.kind \in Kinds
  BY <1>1 DEF IdOf, Kinds, WellNamed, AuditId, RunId, ThresholdPolicyId, ContentId
<1>3. ASSUME NEW i \in DOMAIN store
      PROVE  DerivesFrom(i, DOMAIN store')
  BY <1>1, <1>3 DEF Descent, DerivesFrom
<1>4. DerivesFrom(id, DOMAIN store')
  <2>1. CASE r.kind \in {"audit", "label_policy", "model_dataset"}
    <3>1. Inputs(r) = r.named
      BY <1>1, <2>1, InputsOf DEF IInv
    <3>2. \A k \in DOMAIN r.named : r.named[k] \in DOMAIN store /\ Sound(r.named[k])
      BY <1>1, <3>1 DEF Accepted, Present, Sound
    <3>3. 1 \in DOMAIN r.named /\ (r.kind # "audit" => 2 \in DOMAIN r.named)
      BY <1>1, <2>1 DEF WellNamed
    <3>4. CASE r.kind = "audit"
      BY <1>1, <1>2, <3>1, <3>2, <3>3, <3>4 DEF DerivesFrom, WellNamed
    <3>5. CASE r.kind = "label_policy"
      <4>1. /\ r.named[1] \in DOMAIN store /\ r.named[2] \in DOMAIN store
            /\ r.named = <<r.named[1], r.named[2]>>
            /\ r.named[2].kind = "audit" /\ store[r.named[2]].from[1] = r.named[1]
            /\ r.named[2].from = store[r.named[2]].from
        BY <1>1, <3>2, <3>3, <3>5, FromOfId DEF WellNamed, Accepted, AcceptsAudit, Kinds
      <4>2. r.named[2].from = <<r.named[1]>>
        BY <4>1 DEF Descent, DerivesFrom
      <4> QED BY <1>1, <1>2, <3>1, <3>5, <4>1, <4>2 DEF DerivesFrom
    <3>6. CASE r.kind = "model_dataset"
      <4>1. /\ r.named[1] \in DOMAIN store /\ r.named[2] \in DOMAIN store
            /\ r.named = <<r.named[1], r.named[2]>>
            /\ r.named[2].kind = "label_policy" /\ store[r.named[2]].from[1] = r.named[1]
            /\ r.named[2].from = store[r.named[2]].from
        BY <1>1, <3>2, <3>3, <3>6, FromOfId DEF WellNamed, Accepted, AcceptsPolicy, Kinds
      <4>2. r.named[2].from = <<r.named[1], r.named[2].from[2]>>
        BY <4>1 DEF Descent, DerivesFrom
      <4> QED BY <1>1, <1>2, <3>1, <3>6, <4>1, <4>2 DEF DerivesFrom
    <3> QED BY <2>1, <3>4, <3>5, <3>6
  <2>2. CASE r.kind \notin {"audit", "label_policy", "model_dataset"}
    BY <1>1, <1>2, <2>2 DEF DerivesFrom, Kinds
  <2> QED BY <2>1, <2>2
<1> QED BY <1>1, <1>3, <1>4 DEF Descent

\* The five parts of a bundle that was loaded.
Parts == {"model_dataset", "baseline", "threshold_policy", "abstention_policy", "retrieval"}

IsBundle(b) == DOMAIN b = Parts /\ \A part \in Parts : b[part].kind = part

BundleHolds == bundle # None => IsBundle(bundle) /\ Ready(bundle, "strict")

LEMMA ReadyStays ==
    ASSUME Grows, NEW b, IsBundle(b), Ready(b, "strict")
    PROVE  Ready(b, "strict")'
<1>1. \A part \in Parts : b[part] \in DOMAIN store /\ Sound(b[part])
  BY DEF Ready, IsBundle
<1>2. \A part \in Parts : /\ b[part] \in DOMAIN store' /\ Sound(b[part])'
                          /\ store'[b[part]] = store[b[part]]
  <2> SUFFICES ASSUME NEW part \in Parts, NEW id, id = b[part]
               PROVE  id \in DOMAIN store' /\ Sound(id)' /\ store'[id] = store[id]
    BY DEF Sound
  <2>1. id \in DOMAIN store /\ Sound(id)
    BY <1>1
  <2> QED BY <2>1, SoundStays DEF Grows
<1>3. Compatible(b)'
  BY <1>2 DEF Ready, Compatible, Parts
<1> QED BY <1>2, <1>3 DEF Ready, IsBundle, Sound

LEMMA BundleHoldsOn ==
    ASSUME IInv, BundleHolds, [Next]_vars
    PROVE  BundleHolds'
<1>1. Grows
  BY StoreGrows DEF IInv
<1>2. CASE LoadBundle
  <2>1. PICK b \in BundleConfig : Ready(b, "strict") /\ bundle' = b
    BY <1>2 DEF LoadBundle
  <2>2. IsBundle(b)
    BY <2>1 DEF BundleConfig, Published, IsBundle, Parts
  <2>3. Ready(b, "strict")'
    BY <1>1, <2>1, <2>2, ReadyStays
  <2> QED BY <2>1, <2>2, <2>3 DEF BundleHolds, IsBundle, Ready, Compatible, Sound
<1>3. CASE UNCHANGED bundle
  <2>1. PICK b : b = bundle /\ b = bundle'
    BY <1>3
  <2>2. b # None => IsBundle(b) /\ Ready(b, "strict")
    BY <2>1 DEF BundleHolds, Ready, Compatible, Sound
  <2>3. b # None => Ready(b, "strict")'
    BY <1>1, <2>2, ReadyStays
  <2> QED BY <2>1, <2>2, <2>3 DEF BundleHolds, Ready, Compatible, Sound
<1>4. LoadBundle \/ UNCHANGED bundle
  BY DEF Next, Step, vars, Call, LoadInputs, Look, Compute, Write, LookAgain, Rename, Cleanup,
         DiskError, Stop
<1> QED BY <1>2, <1>3, <1>4

-----------------------------------------------------------------------------
(* Ancestries.                                                             *)

Smaller == {ss \in Nat \X Nat : ss[1] < ss[2]}

LEMMA SmallerIsWellFounded == IsWellFoundedOn(Smaller, Nat)
BY NatLessThanWellFounded DEF OpToRel, Smaller

\* A set of numbers that has 0 and with each number the next has every number.
LEMMA Numbers ==
    ASSUME NEW S, 0 \in S, \A n \in Nat : n \in S => n + 1 \in S
    PROVE  Nat \subseteq S
<1> SUFFICES ASSUME Nat \ S # {} PROVE FALSE
  OBVIOUS
<1>1. PICK m \in Nat \ S : \A k \in Nat \ S : <<k, m>> \notin Smaller
  BY SmallerIsWellFounded, WFMin
<1>2. m # 0 /\ m - 1 \in Nat /\ (m - 1) + 1 = m
  BY <1>1
<1>3. m - 1 \notin S
  BY <1>1, <1>2
<1>4. <<m - 1, m>> \in Smaller
  BY <1>2 DEF Smaller
<1> QED BY <1>1, <1>2, <1>3, <1>4

OneLink(S) == S \cup UNION {ToSet(id.from) : id \in S}

Climbs(f, ids, n) ==
    f = [links \in 0..n |-> IF links = 0 THEN ids ELSE OneLink(f[links - 1])]

\* Ancestry is defined: one can go up any number of links.
LEMMA ClimbExists ==
    ASSUME NEW ids
    PROVE  \A n \in Nat : \E f : Climbs(f, ids, n)
<1> DEFINE S == {n \in Nat : \E f : Climbs(f, ids, n)}
<1>1. 0 \in S
  <2>1. Climbs([links \in 0..0 |-> ids], ids, 0)
    BY DEF Climbs
  <2> QED BY <2>1
<1>2. ASSUME NEW n \in Nat, n \in S PROVE n + 1 \in S
  <2>1. PICK f : Climbs(f, ids, n)
    BY <1>2
  <2> DEFINE g == [links \in 0..n + 1 |-> IF links = n + 1 THEN OneLink(f[n]) ELSE f[links]]
  <2>2. \A k \in 0..n : f[k] = IF k = 0 THEN ids ELSE OneLink(f[k - 1])
    BY <2>1 DEF Climbs
  <2>3. \A k \in 0..n + 1 : g[k] = IF k = 0 THEN ids ELSE OneLink(g[k - 1])
    BY <2>2
  <2>4. Climbs(g, ids, n + 1)
    BY <2>3 DEF Climbs
  <2> QED BY <2>4
<1> HIDE DEF S
<1>3. Nat \subseteq S
  BY <1>1, <1>2, Numbers
<1> QED BY <1>3 DEF S

LEMMA AncestryClimbs ==
    ASSUME NEW ids
    PROVE  \E f : Climbs(f, ids, 7) /\ Ancestry(ids) = f[7]
<1>1. Ancestry(ids) = (CHOOSE f : Climbs(f, ids, 7))[7]
  BY DEF Ancestry, Climbs, OneLink
<1>2. Climbs(CHOOSE f : Climbs(f, ids, 7), ids, 7)
  BY ClimbExists
<1> QED BY <1>1, <1>2

\* An ancestry stays among artifacts that have what they were made from among them.
LEMMA AncestryWithin ==
    ASSUME NEW ids, NEW all, ids \subseteq all, \A id \in all : ToSet(id.from) \subseteq all
    PROVE  Ancestry(ids) \subseteq all
<1>1. PICK f : Climbs(f, ids, 7) /\ Ancestry(ids) = f[7]
  BY AncestryClimbs
<1>2. \A k \in 0..7 : f[k] = IF k = 0 THEN ids ELSE OneLink(f[k - 1])
  BY <1>1 DEF Climbs
<1> DEFINE S == {n \in Nat : n <= 7 => f[n] \subseteq all}
<1>3. 0 \in S
  BY <1>2
<1>4. ASSUME NEW n \in Nat, n \in S PROVE n + 1 \in S
  <2>1. ASSUME n + 1 <= 7 PROVE f[n + 1] = OneLink(f[n]) /\ f[n] \subseteq all
    BY <1>2, <1>4, <2>1
  <2>2. \A T \in SUBSET all : OneLink(T) \subseteq all
    BY DEF OneLink
  <2> QED BY <2>1, <2>2
<1> HIDE DEF S
<1>5. Nat \subseteq S
  BY <1>3, <1>4, Numbers
<1> QED BY <1>1, <1>5 DEF S

\* A bundle goes back to one artifact of each kind.
LEMMA OneOfEachKind ==
    ASSUME IInv, Descent, BundleHolds, bundle # None
    PROVE  LET ids == Ancestry({bundle[part] : part \in DOMAIN bundle})
           IN /\ ids \subseteq DOMAIN store
              /\ \A x, y \in ids : x.kind = y.kind => x = y
<1>1. IsBundle(bundle) /\ Ready(bundle, "strict")
  BY DEF BundleHolds
<1>2. PICK m, b, t, a, r :
         /\ m = bundle["model_dataset"] /\ b = bundle["baseline"] /\ t = bundle["threshold_policy"]
         /\ a = bundle["abstention_policy"] /\ r = bundle["retrieval"]
  OBVIOUS
<1>3. /\ m.kind = "model_dataset" /\ b.kind = "baseline" /\ t.kind = "threshold_policy"
      /\ a.kind = "abstention_policy" /\ r.kind = "retrieval"
      /\ {bundle[part] : part \in DOMAIN bundle} = {m, b, t, a, r}
  BY <1>1, <1>2 DEF IsBundle, Parts
<1>4. /\ {m, b, t, a, r} \subseteq DOMAIN store
      /\ Sound(m) /\ Sound(b) /\ Sound(t) /\ Sound(a) /\ Sound(r)
  BY <1>1, <1>2, <1>3 DEF IsBundle, Parts, Ready, Sound
<1>5. t.from = <<b>> /\ a.from = <<t, b>> /\ b.from = <<m>> /\ r.from = <<m>>
  <2>1. /\ store[t].from = <<b>> /\ store[a].from = <<t, b>> /\ store[b].from = <<m>>
        /\ store[r].from = <<m>>
    BY <1>1, <1>2 DEF Ready, Compatible
  <2>2. /\ t.from = store[t].from /\ a.from = store[a].from
        /\ b.from = store[b].from /\ r.from = store[r].from
    BY <1>3, <1>4, FromOfId DEF Kinds
  <2> QED BY <2>1, <2>2
<1>6. PICK d \in DOMAIN store, l \in DOMAIN store :
         l.kind = "label_policy" /\ l.from = <<d, l.from[2]>> /\ m.from = <<d, l>>
  BY <1>3, <1>4 DEF Descent, DerivesFrom
<1>7. PICK d2 \in DOMAIN store, au \in DOMAIN store :
         au.kind = "audit" /\ au.from = <<d2>> /\ l.from = <<d2, au>>
  BY <1>6 DEF Descent, DerivesFrom
<1>8. d2 = d /\ au.from = <<d>> /\ l.from = <<d, au>>
  BY <1>6, <1>7
<1>9. d.kind = "dataset" /\ d.from = <<>>
  <2>1. PICK d3 \in DOMAIN store : d3.kind = "dataset" /\ au.from = <<d3>>
    BY <1>7 DEF Descent, DerivesFrom
  <2>2. d3 = d
    BY <1>8, <2>1
  <2> QED BY <2>1, <2>2 DEF Descent, DerivesFrom
<1> DEFINE all == {m, b, t, a, r, d, l, au}
<1>10. \A id \in all : ToSet(id.from) \subseteq all
  <2>1. ToSet(<<>>) = {}
    BY DEF ToSet
  <2>2. \A x : ToSet(<<x>>) = {x}
    BY DEF ToSet
  <2>3. \A x, y : ToSet(<<x, y>>) = {x, y}
    BY DEF ToSet
  <2>4. /\ ToSet(m.from) = {d, l} /\ ToSet(b.from) = {m} /\ ToSet(t.from) = {b}
        /\ ToSet(a.from) = {t, b} /\ ToSet(r.from) = {m}
    BY <1>5, <1>6, <2>2, <2>3
  <2>5. ToSet(d.from) = {} /\ ToSet(l.from) = {d, au} /\ ToSet(au.from) = {d}
    BY <1>8, <1>9, <2>1, <2>2, <2>3
  <2> QED BY <2>4, <2>5
<1>11. \A x, y \in all : x.kind = y.kind => x = y
  BY <1>3, <1>6, <1>7, <1>9
<1>12. all \subseteq DOMAIN store
  BY <1>4
<1>13. Ancestry({m, b, t, a, r}) \subseteq all
  <2>1. {m, b, t, a, r} \subseteq all
    OBVIOUS
  <2> HIDE DEF all
  <2> QED BY <1>10, <2>1, AncestryWithin
<1> HIDE DEF all
<1> QED BY <1>3, <1>11, <1>12, <1>13

-----------------------------------------------------------------------------
(* Theorems.                                                               *)

\* Whatever any number of commands build at once, with every fault, was made from sound
\* artifacts that are still published and belong together. It speaks of the inputs of what
\* these commands build, not of what earlier ones have left, which Given may damage.
THEOREM LineageIsAlwaysClosed == Spec => []LineageIsClosed
<1>1. IInv => LineageIsClosed
  BY DEF IInv
<1> QED BY <1>1, Invariant, PTL

\* Every result, found or built, is sound and what was asked for, but for the reference
\* of a threshold policy.
THEOREM EveryRequestIsAnswered == Spec => []AnswersRequest
<1>1. IInv => AnswersRequest
  BY DEF IInv
<1> QED BY <1>1, Invariant, PTL

\* A bundle that a server has loaded, or a strict check has found ready, goes back to one
\* dataset by one chain, whatever any number of commands build, fail to build and leave
\* behind afterwards. Its five parts are sound; their ancestors are only present under
\* their ids, since the loader opens none of them, and that they are rests on GivenWasBuilt:
\* what lay in the store to begin with was built there from what lay there.
THEOREM BundlesAreAlwaysOneChain == Spec => []BundlesAreOneChain
<1>1. Init => Descent /\ BundleHolds
  BY GivenWasBuilt DEF Init, Descent, BundleHolds
<1>2. IInv /\ Descent /\ BundleHolds /\ [Next]_vars => Descent' /\ BundleHolds'
  BY DescentStays, BundleHoldsOn
<1>3. IInv /\ Descent /\ BundleHolds => BundlesAreOneChain
  BY OneOfEachKind DEF BundlesAreOneChain, BundleHolds
<1> QED BY <1>1, <1>2, <1>3, Invariant, PTL DEF Spec

\* Staging directories are left behind by kills, failing removals, and interrupts where
\* the code does not clean up, and by nothing else.
THEOREM LitterIsAlwaysExplained == Spec => LitterIsExplained
<1> DEFINE Explained(c) ==
      (pc[c] \in Running /\ pc'[c] \in Ended /\ c \in staging') =>
          \/ pc'[c] = "killed" \/ pc[c] = "clean"
          \/ /\ pc'[c] = "interrupted"
             /\ pc[c] = "made" \/ request[c].kind \notin CleansUpAlways
<1>1. ASSUME IInv, Next PROVE \A c \in Commands : Explained(c)
  <2> SUFFICES ASSUME NEW c \in Commands, pc[c] \in Running, pc'[c] \in Ended, c \in staging'
               PROVE  Explained(c)
    OBVIOUS
  <2> USE DEF Types, At, Goto, Running, Ended, Asked, Before
  <2>1. ASSUME NEW b \in Commands, Call(b) \/ LoadInputs(b) \/ Look(b) PROVE Explained(c)
    BY <1>1, <2>1 DEF IInv, Call, LoadInputs, Look
  <2>2. ASSUME NEW b \in Commands, Compute(b) \/ Write(b) \/ LookAgain(b) PROVE Explained(c)
    BY <1>1, <2>2 DEF IInv, Compute, Write, LookAgain
  <2>3. ASSUME NEW b \in Commands, Rename(b) \/ Cleanup(b) PROVE Explained(c)
    BY <1>1, <2>3 DEF IInv, Rename, Cleanup
  <2>4. ASSUME NEW b \in Commands, DiskError(b) \/ Stop(b) PROVE Explained(c)
    BY <1>1, <2>4 DEF IInv, DiskError, Stop
  <2>5. CASE LoadBundle
    BY <2>5 DEF LoadBundle
  <2> QED BY <1>1, <2>1, <2>2, <2>3, <2>4, <2>5 DEF Next, Step
<1>2. IInv /\ [Next]_vars => [\A c \in Commands : Explained(c)]_vars
  BY <1>1
<1> QED BY <1>2, Invariant, PTL DEF Spec, LitterIsExplained
=============================================================================
