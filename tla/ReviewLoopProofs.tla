--------------------------- MODULE ReviewLoopProofs ---------------------------
(***************************************************************************)
(* Theorems about ReviewLoop, for any number of scoring and feedback       *)
(* requests on their way at a time, any bundles and predictions, and with  *)
(* every fault.                                                            *)
(***************************************************************************)
EXTENDS ReviewLoop, WellFoundedInduction, TLAPS

\* What a feedback request has come to; the labels it carries may be anything.
Shape ==
  /\ \E S : reviews \in Seq(S)
  /\ \A r \in DOMAIN reviews : {"stored", "reply", "heard"} \subseteq DOMAIN reviews[r]
  /\ feedback \in [loading: BOOLEAN, error: BOOLEAN, success: Nat]

\* A success was heard from a server that had stored the event, and what the page shows
\* is a success that was heard.
Honest ==
  /\ \A r \in DOMAIN reviews :
       /\ reviews[r].heard = "success" => reviews[r].reply = "created"
       /\ reviews[r].reply = "created" => reviews[r].stored
  /\ feedback.success # 0 =>
       /\ feedback.success \in DOMAIN reviews
       /\ reviews[feedback.success].heard = "success"

IInv == Shape /\ Honest

\* No request has been sent at first.
LEMMA InitHolds == Init => IInv
<1>1. ASSUME Init PROVE reviews \in Seq({})
  BY <1>1 DEF Init
<1>. QED
  BY <1>1 DEF Init, IInv, Shape, Honest, NoFeedback

\* A request that is sent is neither answered nor stored.
LEMMA Sending ==
  ASSUME IInv, NEW action, NEW accepted, NEW rejected, Submit(action, accepted, rejected)
  PROVE  IInv'
<1>1. PICK S : reviews \in Seq(S)
  BY DEF IInv, Shape
<1>2. PICK e : /\ reviews' = Append(reviews, e)
               /\ {"stored", "reply", "heard"} \subseteq DOMAIN e
               /\ e.reply = "none" /\ e.heard = "no"
  BY DEF Submit
<1>3. reviews \in Seq(S \cup {e})
  BY <1>1
<1>4. /\ reviews' \in Seq(S \cup {e})
      /\ DOMAIN reviews' = DOMAIN reviews \cup {Len(reviews) + 1}
      /\ \A r \in DOMAIN reviews : reviews'[r] = reviews[r]
      /\ reviews'[Len(reviews) + 1] = e
  BY <1>2, <1>3
<1>5. feedback' = [loading |-> TRUE, error |-> FALSE, success |-> 0]
  BY DEF Submit
<1>. QED
  BY <1>2, <1>4, <1>5 DEF IInv, Shape, Honest

\* One request changes, and keeps what it is not told to change.
Becomes(r, e) ==
  /\ reviews' = [reviews EXCEPT ![r] = e]
  /\ {"stored", "reply", "heard"} \subseteq DOMAIN e

\* Such a change keeps the shape of the requests.
LEMMA OneChange ==
  ASSUME Shape, NEW r \in DOMAIN reviews, NEW e, Becomes(r, e),
         feedback' \in [loading: BOOLEAN, error: BOOLEAN, success: Nat]
  PROVE  /\ Shape'
         /\ DOMAIN reviews' = DOMAIN reviews /\ r \in Nat \ {0}
         /\ reviews'[r] = e
         /\ \A s \in DOMAIN reviews \ {r} : reviews'[s] = reviews[s]
<1>1. PICK S : reviews \in Seq(S)
  BY DEF Shape
<1>2. reviews' \in Seq(S \cup {e})
  BY <1>1 DEF Becomes
<1>. QED
  BY <1>1, <1>2 DEF Shape, Becomes

\* The server answers a request it has not answered, and stores before it says so.
LEMMA Taking ==
  ASSUME IInv, NEW r \in DOMAIN reviews, TakeFeedback(r)
  PROVE  IInv'
<1>. DEFINE stored(committed, reply) ==
       [[[reviews[r] EXCEPT !.stored = committed] EXCEPT !.under = bundle] EXCEPT !.reply = reply]
            refused == [[reviews[r] EXCEPT !.under = bundle] EXCEPT !.reply = "refused"]
<1>1. \E e : /\ Becomes(r, e) /\ e.heard = reviews[r].heard
             /\ e.reply = "created" => e.stored
  <2>1. CASE Valid(reviews[r])
    <3>1. Store(r)
      BY <2>1 DEF TakeFeedback
    <3>2. CASE reviews' = [reviews EXCEPT ![r] = stored(TRUE, "created")]
      <4>1. Becomes(r, stored(TRUE, "created"))
        BY <3>2 DEF Becomes, IInv, Shape
      <4>2. /\ stored(TRUE, "created").heard = reviews[r].heard
            /\ stored(TRUE, "created").stored
        BY DEF IInv, Shape
      <4>. QED
        BY <4>1, <4>2
    <3>3. ASSUME NEW committed \in BOOLEAN,
                 reviews' = [reviews EXCEPT ![r] = stored(committed, "error")]
          PROVE  \E e : /\ Becomes(r, e) /\ e.heard = reviews[r].heard
                        /\ e.reply = "created" => e.stored
      <4>1. Becomes(r, stored(committed, "error"))
        BY <3>3 DEF Becomes, IInv, Shape
      <4>2. /\ stored(committed, "error").heard = reviews[r].heard
            /\ stored(committed, "error").reply = "error"
        BY DEF IInv, Shape
      <4>. QED
        BY <4>1, <4>2
    <3>. QED
      BY <3>1, <3>2, <3>3 DEF Store
  <2>2. CASE ~Valid(reviews[r])
    <3>1. Becomes(r, refused)
      BY <2>2 DEF TakeFeedback, Becomes, IInv, Shape
    <3>2. refused.heard = reviews[r].heard /\ refused.reply = "refused"
      BY DEF IInv, Shape
    <3>. QED
      BY <3>1, <3>2
  <2>. QED
    BY <2>1, <2>2
<1>2. PICK e : /\ Becomes(r, e) /\ e.heard = reviews[r].heard
               /\ e.reply = "created" => e.stored
  BY <1>1
<1>3. /\ reviews[r].reply = "none"
      /\ feedback' = feedback
  BY DEF TakeFeedback
<1>. HIDE DEF stored, refused
<1>. QED
  BY <1>2, <1>3, OneChange DEF IInv, Honest, Shape

\* The page hears of a request it has not heard of, so not of the one it shows.
LEMMA Hearing ==
  ASSUME IInv, NEW r \in DOMAIN reviews, HearFeedback(r) \/ FeedbackFails(r)
  PROVE  IInv'
<1>. DEFINE heard(as) == [reviews[r] EXCEPT !.heard = as]
<1>1. reviews[r].heard = "no" /\ feedback.success # r /\ r \in Nat
  <2>1. reviews[r].heard = "no"
    BY DEF HearFeedback, FeedbackFails
  <2>2. r \in Nat \ {0}
    <3>1. PICK S : reviews \in Seq(S)
      BY DEF IInv, Shape
    <3>. QED
      BY <3>1
  <2>. QED
    BY <2>1, <2>2 DEF IInv, Honest
<1>2. ASSUME NEW as
      PROVE  /\ DOMAIN heard(as) = DOMAIN reviews[r]
             /\ heard(as).heard = as
             /\ heard(as).stored = reviews[r].stored /\ heard(as).reply = reviews[r].reply
  <2>1. {"stored", "reply", "heard"} \subseteq DOMAIN reviews[r]
    BY DEF IInv, Shape
  <2>. QED
    BY <2>1
<1>3. CASE HearFeedback(r)
  <2>1. reviews' = [reviews EXCEPT ![r] = heard("success")]
    BY <1>3 DEF HearFeedback
  <2>2. Becomes(r, heard("success"))
    BY <2>1, <1>2 DEF Becomes, IInv, Shape
  <2>3. /\ reviews[r].reply = "created"
        /\ feedback' = [feedback EXCEPT !.loading = FALSE, !.success = r]
    BY <1>3 DEF HearFeedback
  <2>. HIDE DEF heard
  <2>5. feedback' \in [loading: BOOLEAN, error: BOOLEAN, success: Nat]
        /\ feedback'.success = r
    BY <2>3, <1>1 DEF IInv, Shape
  <2>. QED
    BY <1>2, <2>2, <2>3, <2>5, OneChange DEF IInv, Honest
<1>4. CASE FeedbackFails(r)
  <2>1. reviews' = [reviews EXCEPT ![r] = heard("error")]
    BY <1>4 DEF FeedbackFails
  <2>2. Becomes(r, heard("error"))
    BY <2>1, <1>2 DEF Becomes, IInv, Shape
  <2>3. feedback' = [feedback EXCEPT !.loading = FALSE, !.error = TRUE]
    BY <1>4 DEF FeedbackFails
  <2>. HIDE DEF heard
  <2>4. feedback' \in [loading: BOOLEAN, error: BOOLEAN, success: Nat]
        /\ feedback'.success = feedback.success
    BY <2>3 DEF IInv, Shape
  <2>. QED
    BY <1>1, <1>2, <2>2, <2>4, OneChange DEF IInv, Honest
<1>. QED
  BY <1>3, <1>4

\* Steps that send no feedback and hear none at most forget what was heard.
LEMMA Forgetting ==
  ASSUME IInv, reviews' = reviews, feedback' \in {feedback, NoFeedback}
  PROVE  IInv'
<1>1. PICK S : reviews \in Seq(S)
  BY DEF IInv, Shape
<1>2. reviews' \in Seq(S)
  BY <1>1
<1>3. Shape'
  <2>1. \E T : reviews' \in Seq(T)
    BY <1>2
  <2>2. \A r \in DOMAIN reviews' : {"stored", "reply", "heard"} \subseteq DOMAIN reviews'[r]
    BY DEF IInv, Shape
  <2>3. feedback' \in [loading: BOOLEAN, error: BOOLEAN, success: Nat]
    <3>1. NoFeedback \in [loading: BOOLEAN, error: BOOLEAN, success: Nat]
      BY DEF NoFeedback
    <3>2. feedback \in [loading: BOOLEAN, error: BOOLEAN, success: Nat]
      BY DEF IInv, Shape
    <3>. QED
      BY <3>1, <3>2
  <2>. QED
    BY <2>1, <2>2, <2>3 DEF Shape
<1>4. CASE feedback' = feedback
  BY <1>3, <1>4 DEF IInv, Honest
<1>5. CASE feedback' = NoFeedback
  BY <1>3, <1>5 DEF IInv, Honest, NoFeedback
<1>. QED
  BY <1>4, <1>5

\* Every step of the page, the server or the network keeps the invariant.
LEMMA StepKeepsInvariant == IInv /\ [Next]_vars => IInv'
<1>. SUFFICES ASSUME IInv, [Next]_vars PROVE IInv'
  OBVIOUS
<1>1. CASE Maintainer
  <2>1. CASE \E action, accepted, rejected : Submit(action, accepted, rejected)
    BY <2>1, Sending
  <2>2. CASE reviews' = reviews /\ feedback' \in {feedback, NoFeedback}
    BY <2>2, Forgetting
  <2>. QED
    BY <1>1, <2>1, <2>2
       DEF Maintainer, Edit, ScoreIssue, ReviewAnother, DismissError, Accept, Reject,
           OpenCorrection, Toggle, CancelCorrection, SubmitCorrection
<1>2. ASSUME NEW k \in DOMAIN scores, Scoring(k) PROVE IInv'
  BY <1>2, Forgetting DEF Scoring, Infer, HearScore, ScoreFails
<1>3. ASSUME NEW r \in DOMAIN reviews, Reviewing(r) PROVE IInv'
  BY <1>3, Taking, Hearing DEF Reviewing
<1>4. CASE Restart \/ UNCHANGED vars
  BY <1>4, Forgetting DEF Restart, vars
<1>. QED
  BY <1>1, <1>2, <1>3, <1>4 DEF Next

\* "Feedback stored" is shown for an event that is in the database (useFeedback.ts,
\* FeedbackRepository.store), for any number of requests whose answers cross, commits
\* that fail and restarts of the server.
THEOREM SuccessIsAlwaysStored == Spec => []SuccessIsStored
<1>1. IInv => SuccessIsStored
  BY DEF IInv, Honest, SuccessIsStored
<1>. QED
  BY InitHolds, StepKeepsInvariant, <1>1, PTL DEF Spec

-----------------------------------------------------------------------------
(* The requests, as a step leaves them.                                    *)

Listed(s, fields) ==
  /\ \E S : s \in Seq(S)
  /\ \A k \in DOMAIN s : fields \subseteq DOMAIN s[k]

ScoreFields == {"issue", "bundle", "reply", "heard"}
ReviewFields == {"of", "artifacts", "title", "predicted", "action", "accepted", "rejected",
                 "under", "stored", "reply", "heard"}

HasPickFields(p) == {"open", "over", "selected"} \subseteq DOMAIN p /\ p.open \in BOOLEAN

\* The fields the page and the requests have.
Formed ==
  /\ Listed(scores, ScoreFields)
  /\ Listed(reviews, ReviewFields)
  /\ inference \in [loading: BOOLEAN, result: Nat]
  /\ feedback \in [loading: BOOLEAN, error: BOOLEAN, success: Nat]
  /\ HasPickFields(picks)

\* t is s with one more request e; with request e in the place of its k-th.
Appended(s, t, e) == t = Append(s, e)
Longer(s, t, e) ==
  \E n \in Nat \ {0} :
    /\ n = Len(s) + 1
    /\ n \notin DOMAIN s /\ DOMAIN t = DOMAIN s \cup {n} /\ t[n] = e
    /\ \A k \in DOMAIN s : t[k] = s[k] /\ k < n
Changed(s, t, k, e) == t = [s EXCEPT ![k] = e]

\* A list after a request was sent.
LEMMA AfterAppend ==
  ASSUME NEW s, NEW fields, Listed(s, fields), NEW e, fields \subseteq DOMAIN e,
         NEW t, Appended(s, t, e)
  PROVE  Listed(t, fields) /\ Longer(s, t, e)
<1>1. PICK S : s \in Seq(S)
  BY DEF Listed
<1>. DEFINE n == Len(s) + 1
<1>2. s \in Seq(S \cup {e}) /\ t \in Seq(S \cup {e})
  BY <1>1 DEF Appended
<1>3. /\ n \in Nat \ {0} /\ n \notin DOMAIN s /\ DOMAIN t = DOMAIN s \cup {n} /\ t[n] = e
      /\ \A k \in DOMAIN s : t[k] = s[k] /\ k < n
  BY <1>2 DEF Appended
<1>4. Listed(t, fields)
  <2>. HIDE DEF n
  <2>. QED
    BY <1>2, <1>3 DEF Listed
<1>. QED
  BY <1>3, <1>4 DEF Longer

\* A list after one of its requests changed.
LEMMA AfterChange ==
  ASSUME NEW s, NEW fields, Listed(s, fields), NEW k \in DOMAIN s, NEW e, fields \subseteq DOMAIN e,
         NEW t, Changed(s, t, k, e)
  PROVE  /\ Listed(t, fields)
         /\ k \in Nat \ {0} /\ DOMAIN t = DOMAIN s
         /\ t[k] = e
         /\ \A j \in DOMAIN s \ {k} : t[j] = s[j]
<1>1. PICK S : s \in Seq(S)
  BY DEF Listed
<1>2. s \in Seq(S \cup {e}) /\ t \in Seq(S \cup {e})
  BY <1>1 DEF Changed
<1>. QED
  BY <1>1, <1>2 DEF Listed, Changed

\* The page hears that request k, or r, came to this end.
ScoreHeardAs(k, as) == scores' = [scores EXCEPT ![k].heard = as]
ReviewHeardAs(r, as) == reviews' = [reviews EXCEPT ![r].heard = as]

\* What a new scoring request looks like.
LEMMA ScoreIsSent ==
  ASSUME Formed, ScoreIssue
  PROVE  /\ Listed(scores', ScoreFields)
         /\ \E n \in Nat \ {0} :
              /\ n = Len(scores) + 1
              /\ n \notin DOMAIN scores /\ DOMAIN scores' = DOMAIN scores \cup {n}
              /\ \A k \in DOMAIN scores : scores'[k] = scores[k]
              /\ scores'[n].issue = form
              /\ scores'[n].reply = "none" /\ scores'[n].heard = "no"
<1>1. PICK sent : /\ Appended(scores, scores', sent) /\ ScoreFields \subseteq DOMAIN sent
                  /\ sent.issue = form /\ sent.reply = "none" /\ sent.heard = "no"
  BY DEF ScoreIssue, ScoreFields, Appended
<1>2. Listed(scores, ScoreFields)
  BY DEF Formed
<1>3. Listed(scores', ScoreFields) /\ Longer(scores, scores', sent)
  BY <1>1, <1>2, AfterAppend
<1>. QED
  BY <1>1, <1>3 DEF Longer

\* A new feedback request, as the page sends it.
Sent(n, action, accepted, rejected) ==
  /\ n = Len(reviews) + 1
  /\ n \notin DOMAIN reviews /\ DOMAIN reviews' = DOMAIN reviews \cup {n}
  /\ \A r \in DOMAIN reviews : reviews'[r] = reviews[r] /\ r < n
  /\ reviews'[n].of = inference.result /\ reviews'[n].artifacts = Shown.bundle
  /\ reviews'[n].title = form /\ reviews'[n].predicted = Predicted
  /\ reviews'[n].action = action /\ reviews'[n].accepted = accepted
  /\ reviews'[n].rejected = rejected /\ reviews'[n].stored = FALSE
  /\ reviews'[n].reply = "none" /\ reviews'[n].heard = "no"

\* What a new feedback request looks like.
LEMMA ReviewIsSent ==
  ASSUME Formed, NEW action, NEW accepted, NEW rejected, Submit(action, accepted, rejected)
  PROVE  /\ Listed(reviews', ReviewFields)
         /\ \E n \in Nat \ {0} : Sent(n, action, accepted, rejected)
<1>1. PICK sent :
         /\ Appended(reviews, reviews', sent) /\ ReviewFields \subseteq DOMAIN sent
         /\ sent.of = inference.result /\ sent.artifacts = Shown.bundle
         /\ sent.title = form /\ sent.predicted = Predicted
         /\ sent.action = action /\ sent.accepted = accepted
         /\ sent.rejected = rejected /\ sent.stored = FALSE
         /\ sent.reply = "none" /\ sent.heard = "no"
  BY DEF Submit, ReviewFields, Appended
<1>2. Listed(reviews, ReviewFields)
  BY DEF Formed
<1>3. Listed(reviews', ReviewFields) /\ Longer(reviews, reviews', sent)
  BY <1>1, <1>2, AfterAppend
<1>4. \E n \in Nat \ {0} : Sent(n, action, accepted, rejected)
  BY <1>1, <1>3 DEF Sent, Longer
<1>. QED
  BY <1>3, <1>4

\* The answer to a scoring request changes neither its issue nor whether it was heard.
LEMMA ScoreIsInferred ==
  ASSUME Formed, NEW k \in DOMAIN scores, Infer(k)
  PROVE  /\ Listed(scores', ScoreFields)
         /\ k \in Nat \ {0} /\ DOMAIN scores' = DOMAIN scores
         /\ \A j \in DOMAIN scores \ {k} : scores'[j] = scores[j]
         /\ scores'[k].issue = scores[k].issue /\ scores'[k].heard = scores[k].heard
         /\ scores'[k].reply = "scored" => scores'[k].bundle = bundle
<1>a. Listed(scores, ScoreFields)
  BY DEF Formed
<1>0. ScoreFields \subseteq DOMAIN scores[k]
  BY DEF Formed, Listed
<1>. DEFINE scored == [[scores[k] EXCEPT !.reply = "scored"] EXCEPT !.bundle = bundle]
            failed == [scores[k] EXCEPT !.reply = "error"]
<1>1. /\ ScoreFields \subseteq DOMAIN scored
      /\ scored.issue = scores[k].issue /\ scored.heard = scores[k].heard
      /\ scored.bundle = bundle
  BY <1>0 DEF ScoreFields
<1>2. /\ ScoreFields \subseteq DOMAIN failed
      /\ failed.issue = scores[k].issue /\ failed.heard = scores[k].heard
      /\ failed.reply = "error"
  BY <1>0 DEF ScoreFields
<1>3. Changed(scores, scores', k, scored) \/ Changed(scores, scores', k, failed)
  BY DEF Infer, Changed
<1>. HIDE DEF scored, failed
<1>. QED
  BY <1>1, <1>2, <1>3, <1>a, AfterChange

\* The arrival of an answer to a scoring request changes nothing else of it.
LEMMA ScoreIsHeard ==
  ASSUME Formed, NEW k \in DOMAIN scores, NEW as, ScoreHeardAs(k, as)
  PROVE  /\ Listed(scores', ScoreFields)
         /\ k \in Nat \ {0} /\ DOMAIN scores' = DOMAIN scores
         /\ \A j \in DOMAIN scores \ {k} : scores'[j] = scores[j]
         /\ scores'[k].issue = scores[k].issue /\ scores'[k].bundle = scores[k].bundle
         /\ scores'[k].reply = scores[k].reply /\ scores'[k].heard = as
<1>a. Listed(scores, ScoreFields)
  BY DEF Formed
<1>. DEFINE heard == [scores[k] EXCEPT !.heard = as]
<1>1. ScoreFields \subseteq DOMAIN scores[k]
  BY DEF Formed, Listed
<1>2. /\ ScoreFields \subseteq DOMAIN heard
      /\ heard.issue = scores[k].issue /\ heard.bundle = scores[k].bundle
      /\ heard.reply = scores[k].reply /\ heard.heard = as
  BY <1>1 DEF ScoreFields
<1>3. Changed(scores, scores', k, heard)
  BY DEF Changed, ScoreHeardAs
<1>. HIDE DEF heard
<1>4. /\ Listed(scores', ScoreFields)
      /\ k \in Nat \ {0} /\ DOMAIN scores' = DOMAIN scores
      /\ scores'[k] = heard
      /\ \A j \in DOMAIN scores \ {k} : scores'[j] = scores[j]
  BY <1>2, <1>3, <1>a, AfterChange
<1>. QED
  BY <1>2, <1>4

\* What was asked for in a feedback request.
SameRequest(e, f) ==
  /\ e.of = f.of /\ e.artifacts = f.artifacts /\ e.title = f.title
  /\ e.predicted = f.predicted /\ e.action = f.action
  /\ e.accepted = f.accepted /\ e.rejected = f.rejected

\* The server judges a feedback request by the bundle it has loaded.
LEMMA ReviewIsTaken ==
  ASSUME Formed, NEW r \in DOMAIN reviews, TakeFeedback(r)
  PROVE  /\ Listed(reviews', ReviewFields)
         /\ r \in Nat \ {0} /\ DOMAIN reviews' = DOMAIN reviews
         /\ \A s \in DOMAIN reviews \ {r} : reviews'[s] = reviews[s]
         /\ SameRequest(reviews'[r], reviews[r])
         /\ reviews'[r].under = bundle /\ reviews'[r].heard = reviews[r].heard
         /\ reviews'[r].reply # "none"
         /\ Valid(reviews[r]) => reviews'[r].reply # "refused"
         /\ ~Valid(reviews[r]) => reviews'[r].reply = "refused"
                                  /\ reviews'[r].stored = reviews[r].stored
<1>a. Listed(reviews, ReviewFields)
  BY DEF Formed
<1>. DEFINE answered(committed, reply) ==
       [[[reviews[r] EXCEPT !.stored = committed] EXCEPT !.under = bundle] EXCEPT !.reply = reply]
            refused == [[reviews[r] EXCEPT !.under = bundle] EXCEPT !.reply = "refused"]
<1>1. ReviewFields \subseteq DOMAIN reviews[r]
  BY DEF Formed, Listed
<1>2. ASSUME NEW committed, NEW reply
      PROVE  /\ ReviewFields \subseteq DOMAIN answered(committed, reply)
             /\ SameRequest(answered(committed, reply), reviews[r])
             /\ answered(committed, reply).under = bundle
             /\ answered(committed, reply).heard = reviews[r].heard
             /\ answered(committed, reply).reply = reply
  BY <1>1 DEF ReviewFields, SameRequest
<1>3. /\ ReviewFields \subseteq DOMAIN refused
      /\ SameRequest(refused, reviews[r])
      /\ refused.under = bundle /\ refused.heard = reviews[r].heard
      /\ refused.reply = "refused" /\ refused.stored = reviews[r].stored
  BY <1>1 DEF ReviewFields, SameRequest
<1>4. CASE Valid(reviews[r])
  <2>1. PICK committed \in BOOLEAN, reply \in {"created", "error"} :
           Changed(reviews, reviews', r, answered(committed, reply))
    <3>1. Store(r)
      BY <1>4 DEF TakeFeedback
    <3>2. CASE reviews' = [reviews EXCEPT ![r] = answered(TRUE, "created")]
      BY <3>2 DEF Changed
    <3>3. CASE \E committed \in BOOLEAN :
                 reviews' = [reviews EXCEPT ![r] = answered(committed, "error")]
      <4>1. PICK committed \in BOOLEAN :
                   reviews' = [reviews EXCEPT ![r] = answered(committed, "error")]
        BY <3>3
      <4>. QED
        BY <4>1 DEF Changed
    <3>. QED
      BY <3>1, <3>2, <3>3 DEF Store
  <2>. HIDE DEF answered
  <2>2. /\ Listed(reviews', ReviewFields)
        /\ r \in Nat \ {0} /\ DOMAIN reviews' = DOMAIN reviews
        /\ reviews'[r] = answered(committed, reply)
        /\ \A s \in DOMAIN reviews \ {r} : reviews'[s] = reviews[s]
    BY <1>2, <2>1, <1>a, AfterChange
  <2>. QED
    BY <1>2, <1>4, <2>2
<1>5. CASE ~Valid(reviews[r])
  <2>1. Changed(reviews, reviews', r, refused)
    BY <1>5 DEF TakeFeedback, Changed
  <2>. HIDE DEF refused
  <2>2. /\ Listed(reviews', ReviewFields)
        /\ r \in Nat \ {0} /\ DOMAIN reviews' = DOMAIN reviews
        /\ reviews'[r] = refused
        /\ \A s \in DOMAIN reviews \ {r} : reviews'[s] = reviews[s]
    BY <1>3, <2>1, <1>a, AfterChange
  <2>. QED
    BY <1>3, <1>5, <2>2
<1>. QED
  BY <1>4, <1>5

\* The arrival of an answer to a feedback request changes nothing else of it.
LEMMA ReviewIsHeard ==
  ASSUME Formed, NEW r \in DOMAIN reviews, NEW as, ReviewHeardAs(r, as)
  PROVE  /\ Listed(reviews', ReviewFields)
         /\ r \in Nat \ {0} /\ DOMAIN reviews' = DOMAIN reviews
         /\ \A s \in DOMAIN reviews \ {r} : reviews'[s] = reviews[s]
         /\ SameRequest(reviews'[r], reviews[r])
         /\ reviews'[r].under = reviews[r].under /\ reviews'[r].stored = reviews[r].stored
         /\ reviews'[r].reply = reviews[r].reply /\ reviews'[r].heard = as
<1>a. Listed(reviews, ReviewFields)
  BY DEF Formed
<1>. DEFINE heard == [reviews[r] EXCEPT !.heard = as]
<1>1. ReviewFields \subseteq DOMAIN reviews[r]
  BY DEF Formed, Listed
<1>2. /\ ReviewFields \subseteq DOMAIN heard
      /\ SameRequest(heard, reviews[r])
      /\ heard.under = reviews[r].under /\ heard.stored = reviews[r].stored
      /\ heard.reply = reviews[r].reply /\ heard.heard = as
  BY <1>1 DEF ReviewFields, SameRequest
<1>3. Changed(reviews, reviews', r, heard)
  BY DEF Changed, ReviewHeardAs
<1>. HIDE DEF heard
<1>4. /\ Listed(reviews', ReviewFields)
      /\ r \in Nat \ {0} /\ DOMAIN reviews' = DOMAIN reviews
      /\ reviews'[r] = heard
      /\ \A s \in DOMAIN reviews \ {r} : reviews'[s] = reviews[s]
  BY <1>2, <1>3, <1>a, AfterChange
<1>. QED
  BY <1>2, <1>4

\* The page and the requests keep their fields.
LEMMA FormedStep ==
  ASSUME Formed, [Next]_vars
  PROVE  Formed'
<1>0. /\ HasPickFields(NoPicks)
      /\ NoInference \in [loading: BOOLEAN, result: Nat]
      /\ NoFeedback \in [loading: BOOLEAN, error: BOOLEAN, success: Nat]
  BY DEF HasPickFields, NoPicks, NoInference, NoFeedback
<1>1. ASSUME NEW k \in DOMAIN scores, Infer(k) PROVE Formed'
  <2>1. UNCHANGED <<inference, feedback, picks, reviews>>
    BY <1>1 DEF Infer
  <2>. QED
    BY <1>1, <2>1, ScoreIsInferred DEF Formed
<1>2. ASSUME NEW k \in DOMAIN scores, HearScore(k) PROVE Formed'
  <2>1. /\ inference' = [loading |-> FALSE, result |-> k]
        /\ UNCHANGED <<feedback, reviews>> /\ picks' \in {picks, NoPicks}
    BY <1>2 DEF HearScore
  <2>2. ScoreHeardAs(k, "success")
    BY <1>2 DEF HearScore, ScoreHeardAs
  <2>3. Listed(scores', ScoreFields) /\ k \in Nat
    BY <2>2, ScoreIsHeard
  <2>. QED
    BY <1>0, <2>1, <2>3 DEF Formed
<1>3. ASSUME NEW k \in DOMAIN scores, ScoreFails(k) PROVE Formed'
  <2>1. /\ inference' = [inference EXCEPT !.loading = FALSE]
        /\ UNCHANGED <<feedback, picks, reviews>>
    BY <1>3 DEF ScoreFails
  <2>2. ScoreHeardAs(k, "error")
    BY <1>3 DEF ScoreFails, ScoreHeardAs
  <2>3. Listed(scores', ScoreFields)
    BY <2>2, ScoreIsHeard
  <2>. QED
    BY <2>1, <2>3 DEF Formed
<1>4. ASSUME NEW r \in DOMAIN reviews, TakeFeedback(r) PROVE Formed'
  <2>1. UNCHANGED <<inference, feedback, picks, scores>>
    BY <1>4 DEF TakeFeedback
  <2>. QED
    BY <1>4, <2>1, ReviewIsTaken DEF Formed
<1>5. ASSUME NEW r \in DOMAIN reviews, HearFeedback(r) PROVE Formed'
  <2>1. /\ feedback' = [feedback EXCEPT !.loading = FALSE, !.success = r]
        /\ UNCHANGED <<inference, picks, scores>>
    BY <1>5 DEF HearFeedback
  <2>2. ReviewHeardAs(r, "success")
    BY <1>5 DEF HearFeedback, ReviewHeardAs
  <2>3. Listed(reviews', ReviewFields) /\ r \in Nat
    BY <2>2, ReviewIsHeard
  <2>. QED
    BY <2>1, <2>3 DEF Formed
<1>6. ASSUME NEW r \in DOMAIN reviews, FeedbackFails(r) PROVE Formed'
  <2>1. /\ feedback' = [feedback EXCEPT !.loading = FALSE, !.error = TRUE]
        /\ UNCHANGED <<inference, picks, scores>>
    BY <1>6 DEF FeedbackFails
  <2>2. ReviewHeardAs(r, "error")
    BY <1>6 DEF FeedbackFails, ReviewHeardAs
  <2>3. Listed(reviews', ReviewFields)
    BY <2>2, ReviewIsHeard
  <2>. QED
    BY <2>1, <2>3 DEF Formed
<1>7. CASE ScoreIssue
  <2>1. Listed(scores', ScoreFields)
    BY <1>7, ScoreIsSent
  <2>. QED
    BY <1>0, <1>7, <2>1 DEF ScoreIssue, Formed, NoFeedback
<1>8. ASSUME NEW action, NEW accepted, NEW rejected, Submit(action, accepted, rejected),
             picks' \in {picks, NoPicks}
      PROVE  Formed'
  <2>1. Listed(reviews', ReviewFields)
    BY <1>8, ReviewIsSent
  <2>. QED
    BY <1>0, <1>8, <2>1 DEF Submit, Formed
<1>9. ASSUME NEW i, Edit(i) PROVE Formed'
  BY <1>9 DEF Edit, Formed
<1>10. CASE ReviewAnother \/ DismissError
  BY <1>0, <1>10 DEF ReviewAnother, DismissError, Formed
<1>11. CASE OpenCorrection \/ CancelCorrection
  <2>1. OpenCorrection => HasPickFields(picks')
    BY DEF OpenCorrection, HasPickFields
  <2>. QED
    BY <1>0, <1>11, <2>1 DEF OpenCorrection, CancelCorrection, Formed
<1>12. ASSUME NEW l, Toggle(l) PROVE Formed'
  <2>1. PICK selected : picks' = [picks EXCEPT !.selected = selected]
    BY <1>12 DEF Toggle
  <2>2. HasPickFields(picks')
    BY <2>1 DEF Formed, HasPickFields
  <2>. QED
    BY <1>12, <2>2 DEF Toggle, Formed
<1>13. CASE Restart \/ UNCHANGED vars
  BY <1>13 DEF Restart, vars, Formed
<1>14. CASE Accept \/ Reject \/ SubmitCorrection
  BY <1>8, <1>14 DEF Accept, Reject, SubmitCorrection
<1>. QED
  BY <1>1, <1>2, <1>3, <1>4, <1>5, <1>6, <1>7, <1>9, <1>10, <1>11, <1>12, <1>13, <1>14
     DEF Next, Maintainer, Scoring, Reviewing

-----------------------------------------------------------------------------
(* What is reviewed, and what is stored.                                   *)

\* An issue that was scored, as the page has heard.
Scored(k) ==
  k \in DOMAIN scores /\ scores[k].heard = "success" /\ scores[k].reply = "scored"

\* A feedback request is about a prediction the page has shown.
IsAbout(e, k) ==
  /\ e.of = k /\ e.artifacts = scores[k].bundle
  /\ e.predicted = Predictions[scores[k].bundle][scores[k].issue]

\* The labels of an event are of the bundle that judged it.
Judged(e) ==
  e.stored =>
    /\ e.reply # "none" /\ e.artifacts = e.under
    /\ SetOf(e.predicted) \cup SetOf(e.accepted) \cup SetOf(e.rejected)
         \subseteq SetOf(LabelOrder[e.under])
    /\ SetOf(e.accepted) \cap SetOf(e.rejected) = {}

Consistent ==
  /\ \A k \in DOMAIN scores : scores[k].heard = "success" => scores[k].reply = "scored"
  /\ inference.result # 0 => Scored(inference.result)
  /\ PicksAreOverShown
  /\ \A r \in DOMAIN reviews :
       Scored(reviews[r].of) /\ IsAbout(reviews[r], reviews[r].of) /\ Judged(reviews[r])

\* Steps that leave the requests alone.
LEMMA PageStep ==
  ASSUME Formed, Consistent, UNCHANGED <<scores, reviews>>,
         inference' \in {inference, NoInference},
         \/ ~picks'.open
         \/ /\ picks'.open => PanelShown /\ picks'.over = Predicted
            /\ inference' = inference
  PROVE  Consistent'
<1>1. inference'.result # 0 => Scored(inference'.result)
  BY DEF Consistent, NoInference
<1>2. PicksAreOverShown'
  BY DEF PicksAreOverShown, PanelShown, Predicted, Shown
<1>3. ASSUME NEW k PROVE Scored(k)' <=> Scored(k)
  BY DEF Scored
<1>4. ASSUME NEW e, NEW k PROVE IsAbout(e, k)' <=> IsAbout(e, k)
  BY DEF IsAbout
<1>. QED
  BY <1>1, <1>2, <1>3, <1>4 DEF Consistent

\* A scored issue stays what it was, whatever else is asked and answered.
LEMMA ScoredStays ==
  ASSUME Formed, [Next]_vars
  PROVE  \A j : Scored(j) => /\ Scored(j)'
                             /\ scores'[j].bundle = scores[j].bundle
                             /\ scores'[j].issue = scores[j].issue
<1>1. CASE UNCHANGED scores
  BY <1>1 DEF Scored
<1>2. CASE ScoreIssue
  BY <1>2, ScoreIsSent DEF Scored
<1>3. ASSUME NEW k \in DOMAIN scores, Infer(k)
      PROVE  \A j : Scored(j) => /\ Scored(j)'
                                 /\ scores'[j].bundle = scores[j].bundle
                                 /\ scores'[j].issue = scores[j].issue
  <2>1. ~Scored(k)
    BY <1>3 DEF Infer, Scored
  <2>. QED
    BY <1>3, <2>1, ScoreIsInferred DEF Scored
<1>4. ASSUME NEW k \in DOMAIN scores, HearScore(k) \/ ScoreFails(k)
      PROVE  \A j : Scored(j) => /\ Scored(j)'
                                 /\ scores'[j].bundle = scores[j].bundle
                                 /\ scores'[j].issue = scores[j].issue
  <2>1. ~Scored(k)
    BY <1>4 DEF HearScore, ScoreFails, Scored
  <2>2. ScoreHeardAs(k, "success") \/ ScoreHeardAs(k, "error")
    BY <1>4 DEF HearScore, ScoreFails, ScoreHeardAs
  <2>. QED
    BY <2>1, <2>2, ScoreIsHeard DEF Scored
<1>. QED
  BY <1>1, <1>2, <1>3, <1>4
     DEF Next, Maintainer, Scoring, Reviewing, Edit, ReviewAnother, DismissError, Accept, Reject,
         Submit, OpenCorrection, Toggle, CancelCorrection, SubmitCorrection, TakeFeedback,
         HearFeedback, FeedbackFails, Restart, vars

\* Scoring requests: what is on the page or under review was scored before.
LEMMA ScoringStep ==
  ASSUME Formed, Consistent, [Next]_vars,
         ScoreIssue \/ \E k \in DOMAIN scores : Scoring(k)
  PROVE  Consistent'
<1>1. \A j : Scored(j) => /\ Scored(j)'
                          /\ scores'[j].bundle = scores[j].bundle
                          /\ scores'[j].issue = scores[j].issue
  BY ScoredStays
<1>2. UNCHANGED reviews
  BY DEF ScoreIssue, Scoring, Infer, HearScore, ScoreFails
<1>3. (\A r \in DOMAIN reviews :
        Scored(reviews[r].of) /\ IsAbout(reviews[r], reviews[r].of) /\ Judged(reviews[r]))'
  <2>1. SUFFICES ASSUME NEW r \in DOMAIN reviews
                 PROVE  /\ Scored(reviews[r].of)' /\ IsAbout(reviews[r], reviews[r].of)'
                        /\ Judged(reviews[r])'
    BY <1>2
  <2>2. Scored(reviews[r].of) /\ IsAbout(reviews[r], reviews[r].of) /\ Judged(reviews[r])
    BY DEF Consistent
  <2>3. reviews'[r] = reviews[r]
    BY <1>2
  <2>4. Scored(reviews[r].of)'
    BY <1>1, <2>2, <2>3 DEF Scored
  <2>5. IsAbout(reviews[r], reviews[r].of)'
    BY <1>1, <2>2, <2>3 DEF IsAbout
  <2>6. Judged(reviews[r])'
    BY <2>2, <2>3 DEF Judged
  <2>. QED
    BY <2>4, <2>5, <2>6
<1>4. CASE ScoreIssue
  <2>1. inference'.result = 0 /\ ~picks'.open
    BY <1>4 DEF ScoreIssue, NoPicks
  <2>2. \A k \in DOMAIN scores' : scores'[k].heard = "success" => scores'[k].reply = "scored"
    BY <1>4, ScoreIsSent DEF Consistent
  <2>. QED
    BY <1>3, <2>1, <2>2 DEF Consistent, PicksAreOverShown
<1>5. ASSUME NEW k \in DOMAIN scores, Infer(k) PROVE Consistent'
  <2>1. UNCHANGED <<inference, picks>>
    BY <1>5 DEF Infer
  <2>2. \A j \in DOMAIN scores' : scores'[j].heard = "success" => scores'[j].reply = "scored"
    <3>1. scores[k].reply = "none"
      BY <1>5 DEF Infer
    <3>. QED
      BY <1>5, <3>1, ScoreIsInferred DEF Consistent
  <2>3. PicksAreOverShown'
    BY <1>1, <2>1 DEF Consistent, PicksAreOverShown, PanelShown, Predicted, Shown
  <2>. QED
    BY <1>1, <1>3, <2>1, <2>2, <2>3 DEF Consistent
<1>6. ASSUME NEW k \in DOMAIN scores, HearScore(k) PROVE Consistent'
  <2>1. /\ ScoreHeardAs(k, "success")
        /\ scores[k].reply = "scored" /\ inference' = [loading |-> FALSE, result |-> k]
        /\ picks' \in IF SameLabels(k) THEN {picks, NoPicks} ELSE {NoPicks}
    BY <1>6 DEF HearScore, ScoreHeardAs
  <2>2. /\ DOMAIN scores' = DOMAIN scores /\ k # 0
        /\ scores'[k].heard = "success" /\ scores'[k].reply = "scored"
        /\ scores'[k].bundle = scores[k].bundle /\ scores'[k].issue = scores[k].issue
        /\ \A j \in DOMAIN scores \ {k} : scores'[j] = scores[j]
    BY <2>1, ScoreIsHeard
  <2>3. inference'.result = k /\ inference'.loading = FALSE /\ Scored(k)'
    BY <2>1, <2>2 DEF Scored
  <2>4. PicksAreOverShown'
    <3>1. CASE picks' = NoPicks
      BY <3>1 DEF PicksAreOverShown, NoPicks
    <3>2. CASE SameLabels(k) /\ picks' = picks
      BY <2>2, <2>3, <3>2
         DEF Consistent, PicksAreOverShown, SameLabels, PanelShown, Predicted, Shown
    <3>. QED
      BY <2>1, <3>1, <3>2
  <2>5. \A j \in DOMAIN scores' : scores'[j].heard = "success" => scores'[j].reply = "scored"
    BY <2>2 DEF Consistent
  <2>. QED
    BY <1>3, <2>3, <2>4, <2>5 DEF Consistent
<1>7. ASSUME NEW k \in DOMAIN scores, ScoreFails(k) PROVE Consistent'
  <2>1. /\ ScoreHeardAs(k, "error") /\ UNCHANGED picks
        /\ inference' = [inference EXCEPT !.loading = FALSE]
    BY <1>7 DEF ScoreFails, ScoreHeardAs
  <2>2. inference'.result = inference.result /\ inference'.loading = FALSE
    BY <2>1 DEF Formed
  <2>3. PicksAreOverShown'
    BY <1>1, <2>1, <2>2 DEF Consistent, PicksAreOverShown, PanelShown, Predicted, Shown
  <2>4. \A j \in DOMAIN scores' : scores'[j].heard = "success" => scores'[j].reply = "scored"
    BY <2>1, ScoreIsHeard DEF Consistent
  <2>. QED
    BY <1>1, <1>3, <2>2, <2>3, <2>4 DEF Consistent
<1>. QED
  BY <1>4, <1>5, <1>6, <1>7 DEF Scoring

\* Feedback requests: what the page shows is what it sends, and what is stored was judged.
LEMMA ReviewingStep ==
  ASSUME Formed, Consistent, [Next]_vars,
         \/ \E r \in DOMAIN reviews : Reviewing(r)
         \/ Accept \/ Reject \/ SubmitCorrection
  PROVE  Consistent'
<1>1. UNCHANGED <<scores, inference>>
  BY DEF Reviewing, TakeFeedback, HearFeedback, FeedbackFails, Accept, Reject, SubmitCorrection,
         Submit
<1>2. \A k : Scored(k)' <=> Scored(k)
  BY <1>1 DEF Scored
<1>3. \A e, k : IsAbout(e, k)' <=> IsAbout(e, k)
  BY <1>1 DEF IsAbout
<1>4. picks' \in {picks, NoPicks}
  BY DEF Reviewing, TakeFeedback, HearFeedback, FeedbackFails, Accept, Reject, SubmitCorrection
<1>5. PicksAreOverShown'
  BY <1>1, <1>4 DEF Consistent, PicksAreOverShown, PanelShown, Predicted, Shown, NoPicks
<1>6. SUFFICES \A r \in DOMAIN reviews' :
                  /\ Scored(reviews'[r].of) /\ IsAbout(reviews'[r], reviews'[r].of)
                  /\ Judged(reviews'[r])
  BY <1>1, <1>2, <1>3, <1>5 DEF Consistent, Judged
<1>7. ASSUME NEW action, NEW accepted, NEW rejected, Submit(action, accepted, rejected), PanelShown
      PROVE  \A r \in DOMAIN reviews' :
                /\ Scored(reviews'[r].of) /\ IsAbout(reviews'[r], reviews'[r].of)
                /\ Judged(reviews'[r])
  <2>1. Scored(inference.result)
    BY <1>7 DEF PanelShown, Consistent
  <2>2. PICK n \in Nat \ {0} : Sent(n, action, accepted, rejected)
    BY <1>7, ReviewIsSent
  <2>3. /\ Scored(reviews'[n].of) /\ IsAbout(reviews'[n], reviews'[n].of)
        /\ Judged(reviews'[n])
    BY <2>1, <2>2 DEF Sent, IsAbout, Judged, Shown, Predicted
  <2>. QED
    BY <2>2, <2>3 DEF Sent, Consistent
<1>8. CASE Accept \/ Reject \/ SubmitCorrection
  <2>1. PanelShown
    BY <1>8 DEF Accept, Reject, SubmitCorrection, Consistent, PicksAreOverShown
  <2>. QED
    BY <1>7, <1>8, <2>1 DEF Accept, Reject, SubmitCorrection
<1>9. ASSUME NEW r \in DOMAIN reviews, TakeFeedback(r)
      PROVE  \A s \in DOMAIN reviews' :
                /\ Scored(reviews'[s].of) /\ IsAbout(reviews'[s], reviews'[s].of)
                /\ Judged(reviews'[s])
  <2>1. /\ DOMAIN reviews' = DOMAIN reviews
        /\ \A s \in DOMAIN reviews \ {r} : reviews'[s] = reviews[s]
        /\ SameRequest(reviews'[r], reviews[r]) /\ reviews'[r].under = bundle
        /\ ~Valid(reviews[r]) => reviews'[r].stored = reviews[r].stored
        /\ reviews'[r].reply # "none"
    BY <1>9, ReviewIsTaken
  <2>2. reviews[r].reply = "none"
    BY <1>9 DEF TakeFeedback
  <2>3. Judged(reviews'[r])
    <3>1. CASE Valid(reviews[r])
      BY <2>1, <3>1
         DEF Judged, SameRequest, Valid, ArtifactsMatch, LabelsAreSound, KnownLabels
    <3>2. CASE ~Valid(reviews[r])
      BY <2>1, <2>2, <3>2 DEF Judged, Consistent
    <3>. QED
      BY <3>1, <3>2
  <2>4. Scored(reviews'[r].of) /\ IsAbout(reviews'[r], reviews'[r].of)
    BY <2>1 DEF SameRequest, Consistent, IsAbout
  <2>. QED
    BY <2>1, <2>3, <2>4 DEF Consistent
<1>10. ASSUME NEW r \in DOMAIN reviews, HearFeedback(r) \/ FeedbackFails(r)
       PROVE  \A s \in DOMAIN reviews' :
                 /\ Scored(reviews'[s].of) /\ IsAbout(reviews'[s], reviews'[s].of)
                 /\ Judged(reviews'[s])
  <2>1. ReviewHeardAs(r, "success") \/ ReviewHeardAs(r, "error")
    BY <1>10 DEF HearFeedback, FeedbackFails, ReviewHeardAs
  <2>2. /\ DOMAIN reviews' = DOMAIN reviews
        /\ \A s \in DOMAIN reviews \ {r} : reviews'[s] = reviews[s]
        /\ SameRequest(reviews'[r], reviews[r])
        /\ reviews'[r].under = reviews[r].under /\ reviews'[r].stored = reviews[r].stored
        /\ reviews'[r].reply = reviews[r].reply
    <3>1. CASE ReviewHeardAs(r, "success")
      BY <3>1, ReviewIsHeard
    <3>2. CASE ReviewHeardAs(r, "error")
      BY <3>2, ReviewIsHeard
    <3>. QED
      BY <2>1, <3>1, <3>2
  <2>3. /\ Scored(reviews'[r].of) /\ IsAbout(reviews'[r], reviews'[r].of)
        /\ Judged(reviews'[r])
    BY <2>2 DEF SameRequest, Consistent, IsAbout, Judged
  <2>. QED
    BY <2>2, <2>3 DEF Consistent
<1>. QED
  BY <1>8, <1>9, <1>10 DEF Reviewing

\* Every step keeps the page, the requests and the events consistent.
LEMMA ConsistentStep ==
  ASSUME Formed, Consistent, [Next]_vars
  PROVE  Consistent'
<1>1. ASSUME NEW i, Edit(i) PROVE Consistent'
  BY <1>1, PageStep DEF Edit, Consistent, PicksAreOverShown
<1>2. CASE ReviewAnother
  BY <1>2, PageStep DEF ReviewAnother, NoPicks
<1>3. CASE DismissError \/ Restart \/ UNCHANGED vars
  BY <1>3, PageStep DEF DismissError, Restart, vars, Consistent, PicksAreOverShown
<1>4. CASE OpenCorrection
  BY <1>4, PageStep DEF OpenCorrection
<1>5. CASE CancelCorrection
  BY <1>5, PageStep DEF CancelCorrection, NoPicks
<1>6. ASSUME NEW l, Toggle(l) PROVE Consistent'
  <2>1. PICK selected : picks' = [picks EXCEPT !.selected = selected]
    BY <1>6 DEF Toggle
  <2>2. picks'.over = picks.over /\ picks'.open = picks.open
    BY <2>1 DEF Formed, HasPickFields
  <2>. QED
    BY <1>6, <2>2, PageStep DEF Toggle, Consistent, PicksAreOverShown
<1>. QED
  BY <1>1, <1>2, <1>3, <1>4, <1>5, <1>6, ScoringStep, ReviewingStep DEF Next, Maintainer

\* Nothing is asked, answered or shown at first.
LEMMA ConsistentInit == Init => Formed /\ Consistent
<1>1. ASSUME Init PROVE scores \in Seq({}) /\ reviews \in Seq({})
  BY <1>1 DEF Init
<1>. QED
  BY <1>1 DEF Init, Formed, Listed, HasPickFields, Consistent, PicksAreOverShown, NoPicks,
              NoInference, NoFeedback

\* The two together, in every reachable state.
LEMMA AlwaysConsistent == Spec => [](Formed /\ Consistent)
<1>1. Formed /\ Consistent /\ [Next]_vars => Formed' /\ Consistent'
  BY FormedStep, ConsistentStep
<1>. QED
  BY ConsistentInit, <1>1, PTL DEF Spec

\* An open correction box is about the prediction on the page (FeedbackPanel.tsx), however
\* answers cross and however the maintainer clicks.
THEOREM PicksAreAlwaysOverShown == Spec => []PicksAreOverShown
<1>1. Formed /\ Consistent => PicksAreOverShown
  BY DEF Consistent
<1>. QED
  BY AlwaysConsistent, <1>1, PTL

\* A stored event is of the bundle that stored it (validate_feedback_request), across
\* restarts of the server with other artifacts and answers that cross.
THEOREM EventsAlwaysMatchTheirPrediction == Spec => []EventsMatchTheirPrediction
<1>1. Formed /\ Consistent => EventsMatchTheirPrediction
  BY DEF Consistent, IsAbout, Judged, EventsMatchTheirPrediction
<1>. QED
  BY AlwaysConsistent, <1>1, PTL
-----------------------------------------------------------------------------
(* The patient maintainer, who waits for an answer before going on: at most *)
(* one request is on its way, and its answer is about what the page shows.  *)

ScoreAwaited ==
  \A k \in DOMAIN scores : scores[k].heard = "no" =>
    /\ inference.loading /\ inference.result = 0 /\ feedback.success = 0
    /\ \A j \in DOMAIN scores : scores[j].heard = "no" => j = k
    /\ \A r \in DOMAIN reviews : reviews[r].heard # "no"

ReviewAwaited ==
  \A r \in DOMAIN reviews : reviews[r].heard = "no" =>
    /\ feedback.loading /\ ~feedback.error /\ feedback.success = 0
    /\ reviews[r].of = inference.result
    /\ \A s \in DOMAIN reviews : reviews[s].heard = "no" => s = r

SettledByItsReview ==
  /\ \A r \in DOMAIN reviews :
       /\ reviews[r].heard \in {"no", "success", "error"}
       /\ reviews[r].heard = "success" /\ reviews[r].of = inference.result
            => feedback.success # 0
  /\ feedback.success # 0 =>
       /\ ~feedback.error
       /\ feedback.success \in DOMAIN reviews
       /\ reviews[feedback.success].of = inference.result

Patient ==
  /\ ScoreAwaited
  /\ ReviewAwaited
  /\ SettledByItsReview
  /\ SecondReviewOnlyAfterFailure

\* Steps that leave the requests and what the hooks keep of them alone.
LEMMA PatientPage ==
  ASSUME Patient, UNCHANGED <<inference, feedback, scores, reviews>>
  PROVE  Patient'
BY DEF Patient, ScoreAwaited, ReviewAwaited, SettledByItsReview, SecondReviewOnlyAfterFailure

\* Steps that clear what the hooks keep, while no request is on its way.
LEMMA PatientReset ==
  ASSUME Formed, Consistent, Patient, ~InFlight, UNCHANGED <<scores, reviews>>,
         feedback' = NoFeedback,
         \/ inference' = NoInference
         \/ inference' = inference /\ feedback.success = 0
  PROVE  Patient'
<1>1. feedback'.success = 0
  BY DEF NoFeedback
<1>2. \A k \in DOMAIN scores : scores[k].heard # "no"
  BY DEF InFlight, ScoresOnTheirWay, ReviewsOnTheirWay
<1>3. \A r \in DOMAIN reviews : reviews[r].heard # "no"
  BY DEF InFlight, ScoresOnTheirWay, ReviewsOnTheirWay
<1>4. \A r \in DOMAIN reviews : reviews[r].of # 0
  <2>1. 0 \notin DOMAIN scores
    BY DEF Formed, Listed
  <2>. QED
    BY <2>1 DEF Consistent, Scored
<1>5. ScoreAwaited' /\ ReviewAwaited'
  BY <1>2, <1>3 DEF ScoreAwaited, ReviewAwaited
<1>6. SettledByItsReview'
  BY <1>1, <1>4 DEF Patient, SettledByItsReview, NoInference
<1>7. SecondReviewOnlyAfterFailure'
  BY DEF Patient, SecondReviewOnlyAfterFailure
<1>. QED
  BY <1>5, <1>6, <1>7 DEF Patient

\* A scoring request is sent, handled, answered.
LEMMA PatientScoring ==
  ASSUME Formed, Consistent, Patient, ~Hasty,
         ScoreIssue \/ \E k \in DOMAIN scores : Scoring(k)
  PROVE  Patient'
<1>1. UNCHANGED reviews
  BY DEF ScoreIssue, Scoring, Infer, HearScore, ScoreFails
<1>2. SecondReviewOnlyAfterFailure'
  BY <1>1 DEF Patient, SecondReviewOnlyAfterFailure
<1>3. CASE ScoreIssue
  <2>1. /\ feedback'.success = 0 /\ inference'.loading /\ inference'.result = 0
        /\ \A k \in DOMAIN scores : scores[k].heard # "no"
        /\ \A r \in DOMAIN reviews : reviews[r].heard # "no"
    BY <1>3 DEF ScoreIssue, MayGoOn, InFlight, ScoresOnTheirWay, ReviewsOnTheirWay,
           NoFeedback
  <2>2. PICK n \in Nat \ {0} :
           /\ n \notin DOMAIN scores /\ DOMAIN scores' = DOMAIN scores \cup {n}
           /\ \A k \in DOMAIN scores : scores'[k] = scores[k]
    BY <1>3, ScoreIsSent
  <2>3. ScoreAwaited' /\ ReviewAwaited'
    BY <1>1, <2>1, <2>2 DEF ScoreAwaited, ReviewAwaited
  <2>4. \A r \in DOMAIN reviews : reviews[r].of # 0
    <3>1. 0 \notin DOMAIN scores
      BY DEF Formed, Listed
    <3>. QED
      BY <3>1 DEF Consistent, Scored
  <2>5. SettledByItsReview'
    BY <1>1, <2>1, <2>4 DEF Patient, SettledByItsReview
  <2>. QED
    BY <1>2, <2>3, <2>5 DEF Patient
<1>4. ASSUME NEW k \in DOMAIN scores, Infer(k) PROVE Patient'
  <2>1. UNCHANGED <<inference, feedback>>
    BY <1>4 DEF Infer
  <2>2. /\ DOMAIN scores' = DOMAIN scores
        /\ \A j \in DOMAIN scores : scores'[j].heard = scores[j].heard
    BY <1>4, ScoreIsInferred
  <2>3. ScoreAwaited' /\ ReviewAwaited' /\ SettledByItsReview'
    BY <1>1, <2>1, <2>2 DEF Patient, ScoreAwaited, ReviewAwaited, SettledByItsReview
  <2>. QED
    BY <1>2, <2>3 DEF Patient
<1>5. ASSUME NEW k \in DOMAIN scores, NEW as \in {"success", "error"}, ScoreHeardAs(k, as),
             scores[k].heard = "no", UNCHANGED feedback,
             (as = "success" /\ inference'.result = k) \/ inference'.result = inference.result
      PROVE  Patient'
  <2>1. /\ DOMAIN scores' = DOMAIN scores
        /\ \A j \in DOMAIN scores \ {k} : scores'[j] = scores[j]
        /\ scores'[k].heard = as
    BY <1>5, ScoreIsHeard
  <2>2. /\ \A j \in DOMAIN scores' : scores'[j].heard # "no"
        /\ \A r \in DOMAIN reviews : reviews[r].heard # "no"
        /\ feedback.success = 0 /\ inference.result = 0
    BY <1>5, <2>1 DEF Patient, ScoreAwaited
  <2>3. \A r \in DOMAIN reviews : reviews[r].of # k
    BY <1>5 DEF Consistent, Scored
  <2>4. ScoreAwaited' /\ ReviewAwaited'
    BY <1>1, <2>2 DEF ScoreAwaited, ReviewAwaited
  <2>5. SettledByItsReview'
    BY <1>1, <1>5, <2>2, <2>3 DEF Patient, SettledByItsReview
  <2>. QED
    BY <1>2, <2>4, <2>5 DEF Patient
<1>6. ASSUME NEW k \in DOMAIN scores, HearScore(k) PROVE Patient'
  <2>1. /\ ScoreHeardAs(k, "success") /\ scores[k].heard = "no" /\ UNCHANGED feedback
        /\ inference'.result = k
    BY <1>6 DEF HearScore, ScoreHeardAs
  <2>. QED
    BY <1>5, <2>1
<1>7. ASSUME NEW k \in DOMAIN scores, ScoreFails(k) PROVE Patient'
  <2>1. /\ ScoreHeardAs(k, "error") /\ scores[k].heard = "no" /\ UNCHANGED feedback
        /\ inference'.result = inference.result
    BY <1>7 DEF ScoreFails, ScoreHeardAs, Formed
  <2>. QED
    BY <1>5, <2>1
<1>. QED
  BY <1>3, <1>4, <1>6, <1>7 DEF Scoring

\* A review is sent, judged, answered.
LEMMA PatientReviewing ==
  ASSUME Formed, Consistent, Patient,
         \/ \E r \in DOMAIN reviews : Reviewing(r)
         \/ Accept \/ Reject \/ SubmitCorrection
  PROVE  Patient'
<1>1. UNCHANGED <<scores, inference>>
  BY DEF Reviewing, TakeFeedback, HearFeedback, FeedbackFails, Accept, Reject, SubmitCorrection,
         Submit
<1>2. ASSUME NEW action, NEW accepted, NEW rejected, Submit(action, accepted, rejected),
             PanelShown, ~ActionsDisabled
      PROVE  Patient'
  <2>1. /\ inference.result # 0 /\ feedback.success = 0
        /\ feedback'.loading /\ ~feedback'.error /\ feedback'.success = 0
        /\ \A k \in DOMAIN scores : scores[k].heard # "no"
        /\ \A r \in DOMAIN reviews : reviews[r].heard # "no"
    BY <1>2 DEF Submit, PanelShown, ActionsDisabled, Patient, ScoreAwaited, ReviewAwaited
  <2>2. \A r \in DOMAIN reviews : reviews[r].of = inference.result => reviews[r].heard = "error"
    BY <2>1 DEF Patient, SettledByItsReview
  <2>3. PICK n \in Nat \ {0} : Sent(n, action, accepted, rejected)
    BY <1>2, ReviewIsSent
  <2>4. /\ n \notin DOMAIN reviews /\ DOMAIN reviews' = DOMAIN reviews \cup {n}
        /\ \A r \in DOMAIN reviews : reviews'[r] = reviews[r] /\ r < n
        /\ reviews'[n].of = inference.result /\ reviews'[n].heard = "no"
    BY <2>3 DEF Sent
  <2>5. ScoreAwaited' /\ ReviewAwaited'
    BY <1>1, <2>1, <2>4 DEF ScoreAwaited, ReviewAwaited
  <2>6. SettledByItsReview'
    BY <1>1, <2>1, <2>2, <2>4 DEF Patient, SettledByItsReview
  <2>7. SecondReviewOnlyAfterFailure'
    <3>1. SUFFICES ASSUME NEW r \in DOMAIN reviews', NEW s \in DOMAIN reviews',
                          r < s, reviews'[r].of = reviews'[s].of
                   PROVE  reviews'[r].heard = "error"
      BY DEF SecondReviewOnlyAfterFailure
    <3>2. DOMAIN reviews \subseteq Nat
      BY DEF Formed, Listed
    <3>3. r # n
      BY <2>4, <3>1, <3>2
    <3>4. CASE s = n
      BY <2>2, <2>4, <3>1, <3>3, <3>4
    <3>5. CASE s # n
      BY <2>4, <3>1, <3>3, <3>5 DEF Patient, SecondReviewOnlyAfterFailure
    <3>. QED
      BY <3>4, <3>5
  <2>. QED
    BY <2>5, <2>6, <2>7 DEF Patient
<1>3. CASE Accept \/ Reject \/ SubmitCorrection
  <2>1. PanelShown /\ ~ActionsDisabled
    BY <1>3 DEF Accept, Reject, SubmitCorrection, Consistent, PicksAreOverShown
  <2>. QED
    BY <1>2, <1>3, <2>1 DEF Accept, Reject, SubmitCorrection
<1>4. ASSUME NEW r \in DOMAIN reviews, TakeFeedback(r) PROVE Patient'
  <2>1. UNCHANGED feedback
    BY <1>4 DEF TakeFeedback
  <2>2. /\ DOMAIN reviews' = DOMAIN reviews
        /\ \A s \in DOMAIN reviews :
             reviews'[s].of = reviews[s].of /\ reviews'[s].heard = reviews[s].heard
    BY <1>4, ReviewIsTaken DEF SameRequest
  <2>3. ScoreAwaited' /\ ReviewAwaited' /\ SettledByItsReview' /\ SecondReviewOnlyAfterFailure'
    BY <1>1, <2>1, <2>2
       DEF Patient, ScoreAwaited, ReviewAwaited, SettledByItsReview, SecondReviewOnlyAfterFailure
  <2>. QED
    BY <2>3 DEF Patient
<1>5. ASSUME NEW r \in DOMAIN reviews, HearFeedback(r) \/ FeedbackFails(r) PROVE Patient'
  <2>1. PICK as \in {"success", "error"} :
           /\ ReviewHeardAs(r, as) /\ reviews[r].heard = "no"
           /\ as = "success" =>
                feedback' = [feedback EXCEPT !.loading = FALSE, !.success = r]
           /\ as = "error" =>
                feedback' = [feedback EXCEPT !.loading = FALSE, !.error = TRUE]
    BY <1>5 DEF HearFeedback, FeedbackFails, ReviewHeardAs
  <2>2. /\ as = "success" => feedback'.success = r /\ feedback'.error = feedback.error
        /\ as = "error" => feedback'.success = feedback.success
    BY <2>1 DEF Formed
  <2>3. /\ DOMAIN reviews' = DOMAIN reviews /\ r \in Nat \ {0}
        /\ \A s \in DOMAIN reviews \ {r} : reviews'[s] = reviews[s]
        /\ reviews'[r].of = reviews[r].of /\ reviews'[r].heard = as
    BY <2>1, ReviewIsHeard DEF SameRequest
  <2>4. /\ ~feedback.error /\ feedback.success = 0 /\ reviews[r].of = inference.result
        /\ \A s \in DOMAIN reviews : reviews[s].heard = "no" => s = r
        /\ \A k \in DOMAIN scores : scores[k].heard # "no"
    BY <2>1 DEF Patient, ReviewAwaited, ScoreAwaited
  <2>5. ScoreAwaited' /\ ReviewAwaited'
    BY <1>1, <2>3, <2>4 DEF ScoreAwaited, ReviewAwaited
  <2>6. SettledByItsReview'
    BY <1>1, <2>2, <2>3, <2>4 DEF Patient, SettledByItsReview
  <2>7. SecondReviewOnlyAfterFailure'
    BY <2>1, <2>3 DEF Patient, SecondReviewOnlyAfterFailure
  <2>. QED
    BY <2>5, <2>6, <2>7 DEF Patient
<1>. QED
  BY <1>3, <1>4, <1>5 DEF Reviewing

\* A patient maintainer stays one.
LEMMA PatientStep ==
  ASSUME Formed, Consistent, Patient, ~Hasty, [Next]_vars
  PROVE  Patient'
<1>1. ASSUME NEW i, Edit(i) PROVE Patient'
  BY <1>1, PatientPage DEF Edit
<1>2. ASSUME NEW l, Toggle(l) PROVE Patient'
  BY <1>2, PatientPage DEF Toggle
<1>3. CASE OpenCorrection \/ CancelCorrection
  BY <1>3, PatientPage DEF OpenCorrection, CancelCorrection
<1>4. CASE Restart \/ UNCHANGED vars
  BY <1>4, PatientPage DEF Restart, vars
<1>5. CASE ReviewAnother
  BY <1>5, PatientReset DEF ReviewAnother, MayGoOn
<1>6. CASE DismissError
  BY <1>6, PatientReset DEF DismissError, MayGoOn, Patient, SettledByItsReview
<1>. QED
  BY <1>1, <1>2, <1>3, <1>4, <1>5, <1>6, PatientScoring, PatientReviewing DEF Next, Maintainer

\* ... in every reachable state.
LEMMA AlwaysPatient ==
  ASSUME ~Hasty
  PROVE  Spec => [](Formed /\ Consistent /\ Patient)
<1>1. Init => Patient
  BY DEF Init, Patient, ScoreAwaited, ReviewAwaited, SettledByItsReview,
         SecondReviewOnlyAfterFailure, NoFeedback
<1>2. Formed /\ Consistent /\ Patient /\ [Next]_vars => Formed' /\ Consistent' /\ Patient'
  BY FormedStep, ConsistentStep, PatientStep
<1>. QED
  BY ConsistentInit, <1>1, <1>2, PTL DEF Spec

\* A maintainer who waits for the answers reviews a result again only after an answer that
\* said the review failed (FeedbackPanel.tsx: loading and settled disable it).
THEOREM NoSecondReviewWithoutFailure ==
  ASSUME ~Hasty
  PROVE  Spec => []SecondReviewOnlyAfterFailure
<1>1. Formed /\ Consistent /\ Patient => SecondReviewOnlyAfterFailure
  BY DEF Patient
<1>. QED
  BY AlwaysPatient, <1>1, PTL
-----------------------------------------------------------------------------
(* What a result is settled by and what title its review carries, however  *)
(* hasty the maintainer is and whatever is edited under a result.          *)

\* The reviews whose answer is awaited or shown.
LiveReviews == ReviewsOnTheirWay \cup ({feedback.success} \ {0})

\* A live score and a live review go together, or were on their way together.
Crossing ==
  \A k \in LiveScores, r \in LiveReviews : reviews[r].of = k \/ <<k, r>> \in crossed

\* A live score is of the issue in the form, and a review has its title, or the form was
\* edited.
Titled ==
  /\ \A k \in LiveScores : scores[k].issue = form \/ k \in left
  /\ \A r \in DOMAIN reviews :
       reviews[r].title = scores[reviews[r].of].issue \/ r \in retitled

\* Nothing is sent: no request comes to life, and all keep what they ask for.
Quiet ==
  /\ LiveScores' \subseteq LiveScores /\ LiveReviews' \subseteq LiveReviews
  /\ DOMAIN scores' = DOMAIN scores /\ DOMAIN reviews' = DOMAIN reviews
  /\ \A k \in DOMAIN scores : scores'[k].issue = scores[k].issue
  /\ \A r \in DOMAIN reviews : SameRequest(reviews'[r], reviews[r])
  /\ UNCHANGED <<crossed, retitled>>

\* Live requests are requests.
LEMMA LiveAreThere ==
  ASSUME Consistent, IInv
  PROVE  LiveScores \subseteq DOMAIN scores /\ LiveReviews \subseteq DOMAIN reviews
BY DEF LiveScores, LiveReviews, ScoresOnTheirWay, ReviewsOnTheirWay, Consistent, Scored, IInv,
       Honest

\* Steps of the page that leave the requests alone.
LEMMA QuietPage ==
  ASSUME UNCHANGED <<scores, reviews, crossed, retitled>>,
         inference' \in {inference, NoInference}, feedback' \in {feedback, NoFeedback}
  PROVE  Quiet
BY DEF Quiet, LiveScores, LiveReviews, ScoresOnTheirWay, ReviewsOnTheirWay, SameRequest,
       NoInference, NoFeedback

\* A scoring request is handled, or its answer is heard.
LEMMA QuietScoring ==
  ASSUME Formed, NEW k \in DOMAIN scores, Scoring(k)
  PROVE  Quiet
<1>1. /\ UNCHANGED <<reviews, feedback, crossed, retitled>>
      /\ DOMAIN reviews' = DOMAIN reviews /\ LiveReviews' = LiveReviews
      /\ \A r \in DOMAIN reviews : SameRequest(reviews'[r], reviews[r])
  BY DEF Scoring, Infer, HearScore, ScoreFails, history, LiveReviews, ReviewsOnTheirWay,
         SameRequest
<1>2. CASE Infer(k)
  <2>1. /\ DOMAIN scores' = DOMAIN scores /\ inference' = inference
        /\ \A j \in DOMAIN scores : /\ scores'[j].heard = scores[j].heard
                                    /\ scores'[j].issue = scores[j].issue
    BY <1>2, ScoreIsInferred DEF Infer
  <2>2. LiveScores' \subseteq LiveScores
    BY <2>1 DEF LiveScores, ScoresOnTheirWay
  <2>. QED
    BY <1>1, <2>1, <2>2 DEF Quiet
<1>3. ASSUME NEW as \in {"success", "error"}, ScoreHeardAs(k, as), scores[k].heard = "no",
             inference'.result = k \/ inference'.result = inference.result
      PROVE  Quiet
  <2>1. /\ DOMAIN scores' = DOMAIN scores
        /\ \A j \in DOMAIN scores \ {k} : scores'[j] = scores[j]
        /\ scores'[k].issue = scores[k].issue /\ scores'[k].heard = as
    BY <1>3, ScoreIsHeard
  <2>2. LiveScores' \subseteq LiveScores
    BY <1>3, <2>1 DEF LiveScores, ScoresOnTheirWay
  <2>. QED
    BY <1>1, <2>1, <2>2 DEF Quiet
<1>4. CASE HearScore(k)
  <2>1. ScoreHeardAs(k, "success") /\ scores[k].heard = "no" /\ inference'.result = k
    BY <1>4 DEF HearScore, ScoreHeardAs
  <2>. QED
    BY <1>3, <2>1
<1>5. CASE ScoreFails(k)
  <2>1. /\ ScoreHeardAs(k, "error") /\ scores[k].heard = "no"
        /\ inference'.result = inference.result
    BY <1>5 DEF ScoreFails, ScoreHeardAs, Formed
  <2>. QED
    BY <1>3, <2>1
<1>. QED
  BY <1>2, <1>4, <1>5 DEF Scoring

\* A feedback request is handled, or its answer is heard.
LEMMA QuietReviewing ==
  ASSUME Formed, NEW r \in DOMAIN reviews, Reviewing(r)
  PROVE  Quiet
<1>1. /\ UNCHANGED <<scores, inference, crossed, retitled>>
      /\ DOMAIN scores' = DOMAIN scores /\ LiveScores' = LiveScores
      /\ \A k \in DOMAIN scores : scores'[k].issue = scores[k].issue
  BY DEF Reviewing, TakeFeedback, HearFeedback, FeedbackFails, history, LiveScores,
         ScoresOnTheirWay
<1>2. CASE TakeFeedback(r)
  <2>1. /\ DOMAIN reviews' = DOMAIN reviews /\ feedback' = feedback
        /\ \A s \in DOMAIN reviews \ {r} : reviews'[s] = reviews[s]
        /\ SameRequest(reviews'[r], reviews[r]) /\ reviews'[r].heard = reviews[r].heard
    BY <1>2, ReviewIsTaken DEF TakeFeedback
  <2>2. LiveReviews' \subseteq LiveReviews
    BY <2>1 DEF LiveReviews, ReviewsOnTheirWay
  <2>. QED
    BY <1>1, <2>1, <2>2 DEF Quiet, SameRequest
<1>3. ASSUME NEW as \in {"success", "error"}, ReviewHeardAs(r, as), reviews[r].heard = "no",
             feedback'.success = r \/ feedback'.success = feedback.success
      PROVE  Quiet
  <2>1. /\ DOMAIN reviews' = DOMAIN reviews
        /\ \A s \in DOMAIN reviews \ {r} : reviews'[s] = reviews[s]
        /\ SameRequest(reviews'[r], reviews[r]) /\ reviews'[r].heard = as
    BY <1>3, ReviewIsHeard
  <2>2. LiveReviews' \subseteq LiveReviews
    BY <1>3, <2>1 DEF LiveReviews, ReviewsOnTheirWay
  <2>. QED
    BY <1>1, <2>1, <2>2 DEF Quiet, SameRequest
<1>4. CASE HearFeedback(r)
  <2>1. /\ ReviewHeardAs(r, "success") /\ reviews[r].heard = "no"
        /\ feedback'.success = r
    BY <1>4 DEF HearFeedback, ReviewHeardAs, Formed
  <2>. QED
    BY <1>3, <2>1
<1>5. CASE FeedbackFails(r)
  <2>1. /\ ReviewHeardAs(r, "error") /\ reviews[r].heard = "no"
        /\ feedback'.success = feedback.success
    BY <1>5 DEF FeedbackFails, ReviewHeardAs, Formed
  <2>. QED
    BY <1>3, <2>1
<1>. QED
  BY <1>2, <1>4, <1>5 DEF Reviewing

\* The three buttons that send a review.
Decides == Accept \/ Reject \/ SubmitCorrection

\* Every step but the two that send a request is quiet.
LEMMA QuietStep ==
  ASSUME Formed, [Next]_vars, ~ScoreIssue, ~Decides
  PROVE  Quiet
<1>1. ASSUME NEW i, Edit(i) PROVE Quiet
  BY <1>1, QuietPage DEF Edit
<1>2. ASSUME NEW l, Toggle(l) PROVE Quiet
  BY <1>2, QuietPage DEF Toggle, history
<1>3. CASE OpenCorrection \/ CancelCorrection
  BY <1>3, QuietPage DEF OpenCorrection, CancelCorrection, history
<1>4. CASE ReviewAnother \/ DismissError
  BY <1>4, QuietPage DEF ReviewAnother, DismissError, history
<1>5. CASE Restart \/ UNCHANGED vars
  BY <1>5, QuietPage DEF Restart, vars, history
<1>. QED
  BY <1>1, <1>2, <1>3, <1>4, <1>5, QuietScoring, QuietReviewing DEF Next, Maintainer, Decides

\* A score that is sent crosses the reviews on their way; the page forgets the others.
LEMMA ScoreIssueLives ==
  ASSUME Formed, ScoreIssue
  PROVE  \E n : /\ n \notin DOMAIN scores /\ DOMAIN scores' = DOMAIN scores \cup {n}
                /\ \A k \in DOMAIN scores : scores'[k] = scores[k]
                /\ scores'[n].issue = form
                /\ LiveScores' \subseteq ScoresOnTheirWay \cup {n}
                /\ LiveReviews' = ReviewsOnTheirWay
                /\ crossed' = crossed \cup ({n} \X ReviewsOnTheirWay)
                /\ UNCHANGED <<form, reviews, left, retitled>>
<1>1. PICK n \in Nat \ {0} :
         /\ n = Len(scores) + 1
         /\ n \notin DOMAIN scores /\ DOMAIN scores' = DOMAIN scores \cup {n}
         /\ \A k \in DOMAIN scores : scores'[k] = scores[k]
         /\ scores'[n].issue = form
  BY ScoreIsSent
<1>2. /\ inference'.result = 0 /\ feedback'.success = 0
      /\ crossed' = crossed \cup ({n} \X ReviewsOnTheirWay)
      /\ UNCHANGED <<form, reviews, left, retitled>>
  BY <1>1 DEF ScoreIssue, NoFeedback, ScoreCrosses
<1>3. LiveScores' \subseteq ScoresOnTheirWay \cup {n}
  BY <1>1, <1>2 DEF LiveScores, ScoresOnTheirWay
<1>4. LiveReviews' = ReviewsOnTheirWay
  BY <1>2 DEF LiveReviews, ReviewsOnTheirWay
<1>. QED
  BY <1>1, <1>2, <1>3, <1>4

\* A review that is sent crosses the scores on their way.
LEMMA DecisionLives ==
  ASSUME Formed, Consistent, Decides
  PROVE  \E n : /\ n \notin DOMAIN reviews /\ DOMAIN reviews' = DOMAIN reviews \cup {n}
                /\ \A r \in DOMAIN reviews : reviews'[r] = reviews[r]
                /\ reviews'[n].of = inference.result /\ reviews'[n].title = form
                /\ inference.result \in LiveScores
                /\ LiveReviews' \subseteq ReviewsOnTheirWay \cup {n}
                /\ LiveScores' = LiveScores
                /\ crossed' = crossed \cup (ScoresOnTheirWay \X {n})
                /\ retitled' = IF inference.result \in left THEN retitled \cup {n}
                                                            ELSE retitled
                /\ UNCHANGED <<form, inference, scores, left>>
<1>1. PanelShown
  BY DEF Decides, Accept, Reject, SubmitCorrection, Consistent, PicksAreOverShown
<1>2. PICK action, accepted, rejected : Submit(action, accepted, rejected)
  BY DEF Decides, Accept, Reject, SubmitCorrection
<1>3. PICK n \in Nat \ {0} : Sent(n, action, accepted, rejected)
  BY <1>2, ReviewIsSent
<1>4. /\ feedback'.success = 0
      /\ crossed' = crossed \cup (ScoresOnTheirWay \X {n})
      /\ retitled' = IF inference.result \in left THEN retitled \cup {n} ELSE retitled
      /\ UNCHANGED <<form, inference, scores, left>>
  BY <1>2, <1>3 DEF Submit, Sent, ReviewCrosses, TitleLeaves
<1>5. LiveReviews' \subseteq ReviewsOnTheirWay \cup {n}
  BY <1>3, <1>4 DEF LiveReviews, ReviewsOnTheirWay, Sent
<1>6. LiveScores' = LiveScores /\ inference.result \in LiveScores
  BY <1>1, <1>4 DEF LiveScores, ScoresOnTheirWay, PanelShown
<1>. QED
  BY <1>3, <1>4, <1>5, <1>6 DEF Sent

\* What meets on the page goes together or crossed on the way.
LEMMA CrossingStep ==
  ASSUME Formed, Consistent, IInv, Crossing, [Next]_vars
  PROVE  Crossing'
<1>0. LiveScores \subseteq DOMAIN scores /\ LiveReviews \subseteq DOMAIN reviews
  BY LiveAreThere
<1>1. CASE ScoreIssue
  <2>1. PICK n :
           /\ LiveScores' \subseteq ScoresOnTheirWay \cup {n}
           /\ LiveReviews' = ReviewsOnTheirWay
           /\ crossed' = crossed \cup ({n} \X ReviewsOnTheirWay)
           /\ UNCHANGED reviews
    BY <1>1, ScoreIssueLives
  <2>2. ScoresOnTheirWay \subseteq LiveScores /\ ReviewsOnTheirWay \subseteq LiveReviews
    BY DEF LiveScores, LiveReviews
  <2>. QED
    BY <2>1, <2>2 DEF Crossing
<1>2. CASE Decides
  <2>1. PICK n :
           /\ n \notin DOMAIN reviews
           /\ \A r \in DOMAIN reviews : reviews'[r] = reviews[r]
           /\ reviews'[n].of = inference.result
           /\ LiveReviews' \subseteq ReviewsOnTheirWay \cup {n}
           /\ LiveScores' = LiveScores
           /\ crossed' = crossed \cup (ScoresOnTheirWay \X {n})
    BY <1>2, DecisionLives
  <2>2. ASSUME NEW k \in LiveScores PROVE reviews'[n].of = k \/ <<k, n>> \in crossed'
    BY <2>1 DEF LiveScores
  <2>3. ASSUME NEW k \in LiveScores, NEW r \in ReviewsOnTheirWay
        PROVE  reviews'[r].of = k \/ <<k, r>> \in crossed'
    <3>1. r \in LiveReviews /\ r \in DOMAIN reviews
      BY <1>0 DEF LiveReviews
    <3>. QED
      BY <2>1, <3>1 DEF Crossing
  <2>. QED
    BY <2>1, <2>2, <2>3 DEF Crossing
<1>3. CASE Quiet
  BY <1>0, <1>3 DEF Crossing, Quiet, SameRequest
<1>. QED
  BY <1>1, <1>2, <1>3, QuietStep

\* The title is the scored issue's, or the form was edited.
LEMMA TitledStep ==
  ASSUME Formed, Consistent, IInv, Titled, [Next]_vars
  PROVE  Titled'
<1>0. /\ LiveScores \subseteq DOMAIN scores
      /\ \A r \in DOMAIN reviews : reviews[r].of \in DOMAIN scores
  BY LiveAreThere DEF Consistent, Scored
<1>1. CASE ScoreIssue
  <2>1. PICK n :
           /\ \A k \in DOMAIN scores : scores'[k] = scores[k]
           /\ scores'[n].issue = form
           /\ LiveScores' \subseteq ScoresOnTheirWay \cup {n}
           /\ UNCHANGED <<form, reviews, left, retitled>>
    BY <1>1, ScoreIssueLives
  <2>2. ScoresOnTheirWay \subseteq LiveScores
    BY DEF LiveScores
  <2>. QED
    BY <1>0, <2>1, <2>2 DEF Titled
<1>2. CASE Decides
  <2>1. PICK n :
           /\ DOMAIN reviews' = DOMAIN reviews \cup {n}
           /\ \A r \in DOMAIN reviews : reviews'[r] = reviews[r]
           /\ reviews'[n].of = inference.result /\ reviews'[n].title = form
           /\ inference.result \in LiveScores /\ LiveScores' = LiveScores
           /\ retitled' = IF inference.result \in left THEN retitled \cup {n} ELSE retitled
           /\ UNCHANGED <<form, scores, left>>
    BY <1>2, DecisionLives
  <2>. QED
    BY <2>1 DEF Titled
<1>3. ASSUME Quiet
      PROVE  \A r \in DOMAIN reviews' :
               reviews'[r].title = scores'[reviews'[r].of].issue \/ r \in retitled'
  BY <1>0, <1>3 DEF Titled, Quiet, SameRequest
<1>4. ASSUME Quiet, UNCHANGED <<form, left>> PROVE Titled'
  <2>1. \A k \in LiveScores' : scores'[k].issue = form' \/ k \in left'
    BY <1>0, <1>4 DEF Titled, Quiet
  <2>. QED
    BY <1>3, <1>4, <2>1 DEF Titled
<1>5. ASSUME NEW i, Edit(i), Quiet PROVE Titled'
  <2>1. /\ ~inference.loading /\ form' = i /\ UNCHANGED scores
        /\ left' = {k \in LiveScores : scores[k].issue # i}
    BY <1>5 DEF Edit, EditLeaves
  <2>2. \A k \in LiveScores' : scores'[k].issue = form' \/ k \in left'
    BY <1>5, <2>1 DEF Quiet
  <2>. QED
    BY <1>3, <1>5, <2>2 DEF Titled
<1>6. ASSUME ReviewAnother, Quiet PROVE Titled'
  <2>1. left' = ScoresOnTheirWay /\ LiveScores' = ScoresOnTheirWay
    BY <1>6 DEF ReviewAnother, LiveScores, ScoresOnTheirWay, NoInference
  <2>. QED
    BY <1>3, <1>6, <2>1 DEF Titled
<1>7. \/ \E i : Edit(i)
      \/ ReviewAnother \/ ScoreIssue \/ Decides
      \/ UNCHANGED <<form, left>>
  BY DEF Next, Maintainer, Decides, DismissError, OpenCorrection, Toggle, CancelCorrection,
         Scoring, Infer, HearScore, ScoreFails, Reviewing, TakeFeedback, HearFeedback,
         FeedbackFails, Restart, vars, history
<1>. QED
  BY <1>1, <1>2, <1>4, <1>5, <1>6, <1>7, QuietStep

\* All of it holds in every reachable state.
LEMMA AlwaysTogether == Spec => [](Formed /\ Consistent /\ IInv /\ Crossing /\ Titled)
<1>1. Init => Crossing /\ Titled
  BY DEF Init, Crossing, Titled, LiveScores, LiveReviews, ScoresOnTheirWay, ReviewsOnTheirWay,
         NoInference, NoFeedback
<1>2. Formed /\ Consistent /\ IInv /\ Crossing /\ Titled /\ [Next]_vars
        => Formed' /\ Consistent' /\ IInv' /\ Crossing' /\ Titled'
  BY FormedStep, ConsistentStep, StepKeepsInvariant, CrossingStep, TitledStep
<1>. QED
  BY ConsistentInit, InitHolds, <1>1, <1>2, PTL DEF Spec

\* However hastily the maintainer clicks and whatever answers cross, a result is settled by the
\* review of another one only if that review and the result's scoring were on their way at
\* the same time (App.tsx, useFeedback.ts).
THEOREM ScoredIsReviewable == Spec => []ReviewableAfterScoring
<1>1. Crossing => ReviewableAfterScoring
  BY DEF Crossing, ReviewableAfterScoring, LiveScores, LiveReviews, PanelShown
<1>. QED
  BY AlwaysTogether, <1>1, PTL

\* However hastily the maintainer clicks and whatever answers cross, the title stored with a
\* prediction is that of the issue that was scored, unless the maintainer put another text in
\* the form while the page left it open (App.tsx, IssueInputForm.tsx, buildFeedbackRequest).
THEOREM EventsDescribeTheScoredIssue == Spec => []EventDescribesScoredIssue
<1>1. Titled => EventDescribesScoredIssue
  BY DEF Titled, EventDescribesScoredIssue
<1>. QED
  BY AlwaysTogether, <1>1, PTL

-----------------------------------------------------------------------------
(* What the page lets through.                                             *)

Smaller == {ss \in Nat \X Nat : ss[1] < ss[2]}

\* There is no infinite descent among the numbers.
LEMMA SmallerIsWellFounded == IsWellFoundedOn(Smaller, Nat)
BY NatLessThanWellFounded DEF OpToRel, Smaller

\* A set of numbers that has 0 and with each number the next has every number.
LEMMA Numbers ==
  ASSUME NEW S, 0 \in S, \A n \in Nat : n \in S => n + 1 \in S
  PROVE  Nat \subseteq S
<1>. SUFFICES ASSUME Nat \ S # {} PROVE FALSE
  OBVIOUS
<1>1. PICK m \in Nat \ S : \A k \in Nat \ S : <<k, m>> \notin Smaller
  BY SmallerIsWellFounded, WFMin
<1>2. m # 0 /\ m - 1 \in Nat /\ (m - 1) + 1 = m
  BY <1>1
<1>3. m - 1 \notin S
  BY <1>1, <1>2
<1>4. <<m - 1, m>> \in Smaller
  BY <1>2 DEF Smaller
<1>. QED
  BY <1>1, <1>2, <1>3, <1>4

NextAmong(f, s, S, n) == IF s[n] \in S THEN Append(f[n - 1], s[n]) ELSE f[n - 1]

\* f collects the elements of s that are in S, up to the n-th.
Collects(f, s, S, n) ==
  f = [k \in 0..n |-> IF k = 0 THEN <<>> ELSE NextAmong(f, s, S, k)]

\* Among is defined: elements can be collected up to any place.
LEMMA CollectionExists ==
  ASSUME NEW s, NEW S
  PROVE  \A n \in Nat : \E f : Collects(f, s, S, n)
<1>. DEFINE P == {n \in Nat : \E f : Collects(f, s, S, n)}
<1>1. 0 \in P
  <2>1. Collects([k \in 0..0 |-> <<>>], s, S, 0)
    BY DEF Collects
  <2>. QED
    BY <2>1
<1>2. ASSUME NEW n \in Nat, n \in P PROVE n + 1 \in P
  <2>1. PICK f : Collects(f, s, S, n)
    BY <1>2
  <2>. DEFINE g == [k \in 0..n + 1 |-> IF k = n + 1 THEN NextAmong(f, s, S, n + 1) ELSE f[k]]
  <2>2. \A k \in 0..n : f[k] = IF k = 0 THEN <<>> ELSE NextAmong(f, s, S, k)
    BY <2>1 DEF Collects
  <2>3. \A k \in 0..n + 1 : g[k] = IF k = 0 THEN <<>> ELSE NextAmong(g, s, S, k)
    BY <2>2 DEF NextAmong
  <2>4. Collects(g, s, S, n + 1)
    BY <2>3 DEF Collects
  <2>. QED
    BY <2>4
<1>. HIDE DEF P
<1>3. Nat \subseteq P
  BY <1>1, <1>2, Numbers
<1>. QED
  BY <1>3 DEF P

\* What Among is the last value of.
LEMMA AmongCollects ==
  ASSUME NEW s, Len(s) \in Nat, NEW S
  PROVE  \E f : Collects(f, s, S, Len(s)) /\ Among(s, S) = f[Len(s)]
<1>1. Among(s, S) = (CHOOSE f : Collects(f, s, S, Len(s)))[Len(s)]
  BY DEF Among, Collects, NextAmong
<1>2. Collects(CHOOSE f : Collects(f, s, S, Len(s)), s, S, Len(s))
  BY CollectionExists
<1>. QED
  BY <1>1, <1>2

\* u has those of the first n labels of s that are in S, none twice.
Collected(u, s, S, n) ==
  /\ u \in Seq(SetOf(s)) /\ Distinct(u)
  /\ \A x : x \in SetOf(u) <=> x \in S /\ \E i \in 1..n : s[i] = x

\* The labels of a list that are in S are those labels, none of them twice.
LEMMA AmongIsTheirs ==
  ASSUME NEW s, LabelList(s), NEW S
  PROVE  SetOf(Among(s, S)) = SetOf(s) \cap S /\ Distinct(Among(s, S))
<1>1. s \in Seq(SetOf(s)) /\ Len(s) \in Nat /\ DOMAIN s = 1..Len(s)
  BY DEF LabelList
<1>2. PICK f : Collects(f, s, S, Len(s)) /\ Among(s, S) = f[Len(s)]
  BY <1>1, AmongCollects
<1>3. f[0] = <<>> /\ \A k \in 1..Len(s) : f[k] = NextAmong(f, s, S, k)
  BY <1>1, <1>2 DEF Collects
<1>. DEFINE P == {n \in Nat : n <= Len(s) => Collected(f[n], s, S, n)}
<1>4. 0 \in P
  <2>1. <<>> \in Seq(SetOf(s)) /\ SetOf(<<>>) = {} /\ Distinct(<<>>) /\ 1..0 = {}
    BY DEF SetOf, Distinct
  <2>2. Collected(<<>>, s, S, 0)
    BY <2>1 DEF Collected
  <2>. QED
    BY <1>3, <2>2
<1>5. ASSUME NEW n \in Nat, n \in P PROVE n + 1 \in P
  <2>1. SUFFICES ASSUME n + 1 <= Len(s) PROVE Collected(f[n + 1], s, S, n + 1)
    OBVIOUS
  <2>2. Collected(f[n], s, S, n) /\ f[n + 1] = NextAmong(f, s, S, n + 1)
    BY <1>1, <1>3, <1>5, <2>1
  <2>3. s[n + 1] \in SetOf(s) /\ \A i \in 1..n : s[i] # s[n + 1]
    BY <1>1, <2>1 DEF LabelList, Distinct, SetOf
  <2>4. CASE s[n + 1] \in S
    <3>. DEFINE u == f[n]
                x == s[n + 1]
    <3>1. f[n + 1] = Append(u, x)
      BY <2>2, <2>4 DEF NextAmong
    <3>2. u \in Seq(SetOf(s)) /\ Distinct(u) /\ x \notin SetOf(u)
      BY <2>2, <2>3 DEF Collected
    <3>3. \A y : y \in SetOf(u) <=> y \in S /\ \E i \in 1..n : s[i] = y
      BY <2>2 DEF Collected
    <3>. HIDE DEF u, x
    <3>4. /\ Append(u, x) \in Seq(SetOf(s))
          /\ DOMAIN Append(u, x) = 1..Len(u) + 1 /\ Len(u) \in Nat /\ DOMAIN u = 1..Len(u)
          /\ Append(u, x)[Len(u) + 1] = x
          /\ \A i \in 1..Len(u) : Append(u, x)[i] = u[i]
      BY <2>3, <3>2 DEF x
    <3>5. SetOf(Append(u, x)) = SetOf(u) \cup {x}
      BY <3>4 DEF SetOf
    <3>6. Distinct(Append(u, x))
      BY <3>2, <3>4 DEF Distinct, SetOf
    <3>7. ASSUME NEW y
          PROVE  y \in SetOf(u) \cup {x} <=> y \in S /\ \E i \in 1..n + 1 : s[i] = y
      BY <2>4, <3>3 DEF x
    <3>. QED
      BY <3>1, <3>4, <3>5, <3>6, <3>7 DEF Collected
  <2>5. CASE s[n + 1] \notin S
    <3>1. f[n + 1] = f[n]
      BY <2>2, <2>5 DEF NextAmong
    <3>. QED
      BY <2>2, <2>5, <3>1 DEF Collected
  <2>. QED
    BY <2>4, <2>5
<1>. HIDE DEF P
<1>6. Nat \subseteq P
  BY <1>4, <1>5, Numbers
<1>7. Collected(Among(s, S), s, S, Len(s))
  BY <1>1, <1>2, <1>6 DEF P
<1>8. \A x : x \in SetOf(s) <=> \E i \in 1..Len(s) : s[i] = x
  BY <1>1 DEF SetOf
<1>. QED
  BY <1>7, <1>8 DEF Collected

\* What is known of the form, the server and the issues that were scored.
Known ==
  /\ form \in Issues \cup {Blank} /\ bundle \in 1..Bundles
  /\ \A k \in DOMAIN scores :
       /\ scores[k].issue \in Issues
       /\ scores[k].reply = "scored" => scores[k].bundle \in 1..Bundles

KnownTo(b, s) == SetOf(s) \subseteq SetOf(LabelOrder[b]) /\ Distinct(s)

\* The bundle that made the prediction would not refuse the labels of the request.
Sound(e) ==
  /\ KnownTo(e.artifacts, e.predicted)
  /\ KnownTo(e.artifacts, e.accepted)
  /\ KnownTo(e.artifacts, e.rejected)
  /\ SetOf(e.accepted) \cap SetOf(e.rejected) = {}
  /\ ActionIsSound(e)

\* Only another title or other artifacts are a reason to refuse it.
Refusable(e) == e.reply = "refused" => e.title = Blank \/ e.artifacts # e.under

Acceptable ==
  /\ Known
  /\ \A r \in DOMAIN reviews : Sound(reviews[r]) /\ Refusable(reviews[r])

\* The page shows a prediction of one of the server's bundles.
LEMMA ShownIsKnown ==
  ASSUME Formed, Consistent, Known, PanelShown
  PROVE  /\ Shown.bundle \in 1..Bundles
         /\ LabelList(Predicted) /\ LabelList(LabelOrder[Shown.bundle])
         /\ SetOf(Predicted) \subseteq SetOf(LabelOrder[Shown.bundle])
<1>1. Scored(inference.result)
  BY DEF Consistent, PanelShown
<1>2. Shown.bundle \in 1..Bundles /\ Shown.issue \in Issues
  BY <1>1 DEF Known, Scored, Shown
<1>. QED
  BY <1>2, ReviewAssumption DEF Predicted

\* Every step leaves a form, a bundle and scored issues that are known.
LEMMA KnownStep ==
  ASSUME Formed, Known, [Next]_vars
  PROVE  Known'
<1>1. form' \in Issues \cup {Blank}
  BY DEF Known, Next, Maintainer, Scoring, Reviewing, Edit, ScoreIssue, ReviewAnother,
         DismissError, Accept, Reject, Submit, OpenCorrection, Toggle, CancelCorrection,
         SubmitCorrection, Infer, HearScore, ScoreFails, TakeFeedback, HearFeedback,
         FeedbackFails, Restart, vars
<1>2. bundle' \in 1..Bundles
  <2>1. CASE bundle' = bundle
    BY <2>1 DEF Known
  <2>2. CASE Restart
    BY <2>2, ReviewAssumption DEF Known, Restart
  <2>. QED
    BY <2>1, <2>2
       DEF Next, Maintainer, Scoring, Reviewing, Edit, ScoreIssue, ReviewAnother,
           DismissError, Accept, Reject, Submit, OpenCorrection, Toggle, CancelCorrection,
           SubmitCorrection, Infer, HearScore, ScoreFails, TakeFeedback, HearFeedback,
           FeedbackFails, vars
<1>3. \A k \in DOMAIN scores' :
        /\ scores'[k].issue \in Issues
        /\ scores'[k].reply = "scored" => scores'[k].bundle \in 1..Bundles
  <2>1. CASE UNCHANGED scores
    BY <2>1 DEF Known
  <2>2. CASE ScoreIssue
    <3>1. form \in Issues
      BY <2>2 DEF Known, ScoreIssue
    <3>. QED
      BY <2>2, <3>1, ScoreIsSent DEF Known
  <2>3. ASSUME NEW k \in DOMAIN scores, Infer(k)
        PROVE  \A j \in DOMAIN scores' :
                 /\ scores'[j].issue \in Issues
                 /\ scores'[j].reply = "scored" => scores'[j].bundle \in 1..Bundles
    BY <2>3, ScoreIsInferred DEF Known
  <2>4. ASSUME NEW k \in DOMAIN scores, HearScore(k) \/ ScoreFails(k)
        PROVE  \A j \in DOMAIN scores' :
                 /\ scores'[j].issue \in Issues
                 /\ scores'[j].reply = "scored" => scores'[j].bundle \in 1..Bundles
    <3>1. ScoreHeardAs(k, "success") \/ ScoreHeardAs(k, "error")
      BY <2>4 DEF HearScore, ScoreFails, ScoreHeardAs
    <3>. QED
      BY <3>1, ScoreIsHeard DEF Known
  <2>. QED
    BY <2>1, <2>2, <2>3, <2>4
       DEF Next, Maintainer, Scoring, Reviewing, Edit, ReviewAnother, DismissError, Accept,
           Reject, Submit, OpenCorrection, Toggle, CancelCorrection, SubmitCorrection,
           TakeFeedback, HearFeedback, FeedbackFails, Restart, vars
<1>. QED
  BY <1>1, <1>2, <1>3 DEF Known

\* The page sends nothing that the bundle it was shown would refuse.
LEMMA SendsSound ==
  ASSUME Formed, Consistent, Known, Accept \/ Reject \/ SubmitCorrection
  PROVE  \E n \in Nat \ {0} : \E action, accepted, rejected :
            /\ Sent(n, action, accepted, rejected)
            /\ Sound(reviews'[n])
<1>1. PanelShown
  BY DEF Accept, Reject, SubmitCorrection, Consistent, PicksAreOverShown
<1>2. /\ LabelList(Predicted) /\ LabelList(LabelOrder[Shown.bundle])
      /\ SetOf(Predicted) \subseteq SetOf(LabelOrder[Shown.bundle])
  BY <1>1, ShownIsKnown
<1>3. SetOf(<<>>) = {} /\ Distinct(<<>>) /\ Distinct(Predicted)
  BY <1>2 DEF SetOf, Distinct, LabelList
<1>4. CASE Accept
  <2>1. PICK n \in Nat \ {0} : Sent(n, "accepted", Predicted, <<>>)
    BY <1>4, ReviewIsSent DEF Accept
  <2>2. Sound(reviews'[n])
    BY <1>2, <1>3, <2>1 DEF Sent, Sound, KnownTo, ActionIsSound
  <2>. QED
    BY <2>1, <2>2
<1>5. CASE Reject
  <2>1. PICK n \in Nat \ {0} : Sent(n, "rejected", <<>>, Predicted)
    BY <1>5, ReviewIsSent DEF Reject
  <2>2. Sound(reviews'[n])
    BY <1>2, <1>3, <2>1 DEF Sent, Sound, KnownTo, ActionIsSound
  <2>. QED
    BY <2>1, <2>2
<1>6. CASE SubmitCorrection
  <2>. DEFINE chosen == SetOf(picks.selected)
              accepted == Among(LabelOrder[Shown.bundle], chosen)
              rejected == Among(Predicted, SetOf(Predicted) \ chosen)
  <2>1. /\ accepted # Predicted
        /\ Submit("corrected", accepted, rejected)
    BY <1>6 DEF SubmitCorrection, InOrder, CanSubmitCorrection
  <2>2. /\ SetOf(accepted) = SetOf(LabelOrder[Shown.bundle]) \cap chosen /\ Distinct(accepted)
        /\ SetOf(rejected) = SetOf(Predicted) \ chosen /\ Distinct(rejected)
    BY <1>2, AmongIsTheirs
  <2>. HIDE DEF accepted, rejected, chosen
  <2>3. PICK n \in Nat \ {0} : Sent(n, "corrected", accepted, rejected)
    BY <2>1, ReviewIsSent
  <2>4. Sound(reviews'[n])
    BY <1>2, <1>3, <2>1, <2>2, <2>3 DEF Sent, Sound, KnownTo, ActionIsSound
  <2>. QED
    BY <2>3, <2>4
<1>. QED
  BY <1>4, <1>5, <1>6

\* The loaded bundle refuses a sound request only for its title or its artifacts.
LEMMA SoundIsValid ==
  ASSUME NEW e, Sound(e), e.title # Blank, e.artifacts = bundle
  PROVE  Valid(e)
BY DEF Sound, KnownTo, Valid, ArtifactsMatch, LabelsAreSound, KnownLabels

\* The same request is as sound.
LEMMA SoundStays ==
  ASSUME NEW e, NEW f, SameRequest(e, f), Sound(f)
  PROVE  Sound(e)
BY DEF SameRequest, Sound, KnownTo, ActionIsSound

\* Every step leaves the requests acceptable.
LEMMA AcceptableStep ==
  ASSUME Formed, Consistent, Acceptable, [Next]_vars
  PROVE  Acceptable'
<1>1. Known'
  BY KnownStep DEF Acceptable
<1>2. SUFFICES \A s \in DOMAIN reviews' : Sound(reviews'[s]) /\ Refusable(reviews'[s])
  BY <1>1 DEF Acceptable, Sound, KnownTo, ActionIsSound, Refusable
<1>3. CASE UNCHANGED reviews
  BY <1>3 DEF Acceptable
<1>4. CASE Accept \/ Reject \/ SubmitCorrection
  <2>1. PICK n \in Nat \ {0} : \E action, accepted, rejected :
            /\ Sent(n, action, accepted, rejected)
            /\ Sound(reviews'[n])
    BY <1>4, SendsSound DEF Acceptable
  <2>2. Refusable(reviews'[n])
    BY <2>1 DEF Sent, Refusable
  <2>. QED
    BY <2>1, <2>2 DEF Sent, Acceptable
<1>5. ASSUME NEW r \in DOMAIN reviews, TakeFeedback(r)
      PROVE  \A s \in DOMAIN reviews' : Sound(reviews'[s]) /\ Refusable(reviews'[s])
  <2>1. /\ DOMAIN reviews' = DOMAIN reviews
        /\ \A s \in DOMAIN reviews \ {r} : reviews'[s] = reviews[s]
        /\ SameRequest(reviews'[r], reviews[r]) /\ reviews'[r].under = bundle
        /\ Valid(reviews[r]) => reviews'[r].reply # "refused"
    BY <1>5, ReviewIsTaken
  <2>2. Sound(reviews[r])
    BY DEF Acceptable
  <2>3. Sound(reviews'[r])
    BY <2>1, <2>2, SoundStays
  <2>4. reviews[r].title # Blank /\ reviews[r].artifacts = bundle => Valid(reviews[r])
    BY <2>2, SoundIsValid
  <2>5. Refusable(reviews'[r])
    BY <2>1, <2>4 DEF Refusable, SameRequest
  <2>. QED
    BY <2>1, <2>3, <2>5 DEF Acceptable
<1>6. ASSUME NEW r \in DOMAIN reviews, HearFeedback(r) \/ FeedbackFails(r)
      PROVE  \A s \in DOMAIN reviews' : Sound(reviews'[s]) /\ Refusable(reviews'[s])
  <2>1. ReviewHeardAs(r, "success") \/ ReviewHeardAs(r, "error")
    BY <1>6 DEF HearFeedback, FeedbackFails, ReviewHeardAs
  <2>2. /\ DOMAIN reviews' = DOMAIN reviews
        /\ \A s \in DOMAIN reviews \ {r} : reviews'[s] = reviews[s]
        /\ SameRequest(reviews'[r], reviews[r])
        /\ reviews'[r].under = reviews[r].under
        /\ reviews'[r].reply = reviews[r].reply
    BY <2>1, ReviewIsHeard
  <2>3. Sound(reviews'[r])
    BY <2>2, SoundStays DEF Acceptable
  <2>4. Refusable(reviews'[r])
    BY <2>2 DEF Refusable, SameRequest, Acceptable
  <2>. QED
    BY <2>2, <2>3, <2>4 DEF Acceptable
<1>. QED
  BY <1>3, <1>4, <1>5, <1>6
     DEF Next, Maintainer, Scoring, Reviewing, Edit, ScoreIssue, ReviewAnother, DismissError,
         OpenCorrection, Toggle, CancelCorrection, Infer, HearScore, ScoreFails, Restart, vars

\* No request has been refused at first, and the first bundle is loaded.
LEMMA AcceptableInit == Init => Acceptable
<1>1. ASSUME Init PROVE DOMAIN scores = {} /\ DOMAIN reviews = {} /\ bundle \in 1..Bundles
  BY <1>1, ReviewAssumption DEF Init
<1>. QED
  BY <1>1 DEF Init, Acceptable, Known

\* What the page lets through the server refuses only for an emptied title or because the
\* artifacts behind the prediction are no longer loaded (buildFeedbackRequest and
\* canSubmitCorrection against validate_feedback_request), for any bundles, label orders
\* and predictions without a label twice, any clicks, crossing answers and restarts.
THEOREM RefusalsAreOnlyOfTheOutdated == Spec => []RefusedOnlyIfOutdated
<1>1. Acceptable => RefusedOnlyIfOutdated
  BY DEF Acceptable, Refusable, RefusedOnlyIfOutdated
<1>. QED
  BY AlwaysConsistent, AcceptableInit, AcceptableStep, <1>1, PTL DEF Spec
=============================================================================
