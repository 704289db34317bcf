----------------------------- MODULE ReviewLoop -----------------------------
(***************************************************************************)
(* The review loop: the React page on which a maintainer scores an issue   *)
(* and reviews the prediction (frontend/src), the two API routes behind it *)
(* and the table of feedback events (src/repotriage/api, persistence).     *)
(*                                                                         *)
(* The page keeps one scoring result and one feedback outcome, but any     *)
(* number of requests may be on their way: the hooks do not tell whose     *)
(* answer they receive.  Requests are handled, and answers arrive, in any  *)
(* order; calls fail; the server is restarted with other artifacts.        *)
(*                                                                         *)
(* Left out: the issue number and the note, which the maintainer fills in  *)
(* before the click; inference.error, which guards nothing; the texts.     *)
(***************************************************************************)
EXTENDS Naturals, Sequences

CONSTANTS
  Issues,       \* what the maintainer may type or load from the samples
  Bundles,      \* how many inference bundles the server loads, one a restart
  LabelOrder,   \* LabelOrder[b]: the labels of bundle b, a sequence
  Predictions,  \* Predictions[b][i]: labels bundle b predicts, best first
  MaxScores,    \* bound: scoring requests
  MaxReviews,   \* bound: feedback requests
  Hasty,        \* the maintainer clicks on while a request is on its way
  Edits,        \* ... and edits the form under a result
  Faults        \* calls are lost, inference and the database fail

SetOf(s) == {s[i] : i \in DOMAIN s}

Distinct(s) == \A i, j \in DOMAIN s : s[i] = s[j] => i = j

\* The elements of s that are in S, in the order of s.
Among(s, S) ==
  LET upto[n \in 0..Len(s)] ==
        IF n = 0 THEN <<>>
        ELSE IF s[n] \in S THEN Append(upto[n - 1], s[n])
        ELSE upto[n - 1]
  IN upto[Len(s)]

\* The validators of the label map admit no label twice.
LabelList(s) == s \in Seq(SetOf(s)) /\ Distinct(s)

Blank == "blank"     \* the empty form

ASSUME ReviewAssumption ==
  /\ Bundles \in Nat \ {0}
  /\ MaxScores \in Nat
  /\ MaxReviews \in Nat
  /\ Blank \notin Issues
  /\ {Hasty, Edits, Faults} \subseteq BOOLEAN
  /\ \A b \in 1..Bundles : LabelList(LabelOrder[b])
  /\ \A b \in 1..Bundles, i \in Issues :
       /\ LabelList(Predictions[b][i])
       /\ SetOf(Predictions[b][i]) \subseteq SetOf(LabelOrder[b])

VARIABLES
  form,       \* the issue in the form
  inference,  \* useInference: [loading, result], result 0 or a score's number
  feedback,   \* useFeedback: [loading, error, success], success 0 or a review's
  picks,      \* FeedbackPanel: [open, over, selected], over what it began as
  scores,     \* the POST /infer requests so far
  reviews,    \* the POST /feedback requests so far
  bundle,     \* server: the bundle it has loaded
  crossed,    \* history: <<k, r>>, score and review on their way together
  left,       \* history: live scores whose issue is edited out of the form
  retitled    \* history: reviews sent under a form so edited

history == <<crossed, left, retitled>>
vars == <<form, inference, feedback, picks, scores, reviews, bundle, history>>

NoInference == [loading |-> FALSE, result |-> 0]
NoPicks == [open |-> FALSE, over |-> <<>>, selected |-> <<>>]
NoFeedback == [loading |-> FALSE, error |-> FALSE, success |-> 0]

Init ==
  /\ form = Blank
  /\ inference = NoInference
  /\ feedback = NoFeedback
  /\ picks = NoPicks
  /\ scores = <<>>
  /\ reviews = <<>>
  /\ bundle = 1
  /\ crossed = {}
  /\ left = {}
  /\ retitled = {}

-----------------------------------------------------------------------------
(* What the page shows.                                                    *)

Shown == scores[inference.result]
Predicted == Predictions[Shown.bundle][Shown.issue]

PanelShown == inference.result # 0 /\ ~inference.loading

\* Mutant: a success does not settle the panel.
DisabledWhileLoading == feedback.loading

ActionsDisabled == feedback.loading \/ feedback.success # 0

ScoresOnTheirWay == {k \in DOMAIN scores : scores[k].heard = "no"}
ReviewsOnTheirWay == {r \in DOMAIN reviews : reviews[r].heard = "no"}

InFlight == ScoresOnTheirWay # {} \/ ReviewsOnTheirWay # {}

\* A patient maintainer waits for the answers before going on.
MayGoOn == Hasty \/ ~InFlight

\* The history, which no guard reads: what a request crosses when it is sent,
\* the shown or still awaited scores whose issue gives way to another text in
\* a form that is open, that is, while the page is not loading, and the
\* reviews that are sent under such a text.
ScoreCrosses ==
  crossed' = crossed \cup ({Len(scores) + 1} \X ReviewsOnTheirWay)

ReviewCrosses ==
  crossed' = crossed \cup (ScoresOnTheirWay \X {Len(reviews) + 1})

LiveScores == ScoresOnTheirWay \cup ({inference.result} \ {0})

EditLeaves(i) ==
  left' = IF inference.loading THEN left
          ELSE {k \in LiveScores : scores[k].issue # i}

TitleLeaves ==
  retitled' = IF inference.result \in left
                THEN retitled \cup {Len(reviews) + 1} ELSE retitled

-----------------------------------------------------------------------------
(* The maintainer.                                                         *)

\* Mutant: the form stays open while the issue is scored.
EditAnytime(i) ==
  /\ Edits \/ inference.result = 0
  /\ form' = i
  /\ EditLeaves(i)
  /\ UNCHANGED <<inference, feedback, picks, scores, reviews, bundle,
                 crossed, retitled>>

Edit(i) ==
  /\ ~inference.loading
  /\ Edits \/ inference.result = 0
  /\ form' = i
  /\ EditLeaves(i)
  /\ UNCHANGED <<inference, feedback, picks, scores, reviews, bundle,
                 crossed, retitled>>

\* Mutant: handleInfer without feedback.reset().
ScoreKeepsFeedback ==
  /\ MayGoOn
  /\ ~inference.loading
  /\ form # Blank
  /\ Len(scores) < MaxScores
  /\ inference' = [loading |-> TRUE, result |-> 0]
  /\ picks' = NoPicks
  /\ scores' = Append(scores,
       [issue |-> form, bundle |-> 0, reply |-> "none", heard |-> "no"])
  /\ ScoreCrosses
  /\ UNCHANGED <<form, feedback, reviews, bundle, left, retitled>>

ScoreIssue ==
  /\ MayGoOn
  /\ ~inference.loading
  /\ form # Blank
  /\ Len(scores) < MaxScores
  /\ feedback' = NoFeedback
  /\ inference' = [loading |-> TRUE, result |-> 0]
  /\ picks' = NoPicks
  /\ scores' = Append(scores,
       [issue |-> form, bundle |-> 0, reply |-> "none", heard |-> "no"])
  /\ ScoreCrosses
  /\ UNCHANGED <<form, reviews, bundle, left, retitled>>

ReviewAnother ==
  /\ MayGoOn
  /\ feedback.success # 0
  /\ inference' = NoInference
  /\ feedback' = NoFeedback
  /\ form' = Blank
  /\ picks' = NoPicks
  /\ left' = ScoresOnTheirWay
  /\ UNCHANGED <<scores, reviews, bundle, crossed, retitled>>

DismissError ==
  /\ MayGoOn
  /\ feedback.error
  /\ feedback' = NoFeedback
  /\ UNCHANGED <<form, inference, picks, scores, reviews, bundle, history>>

\* buildFeedbackRequest and useFeedback.submit: the title is the form's, the
\* prediction and the artifacts are the shown result's.
Submit(action, accepted, rejected) ==
  /\ Len(reviews) < MaxReviews
  /\ reviews' = Append(reviews,
       [of |-> inference.result, artifacts |-> Shown.bundle, title |-> form,
        predicted |-> Predicted, action |-> action, accepted |-> accepted,
        rejected |-> rejected, under |-> 0, stored |-> FALSE,
        reply |-> "none", heard |-> "no"])
  /\ feedback' = [loading |-> TRUE, error |-> FALSE, success |-> 0]
  /\ ReviewCrosses
  /\ TitleLeaves
  /\ UNCHANGED <<form, inference, scores, bundle, left>>

Accept ==
  /\ PanelShown
  /\ ~ActionsDisabled
  /\ Submit("accepted", Predicted, <<>>)
  /\ UNCHANGED picks

Reject ==
  /\ PanelShown
  /\ ~ActionsDisabled
  /\ Predicted # <<>>
  /\ Submit("rejected", <<>>, Predicted)
  /\ UNCHANGED picks

OpenCorrection ==
  /\ PanelShown
  /\ ~ActionsDisabled
  /\ picks' = [open |-> TRUE, over |-> Predicted, selected |-> Predicted]
  /\ UNCHANGED <<form, inference, feedback, scores, reviews, bundle, history>>

InOrder(labels) ==
  Among(LabelOrder[Shown.bundle], labels)

Toggle(label) ==
  /\ picks.open
  /\ ~ActionsDisabled
  /\ label \in SetOf(LabelOrder[Shown.bundle])
  /\ LET before == SetOf(picks.selected)
         after == IF label \in before THEN before \ {label}
                                      ELSE before \cup {label}
     IN picks' = [picks EXCEPT !.selected = InOrder(after)]
  /\ UNCHANGED <<form, inference, feedback, scores, reviews, bundle, history>>

CancelCorrection ==
  /\ picks.open
  /\ ~ActionsDisabled
  /\ picks' = NoPicks
  /\ UNCHANGED <<form, inference, feedback, scores, reviews, bundle, history>>

\* Mutant: a selection that changes nothing may be submitted.
CanAlwaysSubmit(selected, predicted) == TRUE

CanSubmitCorrection(selected, predicted) == selected # predicted

\* The button is enabled by the selection in label order, the click acts on
\* the selection as it is: both must differ from the prediction.
SubmitCorrection ==
  /\ picks.open
  /\ ~ActionsDisabled
  /\ LET chosen == SetOf(picks.selected)
     IN /\ CanSubmitCorrection(InOrder(chosen), Predicted)
        /\ CanSubmitCorrection(picks.selected, Predicted)
        /\ Submit("corrected", InOrder(chosen),
                  Among(Predicted, SetOf(Predicted) \ chosen))
  /\ picks' = NoPicks

-----------------------------------------------------------------------------
(* The server.                                                             *)

\* POST /infer: infer_issue under the loaded bundle, or an error.
Infer(k) ==
  /\ scores[k].reply = "none"
  /\ \/ scores' = [scores EXCEPT ![k].reply = "scored", ![k].bundle = bundle]
     \/ Faults /\ scores' = [scores EXCEPT ![k].reply = "error"]
  /\ UNCHANGED <<form, inference, feedback, picks, reviews, bundle, history>>

\* Mutant: validate_feedback_request without _validate_artifact_ids.
AnyArtifacts(f) == TRUE

ArtifactsMatch(f) == f.artifacts = bundle

KnownLabels(s) ==
  /\ SetOf(s) \subseteq SetOf(LabelOrder[bundle])
  /\ Distinct(s)

LabelsAreSound(f) ==
  /\ KnownLabels(f.predicted)
  /\ KnownLabels(f.accepted)
  /\ KnownLabels(f.rejected)
  /\ SetOf(f.accepted) \cap SetOf(f.rejected) = {}

ActionIsSound(f) ==
  \/ f.action = "accepted" /\ f.accepted = f.predicted /\ f.rejected = <<>>
  \/ f.action = "corrected" /\ f.accepted # f.predicted
  \/ /\ f.action = "rejected"
     /\ f.accepted = <<>>
     /\ SetOf(f.rejected) = SetOf(f.predicted)

Valid(f) ==
  /\ f.title # Blank
  /\ ArtifactsMatch(f)
  /\ LabelsAreSound(f)
  /\ ActionIsSound(f)

\* Mutant: an error of the commit is swallowed.
StoreOrNot(r) ==
  \E committed \in BOOLEAN :
    /\ committed \/ Faults
    /\ reviews' = [reviews EXCEPT ![r].stored = committed,
                                  ![r].under = bundle,
                                  ![r].reply = "created"]

\* SqlAlchemyFeedbackRepository.store: an error of the commit does not tell
\* whether the row is there.
Store(r) ==
  \/ reviews' = [reviews EXCEPT ![r].stored = TRUE, ![r].under = bundle,
                                ![r].reply = "created"]
  \/ /\ Faults
     /\ \E committed \in BOOLEAN :
          reviews' = [reviews EXCEPT ![r].stored = committed,
                                     ![r].under = bundle,
                                     ![r].reply = "error"]

\* POST /feedback.
TakeFeedback(r) ==
  /\ reviews[r].reply = "none"
  /\ IF Valid(reviews[r])
       THEN Store(r)
       ELSE reviews' = [reviews EXCEPT ![r].under = bundle,
                                       ![r].reply = "refused"]
  /\ UNCHANGED <<form, inference, feedback, picks, scores, bundle, history>>

Restart ==
  /\ bundle < Bundles
  /\ bundle' = bundle + 1
  /\ UNCHANGED <<form, inference, feedback, picks, scores, reviews, history>>

-----------------------------------------------------------------------------
(* The answers, as the hooks receive them.                                 *)

\* The panel's effect closes the correction box when generated_at or the
\* predicted labels change; generated_at counts seconds, so two results with
\* the same labels may look the same to it.
SameLabels(k) ==
  PanelShown /\ Predictions[scores[k].bundle][scores[k].issue] = Predicted

\* Mutant: no effect closes the correction box under a new result.
HearScoreOnly(k) ==
  /\ scores[k].heard = "no"
  /\ scores[k].reply = "scored"
  /\ inference' = [loading |-> FALSE, result |-> k]
  /\ scores' = [scores EXCEPT ![k].heard = "success"]
  /\ UNCHANGED <<form, feedback, picks, reviews, bundle, history>>

HearScore(k) ==
  /\ scores[k].heard = "no"
  /\ scores[k].reply = "scored"
  /\ inference' = [loading |-> FALSE, result |-> k]
  /\ scores' = [scores EXCEPT ![k].heard = "success"]
  /\ picks' \in IF SameLabels(k) THEN {picks, NoPicks} ELSE {NoPicks}
  /\ UNCHANGED <<form, feedback, reviews, bundle, history>>

ScoreFails(k) ==
  /\ scores[k].heard = "no"
  /\ scores[k].reply = "error" \/ Faults
  /\ inference' = [inference EXCEPT !.loading = FALSE]
  /\ scores' = [scores EXCEPT ![k].heard = "error"]
  /\ UNCHANGED <<form, feedback, picks, reviews, bundle, history>>

HearFeedback(r) ==
  /\ reviews[r].heard = "no"
  /\ reviews[r].reply = "created"
  /\ feedback' = [feedback EXCEPT !.loading = FALSE, !.success = r]
  /\ reviews' = [reviews EXCEPT ![r].heard = "success"]
  /\ UNCHANGED <<form, inference, picks, scores, bundle, history>>

\* Mutant: setLoading(false) only after a success.
FeedbackFailsLoading(r) ==
  /\ reviews[r].heard = "no"
  /\ reviews[r].reply \in {"refused", "error"} \/ Faults
  /\ feedback' = [feedback EXCEPT !.error = TRUE]
  /\ reviews' = [reviews EXCEPT ![r].heard = "error"]
  /\ UNCHANGED <<form, inference, picks, scores, bundle, history>>

FeedbackFails(r) ==
  /\ reviews[r].heard = "no"
  /\ reviews[r].reply \in {"refused", "error"} \/ Faults
  /\ feedback' = [feedback EXCEPT !.loading = FALSE, !.error = TRUE]
  /\ reviews' = [reviews EXCEPT ![r].heard = "error"]
  /\ UNCHANGED <<form, inference, picks, scores, bundle, history>>

-----------------------------------------------------------------------------
Maintainer ==
  \/ \E i \in Issues \cup {Blank} : Edit(i)
  \/ ScoreIssue
  \/ ReviewAnother
  \/ DismissError
  \/ Accept
  \/ Reject
  \/ OpenCorrection
  \/ \E b \in 1..Bundles : \E l \in SetOf(LabelOrder[b]) : Toggle(l)
  \/ CancelCorrection
  \/ SubmitCorrection

Scoring(k) == Infer(k) \/ HearScore(k) \/ ScoreFails(k)
Reviewing(r) == TakeFeedback(r) \/ HearFeedback(r) \/ FeedbackFails(r)

Next ==
  \/ Maintainer
  \/ \E k \in DOMAIN scores : Scoring(k)
  \/ \E r \in DOMAIN reviews : Reviewing(r)
  \/ Restart

Spec == Init /\ [][Next]_vars

\* Every request is answered or its connection fails; nobody has to click.
FairSpec ==
  /\ Spec
  /\ \A k \in 1..MaxScores : WF_vars(k \in DOMAIN scores /\ Scoring(k))
  /\ \A r \in 1..MaxReviews : WF_vars(r \in DOMAIN reviews /\ Reviewing(r))

-----------------------------------------------------------------------------
(* Properties.                                                             *)

\* A stored event reviews a prediction of the bundle that was serving when it
\* was stored, its labels are that bundle's, and none of them is both accepted
\* and rejected (validate_feedback_request), across restarts of the server.
EventsMatchTheirPrediction ==
  \A r \in DOMAIN reviews :
    LET e == reviews[r]
        reviewed == scores[e.of]
        names == SetOf(e.predicted) \cup SetOf(e.accepted) \cup SetOf(e.rejected)
    IN e.stored =>
         /\ e.under = reviewed.bundle
         /\ e.predicted = Predictions[reviewed.bundle][reviewed.issue]
         /\ names \subseteq SetOf(LabelOrder[e.under])
         /\ SetOf(e.accepted) \cap SetOf(e.rejected) = {}

\* The page and the server agree on what may be submitted: a click the page
\* allows is refused only if the title was emptied or the artifacts that made
\* the prediction are no longer the ones that are loaded.
RefusedOnlyIfOutdated ==
  \A r \in DOMAIN reviews :
    reviews[r].reply = "refused" =>
      \/ reviews[r].title = Blank
      \/ reviews[r].artifacts # reviews[r].under

\* "Feedback stored" is shown for an event that is in the database, whatever
\* stale answers arrive before or after (useFeedback, FeedbackRepository.store).
SuccessIsStored ==
  feedback.success # 0 => reviews[feedback.success].stored

\* An open correction box is about the prediction on the page: no answer
\* changes the prediction under the maintainer's picks (FeedbackPanel).
PicksAreOverShown ==
  picks.open => PanelShown /\ picks.over = Predicted

\* A result is reviewed a second time only after an answer that said the first
\* review failed (App, FeedbackPanel: loading and settled disable the panel).
SecondReviewOnlyAfterFailure ==
  \A r, s \in DOMAIN reviews :
    r < s /\ reviews[r].of = reviews[s].of => reviews[r].heard = "error"

\* The title stored with a prediction is that of the issue that was scored,
\* unless the maintainer put another text in the form where the page left it
\* open, or asked for another issue: a score that is loading cannot be edited
\* away, and no crossing of answers exchanges two issues (IssueInputForm's
\* disabled, buildFeedbackRequest).
EventDescribesScoredIssue ==
  \A r \in DOMAIN reviews :
    reviews[r].stored =>
      \/ reviews[r].title = scores[reviews[r].of].issue
      \/ r \in retitled

\* "After scoring, maintainers can accept, correct, or reject predicted
\* labels": whatever order the answers come in, a result is settled by the
\* review of another one only if that review and the result's own scoring were
\* on their way at the same time (handleInfer's feedback.reset).
ReviewableAfterScoring ==
  PanelShown /\ feedback.success # 0 =>
    \/ reviews[feedback.success].of = inference.result
    \/ <<inference.result, feedback.success>> \in crossed

\* No request leaves the page loading for ever, whatever fails and whichever
\* answers cross (the finally branches of the two hooks).
LoadingEnds ==
  /\ inference.loading ~> ~inference.loading
  /\ feedback.loading ~> ~feedback.loading
=============================================================================
