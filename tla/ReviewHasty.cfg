SPECIFICATION Spec
CONSTANTS
  i1 = i1
  i2 = i2
  bug = bug
  docs = docs
  Issues <- MCIssues
  LabelOrder <- MCLabelOrder
  Predictions <- MCPredictions
  Bundles = 2
  MaxScores = 3
  MaxReviews = 1
  Hasty = TRUE
  Edits = TRUE
  Faults = TRUE
INVARIANTS
  SuccessIsStored
  EventsMatchTheirPrediction
  RefusedOnlyIfOutdated
  PicksAreOverShown
  ReviewableAfterScoring
  EventDescribesScoredIssue
\* The page rests once the bounded requests are used up.
CHECK_DEADLOCK FALSE
