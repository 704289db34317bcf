SPECIFICATION FairSpec
CONSTANTS
  i1 = i1
  i2 = i2
  bug = bug
  docs = docs
  Issues <- MCIssues
  LabelOrder <- MCLabelOrder
  Predictions <- MCPredictions
  Bundles = 1
  MaxScores = 2
  MaxReviews = 2
  Hasty = FALSE
  Edits = FALSE
  Faults = TRUE
INVARIANTS
  SecondReviewOnlyAfterFailure
PROPERTIES
  LoadingEnds
\* The page rests once the bounded requests are used up.
CHECK_DEADLOCK FALSE
