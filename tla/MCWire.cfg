CONSTANTS
  Keys = {"a", "b"}
  Sizes = {1, 2, 3}
  kMaxObjectSize = 2
  UpCap = 2
  InCap = 2
  DownCap = 3
  Plans <- MCPlans
SPECIFICATION WireSpec
INVARIANTS AnswersMatch StreamClean
PROPERTIES Returns
