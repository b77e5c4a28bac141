CONSTANTS
  Window <- MCWindow
  Digits = {1, 2, 3}
  MaxGiven = 2
SPECIFICATION FairSpec
INVARIANTS SolutionsKept NothingLeft ResultIsUnique
PROPERTY Terminates
