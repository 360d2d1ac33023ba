SPECIFICATION Spec
CONSTANTS
  NumDesc = 4
  RxDescs = 2
  Quota = 2
INVARIANTS
  RestUntouched
