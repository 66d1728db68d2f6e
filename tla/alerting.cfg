SPECIFICATION Spec
CONSTANTS
  Nil = Nil
  h1 = h1
  h2 = h2
  h3 = h3
  Homes = {h1, h2, h3}
  Enabled = {"SE16"}
  NumberIn <- Numbers
  Pages <- SmallPages
  Forms <- SmallForms
  FillFloor = 60
  PageSize = 1
  HotPages = 1
  SweepPages = 2
INVARIANTS
  TypeOK
  RentIsMonthly
  AlertsAnswerTheForm
PROPERTIES
  
  PagingSkipsNothing
SYMMETRY
  Alike
\* Everything may have been read, and a source found broken stays so.
CHECK_DEADLOCK FALSE
