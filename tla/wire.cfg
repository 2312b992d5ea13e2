SPECIFICATION Spec
CONSTANTS
  Document <- Documents
  Malformed = Malformed
  Name = {"s1"}
  Missing = Missing
  Word = Word
  Unset = Unset
  MaxInt = 3
  MaxLong = 7
CHECK_DEADLOCK FALSE
INVARIANTS
  TypeOK
  AnswersInOrder
  OnlyAssignedPrinted
