SPECIFICATION WireSpec
CONSTANTS
  Size <- MCSize
  Length <- MCLength
  Typ <- MCTyp
INVARIANTS ReadsStayInside
