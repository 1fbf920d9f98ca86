CONSTANTS
  Attr = {"a", "b"}
  Key = "k"
  KeyVal <- MCKeyVal
  NoRow = NoRow
  Missing = Missing
  Failed = Failed
  Null = Null
  NoCond = NoCond
  NoExpr = NoExpr
  Item <- MCItem
  Condition <- MCCondition
  Update <- MCUpdate
  MaxNumber = 2
  MaxLen = 2
SPECIFICATION Spec
INVARIANTS SetsStayProper
PROPERTIES   ClausesActAtOnce AnswerTellsNewItem
