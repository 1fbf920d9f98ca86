SPECIFICATION FairSpec
CONSTANTS
  Pk = {1, 2}
  Sk = {1, 2}
  Attr = {1}
  NoAttr = NoAttr
  NoItem = NoItem
  NoKey = NoKey
  Indexes = {"base", "lsi", "gsi"}
  Limits = {1, 2, 1000}
  MaxWrites = 1
INVARIANTS
  PagesComplete

  
  
CHECK_DEADLOCK FALSE
