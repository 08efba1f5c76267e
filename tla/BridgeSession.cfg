SPECIFICATION FairSpec
CONSTANTS
  Pubs = {p1}
  Subs = {s1, s2}
  Services = {v1}
  MaxReconnects = 2
INVARIANTS TypeOK ChildrenHaveParents SearchStartsClean ExecutorHasRoom SpinsOnlyLive
PROPERTY SessionReturns
