SPECIFICATION FairSpec
CONSTANTS
  Pubs = {p1}
  Subs = {s1}
  Services = {v1}
  MaxReconnects = 1
PROPERTY LostSessionDetected
