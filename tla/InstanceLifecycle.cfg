CONSTANTS
  d1 = d1  d2 = d2  d3 = d3
  c1 = c1  c2 = c2
  p1 = p1  p2 = p2
  foreign = foreign  inspector = inspector  none = none
  Daemons = {d1, d2, d3}
  Clients = {c1}
  Ports = {p1, p2}
  Foreign = foreign
  Inspector = inspector
  None = none
SPECIFICATION Spec
INVARIANTS OwnerAlone PublishedStays ReceiptMeansReady
PROPERTY AnsweredByOwner
SYMMETRY Names
