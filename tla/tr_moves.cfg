SPECIFICATION Spec
CONSTANTS
  oA = oA
  oB = oB
  oC = oC
  ann = ann
  cy = cy
  Orgs = {oA, oB, oC}
  Users = {ann, cy}
  Home <- Staff
  Origin = oA
  Founder = ann
  Requests = {q1, q2}
  Calls = {c1, c2}
  MaxEdits = 1
SYMMETRY Interchangeable
INVARIANTS TypeOK SoleAccept DecisionStands
PROPERTIES MovesAsAgreed LeavesNobodyOutside
CHECK_DEADLOCK FALSE
