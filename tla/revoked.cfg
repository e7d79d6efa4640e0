SPECIFICATION Spec
CONSTANTS
  v1 = v1
  v2 = v2
  q1 = q1
  q2 = q2
  Ids = {v1, v2}
  Requests = {q1, q2}
  MaxAttempts = 2
  Cooldown = 1
  ChallengeTtl = 2
  ReviewTtl = 2
  ApprovalTtl = 1
  Horizon = 4
SYMMETRY Symmetry
CHECK_DEADLOCK FALSE
PROPERTIES
  RevokedIsFinal
