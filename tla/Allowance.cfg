SPECIFICATION FairSpec
CHECK_DEADLOCK FALSE
CONSTANTS
  p1 = p1
  p2 = p2
  p3 = p3
  Payments <- MCPayments
  Total <- MCTotal
  Mode <- MCMode
  Max = 6
  Allowances <- MCAllowances
INVARIANTS
  TypeOK
  RefusedOnlyOverdrawn
PROPERTIES
  ApprovedCovers
  ApprovalLasts
  EnsureReturns
