SPECIFICATION PlansSpec
CONSTANTS
  User = {ann}
  Handler = {p1, p2}
  None = None
  Paid = {"PRO"}
  MaxTime = 1
  MaxSubs = 2
  MaxEvents = 3
  MaxCustomers = 2
  MaxFaults = 1
SYMMETRY HandlerSymmetry
INVARIANTS PlanFollowsStripe BoundedLost
CHECK_DEADLOCK FALSE
