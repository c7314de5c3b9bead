SPECIFICATION OrderSpec
CONSTANTS
  Leases <- OrderLeases
  Domains = {"d1", "d2"}
  Targets = {"ta", "tb", "tu"}
  Maintenance = "maintenance"
  TargetOf <- OrderTarget
  DomainsOf <- OrderDomains
  PriorityOf <- OrderPriority
  PreemptibleOf <- OrderPreemptible
  ContinuationOf <- OrderContinuation
  Captures = {"pair"}
  NoCapture = NoCapture
  Admits <- MCAdmits
  Preempts <- MCPreempts
CHECK_DEADLOCK FALSE
PROPERTIES PriorityFirst SameKindInTurn StarvedKeepsTurn
