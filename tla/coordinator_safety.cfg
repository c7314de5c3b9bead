SPECIFICATION UntimedFairSpec
CONSTANTS
  Leases <- SafetyLeases
  Domains = {"d1", "d2"}
  Targets = {"ta", "tb"}
  Maintenance = "maintenance"
  TargetOf <- SafetyTarget
  DomainsOf <- SafetyDomains
  PriorityOf <- SafetyPriority
  PreemptibleOf <- SafetyPreemptible
  ContinuationOf <- SafetyContinuation
  Captures = {"exclusive", "shared"}
  NoCapture = NoCapture
  Admits <- MCAdmits
  Preempts <- MCPreempts
CHECK_DEADLOCK FALSE
INVARIANTS TypeOK QueuesAgree MaintenanceAlone HoldersCompatible NoMissedAdmission NoMissedPreemption
PROPERTIES FreshStint PreemptionBarrier SettledForGood EveryWaiterServed
