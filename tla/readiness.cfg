SPECIFICATION Spec
CONSTANTS
  Order <- PairOrder
  NoInstance = NoInstance
  InstanceOf <- PairInstance
  Pools = {"gpu"}
  Draw <- PairDraw
  Room <- OneRoom
  Priority <- PairPriority
  Eviction <- PairEviction
  HasModel <- PairNone
  ModelLoadUnload <- PairNone
  SlotSave <- PairSlotSave
  SavesSlots <- PairSlotSave
  SlotIds <- PairSlots
  IdleUnload <- PairIdle
  NoThreshold = NoThreshold
  NoSlot = NoSlot
  Requests = {"ra", "rc"}
  TargetFor <- PairTarget
  FirstLive = {"rc"}
  MaxPasses = 4
  Fragile = {"ia"}
  Reconciled = {"ic"}
  Strict = {"ia"}
  Up = {"ic"}
CHECK_DEADLOCK FALSE
INVARIANTS TypeOK 
PROPERTIES SparesInFlight SavedBeforeStop SwappedMeansReady
