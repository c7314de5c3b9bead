SPECIFICATION Spec
CONSTANTS
  Order <- PairOrder
  NoInstance = NoInstance
  InstanceOf <- PairInstance
  Pools = {"gpu"}
  Draw <- PairDraw
  Room <- OneRoom
  Priority <- PairPriority
  Eviction <- PairEviction
  HasModel <- PairNone
  ModelLoadUnload <- PairNone
  SlotSave <- PairSlotSave
  SavesSlots <- PairSlotSave
  SlotIds <- PairSlots
  IdleUnload <- PairIdle
  NoThreshold = NoThreshold
  NoSlot = NoSlot
  Requests = {"ra", "rc"}
  TargetFor <- PairTarget
  FirstLive = {}
  MaxPasses = 4
  Fragile = {}
  Reconciled = {}
  Strict = {}
  Up = {"ic"}
CHECK_DEADLOCK FALSE
INVARIANTS NeverOversubscribed
