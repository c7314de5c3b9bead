SPECIFICATION Spec
CONSTANTS
  Order <- PairOrder
  NoInstance = NoInstance
  InstanceOf <- PairInstance
  Pools = {"gpu"}
  Draw <- PairDraw
  Room <- OneRoom
  Priority <- RankedPriority
  Eviction <- PairEviction
  HasModel <- PairNone
  ModelLoadUnload <- PairNone
  SlotSave <- BareSlotSave
  SavesSlots <- BareSlotSave
  SlotIds <- BareSlots
  IdleUnload <- PairIdle
  NoThreshold = NoThreshold
  NoSlot = NoSlot
  Requests = {"ra", "rc"}
  TargetFor <- PairTarget
  FirstLive = {"rc"}
  MaxPasses = 16
  Fragile = {}
  Reconciled = {}
  Strict = {}
  Up = {"ia"}
CHECK_DEADLOCK FALSE
INVARIANTS MutatesUnderLock
