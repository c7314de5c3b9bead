SPECIFICATION Spec
CONSTANTS
  Order <- LoneOrder
  NoInstance = NoInstance
  InstanceOf <- LoneInstance
  Pools = {"gpu"}
  Draw <- LoneDraw
  Room <- OneRoom
  Priority <- LonePriority
  Eviction <- LoneEviction
  HasModel <- LoneFalse
  ModelLoadUnload <- LoneFalse
  SlotSave <- LoneFalse
  SavesSlots <- LoneFalse
  SlotIds <- LoneSlots
  IdleUnload <- LoneIdle
  NoThreshold = NoThreshold
  NoSlot = NoSlot
  Requests = {"ra"}
  TargetFor <- LoneTarget
  FirstLive = {}
  MaxPasses = 16
  Fragile = {}
  Reconciled = {"ia"}
  Strict = {}
  Up = {}
CHECK_DEADLOCK FALSE
PROPERTIES StartFailureIsReal
