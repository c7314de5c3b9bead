SPECIFICATION FairSpec
CONSTANTS
  Order <- RouterOrder
  NoInstance = NoInstance
  InstanceOf <- RouterInstance
  Pools = {"gpu"}
  Draw <- RouterDraw
  Room <- OneRoom
  Priority <- RouterPriority
  Eviction <- RouterEviction
  HasModel <- RouterModel
  ModelLoadUnload <- RouterModel
  SlotSave <- RouterSlotSave
  SavesSlots <- RouterSlotSave
  SlotIds <- RouterSlots
  IdleUnload <- RouterIdle
  NoThreshold = NoThreshold
  NoSlot = NoSlot
  Requests = {"rm", "rn", "rc"}
  TargetFor <- RouterTarget
  FirstLive = {}
  MaxPasses = 16
  Fragile = {}
  Reconciled = {}
  Strict = {}
  Up = {"router"}
CHECK_DEADLOCK FALSE
PROPERTIES EveryReadinessEnds
