SPECIFICATION Spec
CONSTANTS
  Order <- MCOrder
  NoInstance = NoInstance
  InstanceOf <- MCInstanceOf
  Pools = {"gpu", "host"}
  Draw <- MCDraw
  Room <- MCRoom
  Priority <- MCPriority
  Eviction <- MCEviction
  HasModel <- IsRouterModel
  ModelLoadUnload <- IsRouterModel
  SlotSave <- MCSlotSave
  SavesSlots <- MCSlotSave
  SlotIds <- MCSlotIds
  IdleUnload <- MCIdleUnload
  NoThreshold = NoThreshold
  NoSlot = NoSlot
  Snapshots <- MCSnapshots
  Asked <- MCAsked
CHECK_DEADLOCK FALSE
INVARIANTS PlanFits BlockedOnlyIfHopeless VictimsLawful LastResort GateAgrees
PROPERTIES NeverStranded
