SPECIFICATION Spec
CONSTANTS
  Docs = {d1, d2}
  NoDoc = NoDoc
  Slots = {slot}
  NoSlot = NoSlot
  Slot <- OneSlot
  NamedSlots = {slot}
  LiveAtStart = {}
  Actions = {"new_version","new_variant"}
  Requesters = {r1}
  Workers = {w1}
  Reviewers = {v1}
  Reconcilers = {}
  MaxAttempts = 2
  MaxEvents = 2
  MaxFaults = 1
  SlowHolders = FALSE
  MaxReviews = 1
SYMMETRY Symmetry
INVARIANTS OneHolder VariantLockHolds
PROPERTY ImplementsContract
CONSTANTS d1 = d1 d2 = d2 r1 = r1 w1 = w1 v1 = v1 slot = slot
