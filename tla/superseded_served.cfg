SPECIFICATION Spec
CONSTANTS
  Docs = {d1, d2, d3}
  NoDoc = NoDoc
  Slots = {slot}
  NoSlot = NoSlot
  Slot <- OneSlot
  NamedSlots = {slot}
  LiveAtStart = {d1}
  Actions = {"new_version"}
  Requesters = {r1,r2}
  Workers = {w1}
  Reviewers = {}
  Reconcilers = {}
  MaxAttempts = 1
  MaxEvents = 2
  MaxFaults = 0
  SlowHolders = FALSE
  MaxReviews = 0
INVARIANTS SupersededNotServed
CONSTANTS d1 = d1 d2 = d2 d3 = d3 r1 = r1 w1 = w1 r2 = r2 slot = slot
