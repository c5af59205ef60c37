SPECIFICATION FairSpec
CONSTANTS
  Docs = {d1, d2}
  NoDoc = NoDoc
  Slots = {slot}
  NoSlot = NoSlot
  Slot <- OneSlot
  NamedSlots = {slot}
  LiveAtStart = {d1}
  Actions = {"new_version"}
  Requesters = {}
  Workers = {}
  Reviewers = {v1}
  Reconcilers = {c1}
  MaxAttempts = 1
  MaxEvents = 0
  MaxFaults = 1
  SlowHolders = FALSE
  MaxReviews = 1
PROPERTIES DriftRepaired
CONSTANTS d1 = d1 d2 = d2  c1 = c1 v1 = v1 slot = slot
