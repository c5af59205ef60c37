SPECIFICATION FairSpec
CONSTANTS
  Docs = {d1, d2}
  NoDoc = NoDoc
  Slots = {slot}
  NoSlot = NoSlot
  Slot <- OneSlot
  NamedSlots = {slot}
  LiveAtStart = {}
  Actions = {"new_version"}
  Requesters = {r1}
  Workers = {w1}
  Reviewers = {v1}
  Reconcilers = {c1}
  MaxAttempts = 2
  MaxEvents = 1
  MaxFaults = 1
  SlowHolders = FALSE
  MaxReviews = 1
PROPERTIES EventsSettle CopiesConverge
CONSTANTS d1 = d1 d2 = d2 r1 = r1 w1 = w1 c1 = c1 v1 = v1 slot = slot
