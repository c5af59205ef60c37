SPECIFICATION ApartSpec
CONSTANTS
  Docs = {d1,d2,d3}
  NoDoc = NoDoc
  Slots = {slot}
  NoSlot = NoSlot
  Slot <- OneApart
  NamedSlots = {slot}
  LiveAtStart = {d1}
  Actions = {"standalone","new_version"}
  Requesters = {r1}
  Workers = {w1}
  Reviewers = {}
  Reconcilers = {}
  MaxAttempts = 2
  MaxEvents = 2
  MaxFaults = 2
  SlowHolders = TRUE
  MaxReviews = 0
SYMMETRY Symmetry
INVARIANT DisagreementsAreCovered
CONSTANTS d1 = d1 d2 = d2 d3 = d3 r1 = r1 w1 = w1 slot = slot
