\* Six components, one at a time (see MCAccess).
SPECIFICATION MCSpec
CONSTANTS
  Users = {u1}
  Passwords = {p1, p2}
  Requests = {r1, r2}
  SessionTTL = 2
  MaxClock = 3
  MaxTokens = 2
  MaxStarts = 3
  MaxResets = 1
  UserIds = {a, b}
  RequestIds = {q1}
  Departments = {g1, g2}
  Transactions = {t1, t2}
  NoTransaction = NoTransaction
  Levels = {public, confidential}
  NoLevel = NoLevel
  MaxGifts = 1
  Depts = {d1, d2}
  Waves = {1, 2}
  Capacity <- MCCapacity
  Editors = {e1, e2}
  NoEditor = NoEditor
  Units = {d1}
  SharedUnit = SharedUnit
  Sites = {x}
  NoValue = NoValue
  Files = {f1}
  Offices = {o1, o2}
  Movers = {m1, m2}
  MaxMoves = 3
  MaxMoveFaults = 2
  Sources = {s1, s2}
  Handlers = {h1}
  MaxEdits = 1
  MaxEntries = 1
  MaxChats = 1
INVARIANTS
  AccessTypeOK
  ResetEndsSessions
  LogoutIsFinal
  RotatedIsRetired
  AdminRemains
  GrantsAreExplained
  WaveCapacity
  StagesInOrder
  PoliciesAgree
  DenialIsExplained
  RightsNeverAddUp
  ShownAsFiled
  QuietMovesAgree
  HistoryIsReadable
PROPERTIES
  WavesInOrder
\* Sessions and moves of departments may use up their bounds.
CHECK_DEADLOCK FALSE
