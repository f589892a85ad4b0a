CONSTANTS
  Threads = {t1, t2}
  Calls = {c1, c2}
  None = None
  EventBudgets <- MCEventBudgets
  Turns = {u1, u2}
  Submits = {s1, s2, s3}
  NoTurn = NoTurn
  MaxOpens = 2
  TurnBudgets <- MCTurnBudgets
  Chats = {h1, h2}
  Personas = {a1, a2}
  Asks = {q1, q2}
  NoChat = NoChat
  Life = 3
  Skew = 1
  LinkBudgets <- MCLinkBudgets
SPECIFICATION MCSpec
INVARIANTS
  NothingMissed
  DeletingStaysHidden
PROPERTIES
  DeletionResolves
  StoreKeepsTurn
  ConnectionRenews
CHECK_DEADLOCK FALSE
