CONSTANTS
  Threads = {t1, t2}
  Turns = {u1, u2}
  Agents = {a1, a2}
  Runs = {r1, r2}
  Calls = {c1, c2}
  Streams = {q1, q2}
  None = None
  FirstAgent = a1
  ChatBudgets <- MCChatBudgets
SPECIFICATION MCSpec
INVARIANTS
  TurnTakenOnce
  AcceptedIsTaken
PROPERTIES
  RunSettlesOnce
  RunsEnd
CHECK_DEADLOCK FALSE
