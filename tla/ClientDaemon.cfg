SPECIFICATION Spec
CONSTANTS
  r1 = r1  r2 = r2  r3 = r3  e = e  g = g  x = x  o1 = o1  o2 = o2
  Reqs = {r1, r2, r3}
  Users = {u1}
  Root = root
  Entries = {e, g}
  Exits = {x}
  HandNodes = {g}
  PassNodes = {x}
  Operator <- MCOperator
  Passes = {p1, p2}
  PassNode <- MCPassNode
  Signed = {p1}
  Commands <- MCCommands
  Free = Free  NoNode = NoNode  NoPass = NoPass  NoCircuit = NoCircuit  NoBuild = NoBuild
  MaxFaults = 1
INVARIANTS
  ProtectedAsAsked NothingLinked
  NoPassLost NobodyStuck
PROPERTIES
  OwnersCircuitKept
CHECK_DEADLOCK FALSE
