SPECIFICATION Spec
CONSTANTS
  Clients = {c1, c2}
  Listeners = {"la", "lb"}
  ArgLists <- MCArgLists
  MaxFaults = 1
INVARIANTS ServerSafe
PROPERTIES ClientsServed ServerSettles
CHECK_DEADLOCK FALSE
