SPECIFICATION Spec
CONSTANTS
  Addresses = 2
  Messages = 3
  FirstLength = 2
  Length = 3
  Chunk = 4
  MaxRecv = 8
  Resolver = TRUE
  Schemes = {"tcp", "ssl", "unix"}
  ProxySchemes = {"NULL", "tcp", "http"}
  ProxyAddresses = 1
  LateReset = FALSE
INVARIANTS TransportSafe GotInOrder
PROPERTIES ConnectSettles WrittenIsRead
CHECK_DEADLOCK FALSE
