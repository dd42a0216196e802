SPECIFICATION FairSpec
CONSTANTS
  client = client
  server = server
  End = {client, server}
  Steady = {client}
  MaxOpen <- ServerOpens
  MaxSent <- Sends
  MayBreak = TRUE
  Window = 2
  FrameCount = 2
  PrioOf <- OnePrio
  NoSid = NoSid
INVARIANTS
  TypeOK
  NoPanic
  ClosedComplete
PROPERTIES
  Ends
CHECK_DEADLOCK FALSE
