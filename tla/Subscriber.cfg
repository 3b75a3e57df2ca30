SPECIFICATION FairSpec
CONSTANTS
  Conn = {c1, c2}
  Channel = {x, y}
  Msg = {m1, m2}
  MaxWire = 3
  MaxInbox = 2
INVARIANTS
  TypeOK
  RoutesAreRecorded
  RecordsAreRouted
  NoIdleChannel
  RedisFollows
PROPERTIES
  ImplementsPubSub
  ListenedIsForwarded
  ForwardedIsWritten
CHECK_DEADLOCK FALSE
