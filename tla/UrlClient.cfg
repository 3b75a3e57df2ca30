SPECIFICATION FairSpec
PROPERTY Reconnects
CHECK_DEADLOCK FALSE
