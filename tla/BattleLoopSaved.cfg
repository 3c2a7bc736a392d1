SPECIFICATION FairSpec
CONSTANTS
  Server = server
  Client = client
  Second = 1
  Games <- MCSaved
PROPERTY SavesEnd
