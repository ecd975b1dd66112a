SPECIFICATION FairSpec
CONSTANTS
  a = a
  b = b
  f = f
  x = x
  y = y
  Node = {a, b}
  File = {f}
  Chunk = {x, y}
  Chunks <- TwoChunks
  Shared <- FromB
  Wanted <- ByA
  Searcher = {a, b}
  Reachable <- EachOther
  NoPeer = NoPeer
  NoMetadata = NoMetadata
INVARIANTS TypeOK ReplyExpected AnnouncedIsHeld CompleteIsWhole MatchCanBeFetched
PROPERTIES ImplementsSharing DownloadEnds PersistentClientIsServed
CHECK_DEADLOCK FALSE
