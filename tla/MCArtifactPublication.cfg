SPECIFICATION Spec
CONSTANTS
  p1 = p1
  p2 = p2
  None = None
  Empty = Empty
  Torn = Torn
  Processes = {p1, p2}
  Chunks = {1, 2, 3, 4}
  Title <- MCTitle
  Size <- MCSize
  Rank <- MCRank
  Configs <- MCConfigs
  Sources <- MCSources
  IndexVersions = {"i1"}
  MaxCrashes = 1
INVARIANTS
  ReliedOnStays
  DatasetHasCorpus
  PublishedIsSound
