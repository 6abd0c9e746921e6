SPECIFICATION Spec
CONSTANTS
  NumChunks = 5
  CandidateK = 4
  TopK = 2
  RankConstant = 60
  Weight <- MCWeight
  Paragraph <- MCParagraph
  TypeWord <- MCTypeWord
  MaxPaths = 10
  GenericBridges = {5, 6}
  VagueAnswers = {6}
  SurfaceTypes <- MCSurfaceTypes
  MaxUnits = 3
  RelationWord <- MCRelationWord
  Runs <- MCRuns
  Lexical <- MCLexical
  Dense <- MCDense
  ControlOutputs <- MCControlOutputs
INVARIANTS
  OnlyKnownFailures
  FusionRespectsBranches
  MergeKeepsEveryHit
  PathsAreGrounded
  SufficientMeansBacked
  ContextKeepsEvidence
  SecondHopAsNeeded
CHECK_DEADLOCK FALSE
