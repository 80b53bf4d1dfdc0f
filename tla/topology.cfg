CONSTANTS
  Responses <- MCResponses
  VarintBytes = 3
  VarintModulus <- MCVarintModulus
  NumberModulus <- MCNumberModulus
  NameKeys <- MCNameKeys
  TypeKeys <- MCTypeKeys
  EnvironmentKeys <- MCEnvironmentKeys
  GenericLabels <- MCGenericLabels
  BasePrefix <- MCBasePrefix
  Separators <- MCSeparators
  SendsTraffic <- MCSendsTraffic
  SendsTrafficTo <- MCSendsTrafficTo

SPECIFICATION FairSpec

CHECK_DEADLOCK FALSE

INVARIANTS
  TypeOK
  DependenciesTellTheGraph
  CutShortIsRefused

PROPERTIES
  DecodeEnds
