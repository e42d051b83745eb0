SPECIFICATION Spec
CONSTANTS
  Identifiers <- MCIdentifiers
  ConnectionTypes <- MCConnectionTypes
  Values <- MCValues
  Sizes <- MCSizes
  Addresses <- MCAddresses
  NoRequest = NoRequest
INVARIANTS
  TypeOK
  AnswersCanBeParsed
  OneTunnelAddress
  FeatureAnswerIsCurrent
