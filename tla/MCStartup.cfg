SPECIFICATION Spec
CONSTANTS
  NONE = NONE
  NoType = NoType
  RejectedFields <- RejectedIdents
  NotIdents = {"get-x"}
  Rank <- MCRank
  Inputs <- MCInputs
  Listings <- MCListings
INVARIANTS
  TokensNameOnePrincipal
  CredentialsStayApart
  CallsReachTheNamedTool
  PreludesCompile
  DescriptionIsCanonical
  SignaturesMatchTheSchemas
