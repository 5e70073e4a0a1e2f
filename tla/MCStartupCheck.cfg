SPECIFICATION Spec
CONSTANTS
  NONE = NONE
  NoType = NoType
  RejectedFields = {}
  NotIdents = {"get-x"}
  Rank <- MCRank
  Inputs <- MCInputs
  Listings <- MCListings
INVARIANT
  CheckEndsInAVerdict
