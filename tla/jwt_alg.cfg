CONSTANTS
  Materials <- MCMaterials
  Algorithms = {"HS256", "ES256", "EdDSA", "RS256", "PS256"}
  Extras <- MCExtras
  Claims <- MCClaims
  Times <- MCTimes
  MaxChecks = 1
SPECIFICATION JoseSpec
INVARIANT AlgIsAlgorithm
CHECK_DEADLOCK FALSE
