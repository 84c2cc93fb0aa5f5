CONSTANTS
  Arguments <- MCArguments
  TypeArguments <- MCTypeArguments
  StraySizes <- MCStraySizes
  MallocMayFail = FALSE
SPECIFICATION Spec
\* A behaviour is one call of setValue.
CHECK_DEADLOCK FALSE
INVARIANTS
  StringsAreSet
