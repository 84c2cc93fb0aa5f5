CONSTANTS
  Arguments <- MCArguments
  TypeArguments <- MCTypeArguments
  StraySizes <- MCStraySizes
  MallocMayFail = TRUE
SPECIFICATION Spec
\* A behaviour is one call of setValue.
CHECK_DEADLOCK FALSE
INVARIANTS
  TypeOK
  AcceptedInFull
  FittingNumbersSurvive
  StrayTypesSetNothing
  SuccessLeaksNothing
  OnlyInt32Overruns
