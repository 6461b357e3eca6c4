SPECIFICATION RootSpec
CONSTANTS
  none = none
  None = none
  Documents <- MCDocuments
  Environments <- MCEnvironments
  DefaultUrl <- MCDefaultUrl
  SpecialHosts = {"localhost"}
INVARIANTS
  BuiltPartsAreUsable
  DisabledStaysSilent
