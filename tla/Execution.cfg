CONSTANTS
  Requests = {r1, r2}
  ToolIds = {"id"}
  Tools <- MCTools
  IdOf <- MCIdOf
  Needs <- MCNeeds
  ProviderNames = {"provider"}
  Permissions = {"permission"}
  Malformed = malformed
  None = none
  free = free
  guarded = guarded
SPECIFICATION Spec
INVARIANTS
  TypeOK
  NoRunWithoutPermission
  ChecksDisagreeOnlyAfterReplacement
  RecordsAgree
