SPECIFICATION Spec
CONSTANTS
  Threads = {t1, t2}
  Keys <- MCKeys
  Types <- MCTypes
  Services <- MCServices
  Absent = Absent
  Scopes <- MCScopes
  Uses <- MCUses
  Needs <- MCNeeds
  Free = Free
INVARIANT OwnScopeResolves
PROPERTY ResolutionsEnd
