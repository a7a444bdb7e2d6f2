CONSTANTS
  NoHostname = NoHostname
  NoPath = NoPath
  Nothing = Nothing
  a = a
  b = b
  panel = panel
  t1 = t1
  t2 = t2
  s1 = s1
  s2 = s2
  slow = slow
  Configs <- MCConfigs
  Ingresses <- FewIngresses
  Origins <- FewOrigins
  Settings = {s1, s2}
  EditsBetween = TRUE
  EditsDuring = TRUE
  LostResponses = TRUE
  LateWrites = TRUE
SPECIFICATION Spec
INVARIANTS InSync CacheIsTunnel
PROPERTIES NeverPartial
