CONSTANTS
  NoHostname = NoHostname
  NoPath = NoPath
  Nothing = Nothing
  a = a
  b = b
  panel = panel
  t1 = t1
  t2 = t2
  s1 = s1
  s2 = s2
  slow = slow
  Configs <- MCConfigs
  Ingresses <- MCIngresses
  Origins <- MCOrigins
  Settings = {s1, s2}
  EditsBetween = TRUE
  EditsDuring = FALSE
  LostResponses = TRUE
  LateWrites = FALSE
SPECIFICATION Spec
INVARIANTS TypeOK
PROPERTIES MirrorSpec
