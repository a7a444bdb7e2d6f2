CONSTANTS
  a = a
  b = b
  t1 = t1
  t2 = t2
  Hosts = {a, b}
  Zones <- MCZones
  Owns <- MCOwns
  NameLength <- MCNameLength
  Configs <- MCConfigs
  Theirs = {t1, t2}
  FirstClouds <- MCFirstClouds
  OldRule = OldRule
  Nothing = Nothing
  LostAnswers = FALSE
  MaxEdits = 0
SPECIFICATION Spec
INVARIANTS RemovedAreCleanedUp
