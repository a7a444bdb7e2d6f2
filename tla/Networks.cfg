CONSTANTS
  c = c
  d = d
  home = home
  app = app
  Containers = {c, d}
  Nets = {home, app}
  Home = {home}
  Configs <- MCConfigs
  Layouts <- MCLayouts
  SelfKnown = {TRUE, FALSE}
  Nothing = Nothing
  MaxChanges = 1
SPECIFICATION Spec
INVARIANTS TypeOK JoinedIsTrue SyncConnects AcceptedIsReachable NoFalseAlarm ExitLeaves
PROPERTIES GuestSpec LeavingEnds
