CONSTANTS
  none = none
  one = one
  two = two
  bad = bad
  off = off
  local = local
  exposed = exposed
  tok = tok
  notok = notok
  r1 = r1
  r2 = r2
  Watcher = Watcher
  Nobody = Nobody
  FirstDoc <- FirstLocal
  HandDocs <- FewEdits
  Requests = {r1, r2}
  Payloads = {none, one}
  NoRoutes = none
  BadPayloads = {}
  UIRoutePayloads = {}
  UIs = {off, local, exposed}
  UIOff = off
  UIExposed = exposed
  Token = tok
  NoToken = notok
  Broken = Broken
  EnvToken = FALSE
  EditsDuringStart = TRUE
  EditsInPlace = TRUE
  ReloadsFail = TRUE
  MaxEdits = 1
SYMMETRY RequestSymmetry
SPECIFICATION Spec
INVARIANTS TypeOK LiveIsApplied
PROPERTIES NeverGoesBack SavesAreLoadable ConfigSpec
