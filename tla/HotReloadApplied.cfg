CONSTANTS
  none = none
  one = one
  two = two
  bad = bad
  off = off
  local = local
  exposed = exposed
  tok = tok
  notok = notok
  r1 = r1
  r2 = r2
  Watcher = Watcher
  Nobody = Nobody
  FirstDoc <- FirstLocal
  HandDocs <- SomeEdits
  Requests = {r1}
  Payloads = {none, one, two, bad}
  NoRoutes = none
  BadPayloads = {bad}
  UIRoutePayloads = {two}
  UIs = {off, local, exposed}
  UIOff = off
  UIExposed = exposed
  Token = tok
  NoToken = notok
  Broken = Broken
  EnvToken = FALSE
  EditsDuringStart = FALSE
  EditsInPlace = TRUE
  ReloadsFail = FALSE
  MaxEdits = 2
SPECIFICATION FairSpec
INVARIANTS NothingForgotten
 
