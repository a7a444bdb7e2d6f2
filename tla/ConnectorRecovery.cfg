CONSTANTS
  main = main
  r1 = r1
  r2 = r2
  t1 = t1
  t2 = t2
  Main = main
  Requests = {r1}
  Tokens = {t1, t2}
  FirstToken = t1
  MaxCrashRetry = 5
  MaxStarts = 4
  MaxCrashes = 1
  MaxEdits = 1
  MaxLaunchErrors = 1
SPECIFICATION FairSpec
PROPERTIES CrashRecovery StopBlocksOnWaitOnly
