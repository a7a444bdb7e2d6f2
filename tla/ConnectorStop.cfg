CONSTANTS
  main = main
  r1 = r1
  r2 = r2
  t1 = t1
  t2 = t2
  Main = main
  Requests = {}
  Tokens = {t1}
  FirstToken = t1
  MaxCrashRetry = 5
  MaxStarts = 3
  MaxCrashes = 0
  MaxEdits = 0
  MaxLaunchErrors = 0
SPECIFICATION FairSpec
PROPERTIES StopFinishes
