CONSTANTS
  t1 = t1  t2 = t2
  Emails = {1}
  InApps = {2}
  Ticks = {t1, t2}
  Limit = 1
  MaxAttempts = 2
  MaxCrashes = 1
SPECIFICATION FairSpec
INVARIANTS Accounted RetriesEnd NeverTwiceAtOnce
PROPERTIES OwedIsKept EveryNoticeSettles
CHECK_DEADLOCK FALSE
