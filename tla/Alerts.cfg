CONSTANTS
  p = p  q = q  o1 = o1  o2 = o2
  Jobs = {1, 2}
  People = {p, q}
  Fit <- Suits
  NearMiss <- Lacks
  Offers = {o1, o2}
  Limit = 2
  PerJob = 1
  PerDay = 1
SPECIFICATION FairSpec
INVARIANTS ToldOnce WithinTheCaps
PROPERTIES EveryVacancyIsSwept
CHECK_DEADLOCK FALSE
