SPECIFICATION MCSpec
CONSTANTS
  r1 = r1  r2 = r2  d1 = d1  d2 = d2  m1 = m1  m2 = m2  u1 = u1
  Everyone = Everyone
  t1 = t1  t2 = t2  t3 = t3  i1 = i1  i2 = i2  i3 = i3  NoTx = NoTx
  Reqs = {r1, r2}
  MaxDay = 6
  Published = {1, 2, 3, 5}
  MaxDeaths = 1
INVARIANTS
  TypesOK InOrderAlone SentIsTrue SentOnceAlone StreaksEarned OpenUnlessLate WritesStand
PROPERTIES
  CatchesUp DecisionStands EveryPublishEnds
CHECK_DEADLOCK FALSE
