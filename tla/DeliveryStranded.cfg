SPECIFICATION FairSpec
CONSTANTS
  m1 = m1
  m2 = m2
  m3 = m3
  k1 = k1
  k2 = k2
  t1 = t1
  t2 = t2
  Msgs = {m1, m2, m3}
  Key <- MCKey
  Class <- MCClass
  NoKey = NoKey
  Poke = Poke
  Tasks = {t1, t2}
  HardCap = 2
  MaxAttempts = 2
  MaxRestarts = 1
PROPERTIES NotStranded
CHECK_DEADLOCK FALSE
