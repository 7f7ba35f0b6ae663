SPECIFICATION FairSpec
CONSTANTS
  w1 = w1
  w2 = w2
  k1 = k1
  Watchers <- MCWatchers
  Wakers <- MCWakers
INVARIANTS NoLostWakeup
PROPERTIES NoUselessWrite WakeupDelivered
CHECK_DEADLOCK FALSE
