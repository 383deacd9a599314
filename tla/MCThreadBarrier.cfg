SPECIFICATION MCSpec
CONSTANTS
  Threads = {t1, t2, t3}
  GenMod = 3
  MaxCrossings = 5
INVARIANTS NoLostWakeup Lockstep
PROPERTIES ImplementsRendezvous EveryoneReleased UnblockFreesAll
