SPECIFICATION FairSpec
CONSTANTS
  Workers = {w1, w2, w3}
  client = client
  MaxPosts = 3
INVARIANTS NoLostWakeup
PROPERTIES ImplementsWorkQueue WorkersServe
