CONSTANTS
  b1 = b1
  b2 = b2
  alice = alice
  bob = bob
  BatchIds = {b1, b2}
  NoBatch = NoBatch
  Senders = {alice, bob}
  Genesis = {alice}
  Sender <- MC_Sender
  Nonce <- MC_Nonce
  Calls = {c1}
  Subscribers = {s1}
  QueueCapacity = 1
  StreamCapacity = 1
  MaxTraces = 2
SPECIFICATION FairSpec
INVARIANTS OneJobPerBatch IndexIsHonest AppliedOnce
 
