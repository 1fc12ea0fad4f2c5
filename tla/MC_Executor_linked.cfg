CONSTANTS
  b1 = b1
  b2 = b2
  alice = alice
  bob = bob
  BatchIds = {b1, b2}
  NoBatch = NoBatch
  Senders = {alice, bob}
  Genesis = {alice}
  Sender <- MC_OtherSender
  Nonce <- MC_OtherNonce
  Calls = {c1}
  Subscribers = {s1}
  QueueCapacity = 1
  StreamCapacity = 1
  MaxTraces = 2
SPECIFICATION Spec
INVARIANT TransitionsArePublished
