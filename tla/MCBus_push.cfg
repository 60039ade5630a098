\* One slow consumer, two concurrent callbacks, a buffer of two; a host and
\* a consumer that meet a bus without a required seed.
SPECIFICATION Scenes
CONSTANTS
  c1 = c1
  s1 = s1
  s2 = s2
  im = im
  sub = sub
  h = h
  p = p
  a = a
  NoToken = NoToken
  Free = Free
  Conns <- OneConn
  Types = {im}
  Wants <- WantsAll
  Subs = {}
  SubOf <- SameSub
  Callbacks = {s1, s2}
  Run = Run
  Rpc = Rpc
  NoOne = NoOne
  Who = c1
  Buf = 2
  MaxEvents = 3
SYMMETRY CallbackSymmetry
CHECK_DEADLOCK FALSE
INVARIANTS
  TypeOK
  NoSendOnClosed
  RetryHasRoom
  EveryEventCounted
  ReceivedMeansKept
  MixedBusIsSafe
PROPERTIES
  FeedIsLossyFifo
