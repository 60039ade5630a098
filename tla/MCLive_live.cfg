\* A handshake goes silent while the other host's token is rejected; three messages, twice
\* each, and a set of seen ids that is cleared at two.
SPECIFICATION Scenes
CONSTANTS
  x = x
  y = y
  m1 = m1
  m2 = m2
  m3 = m3
  h1 = h1
  h2 = h2
  a = a
  NoToken = NoToken
  Run = Run
  Free = Free
  Convs = {x, y}
  Messages = {m1, m2, m3}
  ConvOf <- TwoAndOne
  Alone = {m1, m2}
  Limit = 2
  MaxDeliveries = 2
CHECK_DEADLOCK FALSE
INVARIANTS
  TurnsKeepOrder
PROPERTIES
  QueuedAgainAfterOthers
  RejectionIsPublished
