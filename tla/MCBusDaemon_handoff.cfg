\* Two hosts with different tokens and two generations; two callbacks, three keys and room
\* for two.
SPECIFICATION Scenes
CONSTANTS
  h1 = h1
  h2 = h2
  a = a
  b = b
  c1 = c1
  c2 = c2
  e1 = e1
  e2 = e2
  e3 = e3
  e4 = e4
  k1 = k1
  k2 = k2
  k3 = k3
  NoToken = NoToken
  Run = Run
  Free = Free
  Hosts = {h1, h2}
  TokenOf <- TwoTokens
  Plain = {}
  LocalTokens = {}
  RequireSeed = TRUE
  RequireActivation = TRUE
  MaxGen = 2
  Callbacks = {c1, c2}
  Events = {e1, e2, e3, e4}
  KeyOf <- SharedKeys
  Capacity = 2
  MaxCalls = 4
  MaxCrashes = 1
SYMMETRY Symmetric
CHECK_DEADLOCK FALSE
INVARIANTS
  NoAddAfterWait
  HandshakesInOrder
  RejectionIsHeard
  DedupSafe
