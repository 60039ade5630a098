\* Three hosts and two tokens, and two local ones; two subscriptions of two events.
SPECIFICATION Scenes
CONSTANTS
  h1 = h1
  h2 = h2
  h3 = h3
  a = a
  b = b
  local1 = local1
  local2 = local2
  NoToken = NoToken
  Hosts = {h1, h2, h3}
  TokenOf <- ThreeHosts
  LocalTokens = {local1, local2}
  RequireSeed = FALSE
  RequireActivation = FALSE
  MaxGen = 2
  N = 2
  MaxEvents = 2
  BusCrashes = FALSE
  PipeCloses = TRUE
  Sends = 2
CHECK_DEADLOCK FALSE
INVARIANTS
  BrokerSafe
  ConsumeSafe
PROPERTIES
  TokensStayCurrent
