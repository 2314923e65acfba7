SPECIFICATION FairServerSpec
CONSTANTS
  p1 = p1  p2 = p2  u1 = u1  m1 = m1  m2 = m2  r1 = r1  r2 = r2
  Plugins <- TwoPlugins
  Rules <- OneRule
  Methods <- TwoMethods
  Requests = {r1, r2}
  Deployments <- MixedOrMemory
  Readable = {}
  Writable = {"store"}
  Refusing = {}
  Nobody = Nobody
  Reaper = Reaper
CHECK_DEADLOCK FALSE
PROPERTIES SignalEnds
