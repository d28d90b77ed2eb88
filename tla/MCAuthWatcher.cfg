SPECIFICATION Spec
CONSTANTS
  f1 = f1
  k1 = k1
  c1 = c1
  Files = {f1}
  Keys = {k1}
  Channels = {c1}
  FirstFiles = {f1}
  Versions = {"a"}
  Configs <- ThreeConfigs
  FirstConfig <- KeyListed
  Reloaders = {1}
  Starter = 1
  QueueCap = 1
  MaxChanges = 3
INVARIANTS
  LatestIsCurrent
  SettledIsDesired
CHECK_DEADLOCK FALSE
