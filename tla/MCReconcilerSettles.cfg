\* Once left alone, the Deployment settles.
SPECIFICATION FairSpec
CONSTANTS
  r1 = r1  r2 = r2  r3 = r3
  u1 = u1  u2 = u2  u3 = u3  u4 = u4
  v1 = v1  v2 = v2
  None = None
  a = a  b = b
  Signals = {a, b}
  Specs <- SwitchSpecs
  Revs = {r1, r2}
  Uids = {u1}
  RVs = {v1, v2}
  Counts = {1, 4}
  Rates <- Rate1
  Forecasts <- NoForecasts
  Stabilization = 1
  Cooldown = 1
  Interval = 1
  WriteWindow = 0
  Events = {"edit", "rescale", "restart"}
  ScaleDownMinPods = 1
  ScaleDownMaxPercent = 10
  StreakRequired = 2
  MaxStreak = 2
  ReEvalInterval = 1
PROPERTY Settles
