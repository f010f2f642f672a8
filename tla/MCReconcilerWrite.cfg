\* The write path under edits, other writers, replaced targets, lagging caches.
SPECIFICATION Spec
CONSTANTS
  r1 = r1  r2 = r2  r3 = r3
  u1 = u1  u2 = u2  u3 = u3  u4 = u4
  v1 = v1  v2 = v2
  None = None
  a = a  b = b
  Signals = {a, b}
  Specs <- WriteSpecs
  Revs = {r1, r2, r3}
  Uids = {u1, u2}
  RVs = {v1, v2}
  Counts = {1, 3}
  Rates <- Rate1
  Forecasts <- NoForecasts
  Stabilization = 0
  Cooldown = 0
  Interval = 1
  WriteWindow = 1
  Events = {"edit", "rescale", "replace", "read", "lostReply", "publish", "delete", "conflict"}
  ScaleDownMinPods = 1
  ScaleDownMaxPercent = 10
  StreakRequired = 2
  MaxStreak = 2
  ReEvalInterval = 2
PROPERTIES WriteFromDecision SupersededSpecStops
