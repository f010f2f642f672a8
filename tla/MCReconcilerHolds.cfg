\* Holds, cooldown, bounds and override across restarts, edits, missing measurements.
SPECIFICATION Spec
CONSTANTS
  r1 = r1  r2 = r2  r3 = r3
  u1 = u1  u2 = u2  u3 = u3  u4 = u4
  v1 = v1  v2 = v2
  None = None
  a = a  b = b
  Signals = {a, b}
  Specs <- HoldSpecs
  Revs = {r1, r2}
  Uids = {u1}
  RVs = {v1, v2}
  Counts = {4}
  Rates <- Rate2
  Forecasts <- Forecast2
  Stabilization = 2
  Cooldown = 1
  Interval = 1
  WriteWindow = 0
  Events = {"edit", "restart", "telemetry"}
  ScaleDownMinPods = 2
  ScaleDownMaxPercent = 10
  StreakRequired = 2
  MaxStreak = 2
  ReEvalInterval = 1
PROPERTIES ScaleDownWaits UnmeasuredHolds BypassNeedsForecast
