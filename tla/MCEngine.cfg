\* The statistical forecast engine, one component per behaviour.
SPECIFICATION EngineSpec
CONSTANTS
  None = None
  e1 = e1  payload = payload  c1 = c1  s1 = s1
  statistical = statistical  naive = naive
  caller1 = caller1  caller2 = caller2  name1 = name1  name2 = name2
  Epochs = {e1}
  Keys <- TwoKeys
  Bundles <- Callers
  Models <- Names
  Payloads = {payload}
  Clients = {c1}
  Retention = 1
  MaxTime = 4
SYMMETRY Symmetry
CHECK_DEADLOCK FALSE
INVARIANTS JournalExact WindowsExact CalibrationExact RequestsExact AdmissionExact ForecastsFromObserved
PROPERTIES AnswersWriteOnce TrustWaits ServedInTurn
