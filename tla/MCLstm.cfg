\* The LSTM engine, its training and the replay, one component per behaviour.
SPECIFICATION LstmSpec
CONSTANTS
  None = None  Boot = Boot
  caller1 = caller1  caller2 = caller2  solo = solo  other1 = other1  other2 = other2
  Clients <- Callers
  Trainers = {solo}
  Shas <- Others
  MaxChanges = 1
  MaxArt = 2
  MaxFaults = 1
SYMMETRY Symmetry
CHECK_DEADLOCK FALSE
INVARIANTS PinnedUntilDone AnswersAttested ScoredOnTime ExchangeEnds CacheTransparent TrainingClean BlendEarned SameJournal
PROPERTIES PairsRecorded
