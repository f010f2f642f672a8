SPECIFICATION Spec
CONSTANTS
  None = None
  Slack = 1
  MarginPercent = 25
  Specs <- V2Specs
  Observations <- Starts
  Interval = 3
  WriteWindow = 1
  MaxTime = 5
  MaxGen = 2
PROPERTIES UsedOwnInTime LeadNeverShortens NoGap
