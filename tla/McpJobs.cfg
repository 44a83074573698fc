SPECIFICATION JobsSpec
CONSTANTS
  Jobs <- MCJobs
  Stops <- MCStops
  Views <- MCViews
INVARIANTS
  JobsInv
  SummaryAgrees
PROPERTIES
  StopEnds
