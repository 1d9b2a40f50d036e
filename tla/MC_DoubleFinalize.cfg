\* Two admins finalize the same contest concurrently.
CONSTANTS
  c1 = c1
  c2 = c2
  c3 = c3
  a1 = a1
  a2 = a2
  SignalProviders <- MCProviders
  Admins <- MCAdmins
  Metric = "HIGHEST_ROI"
  MinSignals = 1
  PrizePool = 100
  EndTime = 1
  MaxTime = 2
  MaxSignals = 1
  Rois <- MCRois
  Volumes = {1}
  Pnls = {1}
  MaxCalls = 2
SPECIFICATION Spec
INVARIANT FinalizedOnce
