\* One VM with or without a startup script, every Orchard and API
\* outcome, one lost status write.  The controller has nothing left to do
\* once the CR is gone, so a final state is not a deadlock.
CONSTANTS
  MaxLost <- MCMaxLost
  MaxRuns <- MCMaxRuns
SPECIFICATION FairSpec
INVARIANTS AvailableMeansProvisioned RerunsNeedLostWrites NoOrphanVM
PROPERTIES CloudInitSettles CloudInitRecordSpec
CHECK_DEADLOCK FALSE
