\* One fault anywhere, in a process or at the release source; two releases, two
\* policy changes, and two attempts at an update.
CONSTANTS
  MaxUpdates = 2
  MaxFaults = 1
  MaxReleases = 2
  MaxActions = 1
  MaxChanges = 2
SPECIFICATION ManagerFairSpec
INVARIANTS OpensWhole WayBack OneWorker PolicyStands
PROPERTIES ConfirmedStays UpdatesAtomically SettlesWithKey AutomaticInstalls
CHECK_DEADLOCK FALSE
