SPECIFICATION Spec
CONSTANTS
  None = None
  Films = {film}
  Series = {series}
  Episodes = {1, 2}
  Channels = {channel}
  Vids = {1, 2, 3}
  Published <- Uploads
  Devices = {tv, page}
  Callers = {c1}
  Posters = {None}
  Runtimes = {6000}
  Reports <- PlayerReports
  Starts = {None, 1800}
  FlushTime = 1
  OpenedCap = 2
  MaxTime = 2
  MaxOps <- OpsOn
  MaxSubjects = 1
  MaxHandlers = 2
  MaxRestarts = 1
SYMMETRY Symmetry
CHECK_DEADLOCK FALSE
INVARIANTS UnsavedIsDirty AckedOnDisk WatchlistKeepsSaved
PROPERTIES DropHolds ResumePointKept OpenedNewest
