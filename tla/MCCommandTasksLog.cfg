SPECIFICATION Spec
CONSTANTS
  TaskCount = 2
  MaxRunning = 1
  MaxRetained = 1
  Readers = {}
  StopSources = {}
PROPERTY NoticeIsReadable
