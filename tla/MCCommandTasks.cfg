SPECIFICATION Spec
CONSTANTS
  TaskCount = 1
  MaxRunning = 2
  MaxRetained = 1
  Readers = {r1, r2}
  StopSources = {"model", "user", "timeout"}
INVARIANTS TypeOK AtMostOneNotice NoticeIsTrue HeldBack
PROPERTIES ReadIsEnough TerminalIsFinal NoFabricatedEnd WakeDelivered StopAnswered
