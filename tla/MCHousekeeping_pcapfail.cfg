\* Ticks of 100 ms: 300 ms, 1000 ms, 1000 ms, 5000 ms and the 500 ms select.
CONSTANTS
  StatsFreq = 3
  DumpFreq = 10
  PcapDelay = 10
  PurgeTimeout = 50
  SelectTimeout = 5
  Traffic = TRUE
  AskStats = FALSE
  PcapToJava = TRUE
  PcapDumpMayFail = TRUE

SPECIFICATION Spec

PROPERTY PurgeServedOnceQuiet
