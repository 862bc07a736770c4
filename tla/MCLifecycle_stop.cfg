CONSTANTS
  dns1 = dns1
  dns2 = dns2
  NoServer = NoServer
  Servers <- MCServers
  InitialServer = dns1
  MaxRuns = 2
  MaxSets = 1
  MaxRequests = 1

SPECIFICATION Spec

PROPERTY StopHonoured
