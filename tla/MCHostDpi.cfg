CONSTANTS
  c1 = c1  c2 = c2  c3 = c3  ip1 = ip1  ip2 = ip2  ip3 = ip3
  www = www  cdn = cdn  local = local
  NoName = NoName  NoIp = NoIp
  Conns <- MCConns
  Ips <- MCIps
  Names <- MCNames
  Dotted <- MCDotted
  Capacity = 2
  MaxDpiPackets = 2
  MaxBufs = 3
  AllocMayFail = TRUE
SPECIFICATION Spec
INVARIANT InfoOwnership
SYMMETRY MCSymmetry
