CONSTANTS
  tcp1 = tcp1
  udp1 = udp1
  probe = probe
  Conns <- MCConns
  Ignored <- MCIgnored
  TcpConns <- MCTcpConns
  Socks5Enabled = TRUE
  MaxPkts = 2
  MaxDpiPackets = 2
  MaxDrops = 1
  PacketStatus = {"CONNECTING", "CONNECTED"}
  CloseStatus = {"CLOSED", "ERROR"}
  DumpMayFail = TRUE

SPECIFICATION Spec

INVARIANT HostIdsDense
