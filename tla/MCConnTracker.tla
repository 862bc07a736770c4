--------------------------- MODULE MCConnTracker ---------------------------
(* Three connections: a TCP one (SOCKS5 applies), a UDP one, and a probe  *)
(* to the tun-side DNS on a port other than 53, which is ignored.         *)
EXTENDS ConnTracker

CONSTANTS tcp1, udp1, probe

MCConns == {tcp1, udp1, probe}
MCIgnored == {probe}
MCTcpConns == {tcp1}
=============================================================================
