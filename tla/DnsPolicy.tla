------------------------------ MODULE DnsPolicy ------------------------------
(***************************************************************************)
(* check_dns_req_allowed's classification of a new connection, as pure    *)
(* operators over the class of its first packet: where it goes (the       *)
(* tun-side DNS vpn_dns, the configured IPv6 DNS, one of the known public *)
(* resolvers, anything else), its transport, its destination port and     *)
(* what its payload holds for the DNS check.  The state the check reads    *)
(* and writes (new_dns_server, the DNAT target, the request counter) is    *)
(* Lifecycle's.                                                            *)
(***************************************************************************)
Dests == {"vpn_dns", "v6_dns", "known_dns", "other"}

\* the payload as the DNS check sees it: shorter than struct dns_packet,
\* or a header whose flags & 0x8000 is or is not 0; line 700 reads the
\* network-order flags without ntohs, so on a little-endian device the bit
\* tested is RA, not QR: the class is the verdict of that test
Payloads == {"short", "query", "response"}

Packets == [dst : Dests, proto : {"UDP", "TCP"}, port : {53, 443, 853},
            payload : Payloads]

Decision == [pkt : Packets, allowed : BOOLEAN, dnat : BOOLEAN]

\* stands for "no connection decided yet"
Undecided == [pkt |-> [dst |-> "other", proto |-> "UDP", port |-> 53,
                       payload |-> "short"],
              allowed |-> TRUE, dnat |-> FALSE]

(* The classification of lines 662-688. *)
is_internal_dns(p) == p.dst = "vpn_dns"

is_dns_server(p) == p.dst \in {"vpn_dns", "v6_dns", "known_dns"}

(* Lines 690-721: anything that is not a DNS server passes; for a DNS     *)
(* server only UDP to port 53 with a full DNS header passes.  A header    *)
(* with the response bit set returns true at line 701 as well, without    *)
(* being counted.                                                         *)
gate_allows(p) ==
  ~is_dns_server(p) \/ (p.proto = "UDP" /\ p.port = 53 /\ p.payload # "short")

\* whether the packet is counted as a DNS request (line 704)
IsCountedQuery(p) ==
  is_dns_server(p) /\ p.proto = "UDP" /\ p.port = 53 /\ p.payload = "query"

\* zdtun_conn_dnat for queries to the tun-side DNS (lines 706-712)
redirects(p) == IsCountedQuery(p) /\ is_internal_dns(p)

=============================================================================
