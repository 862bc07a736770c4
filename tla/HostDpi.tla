------------------------------ MODULE HostDpi ------------------------------
(***************************************************************************)
(* The DPI driver of vpnproxy.c and the host-name LRU it feeds, with the   *)
(* info and url strings as buffers of a heap of MaxBufs (strndup returns   *)
(* NULL when it is full).  nDPI is the environment: its results are       *)
(* inputs.  The LRU (ip_lru.c, not in this file) follows spec 4.1: add     *)
(* inserts or refreshes and evicts the least recently used entry beyond   *)
(* the capacity; find returns an owned copy and promotes the entry.       *)
(***************************************************************************)
EXTENDS Naturals, Sequences, SequencesExt

CONSTANTS
  Conns,          \* connections zdtun may open
  Ips,            \* destination / DNS answer addresses
  Names,          \* host names nDPI may report
  Dotted,         \* the names that contain a '.'
  NoName,         \* an empty host_server_name / a miss of ip_lru_find
  NoIp,           \* no usable answer: not A/AAAA, A 0.0.0.0, AAAA not 2000::/3
  Capacity,       \* LRU capacity (128 in the code)
  MaxDpiPackets,  \* MAX_DPI_PACKETS
  MaxBufs,        \* heap buffers available for strings
  AllocMayFail    \* whether calloc of the record or of the nDPI state may fail

ASSUME /\ Dotted \subseteq Names /\ NoName \notin Names /\ NoIp \notin Ips
       /\ Capacity \in Nat \ {0} /\ MaxDpiPackets \in Nat \ {0}
       /\ MaxBufs \in Nat /\ AllocMayFail \in BOOLEAN

\* master protocol after ndpi_detection_giveup and the master = app fallback
Protos == {"UNKNOWN", "DNS", "HTTP", "TLS", "OTHER"}

Bufs == 1..MaxBufs
NULL == 0

VARIABLES
  conn,     \* conn_data_t of each connection
  heap,     \* live string buffers
  lru       \* proxy->ip_to_host: entries, least recently used first

vars == <<conn, heap, lru>>

\* st: "none" before handle_new_connection, "rejected" when it fails,
\* "open", "closed" after destroy_connection, "freed"; dpi is ndpi_flow #
\* NULL; pkts and proto are the packets nDPI has seen and its l7proto while
\* the detection runs (nothing here reads them afterwards, nor the 5-tuple)
Record == [st : {"none", "rejected", "open", "closed", "freed"},
           dpi : BOOLEAN, pkts : 0..MaxDpiPackets, proto : Protos,
           info : Bufs \cup {NULL}, url : Bufs \cup {NULL}]

Entry == [ip : Ips, name : Names]

NoRecord == [st |-> "none", dpi |-> FALSE, pkts |-> 0, proto |-> "UNKNOWN",
             info |-> NULL, url |-> NULL]

\* strndup / strdup: the lowest free buffer, or NULL when none is left
Strndup(h) == IF Bufs \ h = {} THEN NULL ELSE Min(Bufs \ h)

Alloc(h, b) == IF b = NULL THEN h ELSE h \cup {b}

Release(h, b) == h \ {b}

TypeOK == /\ conn \in [Conns -> Record] /\ heap \subseteq Bufs
          /\ lru \in Seq(Entry)

Init == /\ conn = [c \in Conns |-> NoRecord]
        /\ heap = {} /\ lru = <<>>

-----------------------------------------------------------------------------
(* ip_lru_add / ip_lru_find (ip_lru.c; from the specification)             *)

Lookup(ip) == LET hit == {e \in Range(lru) : e.ip = ip}
              IN IF hit = {} THEN NoName ELSE (CHOOSE e \in hit : TRUE).name

WithoutIp(ip) == SelectSeq(lru, LAMBDA e : e.ip # ip)

ip_lru_add(ip, name) ==
  LET kept == WithoutIp(ip) \o <<[ip |-> ip, name |-> name]>>
  IN IF Len(kept) > Capacity THEN Tail(kept) ELSE kept

\* the entry found moves to the most recently used end
ip_lru_find(ip) == WithoutIp(ip) \o <<[ip |-> ip, name |-> Lookup(ip)]>>

-----------------------------------------------------------------------------
(* The DPI driver (vpnproxy.c)                                             *)

AllocOutcomes == IF AllocMayFail THEN BOOLEAN ELSE {TRUE}

\* handle_new_connection after the DNS gate: calloc of the record (failure
\* rejects the connection), the three nDPI allocations (any failure frees
\* the others through free_ndpi, leaving ndpi_flow NULL), and the LRU
\* lookup of the destination, whose hit is an owned copy of the name
handle_new_connection(c) ==
  /\ conn[c].st = "none"
  /\ \E ip \in Ips, dataOk, flowOk, srcOk, dstOk \in AllocOutcomes :
       IF ~dataOk
       THEN /\ conn' = [conn EXCEPT ![c].st = "rejected"]
            /\ UNCHANGED <<heap, lru>>
       ELSE LET name == Lookup(ip)
                info == IF name = NoName THEN NULL ELSE Strndup(heap)
            IN /\ conn' = [conn EXCEPT ![c] = [NoRecord EXCEPT !.st = "open",
                              !.info = info,
                              !.dpi = flowOk /\ srcOk /\ dstOk]]
               /\ heap' = Alloc(heap, info)
               /\ lru' = IF name = NoName THEN lru ELSE ip_lru_find(ip)

\* end_ndpi_detection on a record whose ndpi_flow is set: proto is the
\* master protocol settled on, host the host_server_name (or the TLS SNI),
\* rsp the DNS answer address and url whether nDPI saw an HTTP URL.  A host
\* name replaces info (free, then strndup); HTTP also gets the URL; a DNS
\* name with a '.' and a usable answer goes to the LRU; free_ndpi.
end_ndpi_detection(c, st, proto, host, rsp, url) ==
  LET r == conn[c]
      named == proto \in {"DNS", "HTTP", "TLS"} /\ host # NoName
      h1 == IF named /\ r.info # NULL THEN Release(heap, r.info) ELSE heap
      info == IF named THEN Strndup(h1) ELSE r.info
      h2 == IF named THEN Alloc(h1, info) ELSE h1
      u == IF proto = "HTTP" /\ url THEN Strndup(h2) ELSE r.url
      learn == proto = "DNS" /\ named /\ info # NULL
               /\ host \in Dotted /\ rsp # NoIp
  IN /\ conn' = [conn EXCEPT ![c] = [r EXCEPT !.st = st, !.dpi = FALSE, !.pkts = 0,
                                  !.proto = "UNKNOWN", !.info = info, !.url = u]]
     /\ heap' = IF proto = "HTTP" /\ url THEN Alloc(h2, u) ELSE h2
     /\ lru' = IF learn THEN ip_lru_add(rsp, host) ELSE lru

\* the inputs nDPI may hand to end_ndpi_detection, each only where the
\* code reads it (only a DNS name reaches the LRU; for HTTP and TLS the
\* record keeps no more than whether there is a name); st is the record's
\* state once the calling handler returns
SomeName == CHOOSE n \in Names : TRUE

EndDetection(c, st, proto) ==
  \E host \in CASE proto = "DNS" -> Names \cup {NoName}
               [] proto \in {"HTTP", "TLS"} -> {SomeName, NoName}
               [] OTHER -> {NoName} :
  \E rsp \in IF proto = "DNS" /\ host \in Dotted THEN Ips \cup {NoIp} ELSE {NoIp},
     url \in IF proto = "HTTP" THEN BOOLEAN ELSE {FALSE} :
    end_ndpi_detection(c, st, proto, host, rsp, url)

\* account_packet on a record with ndpi_flow set: the packet counter, then
\* process_ndpi_packet, which ends the detection when MAX_DPI_PACKETS
\* packets have been seen or the protocol is known and nDPI needs no more
\* (an UNKNOWN result is then replaced by ndpi_detection_giveup's guess)
process_ndpi_packet(c) ==
  LET r == conn[c]
      n == r.pkts + 1
  IN /\ r.st = "open" /\ r.dpi
     /\ \E proto \in Protos, extra \in BOOLEAN :
          IF n >= MaxDpiPackets \/ (proto # "UNKNOWN" /\ ~extra)
          THEN \E guess \in IF proto = "UNKNOWN" THEN Protos ELSE {proto} :
                 EndDetection(c, "open", guess)
          ELSE /\ conn' = [conn EXCEPT ![c].pkts = n, ![c].proto = proto]
               /\ UNCHANGED <<heap, lru>>

\* destroy_connection: end_ndpi_detection (which returns at once when
\* ndpi_flow is NULL), then the final status
destroy_connection(c) ==
  LET r == conn[c]
  IN /\ r.st = "open"
     /\ IF r.dpi
        THEN \E guess \in IF r.proto = "UNKNOWN" THEN Protos ELSE {r.proto} :
               EndDetection(c, "closed", guess)
        ELSE /\ conn' = [conn EXCEPT ![c].st = "closed"]
             /\ UNCHANGED <<heap, lru>>

free_connection_data_nourl(c) ==
  LET r == conn[c]
  IN /\ r.st = "closed"
     /\ conn' = [conn EXCEPT ![c] = [NoRecord EXCEPT !.st = "freed"]]
     /\ heap' = Release(heap, r.info)
     /\ UNCHANGED lru

\* free_connection_data from conns_clear: free_ndpi, info and url
free_connection_data(c) ==
  LET r == conn[c]
  IN /\ r.st = "closed"
     /\ conn' = [conn EXCEPT ![c] = [NoRecord EXCEPT !.st = "freed"]]
     /\ heap' = Release(Release(heap, r.info), r.url)
     /\ UNCHANGED lru

\* every connection has been rejected or freed
Done == /\ \A c \in Conns : conn[c].st \in {"rejected", "freed"}
        /\ UNCHANGED vars

Next == \/ \E c \in Conns : \/ handle_new_connection(c)
                             \/ process_ndpi_packet(c)
                             \/ destroy_connection(c)
                             \/ free_connection_data(c)
        \/ Done

Spec == Init /\ [][Next]_vars

-----------------------------------------------------------------------------
(* Properties                                                              *)

\* The strings of the records have one owner each: every info or url of a
\* live record is a live buffer, no buffer is held by two fields or two
\* records, and every live buffer is held (end_ndpi_detection frees the
\* LRU copy or an earlier name before replacing info, free_connection_data
\* frees both strings).
Owners(b) == {<<c, f>> \in Conns \X {"info", "url"} :
                conn[c].st \in {"open", "closed"} /\ conn[c][f] = b}

InfoOwnership == \A b \in Bufs : /\ (b \in heap) = (Owners(b) # {})
                                  /\ Cardinality(Owners(b)) <= 1

====
