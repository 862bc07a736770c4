---------------------------- MODULE ConnTracker ----------------------------
(***************************************************************************)
(* The connection records of vpnproxy.c (conn_data_t) and the two batches *)
(* new_conns / conns_updates that carry them to the host.                  *)
(*                                                                         *)
(* The NAT library (zdtun) is the environment: it creates a connection on *)
(* a tun packet (handle_new_connection), accounts every forwarded or      *)
(* received packet (account_packet) and signals the end of a connection   *)
(* (destroy_connection).  The packet loop periodically hands both batches *)
(* to the host (sendConnectionsDump) and, when stopped, tears everything  *)
(* down.  A record is live from its calloc until free_connection_data;     *)
(* zdtun keeps a pointer to it (the connection user data) for as long as  *)
(* the connection is open.                                                 *)
(*                                                                         *)
(* The host side is reduced to what ConnectionsRegister keeps: the        *)
(* incr_ids it has been given as new connections, its view of every       *)
(* connection, and updates it could not match to a known connection.      *)
(***************************************************************************)
EXTENDS Naturals, Sequences, FiniteSets

CONSTANTS
  Conns,          \* connections zdtun may open (one 5-tuple instance each)
  Ignored,        \* tuples shouldIgnoreConn rejects: vpn_dns, port # 53
  TcpConns,       \* connections whose ipproto is TCP
  Socks5Enabled,  \* proxy->socks5.enabled
  MaxPkts,        \* bound on the packets accounted per connection
  MaxDpiPackets,  \* MAX_DPI_PACKETS
  MaxDrops,       \* bound on num_dropped_connections
  PacketStatus,   \* what zdtun_conn_get_status may return in account_packet
  CloseStatus,    \* what it returns in the close callback
  DumpMayFail     \* whether a JNI call inside sendConnectionsDump may fail

Status == {"NEW", "CONNECTING", "CONNECTED", "CLOSED", "ERROR"}

\* status >= CONN_STATUS_CLOSED
ClosedStatus == {"CLOSED", "ERROR"}

ASSUME /\ Ignored \subseteq Conns /\ TcpConns \subseteq Conns
       /\ Socks5Enabled \in BOOLEAN /\ DumpMayFail \in BOOLEAN
       /\ MaxPkts \in Nat \ {0} /\ MaxDpiPackets \in Nat \ {0}
       /\ MaxDrops \in Nat
       /\ PacketStatus \subseteq Status /\ CloseStatus \subseteq ClosedStatus
       /\ PacketStatus # {} /\ CloseStatus # {}

VARIABLES
  running,       \* the global flag `running`
  phase,         \* "loop" while run_tun is in its while loop, then "stopped"
  nat,           \* zdtun's view of a connection: "none", "open", "closed"
  rec,           \* conn_data_t of each connection
  newConns,      \* proxy->new_conns (connections, in order)
  connsUpdates,  \* proxy->conns_updates
  incrId,        \* proxy->incr_id
  numDropped,    \* proxy->num_dropped_connections
  newStats,      \* proxy->capture_stats.new_stats
  hostIds,       \* incr_ids the host received as new connections, in order
  hostView,      \* the host's last copy of each connection
  hostOrphans    \* connections the host got an update for before their new

vars == <<running, phase, nat, rec, newConns, connsUpdates, incrId,
          numDropped, newStats, hostIds, hostView, hostOrphans>>

\* a conn_data_t: mem is "none" before calloc, "live", then "freed";
\* dpi is ndpi_flow # NULL; proxied is zdtun_conn_proxy having been called.
Record == [mem : {"none", "live", "freed"}, status : Status,
           pending : BOOLEAN, incr_id : Nat, pkts : 0..MaxPkts,
           dpi : BOOLEAN, proxied : BOOLEAN]

NoRecord == [mem |-> "none", status |-> "NEW", pending |-> FALSE,
             incr_id |-> 0, pkts |-> 0, dpi |-> FALSE, proxied |-> FALSE]

\* the host's copy; known is FALSE until the connection is first delivered,
\* finals counts deliveries with a closed status
HostCopy == [known : BOOLEAN, status : Status, pkts : 0..MaxPkts, finals : 0..2]

Unknown == [known |-> FALSE, status |-> "NEW", pkts |-> 0, finals |-> 0]

Queued == newConns \o connsUpdates

QueuedSet == {Queued[i] : i \in DOMAIN Queued}

Occurrences(c) == Cardinality({i \in DOMAIN Queued : Queued[i] = c})

shouldIgnoreConn(c) == c \in Ignored

-----------------------------------------------------------------------------
(* Record transformers, one per callback of the core.                     *)

\* mutant: data->pending_notification = true forgotten
handle_new_connection_nopending(c, dpiOk) ==
  [NoRecord EXCEPT !.mem = "live", !.dpi = dpiOk,
                   !.incr_id = IF shouldIgnoreConn(c) THEN 0 ELSE incrId]

\* handle_new_connection after the DNS gate allowed it: calloc, the three
\* nDPI allocations (any failing leaves ndpi_flow NULL), incr_id and
\* new_conns only for connections that are not ignored.
handle_new_connection(c, dpiOk) ==
  [NoRecord EXCEPT !.mem = "live", !.dpi = dpiOk,
                   !.pending = ~shouldIgnoreConn(c),
                   !.incr_id = IF shouldIgnoreConn(c) THEN 0 ELSE incrId]

\* check_socks5_redirection: proxy a TCP connection before its first packet.
check_socks5_redirection(c, r) ==
  IF Socks5Enabled /\ ~shouldIgnoreConn(c) /\ c \in TcpConns /\ r.pkts = 0
  THEN [r EXCEPT !.proxied = TRUE] ELSE r

\* account_packet on the record: counters, status, process_ndpi_packet
\* (give up at MAX_DPI_PACKETS or once the protocol is detected), and the
\* pending_notification flag for connections that are not ignored.
account_packet(c, r, st, detected) ==
  LET n == r.pkts + 1
  IN [r EXCEPT !.pkts = n, !.status = st,
               !.dpi = r.dpi /\ n < MaxDpiPackets /\ ~detected,
               !.pending = r.pending \/ ~shouldIgnoreConn(c)]

\* mutant: the pending_notification check dropped
QueuesUpdate_always(c, r) == ~shouldIgnoreConn(c)

\* whether account_packet appends the connection to conns_updates
QueuesUpdate(c, r) == ~shouldIgnoreConn(c) /\ ~r.pending

\* destroy_connection: end_ndpi_detection, final status, last notification
destroy_connection(c, r, st) ==
  [r EXCEPT !.dpi = FALSE, !.status = st,
            !.pending = r.pending \/ ~shouldIgnoreConn(c)]

\* mutant: frees every listed record, closed or not
conns_clear_all(r, listed, free_all) ==
  [c \in Conns |-> IF c \in listed THEN [r[c] EXCEPT !.mem = "freed"] ELSE r[c]]

\* mutant: free_connection_data never called
conns_clear_nofree(r, listed, free_all) == r

\* conns_clear: free the records of the listed connections that are closed
\* (or all of them), then empty the array.
conns_clear(r, listed, free_all) ==
  [c \in Conns |-> IF c \in listed /\ (r[c].status \in ClosedStatus \/ free_all)
                   THEN [r[c] EXCEPT !.mem = "freed"] ELSE r[c]]

\* mutant: proxy->incr_id++ outside the shouldIgnoreConn test
NextIncrId_all(c) == incrId + 1

\* incr_id after handle_new_connection: only reported connections take one
NextIncrId(c) == IF shouldIgnoreConn(c) THEN incrId ELSE incrId + 1

-----------------------------------------------------------------------------
Init ==
  /\ running = TRUE
  /\ phase = "loop"
  /\ nat = [c \in Conns |-> "none"]
  /\ rec = [c \in Conns |-> NoRecord]
  /\ newConns = <<>>
  /\ connsUpdates = <<>>
  /\ incrId = 0
  /\ numDropped = 0
  /\ newStats = FALSE
  /\ hostIds = <<>>
  /\ hostView = [c \in Conns |-> Unknown]
  /\ hostOrphans = {}

HostUnchanged == UNCHANGED <<hostIds, hostView, hostOrphans>>

(* A packet read from tun for a connection zdtun does not know yet, that   *)
(* is not an established TCP segment and passes the DNS gate: zdtun_lookup *)
(* creates it.  calloc(conn_data_t) may fail: the connection is rejected   *)
(* and counted as dropped.                                                 *)
NewConnRejected(c) ==
  /\ running /\ nat[c] = "none" /\ numDropped < MaxDrops
  /\ numDropped' = numDropped + 1
  /\ UNCHANGED <<running, phase, nat, rec, newConns, connsUpdates, incrId,
                 newStats>>
  /\ HostUnchanged

(* Otherwise the new record is installed, SOCKS5 redirection is decided, *)
(* and zdtun_forward either accounts the packet or fails, in which case   *)
(* the loop counts a drop and destroys the connection.                    *)
TunPacket(c) ==
  /\ running /\ nat[c] \in {"none", "open"} /\ rec[c].pkts < MaxPkts
  /\ \E dpiOk \in BOOLEAN, st \in PacketStatus, detected \in BOOLEAN,
        closeSt \in CloseStatus, fwdOk \in BOOLEAN :
       LET created == nat[c] = "none"
           r0 == IF created THEN handle_new_connection(c, dpiOk) ELSE rec[c]
           nc == IF created /\ ~shouldIgnoreConn(c)
                 THEN Append(newConns, c) ELSE newConns
           r1 == check_socks5_redirection(c, r0)
       IN /\ incrId' = IF created THEN NextIncrId(c) ELSE incrId
          /\ newConns' = nc
          /\ \/ /\ fwdOk
                /\ rec' = [rec EXCEPT ![c] = account_packet(c, r1, st, detected)]
                /\ connsUpdates' = IF QueuesUpdate(c, r1)
                                   THEN Append(connsUpdates, c) ELSE connsUpdates
                /\ newStats' = (newStats \/ ~shouldIgnoreConn(c))
                /\ nat' = [nat EXCEPT ![c] = "open"]
                /\ UNCHANGED numDropped
             \/ /\ ~fwdOk /\ numDropped < MaxDrops
                /\ rec' = [rec EXCEPT ![c] = destroy_connection(c, r1, closeSt)]
                /\ connsUpdates' = IF QueuesUpdate(c, r1)
                                   THEN Append(connsUpdates, c) ELSE connsUpdates
                /\ nat' = [nat EXCEPT ![c] = "closed"]
                /\ numDropped' = numDropped + 1
                /\ UNCHANGED newStats
  /\ UNCHANGED <<running, phase>>
  /\ HostUnchanged


(* zdtun_handle_fd received a reply for an open connection: account_packet *)
(* with from_tun = 0, then net2tun writes it to tun; EIO or another write  *)
(* error clears `running`, ENOBUFS is only logged.                         *)
NetPacket(c) ==
  /\ running /\ nat[c] = "open" /\ rec[c].pkts < MaxPkts
  /\ \E st \in PacketStatus, detected \in BOOLEAN, writeFails \in BOOLEAN :
       /\ rec' = [rec EXCEPT ![c] = account_packet(c, rec[c], st, detected)]
       /\ connsUpdates' = IF QueuesUpdate(c, rec[c])
                          THEN Append(connsUpdates, c) ELSE connsUpdates
       /\ newStats' = (newStats \/ ~shouldIgnoreConn(c))
       /\ running' = ~writeFails
  /\ UNCHANGED <<phase, nat, newConns, incrId, numDropped>>
  /\ HostUnchanged

(* zdtun closes an open connection (socket error or EOF in zdtun_handle_fd, *)
(* or idle expiry in zdtun_purge_expired) and calls destroy_connection.    *)
CloseConnection(c) ==
  /\ running /\ nat[c] = "open"
  /\ \E st \in CloseStatus :
       rec' = [rec EXCEPT ![c] = destroy_connection(c, rec[c], st)]
  /\ connsUpdates' = IF QueuesUpdate(c, rec[c])
                     THEN Append(connsUpdates, c) ELSE connsUpdates
  /\ nat' = [nat EXCEPT ![c] = "closed"]
  /\ UNCHANGED <<running, phase, newConns, incrId, numDropped, newStats>>
  /\ HostUnchanged

-----------------------------------------------------------------------------
(* sendConnectionsDump.  Each entry's pending_notification is cleared just *)
(* before dumpConnection serialises it; a failing JNI call (NewObjectArray *)
(* when k = 0, the k-th dumpConnection otherwise) jumps to cleanup, so the *)
(* host receives nothing and the entries after the k-th keep their flag.   *)
(* Either way both arrays are cleared and closed records freed.            *)
Copy(c, old) ==
  [known |-> TRUE, status |-> rec[c].status, pkts |-> rec[c].pkts,
   finals |-> IF rec[c].status \in ClosedStatus THEN old.finals + Occurrences(c)
              ELSE old.finals]

\* the host receives both arrays: ConnectionsRegister adds the new ones,
\* then applies the updates to connections it knows
Deliver ==
  /\ hostIds' = hostIds \o [i \in 1..Len(newConns) |-> rec[newConns[i]].incr_id]
  /\ hostView' = [c \in Conns |-> IF c \in QueuedSet THEN Copy(c, hostView[c])
                                  ELSE hostView[c]]
  /\ hostOrphans' = hostOrphans \cup
        {connsUpdates[i] : i \in {j \in DOMAIN connsUpdates :
            ~hostView[connsUpdates[j]].known
            /\ \A k \in DOMAIN newConns : newConns[k] # connsUpdates[j]}}

\* the records after clearing pending_notification of the first k entries
\* and running conns_clear on both arrays
DumpCleanup(k) ==
  LET cleared == {Queued[i] : i \in 1..k}
      r1 == [c \in Conns |-> IF c \in cleared
                             THEN [rec[c] EXCEPT !.pending = FALSE] ELSE rec[c]]
  IN conns_clear(r1, QueuedSet, FALSE)

sendConnectionsDump ==
  /\ running /\ Queued # <<>>
  /\ \/ /\ rec' = DumpCleanup(Len(Queued))
        /\ Deliver
     \/ /\ DumpMayFail
        /\ \E k \in 0..Len(Queued) : rec' = DumpCleanup(k)
        /\ HostUnchanged
  /\ newConns' = <<>>
  /\ connsUpdates' = <<>>
  /\ UNCHANGED <<running, phase, nat, incrId, numDropped, newStats>>

-----------------------------------------------------------------------------
(* stopPacketLoop, called from the host thread *)
stopPacketLoop ==
  /\ running
  /\ running' = FALSE
  /\ UNCHANGED <<phase, nat, rec, newConns, connsUpdates, incrId,
                 numDropped, newStats>>
  /\ HostUnchanged

(* The loop sees running = false and leaves: ztdun_finalize closes every  *)
(* open connection through destroy_connection, then both arrays are       *)
(* cleared with free_all.  Nothing more is sent to the host.              *)
Teardown ==
  /\ ~running /\ phase = "loop"
  /\ \E st \in CloseStatus :
       LET open == {c \in Conns : nat[c] = "open"}
           finals == {c \in open : QueuesUpdate(c, rec[c])}
           r1 == [c \in Conns |-> IF c \in open
                                  THEN destroy_connection(c, rec[c], st)
                                  ELSE rec[c]]
       IN rec' = conns_clear(r1, QueuedSet \cup finals, TRUE)
  /\ nat' = [c \in Conns |-> IF nat[c] = "open" THEN "closed" ELSE nat[c]]
  /\ newConns' = <<>>
  /\ connsUpdates' = <<>>
  /\ phase' = "stopped"
  /\ UNCHANGED <<running, incrId, numDropped, newStats>>
  /\ HostUnchanged

\* run_tun has returned
Terminated == phase = "stopped" /\ UNCHANGED vars

Next ==
  \/ \E c \in Conns : NewConnRejected(c) \/ TunPacket(c) \/ NetPacket(c)
                      \/ CloseConnection(c)
  \/ sendConnectionsDump
  \/ stopPacketLoop
  \/ Teardown
  \/ Terminated

(* Safety only: the properties below hold in every behaviour, and no      *)
(* fairness is assumed of the connections dump, which the housekeeping    *)
(* chain may starve (module Housekeeping, run hk_starve).                 *)
Spec == Init /\ [][Next]_vars

-----------------------------------------------------------------------------
(* Properties *)

TypeOK ==
  /\ running \in BOOLEAN /\ phase \in {"loop", "stopped"}
  /\ nat \in [Conns -> {"none", "open", "closed"}]
  /\ rec \in [Conns -> Record]
  /\ newConns \in Seq(Conns) /\ connsUpdates \in Seq(Conns)
  /\ incrId \in Nat /\ numDropped \in 0..MaxDrops /\ newStats \in BOOLEAN
  /\ hostIds \in Seq(Nat)
  /\ hostView \in [Conns -> HostCopy]
  /\ hostOrphans \subseteq Conns

(* pending_notification is set exactly when the record sits in one of the *)
(* two arrays, and then in exactly one entry of them (spec, section 3):   *)
(* account_packet and destroy_connection rely on the flag to decide       *)
(* whether to append, and sendConnectionsDump clears it per entry.        *)
PendingIffQueued ==
  \A c \in Conns : rec[c].mem = "live" =>
      Occurrences(c) = IF rec[c].pending THEN 1 ELSE 0

(* No record is freed while zdtun can still call back with it or while an *)
(* array still points at it: conns_clear frees on the status that         *)
(* account_packet copied from zdtun, not on the close callback.           *)
NoUseAfterFree ==
  \A c \in Conns : (nat[c] = "open" \/ c \in QueuedSet) => rec[c].mem = "live"

(* The host receives new connections with incr_ids 0, 1, 2, ... without a *)
(* gap, in order: handle_new_connection's comment says                    *)
(* ConnectionsRegister::connectionsUpdates does not allow gaps.           *)
HostIdsDense == hostIds = [i \in 1..Len(hostIds) |-> i - 1]

(* When run_tun returns, every record of a reported connection has been   *)
(* freed, by a dump or by the teardown's conns_clear(..., true).          *)
ReportedFreedAtStop ==
  phase = "stopped" => \A c \in Conns \ Ignored : rec[c].mem # "live"


-----------------------------------------------------------------------------
(* Refinement: what ConnectionsRegister has been told, seen through the   *)
(* abstract register of ConnReporting.  A connection the host got an      *)
(* update for before its announcement, or got as final twice, has no      *)
(* abstract counterpart.                                                  *)
AbsView(c) ==
  CASE c \in hostOrphans         -> "orphan"
    [] ~hostView[c].known        -> "unknown"
    [] hostView[c].finals = 0    -> "open"
    [] hostView[c].finals = 1    -> "final"
    [] OTHER                     -> "repeated"

Abs == INSTANCE ConnReporting WITH
         Reported <- Conns \ Ignored,
         view     <- [c \in Conns \ Ignored |-> AbsView(c)],
         ids      <- hostIds,
         closed   <- {c \in Conns \ Ignored : nat[c] = "closed"},
         stopped  <- phase = "stopped"

(* The core implements the reporting promise: every step of the packet   *)
(* loop and of the host is a step of the abstract register or leaves it  *)
(* unchanged: ids are announced once, densely and in order, and a        *)
(* connection is made final once, after it closed, while the capture runs.*)
ImplementsConnReporting == Abs!Spec

=============================================================================
