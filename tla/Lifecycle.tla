------------------------------ MODULE Lifecycle ------------------------------
(***************************************************************************)
(* Successive runs of run_tun on the loop thread against the four JNI     *)
(* entry points the host thread may call at any time: runPacketLoop,      *)
(* stopPacketLoop, askStatsDump and setDnsServer.  The globals they share *)
(* (running, dump_vpn_stats_now, dump_capture_stats_now, new_dns_server)  *)
(* are plain words written by one thread and read by the other.           *)
(*                                                                         *)
(* run_tun is cut at the points where it touches a global:                *)
(*   "prefs"    the configuration getters, getDnsServer among them        *)
(*   "globals"  lines 1046-1048: dumper_socket, send_header, running      *)
(*   "setup"    nDPI, fcntl and zdtun_init, each of which may return;     *)
(*              then the sinks, the DNAT target and new_dns_server = 0    *)
(*   "loop"     iterations; "reloaded" sits between lines 652 and 653 of  *)
(*              check_dns_req_allowed, run on every new connection        *)
(*   "teardown" after the loop, until run_tun returns                     *)
(* What one iteration does to the force flags is reduced to the branch    *)
(* the housekeeping chain takes; the timers that choose it are the        *)
(* Housekeeping module's.  A new connection's fate is DnsPolicy's         *)
(* classification of its first packet.                                    *)
(***************************************************************************)
EXTENDS Naturals, DnsPolicy

CONSTANTS
  Servers,        \* IPv4 DNS servers the host may install
  NoServer,       \* new_dns_server = 0
  InitialServer,  \* the host's DNS server before any setDnsServer
  MaxRuns,        \* bound on runPacketLoop calls
  MaxSets,        \* bound on setDnsServer calls
  MaxRequests     \* bound on num_dns_requests

ASSUME NoServer \notin Servers /\ InitialServer \in Servers

Tasks == {"stats", "dump", "pcap", "purge", "none"}

VARIABLES
  pc,              \* where the loop thread is (see above), or "idle"
  running,         \* the global running
  runs,            \* runPacketLoop calls so far
  dumpVpnNow,      \* dump_vpn_stats_now
  dumpCaptureNow,  \* dump_capture_stats_now
  newDnsServer,    \* new_dns_server
  dnsServer,       \* proxy.dns_server of the current run
  dnatTarget,      \* zdtun's DNAT target in the current run
  lastSet,         \* the DNS server the host set last
  hostSets,        \* setDnsServer calls so far
  stopAsked,       \* whether stopPacketLoop was called during the current run:
                   \* "none", "early" (before line 1048) or "late"
  numDnsRequests,  \* proxy.num_dns_requests
  lastDecision     \* the last connection check_dns_req_allowed decided

vars == <<pc, running, runs, dumpVpnNow, dumpCaptureNow, newDnsServer,
          dnsServer, dnatTarget, lastSet, hostSets, stopAsked,
          numDnsRequests, lastDecision>>

\* the branch the housekeeping chain may take with the force flags as
\* they are: a forced capture dump wins the first branch; a forced purge
\* is taken unless an earlier branch is due
HousekeepingTasks ==
  IF dumpCaptureNow THEN {"stats"}
  ELSE IF dumpVpnNow THEN Tasks \ {"none"} ELSE Tasks

-----------------------------------------------------------------------------
\* the static globals are zero-initialised; no run has read a preference
Init ==
  /\ pc = "idle" /\ running = FALSE /\ runs = 0
  /\ dumpVpnNow = FALSE /\ dumpCaptureNow = FALSE
  /\ newDnsServer = NoServer
  /\ dnsServer = InitialServer /\ dnatTarget = InitialServer
  /\ lastSet = InitialServer /\ hostSets = 0
  /\ stopAsked = "none"
  /\ numDnsRequests = 0 /\ lastDecision = Undecided

(* runPacketLoop: the host starts run_tun on the loop thread.             *)
runPacketLoop ==
  /\ pc = "idle" /\ runs < MaxRuns
  /\ pc' = "prefs" /\ runs' = runs + 1
  /\ UNCHANGED <<running, dumpVpnNow, dumpCaptureNow, newDnsServer,
                 dnsServer, dnatTarget, lastSet, hostSets, stopAsked,
                 numDnsRequests, lastDecision>>

(* The proxy initialiser (lines 1005-1041): getDnsServer returns the      *)
(* host's current server; the request counter starts at 0.                *)
ReadPrefs ==
  /\ pc = "prefs"
  /\ dnsServer' = lastSet /\ numDnsRequests' = 0
  /\ pc' = "globals"
  /\ UNCHANGED <<running, runs, dumpVpnNow, dumpCaptureNow, newDnsServer,
                 dnatTarget, lastSet, hostSets, stopAsked, lastDecision>>

(* Lines 1046-1048: the globals run_tun re-initialises; the force flags   *)
(* are not among them.                                                    *)
InitGlobals ==
  /\ pc = "globals"
  /\ running' = TRUE
  /\ pc' = "setup"
  /\ UNCHANGED <<runs, dumpVpnNow, dumpCaptureNow, newDnsServer, dnsServer,
                 dnatTarget, lastSet, hostSets, stopAsked, numDnsRequests,
                 lastDecision>>

(* init_ndpi, fcntl or zdtun_init fails (lines 1054, 1071-1076, 1080-1083): *)
(* run_tun returns at once, running still set.                            *)
SetupFails ==
  /\ pc = "setup"
  /\ pc' = "idle" /\ stopAsked' = "none"
  /\ UNCHANGED <<running, runs, dumpVpnNow, dumpCaptureNow, newDnsServer,
                 dnsServer, dnatTarget, lastSet, hostSets, numDnsRequests,
                 lastDecision>>

\* mutant: running (re)set once the sinks are open
SetupDone_setsRunning ==
  /\ pc = "setup"
  /\ \E sinkFails \in BOOLEAN : running' = ~sinkFails
  /\ dnatTarget' = dnsServer
  /\ newDnsServer' = NoServer
  /\ pc' = "loop"
  /\ UNCHANGED <<runs, dumpVpnNow, dumpCaptureNow, dnsServer, lastSet,
                 hostSets, stopAsked, numDnsRequests, lastDecision>>

(* The rest of the setup (lines 1086-1119): a failure to open a sink      *)
(* clears running; the DNAT target is set from proxy.dns_server; then     *)
(* new_dns_server is cleared and the loop entered.                        *)
SetupDone ==
  /\ pc = "setup"
  /\ \E sinkFails \in BOOLEAN : running' = (running /\ ~sinkFails)
  /\ dnatTarget' = dnsServer
  /\ newDnsServer' = NoServer
  /\ pc' = "loop"
  /\ UNCHANGED <<runs, dumpVpnNow, dumpCaptureNow, dnsServer, lastSet,
                 hostSets, stopAsked, numDnsRequests, lastDecision>>

(* One iteration that reaches housekeeping: the branch taken clears the   *)
(* force flag it serves.                                                  *)
Iterate ==
  /\ pc = "loop" /\ running
  /\ \E task \in HousekeepingTasks :
       /\ dumpCaptureNow' = (dumpCaptureNow /\ task # "stats")
       /\ dumpVpnNow' = (dumpVpnNow /\ task # "purge")
  /\ UNCHANGED <<pc, running, runs, newDnsServer, dnsServer, dnatTarget,
                 lastSet, hostSets, stopAsked, numDnsRequests, lastDecision>>

(* A new connection finds new_dns_server set and copies it into           *)
(* proxy.dns_server (lines 650-652) ...                                   *)
ReloadDnsServer ==
  /\ pc = "loop" /\ running /\ newDnsServer # NoServer
  /\ dnsServer' = newDnsServer
  /\ pc' = "reloaded"
  /\ UNCHANGED <<running, runs, dumpVpnNow, dumpCaptureNow, newDnsServer,
                 dnatTarget, lastSet, hostSets, stopAsked, numDnsRequests,
                 lastDecision>>

(* ... then clears it and installs the DNAT target (lines 653-657), and   *)
(* classifies the connection (lines 662-721).  Without a reload            *)
(* (new_dns_server read as 0) the classification follows at once.         *)
DecideConnection ==
  /\ \/ pc = "reloaded"
     \/ pc = "loop" /\ running /\ newDnsServer = NoServer
  /\ \E p \in Packets :
       /\ IsCountedQuery(p) => numDnsRequests < MaxRequests
       /\ numDnsRequests' = IF IsCountedQuery(p) THEN numDnsRequests + 1
                            ELSE numDnsRequests
       /\ lastDecision' = [pkt |-> p, allowed |-> gate_allows(p),
                           dnat |-> redirects(p)]
  /\ newDnsServer' = IF pc = "reloaded" THEN NoServer ELSE newDnsServer
  /\ dnatTarget' = IF pc = "reloaded" THEN dnsServer ELSE dnatTarget
  /\ pc' = "loop"
  /\ UNCHANGED <<running, runs, dumpVpnNow, dumpCaptureNow, dnsServer,
                 lastSet, hostSets, stopAsked>>

(* while(running) / if(!running) break: the loop is left.                 *)
ExitLoop ==
  /\ pc = "loop" /\ ~running
  /\ pc' = "teardown"
  /\ UNCHANGED <<running, runs, dumpVpnNow, dumpCaptureNow, newDnsServer,
                 dnsServer, dnatTarget, lastSet, hostSets, stopAsked,
                 numDnsRequests, lastDecision>>

(* Lines 1233-1263: teardown, notifyServiceStatus("stopped"), return.     *)
Teardown ==
  /\ pc = "teardown"
  /\ pc' = "idle" /\ stopAsked' = "none"
  /\ UNCHANGED <<running, runs, dumpVpnNow, dumpCaptureNow, newDnsServer,
                 dnsServer, dnatTarget, lastSet, hostSets, numDnsRequests,
                 lastDecision>>

(* stopPacketLoop (lines 1268-1273), from the host thread at any time.    *)
stopPacketLoop ==
  /\ running' = FALSE
  /\ stopAsked' = CASE pc = "idle"                 -> "none"
                    [] pc \in {"prefs", "globals"}  -> "early"
                    [] OTHER                        -> "late"
  /\ UNCHANGED <<pc, runs, dumpVpnNow, dumpCaptureNow, newDnsServer,
                 dnsServer, dnatTarget, lastSet, hostSets, numDnsRequests,
                 lastDecision>>

(* askStatsDump (lines 1282-1288): both flags, if running.                 *)
askStatsDump ==
  /\ running /\ ~(dumpVpnNow /\ dumpCaptureNow)
  /\ dumpVpnNow' = TRUE /\ dumpCaptureNow' = TRUE
  /\ UNCHANGED <<pc, running, runs, newDnsServer, dnsServer, dnatTarget,
                 lastSet, hostSets, stopAsked, numDnsRequests, lastDecision>>

(* setDnsServer (lines 1295-1303): a parsable address is stored.          *)
setDnsServer ==
  /\ hostSets < MaxSets
  /\ \E s \in Servers : newDnsServer' = s /\ lastSet' = s
  /\ hostSets' = hostSets + 1
  /\ UNCHANGED <<pc, running, runs, dumpVpnNow, dumpCaptureNow, dnsServer,
                 dnatTarget, stopAsked, numDnsRequests, lastDecision>>

\* the last run has returned and the host does nothing more
Done == pc = "idle" /\ runs = MaxRuns /\ UNCHANGED vars

LoopThread ==
  \/ ReadPrefs \/ InitGlobals \/ SetupFails \/ SetupDone \/ Iterate
  \/ ReloadDnsServer \/ DecideConnection \/ ExitLoop \/ Teardown

HostThread ==
  \/ runPacketLoop \/ stopPacketLoop \/ askStatsDump \/ setDnsServer

Next == LoopThread \/ HostThread \/ Done

(* The loop thread always runs on (select times out every 500 ms); the    *)
(* host thread is under no obligation to call anything.                   *)
Spec == Init /\ [][Next]_vars /\ WF_vars(LoopThread)

-----------------------------------------------------------------------------
TypeOK ==
  /\ pc \in {"idle", "prefs", "globals", "setup", "loop", "reloaded",
             "teardown"}
  /\ running \in BOOLEAN /\ runs \in 0..MaxRuns
  /\ dumpVpnNow \in BOOLEAN /\ dumpCaptureNow \in BOOLEAN
  /\ newDnsServer \in Servers \cup {NoServer}
  /\ {dnsServer, dnatTarget, lastSet} \subseteq Servers
  /\ hostSets \in 0..MaxSets /\ stopAsked \in {"none", "early", "late"}
  /\ numDnsRequests \in 0..MaxRequests /\ lastDecision \in Decision

(* A stopPacketLoop made once run_tun has set running ends the run: the   *)
(* loop leaves within one select timeout and run_tun returns.             *)
StopAfterStartHonoured ==
  stopAsked = "late" ~> pc = "idle"

(* Any stopPacketLoop made while a run is in progress ends that run.      *)
StopHonoured ==
  stopAsked # "none" ~> pc = "idle"

(* When a run enters its loop, zdtun's DNAT target is the server the host *)
(* set last, or that server is still waiting in new_dns_server.           *)
DnsServerAtStart ==
  [][pc = "setup" /\ pc' = "loop" =>
       dnatTarget' = lastSet' \/ newDnsServer' = lastSet']_vars

(* A reload installs the server the host set last: when the connection    *)
(* that found new_dns_server set has been decided, the DNAT target is the  *)
(* host's latest server or that server still waits in new_dns_server.     *)
DnsUpdateNotLost ==
  [][pc = "reloaded" /\ pc' = "loop" =>
       dnatTarget' = lastSet' \/ newDnsServer' = lastSet']_vars

=============================================================================
