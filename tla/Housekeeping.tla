---------------------------- MODULE Housekeeping ----------------------------
(***************************************************************************)
(* The timing wheel at the end of every iteration of run_tun's loop       *)
(* (vpnproxy.c, label housekeeping): at most one of four periodic tasks   *)
(* runs per iteration, in priority order                                  *)
(*   stats  - sendVPNStats when new_stats and 300 ms passed, or forced    *)
(*   dump   - sendConnectionsDump every 1000 ms                           *)
(*   pcap   - javaPcapDump when the buffer is not empty and 1000 ms passed *)
(*   purge  - zdtun_purge_expired every 5000 ms, or forced                *)
(* Time is counted in ticks of Tick ms.  Each clock is kept as the time   *)
(* elapsed since the task last ran, capped at its period: the conditions  *)
(* only compare it with the period.  An iteration ends when select        *)
(* returns: on a ready descriptor after 1..SelectTimeout ticks, at the    *)
(* latest on its 500 ms timeout.  The packet it handled, if any, was      *)
(* accounted by account_packet, which sets new_stats and fills the pcap   *)
(* buffer; with Traffic FALSE sockets still become ready (connects,       *)
(* closes) but nothing is accounted.                                      *)
(***************************************************************************)
EXTENDS Naturals

CONSTANTS
  StatsFreq,      \* CAPTURE_STATS_UPDATE_FREQUENCY_MS, in ticks
  DumpFreq,       \* CONNECTION_DUMP_UPDATE_FREQUENCY_MS, in ticks
  PcapDelay,      \* MAX_JAVA_DUMP_DELAY_MS, in ticks
  PurgeTimeout,   \* PERIODIC_PURGE_TIMEOUT_MS, in ticks
  SelectTimeout,  \* the 500 ms select timeout, in ticks
  Traffic,        \* whether packets are accounted at all
  AskStats,       \* whether the host calls askStatsDump at all
  PcapToJava,     \* java_dump.enabled
  PcapDumpMayFail \* whether NewByteArray in javaPcapDump may throw

ASSUME /\ \A k \in {StatsFreq, DumpFreq, PcapDelay, PurgeTimeout, SelectTimeout} :
            k \in Nat \ {0}
       /\ Traffic \in BOOLEAN /\ AskStats \in BOOLEAN /\ PcapToJava \in BOOLEAN
       /\ PcapDumpMayFail \in BOOLEAN

VARIABLES
  newStats,        \* capture_stats.new_stats
  statsSince,      \* now_ms - capture_stats.last_update_ms
  dumpSince,       \* now_ms - last_connections_dump
  pcapSince,       \* now_ms - java_dump.last_dump_ms
  purgeSince,      \* now_ms - (next_purge_ms - PERIODIC_PURGE_TIMEOUT_MS)
  pcapPending,     \* java_dump.buffer_idx > 0
  dumpCaptureNow,  \* dump_capture_stats_now
  dumpVpnNow,      \* dump_vpn_stats_now
  lastTask,        \* the task the last iteration ran, or "none"
  parity           \* flips every iteration, so that an iteration leaving
                   \* the capped clocks as they were is still a step

vars == <<newStats, statsSince, dumpSince, pcapSince, purgeSince,
          pcapPending, dumpCaptureNow, dumpVpnNow, lastTask, parity>>

Tasks == {"stats", "dump", "pcap", "purge", "none"}

Cap(x, k) == IF x < k THEN x ELSE k

\* mutant: a time comparison that holds in every iteration
ConnDumpDue_always(d) == TRUE

\* (now_ms - last_connections_dump) >= CONNECTION_DUMP_UPDATE_FREQUENCY_MS
ConnDumpDue(d) == d >= DumpFreq

(* The task the housekeeping branch picks, given the clocks after the     *)
(* wake-up.  C precedence makes the first condition                       *)
(* (new_stats && delta >= 300) || dump_capture_stats_now.                 *)
HousekeepingTask(ns, s, d, p, u, pend) ==
  CASE (ns /\ s >= StatsFreq) \/ dumpCaptureNow -> "stats"
    [] ConnDumpDue(d)                          -> "dump"
    [] pend /\ p >= PcapDelay                  -> "pcap"
    [] u >= PurgeTimeout \/ dumpVpnNow         -> "purge"
    [] OTHER                                   -> "none"

\* mutant: new_stats cleared by whichever task runs
NewStatsAfter_anyTask(ns, task) == ns /\ task = "none"

\* new_stats after the iteration: only sendVPNStats's branch clears it
NewStatsAfter(ns, task) == ns /\ task # "stats"

(* Whether the pcap branch emptied the buffer: javaPcapDump returns on a  *)
(* NewByteArray exception before it resets buffer_idx and last_dump_ms.   *)
PcapFlushed(task, arrayOk) == task = "pcap" /\ arrayOk

-----------------------------------------------------------------------------
(* Before the loop: last_update_ms and last_dump_ms are 0, so their tasks  *)
(* are due; last_connections_dump is the current second, up to 999 ms     *)
(* before now_ms; next_purge_ms is now_ms + 5000.  run_tun resets neither  *)
(* force flag: one askStatsDump of an earlier run may still be pending,    *)
(* either flag already cleared by that run's loop.                         *)
Init ==
  /\ newStats = FALSE
  /\ statsSince = StatsFreq
  /\ dumpSince \in 0..DumpFreq - 1
  /\ pcapSince = PcapDelay
  /\ purgeSince = 0
  /\ pcapPending = FALSE
  /\ dumpCaptureNow \in BOOLEAN
  /\ dumpVpnNow \in BOOLEAN
  /\ lastTask = "none"
  /\ parity = 0

(* One iteration: select returns after `gap` ticks, the packet handled (if *)
(* acct) is accounted, now_ms advances, and the housekeeping branch runs  *)
(* at most one task and restarts its clock.                                *)
LoopIteration ==
  \E gap \in 1..SelectTimeout,
     acct \in IF Traffic THEN BOOLEAN ELSE {FALSE},
     arrayOk \in IF PcapDumpMayFail THEN BOOLEAN ELSE {TRUE} :
    LET ns   == newStats \/ acct
        pend == pcapPending \/ (acct /\ PcapToJava)
        s == Cap(statsSince + gap, StatsFreq)
        d == Cap(dumpSince + gap, DumpFreq)
        p == Cap(pcapSince + gap, PcapDelay)
        u == Cap(purgeSince + gap, PurgeTimeout)
        task == HousekeepingTask(ns, s, d, p, u, pend)
    IN /\ lastTask' = task
       /\ parity' = 1 - parity
       /\ newStats' = NewStatsAfter(ns, task)
       /\ statsSince' = IF task = "stats" THEN 0 ELSE s
       /\ dumpCaptureNow' = (dumpCaptureNow /\ task # "stats")
       /\ dumpSince' = IF task = "dump" THEN 0 ELSE d
       /\ pcapSince' = IF PcapFlushed(task, arrayOk) THEN 0 ELSE p
       /\ pcapPending' = (pend /\ ~PcapFlushed(task, arrayOk))
       /\ purgeSince' = IF task = "purge" THEN 0 ELSE u
       /\ dumpVpnNow' = (dumpVpnNow /\ task # "purge")

(* askStatsDump, from the host thread, while running *)
askStatsDump ==
  /\ AskStats
  /\ ~(dumpCaptureNow /\ dumpVpnNow)
  /\ dumpCaptureNow' = TRUE
  /\ dumpVpnNow' = TRUE
  /\ UNCHANGED <<newStats, statsSince, dumpSince, pcapSince, purgeSince,
                 pcapPending, lastTask, parity>>

Next == LoopIteration \/ askStatsDump

(* select returns at least every 500 ms, so the loop always iterates; the *)
(* host and the network are not bound to do anything.                     *)
Spec == Init /\ [][Next]_vars /\ WF_vars(LoopIteration)

-----------------------------------------------------------------------------
TypeOK ==
  /\ newStats \in BOOLEAN /\ pcapPending \in BOOLEAN
  /\ statsSince \in 0..StatsFreq /\ dumpSince \in 0..DumpFreq
  /\ pcapSince \in 0..PcapDelay /\ purgeSince \in 0..PurgeTimeout
  /\ dumpCaptureNow \in BOOLEAN /\ dumpVpnNow \in BOOLEAN
  /\ lastTask \in Tasks /\ parity \in {0, 1}

(* New capture statistics reach the host: once account_packet has set     *)
(* new_stats, sendVPNStats eventually runs.                               *)
StatsEventuallySent == newStats ~> lastTask = "stats"

(* The connections dump keeps coming round (spec, 4.7: a hot packet       *)
(* stream cannot starve housekeeping).                                    *)
ConnDumpNotStarved == []<>(lastTask = "dump")

(* Once the capture goes quiet (sendVPNStats is never again chosen, so no  *)
(* packet is accounted any more), idle connections keep being purged:     *)
(* whatever the pcap branch met while flushing what the last packets left *)
(* in the Java buffer, zdtun_purge_expired runs infinitely often.          *)
PurgeServedOnceQuiet ==
  <>[](lastTask # "stats") => []<>(lastTask = "purge")

=============================================================================
