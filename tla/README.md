# TLA+ models of the vpnproxy packet core

This directory holds TLC-checkable models of the native capture core,
`src/app/src/main/jni/vpnproxy-jni/vpnproxy.c`. That file is the only source
under `src/`. The NAT library (zdtun), nDPI, the host LRU (`utils`) and the
pcap helpers (`pcap.c`) are not under `src/`. The models treat them as the
environment and call them through their interfaces.

## The system

`run_tun` runs on one thread: the loop thread. It sets up a run and then
iterates a `select` loop that wakes at least every 500 ms. Each iteration does
one of two things:

* It reads one packet from tun and hands it to zdtun (lookup or create, then
  forward).
* It lets zdtun serve its ready sockets.

Either way, the iteration ends in the *housekeeping* branch. That branch runs
at most one of four periodic tasks, in priority order:

1. stats, via `sendVPNStats`;
2. the connections dump, via `sendConnectionsDump`;
3. the pcap flush, via `javaPcapDump`;
4. the purge, via `zdtun_purge_expired`.

zdtun calls back into the core through five callbacks:

| callback | core function | what it does |
|---|---|---|
| `on_connection_open` | `handle_new_connection` | runs the DNS gate, then allocates a `conn_data_t` and queues it in `new_conns` |
| `account_packet` | `account_packet` | counts the packet, refreshes the status, feeds DPI, queues the record in `conns_updates` |
| `on_connection_close` | `destroy_connection` | ends DPI and queues a final update |
| `send_client` | `net2tun` | writes to tun; a write error stops the loop |
| `on_socket_open` | `protectSocketCallback` | calls the host's `protect()` on the socket |

The flag `pending_notification` keeps a record in at most one of the two
batches. `sendConnectionsDump` then does three things:

* It serialises both batches into one JNI call.
* It clears each entry's flag.
* It calls `conns_clear`, which frees every record whose status is `>= CLOSED`.

The host thread (Java) changes the loop's behaviour only through globals:

* `running`, cleared by `stopPacketLoop`;
* `dump_vpn_stats_now` and `dump_capture_stats_now`, set by `askStatsDump`;
* `new_dns_server`, set by `setDnsServer`.

Component names C1..C10 follow `spec.md` section 2.

## Modules

| module | models | source |
|---|---|---|
| `ConnTracker` | C3 connection record, C4 collector, the per-packet path of C8, the dump of C9, stop and teardown of C10, and the host's `ConnectionsRegister` as a history | `handle_new_connection`, `account_packet`, `destroy_connection`, `check_socks5_redirection`, `net2tun`, `conns_add`, `conns_clear`, `sendConnectionsDump`, `dumpConnection`, the tun branch of `run_tun`, the teardown, `stopPacketLoop` |
| `MCConnTracker` | three connections as model values: a TCP one, a UDP one, and an ignored probe to the tun-side DNS on a port other than 53 | |
| `ConnReporting` | the abstract promise to the host: the register of reported connections (unknown, open, final), the incr_ids announced, the closed set | spec 3, 4.8, 8.2-8.4 |
| `Housekeeping` | the timing wheel of the housekeeping branch of C8, `javaPcapDump`'s early return, and `askStatsDump` | `run_tun` lines 1116-1231, `javaPcapDump`, `askStatsDump` |
| `PcapFramer` | C7: the Java pcap buffer and the UDP sink over successive runs | `account_packet` lines 492-517, `javaPcapDump`, `connect_dumper`, the sink parts of `run_tun`'s setup and teardown |
| `Lifecycle` | C10: successive runs of `run_tun` against the host thread's four entry points, and C6 run on every new connection | `run_tun`, `check_dns_req_allowed` lines 647-722, `stopPacketLoop`, `runPacketLoop`, `askStatsDump`, `setDnsServer` |
| `DnsPolicy` | C6's classification of a connection's first packet, as pure operators | `check_dns_req_allowed` lines 662-721 |
| `MCLifecycle` | two resolvers as model values | |
| `HostDpi` | C5 the DPI driver and C1 the host LRU it feeds, with the ownership of the `info` and `url` strings on a bounded heap | `handle_new_connection` lines 561-601, `process_ndpi_packet`, `end_ndpi_detection`, `destroy_connection` lines 620-631, `free_ndpi`, `free_connection_data`; the LRU from spec 4.1 |
| `MCHostDpi` | three connections, three addresses, two dotted names and one without a dot | |

### ConnTracker

**State.** The module has these variables:

* `rec[c]`: the `conn_data_t` of connection `c`. It records:
  * allocation: none, live or freed;
  * status;
  * `pending_notification`;
  * `incr_id`;
  * the packet count;
  * whether the nDPI flow is still held;
  * whether SOCKS5 proxying was requested.
* `nat[c]`: zdtun's own view of the connection: none, open or closed. zdtun
  holds the user-data pointer while the connection is open.
* `newConns` and `connsUpdates`: the two arrays, as sequences.
* `incrId`, `numDropped`, `newStats`: the matching `proxy` fields.
* `running`, and `phase` (in the loop, or stopped).
* `hostIds`, `hostView`, `hostOrphans`: what `ConnectionsRegister` has
  received.

**Actions.** Each action is one whole handler:

* `TunPacket(c)` is one tun packet for `c`. It creates the connection if needed
  (`handle_new_connection`), then calls `check_socks5_redirection`, then
  `zdtun_forward`. Forwarding either accounts the packet or fails. A failure
  leads to `zdtun_destroy_conn`, which calls `destroy_connection`, and the drop
  is counted.
* `NewConnRejected(c)`: `calloc` fails in `handle_new_connection`, and the
  loop counts a drop.
* `NetPacket(c)`: a reply is accounted, and `net2tun` may fail with `running`
  cleared.
* `CloseConnection(c)`: zdtun closes the connection (socket error, EOF or
  purge) and calls `destroy_connection`.
* `sendConnectionsDump`: the success path, or (when `DumpMayFail`) a JNI
  failure after `k` entries have had their flag cleared.
* `stopPacketLoop`: the host clears `running`.
* `Teardown`: `ztdun_finalize` followed by `conns_clear(..., true)` on both
  arrays.
* `Terminated`: `run_tun` has returned.

**DNS gate.** The gate's decision is not part of this module: a connection the
gate blocks never reaches `TunPacket`. `Lifecycle` runs the gate.

**Refinement.** `ConnTracker` defines `Abs == INSTANCE ConnReporting WITH ...`.
The mapping is:

* `view[c]` comes from `hostView[c]`: unknown until the host got `c` as new,
  open until it got a closed status, then final. A connection the host got an
  update for before its announcement, or got as final twice, maps to a value
  outside the abstract type, so the refinement fails on it.
* `ids` is `hostIds`.
* `closed` is the set of reportable connections that zdtun has closed.
* `stopped` is `phase = "stopped"`.

`ImplementsConnReporting == Abs!Spec` is the abstract specification. It is
safety only: the code does not promise that a closed connection is ever made
final, because the housekeeping chain can starve the connections dump
(`hk_starve`). Checking it as a `PROPERTY` shows two things:

* every step of the core is an abstract step or leaves the register unchanged;
* ids are announced densely and each connection is made final at most once,
  after it closed and before the capture stopped.

### Housekeeping

**State.** Time is counted in ticks of 100 ms. Each task's clock is the time
since it last ran, capped at its period; the code only ever compares that time
with the period. The module also tracks:

* `newStats`;
* whether the pcap buffer holds data;
* the two force flags;
* the task of the last iteration;
* a `parity` bit that flips every iteration. Without it, an iteration that
  leaves the capped clocks unchanged would count as a stutter step.

**Actions.**

* `LoopIteration`: `select` returns after 1..5 ticks, a packet is accounted or
  not, and `HousekeepingTask` picks the branch. `HousekeepingTask` follows the
  code's C precedence: `(new_stats && delta >= 300) || dump_capture_stats_now`.
  When `PcapDumpMayFail`, the pcap branch's `javaPcapDump` may return at
  `NewByteArray` (`PcapFlushed` false). The buffer then stays non-empty, and
  its clock stays due.
* `askStatsDump`: the host sets both force flags.

### PcapFramer

**State.**

* `java`: the Java sink. It holds:
  * `buffer_idx`;
  * the records in the buffer, each with its packet number and
    `sizeof(pcaprec_hdr_s) + size`;
  * the packets the host received;
  * the packets lost to a failed JNI call.
* `framed`: the packets `account_packet` offered to the Java sink.
* `sessions`: what each run sent on `dumper_socket`, with `0` for the pcap
  file header.
* `dumperSocket` and `sendHeader`: the two globals. Both start at 0, because
  they are zero-initialised statics.
* `bufAlloc`, `running`, `phase`, `runs`.

**Actions.**

* `StartRun`: lines 1046-1047. `connect_dumper` may get -1 from `socket()`,
  which passes its `!dumper_socket` test. The `malloc` of the buffer may fail,
  which clears `running`.
* `AccountPacket`: the fit test `(BUF - idx) <= tot_size`, with a flush when
  the record does not fit. The packet is dropped if it still does not fit
  (after a failed flush). Then the UDP header once, and the record.
* `HousekeepingFlush`.
* `Stop` and `LeaveLoop`.
* `Teardown`: close the socket, flush a last time, free the buffer.

`JavaPcapDump` models both failure points:

* `NewByteArray` throws: nothing is reset.
* `dumpPcapData` throws: the buffer is reset, but the host kept nothing.

### Lifecycle

**Where the loop thread is.** `pc` records where the loop thread is in
`run_tun`:

* `prefs`: building `proxy`, which includes `getDnsServer`;
* `globals`: lines 1046-1048;
* `setup`: nDPI, `fcntl` and `zdtun_init`, each of which may return early;
* `loop`;
* `reloaded`: between lines 652 and 653 of `check_dns_req_allowed`;
* `teardown`.

**Host thread.** The host thread may run `stopPacketLoop`, `askStatsDump` and
`setDnsServer` between any two of these steps. `runPacketLoop` starts the next
run.

**What a stop means.** `stopAsked` says whether a stop was asked in the current
run. It is "early" if asked before line 1048, and "late" if asked after it.

**DNS decisions.** `DecideConnection` runs `DnsPolicy` on one packet class:

* it records the decision in `lastDecision`;
* it counts a DNS request;
* after a reload, it clears `new_dns_server` and installs the DNAT target.

### HostDpi

A record (`conn[c]`) is `none`, then `rejected` or `open`, `closed` and
`freed`. `dpi` stands for `ndpi_flow != NULL`; `info` and `url` are buffer
numbers or `NULL`. `heap` is the set of live buffers: `Strndup` takes the
lowest free one and returns `NULL` when all `MaxBufs` are taken, which is how
`strndup` failure is reached.

| action | code |
|---|---|
| `handle_new_connection` | `calloc` of the record (failure rejects), the three nDPI allocations (any failure leaves `ndpi_flow` NULL through `free_ndpi`), `ip_lru_find` of the destination: a hit is an owned copy and promotes the entry |
| `process_ndpi_packet` | the DPI part of `account_packet` (line 468): nDPI's result is a nondeterministic protocol and "needs more packets"; at `MAX_DPI_PACKETS` or when settled it calls `end_ndpi_detection`, with the give-up guess if still unknown |
| `destroy_connection` | `end_ndpi_detection` if `ndpi_flow` is set, then closed |
| `free_connection_data` | `free_ndpi`, `free(info)`, `free(url)` |

`end_ndpi_detection` is one operator: for DNS, HTTP and TLS a host name frees
the old `info` and stores a `strndup`; HTTP adds the URL; a DNS name with a
`.` and an A or global-unicast AAAA answer goes to the LRU; then `free_ndpi`.
nDPI is the environment: which host name, answer and URL it reports are
inputs (`EndDetection`). For HTTP and TLS only whether there is a name
matters, since the record keeps the buffer, not the text.

The LRU (`ip_lru.c`) is not in this file. `ip_lru_add` and `ip_lru_find`
follow spec 4.1: a sequence, least recently used first, with a refresh on a
known address and eviction beyond `Capacity`. Nothing is checked of the LRU
itself, since both its code and any reference for it would come from the
specification; it is there because a hit decides whether
`handle_new_connection` allocates a copy.

## Runs

| run | expect | what it shows |
|---|---|---|
| `conn_core` | pass | Records, batches and the host view stay consistent over every interleaving of tun packets, replies, closes, dumps and a stop. `PendingIffQueued` is spec section 3's invariant. `NoUseAfterFree`: no record is freed while zdtun or a batch still points to it. `ReportedFreedAtStop`. `ImplementsConnReporting`: every step is a step of the abstract register, with dense ids, no orphan update and at most one final report per connection, made after the close. |
| `conn_dumpfail` | violation | `HostIdsDense`: a failing `dumpConnection` drops the whole batch, so the host sees an incr_id gap. |
| `hk_traffic` | pass | Under traffic and `askStatsDump`, new stats are always sent eventually (`StatsEventuallySent`). Once traffic stops, the purge keeps coming round (`PurgeServedOnceQuiet`), pcap flushes included. |
| `hk_starve` | violation | `ConnDumpNotStarved`: when every wake-up comes at least 300 ms after the last and brings a packet (the trace: wake-ups 500 ms apart, one packet each), the stats branch is due and wins every iteration. A denser stream does not starve the dump, since a wake-up under 300 ms after a send falls through. |
| `hk_pcapfail` | violation | `PurgeServedOnceQuiet`: a `NewByteArray` that keeps failing leaves the pcap branch due in every iteration, and the purge never runs. |
| `pcap_core` | pass | Every failure is enabled: `NewByteArray`, `dumpPcapData`, `socket()` and `malloc`. `NoBufferOverrun`: the fit test counts the record header. `JavaSinkExact`: each packet reaches the host once and in order, or is still buffered, or was lost to a failed JNI call, across overflow, housekeeping and teardown flushes. `SessionHeaderFirst`: each UDP session starts with one pcap header. |
| `life_core` | pass | Over two runs with the host calling anything at any time, `StopAfterStartHonoured`: a stop made after `running = true` ends the run. |
| `life_stop` | violation | `StopHonoured`: a stop made while the preferences are read is overwritten by `running = true`. |
| `life_dns` | violation | `DnsServerAtStart`: a `setDnsServer` after the `getDnsServer` read is erased by `new_dns_server = 0` (line 1116). |
| `dns_race` | violation | `DnsUpdateNotLost`: a `setDnsServer` between lines 652 and 653 is lost. |
| `hostdpi_core` | pass | `InfoOwnership`: across cache hits, DPI replacing `info`, `strndup` failing on a full heap, and frees, every live string has exactly one owning field and every owned pointer is live. |

Each violation is written up as a finding in `PROJECT.json`. Every property of
a passing run has a mutant there: a plausible bug in one mapped definition
that TLC must catch with that property.

**Observations not checked by a run.** These can be read off the models but
have no run of their own, because each is a single step that a unit test
reaches:

* The record of an ignored connection is never freed.
* `connect_dumper` treats `socket() == -1` as success.
* `check_dns_req_allowed` admits DNS responses that spec 4.2 blocks.
* The force flags survive into the next run.
* A failed `realloc` in `conns_add` leaves `pending_notification` set on a
  record no batch holds (spec section 3's invariant), and the next add
  writes through NULL.
* A failed `sendVPNStats` still consumes `new_stats` and the forced request.
* An invalid `getDnsServer` preference makes 0.0.0.0 the DNAT target.
* Line 700 tests `flags & 0x8000` on the network-order field without
  `ntohs`; on a little-endian device that is the RA bit, not QR.
  `DnsPolicy`'s payload class is the verdict of that test as written.

All but the last are listed as hazards with notes; the last is a byte-order
slip that any test on the device shows.

## Bounds

* **ConnTracker.**
  * Three connections: one TCP, which exercises SOCKS5; one UDP; and one
    ignored probe.
  * `MaxPkts = 2`. A connection can then be queued as new, be accounted again
    after a dump, be closed, and queue its final update.
  * `MaxDpiPackets = 2`, so DPI give-up happens.
  * `MaxDrops = 1`, which covers both drop paths.
  * These bounds reach every order of new, update, final and dump over two
    reported connections: about 147k states.
  * JNI failures inside the dump (`DumpMayFail`) are only run for the
    violation `conn_dumpfail`.
* **Housekeeping.** The clocks use the code's periods in 100 ms ticks:
  stats 3, dump 10, pcap 10, purge 50, select timeout 5. These are the real
  ratios, so the interleaving of branches is the code's.
* **PcapFramer.**
  * A buffer of 8 units and a record header of 2.
  * Payloads of 1 or 2 units. A record then fits exactly, overflows, or is
    dropped after a failed flush.
  * 5 packets over 2 runs, so the buffer fills more than once and a second
    session starts.
* **Lifecycle.**
  * Two runs, so something can leak from one run into the next.
  * Two servers.
  * One `setDnsServer` in `life_core` and `life_dns`, and two in `dns_race`,
    where a write must fall between a reload and its clear.
  * One counted DNS request, since the counter only feeds stats.
  * The 72 packet classes cover every destination class, transport, port and
    payload kind that the gate's conditions distinguish.

* **HostDpi.**
  * Three connections: one learns an address from DNS, a second hits it in
    the LRU and replaces the name with DPI, and a third adds a further
    address.
  * Three addresses and `Capacity = 2`, so an add evicts, and a hit in
    between decides which entry goes.
  * `MaxBufs = 3`: less than the five strings three connections can hold, so
    `strndup` failure is reached.
  * `MaxDpiPackets = 2`: a flow can stay undecided for one packet and give up
    on the next.
  * Symmetry over connections and over addresses; no liveness is checked
    here.

## Fairness

* **ConnTracker.** Safety only; no fairness. The connections dump is not
  guaranteed to come round (`hk_starve`), so no fairness of
  `sendConnectionsDump` is assumed, and nothing is checked that would need it.
* **Housekeeping.** `LoopIteration` is weakly fair, because `select` has a
  timeout.
* **PcapFramer.** `LeaveLoop`, `Teardown` and `HousekeepingFlush` are weakly
  fair for the same reason. No liveness property is checked on this module.
* **Lifecycle.** The loop thread as a whole is weakly fair, for the same
  reason.
* **ConnReporting.** Safety only, for the same reason.
* **HostDpi.** Safety only; no fairness.
* **No fairness** is assumed for the host or the network: packets,
  `askStatsDump`, `setDnsServer` and stop may happen or not.

## Not modelled

These parts are left out, and why:

* **The LRU's own memory.** `HostDpi` keeps LRU entries as values. Spec 4.1
  does not say whether `ip_lru_add` copies the name; the code's
  `free_connection_data` is only safe if it does, and the model assumes so.
* **The text of names and URLs.** `strndup(…, 256)` truncation and the text
  of HTTP/TLS names are left out. DNS names are at most 253 characters, so
  truncation cannot remove the `.` that decides an LRU insert.
* **JNI serialisation, preferences, UID resolver.** These are pure I/O.
* **Resources leaked by the early returns of `run_tun`** (resolver, LRU,
  prefix tree). These are library objects.
* **`conns_add`'s `realloc` failure.** The batches are unbounded sequences.

## Plan

1. **Composition of `PcapFramer` with `Housekeeping`.** The pcap branch would
   then flush the modelled buffer, rather than a flag.
2. **`conns_add`'s `realloc` failure** as a bounded batch capacity in
   `ConnTracker`, if its state space allows.
