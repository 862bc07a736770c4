----------------------------- MODULE PcapFramer -----------------------------
(***************************************************************************)
(* The two pcap sinks of vpnproxy.c over successive runs of run_tun.      *)
(*                                                                         *)
(*  - The Java sink: account_packet frames every accounted packet into    *)
(*    java_dump.buffer (flushing it first when the record does not fit),   *)
(*    javaPcapDump hands [0, buffer_idx) to the host; housekeeping and    *)
(*    the teardown flush it too.                                          *)
(*  - The UDP sink: connect_dumper opens dumper_socket at start; every    *)
(*    accounted packet is sent as a record, the first one preceded by the *)
(*    pcap file header while the global send_header is set.               *)
(*                                                                         *)
(* Packets are numbered in accounting order; sizes are in abstract units  *)
(* (a record is its payload plus HdrSize, the pcaprec_hdr_s).  The timing *)
(* of the housekeeping flush is the Housekeeping module's concern; here   *)
(* it may happen whenever the buffer holds data.                          *)
(***************************************************************************)
EXTENDS Naturals, Sequences, SequencesExt

CONSTANTS
  BufSize,       \* JAVA_PCAP_BUFFER_SIZE
  HdrSize,       \* sizeof(pcaprec_hdr_s)
  PktSizes,      \* payload sizes a packet may have
  MaxPkts,       \* bound on packets accounted over all runs
  MaxRuns,       \* bound on runPacketLoop calls
  JavaEnabled,   \* dumpPcapToJava
  UdpEnabled,    \* dumpPcapToUdp
  DumpOutcomes,  \* what javaPcapDump may run into (see JavaPcapDump)
  SocketMayFail, \* whether socket() in connect_dumper may return -1
  MallocMayFail  \* whether malloc(JAVA_PCAP_BUFFER_SIZE) may fail

ASSUME /\ \A s \in PktSizes : s \in Nat \ {0}
       /\ HdrSize \in Nat /\ BufSize \in Nat /\ MaxPkts \in Nat /\ MaxRuns \in Nat
       /\ DumpOutcomes \subseteq {"ok", "arrayFail", "callFail"}
       /\ "ok" \in DumpOutcomes

SockFd == 3     \* some descriptor socket() returns on success

\* the pcap file header on the sink; packets are numbered from 1
Hdr == 0

VARIABLES
  phase,         \* "idle" (no run_tun), "loop", or "stopping" (loop left)
  running,       \* the global running
  runs,          \* runPacketLoop calls so far
  dumperSocket,  \* the global dumper_socket
  sendHeader,    \* the global send_header
  sessions,      \* what each run sent on dumper_socket, one sequence per run
  bufAlloc,      \* java_dump.buffer # NULL
  java,          \* [idx |-> buffer_idx, buf |-> records in the buffer,
                 \*  host |-> packets the host received through dumpPcapData,
                 \*  lost |-> packets a failed JNI call took with it]
  framed,        \* packets account_packet offered to the Java sink, in order
  nextPkt        \* the number of the next packet to be accounted

vars == <<phase, running, runs, dumperSocket, sendHeader, sessions, bufAlloc,
          java, framed, nextPkt>>

Ids(buf) == [i \in DOMAIN buf |-> buf[i].id]

\* bytes dump_pcap_rec writes: the record header and the payload
dump_pcap_rec(size) == HdrSize + size

\* tot_size of account_packet
RecTotal(size) == size + HdrSize

\* mutant: the fit test made with the payload size only
NeedsFlush_nohdr(idx, size) == BufSize - idx <= size

\* (JAVA_PCAP_BUFFER_SIZE - buffer_idx) <= tot_size
NeedsFlush(idx, size) == BufSize - idx <= RecTotal(size)

\* mutant: buffer_idx not reset after the host call
JavaPcapDump_noreset(j, outcome) ==
  IF outcome = "arrayFail" THEN j
  ELSE [j EXCEPT !.host = IF outcome = "ok" THEN @ \o Ids(j.buf) ELSE @,
                 !.lost = IF outcome = "ok" THEN @ ELSE @ \o Ids(j.buf)]

(* javaPcapDump on the Java sink state j.  NewByteArray may throw: the     *)
(* function returns with buffer_idx and last_dump_ms untouched.  The       *)
(* dumpPcapData call may throw in the host: the exception is cleared and  *)
(* the buffer reset as on success, but the host has not kept the data.    *)
JavaPcapDump(j, outcome) ==
  IF outcome = "arrayFail" THEN j
  ELSE [idx |-> 0, buf |-> <<>>,
        host |-> IF outcome = "ok" THEN j.host \o Ids(j.buf) ELSE j.host,
        lost |-> IF outcome = "ok" THEN j.lost ELSE j.lost \o Ids(j.buf)]

(* The Java part of account_packet (lines 492-503): flush when the record *)
(* does not fit, then append it unless it still does not fit (after a     *)
(* failed flush): the packet is then dropped with a log.                  *)
JavaAccount(j, id, size, outcome) ==
  LET j1 == IF NeedsFlush(j.idx, size) THEN JavaPcapDump(j, outcome) ELSE j
  IN IF NeedsFlush(j1.idx, size) THEN [j1 EXCEPT !.lost = Append(@, id)]
     ELSE [j1 EXCEPT !.idx = @ + dump_pcap_rec(size),
                     !.buf = Append(@, [id |-> id, len |-> dump_pcap_rec(size)])]

(* The UDP part (lines 505-517): the file header once, then the record.   *)
SinkAccount(id) ==
  IF sendHeader THEN <<Hdr, id>> ELSE <<id>>

(* dumper_socket after run_tun's setup: -1 from line 1046 unless          *)
(* connect_dumper runs; then whatever socket() returned, -1 included,     *)
(* since its !dumper_socket test only catches 0.                          *)
connect_dumper(sockOk) ==
  IF UdpEnabled /\ sockOk THEN SockFd ELSE -1

-----------------------------------------------------------------------------
Init ==
  /\ phase = "idle" /\ running = FALSE /\ runs = 0
  /\ dumperSocket = 0 /\ sendHeader = FALSE   \* static, zero-initialised
  /\ sessions = <<>>
  /\ bufAlloc = FALSE
  /\ java = [idx |-> 0, buf |-> <<>>, host |-> <<>>, lost |-> <<>>]
  /\ framed = <<>> /\ nextPkt = 1

\* mutant: send_header not re-armed when a run starts
StartRun_noreset ==
  /\ phase = "idle" /\ runs < MaxRuns
  /\ \E sockOk \in IF SocketMayFail THEN BOOLEAN ELSE {TRUE},
        mallocOk \in IF MallocMayFail THEN BOOLEAN ELSE {TRUE} :
       /\ dumperSocket' = connect_dumper(sockOk)
       /\ bufAlloc' = (JavaEnabled /\ mallocOk)
       /\ running' = ~(JavaEnabled /\ ~mallocOk)
  /\ sendHeader' = sendHeader
  /\ java' = [java EXCEPT !.idx = 0]
  /\ sessions' = Append(sessions, <<>>)
  /\ runs' = runs + 1 /\ phase' = "loop"
  /\ UNCHANGED <<framed, nextPkt>>

(* run_tun's setup (lines 1044-1104): dumper_socket = -1, send_header =   *)
(* true, running = true; connect_dumper opens the UDP socket, but a       *)
(* socket() failure (-1) passes its !dumper_socket test, so the run goes  *)
(* on without the sink; a failed malloc of the Java buffer clears running. *)
StartRun ==
  /\ phase = "idle" /\ runs < MaxRuns
  /\ \E sockOk \in IF SocketMayFail THEN BOOLEAN ELSE {TRUE},
        mallocOk \in IF MallocMayFail THEN BOOLEAN ELSE {TRUE} :
       /\ dumperSocket' = connect_dumper(sockOk)
       /\ bufAlloc' = (JavaEnabled /\ mallocOk)
       /\ running' = ~(JavaEnabled /\ ~mallocOk)
  /\ sendHeader' = TRUE
  /\ java' = [java EXCEPT !.idx = 0]
  /\ sessions' = Append(sessions, <<>>)
  /\ runs' = runs + 1 /\ phase' = "loop"
  /\ UNCHANGED <<framed, nextPkt>>

(* account_packet's framing of one accounted packet into both sinks.      *)
AccountPacket ==
  /\ phase = "loop" /\ running /\ nextPkt <= MaxPkts
  /\ \E size \in PktSizes, outcome \in DumpOutcomes :
       java' = IF bufAlloc THEN JavaAccount(java, nextPkt, size, outcome)
               ELSE java
  /\ framed' = IF bufAlloc THEN Append(framed, nextPkt) ELSE framed
  /\ IF dumperSocket > 0
     THEN /\ sessions' = [sessions EXCEPT ![Len(sessions)] =
                             @ \o SinkAccount(nextPkt)]
          /\ sendHeader' = FALSE
     ELSE UNCHANGED <<sessions, sendHeader>>
  /\ nextPkt' = nextPkt + 1
  /\ UNCHANGED <<phase, running, runs, dumperSocket, bufAlloc>>

(* The pcap branch of housekeeping (lines 1223-1225).                     *)
HousekeepingFlush ==
  /\ phase = "loop" /\ running /\ java.idx > 0
  /\ \E outcome \in DumpOutcomes : java' = JavaPcapDump(java, outcome)
  /\ UNCHANGED <<phase, running, runs, dumperSocket, sendHeader, sessions,
                 bufAlloc, framed, nextPkt>>

(* stopPacketLoop, or a fatal tun write error in net2tun.                 *)
Stop ==
  /\ phase = "loop" /\ running
  /\ running' = FALSE
  /\ UNCHANGED <<phase, runs, dumperSocket, sendHeader, sessions, bufAlloc,
                 java, framed, nextPkt>>

(* The loop sees running = false and leaves.                               *)
LeaveLoop ==
  /\ phase = "loop" /\ ~running
  /\ phase' = "stopping"
  /\ UNCHANGED <<running, runs, dumperSocket, sendHeader, sessions, bufAlloc,
                 java, framed, nextPkt>>

\* mutant: the buffer freed without the final javaPcapDump
Teardown_noflush ==
  /\ phase = "stopping"
  /\ dumperSocket' = IF dumperSocket > 0 THEN -1 ELSE dumperSocket
  /\ java' = [java EXCEPT !.buf = <<>>]
  /\ bufAlloc' = FALSE
  /\ phase' = "idle"
  /\ UNCHANGED <<running, runs, sendHeader, sessions, framed, nextPkt>>

(* The teardown (lines 1242-1253): close dumper_socket if > 0, flush a    *)
(* non-empty Java buffer a last time and free it.  What a failed          *)
(* NewByteArray left in the buffer goes with it.                          *)
Teardown ==
  /\ phase = "stopping"
  /\ dumperSocket' = IF dumperSocket > 0 THEN -1 ELSE dumperSocket
  /\ \E outcome \in DumpOutcomes :
       LET j == IF bufAlloc /\ java.idx > 0 THEN JavaPcapDump(java, outcome)
                ELSE java
       IN  java' = [j EXCEPT !.buf = <<>>, !.lost = @ \o Ids(j.buf)]
  /\ bufAlloc' = FALSE
  /\ phase' = "idle"
  /\ UNCHANGED <<running, runs, sendHeader, sessions, framed, nextPkt>>

\* no more runs
Done == phase = "idle" /\ runs = MaxRuns /\ UNCHANGED vars

Next ==
  \/ StartRun \/ AccountPacket \/ HousekeepingFlush \/ Stop \/ LeaveLoop
  \/ Teardown \/ Done

(* The loop wakes every 500 ms, so it leaves once stopped, and housekeeping *)
(* flushes a non-empty buffer within MAX_JAVA_DUMP_DELAY_MS while it runs. *)
Spec == Init /\ [][Next]_vars
          /\ WF_vars(LeaveLoop) /\ WF_vars(Teardown) /\ WF_vars(HousekeepingFlush)

-----------------------------------------------------------------------------
TypeOK ==
  /\ phase \in {"idle", "loop", "stopping"} /\ running \in BOOLEAN
  /\ runs \in 0..MaxRuns /\ dumperSocket \in {-1, 0, SockFd}
  /\ sendHeader \in BOOLEAN /\ bufAlloc \in BOOLEAN
  /\ sessions \in Seq(Seq(0..MaxPkts))
  /\ java.idx \in Nat /\ java.host \in Seq(1..MaxPkts)
  /\ java.lost \in Seq(1..MaxPkts)
  /\ framed \in Seq(1..MaxPkts) /\ nextPkt \in 1..MaxPkts + 1

(* The buffer is never written past its end (spec 8.6): the fit test of  *)
(* account_packet must count the record header that dump_pcap_rec writes. *)
NoBufferOverrun ==
  bufAlloc => FoldSeq(LAMBDA r, acc : r.len + acc, 0, java.buf) <= BufSize

(* Every packet offered to the Java sink reaches the host once, in order, *)
(* or is still in the buffer, or was lost to a failed JNI call: the      *)
(* overflow flush, the housekeeping flush and the teardown flush          *)
(* together neither drop nor repeat a record behind the host's back.      *)
JavaSinkExact ==
  /\ IsSorted(java.host \o Ids(java.buf), <)
  /\ SortSeq(java.host \o java.lost \o Ids(java.buf), <) = framed

(* On the UDP sink every run starts with the pcap file header, and sends  *)
(* it once: send_header is re-armed per run (spec 9).                     *)
SessionHeaderFirst ==
  \A s \in DOMAIN sessions :
     sessions[s] # <<>> =>
        /\ sessions[s][1] = Hdr
        /\ \A i \in 2..Len(sessions[s]) : sessions[s][i] # Hdr

=============================================================================
