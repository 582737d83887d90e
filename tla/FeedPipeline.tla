---------------------------- MODULE FeedPipeline ----------------------------
(***************************************************************************)
(* The path of a message from a WebSocket session to the network, for      *)
(* several sessions that run as tasks of a multi-threaded runtime and      *)
(* share one PacketBuilder and one UdpMulticaster.                         *)
(*                                                                         *)
(* A session handles one job at a time: a market-data message              *)
(* (process_and_send_to_port, process_message) or a connection event       *)
(* (send_connection_event_to_port).  A job first builds all its packets,   *)
(* claiming one sequence number per packet from the shared atomic counter, *)
(* then sends them one by one.  Nothing on that path waits, so the         *)
(* interleavings are those of threads: one step per access to shared state *)
(* (the counter, the socket cache under its mutex, the send system call,   *)
(* each of the two statistics counters).                                   *)
(*                                                                         *)
(* The two statistics counters are updated and read with Relaxed ordering, *)
(* which orders nothing between them: the model lets the two additions of  *)
(* a send, and the two loads of get_stats, happen in either order.         *)
(***************************************************************************)
EXTENDS DataParser, FiniteSetsExt

CONSTANTS
  Sessions,          \* the session tasks of ConnectionManager::run
  Ports,             \* the UDP destination ports
  DefaultPort,       \* the port of UdpConfig, served by the default socket
  SessionPort,       \* [Sessions -> Ports]: SymbolSession.port
  SessionExchange,   \* [Sessions -> exchange display names]
  RawMessages,       \* the messages the exchanges may send
  Faults,            \* the failures of the operating system to consider
  MaxJobs,           \* bound: [Sessions -> jobs the session handles]
  MaxReports         \* bound: metrics reports

FaultKinds == {"WouldBlock", "SendError", "BindError", "ConnectError"}

ASSUME PipelineAssumption ==
  /\ IsFiniteSet(Sessions) /\ IsFiniteSet(Ports)
  /\ DefaultPort \in Ports
  /\ SessionPort \in [Sessions -> Ports]
  /\ SymbolExchanges = {} => \A s \in Sessions : SessionPort[s] = DefaultPort
  /\ RawMessages \subseteq RawMessage
  /\ Faults \subseteq FaultKinds
  /\ MaxJobs \in [Sessions -> Nat]
  /\ MaxReports \in Nat

VARIABLES
  sequence_counter,  \* PacketBuilder.sequence_counter, the next number
  pc,                \* where each session's task is
  job,               \* how many jobs each session has begun
  frames,            \* frames of the current job not yet numbered
  packets,           \* packets of the current job not yet sent
  sockets_by_port,   \* UdpMulticaster.sockets_by_port
  wire,              \* what the send calls put on the network, by port
  dropped,           \* history: packets built and never put on the network
  packets_sent,      \* UdpMulticaster.packets_sent
  bytes_sent,        \* UdpMulticaster.bytes_sent
  owed,              \* additions to the two counters still to be made
  stats,             \* the metrics task: what get_stats has loaded so far
  prev,              \* the metrics task: prev_packets and prev_bytes
  reports            \* how many reports the metrics task has made

sessionVars == << sequence_counter, pc, job, frames, packets, sockets_by_port,
                  wire, dropped, packets_sent, bytes_sent, owed >>
metricsVars == << stats, prev, reports >>
vars == << sequence_counter, pc, job, frames, packets, sockets_by_port, wire,
           dropped, packets_sent, bytes_sent, owed, stats, prev, reports >>

\* A built packet: its frame, its sequence number and, as history, the session
\* and the job it belongs to and its place among the packets of that job.
Packet == [frame : Frame, sequence_number : Nat \ {0}, session : Sessions,
           job : Nat, index : Nat \ {0}]

Causes == {"WouldBlock", "SendError", "BindError", "NotConnected", "Abandoned"}

SocketStates == {"none", "connected", "unconnected"}

NotLoaded == -1

TypeOK ==
  /\ sequence_counter \in Nat \ {0}
  /\ pc \in [Sessions -> {"idle", "build", "lookup", "transmit", "count"}]
  /\ job \in [Sessions -> Nat]
  /\ frames \in [Sessions -> Seq(Frame)]
  /\ packets \in [Sessions -> Seq(Packet)]
  /\ sockets_by_port \in [Ports -> SocketStates]
  /\ wire \in [Ports -> Seq(Packet)]
  /\ dropped \subseteq [packet : Packet, cause : Causes]
  /\ packets_sent \in Nat
  /\ bytes_sent \in Nat
  /\ owed \in [Sessions -> [packets : Nat, bytes : Nat]]
  /\ stats \in [packets : Nat \cup {NotLoaded}, bytes : Nat \cup {NotLoaded}]
  /\ prev \in [packets : Nat, bytes : Nat]
  /\ reports \in Nat

\* PacketBuilder::new and UdpMulticaster::new; the metrics task has not run.
Init ==
  /\ sequence_counter = 1
  /\ pc = [s \in Sessions |-> "idle"]
  /\ job = [s \in Sessions |-> 0]
  /\ frames = [s \in Sessions |-> << >>]
  /\ packets = [s \in Sessions |-> << >>]
  /\ sockets_by_port = [p \in Ports |-> "none"]
  /\ wire = [p \in Ports |-> << >>]
  /\ dropped = {}
  /\ packets_sent = 0
  /\ bytes_sent = 0
  /\ owed = [s \in Sessions |-> [packets |-> 0, bytes |-> 0]]
  /\ stats = [packets |-> NotLoaded, bytes |-> NotLoaded]
  /\ prev = [packets |-> 0, bytes |-> 0]
  /\ reports = 0
-----------------------------------------------------------------------------
(***************************************************************************)
(* Beginning a job and building its packets.                               *)
(***************************************************************************)

\* A job with nothing to build is over at once.
BeginJob(s, fs) ==
  /\ pc[s] = "idle"
  /\ job[s] < MaxJobs[s]
  /\ job' = [job EXCEPT ![s] = @ + 1]
  /\ frames' = [frames EXCEPT ![s] = fs]
  /\ pc' = [pc EXCEPT ![s] = IF fs = << >> THEN "idle" ELSE "build"]
  /\ UNCHANGED << sequence_counter, packets, sockets_by_port, wire, dropped,
                  packets_sent, bytes_sent, owed, metricsVars >>

\* A text or binary message arrives.  One that does not parse is logged and
\* forgotten; it takes no sequence number.
FramesOf(s, raw) ==
  LET parsed == parse_message(SessionExchange[s], raw)
  IN  IF parsed = ParseError THEN << >> ELSE build_packets(parsed)

ReceiveMessage(s) == \E raw \in RawMessages : BeginJob(s, FramesOf(s, raw))

\* The life cycle of the connection announces a change of status; without
\* symbol_config.ini it announces nothing.
SendConnectionEvent(s) ==
  /\ SymbolExchanges # {}
  /\ BeginJob(s, << build_event_packet_with_exchange >>)

\* Where a session goes to send its next packet: the default port has its
\* socket from the start, any other port looks its socket up first.
SendEntry(s) == IF SessionPort[s] = DefaultPort THEN "transmit" ELSE "lookup"

\* Variants with a fault: the counter is read and not advanced, it is advanced
\* twice, packets are put in front.
StuckCounter == UNCHANGED sequence_counter
AdvanceTwice == sequence_counter' = sequence_counter + 2
PushFront(q, packet) == << packet >> \o q

\* fetch_add(1) on the counter.
AdvanceCounter == sequence_counter' = sequence_counter + 1

\* packets.push(packet).
Push(q, packet) == Append(q, packet)

\* setup_header takes a number, then the rest of the packet is made.
ClaimSequence(s) ==
  /\ pc[s] = "build"
  /\ AdvanceCounter
  /\ packets' = [packets EXCEPT ![s] =
         Push(@, [frame |-> Head(frames[s]),
                  sequence_number |-> sequence_counter,
                  session |-> s, job |-> job[s], index |-> Len(@) + 1])]
  /\ frames' = [frames EXCEPT ![s] = Tail(@)]
  /\ pc' = [pc EXCEPT ![s] = IF Tail(frames[s]) = << >> THEN SendEntry(s)
                                                        ELSE "build"]
  /\ UNCHANGED << job, sockets_by_port, wire, dropped, packets_sent,
                  bytes_sent, owed, metricsVars >>
-----------------------------------------------------------------------------
(***************************************************************************)
(* Sending.                                                                *)
(***************************************************************************)

\* Where the task is once `rest` remains of the job.
AfterPacket(s, rest) == IF rest = << >> THEN "idle" ELSE SendEntry(s)

\* Variant with a fault: the error is ignored and the loop goes on.
IgnoreError(s, cause) ==
  /\ dropped' = dropped \cup {[packet |-> Head(packets[s]), cause |-> cause]}
  /\ packets' = [packets EXCEPT ![s] = Tail(@)]
  /\ pc' = [pc EXCEPT ![s] = AfterPacket(s, Tail(packets[s]))]

\* An error returns from the job with `?`: the packets behind the failed one,
\* already numbered, are never sent.
AbandonJob(s, cause) ==
  /\ dropped' = dropped
       \cup {[packet |-> Head(packets[s]), cause |-> cause]}
       \cup {[packet |-> packets[s][i], cause |-> "Abandoned"] :
               i \in 2 .. Len(packets[s])}
  /\ packets' = [packets EXCEPT ![s] = << >>]
  /\ pc' = [pc EXCEPT ![s] = "idle"]

\* Variant with a fault: a socket that is not connected is not found.
FindConnected(s) ==
  /\ pc[s] = "lookup"
  /\ sockets_by_port[SessionPort[s]] = "connected"
  /\ pc' = [pc EXCEPT ![s] = "transmit"]
  /\ UNCHANGED << sequence_counter, job, frames, packets, sockets_by_port,
                  wire, dropped, packets_sent, bytes_sent, owed, metricsVars >>

\* send_packet_to_port on another port, under the mutex of the cache: the
\* socket of the port is in the cache already, ...
FindSocket(s) ==
  /\ pc[s] = "lookup"
  /\ sockets_by_port[SessionPort[s]] # "none"
  /\ pc' = [pc EXCEPT ![s] = "transmit"]
  /\ UNCHANGED << sequence_counter, job, frames, packets, sockets_by_port,
                  wire, dropped, packets_sent, bytes_sent, owed, metricsVars >>

\* Variant with a fault: the cache is not looked at again under the lock.
OpenUnchecked(s, state) ==
  /\ pc[s] = "lookup"
  /\ sockets_by_port' = [sockets_by_port EXCEPT ![SessionPort[s]] = state]
  /\ pc' = [pc EXCEPT ![s] = "transmit"]
  /\ UNCHANGED << sequence_counter, job, frames, packets, wire, dropped,
                  packets_sent, bytes_sent, owed, metricsVars >>

\* ... or it is bound, connected and cached.  A failure to connect is only
\* logged: the socket is cached all the same.
OpenSocket(s, state) ==
  /\ pc[s] = "lookup"
  /\ sockets_by_port[SessionPort[s]] = "none"
  /\ sockets_by_port' = [sockets_by_port EXCEPT ![SessionPort[s]] = state]
  /\ pc' = [pc EXCEPT ![s] = "transmit"]
  /\ UNCHANGED << sequence_counter, job, frames, packets, wire, dropped,
                  packets_sent, bytes_sent, owed, metricsVars >>

CreateSocket(s) ==
  \/ OpenSocket(s, "connected")
  \/ "ConnectError" \in Faults /\ OpenSocket(s, "unconnected")

BindFails(s) ==
  /\ "BindError" \in Faults
  /\ pc[s] = "lookup"
  /\ sockets_by_port[SessionPort[s]] = "none"
  /\ AbandonJob(s, "BindError")
  /\ UNCHANGED << sequence_counter, job, frames, sockets_by_port, wire,
                  packets_sent, bytes_sent, owed, metricsVars >>

\* The default socket sends with send or send_to as UdpMulticaster::new found
\* it connected or not; a socket of the cache always uses send, which fails on
\* one that is not connected.
HasDestination(s) ==
  \/ SessionPort[s] = DefaultPort
  \/ sockets_by_port[SessionPort[s]] = "connected"

\* The datagram leaves; the two counters are to be increased.
TransmitOk(s) ==
  /\ pc[s] = "transmit"
  /\ HasDestination(s)
  /\ wire' = [wire EXCEPT ![SessionPort[s]] = Append(@, Head(packets[s]))]
  /\ owed' = [owed EXCEPT ![s] = [packets |-> 1,
                                  bytes |-> Head(packets[s]).frame.size]]
  /\ packets' = [packets EXCEPT ![s] = Tail(@)]
  /\ pc' = [pc EXCEPT ![s] = "count"]
  /\ UNCHANGED << sequence_counter, job, frames, sockets_by_port, dropped,
                  packets_sent, bytes_sent, metricsVars >>

\* Variant with a fault: a dropped packet is counted.
DroppedIsCounted(s) ==
  /\ "WouldBlock" \in Faults
  /\ pc[s] = "transmit"
  /\ HasDestination(s)
  /\ dropped' = dropped \cup {[packet |-> Head(packets[s]), cause |-> "WouldBlock"]}
  /\ owed' = [owed EXCEPT ![s] = [packets |-> 1,
                                  bytes |-> Head(packets[s]).frame.size]]
  /\ packets' = [packets EXCEPT ![s] = Tail(@)]
  /\ pc' = [pc EXCEPT ![s] = "count"]
  /\ UNCHANGED << sequence_counter, job, frames, sockets_by_port, wire,
                  packets_sent, bytes_sent, metricsVars >>

\* The socket buffer is full: the packet is dropped, the job goes on.
TransmitWouldBlock(s) ==
  /\ "WouldBlock" \in Faults
  /\ pc[s] = "transmit"
  /\ HasDestination(s)
  /\ dropped' = dropped \cup {[packet |-> Head(packets[s]), cause |-> "WouldBlock"]}
  /\ packets' = [packets EXCEPT ![s] = Tail(@)]
  /\ pc' = [pc EXCEPT ![s] = AfterPacket(s, Tail(packets[s]))]
  /\ UNCHANGED << sequence_counter, job, frames, sockets_by_port, wire,
                  packets_sent, bytes_sent, owed, metricsVars >>

TransmitError(s) ==
  /\ pc[s] = "transmit"
  /\ \/ "SendError" \in Faults /\ AbandonJob(s, "SendError")
     \/ ~HasDestination(s) /\ AbandonJob(s, "NotConnected")
  /\ UNCHANGED << sequence_counter, job, frames, sockets_by_port, wire,
                  packets_sent, bytes_sent, owed, metricsVars >>

\* The two fetch_adds after a successful send; the second one made ends the
\* handling of the packet.
CountPackets(s) ==
  /\ pc[s] = "count"
  /\ owed[s].packets # 0
  /\ packets_sent' = packets_sent + owed[s].packets
  /\ owed' = [owed EXCEPT ![s].packets = 0]
  /\ pc' = [pc EXCEPT ![s] = IF owed[s].bytes = 0 THEN AfterPacket(s, packets[s])
                                                  ELSE "count"]
  /\ UNCHANGED << sequence_counter, job, frames, packets, sockets_by_port,
                  wire, dropped, bytes_sent, metricsVars >>

\* Variant with a fault: store in place of fetch_add.
StoreBytes(s) ==
  /\ pc[s] = "count"
  /\ owed[s].bytes # 0
  /\ bytes_sent' = owed[s].bytes
  /\ owed' = [owed EXCEPT ![s].bytes = 0]
  /\ pc' = [pc EXCEPT ![s] = IF owed[s].packets = 0 THEN AfterPacket(s, packets[s])
                                                    ELSE "count"]
  /\ UNCHANGED << sequence_counter, job, frames, packets, sockets_by_port,
                  wire, dropped, packets_sent, metricsVars >>

CountBytes(s) ==
  /\ pc[s] = "count"
  /\ owed[s].bytes # 0
  /\ bytes_sent' = bytes_sent + owed[s].bytes
  /\ owed' = [owed EXCEPT ![s].bytes = 0]
  /\ pc' = [pc EXCEPT ![s] = IF owed[s].packets = 0 THEN AfterPacket(s, packets[s])
                                                    ELSE "count"]
  /\ UNCHANGED << sequence_counter, job, frames, packets, sockets_by_port,
                  wire, dropped, packets_sent, metricsVars >>

Step(s) ==
  \/ ClaimSequence(s)
  \/ FindSocket(s) \/ CreateSocket(s) \/ BindFails(s)
  \/ TransmitOk(s) \/ TransmitWouldBlock(s) \/ TransmitError(s)
  \/ CountPackets(s) \/ CountBytes(s)
-----------------------------------------------------------------------------
(***************************************************************************)
(* The metrics task: get_stats loads the counters one after the other; the *)
(* report takes the differences to the last report.                        *)
(***************************************************************************)

LoadPackets ==
  /\ reports < MaxReports
  /\ stats.packets = NotLoaded
  /\ stats' = [stats EXCEPT !.packets = packets_sent]
  /\ UNCHANGED << sessionVars, prev, reports >>

LoadBytes ==
  /\ reports < MaxReports
  /\ stats.bytes = NotLoaded
  /\ stats' = [stats EXCEPT !.bytes = bytes_sent]
  /\ UNCHANGED << sessionVars, prev, reports >>

Report ==
  /\ stats.packets # NotLoaded
  /\ stats.bytes # NotLoaded
  /\ prev' = stats
  /\ stats' = [packets |-> NotLoaded, bytes |-> NotLoaded]
  /\ reports' = reports + 1
  /\ UNCHANGED sessionVars

Metrics == LoadPackets \/ LoadBytes \/ Report

Next ==
  \/ \E s \in Sessions : ReceiveMessage(s) \/ SendConnectionEvent(s) \/ Step(s)
  \/ Metrics

Spec == Init /\ [][Next]_vars

\* A task that has begun a job keeps running: nothing on the path blocks.  No
\* message has to arrive, and the metrics task may be disabled.
FairSpec == Spec /\ \A s \in Sessions : WF_vars(Step(s))
-----------------------------------------------------------------------------
(***************************************************************************)
(* What the pipeline promises.                                             *)
(***************************************************************************)

\* The shared counter hands every packet a number of its own: no two packets
\* ever put on the network, on the same or on different ports, by the same or
\* by different sessions, carry the same sequence_number
\* (PacketBuilder.sequence_counter, claimed by concurrent tasks).
SequenceUnique ==
  \A p, q \in Ports : \A i \in DOMAIN wire[p], j \in DOMAIN wire[q] :
    wire[p][i].sequence_number = wire[q][j].sequence_number => p = q /\ i = j

\* The packets of one session leave in the order of their numbers, across jobs
\* and in spite of dropped packets and abandoned jobs (build_packets numbers
\* all packets of a message before send_packet_to_port sends the first).
SessionOrder ==
  \A p \in Ports : \A i, j \in DOMAIN wire[p] :
    i < j /\ wire[p][i].session = wire[p][j].session
      => wire[p][i].sequence_number < wire[p][j].sequence_number

\* The packets of session s that are built and not yet sent.
Pending(s) == {packets[s][i] : i \in DOMAIN packets[s]}

OnWire(p) == {wire[p][i] : i \in DOMAIN wire[p]}

\* No sequence number gets lost without a reason: each one handed out belongs
\* to a packet on the network, to one still waiting in its session, or to one
\* whose loss the code has seen (WouldBlock, a failed send, a job given up).
SequenceAccounted ==
  1 .. sequence_counter - 1 =
    {pkt.sequence_number :
       pkt \in (UNION {OnWire(p) : p \in Ports})
               \cup (UNION {Pending(s) : s \in Sessions})
               \cup {d.packet : d \in dropped}}

\* What a receiver gets of a message is a prefix, with holes only where the
\* socket buffer was full: for every packet on the network, each earlier packet
\* of the same message went out before it or was dropped with WouldBlock.  A
\* failed send or bind, which gives up the rest of the message, never lets a
\* later packet, and so never the closing one, through.
MessagePrefix ==
  \A p \in Ports : \A j \in DOMAIN wire[p] :
    LET b == wire[p][j]
    IN  \A k \in 1 .. b.index - 1 :
          \/ \E i \in 1 .. j - 1 :
               /\ wire[p][i].session = b.session
               /\ wire[p][i].job = b.job
               /\ wire[p][i].index = k
          \/ \E d \in dropped :
               /\ d.cause = "WouldBlock"
               /\ d.packet.session = b.session
               /\ d.packet.job = b.job
               /\ d.packet.index = k

\* Sums over the packets of the network and over the sending sessions.
SentPackets == SumFunction([p \in Ports |-> Len(wire[p])])

BytesOf(q) == SumFunction([i \in DOMAIN q |-> q[i].frame.size])

SentBytes == SumFunction([p \in Ports |-> BytesOf(wire[p])])

OwedPackets == SumFunction([s \in Sessions |-> owed[s].packets])

OwedBytes == SumFunction([s \in Sessions |-> owed[s].bytes])

AllCounted ==
  /\ packets_sent + OwedPackets = SentPackets
  /\ bytes_sent + OwedBytes = SentBytes

\* The statistics count exactly what is on the network, except for the
\* additions that running sends have not made yet; when no session is sending
\* they are exact (packets_sent and bytes_sent, added to by concurrent tasks on
\* either socket path, never for a dropped or failed packet).
StatsConservation ==
  /\ AllCounted
  /\ (\A s \in Sessions : pc[s] # "count") =>
       packets_sent = SentPackets /\ bytes_sent = SentBytes

\* A port keeps the socket it was given: sessions racing for the same port
\* never replace a cached socket (contains_key and insert under one lock).
SocketStaysCached ==
  [][\A p \in Ports : sockets_by_port[p] # "none"
       => sockets_by_port'[p] = sockets_by_port[p]]_vars

\* A metrics report never sees a counter go back, so the saturating
\* subtraction of the metrics task never hides a negative rate.
ReportsNeverSaturate ==
  [][Report => stats.packets >= prev.packets /\ stats.bytes >= prev.bytes]_vars

\* What a report shows was really sent, although the two counters are loaded
\* at different moments while other tasks send.
ReportsSendsOnly == prev.packets <= SentPackets /\ prev.bytes <= SentBytes

\* Every job that was begun ends: a full socket buffer, a failed send, a failed
\* bind or connect never wedges a session (FairSpec).
JobsComplete == \A s \in Sessions : pc[s] # "idle" ~> pc[s] = "idle"
-----------------------------------------------------------------------------
(***************************************************************************)
(* The inductive invariant behind SequenceUnique and SessionOrder.         *)
(***************************************************************************)

\* A task is only where it has something to do.
HasWork ==
  \A s \in Sessions :
    /\ pc[s] = "build" => frames[s] # << >>
    /\ pc[s] \in {"lookup", "transmit"} => packets[s] # << >>

\* Numbers in use are below the counter, waiting packets belong to the session
\* that holds them, and a session sends only to its own port.
NumbersBelowCounter ==
  /\ \A s \in Sessions : \A i \in DOMAIN packets[s] :
       /\ packets[s][i].sequence_number < sequence_counter
       /\ packets[s][i].session = s
  /\ \A p \in Ports : \A i \in DOMAIN wire[p] :
       /\ wire[p][i].sequence_number < sequence_counter
       /\ SessionPort[wire[p][i].session] = p

\* The waiting packets of a session are in the order of their numbers.
PendingInOrder ==
  \A s \in Sessions : \A i, j \in DOMAIN packets[s] :
    i < j => packets[s][i].sequence_number < packets[s][j].sequence_number

\* Two sessions never hold the same number.
PendingDisjoint ==
  \A s, t \in Sessions : \A i \in DOMAIN packets[s], j \in DOMAIN packets[t] :
    packets[s][i].sequence_number = packets[t][j].sequence_number => s = t

\* No number that waits is on the network already, and what a session has sent
\* is numbered below what it still has to send.
WireBeforePending ==
  \A p \in Ports, s \in Sessions :
    \A i \in DOMAIN wire[p], j \in DOMAIN packets[s] :
      /\ wire[p][i].sequence_number # packets[s][j].sequence_number
      /\ wire[p][i].session = s
           => wire[p][i].sequence_number < packets[s][j].sequence_number

SequenceInv ==
  /\ NumbersBelowCounter
  /\ PendingInOrder
  /\ PendingDisjoint
  /\ WireBeforePending
  /\ SequenceUnique
  /\ SessionOrder

\* A task between jobs has nothing left over, and only a task that builds has
\* frames; what waits belongs to the current job, and while it is being built
\* it is the beginning of the message.
JobHeld ==
  \A s \in Sessions :
    /\ IF pc[s] = "idle" THEN packets[s] = << >> ELSE job[s] > 0
    /\ pc[s] # "build" => frames[s] = << >>
    /\ \A i \in DOMAIN packets[s] :
         /\ packets[s][i].job = job[s]
         /\ pc[s] = "build" => packets[s][i].index = i

\* A session sends its jobs one after the other; no packet is of a job to come,
\* and one that is being counted is of the current job.
JobsInOrder ==
  /\ \A p \in Ports : \A i \in DOMAIN wire[p] :
       /\ wire[p][i].job \in 1 .. job[wire[p][i].session]
       /\ \A j \in 1 .. i - 1 : wire[p][j].session = wire[p][i].session
                                => wire[p][j].job <= wire[p][i].job
  /\ \A s \in Sessions : pc[s] = "count" =>
       \E i \in DOMAIN wire[SessionPort[s]] :
         wire[SessionPort[s]][i].session = s /\ wire[SessionPort[s]][i].job = job[s]

\* Packet k of the current job of session s is on the network, or was dropped
\* by a full socket buffer.
Gone(s, k) ==
  \/ \E i \in DOMAIN wire[SessionPort[s]] :
       /\ wire[SessionPort[s]][i].session = s
       /\ wire[SessionPort[s]][i].job = job[s]
       /\ wire[SessionPort[s]][i].index = k
  \/ \E d \in dropped :
       /\ d.cause = "WouldBlock"
       /\ d.packet.session = s
       /\ d.packet.job = job[s]
       /\ d.packet.index = k

\* What precedes a waiting packet in its message is gone or waits before it.
PrefixGone ==
  \A s \in Sessions : \A j \in DOMAIN packets[s] :
    \A k \in 1 .. packets[s][j].index - 1 :
      Gone(s, k) \/ \E i \in 1 .. j - 1 : packets[s][i].index = k

\* The invariant behind MessagePrefix.
JobInv == JobHeld /\ JobsInOrder /\ PrefixGone /\ MessagePrefix

\* Only a task behind a successful send owes anything to the counters.
OwesNothingElse ==
  \A s \in Sessions : pc[s] # "count" => owed[s] = [packets |-> 0, bytes |-> 0]

\* The invariant behind StatsConservation and ReportsSendsOnly.
CountInv == OwesNothingElse /\ AllCounted

\* What the metrics task has loaded lies between its last report and the
\* counters, which only grow: the invariant behind ReportsNeverSaturate.
LoadsInOrder ==
  /\ prev.packets <= packets_sent
  /\ prev.bytes <= bytes_sent
  /\ stats.packets # NotLoaded => stats.packets \in prev.packets .. packets_sent
  /\ stats.bytes # NotLoaded => stats.bytes \in prev.bytes .. bytes_sent
-----------------------------------------------------------------------------
(***************************************************************************)
(* What the documents and comments of the repository say and the code does *)
(* not do (see the findings).                                              *)
(***************************************************************************)

\* udp_packet.md, receiver logic: a packet whose number is not the previous one
\* plus 1 means a packet was lost.  So without a loss each port carries
\* consecutive numbers.  This is so only while one session alone builds packets, as
\* in the configuration without symbol_config.ini, and not otherwise.
GapMeansLoss ==
  \A p \in Ports : \A i \in DOMAIN wire[p] :
    i > 1 /\ dropped = {}
      => wire[p][i].sequence_number = wire[p][i - 1].sequence_number + 1

\* udp_broadcaster.rs, the warning on a failed connect: the send_to path will
\* be used for that port, so no packet fails for want of a destination.
UnconnectedUsesSendTo == \A d \in dropped : d.cause # "NotConnected"
=============================================================================
