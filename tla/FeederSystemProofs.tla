------------------------- MODULE FeederSystemProofs -------------------------
(***************************************************************************)
(* What a receiver may conclude from the packets on a port, for any        *)
(* sessions, ports, messages and faults.  Every step of FeederSystem is a  *)
(* step of ConnectionManager and one of FeedPipeline, or leaves them alone *)
(* (ManagerStep, PipelineStep), so that the invariants shown of the two    *)
(* alone hold of the process in which they run together.                   *)
(***************************************************************************)
EXTENDS FeederSystem, OrderLemmas, SequenceTheorems

\* The initial states are those of the components.
LEMMA ComponentsInit == Init => M!Init /\ P!Init
BY DEF Init

\* A step that leaves the message path alone leaves its variables alone, and
\* likewise for the life cycle.
LEMMA ComponentVars ==
  /\ UNCHANGED managerVars => UNCHANGED M!vars
  /\ UNCHANGED pipelineVars => UNCHANGED P!vars
  /\ UNCHANGED vars => UNCHANGED << managerVars, pipelineVars >>
BY DEF managerVars, pipelineVars, vars, M!vars, P!vars

\* Every step of the system is a step of the life cycle or leaves it alone.
LEMMA ManagerStep ==
  ASSUME [Next]_vars
  PROVE  [M!Next]_(M!vars)
<1>1. ASSUME NEW s \in Sessions, main = "running", Announcing(s) \/ Silent(s)
      PROVE  M!Next
  BY <1>1 DEF Announcing, Silent, M!Next, M!TaskStep, M!Environment
<1>2. ASSUME NEW s \in Sessions, Message(s) \/ Sending(s)
      PROVE  UNCHANGED M!vars
  BY <1>2, ComponentVars DEF Message, Sending
<1>3. ASSUME Finished \/ Stopped
      PROVE  M!Next
  BY <1>3 DEF Finished, Stopped, M!Next
<1>4. ASSUME UNCHANGED vars
      PROVE  UNCHANGED M!vars
  BY <1>4, ComponentVars
<1> QED BY <1>1, <1>2, <1>3, <1>4 DEF Next

\* Every step of the system is a step of the message path or leaves it alone.
LEMMA PipelineStep ==
  ASSUME [Next]_vars
  PROVE  [P!Next]_(P!vars)
<1>1. ASSUME NEW s \in Sessions, Announcing(s) \/ Message(s) \/ Sending(s)
      PROVE  P!Next
  BY <1>1 DEF Announcing, Message, Sending, P!Next
<1>2. ASSUME NEW s \in Sessions, Silent(s)
      PROVE  UNCHANGED P!vars
  BY <1>2, ComponentVars DEF Silent
<1>3. ASSUME Finished \/ Stopped
      PROVE  UNCHANGED P!vars
  BY <1>3, ComponentVars DEF Finished, Stopped
<1>4. ASSUME UNCHANGED vars
      PROVE  UNCHANGED P!vars
  BY <1>4, ComponentVars
<1> QED BY <1>1, <1>2, <1>3, <1>4 DEF Next

-----------------------------------------------------------------------------
(***************************************************************************)
(* The results about the components, as results about the system.          *)
(***************************************************************************)

MP == INSTANCE ConnectionManagerProofs WITH SymbolConfig <- TRUE

PP == INSTANCE FeedPipelineProofs WITH MaxJobs <- MostJobs, MaxReports <- 0

\* The constants of the system satisfy what the components assume.
LEMMA ComponentAssumptions ==
  /\ MostJobs \in [Sessions -> Nat]
  /\ M!EndpointKinds = MP!EndpointKinds
  /\ P!RawMessage = PP!RawMessage
  /\ P!FaultKinds = PP!FaultKinds
  /\ PP!IsFiniteSet(Sessions) /\ PP!IsFiniteSet(Ports)
<1>1. MostJobs \in [Sessions -> Nat]
  BY SystemAssumption DEF MostJobs
<1>2. P!RawMessage = PP!RawMessage
  BY DEF P!RawMessage, PP!RawMessage, P!EventTypes, PP!EventTypes
<1>3. PP!IsFiniteSet(Sessions) /\ PP!IsFiniteSet(Ports)
  BY SystemAssumption DEF IsFiniteSet, PP!IsFiniteSet
<1> QED
  BY <1>1, <1>2, <1>3 DEF M!EndpointKinds, MP!EndpointKinds, P!FaultKinds, PP!FaultKinds

\* FeedPipelineProofs speaks of the frames, the steps and the initial states of the
\* message path in the system.
LEMMA SameFrames ==
  ASSUME NEW s, NEW raw
  PROVE  /\ P!FramesOf(s, raw) = PP!FramesOf(s, raw)
         /\ P!build_event_packet_with_exchange = PP!build_event_packet_with_exchange
BY DEF P!FramesOf, PP!FramesOf, P!parse_message, PP!parse_message, P!parser_of,
       PP!parser_of, P!parse_binance_message, PP!parse_binance_message,
       P!parse_default_message, PP!parse_default_message, P!ParseError, PP!ParseError,
       P!build_packets, PP!build_packets, P!build_trade_packets, PP!build_trade_packets,
       P!build_trade_batch_packets, PP!build_trade_batch_packets,
       P!build_order_book_packets, PP!build_order_book_packets,
       P!build_liquidation_packet, PP!build_liquidation_packet, P!build_multi,
       PP!build_multi, P!build_single_value_packet, PP!build_single_value_packet,
       P!build_event_packet_with_exchange, PP!build_event_packet_with_exchange,
       P!chunk_frames, PP!chunk_frames, P!create_packet, PP!create_packet,
       P!set_flags_and_count, PP!set_flags_and_count, P!total_chunks, PP!total_chunks,
       P!chunk_len, PP!chunk_len, P!PacketHeaderSize, PP!PacketHeaderSize,
       P!OrderBookItemSize, PP!OrderBookItemSize, P!TradeTickItemSize,
       PP!TradeTickItemSize, P!LiquidationItemSize, PP!LiquidationItemSize,
       P!PriceValueItemSize, PP!PriceValueItemSize, P!FundingRateItemSize,
       PP!FundingRateItemSize, P!ConnectionStatusSize, PP!ConnectionStatusSize,
       P!TradesPerPacket, PP!TradesPerPacket, P!BatchTradesPerPacket,
       PP!BatchTradesPerPacket, P!LevelsPerPacket, PP!LevelsPerPacket,
       P!MESSAGE_TYPE_ORDER_BOOK, PP!MESSAGE_TYPE_ORDER_BOOK, P!MESSAGE_TYPE_TRADE_TICK,
       PP!MESSAGE_TYPE_TRADE_TICK, P!MESSAGE_TYPE_INDEX_PRICE,
       PP!MESSAGE_TYPE_INDEX_PRICE, P!MESSAGE_TYPE_MARK_PRICE, PP!MESSAGE_TYPE_MARK_PRICE,
       P!MESSAGE_TYPE_FUNDING_RATE, PP!MESSAGE_TYPE_FUNDING_RATE,
       P!MESSAGE_TYPE_LIQUIDATION, PP!MESSAGE_TYPE_LIQUIDATION,
       P!MESSAGE_TYPE_CONNECTION_STATUS, PP!MESSAGE_TYPE_CONNECTION_STATUS

\* The steps of a task that sends.
LEMMA SameSteps ==
  ASSUME NEW s
  PROVE  P!Step(s) <=> PP!Step(s)
BY DEF P!Step, PP!Step, P!ClaimSequence, PP!ClaimSequence, P!AdvanceCounter, PP!AdvanceCounter,
   P!Push, PP!Push, P!SendEntry, PP!SendEntry, P!metricsVars, PP!metricsVars,
   P!FindSocket, PP!FindSocket, P!CreateSocket, PP!CreateSocket, P!OpenSocket, PP!OpenSocket,
   P!BindFails, PP!BindFails, P!AbandonJob, PP!AbandonJob, P!TransmitOk, PP!TransmitOk,
   P!HasDestination, PP!HasDestination, P!TransmitWouldBlock, PP!TransmitWouldBlock,
   P!AfterPacket, PP!AfterPacket, P!TransmitError, PP!TransmitError,
   P!CountPackets, PP!CountPackets, P!CountBytes, PP!CountBytes

\* The initial states and all steps of the message path.
LEMMA SamePipeline ==
  /\ P!Init => PP!Init
  /\ [P!Next]_(P!vars) => [PP!Next]_(PP!vars)
<1>1. P!Init => PP!Init
  BY DEF P!Init, PP!Init, P!NotLoaded, PP!NotLoaded
<1>2. P!Metrics => PP!Metrics
  BY DEF P!Metrics, PP!Metrics, P!LoadPackets, PP!LoadPackets, P!LoadBytes, PP!LoadBytes,
         P!Report, PP!Report, P!sessionVars, PP!sessionVars, P!NotLoaded, PP!NotLoaded
<1>3. ASSUME NEW s, NEW fs PROVE P!BeginJob(s, fs) <=> PP!BeginJob(s, fs)
  BY DEF P!BeginJob, PP!BeginJob, P!metricsVars, PP!metricsVars
<1>4. ASSUME NEW s PROVE P!ReceiveMessage(s) => PP!ReceiveMessage(s)
  BY <1>3, SameFrames DEF P!ReceiveMessage, PP!ReceiveMessage
<1>5. ASSUME NEW s PROVE P!SendConnectionEvent(s) => PP!SendConnectionEvent(s)
  BY <1>3, SameFrames DEF P!SendConnectionEvent, PP!SendConnectionEvent
<1>6. UNCHANGED P!vars => UNCHANGED PP!vars
  BY DEF P!vars, PP!vars
<1>7. P!Next => PP!Next
  BY <1>2, <1>4, <1>5, SameSteps DEF P!Next, PP!Next
<1> QED BY <1>1, <1>6, <1>7

\* ConnectionManagerProofs speaks of the life cycle in the system.
LEMMA SameManager ==
  /\ M!Init => MP!Init
  /\ [M!Next]_(M!vars) => [MP!Next]_(MP!vars)
<1>1. M!Init => MP!Init
  BY DEF M!Init, MP!Init, M!NoEvent, MP!NoEvent, M!NoExit, MP!NoExit
<1>2. ASSUME NEW s, M!TaskStep(s) PROVE MP!TaskStep(s)
  BY <1>2 DEF M!TaskStep, MP!TaskStep, M!Attempt, MP!Attempt, M!ConfigurationFails,
     MP!ConfigurationFails, M!GiveUp, MP!GiveUp, M!BackOff, MP!BackOff, M!Wake, MP!Wake,
     M!Announce, MP!Announce, M!mainVars, MP!mainVars, M!Exhausted, MP!Exhausted,
     M!calculate_backoff_delay, MP!calculate_backoff_delay, M!Pow2, MP!Pow2
<1>3. ASSUME NEW s, M!Environment(s) PROVE MP!Environment(s)
  BY <1>3 DEF M!Environment, MP!Environment, M!ConnectFails, MP!ConnectFails, M!Established,
     MP!Established, M!PeerVanishes, MP!PeerVanishes, M!ConnectionLost, MP!ConnectionLost,
     M!ConnectionLostSilently, MP!ConnectionLostSilently, M!TaskPanics, MP!TaskPanics,
     M!LeaveLoop, MP!LeaveLoop, M!Announce, MP!Announce, M!mainVars, MP!mainVars
<1>4. M!ConnectionsFinished \/ M!CtrlC \/ M!TimerExpires
        => MP!ConnectionsFinished \/ MP!CtrlC \/ MP!TimerExpires
  BY DEF M!ConnectionsFinished, MP!ConnectionsFinished, M!CtrlC, MP!CtrlC, M!TimerExpires,
     MP!TimerExpires, M!Ended, MP!Ended, M!sessionVars, MP!sessionVars
<1>5. UNCHANGED M!vars => UNCHANGED MP!vars
  BY DEF M!vars, MP!vars
<1>6. M!Next => MP!Next
  BY <1>2, <1>3, <1>4 DEF M!Next, MP!Next
<1> QED BY <1>1, <1>5, <1>6

\* What is invariant of each component.
ComponentInv == MP!Inv /\ PP!TypeInv /\ PP!SequenceInv /\ PP!JobInv

\* It holds initially, as the components show.
LEMMA ComponentInvInit == Init => ComponentInv
<1> SUFFICES ASSUME Init PROVE ComponentInv
  OBVIOUS
<1>1. MP!Init /\ PP!Init
  BY ComponentsInit, SameManager, SamePipeline
<1>2. MP!Inv
  BY <1>1, MP!InvInit, SystemAssumption, ComponentAssumptions
<1>3. PP!TypeInv /\ PP!SequenceInv /\ PP!JobInv
  BY <1>1, PP!TypeInit, PP!SequenceInit, PP!JobInit, SystemAssumption, ComponentAssumptions
<1> QED BY <1>2, <1>3 DEF ComponentInv

\* Every step of the system keeps it, being a step of each component or none.
LEMMA ComponentInvStep == ComponentInv /\ [Next]_vars => ComponentInv'
<1> SUFFICES ASSUME ComponentInv, [Next]_vars PROVE ComponentInv'
  OBVIOUS
<1>1. [MP!Next]_(MP!vars) /\ [PP!Next]_(PP!vars)
  BY ManagerStep, PipelineStep, SameManager, SamePipeline
<1>2. MP!Inv'
  BY <1>1, MP!InvStep, SystemAssumption, ComponentAssumptions DEF ComponentInv
<1>3. PP!TypeInv'
  BY <1>1, PP!TypeStep, SystemAssumption, ComponentAssumptions DEF ComponentInv
<1>4. PP!SequenceInv'
  BY <1>1, PP!SequenceStep, SystemAssumption, ComponentAssumptions DEF ComponentInv
<1>5. PP!JobInv'
  BY <1>1, PP!JobStep, SystemAssumption, ComponentAssumptions DEF ComponentInv
<1> QED BY <1>2, <1>3, <1>4, <1>5 DEF ComponentInv

-----------------------------------------------------------------------------
(***************************************************************************)
(* What the jobs of a session say.                                         *)
(***************************************************************************)

\* The types of what the two components share here.
LEMMA SystemTypes ==
  ASSUME ComponentInv
  PROVE  /\ pc \in [Sessions -> {"idle", "build", "lookup", "transmit", "count"}]
         /\ job \in [Sessions -> Nat]
         /\ event \in [Sessions -> M!Event]
         /\ Data \notin M!Event
         /\ M!NoEvent.current_status # "CONNECTING"
<1>1. PP!TypeOK /\ MP!TypeOK
  BY DEF ComponentInv, PP!TypeInv, MP!Inv, MP!Sequencing
<1>2. event \in [Sessions -> M!Event]
  BY <1>1 DEF MP!TypeOK, MP!Event, M!Event, MP!ConnectionStatuses, M!ConnectionStatuses
<1>3. Data \notin M!Event
  <2>1. Data.current_status = "data"
    BY DEF Data
  <2>2. \A x \in M!Event : x.current_status # "data"
    BY DEF M!Event, M!ConnectionStatuses
  <2> QED BY <2>1, <2>2
<1>4. M!NoEvent.current_status # "CONNECTING"
  BY DEF M!NoEvent
<1> QED BY <1>1, <1>2, <1>3, <1>4 DEF PP!TypeOK

\* The jobs of a session that leaves its content alone are what they were.
LEMMA SameJobs ==
  ASSUME NEW t, content'[t] = content[t]
  PROVE  /\ EventJobs(t)' = EventJobs(t)
         /\ \A e, j : LastEventBefore(t, e, j)' <=> LastEventBefore(t, e, j)
BY DEF EventJobs, LastEventBefore

\* No session has said anything yet.
LEMMA SystemInit == Init => SystemInv
<1> SUFFICES ASSUME Init PROVE SystemInv
  OBVIOUS
<1>1. \A s \in Sessions : content[s] = << >> /\ EventJobs(s) = {}
  BY DEF Init, EventJobs
<1>2. EventsTold
  BY <1>1 DEF EventsTold
<1>3. content \in [Sessions -> Seq(M!Event \cup {Data})]
  BY EmptySeq DEF Init
<1>4. \A s \in Sessions : job[s] = 0 /\ event[s] = M!NoEvent
  BY DEF Init, M!Init, P!Init
<1>5. ContentKnown
  BY <1>1, <1>3, <1>4 DEF ContentKnown, Known
<1>6. AwaitedAtEnd
  BY DEF Init, M!Init, AwaitedAtEnd
<1> QED BY <1>2, <1>5, <1>6 DEF SystemInv

\* A job begins: its content is put behind that of the jobs before it.
LEMMA JobAppended ==
  ASSUME ComponentInv, SystemInv, NEW s \in Sessions, NEW x \in M!Event \cup {Data}, NEW fs,
         P!BeginJob(s, fs), x # Data => fs # << >>,
         content' = [content EXCEPT ![s] = Append(@, x)]
  PROVE  /\ EventsTold'
         /\ content' \in [Sessions -> Seq(M!Event \cup {Data})]
         /\ job[s] \in Nat /\ job'[s] = job[s] + 1 /\ Len(content'[s]) = job[s] + 1
         /\ \A t \in Sessions : t # s => content'[t] = content[t] /\ job'[t] = job[t]
         /\ DOMAIN content[s] = 1 .. job[s] /\ DOMAIN content'[s] = 1 .. job[s] + 1
         /\ \A j \in 1 .. job[s] : content'[s][j] = content[s][j]
         /\ content'[s][job[s] + 1] = x
<1> DEFINE n == job[s]
<1>1. /\ pc \in [Sessions -> {"idle", "build", "lookup", "transmit", "count"}]
      /\ job \in [Sessions -> Nat]
      /\ content \in [Sessions -> Seq(M!Event \cup {Data})]
      /\ Len(content[s]) = n
  BY SystemTypes DEF SystemInv, ContentKnown, Known
<1>2. /\ pc[s] = "idle" /\ wire' = wire /\ dropped' = dropped
      /\ pc'[s] = IF fs = << >> THEN "idle" ELSE "build"
      /\ \A t \in Sessions : t # s => pc'[t] = pc[t] /\ job'[t] = job[t]
      /\ job'[s] = n + 1
  BY <1>1 DEF P!BeginJob
<1>3. /\ content' \in [Sessions -> Seq(M!Event \cup {Data})]
      /\ Len(content'[s]) = n + 1
      /\ \A t \in Sessions : t # s => content'[t] = content[t]
      /\ DOMAIN content[s] = 1 .. n /\ DOMAIN content'[s] = 1 .. n + 1
      /\ \A j \in 1 .. n : content'[s][j] = content[s][j]
      /\ content'[s][n + 1] = x
  <2>1. content[s] \in Seq(M!Event \cup {Data}) /\ content'[s] = Append(content[s], x)
    BY <1>1
  <2>2. /\ Append(content[s], x) \in Seq(M!Event \cup {Data})
        /\ Len(Append(content[s], x)) = n + 1
        /\ DOMAIN content[s] = 1 .. n /\ DOMAIN Append(content[s], x) = 1 .. n + 1
        /\ \A j \in 1 .. n : Append(content[s], x)[j] = content[s][j]
        /\ Append(content[s], x)[n + 1] = x
    BY <1>1, <2>1
  <2>3. content' \in [Sessions -> Seq(M!Event \cup {Data})]
    BY <1>1, <2>2
  <2>4. \A t \in Sessions : t # s => content'[t] = content[t]
    BY <1>1
  <2> QED BY <2>1, <2>2, <2>3, <2>4
<1>4. EventsTold'
  <2> SUFFICES ASSUME NEW t \in Sessions, NEW j \in EventJobs(t)'
               PROVE  OnPort(t, j)' \/ DroppedJob(t, j)' \/ (j = job'[t] /\ pc'[t] # "idle")
    BY DEF EventsTold, Awaited
  <2>1. OnPort(t, j)' = OnPort(t, j) /\ DroppedJob(t, j)' = DroppedJob(t, j)
    BY <1>2 DEF OnPort, DroppedJob
  <2>2. CASE t # s
    <3>1. j \in EventJobs(t)
      BY <1>3, <2>2, SameJobs
    <3> QED BY <1>2, <2>1, <2>2, <3>1 DEF SystemInv, EventsTold, Awaited
  <2>3. CASE t = s /\ j # n + 1
    <3>1. j \in EventJobs(s)
      BY <1>1, <1>3, <2>3 DEF EventJobs
    <3> QED BY <1>2, <2>1, <2>3, <3>1 DEF SystemInv, EventsTold, Awaited
  <2>4. CASE t = s /\ j = n + 1
    <3>1. x # Data
      BY <1>3, <2>4 DEF EventJobs
    <3> QED BY <1>2, <2>4, <3>1
  <2> QED BY <2>2, <2>3, <2>4
<1> QED BY <1>1, <1>2, <1>3, <1>4

\* A session that is not concerned knows what it knew.
LEMMA OthersKnown ==
  ASSUME NEW t \in Sessions, Known(t), content'[t] = content[t], job'[t] = job[t],
         event'[t] = event[t]
  PROVE  Known(t)'
<1>1. /\ EventJobs(t)' = EventJobs(t)
      /\ \A e, j : LastEventBefore(t, e, j)' <=> LastEventBefore(t, e, j)
  BY SameJobs
<1>2. \A e : LastEventBefore(t, e, job[t] + 1)' <=> LastEventBefore(t, e, job[t] + 1)
  BY DEF LastEventBefore, EventJobs
<1> QED BY <1>1, <1>2 DEF Known

\* A status event is the last one from the moment its job begins.
LEMMA SystemAnnounce ==
  ASSUME ComponentInv, ComponentInv', SystemInv, NEW s \in Sessions,
         main = "running", Announcing(s)
  PROVE  SystemInv'
<1> DEFINE n == job[s]
<1>1. /\ main' = "running"
      /\ \A t \in Sessions : t # s => event'[t] = event[t]
  <2>1. event \in [Sessions -> M!Event]
    BY SystemTypes
  <2> QED BY <2>1 DEF Announcing, M!Attempt, M!ConnectionLost, M!LeaveLoop, M!GiveUp, M!BackOff,
                      M!Announce, M!mainVars
<1>2. event'[s] \in M!Event /\ event'[s] # Data
  <2>1. MP!TypeOK' /\ Data \notin M!Event
    BY SystemTypes DEF ComponentInv, MP!Inv, MP!Sequencing
  <2>2. event' \in [Sessions -> M!Event]
    BY <2>1 DEF MP!TypeOK, MP!Event, M!Event, MP!ConnectionStatuses, M!ConnectionStatuses
  <2> QED BY <2>1, <2>2
<1>3. PICK fs : P!BeginJob(s, fs) /\ fs # << >>
  BY DEF Announcing, P!SendConnectionEvent
<1>4. PICK x \in M!Event \cup {Data} : x = event'[s]
  BY <1>2
<1>5. content' = [content EXCEPT ![s] = Append(@, x)]
  BY <1>4 DEF Announcing
<1>6. /\ EventsTold'
      /\ content' \in [Sessions -> Seq(M!Event \cup {Data})]
      /\ n \in Nat /\ job'[s] = n + 1 /\ Len(content'[s]) = n + 1
      /\ \A t \in Sessions : t # s => content'[t] = content[t] /\ job'[t] = job[t]
      /\ DOMAIN content[s] = 1 .. n /\ DOMAIN content'[s] = 1 .. n + 1
      /\ \A j \in 1 .. n : content'[s][j] = content[s][j]
      /\ content'[s][n + 1] = x
  BY <1>3, <1>5, JobAppended
<1> HIDE DEF n
<1>7. EventJobs(s)' = EventJobs(s) \cup {n + 1}
  BY <1>2, <1>4, <1>6 DEF EventJobs
<1>8. \A j \in 1 .. n : \A e : LastEventBefore(s, e, j) => LastEventBefore(s, e, j)'
  BY <1>6, <1>7 DEF LastEventBefore
<1>9. \A e \in EventJobs(s)' : LastEventBefore(s, e, job[s] + 1)' => content'[s][e] = event'[s]
  <2>1. ASSUME NEW e \in EventJobs(s)', LastEventBefore(s, e, job[s] + 1)'
        PROVE  e = n + 1
    <3>1. \A k \in EventJobs(s)' : k < (n + 1) + 1 => k <= e
      BY <1>6, <2>1 DEF LastEventBefore
    <3>2. n + 1 <= e
      BY <1>6, <1>7, <3>1
    <3>3. e \in 1 .. n + 1
      BY <1>6 DEF EventJobs
    <3> QED BY <1>6, <3>2, <3>3
  <2> QED BY <1>4, <1>6, <2>1
<1>10. \A j \in DOMAIN content'[s] :
         content'[s][j] = Data =>
           \E e \in EventJobs(s)' :
             LastEventBefore(s, e, j)' /\ content'[s][e].current_status = "CONNECTING"
  <2> SUFFICES ASSUME NEW j \in DOMAIN content'[s], content'[s][j] = Data
               PROVE  \E e \in EventJobs(s)' :
                        LastEventBefore(s, e, j)' /\ content'[s][e].current_status = "CONNECTING"
    OBVIOUS
  <2>1. j \in 1 .. n /\ content[s][j] = Data
    BY <1>2, <1>4, <1>6
  <2>2. PICK e \in EventJobs(s) :
          LastEventBefore(s, e, j) /\ content[s][e].current_status = "CONNECTING"
    BY <1>6, <2>1 DEF SystemInv, ContentKnown, Known
  <2>3. e \in 1 .. n
    BY <1>6 DEF EventJobs
  <2> QED BY <1>6, <1>7, <1>8, <2>1, <2>2, <2>3
<1>11. ContentKnown'
  <2>1. EventJobs(s)' # {}
    BY <1>7
  <2>2. Known(s)'
    BY <1>6, <1>9, <1>10, <2>1 DEF Known
  <2>3. \A t \in Sessions : t # s => Known(t)'
    BY <1>1, <1>6, OthersKnown DEF SystemInv, ContentKnown
  <2> QED BY <1>6, <2>2, <2>3 DEF ContentKnown
<1>12. AwaitedAtEnd'
  BY <1>1 DEF AwaitedAtEnd
<1> QED BY <1>6, <1>11, <1>12 DEF SystemInv

\* The event jobs of a session are numbers up to its current job.
LEMMA EventJobsBound ==
  ASSUME ComponentInv, SystemInv, NEW s \in Sessions
  PROVE  /\ job[s] \in Nat /\ DOMAIN content[s] = 1 .. job[s]
         /\ EventJobs(s) \subseteq 1 .. job[s]
         /\ EventJobs(s) \in SUBSET Nat
<1>1. job[s] \in Nat
  BY SystemTypes
<1>2. content[s] \in Seq(M!Event \cup {Data}) /\ Len(content[s]) = job[s]
  BY DEF SystemInv, ContentKnown, Known
<1>3. DOMAIN content[s] = 1 .. job[s]
  BY <1>2
<1> QED BY <1>1, <1>3 DEF EventJobs

\* A session that has announced something has a last event, and that is its
\* status.
LEMMA LastEventExists ==
  ASSUME ComponentInv, SystemInv, NEW s \in Sessions, EventJobs(s) # {}
  PROVE  \E e \in EventJobs(s) : /\ \A k \in EventJobs(s) : k <= e
                                 /\ LastEventBefore(s, e, job[s] + 1)
                                 /\ content[s][e] = event[s]
<1>1. /\ job[s] \in Nat /\ EventJobs(s) \subseteq 1 .. job[s]
      /\ EventJobs(s) \in SUBSET Nat
  BY EventJobsBound
<1>2. \A k \in EventJobs(s) : k <= job[s]
  BY <1>1
<1>3. PICK e \in EventJobs(s) : \A k \in EventJobs(s) : k <= e
  BY <1>1, <1>2, GreatestNatural
<1>4. LastEventBefore(s, e, job[s] + 1)
  BY <1>1, <1>3 DEF LastEventBefore
<1> QED BY <1>3, <1>4 DEF SystemInv, ContentKnown, Known

\* A message is received by a session whose last event is CONNECTING.
LEMMA SystemMessage ==
  ASSUME ComponentInv, SystemInv, NEW s \in Sessions, main = "running", Message(s)
  PROVE  SystemInv'
<1> DEFINE n == job[s]
<1>1. main' = "running" /\ event' = event
  BY DEF Message, managerVars
<1>2. PICK fs : P!BeginJob(s, fs)
  BY DEF Message, P!ReceiveMessage
<1>3. /\ EventsTold'
      /\ content' \in [Sessions -> Seq(M!Event \cup {Data})]
      /\ n \in Nat /\ job'[s] = n + 1 /\ Len(content'[s]) = n + 1
      /\ \A t \in Sessions : t # s => content'[t] = content[t] /\ job'[t] = job[t]
      /\ DOMAIN content[s] = 1 .. n /\ DOMAIN content'[s] = 1 .. n + 1
      /\ \A j \in 1 .. n : content'[s][j] = content[s][j]
      /\ content'[s][n + 1] = Data
  <2>1. Data \in M!Event \cup {Data}
    OBVIOUS
  <2>2. content' = [content EXCEPT ![s] = Append(@, Data)]
    BY DEF Message
  <2> QED BY <1>2, <2>1, <2>2, JobAppended
<1>4. EventJobs(s)' = EventJobs(s) /\ EventJobs(s) \subseteq 1 .. n
  BY <1>3 DEF EventJobs
<1>5. \A j : \A e : LastEventBefore(s, e, j)' <=> LastEventBefore(s, e, j)
  BY <1>4 DEF LastEventBefore
<1>6. event[s].current_status = "CONNECTING"
  <2>1. phase[s] = "open"
    BY DEF Message, Receiving
  <2> QED BY <2>1 DEF ComponentInv, MP!Inv, MP!Sequencing, MP!EventByPhase
<1>7. EventJobs(s) # {}
  BY <1>6, SystemTypes DEF SystemInv, ContentKnown, Known
<1>8. PICK last \in EventJobs(s) : /\ \A k \in EventJobs(s) : k <= last
                                   /\ LastEventBefore(s, last, n + 1)
                                   /\ content[s][last] = event[s]
  BY <1>7, LastEventExists
<1> HIDE DEF n
<1>9. \A e \in EventJobs(s)' : LastEventBefore(s, e, job[s] + 1)' => content'[s][e] = event'[s]
  <2>1. ASSUME NEW e \in EventJobs(s), LastEventBefore(s, e, (n + 1) + 1)
        PROVE  e = last
    <3>1. e \in 1 .. n /\ last \in 1 .. n
      BY <1>4
    <3>2. last <= e
      BY <1>3, <2>1, <3>1 DEF LastEventBefore
    <3>3. e <= last
      BY <1>8
    <3> QED BY <1>3, <3>1, <3>2, <3>3
  <2>2. ASSUME NEW e \in EventJobs(s)', LastEventBefore(s, e, job[s] + 1)'
        PROVE  LastEventBefore(s, e, (n + 1) + 1)
    BY <1>3, <1>4, <2>2 DEF LastEventBefore
  <2> QED BY <1>1, <1>3, <1>4, <1>8, <2>1, <2>2
<1>10. \A j \in DOMAIN content'[s] :
         content'[s][j] = Data =>
           \E e \in EventJobs(s)' :
             LastEventBefore(s, e, j)' /\ content'[s][e].current_status = "CONNECTING"
  <2> SUFFICES ASSUME NEW j \in DOMAIN content'[s], content'[s][j] = Data
               PROVE  \E e \in EventJobs(s) :
                        LastEventBefore(s, e, j) /\ content[s][e].current_status = "CONNECTING"
    BY <1>3, <1>4, <1>5
  <2>1. CASE j = n + 1
    BY <1>6, <1>8, <2>1
  <2>2. CASE j # n + 1
    <3>1. j \in DOMAIN content[s] /\ content[s][j] = Data
      BY <1>3, <2>2
    <3> QED BY <3>1 DEF SystemInv, ContentKnown, Known
  <2> QED BY <2>1, <2>2
<1>11. ContentKnown'
  <2>1. Known(s)'
    BY <1>3, <1>4, <1>7, <1>9, <1>10 DEF Known
  <2>2. \A t \in Sessions : t # s => Known(t)'
    BY <1>1, <1>3, OthersKnown DEF SystemInv, ContentKnown
  <2> QED BY <1>3, <2>1, <2>2 DEF ContentKnown
<1>12. AwaitedAtEnd'
  BY <1>1 DEF AwaitedAtEnd
<1> QED BY <1>3, <1>11, <1>12 DEF SystemInv

\* Sending moves packets and ends jobs; a job ends with a trace.
LEMMA SystemSend ==
  ASSUME ComponentInv, SystemInv, NEW s \in Sessions, main = "running", Sending(s)
  PROVE  SystemInv'
<1>1. main' = "running" /\ event' = event /\ content' = content
  BY DEF Sending, managerVars
<1>2. PP!Step(s) /\ PP!TypeInv /\ PP!SequenceInv /\ PP!JobInv
  BY SameSteps DEF Sending, ComponentInv
<1>3. /\ PP!Grows
      /\ pc[s] # "idle" /\ job' = job
      /\ \A t \in Sessions : t # s => pc'[t] = pc[t]
      /\ \A j : j = job[s] /\ pc'[s] = "idle" => PP!Traced(s, j)'
  BY <1>2, PP!JobTrace, SystemAssumption, ComponentAssumptions
<1>4. ASSUME NEW t \in Sessions, NEW j
      PROVE  /\ PP!Traced(t, j) <=> OnPort(t, j) \/ DroppedJob(t, j)
             /\ PP!Traced(t, j)' <=> OnPort(t, j)' \/ DroppedJob(t, j)'
  BY DEF PP!Traced, OnPort, DroppedJob
<1>5. EventsTold'
  <2> SUFFICES ASSUME NEW t \in Sessions, NEW j \in EventJobs(t)
               PROVE  PP!Traced(t, j)' \/ (j = job[t] /\ pc'[t] # "idle")
    <3>1. \A t \in Sessions : EventJobs(t)' = EventJobs(t)
      BY <1>1, SameJobs
    <3> QED BY <1>3, <1>4, <3>1 DEF EventsTold, Awaited
  <2>1. PP!Traced(t, j) \/ (j = job[t] /\ pc[t] # "idle")
    BY <1>4 DEF SystemInv, EventsTold, Awaited
  <2>2. CASE PP!Traced(t, j)
    BY <1>3, <2>2, PP!TraceStays, SystemAssumption, ComponentAssumptions
  <2>3. CASE j = job[t] /\ pc[t] # "idle"
    BY <1>3, <2>3
  <2> QED BY <2>1, <2>2, <2>3
<1>6. ContentKnown'
  <2>1. \A t \in Sessions : Known(t)'
    BY <1>1, <1>3, OthersKnown DEF SystemInv, ContentKnown
  <2> QED BY <1>1, <2>1 DEF SystemInv, ContentKnown
<1>7. AwaitedAtEnd'
  BY <1>1 DEF AwaitedAtEnd
<1> QED BY <1>5, <1>6, <1>7 DEF SystemInv

\* A step that sends nothing leaves what was said alone.
LEMMA SystemQuiet ==
  ASSUME SystemInv, UNCHANGED << event, pipelineVars, content >>, AwaitedAtEnd'
  PROVE  SystemInv'
<1>1. UNCHANGED << pc, job, wire, dropped >>
  BY DEF pipelineVars
<1>2. EventsTold'
  BY <1>1 DEF SystemInv, EventsTold, EventJobs, OnPort, DroppedJob, Awaited
<1>3. \A t \in Sessions : Known(t)'
  BY <1>1, OthersKnown DEF SystemInv, ContentKnown
<1>4. ContentKnown'
  BY <1>3 DEF SystemInv, ContentKnown
<1> QED BY <1>2, <1>4 DEF SystemInv

\* Every step of the system keeps its invariant.
LEMMA SystemStep == ComponentInv /\ ComponentInv' /\ SystemInv /\ [Next]_vars => SystemInv'
<1> SUFFICES ASSUME ComponentInv, ComponentInv', SystemInv, [Next]_vars PROVE SystemInv'
  OBVIOUS
<1>1. ASSUME NEW s \in Sessions, main = "running", Announcing(s) PROVE SystemInv'
  BY <1>1, SystemAnnounce
<1>2. ASSUME NEW s \in Sessions, main = "running", Message(s) PROVE SystemInv'
  BY <1>2, SystemMessage
<1>3. ASSUME NEW s \in Sessions, main = "running", Sending(s) PROVE SystemInv'
  BY <1>3, SystemSend
<1>4. ASSUME NEW s \in Sessions, main = "running", Silent(s) PROVE SystemInv'
  <2>1. main' = "running" /\ UNCHANGED << event, pipelineVars, content >>
    BY <1>4 DEF Silent, M!ConfigurationFails, M!ConnectFails, M!Established, M!PeerVanishes,
         M!ConnectionLostSilently, M!LeaveLoop, M!TaskPanics, M!Wake, M!mainVars
  <2>2. AwaitedAtEnd'
    BY <2>1 DEF AwaitedAtEnd
  <2> QED BY <2>1, <2>2, SystemQuiet
<1>5. CASE Finished
  <2>1. /\ UNCHANGED << event, pipelineVars, content >>
        /\ \A s \in Sessions : Awaited(s)
    BY <1>5 DEF Finished, M!ConnectionsFinished, M!sessionVars
  <2>2. AwaitedAtEnd'
    BY <2>1 DEF AwaitedAtEnd, Awaited, pipelineVars
  <2> QED BY <2>1, <2>2, SystemQuiet
<1>6. CASE Stopped
  <2>1. UNCHANGED << event, pipelineVars, content >> /\ main' # "finished"
    BY <1>6 DEF Stopped, M!CtrlC, M!TimerExpires, M!sessionVars
  <2>2. AwaitedAtEnd'
    BY <2>1 DEF AwaitedAtEnd
  <2> QED BY <2>1, <2>2, SystemQuiet
<1>7. CASE UNCHANGED vars
  <2>1. UNCHANGED << event, pipelineVars, content, main, pc >>
    BY <1>7 DEF vars, managerVars, pipelineVars
  <2>2. AwaitedAtEnd'
    BY <2>1 DEF SystemInv, AwaitedAtEnd, Awaited
  <2> QED BY <2>1, <2>2, SystemQuiet
<1> QED BY <1>1, <1>2, <1>3, <1>4, <1>5, <1>6, <1>7 DEF Next

\* The invariants of the components and of the system hold in all states.
THEOREM SystemInvariant == Spec => [](ComponentInv /\ SystemInv)
<1>1. Init => ComponentInv /\ SystemInv
  BY ComponentInvInit, SystemInit
<1>2. ComponentInv /\ SystemInv /\ [Next]_vars => ComponentInv' /\ SystemInv'
  BY ComponentInvStep, SystemStep
<1> QED BY <1>1, <1>2, PTL DEF Spec

-----------------------------------------------------------------------------
(***************************************************************************)
(* What a receiver of the packets knows.                                   *)
(***************************************************************************)

\* The packets of a session are on its port in the order of their jobs, each of
\* a job that has begun.
LEMMA PlacesInOrder ==
  ASSUME ComponentInv, SystemInv, NEW s \in Sessions
  PROVE  LET w == wire[SessionPort[s]]
         IN  /\ Len(w) \in Nat /\ DOMAIN w = 1 .. Len(w)
             /\ \A i \in DOMAIN w : w[i].session = s =>
                  /\ w[i].job \in DOMAIN content[s]
                  /\ (Payload(w[i]) # Data) <=> w[i].job \in EventJobs(s)
             /\ \A i, j \in DOMAIN w :
                  i <= j /\ w[i].session = s /\ w[j].session = s => w[i].job <= w[j].job
<1> DEFINE w == wire[SessionPort[s]]
<1>1. SessionPort[s] \in Ports
  BY SystemAssumption
<1>2. w \in Seq(PP!Packet)
  BY <1>1 DEF ComponentInv, PP!TypeInv, PP!TypeOK
<1>3. Len(w) \in Nat /\ DOMAIN w = 1 .. Len(w)
  BY <1>2
<1>4. job[s] \in Nat /\ DOMAIN content[s] = 1 .. job[s]
  BY EventJobsBound
<1>5. \A i \in DOMAIN w : w[i].session = s => w[i].job \in 1 .. job[s]
  BY <1>1 DEF ComponentInv, PP!JobInv, PP!JobsInOrder
<1>6. \A i \in DOMAIN w : w[i].session = s => ((Payload(w[i]) # Data) <=> w[i].job \in EventJobs(s))
  BY <1>4, <1>5 DEF Payload, EventJobs
<1>7. ASSUME NEW i \in DOMAIN w, NEW j \in DOMAIN w, i <= j, w[i].session = s, w[j].session = s
      PROVE  w[i].job <= w[j].job
  <2>1. CASE i = j
    <3>1. w[i].job \in Nat
      BY <1>4, <1>5, <1>7
    <3> QED BY <2>1, <3>1
  <2>2. CASE i # j
    <3>1. i \in 1 .. j - 1
      BY <1>3, <1>7, <2>2
    <3> QED BY <1>1, <1>7, <3>1 DEF ComponentInv, PP!JobInv, PP!JobsInOrder
  <2> QED BY <2>1, <2>2
<1> QED BY <1>3, <1>4, <1>5, <1>6, <1>7

\* Where the last event of a session before job b is on its port, the last event
\* packet before place n is one of it, for any n between them.
LEMMA LastEventPlace ==
  ASSUME ComponentInv, SystemInv, NEW s \in Sessions, NEW b \in Nat, NEW n \in Nat,
         NEW e \in EventJobs(s), e < b, \A k \in EventJobs(s) : k < b => k <= e,
         NEW place \in DOMAIN wire[SessionPort[s]], place < n,
         wire[SessionPort[s]][place].session = s, wire[SessionPort[s]][place].job = e,
         \A i \in EventPlaces(s) : i < n => wire[SessionPort[s]][i].job < b
  PROVE  LET before == {i \in EventPlaces(s) : i < n}
         IN  before # {} /\ EventAt(s, Max(before)) = content[s][e]
<1> DEFINE w == wire[SessionPort[s]]
           before == {i \in EventPlaces(s) : i < n}
<1>1. /\ Len(w) \in Nat /\ DOMAIN w = 1 .. Len(w)
      /\ \A i \in DOMAIN w : w[i].session = s =>
           /\ w[i].job \in DOMAIN content[s]
           /\ (Payload(w[i]) # Data) <=> w[i].job \in EventJobs(s)
      /\ \A i, j \in DOMAIN w :
           i <= j /\ w[i].session = s /\ w[j].session = s => w[i].job <= w[j].job
  BY PlacesInOrder
<1>2. EventJobs(s) \in SUBSET Nat
  BY EventJobsBound
<1>3. before = {i \in DOMAIN w : i < n /\ w[i].session = s /\ w[i].job \in EventJobs(s)}
  BY <1>1 DEF EventPlaces
<1>4. place \in before
  BY <1>3
<1>5. before \in SUBSET Nat /\ \A i \in before : i <= n
  BY <1>1, <1>3
<1> HIDE DEF before
<1>6. PICK g \in before : \A i \in before : i <= g
  BY <1>4, <1>5, GreatestNatural
<1>7. Max(before) = g
  <2>1. before \in SUBSET Int
    BY <1>5
  <2> QED BY <1>6, <2>1, MaxIs
<1>8. g \in DOMAIN w /\ w[g].session = s /\ w[g].job \in EventJobs(s) /\ place <= g
  BY <1>3, <1>4, <1>6
<1>9. w[g].job = e
  <2>1. w[g].job < b
    BY <1>6 DEF before
  <2>2. w[g].job <= e
    BY <1>8, <2>1
  <2>3. e <= w[g].job
    BY <1>1, <1>8
  <2>4. e \in Nat /\ w[g].job \in Nat
    BY <1>2, <1>8
  <2> QED BY <2>2, <2>3, <2>4
<1>10. before # {} /\ EventAt(s, Max(before)) = content[s][e]
  BY <1>4, <1>7, <1>8, <1>9 DEF EventAt, Payload
<1> QED BY <1>10 DEF before

\* Every packet on a port is of a session of that port.
LEMMA SenderSpeaks ==
  ASSUME ComponentInv, NEW p \in Ports, NEW i \in DOMAIN wire[p]
  PROVE  /\ wire[p][i].session \in Sessions
         /\ SessionPort[wire[p][i].session] = p
         /\ wire[p][i].session \in Speakers(p, HeaderExchange(wire[p][i]))
         /\ Len(wire[p]) \in Nat /\ DOMAIN wire[p] = 1 .. Len(wire[p])
<1>1. wire[p] \in Seq(PP!Packet)
  BY DEF ComponentInv, PP!TypeInv, PP!TypeOK
<1>2. wire[p][i] \in PP!Packet
  BY <1>1
<1>3. wire[p][i].session \in Sessions
  BY <1>2 DEF PP!Packet
<1>4. SessionPort[wire[p][i].session] = p
  BY DEF ComponentInv, PP!SequenceInv, PP!NumbersBelowCounter
<1> QED BY <1>1, <1>3, <1>4 DEF Speakers, HeaderExchange

\* A session that has announced something has announced its status last, and a
\* receiver could have heard it, or it is unheard.
LEMMA HeardOrUnheard ==
  ASSUME ComponentInv, SystemInv, NEW s \in Sessions, EventJobs(s) # {}, ~Unheard(s)
  PROVE  \E place \in EventsOf(SessionPort[s], SessionExchange[s]) :
           /\ wire[SessionPort[s]][place].session = s
           /\ \A k \in EventJobs(s) : k <= wire[SessionPort[s]][place].job
           /\ content[s][wire[SessionPort[s]][place].job] = event[s]
<1>1. PICK e \in EventJobs(s) : /\ \A k \in EventJobs(s) : k <= e
                                /\ content[s][e] = event[s]
  BY LastEventExists
<1>2. Max(EventJobs(s)) = e
  <2>1. EventJobs(s) \in SUBSET Int
    BY EventJobsBound
  <2> QED BY <1>1, <2>1, MaxIs
<1>3. OnPort(s, e)
  BY <1>2 DEF SystemInv, EventsTold, Unheard
<1>4. PICK place \in DOMAIN wire[SessionPort[s]] :
        wire[SessionPort[s]][place].session = s /\ wire[SessionPort[s]][place].job = e
  BY <1>3 DEF OnPort
<1>5. place \in EventsOf(SessionPort[s], SessionExchange[s])
  BY <1>4 DEF EventsOf, HeaderExchange, Payload, EventJobs
<1> QED BY <1>1, <1>4, <1>5

\* What the packets on a port say last about an exchange is the present status of
\* the session that said it, unless that session's last event was dropped or is
\* being sent, for any sessions that share the port, messages, faults and losses
\* (send_connection_event_to_port, its result ignored).
THEOREM ViewStaleOnlyByLossTheorem == Spec => []ViewStaleOnlyByLoss
<1>1. ComponentInv /\ SystemInv => ViewStaleOnlyByLoss
  <2> SUFFICES ASSUME ComponentInv, SystemInv, NEW s0 \in Sessions
               PROVE  LET p == SessionPort[s0]
                          ex == SessionExchange[s0]
                          sender == wire[p][Max(EventsOf(p, ex))].session
                      IN  IF EventsOf(p, ex) = {}
                          THEN \A s \in Speakers(p, ex) : event[s] = M!NoEvent \/ Unheard(s)
                          ELSE /\ sender \in Speakers(p, ex)
                               /\ View(p, ex) = event[sender] \/ Unheard(sender)
    BY DEF ViewStaleOnlyByLoss
  <2> DEFINE p == SessionPort[s0]
             ex == SessionExchange[s0]
             w == wire[p]
             heard == EventsOf(p, ex)
  <2>1. p \in Ports
    BY SystemAssumption
  <2>2. CASE heard = {}
    <3>1. ASSUME NEW s \in Speakers(p, ex), ~Unheard(s) PROVE event[s] = M!NoEvent
      <4>1. s \in Sessions /\ SessionPort[s] = p /\ SessionExchange[s] = ex
        BY DEF Speakers
      <4>2. EventJobs(s) = {}
        BY <2>2, <3>1, <4>1, HeardOrUnheard
      <4> QED BY <4>1, <4>2 DEF SystemInv, ContentKnown, Known
    <3> QED BY <2>2, <3>1
  <2>3. CASE heard # {}
    <3>1. PICK i \in heard : TRUE
      BY <2>3
    <3>2. /\ heard \subseteq DOMAIN w
          /\ \A k \in heard : HeaderExchange(w[k]) = ex /\ Payload(w[k]) # Data
      BY DEF EventsOf
    <3>3. Len(w) \in Nat /\ DOMAIN w = 1 .. Len(w)
      BY <2>1, <3>1, <3>2, SenderSpeaks
    <3>4. heard \in SUBSET Nat /\ heard \in SUBSET Int /\ \A k \in heard : k <= Len(w)
      BY <3>2, <3>3
    <3> HIDE DEF heard
    <3>5. PICK g \in heard : \A k \in heard : k <= g
      BY <2>3, <3>3, <3>4, GreatestNatural
    <3>6. Max(heard) = g
      BY <3>4, <3>5, MaxIs
    <3>7. g \in DOMAIN w /\ HeaderExchange(w[g]) = ex /\ Payload(w[g]) # Data
      BY <3>2, <3>5
    <3>8. PICK t \in Sessions : t = w[g].session /\ SessionPort[t] = p /\ t \in Speakers(p, ex)
      BY <2>1, <3>7, SenderSpeaks
    <3>9. SessionExchange[t] = ex
      BY <3>8 DEF Speakers
    <3>10. View(p, ex) = Payload(w[g])
      <4>1. {k \in heard : k < Len(w) + 1} = heard
        <5>1. PICK m \in Nat : m = Len(w)
          BY <3>3
        <5>2. \A k \in heard : k \in Nat /\ k < m + 1
          BY <3>4, <5>1
        <5> QED BY <5>1, <5>2
      <4> QED BY <2>3, <3>6, <4>1 DEF View, ViewBefore, heard
    <3>11. ASSUME ~Unheard(t) PROVE Payload(w[g]) = event[t]
      <4>1. w[g].job \in EventJobs(t) /\ Payload(w[g]) = content[t][w[g].job]
        BY <3>7, <3>8, PlacesInOrder DEF Payload
      <4>2. PICK place \in heard : /\ w[place].session = t
                                   /\ \A k \in EventJobs(t) : k <= w[place].job
                                   /\ content[t][w[place].job] = event[t]
        <5>1. EventJobs(t) # {}
          BY <4>1
        <5>2. \E place \in EventsOf(SessionPort[t], SessionExchange[t]) :
                /\ wire[SessionPort[t]][place].session = t
                /\ \A k \in EventJobs(t) : k <= wire[SessionPort[t]][place].job
                /\ content[t][wire[SessionPort[t]][place].job] = event[t]
          BY <3>11, <5>1, HeardOrUnheard
        <5> QED BY <3>8, <3>9, <5>2 DEF heard
      <4>3. place \in DOMAIN w /\ place <= g
        BY <3>2, <3>5, <4>2
      <4>4. w[place].job <= w[g].job
        BY <3>7, <3>8, <4>2, <4>3, PlacesInOrder
      <4>5. w[g].job <= w[place].job
        BY <4>1, <4>2
      <4>6. w[g].job \in Nat /\ w[place].job \in Nat
        <5>1. w[place].job \in DOMAIN content[t]
          BY <3>8, <4>2, <4>3, PlacesInOrder
        <5> QED BY <3>8, <4>1, <5>1, EventJobsBound
      <4>7. w[g].job = w[place].job
        BY <4>4, <4>5, <4>6
      <4> QED BY <4>1, <4>2, <4>7
    <3> QED BY <2>3, <3>6, <3>8, <3>10, <3>11 DEF heard
  <2> QED BY <2>2, <2>3
<1> QED BY <1>1, SystemInvariant, PTL

\* Before the data of a session there is an event of its exchange, and where the last
\* one is the session's own, as it always is where no other session has the same
\* exchange and port, it is the one it announced last before it received the message,
\* and not of a lost connection; unless that event was dropped
\* (connect_to_symbol_session receives only what its own connection brings).
THEOREM DataBelongsToConnectionTheorem == Spec => []DataBelongsToConnection
<1>1. ComponentInv /\ SystemInv => DataBelongsToConnection
  <2> SUFFICES ASSUME ComponentInv, SystemInv, NEW s \in Sessions,
                      NEW i \in DOMAIN wire[SessionPort[s]],
                      wire[SessionPort[s]][i].session = s,
                      Payload(wire[SessionPort[s]][i]) = Data
               PROVE  LET p == SessionPort[s]
                          ex == SessionExchange[s]
                          announced == Max({j \in EventJobs(s) : j < wire[p][i].job})
                          heard == {k \in EventsOf(p, ex) : k < i}
                      IN  \/ DroppedJob(s, announced)
                          \/ /\ heard # {}
                             /\ wire[p][Max(heard)].session = s =>
                                  /\ ViewBefore(p, ex, i) = content[s][announced]
                                  /\ ViewBefore(p, ex, i).current_status
                                       \notin {"DISCONNECTED", "RECONNECTING", "FAILED"}
    BY DEF DataBelongsToConnection
  <2> DEFINE p == SessionPort[s]
             ex == SessionExchange[s]
             w == wire[p]
             b == w[i].job
             before == {k \in EventPlaces(s) : k < i}
             heard == {k \in EventsOf(p, ex) : k < i}
             jobs == {j \in EventJobs(s) : j < b}
  <2>0. \A k \in DOMAIN w : k \in before <=> k \in heard /\ w[k].session = s
    BY DEF EventsOf, EventPlaces, HeaderExchange
  <2>1. /\ Len(w) \in Nat /\ DOMAIN w = 1 .. Len(w)
        /\ \A k \in DOMAIN w : w[k].session = s =>
             /\ w[k].job \in DOMAIN content[s]
             /\ (Payload(w[k]) # Data) <=> w[k].job \in EventJobs(s)
        /\ \A k, j \in DOMAIN w :
             k <= j /\ w[k].session = s /\ w[j].session = s => w[k].job <= w[j].job
    BY PlacesInOrder
  <2>2. /\ job[s] \in Nat /\ DOMAIN content[s] = 1 .. job[s]
        /\ EventJobs(s) \subseteq 1 .. job[s] /\ EventJobs(s) \in SUBSET Nat
    BY EventJobsBound
  <2>3. b \in 1 .. job[s] /\ b \notin EventJobs(s) /\ content[s][b] = Data
    BY <2>1, <2>2 DEF EventJobs
  <2>4. PICK e \in EventJobs(s) :
          LastEventBefore(s, e, b) /\ content[s][e].current_status = "CONNECTING"
    BY <2>2, <2>3 DEF SystemInv, ContentKnown, Known
  <2>5. e < b /\ e \in Nat /\ b \in Nat /\ \A k \in EventJobs(s) : k < b => k <= e
    BY <2>2, <2>3, <2>4 DEF LastEventBefore
  <2>6. Max(jobs) = e
    <3>1. jobs \in SUBSET Int /\ e \in jobs /\ \A k \in jobs : k <= e
      BY <2>2, <2>5
    <3> HIDE DEF jobs
    <3> QED BY <3>1, MaxIs
  <2>7. OnPort(s, e) \/ DroppedJob(s, e)
    <3>1. e # job[s]
      BY <2>2, <2>3, <2>5
    <3> QED BY <3>1 DEF SystemInv, EventsTold
  <2>8. CASE OnPort(s, e)
    <3>1. PICK place \in DOMAIN w : w[place].session = s /\ w[place].job = e
      BY <2>8 DEF OnPort
    <3>2. place < i
      <4>1. CASE i <= place
        <5>1. b <= e
          BY <2>1, <3>1, <4>1
        <5> QED BY <2>5, <5>1
      <4>2. place \in Nat /\ i \in Nat
        BY <2>1
      <4> QED BY <4>1, <4>2
    <3>3. ASSUME NEW k \in EventPlaces(s), k < i PROVE w[k].job < b
      <4>1. k \in DOMAIN w /\ w[k].session = s /\ w[k].job \in EventJobs(s)
        BY <2>1 DEF EventPlaces
      <4>2. w[k].job <= b
        BY <2>1, <3>3, <4>1
      <4>3. w[k].job # b /\ w[k].job \in Nat
        BY <2>2, <2>3, <4>1
      <4> QED BY <2>5, <4>2, <4>3
    <3>4. before # {} /\ EventAt(s, Max(before)) = content[s][e]
      <4>1. i \in Nat
        BY <2>1
      <4> QED BY <2>5, <3>1, <3>2, <3>3, <4>1, LastEventPlace
    <3>5. /\ heard \in SUBSET Nat /\ heard \in SUBSET Int /\ before \in SUBSET Int
          /\ heard \subseteq DOMAIN w /\ \A k \in heard : k <= i
          /\ before \subseteq heard
      BY <2>0, <2>1 DEF EventsOf, EventPlaces
    <3>6. i \in Nat
      BY <2>1
    <3> HIDE DEF before, heard
    <3>7. heard # {}
      BY <3>4, <3>5
    <3>8. PICK g \in heard : \A k \in heard : k <= g
      BY <3>5, <3>6, <3>7, GreatestNatural
    <3>9. Max(heard) = g
      BY <3>5, <3>8, MaxIs
    <3>10. ASSUME w[g].session = s PROVE ViewBefore(p, ex, i) = content[s][e]
      <4>1. g \in before /\ \A k \in before : k <= g
        BY <2>0, <3>5, <3>8, <3>10
      <4>2. Max(before) = g
        BY <3>5, <4>1, MaxIs
      <4>3. ViewBefore(p, ex, i) = Payload(w[g])
        BY <3>7, <3>9 DEF ViewBefore, heard
      <4> QED BY <3>4, <4>2, <4>3 DEF EventAt
    <3> QED BY <2>4, <2>6, <3>7, <3>9, <3>10 DEF heard
  <2> QED BY <2>6, <2>7, <2>8
<1> QED BY <1>1, SystemInvariant, PTL

\* A process that ends because its sessions have ended has sent or dropped the
\* last event of every session that gave up, and leaves no packet behind, for
\* any number of sessions (run awaits the tasks, the tasks their sends).
THEOREM LastWordsBeforeEndTheorem == Spec => []LastWordsBeforeEnd
<1>1. ComponentInv /\ SystemInv => LastWordsBeforeEnd
  <2> SUFFICES ASSUME ComponentInv, SystemInv, main = "finished", NEW s \in Sessions
               PROVE  /\ packets[s] = << >> /\ frames[s] = << >>
                      /\ phase[s] = "given_up" => FailureTold(s)
    BY DEF LastWordsBeforeEnd
  <2>1. pc[s] = "idle"
    BY DEF SystemInv, AwaitedAtEnd, Awaited
  <2>2. packets[s] = << >> /\ frames[s] = << >>
    BY <2>1 DEF ComponentInv, PP!JobInv, PP!JobHeld
  <2>3. ASSUME phase[s] = "given_up" PROVE FailureTold(s)
    <3>1. event[s].current_status = "FAILED"
      BY <2>3 DEF ComponentInv, MP!Inv, MP!Sequencing, MP!EventByPhase
    <3>2. M!NoEvent.current_status # "FAILED"
      BY DEF M!NoEvent
    <3>3. EventJobs(s) # {}
      BY <3>1, <3>2 DEF SystemInv, ContentKnown, Known
    <3>4. PICK e \in EventJobs(s) : content[s][e] = event[s]
      BY <3>3, LastEventExists
    <3>5. OnPort(s, e) \/ DroppedJob(s, e)
      BY <2>1 DEF SystemInv, EventsTold, Awaited
    <3>6. CASE OnPort(s, e)
      <4>1. PICK i \in DOMAIN wire[SessionPort[s]] :
              wire[SessionPort[s]][i].session = s /\ wire[SessionPort[s]][i].job = e
        BY <3>6 DEF OnPort
      <4>2. i \in EventPlaces(s)
        BY <4>1, PlacesInOrder DEF EventPlaces
      <4> QED BY <3>1, <3>4, <4>1, <4>2 DEF FailureTold, EventAt, Payload
    <3> QED BY <3>1, <3>4, <3>5, <3>6 DEF FailureTold
  <2> QED BY <2>2, <2>3
<1> QED BY <1>1, SystemInvariant, PTL

\* What the components promise holds of the process in which they run together:
\* numbers are unique and in order, messages arrive as prefixes, attempts, failures
\* and the counter of the events agree, and bad news of a session is true.
THEOREM ComponentPromises ==
  Spec => [](/\ P!SequenceUnique /\ P!SessionOrder /\ P!MessagePrefix
             /\ M!RetryAccounting /\ M!BadNewsIsTrue)
<1>1. ComponentInv /\ SystemInv =>
        /\ P!SequenceUnique /\ P!SessionOrder /\ P!MessagePrefix
        /\ M!RetryAccounting /\ M!BadNewsIsTrue
  <2> SUFFICES ASSUME ComponentInv
               PROVE  /\ P!SequenceUnique /\ P!SessionOrder /\ P!MessagePrefix
                      /\ M!RetryAccounting /\ M!BadNewsIsTrue
    OBVIOUS
  <2>1. PP!SequenceUnique /\ PP!SessionOrder /\ PP!MessagePrefix
    BY DEF ComponentInv, PP!SequenceInv, PP!JobInv
  <2>2. MP!AttemptsCounted /\ MP!EventCounts /\ MP!EventByPhase /\ MP!OnlyOpenHasLink
    BY DEF ComponentInv, MP!Inv, MP!Sequencing
  <2>3. P!SequenceUnique /\ P!SessionOrder
    BY <2>1 DEF P!SequenceUnique, PP!SequenceUnique, P!SessionOrder, PP!SessionOrder
  <2>4. P!MessagePrefix
    BY <2>1 DEF P!MessagePrefix, PP!MessagePrefix
  <2>5. M!RetryAccounting
    BY <2>2 DEF M!RetryAccounting, MP!AttemptsCounted, MP!EventCounts
  <2>6. MP!TypeOK
    BY DEF ComponentInv, MP!Inv, MP!Sequencing
  <2>7. M!BadNewsIsTrue
    BY <2>2, <2>6 DEF M!BadNewsIsTrue, MP!TypeOK, MP!EventByPhase, MP!OnlyOpenHasLink
  <2> QED BY <2>3, <2>4, <2>5, <2>7
<1> QED BY <1>1, SystemInvariant, PTL
=============================================================================
