------------------------- MODULE FeedPipelineProofs -------------------------
(***************************************************************************)
(* Proofs about FeedPipeline, for any number of sessions, any assignment   *)
(* of ports, any messages, any faults and any bounds.                      *)
(***************************************************************************)
EXTENDS FeedPipeline, PacketBuilderProofs, SumLemmas

(***************************************************************************)
(* Type correctness.                                                       *)
(***************************************************************************)

\* What the parser and the builder make of a message is a sequence of frames.
LEMMA FramesOfType ==
  ASSUME NEW s \in Sessions, NEW raw \in RawMessages
  PROVE  FramesOf(s, raw) \in Seq(Frame)
<1> DEFINE parsed == parse_message(SessionExchange[s], raw)
<1>1. raw.items \in Nat
  BY PipelineAssumption DEF RawMessage
<1>2. parse_binance_message(raw) \in ParsedData \cup {ParseError}
  BY <1>1 DEF parse_binance_message, ParsedData, ParsedKinds
<1>3. parse_default_message \in ParsedData
  BY DEF parse_default_message, ParsedData, ParsedKinds
<1>4. parsed \in ParsedData \cup {ParseError}
  BY <1>2, <1>3 DEF parse_message
<1>5. parsed # ParseError => build_packets(parsed) \in Seq(Frame)
  BY <1>4, BuildPacketsType
<1>6. << >> \in Seq(Frame)
  BY EmptySeq
<1> QED
  BY <1>5, <1>6 DEF FramesOf

\* The part of the invariant that TypeOK needs to be inductive.
TypeInv == TypeOK /\ HasWork

\* The initial state has the types, and no task has anything to do.
LEMMA TypeInit == Init => TypeInv
<1> SUFFICES ASSUME Init PROVE TypeInv
  OBVIOUS
<1> USE DEF Init
<1>1. << >> \in Seq(Frame) /\ << >> \in Seq(Packet)
  BY EmptySeq
<1>2. TypeOK
  BY <1>1 DEF TypeOK, SocketStates, NotLoaded
<1>3. HasWork
  BY DEF HasWork
<1> QED
  BY <1>2, <1>3 DEF TypeInv

\* Beginning a job with a sequence of frames.
LEMMA TypeBeginJob ==
  ASSUME TypeInv, NEW s \in Sessions, NEW fs \in Seq(Frame), BeginJob(s, fs)
  PROVE  TypeInv'
<1> USE DEF TypeInv, BeginJob, metricsVars
<1>1. TypeOK'
  BY DEF TypeOK
<1>2. HasWork'
  BY DEF HasWork, TypeOK
<1> QED
  BY <1>1, <1>2

\* Giving up a job leaves types and the other tasks alone.
LEMMA TypeAbandon ==
  ASSUME TypeInv, NEW s \in Sessions, NEW cause \in Causes,
         pc[s] \in {"lookup", "transmit"}, AbandonJob(s, cause)
  PROVE  /\ dropped' \subseteq [packet : Packet, cause : Causes]
         /\ packets' \in [Sessions -> Seq(Packet)]
         /\ pc' = [pc EXCEPT ![s] = "idle"]
         /\ \A t \in Sessions \ {s} : packets'[t] = packets[t]
<1> USE DEF TypeInv, AbandonJob
<1>1. packets[s] \in Seq(Packet) /\ packets[s] # << >>
  BY DEF TypeOK, HasWork
<1>2. Head(packets[s]) \in Packet
  BY <1>1
<1>3. \A i \in 2 .. Len(packets[s]) : packets[s][i] \in Packet
  BY <1>1
<1>4. dropped' \subseteq [packet : Packet, cause : Causes]
  BY <1>2, <1>3 DEF TypeOK, Causes
<1>5. << >> \in Seq(Packet)
  BY EmptySeq
<1> QED
  BY <1>4, <1>5 DEF TypeOK

\* Every step of a session and of the metrics task keeps the types.
LEMMA TypeStep == TypeInv /\ [Next]_vars => TypeInv'
<1> SUFFICES ASSUME TypeInv, [Next]_vars PROVE TypeInv'
  OBVIOUS
<1> USE DEF TypeInv
<1>1. ASSUME NEW s \in Sessions, ReceiveMessage(s) PROVE TypeInv'
  BY <1>1, FramesOfType, TypeBeginJob DEF ReceiveMessage
<1>2. ASSUME NEW s \in Sessions, SendConnectionEvent(s) PROVE TypeInv'
  <2>1. << build_event_packet_with_exchange >> \in Seq(Frame)
    BY SingleItemFrames
  <2> QED
    BY <1>2, <2>1, TypeBeginJob DEF SendConnectionEvent
<1>3. ASSUME NEW s \in Sessions, ClaimSequence(s) PROVE TypeInv'
  <2> USE <1>3 DEF ClaimSequence, AdvanceCounter, Push, SendEntry, metricsVars
  <2> DEFINE pkt == [frame |-> Head(frames[s]),
                     sequence_number |-> sequence_counter, session |-> s,
                     job |-> job[s], index |-> Len(packets[s]) + 1]
  <2>1. frames[s] \in Seq(Frame) /\ frames[s] # << >>
    BY DEF TypeOK, HasWork
  <2>2. Head(frames[s]) \in Frame /\ Tail(frames[s]) \in Seq(Frame)
    BY <2>1
  <2>3. packets[s] \in Seq(Packet)
    BY DEF TypeOK
  <2>4. pkt \in Packet
    <3>1. /\ sequence_counter \in Nat \ {0} /\ job[s] \in Nat
          /\ Len(packets[s]) + 1 \in Nat \ {0}
      BY <2>3 DEF TypeOK
    <3> HIDE <1>3
    <3> QED BY <2>2, <3>1 DEF Packet
  <2>5. Append(packets[s], pkt) \in Seq(Packet) /\ Append(packets[s], pkt) # << >>
    <3> HIDE DEF pkt
    <3> QED
      BY <2>3, <2>4
  <2>6. packets' = [packets EXCEPT ![s] = Append(packets[s], pkt)]
    OBVIOUS
  <2>7. TypeOK'
    <3> HIDE DEF pkt
    <3> QED
      <4>1. sequence_counter' \in Nat \ {0}
        BY DEF TypeOK
      <4>2. packets' \in [Sessions -> Seq(Packet)]
        BY <2>5, <2>6 DEF TypeOK
      <4>3. frames' \in [Sessions -> Seq(Frame)]
        BY <2>2 DEF TypeOK
      <4>4. pc' \in [Sessions -> {"idle", "build", "lookup", "transmit", "count"}]
        BY DEF TypeOK
      <4>5. UNCHANGED << job, sockets_by_port, wire, dropped, packets_sent,
                         bytes_sent, owed, stats, prev, reports >>
        OBVIOUS
      <4> HIDE <1>3
      <4> QED
        BY <4>1, <4>2, <4>3, <4>4, <4>5 DEF TypeOK
  <2>8. HasWork'
    <3> HIDE DEF pkt
    <3> QED
      BY <2>2, <2>5, <2>6 DEF HasWork, TypeOK
  <2> QED
    BY <2>7, <2>8
<1>4. ASSUME NEW s \in Sessions, FindSocket(s) PROVE TypeInv'
  BY <1>4 DEF FindSocket, TypeOK, HasWork, metricsVars
<1>5. ASSUME NEW s \in Sessions, CreateSocket(s) PROVE TypeInv'
  BY <1>5 DEF CreateSocket, OpenSocket, TypeOK, HasWork, SocketStates, metricsVars
<1>6. ASSUME NEW s \in Sessions, BindFails(s) PROVE TypeInv'
  BY <1>6, TypeAbandon DEF BindFails, TypeOK, HasWork, Causes, metricsVars
<1>7. ASSUME NEW s \in Sessions, TransmitOk(s) PROVE TypeInv'
  <2> USE <1>7 DEF TransmitOk, metricsVars
  <2>1. packets[s] \in Seq(Packet) /\ packets[s] # << >>
    BY DEF TypeOK, HasWork
  <2>2. Head(packets[s]) \in Packet /\ Tail(packets[s]) \in Seq(Packet)
    BY <2>1
  <2>3. Head(packets[s]).frame.size \in Nat
    BY <2>2 DEF Packet, Frame
  <2>4. SessionPort[s] \in Ports
    BY PipelineAssumption
  <2>5. TypeOK'
    <3>1. wire' \in [Ports -> Seq(Packet)]
      BY <2>2, <2>4 DEF TypeOK
    <3>2. owed' \in [Sessions -> [packets : Nat, bytes : Nat]]
      BY <2>3 DEF TypeOK
    <3>3. /\ packets' \in [Sessions -> Seq(Packet)]
          /\ pc' \in [Sessions -> {"idle", "build", "lookup", "transmit", "count"}]
      BY <2>2 DEF TypeOK
    <3>4. UNCHANGED << sequence_counter, job, frames, sockets_by_port, dropped,
                       packets_sent, bytes_sent, stats, prev, reports >>
      OBVIOUS
    <3> HIDE <1>7
    <3> QED BY <3>1, <3>2, <3>3, <3>4 DEF TypeOK
  <2>6. HasWork'
    BY DEF HasWork, TypeOK
  <2> QED
    BY <2>5, <2>6
<1>8. ASSUME NEW s \in Sessions, TransmitWouldBlock(s) PROVE TypeInv'
  <2> USE <1>8 DEF TransmitWouldBlock, AfterPacket, SendEntry, metricsVars
  <2>1. packets[s] \in Seq(Packet) /\ packets[s] # << >>
    BY DEF TypeOK, HasWork
  <2>2. Head(packets[s]) \in Packet /\ Tail(packets[s]) \in Seq(Packet)
    BY <2>1
  <2>3. TypeOK'
    <3>1. dropped' \subseteq [packet : Packet, cause : Causes]
      BY <2>2 DEF TypeOK, Causes
    <3>2. packets' \in [Sessions -> Seq(Packet)]
      BY <2>2 DEF TypeOK
    <3>3. pc' \in [Sessions -> {"idle", "build", "lookup", "transmit", "count"}]
      BY DEF TypeOK
    <3>4. UNCHANGED << sequence_counter, job, frames, sockets_by_port, wire,
                       packets_sent, bytes_sent, owed, stats, prev, reports >>
      OBVIOUS
    <3> HIDE <1>8
    <3> QED BY <3>1, <3>2, <3>3, <3>4 DEF TypeOK
  <2>4. HasWork'
    BY <2>2 DEF HasWork, TypeOK
  <2> QED
    BY <2>3, <2>4
<1>9. ASSUME NEW s \in Sessions, TransmitError(s) PROVE TypeInv'
  BY <1>9, TypeAbandon DEF TransmitError, TypeOK, HasWork, Causes, metricsVars
<1>10. ASSUME NEW s \in Sessions, CountPackets(s) PROVE TypeInv'
  <2>1. owed' \in [Sessions -> [packets : Nat, bytes : Nat]] /\ packets_sent' \in Nat
    BY <1>10 DEF CountPackets, TypeOK
  <2>2. pc' \in [Sessions -> {"idle", "build", "lookup", "transmit", "count"}]
    BY <1>10 DEF CountPackets, AfterPacket, SendEntry, TypeOK
  <2>3. TypeOK'
    BY <1>10, <2>1, <2>2 DEF CountPackets, TypeOK, metricsVars
  <2>4. HasWork'
    BY <1>10 DEF CountPackets, AfterPacket, SendEntry, TypeOK, HasWork
  <2> QED BY <2>3, <2>4
<1>11. ASSUME NEW s \in Sessions, CountBytes(s) PROVE TypeInv'
  <2>1. owed' \in [Sessions -> [packets : Nat, bytes : Nat]] /\ bytes_sent' \in Nat
    BY <1>11 DEF CountBytes, TypeOK
  <2>2. pc' \in [Sessions -> {"idle", "build", "lookup", "transmit", "count"}]
    BY <1>11 DEF CountBytes, AfterPacket, SendEntry, TypeOK
  <2>3. TypeOK'
    BY <1>11, <2>1, <2>2 DEF CountBytes, TypeOK, metricsVars
  <2>4. HasWork'
    BY <1>11 DEF CountBytes, AfterPacket, SendEntry, TypeOK, HasWork
  <2> QED BY <2>3, <2>4
<1>12. CASE Metrics
  BY <1>12 DEF Metrics, LoadPackets, LoadBytes, Report, TypeOK, HasWork,
               sessionVars, NotLoaded
<1>13. CASE UNCHANGED vars
  BY <1>13 DEF vars, TypeOK, HasWork
<1> QED
  BY <1>1, <1>2, <1>3, <1>4, <1>5, <1>6, <1>7, <1>8, <1>9, <1>10, <1>11,
     <1>12, <1>13 DEF Next, Step

\* In every reachable state the variables have their types.
THEOREM TypeCorrect == Spec => []TypeOK
<1>1. TypeInv => TypeOK
  BY DEF TypeInv
<1> QED
  BY TypeInit, TypeStep, <1>1, PTL DEF Spec

(***************************************************************************)
(* Sequence numbers.  Only three kinds of steps concern them: a number is  *)
(* claimed, a packet moves from its session to the network, packets are    *)
(* dropped.                                                                *)
(***************************************************************************)

\* Nothing is numbered yet in the initial state.
LEMMA SequenceInit == Init => SequenceInv
BY DEF Init, SequenceInv, NumbersBelowCounter, PendingInOrder, PendingDisjoint,
       WireBeforePending, SequenceUnique, SessionOrder

\* The numbers of waiting and sent packets are numbers.
LEMMA NumbersAreNat ==
  ASSUME TypeOK
  PROVE  /\ \A t \in Sessions : \A i \in DOMAIN packets[t] :
              packets[t][i].sequence_number \in Nat
         /\ \A p \in Ports : \A i \in DOMAIN wire[p] :
              wire[p][i].sequence_number \in Nat
<1>1. ASSUME NEW q \in Seq(Packet), NEW i \in DOMAIN q
      PROVE  q[i].sequence_number \in Nat
  <2>1. q[i] \in Packet
    BY <1>1, LenProperties, ElementOfSeq
  <2> QED
    BY <2>1 DEF Packet
<1>2. /\ \A t \in Sessions : packets[t] \in Seq(Packet)
      /\ \A p \in Ports : wire[p] \in Seq(Packet)
  BY DEF TypeOK
<1> QED
  BY <1>1, <1>2

\* Claiming the counter's number for a packet of session s.
LEMMA SequenceClaim ==
  ASSUME TypeOK, SequenceInv, NEW s \in Sessions, ClaimSequence(s)
  PROVE  SequenceInv'
<1> DEFINE pkt == [frame |-> Head(frames[s]),
                   sequence_number |-> sequence_counter, session |-> s,
                   job |-> job[s], index |-> Len(packets[s]) + 1]
<1>1. /\ packets' = [packets EXCEPT ![s] = Append(packets[s], pkt)]
      /\ sequence_counter' = sequence_counter + 1
      /\ wire' = wire
  BY DEF ClaimSequence, AdvanceCounter, Push
<1>2. pkt.sequence_number = sequence_counter /\ pkt.session = s
  OBVIOUS
<1> HIDE DEF pkt
<1>3. /\ sequence_counter \in Nat
      /\ packets \in [Sessions -> Seq(Packet)]
      /\ wire \in [Ports -> Seq(Packet)]
  BY DEF TypeOK
<1>4. /\ \A t \in Sessions : t # s => packets'[t] = packets[t]
      /\ DOMAIN packets'[s] = 1 .. Len(packets[s]) + 1
      /\ DOMAIN packets[s] = 1 .. Len(packets[s])
      /\ Len(packets[s]) \in Nat
      /\ \A i \in DOMAIN packets[s] : packets'[s][i] = packets[s][i]
      /\ packets'[s][Len(packets[s]) + 1] = pkt
  BY <1>1, <1>3
<1>5. \A t \in Sessions : \A i \in DOMAIN packets'[t] :
        \/ i \in DOMAIN packets[t] /\ packets'[t][i] = packets[t][i]
        \/ t = s /\ i = Len(packets[s]) + 1 /\ packets'[t][i] = pkt
  BY <1>4
<1>6. /\ \A t \in Sessions : \A i \in DOMAIN packets[t] :
           packets[t][i].sequence_number \in Nat
      /\ \A p \in Ports : \A i \in DOMAIN wire[p] :
           wire[p][i].sequence_number \in Nat
  BY NumbersAreNat
<1>7. NumbersBelowCounter'
  BY <1>1, <1>2, <1>3, <1>5, <1>6 DEF SequenceInv, NumbersBelowCounter
<1>8. PendingInOrder'
  BY <1>1, <1>2, <1>3, <1>4, <1>5, <1>6
     DEF SequenceInv, NumbersBelowCounter, PendingInOrder
<1>9. PendingDisjoint'
  BY <1>1, <1>2, <1>3, <1>5, <1>6
     DEF SequenceInv, NumbersBelowCounter, PendingDisjoint
<1>10. WireBeforePending'
  BY <1>1, <1>2, <1>3, <1>5, <1>6
     DEF SequenceInv, NumbersBelowCounter, WireBeforePending
<1>11. SequenceUnique' /\ SessionOrder'
  BY <1>1 DEF SequenceInv, SequenceUnique, SessionOrder
<1> QED
  BY <1>7, <1>8, <1>9, <1>10, <1>11 DEF SequenceInv

\* Dropping packets from the front of what a session has waiting.
LEMMA SequenceDrop ==
  ASSUME TypeOK, SequenceInv, NEW s \in Sessions, NEW rest,
         rest = << >> \/ (packets[s] # << >> /\ rest = Tail(packets[s])),
         packets' = [packets EXCEPT ![s] = rest],
         UNCHANGED << sequence_counter, wire >>
  PROVE  SequenceInv'
<1>1. packets \in [Sessions -> Seq(Packet)]
  BY DEF TypeOK
<1>2. \A t \in Sessions : t # s => packets'[t] = packets[t]
  BY <1>1
<1>3. packets'[s] = rest /\ packets[s] \in Seq(Packet)
  BY <1>1
<1>4. /\ DOMAIN rest \subseteq Nat
      /\ \/ DOMAIN rest = {}
         \/ \A i \in DOMAIN rest : i + 1 \in DOMAIN packets[s]
                                   /\ rest[i] = packets[s][i + 1]
  BY <1>3
<1>5. NumbersBelowCounter'
  BY <1>2, <1>3, <1>4 DEF SequenceInv, NumbersBelowCounter
<1>6. PendingInOrder'
  <2>1. ASSUME NEW i \in DOMAIN rest, NEW j \in DOMAIN rest, i < j
        PROVE  rest[i].sequence_number < rest[j].sequence_number
    BY <1>4, <2>1 DEF SequenceInv, PendingInOrder
  <2> QED
    BY <1>2, <1>3, <2>1 DEF SequenceInv, PendingInOrder
<1>7. PendingDisjoint'
  BY <1>2, <1>3, <1>4 DEF SequenceInv, PendingDisjoint
<1>8. WireBeforePending'
  BY <1>2, <1>3, <1>4 DEF SequenceInv, WireBeforePending
<1>9. SequenceUnique' /\ SessionOrder'
  BY DEF SequenceInv, SequenceUnique, SessionOrder
<1> QED
  BY <1>5, <1>6, <1>7, <1>8, <1>9 DEF SequenceInv

\* Sending the first waiting packet of a session: its number is new to the
\* network and above everything the session has sent before.
LEMMA SequenceSend ==
  ASSUME TypeInv, SequenceInv, NEW s \in Sessions, TransmitOk(s)
  PROVE  SequenceInv'
<1> DEFINE port == SessionPort[s]
           pkt  == packets[s][1]
           len  == Len(wire[port])
<1>1. /\ packets \in [Sessions -> Seq(Packet)]
      /\ wire \in [Ports -> Seq(Packet)]
      /\ packets[s] # << >>
  BY DEF TypeInv, TypeOK, HasWork, TransmitOk
<1>2. port \in Ports
  BY PipelineAssumption
<1>3. /\ packets' = [packets EXCEPT ![s] = Tail(packets[s])]
      /\ wire' = [wire EXCEPT ![port] = Append(wire[port], pkt)]
      /\ sequence_counter' = sequence_counter
  BY <1>1 DEF TransmitOk
<1>4. 1 \in DOMAIN packets[s]
  BY <1>1
<1>5. /\ \A t \in Sessions : t # s => packets'[t] = packets[t]
      /\ \A i \in DOMAIN packets'[s] : /\ i \in Nat
                                       /\ i > 0
                                       /\ i + 1 \in DOMAIN packets[s]
                                       /\ packets'[s][i] = packets[s][i + 1]
  BY <1>1, <1>3
<1>6. /\ \A p \in Ports : p # port => wire'[p] = wire[p]
      /\ len \in Nat
      /\ DOMAIN wire[port] = 1 .. len
      /\ DOMAIN wire'[port] = 1 .. len + 1
      /\ \A i \in 1 .. len : wire'[port][i] = wire[port][i]
      /\ wire'[port][len + 1] = pkt
  BY <1>1, <1>2, <1>3
<1>7. \A p \in Ports : \A i \in DOMAIN wire'[p] :
        \/ i \in DOMAIN wire[p] /\ wire'[p][i] = wire[p][i]
        \/ p = port /\ i = len + 1 /\ wire'[p][i] = pkt
  BY <1>6
<1>8. pkt.session = s /\ pkt.sequence_number < sequence_counter
  BY <1>4 DEF SequenceInv, NumbersBelowCounter
<1>9. \A i \in DOMAIN packets'[s] :
        pkt.sequence_number < packets'[s][i].sequence_number
  BY <1>4, <1>5 DEF SequenceInv, PendingInOrder
<1>10. \A t \in Sessions : t # s => \A i \in DOMAIN packets[t] :
         pkt.sequence_number # packets[t][i].sequence_number
  BY <1>4 DEF SequenceInv, PendingDisjoint
<1>11. \A p \in Ports : \A i \in DOMAIN wire[p] :
         /\ wire[p][i].sequence_number # pkt.sequence_number
         /\ wire[p][i].session = s
              => wire[p][i].sequence_number < pkt.sequence_number
  BY <1>4 DEF SequenceInv, WireBeforePending
<1>12. pkt.sequence_number \in Nat
  BY <1>4, NumbersAreNat DEF TypeInv
<1>13. /\ \A t \in Sessions : \A i \in DOMAIN packets'[t] :
            packets'[t][i].sequence_number \in Nat
       /\ \A p \in Ports : \A i \in DOMAIN wire[p] :
            wire[p][i].sequence_number \in Nat
  BY <1>5, NumbersAreNat DEF TypeInv
<1> HIDE DEF port, pkt, len
<1>14. NumbersBelowCounter'
  <2>1. SessionPort[pkt.session] = port
    BY <1>8 DEF port
  <2> QED
    BY <1>3, <1>5, <1>7, <1>8, <2>1 DEF SequenceInv, NumbersBelowCounter
<1>15. PendingInOrder'
  <2>1. \A i, j \in DOMAIN packets'[s] :
          i < j => packets'[s][i].sequence_number < packets'[s][j].sequence_number
    BY <1>5 DEF SequenceInv, PendingInOrder
  <2> QED
    BY <1>5, <2>1 DEF SequenceInv, PendingInOrder
<1>16. PendingDisjoint'
  BY <1>5 DEF SequenceInv, PendingDisjoint
<1>17. WireBeforePending'
  BY <1>5, <1>7, <1>8, <1>9, <1>10, <1>12, <1>13
     DEF SequenceInv, WireBeforePending
<1>18. SequenceUnique'
  BY <1>7, <1>11 DEF SequenceInv, SequenceUnique
<1>19. SessionOrder'
  BY <1>6, <1>7, <1>8, <1>11 DEF SequenceInv, SessionOrder
<1> QED
  BY <1>14, <1>15, <1>16, <1>17, <1>18, <1>19 DEF SequenceInv

\* The numbers are untouched by a step that leaves the counter, the waiting
\* packets and the network alone.
LEMMA SequenceUntouched ==
  ASSUME SequenceInv, UNCHANGED << sequence_counter, packets, wire >>
  PROVE  SequenceInv'
BY DEF SequenceInv, NumbersBelowCounter, PendingInOrder, PendingDisjoint,
       WireBeforePending, SequenceUnique, SessionOrder

\* Every step keeps the numbers distinct and in order.
LEMMA SequenceStep == TypeInv /\ SequenceInv /\ [Next]_vars => SequenceInv'
<1> SUFFICES ASSUME TypeInv, SequenceInv, [Next]_vars PROVE SequenceInv'
  OBVIOUS
<1> USE DEF TypeInv
<1>1. ASSUME NEW s \in Sessions, ReceiveMessage(s) PROVE SequenceInv'
  BY <1>1, SequenceUntouched DEF ReceiveMessage, BeginJob
<1>2. ASSUME NEW s \in Sessions, SendConnectionEvent(s) PROVE SequenceInv'
  BY <1>2, SequenceUntouched DEF SendConnectionEvent, BeginJob
<1>3. ASSUME NEW s \in Sessions, ClaimSequence(s) PROVE SequenceInv'
  BY <1>3, SequenceClaim
<1>4. ASSUME NEW s \in Sessions, FindSocket(s) \/ CreateSocket(s)
      PROVE SequenceInv'
  BY <1>4, SequenceUntouched DEF FindSocket, CreateSocket, OpenSocket
<1>5. ASSUME NEW s \in Sessions, BindFails(s) PROVE SequenceInv'
  <2>1. packets' = [packets EXCEPT ![s] = << >>]
    BY <1>5 DEF BindFails, AbandonJob
  <2>2. UNCHANGED << sequence_counter, wire >>
    BY <1>5 DEF BindFails
  <2> QED
    BY <2>1, <2>2, SequenceDrop
<1>6. ASSUME NEW s \in Sessions, TransmitOk(s) PROVE SequenceInv'
  BY <1>6, SequenceSend
<1>7. ASSUME NEW s \in Sessions, TransmitWouldBlock(s) PROVE SequenceInv'
  <2>1. packets' = [packets EXCEPT ![s] = Tail(packets[s])]
    BY <1>7 DEF TransmitWouldBlock
  <2>2. UNCHANGED << sequence_counter, wire >>
    BY <1>7 DEF TransmitWouldBlock
  <2>3. packets[s] # << >>
    BY <1>7 DEF TransmitWouldBlock, HasWork
  <2> QED
    BY <2>1, <2>2, <2>3, SequenceDrop
<1>8. ASSUME NEW s \in Sessions, TransmitError(s) PROVE SequenceInv'
  <2>1. packets' = [packets EXCEPT ![s] = << >>]
    BY <1>8 DEF TransmitError, AbandonJob
  <2>2. UNCHANGED << sequence_counter, wire >>
    BY <1>8 DEF TransmitError
  <2> QED
    BY <2>1, <2>2, SequenceDrop
<1>9. ASSUME NEW s \in Sessions, CountPackets(s) \/ CountBytes(s)
      PROVE SequenceInv'
  BY <1>9, SequenceUntouched DEF CountPackets, CountBytes
<1>10. CASE Metrics
  BY <1>10, SequenceUntouched
     DEF Metrics, LoadPackets, LoadBytes, Report, sessionVars
<1>11. CASE UNCHANGED vars
  BY <1>11, SequenceUntouched DEF vars
<1> QED
  BY <1>1, <1>2, <1>3, <1>4, <1>5, <1>6, <1>7, <1>8, <1>9, <1>10, <1>11
     DEF Next, Step

\* Types and sequence numbers together are inductive.
THEOREM SequenceInvariant == Spec => [](TypeOK /\ SequenceInv)
<1>1. Init => TypeInv /\ SequenceInv
  BY TypeInit, SequenceInit
<1>2. TypeInv /\ SequenceInv /\ [Next]_vars => TypeInv' /\ SequenceInv'
  BY TypeStep, SequenceStep
<1>3. TypeInv /\ SequenceInv => TypeOK /\ SequenceInv
  BY DEF TypeInv
<1> QED
  BY <1>1, <1>2, <1>3, PTL DEF Spec

\* No two packets put on the network carry the same sequence_number, for any
\* number of concurrent sessions (fetch_add on PacketBuilder.sequence_counter).
THEOREM SequenceUniqueTheorem == Spec => []SequenceUnique
<1>1. TypeOK /\ SequenceInv => SequenceUnique
  BY DEF SequenceInv
<1> QED
  BY <1>1, SequenceInvariant, PTL

\* The packets of one session go out in the order of their numbers
\* (process_and_send_to_port numbers a message before it sends it).
THEOREM SessionOrderTheorem == Spec => []SessionOrder
<1>1. TypeOK /\ SequenceInv => SessionOrder
  BY DEF SequenceInv
<1> QED
  BY <1>1, SequenceInvariant, PTL
-----------------------------------------------------------------------------
(***************************************************************************)
(* Sockets and statistics.                                                 *)
(***************************************************************************)

\* A cached socket is never replaced, however many sessions ask for its port at
\* the same time (send_packet_to_port, the mutex of sockets_by_port).
THEOREM SocketStaysCachedTheorem == Spec => SocketStaysCached
<1> DEFINE Kept == \A p \in Ports : sockets_by_port[p] # "none"
                     => sockets_by_port'[p] = sockets_by_port[p]
<1>1. TypeOK /\ [Next]_vars => [Kept]_vars
  <2> SUFFICES ASSUME TypeOK, Next PROVE Kept
    OBVIOUS
  <2>1. ASSUME NEW s \in Sessions, CreateSocket(s) PROVE Kept
    BY <2>1, PipelineAssumption DEF CreateSocket, OpenSocket, TypeOK
  <2>2. ASSUME NEW s \in Sessions,
               ReceiveMessage(s) \/ SendConnectionEvent(s) \/ (Step(s) /\ ~CreateSocket(s))
        PROVE  UNCHANGED sockets_by_port
    BY <2>2 DEF ReceiveMessage, SendConnectionEvent, BeginJob, Step, ClaimSequence,
                FindSocket, BindFails, TransmitOk, TransmitWouldBlock, TransmitError,
                CountPackets, CountBytes
  <2>3. CASE Metrics
    BY <2>3 DEF Metrics, LoadPackets, LoadBytes, Report, sessionVars
  <2> QED BY <2>1, <2>2, <2>3 DEF Next
<1>2. Spec => [][Kept]_vars
  BY <1>1, TypeCorrect, PTL DEF Spec
<1> QED BY <1>2 DEF SocketStaysCached

\* No step moves a counter back or a load out of its bounds.
LEMMA LoadsStep == TypeOK /\ LoadsInOrder /\ [Next]_vars => LoadsInOrder'
<1> SUFFICES ASSUME TypeOK, LoadsInOrder, [Next]_vars PROVE LoadsInOrder'
  OBVIOUS
<1> DEFINE Counts == /\ UNCHANGED << stats, prev >>
                     /\ packets_sent' \in Nat /\ packets_sent' >= packets_sent
                     /\ bytes_sent' \in Nat /\ bytes_sent' >= bytes_sent
<1>1. ASSUME Counts PROVE LoadsInOrder'
  BY <1>1 DEF TypeOK, LoadsInOrder, NotLoaded
<1>2. ASSUME NEW s \in Sessions, ReceiveMessage(s) \/ SendConnectionEvent(s) \/ Step(s)
      PROVE  Counts
  <2>1. CASE CountPackets(s) \/ CountBytes(s)
    BY <2>1 DEF CountPackets, CountBytes, TypeOK, metricsVars
  <2>2. CASE ~(CountPackets(s) \/ CountBytes(s))
    <3>1. UNCHANGED << packets_sent, bytes_sent, stats, prev >>
      BY <1>2, <2>2 DEF ReceiveMessage, SendConnectionEvent, BeginJob, Step,
           ClaimSequence, FindSocket, CreateSocket, OpenSocket, BindFails, TransmitOk,
           TransmitWouldBlock, TransmitError, metricsVars
    <3> QED BY <3>1 DEF TypeOK
  <2> QED BY <2>1, <2>2
<1>3. CASE LoadPackets \/ LoadBytes
  BY <1>3 DEF LoadPackets, LoadBytes, sessionVars, TypeOK, LoadsInOrder, NotLoaded
<1>4. CASE Report
  BY <1>4 DEF Report, sessionVars, TypeOK, LoadsInOrder, NotLoaded
<1>5. CASE UNCHANGED vars
  BY <1>5 DEF vars, LoadsInOrder
<1> HIDE DEF Counts
<1> QED BY <1>1, <1>2, <1>3, <1>4, <1>5 DEF Next, Metrics

\* No report of the metrics task sees a counter below the one of the report
\* before, although it reads the counters while tasks add to them (get_stats).
THEOREM ReportsNeverSaturateTheorem == Spec => ReportsNeverSaturate
<1> DEFINE InOrder == Report => stats.packets >= prev.packets /\ stats.bytes >= prev.bytes
<1>1. Init => LoadsInOrder
  BY DEF Init, LoadsInOrder, NotLoaded
<1>2. TypeOK /\ LoadsInOrder /\ [Next]_vars => [InOrder]_vars
  BY DEF TypeOK, LoadsInOrder, Report, NotLoaded
<1>3. Spec => [][InOrder]_vars
  BY <1>1, <1>2, LoadsStep, TypeCorrect, PTL DEF Spec
<1> QED BY <1>3 DEF ReportsNeverSaturate
-----------------------------------------------------------------------------
(***************************************************************************)
(* No number is lost: the packets built so far are the ones on the         *)
(* network, the ones that wait and the ones dropped, and a step only moves *)
(* them from one of these places to another, or builds the next one.       *)
(***************************************************************************)

\* The packets built so far, wherever they are now.
Built == (UNION {OnWire(p) : p \in Ports}) \cup (UNION {Pending(s) : s \in Sessions})
         \cup {d.packet : d \in dropped}

\* What a claim adds is one packet, with the number of the counter.
LEMMA BuiltClaim ==
  ASSUME TypeOK, NEW s \in Sessions, ClaimSequence(s)
  PROVE  \E x : x.sequence_number = sequence_counter /\ Built' = Built \cup {x}
<1> DEFINE pkt == [frame |-> Head(frames[s]),
                   sequence_number |-> sequence_counter, session |-> s,
                   job |-> job[s], index |-> Len(packets[s]) + 1]
<1>1. packets' = [packets EXCEPT ![s] = Append(packets[s], pkt)]
  BY DEF ClaimSequence, Push
<1>2. pkt.sequence_number = sequence_counter
  OBVIOUS
<1> HIDE DEF pkt
<1>3. packets \in [Sessions -> Seq(Packet)]
  BY DEF TypeOK
<1>4. \A x : (\E t \in Sessions : \E i \in DOMAIN packets'[t] : x = packets'[t][i])
             <=> \/ \E t \in Sessions : \E i \in DOMAIN packets[t] : x = packets[t][i]
                 \/ x = pkt
  <2>1. /\ \A t \in Sessions : t # s => packets'[t] = packets[t]
        /\ DOMAIN packets'[s] = 1 .. Len(packets[s]) + 1
        /\ DOMAIN packets[s] = 1 .. Len(packets[s])
        /\ Len(packets[s]) \in Nat
        /\ \A i \in DOMAIN packets[s] : packets'[s][i] = packets[s][i]
        /\ packets'[s][Len(packets[s]) + 1] = pkt
    BY <1>1, <1>3
  <2>2. \A t \in Sessions : DOMAIN packets[t] \subseteq DOMAIN packets'[t]
    BY <2>1
  <2>3. \A t \in Sessions : \A i \in DOMAIN packets'[t] :
          \/ i \in DOMAIN packets[t] /\ packets'[t][i] = packets[t][i]
          \/ packets'[t][i] = pkt
    BY <2>1
  <2>4. \A t \in Sessions : \A i \in DOMAIN packets[t] : packets'[t][i] = packets[t][i]
    BY <2>1
  <2>5. Len(packets[s]) + 1 \in DOMAIN packets'[s]
    BY <2>1
  <2> QED BY <2>1, <2>2, <2>3, <2>4, <2>5
<1>5. wire' = wire /\ dropped' = dropped
  BY DEF ClaimSequence
<1>6. Built' = Built \cup {pkt}
  BY <1>4, <1>5 DEF Built, OnWire, Pending
<1> QED BY <1>2, <1>6

\* The first waiting packet of a session goes to the network or is dropped, or
\* all that wait are dropped: nothing is lost and nothing is made.
LEMMA BuiltMove ==
  ASSUME TypeOK, NEW s \in Sessions, packets[s] # << >>,
         \/ /\ packets' = [packets EXCEPT ![s] = Tail(packets[s])]
            /\ wire' = [wire EXCEPT ![SessionPort[s]] =
                          Append(wire[SessionPort[s]], packets[s][1])]
            /\ dropped' = dropped
         \/ /\ packets' = [packets EXCEPT ![s] = Tail(packets[s])]
            /\ wire' = wire
            /\ \E c : dropped' = dropped \cup {[packet |-> packets[s][1], cause |-> c]}
         \/ /\ packets' = [packets EXCEPT ![s] = << >>]
            /\ wire' = wire
            /\ \E c : dropped' = dropped
                 \cup {[packet |-> packets[s][1], cause |-> c]}
                 \cup {[packet |-> packets[s][i], cause |-> "Abandoned"] :
                         i \in 2 .. Len(packets[s])}
  PROVE  Built' = Built
<1> DEFINE waiting == UNION {Pending(t) : t \in Sessions}
           sent    == UNION {OnWire(p) : p \in Ports}
           lost    == {d.packet : d \in dropped}
           first   == packets[s][1]
           held    == {packets[s][i] : i \in 1 .. Len(packets[s])}
<1>1. /\ packets \in [Sessions -> Seq(Packet)]
      /\ wire \in [Ports -> Seq(Packet)]
      /\ packets[s] \in Seq(Packet)
      /\ SessionPort[s] \in Ports
  BY PipelineAssumption DEF TypeOK
<1>2. /\ DOMAIN packets[s] = 1 .. Len(packets[s])
      /\ Len(packets[s]) \in Nat \ {0}
  BY <1>1
<1>3. ASSUME packets' = [packets EXCEPT ![s] = Tail(packets[s])]
      PROVE  waiting = waiting' \cup {first}
  <2>1. /\ \A t \in Sessions : t # s => packets'[t] = packets[t]
        /\ packets'[s] = Tail(packets[s])
    BY <1>1, <1>3
  <2>2. /\ DOMAIN Tail(packets[s]) = 1 .. Len(packets[s]) - 1
        /\ \A i \in 1 .. Len(packets[s]) - 1 : Tail(packets[s])[i] = packets[s][i + 1]
    BY <1>1
  <2>3. ASSUME NEW x
        PROVE  (\E i \in DOMAIN packets[s] : x = packets[s][i])
               <=> (\E i \in DOMAIN packets'[s] : x = packets'[s][i]) \/ x = first
    <3>1. ASSUME NEW i \in DOMAIN packets[s], x = packets[s][i]
          PROVE  (\E k \in DOMAIN packets'[s] : x = packets'[s][k]) \/ x = first
      <4>1. CASE i = 1
        BY <3>1, <4>1
      <4>2. CASE i # 1
        <5>1. i - 1 \in 1 .. Len(packets[s]) - 1 /\ (i - 1) + 1 = i
          BY <1>2, <4>2
        <5>2. i - 1 \in DOMAIN packets'[s] /\ packets'[s][i - 1] = packets[s][i]
          BY <2>1, <2>2, <5>1
        <5> QED BY <3>1, <5>2
      <4> QED BY <4>1, <4>2
    <3>2. ASSUME NEW i \in DOMAIN packets'[s], x = packets'[s][i]
          PROVE  \E k \in DOMAIN packets[s] : x = packets[s][k]
      <4>1. i + 1 \in DOMAIN packets[s] /\ packets'[s][i] = packets[s][i + 1]
        BY <1>2, <2>1, <2>2
      <4> QED BY <3>2, <4>1
    <3>3. 1 \in DOMAIN packets[s]
      BY <1>2
    <3> QED BY <3>1, <3>2, <3>3
  <2>4. waiting = (UNION {Pending(t) : t \in Sessions \ {s}}) \cup Pending(s)
    BY DEF Pending
  <2>5. waiting' = (UNION {Pending(t)' : t \in Sessions \ {s}}) \cup Pending(s)'
    BY DEF Pending
  <2>6. \A t \in Sessions \ {s} : Pending(t)' = Pending(t)
    BY <2>1 DEF Pending
  <2>7. Pending(s) = Pending(s)' \cup {first}
    <3>1. ASSUME NEW x PROVE x \in Pending(s) <=> x \in Pending(s)' \/ x = first
      BY <2>3 DEF Pending
    <3> HIDE DEF first
    <3> QED BY <3>1
  <2> QED BY <2>4, <2>5, <2>6, <2>7
<1>4. ASSUME packets' = [packets EXCEPT ![s] = << >>]
      PROVE  waiting = waiting' \cup held
  <2>1. /\ \A t \in Sessions : t # s => packets'[t] = packets[t]
        /\ packets'[s] = << >>
    BY <1>1, <1>4
  <2>2. DOMAIN packets'[s] = {}
    BY <2>1
  <2> QED BY <1>2, <2>1, <2>2 DEF Pending
<1>5. ASSUME wire' = [wire EXCEPT ![SessionPort[s]] = Append(wire[SessionPort[s]], first)]
      PROVE  sent' = sent \cup {first}
  <2> DEFINE port == SessionPort[s]
             q    == wire[port]
  <2>1. /\ \A p \in Ports : p # port => wire'[p] = wire[p]
        /\ DOMAIN wire'[port] = 1 .. Len(q) + 1
        /\ DOMAIN q = 1 .. Len(q)
        /\ Len(q) \in Nat
        /\ \A i \in DOMAIN q : wire'[port][i] = q[i]
        /\ wire'[port][Len(q) + 1] = first
    BY <1>1, <1>5
  <2>2. ASSUME NEW p \in Ports, NEW i \in DOMAIN wire[p]
        PROVE  i \in DOMAIN wire'[p] /\ wire'[p][i] = wire[p][i]
    <3>1. CASE p = port
      <4>1. i \in DOMAIN q
        BY <2>2, <3>1
      <4>2. i \in 1 .. Len(q) + 1 /\ wire'[port][i] = q[i]
        BY <2>1, <4>1
      <4> QED BY <2>1, <3>1, <4>2
    <3>2. CASE p # port
      BY <2>1, <2>2, <3>2
    <3> QED BY <3>1, <3>2
  <2>3. \A p \in Ports : \A i \in DOMAIN wire'[p] :
          (i \in DOMAIN wire[p] /\ wire'[p][i] = wire[p][i]) \/ wire'[p][i] = first
    BY <2>1
  <2>4. Len(q) + 1 \in DOMAIN wire'[port]
    BY <2>1
  <2>5. ASSUME NEW x \in sent' PROVE x \in sent \cup {first}
    <3>1. PICK p \in Ports : \E i \in DOMAIN wire'[p] : x = wire'[p][i]
      BY <2>5 DEF OnWire
    <3> QED BY <2>3, <3>1 DEF OnWire
  <2>6. ASSUME NEW x \in sent \cup {first} PROVE x \in sent'
    <3>1. CASE x = first
      BY <1>1, <2>1, <2>4, <3>1 DEF OnWire
    <3>2. CASE x \in sent
      <4>1. PICK p \in Ports : \E i \in DOMAIN wire[p] : x = wire[p][i]
        BY <3>2 DEF OnWire
      <4> QED BY <2>2, <4>1 DEF OnWire
    <3> QED BY <3>1, <3>2
  <2> QED BY <2>5, <2>6
<1>6. ASSUME NEW c, dropped' = dropped \cup {[packet |-> first, cause |-> c]}
      PROVE  lost' = lost \cup {first}
  <2> DEFINE d == [packet |-> first, cause |-> c]
  <2>1. d.packet = first /\ dropped' = dropped \cup {d}
    BY <1>6
  <2> HIDE DEF d, first
  <2> QED BY <2>1
<1>7. ASSUME NEW c,
             dropped' = dropped \cup {[packet |-> first, cause |-> c]}
               \cup {[packet |-> packets[s][i], cause |-> "Abandoned"] :
                       i \in 2 .. Len(packets[s])}
      PROVE  lost' = lost \cup held
  <2> DEFINE d    == [packet |-> first, cause |-> c]
             e(i) == [packet |-> packets[s][i], cause |-> "Abandoned"]
  <2>1. lost' = lost \cup {first} \cup {packets[s][i] : i \in 2 .. Len(packets[s])}
    <3>1. /\ d.packet = first
          /\ \A i \in 2 .. Len(packets[s]) : e(i).packet = packets[s][i]
          /\ dropped' = dropped \cup {d} \cup {e(i) : i \in 2 .. Len(packets[s])}
      BY <1>7
    <3> HIDE DEF d, e, first
    <3> QED BY <3>1
  <2>2. \A i \in 1 .. Len(packets[s]) : i = 1 \/ i \in 2 .. Len(packets[s])
    BY <1>2
  <2>3. /\ 1 \in 1 .. Len(packets[s])
        /\ \A i \in 2 .. Len(packets[s]) : i \in 1 .. Len(packets[s])
    BY <1>2
  <2> QED BY <2>1, <2>2, <2>3
<1>8. Built = sent \cup waiting \cup lost /\ Built' = sent' \cup waiting' \cup lost'
  BY DEF Built
<1>9. CASE /\ packets' = [packets EXCEPT ![s] = Tail(packets[s])]
           /\ wire' = [wire EXCEPT ![SessionPort[s]] = Append(wire[SessionPort[s]], first)]
           /\ dropped' = dropped
  <2>1. lost' = lost
    BY <1>9
  <2> HIDE DEF sent, waiting, lost
  <2> QED BY <1>3, <1>5, <1>8, <1>9, <2>1
<1>10. CASE /\ packets' = [packets EXCEPT ![s] = Tail(packets[s])]
            /\ wire' = wire
            /\ \E c : dropped' = dropped \cup {[packet |-> first, cause |-> c]}
  <2>1. sent' = sent
    BY <1>10 DEF OnWire
  <2> HIDE DEF sent, waiting, lost
  <2> QED BY <1>3, <1>6, <1>8, <1>10, <2>1
<1>11. CASE /\ packets' = [packets EXCEPT ![s] = << >>]
            /\ wire' = wire
            /\ \E c : dropped' = dropped \cup {[packet |-> first, cause |-> c]}
                 \cup {[packet |-> packets[s][i], cause |-> "Abandoned"] :
                         i \in 2 .. Len(packets[s])}
  <2>1. sent' = sent
    BY <1>11 DEF OnWire
  <2> HIDE DEF sent, waiting, lost, held
  <2> QED BY <1>4, <1>7, <1>8, <1>11, <2>1
<1> QED BY <1>9, <1>10, <1>11 DEF first

\* Every step keeps the packets built so far, or builds the next one.
LEMMA BuiltStep ==
  ASSUME TypeInv, [Next]_vars
  PROVE  \/ sequence_counter' = sequence_counter /\ Built' = Built
         \/ /\ sequence_counter' = sequence_counter + 1
            /\ \E x : x.sequence_number = sequence_counter /\ Built' = Built \cup {x}
<1> DEFINE Kept == sequence_counter' = sequence_counter /\ Built' = Built
<1>1. ASSUME UNCHANGED << sequence_counter, packets, wire, dropped >> PROVE Kept
  BY <1>1 DEF Built, Pending, OnWire
<1>2. TypeOK
  BY DEF TypeInv
<1>3. \A s \in Sessions :
        pc[s] \in {"lookup", "transmit"}
          => packets[s] \in Seq(Packet) /\ packets[s] # << >> /\ Head(packets[s]) = packets[s][1]
  BY DEF TypeInv, TypeOK, HasWork
<1>4. ASSUME NEW s \in Sessions, ClaimSequence(s)
      PROVE  /\ sequence_counter' = sequence_counter + 1
             /\ \E x : x.sequence_number = sequence_counter /\ Built' = Built \cup {x}
  <2>1. sequence_counter' = sequence_counter + 1
    BY <1>4 DEF ClaimSequence, AdvanceCounter
  <2> QED BY <1>2, <1>4, <2>1, BuiltClaim
<1>5. ASSUME NEW s \in Sessions, NEW c, pc[s] \in {"lookup", "transmit"}, AbandonJob(s, c),
             UNCHANGED << sequence_counter, wire >>
      PROVE  Kept
  <2>1. /\ packets' = [packets EXCEPT ![s] = << >>]
        /\ dropped' = dropped
             \cup {[packet |-> packets[s][1], cause |-> c]}
             \cup {[packet |-> packets[s][i], cause |-> "Abandoned"] :
                     i \in 2 .. Len(packets[s])}
    BY <1>3, <1>5 DEF AbandonJob
  <2>2. Built' = Built
    BY <1>2, <1>3, <1>5, <2>1, BuiltMove
  <2> QED BY <1>5, <2>2
<1>6. ASSUME NEW s \in Sessions, TransmitOk(s) PROVE Kept
  <2>1. /\ packets' = [packets EXCEPT ![s] = Tail(packets[s])]
        /\ wire' = [wire EXCEPT ![SessionPort[s]] =
                      Append(wire[SessionPort[s]], packets[s][1])]
        /\ dropped' = dropped /\ sequence_counter' = sequence_counter
        /\ packets[s] # << >>
    BY <1>3, <1>6 DEF TransmitOk
  <2>2. Built' = Built
    BY <1>2, <2>1, BuiltMove
  <2> QED BY <2>1, <2>2
<1>7. ASSUME NEW s \in Sessions, TransmitWouldBlock(s) PROVE Kept
  <2>1. /\ packets' = [packets EXCEPT ![s] = Tail(packets[s])]
        /\ dropped' = dropped \cup {[packet |-> packets[s][1], cause |-> "WouldBlock"]}
        /\ wire' = wire /\ sequence_counter' = sequence_counter
        /\ packets[s] # << >>
    BY <1>3, <1>7 DEF TransmitWouldBlock
  <2>2. Built' = Built
    BY <1>2, <2>1, BuiltMove
  <2> QED BY <2>1, <2>2
<1>8. ASSUME NEW s \in Sessions, BindFails(s) \/ TransmitError(s) PROVE Kept
  BY <1>5, <1>8 DEF BindFails, TransmitError
<1>9. ASSUME NEW s \in Sessions,
             \/ ReceiveMessage(s) \/ SendConnectionEvent(s)
             \/ FindSocket(s) \/ CreateSocket(s) \/ CountPackets(s) \/ CountBytes(s)
      PROVE  Kept
  <2>1. UNCHANGED << sequence_counter, packets, wire, dropped >>
    BY <1>9 DEF ReceiveMessage, SendConnectionEvent, BeginJob, FindSocket, CreateSocket,
                OpenSocket, CountPackets, CountBytes
  <2> QED BY <1>1, <2>1
<1>10. ASSUME Metrics \/ UNCHANGED vars PROVE Kept
  <2>1. UNCHANGED << sequence_counter, packets, wire, dropped >>
    BY <1>10 DEF Metrics, LoadPackets, LoadBytes, Report, sessionVars, vars
  <2> QED BY <1>1, <2>1
<1> QED BY <1>4, <1>6, <1>7, <1>8, <1>9, <1>10 DEF Next, Step

\* Each number handed out so far is the number of a packet on the network, of
\* one that waits or of one whose loss the code has seen, for any sessions and
\* any faults (fetch_add, then send_packet_to_port or an error).
THEOREM SequenceAccountedTheorem == Spec => []SequenceAccounted
<1> DEFINE Numbers == {x.sequence_number : x \in Built}
<1>1. SequenceAccounted <=> 1 .. sequence_counter - 1 = Numbers
  BY DEF SequenceAccounted, Built
<1>2. SequenceAccounted' <=> 1 .. sequence_counter' - 1 = Numbers'
  BY DEF SequenceAccounted, Built
<1>3. Init => SequenceAccounted
  BY DEF Init, SequenceAccounted, OnWire, Pending
<1>4. TypeInv /\ SequenceAccounted /\ [Next]_vars => SequenceAccounted'
  <2> SUFFICES ASSUME TypeInv, 1 .. sequence_counter - 1 = Numbers, [Next]_vars
               PROVE  1 .. sequence_counter' - 1 = Numbers'
    BY <1>1, <1>2
  <2>1. sequence_counter \in Nat \ {0}
    BY DEF TypeInv, TypeOK
  <2>2. CASE sequence_counter' = sequence_counter /\ Built' = Built
    BY <2>2
  <2>3. CASE /\ sequence_counter' = sequence_counter + 1
             /\ \E x : x.sequence_number = sequence_counter /\ Built' = Built \cup {x}
    <3>1. Numbers' = Numbers \cup {sequence_counter}
      BY <2>3
    <3>2. 1 .. (sequence_counter + 1) - 1 = (1 .. sequence_counter - 1) \cup {sequence_counter}
      BY <2>1
    <3> HIDE DEF Numbers
    <3> QED BY <2>3, <3>1, <3>2
  <2> QED BY <2>2, <2>3, BuiltStep
<1> QED BY <1>3, <1>4, TypeInit, TypeStep, PTL DEF Spec

-----------------------------------------------------------------------------
(***************************************************************************)
(* Messages.  A session holds the packets of one job at a time, in their   *)
(* order, and takes them from the front.                                   *)
(***************************************************************************)

\* What a built packet says of itself.
LEMMA PacketFields ==
  ASSUME TypeOK
  PROVE  /\ \A t \in Sessions : \A i \in DOMAIN packets[t] : packets[t][i] \in Packet
         /\ \A p \in Ports : \A i \in DOMAIN wire[p] : wire[p][i] \in Packet
         /\ \A x \in Packet : x.session \in Sessions /\ x.job \in Nat /\ x.index \in Nat \ {0}
<1>1. ASSUME NEW q \in Seq(Packet), NEW i \in DOMAIN q PROVE q[i] \in Packet
  BY <1>1, LenProperties, ElementOfSeq
<1>2. /\ \A t \in Sessions : packets[t] \in Seq(Packet)
      /\ \A p \in Ports : wire[p] \in Seq(Packet)
  BY DEF TypeOK
<1>3. \A x \in Packet : x.session \in Sessions /\ x.job \in Nat /\ x.index \in Nat \ {0}
  BY DEF Packet
<1> QED BY <1>1, <1>2, <1>3

\* The network and the dropped packets only grow.
Grows ==
  /\ \A p \in Ports : \A i \in DOMAIN wire[p] :
       i \in DOMAIN wire'[p] /\ wire'[p][i] = wire[p][i]
  /\ dropped \subseteq dropped'

\* What is gone stays gone while the session is at the same job.
LEMMA GoneStays ==
  ASSUME Grows, NEW s \in Sessions, NEW k, job'[s] = job[s], Gone(s, k)
  PROVE  Gone(s, k)'
<1>1. SessionPort[s] \in Ports
  BY PipelineAssumption
<1> QED BY <1>1 DEF Grows, Gone

\* Nothing waits and nothing is sent in the initial state.
LEMMA JobInit == Init => JobInv
BY DEF Init, JobInv, JobHeld, JobsInOrder, PrefixGone, MessagePrefix

\* Steps that leave the packets where they are: a task goes on to send, to
\* count, or to its next job when nothing waits.
LEMMA JobUntouched ==
  ASSUME TypeOK, JobInv, UNCHANGED << job, frames, packets, wire, dropped >>,
         \A t \in Sessions :
           \/ pc'[t] = pc[t]
           \/ /\ pc[t] \in {"lookup", "transmit", "count"}
              /\ pc'[t] \in {"lookup", "transmit", "idle"}
              /\ pc'[t] = "idle" => packets[t] = << >>
  PROVE  JobInv'
<1>1. JobHeld'
  BY DEF JobInv, JobHeld
<1>2. JobsInOrder'
  BY DEF JobInv, JobsInOrder
<1>3. PrefixGone' /\ MessagePrefix'
  BY DEF JobInv, PrefixGone, Gone, MessagePrefix
<1> QED BY <1>1, <1>2, <1>3 DEF JobInv

\* A job begins with nothing left over from the one before.
LEMMA JobBegin ==
  ASSUME TypeOK, JobInv, NEW s \in Sessions, NEW fs, BeginJob(s, fs)
  PROVE  JobInv'
<1>1. /\ packets' = packets /\ wire' = wire /\ dropped' = dropped
      /\ packets[s] = << >> /\ pc[s] = "idle"
      /\ pc'[s] = IF fs = << >> THEN "idle" ELSE "build"
      /\ frames'[s] = fs
      /\ job'[s] = job[s] + 1 /\ job[s] \in Nat
      /\ \A t \in Sessions : t # s => /\ pc'[t] = pc[t] /\ frames'[t] = frames[t]
                                      /\ job'[t] = job[t]
  BY DEF BeginJob, TypeOK, JobInv, JobHeld
<1>2. DOMAIN packets[s] = {}
  BY <1>1
<1>3. JobHeld'
  BY <1>1, <1>2 DEF JobInv, JobHeld
<1>4. JobsInOrder'
  <2>1. \A p \in Ports : \A i \in DOMAIN wire[p] :
          wire[p][i].session \in Sessions /\ wire[p][i].job \in Nat
    BY PacketFields
  <2>2. \A t \in Sessions : \A n \in 1 .. job[t] : n \in 1 .. job'[t]
    BY <1>1
  <2>3. \A p \in Ports : \A i \in DOMAIN wire[p] : wire[p][i].job \in 1 .. job'[wire[p][i].session]
    BY <2>1, <2>2 DEF JobInv, JobsInOrder
  <2>4. \A t \in Sessions : pc'[t] = "count" => t # s
    BY <1>1
  <2> QED BY <1>1, <2>3, <2>4 DEF JobInv, JobsInOrder
<1>5. PrefixGone'
  <2>1. Grows
    BY <1>1 DEF Grows
  <2>2. ASSUME NEW t \in Sessions, NEW j \in DOMAIN packets[t],
               NEW k \in 1 .. packets[t][j].index - 1
        PROVE  Gone(t, k)' \/ \E i \in 1 .. j - 1 : packets[t][i].index = k
    <3>1. t # s
      BY <1>2
    <3>2. Gone(t, k) \/ \E i \in 1 .. j - 1 : packets[t][i].index = k
      BY DEF JobInv, PrefixGone
    <3> QED BY <1>1, <2>1, <3>1, <3>2, GoneStays
  <2> QED BY <1>1, <2>2 DEF PrefixGone
<1>6. MessagePrefix'
  BY <1>1 DEF JobInv, MessagePrefix
<1> QED BY <1>3, <1>4, <1>5, <1>6 DEF JobInv

\* A packet is built behind those of its message that were built before it.
LEMMA JobClaim ==
  ASSUME TypeInv, JobInv, NEW s \in Sessions, ClaimSequence(s)
  PROVE  JobInv'
<1> DEFINE pkt == [frame |-> Head(frames[s]),
                   sequence_number |-> sequence_counter, session |-> s,
                   job |-> job[s], index |-> Len(packets[s]) + 1]
           len == Len(packets[s])
<1>1. /\ packets' = [packets EXCEPT ![s] = Append(packets[s], pkt)]
      /\ wire' = wire /\ dropped' = dropped /\ job' = job
      /\ pc[s] = "build"
  BY DEF ClaimSequence, Push
<1>2. pkt.job = job[s] /\ pkt.index = len + 1
  OBVIOUS
<1> HIDE DEF pkt
<1>3. /\ packets \in [Sessions -> Seq(Packet)]
      /\ pc'[s] \in {"build", "lookup", "transmit"}
      /\ pc'[s] # "build" => frames'[s] = << >>
      /\ \A t \in Sessions : t # s => pc'[t] = pc[t] /\ frames'[t] = frames[t]
  BY DEF ClaimSequence, SendEntry, TypeInv, TypeOK
<1>4. /\ \A t \in Sessions : t # s => packets'[t] = packets[t]
      /\ DOMAIN packets'[s] = 1 .. len + 1
      /\ DOMAIN packets[s] = 1 .. len
      /\ len \in Nat
      /\ \A i \in DOMAIN packets[s] : packets'[s][i] = packets[s][i]
      /\ packets'[s][len + 1] = pkt
  BY <1>1, <1>3
<1> HIDE DEF len
<1>5. \A i \in DOMAIN packets'[s] : i \in DOMAIN packets[s] \/ i = len + 1
  BY <1>4
<1>6. \A i \in DOMAIN packets'[s] : packets'[s][i].index = i /\ packets'[s][i].job = job[s]
  BY <1>1, <1>2, <1>4, <1>5 DEF JobInv, JobHeld
<1>7. JobHeld'
  BY <1>1, <1>3, <1>4, <1>6 DEF JobInv, JobHeld
<1>8. JobsInOrder'
  BY <1>1, <1>3 DEF JobInv, JobsInOrder
<1>9. PrefixGone'
  <2>1. ASSUME NEW j \in DOMAIN packets'[s], NEW k \in 1 .. packets'[s][j].index - 1
        PROVE  \E i \in 1 .. j - 1 : packets'[s][i].index = k
    <3>1. packets'[s][j].index = j /\ j \in 1 .. len + 1
      BY <1>4, <1>6
    <3>2. k \in 1 .. j - 1 /\ k \in DOMAIN packets'[s]
      BY <1>4, <3>1
    <3> QED BY <1>6, <3>2
  <2>2. ASSUME NEW t \in Sessions, t # s, NEW j \in DOMAIN packets[t],
               NEW k \in 1 .. packets[t][j].index - 1
        PROVE  Gone(t, k)' \/ \E i \in 1 .. j - 1 : packets[t][i].index = k
    BY <1>1 DEF JobInv, PrefixGone, Gone
  <2> QED BY <1>4, <2>1, <2>2 DEF PrefixGone
<1>10. MessagePrefix'
  BY <1>1 DEF JobInv, MessagePrefix
<1> QED BY <1>7, <1>8, <1>9, <1>10 DEF JobInv

\* When the first waiting packet of a session goes, those behind it have all
\* that precedes them gone or before them still.
LEMMA PrefixShift ==
  ASSUME TypeOK, JobInv, Grows, NEW s \in Sessions, packets[s] # << >>,
         packets' = [packets EXCEPT ![s] = Tail(packets[s])], job' = job,
         NEW n, n = packets[s][1].index, Gone(s, n)'
  PROVE  PrefixGone'
<1>1. /\ packets \in [Sessions -> Seq(Packet)]
      /\ packets[s] \in Seq(Packet)
  BY DEF TypeOK
<1>2. /\ \A t \in Sessions : t # s => packets'[t] = packets[t]
      /\ DOMAIN packets'[s] = 1 .. Len(packets[s]) - 1
      /\ DOMAIN packets[s] = 1 .. Len(packets[s])
      /\ Len(packets[s]) \in Nat
      /\ \A i \in 1 .. Len(packets[s]) - 1 : packets'[s][i] = packets[s][i + 1]
  BY <1>1
<1>3. ASSUME NEW j \in DOMAIN packets'[s], NEW k \in 1 .. packets'[s][j].index - 1
      PROVE  Gone(s, k)' \/ \E i \in 1 .. j - 1 : packets'[s][i].index = k
  <2>1. j + 1 \in DOMAIN packets[s] /\ packets'[s][j] = packets[s][j + 1]
    BY <1>2
  <2>2. Gone(s, k) \/ \E i \in 1 .. (j + 1) - 1 : packets[s][i].index = k
    BY <2>1 DEF JobInv, PrefixGone
  <2>3. CASE Gone(s, k)
    BY <2>3, GoneStays
  <2>4. ASSUME NEW i \in 1 .. (j + 1) - 1, packets[s][i].index = k
        PROVE  Gone(s, k)' \/ \E h \in 1 .. j - 1 : packets'[s][h].index = k
    <3>1. CASE i = 1
      BY <2>4, <3>1
    <3>2. CASE i # 1
      <4>1. i - 1 \in 1 .. j - 1 /\ i - 1 \in 1 .. Len(packets[s]) - 1 /\ (i - 1) + 1 = i
        BY <1>2, <3>2
      <4>2. packets'[s][i - 1] = packets[s][i]
        BY <1>2, <4>1
      <4> QED BY <2>4, <4>1, <4>2
    <3> QED BY <3>1, <3>2
  <2> QED BY <2>2, <2>3, <2>4
<1>4. ASSUME NEW t \in Sessions, t # s, NEW j \in DOMAIN packets[t],
             NEW k \in 1 .. packets[t][j].index - 1
      PROVE  Gone(t, k)' \/ \E i \in 1 .. j - 1 : packets[t][i].index = k
  <2>1. Gone(t, k) \/ \E i \in 1 .. j - 1 : packets[t][i].index = k
    BY DEF JobInv, PrefixGone
  <2> QED BY <2>1, GoneStays
<1>5. ASSUME NEW t \in Sessions, NEW j \in DOMAIN packets'[t],
             NEW k \in 1 .. packets'[t][j].index - 1
      PROVE  Gone(t, k)' \/ \E i \in 1 .. j - 1 : packets'[t][i].index = k
  <2>1. CASE t = s
    <3>1. j \in DOMAIN packets'[s] /\ k \in 1 .. packets'[s][j].index - 1
      BY <1>5, <2>1
    <3>2. Gone(s, k)' \/ \E i \in 1 .. j - 1 : packets'[s][i].index = k
      BY <1>3, <3>1
    <3> QED BY <2>1, <3>2, Zenon
  <2>2. CASE t # s
    <3>1. packets'[t] = packets[t]
      BY <1>2, <2>2
    <3> QED BY <1>4, <2>2, <3>1
  <2> QED BY <2>1, <2>2
<1> QED BY <1>5 DEF PrefixGone

\* What holds of the packets of the current job holds of those left of it.
LEMMA HeldShift ==
  ASSUME TypeOK, JobInv, NEW s \in Sessions, NEW rest, NEW next,
         rest = << >> \/ (packets[s] # << >> /\ rest = Tail(packets[s])),
         next = "idle" => rest = << >>, next # "build", pc[s] \notin {"idle", "build"},
         packets' = [packets EXCEPT ![s] = rest],
         pc' = [pc EXCEPT ![s] = next], UNCHANGED << job, frames >>
  PROVE  JobHeld'
<1>1. /\ packets \in [Sessions -> Seq(Packet)]
      /\ packets[s] \in Seq(Packet)
      /\ packets'[s] = rest
      /\ pc'[s] = next
      /\ \A t \in Sessions : t # s => packets'[t] = packets[t] /\ pc'[t] = pc[t]
  BY DEF TypeOK
<1>2. \A i \in DOMAIN rest : i + 1 \in DOMAIN packets[s] /\ rest[i] = packets[s][i + 1]
  <2>1. CASE rest = << >>
    BY <2>1
  <2>2. CASE packets[s] # << >> /\ rest = Tail(packets[s])
    BY <1>1, <2>2
  <2> QED BY <2>1, <2>2
<1>3. \A i \in DOMAIN rest : rest[i].job = job[s]
  BY <1>2 DEF JobInv, JobHeld
<1> QED BY <1>1, <1>3 DEF JobInv, JobHeld

\* The first waiting packet of a session goes on the network: all that precedes
\* it in its message is gone already.
LEMMA JobSend ==
  ASSUME TypeInv, SequenceInv, JobInv, NEW s \in Sessions, TransmitOk(s)
  PROVE  JobInv'
<1> DEFINE port == SessionPort[s]
           pkt  == packets[s][1]
           len  == Len(wire[port])
<1>1. /\ packets \in [Sessions -> Seq(Packet)]
      /\ wire \in [Ports -> Seq(Packet)]
      /\ packets[s] # << >>
      /\ TypeOK
      /\ job \in [Sessions -> Nat]
  BY DEF TypeInv, TypeOK, HasWork, TransmitOk
<1>2. port \in Ports
  BY PipelineAssumption
<1>3. /\ packets' = [packets EXCEPT ![s] = Tail(packets[s])]
      /\ wire' = [wire EXCEPT ![port] = Append(wire[port], pkt)]
      /\ dropped' = dropped /\ job' = job /\ frames' = frames
      /\ pc' = [pc EXCEPT ![s] = "count"]
      /\ pc[s] = "transmit"
      /\ pc \in [Sessions -> {"idle", "build", "lookup", "transmit", "count"}]
  BY <1>1 DEF TransmitOk, TypeOK
<1>4. 1 \in DOMAIN packets[s]
  BY <1>1
<1>5. pkt.session = s /\ pkt.job = job[s] /\ pkt \in Packet
  BY <1>1, <1>4, PacketFields DEF SequenceInv, NumbersBelowCounter, JobInv, JobHeld
<1>6. /\ \A p \in Ports : p # port => wire'[p] = wire[p]
      /\ len \in Nat
      /\ DOMAIN wire[port] = 1 .. len
      /\ DOMAIN wire'[port] = 1 .. len + 1
      /\ \A i \in 1 .. len : wire'[port][i] = wire[port][i]
      /\ wire'[port][len + 1] = pkt
      /\ len + 1 \in DOMAIN wire'[port]
  BY <1>1, <1>2, <1>3
<1>7. PICK n : n = pkt.index
  OBVIOUS
<1>8. /\ \A p \in Ports : \A i \in DOMAIN wire[p] : i \in Nat /\ i > 0
      /\ \A p \in Ports : \A i \in DOMAIN wire[p] : \A j \in 1 .. i - 1 : j \in DOMAIN wire[p]
  BY <1>1
<1>9. /\ \A p \in Ports : \A i \in DOMAIN wire[p] :
           wire[p][i].session \in Sessions /\ wire[p][i].job \in Nat
  BY <1>1, PacketFields
<1>10. JobHeld'
  BY <1>1, <1>3, HeldShift
<1>11. \A k : Gone(s, k) <=>
         \/ \E i \in 1 .. len : /\ wire[port][i].session = s
                                /\ wire[port][i].job = job[s]
                                /\ wire[port][i].index = k
         \/ \E d \in dropped : /\ d.cause = "WouldBlock"
                               /\ d.packet.session = s
                               /\ d.packet.job = job[s]
                               /\ d.packet.index = k
  BY <1>6 DEF Gone
<1>12. \A k \in 1 .. n - 1 : Gone(s, k)
  BY <1>4, <1>7 DEF JobInv, PrefixGone
<1>13. Gone(s, n)'
  BY <1>3, <1>5, <1>6, <1>7 DEF Gone
<1> HIDE DEF pkt, len
<1>14. Grows
  BY <1>3, <1>6 DEF Grows
<1>15. PrefixGone'
  BY <1>1, <1>3, <1>7, <1>13, <1>14, PrefixShift DEF pkt
<1> HIDE DEF port
<1>16. JobsInOrder'
  <2>1. ASSUME NEW p \in Ports, NEW i \in DOMAIN wire'[p]
        PROVE  /\ wire'[p][i].job \in 1 .. job[wire'[p][i].session]
               /\ \A j \in 1 .. i - 1 : wire'[p][j].session = wire'[p][i].session
                                          => wire'[p][j].job <= wire'[p][i].job
    <3>1. CASE p # port \/ i # len + 1
      <4>1. i \in DOMAIN wire[p] /\ wire'[p][i] = wire[p][i]
        BY <1>6, <3>1
      <4>2. \A j \in 1 .. i - 1 : j \in DOMAIN wire[p] /\ wire'[p][j] = wire[p][j]
        BY <1>6, <1>8, <4>1
      <4> QED BY <4>1, <4>2 DEF JobInv, JobsInOrder
    <3>2. CASE p = port /\ i = len + 1
      <4>1. wire'[p][i] = pkt
        BY <1>6, <3>2
      <4>2. \A j \in 1 .. i - 1 : j \in DOMAIN wire[p] /\ wire'[p][j] = wire[p][j]
        BY <1>6, <3>2
      <4>3. \A j \in 1 .. i - 1 : wire[p][j].session = s => wire[p][j].job <= job[s]
        BY <4>2 DEF JobInv, JobsInOrder
      <4>4. job[s] \in 1 .. job[s]
        BY <1>1, <1>3 DEF JobInv, JobHeld
      <4> QED BY <1>5, <4>1, <4>2, <4>3, <4>4
    <3> QED BY <3>1, <3>2
  <2>2. ASSUME NEW t \in Sessions, pc'[t] = "count"
        PROVE  \E i \in DOMAIN wire'[SessionPort[t]] :
                 /\ wire'[SessionPort[t]][i].session = t
                 /\ wire'[SessionPort[t]][i].job = job[t]
    <3>1. CASE t = s
      BY <1>5, <1>6, <3>1 DEF port
    <3>2. CASE t # s
      <4>1. pc[t] = "count"
        BY <1>3, <2>2, <3>2
      <4>2. SessionPort[t] \in Ports
        BY PipelineAssumption
      <4> QED BY <1>14, <4>1, <4>2 DEF JobInv, JobsInOrder, Grows
    <3> QED BY <3>1, <3>2
  <2> QED BY <1>3, <2>1, <2>2 DEF JobsInOrder
<1>17. dropped' = dropped
  BY <1>3
<1>18. MessagePrefix'
  <2> SUFFICES ASSUME NEW p \in Ports, NEW j \in DOMAIN wire'[p],
                      NEW k \in 1 .. wire'[p][j].index - 1
               PROVE  \/ \E i \in 1 .. j - 1 :
                           /\ wire'[p][i].session = wire'[p][j].session
                           /\ wire'[p][i].job = wire'[p][j].job
                           /\ wire'[p][i].index = k
                      \/ \E d \in dropped :
                           /\ d.cause = "WouldBlock"
                           /\ d.packet.session = wire'[p][j].session
                           /\ d.packet.job = wire'[p][j].job
                           /\ d.packet.index = k
    BY <1>17, Zenon DEF MessagePrefix
  <2>1. CASE p # port \/ j # len + 1
    <3>1. j \in DOMAIN wire[p] /\ wire'[p][j] = wire[p][j]
      BY <1>6, <2>1
    <3>2. \A i \in 1 .. j - 1 : wire'[p][i] = wire[p][i]
      BY <1>6, <1>8, <3>1
    <3>3. \/ \E i \in 1 .. j - 1 :
               /\ wire[p][i].session = wire[p][j].session
               /\ wire[p][i].job = wire[p][j].job
               /\ wire[p][i].index = k
          \/ \E d \in dropped :
               /\ d.cause = "WouldBlock"
               /\ d.packet.session = wire[p][j].session
               /\ d.packet.job = wire[p][j].job
               /\ d.packet.index = k
      BY <3>1 DEF JobInv, MessagePrefix
    <3> QED BY <3>1, <3>2, <3>3
  <2>2. CASE p = port /\ j = len + 1
    <3>1. wire'[p][j] = pkt
      BY <1>6, <2>2
    <3>2. k \in 1 .. n - 1 /\ j - 1 = len
      BY <1>6, <1>7, <2>2, <3>1
    <3>3. Gone(s, k)
      BY <1>12, <3>2
    <3> QED BY <1>5, <1>6, <1>11, <2>2, <3>1, <3>2, <3>3
  <2> QED BY <2>1, <2>2
<1> QED BY <1>10, <1>15, <1>16, <1>18 DEF JobInv

\* More packets dropped: what was said of the network stays true.
LEMMA JobDropped ==
  ASSUME JobInv, dropped \subseteq dropped', UNCHANGED << job, wire >>,
         \A t \in Sessions : pc'[t] = "count" => pc[t] = "count"
  PROVE  Grows /\ JobsInOrder' /\ MessagePrefix'
<1>1. Grows
  BY DEF Grows
<1>2. JobsInOrder'
  BY DEF JobInv, JobsInOrder
<1>3. MessagePrefix'
  BY DEF JobInv, MessagePrefix
<1> QED BY <1>1, <1>2, <1>3

\* A full socket buffer drops the first waiting packet.
LEMMA JobBlocked ==
  ASSUME TypeInv, SequenceInv, JobInv, NEW s \in Sessions, TransmitWouldBlock(s)
  PROVE  JobInv'
<1> DEFINE pkt == packets[s][1]
           d   == [packet |-> pkt, cause |-> "WouldBlock"]
<1>1. packets[s] \in Seq(Packet) /\ packets[s] # << >> /\ TypeOK
  BY DEF TypeInv, TypeOK, HasWork, TransmitWouldBlock
<1>2. /\ packets' = [packets EXCEPT ![s] = Tail(packets[s])]
      /\ wire' = wire /\ job' = job /\ frames' = frames
      /\ dropped' = dropped \cup {d}
      /\ pc[s] = "transmit"
      /\ pc' = [pc EXCEPT ![s] = AfterPacket(s, Tail(packets[s]))]
      /\ pc \in [Sessions -> {"idle", "build", "lookup", "transmit", "count"}]
  BY <1>1 DEF TransmitWouldBlock, TypeOK
<1>3. /\ AfterPacket(s, Tail(packets[s])) \in {"idle", "transmit", "lookup"}
      /\ AfterPacket(s, Tail(packets[s])) = "idle" => Tail(packets[s]) = << >>
  BY DEF AfterPacket, SendEntry
<1>4. JobHeld'
  BY <1>1, <1>2, <1>3, HeldShift
<1>5. Grows /\ JobsInOrder' /\ MessagePrefix'
  BY <1>2, <1>3, JobDropped
<1>6. PICK n : n = pkt.index
  OBVIOUS
<1>7. 1 \in DOMAIN packets[s]
  BY <1>1
<1>8. pkt.session = s /\ pkt.job = job[s]
  BY <1>7 DEF SequenceInv, NumbersBelowCounter, JobInv, JobHeld
<1>9. Gone(s, n)'
  <2>1. d \in dropped' /\ d.packet = pkt /\ d.cause = "WouldBlock"
    BY <1>2
  <2> HIDE DEF d, pkt
  <2> QED BY <1>2, <1>6, <1>8, <2>1 DEF Gone
<1>10. PrefixGone'
  BY <1>1, <1>2, <1>5, <1>6, <1>9, PrefixShift
<1> QED BY <1>4, <1>5, <1>10 DEF JobInv

\* An error ends the job, and with it what waits.
LEMMA JobAbandon ==
  ASSUME TypeInv, JobInv, NEW s \in Sessions, NEW c, pc[s] \in {"lookup", "transmit"},
         AbandonJob(s, c), UNCHANGED << job, frames, wire >>
  PROVE  JobInv'
<1>1. /\ packets' = [packets EXCEPT ![s] = << >>]
      /\ dropped \subseteq dropped'
      /\ pc' = [pc EXCEPT ![s] = "idle"]
      /\ pc \in [Sessions -> {"idle", "build", "lookup", "transmit", "count"}]
      /\ packets \in [Sessions -> Seq(Packet)]
      /\ TypeOK
  BY DEF AbandonJob, TypeInv, TypeOK
<1>2. JobHeld'
  BY <1>1, HeldShift
<1>3. Grows /\ JobsInOrder' /\ MessagePrefix'
  BY <1>1, JobDropped
<1>4. PrefixGone'
  <2>1. DOMAIN packets'[s] = {} /\ \A t \in Sessions : t # s => packets'[t] = packets[t]
    BY <1>1
  <2>2. ASSUME NEW t \in Sessions, NEW j \in DOMAIN packets'[t],
               NEW k \in 1 .. packets'[t][j].index - 1
        PROVE  Gone(t, k)' \/ \E i \in 1 .. j - 1 : packets'[t][i].index = k
    <3>1. t # s /\ packets'[t] = packets[t]
      BY <2>1
    <3>2. Gone(t, k) \/ \E i \in 1 .. j - 1 : packets[t][i].index = k
      BY <3>1 DEF JobInv, PrefixGone
    <3> QED BY <1>3, <3>1, <3>2, GoneStays
  <2> QED BY <2>2 DEF PrefixGone
<1> QED BY <1>2, <1>3, <1>4 DEF JobInv

\* Every step keeps the packets of a message in their order.
LEMMA JobStep == TypeInv /\ SequenceInv /\ JobInv /\ [Next]_vars => JobInv'
<1> SUFFICES ASSUME TypeInv, SequenceInv, JobInv, [Next]_vars PROVE JobInv'
  OBVIOUS
<1>1. TypeOK
  BY DEF TypeInv
<1>2. ASSUME NEW s \in Sessions, ReceiveMessage(s) \/ SendConnectionEvent(s) PROVE JobInv'
  BY <1>1, <1>2, JobBegin DEF ReceiveMessage, SendConnectionEvent
<1>3. ASSUME NEW s \in Sessions, ClaimSequence(s) PROVE JobInv'
  BY <1>3, JobClaim
<1>4. ASSUME NEW s \in Sessions, FindSocket(s) \/ CreateSocket(s) PROVE JobInv'
  <2>1. /\ UNCHANGED << job, frames, packets, wire, dropped >>
        /\ pc[s] = "lookup" /\ pc' = [pc EXCEPT ![s] = "transmit"]
    BY <1>4 DEF FindSocket, CreateSocket, OpenSocket
  <2>2. \A t \in Sessions : pc'[t] = IF t = s THEN "transmit" ELSE pc[t]
    BY <1>1, <2>1 DEF TypeOK
  <2> QED BY <1>1, <2>1, <2>2, JobUntouched
<1>5. ASSUME NEW s \in Sessions, CountPackets(s) \/ CountBytes(s) PROVE JobInv'
  <2>1. /\ UNCHANGED << job, frames, packets, wire, dropped >>
        /\ pc[s] = "count"
        /\ \/ pc' = [pc EXCEPT ![s] = "count"]
           \/ pc' = [pc EXCEPT ![s] = AfterPacket(s, packets[s])]
    BY <1>5 DEF CountPackets, CountBytes
  <2>2. /\ AfterPacket(s, packets[s]) \in {"idle", "lookup", "transmit"}
        /\ AfterPacket(s, packets[s]) = "idle" => packets[s] = << >>
    BY DEF AfterPacket, SendEntry
  <2>3. \A t \in Sessions :
          \/ pc'[t] = pc[t]
          \/ t = s /\ pc'[t] = AfterPacket(s, packets[s])
    BY <1>1, <2>1 DEF TypeOK
  <2> QED BY <1>1, <2>1, <2>2, <2>3, JobUntouched
<1>6. ASSUME NEW s \in Sessions, BindFails(s) \/ TransmitError(s) PROVE JobInv'
  BY <1>6, JobAbandon DEF BindFails, TransmitError
<1>7. ASSUME NEW s \in Sessions, TransmitOk(s) PROVE JobInv'
  BY <1>7, JobSend
<1>8. ASSUME NEW s \in Sessions, TransmitWouldBlock(s) PROVE JobInv'
  BY <1>8, JobBlocked
<1>9. ASSUME Metrics \/ UNCHANGED vars PROVE JobInv'
  <2>1. UNCHANGED << pc, job, frames, packets, wire, dropped >>
    BY <1>9 DEF Metrics, LoadPackets, LoadBytes, Report, sessionVars, vars
  <2> QED BY <1>1, <2>1, JobUntouched
<1> QED BY <1>2, <1>3, <1>4, <1>5, <1>6, <1>7, <1>8, <1>9 DEF Next, Step

\* Types, numbers and jobs together are inductive.
THEOREM JobInvariant == Spec => [](TypeInv /\ SequenceInv /\ JobInv)
<1>1. Init => TypeInv /\ SequenceInv /\ JobInv
  BY TypeInit, SequenceInit, JobInit
<1>2. TypeInv /\ SequenceInv /\ JobInv /\ [Next]_vars
        => TypeInv' /\ SequenceInv' /\ JobInv'
  BY TypeStep, SequenceStep, JobStep
<1> QED BY <1>1, <1>2, PTL DEF Spec

\* Of every message a receiver gets a prefix, with holes only where the socket
\* buffer was full, for any sessions, messages and faults: an error that gives
\* up a message lets no later packet of it through (the `?` behind
\* send_packet_to_port in process_and_send_to_port).
THEOREM MessagePrefixTheorem == Spec => []MessagePrefix
<1>1. TypeInv /\ SequenceInv /\ JobInv => MessagePrefix
  BY DEF JobInv
<1> QED BY <1>1, JobInvariant, PTL

\* A packet of job j of session s is on the network, or was dropped.
Traced(s, j) ==
  \/ \E i \in DOMAIN wire[SessionPort[s]] :
       wire[SessionPort[s]][i].session = s /\ wire[SessionPort[s]][i].job = j
  \/ \E d \in dropped : d.packet.session = s /\ d.packet.job = j

\* A trace is never lost.
LEMMA TraceStays ==
  ASSUME Grows, NEW s \in Sessions, NEW j, Traced(s, j)
  PROVE  Traced(s, j)'
<1>1. SessionPort[s] \in Ports
  BY PipelineAssumption
<1> QED BY <1>1 DEF Grows, Traced

\* A job that had something to send leaves a trace before its task goes on.
LEMMA JobTrace ==
  ASSUME TypeInv, SequenceInv, JobInv, NEW s \in Sessions, Step(s)
  PROVE  /\ Grows
         /\ pc[s] # "idle" /\ job' = job
         /\ \A t \in Sessions : t # s => pc'[t] = pc[t]
         /\ \A j : j = job[s] /\ pc'[s] = "idle" => Traced(s, j)'
<1>1. /\ pc \in [Sessions -> {"idle", "build", "lookup", "transmit", "count"}]
      /\ wire \in [Ports -> Seq(Packet)]
      /\ SessionPort[s] \in Ports
  BY PipelineAssumption DEF TypeInv, TypeOK
<1>2. ASSUME pc[s] \in {"lookup", "transmit"}
      PROVE  /\ packets[s] \in Seq(Packet) /\ packets[s] # << >>
             /\ Head(packets[s]) = packets[s][1]
             /\ packets[s][1].session = s
             /\ packets[s][1].job = job[s]
  <2>1. packets[s] \in Seq(Packet) /\ packets[s] # << >>
    BY <1>2 DEF TypeInv, TypeOK, HasWork
  <2>2. 1 \in DOMAIN packets[s] /\ Head(packets[s]) = packets[s][1]
    BY <2>1
  <2> QED BY <2>1, <2>2 DEF SequenceInv, NumbersBelowCounter, JobInv, JobHeld
<1>3. ASSUME NEW c, pc[s] \in {"lookup", "transmit"}, job' = job,
             [packet |-> Head(packets[s]), cause |-> c] \in dropped'
      PROVE  \A j : j = job[s] => Traced(s, j)'
  <2> DEFINE d == [packet |-> Head(packets[s]), cause |-> c]
  <2>1. d \in dropped' /\ d.packet = packets[s][1]
    BY <1>2, <1>3
  <2> HIDE DEF d
  <2> QED BY <1>2, <1>3, <2>1 DEF Traced
<1>4. CASE ClaimSequence(s)
  BY <1>1, <1>4 DEF ClaimSequence, SendEntry, Grows
<1>5. CASE FindSocket(s) \/ CreateSocket(s)
  BY <1>1, <1>5 DEF FindSocket, CreateSocket, OpenSocket, Grows
<1>6. ASSUME NEW c, pc[s] \in {"lookup", "transmit"}, AbandonJob(s, c),
             UNCHANGED << job, wire >>
      PROVE  /\ Grows
             /\ pc[s] # "idle" /\ job' = job
             /\ \A t \in Sessions : t # s => pc'[t] = pc[t]
             /\ \A j : j = job[s] /\ pc'[s] = "idle" => Traced(s, j)'
  <2>1. /\ dropped \subseteq dropped'
        /\ [packet |-> Head(packets[s]), cause |-> c] \in dropped'
        /\ pc' = [pc EXCEPT ![s] = "idle"]
    BY <1>6 DEF AbandonJob
  <2>2. Grows
    BY <1>6, <2>1 DEF Grows
  <2>3. \A j : j = job[s] => Traced(s, j)'
    BY <1>3, <1>6, <2>1
  <2> QED BY <1>1, <1>6, <2>1, <2>2, <2>3
<1>7. CASE BindFails(s) \/ TransmitError(s)
  BY <1>6, <1>7 DEF BindFails, TransmitError
<1>8. CASE TransmitOk(s)
  <2>1. /\ wire' = [wire EXCEPT ![SessionPort[s]] = Append(@, Head(packets[s]))]
        /\ dropped' = dropped
    BY <1>8 DEF TransmitOk
  <2>2. Grows
    BY <1>1, <2>1 DEF Grows
  <2> QED BY <1>1, <1>8, <2>2 DEF TransmitOk
<1>9. CASE TransmitWouldBlock(s)
  <2>1. /\ dropped' = dropped \cup {[packet |-> Head(packets[s]), cause |-> "WouldBlock"]}
        /\ wire' = wire /\ job' = job /\ pc[s] = "transmit"
        /\ \A t \in Sessions : t # s => pc'[t] = pc[t]
    BY <1>1, <1>9 DEF TransmitWouldBlock
  <2>2. Grows
    BY <2>1 DEF Grows
  <2>3. \A j : j = job[s] => Traced(s, j)'
    BY <1>3, <2>1
  <2> QED BY <2>1, <2>2, <2>3
<1>10. CASE CountPackets(s) \/ CountBytes(s)
  <2>1. /\ UNCHANGED << wire, dropped, job >> /\ pc[s] = "count"
        /\ \A t \in Sessions : t # s => pc'[t] = pc[t]
    BY <1>1, <1>10 DEF CountPackets, CountBytes
  <2>2. Grows
    BY <2>1 DEF Grows
  <2>3. \A j : j = job[s] => Traced(s, j)'
    BY <2>1 DEF Traced, JobInv, JobsInOrder
  <2> QED BY <2>1, <2>2, <2>3
<1> QED BY <1>4, <1>5, <1>7, <1>8, <1>9, <1>10 DEF Step

-----------------------------------------------------------------------------
(***************************************************************************)
(* The statistics.  Three steps concern the counters: a send, which makes  *)
(* the session owe an addition to each, and the two additions.             *)
(***************************************************************************)

\* The size of a packet and the number of bytes of a sequence of them.
LEMMA BytesType ==
  ASSUME NEW q \in Seq(Packet)
  PROVE  /\ IsFiniteSet(DOMAIN q)
         /\ [i \in DOMAIN q |-> q[i].frame.size] \in [DOMAIN q -> Nat]
         /\ BytesOf(q) \in Nat
<1>1. Len(q) \in Nat /\ DOMAIN q = 1 .. Len(q)
  BY LenProperties
<1>2. IsFiniteSet(DOMAIN q)
  BY <1>1, FS_Interval
<1>3. \A i \in DOMAIN q : q[i].frame.size \in Nat
  <2>1. \A i \in DOMAIN q : q[i] \in Packet
    BY <1>1, ElementOfSeq
  <2> QED BY <2>1 DEF Packet, Frame
<1>4. [i \in DOMAIN q |-> q[i].frame.size] \in [DOMAIN q -> Nat]
  BY <1>3
<1> QED BY <1>2, <1>4, SumType DEF BytesOf

\* One packet more.
LEMMA BytesAppend ==
  ASSUME NEW q \in Seq(Packet), NEW pkt \in Packet
  PROVE  BytesOf(Append(q, pkt)) = BytesOf(q) + pkt.frame.size
<1> DEFINE r == Append(q, pkt)
           f == [i \in DOMAIN q |-> q[i].frame.size]
           e == [i \in DOMAIN r |-> r[i].frame.size]
           y == Len(q) + 1
<1>1. Len(q) \in Nat /\ DOMAIN q = 1 .. Len(q) /\ r \in Seq(Packet)
  BY LenProperties
<1>2. y \notin DOMAIN q /\ DOMAIN r = DOMAIN q \cup {y}
  BY <1>1
<1>3. r[y] = pkt /\ \A i \in DOMAIN q : r[i] = q[i]
  BY <1>1
<1>4. IsFiniteSet(DOMAIN q) /\ f \in [DOMAIN q -> Nat]
  BY BytesType
<1>5. e \in [DOMAIN r -> Nat]
  BY <1>1, BytesType
<1>6. e[y] = pkt.frame.size /\ \A i \in DOMAIN q : f[i] = e[i]
  BY <1>2, <1>3
<1>7. BytesOf(q) = SumFunction(f) /\ BytesOf(r) = SumFunction(e)
  BY DEF BytesOf
<1> HIDE DEF f, e, y, r
<1>8. PICK D : D = DOMAIN q
  OBVIOUS
<1>9. e \in [D \cup {y} -> Nat]
  BY <1>2, <1>5, <1>8
<1>10. IsFiniteSet(D) /\ f \in [D -> Nat] /\ y \notin D /\ Agree(f, e, D)
  BY <1>2, <1>4, <1>6, <1>8 DEF Agree
<1>11. SumFunction(e) = SumFunction(f) + e[y]
  BY <1>9, <1>10, SumGrow
<1> QED BY <1>6, <1>7, <1>11 DEF r

\* The sums, for what is on the ports and what the sessions owe.
PacketsOn(w) == SumFunction([p \in Ports |-> Len(w[p])])
BytesOn(w) == SumFunction([p \in Ports |-> BytesOf(w[p])])
PacketsIn(o) == SumFunction([s \in Sessions |-> o[s].packets])
BytesIn(o) == SumFunction([s \in Sessions |-> o[s].bytes])

Debts == [Sessions -> [packets : Nat, bytes : Nat]]

\* One packet more on the ports.
OneMore(w, v, pkt) ==
  PacketsOn(v) = PacketsOn(w) + 1 /\ BytesOn(v) = BytesOn(w) + pkt.frame.size

\* Session s owes n and b, the others what they did.
NewDebt(o, u, s, n, b) ==
  /\ PacketsIn(u) + o[s].packets = PacketsIn(o) + n
  /\ BytesIn(u) + o[s].bytes = BytesIn(o) + b
  /\ PacketsIn(u) \in Nat /\ BytesIn(u) \in Nat

\* A packet more on one port.
LEMMA SentMore ==
  ASSUME NEW w \in [Ports -> Seq(Packet)], NEW port \in Ports, NEW pkt \in Packet,
         NEW v, v = [w EXCEPT ![port] = Append(w[port], pkt)]
  PROVE  OneMore(w, v, pkt)
<1> DEFINE lw == [p \in Ports |-> Len(w[p])]
           lv == [p \in Ports |-> Len(v[p])]
           bw == [p \in Ports |-> BytesOf(w[p])]
           bv == [p \in Ports |-> BytesOf(v[p])]
<1>1. Append(w[port], pkt) \in Seq(Packet)
      /\ Len(Append(w[port], pkt)) = Len(w[port]) + 1
  OBVIOUS
<1>2. /\ v \in [Ports -> Seq(Packet)]
      /\ v[port] = Append(w[port], pkt)
      /\ \A p \in Ports \ {port} : v[p] = w[p]
  BY <1>1
<1>3. lw \in [Ports -> Nat] /\ lv \in [Ports -> Nat]
  BY <1>2, LenProperties
<1>4. bw \in [Ports -> Nat] /\ bv \in [Ports -> Nat]
  BY <1>2, BytesType
<1>5. Agree(lw, lv, Ports \ {port})
  BY <1>2 DEF Agree
<1>6. Agree(bw, bv, Ports \ {port})
  BY <1>2 DEF Agree
<1>7. lv[port] = lw[port] + 1
  BY <1>1, <1>2
<1>8. bv[port] = bw[port] + pkt.frame.size
  BY <1>2, BytesAppend
<1>9. pkt.frame.size \in Nat
  BY DEF Packet, Frame
<1>10. IsFiniteSet(Ports)
  BY PipelineAssumption
<1> HIDE DEF lw, lv, bw, bv
<1>11. SumFunction(lw) + lv[port] = SumFunction(lv) + lw[port]
  BY <1>3, <1>5, <1>10, SumChange
<1>12. SumFunction(bw) + bv[port] = SumFunction(bv) + bw[port]
  BY <1>4, <1>6, <1>10, SumChange
<1>13. /\ SumFunction(lw) \in Nat /\ SumFunction(lv) \in Nat
       /\ SumFunction(bw) \in Nat /\ SumFunction(bv) \in Nat
       /\ lw[port] \in Nat /\ bw[port] \in Nat
  BY <1>3, <1>4, <1>10, SumType
<1>14. \A x, y, c, z \in Nat : x + (c + z) = y + c => y = x + z
  OBVIOUS
<1>15. SumFunction(lv) = SumFunction(lw) + 1
  BY <1>7, <1>11, <1>13, <1>14
<1>16. SumFunction(bv) = SumFunction(bw) + pkt.frame.size
  <2>1. SumFunction(bw) + (bw[port] + pkt.frame.size) = SumFunction(bv) + bw[port]
    BY <1>8, <1>12, Zenon
  <2>2. PICK x \in Nat, y \in Nat, c \in Nat, z \in Nat :
          x = SumFunction(bw) /\ y = SumFunction(bv) /\ c = bw[port] /\ z = pkt.frame.size
    BY <1>9, <1>13
  <2>3. x + (c + z) = y + c
    BY <2>1, <2>2
  <2>4. y = x + z
    BY <2>3
  <2> QED BY <2>2, <2>4
<1> QED BY <1>15, <1>16 DEF lw, lv, bw, bv, OneMore, PacketsOn, BytesOn

\* Another debt of one session.
LEMMA OwedChange ==
  ASSUME NEW o \in Debts, NEW s \in Sessions, NEW n \in Nat, NEW b \in Nat,
         NEW u, u = [o EXCEPT ![s] = [packets |-> n, bytes |-> b]]
  PROVE  NewDebt(o, u, s, n, b)
<1> USE DEF Debts
<1> DEFINE po == [t \in Sessions |-> o[t].packets]
           pu == [t \in Sessions |-> u[t].packets]
           bo == [t \in Sessions |-> o[t].bytes]
           bu == [t \in Sessions |-> u[t].bytes]
<1>1. /\ u \in [Sessions -> [packets : Nat, bytes : Nat]]
      /\ u[s] = [packets |-> n, bytes |-> b]
      /\ \A t \in Sessions \ {s} : u[t] = o[t]
  OBVIOUS
<1>2. po \in [Sessions -> Nat] /\ pu \in [Sessions -> Nat]
  BY <1>1
<1>3. bo \in [Sessions -> Nat] /\ bu \in [Sessions -> Nat]
  BY <1>1
<1>4. Agree(po, pu, Sessions \ {s})
  BY <1>1 DEF Agree
<1>5. Agree(bo, bu, Sessions \ {s})
  BY <1>1 DEF Agree
<1>6. pu[s] = n /\ bu[s] = b /\ po[s] = o[s].packets /\ bo[s] = o[s].bytes
  BY <1>1
<1>7. IsFiniteSet(Sessions)
  BY PipelineAssumption
<1> HIDE DEF po, pu, bo, bu
<1>8. SumFunction(po) + pu[s] = SumFunction(pu) + po[s]
  BY <1>2, <1>4, <1>7, SumChange
<1>9. SumFunction(bo) + bu[s] = SumFunction(bu) + bo[s]
  BY <1>3, <1>5, <1>7, SumChange
<1>10. SumFunction(pu) \in Nat /\ SumFunction(bu) \in Nat
  BY <1>2, <1>3, <1>7, SumType
<1> QED BY <1>6, <1>8, <1>9, <1>10 DEF po, pu, bo, bu, NewDebt, PacketsIn, BytesIn

\* The sums are natural numbers.
LEMMA SumsAreNat ==
  ASSUME TypeOK
  PROVE  /\ SentPackets \in Nat /\ SentBytes \in Nat
         /\ OwedPackets \in Nat /\ OwedBytes \in Nat
<1>1. IsFiniteSet(Sessions) /\ IsFiniteSet(Ports)
  BY PipelineAssumption
<1>2. [p \in Ports |-> Len(wire[p])] \in [Ports -> Nat]
  BY LenProperties DEF TypeOK
<1>3. [p \in Ports |-> BytesOf(wire[p])] \in [Ports -> Nat]
  BY BytesType DEF TypeOK
<1>4. [s \in Sessions |-> owed[s].packets] \in [Sessions -> Nat]
  BY DEF TypeOK
<1>5. [s \in Sessions |-> owed[s].bytes] \in [Sessions -> Nat]
  BY DEF TypeOK
<1> QED
  BY <1>1, <1>2, <1>3, <1>4, <1>5, SumType DEF SentPackets, SentBytes, OwedPackets, OwedBytes

\* The sums of the model are these.
LEMMA SameSums ==
  /\ SentPackets = PacketsOn(wire) /\ SentBytes = BytesOn(wire)
  /\ OwedPackets = PacketsIn(owed) /\ OwedBytes = BytesIn(owed)
  /\ SentPackets' = PacketsOn(wire') /\ SentBytes' = BytesOn(wire')
  /\ OwedPackets' = PacketsIn(owed') /\ OwedBytes' = BytesIn(owed')
BY Zenon DEF SentPackets, SentBytes, OwedPackets, OwedBytes, PacketsOn, BytesOn, PacketsIn,
             BytesIn, BytesOf

\* Nothing is sent, counted or owed in the initial state.
LEMMA CountInit == Init => CountInv
<1> SUFFICES ASSUME Init PROVE CountInv
  OBVIOUS
<1>1. OwesNothingElse
  BY DEF Init, OwesNothingElse
<1>2. IsFiniteSet(Sessions) /\ IsFiniteSet(Ports)
  BY PipelineAssumption
<1>3. BytesOf(<< >>) = 0
  <2>1. [i \in DOMAIN << >> |-> << >>[i].frame.size] \in [{} -> Nat]
    OBVIOUS
  <2> QED BY <2>1, SumEmpty DEF BytesOf
<1>4. SentPackets = 0
  <2> DEFINE f == [p \in Ports |-> Len(wire[p])]
  <2>1. f \in [Ports -> Nat] /\ \A p \in Ports : f[p] = 0
    BY DEF Init
  <2> HIDE DEF f
  <2>2. SumFunction(f) = 0
    BY <1>2, <2>1, SumZero
  <2> QED BY <2>2 DEF f, SentPackets
<1>5. SentBytes = 0
  <2> DEFINE f == [p \in Ports |-> BytesOf(wire[p])]
  <2>1. f \in [Ports -> Nat] /\ \A p \in Ports : f[p] = 0
    BY <1>3 DEF Init
  <2> HIDE DEF f
  <2>2. SumFunction(f) = 0
    BY <1>2, <2>1, SumZero
  <2> QED BY <2>2 DEF f, SentBytes
<1>6. OwedPackets = 0
  <2> DEFINE f == [s \in Sessions |-> owed[s].packets]
  <2>1. f \in [Sessions -> Nat] /\ \A s \in Sessions : f[s] = 0
    BY DEF Init
  <2> HIDE DEF f
  <2>2. SumFunction(f) = 0
    BY <1>2, <2>1, SumZero
  <2> QED BY <2>2 DEF f, OwedPackets
<1>7. OwedBytes = 0
  <2> DEFINE f == [s \in Sessions |-> owed[s].bytes]
  <2>1. f \in [Sessions -> Nat] /\ \A s \in Sessions : f[s] = 0
    BY DEF Init
  <2> HIDE DEF f
  <2>2. SumFunction(f) = 0
    BY <1>2, <2>1, SumZero
  <2> QED BY <2>2 DEF f, OwedBytes
<1>8. AllCounted
  BY <1>4, <1>5, <1>6, <1>7 DEF AllCounted, Init
<1> QED BY <1>1, <1>8 DEF CountInv

\* A send: the packet and the debt come together.
LEMMA CountSend ==
  ASSUME TypeInv, CountInv, NEW s \in Sessions, TransmitOk(s)
  PROVE  CountInv'
<1> DEFINE pkt == Head(packets[s])
<1>1. TypeOK /\ packets[s] \in Seq(Packet) /\ packets[s] # << >>
  BY DEF TypeInv, TypeOK, HasWork, TransmitOk
<1>2. /\ pkt \in Packet
      /\ pkt.frame.size \in Nat
  <2>1. pkt \in Packet
    BY <1>1
  <2> QED BY <2>1 DEF Packet, Frame
<1>3. /\ SessionPort[s] \in Ports
      /\ wire \in [Ports -> Seq(Packet)]
      /\ owed \in [Sessions -> [packets : Nat, bytes : Nat]]
      /\ pc \in [Sessions -> {"idle", "build", "lookup", "transmit", "count"}]
      /\ packets_sent \in Nat /\ bytes_sent \in Nat
  BY <1>1, PipelineAssumption DEF TypeOK
<1>4. /\ wire' = [wire EXCEPT ![SessionPort[s]] = Append(wire[SessionPort[s]], pkt)]
      /\ owed' = [owed EXCEPT ![s] = [packets |-> 1, bytes |-> pkt.frame.size]]
      /\ packets_sent' = packets_sent /\ bytes_sent' = bytes_sent
      /\ pc[s] = "transmit" /\ pc' = [pc EXCEPT ![s] = "count"]
  BY DEF TransmitOk
<1> HIDE DEF pkt
<1>5. PICK b \in Nat : b = pkt.frame.size
  BY <1>2
<1>6. OwesNothingElse'
  BY <1>3, <1>4 DEF CountInv, OwesNothingElse
<1>7. PacketsOn(wire') = PacketsOn(wire) + 1 /\ BytesOn(wire') = BytesOn(wire) + b
  <2>1. OneMore(wire, wire', pkt)
    BY <1>2, <1>3, <1>4, SentMore, Zenon
  <2> QED BY <1>5, <2>1 DEF OneMore
<1>8. owed[s].packets = 0 /\ owed[s].bytes = 0
  BY <1>4 DEF CountInv, OwesNothingElse
<1>9. /\ PacketsIn(owed') + 0 = PacketsIn(owed) + 1 /\ BytesIn(owed') + 0 = BytesIn(owed) + b
      /\ PacketsIn(owed') \in Nat /\ BytesIn(owed') \in Nat
  <2>1. owed' = [owed EXCEPT ![s] = [packets |-> 1, bytes |-> b]] /\ 1 \in Nat
    BY <1>4, <1>5
  <2>2. owed \in Debts
    BY <1>3 DEF Debts
  <2>3. NewDebt(owed, owed', s, 1, b)
    BY <2>1, <2>2, OwedChange, Zenon
  <2> QED BY <1>8, <2>3 DEF NewDebt
<1>10. /\ PacketsOn(wire) \in Nat /\ BytesOn(wire) \in Nat
       /\ PacketsIn(owed) \in Nat /\ BytesIn(owed) \in Nat
  BY <1>1, SumsAreNat, SameSums
<1>11. /\ packets_sent + PacketsIn(owed) = PacketsOn(wire)
       /\ bytes_sent + BytesIn(owed) = BytesOn(wire)
  BY SameSums DEF CountInv, AllCounted
<1>12. packets_sent + PacketsIn(owed') = PacketsOn(wire')
  BY <1>3, <1>7, <1>9, <1>10, <1>11
<1>13. bytes_sent + BytesIn(owed') = BytesOn(wire')
  BY <1>3, <1>7, <1>9, <1>10, <1>11
<1>14. AllCounted'
  BY <1>4, <1>12, <1>13, SameSums DEF AllCounted
<1> QED BY <1>6, <1>14 DEF CountInv

\* One of the two additions is made: n packets and b bytes are still owed, and
\* the counters have what is no longer owed.
LEMMA CountPaid ==
  ASSUME TypeOK, CountInv, NEW s \in Sessions, NEW n \in Nat, NEW b \in Nat,
         pc[s] = "count", wire' = wire,
         owed' = [owed EXCEPT ![s] = [packets |-> n, bytes |-> b]],
         packets_sent' + n = packets_sent + owed[s].packets,
         bytes_sent' + b = bytes_sent + owed[s].bytes,
         packets_sent' \in Nat, bytes_sent' \in Nat,
         \A t \in Sessions : t # s => pc'[t] = pc[t],
         pc'[s] # "count" => n = 0 /\ b = 0
  PROVE  CountInv'
<1>1. /\ owed \in Debts /\ packets_sent \in Nat /\ bytes_sent \in Nat
      /\ owed[s].packets \in Nat /\ owed[s].bytes \in Nat
  BY DEF TypeOK, Debts
<1>2. OwesNothingElse'
  BY <1>1 DEF CountInv, OwesNothingElse, Debts
<1>3. NewDebt(owed, owed', s, n, b)
  BY <1>1, OwedChange, Zenon
<1>4. /\ PacketsOn(wire) \in Nat /\ BytesOn(wire) \in Nat
      /\ PacketsIn(owed) \in Nat /\ BytesIn(owed) \in Nat
  BY SumsAreNat, SameSums
<1>5. /\ packets_sent + PacketsIn(owed) = PacketsOn(wire)
      /\ bytes_sent + BytesIn(owed) = BytesOn(wire)
  BY SameSums DEF CountInv, AllCounted
<1>6. \A c, d, x, y, m, k \in Nat : d + m = c + k /\ y + k = x + m => d + y = c + x
  OBVIOUS
<1>7. packets_sent' + PacketsIn(owed') = packets_sent + PacketsIn(owed)
  BY <1>1, <1>3, <1>4, <1>6 DEF NewDebt
<1>8. bytes_sent' + BytesIn(owed') = bytes_sent + BytesIn(owed)
  BY <1>1, <1>3, <1>4, <1>6 DEF NewDebt
<1>9. AllCounted'
  BY <1>5, <1>7, <1>8, SameSums DEF AllCounted
<1> QED BY <1>2, <1>9 DEF CountInv

\* Every other step leaves the counters, the debts and the network alone.
LEMMA CountUntouched ==
  ASSUME CountInv, UNCHANGED << wire, owed, packets_sent, bytes_sent >>,
         \A t \in Sessions : pc[t] = "count" => pc'[t] = "count"
  PROVE  CountInv'
<1>1. OwesNothingElse'
  BY DEF CountInv, OwesNothingElse
<1>2. AllCounted'
  BY SameSums DEF CountInv, AllCounted
<1> QED BY <1>1, <1>2 DEF CountInv

\* Every step keeps the counters and the debts in line with the network.
LEMMA CountStep == TypeInv /\ CountInv /\ [Next]_vars => CountInv'
<1> SUFFICES ASSUME TypeInv, CountInv, [Next]_vars PROVE CountInv'
  OBVIOUS
<1>1. /\ TypeOK
      /\ pc \in [Sessions -> {"idle", "build", "lookup", "transmit", "count"}]
      /\ owed \in [Sessions -> [packets : Nat, bytes : Nat]]
      /\ packets_sent \in Nat /\ bytes_sent \in Nat
  BY DEF TypeInv, TypeOK
<1>2. ASSUME NEW s \in Sessions, TransmitOk(s) PROVE CountInv'
  BY <1>2, CountSend
<1>3. ASSUME NEW s \in Sessions, CountPackets(s) PROVE CountInv'
  <2>1. owed[s].packets \in Nat /\ owed[s].bytes \in Nat
    BY <1>1
  <2>2. owed' = [owed EXCEPT ![s] = [packets |-> 0, bytes |-> owed[s].bytes]]
    <3>1. owed' = [owed EXCEPT ![s] = [owed[s] EXCEPT !.packets = 0]]
      BY <1>3 DEF CountPackets
    <3>2. [owed[s] EXCEPT !.packets = 0] = [packets |-> 0, bytes |-> owed[s].bytes]
      BY <1>1
    <3> QED BY <3>1, <3>2
  <2>3. packets_sent' = packets_sent + owed[s].packets /\ packets_sent' \in Nat
    BY <1>1, <1>3, <2>1 DEF CountPackets
  <2>4. /\ pc[s] = "count" /\ wire' = wire /\ bytes_sent' = bytes_sent
        /\ \A t \in Sessions : t # s => pc'[t] = pc[t]
        /\ pc'[s] # "count" => owed[s].bytes = 0
    BY <1>1, <1>3 DEF CountPackets
  <2>5. packets_sent' + 0 = packets_sent + owed[s].packets
    BY <2>3
  <2> QED BY <1>1, <2>1, <2>2, <2>3, <2>4, <2>5, CountPaid
<1>4. ASSUME NEW s \in Sessions, CountBytes(s) PROVE CountInv'
  <2>1. owed[s].packets \in Nat /\ owed[s].bytes \in Nat
    BY <1>1
  <2>2. owed' = [owed EXCEPT ![s] = [packets |-> owed[s].packets, bytes |-> 0]]
    <3>1. owed' = [owed EXCEPT ![s] = [owed[s] EXCEPT !.bytes = 0]]
      BY <1>4 DEF CountBytes
    <3>2. [owed[s] EXCEPT !.bytes = 0] = [packets |-> owed[s].packets, bytes |-> 0]
      BY <1>1
    <3> QED BY <3>1, <3>2
  <2>3. bytes_sent' = bytes_sent + owed[s].bytes /\ bytes_sent' \in Nat
    BY <1>1, <1>4, <2>1 DEF CountBytes
  <2>4. /\ pc[s] = "count" /\ wire' = wire /\ packets_sent' = packets_sent
        /\ \A t \in Sessions : t # s => pc'[t] = pc[t]
        /\ pc'[s] # "count" => owed[s].packets = 0
    BY <1>1, <1>4 DEF CountBytes
  <2>5. bytes_sent' + 0 = bytes_sent + owed[s].bytes
    BY <2>3
  <2> QED BY <1>1, <2>1, <2>2, <2>3, <2>4, <2>5, CountPaid
<1>5. ASSUME NEW s \in Sessions,
             \/ ReceiveMessage(s) \/ SendConnectionEvent(s) \/ ClaimSequence(s)
             \/ FindSocket(s) \/ CreateSocket(s) \/ BindFails(s)
             \/ TransmitWouldBlock(s) \/ TransmitError(s)
      PROVE  CountInv'
  <2>1. pc[s] # "count" /\ UNCHANGED << wire, owed, packets_sent, bytes_sent >>
    BY <1>5 DEF ReceiveMessage, SendConnectionEvent, BeginJob, ClaimSequence, FindSocket,
                CreateSocket, OpenSocket, BindFails, TransmitWouldBlock, TransmitError
  <2>2. \A t \in Sessions : t # s => pc'[t] = pc[t]
    BY <1>1, <1>5 DEF ReceiveMessage, SendConnectionEvent, BeginJob, ClaimSequence,
                      FindSocket, CreateSocket, OpenSocket, BindFails, AbandonJob,
                      TransmitWouldBlock, TransmitError
  <2> QED BY <2>1, <2>2, CountUntouched
<1>6. ASSUME Metrics \/ UNCHANGED vars PROVE CountInv'
  <2>1. UNCHANGED << pc, wire, owed, packets_sent, bytes_sent >>
    BY <1>6 DEF Metrics, LoadPackets, LoadBytes, Report, sessionVars, vars
  <2> QED BY <2>1, CountUntouched
<1> QED BY <1>2, <1>3, <1>4, <1>5, <1>6 DEF Next, Step

\* Types and counters together are inductive.
THEOREM CountInvariant == Spec => [](TypeInv /\ CountInv)
<1>1. Init => TypeInv /\ CountInv
  BY TypeInit, CountInit
<1>2. TypeInv /\ CountInv /\ [Next]_vars => TypeInv' /\ CountInv'
  BY TypeStep, CountStep
<1> QED BY <1>1, <1>2, PTL DEF Spec

\* When no session is counting nothing is owed.
LEMMA NothingOwed ==
  ASSUME TypeOK, OwesNothingElse, \A s \in Sessions : pc[s] # "count"
  PROVE  OwedPackets = 0 /\ OwedBytes = 0
<1> DEFINE p == [s \in Sessions |-> owed[s].packets]
           b == [s \in Sessions |-> owed[s].bytes]
<1>1. /\ p \in [Sessions -> Nat] /\ b \in [Sessions -> Nat]
      /\ \A s \in Sessions : p[s] = 0 /\ b[s] = 0
  BY DEF OwesNothingElse
<1>2. IsFiniteSet(Sessions)
  BY PipelineAssumption
<1> HIDE DEF p, b
<1>3. SumFunction(p) = 0
  BY <1>1, <1>2, SumZero
<1>4. SumFunction(b) = 0
  BY <1>1, <1>2, SumZero
<1> QED BY <1>3, <1>4 DEF p, b, OwedPackets, OwedBytes

\* The statistics count exactly what is on the network, save what running sends
\* still owe them, and are exact when no send is running, for any number of
\* sessions adding to them at once (the fetch_adds behind the send calls of
\* send_packet_to_port; a dropped or failed packet is never counted).
THEOREM StatsConservationTheorem == Spec => []StatsConservation
<1>1. TypeInv /\ CountInv => StatsConservation
  <2> SUFFICES ASSUME TypeInv, CountInv PROVE StatsConservation
    OBVIOUS
  <2>1. TypeOK /\ OwesNothingElse /\ AllCounted
    BY DEF TypeInv, CountInv
  <2>2. packets_sent \in Nat /\ bytes_sent \in Nat
    BY <2>1 DEF TypeOK
  <2>3. ASSUME \A s \in Sessions : pc[s] # "count"
        PROVE  packets_sent = SentPackets /\ bytes_sent = SentBytes
    <3>1. OwedPackets = 0 /\ OwedBytes = 0
      BY <2>1, <2>3, NothingOwed
    <3> QED BY <2>1, <2>2, <3>1 DEF AllCounted
  <2> QED BY <2>1, <2>3 DEF StatsConservation
<1> QED BY <1>1, CountInvariant, PTL

\* What a report of the metrics task shows was really sent, although the two
\* counters are loaded at different moments while sessions send (get_stats).
THEOREM ReportsSendsOnlyTheorem == Spec => []ReportsSendsOnly
<1>1. Init => LoadsInOrder
  BY DEF Init, LoadsInOrder, NotLoaded
<1>2. Spec => []LoadsInOrder
  BY <1>1, LoadsStep, TypeCorrect, PTL DEF Spec
<1>3. TypeInv /\ CountInv /\ LoadsInOrder => ReportsSendsOnly
  <2> SUFFICES ASSUME TypeInv, CountInv, LoadsInOrder PROVE ReportsSendsOnly
    OBVIOUS
  <2>1. TypeOK /\ AllCounted
    BY DEF TypeInv, CountInv
  <2>2. /\ packets_sent \in Nat /\ bytes_sent \in Nat
        /\ prev.packets \in Nat /\ prev.bytes \in Nat
    BY <2>1 DEF TypeOK
  <2>3. /\ SentPackets \in Nat /\ SentBytes \in Nat
        /\ OwedPackets \in Nat /\ OwedBytes \in Nat
    BY <2>1, SumsAreNat
  <2> QED BY <2>1, <2>2, <2>3 DEF AllCounted, LoadsInOrder, ReportsSendsOnly
<1> QED BY <1>2, <1>3, CountInvariant, PTL
=============================================================================
