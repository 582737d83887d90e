------------------------ MODULE PacketBuilderProofs -------------------------
(***************************************************************************)
(* Proofs about the frames PacketBuilder produces, for messages of any     *)
(* length.                                                                 *)
(***************************************************************************)
EXTENDS PacketBuilder, SequenceTheorems, TLAPS

\* create_packet yields a frame whenever it is given a type, a Boolean and a
\* number of items.
LEMMA CreatePacketType ==
  ASSUME NEW type \in MessageTypes, NEW last \in BOOLEAN, NEW count \in Nat,
         NEW itemSize \in Nat
  PROVE  create_packet(type, last, count, itemSize) \in Frame
<1>1. set_flags_and_count(last, count) \in Byte
  BY SMT DEF set_flags_and_count, Byte
<1>2. PacketHeaderSize + count * itemSize \in Nat
  BY SMT DEF PacketHeaderSize
<1> QED
  BY <1>1, <1>2 DEF create_packet, Frame

\* The chunks of n items, k in each: none is longer than k or empty, all but the
\* last are full, the last has the rest, and together they hold the n items.
LEMMA ChunkArithmetic ==
  ASSUME NEW n \in Nat, NEW k \in Nat \ {0}
  PROVE  /\ total_chunks(n, k) \in Nat
         /\ total_chunks(n, k) = 0 <=> n = 0
         /\ n <= total_chunks(n, k) * k
         /\ \A i \in 1 .. total_chunks(n, k) :
              /\ chunk_len(n, k, i) \in 1 .. k
              /\ (i - 1) * k + chunk_len(n, k, i) <= n
              /\ chunk_len(n, k, i) = IF i = total_chunks(n, k)
                                      THEN n - (total_chunks(n, k) - 1) * k
                                      ELSE k
<1> DEFINE t == total_chunks(n, k)
<1>1. t \in Nat /\ t * k <= n + k - 1 /\ n + k - 1 < t * k + k
  <2>1. PICK a \in Nat : a = n + k - 1
    OBVIOUS
  <2>2. t = a \div k
    BY <2>1 DEF total_chunks
  <2>3. a \div k \in Nat /\ k * (a \div k) <= a /\ a < k * (a \div k) + k
    OBVIOUS
  <2> QED BY <2>1, <2>2, <2>3
<1> HIDE DEF t
<1>2. n <= t * k
  BY <1>1
<1>3. t = 0 <=> n = 0
  <2>1. t = 0 => t * k = 0
    OBVIOUS
  <2>2. t # 0 => t * k >= k
    BY <1>1
  <2> QED BY <1>1, <2>1, <2>2
<1>4. ASSUME NEW i \in 1 .. t
      PROVE  /\ chunk_len(n, k, i) \in 1 .. k
             /\ (i - 1) * k + chunk_len(n, k, i) <= n
             /\ chunk_len(n, k, i) = IF i = t THEN n - (t - 1) * k ELSE k
  <2>1. i \in Nat /\ i * k \in Nat /\ (i - 1) * k = i * k - k /\ t * k \in Nat
    BY <1>1
  <2>2. i < t => i * k <= t * k - k
    <3>1. i < t => i <= t - 1 /\ t - 1 \in Nat
      BY <1>1, <2>1
    <3>2. i < t => i * k <= (t - 1) * k
      BY <1>1, <2>1, <3>1
    <3> QED BY <1>1, <3>2
  <2>3. CASE i < t
    <3>1. i * k <= n
      BY <1>1, <2>1, <2>2, <2>3
    <3>2. chunk_len(n, k, i) = k
      BY <3>1 DEF chunk_len
    <3> QED BY <1>1, <2>1, <2>3, <3>1, <3>2
  <2>4. CASE i = t
    <3>1. i * k < n + k /\ n <= i * k
      BY <1>1, <1>2, <2>4
    <3>2. CASE i * k <= n
      <4>1. chunk_len(n, k, i) = k /\ i * k = n
        BY <2>1, <3>1, <3>2 DEF chunk_len
      <4> QED BY <2>1, <2>4, <4>1
    <3>3. CASE ~(i * k <= n)
      <4>1. chunk_len(n, k, i) = n - (i - 1) * k
        BY <3>3 DEF chunk_len
      <4> QED BY <2>1, <2>4, <3>1, <4>1
    <3> QED BY <3>2, <3>3
  <2> QED BY <1>1, <2>3, <2>4
<1> QED BY <1>1, <1>2, <1>3, <1>4 DEF t

\* A chunked message is a sequence of frames.
LEMMA ChunkFramesType ==
  ASSUME NEW type \in MessageTypes, NEW n \in Nat, NEW k \in Nat \ {0},
         NEW itemSize \in Nat
  PROVE  chunk_frames(type, n, k, itemSize) \in Seq(Frame)
<1> DEFINE len == total_chunks(n, k)
           fr(i) == create_packet(type, i = len, chunk_len(n, k, i), itemSize)
<1>0. /\ total_chunks(n, k) \in Nat
      /\ \A i \in 1 .. total_chunks(n, k) : chunk_len(n, k, i) \in 1 .. k
  BY ChunkArithmetic
<1>1. len \in Nat /\ \A i \in 1 .. len : chunk_len(n, k, i) \in Nat
  BY <1>0, SMT
<1>2. \A i \in 1 .. len : fr(i) \in Frame
  BY <1>1, CreatePacketType
<1>3. chunk_frames(type, n, k, itemSize) = [i \in 1 .. len |-> fr(i)]
  BY DEF chunk_frames
<1> HIDE DEF len, fr
<1> QED
  BY <1>1, <1>2, <1>3, SMT

\* The message types and item sizes that the builder uses.
LEMMA BuilderConstants ==
  /\ {MESSAGE_TYPE_ORDER_BOOK, MESSAGE_TYPE_TRADE_TICK, MESSAGE_TYPE_INDEX_PRICE,
      MESSAGE_TYPE_MARK_PRICE, MESSAGE_TYPE_FUNDING_RATE,
      MESSAGE_TYPE_LIQUIDATION, MESSAGE_TYPE_CONNECTION_STATUS}
       \subseteq MessageTypes
  /\ {OrderBookItemSize, TradeTickItemSize, LiquidationItemSize,
      PriceValueItemSize, FundingRateItemSize, ConnectionStatusSize}
       \subseteq Nat
BY DEF MESSAGE_TYPE_ORDER_BOOK, MESSAGE_TYPE_TRADE_TICK,
       MESSAGE_TYPE_INDEX_PRICE, MESSAGE_TYPE_MARK_PRICE,
       MESSAGE_TYPE_FUNDING_RATE, MESSAGE_TYPE_LIQUIDATION,
       MESSAGE_TYPE_CONNECTION_STATUS, MessageTypes, OrderBookItemSize,
       TradeTickItemSize, LiquidationItemSize, PriceValueItemSize,
       FundingRateItemSize, ConnectionStatusSize

\* The packets with one item are frames.
LEMMA SingleItemFrames ==
  /\ build_single_value_packet(MESSAGE_TYPE_INDEX_PRICE) \in Frame
  /\ build_single_value_packet(MESSAGE_TYPE_MARK_PRICE) \in Frame
  /\ build_single_value_packet(MESSAGE_TYPE_FUNDING_RATE) \in Frame
  /\ build_liquidation_packet \in Frame
  /\ build_event_packet_with_exchange \in Frame
<1>1. \A type \in MessageTypes, size \in Nat :
        create_packet(type, TRUE, 1, size) \in Frame
  BY CreatePacketType
<1> QED
  BY <1>1, BuilderConstants
     DEF build_single_value_packet, build_liquidation_packet,
         build_event_packet_with_exchange

\* Every parsed message becomes a sequence of frames.
LEMMA BuildPacketsType ==
  ASSUME NEW p \in ParsedData
  PROVE  build_packets(p) \in Seq(Frame)
<1>1. p.kind \in ParsedKinds /\ p.items \in Nat
  BY DEF ParsedData
<1>0. \A n \in Nat, k \in {50, 80} :
        /\ chunk_frames(MESSAGE_TYPE_TRADE_TICK, n, k, TradeTickItemSize) \in Seq(Frame)
        /\ chunk_frames(MESSAGE_TYPE_ORDER_BOOK, n, k, OrderBookItemSize) \in Seq(Frame)
  <2>1. \A k \in {50, 80} : k \in Nat \ {0}
    OBVIOUS
  <2> QED BY <2>1, BuilderConstants, ChunkFramesType
<1>2. build_trade_packets \in Seq(Frame)
  BY <1>0 DEF build_trade_packets, TradesPerPacket
<1>3. build_trade_batch_packets(p.items) \in Seq(Frame)
  BY <1>0, <1>1 DEF build_trade_batch_packets, BatchTradesPerPacket
<1>4. build_order_book_packets(p.items) \in Seq(Frame)
  BY <1>0, <1>1 DEF build_order_book_packets, LevelsPerPacket
<1>5. << build_liquidation_packet >> \in Seq(Frame)
  BY SingleItemFrames
<1>6. build_multi \in Seq(Frame)
  BY SingleItemFrames DEF build_multi
<1> QED
  BY <1>1, <1>2, <1>3, <1>4, <1>5, <1>6 DEF build_packets, ParsedKinds

(***************************************************************************)
(* Framing of chunked messages.                                            *)
(***************************************************************************)

\* What a header with a count of at most 80 says is read back unchanged.
LEMMA FlagsRoundTrip ==
  ASSUME NEW last \in BOOLEAN, NEW count \in 0 .. 80
  PROVE  /\ item_count(set_flags_and_count(last, count)) = count
         /\ is_last(set_flags_and_count(last, count)) <=> last
BY DEF set_flags_and_count, item_count, is_last

\* The frames of a message of n items of 16 bytes, k to a packet.
LEMMA ChunkFraming ==
  ASSUME NEW type, NEW n \in Nat, NEW k \in 1 .. 80
  PROVE  LET fs == chunk_frames(type, n, k, 16)
         IN  /\ CountsCover(fs, n, k)
             /\ LastFlagged(fs)
             /\ SizesAgree(fs, 16)
<1> DEFINE fs == chunk_frames(type, n, k, 16)
           len == total_chunks(n, k)
<1>0. k \in Nat \ {0}
  OBVIOUS
<1>1. /\ len \in Nat
      /\ \A i \in 1 .. len : chunk_len(n, k, i) \in 1 .. k
  BY <1>0, ChunkArithmetic
<1>2. fs = [i \in 1 .. len |->
              create_packet(type, i = len, chunk_len(n, k, i), 16)]
  BY DEF chunk_frames
<1>3. DOMAIN fs = 1 .. len /\ Len(fs) = len
  <2> HIDE DEF fs, len
  <2> QED
    BY <1>1, <1>2
<1>4. \A i \in 1 .. len :
        /\ item_count(fs[i].flags_and_count) = chunk_len(n, k, i)
        /\ is_last(fs[i].flags_and_count) <=> i = len
        /\ fs[i].size = PacketHeaderSize + chunk_len(n, k, i) * 16
  <2> SUFFICES ASSUME NEW i \in 1 .. len
               PROVE  /\ item_count(fs[i].flags_and_count) = chunk_len(n, k, i)
                      /\ is_last(fs[i].flags_and_count) <=> i = len
                      /\ fs[i].size = PacketHeaderSize + chunk_len(n, k, i) * 16
    OBVIOUS
  <2>1. fs[i] = create_packet(type, i = len, chunk_len(n, k, i), 16)
    BY <1>2
  <2>2. chunk_len(n, k, i) \in 0 .. 80
    BY <1>1, SMT
  <2>3. /\ fs[i].flags_and_count = set_flags_and_count(i = len, chunk_len(n, k, i))
        /\ fs[i].size = PacketHeaderSize + chunk_len(n, k, i) * 16
    <3> HIDE DEF fs, len
    <3> QED
      BY <2>1 DEF create_packet
  <2>4. (i = len) \in BOOLEAN
    OBVIOUS
  <2>5. /\ item_count(set_flags_and_count(i = len, chunk_len(n, k, i)))
             = chunk_len(n, k, i)
        /\ is_last(set_flags_and_count(i = len, chunk_len(n, k, i))) <=> i = len
    BY <2>2, <2>4, FlagsRoundTrip
  <2> QED
    BY <2>3, <2>5, Zenon
<1>5. CountsCover(fs, n, k)
  <2>1. n = 0 <=> fs = << >>
    <3>1. n = 0 <=> len = 0
      BY <1>0, ChunkArithmetic
    <3> HIDE DEF fs, len
    <3> QED BY <1>1, <1>2, <1>3, <3>1
  <2>2. \A i \in 1 .. len : chunk_len(n, k, i) = IF i = len THEN n - (len - 1) * k
                                                             ELSE k
    BY <1>0, ChunkArithmetic
  <2>3. ASSUME NEW i \in DOMAIN fs
        PROVE  /\ item_count(fs[i].flags_and_count)
                    = IF i = Len(fs) THEN n - (Len(fs) - 1) * k ELSE k
               /\ item_count(fs[i].flags_and_count) \in 1 .. k
    <3>1. i \in 1 .. len /\ Len(fs) = len
      BY <1>3
    <3>2. item_count(fs[i].flags_and_count) = chunk_len(n, k, i)
      BY <1>4, <3>1
    <3> QED
      BY <1>1, <2>2, <3>1, <3>2, Zenon
  <2> QED
    BY <2>1, <2>3 DEF CountsCover
<1>6. LastFlagged(fs)
  BY <1>3, <1>4 DEF LastFlagged
<1>7. SizesAgree(fs, 16)
  <2>1. ASSUME NEW i \in DOMAIN fs
        PROVE  /\ fs[i].size
                    = PacketHeaderSize + item_count(fs[i].flags_and_count) * 16
               /\ fs[i].size <= MaxPacketSize
    <3>1. i \in 1 .. len
      BY <1>3
    <3>2. /\ fs[i].size = PacketHeaderSize + chunk_len(n, k, i) * 16
          /\ item_count(fs[i].flags_and_count) = chunk_len(n, k, i)
      BY <1>4, <3>1
    <3>3. PacketHeaderSize + chunk_len(n, k, i) * 16 <= MaxPacketSize
      BY <1>1, <3>1, SMT DEF PacketHeaderSize, MaxPacketSize
    <3> QED
      BY <3>2, <3>3, Zenon
  <2> QED
    BY <2>1 DEF SizesAgree
<1> QED
  BY <1>5, <1>6, <1>7

\* For a message of any length, the packets of an order book update and of a
\* trade batch partition its items, carry exactly one is_last flag, on the last
\* of them, and fit the limit that create_packet_from_flat enforces.
THEOREM FramingTheorem == \A n \in Nat : Framing(n)
<1> SUFFICES ASSUME NEW n \in Nat PROVE Framing(n)
  OBVIOUS
<1>1. /\ CountsCover(build_order_book_packets(n), n, 80)
      /\ LastFlagged(build_order_book_packets(n))
      /\ SizesAgree(build_order_book_packets(n), 16)
  BY ChunkFraming
     DEF build_order_book_packets, LevelsPerPacket, OrderBookItemSize
<1>2. /\ CountsCover(build_trade_batch_packets(n), n, 80)
      /\ LastFlagged(build_trade_batch_packets(n))
      /\ SizesAgree(build_trade_batch_packets(n), 16)
  BY ChunkFraming
     DEF build_trade_batch_packets, BatchTradesPerPacket, TradeTickItemSize
<1> QED
  BY <1>1, <1>2 DEF Framing, LevelsPerPacket, BatchTradesPerPacket,
                    OrderBookItemSize, TradeTickItemSize
=============================================================================
