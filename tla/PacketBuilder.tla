--------------------------- MODULE PacketBuilder ----------------------------
(***************************************************************************)
(* How PacketBuilder (packet_builder.rs) turns one parsed message into     *)
(* packets.  A packet is abstracted to its frame: its message type, its    *)
(* flags_and_count byte and its size.  Items are abstracted to how many    *)
(* there are; their order and their values are left out.  The sequence     *)
(* number of a frame is claimed by module FeedPipeline, one atomic step    *)
(* per frame, in the order of build_packets.                               *)
(*                                                                         *)
(* A parsed message is a record [kind |-> variant of ParsedData,           *)
(* items |-> how many items it carries]; the items of an OrderBook are the *)
(* levels that the filter on quantity > 0 keeps.                           *)
(***************************************************************************)
EXTENDS Protocol, Sequences

\* create_packet and create_packet_from_flat refuse anything larger.
MaxPacketSize == 1472

\* chunks(..) of the three chunked message kinds.
TradesPerPacket      == 50    \* build_trade_packets_batch
BatchTradesPerPacket == 80    \* build_trade_batch_packets
LevelsPerPacket      == 80    \* build_order_book_packets

Frame == [message_type : MessageTypes, flags_and_count : Byte, size : Nat]

create_packet(type, last, count, itemSize) ==
  [message_type    |-> type,
   flags_and_count |-> set_flags_and_count(last, count),
   size            |-> PacketHeaderSize + count * itemSize]

\* slice::chunks(k) on n items: how many chunks, and how long the i-th is.
total_chunks(n, k) == (n + k - 1) \div k

chunk_len(n, k, i) == IF i * k <= n THEN k ELSE n - (i - 1) * k

chunk_frames(type, n, k, itemSize) ==
  [i \in 1 .. total_chunks(n, k) |->
     create_packet(type, i = total_chunks(n, k), chunk_len(n, k, i), itemSize)]

\* A single trade is a batch of one, whose only group is its own.
build_trade_packets ==
  chunk_frames(MESSAGE_TYPE_TRADE_TICK, 1, TradesPerPacket, TradeTickItemSize)

build_trade_batch_packets(n) ==
  chunk_frames(MESSAGE_TYPE_TRADE_TICK, n, BatchTradesPerPacket, TradeTickItemSize)

build_order_book_packets(n) ==
  chunk_frames(MESSAGE_TYPE_ORDER_BOOK, n, LevelsPerPacket, OrderBookItemSize)

build_single_value_packet(type) ==
  create_packet(type, TRUE, 1,
    IF type = MESSAGE_TYPE_FUNDING_RATE THEN FundingRateItemSize
                                        ELSE PriceValueItemSize)

build_liquidation_packet ==
  create_packet(MESSAGE_TYPE_LIQUIDATION, TRUE, 1, LiquidationItemSize)

build_event_packet_with_exchange ==
  create_packet(MESSAGE_TYPE_CONNECTION_STATUS, TRUE, 1, ConnectionStatusSize)

\* The only Multi the parser produces is a mark price update: index price,
\* mark price and funding rate, one packet each, in this order.
build_multi ==
  << build_single_value_packet(MESSAGE_TYPE_INDEX_PRICE),
     build_single_value_packet(MESSAGE_TYPE_MARK_PRICE),
     build_single_value_packet(MESSAGE_TYPE_FUNDING_RATE) >>

ParsedKinds == {"Trade", "TradeBatch", "OrderBook", "Liquidation", "Multi"}

ParsedData == [kind : ParsedKinds, items : Nat]

build_packets(p) ==
  CASE p.kind = "Trade"       -> build_trade_packets
    [] p.kind = "TradeBatch"  -> build_trade_batch_packets(p.items)
    [] p.kind = "OrderBook"   -> build_order_book_packets(p.items)
    [] p.kind = "Liquidation" -> << build_liquidation_packet >>
    [] OTHER                  -> build_multi      \* Multi
-----------------------------------------------------------------------------
(***************************************************************************)
(* What a receiver relies on to put a message together again.              *)
(***************************************************************************)

\* The counts in the headers say exactly which of the n items are where: all
\* packets but the last are full, the last has what is left, and there is no
\* empty packet.
CountsCover(fs, n, k) ==
  /\ n = 0 <=> fs = << >>
  /\ \A i \in DOMAIN fs :
       item_count(fs[i].flags_and_count) = IF i = Len(fs) THEN n - (Len(fs) - 1) * k
                                                          ELSE k
  /\ \A i \in DOMAIN fs : item_count(fs[i].flags_and_count) \in 1 .. k

\* is_last is on the last packet and on no other.
LastFlagged(fs) ==
  \A i \in DOMAIN fs : is_last(fs[i].flags_and_count) <=> i = Len(fs)

\* A packet is as long as its header says and never longer than the limit, so
\* that the size check of create_packet never fails.
SizesAgree(fs, itemSize) ==
  \A i \in DOMAIN fs :
    /\ fs[i].size = PacketHeaderSize + item_count(fs[i].flags_and_count) * itemSize
    /\ fs[i].size <= MaxPacketSize

\* An order book update and a trade batch of n items are split so that a
\* receiver can put them together again (build_order_book_packets,
\* build_trade_batch_packets, set_flags_and_count).
Framing(n) ==
  LET book  == build_order_book_packets(n)
      batch == build_trade_batch_packets(n)
  IN  /\ CountsCover(book, n, LevelsPerPacket)
      /\ LastFlagged(book)
      /\ SizesAgree(book, OrderBookItemSize)
      /\ CountsCover(batch, n, BatchTradesPerPacket)
      /\ LastFlagged(batch)
      /\ SizesAgree(batch, TradeTickItemSize)
=============================================================================
