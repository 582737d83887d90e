------------------------------ MODULE Protocol ------------------------------
(***************************************************************************)
(* The parts of the wire format (protocol.rs, events.rs) that the rest of  *)
(* the project depends on: the sizes of the packed structures, the message *)
(* types and the flags_and_count byte of the packet header.  Field         *)
(* contents (prices, timestamps, names) are left out.                      *)
(***************************************************************************)
EXTENDS Integers

\* Sizes in bytes of the packed structures.
PacketHeaderSize     == 67
OrderBookItemSize    == 16
TradeTickItemSize    == 16
LiquidationItemSize  == 16
PriceValueItemSize   == 8
FundingRateItemSize  == 8
ConnectionStatusSize == 16

MESSAGE_TYPE_ORDER_BOOK        == 0
MESSAGE_TYPE_TRADE_TICK        == 1
MESSAGE_TYPE_INDEX_PRICE       == 2
MESSAGE_TYPE_MARK_PRICE        == 3
MESSAGE_TYPE_FUNDING_RATE      == 4
MESSAGE_TYPE_LIQUIDATION       == 5
MESSAGE_TYPE_CONNECTION_STATUS == 101

MessageTypes == 0 .. 5 \cup {MESSAGE_TYPE_CONNECTION_STATUS}

Byte == 0 .. 255

\* Variant with a fault: the flag shifted one bit too far.
FlagInBit8(last, count) == count + (IF last THEN 256 ELSE 0)

\* count.min(80) in the low seven bits, is_last in bit 7.
set_flags_and_count(last, count) ==
  ((IF count <= 80 THEN count ELSE 80) % 128) + (IF last THEN 128 ELSE 0)

is_last(flags) == flags >= 128

\* Variant with a fault: the flag is not masked out.
CountWithFlag(flags) == flags

item_count(flags) == flags % 128
=============================================================================
