----------------------------- MODULE DataParser -----------------------------
(***************************************************************************)
(* Which parser DataParser (data_parser.rs) applies to a raw WebSocket     *)
(* message, and what comes out.  A raw message is abstracted to a record   *)
(* [event |-> the "e" field, items |-> the number of levels of a           *)
(* depthUpdate whose quantity is positive].  The event "invalid" stands    *)
(* for text that is not JSON or lacks a field its event type requires,     *)
(* "unknown" for an event type the parser does not know.                   *)
(***************************************************************************)
EXTENDS PacketBuilder

CONSTANTS
  SymbolExchanges,   \* the exchange names of symbol_config.ini ({} without it)
  BinanceNames       \* the names that start with "Binance"

EventTypes == {"depthUpdate", "markPriceUpdate", "forceOrder", "trade",
               "aggTrade", "unknown", "invalid"}

RawMessage == [event : EventTypes, items : Nat]

ParseError == [kind |-> "Err", items |-> 0]

\* "binance" is always registered; an entry of symbol_config.ini with the same
\* name replaces it.
parser_of(exchange) ==
  CASE exchange \in SymbolExchanges ->
         IF exchange \in BinanceNames THEN "binance" ELSE "default"
    [] exchange = "binance" /\ exchange \notin SymbolExchanges -> "binance"
    [] OTHER -> "none"

parse_binance_message(raw) ==
  CASE raw.event = "depthUpdate"     -> [kind |-> "OrderBook", items |-> raw.items]
    [] raw.event = "markPriceUpdate" -> [kind |-> "Multi", items |-> 3]
    [] raw.event = "forceOrder"      -> [kind |-> "Liquidation", items |-> 1]
    [] raw.event = "trade"           -> [kind |-> "Trade", items |-> 1]
    [] raw.event = "aggTrade"        -> [kind |-> "TradeBatch", items |-> 1]
    [] OTHER                         -> ParseError

\* The parser of the other exchanges is a stub: any text is one trade.
parse_default_message == [kind |-> "Trade", items |-> 1]

parse_message(exchange, raw) ==
  CASE parser_of(exchange) = "binance" -> parse_binance_message(raw)
    [] parser_of(exchange) = "default" -> parse_default_message
    [] OTHER                           -> ParseError
=============================================================================
