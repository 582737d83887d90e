------------------------------ MODULE BookFeed ------------------------------
(***************************************************************************)
(* What becomes of an order book on its way to a receiver: the levels of a *)
(* depth update are parsed (data_parser.rs), sorted, filtered, scaled to   *)
(* integers, packed with their side and cut into packets                   *)
(* (packet_builder.rs, protocol.rs), some of which get lost; the receiver  *)
(* is the packet decoder (bin/decoder.rs), with a replica of the book kept *)
(* from what it decodes, as the protocol notes tell a receiver to do.      *)
(*                                                                         *)
(* One session and one symbol; a session handles an update to its end      *)
(* before the next, so an update is one step here (the threads are in      *)
(* FeedPipeline).  Prices and quantities are in units of 10^-8.            *)
(***************************************************************************)
EXTENDS PacketBuilder, FiniteSets, FiniteSetsExt

CONSTANTS
  Prices,            \* the prices of the book
  Quantities,        \* the quantities of its levels; 0: no level
  Updates,           \* the depth updates that the exchange may send
  Product,           \* x * 10^8 in f64 without its fraction, for the f64 x
                     \* that k * 10^-8 parses to: 28 for 29
  ExactBelow,        \* 2^52: the floating-point numbers below are finer than
                     \* a unit of 10^-8; or less to keep the values small
  SideBit,           \* 2^63, or less to keep the values small
  ChunkSize,         \* chunks(80), or less to keep the updates short
  MaxUpdates         \* bound: updates of the book

Sides == {"bid", "ask"}

\* An entry of the lists `b` and `a` of a depth update.
OrderBookLevel == [price : Prices, quantity : Quantities]

\* What k may become when it is divided by 10^8, rounded, multiplied by 10^8, rounded
\* and truncated.  The two roundings are off by at most one part in ExactBelow
\* together: below ExactBelow that is less than one unit, above it, where products
\* are whole, several units up or down.
ScaleRange(k) ==
  IF k < ExactBelow THEN k - 1 .. k
  ELSE k - (k \div ExactBelow + 1) .. k + (k \div ExactBelow + 1)

\* Rounding, multiplication and truncation keep the order, and 10^-8 * 10^8 is 1, so
\* what is positive stays so.  Prices below ExactBelow are different numbers where
\* they differ, so that the sort, which compares the f64s, compares them rightly.
ASSUME BookAssumption ==
  /\ Prices \subseteq Nat \ {0}
  /\ \A k \in Prices : k < ExactBelow
  /\ Quantities \subseteq Nat
  /\ 0 \in Quantities
  /\ Updates \subseteq [bids : Seq(OrderBookLevel), asks : Seq(OrderBookLevel)]
  /\ ExactBelow \in Nat \ {0}
  /\ Product \in [Prices \cup Quantities -> Nat]
  /\ \A k \in Prices \cup Quantities :
       /\ Product[k] \in ScaleRange(k)
       /\ k > 0 => Product[k] > 0
  /\ \A j, k \in Prices \cup Quantities : j <= k => Product[j] <= Product[k]
  /\ SideBit \in Nat \ {0, 1}
  /\ ChunkSize \in 1 .. LevelsPerPacket
  /\ MaxUpdates \in Nat

VARIABLES
  book,              \* the book of the exchange, by side and price
  channel,           \* packets on their way
  replica,           \* the receiver's book, by side and decoded price
  stats,             \* the decoder's Stats
  errors,            \* how many packets the decoder has refused
  updates,           \* history: how many updates there have been
  changed,           \* history: the update that last set each level
  lost               \* history: the updates that did not arrive whole

vars == << book, channel, replica, stats, errors, updates, changed, lost >>

Levels == Sides \X Prices

Item == [price : Nat, quantity_with_flags : Nat]

\* A packet, its items (the bytes behind the header) and, as history, the number
\* of its update; 0 for a packet of another kind, whose items are left out.
BookPacket == [frame : Frame, items : Seq(Item), update : Nat]

TypeOK ==
  /\ book \in [Levels -> Quantities]
  /\ channel \in Seq(BookPacket)
  /\ DOMAIN replica \subseteq Sides \X Nat
  /\ \A k \in DOMAIN replica : replica[k] \in 0 .. SideBit - 1
  /\ stats \in [total_packets : Nat, orderbook_packets : Nat, tradetick_packets : Nat,
                orderbook_items : Nat, tradetick_items : Nat]
  /\ errors \in Nat
  /\ updates \in 0 .. MaxUpdates
  /\ changed \in [Levels -> 0 .. MaxUpdates]
  /\ lost \subseteq 1 .. MaxUpdates

Init ==
  /\ book = [l \in Levels |-> 0]
  /\ channel = << >>
  /\ replica = [k \in {} |-> 0]
  /\ stats = [total_packets |-> 0, orderbook_packets |-> 0, tradetick_packets |-> 0,
              orderbook_items |-> 0, tradetick_items |-> 0]
  /\ errors = 0
  /\ updates = 0
  /\ changed = [l \in Levels |-> 0]
  /\ lost = {}
-----------------------------------------------------------------------------
(***************************************************************************)
(* Items: scaled, with the side in the highest bit.                        *)
(***************************************************************************)

\* Variant with a fault: the conversion wraps around.
ScaleWraps(k) == Product[k] % (2 * SideBit)

\* The conversion to i64 saturates below bit 63.
Saturated(t) == IF t < SideBit THEN t ELSE SideBit - 1

\* (x * 10^8) as i64.
scale(k) == Saturated(Product[k])

set_quantity_and_flag(q, ask) == (q % SideBit) + (IF ask THEN SideBit ELSE 0)

OrderBookItem(level, ask) ==
  [price |-> scale(level.price),
   quantity_with_flags |-> set_quantity_and_flag(scale(level.quantity), ask)]

\* The accessors of the decoder's OrderBookItem.
is_ask(item) == item.quantity_with_flags >= SideBit

quantity(item) == item.quantity_with_flags % SideBit
-----------------------------------------------------------------------------
(***************************************************************************)
(* build_order_book_packets.                                               *)
(***************************************************************************)

\* The elements of S in the order of R, a strict total order: the n-th is the one
\* with n - 1 before it.
InOrder(S, R) ==
  [n \in 1 .. Cardinality(S) |->
     CHOOSE x \in S : Cardinality({y \in S : << y, x >> \in R}) = n - 1]

\* The places of a list, as the sort leaves them: by rising price, or falling if
\* direction is -1; it is stable.
SortsBefore(f, direction) ==
  {x \in (DOMAIN f) \X (DOMAIN f) :
     \/ direction * f[x[1]].price < direction * f[x[2]].price
     \/ f[x[1]].price = f[x[2]].price /\ x[1] < x[2]}

\* Vec::sort_by.
sort_by(f, direction) ==
  LET order == InOrder(DOMAIN f, SortsBefore(f, direction))
  IN  [i \in DOMAIN f |-> f[order[i]]]

\* Levels with quantity 0 are left out.
PositiveLevels(f) ==
  LET kept == InOrder({i \in DOMAIN f : f[i].quantity > 0},
                      {x \in (DOMAIN f) \X (DOMAIN f) : x[1] < x[2]})
  IN  [i \in DOMAIN kept |-> f[kept[i]]]

ItemsOf(f, ask) == [i \in DOMAIN f |-> OrderBookItem(f[i], ask)]

\* Variant with a fault: asks are sorted like bids.
BothDescending(u) ==
  ItemsOf(PositiveLevels(sort_by(u.bids, -1)), FALSE)
    \o ItemsOf(PositiveLevels(sort_by(u.asks, -1)), TRUE)

\* Bids by falling price, then asks by rising price.
all_items(u) ==
  ItemsOf(PositiveLevels(sort_by(u.bids, -1)), FALSE)
    \o ItemsOf(PositiveLevels(sort_by(u.asks, 1)), TRUE)

chunk(items, i) ==
  SubSeq(items, (i - 1) * ChunkSize + 1,
         (i - 1) * ChunkSize + chunk_len(Len(items), ChunkSize, i))

order_book_packets(u, number) ==
  LET items == all_items(u)
      fs    == chunk_frames(MESSAGE_TYPE_ORDER_BOOK, Len(items), ChunkSize,
                            OrderBookItemSize)
  IN  [i \in DOMAIN fs |->
         [frame |-> fs[i], items |-> chunk(items, i), update |-> number]]
-----------------------------------------------------------------------------
(***************************************************************************)
(* The exchange and the feeder.                                            *)
(***************************************************************************)

LevelsOf(u, side) == IF side = "bid" THEN u.bids ELSE u.asks

\* The place of a level in the lists of an update, at most one.
PlacesIn(u, l) ==
  {i \in DOMAIN LevelsOf(u, l[1]) : LevelsOf(u, l[1])[i].price = l[2]}

\* The exchange changes its book and says so.
BookChanges(u) ==
  /\ updates < MaxUpdates
  /\ updates' = updates + 1
  /\ book' = [l \in Levels |->
       IF PlacesIn(u, l) = {} THEN book[l]
       ELSE LevelsOf(u, l[1])[Max(PlacesIn(u, l))].quantity]
  /\ changed' = [l \in Levels |->
       IF PlacesIn(u, l) = {} THEN changed[l] ELSE updates + 1]

\* The session receives the update and sends its packets.
DepthUpdate(u) ==
  /\ BookChanges(u)
  /\ channel' = channel \o order_book_packets(u, updates + 1)
  /\ UNCHANGED << replica, stats, errors, lost >>

\* Nothing of the update is sent: the session is not connected, or one number
\* of one of the levels does not parse, which refuses the whole update.
UpdateMissed(u) ==
  /\ BookChanges(u)
  /\ lost' = lost \cup {updates + 1}
  /\ UNCHANGED << channel, replica, stats, errors >>

\* The other packets of the session: a trade, a price, a status event.
OtherFrames ==
  {build_trade_packets[1], build_single_value_packet(MESSAGE_TYPE_MARK_PRICE),
   build_event_packet_with_exchange}

OtherPacket(f) ==
  /\ channel = << >>
  /\ stats.total_packets < MaxUpdates       \* a bound
  /\ channel' = << [frame |-> f, items |-> << >>, update |-> 0] >>
  /\ UNCHANGED << book, replica, stats, errors, updates, changed, lost >>

\* A packet is dropped on either host or between them.
PacketLost ==
  /\ channel # << >>
  /\ channel' = Tail(channel)
  /\ lost' = lost \cup ({Head(channel).update} \ {0})
  /\ UNCHANGED << book, replica, stats, errors, updates, changed >>
-----------------------------------------------------------------------------
(***************************************************************************)
(* The receiver.                                                           *)
(***************************************************************************)

\* decode_order_book_items, decode_trade_tick_items: as many items are read as
\* the header says; a payload too short for them ends the reading with an error.
ItemsInPayload(f) == (f.size - PacketHeaderSize) \div OrderBookItemSize

PayloadSuffices(f) == item_count(f.flags_and_count) <= ItemsInPayload(f)

ItemsRead(p) ==
  IF PayloadSuffices(p.frame)
  THEN SubSeq(p.items, 1, item_count(p.frame.flags_and_count))
  ELSE p.items

KeyOf(item) == << IF is_ask(item) THEN "ask" ELSE "bid", item.price >>

\* Every decoded item sets its level; the last one of a level counts.
ApplyItems(items) ==
  LET At(k) == {i \in DOMAIN items : KeyOf(items[i]) = k}
  IN  replica' = [k \in DOMAIN replica \cup {KeyOf(items[i]) : i \in DOMAIN items} |->
                    IF At(k) = {} THEN replica[k] ELSE quantity(items[Max(At(k))])]

\* recv_from and decode_packet.  A packet that is no order book and no trade is
\* called unknown and counts in the total only.  The refusal of a datagram shorter
\* than a header is left out: every frame of the feeder has a whole one.
decode_packet ==
  /\ channel # << >>
  /\ channel' = Tail(channel)
  /\ LET p == Head(channel)
         count == item_count(p.frame.flags_and_count)
         book_packet  == p.frame.message_type = MESSAGE_TYPE_ORDER_BOOK
         trade_packet == p.frame.message_type = MESSAGE_TYPE_TRADE_TICK
     IN  /\ stats' = [stats EXCEPT
              !.total_packets = @ + 1,
              !.orderbook_packets = IF book_packet THEN @ + 1 ELSE @,
              !.orderbook_items = IF book_packet THEN @ + count ELSE @,
              !.tradetick_packets = IF trade_packet THEN @ + 1 ELSE @,
              !.tradetick_items = IF trade_packet THEN @ + count ELSE @]
         /\ errors' = IF (book_packet \/ trade_packet) /\ ~PayloadSuffices(p.frame)
                      THEN errors + 1 ELSE errors
         /\ IF book_packet THEN ApplyItems(ItemsRead(p)) ELSE UNCHANGED replica
  /\ UNCHANGED << book, updates, changed, lost >>

Next ==
  \/ \E u \in Updates : DepthUpdate(u) \/ UpdateMissed(u)
  \/ \E f \in OtherFrames : OtherPacket(f)
  \/ PacketLost
  \/ decode_packet

Spec == Init /\ [][Next]_vars
-----------------------------------------------------------------------------
(***************************************************************************)
(* What a receiver can rely on.                                            *)
(***************************************************************************)

\* Where the receiver keeps a level.
Key(l) == << l[1], scale(l[2]) >>

\* Two prices of the book that scale to the same integer cannot be told apart.
Alone(l) == \A m \in Levels : Key(m) = Key(l) => m = l

InFlight(n) == \E i \in DOMAIN channel : channel[i].update = n

\* A level of the book is known to the receiver, on its own side and with its
\* quantity up to scaling, as soon as the update that set it has arrived whole,
\* whatever was lost, missed or removed before and after, however the update
\* was sorted and cut, unless a price beside it scales to the same integer.
\* The quantity is never 0; it is at most one unit of 10^-8 too small as long as it
\* is below 2^52 units, off by no more than one part in 2^52 and one unit above, and
\* the largest possible where it does not fit its field.
LiveLevelsArrive ==
  \A l \in Levels :
    /\ book[l] > 0
    /\ Alone(l)
    /\ changed[l] \notin lost
    /\ ~InFlight(changed[l])
    => /\ Key(l) \in DOMAIN replica
       /\ replica[Key(l)] > 0
       /\ \E t \in ScaleRange(book[l]) : replica[Key(l)] = Saturated(t)

\* Item q of packet i comes before item r of packet j.
Before(i, q, j, r) == i < j \/ (i = j /\ q < r)

\* Bids by falling price, then asks by rising price.
InBookOrder(a, b) ==
  \/ ~is_ask(a) /\ is_ask(b)
  \/ ~is_ask(a) /\ ~is_ask(b) /\ a.price >= b.price
  \/ is_ask(a) /\ is_ask(b) /\ a.price <= b.price

OrderedChannel(ch) ==
  \A i, j \in 1 .. Len(ch) :
    \A q \in 1 .. Len(ch[i].items) : \A r \in 1 .. Len(ch[j].items) :
      Before(i, q, j, r) /\ ch[i].update = ch[j].update =>
        InBookOrder(ch[i].items[q], ch[j].items[r])

\* The last packet of an update, and no other, says so.
EndsChannel(ch) ==
  \A i \in 1 .. Len(ch) : ch[i].update # 0 =>
    (is_last(ch[i].frame.flags_and_count)
       <=> \A j \in i + 1 .. Len(ch) : ch[j].update # ch[i].update)

\* The packets of an update are in the documented order: all bids by falling
\* price before all asks by rising price, across packets; only the last one has
\* is_last; no packet is empty (build_order_book_packets).
UpdatesAreFramed ==
  /\ OrderedChannel(channel)
  /\ EndsChannel(channel)
  /\ \A i \in DOMAIN channel : channel[i].update # 0 =>
       /\ item_count(channel[i].frame.flags_and_count) = Len(channel[i].items)
       /\ channel[i].items # << >>

\* The decoder never refuses a packet of the feeder, and its counters fit
\* together, one to ChunkSize items in a packet of the book and one in that of a
\* trade, whatever packets of whatever kinds it meets and misses (decode_packet).
DecoderAgrees ==
  /\ errors = 0
  /\ stats.orderbook_packets <= stats.orderbook_items
  /\ stats.orderbook_items <= ChunkSize * stats.orderbook_packets
  /\ stats.tradetick_items = stats.tradetick_packets
-----------------------------------------------------------------------------
(***************************************************************************)
(* What the documents of the repository say and the code does not do (see  *)
(* the findings).                                                          *)
(***************************************************************************)

\* feed_binance.md, order book management: a quantity of 0 removes the price
\* level.  So, when every update has arrived, the receiver has no level that the
\* book does not have.
NoDeadLevels ==
  lost = {} /\ channel = << >> =>
    \A k \in DOMAIN replica : \E l \in Levels : Key(l) = k /\ book[l] > 0
-----------------------------------------------------------------------------
(***************************************************************************)
(* The inductive invariant behind the properties above.                    *)
(***************************************************************************)

\* What the header of packet p says is what is in it; n updates so far.
PacketSound(p, n) ==
  /\ p.update <= n
  /\ p.update # 0 <=> p.frame.message_type = MESSAGE_TYPE_ORDER_BOOK
  /\ p.update # 0 => /\ Len(p.items) \in 1 .. ChunkSize
                     /\ item_count(p.frame.flags_and_count) = Len(p.items)
  /\ p.update = 0 => /\ p.items = << >>
                     /\ item_count(p.frame.flags_and_count) = 1
  /\ p.frame.message_type \in {MESSAGE_TYPE_ORDER_BOOK, MESSAGE_TYPE_TRADE_TICK} =>
       PayloadSuffices(p.frame)

SoundChannel(ch, n) == \A i \in 1 .. Len(ch) : PacketSound(ch[i], n)

\* No item on its way will be kept under k.
NothingFor(ch, k) ==
  \A i \in 1 .. Len(ch) : \A q \in 1 .. Len(ch[i].items) : KeyOf(ch[i].items[q]) # k

\* The last item on its way that will be kept under k is in a packet of update n
\* and has quantity v.
LastFor(ch, k, n, v) ==
  \E i \in 1 .. Len(ch) : \E q \in 1 .. Len(ch[i].items) :
    /\ KeyOf(ch[i].items[q]) = k
    /\ ch[i].update = n
    /\ quantity(ch[i].items[q]) = v
    /\ \A j \in 1 .. Len(ch) : \A r \in 1 .. Len(ch[j].items) :
         KeyOf(ch[j].items[r]) = k => ~Before(i, q, j, r)

\* The receiver has quantity v under k and nothing on its way will change it, or
\* the last item that will is on its way.
Delivered(ch, rep, k, n, v) ==
  \/ NothingFor(ch, k) /\ k \in DOMAIN rep /\ rep[k] = v
  \/ LastFor(ch, k, n, v)

LevelsDelivered ==
  \A l \in Levels :
    book[l] > 0 /\ Alone(l) /\ changed[l] \notin lost =>
      Delivered(channel, replica, Key(l), changed[l], scale(book[l]))

BookInv ==
  /\ SoundChannel(channel, updates)
  /\ OrderedChannel(channel)
  /\ EndsChannel(channel)
  /\ DecoderAgrees
  /\ LevelsDelivered
=============================================================================
