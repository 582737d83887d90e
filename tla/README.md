# CryptoFeeder in TLA+

CryptoFeeder connects to the WebSocket feeds of crypto exchanges, parses the
messages, packs them into small binary packets and sends these over UDP. This
directory models the feeder: what its configuration files make it run, the life
cycle of the sessions, the path of a message through concurrent sessions to the
network, the two of them in one process, and what becomes of an order book on
its way to a receiver. The models are checked with TLC on small instances; every
safety property that a passing run checks is also proved with TLAPS, for every
value of the constants.

## 1. The system

| Part | State | Operations | Talks to |
| --- | --- | --- | --- |
| `ConnectionManager` (`connection_manager.rs`) | per session: `retry_count`, the open stream | `run`, `manage_symbol_session`, `manage_exchange_connection`, `connect_to_symbol_session`, `connect_to_exchange`, `calculate_backoff_delay`, `send_connection_event_to_port` | parser, builder and multicaster by call, through shared `Arc`s |
| Process (`main.rs`) | the `select!` over connections, Ctrl+C, timer; exit code | start, end, metrics task | `ConnectionManager::run`, `get_stats` |
| `DataParser` (`data_parser.rs`) | the parsers by exchange name, fixed after start | `parse_message`, `parse_binance_message`, `parse_default_message` | called by the sessions |
| `PacketBuilder` (`packet_builder.rs`) | `sequence_counter` (atomic, shared by all sessions) | `build_packets` and one builder per kind, `build_event_packet_with_exchange` | `protocol.rs` |
| Wire format (`protocol.rs`, `events.rs`) | none | `set_flags_and_count`, `is_last`, `item_count`, encodings | receivers |
| `UdpMulticaster` (`udp_broadcaster.rs`) | `sockets_by_port` (mutex), `packets_sent`, `bytes_sent` (relaxed atomics) | `send_packet`, `send_packet_to_port`, `get_stats` | operating system |
| Metrics task (`main.rs`) | `prev_packets`, `prev_bytes` | a report per second | `get_stats` |
| Configuration (`config.rs`) | while parsing: the open section, what was collected for it | `Config::load`, `read_config_file`, line parsers of `config.ini`, `symbol_config.ini`, `endpoint.ini` | everything, once |
| Packet decoder (`bin/decoder.rs`) | `Stats` | `decode_packet`, `decode_order_book_items`, `decode_trade_tick_items` | the wire format |
| Other tools (`bin/udp_counter.rs`, the Binance demos) | their own | diagnostic programs | the wire format, the exchanges |

Every session is a tokio task on a multi-threaded runtime. Between the arrival
of a message and the last packet of it no task awaits anything, so sessions
interleave as threads do, at the accesses to shared state. With
`symbol_config.ini` there is a session per exchange and port, which announces its
status with event packets; without it there is one session, `binance`, on the
default port, which announces nothing.

What is hard to test here, and what makes each part correct:

* **Numbers.** All sessions draw from one counter and number all packets of a
  message before they send the first. Numbers must be unique, ordered per
  session, and none may vanish without a reason.
* **Partial failure.** A full socket buffer drops one packet and the message goes
  on; any other error gives up the rest of it. A receiver must never see a later
  packet of a message behind a failed one.
* **Shared sockets and counters.** Sessions on one port race for its cached
  socket; statistics are two independent atomics read while others add to them.
* **Framing.** Chunks at the boundaries, the 7-bit count, the flag in bit 7, the
  limit of 1472 bytes.
* **Retries.** What `retry_count` counts over a long life, the off-by-one at its
  limit and in the backoff, what the events tell a receiver.
* **Progress.** A lost session tries again or gives up; the process ends when
  nobody is left, even if a task panicked; no failure wedges a session.
* **What a receiver knows.** Events are packets like any other and may be lost,
  and they name an exchange, not a session; ports are shared by exchanges and by
  sessions of one exchange. What the packets say last about an exchange must be
  the present status of the session that said it, unless that session's last event
  was lost; where one session speaks for its exchange its data must come under the
  announcement of its connection; the process must not end before the last word is
  out.
* **The book.** Levels are sorted, filtered, truncated to integers, packed with
  their side and cut into packets. A level must arrive with its quantity on its
  side whatever else of its history was lost.
* **Configuration.** Parsers that carry an open section from line to line: a bad
  line, a repeated or incomplete section, settings outside any section, a file
  found in the wrong place.

`PROJECT.json` lists these hazards at their lines ("hazards").

## 2. The modules

| Module | Models |
| --- | --- |
| `Protocol` | sizes, message types, the `flags_and_count` byte |
| `PacketBuilder` | what packets a parsed message becomes: type, count, flag, size |
| `DataParser` | which parser a session uses and what a message becomes |
| `FeedPipeline` | sessions, sequence counter, socket cache, sends, statistics, metrics task |
| `ConnectionManager` | sessions from attempt to giving up, events, the end of the process |
| `StatusFeed` | abstract: the protocol of the events a receiver may rely on |
| `FeederSystem` | `ConnectionManager` and `FeedPipeline` composed: the sessions of one process and what their packets tell |
| `BookFeed` | order book levels from the exchange through packets to a decoder and a receiver's book |
| `FeederConfig` | the search for the configuration files, their line parsers, the sessions they make the process run |
| `MCFeedPipeline`, `MCConnectionManager`, `MCFeederSystem`, `MCBookFeed`, `MCFeederConfig` | small instances |
| `PacketBuilderProofs`, `FeedPipelineProofs`, `ConnectionManagerProofs`, `FeederSystemProofs`, `BookFeedProofs`, `FeederConfigProofs` | theorems about the module of that name |
| `OrderLemmas` | least and greatest elements of sets of numbers, `Max` and `Min` |
| `SumLemmas` | what the fold `SumFunction` comes to: one summand changed, one more, all zero |

`FeedPipeline` extends `DataParser`, which extends `PacketBuilder`, which extends
`Protocol`; `BookFeed` extends `PacketBuilder` too. `ConnectionManager` stands by
itself: handling a message never changes the life cycle (its errors are only
logged), but for a panic. `FeederSystem` instantiates `ConnectionManager` and
`FeedPipeline`.

### FeedPipeline

A session handles one job at a time, a message or an event. `pc[s]` says where it
is, `frames[s]` what it has still to number, `packets[s]` what it has still to
send. Each action is one access to shared state:

| Action | Code |
| --- | --- |
| `ReceiveMessage`, `SendConnectionEvent` | a message is parsed, an event is made; a parse error or an empty result ends the job |
| `ClaimSequence` | `fetch_add` in `setup_header` or the event header, and the rest of the packet |
| `FindSocket`, `CreateSocket`, `BindFails` | `send_packet_to_port` under the cache's mutex |
| `TransmitOk`, `TransmitWouldBlock`, `TransmitError` | the `send` or `send_to` call and its three arms |
| `CountPackets`, `CountBytes` | the two `fetch_add`s after a send, in either order |
| `LoadPackets`, `LoadBytes`, `Report` | the metrics task's `get_stats` and report |

The `lookup` and `transmit` steps of one packet are separate although the
code does both in one call: the lock is released between them.

`wire` is what the send calls put on the network and `dropped` is a history of
the packets that were built and never sent, with the cause. A packet carries its
session, job and place as history, so that properties can speak of messages;
nothing in the actions reads them. The operating system's failures are the
constant `Faults`. Loss, duplication and reordering after the send call are
invisible to the feeder and not modelled.

A packet is its frame: message type, `flags_and_count`, size. Items are counted
only (their content is in `BookFeed`); the items of an order book are those the filter on positive quantities
keeps. Sequence numbers are 64 bits wide in the code and unbounded here: at a
million packets a second they last for half a million years.

### ConnectionManager

`phase[s]` is where the session's task is: `start` (top of the loop),
`connecting`, `open` (receive loop), `error` (the error arm), `backoff` (asleep),
`given_up`, `panicked`. `retry_count` and `delay` are the code's; `event[s]` is the last
ConnectionStatus event; `link` says whether the peer of an open connection is
still there; `attempts` and `failed_in_row` are histories. `Endpoint` abstracts
URL building to its outcome: usable, disabled, does not parse. The two connect
functions never return `Ok`, so the arm that resets the counter and announces
CONNECTED has no step in the model: the runs `retry_reset` and
`connected_announced` show what that means. Bad news can be trusted all the same
(`BadNewsIsTrue`): a session whose last event is DISCONNECTED, RECONNECTING or
FAILED has no connection. `SymbolConfig` chooses between `manage_symbol_session`
and `manage_exchange_connection`, which has the same loop and sends no events; the
theorems hold for both, the runs have `symbol_config.ini`. `TaskPanics` is the stub parser's slice of a
text at byte 100 (`data_parser.rs:361`), which panics inside a multi-byte
character when debug logging is on: the task of the session ends there and
announces nothing. `MayPanic` names the sessions with that parser.

`TaskStep` collects what a task does by itself, `Environment` what the network
does to it. `ConnectionsFinished`, `CtrlC` and `TimerExpires` are the arms of
`main`'s `select!`; each ends the tasks.

### StatusFeed

An attempt, perhaps a loss, then a retry or the final failure, with at most
`MaxRetryCount` failures. It has no CONNECTED, since the code never sends one: a
receiver cannot tell an attempt from an open connection. `ConnectionManager` implements it under the mapping
`status` = status of the last event, `failures` = `retry_count`.

### FeederSystem

A session is one task: it sends an event by the same steps as a message and
awaits the result, which it ignores. So each step of the system is

| Action | Life cycle | Message path |
| --- | --- | --- |
| `Announcing` | `Attempt`, `ConnectionLost`, `GiveUp`, `BackOff` | `SendConnectionEvent` of the same session |
| `Silent` | a step that announces nothing, once the last send is over | none |
| `Message` | none; the connection must be open | `ReceiveMessage` |
| `Sending` | none | a step of building or sending |
| `Finished`, `Stopped` | the arms of `main`'s `select!`; the first waits for every task | none |

`content[s]` is what the jobs of a session say, an event or data: the payload of
their packets. `View(p, ex)` is what a receiver of port `p` can know of exchange
`ex`. It goes by what is on the wire, the exchange in the header (`HeaderExchange`)
and the payload: an event has the symbol "SYSTEM" and nothing that names its
session. Sessions of one exchange on one port (`Speakers`), as in the
`symbol_config.ini` of the repository, therefore share one view.

* `ViewStaleOnlyByLoss` says that this view is the present status of the session
  that sent the last event. Which one that is a receiver cannot tell, and of the
  others the view says nothing: FAILED may be the last word about an exchange of
  which another session is connected.
* `DataBelongsToConnection` says that data never comes right under the bad news of
  its own session. Where a session is the only one of its exchange on its port all
  events of the exchange are its own, and a receiver can rely on this; where sessions
  share a port, data may come under the bad news of another session.
* `LastWordsBeforeEnd` and `FailureIsTold` are about the feeder: FAILED of a session
  was sent, or dropped or refused by the operating system, which counts as told.

The metrics task, which only reads, is left out.

### BookFeed

The exchange changes its book and the session sends the packets of the update
(`DepthUpdate`), or nothing of it is sent (`UpdateMissed`: not connected, or one
of the numbers does not parse). Packets travel in order; any may be lost
(`PacketLost`). `decode_packet` is the decoder: it reads as many items as the
header says and counts. `replica` is an addition, the book of a receiver that
sets a level for every item it decodes. Other packets (a trade, a price, an
event) pass through the decoder too.

Prices and quantities are natural numbers in units of 10^-8. `scale` is what
`(x * 10^8) as i64` does to the f64 `x` that a number parses to. The product is the
constant `Product`, of which the model assumes what two roundings allow
(`ScaleRange`). Below 2^52 units (`ExactBelow`, 45 million coins) they are off by
less than one unit together, so that truncation yields k or k - 1 (k - 1 for 3, 6,
12, 24, 29, 48, 58, 59, ..., about six in a hundred). From there on products are
whole numbers that may be several units too small or too large. The order is kept,
and what is positive stays positive. A value too large for the field saturates below
bit 63 (`Saturated`). Prices are assumed to be below 2^52 units: two prices above
could be the same f64, which the sort would then not tell apart; exchanges that quote
in KRW could come near, but their parser is a stub. `sort_by` states the result of the stable sort, not its course: the n-th element
is the one with n - 1 before it (`InOrder`). `SideBit`, `ExactBelow` and `ChunkSize` are 2^63, 2^52 and 80 in the code and small
in the instance, whose `Product` is that of a floating-point format with a short
significand. `decode_packet` leaves out the check of the packet's length against the
header (`decoder.rs:225`): every packet of the feeder has a header. An update is one step: the session handles it to its end before the
next, and the threads are in `FeedPipeline`.

### FeederConfig

A file is a sequence of lines, a line what the parser tells it apart by. Each
action is one turn of a parser's loop, or the opening or end of a file; `Run`
spawns the tasks. A session remembers the number of its line, so that the
properties can compare the tasks with the files read as a whole (`Body`,
`SessionLines`, `TargetAsWritten`), a definition without any state carried from
line to line. A place is a directory's answer in `read_config_file`: missing,
unreadable or readable.

### Variants with a fault

Definitions under a comment "Variant with a fault" are plausible mistakes in the
definition after them (a dropped guard, an off-by-one). No specification uses
them. "mutants" in `PROJECT.json` names, for each property, the variant that
violates it when it takes the definition's place: this shows that the property
depends on the code.

## 3. The runs

All with `tlc -config X.cfg M`.

| Run | Shows | Instance |
| --- | --- | --- |
| `pipeline_faults` | `SequenceUnique`, `SessionOrder`, `SequenceAccounted`, `MessagePrefix` under every fault | a session on the default socket, one on a cached socket, two jobs each, messages of two packets |
| `pipeline_shared_port` | `StatsConservation`, `ReportsSendsOnly`, `SocketStaysCached`, `ReportsNeverSaturate`; `JobsComplete` with fair tasks | both sessions on one cached socket, every event type, a Binance and a stub parser, two metrics reports |
| `manager` | `RetryAccounting`, `BadNewsIsTrue`, `BackoffDoubles`, `ImplementsStatusFeed`; `Recovers`, `EndsWithItsSessions` with fair tasks | one usable URL, whose task may panic, one that does not parse, ten attempts, a timer |
| `system` | `ViewStaleOnlyByLoss`, `DataBelongsToConnection`, `LastWordsBeforeEnd`; `FailureIsTold` with fair tasks | one session on a cached socket, two attempts, two messages, dropped and refused packets, a panic, a timer |
| `system_shared_exchange` | `ViewStaleOnlyByLoss`, `DataBelongsToConnection` | two sessions of one exchange on one port, as in the `symbol_config.ini` of the repository, one attempt and one message each, dropped packets |
| `book` | `LiveLevelsArrive`, `UpdatesAreFramed`, `DecoderAgrees` | five prices of which two scale to one integer, quantities that are exact, truncated, inexact, too large and 0, packets of two items, four updates |
| `config` | `SectionsAsWritten`, `TasksAsWritten` | every `symbol_config.ini` of up to five lines of six kinds, every `endpoint.ini` of up to five lines of seven kinds, three files in several directories |

Runs expected to fail, each stating a sentence of the repository's documents or
comments (section 5): `gap_means_loss`,
`send_to_after_failed_connect`, `retry_reset`, `connected_announced`, `dead_levels`.

**Bounds.** Two sessions give every race between two tasks; two ports give both
socket paths; a message of 81 levels is the shortest that is split (`FramingTheorem`
covers every length); `MaxJobs` of two lets a session
begin a message after a dropped or given-up one; `MaxReports` of two lets a report
compare with one that was itself made during sends. In `system` two attempts are
the fewest with a retry and a failure that is not the first. In
`system_shared_exchange` one attempt makes three events of a session; with a message
each, events and data of the two sessions come between each other in every order, any
of them dropped. In `book` four updates let a
level be set, removed, set again and changed with losses in between, and packets
of two items cut an update between its sides and within a side. In
`config` five lines hold two sections with lines, or the same section twice around
another, with a bad line or a comment anywhere. Ten attempts is the code's
own limit; `connected_announced`, whose counterexample is short, uses fewer.
Symmetry is used in `system_shared_exchange` only, whose two sessions share
everything; the sessions of the other instances differ.

**Deadlock** is not checked: the bounds stop `FeedPipeline`, and the process of
`ConnectionManager` and of `FeederSystem` may end, as start-up does in
`FeederConfig`.

**Fairness.** `FeedPipeline!FairSpec` has weak fairness of each session's steps:
the runtime runs ready tasks, and nothing on the path blocks (sockets are
non-blocking, the mutex is held for a few instructions, atomics never wait).
`ConnectionManager!FairSpec` has weak fairness of each task's own steps and of
`ConnectionsFinished`: a backoff ends and ready tasks run. The process's own timer
is given no fairness, so that it does not end the process in place of what is
checked. Nothing is assumed of the network: an attempt may hang and a connection
may last for ever. `FeederSystem!FairSpec` assumes the same of the composed steps.

## 4. The proofs

All theorems hold for any finite sets of sessions and ports, any messages and
faults, files of any length, updates of any number of levels and any bounds. The
assumptions on the constants give them their types and say, in addition:

* `PipelineAssumption`: there are finitely many sessions and ports (the sums of the
  statistics need it), and without `symbol_config.ini` every session uses the
  default port;
* `ManagerAssumption`: there is at least one attempt;
* `SystemAssumption`: both, with `symbol_config.ini`;
* `ConfigAssumption`: the placeholder for "no section open" is no exchange;
* `BookAssumption`: prices are positive and below 2^52 units, a level may have the
  quantity 0, products are within `ScaleRange`, keep the order and stay positive,
  and a packet holds from 1 to 80 items.

An invariant named `...Inv` below is inductive together with `TypeOK` (or
`TypeInv`) and what is listed before it; each was checked by TLC on the instance of
its run before it was proved.

**FeedPipelineProofs.**

* **`TypeCorrect`** needs `HasWork` beside `TypeOK` (`TypeInv`), since `Head` and
  `Tail` are typed only where the task has something to do, and a lemma that every
  builder yields a sequence of frames.
* **`SequenceUniqueTheorem`, `SessionOrderTheorem`**: neither is inductive. A new
  packet on the wire is fresh only because waiting packets are; so `SequenceInv`
  adds that all numbers are below the counter (`NumbersBelowCounter`), that
  waiting packets are ordered and belong to one session (`PendingInOrder`,
  `PendingDisjoint`), and that what is on the wire differs from what waits and is
  before it (`WireBeforePending`).
* **`SequenceAccountedTheorem`**: the packets built so far are those on the wire,
  those that wait and those dropped (`Built`); a step builds the next one or moves
  packets from one place to another.
* **`MessagePrefixTheorem`**: `JobInv` adds to the property that what waits is of
  the current job (`JobHeld`), that jobs follow each other on the wire
  (`JobsInOrder`), and that what precedes a waiting packet in its message is gone or
  waits before it (`PrefixGone`).
* **`StatsConservationTheorem`, `ReportsSendsOnlyTheorem`**: `CountInv` says that
  counters and debts add up to what is on the network (`AllCounted`) and that only a
  task behind a successful send owes anything (`OwesNothingElse`). The sums are
  folds, so each step is one of the lemmas of `SumLemmas`: a packet appended to a
  port, the debt of one session changed. That a report shows no more than was sent
  follows with `LoadsInOrder`.
* **`SocketStaysCachedTheorem`**, **`ReportsNeverSaturateTheorem`**: the first by
  cases on the actions, the second from `LoadsInOrder` (what was loaded lies
  between the last report and the counters, which only grow).

**PacketBuilderProofs.** **`FramingTheorem`**: `Framing(n)` for every natural `n`.
The nonlinear part is one lemma on `total_chunks` and `chunk_len`, stated for any
chunk size so that `BookFeedProofs` uses it too; the rest is arithmetic on the flag
byte.

**ConnectionManagerProofs.**

* **`RetryAccountingTheorem`, `BadNewsIsTrueTheorem`, `BackoffDoublesTheorem`,
  `TypeCorrect`**: one inductive invariant `Inv`: `TypeOK`, how attempts and
  `retry_count` go together in each phase (`AttemptsCounted`), which event a phase
  can follow (`EventByPhase`, `LastEvent`) with which counter (`EventCounts`), that
  only an open session has a link (`OnlyOpenHasLink`), and `DelayFollowsRetries`
  (the last delay is a function of `retry_count`). A panic keeps the session's
  counters and its last event, so the phase `panicked` is treated like `open`.
* **`Refinement`**: with `symbol_config.ini`, `Spec` implements `StatusFeed!Spec`.
  Attempts, announced losses, retries and giving up map to the abstract step of
  that name; everything else stutters.

**FeederSystemProofs.**

* **`ComponentPromises`**: every joint step is a step of each component or leaves its
  variables alone (`ManagerStep`, `PipelineStep`). The proof modules of the
  components are instantiated over the system's variables, and their step lemmas
  give `ComponentInv`, their invariants, of the system; the lemmas `Same...` say that
  both instances speak of the same definitions.
* **`ViewStaleOnlyByLossTheorem`, `DataBelongsToConnectionTheorem`,
  `LastWordsBeforeEndTheorem`**: `SystemInv` ties the two components together: every
  event was sent or dropped but for the one being sent (`EventsTold`), the last event
  job says what the life cycle's last event is and data follows a CONNECTING
  (`ContentKnown`), nobody is sending when the process has finished
  (`AwaitedAtEnd`). What a session has on its port is in the order of its jobs by
  `JobInv` (`PlacesInOrder`), so the last event that a receiver hears of an exchange
  is the last one of its sender that was not dropped (`LastEventPlace`,
  `HeardOrUnheard`).

**BookFeedProofs.** **`TypeCorrect`, `UpdatesAreFramedTheorem`,
`DecoderAgreesTheorem`, `LiveLevelsArriveTheorem`**: `BookInv` says of the channel that
every packet on it is one that the builder makes (`SoundChannel`), in order and
ended properly (`OrderedChannel`, `EndsChannel`), and of every level whose update was
not lost that the last item sent for it is on its way, or applied with nothing for
it on its way (`LevelsDelivered`). The proof has two halves: lemmas on what
`order_book_packets` returns for any update (the sort is a listing of the levels by
price; every positive level is in exactly one packet at the place its rank gives; an
item keeps its side and its scaled quantity), and lemmas on any channel that loses
its head, hands it to the decoder or gets the packets of an update.

**FeederConfigProofs.** **`TypeCorrect`, `SectionsAsWrittenTheorem`,
`TasksAsWrittenTheorem`**: the properties read a file as a whole, the parsers line by
line. `ParsersInv` says that in front of line p a parser holds what the lines above
p say: the open section is that of the last header above, what was collected is from
the lines below that header, what is stored is from the last section of each name
that is closed. One lemma for each kind of line (comment, header, session, setting,
end of file, bad line), about files and not about states, carries this from p to
p + 1.

Induction over numbers and finite sets (the places of a sort, the sum over a set) is
written out as the least counterexample (`LeastNatural`), since the provers cannot
use the library's induction rules.

**Only model-checked.** `JobsComplete`, `Recovers`, `EndsWithItsSessions` and
`FailureIsTold` are liveness under fairness, which this prover does not do. The runs
that refute a sentence of the documents are counterexamples and need no proof.

## 5. Findings

| Run | What the code does | What is said |
| --- | --- | --- |
| `gap_means_loss` | one counter for all ports, numbered before sending: gaps and inversions on a port without any loss | `udp_packet_detail/udp_packet.md`: a jump means a loss |
| `send_to_after_failed_connect` | a cached socket whose connect failed is used with `send` for good | the warning there: `send_to` will be used |
| `retry_reset` | ten disconnections in its life, however far apart, end a session | comment: success resets the count |
| `connected_announced` | CONNECTED is never sent: the connect functions do not return `Ok` | `project_detail/work_instruction.md`: the success of a connection becomes an event packet |
| `dead_levels` | a level of quantity 0 is left out of the packets, so it is never removed | `exchange_protocol/feed_binance.md`: quantity 0 removes the level |

More can be read off the definitions without a run:

* When every session has given up the process ends with code 0 (`ConnectionsFinished`:
  `run` swallows the errors of the tasks), although a comment in `main.rs` has it exit
  with an error when the connections fail.
* A peer that vanishes without a word is never noticed (`PeerVanishes`: nothing leads
  on from a dead link): no ping is sent and nothing times out, although
  `project_detail/architecture.md` says that the state of each connection is monitored
  and names a `ping_interval_ms`, which is parsed and never used.
* A ConnectionStatus event names the exchange and not the session
  (`HeaderExchange`), so where sessions of an exchange share a port a receiver may
  hear FAILED, or CONNECTING, of the exchange while another session is connected;
  `event_packet.md` speaks of the status of the connection to the exchange.
* `previous_status` is a literal of each call, not the status before as
  `event_packet.md` says (`Attempt`, `BackOff`).
* A disabled exchange is tried again ten times, although the warning says that
  its connection is skipped (`ConfigurationFails`).
* Each of the three packets of a mark price update carries `is_last`
  (`build_multi`); `udp_packet.md` means by it the last packet of one WebSocket
  message.
* Scaling truncates (`scale`): some values are one unit of 10^-8 too small, and the
  prices 0.00000028 and 0.00000029 become the same integer; large quantities are off
  by more. `udp_packet.md` says
  that scaled integers are used to avoid floating-point errors.
* The update ids `U` and `u` of a depth update are not passed on, so a receiver
  cannot tell a missed update from a quiet book.
* `enabled=false` in a section of `endpoint.ini` without URL or time limit has no
  effect: the section is dropped and the default URL is used (`SaveEndpoint`). An
  exchange with neither endpoint nor default connects to a fixed Binance stream
  (`build_default_websocket_url`).
* A section that comes twice in `symbol_config.ini` loses its first sessions
  (`SaveSection`). A session line without a port gets 55555 whatever port
  `config.ini` names (`parse_symbol_line`). A file without any session makes the
  process end at once, with code 0 (`Run`, `ConnectionsFinished`).

## 6. Not modelled

Event packets other than ConnectionStatus (never sent), `reset_stats` and
`release_buffer` (no caller), the buffer pool (an empty pool allocates), CPU usage,
logging and its settings, the formatting of URLs, subscriptions, symbols and
exchange names, the values of trades and prices, the hash maps that group trades by
time stamp and symbol (the feeder only hands single trades to them), the decoder's
printing and measuring of intervals, `udp_counter`, the Binance demo programs.
Packets that the network duplicates or reorders: the feeder cannot notice, and a
receiver's defence is its own. `PROJECT.json` lists each part with its reason.

## 7. Plan

The order followed the importance of the behaviour: message path, framing, life
cycle, then the content of an order book, the configuration and the composition,
each with its runs first and its proofs after. Every safety property of a passing
run has its theorem. What would be worth adding:

1. `StatsConservation` for the composed system, beside `ComponentPromises`.
2. An abstract specification of the feed as a receiver sees it (a prefix of every
   message, numbers rising per session) that `FeedPipeline` refines, as `StatusFeed`
   is for the events.
