---------------------------- MODULE FeederSystem ----------------------------
(***************************************************************************)
(* The life cycle of the sessions (ConnectionManager) and the message path *)
(* (FeedPipeline) as they run together in one process: every session is a  *)
(* single task, which sends a ConnectionStatus event as a packet at each   *)
(* change of its status, awaits the sending whatever becomes of it, and    *)
(* receives messages while its connection is open.  Only here can be said  *)
(* what a receiver of the packets knows about the sessions.                *)
(*                                                                         *)
(* With symbol_config.ini; the metrics task, which only reads, is left     *)
(* out.                                                                    *)
(***************************************************************************)
EXTENDS Integers, Sequences, FiniteSetsExt

CONSTANTS
  Sessions, Ports, DefaultPort, SessionPort, SessionExchange, SymbolExchanges,
  BinanceNames, RawMessages, Faults,              \* of FeedPipeline
  Endpoint, MayPanic, MaxRetryCount, HasTimer,    \* of ConnectionManager
  MaxMessages        \* bound: messages that a session receives

VARIABLES
  phase, retry_count, delay, link, event, attempts, failed_in_row, main, exit_code,
  sequence_counter, pc, job, frames, packets, sockets_by_port, wire, dropped,
  packets_sent, bytes_sent, owed, stats, prev, reports,
  content            \* what the packets of each job of a session say: a status
                     \* event or a message

managerVars == << phase, retry_count, delay, link, event, attempts, failed_in_row,
                  main, exit_code >>
pipelineVars == << sequence_counter, pc, job, frames, packets, sockets_by_port, wire,
                   dropped, packets_sent, bytes_sent, owed, stats, prev, reports >>
vars == << managerVars, pipelineVars, content >>

\* The longest life of a session: three events per attempt.
MostJobs == [s \in Sessions |-> 3 * MaxRetryCount + MaxMessages]

M == INSTANCE ConnectionManager WITH SymbolConfig <- TRUE

P == INSTANCE FeedPipeline WITH MaxJobs <- MostJobs, MaxReports <- 0

\* What the components assume of their constants, and symbol_config.ini.
ASSUME SystemAssumption ==
  /\ IsFiniteSet(Sessions) /\ IsFiniteSet(Ports)
  /\ SymbolExchanges # {}
  /\ DefaultPort \in Ports
  /\ SessionPort \in [Sessions -> Ports]
  /\ RawMessages \subseteq P!RawMessage
  /\ Faults \subseteq P!FaultKinds
  /\ Endpoint \in [Sessions -> M!EndpointKinds]
  /\ MayPanic \subseteq Sessions
  /\ MaxRetryCount \in Nat \ {0}
  /\ HasTimer \in BOOLEAN
  /\ MaxMessages \in Nat

\* What stands for the content of a message among the events.
Data == [previous_status |-> "data", current_status |-> "data", retry_count |-> 0]

Init ==
  /\ M!Init
  /\ P!Init
  /\ content = [s \in Sessions |-> << >>]

\* The task of session s is not in the middle of sending.
Awaited(s) == pc[s] = "idle"

\* Variant with a fault: a session that gives up says nothing.
QuietFailure(s) ==
  \/ /\ M!Attempt(s) \/ M!ConnectionLost(s) \/ M!BackOff(s)
     /\ P!SendConnectionEvent(s)
     /\ content' = [content EXCEPT ![s] = Append(@, event'[s])]
  \/ /\ Awaited(s)
     /\ M!GiveUp(s)
     /\ UNCHANGED << pipelineVars, content >>

\* A change of status: the event is built and sent, and the task goes on when
\* that is done.
Announcing(s) ==
  /\ M!Attempt(s) \/ M!ConnectionLost(s) \/ M!GiveUp(s) \/ M!BackOff(s)
  /\ P!SendConnectionEvent(s)
  /\ content' = [content EXCEPT ![s] = Append(@, event'[s])]

\* A step of the life cycle that sends nothing.
Silent(s) ==
  /\ Awaited(s)
  /\ \/ M!ConfigurationFails(s) \/ M!ConnectFails(s) \/ M!Established(s)
     \/ M!PeerVanishes(s) \/ M!ConnectionLostSilently(s) \/ M!TaskPanics(s)
     \/ M!Wake(s)
  /\ UNCHANGED << pipelineVars, content >>

Messages(s) == Cardinality({i \in DOMAIN content[s] : content[s][i] = Data})

\* Variant with a fault: after a close frame the loop goes on.
LoopGoesOn(s) ==
  \/ phase[s] = "open" /\ link[s] = "up"
  \/ phase[s] = "error" /\ event[s].current_status = "DISCONNECTED"

\* The receive loop is waiting for messages and the peer sends them.
Receiving(s) == phase[s] = "open" /\ link[s] = "up"

\* A message arrives while the connection is open.
Message(s) ==
  /\ Receiving(s)
  /\ Messages(s) < MaxMessages
  /\ P!ReceiveMessage(s)
  /\ content' = [content EXCEPT ![s] = Append(@, Data)]
  /\ UNCHANGED managerVars

\* The task builds and sends.
Sending(s) ==
  /\ P!Step(s)
  /\ UNCHANGED << managerVars, content >>

\* Variant with a fault: nobody waits for the last event of a session.
FinishedAtOnce ==
  /\ M!ConnectionsFinished
  /\ UNCHANGED << pipelineVars, content >>

\* run() returns when all tasks have, with all they had to send.
Finished ==
  /\ M!ConnectionsFinished
  /\ \A s \in Sessions : Awaited(s)
  /\ UNCHANGED << pipelineVars, content >>

\* Ctrl+C and the timer end the process wherever the tasks are.
Stopped ==
  /\ M!CtrlC \/ M!TimerExpires
  /\ UNCHANGED << pipelineVars, content >>

Next ==
  \/ /\ main = "running"
     /\ \E s \in Sessions : Announcing(s) \/ Silent(s) \/ Message(s) \/ Sending(s)
  \/ Finished \/ Stopped

Spec == Init /\ [][Next]_vars

\* As in the two components: ready tasks are run and timers fire; nothing is
\* assumed of the network.
FairSpec ==
  /\ Spec
  /\ \A s \in Sessions : WF_vars(main = "running" /\ Sending(s))
  /\ \A s \in Sessions :
       WF_vars(/\ main = "running"
               /\ \/ Announcing(s) /\ phase[s] \in {"start", "error"}
                  \/ Silent(s) /\ phase[s] = "backoff")
  /\ WF_vars(Finished)
-----------------------------------------------------------------------------
(***************************************************************************)
(* What a receiver of the packets knows.  A packet does not name its       *)
(* session: its header has the display name of the exchange, and an event  *)
(* has "SYSTEM" for its symbol.  Sessions of one exchange on one port, as  *)
(* in the symbol_config.ini of the repository, speak with one voice.       *)
(***************************************************************************)

\* The exchange in the header of packet x (set_exchange), and its payload, which
\* the message type of the header tells to be an event or not.
HeaderExchange(x) == SessionExchange[x.session]

Payload(x) == content[x.session][x.job]

\* The places of the events of exchange ex among the packets on port p, and what
\* the last of them before place n says.
EventsOf(p, ex) ==
  {i \in DOMAIN wire[p] : HeaderExchange(wire[p][i]) = ex /\ Payload(wire[p][i]) # Data}

ViewBefore(p, ex, n) ==
  LET heard == {i \in EventsOf(p, ex) : i < n}
  IN  IF heard = {} THEN M!NoEvent ELSE Payload(wire[p][Max(heard)])

\* What a receiver of all packets on port p believes of exchange ex.
View(p, ex) == ViewBefore(p, ex, Len(wire[p]) + 1)

\* The sessions whose packets look alike to it.
Speakers(p, ex) == {s \in Sessions : SessionPort[s] = p /\ SessionExchange[s] = ex}

\* The jobs of session s that are events, and those of its packets that were lost.
EventJobs(s) == {j \in DOMAIN content[s] : content[s][j] # Data}

DroppedJob(s, j) == \E d \in dropped : d.packet.session = s /\ d.packet.job = j

\* What session s announced last was dropped or is still being sent.
Unheard(s) ==
  /\ EventJobs(s) # {}
  /\ \/ DroppedJob(s, Max(EventJobs(s)))
     \/ job[s] = Max(EventJobs(s)) /\ ~Awaited(s)

\* What the packets on a port say last about an exchange is the present status of
\* the session that said it, unless that session's last event was dropped or is
\* being sent; if they say nothing, none of its sessions has anything to say but
\* such events.  No message, no failure of an earlier event, no other session and
\* no order of losses leaves a receiver with an older event of its sender (the
\* results of send_connection_event_to_port are ignored).
ViewStaleOnlyByLoss ==
  \A s0 \in Sessions :
    LET p == SessionPort[s0]
        ex == SessionExchange[s0]
        sender == wire[p][Max(EventsOf(p, ex))].session
    IN  IF EventsOf(p, ex) = {}
        THEN \A s \in Speakers(p, ex) : event[s] = M!NoEvent \/ Unheard(s)
        ELSE sender \in Speakers(p, ex) /\ (View(p, ex) = event[sender] \/ Unheard(sender))

\* The data of a session comes under the announcement of its own connection: before
\* a data packet there is an event of its exchange, and where the last one is of the
\* session that sends the data, it is the one that this session announced last
\* before it received the message, and not that it is disconnected, reconnecting or
\* failed; unless that announcement was dropped.  A session that is the only one of
\* its exchange on its port has sent every such event: a receiver that drops its
\* book of the exchange on bad news then gets no data of the old connection after
\* it, whatever else happens on the port (connect_to_symbol_session).
DataBelongsToConnection ==
  \A s \in Sessions :
    LET p == SessionPort[s]
        ex == SessionExchange[s]
    IN  \A i \in DOMAIN wire[p] :
          wire[p][i].session = s /\ Payload(wire[p][i]) = Data =>
            LET announced == Max({j \in EventJobs(s) : j < wire[p][i].job})
                heard == {k \in EventsOf(p, ex) : k < i}
            IN  \/ DroppedJob(s, announced)
                \/ /\ heard # {}
                   /\ wire[p][Max(heard)].session = s =>
                        /\ ViewBefore(p, ex, i) = content[s][announced]
                        /\ ViewBefore(p, ex, i).current_status
                             \notin {"DISCONNECTED", "RECONNECTING", "FAILED"}

\* The places of the events of session s among the packets on its port; no
\* receiver can tell them from those of its fellow speakers.
EventPlaces(s) ==
  {i \in DOMAIN wire[SessionPort[s]] :
     wire[SessionPort[s]][i].session = s /\ Payload(wire[SessionPort[s]][i]) # Data}

EventAt(s, i) == Payload(wire[SessionPort[s]][i])

\* FAILED of session s is on the network or was dropped.
FailureTold(s) ==
  \/ \E i \in EventPlaces(s) : EventAt(s, i).current_status = "FAILED"
  \/ \E j \in EventJobs(s) : content[s][j].current_status = "FAILED" /\ DroppedJob(s, j)

\* A process that ends because its sessions have ended has said so: it does not
\* end before the last event of every session that gave up was sent or dropped,
\* and leaves no packet behind (run awaits the tasks, the tasks their sends).
LastWordsBeforeEnd ==
  main = "finished" =>
    \A s \in Sessions :
      /\ packets[s] = << >> /\ frames[s] = << >>
      /\ phase[s] = "given_up" => FailureTold(s)

\* A session that failed says so: unless the process is stopped, FAILED follows the
\* last failure, onto the network or, as far as the code can help it, into a full
\* socket buffer: a FAILED that is dropped counts as told (FairSpec).
FailureIsTold ==
  \A s \in Sessions :
    (phase[s] = "error" /\ retry_count[s] + 1 = MaxRetryCount)
      ~> (FailureTold(s) \/ main \in {"interrupted", "timed_out"})
-----------------------------------------------------------------------------
(***************************************************************************)
(* The invariant behind what a receiver knows.                             *)
(***************************************************************************)

OnPort(s, j) ==
  \E i \in DOMAIN wire[SessionPort[s]] :
    wire[SessionPort[s]][i].session = s /\ wire[SessionPort[s]][i].job = j

\* Every event was sent or dropped, but for the one being sent.
EventsTold ==
  \A s \in Sessions : \A j \in EventJobs(s) :
    OnPort(s, j) \/ DroppedJob(s, j) \/ (j = job[s] /\ ~Awaited(s))

\* Event e is the last one of session s before job j.
LastEventBefore(s, e, j) ==
  e \in EventJobs(s) /\ e < j /\ \A k \in EventJobs(s) : k < j => k <= e

\* The last event among the jobs of session s is its status, and its messages
\* follow a CONNECTING.
Known(s) ==
  /\ Len(content[s]) = job[s]
  /\ EventJobs(s) = {} => event[s] = M!NoEvent
  /\ \A e \in EventJobs(s) :
       LastEventBefore(s, e, job[s] + 1) => content[s][e] = event[s]
  /\ \A j \in DOMAIN content[s] :
       content[s][j] = Data =>
         \E e \in EventJobs(s) :
           LastEventBefore(s, e, j) /\ content[s][e].current_status = "CONNECTING"

ContentKnown ==
  /\ content \in [Sessions -> Seq(M!Event \cup {Data})]
  /\ \A s \in Sessions : Known(s)

\* run() has awaited the tasks.
AwaitedAtEnd == main = "finished" => \A s \in Sessions : Awaited(s)

SystemInv == EventsTold /\ ContentKnown /\ AwaitedAtEnd
=============================================================================
