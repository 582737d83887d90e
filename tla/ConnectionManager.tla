------------------------- MODULE ConnectionManager --------------------------
(***************************************************************************)
(* The life cycle of the WebSocket sessions (connection_manager.rs) and of *)
(* the process that owns them (main.rs).  Every session is a task that     *)
(* connects, receives until the connection is lost, and tries again with   *)
(* exponential backoff until it gives up; the process ends when all        *)
(* sessions have ended, on Ctrl+C or when its timer expires.               *)
(*                                                                         *)
(* With symbol_config.ini a session is run by manage_symbol_session, which *)
(* announces changes of its status with event packets; without it, by      *)
(* manage_exchange_connection, which announces nothing.  The handling of a *)
(* received message changes nothing here: its errors are only logged (see  *)
(* FeedPipeline).  connect_to_symbol_session and connect_to_exchange never *)
(* return Ok, so the arm of the loop that resets retry_count and announces *)
(* CONNECTED has no step.                                                  *)
(***************************************************************************)
EXTENDS Integers

CONSTANTS
  Sessions,          \* one task per session (or per enabled exchange)
  SymbolConfig,      \* whether symbol_config.ini was loaded
  Endpoint,          \* [Sessions -> how the session finds its URL]
  MayPanic,          \* the sessions in which the handling of a message may
                     \* panic: the stub parser cuts a text for the debug log,
                     \* possibly inside a character
  MaxRetryCount,     \* MAX_RETRY_COUNT
  HasTimer           \* whether the process was started with a timeout

\* A URL from endpoint.ini or a default one, an exchange that endpoint.ini
\* disables, a URL that does not parse.
EndpointKinds == {"usable", "disabled", "invalid"}

ASSUME ManagerAssumption ==
  /\ SymbolConfig \in BOOLEAN
  /\ Endpoint \in [Sessions -> EndpointKinds]
  /\ MayPanic \subseteq Sessions
  /\ MaxRetryCount \in Nat \ {0}
  /\ HasTimer \in BOOLEAN

VARIABLES
  phase,             \* where the task of each session is
  retry_count,       \* the session's retry_count
  delay,             \* the last backoff of the session, in milliseconds
  link,              \* whether the peer of an open connection is still there
  event,             \* the last ConnectionStatus event of the session
  attempts,          \* history: connection attempts begun
  failed_in_row,     \* history: attempts since a connection was established
  main,              \* the process: running, or why it ended
  exit_code          \* its exit code, once it ended

sessionVars == << phase, retry_count, delay, link, event, attempts, failed_in_row >>
mainVars == << main, exit_code >>
vars == << phase, retry_count, delay, link, event, attempts, failed_in_row,
           main, exit_code >>

Phases == {"start", "connecting", "open", "error", "backoff", "given_up", "panicked"}

ConnectionStatuses ==
  {"DISCONNECTED", "CONNECTING", "CONNECTED", "RECONNECTING", "FAILED"}

Event == [previous_status : ConnectionStatuses,
          current_status  : ConnectionStatuses, retry_count : Nat]

\* A receiver that has heard nothing takes a session for disconnected.
NoEvent == [previous_status |-> "DISCONNECTED",
            current_status |-> "DISCONNECTED", retry_count |-> 0]

NoExit == -1

TypeOK ==
  /\ phase \in [Sessions -> Phases]
  /\ retry_count \in [Sessions -> 0 .. MaxRetryCount]
  /\ delay \in [Sessions -> Nat]
  /\ link \in [Sessions -> {"none", "up", "dead"}]
  /\ event \in [Sessions -> Event]
  /\ attempts \in [Sessions -> Nat]
  /\ failed_in_row \in [Sessions -> Nat]
  /\ main \in {"running", "interrupted", "timed_out", "finished"}
  /\ exit_code \in {NoExit, 0, 1}

Init ==
  /\ phase = [s \in Sessions |-> "start"]
  /\ retry_count = [s \in Sessions |-> 0]
  /\ delay = [s \in Sessions |-> 0]
  /\ link = [s \in Sessions |-> "none"]
  /\ event = [s \in Sessions |-> NoEvent]
  /\ attempts = [s \in Sessions |-> 0]
  /\ failed_in_row = [s \in Sessions |-> 0]
  /\ main = "running"
  /\ exit_code = NoExit

\* Variant with a fault: the count is the one before the failure.
AnnounceStaleCount(s, previous, current, count) ==
  event' = [event EXCEPT ![s] = [previous_status |-> previous,
                                 current_status |-> current,
                                 retry_count |-> retry_count[s]]]

\* Variant with a fault: the two statuses are swapped.
AnnounceSwapped(s, previous, current, count) ==
  event' = [event EXCEPT ![s] = [previous_status |-> current,
                                 current_status |-> previous,
                                 retry_count |-> count]]

\* send_connection_event_to_port; the legacy loop announces nothing.
Announce(s, previous, current, count) ==
  event' = IF SymbolConfig
           THEN [event EXCEPT ![s] = [previous_status |-> previous,
                                      current_status |-> current,
                                      retry_count |-> count]]
           ELSE event

\* 2_u64.pow(n) for the exponents that occur.
Pow2 == << 2, 4, 8, 16, 32, 64 >>

\* Variant with a fault: the exponent is capped too early.
CappedAt5(n) == IF n = 0 THEN 1000 ELSE 1000 * Pow2[IF n < 5 THEN n ELSE 5]

\* base_delay doubles with every retry, up to max_delay.
calculate_backoff_delay(n) ==
  LET d == 1000 * Pow2[IF n < 6 THEN n ELSE 6]
  IN  IF n = 0 THEN 1000 ELSE IF d < 60000 THEN d ELSE 60000
-----------------------------------------------------------------------------
(***************************************************************************)
(* Steps of a session's task.                                              *)
(***************************************************************************)

\* The top of the loop.
Attempt(s) ==
  /\ phase[s] = "start"
  /\ Announce(s, "DISCONNECTED", "CONNECTING", retry_count[s])
  /\ phase' = [phase EXCEPT ![s] = "connecting"]
  /\ attempts' = [attempts EXCEPT ![s] = @ + 1]
  /\ UNCHANGED << retry_count, delay, link, failed_in_row, mainVars >>

\* The exchange is disabled or its URL does not parse: an error like any other.
ConfigurationFails(s) ==
  /\ phase[s] = "connecting"
  /\ Endpoint[s] # "usable"
  /\ phase' = [phase EXCEPT ![s] = "error"]
  /\ UNCHANGED << retry_count, delay, link, event, attempts, failed_in_row, mainVars >>

\* connect_async comes back, in its own time.
ConnectFails(s) ==
  /\ phase[s] = "connecting"
  /\ Endpoint[s] = "usable"
  /\ phase' = [phase EXCEPT ![s] = "error"]
  /\ UNCHANGED << retry_count, delay, link, event, attempts, failed_in_row, mainVars >>

Established(s) ==
  /\ phase[s] = "connecting"
  /\ Endpoint[s] = "usable"
  /\ phase' = [phase EXCEPT ![s] = "open"]
  /\ link' = [link EXCEPT ![s] = "up"]
  /\ failed_in_row' = [failed_in_row EXCEPT ![s] = 0]
  /\ UNCHANGED << retry_count, delay, event, attempts, mainVars >>

\* The peer is gone and says nothing: the receive loop goes on waiting.
PeerVanishes(s) ==
  /\ phase[s] = "open"
  /\ link[s] = "up"
  /\ link' = [link EXCEPT ![s] = "dead"]
  /\ UNCHANGED << phase, retry_count, delay, event, attempts, failed_in_row, mainVars >>

LeaveLoop(s) ==
  /\ phase[s] = "open"
  /\ link[s] = "up"
  /\ phase' = [phase EXCEPT ![s] = "error"]
  /\ link' = [link EXCEPT ![s] = "none"]
  /\ UNCHANGED << retry_count, delay, attempts, failed_in_row, mainVars >>

\* A close frame or an error of the stream is announced ...
ConnectionLost(s) ==
  /\ LeaveLoop(s)
  /\ Announce(s, "CONNECTED", "DISCONNECTED", 0)

\* ... a Pong that cannot be sent, or the end of the stream, is not.
ConnectionLostSilently(s) == LeaveLoop(s) /\ UNCHANGED event

\* A message makes its handling panic: the task is gone, and so is its
\* connection, without an event or another attempt.
TaskPanics(s) ==
  /\ s \in MayPanic
  /\ phase[s] = "open"
  /\ link[s] = "up"
  /\ phase' = [phase EXCEPT ![s] = "panicked"]
  /\ link' = [link EXCEPT ![s] = "none"]
  /\ UNCHANGED << retry_count, delay, event, attempts, failed_in_row, mainVars >>

\* Variants with a fault: one attempt too many, one too few.
OneTooMany(s) == retry_count[s] + 1 > MaxRetryCount
OneTooFew(s) == retry_count[s] + 2 >= MaxRetryCount

\* retry_count, after its increment, has reached MAX_RETRY_COUNT.
Exhausted(s) == retry_count[s] + 1 >= MaxRetryCount

\* The error arm of the loop gives up, ...
GiveUp(s) ==
  /\ phase[s] = "error"
  /\ Exhausted(s)
  /\ retry_count' = [retry_count EXCEPT ![s] = @ + 1]
  /\ failed_in_row' = [failed_in_row EXCEPT ![s] = @ + 1]
  /\ Announce(s, "RECONNECTING", "FAILED", retry_count[s] + 1)
  /\ phase' = [phase EXCEPT ![s] = "given_up"]
  /\ UNCHANGED << delay, link, attempts, mainVars >>

\* ... or sleeps and tries again.
BackOff(s) ==
  /\ phase[s] = "error"
  /\ ~Exhausted(s)
  /\ retry_count' = [retry_count EXCEPT ![s] = @ + 1]
  /\ failed_in_row' = [failed_in_row EXCEPT ![s] = @ + 1]
  /\ delay' = [delay EXCEPT ![s] = calculate_backoff_delay(retry_count[s])]
  /\ Announce(s, "CONNECTED", "RECONNECTING", retry_count[s] + 1)
  /\ phase' = [phase EXCEPT ![s] = "backoff"]
  /\ UNCHANGED << link, attempts, mainVars >>

\* Variant with a fault: a session without a usable URL is left asleep.
WakeIfUsable(s) ==
  /\ phase[s] = "backoff"
  /\ Endpoint[s] = "usable"
  /\ phase' = [phase EXCEPT ![s] = "start"]
  /\ UNCHANGED << retry_count, delay, link, event, attempts, failed_in_row, mainVars >>

Wake(s) ==
  /\ phase[s] = "backoff"
  /\ phase' = [phase EXCEPT ![s] = "start"]
  /\ UNCHANGED << retry_count, delay, link, event, attempts, failed_in_row, mainVars >>

\* What the task does by itself, and what it has to wait for.
TaskStep(s) ==
  Attempt(s) \/ ConfigurationFails(s) \/ GiveUp(s) \/ BackOff(s) \/ Wake(s)

Environment(s) ==
  \/ ConnectFails(s) \/ Established(s) \/ PeerVanishes(s)
  \/ ConnectionLost(s) \/ ConnectionLostSilently(s) \/ TaskPanics(s)
-----------------------------------------------------------------------------
(***************************************************************************)
(* The process.  Its end ends the tasks.                                   *)
(***************************************************************************)

Ended(s) == phase[s] \in {"given_up", "panicked"}

\* Variant with a fault: a task that panicked is waited for.
FinishedIfGivenUp ==
  /\ main = "running"
  /\ \A s \in Sessions : phase[s] = "given_up"
  /\ main' = "finished"
  /\ exit_code' = 0
  /\ UNCHANGED sessionVars

\* run() has awaited every session's task.  It logs their panics, ignores their
\* errors and returns Ok, so main returns Ok.
ConnectionsFinished ==
  /\ main = "running"
  /\ \A s \in Sessions : Ended(s)
  /\ main' = "finished"
  /\ exit_code' = 0
  /\ UNCHANGED sessionVars

CtrlC ==
  /\ main = "running"
  /\ main' = "interrupted"
  /\ exit_code' = 0
  /\ UNCHANGED sessionVars

TimerExpires ==
  /\ HasTimer
  /\ main = "running"
  /\ main' = "timed_out"
  /\ exit_code' = 0
  /\ UNCHANGED sessionVars

Next ==
  \/ /\ main = "running"
     /\ \E s \in Sessions : TaskStep(s) \/ Environment(s)
  \/ ConnectionsFinished \/ CtrlC \/ TimerExpires

Spec == Init /\ [][Next]_vars

\* Timers fire and ready tasks are run.  Nothing is assumed of the network: a
\* connection attempt may hang and an open connection may last for ever.
FairSpec ==
  /\ Spec
  /\ \A s \in Sessions : WF_vars(main = "running" /\ TaskStep(s))
  /\ WF_vars(ConnectionsFinished)
-----------------------------------------------------------------------------
(***************************************************************************)
(* What the connection manager promises.                                   *)
(***************************************************************************)

\* A session never begins more than MaxRetryCount attempts, retry_count counts
\* exactly the attempts that failed, and the session gives up only when every one
\* of them is used up, however the attempts ended.  Of its events those that carry
\* the counter carry its value, also while the next attempt is under way;
\* DISCONNECTED carries 0 (send_connection_event_to_port in the receive loop).
RetryAccounting ==
  \A s \in Sessions :
    /\ attempts[s] <= MaxRetryCount
    /\ phase[s] \in {"start", "backoff", "given_up"} => attempts[s] = retry_count[s]
    /\ phase[s] \in {"connecting", "open", "error", "panicked"}
         => attempts[s] = retry_count[s] + 1
    /\ phase[s] = "given_up" <=> retry_count[s] = MaxRetryCount
    /\ event[s].retry_count = IF SymbolConfig /\ event[s].current_status # "DISCONNECTED"
                              THEN retry_count[s] ELSE 0

\* Bad news is true: a session whose last event is DISCONNECTED, RECONNECTING or
\* FAILED has no connection, however the ones before ended, and FAILED is the last
\* event of those that never try again, and of no others.  Nothing of the kind
\* holds of good news: CONNECTING is the last event of a session that is
\* connecting, of one with an open connection, of one whose connection was lost
\* silently and of one that panicked (see ConnectedIsAnnounced).
BadNewsIsTrue ==
  SymbolConfig =>
    \A s \in Sessions :
      /\ event[s].current_status \in {"DISCONNECTED", "RECONNECTING", "FAILED"}
           => link[s] = "none" /\ phase[s] \notin {"connecting", "open"}
      /\ phase[s] = "given_up" <=> event[s].current_status = "FAILED"

\* The intervals between attempts follow the rule of the work instruction: one
\* second, then twice the interval before, at most sixty seconds
\* (calculate_backoff_delay, called with the count before the failure).
BackoffDoubles ==
  [][\A s \in Sessions :
       phase'[s] = "backoff" /\ phase[s] # "backoff" =>
         delay'[s] = IF delay[s] = 0 THEN 1000
                     ELSE IF 2 * delay[s] < 60000 THEN 2 * delay[s] ELSE 60000]_vars

\* After every failure a session connects again or gives up, unless the process
\* ends: no order of losses leaves it without a next attempt.
Recovers ==
  \A s \in Sessions :
    phase[s] = "error" ~> (phase[s] \in {"connecting", "given_up"} \/ main # "running")

\* The process ends once no session is left, however each of them ended: a task
\* that panicked is not waited for.
EndsWithItsSessions == (\A s \in Sessions : Ended(s)) ~> (main # "running")

\* The abstract specification of what a receiver of the events sees.
Feed == INSTANCE StatusFeed
          WITH status   <- [s \in Sessions |-> IF event[s] = NoEvent THEN "NONE"
                                             ELSE event[s].current_status],
               failures <- retry_count

\* Whatever the network does, the events of a session follow the protocol of
\* StatusFeed: no attempt is announced after FAILED or without a RECONNECTING
\* before it, and FAILED only after the last permitted failure.  StatusFeed has no
\* CONNECTED, because the code never sends one (see ConnectedIsAnnounced).
ImplementsStatusFeed == Feed!Spec
-----------------------------------------------------------------------------
(***************************************************************************)
(* What the documents and comments of the repository say and the code does *)
(* not do (see the findings).                                              *)
(***************************************************************************)

\* connection_manager.rs, comment on the reset: success resets the retry count.
\* So a session that gives up has failed MaxRetryCount times in a row.
GivesUpAfterFailuresInRow ==
  \A s \in Sessions : phase[s] = "given_up" => failed_in_row[s] >= MaxRetryCount

\* work_instruction.md, module 1: every change of the state of a connection, the
\* success of the first one and of a reconnection included, becomes an event packet.
\* So an open connection is announced, unless it is lost before (FairSpec).
ConnectedIsAnnounced ==
  \A s \in Sessions :
    phase[s] = "open"
      ~> (event[s].current_status = "CONNECTED" \/ phase[s] # "open" \/ main # "running")
=============================================================================
