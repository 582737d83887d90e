----------------------- MODULE ConnectionManagerProofs ----------------------
(***************************************************************************)
(* Proofs about ConnectionManager, for any set of sessions, any endpoints  *)
(* and any MaxRetryCount: its types, the accounting of attempts, the       *)
(* truth of bad news, the growth of the backoff, and that it implements    *)
(* StatusFeed.                                                             *)
(***************************************************************************)
EXTENDS ConnectionManager, TLAPS

\* The delay a session slept last is the one of the failure it counted last.
DelayFollowsRetries ==
  \A s \in Sessions :
    phase[s] # "given_up" =>
      delay[s] = IF retry_count[s] = 0 THEN 0
                 ELSE calculate_backoff_delay(retry_count[s] - 1)

\* What RetryAccounting says of the attempts, without the events.
AttemptsCounted ==
  \A s \in Sessions :
    /\ attempts[s] <= MaxRetryCount
    /\ phase[s] \in {"start", "backoff", "given_up"} => attempts[s] = retry_count[s]
    /\ phase[s] \in {"connecting", "open", "error", "panicked"}
         => attempts[s] = retry_count[s] + 1
    /\ phase[s] = "given_up" <=> retry_count[s] = MaxRetryCount

\* Which status a session has announced last in each phase.
EventByPhase ==
  SymbolConfig =>
    \A s \in Sessions :
      /\ phase[s] \in {"connecting", "open", "panicked"}
           => event[s].current_status = "CONNECTING"
      /\ phase[s] = "error"
           => event[s].current_status \in {"CONNECTING", "DISCONNECTED"}
      /\ phase[s] = "backoff" => event[s].current_status = "RECONNECTING"
      /\ phase[s] = "given_up" <=> event[s].current_status = "FAILED"

\* Only a session that never tried has sent no event.
LastEvent ==
  SymbolConfig =>
    \A s \in Sessions :
      /\ phase[s] = "start" =>
           event[s] = NoEvent \/ event[s].current_status = "RECONNECTING"
      /\ phase[s] = "error" => event[s] # NoEvent

\* The counter of the last event, and that only an open connection has a peer.
EventCounts ==
  \A s \in Sessions :
    event[s].retry_count = IF SymbolConfig /\ event[s].current_status # "DISCONNECTED"
                           THEN retry_count[s] ELSE 0

OnlyOpenHasLink == \A s \in Sessions : link[s] # "none" => phase[s] = "open"

Sequencing ==
  /\ TypeOK
  /\ AttemptsCounted
  /\ EventByPhase
  /\ DelayFollowsRetries
  /\ LastEvent

Inv ==
  /\ Sequencing
  /\ EventCounts
  /\ OnlyOpenHasLink
-----------------------------------------------------------------------------
(***************************************************************************)
(* The backoff.                                                            *)
(***************************************************************************)

\* calculate_backoff_delay(n) is a positive number of milliseconds, one second
\* at first and sixty from the seventh failure on.
LEMMA BackoffValues ==
  ASSUME NEW n \in Nat
  PROVE  /\ calculate_backoff_delay(n) \in Nat \ {0}
         /\ n = 0 => calculate_backoff_delay(n) = 1000
         /\ n >= 6 => calculate_backoff_delay(n) = 60000
         /\ n \in 1 .. 5 => calculate_backoff_delay(n) = 1000 * Pow2[n]
<1>1. CASE n = 0
  BY <1>1 DEF calculate_backoff_delay
<1>2. CASE n \in 1 .. 5
  <2>1. n = 1 \/ n = 2 \/ n = 3 \/ n = 4 \/ n = 5
    BY <1>2
  <2>2. Pow2[n] \in Nat \ {0} /\ 1000 * Pow2[n] < 60000
    BY <2>1 DEF Pow2
  <2>3. calculate_backoff_delay(n) = 1000 * Pow2[n]
    BY <1>2, <2>2 DEF calculate_backoff_delay
  <2> QED BY <1>2, <2>2, <2>3
<1>3. CASE n >= 6
  BY <1>3 DEF calculate_backoff_delay, Pow2
<1> QED BY <1>1, <1>2, <1>3

\* Every delay is twice the one before, up to sixty seconds.
LEMMA BackoffStep ==
  ASSUME NEW n \in Nat \ {0}
  PROVE  LET d == calculate_backoff_delay(n - 1)
         IN  calculate_backoff_delay(n) = IF 2 * d < 60000 THEN 2 * d ELSE 60000
<1>1. n - 1 \in Nat
  OBVIOUS
<1>2. CASE n = 1
  BY <1>2, BackoffValues DEF Pow2
<1>3. CASE n \in 2 .. 5
  <2>1. n = 2 \/ n = 3 \/ n = 4 \/ n = 5
    BY <1>3
  <2>2. Pow2[n] = 2 * Pow2[n - 1] /\ Pow2[n - 1] \in Nat /\ Pow2[n - 1] <= 16
    BY <2>1 DEF Pow2
  <2>3. /\ calculate_backoff_delay(n) = 1000 * Pow2[n]
        /\ calculate_backoff_delay(n - 1) = 1000 * Pow2[n - 1]
    BY <1>1, <1>3, BackoffValues
  <2> QED BY <2>2, <2>3
<1>4. CASE n = 6
  <2>1. calculate_backoff_delay(6) = 60000 /\ calculate_backoff_delay(5) = 1000 * Pow2[5]
    BY BackoffValues
  <2> QED BY <1>4, <2>1 DEF Pow2
<1>5. CASE n > 6
  <2>1. calculate_backoff_delay(n) = 60000 /\ calculate_backoff_delay(n - 1) = 60000
    BY <1>1, <1>5, BackoffValues
  <2> QED BY <2>1
<1> QED BY <1>2, <1>3, <1>4, <1>5
-----------------------------------------------------------------------------
(***************************************************************************)
(* The inductive invariant.                                                *)
(***************************************************************************)

\* The initial state satisfies the invariant.
LEMMA InvInit == Init => Inv
<1> SUFFICES ASSUME Init PROVE Inv
  OBVIOUS
<1> USE ManagerAssumption DEF Init
<1>1. TypeOK
  <2>1. NoEvent \in Event
    BY DEF NoEvent, Event, ConnectionStatuses
  <2>2. event \in [Sessions -> Event]
    BY <2>1
  <2>3. /\ retry_count \in [Sessions -> 0 .. MaxRetryCount]
        /\ phase \in [Sessions -> Phases]
        /\ link \in [Sessions -> {"none", "up", "dead"}]
    BY DEF Phases
  <2>4. /\ delay \in [Sessions -> Nat]
        /\ attempts \in [Sessions -> Nat]
        /\ failed_in_row \in [Sessions -> Nat]
    OBVIOUS
  <2>5. /\ main \in {"running", "interrupted", "timed_out", "finished"}
        /\ exit_code \in {NoExit, 0, 1}
    BY Zenon
  <2> HIDE DEF Init
  <2> QED BY <2>2, <2>3, <2>4, <2>5 DEF TypeOK
<1>2. AttemptsCounted
  <2>1. MaxRetryCount \in Nat /\ MaxRetryCount # 0
    OBVIOUS
  <2>2. \A s \in Sessions : phase[s] = "start" /\ retry_count[s] = 0 /\ attempts[s] = 0
    OBVIOUS
  <2> HIDE DEF Init
  <2>3. ASSUME NEW s \in Sessions
        PROVE  /\ attempts[s] <= MaxRetryCount
               /\ phase[s] \in {"start", "backoff", "given_up"} => attempts[s] = retry_count[s]
               /\ phase[s] \notin {"connecting", "open", "error", "panicked"}
               /\ phase[s] # "given_up" /\ retry_count[s] # MaxRetryCount
    BY <2>1, <2>2
  <2> QED BY <2>3 DEF AttemptsCounted
<1>3. EventByPhase
  BY DEF EventByPhase, NoEvent
<1>4. DelayFollowsRetries /\ LastEvent
  BY DEF DelayFollowsRetries, LastEvent
<1>5. EventCounts /\ OnlyOpenHasLink
  BY DEF EventCounts, OnlyOpenHasLink, NoEvent
<1> QED BY <1>1, <1>2, <1>3, <1>4, <1>5 DEF Inv, Sequencing

\* What announcing a status does to the events: one session's event changes,
\* and only with symbol_config.ini.
LEMMA AnnounceEvent ==
  ASSUME TypeOK, NEW s \in Sessions, NEW previous \in ConnectionStatuses,
         NEW current \in ConnectionStatuses, NEW count \in Nat,
         Announce(s, previous, current, count)
  PROVE  /\ event' \in [Sessions -> Event]
         /\ \A t \in Sessions : t # s => event'[t] = event[t]
         /\ SymbolConfig => event'[s] = [previous_status |-> previous,
                                        current_status |-> current,
                                        retry_count |-> count]
         /\ ~SymbolConfig => event' = event
BY DEF TypeOK, Announce, Event

\* The steps of one session's task, and of its surroundings, preserve the
\* sequence of attempts, delays and events.
LEMMA SequencingStep ==
  ASSUME Inv, NEW s \in Sessions, TaskStep(s) \/ Environment(s)
  PROVE  Sequencing'
<1> USE ManagerAssumption
<1> USE DEF Inv, Sequencing
<1>1. CASE Attempt(s)
  <2>1. Announce(s, "DISCONNECTED", "CONNECTING", retry_count[s])
    BY <1>1 DEF Attempt
  <2>2. /\ event' \in [Sessions -> Event]
        /\ \A t \in Sessions : t # s => event'[t] = event[t]
        /\ SymbolConfig => event'[s] = [previous_status |-> "DISCONNECTED",
                                       current_status |-> "CONNECTING",
                                       retry_count |-> retry_count[s]]
    <3>1. retry_count[s] \in Nat
      BY DEF TypeOK
    <3>2. TypeOK /\ {"DISCONNECTED", "CONNECTING"} \subseteq ConnectionStatuses
      BY DEF ConnectionStatuses
    <3> QED BY <2>1, <3>1, <3>2, AnnounceEvent
  <2>3. TypeOK'
    <3>1. /\ phase' \in [Sessions -> Phases]
          /\ attempts' \in [Sessions -> Nat]
      BY <1>1 DEF Attempt, TypeOK, Phases
    <3> QED BY <1>1, <2>2, <3>1 DEF Attempt, TypeOK, mainVars
  <2>4. AttemptsCounted'
    BY <1>1 DEF Attempt, TypeOK, AttemptsCounted
  <2>5. EventByPhase'
    BY <1>1, <2>2 DEF Attempt, TypeOK, EventByPhase
  <2>6. DelayFollowsRetries'
    BY <1>1 DEF Attempt, TypeOK, DelayFollowsRetries
  <2>7. LastEvent'
    BY <1>1, <2>2 DEF Attempt, TypeOK, LastEvent
  <2> QED BY <2>3, <2>4, <2>5, <2>6, <2>7
<1>2. CASE ConfigurationFails(s) \/ ConnectFails(s)
  <2> USE <1>2 DEF ConfigurationFails, ConnectFails, TypeOK
  <2>1. TypeOK'
    BY DEF Phases, mainVars
  <2>2. AttemptsCounted'
    BY DEF AttemptsCounted
  <2>3. EventByPhase'
    BY DEF EventByPhase
  <2>4. DelayFollowsRetries'
    BY DEF DelayFollowsRetries
  <2>5. LastEvent'
    BY DEF LastEvent, EventByPhase, NoEvent
  <2> QED BY <2>1, <2>2, <2>3, <2>4, <2>5
<1>3. CASE Established(s)
  <2> USE <1>3 DEF Established, TypeOK
  <2>1. TypeOK'
    BY DEF Phases, mainVars
  <2>2. AttemptsCounted'
    BY DEF AttemptsCounted
  <2>3. EventByPhase'
    BY DEF EventByPhase
  <2>4. DelayFollowsRetries' /\ LastEvent'
    BY DEF DelayFollowsRetries, LastEvent
  <2> QED BY <2>1, <2>2, <2>3, <2>4
<1>4. CASE PeerVanishes(s)
  <2>1. TypeOK'
    BY <1>4 DEF PeerVanishes, TypeOK, mainVars
  <2>2. AttemptsCounted' /\ EventByPhase' /\ DelayFollowsRetries' /\ LastEvent'
    BY <1>4 DEF PeerVanishes, AttemptsCounted, EventByPhase,
                DelayFollowsRetries, LastEvent
  <2> QED BY <2>1, <2>2
<1>5. CASE ConnectionLost(s)
  <2>1. Announce(s, "CONNECTED", "DISCONNECTED", 0)
    BY <1>5 DEF ConnectionLost
  <2>2. /\ event' \in [Sessions -> Event]
        /\ \A t \in Sessions : t # s => event'[t] = event[t]
        /\ SymbolConfig => event'[s] = [previous_status |-> "CONNECTED",
                                       current_status |-> "DISCONNECTED",
                                       retry_count |-> 0]
    <3>1. TypeOK /\ {"CONNECTED", "DISCONNECTED"} \subseteq ConnectionStatuses /\ 0 \in Nat
      BY DEF ConnectionStatuses
    <3> QED BY <2>1, <3>1, AnnounceEvent
  <2>3. TypeOK'
    BY <1>5, <2>2 DEF ConnectionLost, LeaveLoop, TypeOK, Phases, mainVars
  <2>4. AttemptsCounted'
    BY <1>5 DEF ConnectionLost, LeaveLoop, TypeOK, AttemptsCounted
  <2>5. EventByPhase'
    BY <1>5, <2>2 DEF ConnectionLost, LeaveLoop, TypeOK, EventByPhase
  <2>6. DelayFollowsRetries'
    BY <1>5 DEF ConnectionLost, LeaveLoop, TypeOK, DelayFollowsRetries
  <2>7. LastEvent'
    BY <1>5, <2>2 DEF ConnectionLost, LeaveLoop, TypeOK, LastEvent, NoEvent
  <2> QED BY <2>3, <2>4, <2>5, <2>6, <2>7
<1>6. CASE ConnectionLostSilently(s)
  <2> USE <1>6 DEF ConnectionLostSilently, LeaveLoop, TypeOK
  <2>1. TypeOK'
    BY DEF Phases, mainVars
  <2>2. AttemptsCounted'
    BY DEF AttemptsCounted
  <2>3. EventByPhase'
    BY DEF EventByPhase
  <2>4. DelayFollowsRetries'
    BY DEF DelayFollowsRetries
  <2>5. LastEvent'
    BY DEF LastEvent, EventByPhase, NoEvent
  <2> QED BY <2>1, <2>2, <2>3, <2>4, <2>5
<1>7. CASE GiveUp(s)
  <2>0. retry_count[s] \in Nat /\ retry_count[s] + 1 = MaxRetryCount
    BY <1>7 DEF GiveUp, Exhausted, TypeOK, AttemptsCounted
  <2>1. Announce(s, "RECONNECTING", "FAILED", retry_count[s] + 1)
    BY <1>7 DEF GiveUp
  <2>2. /\ event' \in [Sessions -> Event]
        /\ \A t \in Sessions : t # s => event'[t] = event[t]
        /\ SymbolConfig => event'[s] = [previous_status |-> "RECONNECTING",
                                       current_status |-> "FAILED",
                                       retry_count |-> retry_count[s] + 1]
    <3>1. retry_count[s] + 1 \in Nat
      BY <2>0
    <3> QED BY <2>1, <3>1, AnnounceEvent DEF ConnectionStatuses
  <2>3. TypeOK'
    <3>1. phase' \in [Sessions -> Phases]
      BY <1>7 DEF GiveUp, TypeOK, Phases
    <3>2. retry_count' \in [Sessions -> 0 .. MaxRetryCount]
      BY <1>7, <2>0 DEF GiveUp, TypeOK
    <3>3. failed_in_row' \in [Sessions -> Nat]
      BY <1>7 DEF GiveUp, TypeOK
    <3> QED BY <1>7, <2>2, <3>1, <3>2, <3>3 DEF GiveUp, TypeOK, mainVars
  <2>4. AttemptsCounted'
    BY <1>7, <2>0 DEF GiveUp, TypeOK, AttemptsCounted
  <2>5. EventByPhase'
    BY <1>7, <2>2 DEF GiveUp, TypeOK, EventByPhase
  <2>6. DelayFollowsRetries'
    BY <1>7 DEF GiveUp, TypeOK, DelayFollowsRetries
  <2>7. LastEvent'
    BY <1>7, <2>2 DEF GiveUp, TypeOK, LastEvent
  <2> QED BY <2>3, <2>4, <2>5, <2>6, <2>7
<1>8. CASE BackOff(s)
  <2>0. retry_count[s] \in Nat /\ retry_count[s] + 1 < MaxRetryCount
    BY <1>8 DEF BackOff, Exhausted, TypeOK
  <2>1. Announce(s, "CONNECTED", "RECONNECTING", retry_count[s] + 1)
    BY <1>8 DEF BackOff
  <2>2. /\ event' \in [Sessions -> Event]
        /\ \A t \in Sessions : t # s => event'[t] = event[t]
        /\ SymbolConfig => event'[s] = [previous_status |-> "CONNECTED",
                                       current_status |-> "RECONNECTING",
                                       retry_count |-> retry_count[s] + 1]
    <3>1. retry_count[s] + 1 \in Nat
      BY <2>0
    <3> QED BY <2>1, <3>1, AnnounceEvent DEF ConnectionStatuses
  <2>3. calculate_backoff_delay(retry_count[s]) \in Nat
    BY <2>0, BackoffValues
  <2>4. TypeOK'
    <3>1. phase' \in [Sessions -> Phases]
      BY <1>8 DEF BackOff, TypeOK, Phases
    <3>2. retry_count' \in [Sessions -> 0 .. MaxRetryCount]
      BY <1>8, <2>0 DEF BackOff, TypeOK
    <3>3. failed_in_row' \in [Sessions -> Nat]
      BY <1>8 DEF BackOff, TypeOK
    <3>4. delay' \in [Sessions -> Nat]
      BY <1>8, <2>3 DEF BackOff, TypeOK
    <3> QED BY <1>8, <2>2, <3>1, <3>2, <3>3, <3>4 DEF BackOff, TypeOK, mainVars
  <2>5. AttemptsCounted'
    BY <1>8, <2>0 DEF BackOff, TypeOK, AttemptsCounted
  <2>6. EventByPhase'
    BY <1>8, <2>2 DEF BackOff, TypeOK, EventByPhase
  <2>7. DelayFollowsRetries'
    BY <1>8, <2>0 DEF BackOff, TypeOK, DelayFollowsRetries
  <2>8. LastEvent'
    BY <1>8, <2>2 DEF BackOff, TypeOK, LastEvent
  <2> QED BY <2>4, <2>5, <2>6, <2>7, <2>8
<1>9. CASE Wake(s)
  <2> USE <1>9 DEF Wake, TypeOK
  <2>1. TypeOK'
    BY DEF Phases, mainVars
  <2>2. AttemptsCounted'
    BY DEF AttemptsCounted
  <2>3. EventByPhase'
    BY DEF EventByPhase
  <2>4. DelayFollowsRetries'
    BY DEF DelayFollowsRetries
  <2>5. LastEvent'
    BY DEF LastEvent, EventByPhase
  <2> QED BY <2>1, <2>2, <2>3, <2>4, <2>5
<1>10. CASE TaskPanics(s)
  <2> USE <1>10 DEF TaskPanics, TypeOK
  <2>1. TypeOK'
    BY DEF Phases, mainVars
  <2>2. AttemptsCounted'
    BY DEF AttemptsCounted
  <2>3. EventByPhase'
    BY DEF EventByPhase
  <2>4. DelayFollowsRetries' /\ LastEvent'
    BY DEF DelayFollowsRetries, LastEvent
  <2> QED BY <2>1, <2>2, <2>3, <2>4
<1> QED
  BY <1>1, <1>2, <1>3, <1>4, <1>5, <1>6, <1>7, <1>8, <1>9, <1>10
  DEF TaskStep, Environment

\* They preserve the meaning of the event's counter: the steps that announce
\* nothing change neither the counter nor the event.
LEMMA SessionStep ==
  ASSUME Inv, NEW s \in Sessions, TaskStep(s) \/ Environment(s)
  PROVE  Inv'
<1>1. TypeOK
  BY DEF Inv, Sequencing
<1>2. EventCounts'
  <2>1. CASE Attempt(s)
    BY <1>1, <2>1 DEF Inv, EventCounts, TypeOK, Event, Attempt, Announce
  <2>2. CASE ConnectionLost(s)
    BY <1>1, <2>2 DEF Inv, EventCounts, TypeOK, Event, ConnectionLost, LeaveLoop, Announce
  <2>3. CASE GiveUp(s)
    BY <1>1, <2>3 DEF Inv, EventCounts, TypeOK, Event, GiveUp, Announce
  <2>4. CASE BackOff(s)
    BY <1>1, <2>4 DEF Inv, EventCounts, TypeOK, Event, BackOff, Announce
  <2>5. CASE UNCHANGED << event, retry_count >>
    BY <2>5 DEF Inv, EventCounts
  <2> QED
    BY <2>1, <2>2, <2>3, <2>4, <2>5
    DEF TaskStep, Environment, ConfigurationFails, ConnectFails, Established,
        PeerVanishes, ConnectionLostSilently, LeaveLoop, TaskPanics, Wake
<1>3. OnlyOpenHasLink'
  BY <1>1 DEF Inv, OnlyOpenHasLink, TypeOK, TaskStep, Environment, Attempt,
              ConfigurationFails, ConnectFails, Established, PeerVanishes,
              ConnectionLost, ConnectionLostSilently, LeaveLoop, TaskPanics,
              GiveUp, BackOff, Wake
<1> QED BY <1>2, <1>3, SequencingStep DEF Inv

\* Every step of the system preserves the invariant.
LEMMA InvStep == Inv /\ [Next]_vars => Inv'
<1> SUFFICES ASSUME Inv, [Next]_vars PROVE Inv'
  OBVIOUS
<1>1. CASE \E s \in Sessions : TaskStep(s) \/ Environment(s)
  BY <1>1, SessionStep
<1>2. CASE ConnectionsFinished \/ CtrlC \/ TimerExpires
  <2>1. UNCHANGED sessionVars /\ main' \in {"interrupted", "timed_out", "finished"}
          /\ exit_code' = 0
    BY <1>2 DEF ConnectionsFinished, CtrlC, TimerExpires
  <2>2. TypeOK'
    BY <2>1 DEF Inv, Sequencing, TypeOK, sessionVars
  <2> QED BY <2>1, <2>2 DEF Inv, Sequencing, sessionVars, AttemptsCounted,
                           EventByPhase, DelayFollowsRetries, LastEvent, EventCounts,
                           OnlyOpenHasLink
<1>3. CASE UNCHANGED vars
  BY <1>3 DEF vars, Inv, Sequencing, TypeOK, AttemptsCounted, EventByPhase,
              DelayFollowsRetries, LastEvent, EventCounts, OnlyOpenHasLink
<1> QED BY <1>1, <1>2, <1>3 DEF Next

\* The invariant holds in every reachable state.
THEOREM Invariance == Spec => []Inv
BY InvInit, InvStep, PTL DEF Spec
-----------------------------------------------------------------------------
(***************************************************************************)
(* What follows from it.                                                   *)
(***************************************************************************)

\* The variables of ConnectionManager always have their types; in particular
\* retry_count never exceeds MaxRetryCount.
THEOREM TypeCorrect == Spec => []TypeOK
<1>1. Inv => TypeOK
  BY DEF Inv, Sequencing
<1> QED BY <1>1, Invariance, PTL

\* Attempts, failures, giving up and the counter of the events agree for every
\* number of sessions and every limit (manage_symbol_session,
\* manage_exchange_connection).
THEOREM RetryAccountingTheorem == Spec => []RetryAccounting
<1>1. Inv => RetryAccounting
  BY DEF Inv, Sequencing, AttemptsCounted, EventCounts, RetryAccounting
<1> QED BY <1>1, Invariance, PTL

\* A session that announced DISCONNECTED, RECONNECTING or FAILED last has no
\* connection, and exactly those that gave up announced FAILED last
\* (send_connection_event_to_port).
THEOREM BadNewsIsTrueTheorem == Spec => []BadNewsIsTrue
<1>1. Inv => BadNewsIsTrue
  BY DEF Inv, Sequencing, TypeOK, EventByPhase, OnlyOpenHasLink, BadNewsIsTrue
<1> QED BY <1>1, Invariance, PTL

\* The intervals between attempts double from one to sixty seconds, for every
\* limit on the attempts (calculate_backoff_delay).
THEOREM BackoffDoublesTheorem == Spec => BackoffDoubles
<1> DEFINE Doubles ==
      \A s \in Sessions :
        phase'[s] = "backoff" /\ phase[s] # "backoff" =>
          delay'[s] = IF delay[s] = 0 THEN 1000
                      ELSE IF 2 * delay[s] < 60000 THEN 2 * delay[s] ELSE 60000
<1>1. Inv /\ [Next]_vars => [Doubles]_vars
  <2> SUFFICES ASSUME Inv, Next, NEW s \in Sessions,
                      phase'[s] = "backoff", phase[s] # "backoff"
               PROVE  delay'[s] = IF delay[s] = 0 THEN 1000
                                  ELSE IF 2 * delay[s] < 60000 THEN 2 * delay[s]
                                       ELSE 60000
    OBVIOUS
  <2>1. BackOff(s)
    BY DEF Inv, Sequencing, TypeOK, Next, TaskStep, Environment, Attempt, ConfigurationFails,
           ConnectFails, Established, PeerVanishes, ConnectionLost,
           ConnectionLostSilently, LeaveLoop, TaskPanics, GiveUp, BackOff, Wake,
           ConnectionsFinished, CtrlC, TimerExpires, sessionVars
  <2>2. /\ retry_count[s] \in Nat
        /\ phase[s] = "error"
        /\ delay'[s] = calculate_backoff_delay(retry_count[s])
    BY <2>1 DEF BackOff, Inv, Sequencing, TypeOK
  <2>3. delay[s] = IF retry_count[s] = 0 THEN 0
                   ELSE calculate_backoff_delay(retry_count[s] - 1)
    BY <2>2 DEF Inv, Sequencing, DelayFollowsRetries
  <2>4. CASE retry_count[s] = 0
    BY <2>2, <2>3, <2>4, BackoffValues
  <2>5. CASE retry_count[s] # 0
    <3>1. retry_count[s] \in Nat \ {0} /\ retry_count[s] - 1 \in Nat
      BY <2>2, <2>5
    <3>2. calculate_backoff_delay(retry_count[s] - 1) # 0
      BY <3>1, BackoffValues
    <3>3. calculate_backoff_delay(retry_count[s]) =
            IF 2 * delay[s] < 60000 THEN 2 * delay[s] ELSE 60000
      BY <2>3, <2>5, <3>1, BackoffStep
    <3> QED BY <2>2, <2>3, <2>5, <3>2, <3>3
  <2> QED BY <2>4, <2>5
<1>2. Spec => [][Doubles]_vars
  BY <1>1, Invariance, PTL DEF Spec
<1> QED BY <1>2 DEF BackoffDoubles
-----------------------------------------------------------------------------
(***************************************************************************)
(* The refinement of StatusFeed, when events are sent at all.              *)
(***************************************************************************)

\* An initial state is an initial state of StatusFeed.
LEMMA FeedInit == Init => Feed!Init
BY DEF Init, Feed!Init

\* Every step of ConnectionManager is a step of StatusFeed or changes nothing
\* that a receiver of the events sees.
LEMMA FeedStep ==
  ASSUME SymbolConfig, Inv, [Next]_vars
  PROVE  [Feed!Next]_(Feed!vars)
<1> USE ManagerAssumption
<1>1. ASSUME NEW s \in Sessions, Attempt(s)
      PROVE  Feed!Next
  <2>1. Feed!Connecting(s)
    BY <1>1 DEF Feed!Connecting, Attempt, Announce, Inv, Sequencing, TypeOK, LastEvent, NoEvent
  <2> QED BY <2>1 DEF Feed!Next
<1>2. ASSUME NEW s \in Sessions, ConnectionLost(s)
      PROVE  Feed!Next
  <2> DEFINE new == [previous_status |-> "CONNECTED", current_status |-> "DISCONNECTED",
                     retry_count |-> 0]
  <2>1. /\ event[s].current_status = "CONNECTING"
        /\ event' = [event EXCEPT ![s] = new]
        /\ retry_count' = retry_count
        /\ event \in [Sessions -> Event]
    BY <1>2 DEF ConnectionLost, LeaveLoop, Announce, Inv, Sequencing, TypeOK, EventByPhase
  <2>2. event[s] # NoEvent /\ new # NoEvent /\ new.current_status = "DISCONNECTED"
    BY <2>1 DEF NoEvent
  <2> HIDE DEF new
  <2>3. Feed!Disconnected(s)
    BY <2>1, <2>2 DEF Feed!Disconnected
  <2> QED BY <2>3 DEF Feed!Next
<1>3. ASSUME NEW s \in Sessions, BackOff(s)
      PROVE  Feed!Next
  <2> DEFINE new == [previous_status |-> "CONNECTED", current_status |-> "RECONNECTING",
                     retry_count |-> retry_count[s] + 1]
  <2>1. /\ event[s].current_status \in {"CONNECTING", "DISCONNECTED"}
        /\ event[s] # NoEvent
        /\ event' = [event EXCEPT ![s] = new]
        /\ retry_count' = [retry_count EXCEPT ![s] = @ + 1]
        /\ event \in [Sessions -> Event]
    BY <1>3 DEF BackOff, Announce, Inv, Sequencing, TypeOK, EventByPhase, LastEvent
  <2>2. new # NoEvent /\ new.current_status = "RECONNECTING"
    BY DEF NoEvent
  <2>3. retry_count[s] + 1 < MaxRetryCount
    BY <1>3 DEF BackOff, Exhausted, Inv, Sequencing, TypeOK
  <2> HIDE DEF new
  <2>4. Feed!Reconnecting(s)
    BY <2>1, <2>2, <2>3 DEF Feed!Reconnecting
  <2> QED BY <2>4 DEF Feed!Next
<1>4. ASSUME NEW s \in Sessions, GiveUp(s)
      PROVE  Feed!Next
  <2> DEFINE new == [previous_status |-> "RECONNECTING", current_status |-> "FAILED",
                     retry_count |-> retry_count[s] + 1]
  <2>1. /\ event[s].current_status \in {"CONNECTING", "DISCONNECTED"}
        /\ event[s] # NoEvent
        /\ event' = [event EXCEPT ![s] = new]
        /\ retry_count' = [retry_count EXCEPT ![s] = @ + 1]
        /\ event \in [Sessions -> Event]
    BY <1>4 DEF GiveUp, Announce, Inv, Sequencing, TypeOK, EventByPhase, LastEvent
  <2>2. new # NoEvent /\ new.current_status = "FAILED"
    BY DEF NoEvent
  <2>3. retry_count[s] + 1 = MaxRetryCount
    BY <1>4 DEF GiveUp, Exhausted, Inv, Sequencing, TypeOK, AttemptsCounted
  <2> HIDE DEF new
  <2>4. Feed!Failed(s)
    BY <2>1, <2>2, <2>3 DEF Feed!Failed
  <2> QED BY <2>4 DEF Feed!Next
<1>5. ASSUME NEW s \in Sessions,
             \/ ConfigurationFails(s) \/ ConnectFails(s) \/ Established(s)
             \/ PeerVanishes(s) \/ ConnectionLostSilently(s) \/ TaskPanics(s)
             \/ Wake(s)
      PROVE  UNCHANGED Feed!vars
  BY <1>5 DEF Feed!vars, ConfigurationFails, ConnectFails, Established, PeerVanishes,
              ConnectionLostSilently, LeaveLoop, TaskPanics, Wake
<1>6. ASSUME ConnectionsFinished \/ CtrlC \/ TimerExpires \/ UNCHANGED vars
      PROVE  UNCHANGED Feed!vars
  BY <1>6 DEF Feed!vars, ConnectionsFinished, CtrlC, TimerExpires, sessionVars, vars
<1> QED
  BY <1>1, <1>2, <1>3, <1>4, <1>5, <1>6 DEF Next, TaskStep, Environment

\* With symbol_config.ini, ConnectionManager implements StatusFeed: whatever the
\* network does, the events of every session follow its protocol.
THEOREM Refinement == SymbolConfig => (Spec => ImplementsStatusFeed)
<1> SUFFICES ASSUME SymbolConfig PROVE Spec => Feed!Spec
  BY DEF ImplementsStatusFeed
<1>1. Inv /\ [Next]_vars => [Feed!Next]_(Feed!vars)
  BY FeedStep
<1> QED BY <1>1, FeedInit, Invariance, PTL DEF Spec, Feed!Spec
=============================================================================
