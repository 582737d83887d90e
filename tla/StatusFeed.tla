----------------------------- MODULE StatusFeed -----------------------------
(***************************************************************************)
(* What the ConnectionStatus events of a session mean to a receiver: the   *)
(* abstract specification that ConnectionManager implements.  A session    *)
(* announces an attempt, possibly a loss, and then either that it tries    *)
(* again, after at most MaxRetryCount - 1 failures, or that it has failed  *)
(* for good.  There is no CONNECTED: the code has an arm that sends it and *)
(* never takes it, so a receiver is not told that an attempt succeeded.    *)
(***************************************************************************)
EXTENDS Integers

CONSTANTS Sessions, MaxRetryCount

VARIABLES
  status,     \* the current_status last announced by each session, or NONE
  failures    \* how many attempts of the session have failed

vars == << status, failures >>

Init ==
  /\ status = [s \in Sessions |-> "NONE"]
  /\ failures = [s \in Sessions |-> 0]

\* An attempt begins: the first one, or the one a retry announced.
Connecting(s) ==
  /\ status[s] \in {"NONE", "RECONNECTING"}
  /\ status' = [status EXCEPT ![s] = "CONNECTING"]
  /\ UNCHANGED failures

\* The connection of the attempt is lost.
Disconnected(s) ==
  /\ status[s] = "CONNECTING"
  /\ status' = [status EXCEPT ![s] = "DISCONNECTED"]
  /\ UNCHANGED failures

\* The attempt is over, announced as lost or not.
Reconnecting(s) ==
  /\ status[s] \in {"CONNECTING", "DISCONNECTED"}
  /\ failures[s] + 1 < MaxRetryCount
  /\ failures' = [failures EXCEPT ![s] = @ + 1]
  /\ status' = [status EXCEPT ![s] = "RECONNECTING"]

Failed(s) ==
  /\ status[s] \in {"CONNECTING", "DISCONNECTED"}
  /\ failures[s] + 1 = MaxRetryCount
  /\ failures' = [failures EXCEPT ![s] = @ + 1]
  /\ status' = [status EXCEPT ![s] = "FAILED"]

Next ==
  \E s \in Sessions :
    Connecting(s) \/ Disconnected(s) \/ Reconnecting(s) \/ Failed(s)

Spec == Init /\ [][Next]_vars
=============================================================================
