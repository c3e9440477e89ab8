------------------------------- MODULE Breaker --------------------------------
(***************************************************************************)
(* The circuit breaker of one federation peer, as used by the requests for *)
(* its agents: core/resilience.py and FederationService.discover_agents.   *)
(*                                                                         *)
(* A request asks the breaker, fetches the list of agents with retries and *)
(* records how that ended, then does the same for the card of an agent.    *)
(* Requests run side by side, so that one may end long after the breaker   *)
(* changed its state.                                                      *)
(***************************************************************************)
EXTENDS Naturals

CONSTANTS
  Requesters,   \* requests in progress at a time: bound of the model
  Threshold,    \* failure_threshold
  Probes,       \* half_open_max_calls
  Attempts,     \* RetryPolicy.max_attempts
  Outages       \* changes of what the peer serves: bound of the model

ASSUME ThresholdAssumption == Threshold \in Nat \ {0}
ASSUME ProbesAssumption == Probes \in Nat \ {0}
ASSUME AttemptsAssumption == Attempts \in Nat \ {0}

Services == {"list", "card"}

VARIABLES
  configured,   \* the peer is in the configuration
  serves,       \* endpoints of the peer that answer
  outages,      \* changes of serves so far
  circuit,      \* "closed", "open" or "half_open"
  failures,     \* _failure_count; nothing tells numbers above the threshold apart
  resting,      \* an open circuit was opened less than reset_timeout ago
  probing,      \* _half_open_calls
  request,      \* request[r]: what request r fetches, and attempts so far
  abandoned     \* history: a probe was cancelled since the circuit was opened

breakerVars == <<configured, serves, outages, circuit, failures, resting, probing,
                 request, abandoned>>

NoRequester == [step |-> "idle", tries |-> 0, probe |-> FALSE]

InitBreaker ==
  /\ configured \in BOOLEAN
  /\ serves = Services /\ outages = 0
  /\ circuit = "closed" /\ failures = 0 /\ resting = FALSE /\ probing = 0
  /\ request = [r \in Requesters |-> NoRequester]
  /\ abandoned = FALSE

Proceeds(r, e) == request' = [request EXCEPT ![r] = e]
Fetching(r) == request[r].step \in Services
PeerSame == UNCHANGED <<configured, serves, outages>>

-----------------------------------------------------------------------------
(* CircuitBreaker.                                                         *)

\* allow_request for what comes after `step'.
Admit(r, step) ==
  \/ /\ circuit = "closed"
     /\ Proceeds(r, [step |-> step, tries |-> 0, probe |-> FALSE])
     /\ UNCHANGED <<circuit, probing>>
  \/ /\ circuit = "open" /\ ~resting
     /\ circuit' = "half_open" /\ probing' = 1
     /\ Proceeds(r, [step |-> step, tries |-> 0, probe |-> TRUE])
  \/ /\ circuit = "half_open" /\ probing < Probes
     /\ probing' = probing + 1
     /\ Proceeds(r, [step |-> step, tries |-> 0, probe |-> TRUE])
     /\ UNCHANGED circuit

Refused ==
  \/ circuit = "open" /\ resting
  \/ circuit = "half_open" /\ probing >= Probes

\* Mutant: a success closes an open circuit only.
RecordSuccess_Half ==
  /\ failures' = 0
  /\ circuit' = IF circuit = "open" THEN "closed" ELSE circuit
  /\ probing' = IF circuit = "open" THEN 0 ELSE probing
  /\ resting' = FALSE /\ abandoned' = (abandoned /\ circuit # "open")

\* The state is not asked for: a request of before the circuit was opened closes it.
RecordSuccess ==
  /\ failures' = 0
  /\ circuit' = "closed"
  /\ probing' = IF circuit = "closed" THEN probing ELSE 0
  /\ resting' = FALSE /\ abandoned' = FALSE

\* A late failure extends the time an open circuit rests.
RecordFailure ==
  LET count == IF circuit = "half_open" \/ failures + 1 > Threshold
               THEN Threshold ELSE failures + 1
      opens == circuit = "half_open" \/ count >= Threshold IN
  /\ failures' = count
  /\ circuit' = IF opens THEN "open" ELSE circuit
  /\ resting' = (resting \/ opens)
  /\ abandoned' = (abandoned /\ ~opens)
  /\ UNCHANGED probing

ResetTimeout ==
  /\ circuit = "open" /\ resting
  /\ resting' = FALSE
  /\ PeerSame /\ UNCHANGED <<circuit, failures, probing, request, abandoned>>

-----------------------------------------------------------------------------
(* discover_agents for the peer.                                           *)

\* Without peers the answer is empty.
AskList(r) ==
  /\ configured
  /\ request[r].step = "idle"
  /\ Admit(r, "list")
  /\ PeerSame /\ UNCHANGED <<failures, resting, abandoned>>

\* The list is there, and a card is to be fetched: the breaker is asked again.
AskCard(r) ==
  /\ request[r].step = "listed"
  /\ \/ Admit(r, "card")
     \/ /\ Refused
        /\ Proceeds(r, NoRequester)
        /\ UNCHANGED <<circuit, probing>>
  /\ PeerSame /\ UNCHANGED <<failures, resting, abandoned>>

\* There is a card to be fetched next, or the list is at its end.
NextCard(r) == \E step \in {"listed", "idle"} : Proceeds(r, [NoRequester EXCEPT !.step = step])

\* retry_async: the operation succeeds,
Fetched(r) ==
  /\ Fetching(r) /\ request[r].step \in serves
  /\ RecordSuccess
  /\ NextCard(r)
  /\ PeerSame

\* fails and is tried again, if the error is one of _is_retryable_error,
TryAgain(r) ==
  /\ Fetching(r) /\ request[r].step \notin serves
  /\ request[r].tries + 1 < Attempts
  /\ Proceeds(r, [request[r] EXCEPT !.tries = @ + 1])
  /\ PeerSame /\ UNCHANGED <<circuit, failures, resting, probing, abandoned>>

\* or has failed for good.  The request goes on behind a card that failed.
Failed(r) ==
  /\ Fetching(r) /\ request[r].step \notin serves
  /\ RecordFailure
  /\ IF request[r].step = "list" THEN Proceeds(r, NoRequester) ELSE NextCard(r)
  /\ PeerSame

\* CancelledError is no Exception: nothing is recorded, and a probe keeps its slot.
CancelRequest(r) ==
  /\ Fetching(r)
  /\ Proceeds(r, NoRequester)
  /\ abandoned' = (abandoned \/ request[r].probe)
  /\ PeerSame /\ UNCHANGED <<circuit, failures, resting, probing>>

\* External: the peer or one of its agents goes down or comes back.
PeerChanges ==
  /\ outages < Outages /\ outages' = outages + 1
  /\ serves' \in SUBSET Services \ {serves}
  /\ UNCHANGED <<configured, circuit, failures, resting, probing, request, abandoned>>

Settle(r) == Fetched(r) \/ Failed(r) \/ TryAgain(r)

NextBreaker ==
  \/ ResetTimeout \/ PeerChanges
  \/ \E r \in Requesters : AskList(r) \/ AskCard(r) \/ Settle(r) \/ CancelRequest(r)

\* Every attempt has a timeout; the peer is asked again and again.
BreakerFairness ==
  /\ WF_breakerVars(ResetTimeout)
  /\ \A r \in Requesters : WF_breakerVars(AskList(r)) /\ WF_breakerVars(AskCard(r) \/ Settle(r))

-----------------------------------------------------------------------------
\* Once a peer serves again for good and is asked, its circuit is closed again
\* and again, whatever late answers did to it in between, unless a cancelled
\* probe kept its slot: then the peer is refused until the process ends.
Recovers == <>[](configured /\ serves = Services) => []<>(circuit = "closed" \/ abandoned)
=============================================================================
