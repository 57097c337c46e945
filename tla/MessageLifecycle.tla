--------------------------- MODULE MessageLifecycle ---------------------------
(***************************************************************************)
(* What an IOTHUB_CLIENT_LL handle promises the application about the      *)
(* messages it sends, with no list, scan or transport in it: a handle is   *)
(* opened once and closed once; while it is open each message is accepted  *)
(* or rejected once; an accepted message is confirmed at most once, with   *)
(* OK or ERROR while the handle is open, with TIMEOUT only once more than  *)
(* its messageTimeout has passed since it was accepted, and with DESTROY   *)
(* only while the handle closes.  A closing handle still accepts messages  *)
(* (a DESTROY callback may send) but confirms nothing but DESTROY; after   *)
(* the close nothing is confirmed.                                         *)
(* IoTHubClientLL implements it (ImplementsMessageLifecycle).             *)
(***************************************************************************)
EXTENDS Integers, Sequences

CONSTANTS Msgs, Timeouts, MaxTick

VARIABLES
    handle,     \* "none", "open", "closing", "closed"
    timeout,    \* the messageTimeout a new message gets
    clock,      \* milliseconds
    accepted,   \* per message: "NONE", "OK" or the error the send returned
    acceptedAt, \* per message: clock and timeout when it was accepted
    outcome     \* per message: the confirmations delivered, in order

avars == <<handle, timeout, clock, accepted, acceptedAt, outcome>>

AInit ==
    /\ handle = "none"
    /\ timeout = 0
    /\ clock = 0
    /\ accepted = [m \in Msgs |-> "NONE"]
    /\ acceptedAt = [m \in Msgs |-> [at |-> 0, after |-> 0]]
    /\ outcome = [m \in Msgs |-> <<>>]

Open ==
    /\ handle = "none"
    /\ handle' = "open"
    /\ timeout' = 0
    /\ UNCHANGED <<clock, accepted, acceptedAt, outcome>>

\* The handle accepts calls from the application.
Usable == handle \in {"open", "closing"}

Accept(m) ==
    /\ Usable
    /\ accepted[m] = "NONE"
    /\ accepted' = [accepted EXCEPT ![m] = "OK"]
    /\ acceptedAt' = [acceptedAt EXCEPT ![m] = [at |-> clock, after |-> timeout]]
    /\ UNCHANGED <<handle, timeout, clock, outcome>>

Reject(m) ==
    /\ Usable
    /\ accepted[m] = "NONE"
    /\ \E r \in {"INVALID_ARG", "ERROR"} : accepted' = [accepted EXCEPT ![m] = r]
    /\ UNCHANGED <<handle, timeout, clock, acceptedAt, outcome>>

SetTimeout(t) ==
    /\ Usable
    /\ timeout' = t
    /\ UNCHANGED <<handle, clock, accepted, acceptedAt, outcome>>

\* An accepted message that has not been confirmed.
Pending(m) == accepted[m] = "OK" /\ outcome[m] = <<>>

Elapsed(m) ==
    acceptedAt[m].after # 0 /\ clock - acceptedAt[m].at > acceptedAt[m].after

\* Some pending messages are confirmed with s, each once.
Deliver(S, s) ==
    /\ \A m \in S : Pending(m)
    /\ outcome' = [m \in Msgs |-> IF m \in S THEN Append(outcome[m], s) ELSE outcome[m]]

Confirm(S, s) ==
    /\ handle = "open"
    /\ S # {}
    /\ s \in {"OK", "ERROR"} \/ (s = "TIMEOUT" /\ \A m \in S : Elapsed(m))
    /\ Deliver(S, s)
    /\ UNCHANGED <<handle, timeout, clock, accepted, acceptedAt>>

BeginClose ==
    /\ handle = "open"
    /\ handle' = "closing"
    /\ UNCHANGED <<timeout, clock, accepted, acceptedAt, outcome>>

\* While the handle closes, a pending message is confirmed DESTROY.
ConfirmDestroy(m) ==
    /\ handle = "closing"
    /\ Deliver({m}, "DESTROY")
    /\ UNCHANGED <<handle, timeout, clock, accepted, acceptedAt>>

\* The handle is closed; messages still pending are never confirmed by it.
Close ==
    /\ handle = "closing"
    /\ handle' = "closed"
    /\ UNCHANGED <<timeout, clock, accepted, acceptedAt, outcome>>

Advance ==
    /\ clock < MaxTick
    /\ clock' = clock + 1
    /\ UNCHANGED <<handle, timeout, accepted, acceptedAt, outcome>>

ANext ==
    \/ Open \/ BeginClose \/ Close \/ Advance
    \/ \E m \in Msgs : Accept(m) \/ Reject(m) \/ ConfirmDestroy(m)
    \/ \E t \in Timeouts : SetTimeout(t)
    \/ \E S \in SUBSET Msgs, s \in {"OK", "ERROR", "TIMEOUT"} : Confirm(S, s)

ASpec == AInit /\ [][ANext]_avars

=============================================================================
