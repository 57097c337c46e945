--------------------------- MODULE InboundDispatch ---------------------------
(***************************************************************************)
(* The inbound side of a live IOTHUB_CLIENT_LL handle (iothub_client_ll.c): *)
(* IoTHubClient_LL_SetMessageCallback, IoTHubClient_LL_MessageCallback      *)
(* (called by the transport for each cloud-to-device message) and           *)
(* IoTHubClient_LL_GetLastMessageReceiveTime.  The transport's subscription *)
(* is modelled from its contract: _Subscribe succeeds or fails, a failure  *)
(* leaves the subscription as it was, _Unsubscribe always ends it, and     *)
(* messages are delivered only while subscribed.  get_time(NULL) reads the *)
(* wall clock, which moves forward, may be set back, and may fail.         *)
(***************************************************************************)
EXTENDS Integers

CONSTANTS
    Callbacks,  \* IOTHUB_CLIENT_MESSAGE_CALLBACK_ASYNC values the application passes
    NULL,       \* the NULL callback
    MaxTime     \* bound on the wall clock (time_t seconds)

ASSUME /\ NULL \notin Callbacks
       /\ MaxTime \in Nat \ {0}

INDEFINITE_TIME == -1   \* ((time_t)(-1)), also what get_time returns on failure
NOT_ASKED == -2        \* reported before the first GetLastMessageReceiveTime
Dispositions == {"ACCEPTED", "REJECTED", "ABANDONED"}

VARIABLES
    messageCallback,         \* handleData->messageCallback
    subscribed,              \* the transport delivers messages to this device
    lastMessageReceiveTime,  \* handleData->lastMessageReceiveTime
    wall,                    \* the wall clock
    disposition,             \* what the last MessageCallback returned to the transport
    reported                 \* what the last GetLastMessageReceiveTime gave the application
                             \* (INDEFINITE_TIME stands for IOTHUB_CLIENT_INDEFINITE_TIME)

vars == <<messageCallback, subscribed, lastMessageReceiveTime, wall, disposition, reported>>

TypeOK ==
    /\ messageCallback \in Callbacks \cup {NULL}
    /\ subscribed \in BOOLEAN
    /\ lastMessageReceiveTime \in {INDEFINITE_TIME} \cup 0..MaxTime
    /\ wall \in 0..MaxTime
    /\ disposition \in {"NONE"} \cup Dispositions
    /\ reported \in {NOT_ASKED, INDEFINITE_TIME} \cup 0..MaxTime

\* As IoTHubClient_LL_Create / _CreateWithTransport leave them.
Init ==
    /\ messageCallback = NULL
    /\ subscribed = FALSE
    /\ lastMessageReceiveTime = INDEFINITE_TIME
    /\ wall \in 0..MaxTime
    /\ disposition = "NONE"
    /\ reported = NOT_ASKED

-----------------------------------------------------------------------------

\* Mutant of SetMessageCallbackNull: unsubscribes but keeps the old callback.
SetMessageCallbackNullKeeps ==
    /\ subscribed' = FALSE
    /\ UNCHANGED <<messageCallback, lastMessageReceiveTime, wall, disposition, reported>>

\* SetMessageCallback(handle, NULL, ctx): _Unsubscribe, clear, return OK.
SetMessageCallbackNull ==
    /\ subscribed' = FALSE
    /\ messageCallback' = NULL
    /\ UNCHANGED <<lastMessageReceiveTime, wall, disposition, reported>>

\* SetMessageCallback(handle, cb, ctx), _Subscribe returns 0: store cb, OK.
SetMessageCallbackSubscribed(cb) ==
    /\ subscribed' = TRUE
    /\ messageCallback' = cb
    /\ UNCHANGED <<lastMessageReceiveTime, wall, disposition, reported>>

\* _Subscribe fails: clear the callback and return ERROR.
SetMessageCallbackFails(cb) ==
    /\ messageCallback' = NULL
    /\ UNCHANGED <<subscribed, lastMessageReceiveTime, wall, disposition, reported>>

\* Mutant of MessageCallback: with no callback registered, the int result
\* is left at an IOTHUB_CLIENT_RESULT (ERROR) instead of ABANDONED.
MessageCallbackClientError ==
    /\ subscribed
    /\ lastMessageReceiveTime' \in {wall, INDEFINITE_TIME}
    /\ IF messageCallback # NULL
       THEN disposition' \in Dispositions
       ELSE disposition' = "ERROR"
    /\ UNCHANGED <<messageCallback, subscribed, wall, reported>>

\* The transport hands one message to IoTHubClient_LL_MessageCallback: the
\* receive time is overwritten with get_time(NULL), then the registered
\* callback's verdict is returned, or ABANDONED when there is none.
MessageCallback ==
    /\ subscribed
    /\ lastMessageReceiveTime' \in {wall, INDEFINITE_TIME}
    /\ IF messageCallback # NULL
       THEN disposition' \in Dispositions
       ELSE disposition' = "ABANDONED"
    /\ UNCHANGED <<messageCallback, subscribed, wall, reported>>

GetLastMessageReceiveTime ==
    /\ reported' = lastMessageReceiveTime   \* INDEFINITE_TIME is returned as such
    /\ UNCHANGED <<messageCallback, subscribed, lastMessageReceiveTime, wall, disposition>>

\* The wall clock advances, or is set back (NTP, user).
WallClockAdvances ==
    /\ wall < MaxTime
    /\ wall' = wall + 1
    /\ UNCHANGED <<messageCallback, subscribed, lastMessageReceiveTime, disposition, reported>>

WallClockSetBack ==
    /\ wall' \in 0..(wall - 1)
    /\ UNCHANGED <<messageCallback, subscribed, lastMessageReceiveTime, disposition, reported>>

Next ==
    \/ SetMessageCallbackNull
    \/ \E cb \in Callbacks : SetMessageCallbackSubscribed(cb) \/ SetMessageCallbackFails(cb)
    \/ MessageCallback
    \/ GetLastMessageReceiveTime
    \/ WallClockAdvances
    \/ WallClockSetBack

Spec == Init /\ [][Next]_vars

-----------------------------------------------------------------------------

\* A callback is registered only while the transport is subscribed: a
\* failed _Subscribe or an unsubscribe never leaves a callback behind, so
\* SetMessageCallback's OK always means messages will reach that callback.
CallbackImpliesSubscribed ==
    messageCallback # NULL => subscribed

\* Once a message has been received, GetLastMessageReceiveTime reports a
\* time, and the times it reports never decrease (spec: "returns the
\* timestamp recorded at the most recent deliver-inbound call ...
\* monotonically non-decreasing across calls").
ReceiveTimeMonotone ==
    [][reported >= 0 => reported' >= reported]_vars

=============================================================================
