--------------------------- MODULE IoTHubClientLL ---------------------------
(***************************************************************************)
(* The outbound side of one IOTHUB_CLIENT_LL handle (iothub_client_ll.c):   *)
(* creation with an owned or a shared transport, IoTHubClient_LL_Destroy,   *)
(* the waitingToSend list filled by IoTHubClient_LL_SendEventAsync, the     *)
(* DoTimeouts scan run by IoTHubClient_LL_DoWork, the "messageTimeout"      *)
(* option and IoTHubClient_LL_SendComplete.                                 *)
(*                                                                         *)
(* The transport (IoTHubTransport_* through the provider's function table) *)
(* is not part of this file: it is modelled from its contract as the       *)
(* environment of the client.  Within one DoWork it may detach a prefix of *)
(* waitingToSend into a batch of its own, or hand one batch it holds back  *)
(* through SendComplete.                                                    *)
(*                                                                         *)
(* The scan is modelled one list node at a time, with the cursor as a      *)
(* pointer (an entry, or the list head), because a confirmation callback   *)
(* runs between two nodes and may call back into the client.               *)
(***************************************************************************)
EXTENDS Integers, Sequences, SequencesExt, FiniteSets

CONSTANTS
    Msgs,       \* one entry identity per IoTHubClient_LL_SendEventAsync call
    Timeouts,   \* values the application passes for the "messageTimeout" option
    MaxTick,    \* bound on the millisecond tick counter
    Width,      \* bit width of tick arithmetic (uint64_t in the code)
    BatchMax,   \* most entries the transport detaches in one DoWork
    ListHead    \* &handleData->waitingToSend: the end of a list walk

ASSUME /\ Timeouts \subseteq 0..(2^Width - 1)
       /\ 0 \in Timeouts
       /\ MaxTick \in 1..(2^Width - 1)
       /\ BatchMax \in Nat \ {0}
       /\ ListHead \notin Msgs

Modulus == 2^Width
NoTick  == -1   \* nowTick when tickcounter_get_current_ms failed

\* IOTHUB_CLIENT_CONFIRMATION_RESULT passed to an entry's callback.
Statuses == {"OK", "ERROR", "TIMEOUT", "DESTROY"}
\* IOTHUB_CLIENT_RESULT of SendEventAsync; "NONE" until the call is made.
Results == {"NONE", "OK", "INVALID_ARG", "ERROR"}

VARIABLES
    life,          \* "init", "live", "failed" (Create returned NULL), "destroyed"
    shared,        \* handleData->isSharedTransport
    ops,           \* the IoTHubTransport_* fields: "unset" or "bound"
    tick,          \* handleData->tickCounter: "none", "held", "released"
    transport,     \* transport instance: "none", "created", "destroyed", "external"
    device,        \* handleData->deviceHandle: "none", "registered", "unregistered"
    now,           \* the tick counter's current reading
    currentMessageTimeout,
    waitingToSend, \* the DLIST, as a sequence of entries
    inTransport,   \* batches the transport has detached and not yet completed
    entry,         \* IOTHUB_MESSAGE_LIST fields: ms_timesOutAfter and callback # NULL
    fate,          \* per entry: the statuses it was completed with, in order
    phase,         \* where IoTHubClient_LL_DoWork is: "idle", "scan", "callback", "transport"
    nowTick,       \* DoTimeouts' local nowTick
    cursor,        \* DoTimeouts' currentItemInWaitingToSend
    sendResult,    \* what each SendEventAsync call returned
    sent,          \* history: clock, timeout option and position of each successful send
    sendStatus,    \* the IOTHUB_CLIENT_STATUS the last GetSendStatus returned, or "NONE"
    completing,    \* the entries of the batch SendComplete has not yet completed
    completingStatus \* SendComplete's resultToBeCalled, "NONE" outside SendComplete

vars == <<life, shared, ops, tick, transport, device, now, currentMessageTimeout,
          waitingToSend, inTransport, entry, fate, phase, nowTick, cursor,
          sendResult, sent, sendStatus, completing, completingStatus>>

TypeOK ==
    /\ life \in {"init", "live", "failed", "destroyed"}
    /\ shared \in BOOLEAN
    /\ ops \in {"unset", "bound"}
    /\ tick \in {"none", "held", "released"}
    /\ transport \in {"none", "created", "destroyed", "external"}
    /\ device \in {"none", "registered", "unregistered"}
    /\ now \in 0..MaxTick
    /\ currentMessageTimeout \in Timeouts
    /\ waitingToSend \in Seq(Msgs)
    /\ inTransport \subseteq (SUBSET Msgs \ {{}})
    /\ entry \in [Msgs -> [ms_timesOutAfter : 0..(Modulus - 1), callback : BOOLEAN]]
    /\ fate \in [Msgs -> Seq(Statuses)]
    /\ phase \in {"idle", "scan", "callback", "transport", "complete",
                  "completeCallback", "drain", "drainCallback"}
    /\ nowTick \in {NoTick} \cup 0..MaxTick
    /\ cursor \in Msgs \cup {ListHead}
    /\ sendResult \in [Msgs -> Results]
    /\ sent \in [Msgs -> [at : 0..MaxTick, after : Timeouts, seq : 0..Cardinality(Msgs)]]
    /\ sendStatus \in {"NONE", "IDLE", "BUSY"}
    /\ completing \subseteq Msgs
    /\ completingStatus \in {"NONE", "OK", "ERROR"}

Init ==
    /\ life = "init"
    /\ shared = FALSE
    /\ ops = "unset"      \* fields of a freshly malloc'ed IOTHUB_CLIENT_LL_HANDLE_DATA
    /\ tick = "none"
    /\ transport = "none"
    /\ device = "none"
    /\ now = 0
    /\ currentMessageTimeout = 0
    /\ waitingToSend = <<>>
    /\ inTransport = {}
    /\ entry = [m \in Msgs |-> [ms_timesOutAfter |-> 0, callback |-> FALSE]]
    /\ fate = [m \in Msgs |-> <<>>]
    /\ phase = "idle"
    /\ nowTick = NoTick
    /\ cursor = ListHead
    /\ sendResult = [m \in Msgs |-> "NONE"]
    /\ sent = [m \in Msgs |-> [at |-> 0, after |-> 0, seq |-> 0]]
    /\ sendStatus = "NONE"
    /\ completing = {}
    /\ completingStatus = "NONE"

-----------------------------------------------------------------------------
(* Helpers *)

InQueue(m) == \E i \in 1..Len(waitingToSend) : waitingToSend[i] = m

\* The node after m in waitingToSend: its Flink.
Flink(m) ==
    LET i == CHOOSE j \in 1..Len(waitingToSend) : waitingToSend[j] = m
    IN  IF i = Len(waitingToSend) THEN ListHead ELSE waitingToSend[i + 1]

\* DoTimeouts' test on one node.
IsExpired(m, t) ==
    /\ entry[m].ms_timesOutAfter # 0
    /\ entry[m].ms_timesOutAfter < t

\* The timestamp attach_ms_timesOutAfter computes on a successful clock read.
TimesOutAfter ==
    IF currentMessageTimeout = 0
    THEN 0
    ELSE (now + currentMessageTimeout) % Modulus

\* History: how many sends have been accepted so far.
Accepted == Cardinality({m \in Msgs : sendResult[m] = "OK"})

\* Record that each entry of S was completed with status s.
Complete(S, s) ==
    fate' = [m \in Msgs |-> IF m \in S THEN Append(fate[m], s) ELSE fate[m]]

\* setTransportProtocol: the nine IoTHubTransport_* fields are copied from
\* the provider's table.
SetTransportProtocol == ops' = "bound"

-----------------------------------------------------------------------------
(* Lifecycle *)

\* Mutant of Create: the _Register failure path forgets IoTHubTransport_Destroy.
CreateLeaksTransport ==
    /\ life = "init"
    /\ \/ /\ life' = "failed"
          /\ SetTransportProtocol
          /\ tick' = "released"
          /\ UNCHANGED <<transport, device>>
       \/ /\ life' = "failed"
          /\ SetTransportProtocol
          /\ tick' = "released"
          /\ transport' = "created"
          /\ UNCHANGED device
       \/ /\ life' = "live"
          /\ SetTransportProtocol
          /\ tick' = "held"
          /\ transport' = "created"
          /\ device' = "registered"
    /\ shared' = FALSE
    /\ currentMessageTimeout' = 0
    /\ UNCHANGED <<now, waitingToSend, inTransport, entry, fate, phase, nowTick,
                   cursor, sendResult, sent, sendStatus,
                   completing, completingStatus>>

Create ==
    /\ life = "init"
    /\ \/ \* config or protocol NULL, malloc or tickcounter_create failed
          /\ life' = "failed"
          /\ UNCHANGED <<ops, tick, transport, device>>
       \/ \* IoTHubTransport_Create failed: the tick counter is released
          /\ life' = "failed"
          /\ SetTransportProtocol
          /\ tick' = "released"
          /\ UNCHANGED <<transport, device>>
       \/ \* IoTHubTransport_Register failed: transport destroyed, counter released
          /\ life' = "failed"
          /\ SetTransportProtocol
          /\ tick' = "released"
          /\ transport' = "destroyed"
          /\ UNCHANGED device
       \/ /\ life' = "live"
          /\ SetTransportProtocol
          /\ tick' = "held"
          /\ transport' = "created"
          /\ device' = "registered"
    /\ shared' = FALSE
    /\ currentMessageTimeout' = 0
    /\ UNCHANGED <<now, waitingToSend, inTransport, entry, fate, phase, nowTick,
                   cursor, sendResult, sent, sendStatus,
                   completing, completingStatus>>

CreateWithTransport ==
    /\ life = "init"
    /\ transport' = "external"   \* created and owned by the caller
    /\ \/ \* config, protocol or transportHandle NULL, malloc or tickcounter_create failed
          /\ life' = "failed"
          /\ UNCHANGED <<ops, tick, device, shared>>
       \/ \* IoTHubTransport_Register failed
          /\ life' = "failed"
          /\ SetTransportProtocol
          /\ tick' = "released"
          /\ UNCHANGED <<device, shared>>
       \/ /\ life' = "live"
          /\ SetTransportProtocol
          /\ tick' = "held"
          /\ device' = "registered"
          /\ shared' = TRUE
    /\ currentMessageTimeout' = 0
    /\ UNCHANGED <<now, waitingToSend, inTransport, entry, fate, phase, nowTick,
                   cursor, sendResult, sent, sendStatus,
                   completing, completingStatus>>

\* Destroy is between its _Unregister and the free of the handle.
Draining == phase \in {"drain", "drainCallback"}

DrainVars == <<life, shared, ops, tick, transport, device, now, currentMessageTimeout,
               inTransport, entry, nowTick, cursor, sendResult, sent, sendStatus,
               completing, completingStatus>>

\* IoTHubClient_LL_Destroy up to its drain loop: unregister the device and
\* destroy the transport unless it is shared.
DestroyBegin ==
    /\ life = "live"
    /\ phase = "idle"
    /\ device' = "unregistered"
    /\ transport' = IF shared THEN transport ELSE "destroyed"
    /\ phase' = "drain"
    /\ UNCHANGED <<life, shared, ops, tick, now, currentMessageTimeout, waitingToSend,
                   inTransport, entry, fate, nowTick, cursor, sendResult, sent, sendStatus,
                   completing, completingStatus>>

\* Mutant of DrainOne: the head is completed but not unlinked.
DrainKeepsEntry ==
    /\ phase = "drain"
    /\ waitingToSend # <<>>
    /\ Complete({Head(waitingToSend)}, "DESTROY")
    /\ phase' = IF entry[Head(waitingToSend)].callback THEN "drainCallback" ELSE "drain"
    /\ UNCHANGED <<DrainVars, waitingToSend>>

\* Mutant of DrainOne: the drained entry is reported CONFIRMATION_ERROR.
DrainReportsError ==
    /\ phase = "drain"
    /\ waitingToSend # <<>>
    /\ waitingToSend' = Tail(waitingToSend)
    /\ Complete({Head(waitingToSend)}, "ERROR")
    /\ phase' = IF entry[Head(waitingToSend)].callback THEN "drainCallback" ELSE "drain"
    /\ UNCHANGED DrainVars

\* One iteration of the drain loop: DList_RemoveHeadList, the callback with
\* CONFIRMATION_BECAUSE_DESTROY, free.  The loop re-reads the head each time,
\* so an entry a callback appends is drained as well.  Batches the transport
\* has detached are not on the list and stay with the transport.
DrainOne ==
    /\ phase = "drain"
    /\ waitingToSend # <<>>
    /\ waitingToSend' = Tail(waitingToSend)
    /\ Complete({Head(waitingToSend)}, "DESTROY")
    /\ phase' = IF entry[Head(waitingToSend)].callback THEN "drainCallback" ELSE "drain"
    /\ UNCHANGED DrainVars

\* The BECAUSE_DESTROY callback returns to the drain loop.
DrainCallbackReturns ==
    /\ phase = "drainCallback"
    /\ phase' = "drain"
    /\ UNCHANGED <<DrainVars, waitingToSend, fate>>

\* Mutant of DestroyEnd: the loop ends without re-reading the head, as a
\* loop over the entries present when it started would.
DestroyEndEarly ==
    /\ phase = "drain"
    /\ tick' = "released"
    /\ life' = "destroyed"
    /\ phase' = "idle"
    /\ UNCHANGED <<shared, ops, transport, device, now, currentMessageTimeout,
                   waitingToSend, inTransport, entry, fate, nowTick, cursor,
                   sendResult, sent, sendStatus,
                   completing, completingStatus>>

\* The list is empty: release the tick counter and free the handle.
DestroyEnd ==
    /\ phase = "drain"
    /\ waitingToSend = <<>>
    /\ tick' = "released"
    /\ life' = "destroyed"
    /\ phase' = "idle"
    /\ UNCHANGED <<shared, ops, transport, device, now, currentMessageTimeout,
                   waitingToSend, inTransport, entry, fate, nowTick, cursor,
                   sendResult, sent, sendStatus,
                   completing, completingStatus>>

-----------------------------------------------------------------------------
(* Application calls; also allowed from inside a confirmation callback, *)
(* the BECAUSE_DESTROY ones of Destroy's drain included                  *)

AppMayCall ==
    /\ life = "live"
    /\ phase \in {"idle", "callback", "completeCallback", "drainCallback"}

\* Mutant of SendEventAsync: the entry is inserted at the head of the list
\* (DList_InsertHeadList) instead of the tail.
SendEventAsyncAtHead(m) ==
    /\ AppMayCall
    /\ sendResult[m] = "NONE"
    /\ \E hasCallback \in BOOLEAN :
          entry' = [entry EXCEPT ![m] = [ms_timesOutAfter |-> TimesOutAfter,
                                         callback |-> hasCallback]]
    /\ waitingToSend' = <<m>> \o waitingToSend
    /\ sendResult' = [sendResult EXCEPT ![m] = "OK"]
    /\ sent' = [sent EXCEPT ![m] = [at |-> now, after |-> currentMessageTimeout,
                                    seq |-> Accepted + 1]]
    /\ UNCHANGED <<life, shared, ops, tick, transport, device, now,
                   currentMessageTimeout, inTransport, fate, phase, nowTick, cursor,
                   sendStatus,
                   completing, completingStatus>>

\* SendEventAsync(m) returns OK: a clone is appended with its expiry.
SendEventAsync(m) ==
    /\ AppMayCall
    /\ sendResult[m] = "NONE"
    /\ \E hasCallback \in BOOLEAN :
          entry' = [entry EXCEPT ![m] = [ms_timesOutAfter |-> TimesOutAfter,
                                         callback |-> hasCallback]]
    /\ waitingToSend' = Append(waitingToSend, m)
    /\ sendResult' = [sendResult EXCEPT ![m] = "OK"]
    /\ sent' = [sent EXCEPT ![m] = [at |-> now, after |-> currentMessageTimeout,
                                    seq |-> Accepted + 1]]
    /\ UNCHANGED <<life, shared, ops, tick, transport, device, now,
                   currentMessageTimeout, inTransport, fate, phase, nowTick, cursor,
                   sendStatus,
                   completing, completingStatus>>

\* SendEventAsync(m) fails without touching the list: a NULL message, or a
\* NULL callback with a non-NULL context, is INVALID_ARG; a failed malloc,
\* a failed clock read while a timeout is set, or a failed clone is ERROR.
SendEventAsyncFails(m) ==
    /\ AppMayCall
    /\ sendResult[m] = "NONE"
    /\ \E r \in {"INVALID_ARG", "ERROR"} : sendResult' = [sendResult EXCEPT ![m] = r]
    /\ UNCHANGED <<life, shared, ops, tick, transport, device, now,
                   currentMessageTimeout, waitingToSend, inTransport, entry, fate,
                   phase, nowTick, cursor, sent, sendStatus,
                   completing, completingStatus>>

SetOptionMessageTimeout(t) ==
    /\ AppMayCall
    /\ currentMessageTimeout' = t
    /\ UNCHANGED <<life, shared, ops, tick, transport, device, now, waitingToSend,
                   inTransport, entry, fate, phase, nowTick, cursor, sendResult, sent,
                   sendStatus, completing, completingStatus>>

\* IoTHubClient_LL_GetSendStatus: the transport's _GetSendStatus, which by
\* its contract reports BUSY while waitingToSend holds entries and IDLE
\* otherwise (SRS_IOTHUBCLIENT_09_008/009).  A NULL handle or status pointer
\* is INVALID_ARG and changes nothing; it is left out.
GetSendStatus ==
    /\ life = "live"
    /\ phase \in {"idle", "callback", "completeCallback"}
    /\ sendStatus' = IF waitingToSend = <<>> THEN "IDLE" ELSE "BUSY"
    /\ UNCHANGED <<life, shared, ops, tick, transport, device, now, currentMessageTimeout,
                   waitingToSend, inTransport, entry, fate, phase, nowTick, cursor,
                   sendResult, sent,
                   completing, completingStatus>>

-----------------------------------------------------------------------------
(* IoTHubClient_LL_DoWork: DoTimeouts, then the transport's DoWork *)

ScanVars == <<life, shared, ops, tick, transport, device, now,
              currentMessageTimeout, inTransport, sendResult, sent, sendStatus>>

DoTimeoutsBegin ==
    /\ life = "live"
    /\ phase = "idle"
    /\ nowTick' = now
    /\ cursor' = IF waitingToSend = <<>> THEN ListHead ELSE Head(waitingToSend)
    /\ phase' = "scan"
    /\ UNCHANGED <<ScanVars, waitingToSend, entry, fate,
                   completing, completingStatus>>

\* tickcounter_get_current_ms failed: no timeouts this cycle.
DoTimeoutsClockFails ==
    /\ life = "live"
    /\ phase = "idle"
    /\ phase' = "transport"
    /\ UNCHANGED <<ScanVars, waitingToSend, entry, fate, nowTick, cursor,
                   completing, completingStatus>>

\* Mutant of ScanTimeout: after the unlink the walk also steps over the
\* saved Flink, so the node that followed is never examined.
ScanTimeoutSkipsNext ==
    /\ phase = "scan"
    /\ cursor # ListHead
    /\ IsExpired(cursor, nowTick)
    /\ cursor' = IF Flink(cursor) = ListHead THEN ListHead ELSE Flink(Flink(cursor))
    /\ waitingToSend' = Remove(waitingToSend, cursor)
    /\ Complete({cursor}, "TIMEOUT")
    /\ phase' = IF entry[cursor].callback THEN "callback" ELSE "scan"
    /\ UNCHANGED <<ScanVars, entry, nowTick,
                   completing, completingStatus>>

\* Unlink an expired node, call its callback with MESSAGE_TIMEOUT, free it,
\* and continue from the Flink saved before the unlink.
ScanTimeout ==
    /\ phase = "scan"
    /\ cursor # ListHead
    /\ IsExpired(cursor, nowTick)
    /\ cursor' = Flink(cursor)
    /\ waitingToSend' = Remove(waitingToSend, cursor)
    /\ Complete({cursor}, "TIMEOUT")
    /\ phase' = IF entry[cursor].callback THEN "callback" ELSE "scan"
    /\ UNCHANGED <<ScanVars, entry, nowTick,
                   completing, completingStatus>>

\* Mutant of ScanSkip: the walk stops at the first node that has not expired,
\* as if expiries were sorted along the list.
ScanSkipStops ==
    /\ phase = "scan"
    /\ cursor # ListHead
    /\ ~IsExpired(cursor, nowTick)
    /\ cursor' = ListHead
    /\ UNCHANGED <<ScanVars, waitingToSend, entry, fate, phase, nowTick,
                   completing, completingStatus>>

ScanSkip ==
    /\ phase = "scan"
    /\ cursor # ListHead
    /\ ~IsExpired(cursor, nowTick)
    /\ cursor' = Flink(cursor)
    /\ UNCHANGED <<ScanVars, waitingToSend, entry, fate, phase, nowTick,
                   completing, completingStatus>>

ScanEnd ==
    /\ phase = "scan"
    /\ cursor = ListHead
    /\ phase' = "transport"
    /\ UNCHANGED <<ScanVars, waitingToSend, entry, fate, nowTick, cursor,
                   completing, completingStatus>>

\* The application's confirmation callback returns to DoTimeouts.
CallbackReturns ==
    /\ phase = "callback"
    /\ phase' = "scan"
    /\ UNCHANGED <<ScanVars, waitingToSend, entry, fate, nowTick, cursor,
                   completing, completingStatus>>

-----------------------------------------------------------------------------
(* The transport's DoWork, from its contract; each ends the DoWork call *)

EndDoWork ==
    /\ phase' = "idle"
    /\ nowTick' = NoTick
    /\ cursor' = ListHead

\* Detach the first k entries of waitingToSend to send them as one batch.
TransportSend ==
    /\ phase = "transport"
    /\ waitingToSend # <<>>
    /\ \E k \in 1..BatchMax :
          /\ k <= Len(waitingToSend)
          /\ inTransport' = inTransport \cup {ToSet(SubSeq(waitingToSend, 1, k))}
          /\ waitingToSend' = SubSeq(waitingToSend, k + 1, Len(waitingToSend))
    /\ EndDoWork
    /\ UNCHANGED <<life, shared, ops, tick, transport, device, now,
                   currentMessageTimeout, entry, fate, sendResult, sent, sendStatus,
                   completing, completingStatus>>

\* Mutant of SendComplete: the IOTHUB_BATCHSTATE_RESULT is passed to the
\* callbacks as is, instead of being mapped to a confirmation result.
SendCompleteRawResult(batch, result) ==
    /\ inTransport' = inTransport \ {batch}
    /\ completing' = batch
    /\ completingStatus' = result

\* IoTHubClient_LL_SendComplete(handle, batch, result): the batch leaves the
\* transport, and its entries are to be completed with CONFIRMATION_OK on
\* BATCHSTATE_SUCCESS, CONFIRMATION_ERROR otherwise.
SendComplete(batch, result) ==
    /\ inTransport' = inTransport \ {batch}
    /\ completing' = batch
    /\ completingStatus' = IF result = "SUCCESS" THEN "OK" ELSE "ERROR"

\* The transport's DoWork hands one batch back through SendComplete.
TransportComplete ==
    /\ phase = "transport"
    /\ \E batch \in inTransport, result \in {"SUCCESS", "FAILED"} :
          SendComplete(batch, result)
    /\ phase' = "complete"
    /\ UNCHANGED <<life, shared, ops, tick, transport, device, now,
                   currentMessageTimeout, waitingToSend, entry, fate, nowTick, cursor,
                   sendResult, sent, sendStatus>>

\* One iteration of SendComplete's loop: DList_RemoveHeadList of the batch,
\* the callback, free.  The model does not keep the order inside a batch:
\* any of its entries may come next.
CompleteOne ==
    /\ phase = "complete"
    /\ \E m \in completing :
          /\ completing' = completing \ {m}
          /\ Complete({m}, completingStatus)
          /\ phase' = IF entry[m].callback THEN "completeCallback" ELSE "complete"
    /\ UNCHANGED <<ScanVars, waitingToSend, entry, nowTick, cursor, completingStatus>>

\* The confirmation callback returns to SendComplete's loop.
CompleteCallbackReturns ==
    /\ phase = "completeCallback"
    /\ phase' = "complete"
    /\ UNCHANGED <<ScanVars, waitingToSend, entry, fate, nowTick, cursor,
                   completing, completingStatus>>

\* The batch is empty: SendComplete returns, and so does the transport's DoWork.
SendCompleteEnd ==
    /\ phase = "complete"
    /\ completing = {}
    /\ completingStatus' = "NONE"
    /\ EndDoWork
    /\ UNCHANGED <<ScanVars, waitingToSend, entry, fate, completing>>

TransportIdle ==
    /\ phase = "transport"
    /\ EndDoWork
    /\ UNCHANGED <<ScanVars, waitingToSend, entry, fate,
                   completing, completingStatus>>

-----------------------------------------------------------------------------

\* Milliseconds pass.
Tick ==
    /\ life = "live"
    /\ now < MaxTick
    /\ now' = now + 1
    /\ UNCHANGED <<life, shared, ops, tick, transport, device, currentMessageTimeout,
                   waitingToSend, inTransport, entry, fate, phase, nowTick, cursor,
                   sendResult, sent, sendStatus,
                   completing, completingStatus>>

\* Create returned NULL or the handle was destroyed: nothing is left to run.
Finished ==
    /\ life \in {"failed", "destroyed"}
    /\ UNCHANGED vars

Next ==
    \/ Create
    \/ CreateWithTransport
    \/ DestroyBegin
    \/ DrainOne
    \/ DrainCallbackReturns
    \/ DestroyEnd
    \/ \E m \in Msgs : SendEventAsync(m) \/ SendEventAsyncFails(m)
    \/ \E t \in Timeouts : SetOptionMessageTimeout(t)
    \/ GetSendStatus
    \/ DoTimeoutsBegin
    \/ DoTimeoutsClockFails
    \/ ScanTimeout
    \/ ScanSkip
    \/ ScanEnd
    \/ CallbackReturns
    \/ TransportSend
    \/ TransportComplete
    \/ CompleteOne
    \/ CompleteCallbackReturns
    \/ SendCompleteEnd
    \/ TransportIdle
    \/ Tick
    \/ Finished

(***************************************************************************)
(* Fairness.  The application drives the client by calling DoWork in a     *)
(* loop (it is the only way anything progresses), and the clock read that  *)
(* starts DoTimeouts does not fail forever: strong fairness, because a     *)
(* failed read or an application call may take the idle state away.  The   *)
(* scan, Destroy's drain loop, the callbacks and the transport's DoWork    *)
(* return.  A transport reports every batch it detached; it is not assumed *)
(* to ever detach one.  Application calls (send, option, destroy) are not  *)
(* fair.                                                                   *)
(***************************************************************************)
Fairness ==
    /\ WF_vars(Tick)
    /\ SF_vars(DoTimeoutsBegin)
    /\ WF_vars(ScanTimeout \/ ScanSkip \/ ScanEnd \/ CallbackReturns)
    /\ WF_vars(CompleteOne \/ CompleteCallbackReturns \/ SendCompleteEnd)
    /\ WF_vars(TransportSend \/ TransportComplete \/ TransportIdle)
    /\ SF_vars(TransportComplete)
    /\ WF_vars(DrainOne \/ DrainCallbackReturns \/ DestroyEnd)

Spec == Init /\ [][Next]_vars /\ Fairness

-----------------------------------------------------------------------------
(* Properties *)

\* Every entry SendEventAsync accepted is, at every moment, in exactly one
\* place: once on waitingToSend, in one transport batch (or the one
\* SendComplete is working through), or completed once
\* (by DoTimeouts, SendComplete or Destroy); so its callback never runs twice
\* and no entry is leaked or freed twice.  A rejected send leaves no entry.
EveryEntryOnce ==
    \A m \in Msgs :
        LET places == Cardinality({i \in 1..Len(waitingToSend) : waitingToSend[i] = m})
                      + Cardinality({b \in inTransport : m \in b})
                      + (IF m \in completing THEN 1 ELSE 0)
                      + Len(fate[m])
        IN  places = IF sendResult[m] = "OK" THEN 1 ELSE 0

\* waitingToSend stays in the order of the SendEventAsync calls (the spec's
\* FIFO guarantee): appends at the tail, unlinks by the timeout scan (also
\* from inside its callbacks) and the transport detaching a prefix never
\* put an entry behind one that was sent later.
QueueKeepsSendOrder ==
    \A i \in 1..(Len(waitingToSend) - 1) :
        sent[waitingToSend[i]].seq < sent[waitingToSend[i + 1]].seq

ScanBeforeDispatch ==
    (phase = "transport" /\ nowTick # NoTick)
        => \A i \in 1..Len(waitingToSend) : ~IsExpired(waitingToSend[i], nowTick)

\* A message is reported MESSAGE_TIMEOUT only once more than the
\* "messageTimeout" in force at its SendEventAsync has passed since that call.
NoEarlyTimeout ==
    [][\A m \in Msgs :
          (Len(fate'[m]) > Len(fate[m]) /\ Last(fate'[m]) = "TIMEOUT")
              => now - sent[m].at > sent[m].after]_vars

\* Create and Destroy acquire and release together: a live handle has its
\* transport table bound and holds its tick counter, device registration
\* and transport; a failed Create or a
\* destroyed handle holds none of them and leaves no transport it created;
\* a shared transport is never destroyed by the client.
ResourcesMatchLifecycle ==
    /\ life = "live" /\ ~Draining => /\ ops = "bound"
                                  /\ tick = "held"
                                  /\ device = "registered"
                                  /\ transport \in {"created", "external"}
    /\ life \in {"failed", "destroyed"} => /\ tick # "held"
                                         /\ device # "registered"
                                         /\ transport # "created"
    /\ shared => transport = "external"

\* A message accepted with a timeout that the clock passes is eventually
\* completed (by DoTimeouts if nothing else), or is held by the transport
\* when the handle is destroyed: DoTimeouts visits every node of the list,
\* whatever the order of the expiries along it.
ExpiringEntriesResolved ==
    \A m \in Msgs :
        (/\ sendResult[m] = "OK"
         /\ entry[m].ms_timesOutAfter # 0
         /\ entry[m].ms_timesOutAfter < MaxTick)
            ~> (fate[m] # <<>> \/ (life = "destroyed" /\ \E b \in inTransport : m \in b))

\* Destroy leaves no accepted message unconfirmed: its drain "guarantees no
\* entry is ever leaked or silently dropped", so once the handle is
\* destroyed every message SendEventAsync accepted has had its callback.
NoEntryOutlivesHandle ==
    life = "destroyed" => \A m \in Msgs : sendResult[m] = "OK" => fate[m] # <<>>

\* Destroy's drain loop re-reads the list head after every BECAUSE_DESTROY
\* callback, so a message such a callback sends while the handle is being
\* destroyed is drained too: once Destroy has returned, the only accepted
\* messages left unconfirmed are those a transport batch holds.
DestroyConfirmsAllButInFlight ==
    life = "destroyed" =>
        \A m \in Msgs : sendResult[m] = "OK" =>
            (fate[m] # <<>> \/ \E b \in inTransport : m \in b)

\* The handle keeps the promises of MessageLifecycle: each message accepted
\* or rejected once while the handle is live, confirmed at most once, with
\* TIMEOUT only after its timeout, with DESTROY only by Destroy, and never
\* after Destroy.  The mapping: the handle is open while live, closing while
\* Destroy drains the list (a callback may still send), and closed
\* once destroyed; the abstract outcome of a message is its fate.
Lifecycle == INSTANCE MessageLifecycle WITH
    handle     <- CASE life = "live" /\ Draining -> "closing"
                    [] life = "live"      -> "open"
                    [] life = "destroyed" -> "closed"
                    [] OTHER              -> "none",
    timeout    <- currentMessageTimeout,
    clock      <- now,
    accepted   <- sendResult,
    acceptedAt <- [m \in Msgs |-> [at |-> sent[m].at, after |-> sent[m].after]],
    outcome    <- fate

ImplementsMessageLifecycle == Lifecycle!ASpec

=============================================================================
