----------------------- MODULE IoTHubClientLLReentrant -----------------------
(***************************************************************************)
(* IoTHubClientLL with one more thing an application may do from inside a *)
(* MESSAGE_TIMEOUT confirmation callback: call IoTHubClient_LL_DoWork on   *)
(* the same handle.  Nothing in iothub_client_ll.c guards against it.  The *)
(* nested call runs DoTimeouts to completion with a fresh clock reading    *)
(* before the outer walk resumes from the Flink it saved before the unlink.*)
(* A second extension lets the callback call IoTHubClient_LL_Destroy on the *)
(* handle instead; DoTimeouts and DoWork then resume on the freed handle.  *)
(***************************************************************************)
EXTENDS IoTHubClientLL

\* The nested DoTimeouts: unlink, report and free every node that has
\* expired at the current reading.  The nested transport DoWork is left out.
NestedDoWork ==
    /\ phase = "callback"
    /\ LET expired == {m \in Msgs : InQueue(m) /\ IsExpired(m, now)}
       IN  /\ expired # {}
           /\ waitingToSend' = SelectSeq(waitingToSend, LAMBDA m : m \notin expired)
           /\ Complete(expired, "TIMEOUT")
    /\ UNCHANGED <<ScanVars, entry, phase, nowTick, cursor,
                   completing, completingStatus>>

NextReentrant == Next \/ NestedDoWork

SpecReentrant == Init /\ [][NextReentrant]_vars

\* IoTHubClient_LL_Destroy called from the confirmation callback: the
\* unregister, transport destroy, drain and free of DestroyBegin through
\* DestroyEnd in one step (drain callbacks that do not call back), while the
\* DoTimeouts frame below the callback is still running.
DestroyInCallback ==
    /\ phase = "callback"
    /\ life = "live"
    /\ device' = "unregistered"
    /\ transport' = IF shared THEN transport ELSE "destroyed"
    /\ Complete({m \in Msgs : InQueue(m)}, "DESTROY")
    /\ waitingToSend' = <<>>
    /\ tick' = "released"
    /\ life' = "destroyed"
    /\ UNCHANGED <<shared, ops, now, currentMessageTimeout, inTransport, entry,
                   phase, nowTick, cursor, sendResult, sent, sendStatus,
                   completing, completingStatus>>

NextDestroyInCallback == Next \/ DestroyInCallback

SpecDestroyInCallback == Init /\ [][NextDestroyInCallback]_vars

\* While DoTimeouts walks the list, the node it will examine next is still
\* on the list (or is the list head): the walk never reads a freed node.
ScanCursorLive ==
    phase \in {"scan", "callback"} => (cursor = ListHead \/ InQueue(cursor))


\* DoTimeouts and the transport's DoWork run only on a live handle: once the
\* callback returns, the walk goes on through handleData->waitingToSend and
\* DoWork passes handleData to the transport, so the handle must not have
\* been freed under them.
NoUseAfterDestroy ==
    phase \in {"scan", "transport"} => life = "live"

=============================================================================
