--------------------- MODULE CreateFromConnectionString ---------------------
(***************************************************************************)
(* IoTHubClient_LL_CreateFromConnectionString (iothub_client_ll.c): the     *)
(* NULL checks, the config allocation, the chain of STRING and tokenizer   *)
(* allocations, the "Key=value;" loop, the check of the config and the     *)
(* call to IoTHubClient_LL_Create, and the cleanup that frees what the     *)
(* function allocated.                                                     *)
(*                                                                         *)
(* The connection string is abstracted to its sequence of "Key=value"      *)
(* pairs.  A HostName value is a record [name, suffix]: the two tokens its *)
(* first '.' separates, suffix NULL when the tokenizer finds no second     *)
(* token (no '.', or nothing after it).  Every other value is a member of  *)
(* Vals.  Keys the code does not compare against are ignored by the loop   *)
(* and left out.                                                           *)
(***************************************************************************)
EXTENDS Integers, Sequences, SequencesExt, FiniteSets

CONSTANTS
    HostVals,   \* HostName values, as [name, suffix] records
    Vals,       \* values of the other keys
    MaxPairs,   \* longest connection string, in pairs
    NULL

Keys == {"HostName", "DeviceId", "SharedAccessKey", "GatewayHostName"}

\* The STRING_clone'd keys, with the local variable that holds the clone and
\* the IOTHUB_CLIENT_CONFIG field pointed at it.
CloneKeys == Keys \ {"HostName"}
Holder == [DeviceId |-> "deviceIdString", SharedAccessKey |-> "deviceKeyString",
           GatewayHostName |-> "protocolGateway"]
Field  == [DeviceId |-> "deviceId", SharedAccessKey |-> "deviceKey",
           GatewayHostName |-> "protocolGatewayHostName"]
Fields == {"iotHubName", "iotHubSuffix", "deviceId", "deviceKey", "protocolGatewayHostName"}

\* What the function allocates before the loop, in the order it does so.
SetupStrings == <<"connString", "tokenizer1", "tokenString", "valueString",
                  "hostNameString", "hostSuffixString">>

Pairs == [key : {"HostName"}, val : HostVals] \cup [key : CloneKeys, val : Vals]
Inputs == UNION {[1..n -> Pairs] : n \in 0..MaxPairs}

VARIABLES
    input,    \* the connection string, as its pairs
    pc,       \* where the function is: "start", "setup", "loop", "check", "cleanup", "done"
    pos,      \* the pair the loop reads next
    config,   \* the IOTHUB_CLIENT_CONFIG fields the loop fills
    held,     \* deviceIdString, deviceKeyString, protocolGateway: a clone (its pair) or NULL
    live,     \* allocations not yet freed: the setup strings and "config"
    clones,   \* STRING_clone results not yet freed, by the pair they copy
    failed,   \* an argument was NULL or an allocation inside the function failed
    created,  \* the config passed to IoTHubClient_LL_Create, or NULL
    result    \* the handle returned: "handle" or NULL

vars == <<input, pc, pos, config, held, live, clones, failed, created, result>>

Resources == {SetupStrings[i] : i \in 1..Len(SetupStrings)} \cup {"config"}

TypeOK ==
    /\ input \in Inputs
    /\ pc \in {"start", "setup", "loop", "check", "cleanup", "done"}
    /\ pos \in 1..(MaxPairs + 1)
    /\ config \in [Fields -> {NULL} \cup Vals \cup {v.name : v \in HostVals}
                                    \cup {v.suffix : v \in HostVals}]
    /\ held \in [{Holder[k] : k \in CloneKeys} -> {NULL} \cup 1..MaxPairs]
    /\ live \subseteq Resources
    /\ clones \subseteq 1..MaxPairs
    /\ failed \in BOOLEAN
    /\ created \in {NULL} \cup [Fields -> {NULL} \cup Vals \cup {v.name : v \in HostVals}
                                            \cup {v.suffix : v \in HostVals}]
    /\ result \in {"handle", NULL}

Init ==
    /\ input \in Inputs
    /\ pc = "start"
    /\ pos = 1
    /\ config = [f \in Fields |-> NULL]
    /\ held = [h \in {Holder[k] : k \in CloneKeys} |-> NULL]
    /\ live = {}
    /\ clones = {}
    /\ failed = FALSE
    /\ created = NULL
    /\ result = NULL

-----------------------------------------------------------------------------
(* Before the loop *)

\* connectionString or protocol NULL: return NULL at once.  Otherwise malloc
\* the config; its failure also returns NULL.
Start ==
    /\ pc = "start"
    /\ \/ /\ pc' = "done"
          /\ failed' = TRUE
          /\ UNCHANGED live
       \/ /\ pc' = "setup"
          /\ live' = {"config"}
          /\ UNCHANGED failed
    /\ UNCHANGED <<input, pos, config, held, clones, created, result>>

\* STRING_construct, STRING_TOKENIZER_create and four STRING_new: the first
\* k succeed; if one fails the loop and the check are skipped.
Setup ==
    /\ pc = "setup"
    /\ \E k \in 0..Len(SetupStrings) :
          /\ live' = live \cup {SetupStrings[i] : i \in 1..k}
          /\ IF k = Len(SetupStrings)
             THEN pc' = "loop" /\ UNCHANGED failed
             ELSE pc' = "cleanup" /\ failed' = TRUE
    /\ UNCHANGED <<input, pos, config, held, clones, created, result>>

-----------------------------------------------------------------------------
(* One iteration of the while loop per step *)

Break == pc' = "check"

\* STRING_TOKENIZER_get_next_token(tokenizer1, tokenString, "=") fails: the
\* connection string is used up.
LoopEnd ==
    /\ pc = "loop"
    /\ pos > Len(input)
    /\ Break
    /\ UNCHANGED <<input, pos, config, held, live, clones, failed, created, result>>

\* A HostName pair: tokenizer2 over the value; the token before '.' becomes
\* iotHubName (config points at hostNameString, overwritten in place), the
\* token after it iotHubSuffix.  Every failure breaks out of the loop.
\* tokenizer2 is destroyed on each path that created it.
HostNamePair ==
    /\ pc = "loop"
    /\ pos <= Len(input)
    /\ input[pos].key = "HostName"
    /\ LET v == input[pos].val IN
       \/ \* STRING_TOKENIZER_create failed
          /\ failed' = TRUE
          /\ Break
          /\ UNCHANGED <<pos, config>>
       \/ /\ v.suffix = NULL
          /\ config' = [config EXCEPT !.iotHubName = v.name]
          /\ Break
          /\ UNCHANGED <<pos, failed>>
       \/ /\ v.suffix # NULL
          /\ config' = [config EXCEPT !.iotHubName = v.name, !.iotHubSuffix = v.suffix]
          /\ pos' = pos + 1
          /\ UNCHANGED <<pc, failed>>
    /\ UNCHANGED <<input, held, live, clones, created, result>>

\* Mutant of ClonePair: the config field is pointed at tokenString (the
\* key) instead of at the clone of valueString.
ClonePairTokenString ==
    /\ pc = "loop"
    /\ pos <= Len(input)
    /\ input[pos].key \in CloneKeys
    /\ LET k == input[pos].key IN
       \/ /\ held' = [held EXCEPT ![Holder[k]] = pos]
          /\ clones' = clones \cup {pos}
          /\ config' = [config EXCEPT ![Field[k]] = k]
          /\ UNCHANGED failed
       \/ /\ held' = [held EXCEPT ![Holder[k]] = NULL]
          /\ failed' = TRUE
          /\ UNCHANGED <<clones, config>>
    /\ pos' = pos + 1
    /\ UNCHANGED <<input, pc, live, created, result>>

\* A DeviceId, SharedAccessKey or GatewayHostName pair: STRING_clone the
\* value into the key's local variable, overwriting what it held, and point
\* the config field at it when the clone succeeded.
ClonePair ==
    /\ pc = "loop"
    /\ pos <= Len(input)
    /\ input[pos].key \in CloneKeys
    /\ LET k == input[pos].key IN
       \/ /\ held' = [held EXCEPT ![Holder[k]] = pos]
          /\ clones' = clones \cup {pos}
          /\ config' = [config EXCEPT ![Field[k]] = input[pos].val]
          /\ UNCHANGED failed
       \/ /\ held' = [held EXCEPT ![Holder[k]] = NULL]
          /\ failed' = TRUE
          /\ UNCHANGED <<clones, config>>
    /\ pos' = pos + 1
    /\ UNCHANGED <<input, pc, live, created, result>>

-----------------------------------------------------------------------------
(* After the loop *)

\* Mutant of Check: the deviceKey test is dropped.
CheckSkipsDeviceKey ==
    /\ pc = "check"
    /\ IF \A f \in {"iotHubName", "iotHubSuffix", "deviceId"} : config[f] # NULL
       THEN /\ created' = config
            /\ result' \in {"handle", NULL}
       ELSE UNCHANGED <<created, result>>
    /\ pc' = "cleanup"
    /\ UNCHANGED <<input, pos, config, held, live, clones, failed>>

\* The four required fields are checked in order; when all are set the
\* config goes to IoTHubClient_LL_Create, whose result is returned.
Check ==
    /\ pc = "check"
    /\ IF \A f \in {"iotHubName", "iotHubSuffix", "deviceId", "deviceKey"} : config[f] # NULL
       THEN /\ created' = config
            /\ result' \in {"handle", NULL}
       ELSE UNCHANGED <<created, result>>
    /\ pc' = "cleanup"
    /\ UNCHANGED <<input, pos, config, held, live, clones, failed>>

\* Mutant of Cleanup: the STRING_delete(protocolGateway) is forgotten.
CleanupKeepsGateway ==
    /\ pc = "cleanup"
    /\ live' = {}
    /\ clones' = clones \ {held[h] : h \in DOMAIN held \ {"protocolGateway"}}
    /\ pc' = "done"
    /\ UNCHANGED <<input, pos, config, held, failed, created, result>>

\* STRING_delete of each non-NULL local, STRING_TOKENIZER_destroy, free(config).
Cleanup ==
    /\ pc = "cleanup"
    /\ live' = {}
    /\ clones' = clones \ {held[h] : h \in DOMAIN held}
    /\ pc' = "done"
    /\ UNCHANGED <<input, pos, config, held, failed, created, result>>

\* The function has returned.
Returned ==
    /\ pc = "done"
    /\ UNCHANGED vars

Next ==
    \/ Start \/ Setup
    \/ LoopEnd \/ HostNamePair \/ ClonePair
    \/ Check \/ Cleanup
    \/ Returned

Spec == Init /\ [][Next]_vars

-----------------------------------------------------------------------------
(* What the requirements in the code's comments ask of the function *)

Occurrences(k) == SelectSeq(input, LAMBDA p : p.key = k)
LastVal(k) == Last(Occurrences(k)).val

\* SRS_IOTHUBCLIENT_LL_12_006/009/010/011/015: HostName, DeviceId and
\* SharedAccessKey must be present; HostName is split at its first '.', and
\* a failed split returns NULL; otherwise Create gets the values given.
\* Where a key is repeated, its last value is the one the loop keeps.
Expected ==
    IF /\ \A k \in Keys \ {"GatewayHostName"} : Occurrences(k) # <<>>
       /\ \A i \in 1..Len(input) : input[i].key = "HostName" => input[i].val.suffix # NULL
    THEN [iotHubName |-> LastVal("HostName").name,
          iotHubSuffix |-> LastVal("HostName").suffix,
          deviceId |-> LastVal("DeviceId"),
          deviceKey |-> LastVal("SharedAccessKey"),
          protocolGatewayHostName |->
              IF Occurrences("GatewayHostName") = <<>> THEN NULL
              ELSE LastVal("GatewayHostName")]
    ELSE NULL

\* When the arguments are not NULL, no allocation fails and HostName is given at most once, the loop and
\* the check call IoTHubClient_LL_Create exactly when the requirements say,
\* with the config they describe: the parse does not lose, mix up or invent
\* a field, whatever the order and repetition of the other keys.
CreateConfigMatchesReference ==
    (pc = "done" /\ ~failed /\ Len(Occurrences("HostName")) <= 1) => created = Expected

\* The same for any connection string: a HostName whose split fails makes
\* the function return NULL (SRS_IOTHUBCLIENT_LL_12_015) even after an
\* earlier HostName was split.
HostNameSplitHonoured ==
    (pc = "done" /\ ~failed) => created = Expected

\* When the function returns, everything it allocated is freed except clones
\* of a key the connection string repeats: the cleanup frees each local
\* STRING, the tokenizer and the config on every path, failures included.
OnlyRepeatedKeysLeak ==
    pc = "done" =>
        /\ live = {}
        /\ \A r \in clones : Len(Occurrences(input[r].key)) > 1

\* SRS_IOTHUBCLIENT_LL_04_001: when the connection string has a
\* GatewayHostName pair and Create is called, Create gets a gateway host name
\* (the device is not silently connected straight to the hub).
GatewayPassedWhenGiven ==
    (created # NULL /\ Occurrences("GatewayHostName") # <<>>)
        => created.protocolGatewayHostName # NULL

\* When the function returns, nothing it allocated is still allocated.
NoStringLeak ==
    pc = "done" => live = {} /\ clones = {}

=============================================================================
