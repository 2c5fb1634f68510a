----------------------------- MODULE TuyaClient -----------------------------
(***************************************************************************)
(* The Tuya client (components/tuya_client/tuya_client.cpp): the task that *)
(* gets a token, lists the devices and polls their status, the table of    *)
(* devices and its mutex, the callback on_dp_change of main.cpp, a task    *)
(* that reads the table through tuya_client_get_device, and the cloud.     *)
(*                                                                         *)
(* A request and its reply are one step (TuyaHttp has the steps inside); a *)
(* device has one datapoint.                                               *)
(***************************************************************************)
EXTENDS Integers, Sequences

CONSTANTS
    Ids,           \* device ids
    Values,        \* values of a datapoint
    None,          \* no id, no datapoint, no value told, no reply
    Slots,         \* TUYA_MAX_DEVICES
    MaxListed,     \* most devices the cloud lists
    MaxReconnects, \* bound: s_reconnects saturates
    MaxFaults,     \* bound: replies lost or garbled, tokens refused or revoked
    MaxChanges,    \* bound: changes of a datapoint in the cloud
    MaxLists       \* bound: changes of the list of devices

ASSUME SlotsAssumption == Slots \in Nat \ {0} /\ MaxListed \in Nat
ASSUME BoundAssumption ==
    /\ MaxReconnects \in Nat /\ MaxFaults \in Nat
    /\ MaxChanges \in Nat /\ MaxLists \in Nat
ASSUME NoneAssumption == None \notin Ids \cup Values

VARIABLES
    pc,           \* where tuya_task is
    polling,      \* it is in the polling loop
    i,            \* the device of the current round
    any_fail,
    resp,         \* the reply in hand
    prev,         \* fetch_device_status's copy of the datapoint
    s_state, s_reconnects,
    s_token,      \* "none", "live", or "dead": the cloud refuses it
    due,          \* token_needs_refresh
    s_devices, s_dev_count,
    s_mutex,      \* its holder
    api,          \* the reader: its place, index, copy
    cloud_list, cloud_dp,
    told,         \* the value of each device's last callback
    faults, changes, lists

task == <<pc, polling, i, any_fail, resp, prev>>
state == <<s_state, s_reconnects>>
token == <<s_token, due>>
table == <<s_devices, s_dev_count, s_mutex>>
cloud == <<cloud_list, cloud_dp>>
bounds == <<faults, changes, lists>>
vars == <<task, state, token, table, api, cloud, told, bounds>>

----------------------------------------------------------------------------
Distinct(l) == \A m, n \in 1..Len(l) : l[m] = l[n] => m = n
Lists == {l \in UNION {[1..n -> Ids] : n \in 0..MaxListed} : Distinct(l)}
Empty == [id |-> None, dp |-> None]
Places == {"connect", "refresh", "token", "list", "list_parse", "status",
           "status_parse", "callback", "next", "sleep", "round", "failed",
           "delay"}

TypeOK ==
    /\ pc \in Places /\ polling \in BOOLEAN
    /\ i \in 1..(Slots + 1) /\ any_fail \in BOOLEAN
    /\ resp \in Lists \cup Values \cup {None}
    /\ prev \in Values \cup {None}
    /\ s_state \in {"IDLE", "CONNECTING", "READY", "POLLING", "TOKEN_REFRESH",
                    "ERROR", "RECONNECT"}
    /\ s_reconnects \in 0..MaxReconnects
    /\ s_token \in {"none", "live", "dead"} /\ due \in BOOLEAN
    /\ s_devices \in [1..Slots -> [id : Ids \cup {None}, dp : Values \cup {None}]]
    /\ s_dev_count \in 0..Slots
    /\ s_mutex \in {"free", "task"}
    /\ api \in [at : {"idle", "lock"}, idx : 0..Slots,
                out : [id : Ids \cup {None}, dp : Values \cup {None}]]
    /\ cloud_list \in Lists /\ cloud_dp \in [Ids -> Values]
    /\ told \in [Ids -> Values \cup {None}]
    /\ faults \in 0..MaxFaults /\ changes \in 0..MaxChanges
    /\ lists \in 0..MaxLists

Init ==
    /\ pc = "connect" /\ polling = FALSE /\ i = 1 /\ any_fail = FALSE
    /\ resp = None /\ prev = None
    /\ s_state = "IDLE" /\ s_reconnects = 0
    /\ s_token = "none" /\ due = TRUE
    /\ s_devices = [k \in 1..Slots |-> Empty] /\ s_dev_count = 0
    /\ s_mutex = "free" /\ api = [at |-> "idle", idx |-> 0, out |-> Empty]
    /\ cloud_list \in Lists /\ cloud_dp \in [Ids -> Values]
    /\ told = [d \in Ids |-> None]
    /\ faults = 0 /\ changes = 0 /\ lists = 0

----------------------------------------------------------------------------
Goto(l) == pc' = l
Fault == faults < MaxFaults /\ faults' = faults + 1

\* set_state(CONNECTING); the polling loop starts anew
Connect ==
    /\ pc = "connect" /\ Goto("refresh")
    /\ s_state' = "CONNECTING" /\ polling' = FALSE
    /\ UNCHANGED <<i, any_fail, resp, prev, s_reconnects, token, table, api,
                   cloud, told, bounds>>

\* refresh_token: publish TOKEN_REFRESH and ask
RequestToken ==
    /\ pc = "refresh" /\ Goto("token")
    /\ s_state' = "TOKEN_REFRESH"
    /\ UNCHANGED <<polling, i, any_fail, resp, prev, s_reconnects, token, table,
                   api, cloud, told, bounds>>

TokenGranted ==
    /\ pc = "token" /\ Goto(IF polling THEN "round" ELSE "list")
    /\ s_token' = "live" /\ due' = FALSE
    /\ UNCHANGED <<polling, i, any_fail, resp, prev, state, table, api, cloud,
                   told, bounds>>

\* where a refused token leads; PollsAnyway forgets the break in the loop
PollsAnyway(inLoop) == IF inLoop THEN "round" ELSE "failed"
Refused(inLoop) == "failed"

TokenRefused ==
    /\ pc = "token" /\ Goto(Refused(polling))
    /\ Fault
    /\ s_token' = "none" /\ due' = TRUE
    /\ UNCHANGED <<polling, i, any_fail, resp, prev, state, table, api, cloud,
                   told, changes, lists>>

\* fetch_devices: a reply without success is a failure
ListReply ==
    /\ pc = "list" /\ Goto("list_parse")
    /\ s_token = "live" /\ resp' = cloud_list
    /\ UNCHANGED <<polling, i, any_fail, prev, state, token, table, api, cloud,
                   told, bounds>>

ListFails ==
    /\ pc = "list" /\ Goto("failed")
    /\ \/ Fault
       \/ s_token # "live" /\ UNCHANGED faults
    /\ UNCHANGED <<polling, i, any_fail, resp, prev, state, token, table, api,
                   cloud, told, changes, lists>>

\* the device parse_devices makes of a slot: memset, then the id; SlotReused
\* forgets the memset
SlotReused(slot, id) == [slot EXCEPT !.id = id]
Device(slot, id) == [Empty EXCEPT !.id = id]

\* the devices of a list that have a slot
Kept(l) == SubSeq(l, 1, IF Len(l) < Slots THEN Len(l) ELSE Slots)

\* parse_devices under the mutex; slots past the new count keep what they had.
ParseList ==
    /\ pc = "list_parse" /\ Goto("status") /\ i' = 1
    /\ s_mutex = "free"
    /\ s_devices' = [k \in 1..Slots |->
                        IF k <= Len(Kept(resp))
                        THEN Device(s_devices[k], resp[k]) ELSE s_devices[k]]
    /\ s_dev_count' = Len(Kept(resp)) /\ resp' = None
    /\ UNCHANGED <<polling, any_fail, prev, state, token, s_mutex, api, cloud,
                   told, bounds>>

\* fetch_device_status.  success is not looked at: the reply to a dead token,
\* or another request's, is a body without properties and no failure.
StatusReply ==
    /\ pc = "status" /\ i <= s_dev_count /\ Goto("status_parse")
    /\ \/ /\ s_token = "live" /\ resp' = cloud_dp[s_devices[i].id]
          /\ UNCHANGED faults
       \/ /\ s_token # "live" /\ resp' = None
          /\ UNCHANGED faults
       \/ Fault /\ resp' = None
    /\ UNCHANGED <<polling, i, any_fail, prev, state, token, table, api, cloud,
                   told, changes, lists>>

StatusFails ==
    /\ pc = "status" /\ i <= s_dev_count /\ Goto("next")
    /\ Fault /\ any_fail' = polling
    /\ UNCHANGED <<polling, i, resp, prev, state, token, table, api, cloud, told,
                   changes, lists>>

\* the comparison with the copy, and none
AlwaysChanged(dp, before) == dp # None
Changed(dp, before) == dp # None /\ dp # before

\* parse_dp_status: a body without properties leaves the device alone
Parsed(dev, body) == IF body = None THEN dev ELSE [dev EXCEPT !.dp = body]

\* parse the reply under the mutex, which stays taken during the callback
ParseStatus ==
    /\ pc = "status_parse" /\ s_mutex = "free"
    /\ prev' = s_devices[i].dp
    /\ s_devices' = [s_devices EXCEPT ![i] = Parsed(@, resp)]
    /\ IF Changed(s_devices'[i].dp, prev')
       THEN Goto("callback") /\ s_mutex' = "task"
       ELSE Goto("next") /\ UNCHANGED s_mutex
    /\ resp' = None
    /\ UNCHANGED <<polling, i, any_fail, state, token, s_dev_count, api, cloud,
                   told, bounds>>

Callback ==
    /\ pc = "callback" /\ Goto("next")
    /\ told' = [told EXCEPT ![s_devices[i].id] = s_devices[i].dp]
    /\ s_mutex' = "free"
    /\ UNCHANGED <<polling, i, any_fail, resp, prev, state, token, s_devices,
                   s_dev_count, api, cloud, bounds>>

NextDevice ==
    /\ pc = "next" /\ Goto("status") /\ i' = i + 1
    /\ UNCHANGED <<polling, any_fail, resp, prev, state, token, table, api, cloud,
                   told, bounds>>

\* The failures of the first round after connecting are ignored.
RoundDone ==
    /\ pc = "status" /\ i > s_dev_count
    /\ IF polling /\ any_fail
       THEN Goto("failed") /\ UNCHANGED <<polling, s_state>>
       ELSE Goto("sleep") /\ s_state' = "READY" /\ polling' = TRUE
    /\ UNCHANGED <<i, any_fail, resp, prev, s_reconnects, token, table, api, cloud,
                   told, bounds>>

\* token_needs_refresh; ExpiryUnset looks at s_token_expire = 0 alone
ExpiryUnset(tok, soon) == tok = "none"
NeedsRefresh(tok, soon) == soon

WakeUp ==
    /\ pc = "sleep"
    /\ Goto(IF NeedsRefresh(s_token, due) THEN "refresh" ELSE "round")
    /\ UNCHANGED <<polling, i, any_fail, resp, prev, state, token, table, api,
                   cloud, told, bounds>>

StartRound ==
    /\ pc = "round" /\ Goto("status")
    /\ s_state' = "POLLING" /\ any_fail' = FALSE /\ i' = 1
    /\ UNCHANGED <<polling, resp, prev, s_reconnects, token, table, api, cloud,
                   told, bounds>>

Failed ==
    /\ pc = "failed" /\ Goto("delay")
    /\ s_state' = "ERROR"
    /\ s_reconnects' = IF s_reconnects < MaxReconnects
                       THEN s_reconnects + 1 ELSE s_reconnects
    /\ UNCHANGED <<polling, i, any_fail, resp, prev, token, table, api, cloud,
                   told, bounds>>

Reconnect ==
    /\ pc = "delay" /\ Goto("connect")
    /\ s_state' = "RECONNECT"
    /\ UNCHANGED <<polling, i, any_fail, resp, prev, s_reconnects, token, table,
                   api, cloud, told, bounds>>

TuyaTask ==
    \/ Connect \/ RequestToken \/ TokenGranted \/ TokenRefused \/ ListReply
    \/ ListFails \/ ParseList \/ StatusReply \/ StatusFails \/ ParseStatus
    \/ Callback \/ NextDevice \/ RoundDone \/ WakeUp \/ StartRound \/ Failed
    \/ Reconnect

\* the indices tuya_client_get_device lets through; PastEnd has <= for <
PastEnd == 1..(s_dev_count + 1)
Valid == 1..s_dev_count

\* tuya_client_get_device: the index is checked, then the mutex taken.
ApiCheck ==
    /\ api.at = "idle"
    /\ \E k \in Valid :
          api' = [at |-> "lock", idx |-> k, out |-> Empty]
    /\ UNCHANGED <<task, state, token, table, cloud, told, bounds>>

ApiCopy ==
    /\ api.at = "lock" /\ s_mutex = "free"
    /\ api' = [at |-> "idle", idx |-> api.idx, out |-> s_devices[api.idx]]
    /\ UNCHANGED <<task, state, token, table, cloud, told, bounds>>

\* The clock comes within TOKEN_MARGIN_S of s_token_expire.
TokenDue ==
    /\ ~due /\ due' = TRUE
    /\ UNCHANGED <<task, state, s_token, table, api, cloud, told, bounds>>

TokenRevoked ==
    /\ s_token = "live" /\ s_token' = "dead" /\ Fault
    /\ UNCHANGED <<task, state, due, table, api, cloud, told, changes, lists>>

CloudDpChange ==
    /\ changes < MaxChanges /\ changes' = changes + 1
    /\ \E d \in Ids, v \in Values :
          /\ v # cloud_dp[d] /\ cloud_dp' = [cloud_dp EXCEPT ![d] = v]
    /\ UNCHANGED <<task, state, token, table, api, cloud_list, told, faults, lists>>

CloudListChange ==
    /\ lists < MaxLists /\ lists' = lists + 1
    /\ cloud_list' \in Lists \ {cloud_list}
    /\ UNCHANGED <<task, state, token, table, api, cloud_dp, told, faults, changes>>

Next ==
    \/ TuyaTask \/ ApiCheck \/ ApiCopy
    \/ TokenDue \/ TokenRevoked \/ CloudDpChange \/ CloudListChange

Spec == Init /\ [][Next]_vars

\* The task is scheduled and its requests return; time passes.
FairSpec == Spec /\ WF_vars(TuyaTask) /\ WF_vars(TokenDue)

----------------------------------------------------------------------------
Known(k) == s_devices[k].dp # None

\* Outside a callback, whoever listens has been told what the table says of
\* every device: no change that was stored went without its callback, over
\* failed rounds, reconnects and new device lists.
ToldIsStored ==
    s_mutex = "free" =>
        \A k \in 1..s_dev_count :
           Known(k) => told[s_devices[k].id] = s_devices[k].dp

\* A callback repeats the value it last gave for the device only when the
\* device's first status since the last fetch_devices comes in: a reconnect
\* repeats every datapoint once, and no other step repeats one.
RepeatsOnlyFirst ==
    [][pc = "callback" /\ pc' = "next" =>
          prev = None \/ told[s_devices[i].id] # s_devices[i].dp]_vars

\* "connected" in the status means that a token has been granted since the
\* last one was refused.
ReadyHasToken == s_state \in {"READY", "POLLING"} => s_token # "none"

\* Once the cloud is left alone, listeners come to know the value of every
\* device of the table for good: after reconnects, and after the cloud revoked
\* a token without the client noticing.
EventuallyTold ==
    <>[](\A k \in 1..s_dev_count :
            told[s_devices[k].id] = cloud_dp[s_devices[k].id])
=============================================================================
