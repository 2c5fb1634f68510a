-------------------------- MODULE TuyaClient_proofs --------------------------
(***************************************************************************)
(* Theorems about TuyaClient for any devices, any table and any number of  *)
(* failures and changes: what the callbacks tell.                          *)
(***************************************************************************)
EXTENDS TuyaClient, TLAPS

\* where the task holds a token it was granted
WithToken == {"list", "list_parse", "status", "status_parse", "callback",
              "next", "sleep", "round"}

PlaceInv ==
    /\ s_mutex = IF pc = "callback" THEN "task" ELSE "free"
    /\ pc \in {"status_parse", "callback", "next"} => i \in 1..s_dev_count
    /\ pc = "list_parse" => resp \in Lists
    /\ pc = "status_parse" => resp \in Values \cup {None}
    /\ api.at = "lock" => api.idx \in 1..Slots
    /\ pc = "token" => s_state = "TOKEN_REFRESH"
    /\ pc \in WithToken => s_token # "none"

\* The table's devices are devices, each in one slot.
TableInv ==
    /\ \A k \in 1..s_dev_count : s_devices[k].id \in Ids
    /\ \A k, m \in 1..s_dev_count : s_devices[k].id = s_devices[m].id => k = m

\* What was told is what is stored, but for the device whose callback is due.
ToldInv ==
    /\ \A k \in 1..s_dev_count :
          Known(k) /\ ~(pc = "callback" /\ k = i)
             => told[s_devices[k].id] = s_devices[k].dp
    /\ pc = "callback" =>
          /\ prev # s_devices[i].dp
          /\ prev # None => told[s_devices[i].id] = prev

IInv == TypeOK /\ PlaceInv /\ TableInv /\ ToldInv /\ ReadyHasToken

\* What is kept of a list from the cloud fits the table and names no device
\* twice.
LEMMA ListProperties ==
    ASSUME NEW l \in Lists
    PROVE  /\ Len(Kept(l)) \in 0..Slots /\ Len(Kept(l)) <= Len(l)
           /\ \A k \in 1..Len(Kept(l)) : l[k] \in Ids
           /\ Len(l) \in Nat /\ Distinct(l)
<1>1. PICK n \in 0..MaxListed : l \in [1..n -> Ids]
  BY DEF Lists
<1>2. n \in Nat /\ Slots \in Nat
  BY SlotsAssumption
<1>3. l \in Seq(Ids) /\ Len(l) = n
  BY <1>1, <1>2
<1> DEFINE m == IF Len(l) < Slots THEN Len(l) ELSE Slots
<1>4. m \in 0..n /\ m <= Slots
  BY <1>2, <1>3
<1> HIDE DEF m
<1>5. Len(SubSeq(l, 1, m)) = m
  BY <1>2, <1>3, <1>4
<1>6. Len(Kept(l)) = m
  BY <1>5 DEF Kept, m
<1> QED BY <1>1, <1>2, <1>3, <1>4, <1>6 DEF Lists

\* The initial state is well typed and satisfies the invariant.
LEMMA InitIInv == Init => IInv
<1> SUFFICES ASSUME Init PROVE IInv
  OBVIOUS
<1>1. Empty \in [id : Ids \cup {None}, dp : Values \cup {None}]
  BY DEF Empty
<1>2. /\ s_devices \in [1..Slots -> [id : Ids \cup {None}, dp : Values \cup {None}]]
      /\ api \in [at : {"idle", "lock"}, idx : 0..Slots,
                 out : [id : Ids \cup {None}, dp : Values \cup {None}]]
  BY <1>1, SlotsAssumption DEF Init
<1>a. 1 \in 1..(Slots + 1) /\ 0 \in 0..Slots
  BY SlotsAssumption
<1>b. 0 \in 0..MaxReconnects /\ 0 \in 0..MaxFaults /\ 0 \in 0..MaxChanges
      /\ 0 \in 0..MaxLists
  BY BoundAssumption
<1>3. TypeOK
  BY <1>2, <1>a, <1>b, SlotsAssumption, BoundAssumption DEF Init, TypeOK, Places
<1> QED BY <1>3 DEF Init, IInv, PlaceInv, TableInv, ToldInv, ReadyHasToken, WithToken

\* Every step keeps the state well typed.
LEMMA TypeStep == IInv /\ [Next]_vars => TypeOK'
<1> SUFFICES ASSUME IInv, [Next]_vars PROVE TypeOK'
  OBVIOUS
<1> USE SlotsAssumption, BoundAssumption DEF IInv, TypeOK, Goto, Places,
        task, state, token, table, cloud, bounds
<1>a. 1 \in 1..(Slots + 1)
  OBVIOUS
<1>0. Empty \in [id : Ids \cup {None}, dp : Values \cup {None}]
  BY DEF Empty
<1>1. CASE Connect
  BY <1>1, ZenonT(60) DEF Connect
<1>2. CASE RequestToken
  BY <1>2 DEF RequestToken
<1>3. CASE TokenGranted
  BY <1>3, ZenonT(60) DEF TokenGranted
<1>4. CASE TokenRefused
  BY <1>4 DEF TokenRefused, Fault, Refused
<1>5. CASE ListReply
  BY <1>5 DEF ListReply
<1>6. CASE ListFails
  BY <1>6 DEF ListFails, Fault
<1>7. CASE ParseList
  <2>1. resp \in Lists
    BY <1>7 DEF ParseList, PlaceInv
  <2>2. Len(Kept(resp)) \in 0..Slots /\ \A k \in 1..Len(Kept(resp)) : resp[k] \in Ids
    BY <2>1, ListProperties
  <2>3. \A k \in 1..Len(Kept(resp)) :
           Device(s_devices[k], resp[k])
              \in [id : Ids \cup {None}, dp : Values \cup {None}]
    BY <1>0, <2>2 DEF Device
  <2>4. s_devices' \in [1..Slots -> [id : Ids \cup {None}, dp : Values \cup {None}]]
    BY <1>7, <2>2, <2>3 DEF ParseList
  <2> QED BY <1>7, <2>2, <2>4 DEF ParseList
<1>8. CASE StatusReply
  <2>1. resp' \in Values \cup {None}
    BY <1>8 DEF StatusReply, TableInv
  <2> QED BY <1>8, <2>1 DEF StatusReply, Fault
<1>9. CASE StatusFails
  BY <1>9 DEF StatusFails, Fault
<1>10. CASE ParseStatus
  <2>1. i \in 1..s_dev_count /\ i \in 1..Slots /\ resp \in Values \cup {None}
    BY <1>10 DEF ParseStatus, Parsed, PlaceInv
  <2>2. s_devices' \in [1..Slots -> [id : Ids \cup {None}, dp : Values \cup {None}]]
    BY <1>10, <2>1 DEF ParseStatus, Parsed
  <2>3. prev' \in Values \cup {None}
    BY <1>10, <2>1 DEF ParseStatus, Parsed
  <2> QED BY <1>10, <2>2, <2>3 DEF ParseStatus, Parsed
<1>11. CASE Callback
  <2>1. i \in 1..s_dev_count /\ i \in 1..Slots
    BY <1>11 DEF Callback, PlaceInv
  <2>2. s_devices[i].dp \in Values \cup {None}
    BY <2>1
  <2>3. told' \in [Ids -> Values \cup {None}]
    BY <1>11, <2>2 DEF Callback
  <2> QED BY <1>11, <2>3 DEF Callback
<1>12. CASE NextDevice
  <2>1. i \in 1..s_dev_count
    BY <1>12 DEF NextDevice, PlaceInv
  <2> QED BY <1>12, <2>1 DEF NextDevice
<1>13. CASE RoundDone
  <2>1. pc' \in Places /\ polling' \in BOOLEAN
    BY <1>13 DEF RoundDone
  <2>2. s_state' \in {"IDLE", "CONNECTING", "READY", "POLLING", "TOKEN_REFRESH",
                     "ERROR", "RECONNECT"}
    BY <1>13 DEF RoundDone
  <2> QED BY <1>13, <2>1, <2>2 DEF RoundDone
<1>14. CASE WakeUp
  BY <1>14 DEF WakeUp
<1>15. CASE StartRound
  BY <1>a, <1>15, ZenonT(60) DEF StartRound
<1>16. CASE Failed
  BY <1>16 DEF Failed
<1>17. CASE Reconnect
  BY <1>17 DEF Reconnect
<1>18. CASE ApiCheck
  BY <1>0, <1>18 DEF ApiCheck, Valid
<1>19. CASE ApiCopy
  <2>1. PICK dev : /\ dev \in [id : Ids \cup {None}, dp : Values \cup {None}]
                   /\ api' = [at |-> "idle", idx |-> api.idx, out |-> dev]
    <3>1. api.idx \in 1..Slots
      BY <1>19 DEF ApiCopy, PlaceInv
    <3> QED BY <1>19, <3>1 DEF ApiCopy
  <2> QED BY <1>19, <2>1 DEF ApiCopy
<1>20. CASE TokenDue
  BY <1>20 DEF TokenDue
<1>21. CASE TokenRevoked
  BY <1>21 DEF TokenRevoked, Fault
<1>22. CASE CloudDpChange
  BY <1>22 DEF CloudDpChange
<1>23. CASE CloudListChange
  BY <1>23 DEF CloudListChange
<1>24. CASE UNCHANGED vars
  BY <1>24 DEF vars
<1> QED
  BY <1>1, <1>2, <1>3, <1>4, <1>5, <1>6, <1>7, <1>8, <1>9, <1>10, <1>11, <1>12,
     <1>13, <1>14, <1>15, <1>16, <1>17, <1>18, <1>19, <1>20, <1>21, <1>22, <1>23,
     <1>24 DEF Next, TuyaTask

\* Steps of anyone but the task.
Quiet == ApiCheck \/ ApiCopy \/ TokenDue \/ TokenRevoked \/ CloudDpChange
         \/ CloudListChange

\* The mutex, the reply in hand and the token fit the place the task is at.
LEMMA PlaceStep == IInv /\ [Next]_vars => PlaceInv' /\ ReadyHasToken'
<1> SUFFICES ASSUME IInv, [Next]_vars PROVE PlaceInv' /\ ReadyHasToken'
  OBVIOUS
<1> USE DEF IInv, PlaceInv, ReadyHasToken, WithToken, Goto, task, state, token,
        table, cloud, bounds
<1>0. Slots \in Nat /\ s_dev_count \in 0..Slots /\ i \in 1..(Slots + 1)
  BY SlotsAssumption DEF TypeOK
<1>1. CASE Connect
  BY <1>1 DEF Connect
<1>2. CASE RequestToken
  BY <1>2 DEF RequestToken
<1>3. CASE TokenGranted
  BY <1>3 DEF TokenGranted
<1>4. CASE TokenRefused
  BY <1>4 DEF TokenRefused, Refused
<1>5. CASE ListReply
  <2>1. resp' \in Lists
    BY <1>5 DEF ListReply, TypeOK
  <2> QED BY <1>5, <2>1 DEF ListReply
<1>6. CASE ListFails
  BY <1>6 DEF ListFails
<1>7. CASE ParseList
  BY <1>7 DEF ParseList
<1>8. CASE StatusReply
  <2>1. resp' \in Values \cup {None}
    BY <1>8 DEF StatusReply, TypeOK, TableInv
  <2>2. i \in 1..s_dev_count
    BY <1>0, <1>8 DEF StatusReply
  <2> QED BY <1>8, <2>1, <2>2 DEF StatusReply
<1>9. CASE StatusFails
  <2>1. i \in 1..s_dev_count
    BY <1>0, <1>9 DEF StatusFails
  <2> QED BY <1>9, <2>1 DEF StatusFails
<1>10. CASE ParseStatus
  BY <1>10 DEF ParseStatus, Parsed
<1>11. CASE Callback
  BY <1>11 DEF Callback
<1>12. CASE NextDevice
  BY <1>12 DEF NextDevice
<1>13. CASE RoundDone
  BY <1>13 DEF RoundDone
<1>14. CASE WakeUp
  BY <1>14 DEF WakeUp
<1>15. CASE StartRound
  BY <1>15 DEF StartRound
<1>16. CASE Failed
  BY <1>16 DEF Failed
<1>17. CASE Reconnect
  BY <1>17 DEF Reconnect
<1>18. CASE Quiet
  <2>1. /\ pc' = pc /\ i' = i /\ s_dev_count' = s_dev_count /\ resp' = resp
        /\ s_mutex' = s_mutex /\ s_state' = s_state
        /\ s_token' = s_token \/ s_token' = "dead"
    BY <1>18 DEF Quiet, ApiCheck, Valid, ApiCopy, TokenDue, TokenRevoked, CloudDpChange,
                 CloudListChange
  <2>2. api'.at = "lock" => api'.idx \in 1..Slots
    BY <1>0, <1>18 DEF Quiet, ApiCheck, Valid, ApiCopy, TokenDue, TokenRevoked,
                       CloudDpChange, CloudListChange
  <2> QED BY <2>1, <2>2
<1>19. CASE UNCHANGED vars
  BY <1>19 DEF vars
<1> QED
  BY <1>1, <1>2, <1>3, <1>4, <1>5, <1>6, <1>7, <1>8, <1>9, <1>10, <1>11, <1>12,
     <1>13, <1>14, <1>15, <1>16, <1>17, <1>18, <1>19 DEF Next, TuyaTask, Quiet

\* The table keeps one slot per device.
LEMMA TableStep == IInv /\ [Next]_vars => TableInv'
<1> SUFFICES ASSUME IInv, [Next]_vars PROVE TableInv'
  OBVIOUS
<1> USE DEF IInv, TypeOK, TableInv
<1>1. CASE ParseList
  <2>1. resp \in Lists
    BY <1>1 DEF ParseList, PlaceInv
  <2>2. /\ Len(Kept(resp)) \in 0..Slots
        /\ Len(Kept(resp)) <= Len(resp) /\ Len(resp) \in Nat
        /\ \A k \in 1..Len(Kept(resp)) : resp[k] \in Ids
        /\ Distinct(resp)
    BY <2>1, ListProperties
  <2>3. s_dev_count' = Len(Kept(resp))
    BY <1>1 DEF ParseList
  <2>4. \A k \in 1..Len(Kept(resp)) : s_devices'[k].id = resp[k]
    <3> TAKE k \in 1..Len(Kept(resp))
    <3>1. k \in 1..Slots /\ k <= Len(Kept(resp))
      BY <2>2, SlotsAssumption
    <3>2. s_devices'[k] = Device(s_devices[k], resp[k])
      BY <1>1, <3>1 DEF ParseList
    <3> QED BY <3>2 DEF Device, Empty
  <2>5. \A k \in 1..s_dev_count' : s_devices'[k].id \in Ids
    BY <2>2, <2>3, <2>4
  <2>6. ASSUME NEW k \in 1..s_dev_count', NEW m \in 1..s_dev_count',
               s_devices'[k].id = s_devices'[m].id
        PROVE  k = m
    <3>1. k \in 1..Len(resp) /\ m \in 1..Len(resp)
      BY <2>2, <2>3
    <3>2. resp[k] = resp[m]
      BY <2>3, <2>4, <2>6
    <3> QED BY <2>2, <3>1, <3>2 DEF Distinct
  <2> QED BY <2>5, <2>6
<1>2. CASE ParseStatus
  <2>1. s_dev_count' = s_dev_count
    BY <1>2 DEF ParseStatus, Parsed
  <2>2. \A k \in 1..s_dev_count : s_devices'[k].id = s_devices[k].id
    BY <1>2, SlotsAssumption DEF ParseStatus, Parsed
  <2> QED BY <2>1, <2>2
<1>3. CASE ~ParseList /\ ~ParseStatus
  <2>1. s_devices' = s_devices /\ s_dev_count' = s_dev_count
    BY <1>3 DEF Next, TuyaTask, Connect, RequestToken, TokenGranted, TokenRefused,
          ListReply, ListFails, StatusReply, StatusFails, Callback, NextDevice,
          RoundDone, WakeUp, StartRound, Failed, Reconnect, ApiCheck, Valid, ApiCopy,
          TokenDue, TokenRevoked, CloudDpChange, CloudListChange, vars, table
  <2> QED BY <2>1
<1> QED BY <1>1, <1>2, <1>3

\* The callbacks keep up with the table.
LEMMA ToldStep == IInv /\ [Next]_vars => ToldInv'
<1> SUFFICES ASSUME IInv, [Next]_vars PROVE ToldInv'
  OBVIOUS
<1> USE DEF IInv, TypeOK, ToldInv, Known
<1>0. \A k \in 1..s_dev_count : k \in 1..Slots
  BY SlotsAssumption
<1>1. CASE ParseList
  <2>1. resp \in Lists
    BY <1>1 DEF ParseList, PlaceInv
  <2>2. Len(Kept(resp)) \in 0..Slots /\ s_dev_count' = Len(Kept(resp)) /\ pc' = "status"
    BY <1>1, <2>1, ListProperties DEF ParseList, Goto
  <2>3. \A k \in 1..Len(Kept(resp)) : s_devices'[k].dp = None
    <3> TAKE k \in 1..Len(Kept(resp))
    <3>1. k \in 1..Slots /\ k <= Len(Kept(resp))
      BY <2>2, SlotsAssumption
    <3>2. s_devices'[k] = Device(s_devices[k], resp[k])
      BY <1>1, <3>1 DEF ParseList
    <3> QED BY <3>2 DEF Device, Empty
  <2> QED BY <2>2, <2>3
<1>2. CASE ParseStatus
  <2>1. /\ i \in 1..s_dev_count /\ i' = i /\ s_dev_count' = s_dev_count
        /\ pc = "status_parse" /\ told' = told /\ prev' = s_devices[i].dp
    BY <1>2 DEF ParseStatus, Parsed, PlaceInv, task
  <2>2. \A k \in 1..s_dev_count : /\ s_devices'[k].id = s_devices[k].id
                                  /\ k # i => s_devices'[k] = s_devices[k]
    BY <1>0, <1>2 DEF ParseStatus, Parsed
  <2>3. Known(i) => told[s_devices[i].id] = s_devices[i].dp
    BY <2>1
  <2>4. CASE Changed(s_devices'[i].dp, prev')
    <3>1. pc' = "callback" /\ prev' # s_devices'[i].dp
      BY <1>2, <2>4 DEF ParseStatus, Parsed, Goto, Changed
    <3> QED BY <2>1, <2>2, <2>3, <3>1
  <2>5. CASE ~Changed(s_devices'[i].dp, prev')
    <3>1. pc' = "next"
      BY <1>2, <2>5 DEF ParseStatus, Parsed, Goto
    <3>2. s_devices'[i].dp = None \/ s_devices'[i].dp = s_devices[i].dp
      BY <2>1, <2>5 DEF Changed
    <3> QED BY <2>1, <2>2, <2>3, <3>1, <3>2
  <2> QED BY <2>4, <2>5
<1>3. CASE Callback
  <2>1. /\ i \in 1..s_dev_count /\ i' = i /\ s_dev_count' = s_dev_count
        /\ pc = "callback" /\ pc' = "next" /\ s_devices' = s_devices
        /\ told' = [told EXCEPT ![s_devices[i].id] = s_devices[i].dp]
    BY <1>3 DEF Callback, Goto, PlaceInv
  <2>2. \A k \in 1..s_dev_count : s_devices[k].id \in Ids
    BY DEF TableInv
  <2>3. \A k \in 1..s_dev_count : k # i => s_devices[k].id # s_devices[i].id
    BY <2>1 DEF TableInv
  <2>4. \A k \in 1..s_dev_count :
           k # i => told'[s_devices[k].id] = told[s_devices[k].id]
    BY <2>1, <2>2, <2>3
  <2>5. told'[s_devices[i].id] = s_devices[i].dp
    BY <2>1, <2>2
  <2> QED BY <2>1, <2>4, <2>5
<1>4. CASE ~ParseList /\ ~ParseStatus /\ ~Callback
  <2>1. /\ s_devices' = s_devices /\ s_dev_count' = s_dev_count
        /\ told' = told /\ prev' = prev
    BY <1>4 DEF Next, TuyaTask, Connect, RequestToken, TokenGranted, TokenRefused,
          ListReply, ListFails, StatusReply, StatusFails, NextDevice,
          RoundDone, WakeUp, StartRound, Failed, Reconnect, ApiCheck, Valid, ApiCopy,
          TokenDue, TokenRevoked, CloudDpChange, CloudListChange, vars, table, task
  <2>2. \/ pc # "callback" /\ pc' # "callback"
        \/ pc' = pc /\ i' = i
    BY <1>4 DEF Next, TuyaTask, Connect, RequestToken, TokenGranted, TokenRefused,
          ListReply, ListFails, StatusReply, StatusFails, NextDevice,
          RoundDone, WakeUp, StartRound, Failed, Reconnect, ApiCheck, Valid, ApiCopy,
          TokenDue, TokenRevoked, CloudDpChange, CloudListChange, vars, task, Goto,
          Refused
  <2> QED BY <2>1, <2>2
<1> QED BY <1>1, <1>2, <1>3, <1>4

\* IInv holds of every reachable state.
LEMMA IInvInvariant == Spec => []IInv
<1>1. IInv /\ [Next]_vars => IInv'
  BY TypeStep, PlaceStep, TableStep, ToldStep DEF IInv
<1> QED BY <1>1, InitIInv, PTL DEF Spec

\* The task, the table and the reply in hand are well typed, so no index leaves
\* the table of devices.
THEOREM TypeCorrect == Spec => []TypeOK
<1>1. IInv => TypeOK
  BY DEF IInv
<1> QED BY <1>1, IInvInvariant, PTL

\* No change of a datapoint that was stored goes without its callback, however
\* rounds fail, tokens are lost and the list of devices changes.
THEOREM ToldIsStoredHolds == Spec => []ToldIsStored
<1>1. IInv => ToldIsStored
  BY DEF IInv, PlaceInv, ToldInv, ToldIsStored
<1> QED BY <1>1, IInvInvariant, PTL

\* A callback repeats a value only for the first status after fetch_devices.
THEOREM RepeatsOnlyFirstHolds == Spec => RepeatsOnlyFirst
<1>1. IInv /\ [Next]_vars =>
        [pc = "callback" /\ pc' = "next" =>
            prev = None \/ told[s_devices[i].id] # s_devices[i].dp]_vars
  BY DEF IInv, ToldInv
<1> QED BY <1>1, IInvInvariant, PTL DEF Spec, RepeatsOnlyFirst

\* The client is never READY or POLLING without a token it was granted.
THEOREM ReadyHasTokenHolds == Spec => []ReadyHasToken
<1>1. IInv => ReadyHasToken
  BY DEF IInv
<1> QED BY <1>1, IInvInvariant, PTL
=============================================================================
