-------------------------- MODULE TuyaToken_proofs --------------------------
(***************************************************************************)
(* How long a token is in use beyond the moment it was granted or last     *)
(* looked at, and which devices of a round can rely on it: TokenLive for   *)
(* every page size, time-out, margin, lifetime and correction of the clock,*)
(* whether or not a round fits in the margin.                              *)
(***************************************************************************)
EXTENDS TuyaToken, TLAPS

\* Type correctness: the variables of tuya_task keep their types, whatever the
\* requests answer and however long they take.
THEOREM TypeCorrect == Spec => []TypeOK
<1>1. Init => TypeOK
  <2> SUFFICES ASSUME Init PROVE TypeOK
    OBVIOUS
  <2>1. 0 \in 0..Page /\ 1 \in 1..(Page + 1)
    BY TimeAssumption
  <2> QED  BY <2>1 DEF Init, TypeOK
<1>2. TypeOK /\ [Next]_vars => TypeOK'
  <2> SUFFICES ASSUME TypeOK, [Next]_vars PROVE TypeOK'
    OBVIOUS
  <2> USE TimeAssumption DEF TypeOK
  <2>1. CASE Connect  BY <2>1 DEF Connect, Goto
  <2>2. CASE TokenGranted
    <3>1. PICK t \in 0..Timeout, life \in Lifetimes :
             /\ now' = now + t
             /\ s_token_expire' = now' + offset + life
             /\ \E since \in 0..t : expires' = now + since + life
      BY <2>2 DEF TokenGranted, Passes
    <3>2. PICK since \in 0..t : expires' = now + since + life
      BY <3>1
    <3>3. t \in Nat /\ life \in Nat /\ since \in Nat
      OBVIOUS
    <3>4. now' \in Nat /\ s_token_expire' \in Nat /\ expires' \in Nat
      BY <3>1, <3>2, <3>3
    <3>5. pc' \in {"status", "list"} /\ k' \in 1..(Page + 1)
      BY <2>2 DEF TokenGranted, Goto
    <3> QED  BY <2>2, <3>4, <3>5 DEF TokenGranted
  <2>3. CASE TokenRefused  BY <2>3 DEF TokenRefused, Goto, Passes
  <2>4. CASE ListReply  BY <2>4 DEF ListReply, Goto, Passes
  <2>5. CASE Status
    <3>1. k' \in 1..(Page + 1)
      BY <2>5 DEF Status, MoreDevices
    <3>2. now' \in Nat
      BY <2>5 DEF Status, Passes
    <3> QED  BY <2>5, <3>1, <3>2 DEF Status
  <2>6. CASE RoundDone  BY <2>6 DEF RoundDone, Goto
  <2>7. CASE Sleep  BY <2>7 DEF Sleep, Goto, Passes
  <2>8. CASE Check  BY <2>8 DEF Check, Goto
  <2>9. CASE Failed  BY <2>9 DEF Failed, Goto, Passes
  <2>10. CASE ClockJump
    <3>1. offset' \in Nat
      BY <2>10 DEF ClockJump
    <3> QED  BY <2>10, <3>1 DEF ClockJump
  <2>11. CASE UNCHANGED vars  BY <2>11 DEF vars
  <2> QED
    BY <2>1, <2>2, <2>3, <2>4, <2>5, <2>6, <2>7, <2>8, <2>9, <2>10, <2>11 DEF Next
<1> QED  BY <1>1, <1>2, PTL DEF Spec

----------------------------------------------------------------------------
\* A token that expires at e is in use at n no longer than t since it was
\* granted or found good.
Used(n, e, t) == \E left \in Left : n + left <= e + Timeout + t

\* The longest time since then, by the place in tuya_task.
SpentAt(p, pol, j) ==
    CASE p = "list" -> 0
      [] p = "status" -> (IF pol THEN 0 ELSE Timeout) + (j - 1) * Turn
      [] p \in {"sleep", "failed"} -> Timeout + Page * Turn
      [] p = "check" -> Timeout + Page * Turn + Poll
      [] OTHER -> Cycle

Spent == SpentAt(pc, polling, k)

InUse == pc \in {"list", "status"} \/ s_token_expire # 0
UseInv == InUse => Used(now, expires, Spent)

\* The client's idea of the end is late by one request at most; a clock set
\* forward makes it early.
KnownEnd == s_token_expire # 0 => s_token_expire <= expires + Timeout + offset

FirstPass == pc = "list" => ~polling

IInv == TypeOK /\ UseInv /\ KnownEnd /\ FirstPass

\* A later bound is no smaller.
LEMMA Later ==
    ASSUME NEW n \in Nat, NEW e \in Nat, NEW u \in Nat, NEW v \in Nat,
           n <= e + u, u <= v
    PROVE  n <= e + v
  OBVIOUS

LEMMA LeftTyped == \A left \in Left : left \in Nat
  BY TimeAssumption DEF Left

\* The turns of n devices: one more costs Turn more, and Page is the most.
LEMMA TurnsOf ==
    ASSUME NEW n \in 0..Page
    PROVE  /\ Turn \in Nat /\ n * Turn \in Nat
           /\ (n + 1) * Turn = n * Turn + Turn
           /\ n * Turn <= Page * Turn
<1>1. Turn \in Nat /\ n \in Nat /\ Page \in Nat
  BY TimeAssumption DEF Turn
<1> HIDE DEF Turn
<1>2. n * Turn \in Nat /\ (n + 1) * Turn = n * Turn + Turn
  BY <1>1
<1>3. PICK d \in Nat : Page = n + d
  <2>1. Page - n \in Nat /\ Page = n + (Page - n)
    BY <1>1
  <2> QED  BY <2>1
<1>4. Page * Turn = n * Turn + d * Turn /\ d * Turn \in Nat
  BY <1>1, <1>3
<1>5. n * Turn <= Page * Turn
  BY <1>2, <1>4
<1> QED  BY <1>1, <1>2, <1>5

\* The sums that bound the time are numbers, and the longest wait between two
\* rounds is one of the two.
LEMMA Times ==
    /\ Turn \in Nat /\ Page * Turn \in Nat /\ Cycle \in Nat /\ Timeout \in Nat
    /\ Timeout + Page * Turn + Poll <= Cycle
    /\ Timeout + Page * Turn + Delay <= Cycle
<1>1. Turn \in Nat /\ Page * Turn \in Nat
  BY TurnsOf, TimeAssumption
<1>2. Pause \in Nat /\ Poll <= Pause /\ Delay <= Pause
  BY TimeAssumption DEF Pause
<1> DEFINE r == Page * Turn
<1>3. r \in Nat
  BY <1>1
<1> HIDE DEF r
<1>4. Timeout + r + Pause \in Nat /\ Timeout + r + Poll <= Timeout + r + Pause
      /\ Timeout + r + Delay <= Timeout + r + Pause
  BY <1>2, <1>3, TimeAssumption
<1> QED  BY <1>1, <1>4, TimeAssumption DEF Cycle, r

LEMMA SpentTyped ==
    ASSUME NEW p, NEW pol \in BOOLEAN, NEW j \in 1..(Page + 1)
    PROVE  SpentAt(p, pol, j) \in Nat
<1>1. j - 1 \in 0..Page
  BY TimeAssumption
<1>2. (j - 1) * Turn \in Nat
  BY <1>1, TurnsOf
<1> DEFINE r == Page * Turn
           d == (j - 1) * Turn
<1>3. r \in Nat /\ d \in Nat /\ Cycle \in Nat /\ Timeout \in Nat /\ Poll \in Nat
  BY <1>2, Times, TimeAssumption
<1> HIDE DEF r, d
<1>4. Timeout + r \in Nat /\ Timeout + r + Poll \in Nat
      /\ (IF pol THEN 0 ELSE Timeout) + d \in Nat
  BY <1>3
<1> QED  BY <1>3, <1>4 DEF SpentAt, r, d

\* A token in use since a while is in use that much longer later on.
LEMMA UsedLater ==
    ASSUME NEW n \in Nat, NEW e \in Nat, NEW t \in Nat, NEW m \in Nat,
           NEW u \in Nat, Used(n, e, t), m + t <= n + u
    PROVE  Used(m, e, u)
<1>1. PICK left \in Left : n + left <= e + Timeout + t
  BY DEF Used
<1>2. left \in Nat /\ Timeout \in Nat
  BY LeftTyped, TimeAssumption
<1>3. m + left <= e + Timeout + u
  BY <1>1, <1>2
<1> QED  BY <1>3 DEF Used

\* A step that keeps the token and takes no longer than the bound grows.
LEMMA UseStep ==
    ASSUME TypeOK, TypeOK', UseInv, InUse' => InUse, expires' = expires,
           InUse' => now' + Spent <= now + Spent'
    PROVE  UseInv'
<1> SUFFICES ASSUME InUse' PROVE Used(now', expires', Spent')
  BY DEF UseInv
<1>1. Spent \in Nat
  BY SpentTyped DEF TypeOK, Spent
<1>2. Spent' \in Nat
  BY SpentTyped DEF TypeOK, Spent
<1>3. now \in Nat /\ now' \in Nat /\ expires \in Nat
  BY DEF TypeOK
<1>4. Used(now, expires, Spent)
  BY DEF UseInv
<1> HIDE DEF Spent
<1> QED  BY <1>1, <1>2, <1>3, <1>4, UsedLater

\* Each step of tuya_task keeps the invariant.
LEMMA IInvStep ==
    ASSUME IInv, TypeOK', [Next]_vars
    PROVE  IInv'
<1> DEFINE r == Page * Turn
           d == (k - 1) * Turn
<1>1. /\ now \in Nat /\ offset \in Nat /\ expires \in Nat /\ s_token_expire \in Nat
      /\ now' \in Nat /\ Timeout \in Nat /\ Poll \in Nat /\ Delay \in Nat
      /\ Margin \in Nat /\ Callbacks \in Nat /\ Throttle \in Nat
      /\ polling \in BOOLEAN
  BY TimeAssumption DEF IInv, TypeOK
<1>2. /\ r \in Nat /\ Turn \in Nat /\ Cycle \in Nat
      /\ Timeout + r + Poll <= Cycle /\ Timeout + r + Delay <= Cycle
  BY Times
<1>3. k - 1 \in 0..Page /\ d \in Nat /\ d <= r
  <2>1. k - 1 \in 0..Page
    BY TimeAssumption DEF IInv, TypeOK
  <2> QED  BY <2>1, TurnsOf
<1>4. /\ pc = "list" => Spent = 0
      /\ pc = "status" => Spent = (IF polling THEN 0 ELSE Timeout) + d
      /\ pc \in {"sleep", "failed"} => Spent = Timeout + r
      /\ pc = "check" => Spent = Timeout + r + Poll
      /\ pc \in {"connect", "token"} => Spent = Cycle
  BY DEF Spent, SpentAt
<1>5. /\ pc' = "list" => Spent' = 0
      /\ pc' = "status" => Spent' = (IF polling' THEN 0 ELSE Timeout) + (k' - 1) * Turn
      /\ pc' \in {"sleep", "failed"} => Spent' = Timeout + r
      /\ pc' = "check" => Spent' = Timeout + r + Poll
      /\ pc' \in {"connect", "token"} => Spent' = Cycle
  BY DEF Spent, SpentAt, Turn, Cycle, Pause
<1>6. 0 * Turn = 0
  BY <1>2
<1>7. (UNCHANGED <<offset, s_token_expire, expires>>) => KnownEnd'
  BY DEF IInv, KnownEnd
<1> HIDE DEF r, d
<1>8. CASE Connect
  <2>1. /\ pc = "connect" /\ pc' = "token" /\ now' = now /\ expires' = expires
        /\ UNCHANGED <<offset, s_token_expire, expires>>
    BY <1>8 DEF Connect, Goto
  <2>2. UseInv'
    <3>1. now' + Spent <= now + Spent'
      BY <1>1, <1>2, <1>4, <1>5, <2>1
    <3> QED  BY <2>1, <3>1, UseStep DEF IInv, InUse
  <2> QED  BY <1>7, <2>1, <2>2 DEF IInv, FirstPass
<1>9. CASE TokenGranted
  <2>1. PICK t \in 0..Timeout, life \in Lifetimes :
           /\ now' = now + t
           /\ s_token_expire' = now' + offset + life
           /\ \E since \in 0..t : expires' = now + since + life
    BY <1>9 DEF TokenGranted, Passes
  <2>2. PICK since \in 0..t : expires' = now + since + life
    BY <2>1
  <2>3. /\ t \in Nat /\ since \in Nat /\ t <= Timeout /\ life \in Left /\ life \in Nat
    BY <1>1, TimeAssumption DEF Left
  <2>4. KnownEnd'
    <3>1. offset' = offset
      BY <1>9 DEF TokenGranted
    <3> QED  BY <1>1, <2>1, <2>2, <2>3, <3>1 DEF KnownEnd
  <2>5. /\ pc' = (IF polling THEN "status" ELSE "list")
        /\ k' = 1 /\ polling' = polling
    BY <1>9 DEF TokenGranted, Goto
  <2>6. Spent' = 0
    <3>1. (k' - 1) * Turn = 0
      BY <1>6, <2>5
    <3> QED  BY <1>5, <2>5, <3>1
  <2>7. Used(now', expires', 0)
    <3>1. now' + life <= expires' + Timeout + 0
      BY <1>1, <2>1, <2>2, <2>3
    <3> QED  BY <2>3, <3>1 DEF Used
  <2>8. FirstPass'
    BY <2>5 DEF FirstPass
  <2> QED  BY <2>4, <2>6, <2>7, <2>8 DEF IInv, UseInv
<1>10. CASE TokenRefused
  BY <1>10 DEF TokenRefused, Goto, IInv, UseInv, InUse, KnownEnd, FirstPass
<1>11. CASE ListReply
  <2>1. /\ pc = "list" /\ ~polling' /\ pc' \in {"status", "failed"}
        /\ pc' = "status" => k' = 1
        /\ expires' = expires
        /\ UNCHANGED <<offset, s_token_expire, expires>>
    BY <1>11 DEF ListReply, Goto, IInv, FirstPass
  <2>2. PICK t \in 0..Timeout : now' = now + t
    BY <1>11 DEF ListReply, Passes
  <2>3. UseInv'
    <3>1. pc' = "status" => (k' - 1) * Turn = 0
      BY <1>6, <2>1
    <3>2. now' + Spent <= now + Spent'
      BY <1>1, <1>2, <1>4, <1>5, <2>1, <2>2, <3>1
    <3> QED  BY <2>1, <3>2, UseStep DEF IInv, InUse
  <2> QED  BY <1>7, <2>1, <2>3 DEF IInv, FirstPass
<1>12. CASE Status
  <2>1. /\ pc = "status" /\ pc' = "status" /\ k' = k + 1 /\ k <= count
        /\ polling' = polling /\ expires' = expires
        /\ UNCHANGED <<offset, s_token_expire, expires>>
    BY <1>12 DEF Status, MoreDevices
  <2>2. PICK t \in 0..Timeout, cb \in 0..Callbacks :
           now' = now + (t + cb + (IF polling THEN Throttle ELSE 0))
    BY <1>12 DEF Status, Passes
  <2>3. now' <= now + Turn
    BY <1>1, <2>2 DEF Turn
  <2>4. (k' - 1) * Turn = d + Turn
    <3>1. k' - 1 = (k - 1) + 1
      BY <2>1 DEF IInv, TypeOK
    <3>2. ((k - 1) + 1) * Turn = d + Turn
      BY <1>3, TurnsOf DEF d
    <3> QED  BY <3>1, <3>2
  <2>5. UseInv'
    <3> HIDE DEF Turn
    <3>1. now' + Spent <= now + Spent'
      BY <1>1, <1>2, <1>3, <1>4, <1>5, <2>1, <2>3, <2>4
    <3> QED  BY <2>1, <3>1, UseStep DEF IInv, InUse
  <2> QED  BY <1>7, <2>1, <2>5 DEF IInv, FirstPass
<1>13. CASE RoundDone
  <2>1. /\ pc = "status" /\ pc' \in {"sleep", "failed"} /\ now' = now
        /\ expires' = expires
        /\ UNCHANGED <<offset, s_token_expire, expires>>
    BY <1>13 DEF RoundDone, Goto
  <2>2. UseInv'
    <3>1. now' + Spent <= now + Spent'
      BY <1>1, <1>2, <1>3, <1>4, <1>5, <2>1
    <3> QED  BY <2>1, <3>1, UseStep DEF IInv, InUse
  <2> QED  BY <1>7, <2>1, <2>2 DEF IInv, FirstPass
<1>14. CASE Sleep
  <2>1. /\ pc = "sleep" /\ pc' = "check" /\ now' = now + Poll /\ expires' = expires
        /\ UNCHANGED <<offset, s_token_expire, expires>>
    BY <1>14 DEF Sleep, Goto, Passes
  <2>2. UseInv'
    <3>1. now' + Spent <= now + Spent'
      BY <1>1, <1>2, <1>4, <1>5, <2>1
    <3> QED  BY <2>1, <3>1, UseStep DEF IInv, InUse
  <2> QED  BY <1>7, <2>1, <2>2 DEF IInv, FirstPass
<1>15. CASE Check
  <2>1. /\ pc = "check" /\ now' = now /\ expires' = expires /\ k' = 1
        /\ UNCHANGED <<offset, s_token_expire, expires>>
        /\ pc' = IF NeedsRefresh(now + offset, s_token_expire)
                 THEN "token" ELSE "status"
        /\ polling' = polling
    BY <1>15 DEF Check, Goto
  <2>2. UseInv'
    <3>1. CASE NeedsRefresh(now + offset, s_token_expire)
      <4>1. now' + Spent <= now + Spent'
        BY <1>1, <1>2, <1>4, <1>5, <2>1, <3>1
      <4> QED  BY <2>1, <3>1, <4>1, UseStep DEF IInv, InUse
    <3>2. CASE ~NeedsRefresh(now + offset, s_token_expire)
      <4>1. s_token_expire # 0 /\ now + offset + Margin < s_token_expire
        BY <1>1, <3>2 DEF NeedsRefresh
      <4>2. s_token_expire <= expires + Timeout + offset
        BY <4>1 DEF IInv, KnownEnd
      <4>3. now + (Margin + 1) <= expires + Timeout + 0
        BY <1>1, <4>1, <4>2
      <4>4. Used(now, expires, 0)
        BY <4>3 DEF Used, Left
      <4>5. (k' - 1) * Turn = 0
        BY <1>6, <2>1
      <4>6. Spent' \in Nat
        BY SpentTyped DEF TypeOK, Spent
      <4> HIDE DEF Spent
      <4>7. now \in Nat
        BY <1>1
      <4>8. now + 0 <= now + Spent'
        <5>1. now + 0 <= now + 0 /\ 0 \in Nat /\ now + 0 \in Nat
          BY <4>7
        <5>2. 0 <= Spent'
          BY <4>6
        <5> QED  BY <4>6, <4>7, <5>1, <5>2, Later
      <4> QED  BY <1>1, <2>1, <4>4, <4>6, <4>8, UsedLater DEF UseInv
    <3> QED  BY <3>1, <3>2
  <2> QED  BY <1>7, <2>1, <2>2 DEF IInv, FirstPass
<1>16. CASE Failed
  <2>1. /\ pc = "failed" /\ pc' = "connect" /\ now' = now + Delay
        /\ expires' = expires
        /\ UNCHANGED <<offset, s_token_expire, expires>>
    BY <1>16 DEF Failed, Goto, Passes
  <2>2. UseInv'
    <3>1. now' + Spent <= now + Spent'
      BY <1>1, <1>2, <1>4, <1>5, <2>1
    <3> QED  BY <2>1, <3>1, UseStep DEF IInv, InUse
  <2> QED  BY <1>7, <2>1, <2>2 DEF IInv, FirstPass
<1>17. CASE ClockJump
  <2>1. offset <= offset' /\ offset' \in Nat
    BY <1>17, TimeAssumption DEF ClockJump
  <2>2. UNCHANGED <<pc, polling, k, count, now, s_token_expire, expires>>
    BY <1>17 DEF ClockJump
  <2>3. KnownEnd'
    <3> SUFFICES ASSUME s_token_expire # 0
                 PROVE  s_token_expire <= expires + Timeout + offset'
      BY <2>2 DEF KnownEnd
    <3>1. s_token_expire <= expires + Timeout + offset
      BY DEF IInv, KnownEnd
    <3> DEFINE e == expires + Timeout
    <3>2. e \in Nat
      BY <1>1
    <3>3. s_token_expire <= e + offset
      BY <3>1
    <3>4. s_token_expire \in Nat /\ offset \in Nat
      BY <1>1
    <3> HIDE DEF e
    <3>5. s_token_expire <= e + offset'
      BY <2>1, <3>2, <3>3, <3>4, Later
    <3> QED  BY <3>5 DEF e
  <2>4. UseInv' /\ FirstPass'
    BY <2>2 DEF IInv, UseInv, InUse, Used, Spent, SpentAt, Turn, Cycle, Pause, FirstPass
  <2> QED  BY <2>3, <2>4 DEF IInv
<1>18. CASE UNCHANGED vars
  BY <1>7, <1>18
  DEF vars, IInv, UseInv, InUse, Used, Spent, SpentAt, Turn, Cycle, Pause, FirstPass
<1> QED
  BY <1>8, <1>9, <1>10, <1>11, <1>12, <1>13, <1>14, <1>15, <1>16, <1>17, <1>18
  DEF Next

\* token_needs_refresh looks ahead by the margin only.  For any time-outs,
\* lifetimes and lists: a device of a polling round is asked with a live token
\* if the turns before it fit in what was left of the token, and no token is
\* used for longer than a cycle after it was granted or looked at.
THEOREM TokenLiveHolds == Spec => []TokenLive
<1>1. Init /\ TypeOK => IInv
  BY DEF Init, IInv, UseInv, InUse, KnownEnd, FirstPass
<1>2. IInv /\ TypeOK' /\ [Next]_vars => IInv'
  BY IInvStep
<1>3. IInv => TokenLive
  <2> SUFFICES ASSUME IInv PROVE TokenLive
    OBVIOUS
  <2>1. /\ now \in Nat /\ expires \in Nat /\ Timeout \in Nat
    BY TimeAssumption DEF IInv, TypeOK
  <2>2. ASSUME pc = "status", polling,
               \A left \in Left : (k - 1) * Turn + 2 * Timeout < left
        PROVE  now + Timeout < expires
    <3> DEFINE d == (k - 1) * Turn
    <3>1. d \in Nat
      <4>1. k - 1 \in 0..Page
        BY TimeAssumption DEF IInv, TypeOK
      <4> QED  BY <4>1, TurnsOf
    <3>2. Spent = d
      BY <2>2, <3>1 DEF Spent, SpentAt
    <3>3. PICK left \in Left : now + left <= expires + Timeout + d
      BY <2>2, <3>2 DEF IInv, UseInv, InUse, Used
    <3>4. d + 2 * Timeout < left /\ left \in Nat
      BY <2>2, LeftTyped
    <3> HIDE DEF d
    <3> QED  BY <2>1, <3>1, <3>3, <3>4
  <2>3. ASSUME s_token_expire # 0
        PROVE  Used(now, expires, Cycle)
    <3>1. Used(now, expires, Spent)
      BY <2>3 DEF IInv, UseInv, InUse
    <3>2. Spent \in Nat /\ Cycle \in Nat
      BY SpentTyped, Times DEF IInv, TypeOK, Spent
    <3>3. Spent <= Cycle
      <4> DEFINE r == Page * Turn
                 d == (k - 1) * Turn
      <4>1. d \in Nat /\ d <= r
        <5>1. k - 1 \in 0..Page
          BY TimeAssumption DEF IInv, TypeOK
        <5> QED  BY <5>1, TurnsOf
      <4>2. /\ r \in Nat /\ Timeout + r + Poll <= Cycle /\ Poll \in Nat
        BY Times, TimeAssumption
      <4>3. Spent \in {0, d, Timeout + d, Timeout + r, Timeout + r + Poll, Cycle}
        BY <4>1 DEF Spent, SpentAt
      <4> HIDE DEF r, d
      <4> QED  BY <2>1, <3>2, <4>1, <4>2, <4>3
    <3> HIDE DEF Spent, Cycle
    <3>4. now + Spent <= now + Cycle
      BY <2>1, <3>2, <3>3
    <3> QED  BY <2>1, <3>1, <3>2, <3>4, UsedLater
  <2> QED  BY <2>2, <2>3 DEF TokenLive, Used
<1> QED  BY <1>1, <1>2, <1>3, TypeCorrect, PTL DEF Spec
=============================================================================
