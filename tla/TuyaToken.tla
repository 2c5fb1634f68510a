----------------------------- MODULE TuyaToken -----------------------------
(***************************************************************************)
(* The life of the Tuya access token against the time tuya_task takes      *)
(* (components/tuya_client/tuya_client.cpp).  The task looks at the clock  *)
(* between two rounds only; a round polls every device, and within it each *)
(* changed datapoint waits for on_dp_change, which posts a webhook.        *)
(*                                                                         *)
(* now is true time; time(NULL) is now + offset, and SNTP may move it      *)
(* forward.  TuyaClient models what the requests bring.                    *)
(***************************************************************************)
EXTENDS Integers

CONSTANTS
    Page,      \* devices of a list: page_size
    Timeout,   \* longest request: timeout_ms
    Throttle,  \* delay after each device of a polling round
    Callbacks, \* longest time the callbacks of one device take
    Poll,      \* POLL_INTERVAL_MS
    Delay,     \* RECONNECT_DELAY_MS
    Margin,    \* TOKEN_MARGIN_S
    Lifetimes, \* values of expire_time
    Jumps,     \* corrections of the clock
    Horizon    \* bound on now

ASSUME TimeAssumption ==
    /\ Page \in Nat /\ Timeout \in Nat /\ Throttle \in Nat /\ Callbacks \in Nat
    /\ Poll \in Nat /\ Delay \in Nat /\ Margin \in Nat /\ Horizon \in Nat
    /\ Lifetimes \subseteq Nat /\ Jumps \subseteq Nat

VARIABLES
    pc, polling,
    k, count,       \* the device of the round, and how many there are
    now, offset,
    s_token_expire, \* 0: no token
    expires         \* when the cloud stops accepting the token

vars == <<pc, polling, k, count, now, offset, s_token_expire, expires>>

TypeOK ==
    /\ pc \in {"connect", "token", "list", "status", "sleep", "check", "failed"}
    /\ polling \in BOOLEAN
    /\ count \in 0..Page /\ k \in 1..(Page + 1)
    /\ now \in Nat /\ offset \in Nat
    /\ s_token_expire \in Nat /\ expires \in Nat

Init ==
    /\ pc = "connect" /\ polling = FALSE /\ k = 1 /\ count = 0
    /\ now = 0 /\ offset = 0 /\ s_token_expire = 0 /\ expires = 0

Goto(l) == pc' = l
Passes(t) == now' = now + t /\ now' <= Horizon

Connect ==
    /\ pc = "connect" /\ Goto("token") /\ polling' = FALSE
    /\ UNCHANGED <<k, count, now, offset, s_token_expire, expires>>

\* refresh_token: the cloud grants the token at some moment of the request, the
\* client counts from the end of it.
TokenGranted ==
    /\ pc = "token" /\ Goto(IF polling THEN "status" ELSE "list")
    /\ \E t \in 0..Timeout, life \in Lifetimes :
          /\ Passes(t)
          /\ s_token_expire' = now' + offset + life
          /\ \E since \in 0..t : expires' = now + since + life
    /\ k' = 1
    /\ UNCHANGED <<polling, count, offset>>

TokenRefused ==
    /\ pc = "token" /\ Goto("failed")
    /\ \E t \in 0..Timeout : Passes(t)
    /\ s_token_expire' = 0
    /\ UNCHANGED <<polling, k, count, offset, expires>>

ListReply ==
    /\ pc = "list"
    /\ \E t \in 0..Timeout : Passes(t)
    /\ \/ Goto("status") /\ k' = 1 /\ count' \in 0..Page
       \/ Goto("failed") /\ UNCHANGED <<k, count>>
    /\ UNCHANGED <<polling, offset, s_token_expire, expires>>

\* the condition of the loop over the devices; OneMore is off by one
OneMore(j, n) == j <= n + 1
MoreDevices(j, n) == j <= n

\* one turn of the loop over the devices: request, callbacks, throttle
Status ==
    /\ pc = "status" /\ MoreDevices(k, count) /\ k' = k + 1
    /\ \E t \in 0..Timeout, cb \in 0..Callbacks :
          Passes(t + cb + (IF polling THEN Throttle ELSE 0))
    /\ UNCHANGED <<pc, polling, count, offset, s_token_expire, expires>>

\* any_fail is a choice here.
RoundDone ==
    /\ pc = "status" /\ ~MoreDevices(k, count)
    /\ \/ Goto("sleep") /\ polling' = TRUE
       \/ polling /\ Goto("failed") /\ UNCHANGED polling
    /\ UNCHANGED <<k, count, now, offset, s_token_expire, expires>>

Sleep ==
    /\ pc = "sleep" /\ Goto("check") /\ Passes(Poll)
    /\ UNCHANGED <<polling, k, count, offset, s_token_expire, expires>>

\* token_needs_refresh; AtExpiry forgets the margin
AtExpiry(time, expire) == expire = 0 \/ time >= expire
NeedsRefresh(time, expire) == expire = 0 \/ time + Margin >= expire

Check ==
    /\ pc = "check" /\ k' = 1
    /\ Goto(IF NeedsRefresh(now + offset, s_token_expire)
            THEN "token" ELSE "status")
    /\ UNCHANGED <<polling, count, now, offset, s_token_expire, expires>>

Failed ==
    /\ pc = "failed" /\ Goto("connect") /\ Passes(Delay)
    /\ UNCHANGED <<polling, k, count, offset, s_token_expire, expires>>

\* SNTP sets the clock.
ClockJump ==
    /\ offset = 0 /\ offset' \in Jumps
    /\ UNCHANGED <<pc, polling, k, count, now, s_token_expire, expires>>

Next ==
    \/ Connect \/ TokenGranted \/ TokenRefused \/ ListReply \/ Status
    \/ RoundDone \/ Sleep \/ Check \/ Failed \/ ClockJump

Spec == Init /\ [][Next]_vars

----------------------------------------------------------------------------
\* The longest a device of a round takes, and the longest a token is used from
\* the moment it is granted, or found good, to the next request for one.
Turn == Timeout + Callbacks + Throttle
Pause == IF Poll > Delay THEN Poll ELSE Delay
Cycle == Timeout + Page * Turn + Pause

\* What a token may have had left at that moment, by the client's count.
Left == Lifetimes \cup {Margin + 1}

\* The token is looked at before a round only, and a round may outlast the
\* margin.  What that costs is bounded, whatever SNTP does to the clock: in a
\* polling round the devices are asked with a token that lives until they have
\* answered, as far down the list as turns of full length fit in what was left
\* of it; and at no time, thus for no request of either task, has the token been
\* in use longer than a cycle.  (A command signed while the next token is being
\* requested is later by that request.)
TokenLive ==
    /\ /\ pc = "status" /\ polling /\ k <= count
       /\ \A left \in Left : (k - 1) * Turn + 2 * Timeout < left
       => now + Timeout < expires
    /\ s_token_expire # 0 =>
           \E left \in Left : now + left <= expires + Timeout + Cycle
=============================================================================
