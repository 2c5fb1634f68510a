----------------------------- MODULE RateLimit -----------------------------
(***************************************************************************)
(* rate_limit_allow (components/rate_limit/rate_limit.cpp): a fixed window *)
(* per key, in a table of RL_MAX entries that is scanned for the key and   *)
(* has no lock.  satel_task calls it with zone_cb, the httpd task with its *)
(* api_* keys; every key has one caller.                                   *)
(*                                                                         *)
(* A scan is one step per entry.  Every key keeps the same limit and       *)
(* window, as at every call in the code.  What other modules have too      *)
(* (Init, Next, TypeOK) has the limiter's name here, so that one module    *)
(* can extend this one and another.                                        *)
(***************************************************************************)
EXTENDS Integers, Sequences, FiniteSets

CONSTANTS
    Callers,    \* tasks that call rate_limit_allow
    KeysOf,     \* the keys each of them uses
    NoKey,      \* key[0] = 0: the entry is free
    RL_MAX, Limit, Window,
    Horizon     \* bound on the clock

Keys == UNION {KeysOf[c] : c \in Callers}

ASSUME RateLimitAssumption ==
    /\ KeysOf \in [Callers -> SUBSET Keys] /\ NoKey \notin Keys
    /\ RL_MAX \in Nat \ {0} /\ Limit \in Nat \ {0} /\ Window \in Nat \ {0}
    /\ Horizon \in Nat

VARIABLES
    clock,
    s_rl,       \* the table: key, window_start and count of each entry
    pc, key, now, i, free,  \* the calls: what each task has in its locals
    granted,    \* ghost: key -> the times of the calls that were allowed
    met         \* ghost: two tasks were in the function together

calls == <<pc, key, now, i, free>>
limiterVars == <<clock, s_rl, calls, granted, met>>

Table == 0..(RL_MAX - 1)
Entries == [key : Keys \cup {NoKey}, start : 0..Horizon, count : 0..Limit]

LimiterTypeOK ==
    /\ clock \in 0..Horizon
    /\ s_rl \in [Table -> Entries]
    /\ pc \in [Callers -> {"idle", "scan"}]
    /\ key \in [Callers -> Keys \cup {NoKey}]
    /\ now \in [Callers -> 0..Horizon]
    /\ i \in [Callers -> 0..RL_MAX]
    /\ free \in [Callers -> -1..(RL_MAX - 1)]
    /\ granted \in [Keys -> Seq(0..Horizon)]
    /\ met \in BOOLEAN

\* rate_limit_init
LimiterInit ==
    /\ clock = 0
    /\ s_rl = [s \in Table |-> [key |-> NoKey, start |-> 0, count |-> 0]]
    /\ pc = [c \in Callers |-> "idle"]
    /\ key = [c \in Callers |-> NoKey]
    /\ now = [c \in Callers |-> 0]
    /\ i = [c \in Callers |-> 0]
    /\ free = [c \in Callers |-> -1]
    /\ granted = [k \in Keys |-> <<>>]
    /\ met = FALSE

----------------------------------------------------------------------------
\* the end of a call
Allow(c) ==
    /\ granted' = [granted EXCEPT ![key[c]] = Append(@, now[c])]
    /\ pc' = [pc EXCEPT ![c] = "idle"]
Deny(c) ==
    /\ pc' = [pc EXCEPT ![c] = "idle"]
    /\ UNCHANGED granted

\* The entry a scan has come to is of its key; MineLive passes by an entry
\* whose window is over.
MineLive(c) ==
    /\ pc[c] = "scan" /\ i[c] < RL_MAX /\ s_rl[i[c]].key = key[c]
    /\ now[c] - s_rl[i[c]].start < Window
Mine(c) == pc[c] = "scan" /\ i[c] < RL_MAX /\ s_rl[i[c]].key = key[c]

\* The window of an entry is over; Late lets it live one second too long.
Late(entry, time) == time - entry.start > Window
Elapsed(entry, time) == time - entry.start >= Window

\* The entry has nothing left; OneMore is off by one.
OneMore(entry) == entry.count > Limit
Exhausted(entry) == entry.count >= Limit

\* The entry of a key that opens a window; Uncounted forgets the first call.
Uncounted(k, time) == [key |-> k, start |-> time, count |-> 0]
Fresh(k, time) == [key |-> k, start |-> time, count |-> 1]

Call(c) ==
    /\ pc[c] = "idle" /\ pc' = [pc EXCEPT ![c] = "scan"]
    /\ \E k \in KeysOf[c] : key' = [key EXCEPT ![c] = k]
    /\ now' = [now EXCEPT ![c] = clock]
    /\ i' = [i EXCEPT ![c] = 0] /\ free' = [free EXCEPT ![c] = -1]
    /\ met' = (met \/ \E d \in Callers \ {c} : pc[d] = "scan")
    /\ UNCHANGED <<clock, s_rl, granted>>

\* an entry of another key, or the first free one
NextEntry(c) ==
    /\ pc[c] = "scan" /\ i[c] < RL_MAX /\ ~Mine(c)
    /\ i' = [i EXCEPT ![c] = @ + 1]
    /\ free' = IF s_rl[i[c]].key = NoKey /\ free[c] < 0
               THEN [free EXCEPT ![c] = i[c]] ELSE free
    /\ UNCHANGED <<clock, s_rl, pc, key, now, granted, met>>

Renew(c) ==
    /\ Mine(c) /\ Elapsed(s_rl[i[c]], now[c])
    /\ s_rl' = [s_rl EXCEPT ![i[c]] = Fresh(key[c], now[c])]
    /\ Allow(c)
    /\ UNCHANGED <<clock, key, now, i, free, met>>

Count(c) ==
    /\ Mine(c) /\ ~Elapsed(s_rl[i[c]], now[c]) /\ ~Exhausted(s_rl[i[c]])
    /\ s_rl' = [s_rl EXCEPT ![i[c]].count = @ + 1]
    /\ Allow(c)
    /\ UNCHANGED <<clock, key, now, i, free, met>>

AtLimit(c) ==
    /\ Mine(c) /\ ~Elapsed(s_rl[i[c]], now[c]) /\ Exhausted(s_rl[i[c]])
    /\ Deny(c)
    /\ UNCHANGED <<clock, s_rl, key, now, i, free, met>>

\* no entry of the key, one was free when it was passed
Claim(c) ==
    /\ pc[c] = "scan" /\ i[c] = RL_MAX /\ free[c] >= 0
    /\ s_rl' = [s_rl EXCEPT ![free[c]] = Fresh(key[c], now[c])]
    /\ Allow(c)
    /\ UNCHANGED <<clock, key, now, i, free, met>>

TableFull(c) ==
    /\ pc[c] = "scan" /\ i[c] = RL_MAX /\ free[c] < 0
    /\ Deny(c)
    /\ UNCHANGED <<clock, s_rl, key, now, i, free, met>>

Tick ==
    /\ clock < Horizon /\ clock' = clock + 1
    /\ UNCHANGED <<s_rl, calls, granted, met>>

LimiterNext ==
    \/ \E c \in Callers :
          \/ Call(c) \/ NextEntry(c) \/ Renew(c) \/ Count(c)
          \/ AtLimit(c) \/ Claim(c) \/ TableFull(c)
    \/ Tick

LimiterSpec == LimiterInit /\ [][LimiterNext]_limiterVars

----------------------------------------------------------------------------
\* Calls of key k allowed in the Window that starts at t.
In(k, t) == Cardinality({n \in 1..Len(granted[k]) : granted[k][n] \in t..(t + Window - 1)})

\* The windows of a key are fixed, so a burst may straddle two of them, but a
\* time span as long as a window never sees twice the limit...
BelowTwice == \A k \in Keys, t \in 0..Horizon : In(k, t) < 2 * Limit

\* ... as long as the tasks do not meet in the function.
BelowTwiceAlone == ~met => BelowTwice

\* A call that comes with a whole window after the last one allowed is allowed,
\* and one is denied only if Limit calls were allowed in the window up to it
\* or the table is full: the limiter loses no event it need not lose.
DenialHasCause ==
    \A c \in Callers :
        ~met /\ pc[c] = "scan" /\ pc'[c] = "idle" /\ UNCHANGED granted =>
            \/ \E t \in 0..Horizon :
                  t <= now[c] /\ now[c] < t + Window /\ In(key[c], t) >= Limit
            \/ \A s \in Table : s_rl[s].key \notin {NoKey, key[c]}
DeniedAlone == [][DenialHasCause]_limiterVars

\* No key has two entries, so none has two counts, while the tasks do not meet.
OneEntryAlone ==
    ~met =>
        \A s, u \in Table :
           s_rl[s].key = s_rl[u].key /\ s_rl[s].key # NoKey => s = u
=============================================================================
