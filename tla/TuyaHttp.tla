------------------------------ MODULE TuyaHttp ------------------------------
(***************************************************************************)
(* The HTTP layer of the Tuya client (components/tuya_client/              *)
(* tuya_http.cpp).  Every request of every task collects its reply in the  *)
(* one static buffer s_rbuf, with the one length s_rlen, and no lock: the  *)
(* tuya task polls, the satel task sends commands out of on_zone_change    *)
(* and every light_off task sends one of its own.                          *)
(*                                                                         *)
(* A reply is a number of cells; cell <<t, k>> is the k-th cell of the     *)
(* reply to task t.                                                        *)
(***************************************************************************)
EXTENDS Integers

CONSTANTS
    Tasks,    \* tasks that call tuya_http_get, tuya_http_post
    NoTask,   \* the owner of a NUL
    BufSize,  \* sizeof(s_rbuf)
    MaxReply, \* bound: cells of a reply
    MaxChunk  \* bound: cells of one HTTP_EVENT_ON_DATA

ASSUME BufAssumption == BufSize \in Nat /\ BufSize > 0
ASSUME TaskAssumption == NoTask \notin Tasks
ASSUME BoundAssumption == MaxReply \in Nat /\ MaxChunk \in Nat

VARIABLES
    s_rbuf,  \* [0..BufSize-1 -> cells]
    s_rlen,
    pc,      \* where each task is in do_request
    reply,   \* cells the server answers with
    got,     \* cells of it received
    chunk,   \* the ON_DATA event being handled: its size, the cells copied
    result,  \* "none", or what do_request returned
    body,    \* the copy in out->body
    alone,   \* no other task was in do_request during the (last) request
    overrun  \* the request wrote past the end of s_rbuf

vars == <<s_rbuf, s_rlen, pc, reply, got, chunk, result, body, alone, overrun>>

NUL == <<NoTask, 0>>
Cells == (Tasks \X (1..MaxReply)) \cup {NUL}
Texts == UNION {[1..n -> Cells] : n \in 0..BufSize}
NoChunk == [size |-> 0, copy |-> 0]
Reply(t, n) == [k \in 1..n |-> <<t, k>>]
Least(a, b) == IF a < b THEN a ELSE b

TypeOK ==
    /\ s_rbuf \in [0..(BufSize - 1) -> Cells]
    /\ s_rlen \in Nat
    /\ pc \in [Tasks -> {"idle", "clear", "perform", "copy", "advance", "take"}]
    /\ reply \in [Tasks -> 0..MaxReply]
    /\ got \in [Tasks -> 0..MaxReply]
    /\ chunk \in [Tasks -> [size : 0..MaxChunk, copy : 0..MaxChunk]]
    /\ result \in [Tasks -> {"none", "ok", "fail"}]
    /\ body \in [Tasks -> Texts]
    /\ alone \in [Tasks -> BOOLEAN]
    /\ overrun \in [Tasks -> BOOLEAN]
    /\ \A t \in Tasks : /\ pc[t] \in {"copy", "advance"} \/ chunk[t] = NoChunk
                        /\ chunk[t].copy <= chunk[t].size
                        /\ got[t] + chunk[t].size <= reply[t]

----------------------------------------------------------------------------
Active(t) == pc[t] # "idle"
Goto(t, l) == pc' = [pc EXCEPT ![t] = l]

Init ==
    /\ s_rbuf = [k \in 0..(BufSize - 1) |-> NUL] /\ s_rlen = 0
    /\ pc = [t \in Tasks |-> "idle"]
    /\ reply = [t \in Tasks |-> 0] /\ got = [t \in Tasks |-> 0]
    /\ chunk = [t \in Tasks |-> NoChunk]
    /\ result = [t \in Tasks |-> "none"] /\ body = [t \in Tasks |-> <<>>]
    /\ alone = [t \in Tasks |-> FALSE] /\ overrun = [t \in Tasks |-> FALSE]

\* the length a request starts from; LengthKept forgets to reset it
LengthKept(len) == len
LengthReset(len) == 0

\* do_request sets s_rlen, ...
Request(t) ==
    /\ pc[t] = "idle" /\ Goto(t, "clear")
    /\ s_rlen' = LengthReset(s_rlen)
    /\ \E n \in 0..MaxReply : reply' = [reply EXCEPT ![t] = n]
    /\ got' = [got EXCEPT ![t] = 0]
    /\ result' = [result EXCEPT ![t] = "none"]
    /\ body' = [body EXCEPT ![t] = <<>>]
    /\ alone' = [u \in Tasks |->
                    IF u = t THEN \A v \in Tasks \ {t} : ~Active(v)
                    ELSE alone[u] /\ ~Active(u)]
    /\ overrun' = [overrun EXCEPT ![t] = FALSE]
    /\ UNCHANGED <<s_rbuf, chunk>>

\* ... clears s_rbuf and calls esp_http_client_perform.
Clear(t) ==
    /\ pc[t] = "clear" /\ Goto(t, "perform")
    /\ s_rbuf' = [k \in 0..(BufSize - 1) |-> NUL]
    /\ UNCHANGED <<s_rlen, reply, got, chunk, result, body, alone, overrun>>

\* esp_http_client_init has no memory for the request.
NoHandle(t) ==
    /\ pc[t] = "clear" /\ Goto(t, "idle")
    /\ s_rbuf' = [k \in 0..(BufSize - 1) |-> NUL]
    /\ result' = [result EXCEPT ![t] = "fail"]
    /\ UNCHANGED <<s_rlen, reply, got, chunk, body, alone, overrun>>

\* min(data_len, avail).  avail is a size_t: it wraps to more than any data_len
\* when s_rlen has passed the end.  NoTerminator forgets the place of the NUL,
\* SignedAvail computes in int.
SignedAvail(n, len) == Least(n, BufSize - len - 1)
NoTerminator(n, len) ==
    IF len <= BufSize THEN Least(n, BufSize - len) ELSE n
Copied(n, len) ==
    IF len < BufSize THEN Least(n, BufSize - len - 1) ELSE n

\* http_event_cb on data: measure, memcpy, advance
OnData(t) ==
    /\ pc[t] = "perform" /\ Goto(t, "copy")
    /\ \E n \in 1..MaxChunk :
          /\ got[t] + n <= reply[t]
          /\ chunk' = [chunk EXCEPT
                          ![t] = [size |-> n, copy |-> Copied(n, s_rlen)]]
    /\ UNCHANGED <<s_rbuf, s_rlen, reply, got, result, body, alone, overrun>>

CopyIn(t) ==
    /\ pc[t] = "copy" /\ Goto(t, "advance")
    /\ s_rbuf' = [k \in 0..(BufSize - 1) |->
                     IF s_rlen <= k /\ k < s_rlen + chunk[t].copy
                     THEN <<t, got[t] + 1 + k - s_rlen>> ELSE s_rbuf[k]]
    /\ overrun' = [overrun EXCEPT
                      ![t] = @ \/ s_rlen + chunk[t].copy > BufSize]
    /\ UNCHANGED <<s_rlen, reply, got, chunk, result, body, alone>>

Advance(t) ==
    /\ pc[t] = "advance" /\ Goto(t, "perform")
    /\ s_rlen' = s_rlen + chunk[t].copy
    /\ got' = [got EXCEPT ![t] = @ + chunk[t].size]
    /\ chunk' = [chunk EXCEPT ![t] = NoChunk]
    /\ UNCHANGED <<s_rbuf, reply, result, body, alone, overrun>>

\* The last event of perform, HTTP_EVENT_ON_FINISH or HTTP_EVENT_DISCONNECTED,
\* terminates the text.  The request ends with the reply, or short of it.
Finish(t) ==
    /\ pc[t] = "perform" /\ Goto(t, "take")
    /\ s_rbuf' = [k \in 0..(BufSize - 1) |->
                     IF k = s_rlen THEN NUL ELSE s_rbuf[k]]
    /\ overrun' = [overrun EXCEPT ![t] = @ \/ s_rlen >= BufSize]
    /\ \/ /\ got[t] = reply[t]
          /\ result' = [result EXCEPT ![t] = "ok"]
       \/ result' = [result EXCEPT ![t] = "fail"]
    /\ UNCHANGED <<s_rlen, reply, got, chunk, body, alone>>

\* strndup(s_rbuf, s_rlen): up to the first NUL.  What lies past the end of
\* s_rbuf is not modelled and ends the text.
Length(buf, len) ==
    CHOOSE n \in 0..Least(len, BufSize) :
       /\ \A k \in 0..(n - 1) : buf[k] # NUL
       /\ n = Least(len, BufSize) \/ buf[n] = NUL

Take(t) ==
    /\ pc[t] = "take" /\ Goto(t, "idle")
    /\ body' = [body EXCEPT
                   ![t] = [k \in 1..Length(s_rbuf, s_rlen) |-> s_rbuf[k - 1]]]
    /\ UNCHANGED <<s_rbuf, s_rlen, reply, got, chunk, result, alone, overrun>>

Step(t) ==
    \/ Request(t) \/ Clear(t) \/ NoHandle(t) \/ OnData(t) \/ CopyIn(t)
    \/ Advance(t) \/ Finish(t) \/ Take(t)
Next == \E t \in Tasks : Step(t)
Spec == Init /\ [][Next]_vars

----------------------------------------------------------------------------
Answered(t) == pc[t] = "idle" /\ result[t] = "ok"
Whole(t) == body[t] = Reply(t, Least(reply[t], BufSize - 1))

\* A request that no other task's request overlapped returns its own reply, cut
\* to the buffer's size, whatever earlier requests, overlapped or broken off,
\* left in the buffer.
OwnReplyAlone == \A t \in Tasks : Answered(t) /\ alone[t] => Whole(t)

\* Such a request writes nothing past the end of the buffer, the terminating
\* NUL included.
InBoundsAlone == \A t \in Tasks : alone[t] => ~overrun[t]
=============================================================================
