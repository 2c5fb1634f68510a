--------------------------- MODULE TuyaHttp_proofs ---------------------------
(***************************************************************************)
(* Theorems about TuyaHttp for any set of tasks, any buffer and any reply: *)
(* what a request gets when no other overlaps it.                          *)
(***************************************************************************)
EXTENDS TuyaHttp, WellFoundedInduction, TLAPS

Cap == BufSize - 1

\* s_rbuf begins with the first n cells of the reply to t.
Holds(t, n) == \A k \in 0..(n - 1) : s_rbuf[k] = <<t, k + 1>>

\* What is known of a request nobody has overlapped, at each point of
\* do_request.
AloneAt(t) ==
    /\ ~overrun[t]
    /\ Active(t) => \A u \in Tasks \ {t} : ~Active(u)
    /\ Active(t) /\ pc[t] # "take" => result[t] = "none"
    /\ pc[t] = "clear" => s_rlen = 0 /\ got[t] = 0
    /\ pc[t] \in {"perform", "copy", "advance", "take"} =>
          s_rlen = Least(got[t], Cap) /\ Holds(t, s_rlen)
    /\ pc[t] \in {"copy", "advance"} =>
          chunk[t].copy = Copied(chunk[t].size, s_rlen)
    /\ pc[t] = "advance" => Holds(t, s_rlen + chunk[t].copy)
    /\ pc[t] = "take" /\ result[t] = "ok" => got[t] = reply[t]
    /\ pc[t] = "idle" /\ result[t] = "ok" => Whole(t)

IInv == TypeOK /\ \A t \in Tasks : alone[t] => AloneAt(t)

\* A nonempty set of natural numbers has a least element.
LEMMA LeastElement ==
    ASSUME NEW T \in SUBSET Nat, T # {}
    PROVE  \E k \in T : \A m \in T : k <= m
<1> DEFINE R == OpToRel(<, Nat)
<1>1. IsWellFoundedOn(R, Nat)
  BY NatLessThanWellFounded
<1>2. \A x, y \in Nat : x < y => <<x, y>> \in R
  BY DEF OpToRel
<1> HIDE DEF R
<1>3. \E x \in T : \A y \in T : ~(<<y, x>> \in R)
  BY <1>1, WFMin
<1>4. PICK x \in T : \A y \in T : ~(<<y, x>> \in R)
  BY <1>3
<1>5. \A y \in T : x \in Nat /\ y \in Nat /\ ~(y < x)
  BY <1>2, <1>4
<1>6. \A y \in T : x <= y
  BY <1>5
<1> QED BY <1>6

\* Length finds no NUL among cells that are not NUL, so strndup copies them all.
LEMMA LengthWhole ==
    ASSUME NEW buf, NEW len \in 0..Cap,
           \A k \in 0..(len - 1) : buf[k] # NUL
    PROVE  Length(buf, len) = len
<1>1. Least(len, BufSize) = len
  BY BufAssumption DEF Least, Cap
<1>2. \A n \in 0..len :
         (/\ \A k \in 0..(n - 1) : buf[k] # NUL
          /\ n = len \/ buf[n] = NUL) <=> n = len
  <2> SUFFICES ASSUME NEW n \in 0..len, n # len
               PROVE  buf[n] # NUL
    OBVIOUS
  <2>1. n \in 0..(len - 1)
    BY BufAssumption DEF Cap
  <2> QED BY <2>1
<1>3. len \in 0..len
  BY BufAssumption DEF Cap
<1>4. Length(buf, len) = CHOOSE n \in 0..len : n = len
  BY <1>1, <1>2 DEF Length
<1> QED BY <1>3, <1>4

\* Whatever buffer it reads, strndup returns at most BufSize cells.
LEMMA LengthBounded ==
    ASSUME NEW buf, NEW len \in Nat
    PROVE  Length(buf, len) \in 0..Least(len, BufSize)
<1> DEFINE top == Least(len, BufSize)
           Ends(n) == n = top \/ buf[n] = NUL
           Clear_(n) == \A k \in 0..(n - 1) : buf[k] # NUL
           nuls == {n \in 0..top : Ends(n)}
<1>0. top \in Nat
  BY BufAssumption DEF Least
<1>1. \E n \in nuls : \A m \in nuls : n <= m
  <2>1. nuls \in SUBSET Nat /\ top \in nuls
    BY <1>0
  <2> QED BY <2>1, LeastElement
<1>2. PICK n \in nuls : \A m \in nuls : n <= m
  BY <1>1
<1>3. n \in 0..top /\ Clear_(n) /\ Ends(n)
  <2> SUFFICES ASSUME NEW k \in 0..(n - 1), buf[k] = NUL PROVE FALSE
    OBVIOUS
  <2>1. k \in 0..top /\ k < n
    BY <1>0
  <2>2. k \in nuls
    BY <2>1
  <2> QED BY <1>2, <2>1, <2>2
<1> QED BY <1>3 DEF Length

\* out->body is empty in a request that has not ended.
LEMMA EmptyText == <<>> \in Texts
<1>1. <<>> \in [1..0 -> Cells] /\ 0 \in 0..BufSize
  BY BufAssumption
<1> QED BY <1>1 DEF Texts

\* Every step keeps the state well typed.
LEMMA TypeStep == TypeOK /\ [Next]_vars => TypeOK'
<1> SUFFICES ASSUME TypeOK, [Next]_vars PROVE TypeOK'
  OBVIOUS
<1> USE BufAssumption, TaskAssumption, BoundAssumption DEF TypeOK, Goto, Active
<1>0. NUL \in Cells /\ NoChunk \in [size : 0..MaxChunk, copy : 0..MaxChunk]
  BY DEF NUL, Cells, NoChunk
<1>1. ASSUME NEW t \in Tasks, Request(t) PROVE TypeOK'
  <2>1. body' \in [Tasks -> Texts]
    BY <1>1, EmptyText DEF Request
  <2>2. s_rlen' \in Nat
    BY <1>1 DEF Request, LengthReset
  <2>3. chunk' = chunk /\ chunk[t] = NoChunk
    BY <1>1 DEF Request
  <2>4. reply' \in [Tasks -> 0..MaxReply] /\ got' \in [Tasks -> 0..MaxReply]
    BY <1>1 DEF Request
  <2>5. \A u \in Tasks : /\ pc'[u] \in {"copy", "advance"} \/ chunk'[u] = NoChunk
                         /\ chunk'[u].copy <= chunk'[u].size
                         /\ got'[u] + chunk'[u].size <= reply'[u]
    <3> TAKE u \in Tasks
    <3>1. CASE u = t
      <4>1. got'[t] = 0 /\ reply'[t] \in Nat
        BY <1>1, <2>4 DEF Request
      <4>2. chunk'[t] = NoChunk /\ NoChunk.copy = 0 /\ NoChunk.size = 0
        BY <2>3 DEF NoChunk
      <4> QED BY <3>1, <4>1, <4>2
    <3>2. CASE u # t
      BY <1>1, <2>3, <3>2 DEF Request
    <3> QED BY <3>1, <3>2
  <2>6. /\ pc' \in [Tasks -> {"idle", "clear", "perform", "copy", "advance", "take"}]
        /\ result' \in [Tasks -> {"none", "ok", "fail"}]
        /\ alone' \in [Tasks -> BOOLEAN] /\ overrun' \in [Tasks -> BOOLEAN]
        /\ s_rbuf' \in [0..(BufSize - 1) -> Cells]
        /\ chunk' \in [Tasks -> [size : 0..MaxChunk, copy : 0..MaxChunk]]
    BY <1>1 DEF Request
  <2> QED BY <2>1, <2>2, <2>4, <2>5, <2>6
<1>2. ASSUME NEW t \in Tasks, Clear(t) PROVE TypeOK'
  BY <1>0, <1>2 DEF Clear
<1>9. ASSUME NEW t \in Tasks, NoHandle(t) PROVE TypeOK'
  BY <1>0, <1>9 DEF NoHandle
<1>3. ASSUME NEW t \in Tasks, OnData(t) PROVE TypeOK'
  <2>1. PICK n \in 1..MaxChunk :
           /\ got[t] + n <= reply[t]
           /\ chunk' = [chunk EXCEPT
                           ![t] = [size |-> n, copy |-> Copied(n, s_rlen)]]
    BY <1>3 DEF OnData
  <2>2. Copied(n, s_rlen) \in 0..MaxChunk /\ Copied(n, s_rlen) <= n
    BY DEF Copied, Least
  <2> DEFINE c == [size |-> n, copy |-> Copied(n, s_rlen)]
  <2>3. /\ c \in [size : 0..MaxChunk, copy : 0..MaxChunk]
        /\ c.size = n /\ c.copy <= c.size
    BY <2>2
  <2>4. chunk' = [chunk EXCEPT ![t] = c]
    BY <2>1
  <2> HIDE DEF c
  <2> QED BY <1>3, <2>1, <2>3, <2>4 DEF OnData
<1>4. ASSUME NEW t \in Tasks, CopyIn(t) PROVE TypeOK'
  <2>1. ASSUME NEW k \in 0..(BufSize - 1),
               s_rlen <= k, k < s_rlen + chunk[t].copy
        PROVE  <<t, got[t] + 1 + k - s_rlen>> \in Cells
    BY <2>1 DEF Cells
  <2>2. s_rbuf' \in [0..(BufSize - 1) -> Cells]
    BY <1>4, <2>1 DEF CopyIn
  <2> QED BY <1>4, <2>2 DEF CopyIn
<1>5. ASSUME NEW t \in Tasks, Advance(t) PROVE TypeOK'
  <2>1. NoChunk.copy = 0 /\ NoChunk.size = 0
    BY DEF NoChunk
  <2>2. /\ chunk' = [chunk EXCEPT ![t] = NoChunk]
        /\ got' = [got EXCEPT ![t] = @ + chunk[t].size]
        /\ s_rlen' = s_rlen + chunk[t].copy /\ reply' = reply
        /\ pc' = [pc EXCEPT ![t] = "perform"]
    BY <1>5 DEF Advance
  <2>3. s_rlen' \in Nat /\ got' \in [Tasks -> 0..MaxReply]
    BY <2>2
  <2>4. \A u \in Tasks : /\ pc'[u] \in {"copy", "advance"} \/ chunk'[u] = NoChunk
                         /\ chunk'[u].copy <= chunk'[u].size
                         /\ got'[u] + chunk'[u].size <= reply'[u]
    <3> TAKE u \in Tasks
    <3>1. CASE u = t
      <4>1. chunk'[u] = NoChunk /\ got'[u] = got[t] + chunk[t].size
        BY <2>2, <3>1
      <4>2. got'[u] + 0 <= reply'[u]
        BY <2>2, <3>1, <4>1
      <4> QED BY <2>1, <4>1, <4>2
    <3>2. CASE u # t
      BY <2>2, <3>2
    <3> QED BY <3>1, <3>2
  <2> QED BY <1>0, <1>5, <2>2, <2>3, <2>4 DEF Advance
<1>6. ASSUME NEW t \in Tasks, Finish(t) PROVE TypeOK'
  BY <1>0, <1>6 DEF Finish
<1>7. ASSUME NEW t \in Tasks, Take(t) PROVE TypeOK'
  <2> DEFINE n == Length(s_rbuf, s_rlen)
             text == [k \in 1..n |-> s_rbuf[k - 1]]
  <2>1. n \in 0..Least(s_rlen, BufSize)
    BY LengthBounded
  <2>2. n \in 0..BufSize /\ \A k \in 1..n : k - 1 \in 0..(BufSize - 1)
    BY <2>1 DEF Least
  <2> HIDE DEF n
  <2>3. text \in [1..n -> Cells]
    BY <2>2
  <2>4. text \in Texts
    BY <2>2, <2>3 DEF Texts
  <2>5. body' = [body EXCEPT ![t] = text]
    BY <1>7 DEF Take, n
  <2> HIDE DEF text
  <2>6. body' \in [Tasks -> Texts]
    BY <2>4, <2>5
  <2> QED BY <1>7, <2>6 DEF Take
<1>8. CASE UNCHANGED vars
  BY <1>8 DEF vars
<1> QED BY <1>1, <1>2, <1>3, <1>4, <1>5, <1>6, <1>7, <1>8, <1>9 DEF Next, Step

\* The initial state is well typed.
LEMMA InitType == Init => TypeOK
<1>1. NUL \in Cells
  BY DEF NUL, Cells
<1>2. NoChunk \in [size : 0..MaxChunk, copy : 0..MaxChunk]
  BY BoundAssumption DEF NoChunk
<1> QED BY <1>1, <1>2, EmptyText, BufAssumption, BoundAssumption
        DEF Init, TypeOK, NoChunk

\* s_rlen, s_rbuf and the request of each task are well typed in every reachable
\* state, of a request that writes past the end of the buffer too.
THEOREM TypeCorrect == Spec => []TypeOK
<1> QED BY InitType, TypeStep, PTL DEF Spec

-----------------------------------------------------------------------------
(* Requests that nobody overlaps.                                          *)

\* An answer that was returned stays what it is while other tasks work.
LEMMA IdleKept ==
    ASSUME NEW u \in Tasks, AloneAt(u), ~Active(u),
           pc'[u] = pc[u], result'[u] = result[u], body'[u] = body[u],
           reply'[u] = reply[u], overrun'[u] = overrun[u]
    PROVE  AloneAt(u)'
BY DEF AloneAt, Active, Whole, Reply

\* The bytes of a chunk go behind the bytes received before.
LEMMA CopyInStep ==
    ASSUME TypeOK, NEW t \in Tasks, AloneAt(t), CopyIn(t)
    PROVE  Holds(t, s_rlen)' /\ Holds(t, s_rlen + chunk[t].copy)' /\ ~overrun'[t]
<1> USE BufAssumption DEF TypeOK
<1> DEFINE c == chunk[t].copy
<1>1. /\ s_rlen = Least(got[t], Cap) /\ Holds(t, s_rlen)
      /\ c = Copied(chunk[t].size, s_rlen) /\ ~overrun[t]
  BY DEF AloneAt, CopyIn
<1>2. /\ s_rlen \in 0..Cap /\ c \in Nat /\ s_rlen + c <= Cap
      /\ c > 0 => s_rlen = got[t]
  BY <1>1 DEF Copied, Least, Cap
<1>3. s_rbuf' = [k \in 0..(BufSize - 1) |->
                     IF s_rlen <= k /\ k < s_rlen + c
                     THEN <<t, got[t] + 1 + k - s_rlen>> ELSE s_rbuf[k]]
  BY DEF CopyIn
<1> HIDE DEF c
<1>4. \A k \in 0..(s_rlen + c - 1) : s_rbuf'[k] = <<t, k + 1>>
  <2> TAKE k \in 0..(s_rlen + c - 1)
  <2>0. k \in 0..(BufSize - 1)
    BY <1>2 DEF Cap
  <2>a. s_rbuf'[k] = IF s_rlen <= k /\ k < s_rlen + c
                     THEN <<t, got[t] + 1 + k - s_rlen>> ELSE s_rbuf[k]
    BY <1>3, <2>0
  <2>b. s_rlen \in Nat /\ c \in Nat /\ k \in Nat /\ k < s_rlen + c
    BY <1>2
  <2>1. CASE k < s_rlen
    <3>1. k \in 0..(s_rlen - 1) /\ ~(s_rlen <= k)
      BY <2>b, <2>1
    <3>2. s_rbuf[k] = <<t, k + 1>>
      BY <1>1, <3>1 DEF Holds
    <3> QED BY <2>a, <3>1, <3>2
  <2>2. CASE s_rlen <= k
    <3>1. s_rlen = got[t] /\ got[t] + 1 + k - s_rlen = k + 1
      BY <1>2, <2>0, <2>2
    <3>2. s_rbuf'[k] = <<t, got[t] + 1 + k - s_rlen>>
      BY <2>a, <2>b, <2>2
    <3> QED BY <3>1, <3>2
  <2> QED BY <2>b, <2>1, <2>2
<1>5. s_rlen' = s_rlen /\ chunk' = chunk
  BY DEF CopyIn
<1>6. ~overrun'[t]
  <2>1. ~(s_rlen + c > BufSize)
    BY <1>2 DEF Cap
  <2> QED BY <1>1, <2>1 DEF CopyIn, c
<1>7. \A k \in 0..(s_rlen - 1) : k \in 0..(s_rlen + c - 1)
  BY <1>2
<1> QED BY <1>4, <1>5, <1>6, <1>7 DEF Holds, c

\* A request that ended well returns its whole reply, or as much as fits.
LEMMA TakeStep ==
    ASSUME TypeOK, NEW t \in Tasks, AloneAt(t), Take(t), result[t] = "ok"
    PROVE  Whole(t)'
<1> USE BufAssumption DEF TypeOK
<1>1. /\ s_rlen = Least(got[t], Cap) /\ Holds(t, s_rlen) /\ got[t] = reply[t]
  BY DEF AloneAt, Take
<1>2. s_rlen \in 0..Cap
  BY <1>1 DEF Least, Cap
<1>3. \A k \in 0..(s_rlen - 1) : s_rbuf[k] # NUL
  <2> TAKE k \in 0..(s_rlen - 1)
  <2>1. s_rbuf[k] = <<t, k + 1>> /\ k + 1 # 0
    BY <1>1, <1>2 DEF Holds
  <2> QED BY <2>1 DEF NUL
<1>4. Length(s_rbuf, s_rlen) = s_rlen
  BY <1>2, <1>3, LengthWhole
<1>5. body'[t] = [k \in 1..s_rlen |-> s_rbuf[k - 1]]
  BY <1>4 DEF Take
<1>6. \A k \in 1..s_rlen : s_rbuf[k - 1] = <<t, k>>
  <2> TAKE k \in 1..s_rlen
  <2>1. k - 1 \in 0..(s_rlen - 1) /\ (k - 1) + 1 = k
    BY <1>2
  <2> QED BY <1>1, <2>1 DEF Holds
<1>7. body'[t] = [k \in 1..s_rlen |-> <<t, k>>]
  BY <1>5, <1>6
<1>8. s_rlen = Least(reply'[t], BufSize - 1)
  BY <1>1 DEF Take, Cap
<1> QED BY <1>7, <1>8 DEF Whole, Reply

\* A task's own step keeps what is known of its request.
LEMMA OwnStep ==
    ASSUME TypeOK, NEW t \in Tasks, Step(t), alone'[t],
           alone[t] => AloneAt(t)
    PROVE  AloneAt(t)'
<1> USE BufAssumption DEF TypeOK, Goto, Active
<1>0. Cap \in Nat /\ Least(0, Cap) = 0
  BY DEF Cap, Least
<1>1. CASE Request(t)
  BY <1>1 DEF Request, AloneAt, LengthReset
<1>a. ASSUME ~Request(t) PROVE alone[t] /\ AloneAt(t)
  BY <1>a DEF Step, Clear, NoHandle, OnData, CopyIn, Advance,
             Finish, Take
<1>2. CASE Clear(t)
  <2>1. s_rlen' = 0 /\ got'[t] = 0 /\ pc'[t] = "perform"
    BY <1>a, <1>2 DEF Clear, Request, AloneAt
  <2>2. Holds(t, 0)'
    BY DEF Holds
  <2> QED BY <1>0, <1>a, <1>2, <2>1, <2>2 DEF Clear, Request, AloneAt
<1>8. CASE NoHandle(t)
  BY <1>a, <1>8 DEF NoHandle, Request, AloneAt
<1>3. CASE OnData(t)
  <2>1. /\ pc[t] = "perform" /\ pc'[t] = "copy" /\ s_rlen' = s_rlen
        /\ got' = got /\ s_rbuf' = s_rbuf /\ result' = result
        /\ overrun' = overrun
        /\ chunk'[t].copy = Copied(chunk'[t].size, s_rlen)
    BY <1>3 DEF OnData
  <2> QED BY <1>a, <1>3, <2>1 DEF OnData, Request, AloneAt, Holds, Copied
<1>4. CASE CopyIn(t)
  <2>1. AloneAt(t)
    BY <1>a, <1>4 DEF CopyIn, Request
  <2>2. Holds(t, s_rlen)' /\ Holds(t, s_rlen + chunk[t].copy)' /\ ~overrun'[t]
    BY <1>4, <2>1, CopyInStep
  <2> QED BY <1>4, <2>1, <2>2 DEF CopyIn, AloneAt, Copied
<1>5. CASE Advance(t)
  <2>1. AloneAt(t)
    BY <1>a, <1>5 DEF Advance, Request
  <2>2. /\ s_rlen = Least(got[t], Cap)
        /\ chunk[t].copy = Copied(chunk[t].size, s_rlen)
        /\ Holds(t, s_rlen + chunk[t].copy)
    BY <1>5, <2>1 DEF Advance, AloneAt
  <2>3. /\ s_rlen' = s_rlen + chunk[t].copy /\ s_rbuf' = s_rbuf
        /\ got'[t] = got[t] + chunk[t].size
    BY <1>5 DEF Advance
  <2>4. s_rlen' = Least(got'[t], Cap)
    BY <1>5, <2>2, <2>3 DEF Advance, Least, Copied, Cap
  <2>5. Holds(t, s_rlen)'
    BY <2>2, <2>3 DEF Holds
  <2> QED BY <1>5, <2>1, <2>4, <2>5 DEF Advance, AloneAt
<1>6. CASE Finish(t)
  <2>1. AloneAt(t)
    BY <1>a, <1>6 DEF Finish, Request
  <2>2. s_rlen = Least(got[t], Cap) /\ Holds(t, s_rlen) /\ ~overrun[t]
    BY <1>6, <2>1 DEF Finish, AloneAt
  <2>3. s_rlen \in 0..Cap /\ ~(s_rlen >= BufSize)
    BY <2>2 DEF Least, Cap
  <2>4. \A k \in 0..(s_rlen - 1) : s_rbuf'[k] = s_rbuf[k]
    BY <1>6, <2>3 DEF Finish, Cap
  <2>5. Holds(t, s_rlen)' /\ s_rlen' = s_rlen /\ got' = got
    BY <1>6, <2>2, <2>4 DEF Holds, Finish
  <2>6. ~overrun'[t] /\ (result'[t] = "ok" => got'[t] = reply'[t])
    BY <1>6, <2>2, <2>3 DEF Finish
  <2> QED BY <1>6, <2>1, <2>2, <2>5, <2>6 DEF Finish, AloneAt
<1>7. CASE Take(t)
  <2>1. AloneAt(t)
    BY <1>a, <1>7 DEF Take, Request
  <2>2. result[t] = "ok" => Whole(t)'
    BY <1>7, <2>1, TakeStep
  <2> QED BY <1>7, <2>1, <2>2 DEF Take, AloneAt
<1> QED BY <1>1, <1>2, <1>3, <1>4, <1>5, <1>6, <1>7, <1>8 DEF Step

\* Every step keeps what is known of every request nobody overlapped.
LEMMA AloneStep ==
    ASSUME TypeOK, \A u \in Tasks : alone[u] => AloneAt(u), [Next]_vars
    PROVE  \A u \in Tasks : alone'[u] => AloneAt(u)'
<1> USE DEF TypeOK, Goto, Active
<1>1. ASSUME NEW t \in Tasks, Step(t), NEW u \in Tasks, alone'[u]
      PROVE  AloneAt(u)'
  <2>1. CASE u = t
    BY <1>1, <2>1, OwnStep
  <2>2. CASE u # t
    <3>1. alone[u] /\ AloneAt(u)
      BY <1>1, <2>2 DEF Step, Request, Clear, NoHandle, OnData, CopyIn, Advance,
             Finish, Take
    <3>2. ~Active(u)
      <4>1. CASE Request(t)
        BY <1>1, <2>2, <4>1 DEF Request
      <4>2. CASE ~Request(t)
        <5>1. Active(t)
          BY <1>1, <4>2 DEF Step, Clear, NoHandle, OnData, CopyIn, Advance,
             Finish, Take
        <5> QED BY <2>2, <3>1, <5>1 DEF AloneAt
      <4> QED BY <4>1, <4>2
    <3>3. /\ pc'[u] = pc[u] /\ result'[u] = result[u] /\ body'[u] = body[u]
          /\ reply'[u] = reply[u] /\ overrun'[u] = overrun[u]
      BY <1>1, <2>2 DEF Step, Request, Clear, NoHandle, OnData, CopyIn, Advance,
             Finish, Take
    <3> QED BY <3>1, <3>2, <3>3, IdleKept
  <2> QED BY <2>1, <2>2
<1>2. CASE UNCHANGED vars
  BY <1>2 DEF vars, AloneAt, Holds, Whole, Reply, Least, Copied
<1> QED BY <1>1, <1>2 DEF Next

\* IInv holds of every reachable state.
LEMMA IInvInvariant == Spec => []IInv
<1>1. Init => IInv
  <2>1. Init => TypeOK
    BY InitType
  <2> QED BY <2>1 DEF Init, IInv
<1>2. IInv /\ [Next]_vars => IInv'
  BY TypeStep, AloneStep DEF IInv
<1> QED BY <1>1, <1>2, PTL DEF Spec

\* A request that no other overlaps gets its own reply, cut to the buffer: what
\* do_request shares between tasks is harmless until two of them are in it.
THEOREM OwnReplyAloneHolds == Spec => []OwnReplyAlone
<1>1. IInv => OwnReplyAlone
  BY DEF IInv, OwnReplyAlone, AloneAt, Answered
<1> QED BY <1>1, IInvInvariant, PTL

\* A request that no other overlaps stays within s_rbuf, whatever the length of
\* the reply and of its chunks.
THEOREM InBoundsAloneHolds == Spec => []InBoundsAlone
<1>1. IInv => InBoundsAlone
  BY DEF IInv, InBoundsAlone, AloneAt
<1> QED BY <1>1, IInvInvariant, PTL
=============================================================================
