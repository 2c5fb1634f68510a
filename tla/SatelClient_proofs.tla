------------------------- MODULE SatelClient_proofs -------------------------
(* Theorems about SatelClient, for every value of its constants.           *)
EXTENDS SatelClient, SequenceTheorems, WellFoundedInduction, TLAPS

-----------------------------------------------------------------------------
(* Lemmas about the parser's operators.                                    *)

\* A nonempty set of natural numbers has a least element.
LEMMA LeastElement ==
    ASSUME NEW T \in SUBSET Nat, T # {}
    PROVE  \E k \in T : \A m \in T : k <= m
<1> DEFINE R == OpToRel(<, Nat)
<1>1. IsWellFoundedOn(R, Nat)
  BY NatLessThanWellFounded
<1>2. \A x, y \in Nat : x < y => <<x, y>> \in R
  BY DEF OpToRel
<1> HIDE DEF R
<1>3. \E x \in T : \A y \in T : ~(<<y, x>> \in R)
  BY <1>1, WFMin
<1>4. PICK x \in T : \A y \in T : ~(<<y, x>> \in R)
  BY <1>3
<1>5. \A y \in T : x \in Nat /\ y \in Nat /\ ~(y < x)
  BY <1>2, <1>4
<1>6. \A y \in T : x <= y
  BY <1>5
<1> QED BY <1>6

\* The first tail of a buffer that holds one is an index of the buffer.
LEMMA FirstTailIndex ==
    ASSUME NEW buf \in Seq(Fragment), Tails(buf) # {}
    PROVE  /\ FirstTail(buf) \in Tails(buf)
           /\ FirstTail(buf) \in 1..Len(buf)
<1>1. Tails(buf) \in SUBSET Nat
  BY LenProperties DEF Tails
<1>2. \E k \in Tails(buf) : \A m \in Tails(buf) : k <= m
  BY <1>1, LeastElement
<1>3. FirstTail(buf) \in Tails(buf)
  BY <1>2 DEF FirstTail
<1> QED BY <1>3 DEF Tails

\* What recv_frame leaves behind a prefix of the buffer.
LEMMA AfterProperties ==
    ASSUME NEW S, NEW s \in Seq(S), NEW k \in 0..Len(s)
    PROVE  /\ After(s, k) \in Seq(S)
           /\ Len(After(s, k)) = Len(s) - k
           /\ \A j \in 1..(Len(s) - k) : After(s, k)[j] = s[j + k]
<1>1. Len(s) \in Nat
  BY LenProperties
<1>2. \A j \in (k + 1)..Len(s) : s[j] \in S
  BY <1>1, ElementOfSeq
<1> QED BY <1>1, <1>2, SubSeqProperties, SMTT(30) DEF After

\* What the parser leaves unconsumed is a stretch of the buffer it was given,
\* and what it consumes ends in a tail.
LEMMA UnconsumedProperties ==
    ASSUME NEW buf \in Seq(Fragment)
    PROVE  /\ Unconsumed(buf) \in Seq(Fragment)
           /\ Len(Unconsumed(buf)) <= Len(buf)
           /\ \E k \in 0..Len(buf) :
                 /\ Len(Unconsumed(buf)) = Len(buf) - k
                 /\ \A j \in 1..(Len(buf) - k) : Unconsumed(buf)[j] = buf[j + k]
                 /\ ParseResult(buf) = "OK" => k = 2
                 /\ k > 0 => buf[k].half = "tail"
<1>1. Len(buf) \in Nat
  BY LenProperties
<1>2. CASE ParseResult(buf) \in {"OK", "CRC_FAIL"}
  <2>1. Tails(buf) # {}
    BY <1>2 DEF ParseResult
  <2>2. FirstTail(buf) \in 1..Len(buf) /\ buf[FirstTail(buf)].half = "tail"
    BY <2>1, FirstTailIndex DEF Tails
  <2>3. ParseResult(buf) = "OK" => FirstTail(buf) = 2
    BY <2>1 DEF ParseResult, WholeFrame
  <2>4. Unconsumed(buf) = After(buf, FirstTail(buf))
    BY <1>2 DEF Unconsumed
  <2>5. FirstTail(buf) \in 0..Len(buf)
    BY <1>1, <2>2
  <2>6. /\ After(buf, FirstTail(buf)) \in Seq(Fragment)
        /\ Len(After(buf, FirstTail(buf))) = Len(buf) - FirstTail(buf)
        /\ \A j \in 1..(Len(buf) - FirstTail(buf)) :
              After(buf, FirstTail(buf))[j] = buf[j + FirstTail(buf)]
    BY <2>5, AfterProperties
  <2> DEFINE k == FirstTail(buf)
  <2>7. /\ Len(Unconsumed(buf)) = Len(buf) - k
        /\ \A j \in 1..(Len(buf) - k) : Unconsumed(buf)[j] = buf[j + k]
        /\ ParseResult(buf) = "OK" => k = 2
        /\ Unconsumed(buf) \in Seq(Fragment)
        /\ buf[k].half = "tail"
    BY <2>2, <2>3, <2>4, <2>6
  <2>8. k \in 0..Len(buf)
    BY <2>5
  <2> HIDE DEF k
  <2>9. Len(Unconsumed(buf)) <= Len(buf)
    BY <1>1, <2>7, <2>8
  <2> QED BY <2>7, <2>8, <2>9
<1>3. CASE ParseResult(buf) \notin {"OK", "CRC_FAIL"}
  <2>1. Unconsumed(buf) = buf
    BY <1>3 DEF Unconsumed
  <2> DEFINE k == 0
  <2>2. /\ Len(Unconsumed(buf)) = Len(buf) - k
        /\ \A j \in 1..(Len(buf) - k) : Unconsumed(buf)[j] = buf[j + k]
        /\ k \in 0..Len(buf)
        /\ Len(Unconsumed(buf)) <= Len(buf)
    BY <1>1, <2>1
  <2>3. (ParseResult(buf) = "OK" => k = 2) /\ ~(k > 0)
    BY <1>3
  <2> HIDE DEF k
  <2> QED BY <2>1, <2>2, <2>3
<1> QED BY <1>2, <1>3

\* A frame that is returned is the first of the buffer, cut in two or not.
LEMMA ParsedFrame ==
    ASSUME NEW buf \in Seq(Fragment), ParseResult(buf) = "OK"
    PROVE  /\ 2 \in 1..Len(buf)
           /\ buf[1].of = buf[2].of
           /\ buf[1].of \in Reply
<1>1. Tails(buf) # {}
  BY DEF ParseResult
<1>2. WholeFrame(buf, FirstTail(buf))
  BY <1>1 DEF ParseResult
<1>3. FirstTail(buf) = 2 /\ 2 \in 1..Len(buf)
  BY <1>1, <1>2, FirstTailIndex DEF WholeFrame
<1>4. buf[2] \in Fragment
  BY <1>3, ElementOfSeq
<1>5. buf[1].of = buf[2].of
  BY <1>2, <1>3 DEF WholeFrame
<1> QED BY <1>3, <1>4, <1>5 DEF Fragment

-----------------------------------------------------------------------------
(* Type correctness.                                                       *)

\* The reply the panel makes to a request is well formed.
LEMMA AnswerType ==
    ASSUME TypeOK, NEW cmd \in Registers \cup {Ack}
    PROVE  /\ Answer(cmd) \in Reply
           /\ \A h \in {"head", "tail"} :
                 /\ Half(h, Answer(cmd)) \in Seq(Fragment)
                 /\ Len(Half(h, Answer(cmd))) = 1
                 /\ Half(h, Answer(cmd))[1] = [half |-> h, of |-> Answer(cmd)]
<1>1. Answer(cmd) \in Reply
  BY DEF TypeOK, Answer, NoReply, Reply
<1> QED BY <1>1 DEF Half, Fragment

\* recv fills the buffer at most and leaves the rest in the socket.
LEMMA RecvDataType ==
    ASSUME TypeOK, RecvData
    PROVE  TypeOK'
<1> DEFINE room == BufMax - Len(rbuf)
           n == IF Len(arrived) < room THEN Len(arrived) ELSE room
           new == SubSeq(arrived, 1, n)
           buf == Appended(rbuf, new)
<1>1. /\ Len(rbuf) \in Nat /\ Len(arrived) \in Nat /\ BufMax \in Nat
      /\ Len(rbuf) < BufMax
  BY LenProperties, BufferAssumption DEF TypeOK, RecvData
<1>2. n \in 0..Len(arrived) /\ n <= BufMax - Len(rbuf)
  BY <1>1
<1>3. arrived' = After(arrived, n) /\ rbuf' = Unconsumed(buf)
  BY DEF RecvData, Untaken
<1>4. \/ ParseResult(buf) = "OK" /\ frame' = buf[1].of
      \/ frame' = frame
  BY DEF RecvData
<1>5. \A j \in 1..n : arrived[j] \in Fragment
  BY <1>1, <1>2, ElementOfSeq DEF TypeOK
<1> HIDE DEF n
<1>6. new \in Seq(Fragment) /\ Len(new) = n
  BY <1>1, <1>2, <1>5, SubSeqProperties
<1>7. buf \in Seq(Fragment) /\ Len(buf) = Len(rbuf) + n
  BY <1>6, ConcatProperties DEF TypeOK, Appended
<1> HIDE DEF buf
<1>8. rbuf' \in Seq(Fragment) /\ Len(rbuf') <= BufMax
  <2>1. rbuf' \in Seq(Fragment) /\ Len(rbuf') <= Len(buf) /\ Len(rbuf') \in Nat
    BY <1>3, <1>7, UnconsumedProperties, LenProperties
  <2> QED BY <1>1, <1>2, <1>7, <2>1
<1>9. arrived' \in Seq(Fragment)
  BY <1>2, <1>3, AfterProperties DEF TypeOK
<1>10. frame' \in Reply
  BY <1>4, <1>7, ParsedFrame DEF TypeOK
<1>11. pc' \in PCs /\ first' \in BOOLEAN
  BY DEF RecvData, PollFailed, Goto, PCs, TypeOK
<1> QED BY <1>8, <1>9, <1>10, <1>11 DEF RecvData, TypeOK, task, link, used

\* A queue of the link that was just emptied is well typed.
LEMMA EmptiedQueue ==
    ASSUME NEW s, s = <<>>
    PROVE  /\ s \in Seq(Fragment) /\ Len(s) = 0 /\ Len(s) <= 1
           /\ s \in Seq(Registers \cup {Ack})
BY EmptySeq

\* Every step keeps the state well typed.
LEMMA TypeStep ==
    ASSUME TypeOK, [Next]_vars
    PROVE  TypeOK'
<1> USE BufferAssumption, BoundAssumption, PollAssumption, WatchedAssumption
<1> USE DEF TypeOK, task, link, used, Goto, PCs, States
<1>1. CASE RecvData
  BY <1>1, RecvDataType
<1>2. CASE Begin
  BY <1>2 DEF Begin
<1>3. CASE Connected
  BY <1>3 DEF Connected, TcpConnect
<1>4. CASE ConnectRefused
  BY <1>4 DEF ConnectRefused, CountReconnect
<1>5. CASE Backoff
  BY <1>5 DEF Backoff
<1>6. CASE SendPoll
  <2>1. PollCmds[i] \in Registers
    BY DEF Registers
  <2>2. reqs' \in Seq(Registers \cup {Ack})
    <3>1. PollCmds[i] \in Registers \cup {Ack}
      BY <2>1
    <3>2. Append(reqs, PollCmds[i]) \in Seq(Registers \cup {Ack})
      BY <3>1, AppendProperties
    <3> QED BY <1>6, <3>2 DEF SendPoll
  <2>3. pc' \in PCs /\ first' \in BOOLEAN
    BY <1>6 DEF SendPoll, PollFailed
  <2> QED BY <1>6, <2>2, <2>3 DEF SendPoll
<1>7. CASE RecvNothing
  BY <1>7 DEF RecvNothing, PollFailed
<1>8. CASE RecvTimeout
  <2>1. pc' \in PCs /\ first' \in BOOLEAN
    BY <1>8 DEF RecvTimeout, PollFailed
  <2>2. faults' \in 0..MaxFaults
    BY <1>8 DEF RecvTimeout
  <2> QED BY <1>8, <2>1, <2>2 DEF RecvTimeout
<1>9. CASE TakeMutex
  BY <1>9 DEF TakeMutex
<1>10. CASE ApplyFrame
  <2>1. frame.val \in SUBSET Lines /\ frame.at \in Nat
    BY DEF Reply
  <2>2. s_panel' \in [Registers -> [val : SUBSET Lines, at : Nat]]
    BY <1>10, <2>1 DEF ApplyFrame
  <2> QED BY <1>10, <2>2 DEF ApplyFrame
<1>11. CASE NextCmd
  <2>1. /\ pc' \in PCs /\ i' \in 1..Len(PollCmds)
        /\ cursor' \in 1..(Len(Watched) + 1)
    BY <1>11, LenProperties DEF NextCmd, MorePolls, FirstLine
  <2> QED BY <1>11, <2>1 DEF NextCmd
<1>12. CASE NotifyLine
  <2>1. cursor' \in 1..(Len(Watched) + 1)
    BY <1>12, LenProperties DEF NotifyLine
  <2>2. Bit(s_panel, cursor) \in BOOLEAN
    BY DEF Bit
  <2>3. told' \in [1..Len(Watched) -> BOOLEAN]
    BY <1>12, <2>2 DEF NotifyLine
  <2> QED BY <1>12, <2>1, <2>3 DEF NotifyLine
<1>13. CASE NotifyDone
  BY <1>13 DEF NotifyDone, SavePrev
<1>14. CASE Sleep
  BY <1>14 DEF Sleep
<1>15. CASE Loop
  BY <1>15 DEF Loop
<1>16. CASE FlushOne
  BY <1>16 DEF FlushOne
<1>17. CASE FlushDone
  BY <1>17 DEF FlushDone
<1>18. CASE Lost
  <2>1. s_reconnects' \in 0..MaxReconnects
    BY <1>18 DEF Lost, CountReconnect
  <2>2. pc' \in PCs /\ s_state' \in States
    BY <1>18 DEF Lost
  <2>3. /\ up' \in BOOLEAN /\ reqs' \in Seq(Registers \cup {Ack})
        /\ due' \in Seq(Fragment) /\ Len(due') <= 1
        /\ arrived' \in Seq(Fragment)
    <3>1. /\ up' = FALSE /\ reqs' = <<>> /\ due' = <<>> /\ arrived' = <<>>
      BY <1>18 DEF Lost
    <3> QED BY <3>1, EmptiedQueue
  <2> QED BY <1>18, <2>1, <2>2, <2>3 DEF Lost
<1>19. CASE EnqueueCmd
  BY <1>19 DEF EnqueueCmd
<1>20. CASE ClientStop
  <2>1. stops' \in 0..MaxStops /\ cut' \in BOOLEAN /\ pc' \in PCs
    BY <1>20 DEF ClientStop
  <2>2. /\ up' \in BOOLEAN /\ reqs' \in Seq(Registers \cup {Ack})
        /\ due' \in Seq(Fragment) /\ Len(due') <= 1
        /\ arrived' \in Seq(Fragment)
    <3>1. /\ up' = FALSE /\ reqs' = <<>> /\ due' = <<>> /\ arrived' = <<>>
      BY <1>20 DEF ClientStop
    <3> QED BY <3>1, EmptiedQueue
  <2> QED BY <1>20, <2>1, <2>2 DEF ClientStop
<1>21. CASE ClientStart
  BY <1>21 DEF ClientStart
<1>22. CASE AnswerWhole
  <2>1. Head(reqs) \in Registers \cup {Ack} /\ Tail(reqs) \in Seq(Registers \cup {Ack})
    BY <1>22, HeadTailProperties DEF AnswerWhole
  <2>2. \A h \in {"head", "tail"} :
           /\ Half(h, Answer(Head(reqs))) \in Seq(Fragment)
           /\ Len(Half(h, Answer(Head(reqs)))) = 1
    BY <2>1, AnswerType
  <2>3. arrived' \in Seq(Fragment)
    BY <1>22, <2>2, ConcatProperties DEF AnswerWhole
  <2> QED BY <1>22, <2>1, <2>3 DEF AnswerWhole
<1>23. CASE AnswerSplit
  <2>1. Head(reqs) \in Registers \cup {Ack} /\ Tail(reqs) \in Seq(Registers \cup {Ack})
    BY <1>23, HeadTailProperties DEF AnswerSplit
  <2>2. \A h \in {"head", "tail"} :
           /\ Half(h, Answer(Head(reqs))) \in Seq(Fragment)
           /\ Len(Half(h, Answer(Head(reqs)))) = 1
    BY <2>1, AnswerType
  <2>3. arrived' \in Seq(Fragment)
    BY <1>23, <2>2, ConcatProperties DEF AnswerSplit
  <2>4. due' \in Seq(Fragment) /\ Len(due') <= 1
    <3>1. due' = Half("tail", Answer(Head(reqs)))
      BY <1>23 DEF AnswerSplit
    <3>2. /\ Half("tail", Answer(Head(reqs))) \in Seq(Fragment)
          /\ Len(Half("tail", Answer(Head(reqs)))) = 1
      BY <2>2
    <3> HIDE DEF TypeOK
    <3>3. due' \in Seq(Fragment)
      BY <3>1, <3>2
    <3>4. Len(due') = 1
      BY <3>1, <3>2
    <3> QED BY <3>3, <3>4
  <2>5. splits' \in 0..MaxSplits
    BY <1>23 DEF AnswerSplit
  <2> QED BY <1>23, <2>1, <2>3, <2>4, <2>5 DEF AnswerSplit
<1>24. CASE DeliverTail
  BY <1>24 DEF DeliverTail
<1>25. CASE PanelChange
  BY <1>25 DEF PanelChange
<1>26. CASE LinkBreak
  <2>1. PICK n \in 0..Len(arrived) : arrived' = SubSeq(arrived, 1, n)
    BY <1>26 DEF LinkBreak
  <2>2. arrived' \in Seq(Fragment)
    BY <2>1, LenProperties, ElementOfSeq, SubSeqProperties
  <2>3. faults' \in 0..MaxFaults
    BY <1>26 DEF LinkBreak
  <2>4. /\ up' \in BOOLEAN /\ reqs' \in Seq(Registers \cup {Ack})
        /\ due' \in Seq(Fragment) /\ Len(due') <= 1
    <3>1. /\ up' = FALSE /\ reqs' = <<>> /\ due' = <<>>
      BY <1>26 DEF LinkBreak
    <3> QED BY <3>1, EmptiedQueue
  <2> QED BY <1>26, <2>2, <2>3, <2>4 DEF LinkBreak
<1>27. CASE UNCHANGED vars
  BY <1>27 DEF vars
<1> QED
  BY <1>1, <1>2, <1>3, <1>4, <1>5, <1>6, <1>7, <1>8, <1>9, <1>10, <1>11, <1>12, <1>13, <1>14, <1>15, <1>16, <1>17, <1>18, <1>19, <1>20, <1>21, <1>22, <1>23, <1>24, <1>25, <1>26, <1>27
     DEF Next, TaskStep, Callers, PanelReplies

\* Every reachable state is well typed: the receive buffer never overflows,
\* the indices of the poll and of notify_changes stay in range, and no slot
\* of the command queue is used that does not exist.
THEOREM TypeCorrect == Spec => []TypeOK
<1>1. Init => TypeOK
  <2> SUFFICES ASSUME Init PROVE TypeOK
    OBVIOUS
  <2>1. /\ s_panel \in [Registers -> [val : SUBSET Lines, at : Nat]]
        /\ s_prev = s_panel
        /\ truth \in [Registers -> [val : SUBSET Lines, at : Nat]]
    BY DEF Init
  <2>2. 1 \in 1..Len(PollCmds) /\ 1 \in 1..(Len(Watched) + 1)
    BY PollAssumption, WatchedAssumption, LenProperties
  <2>3. frame \in Reply
    BY DEF Init, NoReply, Reply
  <2>4. /\ rbuf \in Seq(Fragment) /\ Len(rbuf) = 0
        /\ due \in Seq(Fragment) /\ Len(due) = 0
        /\ arrived \in Seq(Fragment)
        /\ reqs \in Seq(Registers \cup {Ack})
    BY DEF Init
  <2>5. told \in [1..Len(Watched) -> BOOLEAN]
    BY DEF Init
  <2>6. /\ pc \in PCs /\ s_state \in States /\ s_mutex \in BOOLEAN
        /\ first \in BOOLEAN /\ up \in BOOLEAN /\ i = 1 /\ cursor = 1
        /\ cut \in BOOLEAN
    BY DEF Init, PCs, States
  <2>7. /\ s_reconnects \in 0..MaxReconnects /\ queued \in 0..(QueueCap - 1)
        /\ faults \in 0..MaxFaults /\ splits \in 0..MaxSplits
        /\ changes \in 0..MaxChanges /\ cmds \in 0..MaxCmds
        /\ stops \in 0..MaxStops /\ BufMax >= 0
    BY BufferAssumption, BoundAssumption DEF Init
  <2> QED BY <2>1, <2>2, <2>3, <2>4, <2>5, <2>6, <2>7 DEF TypeOK
<1>2. TypeOK /\ [Next]_vars => TypeOK'
  BY TypeStep
<1> QED BY <1>1, <1>2, PTL DEF Spec

-----------------------------------------------------------------------------
(* What the application has been told.                                     *)

\* ToldMatchesPrev is inductive.
LEMMA ToldStep ==
    ASSUME TypeOK, ToldMatchesPrev, [Next]_vars
    PROVE  ToldMatchesPrev'
<1> USE DEF ToldMatchesPrev, Goto
<1>1. CASE \/ UNCHANGED <<pc, cursor, told, s_prev, s_panel, cut>>
           \/ UNCHANGED <<told, s_prev, cut>> /\ pc # "notify" /\ pc' # "notify"
  BY <1>1 DEF Bit
<1>2. CASE NextCmd
  <2>1. \/ pc' = "send"
        \/ pc' = "notify" /\ cursor' = 1
    BY <1>2 DEF NextCmd, FirstLine
  <2>2. pc # "notify" /\ UNCHANGED <<told, s_prev, cut>>
    BY <1>2 DEF NextCmd, used
  <2>3. \A k \in 1..Len(Watched) : ~(k < 1)
    OBVIOUS
  <2> QED BY <2>1, <2>2, <2>3 DEF Bit
<1>3. CASE NotifyLine
  <2> SUFFICES ASSUME ~cut' PROVE ToldMatchesPrev'
    OBVIOUS
  <2>0. ~cut
    BY <1>3 DEF NotifyLine, used
  <2>1. /\ pc = "notify" /\ pc' = "notify" /\ UNCHANGED <<s_panel, s_prev>>
        /\ cursor \in 1..Len(Watched) /\ cursor' = cursor + 1
    BY <1>3, WatchedAssumption, LenProperties DEF NotifyLine, TypeOK
  <2>2. Bit(s_panel, cursor) \in BOOLEAN /\ Bit(s_prev, cursor) \in BOOLEAN
    BY DEF Bit
  <2>3. told[cursor] = Bit(s_prev, cursor)
    BY <2>0, <2>1
  <2>4. told'[cursor] = Bit(s_panel, cursor)
    BY <1>3, <2>1, <2>2, <2>3 DEF NotifyLine, TypeOK
  <2>5. \A k \in 1..Len(Watched) : k # cursor => told'[k] = told[k]
    BY <1>3, <2>1 DEF NotifyLine, TypeOK
  <2>6. \A k \in 1..Len(Watched) :
           /\ Bit(s_panel, k)' = Bit(s_panel, k)
           /\ Bit(s_prev, k)' = Bit(s_prev, k)
    BY <2>1 DEF Bit
  <2>7. \A k \in 1..Len(Watched) :
           k < cursor' <=> k < cursor \/ k = cursor
    BY <2>1
  <2>8. SUFFICES ASSUME NEW k \in 1..Len(Watched)
                 PROVE  told'[k] = IF k < cursor' THEN Bit(s_panel, k)
                                   ELSE Bit(s_prev, k)
    BY <2>1, <2>6
  <2>9. CASE k = cursor
    BY <2>4, <2>7, <2>9
  <2>10. CASE k # cursor
    BY <2>0, <2>1, <2>5, <2>7, <2>10
  <2> QED BY <2>9, <2>10
<1>4. CASE NotifyDone
  <2> SUFFICES ASSUME ~cut' PROVE ToldMatchesPrev'
    OBVIOUS
  <2>0. ~cut
    BY <1>4 DEF NotifyDone, used
  <2>1. /\ pc = "notify" /\ pc' \in {"loop", "sleep"}
        /\ s_prev' = s_panel /\ told' = told
    BY <1>4 DEF NotifyDone, SavePrev
  <2>2. \A k \in 1..Len(Watched) : k < cursor
    BY <1>4, WatchedAssumption, LenProperties DEF NotifyDone, TypeOK
  <2>3. \A k \in 1..Len(Watched) : told[k] = Bit(s_panel, k)
    BY <2>0, <2>1, <2>2
  <2> QED BY <2>1, <2>3 DEF Bit
<1>5. CASE ClientStop
  <2> SUFFICES ASSUME ~cut' PROVE ToldMatchesPrev'
    OBVIOUS
  <2>1. ~cut /\ ~(pc = "notify" /\ cursor > 1)
    BY <1>5 DEF ClientStop
  <2>2. UNCHANGED <<told, s_prev>> /\ pc' = "stopped"
    BY <1>5 DEF ClientStop
  <2>3. \A k \in 1..Len(Watched) : ~(pc = "notify" /\ k < cursor)
    BY <2>1 DEF TypeOK
  <2> QED BY <2>1, <2>2, <2>3 DEF Bit
<1>6. CASE (TaskStep /\ ~NextCmd /\ ~NotifyLine /\ ~NotifyDone) \/ ClientStart
  <2>1. UNCHANGED <<told, s_prev, cut>> /\ pc # "notify"
        /\ (FlushOne \/ pc' # "notify")
    BY <1>6 DEF TaskStep, task, used, PollFailed, Begin, Connected, TcpConnect,
       ConnectRefused, Backoff, SendPoll, RecvData, RecvNothing, RecvTimeout,
       TakeMutex, ApplyFrame, Sleep, Loop, FlushOne, FlushDone, Lost, ClientStart
  <2>2. FlushOne => UNCHANGED <<pc, cursor, s_panel>>
    BY DEF FlushOne, task
  <2> QED BY <1>1, <2>1, <2>2
<1>7. CASE \/ EnqueueCmd \/ PanelReplies \/ PanelChange \/ LinkBreak
           \/ UNCHANGED vars
  BY <1>1, <1>7 DEF EnqueueCmd, PanelReplies, AnswerWhole, AnswerSplit,
     DeliverTail, PanelChange, LinkBreak, vars, task, used
<1> QED
  BY <1>2, <1>3, <1>4, <1>5, <1>6, <1>7 DEF Next, Callers

\* The application has been told exactly what s_prev (and, during
\* notify_changes, s_panel) says, whatever polls failed, however often the
\* connection was lost, and wherever satel_client_stop deleted the task but
\* between two callbacks.
THEOREM ToldMatchesPrevHolds == Spec => []ToldMatchesPrev
<1>1. Init => ToldMatchesPrev
  <2> SUFFICES ASSUME Init PROVE ToldMatchesPrev
    OBVIOUS
  <2>1. \A k \in 1..Len(Watched) : Bit(s_prev, k) = FALSE
    <3> SUFFICES ASSUME NEW k \in 1..Len(Watched) PROVE Bit(s_prev, k) = FALSE
      OBVIOUS
    <3>1. Watched[k] \in Registers \X Lines
      BY WatchedAssumption, ElementOfSeq
    <3>2. s_prev[Watched[k][1]].val = {}
      BY <3>1 DEF Init
    <3> QED BY <3>2 DEF Bit
  <2> QED BY <2>1 DEF Init, ToldMatchesPrev
<1>2. TypeOK /\ ToldMatchesPrev /\ [Next]_vars => ToldMatchesPrev'
  BY ToldStep
<1> QED BY <1>1, <1>2, TypeCorrect, PTL DEF Spec

\* No callback repeats the value it last gave for its line, unless the task was
\* deleted between two callbacks: zone events alternate.
THEOREM EdgesAlternateHolds == Spec => EdgesAlternate
<1> DEFINE Alternates ==
      \A k \in 1..Len(Watched) : ~cut /\ CallsBack(k) => told'[k] # told[k]
<1>1. TypeOK /\ ToldMatchesPrev /\ [Next]_vars => Alternates
  <2> SUFFICES ASSUME TypeOK, ToldMatchesPrev, [Next]_vars,
                      NEW k \in 1..Len(Watched), ~cut, CallsBack(k)
               PROVE  told'[k] # told[k]
    OBVIOUS
  <2>1. NotifyLine
    BY DEF CallsBack, Next, TaskStep, Callers, PanelReplies, vars, task, Goto,
       Begin, Connected, TcpConnect, ConnectRefused, Backoff, SendPoll, RecvData,
       RecvNothing, RecvTimeout, TakeMutex, ApplyFrame, NextCmd, NotifyDone,
       Sleep, Loop, FlushOne, FlushDone, Lost, EnqueueCmd, ClientStop,
       ClientStart, AnswerWhole, AnswerSplit, DeliverTail, PanelChange,
       LinkBreak, TypeOK
  <2>2. told[k] = Bit(s_prev, k)
    BY DEF CallsBack, ToldMatchesPrev, TypeOK
  <2>3. told'[k] = Bit(s_panel, k) /\ Bit(s_panel, k) # Bit(s_prev, k)
    BY <2>1 DEF CallsBack, NotifyLine, TypeOK
  <2> QED BY <2>2, <2>3
<1>2. TypeOK /\ ToldMatchesPrev /\ [Next]_vars => [Alternates]_vars
  BY <1>1
<1> QED BY <1>2, TypeCorrect, ToldMatchesPrevHolds, PTL DEF Spec, EdgesAlternate

-----------------------------------------------------------------------------
(* The order of the stamps, from the panel's registers to s_panel.         *)

\* Everything on its way to the parser, in the order it will be parsed.
Stream == (rbuf \o arrived) \o due

Older(x, y) == x.cmd \in Registers /\ x.cmd = y.cmd => x.at <= y.at
InOrder(s) ==
    \A p, q \in 1..Len(s) : p <= q => Older(s[p].of, s[q].of)
NoOlderThan(s, panel) ==
    \A p \in 1..Len(s) :
        s[p].of.cmd \in Registers => panel[s[p].of.cmd].at <= s[p].of.at
NoNewerThan(s, panel) ==
    \A p \in 1..Len(s) :
        s[p].of.cmd \in Registers => s[p].of.at <= panel[s[p].of.cmd].at
FrameBefore(f, s) == \A p \in 1..Len(s) : Older(f, s[p].of)

\* The stream is sorted by stamp for every register, no older than s_panel and
\* no newer than the panel; a frame about to be applied comes before it.
StreamOrder ==
    /\ InOrder(Stream)
    /\ NoOlderThan(Stream, s_panel)
    /\ NoNewerThan(Stream, truth)
FrameOrder ==
    pc \in {"take", "apply"} =>
        /\ FrameBefore(frame, Stream)
        /\ frame.cmd \in Registers =>
              s_panel[frame.cmd].at <= frame.at /\ frame.at <= truth[frame.cmd].at
PanelOrder == \A r \in Registers : s_panel[r].at <= truth[r].at
OrderInv == StreamOrder /\ FrameOrder /\ PanelOrder

\* The fragments of three sequences put end to end.
LEMMA ThreeParts ==
    ASSUME NEW a \in Seq(Fragment), NEW b \in Seq(Fragment),
           NEW c \in Seq(Fragment)
    PROVE  /\ (a \o b) \o c \in Seq(Fragment)
           /\ Len((a \o b) \o c) = Len(a) + Len(b) + Len(c)
           /\ Len(a) \in Nat /\ Len(b) \in Nat /\ Len(c) \in Nat
           /\ \A j \in 1..(Len(a) + Len(b) + Len(c)) :
                 ((a \o b) \o c)[j] =
                    IF j <= Len(a) THEN a[j]
                    ELSE IF j <= Len(a) + Len(b) THEN b[j - Len(a)]
                    ELSE c[j - Len(a) - Len(b)]
<1>1. Len(a) \in Nat /\ Len(b) \in Nat /\ Len(c) \in Nat
  BY LenProperties
<1>2. /\ a \o b \in Seq(Fragment) /\ Len(a \o b) = Len(a) + Len(b)
      /\ \A j \in 1..(Len(a) + Len(b)) :
            (a \o b)[j] = IF j <= Len(a) THEN a[j] ELSE b[j - Len(a)]
  BY ConcatProperties
<1> DEFINE ab == a \o b
<1> HIDE DEF ab
<1>3. /\ ab \o c \in Seq(Fragment) /\ Len(ab \o c) = Len(ab) + Len(c)
      /\ \A j \in 1..(Len(ab) + Len(c)) :
            (ab \o c)[j] = IF j <= Len(ab) THEN ab[j] ELSE c[j - Len(ab)]
  BY <1>2, ConcatProperties DEF ab
<1>4. /\ Len(ab) = Len(a) + Len(b)
      /\ \A j \in 1..(Len(a) + Len(b)) :
            ab[j] = IF j <= Len(a) THEN a[j] ELSE b[j - Len(a)]
  BY <1>2 DEF ab
<1>5. \A j \in 1..(Len(a) + Len(b) + Len(c)) :
         (ab \o c)[j] =
            IF j <= Len(a) THEN a[j]
            ELSE IF j <= Len(a) + Len(b) THEN b[j - Len(a)]
            ELSE c[j - Len(a) - Len(b)]
  BY <1>1, <1>3, <1>4
<1> QED BY <1>1, <1>3, <1>4, <1>5 DEF ab

\* A stretch of an ordered stream is ordered, and bounded as the stream is.
LEMMA Stretch ==
    ASSUME NEW s \in Seq(Fragment), NEW t \in Seq(Fragment), NEW k \in Nat,
           Len(t) + k <= Len(s),
           \A j \in 1..Len(t) : t[j] = s[j + k],
           NEW lo, NEW hi,
           InOrder(s), NoOlderThan(s, lo), NoNewerThan(s, hi)
    PROVE  InOrder(t) /\ NoOlderThan(t, lo) /\ NoNewerThan(t, hi)
<1>1. Len(s) \in Nat /\ Len(t) \in Nat
  BY LenProperties
<1>2. \A j \in 1..Len(t) : j + k \in 1..Len(s) /\ t[j] = s[j + k]
  BY <1>1
<1>3. InOrder(t)
  <2> SUFFICES ASSUME NEW p \in 1..Len(t), NEW q \in 1..Len(t), p <= q
               PROVE  Older(t[p].of, t[q].of)
    BY DEF InOrder
  <2>1. p + k \in 1..Len(s) /\ q + k \in 1..Len(s) /\ p + k <= q + k
    BY <1>1, <1>2
  <2>2. Older(s[p + k].of, s[q + k].of)
    BY <2>1 DEF InOrder
  <2> QED BY <1>2, <2>2
<1>4. NoOlderThan(t, lo) /\ NoNewerThan(t, hi)
  BY <1>2 DEF NoOlderThan, NoNewerThan
<1> QED BY <1>3, <1>4

\* What comes before a stream comes before a stretch of it.
LEMMA StretchAfterFrame ==
    ASSUME NEW s \in Seq(Fragment), NEW t \in Seq(Fragment), NEW k \in Nat,
           Len(t) + k <= Len(s),
           \A j \in 1..Len(t) : t[j] = s[j + k],
           NEW f, FrameBefore(f, s)
    PROVE  FrameBefore(f, t)
<1>1. Len(s) \in Nat /\ Len(t) \in Nat
  BY LenProperties
<1>2. \A j \in 1..Len(t) : j + k \in 1..Len(s) /\ t[j] = s[j + k]
  BY <1>1
<1> QED BY <1>2 DEF FrameBefore

\* A step that leaves a stretch of the stream, and s_panel and truth alone,
\* keeps the invariant unless it produces a frame.
LEMMA ShrinkStep ==
    ASSUME TypeOK, TypeOK', OrderInv, UNCHANGED <<s_panel, truth>>,
           NEW k \in Nat, Len(Stream') + k <= Len(Stream),
           \A j \in 1..Len(Stream') : Stream'[j] = Stream[j + k]
    PROVE  /\ StreamOrder' /\ PanelOrder'
           /\ \A f : FrameBefore(f, Stream) => FrameBefore(f, Stream')
<1>1. Stream \in Seq(Fragment) /\ Stream' \in Seq(Fragment)
  BY ThreeParts DEF Stream, TypeOK
<1>2. PanelOrder'
  BY DEF OrderInv, PanelOrder
<1> DEFINE s == Stream
           t == Stream'
<1>3. s \in Seq(Fragment) /\ t \in Seq(Fragment) /\ Len(t) + k <= Len(s)
      /\ \A j \in 1..Len(t) : t[j] = s[j + k]
  BY <1>1
<1>4. InOrder(s) /\ NoOlderThan(s, s_panel) /\ NoNewerThan(s, truth)
  BY DEF OrderInv, StreamOrder
<1>5. InOrder(t) /\ NoOlderThan(t, s_panel) /\ NoNewerThan(t, truth)
  <2> HIDE DEF s, t
  <2> QED BY <1>3, <1>4, Stretch
<1>6. \A f : FrameBefore(f, s) => FrameBefore(f, t)
  <2> HIDE DEF s, t
  <2> QED BY <1>3, StretchAfterFrame
<1> QED BY <1>2, <1>5, <1>6 DEF StreamOrder, InOrder, NoOlderThan, NoNewerThan

\* A step that does not touch the stream.
LEMMA QuietStep ==
    ASSUME TypeOK, OrderInv,
           UNCHANGED <<rbuf, arrived, due, s_panel, truth>>,
           \/ pc' \notin {"take", "apply"}
           \/ frame' = frame /\ pc \in {"take", "apply"}
    PROVE  OrderInv'
BY DEF OrderInv, StreamOrder, FrameOrder, PanelOrder, Stream, InOrder,
   NoOlderThan, NoNewerThan, FrameBefore

\* recv_frame takes a prefix of the stream that ends in a tail; the frame it
\* returns is the first of the stream, and two fragments long.
LEMMA RecvDataShift ==
    ASSUME TypeOK, TypeOK', RecvData
    PROVE  /\ UNCHANGED <<due, s_panel, truth>>
           /\ \E k \in Nat :
                 /\ Len(Stream') + k = Len(Stream)
                 /\ \A j \in 1..Len(Stream') : Stream'[j] = Stream[j + k]
                 /\ k > 0 => Stream[k].half = "tail"
                 /\ \/ pc' \in {"next", "loop", "lost"}
                    \/ /\ k = 2 /\ 1 \in 1..Len(Stream)
                       /\ frame' = Stream[1].of
<1> DEFINE room == BufMax - Len(rbuf)
           n == IF Len(arrived) < room THEN Len(arrived) ELSE room
           new == SubSeq(arrived, 1, n)
           buf == Appended(rbuf, new)
<1>0. /\ rbuf \in Seq(Fragment) /\ arrived \in Seq(Fragment)
      /\ due \in Seq(Fragment)
      /\ rbuf' \in Seq(Fragment) /\ arrived' \in Seq(Fragment)
  BY DEF TypeOK
<1>1. /\ Len(rbuf) \in Nat /\ Len(arrived) \in Nat /\ BufMax \in Nat
      /\ Len(rbuf) < BufMax
  BY LenProperties, BufferAssumption DEF TypeOK, RecvData
<1>2. n \in 0..Len(arrived)
  BY <1>1
<1>3. /\ arrived' = After(arrived, n) /\ rbuf' = Unconsumed(buf)
      /\ UNCHANGED <<due, s_panel, truth>>
  BY DEF RecvData, Untaken
<1>4. \/ /\ ParseResult(buf) = "OK" /\ frame' = buf[1].of /\ pc' = "take"
      \/ pc' \in {"next", "loop", "lost"}
  BY DEF RecvData, PollFailed, Goto
<1>5. \A j \in 1..n : arrived[j] \in Fragment
  BY <1>0, <1>1, <1>2, ElementOfSeq
<1> HIDE DEF n
<1>6. /\ new \in Seq(Fragment) /\ Len(new) = n
      /\ \A j \in 1..n : new[j] = arrived[j]
  BY <1>1, <1>2, <1>5, SubSeqProperties
<1> HIDE DEF new
<1>7. /\ buf \in Seq(Fragment) /\ Len(buf) = Len(rbuf) + n
      /\ \A j \in 1..(Len(rbuf) + n) :
            buf[j] = IF j <= Len(rbuf) THEN rbuf[j] ELSE arrived[j - Len(rbuf)]
  <2>1. /\ rbuf \o new \in Seq(Fragment)
        /\ Len(rbuf \o new) = Len(rbuf) + Len(new)
        /\ \A j \in 1..(Len(rbuf) + Len(new)) :
              (rbuf \o new)[j] = IF j <= Len(rbuf) THEN rbuf[j]
                                 ELSE new[j - Len(rbuf)]
    BY <1>0, <1>6, ConcatProperties
  <2>2. buf = rbuf \o new
    BY DEF Appended
  <2> HIDE DEF buf
  <2>3. \A j \in 1..(Len(rbuf) + n) :
           buf[j] = IF j <= Len(rbuf) THEN rbuf[j] ELSE new[j - Len(rbuf)]
    BY <1>6, <2>1, <2>2
  <2>4. SUFFICES ASSUME NEW j \in 1..(Len(rbuf) + n)
                 PROVE  buf[j] = IF j <= Len(rbuf) THEN rbuf[j]
                                 ELSE arrived[j - Len(rbuf)]
    BY <1>6, <2>1, <2>2
  <2>5. ~(j <= Len(rbuf)) => j - Len(rbuf) \in 1..n
    BY <1>1, <1>2
  <2> QED BY <1>6, <2>3, <2>5
<1> HIDE DEF buf
<1>8. PICK k \in 0..Len(buf) :
         /\ Len(Unconsumed(buf)) = Len(buf) - k
         /\ \A j \in 1..(Len(buf) - k) : Unconsumed(buf)[j] = buf[j + k]
         /\ ParseResult(buf) = "OK" => k = 2
         /\ k > 0 => buf[k].half = "tail"
  BY <1>7, UnconsumedProperties
<1>9. /\ Len(arrived') = Len(arrived) - n
      /\ \A j \in 1..(Len(arrived) - n) : arrived'[j] = arrived[j + n]
  BY <1>2, <1>3, AfterProperties DEF TypeOK
<1>10. /\ Stream \in Seq(Fragment)
       /\ Len(Stream) = Len(rbuf) + Len(arrived) + Len(due)
       /\ Len(due) \in Nat
       /\ \A j \in 1..(Len(rbuf) + Len(arrived) + Len(due)) :
             Stream[j] = IF j <= Len(rbuf) THEN rbuf[j]
                         ELSE IF j <= Len(rbuf) + Len(arrived)
                              THEN arrived[j - Len(rbuf)]
                              ELSE due[j - Len(rbuf) - Len(arrived)]
  BY <1>0, ThreeParts DEF Stream
<1>11. /\ Len(Stream') = Len(rbuf') + Len(arrived') + Len(due)
       /\ \A j \in 1..(Len(rbuf') + Len(arrived') + Len(due)) :
             Stream'[j] = IF j <= Len(rbuf') THEN rbuf'[j]
                          ELSE IF j <= Len(rbuf') + Len(arrived')
                               THEN arrived'[j - Len(rbuf')]
                               ELSE due[j - Len(rbuf') - Len(arrived')]
  <2>1. due' = due /\ Stream' = (rbuf' \o arrived') \o due
    BY <1>3 DEF Stream
  <2> QED BY <1>0, <2>1, ThreeParts
<1>12. Len(rbuf') = Len(rbuf) + n - k /\ k \in 0..(Len(rbuf) + n)
  BY <1>1, <1>2, <1>3, <1>7, <1>8
<1>13. \A j \in 1..(Len(rbuf) + n - k) : rbuf'[j] = buf[j + k]
  BY <1>1, <1>2, <1>3, <1>7, <1>8
<1>14. Len(Stream') + k = Len(Stream) /\ k \in Nat
  BY <1>1, <1>2, <1>9, <1>10, <1>11, <1>12
<1>15. \A j \in 1..Len(Stream') : Stream'[j] = Stream[j + k]
  <2> SUFFICES ASSUME NEW j \in 1..Len(Stream')
               PROVE  Stream'[j] = Stream[j + k]
    OBVIOUS
  <2>1. j \in Nat \ {0} /\ j + k \in 1..Len(Stream)
    BY <1>1, <1>2, <1>10, <1>12, <1>14
  <2>2. CASE j <= Len(rbuf')
    <3>1. Stream'[j] = buf[j + k] /\ j + k <= Len(rbuf) + n
      BY <1>1, <1>2, <1>11, <1>12, <1>13, <2>1, <2>2
    <3>2. j + k \in 1..(Len(rbuf) + n) /\ Len(rbuf) + n <= Len(rbuf) + Len(arrived)
      BY <1>1, <1>2, <1>12, <2>1, <3>1
    <3>3. Stream[j + k] = buf[j + k]
      <4>1. CASE j + k <= Len(rbuf)
        BY <1>7, <1>10, <2>1, <3>2, <4>1
      <4>2. CASE ~(j + k <= Len(rbuf))
        BY <1>1, <1>2, <1>7, <1>10, <2>1, <3>2, <4>2
      <4> QED BY <4>1, <4>2
    <3> QED BY <3>1, <3>3
  <2>3. CASE j > Len(rbuf') /\ j <= Len(rbuf') + Len(arrived')
    <3>1. Stream'[j] = arrived'[j - Len(rbuf')]
      BY <1>1, <1>2, <1>9, <1>11, <1>12, <2>1, <2>3
    <3>2. arrived'[j - Len(rbuf')] = arrived[j - Len(rbuf') + n]
      <4>1. j - Len(rbuf') \in 1..(Len(arrived) - n)
        BY <1>1, <1>2, <1>9, <1>12, <2>1, <2>3
      <4> QED BY <1>9, <4>1
    <3>3. Stream[j + k] = arrived[j + k - Len(rbuf)]
      BY <1>1, <1>2, <1>9, <1>10, <1>12, <2>1, <2>3, SMTT(30)
    <3>4. j + k - Len(rbuf) = j - Len(rbuf') + n
      BY <1>1, <1>2, <1>12, <2>1
    <3> QED BY <3>1, <3>2, <3>3, <3>4
  <2>4. CASE j > Len(rbuf') + Len(arrived')
    <3>1. Stream'[j] = due[j - Len(rbuf') - Len(arrived')]
      BY <1>1, <1>2, <1>9, <1>10, <1>11, <1>12, <2>1, <2>4, SMTT(30)
    <3>2. Stream[j + k] = due[j + k - Len(rbuf) - Len(arrived)]
      BY <1>1, <1>2, <1>9, <1>10, <1>12, <2>1, <2>4, SMTT(30)
    <3>3. j + k - Len(rbuf) - Len(arrived) = j - Len(rbuf') - Len(arrived')
      BY <1>1, <1>2, <1>9, <1>12, <2>1
    <3> QED BY <3>1, <3>2, <3>3
  <2> QED BY <1>1, <1>2, <1>9, <1>12, <2>1, <2>2, <2>3, <2>4
<1>16. \A j \in 1..(Len(rbuf) + n) : j \in 1..Len(Stream) /\ Stream[j] = buf[j]
  <2> SUFFICES ASSUME NEW j \in 1..(Len(rbuf) + n)
               PROVE  j \in 1..Len(Stream) /\ Stream[j] = buf[j]
    OBVIOUS
  <2>1. j \in 1..(Len(rbuf) + Len(arrived) + Len(due))
        /\ j <= Len(rbuf) + Len(arrived)
    BY <1>1, <1>2, <1>10
  <2>2. CASE j <= Len(rbuf)
    BY <1>7, <1>10, <2>1, <2>2
  <2>3. CASE ~(j <= Len(rbuf))
    BY <1>7, <1>10, <2>1, <2>3
  <2> QED BY <2>2, <2>3
<1>17. k > 0 => Stream[k].half = "tail"
  BY <1>1, <1>2, <1>8, <1>12, <1>16
<1>18. \/ pc' \in {"next", "loop", "lost"}
       \/ k = 2 /\ 1 \in 1..Len(Stream) /\ frame' = Stream[1].of
  <2> SUFFICES ASSUME ParseResult(buf) = "OK", frame' = buf[1].of
               PROVE  k = 2 /\ 1 \in 1..Len(Stream) /\ frame' = Stream[1].of
    BY <1>4
  <2>1. k = 2 /\ 2 \in 1..Len(buf)
    BY <1>7, <1>8, ParsedFrame
  <2>2. 1 \in 1..(Len(rbuf) + n)
    BY <1>1, <1>2, <1>7, <2>1
  <2> QED BY <1>16, <2>1, <2>2
<1> QED BY <1>3, <1>14, <1>15, <1>17, <1>18

\* recv_frame keeps the order: the frame it returns came first.
LEMMA RecvDataStep ==
    ASSUME TypeOK, TypeOK', OrderInv, RecvData
    PROVE  OrderInv'
<1>1. UNCHANGED <<due, s_panel, truth>>
  BY RecvDataShift
<1>2. PICK k \in Nat :
         /\ Len(Stream') + k = Len(Stream)
         /\ \A j \in 1..Len(Stream') : Stream'[j] = Stream[j + k]
         /\ \/ pc' \in {"next", "loop", "lost"}
            \/ k = 2 /\ 1 \in 1..Len(Stream) /\ frame' = Stream[1].of
  BY RecvDataShift
<1>3. Len(Stream) \in Nat /\ Len(Stream') \in Nat
  BY ThreeParts, LenProperties DEF Stream, TypeOK
<1>4. StreamOrder' /\ PanelOrder'
  BY <1>1, <1>2, <1>3, ShrinkStep
<1>5. FrameOrder'
  <2>1. CASE pc' \in {"next", "loop", "lost"}
    BY <2>1 DEF FrameOrder
  <2>2. CASE k = 2 /\ 1 \in 1..Len(Stream) /\ frame' = Stream[1].of
    <3>1. /\ InOrder(Stream) /\ NoOlderThan(Stream, s_panel)
          /\ NoNewerThan(Stream, truth)
      BY DEF OrderInv, StreamOrder
    <3>2. \A q \in 1..Len(Stream') :
             q + 2 \in 1..Len(Stream) /\ Older(Stream[1].of, Stream[q + 2].of)
      BY <1>2, <1>3, <2>2, <3>1 DEF InOrder
    <3>3. FrameBefore(frame', Stream')
      BY <1>2, <2>2, <3>2 DEF FrameBefore
    <3>4. frame'.cmd \in Registers =>
             /\ s_panel[frame'.cmd].at <= frame'.at
             /\ frame'.at <= truth[frame'.cmd].at
      BY <2>2, <3>1 DEF NoOlderThan, NoNewerThan
    <3> QED BY <1>1, <3>3, <3>4 DEF FrameOrder, FrameBefore
  <2> QED BY <1>2, <2>1, <2>2
<1> QED BY <1>4, <1>5 DEF OrderInv

\* The parts of Stream in this state and in the next.
LEMMA StreamParts ==
    ASSUME TypeOK
    PROVE  /\ Stream \in Seq(Fragment)
           /\ Len(Stream) = Len(rbuf) + Len(arrived) + Len(due)
           /\ Len(rbuf) \in Nat /\ Len(arrived) \in Nat /\ Len(due) \in Nat
           /\ \A j \in 1..(Len(rbuf) + Len(arrived) + Len(due)) :
                 Stream[j] = IF j <= Len(rbuf) THEN rbuf[j]
                             ELSE IF j <= Len(rbuf) + Len(arrived)
                                  THEN arrived[j - Len(rbuf)]
                                  ELSE due[j - Len(rbuf) - Len(arrived)]
<1>1. /\ rbuf \in Seq(Fragment) /\ arrived \in Seq(Fragment)
      /\ due \in Seq(Fragment)
  BY DEF TypeOK
<1> QED BY <1>1, ThreeParts DEF Stream

\* A step that puts the panel's answer behind the stream.
LEMMA ExtendStep ==
    ASSUME TypeOK, TypeOK', OrderInv,
           UNCHANGED <<pc, frame, s_panel, truth>>,
           NEW cmd \in Registers \cup {Ack},
           Len(Stream) <= Len(Stream'),
           \A j \in 1..Len(Stream) : Stream'[j] = Stream[j],
           \A j \in (Len(Stream) + 1)..Len(Stream') : Stream'[j].of = Answer(cmd)
    PROVE  OrderInv'
<1> DEFINE s == Stream
           t == Stream'
           a == Answer(cmd)
<1>1. /\ Len(s) \in Nat /\ Len(t) \in Nat /\ Len(s) <= Len(t)
      /\ \A j \in 1..Len(s) : t[j] = s[j]
      /\ \A j \in (Len(s) + 1)..Len(t) : t[j].of = a
  <2>1. s \in Seq(Fragment) /\ t \in Seq(Fragment)
    BY ThreeParts DEF Stream, TypeOK
  <2> QED BY <2>1, LenProperties
<1>2. InOrder(s) /\ NoOlderThan(s, s_panel) /\ NoNewerThan(s, truth)
  BY DEF OrderInv, StreamOrder
<1>3. /\ a.cmd = cmd \/ a.cmd = Ack
      /\ a.cmd \in Registers =>
            /\ a.at = truth[a.cmd].at
            /\ truth[a.cmd].at \in Nat /\ s_panel[a.cmd].at <= truth[a.cmd].at
  BY AckAssumption DEF Answer, NoReply, OrderInv, PanelOrder, TypeOK
<1>4. pc \in {"take", "apply"} =>
         /\ FrameBefore(frame, s)
         /\ frame.cmd \in Registers =>
               /\ s_panel[frame.cmd].at <= frame.at
               /\ frame.at <= truth[frame.cmd].at
  BY DEF OrderInv, FrameOrder
<1>5. PanelOrder'
  BY DEF OrderInv, PanelOrder
<1>6. UNCHANGED <<pc, frame, s_panel, truth>>
  OBVIOUS
<1> HIDE DEF s, a
<1>7. \A j \in 1..Len(t) : j \in 1..Len(s) \/ j \in (Len(s) + 1)..Len(t)
  BY <1>1
<1>8. InOrder(t)
  <2> HIDE DEF t
  <2> SUFFICES ASSUME NEW p \in 1..Len(t), NEW q \in 1..Len(t), p <= q
               PROVE  Older(t[p].of, t[q].of)
    BY DEF InOrder
  <2>1. CASE q \in 1..Len(s)
    <3>1. p \in 1..Len(s)
      BY <1>1, <2>1
    <3> QED BY <1>1, <1>2, <2>1, <3>1 DEF InOrder
  <2>2. CASE q \in (Len(s) + 1)..Len(t) /\ p \in 1..Len(s)
    <3>1. t[p] = s[p] /\ t[q].of = a
      BY <1>1, <2>2
    <3>2. s[p].of.cmd \in Registers => s[p].of.at <= truth[s[p].of.cmd].at
      BY <1>2, <2>2 DEF NoNewerThan
    <3> QED BY <1>3, <3>1, <3>2 DEF Older
  <2>3. CASE p \in (Len(s) + 1)..Len(t)
    <3>1. q \in (Len(s) + 1)..Len(t)
      BY <1>1, <2>3
    <3>2. t[p].of = a /\ t[q].of = a
      BY <1>1, <2>3, <3>1
    <3> QED BY <1>3, <3>2 DEF Older
  <2> QED BY <1>7, <2>1, <2>2, <2>3
<1>9. NoOlderThan(t, s_panel) /\ NoNewerThan(t, truth)
  <2> HIDE DEF t
  <2> SUFFICES ASSUME NEW p \in 1..Len(t), t[p].of.cmd \in Registers
               PROVE  /\ s_panel[t[p].of.cmd].at <= t[p].of.at
                      /\ t[p].of.at <= truth[t[p].of.cmd].at
    BY DEF NoOlderThan, NoNewerThan
  <2>1. CASE p \in 1..Len(s)
    BY <1>1, <1>2, <2>1 DEF NoOlderThan, NoNewerThan
  <2>2. CASE p \in (Len(s) + 1)..Len(t)
    BY <1>1, <1>3, <2>2
  <2> QED BY <1>7, <2>1, <2>2
<1>10. pc \in {"take", "apply"} => FrameBefore(frame, t)
  <2> HIDE DEF t
  <2> SUFFICES ASSUME pc \in {"take", "apply"}, NEW p \in 1..Len(t)
               PROVE  Older(frame, t[p].of)
    BY DEF FrameBefore
  <2>1. CASE p \in 1..Len(s)
    BY <1>1, <1>4, <2>1 DEF FrameBefore
  <2>2. CASE p \in (Len(s) + 1)..Len(t)
    BY <1>1, <1>3, <1>4, <2>2 DEF Older
  <2> QED BY <1>7, <2>1, <2>2
<1> QED BY <1>4, <1>5, <1>6, <1>8, <1>9, <1>10
        DEF OrderInv, StreamOrder, FrameOrder, InOrder, NoOlderThan,
            NoNewerThan, FrameBefore

\* The two halves of an answer go behind everything else.
LEMMA AnswerBehind ==
    ASSUME TypeOK, TypeOK', AnswerWhole \/ AnswerSplit
    PROVE  /\ UNCHANGED <<pc, frame, s_panel, truth>>
           /\ \E cmd \in Registers \cup {Ack} :
                 /\ Len(Stream') = Len(Stream) + 2
                 /\ \A j \in 1..Len(Stream) : Stream'[j] = Stream[j]
                 /\ Stream'[Len(Stream) + 1] = [half |-> "head", of |-> Answer(cmd)]
                 /\ Stream'[Len(Stream) + 2] = [half |-> "tail", of |-> Answer(cmd)]
<1> DEFINE cmd == Head(reqs)
           H == Half("head", Answer(cmd))
           T == Half("tail", Answer(cmd))
           head == [half |-> "head", of |-> Answer(cmd)]
           tail == [half |-> "tail", of |-> Answer(cmd)]
<1>1. /\ due = <<>> /\ reqs # <<>>
      /\ UNCHANGED <<pc, frame, rbuf, s_panel, truth>>
      /\ \/ arrived' = (arrived \o H) \o T /\ due' = due
         \/ arrived' = arrived \o H /\ due' = T
  BY DEF AnswerWhole, AnswerSplit, task
<1>2. cmd \in Registers \cup {Ack}
  BY <1>1, HeadTailProperties DEF TypeOK
<1>3. /\ H \in Seq(Fragment) /\ Len(H) = 1 /\ H[1] = head
      /\ T \in Seq(Fragment) /\ Len(T) = 1 /\ T[1] = tail
  <2> HIDE DEF cmd
  <2>1. \A h \in {"head", "tail"} :
           /\ Half(h, Answer(cmd)) \in Seq(Fragment)
           /\ Len(Half(h, Answer(cmd))) = 1
           /\ Half(h, Answer(cmd))[1] = [half |-> h, of |-> Answer(cmd)]
    BY <1>2, AnswerType
  <2> QED BY <2>1
<1> HIDE DEF cmd, H, T, head, tail
<1>4. /\ arrived \in Seq(Fragment) /\ Len(arrived) \in Nat /\ Len(rbuf) \in Nat
      /\ Len(due) = 0
  BY <1>1, LenProperties DEF TypeOK
<1>5. /\ Len(arrived \o H) = Len(arrived) + 1
      /\ \A j \in 1..Len(arrived) : (arrived \o H)[j] = arrived[j]
      /\ (arrived \o H)[Len(arrived) + 1] = head
  <2>1. \A j \in 1..(Len(arrived) + Len(H)) :
           (arrived \o H)[j] = IF j <= Len(arrived) THEN arrived[j]
                               ELSE H[j - Len(arrived)]
    BY <1>3, <1>4, ConcatProperties
  <2>2. Len(arrived \o H) = Len(arrived) + Len(H)
    BY <1>3, <1>4, ConcatProperties
  <2>3. Len(arrived) + 1 \in 1..(Len(arrived) + Len(H))
        /\ ~(Len(arrived) + 1 <= Len(arrived))
        /\ Len(arrived) + 1 - Len(arrived) = 1
    BY <1>3, <1>4
  <2>4. (arrived \o H)[Len(arrived) + 1] = H[1]
    BY <2>1, <2>3
  <2>5. \A j \in 1..Len(arrived) : (arrived \o H)[j] = arrived[j]
    BY <1>3, <1>4, <2>1
  <2> QED BY <1>3, <2>2, <2>4, <2>5
<1>6. /\ Len((arrived \o H) \o T) = Len(arrived) + 2
      /\ \A j \in 1..Len(arrived) : ((arrived \o H) \o T)[j] = arrived[j]
      /\ ((arrived \o H) \o T)[Len(arrived) + 1] = head
      /\ ((arrived \o H) \o T)[Len(arrived) + 2] = tail
  <2> DEFINE z == (arrived \o H) \o T
  <2>1. /\ Len(z) = Len(arrived) + Len(H) + Len(T)
        /\ \A j \in 1..(Len(arrived) + Len(H) + Len(T)) :
              z[j] = IF j <= Len(arrived) THEN arrived[j]
                     ELSE IF j <= Len(arrived) + Len(H) THEN H[j - Len(arrived)]
                     ELSE T[j - Len(arrived) - Len(H)]
    BY <1>3, <1>4, ThreeParts
  <2> HIDE DEF z
  <2>2. z[Len(arrived) + 1] = H[Len(arrived) + 1 - Len(arrived)]
    BY <1>3, <1>4, <2>1
  <2>3. z[Len(arrived) + 2] = T[Len(arrived) + 2 - Len(arrived) - 1]
    BY <1>3, <1>4, <2>1
  <2>4. /\ Len(arrived) + 1 - Len(arrived) = 1
        /\ Len(arrived) + 2 - Len(arrived) - 1 = 1
    BY <1>4
  <2>5. \A j \in 1..Len(arrived) : z[j] = arrived[j]
    BY <1>3, <1>4, <2>1
  <2>6. z[Len(arrived) + 1] = head /\ z[Len(arrived) + 2] = tail
    BY <1>3, <2>2, <2>3, <2>4
  <2>7. Len(z) = Len(arrived) + 2
    BY <1>3, <1>4, <2>1
  <2> QED BY <2>5, <2>6, <2>7 DEF z
<1>7. /\ Len(Stream) = Len(rbuf) + Len(arrived)
      /\ \A j \in 1..(Len(rbuf) + Len(arrived)) :
            Stream[j] = IF j <= Len(rbuf) THEN rbuf[j] ELSE arrived[j - Len(rbuf)]
  BY <1>4, StreamParts
<1>8. /\ Len(Stream') = Len(rbuf) + Len(arrived') + Len(due')
      /\ Len(arrived') \in Nat /\ Len(due') \in Nat
      /\ \A j \in 1..(Len(rbuf) + Len(arrived') + Len(due')) :
            Stream'[j] = IF j <= Len(rbuf) THEN rbuf[j]
                         ELSE IF j <= Len(rbuf) + Len(arrived')
                              THEN arrived'[j - Len(rbuf)]
                              ELSE due'[j - Len(rbuf) - Len(arrived')]
  <2>1. /\ rbuf \in Seq(Fragment) /\ arrived' \in Seq(Fragment)
        /\ due' \in Seq(Fragment)
    BY DEF TypeOK
  <2>2. Stream' = (rbuf \o arrived') \o due'
    BY <1>1 DEF Stream
  <2> QED BY <2>1, <2>2, ThreeParts
<1>9. Len(Stream') = Len(Stream) + 2
  <2>1. Len(arrived') + Len(due') = Len(arrived) + 2
    BY <1>1, <1>3, <1>4, <1>5, <1>6
  <2>2. /\ Len(Stream') = Len(rbuf) + Len(arrived') + Len(due')
        /\ Len(arrived') \in Nat /\ Len(due') \in Nat
        /\ Len(Stream) = Len(rbuf) + Len(arrived)
    BY <1>7, <1>8
  <2> QED BY <1>4, <2>1, <2>2
<1>10. \A j \in 1..Len(arrived) : arrived'[j] = arrived[j]
  BY <1>1, <1>5, <1>6
<1>11. Len(arrived) <= Len(arrived')
  BY <1>1, <1>4, <1>5, <1>6
<1>12. \A j \in 1..Len(Stream) : Stream'[j] = Stream[j]
  <2> SUFFICES ASSUME NEW j \in 1..Len(Stream) PROVE Stream'[j] = Stream[j]
    OBVIOUS
  <2>1. j \in 1..(Len(rbuf) + Len(arrived)) /\ j <= Len(rbuf) + Len(arrived')
        /\ j \in 1..(Len(rbuf) + Len(arrived') + Len(due'))
    BY <1>4, <1>7, <1>8, <1>11
  <2>2. CASE j <= Len(rbuf)
    BY <1>7, <1>8, <2>1, <2>2
  <2>3. CASE ~(j <= Len(rbuf))
    <3>1. j - Len(rbuf) \in 1..Len(arrived)
      BY <1>4, <2>1, <2>3
    <3> QED BY <1>7, <1>8, <1>10, <2>1, <2>3, <3>1
  <2> QED BY <2>2, <2>3
<1> DEFINE L == Len(rbuf) + Len(arrived)
<1>13. Stream'[L + 1] = head /\ Stream'[L + 2] = tail
  <2>1. CASE arrived' = (arrived \o H) \o T /\ due' = due
    <3>1. Len(arrived') = Len(arrived) + 2 /\ Len(due') = 0
      BY <1>4, <1>6, <2>1
    <3>2. /\ Stream'[L + 1] = arrived'[L + 1 - Len(rbuf)]
          /\ Stream'[L + 2] = arrived'[L + 2 - Len(rbuf)]
      BY <1>4, <1>8, <3>1
    <3>3. L + 1 - Len(rbuf) = Len(arrived) + 1 /\ L + 2 - Len(rbuf) = Len(arrived) + 2
      BY <1>4
    <3> QED BY <1>6, <2>1, <3>2, <3>3
  <2>2. CASE arrived' = arrived \o H /\ due' = T
    <3>1. Len(arrived') = Len(arrived) + 1 /\ Len(due') = 1
      BY <1>3, <1>5, <2>2
    <3>2. /\ Stream'[L + 1] = arrived'[L + 1 - Len(rbuf)]
          /\ Stream'[L + 2] = due'[L + 2 - Len(rbuf) - Len(arrived')]
      BY <1>4, <1>8, <3>1
    <3>3. /\ L + 1 - Len(rbuf) = Len(arrived) + 1
          /\ L + 2 - Len(rbuf) - Len(arrived') = 1
      BY <1>4, <3>1
    <3> QED BY <1>3, <1>5, <2>2, <3>2, <3>3
  <2> QED BY <1>1, <2>1, <2>2
<1>14. L = Len(Stream)
  BY <1>7
<1> HIDE DEF L
<1>15. /\ Stream'[Len(Stream) + 1] = [half |-> "head", of |-> Answer(cmd)]
       /\ Stream'[Len(Stream) + 2] = [half |-> "tail", of |-> Answer(cmd)]
  BY <1>13, <1>14 DEF head, tail
<1> QED BY <1>1, <1>2, <1>9, <1>12, <1>15

\* An answer, read from the registers now, keeps the order.
LEMMA AnswerStep ==
    ASSUME TypeOK, TypeOK', OrderInv, AnswerWhole \/ AnswerSplit
    PROVE  OrderInv'
<1>1. UNCHANGED <<pc, frame, s_panel, truth>>
  BY AnswerBehind
<1>2. PICK cmd \in Registers \cup {Ack} :
         /\ Len(Stream') = Len(Stream) + 2
         /\ \A j \in 1..Len(Stream) : Stream'[j] = Stream[j]
         /\ Stream'[Len(Stream) + 1] = [half |-> "head", of |-> Answer(cmd)]
         /\ Stream'[Len(Stream) + 2] = [half |-> "tail", of |-> Answer(cmd)]
  BY AnswerBehind
<1>3. Len(Stream) \in Nat
  BY ThreeParts, LenProperties DEF Stream, TypeOK
<1>4. \A j \in (Len(Stream) + 1)..Len(Stream') : Stream'[j].of = Answer(cmd)
  <2>1. \A j \in (Len(Stream) + 1)..Len(Stream') :
           j = Len(Stream) + 1 \/ j = Len(Stream) + 2
    BY <1>2, <1>3
  <2> QED BY <1>2, <2>1
<1>5. Len(Stream) <= Len(Stream')
  BY <1>2, <1>3
<1> QED BY <1>1, <1>2, <1>4, <1>5, ExtendStep

\* The tail of a reply cut in two takes its place behind the head.
LEMMA DeliverTailStays ==
    ASSUME TypeOK, DeliverTail
    PROVE  Stream' = Stream /\ UNCHANGED <<pc, frame, rbuf, s_panel, truth>>
<1>1. /\ rbuf \in Seq(Fragment) /\ arrived \in Seq(Fragment)
      /\ due \in Seq(Fragment)
  BY DEF TypeOK
<1>2. /\ arrived' = arrived \o due /\ due' = <<>>
      /\ UNCHANGED <<pc, frame, rbuf, s_panel, truth>>
  BY DEF DeliverTail, task
<1>3. Stream' = (rbuf \o (arrived \o due)) \o <<>>
  BY <1>2 DEF Stream
<1>4. rbuf \o (arrived \o due) = Stream /\ Stream \in Seq(Fragment)
  BY <1>1, ConcatAssociative, ThreeParts DEF Stream
<1> QED BY <1>2, <1>3, <1>4, ConcatEmptySeq

\* It keeps the order.
LEMMA DeliverTailStep ==
    ASSUME TypeOK, OrderInv, DeliverTail
    PROVE  OrderInv'
BY DeliverTailStays DEF OrderInv, StreamOrder, FrameOrder, PanelOrder,
   InOrder, NoOlderThan, NoNewerThan, FrameBefore

\* A connection that is lost or closed loses the end of the stream.
LEMMA CutShort ==
    ASSUME TypeOK, TypeOK', UNCHANGED rbuf, due' = <<>>,
           NEW n \in 0..Len(arrived), Len(arrived') = n,
           \A j \in 1..n : arrived'[j] = arrived[j]
    PROVE  /\ Len(Stream') <= Len(Stream)
           /\ \A j \in 1..Len(Stream') : Stream'[j] = Stream[j]
<1>1. /\ Len(Stream) = Len(rbuf) + Len(arrived) + Len(due)
      /\ Len(rbuf) \in Nat /\ Len(arrived) \in Nat /\ Len(due) \in Nat
      /\ \A j \in 1..(Len(rbuf) + Len(arrived) + Len(due)) :
            Stream[j] = IF j <= Len(rbuf) THEN rbuf[j]
                        ELSE IF j <= Len(rbuf) + Len(arrived)
                             THEN arrived[j - Len(rbuf)]
                             ELSE due[j - Len(rbuf) - Len(arrived)]
  BY StreamParts
<1>2. /\ Len(Stream') = Len(rbuf) + n
      /\ \A j \in 1..(Len(rbuf) + n) :
            Stream'[j] = IF j <= Len(rbuf) THEN rbuf[j]
                         ELSE arrived'[j - Len(rbuf)]
  <2>1. /\ rbuf \in Seq(Fragment) /\ arrived' \in Seq(Fragment)
    BY DEF TypeOK
  <2>2. rbuf \o arrived' \in Seq(Fragment)
    BY <2>1, ConcatProperties
  <2>3. Stream' = rbuf \o arrived'
    BY <2>2, ConcatEmptySeq DEF Stream
  <2> QED BY <2>1, <2>3, ConcatProperties
<1>3. Len(Stream') <= Len(Stream)
  BY <1>1, <1>2
<1>4. \A j \in 1..Len(Stream') : Stream'[j] = Stream[j]
  <2> SUFFICES ASSUME NEW j \in 1..Len(Stream') PROVE Stream'[j] = Stream[j]
    OBVIOUS
  <2>1. j \in 1..(Len(rbuf) + n)
        /\ j \in 1..(Len(rbuf) + Len(arrived) + Len(due))
        /\ j <= Len(rbuf) + Len(arrived)
    BY <1>1, <1>2
  <2>2. CASE j <= Len(rbuf)
    BY <1>1, <1>2, <2>1, <2>2
  <2>3. CASE ~(j <= Len(rbuf))
    <3>1. j - Len(rbuf) \in 1..n
      BY <1>1, <2>1, <2>3
    <3> QED BY <1>1, <1>2, <2>1, <2>3, <3>1
  <2> QED BY <2>2, <2>3
<1> QED BY <1>3, <1>4

\* The steps that end a connection or open one keep a part of what had
\* arrived at most, and produce no frame.
LEMMA ConnectionEnds ==
    ASSUME TypeOK, LinkBreak \/ Connected \/ Lost \/ ClientStop
    PROVE  /\ UNCHANGED <<rbuf, frame, s_panel, truth>> /\ due' = <<>>
           /\ pc' = pc \/ pc' \notin {"take", "apply"}
           /\ \E n \in 0..Len(arrived) :
                 /\ Len(arrived') = n
                 /\ \A j \in 1..n : arrived'[j] = arrived[j]
<1>1. arrived \in Seq(Fragment) /\ Len(arrived) \in Nat
  BY LenProperties DEF TypeOK
<1>2. CASE LinkBreak
  <2>1. PICK n \in 0..Len(arrived) : arrived' = SubSeq(arrived, 1, n)
    BY <1>2 DEF LinkBreak
  <2>2. \A j \in 1..n : arrived[j] \in Fragment
    BY <1>1, ElementOfSeq
  <2>3. Len(arrived') = n /\ \A j \in 1..n : arrived'[j] = arrived[j]
    BY <1>1, <2>1, <2>2, SubSeqProperties
  <2>4. due' = <<>> /\ UNCHANGED <<pc, rbuf, frame, s_panel, truth>>
    BY <1>2 DEF LinkBreak, task
  <2> QED BY <2>3, <2>4
<1>3. CASE Connected \/ Lost \/ ClientStop
  <2>1. /\ arrived' = <<>> /\ due' = <<>>
        /\ UNCHANGED <<rbuf, frame, s_panel, truth>>
        /\ pc' \notin {"take", "apply"}
    BY <1>3 DEF Connected, TcpConnect, Lost, ClientStop, Goto
  <2>2. 0 \in 0..Len(arrived) /\ Len(arrived') = 0
        /\ \A j \in 1..0 : arrived'[j] = arrived[j]
    BY <1>1, <2>1, EmptySeq
  <2> QED BY <2>1, <2>2
<1> QED BY <1>2, <1>3

\* Losing it keeps the order.
LEMMA CutStep ==
    ASSUME TypeOK, TypeOK', OrderInv, UNCHANGED <<rbuf, frame, s_panel, truth>>,
           due' = <<>>,
           NEW n \in 0..Len(arrived), Len(arrived') = n,
           \A j \in 1..n : arrived'[j] = arrived[j],
           pc' = pc \/ pc' \notin {"take", "apply"}
    PROVE  OrderInv'
<1>1. /\ Len(Stream') <= Len(Stream)
      /\ \A j \in 1..Len(Stream') : Stream'[j] = Stream[j]
  BY CutShort
<1>2. Len(Stream) \in Nat /\ Len(Stream') \in Nat
  BY ThreeParts, LenProperties DEF Stream, TypeOK
<1>3. /\ Len(Stream') + 0 <= Len(Stream)
      /\ \A j \in 1..Len(Stream') : Stream'[j] = Stream[j + 0]
  BY <1>1, <1>2
<1>4. /\ StreamOrder' /\ PanelOrder'
      /\ \A f : FrameBefore(f, Stream) => FrameBefore(f, Stream')
  BY <1>3, ShrinkStep
<1>5. FrameOrder'
  <2> SUFFICES ASSUME pc' \in {"take", "apply"} PROVE FrameOrder'
    BY DEF FrameOrder
  <2>1. pc' = pc
    OBVIOUS
  <2>2. /\ FrameBefore(frame, Stream)
        /\ frame.cmd \in Registers =>
              /\ s_panel[frame.cmd].at <= frame.at
              /\ frame.at <= truth[frame.cmd].at
    BY <2>1 DEF OrderInv, FrameOrder
  <2>3. FrameBefore(frame, Stream')
    BY <1>4, <2>2
  <2> QED BY <2>2, <2>3 DEF FrameOrder, FrameBefore
<1> QED BY <1>4, <1>5 DEF OrderInv

\* Every step keeps the order of the stamps.
LEMMA OrderStep ==
    ASSUME TypeOK, TypeOK', OrderInv, [Next]_vars
    PROVE  OrderInv'
<1>1. CASE RecvData
  BY <1>1, RecvDataStep
<1>2. CASE AnswerWhole \/ AnswerSplit
  BY <1>2, AnswerStep
<1>3. CASE DeliverTail
  BY <1>3, DeliverTailStep
<1>4. CASE LinkBreak \/ Connected \/ Lost \/ ClientStop
  <2>1. /\ UNCHANGED <<rbuf, frame, s_panel, truth>> /\ due' = <<>>
        /\ pc' = pc \/ pc' \notin {"take", "apply"}
        /\ \E n \in 0..Len(arrived) :
              Len(arrived') = n /\ \A j \in 1..n : arrived'[j] = arrived[j]
    BY <1>4, ConnectionEnds
  <2> QED BY <2>1, CutStep
<1>5. CASE ApplyFrame
  <2>1. /\ UNCHANGED <<rbuf, arrived, due, truth, frame>>
        /\ pc = "apply" /\ pc' = "next"
        /\ s_panel' = IF frame.cmd \in Registers
                      THEN [s_panel EXCEPT ![frame.cmd] =
                               [val |-> frame.val, at |-> frame.at]]
                      ELSE s_panel
    BY <1>5 DEF ApplyFrame, link, Goto
  <2>2. /\ FrameBefore(frame, Stream)
        /\ frame.cmd \in Registers => frame.at <= truth[frame.cmd].at
    BY <2>1 DEF OrderInv, FrameOrder
  <2>3. \A r \in Registers :
           s_panel'[r].at = IF r = frame.cmd THEN frame.at ELSE s_panel[r].at
    BY <2>1 DEF TypeOK
  <2>4. Stream' = Stream
    BY <2>1 DEF Stream
  <2>5. PanelOrder'
    BY <2>1, <2>2, <2>3 DEF OrderInv, PanelOrder
  <2>6. InOrder(Stream) /\ NoOlderThan(Stream, s_panel) /\ NoNewerThan(Stream, truth)
    BY DEF OrderInv, StreamOrder
  <2>7. NoOlderThan(Stream, s_panel')
    BY <2>2, <2>3, <2>6 DEF NoOlderThan, FrameBefore, Older
  <2>8. StreamOrder'
    BY <2>1, <2>4, <2>6, <2>7 DEF StreamOrder, InOrder, NoOlderThan, NoNewerThan
  <2> QED BY <2>1, <2>5, <2>8 DEF OrderInv, FrameOrder
<1>6. CASE PanelChange
  <2>1. PICK r \in Registers, v \in SUBSET Lines :
           truth' = [truth EXCEPT ![r] = [val |-> v, at |-> @.at + 1]]
    BY <1>6 DEF PanelChange
  <2>2. UNCHANGED <<rbuf, arrived, due, s_panel, frame, pc>>
    BY <1>6 DEF PanelChange, link, task
  <2>3. \A c \in Registers : /\ truth[c].at \in Nat /\ truth'[c].at \in Nat
                              /\ truth[c].at <= truth'[c].at
    <3> SUFFICES ASSUME NEW c \in Registers
                 PROVE  /\ truth[c].at \in Nat /\ truth'[c].at \in Nat
                        /\ truth[c].at <= truth'[c].at
      OBVIOUS
    <3>1. truth[c].at \in Nat /\ DOMAIN truth = Registers
      BY DEF TypeOK
    <3>2. CASE c = r
      <4>1. truth'[c] = [val |-> v, at |-> truth[c].at + 1]
        BY <2>1, <3>1, <3>2
      <4>2. truth'[c].at = truth[c].at + 1
        BY <4>1
      <4> QED BY <3>1, <4>2
    <3>3. CASE c # r
      <4>1. truth'[c] = truth[c]
        BY <2>1, <3>1, <3>3
      <4> QED BY <3>1, <4>1
    <3> QED BY <3>2, <3>3
  <2>4. \A c \in Registers, a \in Nat : a <= truth[c].at => a <= truth'[c].at
    BY <2>3
  <2>5. PanelOrder'
    BY <2>2, <2>4 DEF OrderInv, PanelOrder, TypeOK
  <2>6. \A p \in 1..Len(Stream) : Stream[p].of.at \in Nat
    <3>1. Stream \in Seq(Fragment)
      BY StreamParts
    <3>2. \A p \in 1..Len(Stream) : Stream[p] \in Fragment
      BY <3>1, ElementOfSeq
    <3> QED BY <3>2 DEF Fragment, Reply
  <2>7. NoNewerThan(Stream, truth')
    BY <2>4, <2>6 DEF OrderInv, StreamOrder, NoNewerThan
  <2>8. Stream' = Stream
    BY <2>2 DEF Stream
  <2>9. StreamOrder'
    BY <2>2, <2>7, <2>8 DEF OrderInv, StreamOrder, InOrder, NoOlderThan, NoNewerThan
  <2>10. FrameOrder'
    BY <2>2, <2>4, <2>8 DEF OrderInv, FrameOrder, FrameBefore, TypeOK, Reply
  <2> QED BY <2>5, <2>9, <2>10 DEF OrderInv
<1>7. CASE \/ Begin \/ ConnectRefused \/ Backoff \/ SendPoll \/ RecvNothing
           \/ RecvTimeout \/ TakeMutex \/ NextCmd \/ NotifyLine \/ NotifyDone
           \/ Sleep \/ Loop \/ FlushOne \/ FlushDone
  <2>1. UNCHANGED <<rbuf, arrived, due, s_panel, truth>>
    BY <1>7 DEF Begin, ConnectRefused, Backoff, SendPoll, RecvNothing,
       RecvTimeout, TakeMutex, NextCmd, NotifyLine, NotifyDone, Sleep, Loop,
       FlushOne, FlushDone, link, task
  <2>2. \/ pc' \notin {"take", "apply"}
        \/ frame' = frame /\ pc \in {"take", "apply"}
    BY <1>7 DEF Begin, ConnectRefused, Backoff, SendPoll, RecvNothing,
       RecvTimeout, TakeMutex, NextCmd, NotifyLine, NotifyDone, Sleep, Loop,
       FlushOne, FlushDone, task, Goto, PollFailed
  <2> QED BY <2>1, <2>2, QuietStep
<1>8. CASE EnqueueCmd \/ ClientStart \/ UNCHANGED vars
  <2>1. /\ UNCHANGED <<rbuf, arrived, due, s_panel, truth>>
        /\ \/ pc' \notin {"take", "apply"}
           \/ frame' = frame /\ pc \in {"take", "apply"}
    BY <1>8 DEF EnqueueCmd, ClientStart, vars, task, link, Goto
  <2> QED BY <2>1, QuietStep
<1> QED BY <1>1, <1>2, <1>3, <1>4, <1>5, <1>6, <1>7, <1>8
        DEF Next, TaskStep, Callers, PanelReplies

\* OrderInv holds of every reachable state.
LEMMA OrderInvariant == Spec => [](TypeOK /\ OrderInv)
<1>1. Init => OrderInv
  <2> SUFFICES ASSUME Init PROVE OrderInv
    OBVIOUS
  <2>1. Stream = <<>> \o <<>> \o <<>>
    BY DEF Init, Stream
  <2>2. Len(Stream) = 0
    BY <2>1, EmptySeq, ConcatEmptySeq
  <2>3. \A j \in 1..Len(Stream) : FALSE
    BY <2>2
  <2>4. StreamOrder
    BY <2>3 DEF StreamOrder, InOrder, NoOlderThan, NoNewerThan
  <2>5. PanelOrder /\ FrameOrder
    BY DEF Init, PanelOrder, FrameOrder
  <2> QED BY <2>4, <2>5 DEF OrderInv
<1>2. TypeOK /\ TypeOK' /\ OrderInv /\ [Next]_vars => OrderInv'
  BY OrderStep
<1> QED BY <1>1, <1>2, TypeCorrect, PTL DEF Spec

\* A register of s_panel is never overwritten with an older reading, although
\* replies lag behind their requests, connections are lost and the client is
\* stopped and started, and rbuf keeps what it holds across all of them.
THEOREM MonotoneReadsHolds == Spec => MonotoneReads
<1> DEFINE Advances == \A r \in Registers : s_panel[r].at <= s_panel'[r].at
<1>1. TypeOK /\ OrderInv /\ [Next]_vars => [Advances]_s_panel
  <2> SUFFICES ASSUME TypeOK, OrderInv, [Next]_vars, s_panel' # s_panel
               PROVE  Advances
    OBVIOUS
  <2>1. ApplyFrame
    BY DEF Next, TaskStep, Callers, PanelReplies, vars, task,
       Begin, Connected, TcpConnect, ConnectRefused, Backoff, SendPoll, RecvData,
       RecvNothing, RecvTimeout, TakeMutex, NextCmd, NotifyLine, NotifyDone,
       Sleep, Loop, FlushOne, FlushDone, Lost, EnqueueCmd, ClientStop,
       ClientStart, AnswerWhole, AnswerSplit, DeliverTail, PanelChange,
       LinkBreak
  <2>2. /\ pc = "apply"
        /\ s_panel' = IF frame.cmd \in Registers
                      THEN [s_panel EXCEPT ![frame.cmd] =
                               [val |-> frame.val, at |-> frame.at]]
                      ELSE s_panel
    BY <2>1 DEF ApplyFrame
  <2>3. frame.cmd \in Registers => s_panel[frame.cmd].at <= frame.at
    BY <2>2 DEF OrderInv, FrameOrder
  <2>4. ASSUME NEW r \in Registers
        PROVE  s_panel[r].at <= s_panel'[r].at
    <3>1. s_panel[r].at \in Nat /\ s_panel \in [Registers -> [val : SUBSET Lines, at : Nat]]
      BY DEF TypeOK
    <3>2. CASE r = frame.cmd
      <4>1. s_panel'[r] = [val |-> frame.val, at |-> frame.at]
        BY <2>2, <3>1, <3>2
      <4> QED BY <2>3, <3>2, <4>1
    <3>3. CASE r # frame.cmd
      <4>1. s_panel'[r] = s_panel[r]
        BY <2>2, <3>1, <3>3
      <4> QED BY <3>1, <4>1
    <3> QED BY <3>2, <3>3
  <2> QED BY <2>4
<1> QED BY <1>1, OrderInvariant, PTL DEF Spec, MonotoneReads

-----------------------------------------------------------------------------
(* A frame is whole in the stream, or its head is orphaned.                *)

\* Every tail follows its own head.
TailsFollowHeads(s) ==
    \A k \in 1..Len(s) :
        s[k].half = "tail" => k > 1 /\ s[k - 1] = [s[k] EXCEPT !.half = "head"]

\* A prefix that ends in a tail leaves no tail without its head.
LEMMA FramedSuffix ==
    ASSUME NEW s \in Seq(Fragment), NEW t \in Seq(Fragment), NEW k \in Nat,
           Len(t) + k = Len(s), \A j \in 1..Len(t) : t[j] = s[j + k],
           k > 0 => s[k].half = "tail", TailsFollowHeads(s)
    PROVE  TailsFollowHeads(t)
<1> SUFFICES ASSUME NEW j \in 1..Len(t), t[j].half = "tail"
             PROVE  j > 1 /\ t[j - 1] = [t[j] EXCEPT !.half = "head"]
  BY DEF TailsFollowHeads
<1>1. Len(s) \in Nat /\ Len(t) \in Nat
  BY LenProperties
<1>2. j + k \in 1..Len(s) /\ t[j] = s[j + k]
  BY <1>1
<1>3. j + k > 1 /\ s[j + k - 1] = [s[j + k] EXCEPT !.half = "head"]
  BY <1>2 DEF TailsFollowHeads
<1>4. j > 1
  <2> SUFFICES ASSUME j = 1 PROVE FALSE
    BY <1>1
  <2>1. k > 0 /\ j + k - 1 = k
    BY <1>1, <1>3
  <2>2. s[k] = [s[j + k] EXCEPT !.half = "head"] /\ s[j + k] \in Fragment
    BY <1>2, <1>3, <2>1, ElementOfSeq
  <2>3. s[k].half = "head"
    BY <2>2 DEF Fragment
  <2> QED BY <2>1, <2>3
<1>5. j - 1 \in 1..Len(t) /\ j - 1 + k = j + k - 1
  BY <1>1, <1>4
<1>6. t[j - 1] = s[j + k - 1]
  BY <1>5
<1> QED BY <1>2, <1>3, <1>4, <1>6

\* So is what is left when the end of the stream is lost.
LEMMA FramedPrefix ==
    ASSUME NEW s \in Seq(Fragment), NEW t \in Seq(Fragment),
           Len(t) <= Len(s), \A j \in 1..Len(t) : t[j] = s[j],
           TailsFollowHeads(s)
    PROVE  TailsFollowHeads(t)
<1> SUFFICES ASSUME NEW j \in 1..Len(t), t[j].half = "tail"
             PROVE  j > 1 /\ t[j - 1] = [t[j] EXCEPT !.half = "head"]
  BY DEF TailsFollowHeads
<1>1. Len(s) \in Nat /\ Len(t) \in Nat
  BY LenProperties
<1>2. j \in 1..Len(s) /\ t[j] = s[j]
  BY <1>1
<1>3. j > 1 /\ s[j - 1] = [s[j] EXCEPT !.half = "head"]
  BY <1>2 DEF TailsFollowHeads
<1>4. j - 1 \in 1..Len(t)
  BY <1>1, <1>3
<1> QED BY <1>2, <1>3, <1>4

\* A stream that gains a head and its tail.
LEMMA FramedExtended ==
    ASSUME NEW s \in Seq(Fragment), NEW t \in Seq(Fragment), NEW a,
           Len(t) = Len(s) + 2, \A j \in 1..Len(s) : t[j] = s[j],
           t[Len(s) + 1] = [half |-> "head", of |-> a],
           t[Len(s) + 2] = [half |-> "tail", of |-> a],
           TailsFollowHeads(s)
    PROVE  TailsFollowHeads(t)
<1> SUFFICES ASSUME NEW j \in 1..Len(t), t[j].half = "tail"
             PROVE  j > 1 /\ t[j - 1] = [t[j] EXCEPT !.half = "head"]
  BY DEF TailsFollowHeads
<1>1. Len(s) \in Nat /\ Len(t) \in Nat
  BY LenProperties
<1>2. j \in 1..Len(s) \/ j = Len(s) + 1 \/ j = Len(s) + 2
  BY <1>1
<1>3. CASE j \in 1..Len(s)
  <2>1. j > 1 /\ s[j - 1] = [s[j] EXCEPT !.half = "head"]
    BY <1>3 DEF TailsFollowHeads
  <2>2. j - 1 \in 1..Len(s)
    BY <1>1, <1>3, <2>1
  <2> QED BY <1>3, <2>1, <2>2
<1>4. CASE j = Len(s) + 1
  BY <1>4
<1>5. CASE j = Len(s) + 2
  <2>1. j > 1 /\ j - 1 = Len(s) + 1
    BY <1>1, <1>5
  <2> QED BY <1>5, <2>1
<1> QED BY <1>2, <1>3, <1>4, <1>5

\* Every step keeps the frames of the stream whole.
LEMMA FramedStep ==
    ASSUME TypeOK, TypeOK', TailsFollowHeads(Stream), [Next]_vars
    PROVE  TailsFollowHeads(Stream')
<1>1. Stream \in Seq(Fragment) /\ Stream' \in Seq(Fragment)
  BY ThreeParts DEF Stream, TypeOK
<1> DEFINE s == Stream
           t == Stream'
<1>2. CASE RecvData
  <2>1. PICK k \in Nat : /\ Len(t) + k = Len(s)
                         /\ \A j \in 1..Len(t) : t[j] = s[j + k]
                         /\ k > 0 => s[k].half = "tail"
    BY <1>2, RecvDataShift
  <2> HIDE DEF s, t
  <2> QED BY <1>1, <2>1, FramedSuffix DEF s, t
<1>3. CASE AnswerWhole \/ AnswerSplit
  <2>1. PICK cmd \in Registers \cup {Ack} :
           /\ Len(t) = Len(s) + 2
           /\ \A j \in 1..Len(s) : t[j] = s[j]
           /\ t[Len(s) + 1] = [half |-> "head", of |-> Answer(cmd)]
           /\ t[Len(s) + 2] = [half |-> "tail", of |-> Answer(cmd)]
    BY <1>3, AnswerBehind
  <2> HIDE DEF s, t
  <2> QED BY <1>1, <2>1, FramedExtended DEF s, t
<1>4. CASE LinkBreak \/ Connected \/ Lost \/ ClientStop
  <2>1. /\ UNCHANGED rbuf /\ due' = <<>>
        /\ \E n \in 0..Len(arrived) :
              Len(arrived') = n /\ \A j \in 1..n : arrived'[j] = arrived[j]
    BY <1>4, ConnectionEnds
  <2>2. Len(t) <= Len(s) /\ \A j \in 1..Len(t) : t[j] = s[j]
    BY <2>1, CutShort
  <2> HIDE DEF s, t
  <2> QED BY <1>1, <2>2, FramedPrefix DEF s, t
<1>5. CASE DeliverTail
  BY <1>5, DeliverTailStays
<1>6. CASE \/ Begin \/ ConnectRefused \/ Backoff \/ SendPoll \/ RecvNothing
           \/ RecvTimeout \/ TakeMutex \/ ApplyFrame \/ NextCmd \/ NotifyLine
           \/ NotifyDone \/ Sleep \/ Loop \/ FlushOne \/ FlushDone
           \/ EnqueueCmd \/ ClientStart \/ PanelChange \/ UNCHANGED vars
  <2>1. UNCHANGED <<rbuf, arrived, due>>
    BY <1>6 DEF Begin, ConnectRefused, Backoff, SendPoll, RecvNothing,
       RecvTimeout, TakeMutex, ApplyFrame, NextCmd, NotifyLine, NotifyDone,
       Sleep, Loop, FlushOne, FlushDone, EnqueueCmd, ClientStart, PanelChange,
       vars, task, link
  <2> QED BY <2>1 DEF Stream
<1> QED BY <1>2, <1>3, <1>4, <1>5, <1>6 DEF Next, TaskStep, Callers, PanelReplies

\* A tail follows its own head at once on its way to the parser, whatever was
\* cut off and whatever rbuf kept from an earlier connection: what the parser
\* consumes ends in a tail, so it never leaves half a frame behind a whole one.
THEOREM WellFramedHolds == Spec => []WellFramed
<1>1. WellFramed <=> TailsFollowHeads(Stream)
  BY DEF WellFramed, TailsFollowHeads, Stream
<1>2. Init => WellFramed
  <2> SUFFICES ASSUME Init PROVE WellFramed
    OBVIOUS
  <2>1. Stream = <<>> \o <<>> \o <<>>
    BY DEF Init, Stream
  <2>2. Len(Stream) = 0
    BY <2>1, EmptySeq, ConcatEmptySeq
  <2>3. \A j \in 1..Len(Stream) : FALSE
    BY <2>2
  <2> QED BY <1>1, <2>3 DEF TailsFollowHeads
<1>3. TypeOK /\ TypeOK' /\ WellFramed /\ [Next]_vars => WellFramed'
  BY <1>1, FramedStep DEF WellFramed, TailsFollowHeads, Stream
<1> QED BY <1>2, <1>3, TypeCorrect, PTL DEF Spec
=============================================================================
