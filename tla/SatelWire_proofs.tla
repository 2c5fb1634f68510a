-------------------------- MODULE SatelWire_proofs --------------------------
(***************************************************************************)
(* What is proved of the two ends of the wire to the panel: the ring of    *)
(* commands (SatelCmdQueue) with one calling task, for every capacity, and *)
(* the frames (SatelFrame), for every byte, every chunk recv returns and   *)
(* every place a connection is cut.                                        *)
(***************************************************************************)
EXTENDS SatelCmdQueue, SatelFrame, SequenceTheorems, WellFoundedInduction, TLAPS

-----------------------------------------------------------------------------
(* Arithmetic of the ring.                                                 *)

\* With head h and tail t of a ring of N slots: how many slots are in use,
\* and which slot is the n-th.
HeldBetween(h, t, N) == IF t >= h THEN t - h ELSE t - h + N
NthSlot(h, n, N) == IF h + n < N THEN h + n ELSE h + n - N

\* The next index, and what moving either index does to the rest.
LEMMA RingArithmetic ==
    ASSUME NEW h \in Slots, NEW t \in Slots
    PROVE  /\ Succ(h) \in Slots
           /\ HeldBetween(h, t, QueueCap) \in 0..(QueueCap - 1)
           /\ h # t => HeldBetween(h, t, QueueCap) >= 1
           /\ h # t => HeldBetween(Succ(h), t, QueueCap)
                         = HeldBetween(h, t, QueueCap) - 1
           /\ Succ(t) # h <=> HeldBetween(h, t, QueueCap) <= QueueCap - 2
           /\ Succ(t) # h => HeldBetween(h, Succ(t), QueueCap)
                         = HeldBetween(h, t, QueueCap) + 1
           /\ \A n \in 0..(QueueCap - 2) :
                 NthSlot(Succ(h), n, QueueCap) = NthSlot(h, n + 1, QueueCap)
           /\ \A n \in 0..(HeldBetween(h, t, QueueCap) - 1) :
                 NthSlot(h, n, QueueCap) \in Slots \ {t}
           /\ NthSlot(h, HeldBetween(h, t, QueueCap), QueueCap) = t
BY CapAssumption DEF Slots, Succ, HeldBetween, NthSlot

-----------------------------------------------------------------------------
(* The inductive invariant.                                                *)

\* What the producer has done of its call, and what the consumer of its turn.
CallInv(p) ==
    pc[p] # "idle" =>
        /\ cmd[p] \in Cmds /\ next[p] = Succ(s_cmd_tail)
        /\ Held <= QueueCap - 2
        /\ pc[p] \in {"len", "publish"} => s_cmd_queue[s_cmd_tail] = cmd[p]
        /\ pc[p] = "publish" => s_cmd_len[s_cmd_tail] = cmd[p]
FlushInv ==
    /\ flush # "test" => s_cmd_head # s_cmd_tail
    /\ Popped \in Nat

IInv ==
    /\ TypeOK /\ QueuedIntact /\ FlushInv
    /\ \A p \in Producers : CallInv(p)

\* The empty ring satisfies the invariant.
LEMMA InitIInv == Init => IInv
<1> SUFFICES ASSUME Init PROVE IInv
  OBVIOUS
<1>1. Len(<<>>) = 0 /\ 0 \in Slots
  BY CapAssumption DEF Slots
<1>2. TypeOK
  BY <1>1, CapAssumption DEF Init, TypeOK
<1>3. Held = 0 /\ Popped = 0 /\ Len(accepted) = 0
  BY <1>1 DEF Init, Held, Popped
<1>4. QueuedIntact
  BY <1>3 DEF QueuedIntact
<1>5. FlushInv /\ \A p \in Producers : CallInv(p)
  BY <1>3 DEF Init, FlushInv, CallInv
<1> QED BY <1>2, <1>4, <1>5 DEF IInv

\* The slots in use, in terms of the two indices.
LEMMA HeldIs ==
    /\ Held = HeldBetween(s_cmd_head, s_cmd_tail, QueueCap)
    /\ \A n : SlotOf(n) = NthSlot(s_cmd_head, n, QueueCap)
BY DEF Held, SlotOf, HeldBetween, NthSlot

\* Each step of the producer and of the flushing task keeps the types.
LEMMA TypeStep ==
    ASSUME IInv, [Next]_vars
    PROVE  TypeOK'
<1> USE CapAssumption DEF IInv, TypeOK
<1>0. Succ(s_cmd_head) \in Slots /\ Succ(s_cmd_tail) \in Slots
  BY RingArithmetic
<1>1. ASSUME NEW p \in Producers, EnqueueBegin(p) PROVE TypeOK'
  BY <1>0, <1>1, SMTT(30) DEF EnqueueBegin, ring, calls
<1>2. ASSUME NEW p \in Producers, EnqueueBuild(p) PROVE TypeOK'
  BY <1>2 DEF EnqueueBuild
<1>3. ASSUME NEW p \in Producers, EnqueueLen(p) PROVE TypeOK'
  BY <1>3 DEF EnqueueLen
<1>4. ASSUME NEW p \in Producers, EnqueuePublish(p) PROVE TypeOK'
  <2>1. cmd[p] \in Cmds
    BY <1>4 DEF EnqueuePublish, CallInv
  <2>2. accepted' \in Seq(Cmds)
    BY <1>4, <2>1 DEF EnqueuePublish
  <2> QED BY <1>4, <2>2 DEF EnqueuePublish
<1>5. CASE FlushTest
  BY <1>5 DEF FlushTest, ring, calls
<1>6. CASE FlushSend
  <2>1. Frame(s_cmd_head) \in Cmds \cup {None, Torn}
    BY DEF Frame
  <2>2. sent' \in Seq(Cmds \cup {None, Torn})
    BY <1>6, <2>1 DEF FlushSend
  <2>3. flush' = "advance" /\ UNCHANGED <<ring, calls, accepted, issued>>
    BY <1>6 DEF FlushSend
  <2> QED BY <2>2, <2>3 DEF ring, calls
<1>7. CASE FlushAdvance
  BY <1>0, <1>7 DEF FlushAdvance, calls
<1>8. CASE UNCHANGED vars
  BY <1>8 DEF vars, ring, calls
<1> QED BY <1>1, <1>2, <1>3, <1>4, <1>5, <1>6, <1>7, <1>8 DEF Next, Enqueue, Flush

\* The head of the ring is what is next to be sent.
LEMMA HeadIsNext ==
    ASSUME IInv, flush = "send"
    PROVE  /\ Len(sent) + 1 \in 1..Len(accepted)
           /\ s_cmd_len[s_cmd_head] = accepted[Len(sent) + 1]
           /\ Frame(s_cmd_head) = accepted[Len(sent) + 1]
           /\ accepted[Len(sent) + 1] \in Cmds
<1>1. Held >= 1 /\ Held \in Nat
  <2>1. s_cmd_head \in Slots /\ s_cmd_tail \in Slots /\ s_cmd_head # s_cmd_tail
    BY DEF IInv, FlushInv, TypeOK
  <2>2. /\ HeldBetween(s_cmd_head, s_cmd_tail, QueueCap) >= 1
        /\ HeldBetween(s_cmd_head, s_cmd_tail, QueueCap) \in 0..(QueueCap - 1)
    BY <2>1, RingArithmetic
  <2> QED BY <2>2, HeldIs
<1>2. Popped = Len(sent) /\ Len(sent) \in Nat /\ Len(accepted) = Popped + Held
  BY LenProperties DEF IInv, TypeOK, QueuedIntact, Popped
<1>3. 0 \in 0..(Held - 1) /\ Popped + 0 + 1 = Len(sent) + 1
  BY <1>1, <1>2
<1>4. SlotOf(0) = s_cmd_head
  BY CapAssumption DEF IInv, TypeOK, Slots, SlotOf
<1>5. /\ s_cmd_queue[SlotOf(0)] = accepted[Popped + 0 + 1]
      /\ s_cmd_len[SlotOf(0)] = accepted[Popped + 0 + 1]
  BY <1>3 DEF IInv, QueuedIntact
<1>6. /\ s_cmd_queue[s_cmd_head] = accepted[Len(sent) + 1]
      /\ s_cmd_len[s_cmd_head] = accepted[Len(sent) + 1]
  BY <1>3, <1>4, <1>5
<1>7. Len(sent) + 1 \in 1..Len(accepted)
  BY <1>1, <1>2
<1>8. accepted[Len(sent) + 1] \in Cmds
  BY <1>7, ElementOfSeq DEF IInv, TypeOK
<1> QED BY <1>6, <1>7, <1>8 DEF Frame

\* One calling task: the slot it fills is outside the slots in use, and only
\* this call moves the tail.
LEMMA EnqueueStep ==
    ASSUME \A p, q \in Producers : p = q,
           IInv, TypeOK', NEW p \in Producers, Enqueue(p)
    PROVE  IInv'
<1> DEFINE h == s_cmd_head
           t == s_cmd_tail
<1>0. /\ h \in Slots /\ t \in Slots /\ Popped \in Nat
      /\ Len(accepted) = Popped + Held
      /\ Held \in 0..(QueueCap - 1)
      /\ \A n \in 0..(Held - 1) : SlotOf(n) \in Slots \ {t}
      /\ Succ(t) # h <=> Held <= QueueCap - 2
  BY RingArithmetic, HeldIs DEF IInv, TypeOK, FlushInv, QueuedIntact
<1>1. CASE EnqueueBegin(p)
  <2>1. UNCHANGED <<Held, Popped>> /\ UNCHANGED <<ring, flush, accepted, sent>>
    BY <1>1 DEF EnqueueBegin, Held, Popped, ring
  <2>2. QueuedIntact' /\ FlushInv'
    BY <2>1 DEF IInv, QueuedIntact, FlushInv, SlotOf, ring
  <2>3. CallInv(p)'
    BY <1>0, <1>1, <2>1 DEF EnqueueBegin, CallInv, IInv, TypeOK, ring, calls, Full
  <2> QED BY <2>2, <2>3 DEF IInv
<1>2. CASE EnqueueBuild(p)
  <2>1. /\ UNCHANGED <<s_cmd_head, s_cmd_tail, s_cmd_len, cmd, next, flush,
                       accepted, sent>>
        /\ s_cmd_queue' = [s_cmd_queue EXCEPT ![t] = cmd[p]]
        /\ pc[p] = "build" /\ pc'[p] = "len"
    BY <1>2 DEF EnqueueBuild, IInv, TypeOK
  <2>2. UNCHANGED <<Held, Popped>> /\ \A n : SlotOf(n)' = SlotOf(n)
    BY <2>1 DEF Held, Popped, SlotOf
  <2>3. \A n \in 0..(Held - 1) : s_cmd_queue'[SlotOf(n)] = s_cmd_queue[SlotOf(n)]
    BY <1>0, <2>1 DEF IInv, TypeOK
  <2>4. QueuedIntact' /\ FlushInv'
    BY <2>1, <2>2, <2>3 DEF IInv, QueuedIntact, FlushInv
  <2>5. CallInv(p)'
    BY <1>0, <2>1, <2>2 DEF CallInv, IInv, TypeOK
  <2> QED BY <2>4, <2>5 DEF IInv
<1>3. CASE EnqueueLen(p)
  <2>1. /\ UNCHANGED <<s_cmd_head, s_cmd_tail, s_cmd_queue, cmd, next, flush,
                       accepted, sent>>
        /\ s_cmd_len' = [s_cmd_len EXCEPT ![t] = cmd[p]]
        /\ pc[p] = "len" /\ pc'[p] = "publish"
    BY <1>3 DEF EnqueueLen, IInv, TypeOK
  <2>2. UNCHANGED <<Held, Popped>> /\ \A n : SlotOf(n)' = SlotOf(n)
    BY <2>1 DEF Held, Popped, SlotOf
  <2>3. \A n \in 0..(Held - 1) : s_cmd_len'[SlotOf(n)] = s_cmd_len[SlotOf(n)]
    BY <1>0, <2>1 DEF IInv, TypeOK
  <2>4. QueuedIntact' /\ FlushInv'
    BY <2>1, <2>2, <2>3 DEF IInv, QueuedIntact, FlushInv
  <2>5. CallInv(p)'
    BY <1>0, <2>1, <2>2 DEF CallInv, IInv, TypeOK
  <2> QED BY <2>4, <2>5 DEF IInv
<1>4. CASE EnqueuePublish(p)
  <2>1. /\ UNCHANGED <<s_cmd_head, s_cmd_queue, s_cmd_len, flush, sent>>
        /\ pc[p] = "publish" /\ pc'[p] = "idle"
        /\ s_cmd_tail' = Succ(t) /\ accepted' = Append(accepted, cmd[p])
        /\ cmd[p] \in Cmds
        /\ s_cmd_queue[t] = cmd[p] /\ s_cmd_len[t] = cmd[p]
        /\ Held <= QueueCap - 2
    BY <1>4 DEF EnqueuePublish, IInv, TypeOK, CallInv
  <2>2. /\ Held' = Held + 1 /\ Popped' = Popped
        /\ \A n : SlotOf(n)' = SlotOf(n)
        /\ SlotOf(Held) = t /\ Succ(t) # h
    <3>1. Held = HeldBetween(h, t, QueueCap) /\ Held' = HeldBetween(h, Succ(t), QueueCap)
      BY <2>1 DEF Held, HeldBetween
    <3>2. Succ(t) # h
      BY <1>0, <2>1
    <3>3. HeldBetween(h, Succ(t), QueueCap) = HeldBetween(h, t, QueueCap) + 1
      BY <1>0, <3>2, RingArithmetic
    <3>4. SlotOf(Held) = t
      BY <1>0, RingArithmetic, HeldIs
    <3> QED BY <2>1, <3>1, <3>2, <3>3, <3>4 DEF Popped, SlotOf
  <2>3. /\ Len(accepted') = Len(accepted) + 1
        /\ \A j \in 1..Len(accepted) : accepted'[j] = accepted[j]
        /\ accepted'[Len(accepted) + 1] = cmd[p]
    BY <2>1, AppendProperties DEF IInv, TypeOK
  <2>4. Len(accepted') = Popped + (Held + 1)
    BY <1>0, <2>3
  <2>5. ASSUME NEW n \in 0..Held
        PROVE  /\ s_cmd_queue[SlotOf(n)] = accepted'[Popped + n + 1]
               /\ s_cmd_len[SlotOf(n)] = accepted'[Popped + n + 1]
    <3>1. CASE n = Held
      <4>1. Popped + n + 1 = Len(accepted) + 1
        BY <1>0, <3>1
      <4> QED BY <2>1, <2>2, <2>3, <3>1, <4>1
    <3>2. CASE n # Held
      <4>1. n \in 0..(Held - 1) /\ Popped + n + 1 \in 1..Len(accepted)
        BY <1>0, <3>2
      <4> QED BY <2>3, <4>1 DEF IInv, QueuedIntact
    <3> QED BY <3>1, <3>2
  <2>6. QueuedIntact'
    <3>1. 0..(Held' - 1) = 0..Held
      BY <1>0, <2>2
    <3> QED BY <2>1, <2>2, <2>4, <2>5, <3>1 DEF QueuedIntact
  <2>7. FlushInv'
    BY <1>0, <2>1, <2>2 DEF FlushInv, IInv
  <2>8. CallInv(p)'
    BY <2>1 DEF CallInv
  <2> QED BY <2>6, <2>7, <2>8 DEF IInv
<1> QED BY <1>1, <1>2, <1>3, <1>4 DEF Enqueue

\* The consumer leaves the slots behind the head alone.
LEMMA FlushStep ==
    ASSUME IInv, TypeOK', Flush
    PROVE  IInv'
<1> DEFINE h == s_cmd_head
           t == s_cmd_tail
<1>0. /\ h \in Slots /\ t \in Slots /\ Popped \in Nat /\ Len(sent) \in Nat
      /\ Len(accepted) = Popped + Held
      /\ Held \in 0..(QueueCap - 1)
  BY RingArithmetic, HeldIs, LenProperties
     DEF IInv, TypeOK, FlushInv, QueuedIntact
<1>1. CASE FlushTest
  BY <1>1 DEF FlushTest, IInv, QueuedIntact, FlushInv, CallInv, Held, SlotOf,
     Popped, ring, calls, Pending
<1>2. CASE FlushSend
  <2>1. /\ UNCHANGED <<s_cmd_head, s_cmd_tail, s_cmd_queue, s_cmd_len, pc, cmd,
                       next, accepted>>
        /\ flush = "send" /\ flush' = "advance"
    BY <1>2 DEF FlushSend, ring, calls
  <2>2. sent' = Append(sent, Frame(h))
    BY <1>2, HeadIsNext, CmdAssumption DEF FlushSend
  <2>3. Len(sent') = Len(sent) + 1
    <3>1. Frame(h) \in Cmds \cup {None, Torn}
      BY <2>1, HeadIsNext
    <3> QED BY <2>2, <3>1, AppendProperties DEF IInv, TypeOK
  <2>4. Popped' = Popped
    BY <1>0, <2>1, <2>3 DEF Popped
  <2>5. Held' = Held /\ \A n : SlotOf(n)' = SlotOf(n)
    BY <2>1 DEF Held, SlotOf
  <2>6. QueuedIntact'
    BY <2>1, <2>4, <2>5 DEF IInv, QueuedIntact
  <2> QED BY <2>1, <2>4, <2>5, <2>6 DEF IInv, FlushInv, CallInv
<1>3. CASE FlushAdvance
  <2>1. /\ UNCHANGED <<s_cmd_tail, s_cmd_queue, s_cmd_len, pc, cmd, next,
                       accepted, sent>>
        /\ flush = "advance" /\ flush' = "test"
        /\ s_cmd_head' = Succ(h)
    BY <1>3 DEF FlushAdvance, calls
  <2>2. h # t
    BY <2>1 DEF IInv, FlushInv
  <2>3. Held >= 1 /\ Held' = Held - 1
    <3>1. Held = HeldBetween(h, t, QueueCap) /\ Held' = HeldBetween(Succ(h), t, QueueCap)
      BY <2>1 DEF Held, HeldBetween
    <3> QED BY <1>0, <2>2, <3>1, RingArithmetic
  <2>4. Popped' = Popped + 1
    BY <1>0, <2>1 DEF Popped
  <2>5. \A n \in 0..(Held - 2) : SlotOf(n)' = SlotOf(n + 1)
    <3>1. \A n : SlotOf(n)' = NthSlot(Succ(h), n, QueueCap)
      BY <2>1 DEF SlotOf, NthSlot
    <3>2. \A n \in 0..(QueueCap - 2) :
             NthSlot(Succ(h), n, QueueCap) = NthSlot(h, n + 1, QueueCap)
      BY <1>0, RingArithmetic
    <3>3. \A n : SlotOf(n) = NthSlot(h, n, QueueCap)
      BY HeldIs
    <3>4. \A n \in 0..(Held - 2) : n \in 0..(QueueCap - 2)
      BY <1>0, CapAssumption
    <3> QED BY <3>1, <3>2, <3>3, <3>4
  <2>6. Len(accepted') = Popped' + Held'
    BY <1>0, <2>1, <2>3, <2>4
  <2>7. ASSUME NEW n \in 0..(Held' - 1)
        PROVE  /\ s_cmd_queue'[SlotOf(n)'] = accepted'[Popped' + n + 1]
               /\ s_cmd_len'[SlotOf(n)'] = accepted'[Popped' + n + 1]
    <3>1. n \in 0..(Held - 2) /\ n + 1 \in 0..(Held - 1)
          /\ Popped' + n + 1 = Popped + (n + 1) + 1
      BY <1>0, <2>3, <2>4
    <3>2. /\ s_cmd_queue[SlotOf(n + 1)] = accepted[Popped + (n + 1) + 1]
          /\ s_cmd_len[SlotOf(n + 1)] = accepted[Popped + (n + 1) + 1]
      BY <3>1 DEF IInv, QueuedIntact
    <3> QED BY <2>1, <2>5, <3>1, <3>2
  <2>8. QueuedIntact'
    BY <2>6, <2>7 DEF QueuedIntact
  <2>9. FlushInv'
    BY <1>0, <2>1, <2>4 DEF FlushInv
  <2>10. \A p \in Producers : CallInv(p)'
    <3>1. Held' <= QueueCap - 2
      BY <1>0, <2>3, CapAssumption
    <3> QED BY <2>1, <3>1 DEF IInv, CallInv
  <2> QED BY <2>8, <2>9, <2>10 DEF IInv
<1> QED BY <1>1, <1>2, <1>3 DEF Flush

\* Each step of the producer and of the flushing task keeps the invariant.
LEMMA IInvStep ==
    ASSUME \A p, q \in Producers : p = q, IInv, [Next]_vars
    PROVE  IInv'
<1>1. TypeOK'
  BY TypeStep
<1>2. ASSUME NEW p \in Producers, Enqueue(p) PROVE IInv'
  BY <1>1, <1>2, EnqueueStep
<1>3. CASE Flush
  BY <1>1, <1>3, FlushStep
<1>4. CASE UNCHANGED vars
  BY <1>1, <1>4 DEF vars, ring, calls, IInv, QueuedIntact, FlushInv, CallInv,
     Held, SlotOf, Popped
<1> QED BY <1>2, <1>3, <1>4 DEF Next

-----------------------------------------------------------------------------
(* The theorems.                                                           *)

\* The relation of ring and histories holds in every state, one task enqueuing.
LEMMA IInvInvariant ==
    ASSUME \A p, q \in Producers : p = q
    PROVE  Spec => []IInv
<1>1. IInv /\ [Next]_vars => IInv'
  BY IInvStep
<1> QED BY <1>1, InitIInv, PTL DEF Spec

\* With one calling task the indices stay in the ring, and what is accepted are
\* commands.
THEOREM TypeCorrect ==
    ASSUME \A p, q \in Producers : p = q
    PROVE  Spec => []TypeOK
<1>1. IInv => TypeOK
  BY DEF IInv
<1> QED BY <1>1, IInvInvariant, PTL

\* With one calling task, a queued command is never overwritten or torn while
\* it waits, for every capacity of the ring.
THEOREM QueuedIntactHolds ==
    ASSUME \A p, q \in Producers : p = q
    PROVE  Spec => [](TypeOK /\ QueuedIntact)
<1>1. IInv => TypeOK /\ QueuedIntact
  BY DEF IInv
<1> QED BY <1>1, IInvInvariant, PTL

\* With one calling task, the ring implements a FIFO of one slot less than it
\* has: what is accepted is sent once, whole and in order.
THEOREM FifoRefinement ==
    ASSUME \A p, q \in Producers : p = q
    PROVE  Spec => FifoSpec
<1>1. Init => Fifo!Init
  BY DEF Init, Fifo!Init
<1>2. IInv /\ [Next]_vars => [Fifo!Next]_<<accepted, sent>>
  <2> SUFFICES ASSUME IInv, [Next]_vars
               PROVE  [Fifo!Next]_<<accepted, sent>>
    OBVIOUS
  <2>1. ASSUME NEW p \in Producers, EnqueuePublish(p)
        PROVE  Fifo!Accept
    <3>1. /\ cmd[p] \in Cmds /\ accepted' = Append(accepted, cmd[p])
          /\ UNCHANGED sent /\ Held <= QueueCap - 2
      BY <2>1 DEF EnqueuePublish, IInv, CallInv
    <3>2. /\ Len(accepted) = Popped + Held /\ Popped <= Len(sent)
          /\ Popped \in Nat /\ Held \in Nat /\ Len(sent) \in Nat
      <4>1. s_cmd_head \in Slots /\ s_cmd_tail \in Slots
        BY DEF IInv, TypeOK
      <4>2. Held \in Nat
        BY <4>1, RingArithmetic, HeldIs
      <4>3. Len(accepted) = Popped + Held /\ Popped \in Nat
        BY DEF IInv, QueuedIntact, FlushInv
      <4>4. Len(sent) \in Nat
        BY LenProperties DEF IInv, TypeOK
      <4>5. Popped <= Len(sent)
        BY <4>4 DEF Popped
      <4> QED BY <4>2, <4>3, <4>4, <4>5
    <3>3. Len(accepted) - Len(sent) < QueueCap - 1
      BY <3>1, <3>2, CapAssumption
    <3> QED BY <3>1, <3>3 DEF Fifo!Accept
  <2>2. CASE FlushSend
    <3>1. flush = "send" /\ UNCHANGED accepted
      BY <2>2 DEF FlushSend
    <3>2. /\ sent' = Append(sent, accepted[Len(sent) + 1])
          /\ Len(sent) + 1 \in 1..Len(accepted)
      BY <2>2, <3>1, HeadIsNext, CmdAssumption DEF FlushSend
    <3>3. Len(sent) < Len(accepted)
      BY <3>2, LenProperties DEF IInv, TypeOK
    <3> QED BY <3>1, <3>2, <3>3 DEF Fifo!Next, Fifo!Send
  <2>3. ASSUME NEW p \in Producers,
               EnqueueBegin(p) \/ EnqueueBuild(p) \/ EnqueueLen(p)
        PROVE  UNCHANGED <<accepted, sent>>
    BY <2>3 DEF EnqueueBegin, EnqueueBuild, EnqueueLen
  <2>4. CASE FlushTest \/ FlushAdvance \/ UNCHANGED vars
    BY <2>4 DEF FlushTest, FlushAdvance, vars
  <2> QED BY <2>1, <2>2, <2>3, <2>4 DEF Next, Flush, Enqueue, Fifo!Next
<1> QED BY <1>1, <1>2, IInvInvariant, PTL DEF Spec, FifoSpec, Fifo!Spec

-----------------------------------------------------------------------------
(* SatelFrame.  Sequences first: induction over them, and FlattenSeq.      *)

\* A set of natural numbers has a least element.
LEMMA LeastElement ==
    ASSUME NEW T \in SUBSET Nat, T # {}
    PROVE  \E m \in T : \A n \in T : m <= n
<1> DEFINE R == OpToRel(<, Nat)
<1>1. IsWellFoundedOn(R, Nat)
  BY NatLessThanWellFounded
<1>2. \A x, y \in Nat : x < y => <<x, y>> \in R
  BY DEF OpToRel
<1> HIDE DEF R
<1>3. PICK m \in T : \A n \in T : ~(<<n, m>> \in R)
  BY <1>1, WFMin
<1>4. \A n \in T : m \in Nat /\ n \in Nat /\ ~(n < m)
  BY <1>2, <1>3
<1>5. \A n \in T : m <= n
  BY <1>4
<1> QED  BY <1>3, <1>5

\* Induction: a set of numbers that holds zero and with each number the next
\* one holds all.
LEMMA Induction ==
    ASSUME NEW T \in SUBSET Nat, 0 \in T, \A n \in T : n + 1 \in T
    PROVE  T = Nat
<1> SUFFICES ASSUME Nat \ T # {} PROVE FALSE
  OBVIOUS
<1>1. PICK m \in Nat \ T : \A n \in Nat \ T : m <= n
  BY LeastElement
<1>2. m - 1 \in Nat /\ ~(m <= m - 1)
  BY <1>1
<1>3. m - 1 \in T
  BY <1>1, <1>2
<1> QED  BY <1>1, <1>3

\* Induction over sequences: a set of them that holds the empty one, and with each
\* sequence that one with any element appended, holds all.
LEMMA SequenceInduction ==
    ASSUME NEW X, NEW T \in SUBSET Seq(X), <<>> \in T,
           \A s \in T, x \in X : Append(s, x) \in T
    PROVE  T = Seq(X)
<1> DEFINE Long(n) == {s \in Seq(X) : Len(s) = n}
           M == {n \in Nat : Long(n) \subseteq T}
<1>1. 0 \in M
  <2>1. \A s \in Seq(X) : Len(s) = 0 => s = <<>>
    BY EmptySeq
  <2> QED  BY <2>1
<1>2. ASSUME NEW n \in M PROVE n + 1 \in M
  <2>1. SUFFICES ASSUME NEW s \in Seq(X), Len(s) = n + 1 PROVE s \in T
    BY <1>2
  <2>2. n \in Nat /\ \A u \in Seq(X) : Len(u) = n => u \in T
    BY <1>2
  <2>3. s # <<>>
    BY <2>1, <2>2, EmptySeq
  <2>4. PICK u \in Seq(X), x \in X : s = Append(u, x)
    BY <2>3, SequenceEmptyOrAppend
  <2>5. Len(s) = Len(u) + 1 /\ Len(u) \in Nat
    BY <2>4, AppendProperties, LenProperties
  <2>6. Len(u) = n
    BY <2>1, <2>2, <2>5
  <2>7. u \in T
    BY <2>2, <2>6
  <2> QED  BY <2>4, <2>7
<1> HIDE DEF M
<1>3. M \in SUBSET Nat
  BY DEF M
<1>4. M = Nat
  BY <1>1, <1>2, <1>3, Induction
<1>5. ASSUME NEW s \in Seq(X) PROVE s \in T
  <2>1. Len(s) \in Nat
    BY LenProperties
  <2> QED  BY <1>4, <2>1 DEF M
<1> QED  BY <1>5

\* The partial concatenations of a sequence of sequences, from left to right.
Concatenates(f, ss, N) ==
    f[0] = <<>> /\ \A n \in 1..N : f[n] = f[n - 1] \o ss[n]

\* There are such.
LEMMA ConcatenationExists ==
    ASSUME NEW X, NEW ss \in Seq(Seq(X))
    PROVE  \E f \in [0..Len(ss) -> Seq(X)] : Concatenates(f, ss, Len(ss))
<1> DEFINE T == {N \in Nat : N <= Len(ss) =>
                    \E f \in [0..N -> Seq(X)] : Concatenates(f, ss, N)}
<1>0. Len(ss) \in Nat /\ \A n \in 1..Len(ss) : ss[n] \in Seq(X)
  BY LenProperties, ElementOfSeq
<1>1. 0 \in T
  <2> DEFINE z == [n \in 0..0 |-> <<>>]
  <2>1. z \in [0..0 -> Seq(X)] /\ z[0] = <<>>
    BY EmptySeq
  <2>2. Concatenates(z, ss, 0)
    BY <2>1 DEF Concatenates
  <2> QED  BY <2>1, <2>2
<1>2. ASSUME NEW N \in T PROVE N + 1 \in T
  <2> SUFFICES ASSUME N + 1 <= Len(ss)
               PROVE  \E f \in [0..(N + 1) -> Seq(X)] : Concatenates(f, ss, N + 1)
    OBVIOUS
  <2>1. N \in Nat /\ N <= Len(ss)
    BY <1>0
  <2>2. PICK f \in [0..N -> Seq(X)] : Concatenates(f, ss, N)
    BY <1>2, <2>1
  <2> DEFINE g == [n \in 0..(N + 1) |-> IF n = N + 1 THEN f[N] \o ss[N + 1] ELSE f[n]]
  <2>3. N \in 0..N /\ f[N] \in Seq(X) /\ ss[N + 1] \in Seq(X)
    BY <1>0, <2>1
  <2>4. f[N] \o ss[N + 1] \in Seq(X)
    BY <2>3, ConcatProperties
  <2>5. g \in [0..(N + 1) -> Seq(X)]
    BY <2>1, <2>4
  <2>6. g[0] = <<>>
    BY <2>1, <2>2 DEF Concatenates
  <2>7. ASSUME NEW n \in 1..(N + 1) PROVE g[n] = g[n - 1] \o ss[n]
    <3>1. n - 1 \in 0..N /\ g[n - 1] = f[n - 1]
      BY <2>1
    <3>2. CASE n = N + 1
      <4>1. n - 1 = N /\ g[n] = f[N] \o ss[N + 1]
        BY <2>1, <3>2
      <4> QED  BY <3>1, <3>2, <4>1
    <3>3. CASE n \in 1..N
      <4>1. g[n] = f[n]
        BY <2>1, <3>3
      <4>2. f[n] = f[n - 1] \o ss[n]
        BY <2>2, <3>3 DEF Concatenates
      <4> QED  BY <3>1, <4>1, <4>2, Zenon
    <3>4. n = N + 1 \/ n \in 1..N
      BY <2>1
    <3> QED  BY <3>2, <3>3, <3>4, Zenon
  <2> HIDE DEF g
  <2>8. Concatenates(g, ss, N + 1)
    BY <2>6, <2>7 DEF Concatenates
  <2> QED  BY <2>5, <2>8
<1> HIDE DEF T
<1>3. T \in SUBSET Nat
  BY DEF T
<1>4. T = Nat
  BY <1>1, <1>2, <1>3, Induction
<1>5. Len(ss) \in T
  BY <1>0, <1>4
<1> QED  BY <1>5 DEF T

\* FlattenSeq is the concatenation from left to right.
LEMMA FlattenIs ==
    ASSUME NEW X, NEW ss \in Seq(Seq(X)),
           NEW f \in [0..Len(ss) -> Seq(X)], Concatenates(f, ss, Len(ss))
    PROVE  FlattenSeq(ss) = f[Len(ss)]
<1>1. Len(ss) \in Nat /\ \A n \in 1..Len(ss) : ss[n] \in Seq(X)
  BY LenProperties, ElementOfSeq
<1>0. f[0] = <<>> /\ \A n \in 1..Len(ss) : f[n] = f[n - 1] \o ss[n]
  BY DEF Concatenates
<1>2. CASE Len(ss) = 0
  <2>1. ss = <<>>
    BY <1>2, EmptySeq
  <2> QED  BY <1>0, <1>2, <2>1 DEF FlattenSeq
<1>3. CASE Len(ss) # 0
  <2> DEFINE Flattens(h) ==
               h = [i \in 1..Len(ss) |-> IF i = 1 THEN ss[i] ELSE h[i - 1] \o ss[i]]
             g == [i \in 1..Len(ss) |-> f[i]]
             fl == CHOOSE h : Flattens(h)
  <2>1. Flattens(g)
    <3>1. 1 \in 1..Len(ss) /\ ss[1] \in Seq(X)
      BY <1>1, <1>3
    <3>2. f[1] = ss[1]
      <4>1. f[1] = f[1 - 1] \o ss[1]
        BY <1>0, <3>1
      <4>2. f[1 - 1] = <<>>
        BY <1>0
      <4> QED  BY <3>1, <4>1, <4>2, ConcatEmptySeq
    <3>3. ASSUME NEW i \in 1..Len(ss)
          PROVE  f[i] = IF i = 1 THEN ss[i] ELSE g[i - 1] \o ss[i]
      <4>1. CASE i = 1
        BY <3>2, <4>1
      <4>2. CASE i # 1
        <5>1. i - 1 \in 1..Len(ss)
          BY <1>1, <4>2
        <5>2. g[i - 1] = f[i - 1]
          BY <5>1
        <5> QED  BY <1>0, <4>2, <5>2
      <4> QED  BY <4>1, <4>2
    <3> QED  BY <3>3
  <2>2. Flattens(fl)
    BY <2>1
  <2>3. FlattenSeq(ss) = fl[Len(ss)]
    BY <1>3 DEF FlattenSeq
  <2> HIDE DEF fl
  <2>4. ASSUME NEW i \in 1..Len(ss)
        PROVE  /\ fl[i] = IF i = 1 THEN ss[i] ELSE fl[i - 1] \o ss[i]
               /\ f[i] = IF i = 1 THEN ss[i] ELSE f[i - 1] \o ss[i]
    <3>1. g[i] = IF i = 1 THEN ss[i] ELSE g[i - 1] \o ss[i]
      BY <2>1
    <3>2. i # 1 => i - 1 \in 1..Len(ss)
      BY <1>1
    <3> QED  BY <2>2, <3>1, <3>2
  <2> HIDE DEF g, Flattens
  <2> DEFINE T == {n \in Nat : n + 1 \in 1..Len(ss) => fl[n + 1] = f[n + 1]}
  <2>5. 0 \in T
    BY <1>1, <1>3, <2>4
  <2>6. ASSUME NEW n \in T PROVE n + 1 \in T
    <3> SUFFICES ASSUME n + 2 \in 1..Len(ss) PROVE fl[n + 2] = f[n + 2]
      BY <2>6
    <3>1. fl[n + 1] = f[n + 1]
      BY <1>1, <2>6
    <3>2. n + 2 # 1 /\ (n + 2) - 1 = n + 1
      BY <2>6
    <3> QED  BY <2>4, <3>1, <3>2
  <2>7. T = Nat
    BY <2>5, <2>6, Induction
  <2>8. Len(ss) - 1 \in Nat /\ (Len(ss) - 1) + 1 = Len(ss) /\ Len(ss) \in 1..Len(ss)
    BY <1>1, <1>3
  <2>9. fl[Len(ss)] = f[Len(ss)]
    BY <2>7, <2>8
  <2> QED  BY <2>3, <2>9
<1> QED  BY <1>2, <1>3

\* Concatenating one sequence more.
LEMMA FlattenAppend ==
    ASSUME NEW X, NEW ss \in Seq(Seq(X)), NEW s \in Seq(X)
    PROVE  /\ FlattenSeq(ss) \in Seq(X)
           /\ FlattenSeq(Append(ss, s)) = FlattenSeq(ss) \o s
<1> DEFINE tt == Append(ss, s)
<1>1. /\ tt \in Seq(Seq(X)) /\ Len(tt) = Len(ss) + 1 /\ Len(ss) \in Nat
      /\ \A n \in 1..Len(ss) : tt[n] = ss[n]
      /\ tt[Len(ss) + 1] = s
  BY AppendProperties, LenProperties
<1> HIDE DEF tt
<1>2. PICK f \in [0..Len(tt) -> Seq(X)] : Concatenates(f, tt, Len(tt))
  BY <1>1, ConcatenationExists
<1>3. FlattenSeq(tt) = f[Len(tt)]
  BY <1>1, <1>2, FlattenIs
<1>4. f[0] = <<>> /\ \A n \in 1..Len(tt) : f[n] = f[n - 1] \o tt[n]
  BY <1>2 DEF Concatenates
<1> DEFINE g == [n \in 0..Len(ss) |-> f[n]]
<1>5. g \in [0..Len(ss) -> Seq(X)] /\ g[0] = <<>>
  <2>1. \A n \in 0..Len(ss) : n \in 0..Len(tt)
    BY <1>1
  <2>2. 0 \in 0..Len(ss)
    BY <1>1
  <2> QED  BY <1>4, <2>1, <2>2
<1>6. ASSUME NEW n \in 1..Len(ss) PROVE g[n] = g[n - 1] \o ss[n]
  <2>1. n \in 1..Len(tt) /\ n \in 0..Len(ss) /\ n - 1 \in 0..Len(ss)
    BY <1>1
  <2>2. g[n] = f[n] /\ g[n - 1] = f[n - 1]
    BY <2>1
  <2> QED  BY <1>1, <1>4, <2>1, <2>2
<1>7. /\ Len(ss) \in 0..Len(ss) /\ Len(ss) \in 0..Len(tt)
      /\ Len(tt) \in 1..Len(tt) /\ Len(tt) - 1 = Len(ss)
  BY <1>1
<1>8. g[Len(ss)] = f[Len(ss)] /\ f[Len(ss)] \in Seq(X)
  BY <1>7
<1> HIDE DEF g
<1>9. Concatenates(g, ss, Len(ss))
  BY <1>5, <1>6 DEF Concatenates
<1>10. FlattenSeq(ss) = g[Len(ss)]
  BY <1>5, <1>9, FlattenIs
<1>11. f[Len(tt)] = f[Len(ss)] \o s
  BY <1>1, <1>4, <1>7
<1> QED  BY <1>3, <1>8, <1>10, <1>11 DEF tt

\* The numbers of 16 bits.
Word == 0..65535

\* The CRC starts with one of them, and they are integers.
LEMMA WordIsNumber == 5242 \in Word /\ \A w \in Word : w \in Int
BY DEF Word

\* One step of the CRC stays in 16 bits.
LEMMA CrcStepRange ==
    ASSUME NEW crc \in Int, NEW b \in Int PROVE CrcStep(crc, b) \in Word
<1>1. \A x \in Int : x % 65536 \in Word
  BY DEF Word
<1> DEFINE rotated == ((2 * crc) % 65536) + (crc \div 32768)
           inverted == 65535 - rotated
           sum == inverted + (inverted \div 256) + b
<1>2. rotated \in Int
  OBVIOUS
<1> HIDE DEF rotated
<1>3. sum \in Int
  BY <1>2
<1>4. CrcStep(crc, b) = sum % 65536
  BY DEF CrcStep, rotated
<1> HIDE DEF sum
<1> QED  BY <1>1, <1>3, <1>4

\* The CRC of a sequence of numbers is a number of 16 bits.
LEMMA CrcRange ==
    ASSUME NEW bytes \in Seq(Nat)
    PROVE  Crc(bytes) \in Word
<1> DEFINE L == Len(bytes)
           Computes(h) == h = [n \in 0..L |-> IF n = 0 THEN 5242
                                              ELSE CrcStep(h[n - 1], bytes[n])]
           Steps(h, N) == h[0] = 5242 /\ \A n \in 1..N : h[n] = CrcStep(h[n - 1], bytes[n])
           crc == CHOOSE h : Computes(h)
<1>1. L \in Nat /\ \A n \in 1..L : bytes[n] \in Int
  BY LenProperties, ElementOfSeq
<1>2. Crc(bytes) = crc[L]
  BY Zenon DEF Crc
<1> HIDE DEF L
<1>3. \A v \in Int : \A n \in 1..L : CrcStep(v, bytes[n]) \in Word
  BY <1>1, CrcStepRange
<1> DEFINE T == {N \in Nat : N <= L => \E h \in [0..N -> Word] : Steps(h, N)}
<1>4. 0 \in T
  <2> DEFINE z == [n \in 0..0 |-> 5242]
  <2>1. z \in [0..0 -> Word] /\ z[0] = 5242
    BY WordIsNumber
  <2> HIDE DEF z
  <2>2. Steps(z, 0)
    BY <2>1
  <2> HIDE DEF Steps
  <2> QED  BY <2>1, <2>2
<1>5. ASSUME NEW N \in T PROVE N + 1 \in T
  <2> SUFFICES ASSUME N + 1 <= L
               PROVE  \E h \in [0..(N + 1) -> Word] : Steps(h, N + 1)
    OBVIOUS
  <2>1. N \in Nat /\ N <= L /\ N + 1 \in 1..L
    BY <1>1
  <2>2. PICK h \in [0..N -> Word] : Steps(h, N)
    BY <1>5, <2>1
  <2> DEFINE g == [n \in 0..(N + 1) |-> IF n = N + 1 THEN CrcStep(h[N], bytes[N + 1])
                                        ELSE h[n]]
  <2>3. h[N] \in Int
    BY <2>1, WordIsNumber
  <2>4. CrcStep(h[N], bytes[N + 1]) \in Word
    BY <1>3, <2>1, <2>3
  <2>5. g \in [0..(N + 1) -> Word]
    BY <2>1, <2>4
  <2>6. g[0] = 5242
    BY <2>1, <2>2
  <2>7. ASSUME NEW n \in 1..(N + 1) PROVE g[n] = CrcStep(g[n - 1], bytes[n])
    <3>1. n - 1 \in 0..N /\ g[n - 1] = h[n - 1]
      BY <2>1
    <3>2. CASE n = N + 1
      <4>1. n - 1 = N /\ g[n] = CrcStep(h[N], bytes[N + 1])
        BY <2>1, <3>2
      <4> QED  BY <3>1, <3>2, <4>1
    <3>3. CASE n \in 1..N
      <4>1. g[n] = h[n]
        BY <2>1, <3>3
      <4> QED  BY <2>2, <3>1, <3>3, <4>1
    <3> QED  BY <2>1, <3>2, <3>3
  <2> HIDE DEF g
  <2>8. Steps(g, N + 1)
    BY <2>6, <2>7
  <2> HIDE DEF Steps
  <2> QED  BY <2>5, <2>8
<1> HIDE DEF T
<1>6. T \in SUBSET Nat
  BY DEF T
<1>7. T = Nat
  BY <1>4, <1>5, <1>6, Induction
<1>8. L \in T
  BY <1>1, <1>7
<1>9. PICK h \in [0..L -> Word] : Steps(h, L)
  BY <1>1, <1>8, SMTT(30) DEF T
<1>10. Computes(h)
  <2>1. ASSUME NEW n \in 0..L
        PROVE  h[n] = IF n = 0 THEN 5242 ELSE CrcStep(h[n - 1], bytes[n])
    <3>1. n # 0 => n \in 1..L
      BY <1>1
    <3> QED  BY <1>9, <3>1
  <2>2. h = [n \in 0..L |-> h[n]]
    OBVIOUS
  <2>3. [n \in 0..L |-> h[n]] = [n \in 0..L |-> IF n = 0 THEN 5242
                                                ELSE CrcStep(h[n - 1], bytes[n])]
    BY <2>1
  <2> QED  BY <2>2, <2>3
<1>11. Computes(crc)
  <2> HIDE DEF Computes
  <2>1. \E f : Computes(f)
    BY <1>10
  <2> QED  BY <2>1
<1> HIDE DEF crc
<1>12. \A n \in 0..L : crc[n] = IF n = 0 THEN 5242 ELSE CrcStep(crc[n - 1], bytes[n])
  BY <1>11
<1> HIDE DEF Computes
<1> DEFINE U == {n \in Nat : n <= L => crc[n] \in Word}
<1>13. 0 \in U
  BY <1>1, <1>12, WordIsNumber
<1>14. ASSUME NEW n \in U PROVE n + 1 \in U
  <2> SUFFICES ASSUME n + 1 <= L PROVE crc[n + 1] \in Word
    BY <1>14
  <2>1. /\ n \in Nat /\ n <= L /\ n + 1 # 0 /\ (n + 1) - 1 = n
        /\ n + 1 \in 1..L /\ n + 1 \in 0..L
    BY <1>1
  <2>2. crc[n] \in Int
    BY <1>14, <2>1, WordIsNumber
  <2>3. crc[n + 1] = CrcStep(crc[n], bytes[n + 1])
    BY <1>12, <2>1
  <2> QED  BY <1>3, <2>1, <2>2, <2>3
<1>15. U = Nat
  <2> HIDE DEF U
  <2>1. U \in SUBSET Nat
    BY DEF U
  <2> QED  BY <1>13, <1>14, <2>1, Induction
<1>16. crc[L] \in Word
  BY <1>1, <1>15
<1> QED  BY <1>2, <1>16, Zenon
-----------------------------------------------------------------------------
(* Byte stuffing, one byte more at a time.                                 *)

\* A function on 1..n is a sequence.
LEMMA FunctionIsSeq ==
    ASSUME NEW S, NEW n \in Nat, NEW f \in [1..n -> S]
    PROVE  f \in Seq(S) /\ Len(f) = n
<1>1. f \in Seq(S)
  BY SeqDef
<1>2. DOMAIN f = 1..Len(f) /\ DOMAIN f = 1..n /\ Len(f) \in Nat
  BY <1>1, LenProperties
<1>3. \A k \in Nat : k \in 1..Len(f) <=> k \in 1..n
  BY <1>2
<1>4. Len(f) = n
  <2>1. CASE Len(f) > n
    <3>1. Len(f) \in 1..Len(f) /\ ~(Len(f) \in 1..n)
      BY <1>2, <2>1
    <3> QED  BY <1>2, <1>3, <3>1
  <2>2. CASE n > Len(f)
    <3>1. n \in 1..n /\ ~(n \in 1..Len(f))
      BY <1>2, <2>2
    <3> QED  BY <1>3, <3>1
  <2> QED  BY <1>2, <2>1, <2>2
<1> QED  BY <1>1, <1>4

\* What a byte is sent as, and what is left of it between two others.
Stuffing(x) == IF x = FE THEN <<FE, F0>> ELSE <<x>>
Unstuffing(bytes, k) ==
    IF k > 1 /\ bytes[k] = F0 /\ bytes[k - 1] = FE THEN <<>> ELSE <<bytes[k]>>

\* Both are short sequences of bytes.
LEMMA PiecesAreSeqs ==
    /\ \A x \in Nat : Stuffing(x) \in Seq(Nat) /\ Len(Stuffing(x)) \in 1..2
    /\ \A bytes, k : bytes[k] \in Nat =>
          Unstuffing(bytes, k) \in Seq(Nat) /\ Len(Unstuffing(bytes, k)) \in 0..1
BY DEF Stuffing, Unstuffing, FE, F0

\* If the pieces of a sequence and of the same with an element appended agree as far
\* as the first goes, the second flattens to the first and its last piece.
LEMMA PiecesAppend ==
    ASSUME NEW n \in Nat, NEW ss \in [1..n -> Seq(Nat)],
           NEW tt \in [1..(n + 1) -> Seq(Nat)],
           \A k \in 1..n : tt[k] = ss[k]
    PROVE  /\ FlattenSeq(ss) \in Seq(Nat)
           /\ FlattenSeq(tt) = FlattenSeq(ss) \o tt[n + 1]
<1> DEFINE S == Seq(Nat)
           m == n + 1
<1>1. m \in Nat /\ m \in 1..m /\ \A k \in 1..m : k \in 1..n \/ k = m
  OBVIOUS
<1>2. ss \in Seq(S) /\ Len(ss) = n /\ tt \in Seq(S) /\ Len(tt) = m /\ tt[m] \in S
  <2> HIDE DEF S
  <2>1. ss \in [1..n -> S] /\ tt \in [1..m -> S]
    BY DEF S
  <2> HIDE DEF m
  <2> QED  BY <1>1, <2>1, FunctionIsSeq
<1>3. tt = Append(ss, tt[m])
  <2> HIDE DEF S
  <2> DEFINE aa == Append(ss, tt[m])
  <2>1. /\ aa \in Seq(S) /\ Len(aa) = n + 1
        /\ \A k \in 1..n : aa[k] = ss[k]
        /\ aa[n + 1] = tt[m]
    BY <1>2, AppendProperties
  <2> HIDE DEF aa
  <2>2. \A k \in 1..Len(tt) : tt[k] = aa[k]
    BY <1>1, <1>2, <2>1
  <2>3. Len(tt) = Len(aa)
    BY <1>2, <2>1
  <2>4. tt = aa
    BY <1>2, <2>1, <2>2, <2>3, SeqEqual
  <2> QED  BY <2>4 DEF aa
<1>4. /\ FlattenSeq(ss) \in Seq(Nat)
      /\ FlattenSeq(Append(ss, tt[m])) = FlattenSeq(ss) \o tt[m]
  BY <1>2, FlattenAppend
<1> QED  BY <1>3, <1>4

\* One byte more to send.
LEMMA EscapeAppend ==
    ASSUME NEW b \in Seq(Nat), NEW x \in Nat
    PROVE  /\ Escape(b) \in Seq(Nat)
           /\ Escape(Append(b, x)) = Escape(b) \o Stuffing(x)
<1> DEFINE a == Append(b, x)
           n == Len(b)
           ss == [k \in 1..n |-> Stuffing(b[k])]
           tt == [k \in 1..(n + 1) |-> Stuffing(a[k])]
<1>1. /\ n \in Nat /\ \A k \in 1..n : b[k] \in Nat
      /\ Len(a) = n + 1 /\ a[n + 1] = x /\ \A k \in 1..n : a[k] = b[k]
  BY LenProperties, ElementOfSeq, AppendProperties
<1>2. Escape(b) = FlattenSeq(ss)
  BY DEF Escape, Stuffing
<1>3. Escape(a) = FlattenSeq(tt)
  BY <1>1 DEF Escape, Stuffing
<1> HIDE DEF a, n
<1>4. ss \in [1..n -> Seq(Nat)]
  BY <1>1, PiecesAreSeqs
<1>5. \A k \in 1..(n + 1) : a[k] \in Nat /\ (k \in 1..n \/ k = n + 1)
  BY <1>1
<1>6. tt \in [1..(n + 1) -> Seq(Nat)]
  BY <1>5, PiecesAreSeqs
<1>7. \A k \in 1..n : tt[k] = ss[k]
  BY <1>1
<1>8. tt[n + 1] = Stuffing(x)
  BY <1>1
<1> HIDE DEF ss, tt
<1>9. /\ FlattenSeq(ss) \in Seq(Nat)
      /\ FlattenSeq(tt) = FlattenSeq(ss) \o tt[n + 1]
  BY <1>1, <1>4, <1>6, <1>7, PiecesAppend
<1> QED  BY <1>2, <1>3, <1>8, <1>9 DEF a

\* One byte more between FE FE and FE 0D.
LEMMA UnescapeAppend ==
    ASSUME NEW c \in Seq(Nat), NEW x \in Nat
    PROVE  /\ Unescape(c) \in Seq(Nat)
           /\ Unescape(Append(c, x)) = Unescape(c) \o
                 (IF c # <<>> /\ x = F0 /\ c[Len(c)] = FE THEN <<>> ELSE <<x>>)
<1> DEFINE a == Append(c, x)
           n == Len(c)
           ss == [k \in 1..n |-> Unstuffing(c, k)]
           tt == [k \in 1..(n + 1) |-> Unstuffing(a, k)]
<1>1. /\ n \in Nat /\ \A k \in 1..n : c[k] \in Nat
      /\ Len(a) = n + 1 /\ a[n + 1] = x /\ \A k \in 1..n : a[k] = c[k]
      /\ c # <<>> <=> n > 0
  BY LenProperties, ElementOfSeq, AppendProperties, EmptySeq
<1>2. Unescape(c) = FlattenSeq(ss)
  BY DEF Unescape, Unstuffing
<1>3. Unescape(a) = FlattenSeq(tt)
  BY <1>1 DEF Unescape, Unstuffing
<1> HIDE DEF a, n
<1>4. ss \in [1..n -> Seq(Nat)]
  BY <1>1, PiecesAreSeqs
<1>5. \A k \in 1..(n + 1) : a[k] \in Nat /\ (k \in 1..n \/ k = n + 1)
  BY <1>1
<1>6. tt \in [1..(n + 1) -> Seq(Nat)]
  BY <1>5, PiecesAreSeqs
<1>7. \A k \in 1..n : tt[k] = ss[k]
  <2> SUFFICES ASSUME NEW k \in 1..n PROVE Unstuffing(a, k) = Unstuffing(c, k)
    BY <1>1
  <2>1. a[k] = c[k] /\ (k > 1 => k - 1 \in 1..n)
    BY <1>1
  <2>2. k > 1 => a[k - 1] = c[k - 1]
    BY <1>1, <2>1
  <2> QED  BY <2>1, <2>2 DEF Unstuffing
<1>8. tt[n + 1] = IF c # <<>> /\ x = F0 /\ c[n] = FE THEN <<>> ELSE <<x>>
  <2>1. n + 1 > 1 <=> c # <<>>
    BY <1>1
  <2>2. (n + 1) - 1 = n /\ (c # <<>> => a[n] = c[n])
    BY <1>1
  <2>3. tt[n + 1] = Unstuffing(a, n + 1)
    BY <1>1
  <2> QED  BY <1>1, <2>1, <2>2, <2>3 DEF Unstuffing
<1> HIDE DEF ss, tt
<1>9. /\ FlattenSeq(ss) \in Seq(Nat)
      /\ FlattenSeq(tt) = FlattenSeq(ss) \o tt[n + 1]
  BY <1>1, <1>4, <1>6, <1>7, PiecesAppend
<1> QED  BY <1>2, <1>3, <1>8, <1>9 DEF a, n
-----------------------------------------------------------------------------
(* What is between FE FE and FE 0D.                                        *)

\* Every FE is followed by F0.
Stuffed(bytes) ==
    \A k \in 1..Len(bytes) :
       bytes[k] = FE => k + 1 \in 1..Len(bytes) /\ bytes[k + 1] = F0

\* What Escape makes is stuffed, at most twice as long, and Unescape undoes it.
StuffedRight(b) ==
    /\ Escape(b) \in Seq(Nat) /\ Stuffed(Escape(b))
    /\ Len(b) <= Len(Escape(b)) /\ Len(Escape(b)) <= 2 * Len(b)
    /\ Unescape(Escape(b)) = b

\* Concatenating no sequences.
LEMMA EmptyFlattens == FlattenSeq(<<>>) = <<>>
<1>1. Len(<<>>) = 0
  BY EmptySeq
<1> QED  BY <1>1 DEF FlattenSeq

\* A sequence of no bytes has nothing to stuff.
LEMMA EmptyStuffed == StuffedRight(<<>>) /\ Unescape(<<>>) = <<>>
<1>1. Len(<<>>) = 0 /\ <<>> \in Seq(Nat) /\ \A n \in 1..0 : FALSE
  BY EmptySeq
<1>2. /\ [k \in 1..0 |-> Stuffing(<<>>[k])] = <<>>
      /\ [k \in 1..0 |-> Unstuffing(<<>>, k)] = <<>>
  OBVIOUS
<1>3. Escape(<<>>) = <<>> /\ Unescape(<<>>) = <<>>
  BY <1>1, <1>2 DEF Escape, Unescape, Stuffing, Unstuffing, FlattenSeq
<1>4. Stuffed(<<>>)
  BY <1>1 DEF Stuffed
<1>5. /\ Escape(<<>>) \in Seq(Nat) /\ Stuffed(Escape(<<>>))
      /\ Len(Escape(<<>>)) = 0 /\ Unescape(Escape(<<>>)) = <<>>
  BY <1>1, <1>3, <1>4, Zenon
<1>6. Len(<<>>) <= Len(Escape(<<>>)) /\ Len(Escape(<<>>)) <= 2 * Len(<<>>)
  BY <1>1, <1>5
<1> QED  BY <1>3, <1>5, <1>6, Zenon DEF StuffedRight

\* One byte more keeps it so.
LEMMA StuffedAppend ==
    ASSUME NEW b \in Seq(Nat), NEW x \in Nat, StuffedRight(b)
    PROVE  StuffedRight(Append(b, x))
<1> DEFINE e == Escape(b)
           a == Append(b, x)
<1>1. /\ e \in Seq(Nat) /\ Stuffed(e) /\ Unescape(e) = b
      /\ Len(b) <= Len(e) /\ Len(e) <= 2 * Len(b)
      /\ Len(e) \in Nat /\ Len(b) \in Nat
  BY LenProperties DEF StuffedRight
<1>2. Escape(a) = e \o Stuffing(x)
  BY EscapeAppend
<1>3. Len(a) = Len(b) + 1 /\ a = b \o <<x>>
  BY AppendProperties, AppendIsConcat
<1> HIDE DEF e, a
<1>4. ~(e # <<>> /\ e[Len(e)] = FE)
  <2> SUFFICES ASSUME e # <<>>, e[Len(e)] = FE PROVE FALSE
    OBVIOUS
  <2>1. Len(e) \in 1..Len(e) /\ ~(Len(e) + 1 \in 1..Len(e))
    BY <1>1, EmptySeq
  <2> QED  BY <1>1, <2>1 DEF Stuffed
<1> DEFINE e1 == Append(e, x)
<1>5. /\ e1 \in Seq(Nat) /\ Len(e1) = Len(e) + 1 /\ e1 # <<>>
      /\ \A k \in 1..Len(e) : e1[k] = e[k]
      /\ e1[Len(e) + 1] = x /\ e1 = e \o <<x>>
  BY <1>1, AppendProperties, AppendIsConcat
<1>6. Unescape(e1) = a
  <2>1. Unescape(e1) = Unescape(e) \o <<x>>
    BY <1>1, <1>4, UnescapeAppend
  <2> QED  BY <1>1, <1>3, <2>1
<1> HIDE DEF e1
<1>7. CASE x # FE
  <2>1. Escape(a) = e1
    BY <1>2, <1>5, <1>7 DEF Stuffing
  <2>2. ASSUME NEW k \in 1..Len(e1), e1[k] = FE
        PROVE  k + 1 \in 1..Len(e1) /\ e1[k + 1] = F0
    <3>1. k \in 1..Len(e) \/ k = Len(e) + 1
      BY <1>1, <1>5
    <3>2. k \in 1..Len(e) /\ e[k] = FE
      BY <1>5, <1>7, <2>2, <3>1
    <3>3. k + 1 \in 1..Len(e) /\ e[k + 1] = F0
      BY <1>1, <3>2 DEF Stuffed
    <3> QED  BY <1>1, <1>5, <3>3
  <2>3. Stuffed(e1)
    BY <2>2 DEF Stuffed
  <2>4. Len(a) <= Len(e1) /\ Len(e1) <= 2 * Len(a)
    BY <1>1, <1>3, <1>5
  <2> QED  BY <1>5, <1>6, <2>1, <2>3, <2>4 DEF StuffedRight, a
<1>8. CASE x = FE
  <2> DEFINE e2 == Append(e1, F0)
  <2>1. /\ e2 \in Seq(Nat) /\ Len(e2) = Len(e) + 2
        /\ \A k \in 1..(Len(e) + 1) : e2[k] = e1[k]
        /\ e2[Len(e) + 2] = F0
    <3>1. F0 \in Nat
      BY DEF F0
    <3>2. /\ e2 \in Seq(Nat) /\ Len(e2) = Len(e1) + 1
          /\ \A k \in 1..Len(e1) : e2[k] = e1[k]
          /\ e2[Len(e1) + 1] = F0
      BY <1>5, <3>1, AppendProperties
    <3>3. Len(e1) + 1 = Len(e) + 2
      BY <1>1, <1>5
    <3> HIDE DEF e2
    <3> QED  BY <1>5, <3>2, <3>3
  <2>2. Escape(a) = e2
    <3>1. F0 \in Nat /\ FE \in Nat /\ <<FE>> \in Seq(Nat) /\ <<F0>> \in Seq(Nat)
          /\ <<FE, F0>> = <<FE>> \o <<F0>>
      BY DEF FE, F0
    <3>2. e2 = e1 \o <<F0>>
      BY <1>5, <3>1, AppendIsConcat
    <3>3. e2 = (e \o <<FE>>) \o <<F0>>
      BY <1>5, <1>8, <3>2
    <3>4. (e \o <<FE>>) \o <<F0>> = e \o (<<FE>> \o <<F0>>)
      BY <1>1, <3>1, ConcatAssociative
    <3>5. e2 = e \o <<FE, F0>>
      BY <3>1, <3>3, <3>4, Zenon
    <3> QED  BY <1>2, <1>8, <3>5 DEF Stuffing
  <2>3. Unescape(e2) = a
    <3>1. e1[Len(e1)] = FE /\ F0 \in Nat
      BY <1>5, <1>8 DEF F0
    <3>2. Unescape(e2) = a \o <<>>
      BY <1>5, <1>6, <3>1, UnescapeAppend
    <3>3. a \in Seq(Nat)
      BY AppendProperties DEF a
    <3> QED  BY <3>2, <3>3, ConcatEmptySeq
  <2> HIDE DEF e2
  <2>4. ASSUME NEW k \in 1..Len(e2), e2[k] = FE
        PROVE  k + 1 \in 1..Len(e2) /\ e2[k + 1] = F0
    <3>1. k \in 1..Len(e) \/ k = Len(e) + 1 \/ k = Len(e) + 2
      <4>1. k \in 1..(Len(e) + 2)
        BY <2>1
      <4> QED  BY <1>1, <4>1
    <3>2. CASE k \in 1..Len(e)
      <4>1. e[k] = FE
        BY <1>1, <1>5, <2>1, <2>4, <3>2
      <4>2. k + 1 \in 1..Len(e) /\ e[k + 1] = F0
        BY <1>1, <3>2, <4>1 DEF Stuffed
      <4>3. k + 1 \in 1..(Len(e) + 1) /\ k + 1 \in 1..Len(e2)
        BY <1>1, <2>1, <4>2, SMTT(30)
      <4>4. e2[k + 1] = e1[k + 1] /\ e1[k + 1] = e[k + 1]
        BY <1>5, <2>1, <4>2, <4>3
      <4> QED  BY <4>2, <4>3, <4>4
    <3>3. CASE k = Len(e) + 1
      <4>1. k + 1 = Len(e) + 2 /\ Len(e) + 2 \in 1..Len(e2)
        BY <1>1, <2>1, <3>3
      <4> QED  BY <2>1, <4>1
    <3>4. CASE k = Len(e) + 2
      BY <2>1, <2>4, <3>4 DEF FE, F0
    <3> QED  BY <3>1, <3>2, <3>3, <3>4
  <2>5. Stuffed(e2)
    BY <2>4 DEF Stuffed
  <2>6. Len(a) <= Len(e2) /\ Len(e2) <= 2 * Len(a)
    BY <1>1, <1>3, <2>1
  <2> QED  BY <2>1, <2>2, <2>3, <2>5, <2>6 DEF StuffedRight, a
<1> QED  BY <1>7, <1>8

\* So it is for every sequence of bytes.
LEMMA EscapeProperties ==
    ASSUME NEW b \in Seq(Nat) PROVE StuffedRight(b)
<1> DEFINE T == {s \in Seq(Nat) : StuffedRight(s)}
<1>1. <<>> \in T
  BY EmptyStuffed, EmptySeq
<1>2. \A s \in T, x \in Nat : Append(s, x) \in T
  BY StuffedAppend, AppendProperties
<1>3. T \in SUBSET Seq(Nat)
  OBVIOUS
<1> HIDE DEF T
<1>4. T = Seq(Nat)
  BY <1>1, <1>2, <1>3, SequenceInduction
<1> QED  BY <1>4 DEF T

\* Unescape makes nothing longer.
LEMMA UnescapeShortens ==
    ASSUME NEW c \in Seq(Nat)
    PROVE  Unescape(c) \in Seq(Nat) /\ Len(Unescape(c)) <= Len(c)
<1> DEFINE T == {s \in Seq(Nat) : Len(Unescape(s)) <= Len(s)}
<1>1. <<>> \in T
  BY EmptyStuffed, EmptySeq
<1>2. ASSUME NEW s \in T, NEW x \in Nat PROVE Append(s, x) \in T
  <2> DEFINE u == IF s # <<>> /\ x = F0 /\ s[Len(s)] = FE THEN <<>> ELSE <<x>>
  <2>1. u \in Seq(Nat) /\ Len(u) \in Nat /\ Len(u) <= 1
    OBVIOUS
  <2>2. s \in Seq(Nat) /\ Unescape(s) \in Seq(Nat) /\ Unescape(Append(s, x)) = Unescape(s) \o u
    BY UnescapeAppend
  <2> HIDE DEF u
  <2>3. Len(Unescape(s) \o u) = Len(Unescape(s)) + Len(u)
    BY <2>1, <2>2, ConcatProperties
  <2>4. Append(s, x) \in Seq(Nat) /\ Len(Append(s, x)) = Len(s) + 1
    BY <2>2, AppendProperties
  <2>5. Len(Unescape(s)) \in Nat /\ Len(s) \in Nat /\ Len(Unescape(s)) <= Len(s)
    BY <2>2, LenProperties
  <2> QED  BY <2>1, <2>2, <2>3, <2>4, <2>5
<1>3. T \in SUBSET Seq(Nat)
  OBVIOUS
<1> HIDE DEF T
<1>4. T = Seq(Nat)
  BY <1>1, <1>2, <1>3, SequenceInduction
<1> QED  BY <1>4, UnescapeAppend DEF T
-----------------------------------------------------------------------------
(* What the parser makes of a buffer.                                      *)

\* Least finds the least element.
LEMMA LeastIs ==
    ASSUME NEW T, NEW m \in T, T \in SUBSET Int, \A k \in T : m <= k
    PROVE  Least(T) = m
<1>1. \A k \in T : (\A n \in T : k <= n) => k = m
  OBVIOUS
<1> QED  BY <1>1 DEF Least

\* FE FE or FE 0D at k.
PairAt(buf, k, second) == buf[k] = FE /\ buf[k + 1] = second

\* The end of satel_parse_buffer, when a frame ends at end.
Decoded(raw, end) ==
    LET size == Len(raw) - 3
    IN  IF Len(raw) > MaxFrame THEN NoFrame("ERROR", 0)
        ELSE IF Len(raw) < 3 THEN NoFrame("ERROR", BadFrame(end))
        ELSE IF ~CrcMatches(raw) THEN NoFrame("CRC_FAIL", BadFrame(end))
        ELSE [result |-> "OK", consumed |-> end + 1, cmd |-> raw[1],
              data |-> SubSeq(raw, 2, 1 + (IF size > MaxPayload
                                           THEN MaxPayload ELSE size))]

\* A buffer without FE FE keeps its last byte.
LEMMA ParseNothing ==
    ASSUME NEW buf \in Seq(Nat), buf # <<>>,
           \A k \in 1..(Len(buf) - 1) : ~PairAt(buf, k, FE)
    PROVE  /\ ParseBuffer(buf).result = "PARTIAL"
           /\ ParseBuffer(buf).consumed = Len(buf) - 1
<1>1. Pairs(buf, 1, FE) = {}
  BY DEF Pairs, PairAt
<1>2. ParseBuffer(buf) = NoFrame("PARTIAL", Skip(buf))
  BY <1>1 DEF ParseBuffer
<1> QED  BY <1>2 DEF NoFrame, Skip

\* The first FE FE is at s + 1.
StartsAt(buf, s) ==
    /\ s \in Nat /\ s + 1 <= Len(buf) - 1
    /\ PairAt(buf, s + 1, FE)
    /\ \A k \in 1..s : ~PairAt(buf, k, FE)

\* There satel_parse_buffer finds it.
LEMMA StartFound ==
    ASSUME NEW buf \in Seq(Nat), NEW s, StartsAt(buf, s)
    PROVE  Pairs(buf, 1, FE) # {} /\ Least(Pairs(buf, 1, FE)) = s + 1
<1> DEFINE T == Pairs(buf, 1, FE)
           m == s + 1
<1>1. Len(buf) \in Nat /\ m \in 1..(Len(buf) - 1) /\ PairAt(buf, m, FE)
  BY LenProperties DEF StartsAt
<1>2. m \in T /\ T \in SUBSET Int
  BY <1>1 DEF Pairs, PairAt
<1>3. ASSUME NEW k \in T PROVE m <= k
  <2>1. k \in 1..(Len(buf) - 1) /\ PairAt(buf, k, FE)
    BY <1>3 DEF Pairs, PairAt
  <2>2. ~(k \in 1..s)
    BY <2>1 DEF StartsAt
  <2> QED  BY <1>1, <2>1, <2>2 DEF StartsAt
<1> HIDE DEF T, m
<1>4. Least(T) = m
  BY <1>2, <1>3, LeastIs
<1> QED  BY <1>2, <1>4 DEF T, m

\* A frame that has begun but not ended is kept, and what was before it is not.
LEMMA ParseBegun ==
    ASSUME NEW buf \in Seq(Nat), NEW s, StartsAt(buf, s),
           \A k \in (s + 3)..(Len(buf) - 1) : ~PairAt(buf, k, CR)
    PROVE  /\ ParseBuffer(buf).result = "PARTIAL"
           /\ ParseBuffer(buf).consumed = s
<1> DEFINE start == Least(Pairs(buf, 1, FE))
           from == start + 2
<1>1. Pairs(buf, 1, FE) # {} /\ start = s + 1 /\ s \in Nat
  BY StartFound DEF StartsAt
<1>2. start - 1 = s /\ from = s + 3
  BY <1>1
<1> HIDE DEF start
<1>3. Pairs(buf, from, CR) = {}
  BY <1>2 DEF Pairs, PairAt
<1>4. ParseBuffer(buf) = NoFrame("PARTIAL", start - 1)
  BY <1>1, <1>3, Zenon DEF ParseBuffer, start
<1> QED  BY <1>2, <1>4 DEF NoFrame

\* A frame of l bytes is decoded.
LEMMA ParseFrame ==
    ASSUME NEW buf \in Seq(Nat), NEW s, NEW l \in Nat, StartsAt(buf, s),
           l >= 4, s + l <= Len(buf), PairAt(buf, s + l - 1, CR),
           \A k \in (s + 3)..(s + l - 2) : ~PairAt(buf, k, CR)
    PROVE  ParseBuffer(buf) =
              Decoded(Unescape(SubSeq(buf, s + 3, s + l - 2)), s + l - 1)
<1> DEFINE start == Least(Pairs(buf, 1, FE))
           from == start + 2
           T == Pairs(buf, from, CR)
           m == s + l - 1
<1>1. Pairs(buf, 1, FE) # {} /\ start = s + 1 /\ s \in Nat /\ Len(buf) \in Nat
  BY StartFound, LenProperties DEF StartsAt
<1>2. from = s + 3 /\ m - 1 = s + l - 2 /\ m \in (s + 3)..(Len(buf) - 1)
  BY <1>1
<1> HIDE DEF start, from
<1>3. m \in T /\ T \in SUBSET Int
  BY <1>1, <1>2 DEF Pairs, PairAt
<1>4. ASSUME NEW k \in T PROVE m <= k
  <2>1. k \in (s + 3)..(Len(buf) - 1) /\ PairAt(buf, k, CR)
    BY <1>2, <1>4 DEF Pairs, PairAt
  <2>2. ~(k \in (s + 3)..(s + l - 2))
    BY <2>1
  <2> QED  BY <1>1, <2>1, <2>2
<1> HIDE DEF T, m
<1>5. Least(T) = m
  BY <1>3, <1>4, LeastIs
<1>6. T # {}
  BY <1>3
<1>7. ParseBuffer(buf) = Decoded(Unescape(SubSeq(buf, from, m - 1)), m)
  BY <1>1, <1>5, <1>6, Zenon DEF ParseBuffer, Decoded, start, from, T
<1> QED  BY <1>2, <1>7 DEF m
-----------------------------------------------------------------------------
(* What the parser makes of a stream.                                      *)

\* A frame: it ends where FE 0D is first seen, and is not too long.
Closed(g) ==
    /\ g \in Seq(Nat) /\ Len(g) >= 4 /\ Len(g) <= MaxFrame
    /\ PairAt(g, 1, FE) /\ PairAt(g, Len(g) - 1, CR)
    /\ \A k \in 3..(Len(g) - 2) : ~PairAt(g, k, CR)

\* Bytes in which no frame begins.
Junk(q) ==
    /\ q \in Seq(Nat)
    /\ \A k \in 1..(Len(q) - 1) : ~PairAt(q, k, FE)
    /\ q # <<>> => q[Len(q)] # FE

\* What comes of a frame.
Outcome(g) == Decoded(Unescape(SubSeq(g, 3, Len(g) - 2)), Len(g) - 1)

\* What is decoded does not depend on where it was found, and is consumed.
LEMMA DecodedProperties ==
    ASSUME NEW raw \in Seq(Nat), Len(raw) <= MaxFrame, NEW end \in Int, NEW other \in Int
    PROVE  /\ Decoded(raw, end).consumed = end + 1
           /\ Decoded(raw, end).result \in {"OK", "CRC_FAIL", "ERROR"}
           /\ Decoded(raw, end).result = Decoded(raw, other).result
           /\ Decoded(raw, end).cmd = Decoded(raw, other).cmd
           /\ Decoded(raw, end).data = Decoded(raw, other).data
<1>1. Len(raw) \in Nat /\ ~(Len(raw) > MaxFrame)
  BY LenProperties, ByteAssumption
<1> DEFINE data == SubSeq(raw, 2, 1 + (IF Len(raw) - 3 > MaxPayload
                                       THEN MaxPayload ELSE Len(raw) - 3))
           ok(e) == [result |-> "OK", consumed |-> e + 1, cmd |-> raw[1], data |-> data]
<1>2. ASSUME NEW e \in Int
      PROVE  \/ Decoded(raw, e) = NoFrame("ERROR", e + 1) /\ Len(raw) < 3
             \/ Decoded(raw, e) = NoFrame("CRC_FAIL", e + 1) /\ Len(raw) >= 3 /\ ~CrcMatches(raw)
             \/ Decoded(raw, e) = ok(e) /\ Len(raw) >= 3 /\ CrcMatches(raw)
  <2>1. CASE Len(raw) < 3
    BY <1>1, <2>1 DEF Decoded, BadFrame
  <2>2. CASE ~(Len(raw) < 3) /\ ~CrcMatches(raw)
    <3>1. Decoded(raw, e) = NoFrame("CRC_FAIL", BadFrame(e))
      BY <1>1, <2>2, Zenon DEF Decoded
    <3>2. Len(raw) >= 3
      BY <1>1, <2>2
    <3> QED  BY <2>2, <3>1, <3>2, Zenon DEF BadFrame
  <2>3. CASE ~(Len(raw) < 3) /\ CrcMatches(raw)
    <3>1. Decoded(raw, e) = ok(e)
      BY <1>1, <2>3, Zenon DEF Decoded
    <3>2. Len(raw) >= 3
      BY <1>1, <2>3
    <3> QED  BY <2>3, <3>1, <3>2, Zenon
  <2> QED  BY <2>1, <2>2, <2>3, Zenon
<1> HIDE DEF data
<1>3. \A e \in Int : ok(e).consumed = e + 1 /\ ok(e).result = "OK"
                     /\ ok(e).cmd = raw[1] /\ ok(e).data = data
  OBVIOUS
<1>4. \A e, r : NoFrame(r, e).consumed = e /\ NoFrame(r, e).result = r
                /\ NoFrame(r, e).cmd = 0 /\ NoFrame(r, e).data = <<>>
  BY DEF NoFrame
<1> HIDE DEF ok
<1> DEFINE short == Len(raw) < 3
           good == CrcMatches(raw)
<1>5. ASSUME NEW e \in Int
      PROVE  /\ Decoded(raw, e).consumed = e + 1
             /\ Decoded(raw, e).result
                   = IF short THEN "ERROR" ELSE IF good THEN "OK" ELSE "CRC_FAIL"
             /\ Decoded(raw, e).cmd = IF ~short /\ good THEN raw[1] ELSE 0
             /\ Decoded(raw, e).data = IF ~short /\ good THEN data ELSE <<>>
  <2>1. Len(raw) >= 3 => ~short
    BY <1>1
  <2> HIDE DEF good
  <2>2. CASE Decoded(raw, e) = NoFrame("ERROR", e + 1) /\ short
    BY <1>4, <2>2
  <2>3. CASE Decoded(raw, e) = NoFrame("CRC_FAIL", e + 1) /\ ~short /\ ~good
    <3> HIDE DEF short
    <3> QED  BY <1>4, <2>3
  <2>4. CASE Decoded(raw, e) = ok(e) /\ ~short /\ good
    <3> HIDE DEF short
    <3> QED  BY <1>3, <2>4
  <2> QED  BY <1>2, <2>1, <2>2, <2>3, <2>4, Zenon DEF good
<1> HIDE DEF short, good
<1> QED  BY <1>5

\* What is left of a sequence when c elements are dropped.
LEMMA Suffix ==
    ASSUME NEW a \in Seq(Nat), NEW c \in 0..Len(a)
    PROVE  /\ SubSeq(a, c + 1, Len(a)) \in Seq(Nat)
           /\ Len(SubSeq(a, c + 1, Len(a))) = Len(a) - c
           /\ \A k \in 1..(Len(a) - c) : SubSeq(a, c + 1, Len(a))[k] = a[c + k]
<1> DEFINE x == SubSeq(a, c + 1, Len(a))
           L == Len(a)
           d == c + 1
<1>1. L \in Nat /\ c \in Nat /\ c <= L /\ \A k \in 1..L : a[k] \in Nat
  BY LenProperties, ElementOfSeq
<1>2. x = SubSeq(a, d, L)
  OBVIOUS
<1> HIDE DEF L, x
<1>3. d \in Int /\ L \in Int /\ (\A k \in d..L : a[k] \in Nat) /\ L - d + 1 = L - c
  BY <1>1
<1>4. \A k \in 1..(L - c) : d + k - 1 = c + k
  BY <1>1
<1> HIDE DEF d
<1>5. /\ x \in Seq(Nat)
      /\ Len(x) = IF d <= L THEN L - d + 1 ELSE 0
      /\ \A k \in 1..(L - d + 1) : x[k] = a[d + k - 1]
  BY <1>2, <1>3, SubSeqProperties
<1>6. Len(x) = L - c
  BY <1>1, <1>3, <1>5 DEF d
<1>7. \A k \in 1..(L - c) : x[k] = a[c + k]
  BY <1>3, <1>4, <1>5
<1> QED  BY <1>5, <1>6, <1>7 DEF x, L

\* Dropping bytes that are in the first of two sequences.
LEMMA DropFront ==
    ASSUME NEW a \in Seq(Nat), NEW b \in Seq(Nat), NEW c \in 0..Len(a)
    PROVE  /\ SubSeq(a, c + 1, Len(a)) \in Seq(Nat)
           /\ SubSeq(a, c + 1, Len(a)) \o b = SubSeq(a \o b, c + 1, Len(a \o b))
<1> DEFINE x == SubSeq(a, c + 1, Len(a))
           ab == a \o b
           y == SubSeq(ab, c + 1, Len(ab))
           xb == x \o b
<1>1. Len(a) \in Nat /\ Len(b) \in Nat /\ c \in Nat /\ c <= Len(a)
      /\ \A k \in 1..Len(a) : a[k] \in Nat
  BY LenProperties, ElementOfSeq
<1>2. /\ ab \in Seq(Nat) /\ Len(ab) = Len(a) + Len(b)
      /\ \A k \in 1..(Len(a) + Len(b)) : ab[k] = IF k <= Len(a) THEN a[k] ELSE b[k - Len(a)]
  BY ConcatProperties
<1>3. \A k \in 1..Len(ab) : ab[k] \in Nat
  BY <1>2, ElementOfSeq
<1> HIDE DEF ab
<1>4. /\ x \in Seq(Nat) /\ Len(x) = Len(a) - c
      /\ \A k \in 1..(Len(a) - c) : x[k] = a[c + k]
  BY Suffix
<1>5. /\ y \in Seq(Nat) /\ Len(y) = Len(ab) - c
      /\ \A k \in 1..(Len(ab) - c) : y[k] = ab[c + k]
  <2>1. c \in 0..Len(ab)
    BY <1>1, <1>2
  <2> QED  BY <1>2, <2>1, Suffix
<1> HIDE DEF x, y
<1>6. /\ xb \in Seq(Nat) /\ Len(xb) = Len(x) + Len(b)
      /\ \A k \in 1..(Len(x) + Len(b)) : xb[k] = IF k <= Len(x) THEN x[k] ELSE b[k - Len(x)]
  BY <1>4, ConcatProperties
<1> HIDE DEF xb
<1>7. Len(xb) = Len(y)
  BY <1>1, <1>2, <1>4, <1>5, <1>6
<1>8. ASSUME NEW k \in 1..Len(xb) PROVE xb[k] = y[k]
  <2>1. k \in 1..(Len(x) + Len(b)) /\ k \in 1..(Len(ab) - c) /\ c + k \in 1..(Len(a) + Len(b))
    BY <1>1, <1>2, <1>4, <1>6
  <2>2. y[k] = ab[c + k]
    BY <1>5, <2>1
  <2>3. CASE k <= Len(x)
    <3>1. k \in 1..(Len(a) - c) /\ c + k <= Len(a)
      BY <1>1, <1>4, <2>1, <2>3
    <3>2. xb[k] = x[k] /\ x[k] = a[c + k]
      BY <1>4, <1>6, <2>1, <2>3, <3>1
    <3> QED  BY <1>2, <2>1, <2>2, <3>1, <3>2
  <2>4. CASE ~(k <= Len(x))
    <3>1. (c + k) - Len(a) = k - Len(x) /\ ~(c + k <= Len(a))
      BY <1>1, <1>4, <2>1, <2>4
    <3>2. xb[k] = b[k - Len(x)]
      BY <1>6, <2>1, <2>4
    <3>3. ab[c + k] = b[(c + k) - Len(a)]
      BY <1>2, <2>1, <3>1
    <3> QED  BY <2>2, <3>1, <3>2, <3>3
  <2> QED  BY <2>3, <2>4
<1>9. xb = y
  BY <1>5, <1>6, <1>7, <1>8, SeqEqual
<1> QED  BY <1>4, <1>9 DEF x, y, xb, ab

\* Two sequences that agree over a distance agree in their parts.
LEMMA SubSeqsEqual ==
    ASSUME NEW a \in Seq(Nat), NEW b \in Seq(Nat), NEW m \in Int, NEW n \in Int, NEW d \in Int,
           \A j \in m..n : j \in 1..Len(a) /\ j + d \in 1..Len(b) /\ a[j] = b[j + d]
    PROVE  /\ SubSeq(a, m, n) = SubSeq(b, m + d, n + d)
           /\ SubSeq(a, m, n) \in Seq(Nat)
           /\ Len(SubSeq(a, m, n)) = IF m <= n THEN n - m + 1 ELSE 0
<1> DEFINE x == SubSeq(a, m, n)
           y == SubSeq(b, m + d, n + d)
           size == IF m <= n THEN n - m + 1 ELSE 0
<1>1. \A j \in m..n : a[j] \in Nat
  BY ElementOfSeq
<1>2. /\ x \in Seq(Nat) /\ Len(x) = size
      /\ \A k \in 1..(n - m + 1) : x[k] = a[m + k - 1]
  BY <1>1, SubSeqProperties
<1> DEFINE md == m + d
           nd == n + d
<1>3. \A j \in md..nd : b[j] \in Nat
  <2> SUFFICES ASSUME NEW j \in md..nd PROVE b[j] \in Nat
    OBVIOUS
  <2>1. j - d \in m..n /\ (j - d) + d = j
    OBVIOUS
  <2>2. j \in 1..Len(b)
    BY <2>1
  <2> QED  BY <2>2, ElementOfSeq
<1>4. md \in Int /\ nd \in Int /\ nd - md + 1 = n - m + 1 /\ (md <= nd <=> m <= n)
  OBVIOUS
<1>5. y = SubSeq(b, md, nd)
  OBVIOUS
<1> HIDE DEF x, y, md, nd
<1>6. /\ y \in Seq(Nat) /\ Len(y) = IF md <= nd THEN nd - md + 1 ELSE 0
      /\ \A k \in 1..(nd - md + 1) : y[k] = b[md + k - 1]
  BY <1>3, <1>4, <1>5, SubSeqProperties
<1>7. Len(y) = size
  BY <1>4, <1>6
<1>8. ASSUME NEW k \in 1..Len(x) PROVE x[k] = y[k]
  <2>1. k \in 1..(n - m + 1) /\ k \in 1..(nd - md + 1) /\ m + k - 1 \in m..n
    BY <1>2, <1>4
  <2>2. (m + k - 1) + d = md + k - 1
    BY <2>1 DEF md
  <2>3. x[k] = a[m + k - 1] /\ y[k] = b[md + k - 1]
    BY <1>2, <1>6, <2>1
  <2>4. a[m + k - 1] = b[(m + k - 1) + d]
    BY <2>1
  <2> QED  BY <2>2, <2>3, <2>4
<1>9. x = y
  BY <1>2, <1>6, <1>7, <1>8, SeqEqual
<1> QED  BY <1>2, <1>9 DEF x, y

\* Where the bytes of a stream are that begins with junk and a frame.
LEMMA Layout ==
    ASSUME NEW q \in Seq(Nat), NEW g \in Seq(Nat), NEW tail \in Seq(Nat)
    PROVE  /\ q \o (g \o tail) \in Seq(Nat)
           /\ Len(q \o (g \o tail)) = Len(q) + Len(g) + Len(tail)
           /\ \A k \in 1..Len(q) : (q \o (g \o tail))[k] = q[k]
           /\ \A k \in 1..Len(g) : (q \o (g \o tail))[Len(q) + k] = g[k]
           /\ \A k \in 1..Len(tail) : (q \o (g \o tail))[Len(q) + Len(g) + k] = tail[k]
<1> DEFINE u == g \o tail
           t == q \o u
<1>1. Len(q) \in Nat /\ Len(g) \in Nat /\ Len(tail) \in Nat
  BY LenProperties
<1>2. /\ u \in Seq(Nat) /\ Len(u) = Len(g) + Len(tail)
      /\ \A k \in 1..(Len(g) + Len(tail)) :
            u[k] = IF k <= Len(g) THEN g[k] ELSE tail[k - Len(g)]
  BY ConcatProperties
<1> HIDE DEF u
<1>3. /\ t \in Seq(Nat) /\ Len(t) = Len(q) + Len(u)
      /\ \A k \in 1..(Len(q) + Len(u)) : t[k] = IF k <= Len(q) THEN q[k] ELSE u[k - Len(q)]
  <2>1. u \in Seq(Nat)
    BY <1>2
  <2> QED  BY <2>1, ConcatProperties
<1> HIDE DEF t
<1>4. Len(t) = Len(q) + Len(g) + Len(tail)
  BY <1>1, <1>2, <1>3
<1>5. \A k \in 1..Len(q) : t[k] = q[k]
  <2>1. \A k \in 1..Len(q) : k \in 1..(Len(q) + Len(u)) /\ k <= Len(q)
    BY <1>1, <1>2
  <2> QED  BY <1>3, <2>1
<1>6. ASSUME NEW k \in 1..Len(g) PROVE t[Len(q) + k] = g[k]
  <2>1. /\ Len(q) + k \in 1..(Len(q) + Len(u))
        /\ ~(Len(q) + k <= Len(q)) /\ (Len(q) + k) - Len(q) = k
    BY <1>1, <1>2
  <2>2. t[Len(q) + k] = u[(Len(q) + k) - Len(q)]
    BY <1>3, <2>1
  <2>3. k \in 1..(Len(g) + Len(tail)) /\ k <= Len(g)
    BY <1>1
  <2> QED  BY <1>2, <2>1, <2>2, <2>3
<1>7. ASSUME NEW k \in 1..Len(tail) PROVE t[Len(q) + Len(g) + k] = tail[k]
  <2> DEFINE i == Len(q) + Len(g) + k
             j == Len(g) + k
  <2>1. /\ i \in 1..(Len(q) + Len(u)) /\ ~(i <= Len(q)) /\ i - Len(q) = j
        /\ j \in 1..(Len(g) + Len(tail)) /\ ~(j <= Len(g)) /\ j - Len(g) = k
    BY <1>1, <1>2
  <2> HIDE DEF i, j
  <2>2. t[i] = u[i - Len(q)]
    BY <1>3, <2>1
  <2>3. u[j] = tail[j - Len(g)]
    BY <1>2, <2>1
  <2>4. t[i] = tail[k]
    BY <2>1, <2>2, <2>3
  <2> QED  BY <2>4 DEF i
<1> QED  BY <1>3, <1>4, <1>5, <1>6, <1>7 DEF t, u

\* The end of junk is junk.
LEMMA JunkSuffix ==
    ASSUME NEW q, Junk(q), NEW c \in 0..Len(q)
    PROVE  Junk(SubSeq(q, c + 1, Len(q))) /\ Len(SubSeq(q, c + 1, Len(q))) <= Len(q)
<1> DEFINE x == SubSeq(q, c + 1, Len(q))
<1>1. q \in Seq(Nat) /\ Len(q) \in Nat /\ c \in Nat /\ c <= Len(q)
  BY LenProperties DEF Junk
<1>2. /\ x \in Seq(Nat) /\ Len(x) = Len(q) - c
      /\ \A k \in 1..(Len(q) - c) : x[k] = q[c + k]
  BY <1>1, Suffix
<1> HIDE DEF x
<1>3. ASSUME NEW k \in 1..(Len(x) - 1) PROVE ~PairAt(x, k, FE)
  <2>1. k \in 1..(Len(q) - c) /\ k + 1 \in 1..(Len(q) - c)
    BY <1>1, <1>2
  <2>2. c + k \in 1..(Len(q) - 1) /\ c + (k + 1) = (c + k) + 1
    BY <1>1, <1>2
  <2>3. x[k] = q[c + k] /\ x[k + 1] = q[(c + k) + 1]
    BY <1>2, <2>1, <2>2
  <2>4. ~PairAt(q, c + k, FE)
    BY <2>2 DEF Junk
  <2> QED  BY <2>3, <2>4 DEF PairAt
<1>4. ASSUME x # <<>> PROVE x[Len(x)] # FE
  <2>1. Len(x) \in 1..(Len(q) - c) /\ c + Len(x) = Len(q)
    BY <1>1, <1>2, <1>4, EmptySeq
  <2>2. x[Len(x)] = q[Len(q)]
    BY <1>2, <2>1
  <2>3. q # <<>>
    <3>1. Len(q) # 0
      BY <1>1, <2>1
    <3> QED  BY <3>1, EmptySeq
  <2> QED  BY <2>2, <2>3 DEF Junk
<1>5. Len(x) <= Len(q)
  BY <1>1, <1>2
<1> QED  BY <1>2, <1>3, <1>4, <1>5 DEF Junk, x

\* No frame begins where a buffer holds junk, and one does right after.
LEMMA NoStartInJunk ==
    ASSUME NEW q, Junk(q), NEW buf \in Seq(Nat),
           \A j \in 1..Len(q) : j <= Len(buf) => buf[j] = q[j],
           NEW k \in 1..(Len(buf) - 1), k <= Len(q)
    PROVE  ~PairAt(buf, k, FE)
<1> DEFINE s == Len(q)
<1>1. q \in Seq(Nat) /\ s \in Nat /\ Len(buf) \in Nat
  BY LenProperties DEF Junk
<1>2. k \in 1..s /\ buf[k] = q[k]
  BY <1>1, SMTT(30)
<1>3. CASE k < s
  <2>1. k + 1 \in 1..s /\ k + 1 <= Len(buf) /\ k \in 1..(s - 1)
    BY <1>1, <1>3
  <2>2. buf[k + 1] = q[k + 1]
    BY <2>1
  <2>3. ~PairAt(q, k, FE)
    BY <2>1 DEF Junk
  <2> QED  BY <1>2, <2>2, <2>3 DEF PairAt
<1>4. CASE k = s
  <2>1. q # <<>>
    <3>1. s # 0
      BY <1>1, <1>2
    <3> QED  BY <3>1, EmptySeq
  <2> QED  BY <1>2, <1>4, <2>1 DEF PairAt, Junk
<1> QED  BY <1>1, <1>3, <1>4

\* A buffer that begins with the junk and two bytes of the frame: satel_parse_buffer finds
\* the frame where the junk ends.
LEMMA FrameStarts ==
    ASSUME NEW q, NEW g, Junk(q), Closed(g), NEW buf \in Seq(Nat), Len(buf) >= Len(q) + 2,
           \A j \in 1..Len(q) : buf[j] = q[j],
           buf[Len(q) + 1] = g[1], buf[Len(q) + 2] = g[2]
    PROVE  StartsAt(buf, Len(q))
<1> DEFINE s == Len(q)
<1>1. q \in Seq(Nat) /\ s \in Nat /\ Len(buf) \in Nat
  BY LenProperties DEF Junk
<1>2. PairAt(buf, s + 1, FE)
  <2>1. (s + 1) + 1 = s + 2 /\ 1 + 1 = 2
    BY <1>1
  <2>2. g[1] = FE /\ g[2] = FE
    BY <2>1 DEF Closed, PairAt
  <2> QED  BY <2>1, <2>2 DEF PairAt
<1>3. ASSUME NEW k \in 1..s PROVE ~PairAt(buf, k, FE)
  <2>1. k \in 1..(Len(buf) - 1) /\ k <= Len(q)
    BY <1>1
  <2> QED  BY <2>1, NoStartInJunk
<1>4. s \in Nat /\ s + 1 <= Len(buf) - 1
  BY <1>1
<1> QED  BY <1>2, <1>3, <1>4 DEF StartsAt

\* What recv_frame does to a stream that holds junk, a frame, and more.  As long as
\* the frame is not all there, some of the junk may go; then the frame does.
Kept(r, buf) == SubSeq(buf, r.consumed + 1, Len(buf))
Waits(q, g, tail, buf, later) ==
    LET r == ParseBuffer(buf)
    IN  /\ r.result = "PARTIAL" /\ later # <<>>
        /\ Kept(r, buf) \in Seq(Nat)
        /\ \E x \in Seq(Nat) : /\ Junk(x) /\ Len(x) <= Len(q)
                               /\ Kept(r, buf) \o later = x \o (g \o tail)
Decodes(q, g, tail, buf, later) ==
    LET r == ParseBuffer(buf)
    IN  /\ r.result = Outcome(g).result /\ r.consumed = Len(q) + Len(g)
        /\ r.cmd = Outcome(g).cmd /\ r.data = Outcome(g).data
        /\ Kept(r, buf) \in Seq(Nat)
        /\ Kept(r, buf) \o later = tail

\* Every call of recv_frame does one of the two, wherever recv cut the stream.
LEMMA StreamStep ==
    ASSUME NEW q, NEW g, Junk(q), Closed(g), NEW tail \in Seq(Nat),
           NEW buf \in Seq(Nat), NEW later \in Seq(Nat), buf # <<>>,
           buf \o later = q \o (g \o tail)
    PROVE  Waits(q, g, tail, buf, later) \/ Decodes(q, g, tail, buf, later)
<1> DEFINE t == q \o (g \o tail)
           r == ParseBuffer(buf)
           s == Len(q)
           l == Len(g)
           b == Len(buf)
<1>1. /\ q \in Seq(Nat) /\ g \in Seq(Nat) /\ s \in Nat /\ l \in Nat /\ b \in Nat /\ b # 0
      /\ l >= 4 /\ Len(later) \in Nat /\ Len(tail) \in Nat
  BY LenProperties, EmptySeq DEF Junk, Closed
<1>2. /\ t \in Seq(Nat) /\ Len(t) = s + l + Len(tail)
      /\ \A k \in 1..s : t[k] = q[k]
      /\ \A k \in 1..l : t[s + k] = g[k]
  BY <1>1, Layout
<1>3. /\ Len(t) = b + Len(later)
      /\ \A k \in 1..b : t[k] = buf[k]
  <2>1. /\ Len(buf \o later) = b + Len(later)
        /\ \A k \in 1..(b + Len(later)) :
              (buf \o later)[k] = IF k <= b THEN buf[k] ELSE later[k - b]
    BY ConcatProperties
  <2>2. \A k \in 1..b : k \in 1..(b + Len(later)) /\ k <= b
    BY <1>1
  <2> QED  BY <2>1, <2>2
<1>4. ASSUME NEW c \in 0..b, r.consumed = c
      PROVE  /\ Kept(r, buf) \in Seq(Nat)
             /\ Kept(r, buf) \o later = SubSeq(t, c + 1, Len(t))
  <2>1. Kept(r, buf) = SubSeq(buf, c + 1, Len(buf))
    BY <1>4 DEF Kept
  <2> QED  BY <2>1, DropFront, ZenonT(40)
<1>5. g \o tail \in Seq(Nat)
  BY <1>1, ConcatProperties
<1>6. ASSUME NEW c \in 0..b, c <= s, r.consumed = c, r.result = "PARTIAL", b < s + l
      PROVE  Waits(q, g, tail, buf, later)
  <2>1. c \in 0..s
    BY <1>6
  <2> DEFINE x == SubSeq(q, c + 1, Len(q))
  <2>2. x \in Seq(Nat) /\ x \o (g \o tail) = SubSeq(t, c + 1, Len(t))
    BY <1>1, <1>5, <2>1, DropFront
  <2>3. Junk(x) /\ Len(x) <= s
    BY <2>1, JunkSuffix
  <2>4. later # <<>>
    <3>1. Len(later) # 0
      BY <1>1, <1>2, <1>3, <1>6
    <3> QED  BY <3>1, EmptySeq
  <2>5. Kept(r, buf) \in Seq(Nat) /\ Kept(r, buf) \o later = SubSeq(t, c + 1, Len(t))
    BY <1>4, <1>6
  <2> HIDE DEF x
  <2>6. Kept(r, buf) \o later = x \o (g \o tail)
    BY <2>2, <2>5, Zenon
  <2> QED  BY <1>6, <2>2, <2>3, <2>4, <2>5, <2>6 DEF Waits
<1>7. \A k \in 1..(b - 1) : k \in 1..b /\ k + 1 \in 1..b
  BY <1>1
<1>8. ASSUME NEW k \in 1..(b - 1), k <= s PROVE ~PairAt(buf, k, FE)
  <2>1. \A j \in 1..s : j <= b => buf[j] = q[j]
    <3>1. \A j \in 1..s : j <= b => j \in 1..b
      BY <1>1
    <3> QED  BY <1>2, <1>3, <3>1
  <2> QED  BY <1>8, <2>1, NoStartInJunk
<1>9. CASE b <= s + 1
  <2>1. \A k \in 1..(b - 1) : ~PairAt(buf, k, FE)
    BY <1>1, <1>8, <1>9
  <2>2. r.result = "PARTIAL" /\ r.consumed = b - 1
    BY <2>1, ParseNothing
  <2>3. b - 1 \in 0..b /\ b - 1 <= s /\ b < s + l
    BY <1>1, <1>9
  <2> QED  BY <1>6, <2>2, <2>3
<1>10. ASSUME b >= s + 2 PROVE StartsAt(buf, s)
  <2>1. s + 1 \in 1..b /\ s + 2 \in 1..b /\ 1 \in 1..l /\ 2 \in 1..l
    BY <1>1, <1>10
  <2>2. buf[s + 1] = g[1] /\ buf[s + 2] = g[2]
    BY <1>2, <1>3, <2>1
  <2>3. \A j \in 1..s : buf[j] = q[j]
    <3>1. \A j \in 1..s : j \in 1..b
      BY <1>1, <1>10
    <3> QED  BY <1>2, <1>3, <3>1
  <2> QED  BY <1>10, <2>2, <2>3, FrameStarts
<1>11. ASSUME NEW k \in (s + 3)..(s + l - 2), k <= b - 1 PROVE ~PairAt(buf, k, CR)
  <2>1. PICK j \in 3..(l - 2) : k = s + j
    <3>1. k - s \in 3..(l - 2) /\ k = s + (k - s)
      BY <1>1
    <3> QED  BY <3>1
  <2>2. j \in 1..l /\ j + 1 \in 1..l /\ s + j \in 1..b /\ s + (j + 1) \in 1..b
        /\ (s + j) + 1 = s + (j + 1)
    <3> HIDE DEF s, l, b
    <3>1. k \in Int /\ j \in Int /\ k <= b - 1 /\ 3 <= j /\ j <= l - 2
      BY <1>1, <1>11
    <3> QED  BY <1>1, <2>1, <3>1
  <2>3. buf[k] = g[j] /\ buf[k + 1] = g[j + 1]
    BY <1>2, <1>3, <2>1, <2>2
  <2>4. ~PairAt(g, j, CR)
    BY <2>1 DEF Closed
  <2> QED  BY <2>3, <2>4 DEF PairAt
<1>12. CASE b >= s + 2 /\ b < s + l
  <2>1. ASSUME NEW k \in (s + 3)..(b - 1) PROVE ~PairAt(buf, k, CR)
    <3>1. k \in (s + 3)..(s + l - 2) /\ k <= b - 1
      BY <1>1, <1>12
    <3> QED  BY <1>11, <3>1
  <2>2. r.result = "PARTIAL" /\ r.consumed = s
    BY <1>10, <1>12, <2>1, ParseBegun
  <2>3. s \in 0..b /\ s <= s
    BY <1>1, <1>12
  <2> QED  BY <1>6, <1>12, <2>2, <2>3
<1>13. CASE b >= s + l
  <2> DEFINE raw == Unescape(SubSeq(g, 3, l - 2))
  <2>1. /\ SubSeq(g, 3, l - 2) = SubSeq(buf, s + 3, s + l - 2)
        /\ SubSeq(g, 3, l - 2) \in Seq(Nat)
        /\ Len(SubSeq(g, 3, l - 2)) = l - 4
    <3>1. ASSUME NEW j \in 3..(l - 2)
          PROVE  j \in 1..l /\ j + s \in 1..b /\ g[j] = buf[j + s]
      <4>1. j \in 1..l /\ j + s \in 1..b /\ j + s = s + j
        BY <1>1, <1>13, SMTT(30)
      <4> QED  BY <1>2, <1>3, <4>1
    <3>2. /\ SubSeq(g, 3, l - 2) = SubSeq(buf, 3 + s, (l - 2) + s)
          /\ SubSeq(g, 3, l - 2) \in Seq(Nat)
          /\ Len(SubSeq(g, 3, l - 2)) = IF 3 <= l - 2 THEN (l - 2) - 3 + 1 ELSE 0
      <4> DEFINE e == l - 2
      <4>1. e \in Int /\ s \in Int /\ 3 \in Int
        BY <1>1
      <4>2. \A j \in 3..e : j \in 1..l /\ j + s \in 1..b /\ g[j] = buf[j + s]
        BY <3>1
      <4>3. \A j \in 3..e : j \in 1..Len(g) /\ j + s \in 1..Len(buf) /\ g[j] = buf[j + s]
        BY <4>2
      <4> HIDE DEF e, s
      <4>4. /\ SubSeq(g, 3, e) = SubSeq(buf, 3 + s, e + s)
            /\ SubSeq(g, 3, e) \in Seq(Nat)
            /\ Len(SubSeq(g, 3, e)) = IF 3 <= e THEN e - 3 + 1 ELSE 0
        BY <1>1, <4>1, <4>3, SubSeqsEqual, SMTT(30)
      <4> QED  BY <4>4 DEF e
    <3>3. 3 + s = s + 3 /\ (l - 2) + s = s + l - 2
          /\ (IF 3 <= l - 2 THEN (l - 2) - 3 + 1 ELSE 0) = l - 4
      <4> HIDE DEF s, l
      <4> QED  BY <1>1
    <3> QED  BY <3>2, <3>3
  <2>2. raw \in Seq(Nat) /\ Len(raw) <= MaxFrame
    <3>1. raw \in Seq(Nat) /\ Len(raw) <= l - 4
      BY <2>1, UnescapeShortens
    <3>2. Len(raw) \in Nat /\ l <= MaxFrame /\ MaxFrame \in Nat
      BY <3>1, LenProperties, ByteAssumption DEF Closed
    <3> QED  BY <1>1, <3>1, <3>2
  <2>3. r = Decoded(raw, s + l - 1)
    <3>1. PairAt(buf, s + l - 1, CR)
      <4>1. /\ l - 1 \in 1..l /\ l \in 1..l /\ s + (l - 1) \in 1..b /\ s + l \in 1..b
            /\ s + (l - 1) = s + l - 1 /\ (s + l - 1) + 1 = s + l /\ (l - 1) + 1 = l
        BY <1>1, <1>13
      <4>2. buf[s + l - 1] = g[l - 1] /\ buf[s + l] = g[l]
        BY <1>2, <1>3, <4>1
      <4>3. g[l - 1] = FE /\ g[l] = CR
        BY <4>1 DEF Closed, PairAt
      <4> QED  BY <4>1, <4>2, <4>3 DEF PairAt
    <3>2. b >= s + 2 /\ s + l <= b
      BY <1>1, <1>13
    <3>3. ASSUME NEW k \in (s + 3)..(s + l - 2) PROVE ~PairAt(buf, k, CR)
      <4>1. k <= b - 1
        BY <1>1, <1>13
      <4> QED  BY <1>11, <4>1
    <3>4. r = Decoded(Unescape(SubSeq(buf, s + 3, s + l - 2)), s + l - 1)
      BY <1>1, <1>10, <3>1, <3>2, <3>3, ParseFrame
    <3> QED  BY <2>1, <3>4
  <2>4. /\ r.consumed = s + l
        /\ r.result = Outcome(g).result /\ r.cmd = Outcome(g).cmd /\ r.data = Outcome(g).data
    <3>1. Outcome(g) = Decoded(raw, l - 1)
      BY DEF Outcome
    <3> DEFINE end == s + l - 1
               own == l - 1
    <3>2. end \in Int /\ own \in Int /\ end + 1 = s + l
      <4> HIDE DEF s, l
      <4> QED  BY <1>1
    <3>3. r = Decoded(raw, end) /\ Outcome(g) = Decoded(raw, own)
      BY <2>3, <3>1
    <3> HIDE DEF raw, end, own, r
    <3>4. /\ Decoded(raw, end).consumed = end + 1
          /\ Decoded(raw, end).result = Decoded(raw, own).result
          /\ Decoded(raw, end).cmd = Decoded(raw, own).cmd
          /\ Decoded(raw, end).data = Decoded(raw, own).data
      BY <2>2, <3>2, DecodedProperties
    <3> QED  BY <3>2, <3>3, <3>4, Zenon
  <2>5. Kept(r, buf) \in Seq(Nat) /\ Kept(r, buf) \o later = tail
    <3> DEFINE c == s + l
               qg == q \o g
    <3>1. c \in 0..b
      BY <1>1, <1>13
    <3>2. Kept(r, buf) \in Seq(Nat) /\ Kept(r, buf) \o later = SubSeq(t, c + 1, Len(t))
      BY <1>4, <2>4, <3>1
    <3>3. qg \in Seq(Nat) /\ Len(qg) = c /\ t = qg \o tail
      <4>1. qg \in Seq(Nat) /\ Len(qg) = Len(q) + Len(g)
        BY <1>1, ConcatProperties
      <4>2. (q \o g) \o tail = q \o (g \o tail)
        <5>1. q \in Seq(Nat) /\ g \in Seq(Nat)
          BY <1>1
        <5> QED  BY <5>1, ConcatAssociative, SMTT(30)
      <4> QED  BY <4>1, <4>2, Zenon
    <3>4. SubSeq(qg, c + 1, Len(qg)) \o tail = SubSeq(t, c + 1, Len(t))
      <4> HIDE DEF qg, t
      <4>1. c \in 0..Len(qg)
        BY <3>1, <3>3
      <4> QED  BY <3>3, <4>1, DropFront
    <3>5. SubSeq(qg, c + 1, Len(qg)) = <<>>
      <4> HIDE DEF qg
      <4>1. c + 1 \in Int /\ Len(qg) \in Int /\ Len(qg) < c + 1
        BY <1>1, <3>3
      <4> QED  BY <4>1, SubSeqEmpty
    <3>6. <<>> \o tail = tail
      BY ConcatEmptySeq
    <3> HIDE DEF qg, c, t
    <3> QED  BY <3>2, <3>4, <3>5, <3>6
  <2> QED  BY <2>4, <2>5 DEF Decodes
<1> QED
  <2>1. b <= s + 1 \/ (b >= s + 2 /\ b < s + l) \/ b >= s + l
    BY <1>1
  <2> QED  BY <1>9, <1>12, <1>13, <2>1
-----------------------------------------------------------------------------
(* What satel_build_frame makes.                                           *)

\* A frame that is short enough: its cmd byte, the password and the data.
Sendable(f) ==
    /\ f[1] \in Nat /\ f[2] \in Seq(Nat)
    /\ Len(Body(f[1], f[2])) <= MaxData + 9

\* The bytes that are stuffed: the body and its CRC.
Raw(f) ==
    Body(f[1], f[2]) \o <<Crc(Body(f[1], f[2])) \div 256, Crc(Body(f[1], f[2])) % 256>>

\* The password is a sequence of eight bytes.
LEMMA PassIsSeq == Pass \in Seq(Nat) /\ Len(Pass) = 8
<1>1. 8 \in Nat /\ Pass \in [1..8 -> Nat]
  BY ByteAssumption
<1> QED  BY <1>1, FunctionIsSeq

\* The CRC is sent as two bytes that make it.
LEMMA WordHalves ==
    ASSUME NEW w \in Word
    PROVE  w \div 256 \in Nat /\ w % 256 \in Nat /\ 256 * (w \div 256) + (w % 256) = w
BY DEF Word

\* The body of a frame: the cmd byte and what is reported as its data.
LEMMA BodyIs ==
    ASSUME NEW f, f[1] \in Nat, f[2] \in Seq(Nat)
    PROVE  /\ Body(f[1], f[2]) \in Seq(Nat)
           /\ Body(f[1], f[2])[1] = f[1]
           /\ Len(Body(f[1], f[2])) >= 1
           /\ SubSeq(Body(f[1], f[2]), 2, Len(Body(f[1], f[2]))) = Reported(f)[2]
           /\ Reported(f)[1] = f[1] /\ Reported(f)[2] \in Seq(Nat)
           /\ Len(Body(f[1], f[2])) = 1 + (IF f[1] >= 128 THEN 8 ELSE 0) + Len(f[2])
<1> DEFINE pass == IF f[1] >= 128 THEN Pass ELSE <<>>
           c == <<f[1]>>
           x == pass \o f[2]
           body == Body(f[1], f[2])
           size == IF f[1] >= 128 THEN 8 ELSE 0
<1>1. pass \in Seq(Nat) /\ Len(pass) = size
  <2>1. CASE f[1] >= 128
    <3>1. pass = Pass /\ size = 8
      BY <2>1
    <3> QED  BY <3>1, PassIsSeq, Zenon
  <2>2. CASE ~(f[1] >= 128)
    <3>1. pass = <<>> /\ size = 0
      BY <2>2
    <3>2. <<>> \in Seq(Nat) /\ Len(<<>>) = 0
      BY EmptySeq
    <3> QED  BY <3>1, <3>2, Zenon
  <2> QED  BY <2>1, <2>2
<1>0. size \in Nat /\ size = IF f[1] >= 128 THEN 8 ELSE 0
  OBVIOUS
<1> HIDE DEF size
<1>2. c \in Seq(Nat) /\ Len(c) = 1 /\ c[1] = f[1]
  OBVIOUS
<1>3. Reported(f)[1] = f[1] /\ Reported(f)[2] = x
  BY DEF Reported
<1>4. body = (c \o pass) \o f[2]
  BY DEF Body
<1> HIDE DEF pass, c, body
<1> DEFINE d == f[2]
<1>5. d \in Seq(Nat) /\ Reported(f)[2] = x /\ body = (c \o pass) \o d /\ x = pass \o d
  BY <1>3, <1>4
<1> HIDE DEF d, x
<1>6. x \in Seq(Nat) /\ Len(x) = Len(pass) + Len(d)
  BY <1>1, <1>5, ConcatProperties
<1>7. body = c \o x
  <2>1. c \in Seq(Nat) /\ pass \in Seq(Nat) /\ d \in Seq(Nat)
    BY <1>1, <1>2, <1>5
  <2>2. (c \o pass) \o d = c \o (pass \o d)
    BY <2>1, ConcatAssociative, SMTT(30)
  <2> QED  BY <1>5, <2>2, Zenon
<1>8. /\ body \in Seq(Nat) /\ Len(body) = Len(c) + Len(x)
      /\ \A k \in 1..(Len(c) + Len(x)) : body[k] = IF k <= Len(c) THEN c[k] ELSE x[k - Len(c)]
  <2>1. c \in Seq(Nat) /\ x \in Seq(Nat)
    BY <1>2, <1>6
  <2> QED  BY <1>7, <2>1, ConcatProperties
<1>9. Len(x) \in Nat /\ Len(d) \in Nat
  BY <1>5, <1>6, LenProperties
<1>10. body[1] = f[1] /\ Len(body) = 1 + size + Len(d) /\ Len(body) >= 1
  <2>1. 1 \in 1..(Len(c) + Len(x)) /\ 1 <= Len(c)
    BY <1>2, <1>9
  <2>2. body[1] = c[1]
    BY <1>8, <2>1
  <2>3. Len(body) = 1 + size + Len(d) /\ Len(body) >= 1
    BY <1>0, <1>1, <1>2, <1>6, <1>8, <1>9
  <2> QED  BY <1>2, <2>2, <2>3
<1>11. SubSeq(body, 2, Len(body)) = x
  <2>1. 1 \in 0..Len(c) /\ 1 + 1 = 2
    BY <1>2
  <2>2. SubSeq(c, 1 + 1, Len(c)) \o x = SubSeq(c \o x, 1 + 1, Len(c \o x))
    BY <1>2, <1>6, <2>1, DropFront
  <2>3. SubSeq(c, 2, Len(c)) = <<>>
    <3>1. 2 \in Int /\ Len(c) \in Int /\ Len(c) < 2
      BY <1>2
    <3> QED  BY <3>1, SubSeqEmpty
  <2>4. <<>> \o x = x
    BY <1>6, ConcatEmptySeq
  <2> QED  BY <1>7, <2>1, <2>2, <2>3, <2>4
<1>12. Len(body) = 1 + (IF f[1] >= 128 THEN 8 ELSE 0) + Len(f[2])
  BY <1>0, <1>10, Zenon DEF d
<1> QED  BY <1>3, <1>5, <1>6, <1>8, <1>10, <1>11, <1>12, Zenon DEF body

\* What is stuffed, and what becomes of it when it is decoded.
LEMMA RawIs ==
    ASSUME NEW f, Sendable(f)
    PROVE  /\ Raw(f) \in Seq(Nat) /\ Len(Raw(f)) >= 3 /\ Len(Raw(f)) <= MaxData + 11
           /\ Raw(f)[1] = f[1]
           /\ \A end \in Int : Decoded(Raw(f), end) =
                 [result |-> "OK", consumed |-> end + 1, cmd |-> f[1], data |-> Reported(f)[2]]
<1> DEFINE body == Body(f[1], f[2])
           crc == Crc(body)
           hi == crc \div 256
           lo == crc % 256
           two == <<hi, lo>>
           raw == Raw(f)
           n == Len(body)
<1>1. f[1] \in Nat /\ f[2] \in Seq(Nat) /\ n <= MaxData + 9
  BY DEF Sendable
<1>2. /\ body \in Seq(Nat) /\ body[1] = f[1] /\ n >= 1 /\ n \in Nat
      /\ SubSeq(body, 2, n) = Reported(f)[2] /\ Reported(f)[2] \in Seq(Nat)
  BY <1>1, BodyIs, LenProperties
<1>3. raw = body \o two
  BY DEF Raw
<1>4. crc \in Word
  BY <1>2, CrcRange
<1> HIDE DEF body, crc, raw
<1>5. hi \in Nat /\ lo \in Nat /\ 256 * hi + lo = crc
  BY <1>4, WordHalves, Zenon
<1> HIDE DEF hi, lo
<1>6. two \in Seq(Nat) /\ Len(two) = 2 /\ two[1] = hi /\ two[2] = lo
  BY <1>5
<1> HIDE DEF two
<1>7. /\ raw \in Seq(Nat) /\ Len(raw) = n + 2
      /\ \A k \in 1..(n + 2) : raw[k] = IF k <= n THEN body[k] ELSE two[k - n]
  <2>1. body \in Seq(Nat) /\ two \in Seq(Nat)
    BY <1>2, <1>6
  <2>2. /\ raw \in Seq(Nat) /\ Len(raw) = n + Len(two)
        /\ \A k \in 1..(n + Len(two)) : raw[k] = IF k <= n THEN body[k] ELSE two[k - n]
    BY <1>3, <2>1, ConcatProperties
  <2> QED  BY <1>6, <2>2, Zenon
<1> HIDE DEF n
<1>8. raw[1] = f[1] /\ raw[n + 1] = hi /\ raw[n + 2] = lo
  <2>1. /\ 1 \in 1..(n + 2) /\ 1 <= n /\ n + 1 \in 1..(n + 2) /\ n + 2 \in 1..(n + 2)
        /\ ~(n + 1 <= n) /\ ~(n + 2 <= n) /\ (n + 1) - n = 1 /\ (n + 2) - n = 2
    BY <1>2
  <2>2. raw[1] = body[1] /\ raw[n + 1] = two[(n + 1) - n] /\ raw[n + 2] = two[(n + 2) - n]
    BY <1>7, <2>1
  <2> QED  BY <1>2, <1>6, <2>1, <2>2
<1>9. SubSeq(raw, 1, n) = body
  <2>1. 1 \in 1..Len(body) /\ Len(body) \in 1..Len(body)
    BY <1>2 DEF n
  <2>2. SubSeq(body \o two, 1, Len(body)) = SubSeq(body, 1, Len(body))
    BY <1>2, <1>6, <2>1, SubSeqOfConcat1
  <2>3. SubSeq(body, 1, Len(body)) = body
    BY <1>2, SubSeqFull
  <2> QED  BY <1>3, <2>2, <2>3 DEF n
<1>10. CrcMatches(raw)
  <2>1. Len(raw) - 1 = n + 1 /\ Len(raw) - 2 = n
    BY <1>2, <1>7
  <2>2. 256 * raw[Len(raw) - 1] + raw[Len(raw)] = crc
    BY <1>5, <1>7, <1>8, <2>1
  <2>3. crc = Crc(SubSeq(raw, 1, Len(raw) - 2))
    BY <1>9, <2>1 DEF crc
  <2> QED  BY <2>2, <2>3 DEF CrcMatches
<1>11. SubSeq(raw, 2, n) = Reported(f)[2]
  <2>1. ASSUME NEW j \in 2..n
        PROVE  j \in 1..Len(raw) /\ j + 0 \in 1..Len(body) /\ raw[j] = body[j + 0]
    <3>1. j \in 1..(n + 2) /\ j <= n /\ j + 0 = j /\ j \in 1..n
      BY <1>2
    <3> QED  BY <1>7, <3>1 DEF n
  <2>2. n \in Int /\ 2 \in Int /\ 0 \in Int /\ 2 + 0 = 2 /\ n + 0 = n
    BY <1>2
  <2>3. SubSeq(raw, 2, n) = SubSeq(body, 2 + 0, n + 0)
    BY <1>2, <1>7, <2>1, <2>2, SubSeqsEqual
  <2> QED  BY <1>2, <2>2, <2>3
<1>12. /\ Len(raw) >= 3 /\ Len(raw) <= MaxData + 11
       /\ ~(Len(raw) > MaxFrame) /\ ~(Len(raw) < 3)
       /\ 1 + (IF Len(raw) - 3 > MaxPayload THEN MaxPayload ELSE Len(raw) - 3) = n
  <2>1. n \in Nat /\ 1 <= n /\ n <= MaxData + 9 /\ Len(raw) = n + 2
    BY <1>1, <1>2, <1>7 DEF n
  <2>2. MaxData \in Nat /\ MaxFrame \in Nat /\ MaxPayload \in Nat
    BY ByteAssumption
  <2> QED  BY <2>1, <2>2, SizeAssumption
<1>13. ASSUME NEW end \in Int
       PROVE  Decoded(raw, end) =
                 [result |-> "OK", consumed |-> end + 1, cmd |-> f[1], data |-> Reported(f)[2]]
  <2>1. Decoded(raw, end) =
           [result |-> "OK", consumed |-> end + 1, cmd |-> raw[1],
            data |-> SubSeq(raw, 2, 1 + (IF Len(raw) - 3 > MaxPayload
                                         THEN MaxPayload ELSE Len(raw) - 3))]
    BY <1>10, <1>12, Zenon DEF Decoded
  <2> QED  BY <1>8, <1>11, <1>12, <2>1, Zenon
<1> QED  BY <1>7, <1>8, <1>12, <1>13 DEF raw

\* A frame on the wire around the stuffed bytes e, byte by byte.
WireForm(w, e) ==
    /\ w \in Seq(Nat) /\ e \in Seq(Nat) /\ Stuffed(e)
    /\ Len(e) \in Nat /\ Len(e) >= 3 /\ Len(w) = Len(e) + 4
    /\ w[1] = FE /\ w[2] = FE
    /\ \A k \in 1..Len(e) : w[2 + k] = e[k]
    /\ w[Len(e) + 3] = FE /\ w[Len(e) + 4] = CR

\* The longest frame.
MaxWire == 2 * (MaxData + 11) + 4

\* What satel_build_frame makes of a frame that is short enough has this form, and the
\* stuffed bytes in it decode to the raw ones.
LEMMA WireIs ==
    ASSUME NEW f, Sendable(f)
    PROVE  /\ WireForm(Wire(f), Escape(Raw(f))) /\ Len(Wire(f)) <= MaxWire
           /\ Unescape(Escape(Raw(f))) = Raw(f) /\ Len(Raw(f)) <= MaxWire
<1> DEFINE e == Escape(Raw(f))
           raw == Raw(f)
           l == Len(e)
           o == <<FE, FE>>
           c == <<FE, CR>>
           w == o \o (e \o c)
<1>1. raw \in Seq(Nat) /\ Len(raw) >= 3 /\ Len(raw) <= MaxData + 11 /\ Len(raw) \in Nat
  BY RawIs, LenProperties
<1>2. /\ e \in Seq(Nat) /\ Stuffed(e) /\ Unescape(e) = raw
      /\ Len(raw) <= l /\ l <= 2 * Len(raw) /\ l \in Nat
  BY <1>1, EscapeProperties, LenProperties DEF StuffedRight
<1>3. /\ o \in Seq(Nat) /\ c \in Seq(Nat) /\ Len(o) = 2 /\ Len(c) = 2
      /\ o[1] = FE /\ o[2] = FE /\ c[1] = FE /\ c[2] = CR
  BY DEF FE, CR
<1>4. /\ w \in Seq(Nat) /\ Len(w) = Len(o) + l + Len(c)
      /\ \A k \in 1..Len(o) : w[k] = o[k]
      /\ \A k \in 1..l : w[Len(o) + k] = e[k]
      /\ \A k \in 1..Len(c) : w[Len(o) + l + k] = c[k]
  <2>1. e \in Seq(Nat) /\ o \in Seq(Nat) /\ c \in Seq(Nat)
    BY <1>2, <1>3
  <2> HIDE DEF e, o, c
  <2> QED  BY <2>1, Layout
<1>5. (o \o e) \o c = w
  <2>1. e \in Seq(Nat) /\ o \in Seq(Nat) /\ c \in Seq(Nat)
    BY <1>2, <1>3
  <2> HIDE DEF e, o, c
  <2> QED  BY <2>1, ConcatAssociative
<1> DEFINE long == Len(Body(f[1], f[2])) > MaxFrame
           full == Len((o \o e) \o c) >= MaxFrame
<1>6. Wire(f) = IF long \/ full THEN <<>> ELSE (o \o e) \o c
  BY Zenon DEF Wire, BuildFrame, Raw
<1>7. MaxData \in Nat /\ MaxFrame \in Nat
  BY ByteAssumption
<1>8. ~long /\ MaxWire <= MaxFrame
  <2>1. Len(Body(f[1], f[2])) <= MaxData + 9 /\ Len(Body(f[1], f[2])) \in Nat
    BY BodyIs, LenProperties DEF Sendable
  <2> QED  BY <1>7, <2>1, SizeAssumption DEF MaxWire
<1> HIDE DEF long, e, o, c, raw, w
<1>9. Len(w) = l + 4 /\ Len(w) <= MaxWire /\ l >= 3 /\ Len(w) < MaxFrame /\ Len(raw) <= MaxWire
  <2> DEFINE size == Len(raw)
  <2>1. /\ size \in Nat /\ size >= 3 /\ size <= MaxData + 11
        /\ l \in Nat /\ size <= l /\ l <= 2 * size
    BY <1>1, <1>2
  <2>2. Len(w) = l + 4
    <3>1. Len(w) = Len(o) + l + Len(c) /\ Len(o) = 2 /\ Len(c) = 2
      BY <1>3, <1>4
    <3> HIDE DEF l
    <3> QED  BY <2>1, <3>1
  <2> HIDE DEF l, size
  <2>3. /\ l + 4 <= MaxWire /\ l >= 3 /\ l + 4 < MaxFrame /\ size <= MaxWire
    BY <1>7, <2>1, SizeAssumption DEF MaxWire
  <2> QED  BY <2>2, <2>3 DEF size
<1>10. ~full
  <2>1. Len(w) \in Nat
    BY <1>4, LenProperties
  <2> QED  BY <1>5, <1>7, <1>9, <2>1
<1> HIDE DEF full
<1>11. Wire(f) = w
  BY <1>5, <1>6, <1>8, <1>10
<1>12. w[1] = FE /\ w[2] = FE
  BY <1>3, <1>4
<1>13. \A k \in 1..l : w[2 + k] = e[k]
  BY <1>3, <1>4
<1>14. w[l + 3] = FE /\ w[l + 4] = CR
  <2>1. w[2 + l + 1] = FE /\ w[2 + l + 2] = CR
    BY <1>3, <1>4
  <2>2. 2 + l + 1 = l + 3 /\ 2 + l + 2 = l + 4
    BY <1>2
  <2> QED  BY <2>1, <2>2
<1>15. WireForm(w, e)
  BY <1>2, <1>4, <1>9, <1>12, <1>13, <1>14 DEF WireForm, l
<1> QED  BY <1>2, <1>9, <1>11, <1>15 DEF e, raw

\* Between its ends, a frame on the wire has neither FE FE nor FE 0D.
LEMMA WireInside ==
    ASSUME NEW w, NEW e, WireForm(w, e), NEW k \in 3..(Len(w) - 2), w[k] = FE
    PROVE  w[k + 1] = F0
<1> DEFINE j == k - 2
<1>1. j \in 1..Len(e) /\ k = 2 + j /\ k + 1 = 2 + (j + 1)
  BY DEF WireForm
<1> HIDE DEF j
<1>2. e[j] = FE
  BY <1>1 DEF WireForm
<1>3. j + 1 \in 1..Len(e) /\ e[j + 1] = F0
  BY <1>1, <1>2 DEF WireForm, Stuffed
<1>4. w[2 + (j + 1)] = F0
  BY <1>3 DEF WireForm
<1> QED  BY <1>1, <1>4

\* Its first two bytes and its last two are the ends of a frame.
LEMMA WireEnds ==
    ASSUME NEW w, NEW e, WireForm(w, e)
    PROVE  PairAt(w, 1, FE) /\ PairAt(w, Len(w) - 1, CR) /\ Len(w) \in Nat /\ Len(w) >= 7
<1>1. Len(w) - 1 = Len(e) + 3 /\ (Len(w) - 1) + 1 = Len(e) + 4 /\ 1 + 1 = 2
      /\ Len(w) \in Nat /\ Len(w) >= 7
  BY DEF WireForm
<1> QED  BY <1>1 DEF WireForm, PairAt

\* What satel_build_frame makes is a frame to the parser, and decodes to itself.
LEMMA WireClosed ==
    ASSUME NEW f, Sendable(f)
    PROVE  /\ Closed(Wire(f))
           /\ Outcome(Wire(f)) = [result |-> "OK", consumed |-> Len(Wire(f)), cmd |-> f[1],
                                  data |-> Reported(f)[2]]
<1> DEFINE w == Wire(f)
           e == Escape(Raw(f))
           l == Len(w)
<1>1. /\ WireForm(w, e) /\ l <= MaxWire /\ Unescape(e) = Raw(f)
      /\ PairAt(w, 1, FE) /\ PairAt(w, l - 1, CR) /\ l \in Nat /\ l >= 7
  BY WireIs, WireEnds
<1> HIDE DEF w, e
<1>2. l <= MaxFrame
  BY <1>1, ByteAssumption, SizeAssumption DEF MaxWire
<1>3. ASSUME NEW k \in 3..(l - 2) PROVE ~PairAt(w, k, CR)
  <2>1. w[k] = FE => w[k + 1] = F0
    BY <1>1, WireInside
  <2> QED  BY <2>1 DEF PairAt, F0, CR
<1>4. w \in Seq(Nat)
  BY <1>1 DEF WireForm
<1>5. Closed(w)
  BY <1>1, <1>2, <1>3, <1>4 DEF Closed
<1>6. SubSeq(w, 3, l - 2) = e
  <2> DEFINE m == Len(e)
  <2>1. m \in Nat /\ 1 \in Int /\ m \in Int /\ 2 \in Int /\ l = m + 4 /\ e \in Seq(Nat)
        /\ 1 + 2 = 3 /\ m + 2 = l - 2
    BY <1>1 DEF WireForm
  <2>2. ASSUME NEW j \in 1..m
        PROVE  j \in 1..Len(e) /\ j + 2 \in 1..Len(w) /\ e[j] = w[j + 2]
    <3>1. j \in 1..Len(e) /\ j + 2 \in 1..l /\ j + 2 = 2 + j
      BY <2>1
    <3>2. w[2 + j] = e[j]
      BY <1>1 DEF WireForm
    <3> QED  BY <3>1, <3>2
  <2>3. SubSeq(e, 1, m) = SubSeq(w, 1 + 2, m + 2)
    <3> HIDE DEF m
    <3> QED  BY <1>4, <2>1, <2>2, SubSeqsEqual
  <2>4. SubSeq(e, 1, m) = e
    BY <2>1, SubSeqFull
  <2> HIDE DEF m, l
  <2> QED  BY <2>1, <2>3, <2>4
<1>7. Outcome(w) = Decoded(Raw(f), l - 1)
  BY <1>1, <1>6 DEF Outcome
<1>8. l - 1 \in Int /\ (l - 1) + 1 = l
  BY <1>1
<1>9. Decoded(Raw(f), l - 1) = [result |-> "OK", consumed |-> (l - 1) + 1, cmd |-> f[1],
                                data |-> Reported(f)[2]]
  BY <1>8, RawIs
<1> QED  BY <1>5, <1>7, <1>8, <1>9 DEF w
-----------------------------------------------------------------------------
(* A frame that was cut, and the next one.                                 *)

\* Where the first FE 0D of a frame on the wire is, its own FE FE not looked at: at
\* its end, or right after the FE FE when the cmd byte is 0D.  No frame begins in
\* what follows.
LEMMA SecondEnd ==
    ASSUME NEW w, NEW e, WireForm(w, e)
    PROVE  \E m \in 3..Len(w) :
              /\ PairAt(w, m - 1, CR) /\ \A j \in 1..(m - 2) : ~PairAt(w, j, CR)
              /\ Junk(SubSeq(w, m + 1, Len(w)))
<1> DEFINE l == Len(w)
<1>1. /\ PairAt(w, 1, FE) /\ PairAt(w, l - 1, CR) /\ l \in Nat /\ l >= 7 /\ w \in Seq(Nat)
  BY WireEnds DEF WireForm
<1>2. w[1] = FE /\ w[2] = FE
  BY DEF WireForm
<1>3. ASSUME NEW j \in 3..(l - 2) PROVE w[j] = FE => w[j + 1] = F0
  BY WireInside
<1>4. w[l - 1] = FE /\ w[l] = CR
  <2>1. (l - 1) + 1 = l
    BY <1>1
  <2> QED  BY <1>1, <2>1 DEF PairAt
<1> HIDE DEF l
<1>5. ~PairAt(w, 1, CR)
  <2>1. 1 + 1 = 2
    OBVIOUS
  <2> QED  BY <1>2, <2>1 DEF PairAt, FE, CR
<1>6. CASE w[3] = CR
  <2> DEFINE q == SubSeq(w, 3 + 1, l)
  <2>1. /\ q \in Seq(Nat) /\ Len(q) = l - 3
        /\ \A k \in 1..(l - 3) : q[k] = w[3 + k]
    <3>1. 3 \in 0..l
      BY <1>1
    <3> QED  BY <1>1, <3>1, Suffix DEF l
  <2> HIDE DEF q
  <2>2. ASSUME NEW k \in 1..(Len(q) - 1) PROVE ~PairAt(q, k, FE)
    <3> DEFINE j == 3 + k
    <3>1. /\ k \in 1..(l - 3) /\ k + 1 \in 1..(l - 3) /\ 3 + (k + 1) = j + 1
          /\ (j \in 3..(l - 2) \/ j = l - 1) /\ (l - 1) + 1 = l
      BY <1>1, <2>1
    <3>2. q[k] = w[j] /\ q[k + 1] = w[j + 1]
      BY <2>1, <3>1
    <3> HIDE DEF j
    <3>3. ~(w[j] = FE /\ w[j + 1] = FE)
      <4>1. F0 # FE /\ CR # FE
        BY DEF F0, FE, CR
      <4>2. CASE j \in 3..(l - 2)
        BY <1>3, <4>1, <4>2
      <4>3. CASE j = l - 1
        BY <1>4, <3>1, <4>1, <4>3
      <4> QED  BY <3>1, <4>2, <4>3
    <3> QED  BY <3>2, <3>3 DEF PairAt
  <2>3. q[Len(q)] # FE
    <3>1. Len(q) \in 1..(l - 3) /\ 3 + Len(q) = l
      BY <1>1, <2>1
    <3>2. q[Len(q)] = w[l]
      BY <2>1, <3>1
    <3> QED  BY <1>4, <3>2 DEF CR, FE
  <2>4. Junk(q)
    BY <2>1, <2>2, <2>3 DEF Junk
  <2>5. PairAt(w, 3 - 1, CR)
    <3>1. 3 - 1 = 2 /\ 2 + 1 = 3
      OBVIOUS
    <3> QED  BY <1>2, <1>6, <3>1 DEF PairAt
  <2>6. \A j \in 1..(3 - 2) : ~PairAt(w, j, CR)
    <3>1. \A j \in 1..(3 - 2) : j = 1
      OBVIOUS
    <3> QED  BY <1>5, <3>1
  <2>7. 3 \in 3..l
    BY <1>1
  <2> QED  BY <2>4, <2>5, <2>6, <2>7 DEF q, l
<1>7. CASE w[3] # CR
  <2>1. ASSUME NEW j \in 1..(l - 2) PROVE ~PairAt(w, j, CR)
    <3>1. j = 1 \/ j = 2 \/ j \in 3..(l - 2)
      BY <1>1
    <3>2. CASE j = 2
      <4>1. 2 + 1 = 3
        OBVIOUS
      <4> QED  BY <1>7, <3>2, <4>1 DEF PairAt
    <3>3. CASE j \in 3..(l - 2)
      BY <1>3, <3>3 DEF PairAt, F0, CR
    <3> QED  BY <1>5, <3>1, <3>2, <3>3
  <2>2. SubSeq(w, l + 1, l) = <<>>
    <3>1. l + 1 \in Int /\ l \in Int /\ l < l + 1
      BY <1>1
    <3> QED  BY <3>1, SubSeqEmpty
  <2>3. Junk(<<>>)
    BY EmptySeq DEF Junk
  <2>4. l \in 3..l
    BY <1>1
  <2> QED  BY <1>1, <2>1, <2>2, <2>3, <2>4 DEF l
<1> QED  BY <1>6, <1>7

\* One frame to the parser, with some junk after it.
FrameAndJunk(s) == \E g, q \in Seq(Nat) : Closed(g) /\ Junk(q) /\ s = g \o q

\* A frame cut after c bytes and the next frame are one frame to the parser, with
\* some junk after it.
LEMMA Garbled ==
    ASSUME NEW w1, NEW e1, WireForm(w1, e1), NEW w2, NEW e2, WireForm(w2, e2), Closed(w2),
           Len(w1) + Len(w2) <= MaxFrame, NEW c \in 0..(Len(w1) - 1)
    PROVE  FrameAndJunk(SubSeq(w1, 1, c) \o w2)
<1> DEFINE p == SubSeq(w1, 1, c)
<1>1. /\ w1 \in Seq(Nat) /\ w2 \in Seq(Nat) /\ Len(w1) \in Nat /\ Len(w2) \in Nat
      /\ c \in Nat /\ c < Len(w1) /\ Len(w1) >= 7 /\ Len(w2) >= 7
  <2>1. Len(w1) \in Nat /\ Len(w1) >= 7 /\ Len(w2) \in Nat /\ Len(w2) >= 7
    BY WireEnds
  <2>2. w1 \in Seq(Nat) /\ w2 \in Seq(Nat)
    BY DEF WireForm
  <2>3. c \in Nat /\ c < Len(w1)
    BY <2>1
  <2> QED  BY <2>1, <2>2, <2>3
<1>2. /\ p \in Seq(Nat) /\ Len(p) = c
      /\ \A k \in 1..c : p[k] = w1[k]
  <2>1. \A k \in 1..c : k \in 1..Len(w1) /\ 1 + k - 1 = k
    BY <1>1
  <2>2. \A k \in 1..c : w1[k] \in Nat
    BY <1>1, <2>1, ElementOfSeq
  <2>3. 1 \in Int /\ c \in Int /\ c - 1 + 1 = c
    BY <1>1
  <2>4. /\ p \in Seq(Nat) /\ Len(p) = IF 1 <= c THEN c - 1 + 1 ELSE 0
        /\ \A k \in 1..(c - 1 + 1) : p[k] = w1[1 + k - 1]
    BY <2>2, <2>3, SubSeqProperties
  <2> HIDE DEF p
  <2> QED  BY <1>1, <2>1, <2>3, <2>4
<1> HIDE DEF p
<1>3. CASE c = 0
  <2>1. p = <<>>
    BY <1>2, <1>3, EmptySeq
  <2>2. p \o w2 = w2 /\ w2 \o <<>> = w2
    BY <1>1, <2>1, ConcatEmptySeq
  <2>3. Junk(<<>>) /\ <<>> \in Seq(Nat)
    BY EmptySeq DEF Junk
  <2> QED  BY <1>1, <2>2, <2>3 DEF p, FrameAndJunk
<1>4. CASE c # 0
  <2>1. PICK m \in 3..Len(w2) :
           /\ PairAt(w2, m - 1, CR) /\ \A j \in 1..(m - 2) : ~PairAt(w2, j, CR)
           /\ Junk(SubSeq(w2, m + 1, Len(w2)))
    BY SecondEnd
  <2> DEFINE a == SubSeq(w2, 1, m)
             q == SubSeq(w2, m + 1, Len(w2))
             g == p \o a
  <2>2. m \in Nat /\ 3 <= m /\ m <= Len(w2)
    BY <1>1
  <2>3. a \in Seq(Nat) /\ Len(a) = m /\ \A k \in 1..m : a[k] = w2[k]
    <3>1. \A k \in 1..m : k \in 1..Len(w2) /\ 1 + k - 1 = k
      BY <1>1, <2>2
    <3>2. \A k \in 1..m : w2[k] \in Nat
      BY <1>1, <3>1, ElementOfSeq
    <3>3. 1 \in Int /\ m \in Int /\ m - 1 + 1 = m /\ 1 <= m
      BY <2>2
    <3>4. /\ a \in Seq(Nat) /\ Len(a) = IF 1 <= m THEN m - 1 + 1 ELSE 0
          /\ \A k \in 1..(m - 1 + 1) : a[k] = w2[1 + k - 1]
      BY <3>2, <3>3, SubSeqProperties
    <3> HIDE DEF a
    <3> QED  BY <3>1, <3>3, <3>4
  <2>4. a \o q = w2 /\ q \in Seq(Nat)
    <3>1. m \in 0..Len(w2)
      BY <1>1, <2>2
    <3>2. q \in Seq(Nat)
      BY <1>1, <3>1, Suffix
    <3>3. 1 \in 1..(Len(w2) + 1) /\ m \in (1 - 1)..Len(w2) /\ Len(w2) \in m..Len(w2)
      BY <1>1, <2>2
    <3>4. a \o q = SubSeq(w2, 1, Len(w2))
      BY <1>1, <3>3, ConcatAdjacentSubSeq
    <3>5. SubSeq(w2, 1, Len(w2)) = w2
      BY <1>1, SubSeqFull
    <3> QED  BY <3>2, <3>4, <3>5
  <2> HIDE DEF a, q
  <2>5. /\ g \in Seq(Nat) /\ Len(g) = c + m
        /\ \A k \in 1..(c + m) : g[k] = IF k <= c THEN p[k] ELSE a[k - c]
    <3>1. p \in Seq(Nat) /\ a \in Seq(Nat)
      BY <1>2, <2>3
    <3>2. /\ g \in Seq(Nat) /\ Len(g) = Len(p) + Len(a)
          /\ \A k \in 1..(Len(p) + Len(a)) : g[k] = IF k <= Len(p) THEN p[k] ELSE a[k - Len(p)]
      BY <3>1, ConcatProperties
    <3> HIDE DEF g
    <3> QED  BY <1>2, <2>3, <3>2
  <2>6. p \o w2 = g \o q
    <3>1. p \in Seq(Nat) /\ a \in Seq(Nat) /\ q \in Seq(Nat)
      BY <1>2, <2>3, <2>4
    <3>2. (p \o a) \o q = p \o (a \o q)
      BY <3>1, ConcatAssociative, SMTT(30)
    <3> QED  BY <2>4, <3>2
  <2> HIDE DEF g
  <2>7. \A k \in 1..c : g[k] = w1[k]
    <3>1. \A k \in 1..c : k \in 1..(c + m) /\ k <= c
      BY <1>1, <2>2
    <3> QED  BY <1>2, <2>5, <3>1
  <2>8. ASSUME NEW j \in 1..m PROVE g[c + j] = w2[j]
    <3>1. c + j \in 1..(c + m) /\ ~(c + j <= c) /\ (c + j) - c = j
      BY <1>1, <2>2
    <3>2. g[c + j] = a[(c + j) - c]
      BY <2>5, <3>1
    <3> QED  BY <2>3, <3>1, <3>2
  <2>9. w1[1] = FE /\ w1[2] = FE /\ w2[1] = FE /\ w2[2] = FE
    BY DEF WireForm
  <2>10. PairAt(g, 1, FE)
    <3>1. 1 \in 1..c /\ 1 + 1 = 2 /\ 1 \in 1..m
      BY <1>1, <1>4, <2>2
    <3>2. g[1] = FE
      BY <2>7, <2>9, <3>1
    <3>3. g[2] = FE
      <4>1. CASE c = 1
        <5>1. c + 1 = 2
          BY <4>1
        <5> QED  BY <2>8, <2>9, <3>1, <5>1
      <4>2. CASE c # 1
        <5>1. 2 \in 1..c
          BY <1>1, <1>4, <4>2
        <5> QED  BY <2>7, <2>9, <5>1
      <4> QED  BY <4>1, <4>2
    <3> QED  BY <3>1, <3>2, <3>3 DEF PairAt
  <2>11. PairAt(g, Len(g) - 1, CR)
    <3>1. /\ m - 1 \in 1..m /\ m \in 1..m /\ c + (m - 1) = Len(g) - 1
          /\ (Len(g) - 1) + 1 = c + m /\ (m - 1) + 1 = m
      BY <1>1, <2>2, <2>5
    <3>2. g[c + (m - 1)] = w2[m - 1]
      BY <2>8, <3>1
    <3>3. g[c + m] = w2[m]
      BY <2>8, <3>1
    <3>4. w2[m - 1] = FE /\ w2[m] = CR
      BY <2>1, <3>1 DEF PairAt
    <3> QED  BY <3>1, <3>2, <3>3, <3>4, Zenon DEF PairAt
  <2>12. ASSUME NEW k \in 3..(Len(g) - 2) PROVE ~PairAt(g, k, CR)
    <3>1. k \in Int /\ 3 <= k /\ k <= c + m - 2
      BY <1>1, <2>2, <2>5
    <3>2. CASE k < c
      <4>1. k \in 1..c /\ k + 1 \in 1..c /\ k \in 3..(Len(w1) - 2)
        BY <1>1, <3>1, <3>2
      <4>2. w1[k] = FE => w1[k + 1] = F0
        BY <4>1, WireInside
      <4> QED  BY <2>7, <4>1, <4>2 DEF PairAt, F0, CR
    <3>3. CASE k = c
      <4>1. 1 \in 1..m
        BY <2>2
      <4>2. g[k + 1] = FE
        BY <2>8, <2>9, <3>3, <4>1
      <4> QED  BY <4>2 DEF PairAt, FE, CR
    <3>4. CASE k > c
      <4> DEFINE j == k - c
      <4>1. j \in 1..(m - 2) /\ j \in 1..m /\ j + 1 \in 1..m /\ k = c + j /\ k + 1 = c + (j + 1)
        BY <1>1, <2>2, <3>1, <3>4
      <4> HIDE DEF j
      <4>2. g[k] = w2[j] /\ g[k + 1] = w2[j + 1]
        BY <2>8, <4>1
      <4>3. ~PairAt(w2, j, CR)
        BY <2>1, <4>1
      <4> QED  BY <4>2, <4>3 DEF PairAt
    <3> QED  BY <1>1, <3>1, <3>2, <3>3, <3>4
  <2>13. Len(g) >= 4 /\ Len(g) <= MaxFrame
    BY <1>1, <1>4, <2>2, <2>5, ByteAssumption
  <2>14. Closed(g)
    BY <2>5, <2>10, <2>11, <2>12, <2>13 DEF Closed
  <2>15. Junk(q)
    BY <2>1 DEF q
  <2> QED  BY <2>4, <2>5, <2>6, <2>14, <2>15 DEF p, FrameAndJunk
<1> QED  BY <1>3, <1>4
-----------------------------------------------------------------------------
(* The script and the stream.                                              *)

Scripts == Frames \X (CmdBytes \X {<<>>}) \X {<<0, <<FE>>>>}

\* Every frame of the script is short enough.
LEMMA ScriptSendable ==
    ASSUME NEW sc \in Scripts PROVE \A i \in 1..3 : Sendable(sc[i])
<1>1. MaxData \in Nat /\ CmdBytes \subseteq Nat /\ DataBytes \subseteq Nat
  BY ByteAssumption
<1>2. ASSUME NEW f, f[1] \in Nat, f[2] \in Seq(Nat), Len(f[2]) <= MaxData \/ f = <<0, <<FE>>>>
      PROVE  Sendable(f)
  <2>1. /\ Len(Body(f[1], f[2])) = 1 + (IF f[1] >= 128 THEN 8 ELSE 0) + Len(f[2])
        /\ Len(f[2]) \in Nat
    BY <1>2, BodyIs, LenProperties
  <2>2. (IF f[1] >= 128 THEN 8 ELSE 0) \in Nat /\ (IF f[1] >= 128 THEN 8 ELSE 0) <= 8
    OBVIOUS
  <2>3. Len(Body(f[1], f[2])) <= MaxData + 9
    <3>1. ASSUME Len(f[2]) <= MaxData PROVE Len(Body(f[1], f[2])) <= MaxData + 9
      <4> DEFINE size == IF f[1] >= 128 THEN 8 ELSE 0
                 long == Len(f[2])
                 body == Len(Body(f[1], f[2]))
      <4>1. /\ size \in Nat /\ size <= 8 /\ long \in Nat /\ long <= MaxData
            /\ body = 1 + size + long
        BY <2>1, <2>2, <3>1, Zenon
      <4> HIDE DEF size, long, body
      <4>2. body <= MaxData + 9
        BY <1>1, <4>1
      <4> QED  BY <4>2 DEF body
    <3>2. ASSUME f = <<0, <<FE>>>> PROVE Len(Body(f[1], f[2])) <= MaxData + 9
      <4>1. Len(f[2]) = 1 /\ ~(f[1] >= 128)
        BY <3>2
      <4> QED  BY <1>1, <2>1, <4>1
    <3> DEFINE small == Len(f[2]) <= MaxData
               fixed == f = <<0, <<FE>>>>
               goal == Len(Body(f[1], f[2])) <= MaxData + 9
    <3>3. (small \/ fixed) /\ (small => goal) /\ (fixed => goal)
      <4>1. small \/ fixed
        BY <1>2
      <4>2. small => goal
        BY <3>1
      <4>3. fixed => goal
        BY <3>2
      <4> QED  BY <4>1, <4>2, <4>3
    <3> HIDE DEF small, fixed, goal
    <3>4. goal
      BY <3>3
    <3> QED  BY <3>4 DEF goal
  <2> QED  BY <1>2, <2>3 DEF Sendable
<1>3. Sendable(sc[1])
  <2>1. sc[1] \in CmdBytes \X BoundedSeq(DataBytes, MaxData)
    BY DEF Scripts, Frames
  <2>2. sc[1][1] \in Nat /\ sc[1][2] \in BoundedSeq(DataBytes, MaxData)
    BY <1>1, <2>1
  <2>3. PICK n \in 0..MaxData : sc[1][2] \in [1..n -> DataBytes]
    BY <2>2 DEF BoundedSeq, SeqOf
  <2>4. n \in Nat /\ n <= MaxData /\ sc[1][2] \in [1..n -> Nat]
    <3>1. n \in Nat /\ n <= MaxData
      BY <1>1
    <3> DEFINE d == sc[1][2]
    <3>2. d \in [1..n -> DataBytes]
      BY <2>3
    <3> HIDE DEF d
    <3>3. d \in [1..n -> Nat]
      BY <1>1, <3>2
    <3> QED  BY <3>1, <3>3 DEF d
  <2>5. sc[1][2] \in Seq(Nat) /\ Len(sc[1][2]) = n
    BY <2>4, FunctionIsSeq
  <2> QED  BY <1>2, <2>2, <2>4, <2>5
<1>4. Sendable(sc[2])
  <2>1. sc[2] \in CmdBytes \X {<<>>}
    BY DEF Scripts
  <2>2. sc[2][1] \in Nat /\ sc[2][2] = <<>>
    BY <1>1, <2>1
  <2>3. <<>> \in Seq(Nat) /\ Len(<<>>) = 0
    BY EmptySeq
  <2>4. sc[2][2] \in Seq(Nat) /\ Len(sc[2][2]) <= MaxData
    BY <1>1, <2>2, <2>3
  <2> QED  BY <1>2, <2>2, <2>4
<1>5. Sendable(sc[3])
  <2>1. sc[3] = <<0, <<FE>>>>
    BY DEF Scripts
  <2>2. sc[3][1] \in Nat /\ sc[3][2] \in Seq(Nat)
    BY <2>1 DEF FE
  <2> QED  BY <1>2, <2>1, <2>2
<1>6. \A i \in 1..3 : i = 1 \/ i = 2 \/ i = 3
  OBVIOUS
<1> QED  BY <1>3, <1>4, <1>5, <1>6

\* What is decoded is a cmd byte and data.
LEMMA DecodedTyped ==
    ASSUME NEW raw \in Seq(Nat), NEW end \in Int
    PROVE  Decoded(raw, end).cmd \in Nat /\ Decoded(raw, end).data \in Seq(Nat)
<1> DEFINE top == 1 + (IF Len(raw) - 3 > MaxPayload THEN MaxPayload ELSE Len(raw) - 3)
           data == SubSeq(raw, 2, top)
           good == [result |-> "OK", consumed |-> end + 1, cmd |-> raw[1], data |-> data]
<1>1. Len(raw) \in Nat /\ MaxPayload \in Nat /\ \A k \in 1..Len(raw) : raw[k] \in Nat
  BY LenProperties, ElementOfSeq, ByteAssumption
<1>2. \A r, e : NoFrame(r, e).cmd \in Nat /\ NoFrame(r, e).data \in Seq(Nat)
  BY EmptySeq DEF NoFrame
<1>3. \/ \E r, e : Decoded(raw, end) = NoFrame(r, e)
      \/ Decoded(raw, end) = good /\ ~(Len(raw) < 3)
  BY Zenon DEF Decoded
<1>4. ASSUME ~(Len(raw) < 3) PROVE raw[1] \in Nat /\ data \in Seq(Nat)
  <2>1. 1 \in 1..Len(raw) /\ top \in Int /\ 2 \in Int /\ top <= Len(raw)
    BY <1>1, <1>4
  <2>2. \A k \in 2..top : k \in 1..Len(raw)
    BY <1>1, <2>1
  <2> HIDE DEF top
  <2>3. data \in Seq(Nat)
    BY <1>1, <2>1, <2>2, SubSeqProperties
  <2> QED  BY <1>1, <2>1, <2>3
<1> HIDE DEF data
<1>5. CASE Decoded(raw, end) = good /\ ~(Len(raw) < 3)
  <2>1. good.cmd = raw[1] /\ good.data = data
    OBVIOUS
  <2> HIDE DEF good
  <2> QED  BY <1>4, <1>5, <2>1
<1> QED  BY <1>2, <1>3, <1>5

\* So is what comes of a frame.
LEMMA OutcomeTyped ==
    ASSUME NEW g, Closed(g)
    PROVE  Outcome(g).cmd \in Nat /\ Outcome(g).data \in Seq(Nat)
<1> DEFINE m == Len(g) - 2
           raw == Unescape(SubSeq(g, 3, m))
<1>1. g \in Seq(Nat) /\ Len(g) \in Nat /\ Len(g) >= 4 /\ \A k \in 1..Len(g) : g[k] \in Nat
  BY LenProperties, ElementOfSeq DEF Closed
<1>2. m \in Int /\ 3 \in Int /\ \A k \in 3..m : k \in 1..Len(g)
  BY <1>1
<1> HIDE DEF m
<1>3. SubSeq(g, 3, m) \in Seq(Nat)
  BY <1>1, <1>2, SubSeqProperties
<1>4. raw \in Seq(Nat)
  BY <1>3, UnescapeShortens
<1>5. Outcome(g) = Decoded(raw, Len(g) - 1) /\ Len(g) - 1 \in Int
  BY <1>1 DEF Outcome, m
<1> QED  BY <1>4, <1>5, DecodedTyped

\* A frame parsed on its own.
LEMMA ParseWire ==
    ASSUME NEW f, Sendable(f)
    PROVE  /\ ParseBuffer(Wire(f)).result = "OK"
           /\ ParseBuffer(Wire(f)).consumed = Len(Wire(f))
           /\ <<ParseBuffer(Wire(f)).cmd, ParseBuffer(Wire(f)).data>> = Reported(f)
<1> DEFINE w == Wire(f)
           empty == <<>>
<1>1. /\ Closed(w) /\ w \in Seq(Nat)
      /\ Outcome(w) = [result |-> "OK", consumed |-> Len(w), cmd |-> f[1],
                       data |-> Reported(f)[2]]
  BY WireClosed DEF Closed
<1>2. empty \in Seq(Nat) /\ Junk(empty) /\ Len(empty) = 0
  BY EmptySeq DEF Junk
<1>3. w # <<>> /\ Len(w) \in Nat
  BY <1>1, EmptySeq, LenProperties DEF Closed
<1> HIDE DEF w
<1>4. w \o empty = empty \o (w \o empty)
  BY <1>1, <1>2, ConcatEmptySeq
<1> HIDE DEF empty
<1>5. Waits(empty, w, empty, w, empty) \/ Decodes(empty, w, empty, w, empty)
  BY <1>1, <1>2, <1>3, <1>4, StreamStep
<1>6. ~Waits(empty, w, empty, w, empty)
  BY DEF Waits, empty
<1>7. Decodes(empty, w, empty, w, empty)
  BY <1>5, <1>6
<1>8. /\ ParseBuffer(w).result = Outcome(w).result
      /\ ParseBuffer(w).consumed = Len(empty) + Len(w)
      /\ ParseBuffer(w).cmd = Outcome(w).cmd /\ ParseBuffer(w).data = Outcome(w).data
  BY <1>7, Zenon DEF Decodes
<1>9. Reported(f) = <<f[1], Reported(f)[2]>>
  BY DEF Reported
<1>10. Outcome(w).result = "OK" /\ Outcome(w).cmd = f[1] /\ Outcome(w).data = Reported(f)[2]
  BY <1>1
<1>11. Len(empty) + Len(w) = Len(w)
  BY <1>2, <1>3
<1> QED  BY <1>8, <1>9, <1>10, <1>11, Zenon DEF w
-----------------------------------------------------------------------------
(* The inductive invariant.                                                *)

\* What is still to come when i frames of the script have been returned.
Ahead(i) ==
    IF i = 0 THEN Wire(script[1]) \o (Wire(script[2]) \o Wire(script[3]))
    ELSE IF i = 1 THEN Wire(script[2]) \o Wire(script[3])
    ELSE IF i = 2 THEN Wire(script[3]) \o <<>>
    ELSE <<>>

\* While the connection lives: the stream is what is still to come.
WholeAt(i) ==
    /\ Len(got) = i /\ \A k \in 1..i : got[k] = Reported(script[k])
    /\ rbuf \o Rest = Ahead(i)
    /\ result \in {"none", "OK", "PARTIAL"}
Whole == \E i \in 0..3 : WholeAt(i)

\* After it broke: the stream is the cut frame and the next one, which make one
\* frame to the parser and some junk, then the third; or what is left of the junk,
\* and the third; or nothing, and the third has been returned.
CutFrame ==
    /\ Rest # <<>>
    /\ \E g, q \in Seq(Nat) :
          /\ Closed(g) /\ Junk(q)
          /\ rbuf \o Rest = g \o (q \o Wire(script[3]))
SomeJunk ==
    \E q \in Seq(Nat) : Junk(q) /\ rbuf \o Rest = q \o Wire(script[3])
Back ==
    /\ rbuf = <<>> /\ Rest = <<>>
    /\ got # <<>> /\ Last(got) = Reported(script[3])

\* What needs nothing but frames that fit, and what needs two that do.
WholeInv ==
    /\ script \in Scripts /\ breaks \in Nat
    /\ breaks = 0 => /\ cut \in 0..Len(Encoded) /\ rbuf \in Seq(Nat)
                     /\ got \in Seq(Nat \X Seq(Nat)) /\ Whole
StreamInv ==
    /\ script \in Scripts /\ cut \in 0..Len(Encoded) /\ breaks \in Nat
    /\ rbuf \in Seq(Nat) /\ got \in Seq(Nat \X Seq(Nat))
    /\ breaks = 0 => Whole
    /\ breaks > 0 => /\ cut >= Len(Wire(script[1]))
                     /\ CutFrame \/ SomeJunk \/ Back

\* The three frames and the whole script on the wire.
LEMMA ScriptWires ==
    ASSUME script \in Scripts
    PROVE  /\ \A i \in 1..3 : /\ Sendable(script[i]) /\ Closed(Wire(script[i]))
                              /\ Wire(script[i]) \in Seq(Nat) /\ Len(Wire(script[i])) \in Nat
                              /\ Len(Wire(script[i])) >= 4
           /\ \A i \in 0..3 : Ahead(i) \in Seq(Nat)
           /\ Encoded \in Seq(Nat) /\ Encoded = Ahead(0)
           /\ Len(Encoded) = Len(Wire(script[1])) + Len(Wire(script[2])) + Len(Wire(script[3]))
<1>1. \A i \in 1..3 : Sendable(script[i])
  BY ScriptSendable
<1>2. \A i \in 1..3 : /\ Closed(Wire(script[i])) /\ Wire(script[i]) \in Seq(Nat)
                      /\ Len(Wire(script[i])) \in Nat /\ Len(Wire(script[i])) >= 4
  <2> SUFFICES ASSUME NEW i \in 1..3
               PROVE  /\ Closed(Wire(script[i])) /\ Wire(script[i]) \in Seq(Nat)
                      /\ Len(Wire(script[i])) \in Nat /\ Len(Wire(script[i])) >= 4
    OBVIOUS
  <2>1. Closed(Wire(script[i]))
    BY <1>1, WireClosed
  <2>2. Wire(script[i]) \in Seq(Nat) /\ Len(Wire(script[i])) >= 4
    BY <2>1 DEF Closed
  <2> QED  BY <2>1, <2>2, LenProperties
<1> DEFINE a == Wire(script[1])
           b == Wire(script[2])
           c == Wire(script[3])
<1>3. a \in Seq(Nat) /\ b \in Seq(Nat) /\ c \in Seq(Nat)
  BY <1>2
<1>4. /\ Encoded = (a \o b) \o c
      /\ Ahead(0) = a \o (b \o c) /\ Ahead(1) = b \o c
      /\ Ahead(2) = c \o <<>> /\ Ahead(3) = <<>>
  BY DEF Encoded, Ahead
<1> HIDE DEF a, b, c
<1>5. (a \o b) \o c = a \o (b \o c)
  BY <1>3, ConcatAssociative
<1>6. b \o c \in Seq(Nat) /\ Len(b \o c) = Len(b) + Len(c)
  BY <1>3, ConcatProperties
<1>7. a \o (b \o c) \in Seq(Nat) /\ Len(a \o (b \o c)) = Len(a) + Len(b \o c)
  BY <1>3, <1>6, ConcatProperties
<1>8. <<>> \in Seq(Nat) /\ c \o <<>> = c
  BY <1>3, ConcatEmptySeq, EmptySeq
<1>9. \A i \in 0..3 : i = 0 \/ i = 1 \/ i = 2 \/ i = 3
  OBVIOUS
<1>10. \A i \in 0..3 : Ahead(i) \in Seq(Nat)
  BY <1>3, <1>4, <1>6, <1>7, <1>8, <1>9
<1>11. Encoded = Ahead(0) /\ Encoded \in Seq(Nat)
  BY <1>4, <1>5, <1>7
<1>12. Len(Encoded) = Len(a) + Len(b) + Len(c)
  <2>1. Len(a) \in Nat /\ Len(b) \in Nat /\ Len(c) \in Nat
    BY <1>3, LenProperties
  <2> QED  BY <1>4, <1>5, <1>6, <1>7, <2>1
<1> QED  BY <1>1, <1>2, <1>10, <1>11, <1>12 DEF a, b, c

\* Concatenation is associative.
LEMMA Associates ==
    ASSUME NEW a \in Seq(Nat), NEW b \in Seq(Nat), NEW c \in Seq(Nat)
    PROVE  (a \o b) \o c = a \o (b \o c)
BY ConcatAssociative

\* What TCP has not delivered.
LEMMA RestIs ==
    ASSUME script \in Scripts, cut \in 0..Len(Encoded)
    PROVE  Rest \in Seq(Nat) /\ Len(Rest) = Len(Encoded) - cut
BY ScriptWires, Suffix DEF Rest

\* recv takes the first n bytes of it.
LEMMA RecvTakes ==
    ASSUME script \in Scripts, cut \in 0..Len(Encoded), rbuf \in Seq(Nat),
           NEW n \in Nat \ {0}, n <= Len(Rest), cut' = cut + n, script' = script
    PROVE  /\ cut' \in 0..Len(Encoded') /\ Rest' \in Seq(Nat)
           /\ rbuf \o SubSeq(Rest, 1, n) \in Seq(Nat)
           /\ rbuf \o SubSeq(Rest, 1, n) # <<>>
           /\ (rbuf \o SubSeq(Rest, 1, n)) \o Rest' = rbuf \o Rest
<1> DEFINE x == SubSeq(Rest, 1, n)
           R == Rest
           m == Len(R)
<1>1. /\ R \in Seq(Nat) /\ m = Len(Encoded) - cut /\ Encoded \in Seq(Nat)
      /\ Len(Encoded) \in Nat /\ cut \in Nat /\ n \in Nat /\ 1 <= n /\ n <= m /\ m \in Nat
  BY RestIs, ScriptWires, LenProperties
<1>2. Encoded' = Encoded
  BY DEF Encoded
<1>3. Rest' = SubSeq(Encoded, cut + n + 1, Len(Encoded))
  BY <1>2 DEF Rest
<1>4. SubSeq(R, n + 1, m) = SubSeq(Encoded, cut + n + 1, Len(Encoded))
  <2>1. \A j \in (n + 1)..m : j \in 1..m /\ j + cut \in 1..Len(Encoded)
    BY <1>1
  <2>2. \A j \in 1..m : R[j] = Encoded[cut + j]
    <3>1. \A k \in 1..(Len(Encoded) - cut) :
             SubSeq(Encoded, cut + 1, Len(Encoded))[k] = Encoded[cut + k]
      BY <1>1, Suffix
    <3> QED  BY <1>1, <3>1 DEF Rest
  <2>3. \A j \in (n + 1)..m : R[j] = Encoded[j + cut]
    <3>1. \A j \in (n + 1)..m : cut + j = j + cut
      BY <1>1
    <3> QED  BY <2>1, <2>2, <3>1
  <2>4. n + 1 \in Int /\ m \in Int /\ cut \in Int
        /\ (n + 1) + cut = cut + n + 1 /\ m + cut = Len(Encoded)
    BY <1>1
  <2> DEFINE n1 == n + 1
  <2>5. /\ n1 \in Int /\ n1 + cut = cut + n + 1
        /\ \A j \in n1..m : j \in 1..Len(R) /\ j + cut \in 1..Len(Encoded) /\ R[j] = Encoded[j + cut]
    BY <2>1, <2>3, <2>4
  <2> HIDE DEF n1, R, m
  <2>6. SubSeq(R, n1, m) = SubSeq(Encoded, n1 + cut, m + cut)
    BY <1>1, <2>4, <2>5, SubSeqsEqual
  <2> QED  BY <2>4, <2>5, <2>6 DEF n1
<1>5. n \in 0..m /\ SubSeq(R, n + 1, m) \in Seq(Nat)
  <2>1. n \in 0..Len(R)
    BY <1>1
  <2> HIDE DEF R
  <2> QED  BY <1>1, <2>1, Suffix
<1>6. Rest' \in Seq(Nat) /\ Rest' = SubSeq(R, n + 1, m)
  BY <1>3, <1>4, <1>5
<1>7. x \o Rest' = R
  <2>1. 1 \in 1..(m + 1) /\ n \in (1 - 1)..m /\ m \in n..m
    BY <1>1
  <2> HIDE DEF R
  <2>2. SubSeq(R, 1, n) \o SubSeq(R, n + 1, m) = SubSeq(R, 1, m)
    BY <1>1, <2>1, ConcatAdjacentSubSeq
  <2>3. SubSeq(R, 1, m) = R
    BY <1>1, SubSeqFull
  <2> QED  BY <1>6, <2>2, <2>3 DEF R
<1>8. x \in Seq(Nat) /\ Len(x) = n
  <2>1. \A k \in 1..n : k \in 1..m
    BY <1>1
  <2>2. \A k \in 1..n : R[k] \in Nat
    BY <1>1, <2>1, ElementOfSeq
  <2>3. 1 \in Int /\ n \in Int /\ 1 <= n /\ n - 1 + 1 = n
    BY <1>1
  <2> HIDE DEF R
  <2>4. SubSeq(R, 1, n) \in Seq(Nat) /\ Len(SubSeq(R, 1, n)) = IF 1 <= n THEN n - 1 + 1 ELSE 0
    BY <2>2, <2>3, SubSeqProperties
  <2> QED  BY <2>3, <2>4 DEF R
<1> HIDE DEF x
<1>9. rbuf \o x \in Seq(Nat) /\ Len(rbuf \o x) = Len(rbuf) + n
  BY <1>8, ConcatProperties
<1>10. rbuf \o x # <<>>
  <2>1. Len(rbuf) \in Nat
    BY LenProperties
  <2>2. Len(rbuf \o x) # 0
    BY <1>1, <1>9, <2>1
  <2> QED  BY <2>2, EmptySeq
<1>11. (rbuf \o x) \o Rest' = rbuf \o (x \o Rest')
  <2> DEFINE later == Rest'
  <2>1. rbuf \in Seq(Nat) /\ x \in Seq(Nat) /\ later \in Seq(Nat)
    BY <1>6, <1>8
  <2> HIDE DEF later
  <2>2. (rbuf \o x) \o later = rbuf \o (x \o later)
    BY <2>1, Associates, Zenon
  <2> QED  BY <2>2 DEF later
<1>12. cut' \in 0..Len(Encoded')
  BY <1>1, <1>2
<1> QED  BY <1>6, <1>7, <1>9, <1>10, <1>11, <1>12 DEF x

\* What a call of recv_frame does when junk, a frame and more are in the stream: it
\* may drop some of the junk, or takes the frame.
Waited(q, g, tail) ==
    /\ result' = "PARTIAL" /\ got' = got /\ Rest' # <<>>
    /\ \E x \in Seq(Nat) : /\ Junk(x) /\ Len(x) <= Len(q)
                           /\ rbuf' \o Rest' = x \o (g \o tail)
Took(g, tail) ==
    /\ result' = Outcome(g).result
    /\ got' = IF Outcome(g).result = "OK"
              THEN Append(got, <<Outcome(g).cmd, Outcome(g).data>>) ELSE got
    /\ rbuf' \o Rest' = tail

\* It does one or the other.
LEMMA RecvStep ==
    ASSUME script \in Scripts, cut \in 0..Len(Encoded), rbuf \in Seq(Nat), Recv,
           NEW q, NEW g, Junk(q), Closed(g), NEW tail \in Seq(Nat),
           rbuf \o Rest = q \o (g \o tail)
    PROVE  /\ rbuf' \in Seq(Nat) /\ Rest' \in Seq(Nat)
           /\ Waited(q, g, tail) \/ Took(g, tail)
<1>1. PICK n \in Chunks :
         /\ n <= Len(Rest)
         /\ result' = ParseBuffer(rbuf \o SubSeq(Rest, 1, n)).result
         /\ rbuf' = Kept(ParseBuffer(rbuf \o SubSeq(Rest, 1, n)), rbuf \o SubSeq(Rest, 1, n))
         /\ got' = IF ParseBuffer(rbuf \o SubSeq(Rest, 1, n)).result = "OK"
                   THEN Append(got, <<ParseBuffer(rbuf \o SubSeq(Rest, 1, n)).cmd,
                                      ParseBuffer(rbuf \o SubSeq(Rest, 1, n)).data>>)
                   ELSE got
         /\ cut' = cut + n /\ script' = script
  BY Zenon DEF Recv, Kept
<1> DEFINE buf == rbuf \o SubSeq(Rest, 1, n)
           r == ParseBuffer(buf)
           later == Rest'
<1>2. n \in Nat \ {0}
  BY ByteAssumption
<1>3. /\ later \in Seq(Nat) /\ buf \in Seq(Nat) /\ buf # <<>>
      /\ buf \o later = rbuf \o Rest
  BY <1>1, <1>2, RecvTakes
<1>4. /\ result' = r.result /\ rbuf' = Kept(r, buf)
      /\ got' = IF r.result = "OK" THEN Append(got, <<r.cmd, r.data>>) ELSE got
  BY <1>1
<1> HIDE DEF buf, later
<1>5. buf \o later = q \o (g \o tail)
  BY <1>3
<1>6. Waits(q, g, tail, buf, later) \/ Decodes(q, g, tail, buf, later)
  BY <1>3, <1>5, StreamStep
<1>7. CASE Waits(q, g, tail, buf, later)
  <2>1. /\ r.result = "PARTIAL" /\ later # <<>> /\ rbuf' \in Seq(Nat)
        /\ \E x \in Seq(Nat) : /\ Junk(x) /\ Len(x) <= Len(q)
                               /\ rbuf' \o later = x \o (g \o tail)
    BY <1>4, <1>7, Zenon DEF Waits
  <2> HIDE DEF r
  <2>2. result' = "PARTIAL" /\ got' = got
    BY <1>4, <2>1
  <2> QED  BY <1>3, <2>1, <2>2, Zenon DEF Waited, later
<1>8. CASE Decodes(q, g, tail, buf, later)
  <2>1. /\ r.result = Outcome(g).result /\ r.cmd = Outcome(g).cmd
        /\ r.data = Outcome(g).data /\ rbuf' \in Seq(Nat) /\ rbuf' \o later = tail
    BY <1>4, <1>8, Zenon DEF Decodes
  <2> HIDE DEF r
  <2>2. Took(g, tail)
    BY <1>4, <2>1, Zenon DEF Took, later
  <2> QED  BY <1>3, <2>1, <2>2, Zenon DEF later
<1> QED  BY <1>6, <1>7, <1>8

\* recv returns at least a byte, and what was delivered stays delivered.
LEMMA RecvAdvances ==
    ASSUME script \in Scripts, cut \in 0..Len(Encoded), rbuf \in Seq(Nat), Recv
    PROVE  /\ Rest # <<>> /\ script' = script /\ breaks' = breaks
           /\ cut' \in 0..Len(Encoded') /\ cut' >= cut
<1>1. PICK n \in Chunks :
         n <= Len(Rest) /\ cut' = cut + n /\ script' = script /\ breaks' = breaks
  BY Zenon DEF Recv
<1>2. n \in Nat \ {0}
  BY ByteAssumption
<1>3. cut' \in 0..Len(Encoded')
  BY <1>1, <1>2, RecvTakes
<1>4. Rest # <<>>
  BY <1>1, <1>2, EmptySeq
<1>5. cut' >= cut
  BY <1>1, <1>2, ScriptWires, LenProperties
<1> QED  BY <1>1, <1>3, <1>4, <1>5

\* Nothing the frames depend on changes when the script does not.
LEMMA SameScript ==
    ASSUME script' = script
    PROVE  /\ \A i \in 0..3 : Ahead(i)' = Ahead(i)
           /\ Encoded' = Encoded
           /\ \A k : /\ Wire(script'[k]) = Wire(script[k])
                     /\ Reported(script'[k]) = Reported(script[k])
BY DEF Ahead, Encoded

\* What is still to come begins with the next frame.
LEMMA AheadIs ==
    ASSUME NEW i \in 0..2
    PROVE  Ahead(i) = Wire(script[i + 1]) \o Ahead(i + 1)
<1>1. i = 0 \/ i = 1 \/ i = 2
  OBVIOUS
<1>2. 0 + 1 = 1 /\ 1 + 1 = 2 /\ 2 + 1 = 3
  OBVIOUS
<1>3. /\ Ahead(0) = Wire(script[1]) \o (Wire(script[2]) \o Wire(script[3]))
      /\ Ahead(1) = Wire(script[2]) \o Wire(script[3])
      /\ Ahead(2) = Wire(script[3]) \o <<>> /\ Ahead(3) = <<>>
  BY DEF Ahead
<1>4. Ahead(0) = Wire(script[1]) \o Ahead(1)
  BY <1>3, Zenon
<1>5. CASE i = 2
  <2>1. Ahead(i) = Ahead(2) /\ script[i + 1] = script[3] /\ Ahead(i + 1) = Ahead(3)
    BY <1>2, <1>5
  <2> QED  BY <1>3, <2>1, Zenon
<1>6. CASE i = 1
  <2>1. Ahead(i) = Ahead(1) /\ script[i + 1] = script[2] /\ Ahead(i + 1) = Ahead(2)
    BY <1>2, <1>6
  <2>2. Ahead(2) = Wire(script[3])
    BY DEF Ahead
  <2> QED  BY <1>3, <2>1, <2>2, Zenon
<1>7. CASE i = 0
  BY <1>2, <1>4, <1>7
<1> QED  BY <1>1, <1>5, <1>6, <1>7

\* The empty sequence is all that no byte is left of.
LEMMA NothingLeft ==
    ASSUME NEW a \in Seq(Nat), NEW b \in Seq(Nat), a \o b = <<>>
    PROVE  b = <<>>
<1>1. Len(a \o b) = Len(a) + Len(b) /\ Len(a) \in Nat /\ Len(b) \in Nat
  BY ConcatProperties, LenProperties
<1>2. Len(a \o b) = 0
  BY EmptySeq
<1> QED  BY <1>1, <1>2, EmptySeq

\* Each call of recv_frame keeps the connection's promise: it waits for more bytes,
\* or returns the next frame of the script.
LEMMA WholeRecv ==
    ASSUME script \in Scripts, cut \in 0..Len(Encoded), rbuf \in Seq(Nat),
           got \in Seq(Nat \X Seq(Nat)), Recv, NEW i \in 0..3, WholeAt(i)
    PROVE  got' \in Seq(Nat \X Seq(Nat)) /\ rbuf' \in Seq(Nat) /\ Whole'
<1>1. /\ Rest # <<>> /\ script' = script /\ Rest \in Seq(Nat)
      /\ Len(got) = i /\ (\A k \in 1..i : got[k] = Reported(script[k]))
      /\ rbuf \o Rest = Ahead(i)
  BY RecvAdvances, RestIs DEF WholeAt
<1>2. i # 3
  <2>1. Ahead(3) = <<>>
    BY DEF Ahead
  <2> QED  BY <1>1, <2>1, NothingLeft
<1> DEFINE e == i + 1
           f == script[e]
           g == Wire(f)
           tail == Ahead(e)
           empty == <<>>
<1>3. i \in 0..2 /\ e \in 1..3 /\ e \in 0..3 /\ e = i + 1
  BY <1>2
<1> HIDE DEF e
<1>4. /\ Closed(g) /\ g \in Seq(Nat) /\ tail \in Seq(Nat) /\ Sendable(f)
  BY <1>3, ScriptWires
<1>5. Ahead(i) = g \o tail
  BY <1>3, AheadIs
<1>6. empty \in Seq(Nat) /\ Junk(empty) /\ Len(empty) = 0
  BY EmptySeq DEF Junk
<1>7. /\ Outcome(g).result = "OK" /\ Outcome(g).cmd = f[1]
      /\ Outcome(g).data = Reported(f)[2]
  <2>1. Outcome(g) = [result |-> "OK", consumed |-> Len(g), cmd |-> f[1],
                      data |-> Reported(f)[2]]
    BY <1>4, WireClosed
  <2> HIDE DEF g
  <2> QED  BY <2>1
<1>8. Reported(f) = <<f[1], Reported(f)[2]>>
  BY DEF Reported
<1>9. f[1] \in Nat /\ Reported(f)[2] \in Seq(Nat)
  BY <1>4, BodyIs DEF Sendable
<1> HIDE DEF f, g, tail
<1>10. empty \o (g \o tail) = g \o tail
  <2>1. g \o tail \in Seq(Nat)
    BY <1>4, ConcatProperties
  <2> HIDE DEF empty
  <2>2. empty \o (g \o tail) = g \o tail
    BY <2>1, ConcatEmptySeq DEF empty
  <2> QED  BY <2>2
<1>11. rbuf \o Rest = empty \o (g \o tail)
  BY <1>1, <1>5, <1>10
<1> HIDE DEF empty
<1>12. rbuf' \in Seq(Nat) /\ (Waited(empty, g, tail) \/ Took(g, tail))
  BY <1>4, <1>6, <1>11, RecvStep
<1>13. CASE Waited(empty, g, tail)
  <2>1. PICK x \in Seq(Nat) : Len(x) <= Len(empty) /\ rbuf' \o Rest' = x \o (g \o tail)
    BY <1>13 DEF Waited
  <2>2. x = empty
    <3>1. Len(x) = 0
      BY <1>6, <2>1, LenProperties
    <3> QED  BY <3>1, EmptySeq DEF empty
  <2>3. rbuf' \o Rest' = Ahead(i)
    BY <1>5, <1>10, <2>1, <2>2
  <2>4. result' = "PARTIAL" /\ got' = got
    BY <1>13 DEF Waited
  <2>5. Ahead(i)' = Ahead(i)
    BY <1>1, SameScript
  <2>6. WholeAt(i)'
    BY <1>1, <2>3, <2>4, <2>5 DEF WholeAt
  <2> QED  BY <1>12, <2>4, <2>6 DEF Whole
<1>14. CASE Took(g, tail)
  <2>1. /\ result' = "OK" /\ got' = Append(got, Reported(f)) /\ rbuf' \o Rest' = tail
    BY <1>7, <1>8, <1>14, Zenon DEF Took
  <2>2. Reported(f) \in Nat \X Seq(Nat)
    BY <1>8, <1>9
  <2>3. /\ got' \in Seq(Nat \X Seq(Nat)) /\ Len(got') = e
        /\ (\A k \in 1..i : got'[k] = got[k]) /\ got'[e] = Reported(f)
    <3> DEFINE ff == Reported(f)
    <3>1. ff \in Nat \X Seq(Nat) /\ got' = Append(got, ff)
      BY <2>1, <2>2
    <3> HIDE DEF ff
    <3> QED  BY <1>1, <1>3, <3>1, AppendProperties DEF ff
  <2>4. Ahead(e)' = tail
    <3>1. Ahead(e)' = Ahead(e)
      BY <1>1, <1>3, SameScript
    <3> QED  BY <3>1 DEF tail
  <2>5. \A k \in 1..e : got'[k] = Reported(script'[k])
    <3>1. \A k \in 1..e : k \in 1..i \/ k = e
      BY <1>3
    <3> QED  BY <1>1, <2>3, <3>1 DEF f
  <2>6. WholeAt(e)'
    BY <2>1, <2>3, <2>4, <2>5 DEF WholeAt
  <2> QED  BY <1>3, <1>12, <2>3, <2>6 DEF Whole
<1> QED  BY <1>12, <1>13, <1>14

\* Taking a frame keeps the frames returned frames.
LEMMA TookTyped ==
    ASSUME NEW g, Closed(g), NEW tail, Took(g, tail), got \in Seq(Nat \X Seq(Nat))
    PROVE  got' \in Seq(Nat \X Seq(Nat))
<1> DEFINE f == <<Outcome(g).cmd, Outcome(g).data>>
<1>1. f \in Nat \X Seq(Nat)
  <2>1. Outcome(g).cmd \in Nat /\ Outcome(g).data \in Seq(Nat)
    BY OutcomeTyped
  <2> QED  BY <2>1
<1>2. got' = Append(got, f) \/ got' = got
  BY Zenon DEF Took
<1> HIDE DEF f
<1>3. Append(got, f) \in Seq(Nat \X Seq(Nat))
  BY <1>1, AppendProperties
<1> QED  BY <1>2, <1>3

\* The third frame, after it is parsed behind some junk.
LEMMA ThirdTaken ==
    ASSUME script \in Scripts, script' = script, got \in Seq(Nat \X Seq(Nat)),
           rbuf' \in Seq(Nat), Rest' \in Seq(Nat),
           Took(Wire(script[3]), <<>>)
    PROVE  Back'
<1> DEFINE f == script[3]
           g == Wire(f)
<1>1. Sendable(f) /\ Closed(g)
  BY ScriptWires
<1>2. Outcome(g) = [result |-> "OK", consumed |-> Len(g), cmd |-> f[1], data |-> Reported(f)[2]]
  BY <1>1, WireClosed
<1>3. Reported(f) = <<f[1], Reported(f)[2]>> /\ f[1] \in Nat /\ Reported(f)[2] \in Seq(Nat)
  BY <1>1, BodyIs DEF Reported, Sendable
<1>4. Took(g, <<>>)
  OBVIOUS
<1> HIDE DEF f, g
<1>5. Outcome(g).result = "OK" /\ Outcome(g).cmd = f[1] /\ Outcome(g).data = Reported(f)[2]
  BY <1>2
<1>6. got' = Append(got, Reported(f)) /\ rbuf' \o Rest' = <<>>
  BY <1>3, <1>4, <1>5, Zenon DEF Took
<1>7. got' # <<>> /\ Last(got') = Reported(f)
  <2> DEFINE ff == Reported(f)
  <2>1. ff \in Nat \X Seq(Nat) /\ got' = Append(got, ff)
    BY <1>3, <1>6
  <2> HIDE DEF ff
  <2>2. /\ Append(got, ff) # <<>> /\ Len(Append(got, ff)) = Len(got) + 1
        /\ Append(got, ff)[Len(got) + 1] = ff
    BY <2>1, AppendProperties, ZenonT(40)
  <2>3. got' # <<>> /\ got'[Len(got')] = ff
    BY <2>1, <2>2, Zenon
  <2> QED  BY <2>3 DEF Last, ff
<1>8. Rest' = <<>> /\ rbuf' = <<>>
  <2>1. Rest' = <<>>
    <3> DEFINE later == Rest'
    <3>1. later \in Seq(Nat) /\ rbuf' \o later = <<>>
      BY <1>6
    <3> HIDE DEF later
    <3>2. later = <<>>
      BY <3>1, NothingLeft
    <3> QED  BY <3>2 DEF later
  <2>2. rbuf' \o <<>> = rbuf'
    BY ConcatEmptySeq
  <2> QED  BY <1>6, <2>1, <2>2
<1>9. script'[3] = f
  BY DEF f
<1> QED  BY <1>7, <1>8, <1>9 DEF Back

\* After the connection broke, each call of recv_frame loses the cut frame and the
\* next as one, loses some junk, or returns the third.
LEMMA BrokenRecv ==
    ASSUME script \in Scripts, cut \in 0..Len(Encoded), rbuf \in Seq(Nat),
           got \in Seq(Nat \X Seq(Nat)), Recv, CutFrame \/ SomeJunk \/ Back
    PROVE  /\ got' \in Seq(Nat \X Seq(Nat)) /\ rbuf' \in Seq(Nat)
           /\ (CutFrame \/ SomeJunk \/ Back)'
<1> DEFINE w == Wire(script[3])
           empty == <<>>
<1>1. Rest # <<>> /\ script' = script /\ Closed(w) /\ w \in Seq(Nat)
  BY RecvAdvances, ScriptWires
<1>2. Wire(script'[3]) = w
  BY <1>1
<1>3. empty \in Seq(Nat) /\ Junk(empty) /\ Len(empty) = 0
  BY EmptySeq DEF Junk
<1> HIDE DEF w, empty
<1>4. ~Back
  BY <1>1 DEF Back
<1>5. CASE CutFrame
  <2>1. PICK g \in Seq(Nat), q \in Seq(Nat) :
          Closed(g) /\ Junk(q) /\ rbuf \o Rest = g \o (q \o w)
    BY <1>5 DEF CutFrame, w
  <2> DEFINE tail == q \o w
  <2>2. tail \in Seq(Nat)
    BY <1>1, <2>1, ConcatProperties
  <2>3. rbuf \o Rest = empty \o (g \o tail)
    <3>1. g \in Seq(Nat) /\ tail \in Seq(Nat)
      BY <2>1, <2>2
    <3> HIDE DEF tail
    <3>2. g \o tail \in Seq(Nat)
      BY <3>1, ConcatProperties
    <3>3. empty \o (g \o tail) = g \o tail
      BY <3>2, ConcatEmptySeq DEF empty
    <3> QED  BY <2>1, <3>3 DEF tail
  <2> HIDE DEF tail
  <2>4. /\ rbuf' \in Seq(Nat) /\ Rest' \in Seq(Nat)
        /\ Waited(empty, g, tail) \/ Took(g, tail)
    BY <1>3, <2>1, <2>2, <2>3, RecvStep
  <2>5. CASE Waited(empty, g, tail)
    <3>1. PICK x \in Seq(Nat) : Len(x) <= Len(empty) /\ rbuf' \o Rest' = x \o (g \o tail)
      BY <2>5 DEF Waited
    <3>2. x = empty
      <4>1. Len(x) = 0
        BY <1>3, <3>1, LenProperties
      <4> QED  BY <4>1, EmptySeq DEF empty
    <3>3. rbuf' \o Rest' = g \o (q \o w)
      BY <2>1, <2>3, <3>1, <3>2
    <3>4. Rest' # <<>> /\ got' = got
      BY <2>5 DEF Waited
    <3>5. CutFrame'
      BY <1>2, <2>1, <3>3, <3>4 DEF CutFrame
    <3> QED  BY <2>4, <3>4, <3>5
  <2>6. CASE Took(g, tail)
    <3>1. rbuf' \o Rest' = q \o w
      BY <2>6, Zenon DEF Took, tail
    <3>2. SomeJunk'
      BY <1>2, <2>1, <3>1 DEF SomeJunk
    <3>3. got' \in Seq(Nat \X Seq(Nat))
      BY <2>1, <2>6, TookTyped
    <3> QED  BY <2>4, <3>2, <3>3
  <2> QED  BY <2>4, <2>5, <2>6
<1>6. CASE SomeJunk
  <2>1. PICK q \in Seq(Nat) : Junk(q) /\ rbuf \o Rest = q \o w
    BY <1>6 DEF SomeJunk, w
  <2>2. w \o empty = w
    BY <1>1, ConcatEmptySeq DEF empty
  <2>3. rbuf \o Rest = q \o (w \o empty)
    BY <2>1, <2>2
  <2>4. /\ rbuf' \in Seq(Nat) /\ Rest' \in Seq(Nat)
        /\ Waited(q, w, empty) \/ Took(w, empty)
    BY <1>1, <1>3, <2>1, <2>3, RecvStep
  <2>5. CASE Waited(q, w, empty)
    <3>1. PICK x \in Seq(Nat) : Junk(x) /\ rbuf' \o Rest' = x \o w
      BY <2>2, <2>5 DEF Waited
    <3>2. SomeJunk'
      BY <1>2, <3>1 DEF SomeJunk
    <3>3. got' = got
      BY <2>5 DEF Waited
    <3> QED  BY <2>4, <3>2, <3>3
  <2>6. CASE Took(w, empty)
    <3>1. Back'
      BY <1>1, <2>4, <2>6, ThirdTaken DEF w, empty
    <3>2. got' \in Seq(Nat \X Seq(Nat))
      BY <1>1, <2>6, TookTyped
    <3> QED  BY <2>4, <3>1, <3>2
  <2> QED  BY <2>4, <2>5, <2>6
<1> QED  BY <1>4, <1>5, <1>6

\* The beginning of a concatenation.
LEMMA Prefix ==
    ASSUME NEW a \in Seq(Nat), NEW b \in Seq(Nat), NEW c \in 0..Len(a)
    PROVE  SubSeq(a \o b, 1, c) = SubSeq(a, 1, c)
<1> DEFINE ab == a \o b
<1>1. Len(a) \in Nat /\ Len(b) \in Nat /\ c \in Nat /\ c <= Len(a)
  BY LenProperties
<1>2. /\ ab \in Seq(Nat) /\ Len(ab) = Len(a) + Len(b)
      /\ \A k \in 1..(Len(a) + Len(b)) : ab[k] = IF k <= Len(a) THEN a[k] ELSE b[k - Len(a)]
  BY ConcatProperties
<1> HIDE DEF ab
<1>3. ASSUME NEW k \in 1..c
      PROVE  k \in 1..Len(ab) /\ k + 0 \in 1..Len(a) /\ ab[k] = a[k + 0]
  <2>1. k \in 1..(Len(a) + Len(b)) /\ k <= Len(a) /\ k + 0 = k /\ k \in 1..Len(a)
    BY <1>1
  <2> QED  BY <1>2, <2>1
<1>4. 1 \in Int /\ c \in Int /\ 0 \in Int /\ 1 + 0 = 1 /\ c + 0 = c
  BY <1>1
<1>5. SubSeq(ab, 1, c) = SubSeq(a, 1 + 0, c + 0)
  BY <1>2, <1>3, <1>4, SubSeqsEqual
<1> QED  BY <1>4, <1>5 DEF ab

\* As long as less than the first frame was delivered, rbuf holds its beginning.
LEMMA RbufIsBeginning ==
    ASSUME script \in Scripts, cut \in 0..Len(Encoded), rbuf \in Seq(Nat), Whole,
           cut < Len(Wire(script[1]))
    PROVE  rbuf = SubSeq(Wire(script[1]), 1, cut)
<1> DEFINE a == Wire(script[1])
           b == Wire(script[2])
           c == Wire(script[3])
           E == Encoded
<1>1. PICK i \in 0..3 : rbuf \o Rest = Ahead(i)
  BY DEF Whole, WholeAt
<1>2. /\ a \in Seq(Nat) /\ b \in Seq(Nat) /\ c \in Seq(Nat)
      /\ Len(a) \in Nat /\ Len(b) \in Nat /\ Len(c) \in Nat
      /\ E \in Seq(Nat) /\ E = Ahead(0) /\ Len(E) = Len(a) + Len(b) + Len(c)
      /\ cut \in Nat /\ cut < Len(a)
  BY ScriptWires
<1>3. Rest \in Seq(Nat) /\ Len(Rest) = Len(E) - cut /\ Len(rbuf) \in Nat
  BY RestIs, LenProperties
<1>4. rbuf \o Rest \in Seq(Nat) /\ Len(rbuf \o Rest) = Len(rbuf) + Len(Rest)
  BY <1>3, ConcatProperties
<1>5. /\ Len(b \o c) = Len(b) + Len(c) /\ Len(c \o <<>>) = Len(c) /\ Len(<<>>) = 0
      /\ b \o c \in Seq(Nat)
  BY <1>2, ConcatProperties, ConcatEmptySeq, EmptySeq
<1>6. Ahead(0) = a \o (b \o c) /\ Ahead(1) = b \o c /\ Ahead(2) = c \o <<>> /\ Ahead(3) = <<>>
  BY DEF Ahead
<1> HIDE DEF a, b, c, E
<1>7. i = 0
  <2>1. i = 0 \/ i = 1 \/ i = 2 \/ i = 3
    OBVIOUS
  <2>2. Len(Ahead(i)) > Len(b) + Len(c)
    BY <1>1, <1>2, <1>3, <1>4
  <2>3. i # 1
    BY <1>2, <1>5, <1>6, <2>2
  <2>4. i # 2
    BY <1>2, <1>5, <1>6, <2>2
  <2>5. i # 3
    BY <1>2, <1>5, <1>6, <2>2
  <2> QED  BY <2>1, <2>3, <2>4, <2>5
<1>8. rbuf \o Rest = E /\ Len(rbuf) = cut
  <2>1. rbuf \o Rest = E
    BY <1>1, <1>2, <1>7
  <2>2. Len(E) = Len(rbuf) + Len(Rest)
    BY <1>4, <2>1
  <2>3. Len(E) \in Nat
    BY <1>2
  <2> QED  BY <1>2, <1>3, <2>1, <2>2, <2>3
<1>9. SubSeq(rbuf \o Rest, 1, cut) = rbuf
  <2>1. cut \in 0..Len(rbuf)
    BY <1>2, <1>8
  <2>2. SubSeq(rbuf \o Rest, 1, cut) = SubSeq(rbuf, 1, cut)
    BY <1>3, <2>1, Prefix
  <2>3. SubSeq(rbuf, 1, Len(rbuf)) = rbuf
    BY SubSeqFull
  <2> QED  BY <1>8, <2>2, <2>3
<1>10. SubSeq(a \o (b \o c), 1, cut) = SubSeq(a, 1, cut)
  <2>1. cut \in 0..Len(a)
    BY <1>2
  <2> QED  BY <1>2, <1>5, <2>1, Prefix
<1>11. SubSeq(a, 1, cut) = rbuf
  BY <1>2, <1>6, <1>8, <1>9, <1>10
<1> QED  BY <1>11 DEF a

\* A connection that dies in the first frame leaves its beginning and the two others.
LEMMA BreakCuts ==
    ASSUME TwoFramesFit,
           script \in Scripts, cut \in 0..Len(Encoded), rbuf \in Seq(Nat), Whole, Break
    PROVE  /\ cut' \in 0..Len(Encoded') /\ CutFrame'
<1> DEFINE a == Wire(script[1])
           b == Wire(script[2])
           c == Wire(script[3])
           bc == b \o c
           p == SubSeq(a, 1, cut)
<1>1. script' = script /\ rbuf' = rbuf /\ cut < Len(a) /\ cut' = Len(a)
  BY DEF Break
<1>2. rbuf = p
  BY <1>1, RbufIsBeginning
<1>3. /\ a \in Seq(Nat) /\ b \in Seq(Nat) /\ c \in Seq(Nat) /\ Closed(b)
      /\ Len(a) \in Nat /\ Len(b) \in Nat /\ Len(c) \in Nat /\ Len(b) >= 4
      /\ Encoded = Ahead(0) /\ Encoded \in Seq(Nat)
      /\ Len(Encoded) = Len(a) + Len(b) + Len(c) /\ cut \in Nat
  BY ScriptWires
<1>4. Encoded' = Encoded
  BY <1>1, SameScript
<1>5. PICK e1, e2 : WireForm(a, e1) /\ WireForm(b, e2)
  BY ScriptWires, WireIs
<1>6. Len(a) + Len(b) <= MaxFrame
  <2>1. Len(a) <= MaxWire /\ Len(b) <= MaxWire
    BY ScriptWires, WireIs
  <2>2. MaxData \in Nat /\ MaxFrame \in Nat
    BY ByteAssumption
  <2> HIDE DEF a, b
  <2>3. MaxWire \in Nat /\ MaxWire + MaxWire <= MaxFrame
    BY <2>2 DEF MaxWire, TwoFramesFit
  <2> QED  BY <1>3, <2>1, <2>2, <2>3
<1>7. cut \in 0..(Len(a) - 1)
  BY <1>1, <1>3
<1>8. PICK g \in Seq(Nat), q \in Seq(Nat) : Closed(g) /\ Junk(q) /\ p \o b = g \o q
  <2> HIDE DEF a, b, c, p
  <2>1. WireForm(a, e1) /\ WireForm(b, e2) /\ Closed(b)
    BY <1>3, <1>5
  <2>2. FrameAndJunk(SubSeq(a, 1, cut) \o b)
    BY <1>6, <1>7, <2>1, Garbled
  <2> QED  BY <2>2, Zenon DEF p, FrameAndJunk
<1>9. Encoded = a \o bc
  BY <1>3, Zenon DEF Ahead
<1>10. Rest' = SubSeq(Encoded, Len(a) + 1, Len(Encoded))
  BY <1>1, <1>4 DEF Rest
<1>11. bc \in Seq(Nat) /\ Len(bc) = Len(b) + Len(c)
  BY <1>3, ConcatProperties
<1> HIDE DEF a, b, c, bc, p
<1>12. Rest' = bc
  <2>1. Len(a) \in 0..Len(a)
    BY <1>3
  <2>2. SubSeq(a, Len(a) + 1, Len(a)) \o bc = SubSeq(a \o bc, Len(a) + 1, Len(a \o bc))
    BY <1>3, <1>11, <2>1, DropFront
  <2>3. SubSeq(a, Len(a) + 1, Len(a)) = <<>>
    <3>1. Len(a) + 1 \in Int /\ Len(a) \in Int /\ Len(a) < Len(a) + 1
      BY <1>3
    <3> QED  BY <3>1, SubSeqEmpty
  <2>4. <<>> \o bc = bc
    BY <1>11, ConcatEmptySeq
  <2> QED  BY <1>9, <1>10, <2>2, <2>3, <2>4
<1>13. p \o bc = g \o (q \o c)
  <2>1. p \in Seq(Nat)
    BY <1>2
  <2>2. (p \o b) \o c = p \o (b \o c)
    BY <1>3, <2>1, Associates, ZenonT(40)
  <2>3. (g \o q) \o c = g \o (q \o c)
    BY <1>3, Associates, ZenonT(40)
  <2> QED  BY <1>8, <2>2, <2>3, Zenon DEF bc
<1>14. Rest' # <<>>
  <2>1. Len(bc) # 0
    BY <1>3, <1>11
  <2> QED  BY <1>12, <2>1, EmptySeq
<1>15. Wire(script'[3]) = c
  BY <1>1 DEF c
<1>16. rbuf' \o Rest' = g \o (q \o Wire(script'[3]))
  BY <1>1, <1>2, <1>12, <1>13, <1>15
<1>17. CutFrame'
  BY <1>8, <1>14, <1>16 DEF CutFrame
<1>18. cut' \in 0..Len(Encoded')
  <2>1. cut' = Len(a)
    BY <1>1 DEF a
  <2> QED  BY <1>3, <1>4, <2>1
<1> QED  BY <1>17, <1>18
-----------------------------------------------------------------------------
(* The theorems.                                                           *)

\* Whatever the script, the first frame parses to itself: its encoding is one frame,
\* wholly consumed, with the cmd byte and the data that were sent.
THEOREM RoundTripHolds == FrameSpec => []RoundTrip
<1> DEFINE Inv == script \in Scripts
<1>1. FrameInit => Inv
  BY DEF FrameInit, Scripts
<1>2. Inv /\ [FrameNext]_frameVars => Inv'
  BY DEF FrameNext, Recv, Break, frameVars
<1>3. Inv => RoundTrip
  <2> SUFFICES ASSUME Inv PROVE RoundTrip
    OBVIOUS
  <2> DEFINE f == script[1]
  <2>1. Sendable(f)
    BY ScriptSendable
  <2> HIDE DEF f
  <2>2. /\ ParseBuffer(Wire(f)).result = "OK"
        /\ ParseBuffer(Wire(f)).consumed = Len(Wire(f))
        /\ <<ParseBuffer(Wire(f)).cmd, ParseBuffer(Wire(f)).data>> = Reported(f)
    BY <2>1, ParseWire
  <2> QED  BY <2>2, Zenon DEF RoundTrip, f
<1> QED  BY <1>1, <1>2, <1>3, PTL DEF FrameSpec

\* The stream before anything was sent.
LEMMA StreamStarts == FrameInit => StreamInv
<1> SUFFICES ASSUME FrameInit PROVE StreamInv
  OBVIOUS
<1>1. /\ script \in Scripts /\ cut = 0 /\ breaks = 0 /\ rbuf = <<>> /\ got = <<>>
      /\ result = "none"
  BY DEF FrameInit, Scripts
<1>2. Encoded \in Seq(Nat) /\ Encoded = Ahead(0) /\ Len(Encoded) \in Nat
  BY <1>1, ScriptWires, LenProperties
<1>3. rbuf \in Seq(Nat) /\ got \in Seq(Nat \X Seq(Nat)) /\ Len(got) = 0
  BY <1>1, EmptySeq
<1>4. cut \in 0..Len(Encoded)
  BY <1>1, <1>2
<1>5. rbuf \o Rest = Ahead(0)
  <2>1. Rest = SubSeq(Encoded, 1, Len(Encoded))
    BY <1>1 DEF Rest
  <2>2. SubSeq(Encoded, 1, Len(Encoded)) = Encoded
    BY <1>2, SubSeqFull
  <2>3. <<>> \o Encoded = Encoded
    BY <1>2, ConcatEmptySeq
  <2> QED  BY <1>1, <1>2, <2>1, <2>2, <2>3
<1>6. WholeAt(0)
  BY <1>1, <1>3, <1>5 DEF WholeAt
<1>7. Whole
  BY <1>6 DEF Whole
<1> QED  BY <1>1, <1>3, <1>4, <1>7 DEF StreamInv

\* A call of recv_frame keeps the invariant.
LEMMA StreamRecv ==
    ASSUME StreamInv, Recv PROVE StreamInv'
<1>1. /\ script \in Scripts /\ cut \in 0..Len(Encoded) /\ breaks \in Nat
      /\ rbuf \in Seq(Nat) /\ got \in Seq(Nat \X Seq(Nat))
  BY DEF StreamInv
<1>2. /\ script' = script /\ breaks' = breaks /\ cut' \in 0..Len(Encoded') /\ cut' >= cut
  BY <1>1, RecvAdvances
<1>3. CASE breaks = 0
  <2>1. PICK i \in 0..3 : WholeAt(i)
    BY <1>3 DEF StreamInv, Whole
  <2>2. got' \in Seq(Nat \X Seq(Nat)) /\ rbuf' \in Seq(Nat) /\ Whole'
    BY <1>1, <2>1, WholeRecv
  <2>3. ~(breaks' > 0) /\ breaks' \in Nat /\ script' \in Scripts
    BY <1>1, <1>2, <1>3
  <2> QED  BY <1>2, <2>2, <2>3 DEF StreamInv
<1>4. CASE breaks > 0
  <2>1. cut >= Len(Wire(script[1])) /\ (CutFrame \/ SomeJunk \/ Back)
    BY <1>4 DEF StreamInv
  <2>2. /\ got' \in Seq(Nat \X Seq(Nat)) /\ rbuf' \in Seq(Nat)
        /\ (CutFrame \/ SomeJunk \/ Back)'
    BY <1>1, <2>1, BrokenRecv
  <2>3. cut' >= Len(Wire(script'[1]))
    <3>1. Len(Wire(script[1])) \in Nat /\ Wire(script'[1]) = Wire(script[1])
      BY <1>1, <1>2, ScriptWires
    <3>2. cut \in Int /\ cut' \in Int
      BY <1>2, <1>1
    <3> DEFINE l == Len(Wire(script[1]))
    <3>3. l \in Nat /\ cut >= l /\ Len(Wire(script'[1])) = l
      BY <2>1, <3>1
    <3> HIDE DEF l
    <3> QED  BY <1>2, <3>2, <3>3
  <2>4. ~(breaks' = 0) /\ breaks' \in Nat /\ script' \in Scripts
    BY <1>1, <1>2, <1>4
  <2> QED  BY <1>2, <2>2, <2>3, <2>4 DEF StreamInv
<1> QED  BY <1>1, <1>3, <1>4

\* So does a connection that dies; it can die in the first frame only once.
LEMMA StreamBreak ==
    ASSUME TwoFramesFit, StreamInv, Break PROVE StreamInv'
<1>1. /\ script \in Scripts /\ cut \in 0..Len(Encoded) /\ breaks \in Nat
      /\ rbuf \in Seq(Nat) /\ got \in Seq(Nat \X Seq(Nat))
  BY DEF StreamInv
<1>2. /\ script' = script /\ breaks' = breaks + 1 /\ rbuf' = rbuf /\ got' = got
      /\ cut < Len(Wire(script[1])) /\ cut' = Len(Wire(script[1]))
  BY DEF Break
<1>3. Len(Wire(script[1])) \in Nat /\ cut \in Int
  BY <1>1, ScriptWires
<1>4. breaks = 0
  <2> DEFINE l == Len(Wire(script[1]))
  <2>1. l \in Nat /\ cut < l /\ (breaks > 0 => cut >= l)
    BY <1>2, <1>3 DEF StreamInv
  <2> HIDE DEF l
  <2> QED  BY <1>1, <1>3, <2>1
<1>5. Whole
  BY <1>4 DEF StreamInv
<1>6. cut' \in 0..Len(Encoded') /\ CutFrame'
  BY <1>1, <1>5, BreakCuts
<1>7. ~(breaks' = 0) /\ breaks' \in Nat /\ script' \in Scripts
  BY <1>1, <1>2, <1>4
<1>8. cut' >= Len(Wire(script'[1]))
  <2> DEFINE l == Len(Wire(script[1]))
  <2>1. l \in Nat /\ cut' = l /\ Len(Wire(script'[1])) = l
    BY <1>2, <1>3
  <2> HIDE DEF l
  <2> QED  BY <2>1
<1>9. rbuf' \in Seq(Nat) /\ got' \in Seq(Nat \X Seq(Nat))
  BY <1>1, <1>2
<1> QED  BY <1>6, <1>7, <1>8, <1>9 DEF StreamInv

\* If two frames fit, the stream is always what the frames not yet returned make of it.
THEOREM StreamHolds == TwoFramesFit => (FrameSpec => []StreamInv)
<1> SUFFICES ASSUME TwoFramesFit PROVE FrameSpec => []StreamInv
  OBVIOUS
<1>1. FrameInit => StreamInv
  BY StreamStarts
<1>2. StreamInv /\ [FrameNext]_frameVars => StreamInv'
  <2> SUFFICES ASSUME StreamInv, [FrameNext]_frameVars PROVE StreamInv'
    OBVIOUS
  <2>1. CASE Recv
    BY <2>1, StreamRecv
  <2>2. CASE Break
    BY <2>2, StreamBreak
  <2>3. CASE UNCHANGED frameVars
    <3>1. /\ script' = script /\ cut' = cut /\ breaks' = breaks /\ rbuf' = rbuf
          /\ got' = got /\ result' = result
      BY <2>3 DEF frameVars
    <3> QED  BY <3>1, Zenon DEF StreamInv, Whole, WholeAt, Ahead, CutFrame, SomeJunk, Back,
                            Encoded, Rest
  <2> QED  BY <2>1, <2>2, <2>3 DEF FrameNext
<1> QED  BY <1>1, <1>2, PTL DEF FrameSpec

\* While the connection lives, the stream is what is still to come.
THEOREM WholeHolds == FrameSpec => []WholeInv
<1>1. FrameInit => WholeInv
  BY StreamStarts DEF StreamInv, WholeInv
<1>2. WholeInv /\ [FrameNext]_frameVars => WholeInv'
  <2> SUFFICES ASSUME WholeInv, [FrameNext]_frameVars PROVE WholeInv'
    OBVIOUS
  <2>1. CASE Recv
    <3>1. script \in Scripts /\ breaks \in Nat /\ script' = script /\ breaks' = breaks
      BY <2>1, Zenon DEF WholeInv, Recv
    <3>2. CASE breaks = 0
      <4>1. /\ cut \in 0..Len(Encoded) /\ rbuf \in Seq(Nat)
            /\ got \in Seq(Nat \X Seq(Nat)) /\ Whole
        BY <3>2 DEF WholeInv
      <4>2. PICK i \in 0..3 : WholeAt(i)
        BY <4>1 DEF Whole
      <4>3. got' \in Seq(Nat \X Seq(Nat)) /\ rbuf' \in Seq(Nat) /\ Whole'
        BY <2>1, <3>1, <4>1, <4>2, WholeRecv
      <4>4. cut' \in 0..Len(Encoded')
        BY <2>1, <3>1, <4>1, RecvAdvances
      <4> QED  BY <3>1, <4>3, <4>4 DEF WholeInv
    <3>3. CASE breaks # 0
      BY <3>1, <3>3 DEF WholeInv
    <3> QED  BY <3>2, <3>3
  <2>2. CASE Break
    BY <2>2 DEF Break, WholeInv
  <2>3. CASE UNCHANGED frameVars
    <3>1. /\ script' = script /\ cut' = cut /\ breaks' = breaks /\ rbuf' = rbuf
          /\ got' = got /\ result' = result
      BY <2>3 DEF frameVars
    <3> QED  BY <3>1, Zenon DEF WholeInv, Whole, WholeAt, Ahead, Encoded, Rest
  <2> QED  BY <2>1, <2>2, <2>3 DEF FrameNext
<1> QED  BY <1>1, <1>2, PTL DEF FrameSpec

\* n frames of the script, from the one after the i-th.
Laid(i, n) == [k \in 1..n |-> Wire(script[k + i])]

\* One frame more.
LEMMA LaidAppend ==
    ASSUME script \in Scripts, NEW i \in 0..3, NEW n \in Nat, NEW e \in 1..3, e = n + 1 + i
    PROVE  /\ FlattenSeq(Laid(i, n)) \in Seq(Nat)
           /\ FlattenSeq(Laid(i, n + 1)) = FlattenSeq(Laid(i, n)) \o Wire(script[e])
<1> DEFINE ss == Laid(i, n)
           m == n + 1
           tt == Laid(i, m)
<1>1. \A j \in 1..3 : Wire(script[j]) \in Seq(Nat)
  BY ScriptWires
<1>2. /\ m \in Nat /\ m = n + 1 /\ m \in 1..m /\ m + i = e
      /\ \A k \in 1..m : k + i \in 1..3
      /\ \A k \in 1..n : k \in 1..m
  OBVIOUS
<1>3. \A k \in 1..m : Wire(script[k + i]) \in Seq(Nat)
  BY <1>1, <1>2
<1> HIDE DEF m
<1>4. tt \in [1..m -> Seq(Nat)] /\ tt[m] = Wire(script[e])
  BY <1>2, <1>3 DEF Laid
<1>5. ss \in [1..n -> Seq(Nat)] /\ \A k \in 1..n : tt[k] = ss[k]
  BY <1>2, <1>3 DEF Laid
<1> HIDE DEF ss, tt
<1>6. tt \in [1..(n + 1) -> Seq(Nat)] /\ tt[n + 1] = Wire(script[e])
  BY <1>2, <1>4
<1>7. FlattenSeq(ss) \in Seq(Nat) /\ FlattenSeq(tt) = FlattenSeq(ss) \o tt[n + 1]
  BY <1>5, <1>6, PiecesAppend
<1> QED  BY <1>6, <1>7 DEF ss, tt, m

\* The frames not yet returned are what is still to come.
LEMMA LaidAhead ==
    ASSUME script \in Scripts, NEW i \in 0..3
    PROVE  FlattenSeq(Laid(i, 3 - i)) = Ahead(i)
<1> DEFINE a == Wire(script[1])
           b == Wire(script[2])
           c == Wire(script[3])
<1>1. a \in Seq(Nat) /\ b \in Seq(Nat) /\ c \in Seq(Nat)
  BY ScriptWires
<1>2. /\ Ahead(0) = a \o (b \o c) /\ Ahead(1) = b \o c
      /\ Ahead(2) = c \o <<>> /\ Ahead(3) = <<>>
  BY DEF Ahead
<1>3. ASSUME NEW j PROVE FlattenSeq(Laid(j, 0)) = <<>>
  <2>1. Laid(j, 0) = <<>>
    BY DEF Laid
  <2> QED  BY <2>1, EmptyFlattens
<1>4. FlattenSeq(Laid(2, 1)) = FlattenSeq(Laid(2, 0)) \o c
  <2>1. 2 \in 0..3 /\ 0 \in Nat /\ 3 \in 1..3 /\ 3 = 0 + 1 + 2 /\ 0 + 1 = 1
    OBVIOUS
  <2>2. FlattenSeq(Laid(2, 0 + 1)) = FlattenSeq(Laid(2, 0)) \o c
    BY <2>1, LaidAppend
  <2> QED  BY <2>1, <2>2
<1>5. /\ FlattenSeq(Laid(1, 1)) = FlattenSeq(Laid(1, 0)) \o b
      /\ FlattenSeq(Laid(1, 2)) = FlattenSeq(Laid(1, 1)) \o c
  <2>1. /\ 1 \in 0..3 /\ 0 \in Nat /\ 1 \in Nat /\ 2 \in 1..3 /\ 3 \in 1..3
        /\ 2 = 0 + 1 + 1 /\ 3 = 1 + 1 + 1 /\ 0 + 1 = 1 /\ 1 + 1 = 2
    OBVIOUS
  <2>2. FlattenSeq(Laid(1, 0 + 1)) = FlattenSeq(Laid(1, 0)) \o b
    BY <2>1, LaidAppend
  <2>3. FlattenSeq(Laid(1, 1 + 1)) = FlattenSeq(Laid(1, 1)) \o c
    BY <2>1, LaidAppend
  <2> QED  BY <2>1, <2>2, <2>3
<1>6. /\ FlattenSeq(Laid(0, 1)) = FlattenSeq(Laid(0, 0)) \o a
      /\ FlattenSeq(Laid(0, 2)) = FlattenSeq(Laid(0, 1)) \o b
      /\ FlattenSeq(Laid(0, 3)) = FlattenSeq(Laid(0, 2)) \o c
  <2>1. /\ 0 \in 0..3 /\ 0 \in Nat /\ 1 \in Nat /\ 2 \in Nat
        /\ 1 \in 1..3 /\ 2 \in 1..3 /\ 3 \in 1..3
        /\ 1 = 0 + 1 + 0 /\ 2 = 1 + 1 + 0 /\ 3 = 2 + 1 + 0
        /\ 0 + 1 = 1 /\ 1 + 1 = 2 /\ 2 + 1 = 3
    OBVIOUS
  <2>2. FlattenSeq(Laid(0, 0 + 1)) = FlattenSeq(Laid(0, 0)) \o a
    BY <2>1, LaidAppend
  <2>3. FlattenSeq(Laid(0, 1 + 1)) = FlattenSeq(Laid(0, 1)) \o b
    BY <2>1, LaidAppend
  <2>4. FlattenSeq(Laid(0, 2 + 1)) = FlattenSeq(Laid(0, 2)) \o c
    BY <2>1, LaidAppend
  <2> QED  BY <2>1, <2>2, <2>3, <2>4
<1> HIDE DEF a, b, c
<1>7. /\ <<>> \o a = a /\ <<>> \o b = b /\ <<>> \o c = c /\ c \o <<>> = c
      /\ (a \o b) \o c = a \o (b \o c)
  BY <1>1, ConcatEmptySeq, Associates
<1>8. i = 0 \/ i = 1 \/ i = 2 \/ i = 3
  OBVIOUS
<1>9. 3 - 0 = 3 /\ 3 - 1 = 2 /\ 3 - 2 = 1 /\ 3 - 3 = 0
  OBVIOUS
<1>10. FlattenSeq(Laid(0, 3)) = Ahead(0)
  BY <1>2, <1>3, <1>6, <1>7, Zenon
<1>11. FlattenSeq(Laid(1, 2)) = Ahead(1)
  BY <1>2, <1>3, <1>5, <1>7, Zenon
<1>12. FlattenSeq(Laid(2, 1)) = Ahead(2)
  BY <1>2, <1>3, <1>4, <1>7, Zenon
<1>13. FlattenSeq(Laid(3, 0)) = Ahead(3)
  BY <1>2, <1>3, Zenon
<1> QED  BY <1>8, <1>9, <1>10, <1>11, <1>12, <1>13

\* While the connection lives, no byte is lost and none misread, wherever recv cuts
\* the stream.
THEOREM NothingLostHolds == FrameSpec => []NothingLost
<1>1. WholeInv => NothingLost
  <2> SUFFICES ASSUME WholeInv, breaks = 0
               PROVE  /\ Len(got) <= 3
                      /\ \A k \in 1..Len(got) : got[k] = Reported(script[k])
                      /\ rbuf \o Rest = FlattenSeq([k \in 1..(3 - Len(got)) |->
                                                       Wire(script[k + Len(got)])])
                      /\ result \in {"none", "OK", "PARTIAL"}
    BY DEF NothingLost
  <2>1. PICK i \in 0..3 : WholeAt(i)
    BY DEF WholeInv, Whole
  <2>2. /\ Len(got) = i /\ (\A k \in 1..i : got[k] = Reported(script[k]))
        /\ rbuf \o Rest = Ahead(i) /\ result \in {"none", "OK", "PARTIAL"}
    BY <2>1 DEF WholeAt
  <2>3. FlattenSeq(Laid(i, 3 - i)) = Ahead(i)
    BY LaidAhead DEF WholeInv
  <2>4. rbuf \o Rest = FlattenSeq([k \in 1..(3 - Len(got)) |-> Wire(script[k + Len(got)])])
    BY <2>2, <2>3, Zenon DEF Laid
  <2>5. Len(got) <= 3
    BY <2>2
  <2> QED  BY <2>2, <2>4, <2>5
<1> QED  BY <1>1, WholeHolds, PTL

\* If two frames fit, a connection that dies in a frame costs that frame and at most
\* the next one.
THEOREM ResynchronisesHolds == TwoFramesFit => (FrameSpec => []Resynchronises)
<1> SUFFICES ASSUME TwoFramesFit PROVE FrameSpec => []Resynchronises
  OBVIOUS
<1>1. StreamInv => Resynchronises
  <2> SUFFICES ASSUME StreamInv, breaks > 0, Rest = <<>>
               PROVE  \/ got # <<>> /\ Last(got) = Reported(script[3])
                      \/ /\ Pairs(rbuf, 1, FE) # {}
                         /\ SubSeq(rbuf, Least(Pairs(rbuf, 1, FE)), Len(rbuf))
                               = Wire(script[3])
    BY DEF Resynchronises
  <2> DEFINE w == Wire(script[3])
  <2>1. rbuf \in Seq(Nat) /\ (SomeJunk \/ Back)
    BY DEF StreamInv, CutFrame
  <2>2. Closed(w) /\ w \in Seq(Nat) /\ Len(w) \in Nat /\ Len(w) >= 4
    BY ScriptWires DEF StreamInv
  <2>3. CASE Back
    BY <2>3 DEF Back
  <2>4. CASE SomeJunk
    <3>1. PICK q \in Seq(Nat) : Junk(q) /\ rbuf \o Rest = q \o w
      BY <2>4 DEF SomeJunk
    <3> HIDE DEF w
    <3>2. rbuf = q \o w
      BY <2>1, <3>1, ConcatEmptySeq
    <3> DEFINE s == Len(q)
               l == Len(w)
    <3>3. /\ s \in Nat /\ l \in Nat /\ l >= 4 /\ Len(rbuf) = s + l
          /\ \A k \in 1..(s + l) : rbuf[k] = IF k <= s THEN q[k] ELSE w[k - s]
      BY <2>2, <3>2, ConcatProperties, LenProperties
    <3> HIDE DEF s, l
    <3>4. \A j \in 1..s : rbuf[j] = q[j]
      <4>1. \A j \in 1..s : j \in 1..(s + l) /\ j <= s
        BY <3>3
      <4> QED  BY <3>3, <4>1
    <3>5. rbuf[s + 1] = w[1] /\ rbuf[s + 2] = w[2]
      <4>1. /\ s + 1 \in 1..(s + l) /\ s + 2 \in 1..(s + l) /\ ~(s + 1 <= s) /\ ~(s + 2 <= s)
            /\ (s + 1) - s = 1 /\ (s + 2) - s = 2
        BY <3>3
      <4>2. rbuf[s + 1] = w[(s + 1) - s] /\ rbuf[s + 2] = w[(s + 2) - s]
        BY <3>3, <4>1
      <4> QED  BY <4>1, <4>2
    <3>6. Len(rbuf) >= s + 2
      BY <3>3
    <3>7. StartsAt(rbuf, s)
      BY <2>1, <2>2, <3>1, <3>4, <3>5, <3>6, FrameStarts DEF s
    <3>8. Pairs(rbuf, 1, FE) # {} /\ Least(Pairs(rbuf, 1, FE)) = s + 1
      BY <2>1, <3>7, StartFound
    <3>9. SubSeq(rbuf, s + 1, Len(rbuf)) = w
      <4>1. s \in 0..Len(q)
        BY <3>3 DEF s
      <4>2. SubSeq(q, s + 1, Len(q)) \o w = SubSeq(q \o w, s + 1, Len(q \o w))
        BY <2>2, <4>1, DropFront
      <4>3. SubSeq(q, s + 1, Len(q)) = <<>>
        <5>1. s + 1 \in Int /\ Len(q) \in Int /\ Len(q) < s + 1
          BY <3>3 DEF s
        <5> QED  BY <5>1, SubSeqEmpty
      <4>4. <<>> \o w = w
        BY <2>2, ConcatEmptySeq
      <4> QED  BY <3>2, <4>2, <4>3, <4>4
    <3> QED  BY <3>8, <3>9 DEF w
  <2> QED  BY <2>1, <2>3, <2>4
<1>2. FrameSpec => []StreamInv
  BY StreamHolds
<1> QED  BY <1>1, <1>2, PTL
=============================================================================
