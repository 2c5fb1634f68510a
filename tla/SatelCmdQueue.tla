--------------------------- MODULE SatelCmdQueue ---------------------------
(***************************************************************************)
(* The ring buffer s_cmd_queue of components/satel_client, at the grain of *)
(* its loads and stores: enqueue_cmd runs in the task of the caller,       *)
(* flush_cmd_queue in the task of the client, and no lock is taken.        *)
(***************************************************************************)
EXTENDS Integers, Sequences

CONSTANTS
    Producers,   \* tasks that call enqueue_cmd
    Cmds,        \* commands
    None,        \* a length of 0: nothing was built in the slot
    Torn,        \* the bytes of one command with the length of another
    QueueCap,    \* slots of the ring (8)
    MaxCmds      \* bound on calls of enqueue_cmd

ASSUME CapAssumption == QueueCap \in Nat \ {0, 1} /\ MaxCmds \in Nat
ASSUME CmdAssumption == None \notin Cmds /\ Torn \notin Cmds /\ None # Torn

VARIABLES
    s_cmd_head, s_cmd_tail,
    s_cmd_queue,   \* the frame in each slot
    s_cmd_len,     \* the command whose length is in each slot
    pc,            \* of each producer
    cmd,           \* the argument of each producer's call
    next,          \* the local of each producer's call
    flush,         \* where flush_cmd_queue is
    accepted,      \* history of the commands published
    sent,          \* history of what was passed to send()
    issued         \* calls made so far

ring == <<s_cmd_head, s_cmd_tail, s_cmd_queue, s_cmd_len>>
calls == <<pc, cmd, next>>
vars == <<ring, calls, flush, accepted, sent, issued>>

Slots == 0..(QueueCap - 1)

Init ==
    /\ s_cmd_head = 0 /\ s_cmd_tail = 0
    /\ s_cmd_queue = [k \in Slots |-> None]
    /\ s_cmd_len = [k \in Slots |-> None]
    /\ pc = [p \in Producers |-> "idle"]
    /\ cmd = [p \in Producers |-> None]
    /\ next = [p \in Producers |-> 0]
    /\ flush = "test" /\ accepted = <<>> /\ sent = <<>> /\ issued = 0

----------------------------------------------------------------------------
(* (k + 1) % 8, and the same with the wrap forgotten.                      *)
SuccUnwrapped(k) == k + 1
Succ(k) == IF k = QueueCap - 1 THEN 0 ELSE k + 1

\* The test for a full ring, and the one that would use every slot.
FullNever(n) == FALSE
Full(n) == n = s_cmd_head

\* enqueue_cmd: compute next and leave when the ring is full
EnqueueBegin(p) ==
    /\ pc[p] = "idle" /\ issued < MaxCmds
    /\ issued' = issued + 1
    /\ \E c \in Cmds :
          IF Full(Succ(s_cmd_tail))
          THEN UNCHANGED calls
          ELSE /\ pc' = [pc EXCEPT ![p] = "build"]
               /\ cmd' = [cmd EXCEPT ![p] = c]
               /\ next' = [next EXCEPT ![p] = Succ(s_cmd_tail)]
    /\ UNCHANGED <<ring, flush, accepted, sent>>

\* satel_build_frame writes the slot at s_cmd_tail
EnqueueBuild(p) ==
    /\ pc[p] = "build" /\ pc' = [pc EXCEPT ![p] = "len"]
    /\ s_cmd_queue' = [s_cmd_queue EXCEPT ![s_cmd_tail] = cmd[p]]
    /\ UNCHANGED <<s_cmd_head, s_cmd_tail, s_cmd_len, cmd, next, flush,
                   accepted, sent, issued>>

EnqueueLen(p) ==
    /\ pc[p] = "len" /\ pc' = [pc EXCEPT ![p] = "publish"]
    /\ s_cmd_len' = [s_cmd_len EXCEPT ![s_cmd_tail] = cmd[p]]
    /\ UNCHANGED <<s_cmd_head, s_cmd_tail, s_cmd_queue, cmd, next, flush,
                   accepted, sent, issued>>

EnqueuePublish(p) ==
    /\ pc[p] = "publish" /\ pc' = [pc EXCEPT ![p] = "idle"]
    /\ s_cmd_tail' = next[p]
    /\ accepted' = Append(accepted, cmd[p])
    /\ UNCHANGED <<s_cmd_head, s_cmd_queue, s_cmd_len, cmd, next, flush, sent,
                   issued>>

----------------------------------------------------------------------------
(* The consumer.                                                           *)

\* while (s_cmd_head != s_cmd_tail), and a loop that waits for two commands
FlushTwo == s_cmd_head # s_cmd_tail /\ Succ(s_cmd_head) # s_cmd_tail
Pending == s_cmd_head # s_cmd_tail

FlushTest ==
    /\ flush = "test" /\ Pending
    /\ flush' = "send"
    /\ UNCHANGED <<ring, calls, accepted, sent, issued>>

\* what the slot puts on the wire
Frame(k) == IF s_cmd_queue[k] = s_cmd_len[k] THEN s_cmd_queue[k] ELSE Torn

FlushSend ==
    /\ flush = "send" /\ flush' = "advance"
    /\ sent' = IF s_cmd_len[s_cmd_head] # None
               THEN Append(sent, Frame(s_cmd_head)) ELSE sent
    /\ UNCHANGED <<ring, calls, accepted, issued>>

FlushAdvance ==
    /\ flush = "advance" /\ flush' = "test"
    /\ s_cmd_head' = Succ(s_cmd_head)
    /\ UNCHANGED <<s_cmd_tail, s_cmd_queue, s_cmd_len, calls, accepted, sent,
                   issued>>

Flush == FlushTest \/ FlushSend \/ FlushAdvance
Enqueue(p) ==
    EnqueueBegin(p) \/ EnqueueBuild(p) \/ EnqueueLen(p) \/ EnqueuePublish(p)

Next == Flush \/ \E p \in Producers : Enqueue(p)
Spec == Init /\ [][Next]_vars

\* The poll loop of a connected client comes back to flush_cmd_queue.
FairSpec == Spec /\ WF_vars(Flush)

----------------------------------------------------------------------------
TypeOK ==
    /\ s_cmd_head \in Slots /\ s_cmd_tail \in Slots
    /\ s_cmd_queue \in [Slots -> Cmds \cup {None}]
    /\ s_cmd_len \in [Slots -> Cmds \cup {None}]
    /\ pc \in [Producers -> {"idle", "build", "len", "publish"}]
    /\ cmd \in [Producers -> Cmds \cup {None}]
    /\ next \in [Producers -> Slots]
    /\ flush \in {"test", "send", "advance"}
    /\ accepted \in Seq(Cmds) /\ sent \in Seq(Cmds \cup {None, Torn})
    /\ issued \in 0..MaxCmds

\* The ring implements a FIFO of one slot less than it has: with one producer,
\* what is accepted is sent once, whole, and in order, however enqueue_cmd and
\* flush_cmd_queue interleave.
Fifo == INSTANCE CommandFifo WITH Capacity <- QueueCap - 1
FifoSpec == Fifo!Spec

\* A slot being filled is never one the consumer may send: every queued
\* command stays as it was accepted until its turn comes.
Held == IF s_cmd_tail >= s_cmd_head THEN s_cmd_tail - s_cmd_head
        ELSE s_cmd_tail - s_cmd_head + QueueCap
SlotOf(n) == IF s_cmd_head + n < QueueCap THEN s_cmd_head + n
             ELSE s_cmd_head + n - QueueCap
Popped == IF flush = "advance" THEN Len(sent) - 1 ELSE Len(sent)
QueuedIntact ==
    /\ Len(accepted) = Popped + Held
    /\ \A n \in 0..(Held - 1) :
          /\ s_cmd_queue[SlotOf(n)] = accepted[Popped + n + 1]
          /\ s_cmd_len[SlotOf(n)] = accepted[Popped + n + 1]

\* Every command accepted is sent in the end.
EventuallySent ==
    \A n \in 1..MaxCmds : Len(accepted) >= n ~> Len(sent) >= n
=============================================================================
