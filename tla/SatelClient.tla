---------------------------- MODULE SatelClient ----------------------------
(***************************************************************************)
(* The task of components/satel_client: it connects to the ETHM-1 module   *)
(* of a SATEL alarm panel, polls its registers, applies the replies to     *)
(* s_panel and calls the application back for every watched line that      *)
(* changed.  The TCP link and the panel at its other end are the           *)
(* environment: they split a reply over two segments, break the link,      *)
(* answer late, and acknowledge commands with replies of their own.        *)
(*                                                                         *)
(* A reply is [cmd, val, at]: the register it reports, the set of lines    *)
(* that are on, and the version of the register it was read from (at is a  *)
(* ghost).  On the wire it is two fragments, its "head" (everything up to  *)
(* the point where TCP may cut it) and its "tail" (the rest, up to the     *)
(* FE 0D terminator).                                                      *)
(***************************************************************************)
EXTENDS Naturals, Sequences

CONSTANTS
    PollCmds,     \* POLL_CMDS: the registers asked for, in order
    Lines,        \* lines (zones, outputs) of a register
    Watched,      \* <<register, line>> pairs in the order notify_changes scans
    Ack,          \* the cmd of the panel's reply to a command, no register
    AcksCommands, \* whether the panel replies to commands
    RawMax,       \* SATEL_MAX_FRAME_LEN, in fragments
    BufMax,       \* SATEL_RECV_BUF_SIZE - 1, in fragments
    QueueCap,     \* slots of s_cmd_queue
    MaxReconnects, \* where the model stops counting s_reconnects
    MaxFaults,    \* bound on link breaks, refused connections and timeouts
    MaxSplits,    \* bound on replies cut in two
    MaxChanges,   \* bound on changes of a register at the panel
    MaxCmds,      \* bound on commands enqueued by other tasks
    MaxStops      \* bound on calls of satel_client_stop

Registers == {PollCmds[k] : k \in 1..Len(PollCmds)}

ASSUME PollAssumption == PollCmds \in Seq(STRING) /\ Len(PollCmds) > 0
ASSUME WatchedAssumption == Watched \in Seq(Registers \X Lines)
ASSUME AckAssumption == Ack \notin Registers /\ AcksCommands \in BOOLEAN
ASSUME BufferAssumption ==
    /\ RawMax \in Nat \ {0, 1}
    /\ BufMax \in Nat \ {0, 1}
    /\ QueueCap \in Nat \ {0, 1}
ASSUME BoundAssumption ==
    /\ MaxReconnects \in Nat /\ MaxFaults \in Nat /\ MaxSplits \in Nat
    /\ MaxChanges \in Nat /\ MaxCmds \in Nat /\ MaxStops \in Nat

VARIABLES
    pc,           \* where the task is
    s_state,      \* the published satel_state_t
    s_panel,      \* what the client believes of every register
    s_prev,       \* the s_panel the application was last told of
    s_mutex,      \* TRUE while the task holds s_mutex
    s_reconnects,
    first,        \* the poll under way is the one made right after connecting
    i,            \* index in POLL_CMDS
    cursor,       \* index in Watched during notify_changes
    frame,        \* the frame recv_frame returned
    rbuf,         \* the static receive buffer of recv_frame
    queued,       \* number of commands in s_cmd_queue
    up,           \* the connection the task holds is alive
    reqs,         \* requests the panel has not answered
    due,          \* the tail of a reply cut in two, until it is delivered
    arrived,      \* fragments in the socket's receive queue
    truth,        \* the registers of the panel itself
    told,         \* ghost: what the callbacks told of each watched line
    cut,          \* ghost: the task was deleted between two callbacks
    faults, splits, changes, cmds, stops

task == <<pc, s_state, s_panel, s_prev, s_mutex, s_reconnects, first, i,
          cursor, frame, rbuf>>
link == <<up, reqs, due, arrived>>
used == <<faults, splits, changes, cmds, stops, cut>>
vars == <<task, queued, link, truth, told, used>>

States == {"IDLE", "CONNECTING", "READY", "POLLING", "ERROR", "RECONNECT"}
PCs == {"top", "connect", "backoff", "loop", "flush", "send", "recv", "take",
        "apply", "next", "notify", "sleep", "lost", "stopped"}
Reply == [cmd : Registers \cup {Ack}, val : SUBSET Lines, at : Nat]
Fragment == [half : {"head", "tail"}, of : Reply]

\* satel_bit_get on the register of the k-th watched line
Bit(panel, k) == Watched[k][2] \in panel[Watched[k][1]].val

----------------------------------------------------------------------------
(* satel_parse_buffer, on fragments.  The terminator FE 0D is in a tail.   *)

Tails(buf) == {k \in 1..Len(buf) : buf[k].half = "tail"}
FirstTail(buf) == CHOOSE k \in Tails(buf) : \A m \in Tails(buf) : k <= m
After(buf, k) == SubSeq(buf, k + 1, Len(buf))

\* What lies between the first FE FE and the first FE 0D is one frame with a
\* valid CRC only when it is the two halves of the same reply.
WholeFrame(buf, end) ==
    end = 2 /\ buf[1] = [half |-> "head", of |-> buf[2].of]

\* The four results.  Too long a frame is an error that consumes nothing.
ParseResult(buf) ==
    IF Tails(buf) = {} THEN "PARTIAL"
    ELSE LET end == FirstTail(buf)
         IN  IF end > RawMax THEN "ERROR"
             ELSE IF WholeFrame(buf, end) THEN "OK" ELSE "CRC_FAIL"
\* The memmove of recv_frame, and two ways of getting it wrong: nothing is
\* removed, or an incomplete frame is thrown away.
UnconsumedNever(buf) == buf
UnconsumedPartial(buf) ==
    IF Tails(buf) = {} THEN <<>> ELSE After(buf, FirstTail(buf))
Unconsumed(buf) ==
    IF ParseResult(buf) \in {"OK", "CRC_FAIL"}
    THEN After(buf, FirstTail(buf)) ELSE buf

\* recv writes behind what the buffer holds.
Appended(buf, new) == buf \o new

\* What recv leaves in the socket; Peeked does not take what it read.
Peeked(bytes, n) == bytes
Untaken(bytes, n) == After(bytes, n)

----------------------------------------------------------------------------
NoReply == [cmd |-> Ack, val |-> {}, at |-> 0]

Init ==
    /\ pc = "top" /\ s_state = "IDLE" /\ s_mutex = FALSE /\ s_reconnects = 0
    /\ s_panel = [r \in Registers |-> [val |-> {}, at |-> 0]]
    /\ s_prev = s_panel
    /\ first = FALSE /\ i = 1 /\ cursor = 1 /\ frame = NoReply /\ rbuf = <<>>
    /\ queued = 0
    /\ up = FALSE /\ reqs = <<>> /\ due = <<>> /\ arrived = <<>>
    /\ truth \in [Registers -> [val : SUBSET Lines, at : {1}]]
    /\ told = [k \in 1..Len(Watched) |-> FALSE]
    /\ faults = 0 /\ splits = 0 /\ changes = 0 /\ cmds = 0 /\ stops = 0
    /\ cut = FALSE

----------------------------------------------------------------------------
(* The task.  Blocking calls and delays separate its steps.                *)

Goto(label) == pc' = label

\* while (true): publish CONNECTING and block in tcp_connect
Begin ==
    /\ pc = "top" /\ Goto("connect")
    /\ s_state' = "CONNECTING"
    /\ UNCHANGED <<s_panel, s_prev, s_mutex, s_reconnects, first, i, cursor,
                   frame, rbuf, queued, link, truth, told, used>>

\* a fresh socket with nothing in it; rbuf is not touched
TcpConnect == up' = TRUE /\ reqs' = <<>> /\ due' = <<>> /\ arrived' = <<>>

Connected ==
    /\ pc = "connect" /\ Goto("send")
    /\ TcpConnect
    /\ s_state' = "READY" /\ first' = TRUE /\ i' = 1
    /\ UNCHANGED <<s_panel, s_prev, s_mutex, s_reconnects, cursor, frame,
                   rbuf, queued, truth, told, used>>

CountReconnect ==
    s_reconnects' = IF s_reconnects < MaxReconnects
                    THEN s_reconnects + 1 ELSE s_reconnects

ConnectRefused ==
    /\ pc = "connect" /\ Goto("backoff")
    /\ faults < MaxFaults /\ faults' = faults + 1
    /\ s_state' = "ERROR" /\ CountReconnect
    /\ UNCHANGED <<s_panel, s_prev, s_mutex, first, i, cursor, frame, rbuf,
                   queued, link, truth, told, splits, changes, cmds, stops,
                   cut>>

Backoff ==
    /\ pc = "backoff" /\ Goto("top")
    /\ s_state' = "RECONNECT"
    /\ UNCHANGED <<s_panel, s_prev, s_mutex, s_reconnects, first, i, cursor,
                   frame, rbuf, queued, link, truth, told, used>>

\* The result of the poll made right after connecting is ignored; a later
\* poll that fails ends the connection.  PollRetried never reconnects.
PollRetried ==
    /\ Goto("send")
    /\ first' = FALSE
PollFailed ==
    /\ Goto(IF first THEN "loop" ELSE "lost")
    /\ first' = FALSE

\* send_frame: on a dead link the send may fail or be lost on the way
SendPoll ==
    /\ pc = "send"
    /\ \/ /\ Goto("recv")
          /\ reqs' = IF up THEN Append(reqs, PollCmds[i]) ELSE reqs
          /\ UNCHANGED first
       \/ /\ ~up
          /\ PollFailed /\ UNCHANGED reqs
    /\ UNCHANGED <<s_state, s_panel, s_prev, s_mutex, s_reconnects, i, cursor,
                   frame, rbuf, queued, up, due, arrived, truth, told, used>>

\* recv returned data: as much as the buffer has room for; then one frame
\* at most is parsed
RecvData ==
    /\ pc = "recv"
    /\ arrived # <<>> /\ Len(rbuf) < BufMax
    /\ LET room == BufMax - Len(rbuf)
           n == IF Len(arrived) < room THEN Len(arrived) ELSE room
           buf == Appended(rbuf, SubSeq(arrived, 1, n))
       IN  /\ arrived' = Untaken(arrived, n)
           /\ rbuf' = Unconsumed(buf)
           /\ \/ /\ ParseResult(buf) = "OK"
                 /\ frame' = buf[1].of
                 /\ Goto("take") /\ UNCHANGED first
              \/ /\ ParseResult(buf) \in {"PARTIAL", "CRC_FAIL"}
                 /\ Goto("next") /\ UNCHANGED <<frame, first>>
              \/ /\ ParseResult(buf) = "ERROR"
                 /\ PollFailed /\ UNCHANGED frame
    /\ UNCHANGED <<s_state, s_panel, s_prev, s_mutex, s_reconnects, i, cursor,
                   queued, up, reqs, due, truth, told, used>>

\* recv returned 0 or -1: no room was left in rbuf, or the link is dead
RecvNothing ==
    /\ pc = "recv"
    /\ \/ Len(rbuf) = BufMax
       \/ ~up /\ arrived = <<>>
    /\ PollFailed
    /\ UNCHANGED <<s_state, s_panel, s_prev, s_mutex, s_reconnects, i, cursor,
                   frame, rbuf, queued, link, truth, told, used>>

\* SO_RCVTIMEO expired before the answer came
RecvTimeout ==
    /\ pc = "recv"
    /\ up /\ arrived = <<>>
    /\ faults < MaxFaults /\ faults' = faults + 1
    /\ PollFailed
    /\ UNCHANGED <<s_state, s_panel, s_prev, s_mutex, s_reconnects, i, cursor,
                   frame, rbuf, queued, link, truth, told, splits, changes,
                   cmds, stops, cut>>

TakeMutex ==
    /\ pc = "take" /\ ~s_mutex /\ Goto("apply")
    /\ s_mutex' = TRUE
    /\ UNCHANGED <<s_state, s_panel, s_prev, s_reconnects, first, i, cursor,
                   frame, rbuf, queued, link, truth, told, used>>

\* satel_apply_frame, and the release of s_mutex; a cmd that is no register
\* falls into its default branch
ApplyFrame ==
    /\ pc = "apply" /\ Goto("next")
    /\ s_panel' = IF frame.cmd \in Registers
                  THEN [s_panel EXCEPT ![frame.cmd] =
                           [val |-> frame.val, at |-> frame.at]]
                  ELSE s_panel
    /\ s_mutex' = FALSE
    /\ UNCHANGED <<s_state, s_prev, s_reconnects, first, i, cursor, frame,
                   rbuf, queued, link, truth, told, used>>

\* the condition of the loop over POLL_CMDS, and one that runs past its end
MorePollsOrEnd == i <= Len(PollCmds)
MorePolls == i < Len(PollCmds)

\* the line notify_changes starts from, and one that misses zone 1
SecondLine == 2
FirstLine == 1

\* the 50 ms pause between two requests, or the end of the poll
NextCmd ==
    /\ pc = "next"
    /\ IF MorePolls
       THEN Goto("send") /\ i' = i + 1 /\ UNCHANGED cursor
       ELSE Goto("notify") /\ cursor' = FirstLine /\ UNCHANGED i
    /\ UNCHANGED <<s_state, s_panel, s_prev, s_mutex, s_reconnects, first,
                   frame, rbuf, queued, link, truth, told, used>>

\* notify_changes: one watched line; the callback runs in this task
NotifyLine ==
    /\ pc = "notify" /\ cursor <= Len(Watched)
    /\ cursor' = cursor + 1
    /\ told' = IF Bit(s_panel, cursor) # Bit(s_prev, cursor)
               THEN [told EXCEPT ![cursor] = Bit(s_panel, cursor)]
               ELSE told
    /\ UNCHANGED <<pc, s_state, s_panel, s_prev, s_mutex, s_reconnects, first,
                   i, frame, rbuf, queued, link, truth, used>>

\* s_prev = s_panel, and the assignment left out
KeepPrev == s_prev' = s_prev
SavePrev == s_prev' = s_panel

\* s_prev = s_panel, and the poll returns ESP_OK
NotifyDone ==
    /\ pc = "notify" /\ cursor > Len(Watched)
    /\ SavePrev
    /\ first' = FALSE
    /\ IF first
       THEN Goto("loop") /\ UNCHANGED s_state
       ELSE Goto("sleep") /\ s_state' = "READY"
    /\ UNCHANGED <<s_panel, s_mutex, s_reconnects, i, cursor, frame, rbuf,
                   queued, link, truth, told, used>>

Sleep ==
    /\ pc = "sleep" /\ Goto("loop")
    /\ UNCHANGED <<s_state, s_panel, s_prev, s_mutex, s_reconnects, first, i,
                   cursor, frame, rbuf, queued, link, truth, told, used>>

Loop ==
    /\ pc = "loop" /\ Goto("flush")
    /\ s_state' = "POLLING"
    /\ UNCHANGED <<s_panel, s_prev, s_mutex, s_reconnects, first, i, cursor,
                   frame, rbuf, queued, link, truth, told, used>>

\* flush_cmd_queue sends one command, whatever becomes of it, and pops it
FlushOne ==
    /\ pc = "flush" /\ queued > 0
    /\ queued' = queued - 1
    /\ reqs' = IF up /\ AcksCommands THEN Append(reqs, Ack) ELSE reqs
    /\ UNCHANGED <<task, up, due, arrived, truth, told, used>>

FlushDone ==
    /\ pc = "flush" /\ queued = 0 /\ Goto("send")
    /\ i' = 1
    /\ UNCHANGED <<s_state, s_panel, s_prev, s_mutex, s_reconnects, first,
                   cursor, frame, rbuf, queued, link, truth, told, used>>

\* close the socket, publish ERROR, count, and wait before reconnecting
Lost ==
    /\ pc = "lost" /\ Goto("backoff")
    /\ s_state' = "ERROR" /\ CountReconnect
    /\ up' = FALSE /\ reqs' = <<>> /\ due' = <<>> /\ arrived' = <<>>
    /\ UNCHANGED <<s_panel, s_prev, s_mutex, first, i, cursor, frame, rbuf,
                   queued, truth, told, used>>

----------------------------------------------------------------------------
(* Other tasks.                                                            *)

\* enqueue_cmd: one slot stays empty; a full queue drops the command and the
\* caller is told ESP_OK
EnqueueCmd ==
    /\ cmds < MaxCmds /\ cmds' = cmds + 1
    /\ queued' = IF queued < QueueCap - 1 THEN queued + 1 ELSE queued
    /\ UNCHANGED <<task, link, truth, told, faults, splits, changes, stops,
                   cut>>

\* satel_client_stop deletes the task wherever it is: neither s_state nor
\* s_mutex is reset
ClientStop ==
    /\ pc # "stopped" /\ Goto("stopped")
    /\ stops < MaxStops /\ stops' = stops + 1
    /\ cut' = (cut \/ (pc = "notify" /\ cursor > 1))
    /\ up' = FALSE /\ reqs' = <<>> /\ due' = <<>> /\ arrived' = <<>>
    /\ UNCHANGED <<s_state, s_panel, s_prev, s_mutex, s_reconnects, first, i,
                   cursor, frame, rbuf, queued, truth, told, faults, splits,
                   changes, cmds>>

ClientStart ==
    /\ pc = "stopped" /\ Goto("top")
    /\ UNCHANGED <<s_state, s_panel, s_prev, s_mutex, s_reconnects, first, i,
                   cursor, frame, rbuf, queued, link, truth, told, used>>

----------------------------------------------------------------------------
(* The panel and the link.                                                 *)

PanelChange ==
    /\ changes < MaxChanges /\ changes' = changes + 1
    /\ \E r \in Registers, v \in SUBSET Lines :
          /\ v # truth[r].val
          /\ truth' = [truth EXCEPT ![r] = [val |-> v, at |-> @.at + 1]]
    /\ UNCHANGED <<task, queued, link, told, faults, splits, cmds, stops, cut>>

\* the reply to a request, read from the registers when it is made
Answer(cmd) ==
    IF cmd \in Registers
    THEN [cmd |-> cmd, val |-> truth[cmd].val, at |-> truth[cmd].at]
    ELSE NoReply
Half(h, reply) == <<[half |-> h, of |-> reply]>>

AnswerWhole ==
    /\ up /\ reqs # <<>> /\ due = <<>>
    /\ reqs' = Tail(reqs)
    /\ arrived' = arrived \o Half("head", Answer(Head(reqs)))
                          \o Half("tail", Answer(Head(reqs)))
    /\ UNCHANGED <<task, queued, up, due, truth, told, used>>

AnswerSplit ==
    /\ up /\ reqs # <<>> /\ due = <<>>
    /\ splits < MaxSplits /\ splits' = splits + 1
    /\ reqs' = Tail(reqs)
    /\ arrived' = arrived \o Half("head", Answer(Head(reqs)))
    /\ due' = Half("tail", Answer(Head(reqs)))
    /\ UNCHANGED <<task, queued, up, truth, told, faults, changes, cmds, stops,
                   cut>>

DeliverTail ==
    /\ due # <<>>
    /\ arrived' = arrived \o due
    /\ due' = <<>>
    /\ UNCHANGED <<task, queued, up, reqs, truth, told, used>>

\* The connection dies.  What had arrived is readable still (a FIN), or a
\* part of it, or nothing (a RST); what was under way is lost.
LinkBreak ==
    /\ up /\ up' = FALSE
    /\ faults < MaxFaults /\ faults' = faults + 1
    /\ reqs' = <<>> /\ due' = <<>>
    /\ \E n \in 0..Len(arrived) : arrived' = SubSeq(arrived, 1, n)
    /\ UNCHANGED <<task, queued, truth, told, splits, changes, cmds, stops,
                   cut>>

----------------------------------------------------------------------------
TaskStep ==
    \/ Begin \/ Connected \/ ConnectRefused \/ Backoff
    \/ SendPoll \/ RecvData \/ RecvNothing \/ RecvTimeout
    \/ TakeMutex \/ ApplyFrame \/ NextCmd
    \/ NotifyLine \/ NotifyDone
    \/ Sleep \/ Loop \/ FlushOne \/ FlushDone \/ Lost
Callers == EnqueueCmd \/ ClientStop \/ ClientStart
PanelReplies == AnswerWhole \/ AnswerSplit \/ DeliverTail

Next == TaskStep \/ Callers \/ PanelReplies \/ PanelChange \/ LinkBreak

Spec == Init /\ [][Next]_vars

\* The task is scheduled and its delays expire; a panel whose link is up
\* answers.  Nothing obliges the panel to change or the link to break.
FairSpec == Spec /\ WF_vars(TaskStep) /\ WF_vars(PanelReplies)

----------------------------------------------------------------------------
TypeOK ==
    /\ pc \in PCs /\ s_state \in States
    /\ s_panel \in [Registers -> [val : SUBSET Lines, at : Nat]]
    /\ s_prev \in [Registers -> [val : SUBSET Lines, at : Nat]]
    /\ s_mutex \in BOOLEAN /\ s_reconnects \in 0..MaxReconnects
    /\ first \in BOOLEAN /\ i \in 1..Len(PollCmds)
    /\ cursor \in 1..(Len(Watched) + 1)
    /\ frame \in Reply /\ rbuf \in Seq(Fragment) /\ Len(rbuf) <= BufMax
    /\ queued \in 0..(QueueCap - 1)
    /\ up \in BOOLEAN /\ reqs \in Seq(Registers \cup {Ack})
    /\ due \in Seq(Fragment) /\ Len(due) <= 1 /\ arrived \in Seq(Fragment)
    /\ truth \in [Registers -> [val : SUBSET Lines, at : Nat]]
    /\ told \in [1..Len(Watched) -> BOOLEAN]
    /\ faults \in 0..MaxFaults /\ splits \in 0..MaxSplits
    /\ changes \in 0..MaxChanges /\ cmds \in 0..MaxCmds
    /\ stops \in 0..MaxStops /\ cut \in BOOLEAN

\* Whatever interrupts a poll, the application has been told exactly what
\* s_prev says, save for the lines a notify_changes under way has passed,
\* for which it has been told what s_panel says: no failed poll, no
\* reconnection and no half-applied round makes a callback go missing, and
\* of all the places where satel_client_stop may delete the task only those
\* between two callbacks do (satel_client.cpp:106, :236).
ToldMatchesPrev ==
    ~cut =>
        \A k \in 1..Len(Watched) :
            told[k] = IF pc = "notify" /\ k < cursor
                      THEN Bit(s_panel, k) ELSE Bit(s_prev, k)

\* A callback never repeats the value it last gave for the line: zone
\* events alternate between violated and restored (satel_client.h:18).
CallsBack(k) ==
    pc = "notify" /\ cursor = k /\ cursor' = k + 1
      /\ Bit(s_panel, k) # Bit(s_prev, k)
EdgesAlternate ==
    [][\A k \in 1..Len(Watched) :
          ~cut /\ CallsBack(k) => told'[k] # told[k]]_vars

\* A register is never overwritten with an older reading, although replies
\* lag behind their requests and rbuf survives from one connection to the
\* next (satel_client.cpp:89).
MonotoneReads ==
    [][\A r \in Registers : s_panel[r].at <= s_panel'[r].at]_s_panel

\* A frame is whole in the stream or its head is orphaned: a tail follows its
\* own head at once, whatever was lost between two connections.
WellFramed ==
    LET stream == rbuf \o arrived \o due
    IN  \A k \in 1..Len(stream) :
            stream[k].half = "tail" =>
                k > 1 /\ stream[k - 1] = [stream[k] EXCEPT !.half = "head"]

\* What the client was told follows the panel: when the panel's registers
\* stop changing, every watched line is eventually told as it is and stays so.
EventuallyTold ==
    <>[](\A k \in 1..Len(Watched) : told[k] = Bit(truth, k))

\* "obsługuje reconnect" (README.md:14): the client always gets to the end
\* of another poll.
KeepsPolling == []<>(pc = "notify")
=============================================================================
