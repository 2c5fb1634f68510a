------------------------------ MODULE EventLog ------------------------------
(* The event ring of components/event_log/event_log.cpp.  satel_task,       *)
(* tuya_task, httpd, the MQTT task and the one-shot light tasks all call    *)
(* event_log_add with no lock, while httpd lists the ring as JSON.  A step  *)
(* is one access to the shared table or to one of its two indices; the test *)
(* and the increment of s_count use one load, as the build compiles them    *)
(* (-Og; an unoptimised build would load twice).  An entry is the pair of   *)
(* events its source and its message come from, 0 when blank; the text      *)
(* itself is only a length.                                                 *)
EXTENDS Integers, FiniteSets

CONSTANTS
  Writers,        \* the tasks that log
  EVENT_LOG_MAX,  \* slots of the table (64)
  MaxEvents,      \* bound: events logged in a behaviour
  JsonHead,       \* longest {"count":..,"events":[  (22)
  EntryMax,       \* longest text of one entry (194)
  JsonStop,       \* the listing stops past this position (7800)
  JsonTail,       \* length of the closing ]}  (2)
  JsonSize        \* bytes of the buffer (8192)

ASSUME TableAssumption == EVENT_LOG_MAX \in Nat \ {0} /\ MaxEvents \in Nat
ASSUME BufferAssumption ==
  /\ {JsonHead, EntryMax, JsonStop, JsonTail, JsonSize} \subseteq Nat
  /\ EntryMax > 0 /\ JsonHead <= JsonStop
  /\ JsonStop + 1 + EntryMax + JsonTail < JsonSize

VARIABLES
  s_log, s_head, s_count,
  wpc, slot, event, seen,   \* each writer's place, e, what it logs, its load
  total,                    \* ghost: events whose call has begun
  overlapped,               \* ghost: two calls have run at once
  rpc, ri, rpos, p          \* event_log_to_json: place, i, pos, p

writerVars == <<s_log, s_head, s_count, wpc, slot, event, seen, total, overlapped>>
readerVars == <<rpc, ri, rpos, p>>
vars == <<writerVars, readerVars>>

Slots == 0 .. EVENT_LOG_MAX - 1
Events == 0 .. MaxEvents
Entry == [source : Events, message : Events]
Blank == [source |-> 0, message |-> 0]
Whole(e) == [source |-> e, message |-> e]

TypeOK ==
  /\ s_log \in [Slots -> Entry]
  /\ s_head \in Slots /\ s_count \in 0 .. EVENT_LOG_MAX
  /\ wpc \in [Writers -> {"idle", "clear", "source", "message", "head", "store", "count", "bump"}]
  /\ slot \in [Writers -> Slots] /\ event \in [Writers -> Events]
  /\ seen \in [Writers -> 0 .. EVENT_LOG_MAX]
  /\ total \in Events /\ overlapped \in BOOLEAN
  /\ rpc \in {"idle", "test", "place", "copy", "tail", "done"}
  /\ ri \in Nat /\ rpos \in Slots /\ p \in Nat

(* event_log_init *)
Init ==
  /\ s_log = [i \in Slots |-> Blank] /\ s_head = 0 /\ s_count = 0
  /\ wpc = [w \in Writers |-> "idle"]
  /\ slot = [w \in Writers |-> 0] /\ event = [w \in Writers |-> 0]
  /\ seen = [w \in Writers |-> 0]
  /\ total = 0 /\ overlapped = FALSE
  /\ rpc = "idle" /\ ri = 0 /\ rpos = 0 /\ p = 0

-----------------------------------------------------------------------------
(* event_log_add *)

Go(w, from, to) == wpc[w] = from /\ wpc' = [wpc EXCEPT ![w] = to]

TakeSlot(w) ==
  /\ total < MaxEvents
  /\ Go(w, "idle", "clear")
  /\ slot' = [slot EXCEPT ![w] = s_head]
  /\ event' = [event EXCEPT ![w] = total + 1]
  /\ total' = total + 1
  /\ overlapped' = (overlapped \/ \E v \in Writers : wpc[v] # "idle")
  /\ UNCHANGED <<s_log, s_head, s_count, seen, readerVars>>

Clear(w) ==
  /\ Go(w, "clear", "source")
  /\ s_log' = [s_log EXCEPT ![slot[w]] = Blank]
  /\ UNCHANGED <<s_head, s_count, slot, event, seen, total, overlapped, readerVars>>

FillSource(w) ==
  /\ Go(w, "source", "message")
  /\ s_log' = [s_log EXCEPT ![slot[w]].source = event[w]]
  /\ UNCHANGED <<s_head, s_count, slot, event, seen, total, overlapped, readerVars>>

FillMessage(w) ==
  /\ Go(w, "message", "head")
  /\ s_log' = [s_log EXCEPT ![slot[w]].message = event[w]]
  /\ UNCHANGED <<s_head, s_count, slot, event, seen, total, overlapped, readerVars>>

LoadHead(w) ==
  /\ Go(w, "head", "store")
  /\ seen' = [seen EXCEPT ![w] = s_head]
  /\ UNCHANGED <<s_log, s_head, s_count, slot, event, total, overlapped, readerVars>>

StoreHead(w) ==
  /\ Go(w, "store", "count")
  /\ s_head' = (seen[w] + 1) % EVENT_LOG_MAX
  /\ UNCHANGED <<s_log, s_count, slot, event, seen, total, overlapped, readerVars>>

(* if (s_count < EVENT_LOG_MAX) s_count++: a store of a stale load may even *)
(* take the count down.  CountOn leaves out the test, CountShort stops at a *)
(* ring one entry short.                                                    *)
LoadCount(w) ==
  /\ Go(w, "count", "bump")
  /\ seen' = [seen EXCEPT ![w] = s_count]
  /\ UNCHANGED <<s_log, s_head, s_count, slot, event, total, overlapped, readerVars>>

CountOn(w) == seen[w] + 1
CountShort(w) == IF seen[w] < EVENT_LOG_MAX - 1 THEN seen[w] + 1 ELSE s_count
NewCount(w) == IF seen[w] < EVENT_LOG_MAX THEN seen[w] + 1 ELSE s_count

StoreCount(w) ==
  /\ Go(w, "bump", "idle")
  /\ s_count' = NewCount(w)
  /\ UNCHANGED <<s_log, s_head, slot, event, seen, total, overlapped, readerVars>>

Write(w) ==
  \/ TakeSlot(w) \/ Clear(w) \/ FillSource(w) \/ FillMessage(w)
  \/ LoadHead(w) \/ StoreHead(w) \/ LoadCount(w) \/ StoreCount(w)

-----------------------------------------------------------------------------
(* event_log_to_json: the position p grows by what each snprintf would have *)
(* written.  event_log_get finds the slot from one reading of the indices   *)
(* and copies it; when the count has shrunk since the loop's test it        *)
(* returns -1 and a blank entry is listed.                                  *)

Position(i) ==
  LET start == (s_head - s_count + EVENT_LOG_MAX) % EVENT_LOG_MAX
  IN  (start + i) % EVENT_LOG_MAX

StartListing ==
  /\ rpc \in {"idle", "done"}
  /\ rpc' = "test" /\ ri' = 0 /\ p' = JsonHead
  /\ UNCHANGED <<rpos, writerVars>>

TestCount ==
  /\ rpc = "test"
  /\ rpc' = IF ri < s_count THEN "place" ELSE "tail"
  /\ UNCHANGED <<ri, rpos, p, writerVars>>

PlaceEntry ==
  /\ rpc = "place"
  /\ rpc' = "copy"
  /\ rpos' = IF ri < s_count THEN Position(ri) ELSE rpos
  /\ UNCHANGED <<ri, p, writerVars>>

(* if (p > 7800) break;  NoBreak lists on.                                  *)
NoBreak(q) == "test"
AfterEntry(q) == IF q > JsonStop THEN "tail" ELSE "test"

AppendEntry ==
  /\ rpc = "copy"
  /\ \E len \in 1 .. EntryMax :
       LET q == p + (IF ri > 0 THEN 1 ELSE 0) + len
       IN  /\ p' = q
           /\ rpc' = AfterEntry(q)
  /\ ri' = ri + 1
  /\ UNCHANGED <<rpos, writerVars>>

CloseListing ==
  /\ rpc = "tail"
  /\ rpc' = "done" /\ p' = p + JsonTail
  /\ UNCHANGED <<ri, rpos, writerVars>>

List == StartListing \/ TestCount \/ PlaceEntry \/ AppendEntry \/ CloseListing

Next == (\E w \in Writers : Write(w)) \/ List

Spec == Init /\ [][Next]_vars

-----------------------------------------------------------------------------
(* What has been logged.                                                    *)

Publishing == \E w \in Writers : wpc[w] \in {"count", "bump"}
Unfinished == {w \in Writers : wpc[w] # "idle"}
Finished == IF Unfinished = {} THEN total ELSE total - 1

(* As long as no two tasks have logged at once, the ring holds the last     *)
(* EVENT_LOG_MAX events, whole, oldest first, with none missing and none    *)
(* twice: event_log_get's index arithmetic fits event_log_add's at every    *)
(* fill level.  The one slot being written is excepted (in a full ring it   *)
(* is the oldest entry, blank meanwhile), and the moment between the store  *)
(* of s_head and that of s_count (event_log.cpp 19-40).                     *)
RingIsLastAlone ==
  ~overlapped /\ ~Publishing =>
    /\ s_count = (IF Finished < EVENT_LOG_MAX THEN Finished ELSE EVENT_LOG_MAX)
    /\ \A i \in 0 .. s_count - 1 :
         \/ s_log[Position(i)] = Whole(Finished - s_count + i + 1)
         \/ \E w \in Unfinished : slot[w] = Position(i)

(* However the writers interleave with the listing, its position never      *)
(* reaches the end of the 8192-byte buffer: the unsigned difference 8192-p  *)
(* never wraps and the text is never cut (event_log.cpp 43-57).             *)
JsonFits == p < JsonSize
=============================================================================
