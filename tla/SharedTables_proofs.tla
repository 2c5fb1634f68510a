------------------------ MODULE SharedTables_proofs -------------------------
(* What is proved of the event ring for every number of tasks, of slots and *)
(* of events: its indices stay inside the table however the tasks           *)
(* interleave, the listing stays inside its buffer, and a ring one task at  *)
(* a time writes holds the last events in order.  The limiter, the other    *)
(* table without a lock, follows below.                                     *)
EXTENDS EventLog, RateLimit, SequenceTheorems, FiniteSetTheorems,
        WellFoundedInduction, TLAPS

(* A set of natural numbers has a least element.                            *)
LEMMA LeastElement ==
  ASSUME NEW T \in SUBSET Nat, T # {}
  PROVE  \E m \in T : \A n \in T : m <= n
<1> DEFINE R == OpToRel(<, Nat)
<1>1. IsWellFoundedOn(R, Nat)
  BY NatLessThanWellFounded
<1>2. \A x, y \in Nat : x < y => <<x, y>> \in R
  BY DEF OpToRel
<1> HIDE DEF R
<1>3. PICK m \in T : \A n \in T : ~(<<n, m>> \in R)
  BY <1>1, WFMin
<1>4. \A n \in T : m \in Nat /\ n \in Nat /\ ~(n < m)
  BY <1>2, <1>3
<1>5. \A n \in T : m <= n
  BY <1>4
<1> QED  BY <1>3, <1>5

LEMMA ModRange ==
  ASSUME NEW x \in Int PROVE x % EVENT_LOG_MAX \in Slots
BY TableAssumption DEF Slots

(* An index that leaves the table by less than its length wraps once.       *)
LEMMA ModOnce ==
  ASSUME NEW x \in 0 .. (2 * EVENT_LOG_MAX - 1)
  PROVE  x % EVENT_LOG_MAX = IF x < EVENT_LOG_MAX THEN x ELSE x - EVENT_LOG_MAX
<1>1. CASE x < EVENT_LOG_MAX
  BY <1>1, TableAssumption
<1>2. CASE x >= EVENT_LOG_MAX
  BY <1>2, TableAssumption
<1> QED  BY <1>1, <1>2, TableAssumption

(* Type correctness: whatever the tasks interleave, s_head and every slot   *)
(* taken from it lie in the table, and s_count never exceeds its length.    *)
THEOREM TypeCorrect == Spec => []TypeOK
<1>1. Init => TypeOK
  <2> SUFFICES ASSUME Init PROVE TypeOK
    OBVIOUS
  <2>1. 0 \in Slots /\ 0 \in 0 .. EVENT_LOG_MAX /\ 0 \in Events
    BY TableAssumption DEF Slots, Events
  <2>2. Blank \in Entry
    BY <2>1 DEF Blank, Entry
  <2>3. JsonHead \in Nat
    BY BufferAssumption
  <2> QED  BY <2>1, <2>2, <2>3 DEF Init, TypeOK
<1>2. TypeOK /\ [Next]_vars => TypeOK'
  <2> SUFFICES ASSUME TypeOK, [Next]_vars PROVE TypeOK'
    OBVIOUS
  <2> USE TableAssumption, BufferAssumption DEF TypeOK
  <2>1. ASSUME NEW w \in Writers, Write(w) PROVE TypeOK'
    <3>1. CASE TakeSlot(w)
      <4>1. total + 1 \in Events
        BY <3>1 DEF TakeSlot, Events
      <4> QED  BY <3>1, <4>1 DEF TakeSlot, Go, readerVars
    <3>2. CASE Clear(w)
      <4>1. Blank \in Entry
        BY DEF Blank, Entry, Events
      <4> QED  BY <3>2, <4>1 DEF Clear, Go, readerVars
    <3>3. CASE FillSource(w)
      <4>1. [s_log[slot[w]] EXCEPT !.source = event[w]] \in Entry
        BY DEF Entry
      <4> QED  BY <3>3, <4>1 DEF FillSource, Go, readerVars
    <3>4. CASE FillMessage(w)
      <4>1. [s_log[slot[w]] EXCEPT !.message = event[w]] \in Entry
        BY DEF Entry
      <4> QED  BY <3>4, <4>1 DEF FillMessage, Go, readerVars
    <3>5. CASE LoadHead(w)
      <4>1. s_head \in 0 .. EVENT_LOG_MAX
        BY DEF Slots
      <4> QED  BY <3>5, <4>1 DEF LoadHead, Go, readerVars
    <3>6. CASE StoreHead(w)
      <4>1. (seen[w] + 1) % EVENT_LOG_MAX \in Slots
        BY ModRange
      <4> QED  BY <3>6, <4>1 DEF StoreHead, Go, readerVars
    <3>7. CASE LoadCount(w)
      BY <3>7 DEF LoadCount, Go, readerVars
    <3>8. CASE StoreCount(w)
      <4>1. NewCount(w) \in 0 .. EVENT_LOG_MAX
        BY DEF NewCount
      <4> QED  BY <3>8, <4>1 DEF StoreCount, Go, readerVars
    <3> QED
      BY <2>1, <3>1, <3>2, <3>3, <3>4, <3>5, <3>6, <3>7, <3>8 DEF Write
  <2>2. ASSUME List PROVE TypeOK'
    <3>1. CASE StartListing
      BY <3>1 DEF StartListing, writerVars
    <3>2. CASE TestCount
      BY <3>2 DEF TestCount, writerVars
    <3>3. CASE PlaceEntry
      <4>1. Position(ri) \in Slots
        <5> DEFINE start == (s_head - s_count + EVENT_LOG_MAX) % EVENT_LOG_MAX
        <5>1. s_head - s_count + EVENT_LOG_MAX \in Int
          BY DEF Slots
        <5>2. start \in Slots
          BY <5>1, ModRange
        <5>3. start + ri \in Int
          BY <5>2 DEF Slots
        <5> QED  BY <5>3, ModRange DEF Position
      <4> QED  BY <3>3, <4>1 DEF PlaceEntry, writerVars
    <3>4. CASE AppendEntry
      BY <3>4 DEF AppendEntry, AfterEntry, writerVars
    <3>5. CASE CloseListing
      BY <3>5 DEF CloseListing, writerVars
    <3> QED  BY <2>2, <3>1, <3>2, <3>3, <3>4, <3>5 DEF List
  <2>3. CASE UNCHANGED vars
    BY <2>3 DEF vars, writerVars, readerVars
  <2> QED  BY <2>1, <2>2, <2>3 DEF Next
<1> QED  BY <1>1, <1>2, PTL DEF Spec

-----------------------------------------------------------------------------
(* At the head of the loop the listing has not passed JsonStop; one entry   *)
(* and the closing bracket are all that can come after.                     *)
Room ==
  /\ rpc \in {"test", "place", "copy"} => p <= JsonStop
  /\ rpc = "tail" => p <= JsonStop + 1 + EntryMax
  /\ p <= JsonStop + 1 + EntryMax + JsonTail

(* The listing never reaches the end of its buffer, whatever the writers do *)
(* to the count meanwhile and however long the entries are.                 *)
THEOREM ListingFits == Spec => []JsonFits
<1>1. Init => Room
  BY BufferAssumption DEF Init, Room
<1>2. TypeOK /\ Room /\ [Next]_vars => Room'
  <2> SUFFICES ASSUME TypeOK, Room, [Next]_vars PROVE Room'
    OBVIOUS
  <2> USE BufferAssumption DEF Room, TypeOK
  <2>1. ASSUME NEW w \in Writers, Write(w) PROVE Room'
    <3>1. UNCHANGED readerVars
      BY <2>1 DEF Write, TakeSlot, Clear, FillSource, FillMessage, LoadHead,
                  StoreHead, LoadCount, StoreCount
    <3> QED  BY <3>1 DEF readerVars
  <2>2. CASE StartListing
    BY <2>2 DEF StartListing
  <2>3. CASE TestCount
    BY <2>3 DEF TestCount
  <2>4. CASE PlaceEntry
    BY <2>4 DEF PlaceEntry
  <2>5. CASE AppendEntry
    BY <2>5 DEF AppendEntry, AfterEntry
  <2>6. CASE CloseListing
    BY <2>6 DEF CloseListing
  <2>7. CASE UNCHANGED vars
    BY <2>7 DEF vars, readerVars
  <2> QED  BY <2>1, <2>2, <2>3, <2>4, <2>5, <2>6, <2>7 DEF Next, List
<1>3. TypeOK /\ Room => JsonFits
  BY BufferAssumption DEF Room, JsonFits, TypeOK
<1> QED  BY <1>1, <1>2, <1>3, TypeCorrect, PTL DEF Spec
-----------------------------------------------------------------------------
(* The ring of f events whose next slot is h, up to what is in slot x:      *)
(* slot j keeps event j + 1 until the table is full, then the slots from h  *)
(* on keep the older events.                                                *)
Kept(f, h, j) == IF f < EVENT_LOG_MAX THEN j + 1
                 ELSE IF j < h THEN f - h + j + 1
                 ELSE f - h - EVENT_LOG_MAX + j + 1

Ring(f, h, x) ==
  /\ f < EVENT_LOG_MAX => s_count = f /\ h = f
  /\ f >= EVENT_LOG_MAX => s_count = EVENT_LOG_MAX
  /\ \A j \in Slots \ {x} :
       j < h \/ f >= EVENT_LOG_MAX => s_log[j] = Whole(Kept(f, h, j))

NextSlot(x) == IF x = EVENT_LOG_MAX - 1 THEN 0 ELSE x + 1

(* A task in event_log_add: the ring is still the one it found, but for its *)
(* slot, which fills up step by step.                                       *)
Writing(w) ==
  /\ event[w] = total /\ total >= 1
  /\ Ring(total - 1, slot[w], slot[w])
  /\ wpc[w] \in {"count", "bump"} => s_head = NextSlot(slot[w])
  /\ wpc[w] \notin {"count", "bump"} => s_head = slot[w]
  /\ wpc[w] = "store" => seen[w] = s_head
  /\ wpc[w] = "bump" => seen[w] = s_count
  /\ wpc[w] = "message" => s_log[slot[w]].source = total
  /\ wpc[w] \in {"head", "store", "count", "bump"} => s_log[slot[w]] = Whole(total)

Lone ==
  ~overlapped =>
    /\ \A v, w \in Writers : wpc[v] # "idle" /\ wpc[w] # "idle" => v = w
    /\ \A w \in Writers : wpc[w] # "idle" => Writing(w)
    /\ (\A w \in Writers : wpc[w] = "idle") => Ring(total, s_head, -1)

(* Filing event f + 1 in slot h makes the ring of f + 1 events.             *)
LEMMA Filed ==
  ASSUME TypeOK, NEW f \in Nat, NEW h \in Slots, Ring(f, h, h),
         s_log[h] = Whole(f + 1), NEW n,
         n = IF s_count < EVENT_LOG_MAX THEN s_count + 1 ELSE s_count
  PROVE  /\ f + 1 < EVENT_LOG_MAX => n = f + 1 /\ NextSlot(h) = f + 1
         /\ f + 1 >= EVENT_LOG_MAX => n = EVENT_LOG_MAX
         /\ \A j \in Slots :
              j < NextSlot(h) \/ f + 1 >= EVENT_LOG_MAX =>
                s_log[j] = Whole(Kept(f + 1, NextSlot(h), j))
<1> USE TableAssumption
<1>1. h \in Int /\ 0 <= h /\ h < EVENT_LOG_MAX
  BY DEF Slots
<1>2. /\ f + 1 < EVENT_LOG_MAX => n = f + 1 /\ NextSlot(h) = f + 1
      /\ f + 1 >= EVENT_LOG_MAX => n = EVENT_LOG_MAX
  BY <1>1 DEF Ring, NextSlot
<1>3. ASSUME NEW j \in Slots, j < NextSlot(h) \/ f + 1 >= EVENT_LOG_MAX
      PROVE  s_log[j] = Whole(Kept(f + 1, NextSlot(h), j))
  <2>1. j \in Int /\ 0 <= j /\ j < EVENT_LOG_MAX
    BY DEF Slots
  <2>2. CASE j = h
    <3>1. Kept(f + 1, NextSlot(h), j) = f + 1
      BY <1>1, <2>1, <2>2 DEF Kept, NextSlot, Ring
    <3> QED  BY <2>2, <3>1
  <2>3. CASE j # h
    <3>1. j < h \/ f >= EVENT_LOG_MAX
      BY <1>1, <1>3, <2>1, <2>3 DEF NextSlot, Ring
    <3>2. s_log[j] = Whole(Kept(f, h, j))
      BY <2>3, <3>1 DEF Ring
    <3>3. Kept(f + 1, NextSlot(h), j) = Kept(f, h, j)
      BY <1>1, <2>1, <2>3, <3>1 DEF Kept, NextSlot, Ring
    <3> QED  BY <3>2, <3>3
  <2> QED  BY <2>2, <2>3
<1> QED  BY <1>2, <1>3

(* A step that moves one writer on keeps the ring it found.                 *)
LEMMA LoneStep == TypeOK /\ TypeOK' /\ Lone /\ [Next]_vars => Lone'
<1> SUFFICES ASSUME TypeOK, TypeOK', Lone, [Next]_vars, ~overlapped' PROVE Lone'
  BY DEF Lone
<1> USE TableAssumption
<1>1. ~overlapped
  BY DEF Next, Write, List, TakeSlot, Clear, FillSource, FillMessage, LoadHead,
         StoreHead, LoadCount, StoreCount, StartListing, TestCount, PlaceEntry,
         AppendEntry, CloseListing, vars, writerVars, readerVars, TypeOK
<1>2. /\ \A v, w \in Writers : wpc[v] # "idle" /\ wpc[w] # "idle" => v = w
      /\ \A w \in Writers : wpc[w] # "idle" => Writing(w)
      /\ (\A w \in Writers : wpc[w] = "idle") => Ring(total, s_head, -1)
  BY <1>1 DEF Lone
<1>3. CASE UNCHANGED writerVars
  BY <1>2, <1>3 DEF Lone, Writing, Ring, Kept, writerVars
<1>4. ASSUME NEW w \in Writers, TakeSlot(w) PROVE Lone'
  <2>1. \A v \in Writers : wpc[v] = "idle"
    BY <1>4 DEF TakeSlot, TypeOK
  <2>2. Ring(total, s_head, -1)
    BY <1>2, <2>1
  <2>3. /\ wpc' = [wpc EXCEPT ![w] = "clear"] /\ slot'[w] = s_head
        /\ event'[w] = total + 1 /\ total' = total + 1
        /\ UNCHANGED <<s_log, s_head, s_count>>
    BY <1>4 DEF TakeSlot, Go, TypeOK
  <2>4. wpc'[w] = "clear" /\ \A v \in Writers \ {w} : wpc'[v] = "idle"
    BY <2>1, <2>3 DEF TypeOK
  <2>5. total \in Nat /\ total' - 1 = total
    BY <2>3 DEF TypeOK, Events
  <2>6. Ring(total - 1, slot[w], slot[w])'
    <3>1. Ring(total, s_head, s_head)
      BY <2>2 DEF Ring, Slots
    <3> QED  BY <2>3, <2>5, <3>1 DEF Ring, Kept
  <2>7. Writing(w)'
    BY <2>3, <2>4, <2>5, <2>6 DEF Writing
  <2> QED  BY <2>4, <2>7 DEF Lone
(* One writer is alone in event_log_add, and stays in it.                   *)
<1>5. ASSUME NEW w \in Writers, wpc[w] # "idle", wpc'[w] # "idle",
             \A v \in Writers \ {w} : wpc'[v] = wpc[v],
             Writing(w) => Writing(w)'
      PROVE  Lone'
  <2>1. \A v \in Writers \ {w} : wpc'[v] = "idle"
    BY <1>2, <1>5
  <2>2. Writing(w)'
    BY <1>2, <1>5
  <2> QED  BY <1>5, <2>1, <2>2 DEF Lone
<1>6. ASSUME NEW w \in Writers, Clear(w) PROVE Lone'
  <2>1. wpc[w] = "clear" /\ wpc' = [wpc EXCEPT ![w] = "source"]
        /\ s_log' = [s_log EXCEPT ![slot[w]] = Blank]
        /\ UNCHANGED <<s_head, s_count, slot, event, seen, total>>
    BY <1>6 DEF Clear, Go
  <2>2. Writing(w) => Writing(w)'
    BY <2>1 DEF Writing, Ring, Kept, TypeOK
  <2> QED  BY <1>5, <2>1, <2>2 DEF TypeOK
<1>7. ASSUME NEW w \in Writers, FillSource(w) PROVE Lone'
  <2>1. wpc[w] = "source" /\ wpc' = [wpc EXCEPT ![w] = "message"]
        /\ s_log' = [s_log EXCEPT ![slot[w]].source = event[w]]
        /\ UNCHANGED <<s_head, s_count, slot, event, seen, total>>
    BY <1>7 DEF FillSource, Go
  <2>2. s_log'[slot[w]].source = event[w]
    BY <2>1 DEF TypeOK, Entry
  <2>3. Writing(w) => Writing(w)'
    BY <2>1, <2>2 DEF Writing, Ring, Kept, TypeOK
  <2> QED  BY <1>5, <2>1, <2>3 DEF TypeOK
<1>8. ASSUME NEW w \in Writers, FillMessage(w) PROVE Lone'
  <2>1. wpc[w] = "message" /\ wpc' = [wpc EXCEPT ![w] = "head"]
        /\ s_log' = [s_log EXCEPT ![slot[w]].message = event[w]]
        /\ UNCHANGED <<s_head, s_count, slot, event, seen, total>>
    BY <1>8 DEF FillMessage, Go
  <2>2. Writing(w) => s_log'[slot[w]] = Whole(total)
    BY <2>1 DEF Writing, TypeOK, Entry, Whole
  <2>3. Writing(w) => Writing(w)'
    BY <2>1, <2>2 DEF Writing, Ring, Kept, TypeOK
  <2> QED  BY <1>5, <2>1, <2>3 DEF TypeOK
<1>9. ASSUME NEW w \in Writers, LoadHead(w) PROVE Lone'
  <2>1. wpc[w] = "head" /\ wpc' = [wpc EXCEPT ![w] = "store"]
        /\ seen' = [seen EXCEPT ![w] = s_head]
        /\ UNCHANGED <<s_log, s_head, s_count, slot, event, total>>
    BY <1>9 DEF LoadHead, Go
  <2>2. Writing(w) => Writing(w)'
    BY <2>1 DEF Writing, Ring, Kept, TypeOK
  <2> QED  BY <1>5, <2>1, <2>2 DEF TypeOK
<1>10. ASSUME NEW w \in Writers, StoreHead(w) PROVE Lone'
  <2>1. wpc[w] = "store" /\ wpc' = [wpc EXCEPT ![w] = "count"]
        /\ s_head' = (seen[w] + 1) % EVENT_LOG_MAX
        /\ UNCHANGED <<s_log, s_count, slot, event, seen, total>>
    BY <1>10 DEF StoreHead, Go
  <2>2. Writing(w) => s_head' = NextSlot(slot[w])
    <3>1. SUFFICES ASSUME Writing(w) PROVE s_head' = NextSlot(slot[w])
      OBVIOUS
    <3>2. seen[w] = slot[w] /\ slot[w] \in Slots
      BY <2>1, <3>1 DEF Writing, TypeOK
    <3>3. slot[w] + 1 \in 0 .. (2 * EVENT_LOG_MAX - 1)
      BY <3>2 DEF Slots
    <3> QED  BY <2>1, <3>2, <3>3, ModOnce DEF NextSlot, Slots
  <2>3. Writing(w) => Writing(w)'
    BY <2>1, <2>2 DEF Writing, Ring, Kept, TypeOK, NextSlot
  <2> QED  BY <1>5, <2>1, <2>3 DEF TypeOK
<1>11. ASSUME NEW w \in Writers, LoadCount(w) PROVE Lone'
  <2>1. wpc[w] = "count" /\ wpc' = [wpc EXCEPT ![w] = "bump"]
        /\ seen' = [seen EXCEPT ![w] = s_count]
        /\ UNCHANGED <<s_log, s_head, s_count, slot, event, total>>
    BY <1>11 DEF LoadCount, Go
  <2>2. Writing(w) => Writing(w)'
    BY <2>1 DEF Writing, Ring, Kept, TypeOK, NextSlot
  <2> QED  BY <1>5, <2>1, <2>2 DEF TypeOK
<1>12. ASSUME NEW w \in Writers, StoreCount(w) PROVE Lone'
  <2>1. wpc[w] = "bump" /\ wpc' = [wpc EXCEPT ![w] = "idle"]
        /\ s_count' = NewCount(w)
        /\ UNCHANGED <<s_log, s_head, slot, event, seen, total>>
    BY <1>12 DEF StoreCount, Go
  <2>2. Writing(w)
    BY <1>2, <2>1
  <2>3. \A v \in Writers : wpc'[v] = "idle"
    BY <1>2, <2>1 DEF TypeOK
  <2> DEFINE f == total - 1
             h == slot[w]
  <2>4. f \in Nat /\ h \in Slots /\ total = f + 1
    BY <2>2 DEF Writing, TypeOK, Events
  <2>5. Ring(f, h, h) /\ s_log[h] = Whole(f + 1) /\ s_head = NextSlot(h)
    BY <2>1, <2>2, <2>4 DEF Writing
  <2>6. s_count' = IF s_count < EVENT_LOG_MAX THEN s_count + 1 ELSE s_count
    BY <2>1, <2>2 DEF Writing, NewCount
  <2> HIDE DEF f, h
  <2>7. /\ f + 1 < EVENT_LOG_MAX => s_count' = f + 1 /\ NextSlot(h) = f + 1
        /\ f + 1 >= EVENT_LOG_MAX => s_count' = EVENT_LOG_MAX
        /\ \A j \in Slots :
             j < NextSlot(h) \/ f + 1 >= EVENT_LOG_MAX =>
               s_log[j] = Whole(Kept(f + 1, NextSlot(h), j))
    BY <2>4, <2>5, <2>6, Filed
  <2>8. Ring(total, s_head, -1)'
    BY <2>1, <2>4, <2>5, <2>7 DEF Ring, Kept
  <2> QED  BY <2>3, <2>8 DEF Lone
<1>13. List => UNCHANGED writerVars
  BY DEF List, StartListing, TestCount, PlaceEntry, AppendEntry, CloseListing
<1>14. UNCHANGED vars => UNCHANGED writerVars
  BY DEF vars
<1> QED
  BY <1>3, <1>4, <1>6, <1>7, <1>8, <1>9, <1>10, <1>11, <1>12, <1>13, <1>14
     DEF Next, Write

(* event_log_get's place j of a ring is the event logged that long ago.     *)
LEMMA Reads ==
  ASSUME TypeOK, NEW f \in Nat, NEW x, Ring(f, s_head, x),
         NEW j \in 0 .. (s_count - 1), Position(j) # x
  PROVE  s_log[Position(j)] = Whole(f - s_count + j + 1)
<1> USE TableAssumption
<1>1. /\ s_head \in Int /\ 0 <= s_head /\ s_head < EVENT_LOG_MAX
      /\ s_count \in Int /\ 0 <= s_count /\ s_count <= EVENT_LOG_MAX
      /\ j \in Int /\ 0 <= j /\ j < s_count
  BY DEF TypeOK, Slots
<1>2. Position(j) = IF f < EVENT_LOG_MAX THEN j
                    ELSE IF s_head + j < EVENT_LOG_MAX THEN s_head + j
                    ELSE s_head + j - EVENT_LOG_MAX
  <2> DEFINE a == s_head - s_count + EVENT_LOG_MAX
  <2>1. a \in 0 .. (2 * EVENT_LOG_MAX - 1)
    BY <1>1 DEF Ring
  <2>2. PICK start \in Slots : start = a % EVENT_LOG_MAX
    BY <2>1, ModRange
  <2>3. start = IF f < EVENT_LOG_MAX THEN 0 ELSE s_head
    <3>1. start = IF a < EVENT_LOG_MAX THEN a ELSE a - EVENT_LOG_MAX
      BY <2>1, <2>2, ModOnce
    <3> QED  BY <1>1, <3>1 DEF Ring
  <2>4. start + j \in 0 .. (2 * EVENT_LOG_MAX - 1)
    BY <1>1, <2>3
  <2>5. Position(j) = IF start + j < EVENT_LOG_MAX THEN start + j
                      ELSE start + j - EVENT_LOG_MAX
    <3>1. PICK b \in 0 .. (2 * EVENT_LOG_MAX - 1) : b = start + j
      BY <2>4
    <3>2. Position(j) = b % EVENT_LOG_MAX
      BY <2>2, <3>1 DEF Position
    <3>3. Position(j) = IF b < EVENT_LOG_MAX THEN b ELSE b - EVENT_LOG_MAX
      BY <3>2, ModOnce
    <3> QED  BY <1>1, <3>1, <3>3 DEF Slots
  <2> QED  BY <1>1, <2>3, <2>5 DEF Ring
<1>3. Position(j) \in Slots \ {x}
  BY <1>1, <1>2 DEF Ring, Slots
<1>4. Position(j) < s_head \/ f >= EVENT_LOG_MAX
  BY <1>1, <1>2 DEF Ring
<1>5. s_log[Position(j)] = Whole(Kept(f, s_head, Position(j)))
  BY <1>3, <1>4 DEF Ring
<1>6. Kept(f, s_head, Position(j)) = f - s_count + j + 1
  BY <1>1, <1>2 DEF Kept, Ring
<1> QED  BY <1>5, <1>6

(* A ring that only one task at a time writes holds the last EVENT_LOG_MAX  *)
(* events, whole and in order, at every moment but the one between the      *)
(* stores of its two indices.                                               *)
THEOREM RingKept == Spec => []RingIsLastAlone
<1>1. Init => Lone
  BY TableAssumption DEF Init, Lone, Writing, Ring, Kept, Slots
<1>2. TypeOK /\ Lone => RingIsLastAlone
  <2> SUFFICES ASSUME TypeOK, Lone, ~overlapped, ~Publishing
               PROVE  /\ s_count = (IF Finished < EVENT_LOG_MAX THEN Finished
                                    ELSE EVENT_LOG_MAX)
                      /\ \A j \in 0 .. s_count - 1 :
                           \/ s_log[Position(j)] = Whole(Finished - s_count + j + 1)
                           \/ \E w \in Unfinished : slot[w] = Position(j)
    BY DEF RingIsLastAlone
  <2> USE TableAssumption
  <2>1. total \in Nat
    BY DEF TypeOK, Events
  <2>2. CASE Unfinished = {}
    <3>1. \A w \in Writers : wpc[w] = "idle"
      BY <2>2 DEF Unfinished
    <3>2. Finished = total /\ Ring(total, s_head, -1)
      BY <2>2, <3>1 DEF Finished, Lone
    <3>3. \A j \in 0 .. s_count - 1 : Position(j) # -1
      <4>1. \A j \in 0 .. s_count - 1 :
              ((s_head - s_count + EVENT_LOG_MAX) % EVENT_LOG_MAX) + j \in Int
        BY ModRange DEF TypeOK, Slots
      <4> QED  BY <4>1, ModRange DEF Position, Slots
    <3>4. s_count = (IF total < EVENT_LOG_MAX THEN total ELSE EVENT_LOG_MAX)
      BY <2>1, <3>2 DEF Ring
    <3> QED  BY <2>1, <3>2, <3>3, <3>4, Reads
  <2>3. ASSUME NEW w \in Unfinished PROVE
          /\ Finished = total - 1 /\ total - 1 \in Nat
          /\ slot[w] = s_head /\ Ring(total - 1, s_head, s_head)
    <3>1. w \in Writers /\ wpc[w] # "idle" /\ Unfinished # {}
      BY <2>3 DEF Unfinished
    <3>2. Writing(w) /\ wpc[w] \notin {"count", "bump"}
      BY <3>1 DEF Lone, Publishing
    <3> QED  BY <2>1, <3>1, <3>2 DEF Writing, Finished
  <2>4. ASSUME NEW w \in Unfinished PROVE
          /\ s_count = (IF Finished < EVENT_LOG_MAX THEN Finished ELSE EVENT_LOG_MAX)
          /\ \A j \in 0 .. s_count - 1 :
               \/ s_log[Position(j)] = Whole(Finished - s_count + j + 1)
               \/ slot[w] = Position(j)
    <3>1. s_count = (IF Finished < EVENT_LOG_MAX THEN Finished ELSE EVENT_LOG_MAX)
      BY <2>3, <2>4 DEF Ring
    <3> QED  BY <2>3, <2>4, <3>1, Reads
  <2> QED  BY <2>2, <2>4
<1> QED  BY <1>1, <1>2, LoneStep, TypeCorrect, PTL DEF Spec

-----------------------------------------------------------------------------
(* What is proved of the limiter for every set of tasks and keys, every     *)
(* table, limit and window: a key has one entry, it sees fewer than twice   *)
(* its limit in any window, and is denied only for a cause, all of it while *)
(* the tasks do not meet in the function.                                   *)
(* One task at a time is in the function.                                   *)
Alone == \A c, d \in Callers : pc[c] = "scan" /\ pc[d] = "scan" => c = d

(* What a scan knows of the entries it has passed, and of the time it took. *)
Scanned ==
  \A c \in Callers : pc[c] = "scan" =>
    /\ key[c] \in Keys /\ now[c] <= clock
    /\ \A s \in Table : s < i[c] =>
         /\ s_rl[s].key # key[c]
         /\ free[c] < 0 => s_rl[s].key # NoKey
    /\ free[c] >= 0 => s_rl[free[c]].key = NoKey
    /\ \A k \in Keys : \A n \in 1..Len(granted[k]) : granted[k][n] <= now[c]

(* The calls allowed to a key: in order of time, and of any 2 * Limit in a   *)
(* row the last comes a window after the first.                             *)
Ordered(g) ==
  \A m, n \in 1..Len(g) :
    /\ m <= n => g[m] <= g[n]
    /\ n - m >= 2 * Limit - 1 => g[m] + Window <= g[n]

(* An entry has counted the last calls allowed to its key, those from its   *)
(* start on, and those Limit before them and earlier are a window older.    *)
First(e, g) == Len(g) - e.count + 1
Counts(e, g) ==
  /\ e.count \in 1..Len(g)
  /\ g[First(e, g)] = e.start
  /\ \A n \in 1..Len(g) :
       /\ n >= First(e, g) => g[n] < e.start + Window
       /\ First(e, g) - n >= Limit => g[n] + Window <= e.start

Recorded ==
  /\ \A k \in Keys :
       Ordered(granted[k]) /\ \A n \in 1..Len(granted[k]) : granted[k][n] <= clock
  /\ \A s \in Table : s_rl[s].key # NoKey => Counts(s_rl[s], granted[s_rl[s].key])
  /\ \A k \in Keys : (\A s \in Table : s_rl[s].key # k) => granted[k] = <<>>

OneEntry ==
  \A s, u \in Table : s_rl[s].key = s_rl[u].key /\ s_rl[s].key # NoKey => s = u

LimiterInv == ~met => Alone /\ Scanned /\ Recorded /\ OneEntry

(* Times that are allowed calls, and one more.                              *)
LEMMA AllowedOnce ==
  ASSUME NEW T, NEW g \in Seq(T), NEW x \in T
  PROVE  /\ Append(g, x) \in Seq(T)
         /\ Len(g) \in Nat /\ Len(Append(g, x)) = Len(g) + 1
         /\ \A n \in 1..Len(g) : g[n] \in T /\ Append(g, x)[n] = g[n]
         /\ Append(g, x)[Len(g) + 1] = x
BY AppendProperties, LenProperties, ElementOfSeq

(* A call that comes after all others, a window after those 2 * Limit - 1   *)
(* places before it, keeps the order.                                       *)
LEMMA OrderedAppend ==
  ASSUME Limit \in Nat \ {0}, Window \in Nat \ {0},
         NEW g \in Seq(Nat), NEW x \in Nat, Ordered(g),
         \A n \in 1..Len(g) :
           g[n] <= x /\ (Len(g) + 1 - n >= 2 * Limit - 1 => g[n] + Window <= x)
  PROVE  Ordered(Append(g, x))
<1> DEFINE h == Append(g, x)
<1>1. /\ Len(g) \in Nat /\ Len(h) = Len(g) + 1
      /\ \A n \in 1..Len(g) : g[n] \in Nat /\ h[n] = g[n]
      /\ h[Len(g) + 1] = x
  BY AllowedOnce
<1> HIDE DEF h
<1>2. ASSUME NEW m \in 1..Len(h), NEW n \in 1..Len(h)
      PROVE  /\ m <= n => h[m] <= h[n]
             /\ n - m >= 2 * Limit - 1 => h[m] + Window <= h[n]
  <2>1. CASE m \in 1..Len(g) /\ n \in 1..Len(g)
    BY <1>1, <2>1 DEF Ordered
  <2>2. CASE m \in 1..Len(g) /\ n = Len(g) + 1
    BY <1>1, <2>2
  <2>3. CASE m = Len(g) + 1
    BY <1>1, <2>3
  <2> QED  BY <1>1, <2>1, <2>2, <2>3
<1> QED  BY <1>2 DEF Ordered, h

(* A call counted in an open window: the entry keeps its first call.        *)
LEMMA CountMore ==
  ASSUME Limit \in Nat \ {0}, Window \in Nat \ {0},
         NEW g \in Seq(Nat), NEW x \in Nat, Ordered(g),
         \A n \in 1..Len(g) : g[n] <= x,
         NEW e, NEW f, Counts(e, g), e.count < Limit, x < e.start + Window,
         f.start = e.start, f.count = e.count + 1, e.start \in Nat
  PROVE  Counts(f, Append(g, x)) /\ Ordered(Append(g, x))
<1> DEFINE h == Append(g, x)
           a == First(e, g)
<1>1. /\ Len(g) \in Nat /\ Len(h) = Len(g) + 1
      /\ \A n \in 1..Len(g) : g[n] \in Nat /\ h[n] = g[n]
      /\ h[Len(g) + 1] = x
  BY AllowedOnce
<1> HIDE DEF h
<1>2. e.count \in 1..Len(g) /\ a = Len(g) - e.count + 1
  BY DEF Counts, First
<1>3. a \in 1..Len(g)
  BY <1>1, <1>2
<1>4. First(f, h) = a
  BY <1>1, <1>2 DEF First
<1>5. g[a] = e.start
  BY DEF Counts
<1>6. ASSUME NEW n \in 1..Len(g)
      PROVE  /\ n >= a => g[n] < e.start + Window
             /\ a - n >= Limit => g[n] + Window <= e.start
  BY DEF Counts
<1> HIDE DEF a
<1>7. ASSUME NEW n \in 1..Len(h)
      PROVE  /\ n >= a => h[n] < e.start + Window
             /\ a - n >= Limit => h[n] + Window <= e.start
  <2>1. CASE n \in 1..Len(g)
    BY <1>1, <1>6, <2>1
  <2>2. CASE n = Len(g) + 1
    BY <1>1, <1>3, <2>2
  <2> QED  BY <1>1, <2>1, <2>2
<1>8. h[a] = e.start
  BY <1>1, <1>5, <1>3
<1>9. Counts(f, h)
  BY <1>1, <1>2, <1>7, <1>8, <1>4 DEF Counts
<1>10. ASSUME NEW n \in 1..Len(g), Len(g) + 1 - n >= 2 * Limit - 1
      PROVE  g[n] + Window <= x
  <2>1. a - n >= Limit
    BY <1>1, <1>2, <1>10
  <2>2. g[n] + Window <= g[a] /\ g[a] <= x
    BY <1>5, <1>6, <1>3, <2>1
  <2> QED  BY <1>1, <1>3, <2>2
<1>11. Ordered(h)
  BY <1>10, OrderedAppend DEF h
<1> QED  BY <1>9, <1>11 DEF h

(* A call that opens a window: the entry's is over, or there is no entry.   *)
LEMMA CountFresh ==
  ASSUME Limit \in Nat \ {0}, Window \in Nat \ {0},
         NEW g \in Seq(Nat), NEW x \in Nat, Ordered(g),
         \A n \in 1..Len(g) : g[n] <= x,
         NEW f, f.start = x, f.count = 1,
         \/ g = <<>>
         \/ \E e : Counts(e, g) /\ e.count <= Limit /\ e.start \in Nat /\ e.start + Window <= x
  PROVE  Counts(f, Append(g, x)) /\ Ordered(Append(g, x))
<1> DEFINE h == Append(g, x)
<1>1. /\ Len(g) \in Nat /\ Len(h) = Len(g) + 1
      /\ \A n \in 1..Len(g) : g[n] \in Nat /\ h[n] = g[n]
      /\ h[Len(g) + 1] = x
  BY AllowedOnce
<1> HIDE DEF h
<1>2. ASSUME NEW n \in 1..Len(g), Len(g) + 1 - n >= Limit PROVE g[n] + Window <= x
  <2>1. g # <<>>
    BY <1>1, <1>2
  <2>2. PICK e : Counts(e, g) /\ e.count <= Limit /\ e.start \in Nat /\ e.start + Window <= x
    BY <2>1
  <2> DEFINE a == First(e, g)
  <2>3. g[a] = e.start
    BY <2>2 DEF Counts
  <2>4. e.count \in 1..Len(g) /\ a = Len(g) - e.count + 1
    BY <2>2 DEF Counts, First
  <2> HIDE DEF a
  <2>5. a \in 1..Len(g)
    BY <1>1, <2>4
  <2>6. n <= a
    BY <1>1, <1>2, <2>2, <2>4
  <2>7. g[n] <= g[a]
    BY <2>5, <2>6 DEF Ordered
  <2> QED  BY <1>1, <2>2, <2>3, <2>7
<1>3. First(f, h) = Len(g) + 1
  BY <1>1 DEF First
<1>4. ASSUME NEW n \in 1..Len(h)
      PROVE  /\ n >= Len(g) + 1 => h[n] < x + Window
             /\ Len(g) + 1 - n >= Limit => h[n] + Window <= x
  <2>1. CASE n \in 1..Len(g)
    BY <1>1, <1>2, <2>1
  <2>2. CASE n = Len(g) + 1
    BY <1>1, <2>2
  <2> QED  BY <1>1, <2>1, <2>2
<1>5. Counts(f, h)
  BY <1>1, <1>3, <1>4 DEF Counts
<1>6. \A n \in 1..Len(g) : Len(g) + 1 - n >= 2 * Limit - 1 => g[n] + Window <= x
  BY <1>1, <1>2
<1>7. Ordered(h)
  BY <1>6, OrderedAppend DEF h
<1> QED  BY <1>5, <1>7 DEF h

(* Fewer than 2 * Limit of calls so spread fall in a span of one window.    *)
LEMMA SpanBelowTwice ==
  ASSUME Limit \in Nat \ {0}, Window \in Nat \ {0},
         NEW g \in Seq(Nat), Ordered(g), NEW t \in Nat
  PROVE  Cardinality({n \in 1..Len(g) : g[n] \in t..(t + Window - 1)}) < 2 * Limit
<1> DEFINE A == {n \in 1..Len(g) : g[n] \in t..(t + Window - 1)}
<1>1. Len(g) \in Nat /\ \A n \in 1..Len(g) : g[n] \in Nat
  BY LenProperties, ElementOfSeq
<1>2. A \in SUBSET Nat
  BY <1>1
<1>3. CASE A = {}
  <2>1. Cardinality(A) = 0
    BY <1>3, FS_EmptySet
  <2> HIDE DEF A
  <2>2. Cardinality(A) < 2 * Limit
    BY <2>1
  <2> QED  BY <2>2 DEF A
<1>4. CASE A # {}
  <2> HIDE DEF A
  <2>1. PICK m \in A : \A n \in A : m <= n
    BY <1>2, <1>4, LeastElement
  <2>2. m \in 1..Len(g) /\ g[m] >= t
    BY <2>1 DEF A
  <2>3. \A n \in A : n <= m + (2 * Limit - 2)
    <3> SUFFICES ASSUME NEW n \in A, n > m + (2 * Limit - 2) PROVE FALSE
      BY <1>2, <2>2
    <3>1. n \in 1..Len(g) /\ g[n] < t + Window
      BY <1>1 DEF A
    <3>2. n - m >= 2 * Limit - 1
      BY <1>1, <2>2, <3>1
    <3>3. g[m] + Window <= g[n]
      BY <2>2, <3>1, <3>2 DEF Ordered
    <3> QED  BY <1>1, <2>2, <3>1, <3>3
  <2> DEFINE q == m + (2 * Limit - 2)
  <2>4. q \in Nat /\ m \in Nat /\ m <= q
    BY <2>2
  <2>5. q - m + 1 = 2 * Limit - 1
    BY <2>2
  <2>6. A \in SUBSET (m..q)
    BY <1>2, <2>1, <2>2, <2>3
  <2> HIDE DEF q
  <2>7. IsFiniteSet(m..q) /\ Cardinality(m..q) = q - m + 1
    BY <2>4, FS_Interval
  <2>8. Cardinality(A) <= Cardinality(m..q) /\ IsFiniteSet(A)
    BY <2>6, <2>7, FS_Subset
  <2>9. Cardinality(A) \in Nat
    BY <2>8, FS_CardinalityType
  <2>10. Cardinality(A) < 2 * Limit
    BY <2>5, <2>7, <2>8, <2>9
  <2> QED  BY <2>10 DEF A
<1> HIDE DEF A
<1> QED  BY <1>3, <1>4 DEF A

(* The calls an entry has counted since its start are that many.            *)
LEMMA CountedInWindow ==
  ASSUME Window \in Nat \ {0},
         NEW g \in Seq(Nat), Ordered(g),
         NEW e, e.start \in Nat, Counts(e, g)
  PROVE  Cardinality({n \in 1..Len(g) : g[n] \in e.start..(e.start + Window - 1)}) >= e.count
<1> DEFINE A == {n \in 1..Len(g) : g[n] \in e.start..(e.start + Window - 1)}
<1>1. Len(g) \in Nat /\ \A n \in 1..Len(g) : g[n] \in Nat
  BY LenProperties, ElementOfSeq
<1>2. First(e, g) \in 1..Len(g) /\ Len(g) - First(e, g) + 1 = e.count
  BY <1>1 DEF Counts, First
<1>3. \A n \in First(e, g)..Len(g) : g[n] >= e.start /\ g[n] < e.start + Window
  <2> SUFFICES ASSUME NEW n \in First(e, g)..Len(g)
               PROVE  g[n] >= e.start /\ g[n] < e.start + Window
    OBVIOUS
  <2>1. n \in 1..Len(g) /\ First(e, g) <= n
    BY <1>1, <1>2
  <2> QED  BY <1>1, <1>2, <2>1 DEF Counts, Ordered
<1>4. (First(e, g)..Len(g)) \in SUBSET A
  BY <1>1, <1>2, <1>3
<1>5. IsFiniteSet(1..Len(g)) /\ A \in SUBSET (1..Len(g))
  BY <1>1, FS_Interval
<1>6. IsFiniteSet(A)
  BY <1>5, FS_Subset
<1> HIDE DEF A
<1>7. Cardinality(First(e, g)..Len(g)) <= Cardinality(A)
  BY <1>4, <1>6, FS_Subset
<1>8. Cardinality(First(e, g)..Len(g)) = e.count
  BY <1>1, <1>2, FS_Interval
<1> QED  BY <1>7, <1>8 DEF A

(* Type correctness of the limiter: a count never passes the limit, and a   *)
(* scan stays inside the table.                                             *)
THEOREM LimiterTyped == LimiterSpec => []LimiterTypeOK
<1> USE RateLimitAssumption
<1>1. LimiterInit => LimiterTypeOK
  <2> SUFFICES ASSUME LimiterInit PROVE LimiterTypeOK
    OBVIOUS
  <2>1. <<>> \in Seq(0..Horizon)
    OBVIOUS
  <2>2. [key |-> NoKey, start |-> 0, count |-> 0] \in Entries
    BY DEF Entries
  <2>3. 0 \in 0..Horizon /\ 0 \in 0..RL_MAX /\ -1 \in -1..(RL_MAX - 1)
    OBVIOUS
  <2> QED  BY <2>1, <2>2, <2>3 DEF LimiterInit, LimiterTypeOK, Table
<1>2. LimiterTypeOK /\ [LimiterNext]_limiterVars => LimiterTypeOK'
  <2> SUFFICES ASSUME LimiterTypeOK, [LimiterNext]_limiterVars PROVE LimiterTypeOK'
    OBVIOUS
  <2> USE DEF LimiterTypeOK, Table
  <2>1. ASSUME NEW c \in Callers, Allow(c)
        PROVE  granted' \in [Keys -> Seq(0..Horizon)]
                 /\ pc' \in [Callers -> {"idle", "scan"}]
    <3>1. \A k \in Keys : Append(granted[k], now[c]) \in Seq(0..Horizon)
      BY AppendProperties
    <3> QED  BY <2>1, <3>1 DEF Allow
  <2>2. ASSUME NEW c \in Callers PROVE Fresh(key[c], now[c]) \in Entries
    BY DEF Fresh, Entries
  <2>3. ASSUME NEW c \in Callers, Call(c) PROVE LimiterTypeOK'
    <3>1. PICK k \in KeysOf[c] : key' = [key EXCEPT ![c] = k]
      BY <2>3 DEF Call
    <3>2. k \in Keys
      BY DEF Keys
    <3> QED  BY <2>3, <3>1, <3>2 DEF Call
  <2>4. ASSUME NEW c \in Callers, NextEntry(c) PROVE LimiterTypeOK'
    BY <2>4 DEF NextEntry
  <2>5. ASSUME NEW c \in Callers, Renew(c) PROVE LimiterTypeOK'
    <3>1. i[c] \in Table
      BY <2>5 DEF Renew, Mine
    <3>2. s_rl' \in [Table -> Entries]
      BY <2>2, <2>5, <3>1 DEF Renew
    <3> QED  BY <2>1, <2>5, <3>2 DEF Renew
  <2>6. ASSUME NEW c \in Callers, Count(c) PROVE LimiterTypeOK'
    <3>1. i[c] \in Table /\ s_rl[i[c]] \in Entries
      BY <2>6 DEF Count, Mine
    <3>2. [s_rl[i[c]] EXCEPT !.count = @ + 1] \in Entries
      <4>1. s_rl[i[c]].count \in 0..Limit /\ ~(s_rl[i[c]].count >= Limit)
        BY <2>6, <3>1 DEF Count, Exhausted, Entries
      <4>2. s_rl[i[c]].count + 1 \in 0..Limit
        BY <4>1
      <4> QED  BY <3>1, <4>2 DEF Entries
    <3>3. s_rl' \in [Table -> Entries]
      BY <2>6, <3>1, <3>2 DEF Count
    <3> QED  BY <2>1, <2>6, <3>3 DEF Count
  <2>7. ASSUME NEW c \in Callers, AtLimit(c) PROVE LimiterTypeOK'
    BY <2>7 DEF AtLimit, Deny
  <2>8. ASSUME NEW c \in Callers, Claim(c) PROVE LimiterTypeOK'
    <3>1. s_rl' \in [Table -> Entries]
      BY <2>2, <2>8 DEF Claim
    <3> QED  BY <2>1, <2>8, <3>1 DEF Claim
  <2>9. ASSUME NEW c \in Callers, TableFull(c) PROVE LimiterTypeOK'
    BY <2>9 DEF TableFull, Deny
  <2>10. CASE Tick
    BY <2>10 DEF Tick, calls
  <2>11. CASE UNCHANGED limiterVars
    BY <2>11 DEF limiterVars, calls
  <2> QED
    BY <2>3, <2>4, <2>5, <2>6, <2>7, <2>8, <2>9, <2>10, <2>11 DEF LimiterNext
<1> QED  BY <1>1, <1>2, PTL DEF LimiterSpec

(* Allowing a call of a task that is alone: its key gets one entry, or has  *)
(* its own one replaced, that counts the call.                              *)
LEMMA AllowStep ==
  ASSUME LimiterTypeOK, Alone, Scanned, Recorded, OneEntry,
         NEW c \in Callers, pc[c] = "scan", Allow(c), clock' = clock,
         NEW s \in Table, NEW f \in Entries, f.key = key[c],
         s_rl' = [s_rl EXCEPT ![s] = f],
         \/ s_rl[s].key = key[c]
         \/ s_rl[s].key = NoKey /\ \A u \in Table : s_rl[u].key # key[c],
         Counts(f, Append(granted[key[c]], now[c])),
         Ordered(Append(granted[key[c]], now[c]))
  PROVE  Alone' /\ Scanned' /\ Recorded' /\ OneEntry'
<1> DEFINE k0 == key[c]
           h == Append(granted[k0], now[c])
<1>1. k0 \in Keys /\ k0 # NoKey /\ now[c] <= clock
  BY RateLimitAssumption DEF Scanned
<1>2. /\ \A k \in Keys : granted'[k] = IF k = k0 THEN h ELSE granted[k]
      /\ \A u \in Table : s_rl'[u] = IF u = s THEN f ELSE s_rl[u]
      /\ \A d \in Callers : pc'[d] = IF d = c THEN "idle" ELSE pc[d]
  BY DEF Allow, LimiterTypeOK
<1>3. \A d \in Callers : pc'[d] # "scan"
  BY <1>2 DEF Alone
<1>4. Alone' /\ Scanned'
  BY <1>3 DEF Alone, Scanned
<1>5. \A u \in Table : u # s => s_rl[u].key # k0
  BY <1>1 DEF OneEntry
<1>6. OneEntry'
  BY <1>1, <1>2, <1>5 DEF OneEntry, Table
<1>7. \A n \in 1..Len(h) : h[n] <= clock
  <2>1. granted[k0] \in Seq(0..Horizon) /\ now[c] \in 0..Horizon
    BY <1>1 DEF LimiterTypeOK
  <2>2. /\ Len(granted[k0]) \in Nat /\ Len(h) = Len(granted[k0]) + 1
        /\ \A n \in 1..Len(granted[k0]) : h[n] = granted[k0][n]
        /\ h[Len(granted[k0]) + 1] = now[c]
    BY <2>1, AllowedOnce
  <2> HIDE DEF h
  <2>3. \A n \in 1..Len(granted[k0]) : granted[k0][n] <= clock
    BY <1>1 DEF Recorded
  <2> QED  BY <1>1, <2>2, <2>3
<1> HIDE DEF h
<1>8. \A k \in Keys : Ordered(granted'[k])
  BY <1>2 DEF Recorded, h
<1>9. \A k \in Keys : \A n \in 1..Len(granted'[k]) : granted'[k][n] <= clock'
  BY <1>2, <1>7 DEF Recorded
<1>10. ASSUME NEW u \in Table, s_rl'[u].key # NoKey
       PROVE  Counts(s_rl'[u], granted'[s_rl'[u].key])
  <2>1. CASE u = s
    BY <1>1, <1>2, <2>1 DEF h
  <2>2. CASE u # s
    <3>1. s_rl'[u] = s_rl[u] /\ s_rl[u].key # k0 /\ s_rl[u].key \in Keys
      BY <1>2, <1>5, <1>10, <2>2 DEF LimiterTypeOK, Entries
    <3>2. granted'[s_rl[u].key] = granted[s_rl[u].key]
      BY <1>2, <3>1
    <3> QED  BY <1>10, <3>1, <3>2 DEF Recorded
  <2> QED  BY <2>1, <2>2
<1>11. ASSUME NEW k \in Keys, \A u \in Table : s_rl'[u].key # k
       PROVE  granted'[k] = <<>>
  <2>1. k # k0
    BY <1>2, <1>11
  <2>2. \A u \in Table : s_rl[u].key # k
    BY <1>2, <1>11, <2>1, RateLimitAssumption
  <2> QED  BY <1>2, <2>1, <2>2 DEF Recorded
<1>12. Recorded'
  BY <1>8, <1>9, <1>10, <1>11 DEF Recorded, Ordered, Counts, First
<1> QED  BY <1>4, <1>6, <1>12

(* Steps of the limiter keep its invariant.                                 *)
LEMMA LimiterStep ==
  ASSUME LimiterTypeOK, LimiterInv, [LimiterNext]_limiterVars
  PROVE  LimiterInv'
<1> USE RateLimitAssumption
<1> SUFFICES ASSUME ~met' PROVE Alone' /\ Scanned' /\ Recorded' /\ OneEntry'
  BY DEF LimiterInv
<1>1. ~met
  BY DEF LimiterNext, Call, NextEntry, Renew, Count, AtLimit, Claim,
         TableFull, Tick, limiterVars
<1>2. Alone /\ Scanned /\ Recorded /\ OneEntry
  BY <1>1 DEF LimiterInv
<1>3. ASSUME s_rl' = s_rl, granted' = granted, clock' \in 0..Horizon, clock <= clock'
      PROVE  Recorded' /\ OneEntry'
  <2>1. OneEntry'
    BY <1>2, <1>3 DEF OneEntry
  <2>2. \A k \in Keys : \A n \in 1..Len(granted[k]) : granted[k][n] <= clock'
    <3> SUFFICES ASSUME NEW k \in Keys, NEW n \in 1..Len(granted[k])
                 PROVE  granted[k][n] <= clock'
      OBVIOUS
    <3>1. granted[k][n] \in 0..Horizon /\ granted[k][n] <= clock
      BY <1>2, ElementOfSeq DEF Recorded, LimiterTypeOK
    <3> QED  BY <1>3, <3>1 DEF LimiterTypeOK
  <2>3. Recorded'
    BY <1>2, <1>3, <2>2 DEF Recorded, Counts, Ordered, First
  <2> QED  BY <2>1, <2>3
<1>4. ASSUME NEW c \in Callers, Call(c) PROVE Alone' /\ Scanned' /\ Recorded' /\ OneEntry'
  <2>1. PICK k \in KeysOf[c] : key' = [key EXCEPT ![c] = k]
    BY <1>4 DEF Call
  <2>2. k \in Keys
    BY DEF Keys
  <2>3. \A d \in Callers : pc'[d] = "scan" => d = c
    BY <1>4 DEF Call, LimiterTypeOK
  <2>4. Scanned'
    <3>1. key'[c] = k /\ now'[c] = clock /\ i'[c] = 0 /\ free'[c] = -1
      BY <1>4, <2>1 DEF Call, LimiterTypeOK
    <3>2. \A s \in Table : ~(s < i'[c])
      BY <3>1 DEF Table
    <3>3. clock' = clock /\ granted' = granted /\ clock <= clock
      BY <1>4 DEF Call, LimiterTypeOK
    <3> QED  BY <1>2, <2>2, <2>3, <3>1, <3>2, <3>3 DEF Scanned, Recorded
  <2> QED  BY <1>3, <1>4, <2>3, <2>4 DEF Call, LimiterTypeOK, Alone
<1>5. ASSUME NEW c \in Callers, NextEntry(c) PROVE Alone' /\ Scanned' /\ Recorded' /\ OneEntry'
  <2>1. \A d \in Callers : pc'[d] = "scan" => d = c
    BY <1>2, <1>5 DEF NextEntry, Alone
  <2>2. i[c] \in Table /\ s_rl[i[c]].key # key[c] /\ pc[c] = "scan"
    BY <1>5 DEF NextEntry, Mine, LimiterTypeOK, Table
  <2>3. i'[c] = i[c] + 1 /\ free'[c] = IF s_rl[i[c]].key = NoKey /\ free[c] < 0 THEN i[c] ELSE free[c]
    BY <1>5 DEF NextEntry, LimiterTypeOK
  <2>4. \A s \in Table : s < i'[c] =>
          /\ s_rl[s].key # key[c]
          /\ free'[c] < 0 => s_rl[s].key # NoKey
    BY <1>2, <2>2, <2>3 DEF Scanned, LimiterTypeOK, Table
  <2>5. free'[c] >= 0 => s_rl[free'[c]].key = NoKey
    BY <1>2, <2>2, <2>3 DEF Scanned, LimiterTypeOK
  <2>6. Scanned'
    BY <1>2, <1>5, <2>1, <2>2, <2>4, <2>5 DEF Scanned, NextEntry
  <2> QED  BY <1>3, <1>5, <2>1, <2>6 DEF NextEntry, LimiterTypeOK, Alone
<1>6. Seq(0..Horizon) \subseteq Seq(Nat)
  BY SeqMonotonic
<1>7. ASSUME NEW c \in Callers, pc[c] = "scan"
      PROVE  /\ granted[key[c]] \in Seq(Nat) /\ Ordered(granted[key[c]])
             /\ now[c] \in Nat
             /\ \A n \in 1..Len(granted[key[c]]) : granted[key[c]][n] <= now[c]
             /\ key[c] \in Keys /\ key[c] # NoKey
             /\ Fresh(key[c], now[c]) \in Entries
             /\ Fresh(key[c], now[c]).key = key[c]
             /\ Fresh(key[c], now[c]).start = now[c]
             /\ Fresh(key[c], now[c]).count = 1
  BY <1>2, <1>7, <1>6 DEF LimiterTypeOK, Scanned, Recorded, Fresh, Entries
<1>8. ASSUME NEW c \in Callers, Mine(c)
      PROVE  /\ pc[c] = "scan" /\ i[c] \in Table /\ s_rl[i[c]] \in Entries
             /\ s_rl[i[c]].key = key[c] /\ Counts(s_rl[i[c]], granted[key[c]])
             /\ s_rl[i[c]].start \in Nat /\ s_rl[i[c]].count \in 0..Limit
  <2>1. pc[c] = "scan" /\ i[c] \in Table /\ s_rl[i[c]].key = key[c]
    BY <1>8 DEF Mine, LimiterTypeOK, Table
  <2>2. s_rl[i[c]] \in Entries
    BY <2>1 DEF LimiterTypeOK
  <2> QED  BY <1>2, <1>7, <2>1, <2>2 DEF Recorded, Entries
<1>9. ASSUME NEW c \in Callers, Renew(c) PROVE Alone' /\ Scanned' /\ Recorded' /\ OneEntry'
  <2>1. Mine(c) /\ now[c] - s_rl[i[c]].start >= Window /\ Allow(c) /\ clock' = clock
          /\ s_rl' = [s_rl EXCEPT ![i[c]] = Fresh(key[c], now[c])]
    BY <1>9 DEF Renew, Elapsed
  <2>2. /\ Counts(Fresh(key[c], now[c]), Append(granted[key[c]], now[c]))
        /\ Ordered(Append(granted[key[c]], now[c]))
    <3>1. s_rl[i[c]].count <= Limit /\ s_rl[i[c]].start + Window <= now[c]
      BY <1>7, <1>8, <2>1
    <3> QED  BY <1>7, <1>8, <2>1, <3>1, CountFresh
  <2> QED  BY <1>2, <1>7, <1>8, <2>1, <2>2, AllowStep
<1>10. ASSUME NEW c \in Callers, Count(c) PROVE Alone' /\ Scanned' /\ Recorded' /\ OneEntry'
  <2> DEFINE e == s_rl[i[c]]
             f == [e EXCEPT !.count = @ + 1]
  <2>1. Mine(c) /\ ~(now[c] - e.start >= Window) /\ ~(e.count >= Limit)
          /\ Allow(c) /\ clock' = clock /\ s_rl' = [s_rl EXCEPT ![i[c]].count = @ + 1]
    BY <1>10 DEF Count, Elapsed, Exhausted
  <2>2. e.count < Limit /\ now[c] < e.start + Window
    BY <1>7, <1>8, <2>1
  <2>3. f \in Entries /\ f.key = key[c] /\ f.start = e.start /\ f.count = e.count + 1
    BY <1>8, <2>1, <2>2 DEF Entries
  <2>4. s_rl' = [s_rl EXCEPT ![i[c]] = f]
    BY <2>1
  <2> HIDE DEF f
  <2>5. Counts(f, Append(granted[key[c]], now[c])) /\ Ordered(Append(granted[key[c]], now[c]))
    <3> HIDE DEF e
    <3>1. pc[c] = "scan" /\ Counts(e, granted[key[c]]) /\ e.start \in Nat
      BY <1>8, <2>1 DEF e
    <3> QED  BY <1>7, <2>2, <2>3, <3>1, CountMore
  <2> QED  BY <1>2, <1>7, <1>8, <2>1, <2>3, <2>4, <2>5, AllowStep
<1>11. ASSUME NEW c \in Callers, Claim(c) PROVE Alone' /\ Scanned' /\ Recorded' /\ OneEntry'
  <2>1. /\ pc[c] = "scan" /\ i[c] = RL_MAX /\ free[c] >= 0 /\ Allow(c) /\ clock' = clock
        /\ s_rl' = [s_rl EXCEPT ![free[c]] = Fresh(key[c], now[c])]
    BY <1>11 DEF Claim
  <2>2. free[c] \in Table /\ s_rl[free[c]].key = NoKey
    BY <1>2, <2>1 DEF LimiterTypeOK, Table, Scanned
  <2>3. \A u \in Table : s_rl[u].key # key[c]
    BY <1>2, <2>1 DEF Table, Scanned
  <2>4. granted[key[c]] = <<>>
    BY <1>2, <1>7, <2>1, <2>3 DEF Recorded
  <2>5. /\ Counts(Fresh(key[c], now[c]), Append(granted[key[c]], now[c]))
        /\ Ordered(Append(granted[key[c]], now[c]))
    BY <1>7, <2>1, <2>4, CountFresh
  <2> QED  BY <1>2, <1>7, <2>1, <2>2, <2>3, <2>5, AllowStep
<1>12. ASSUME NEW c \in Callers, AtLimit(c) \/ TableFull(c)
       PROVE  Alone' /\ Scanned' /\ Recorded' /\ OneEntry'
  <2>1. /\ pc[c] = "scan" /\ pc' = [pc EXCEPT ![c] = "idle"]
        /\ UNCHANGED <<clock, s_rl, granted>>
    BY <1>12 DEF AtLimit, TableFull, Deny, Mine
  <2>2. \A d \in Callers : pc'[d] # "scan"
    BY <1>2, <2>1 DEF Alone, LimiterTypeOK
  <2> QED  BY <1>3, <2>1, <2>2 DEF Alone, Scanned, LimiterTypeOK
<1>13. CASE Tick
  <2>1. clock' \in 0..Horizon /\ clock <= clock'
    BY <1>13 DEF Tick, LimiterTypeOK
  <2>2. \A c \in Callers : pc[c] = "scan" => now[c] <= clock'
    BY <1>2, <2>1 DEF Scanned, LimiterTypeOK
  <2>3. Alone' /\ Scanned'
    BY <1>2, <1>13, <2>2 DEF Alone, Scanned, Tick, calls
  <2> QED  BY <1>3, <1>13, <2>1, <2>3 DEF Tick
<1>14. CASE UNCHANGED limiterVars
  BY <1>2, <1>3, <1>14 DEF limiterVars, calls, Alone, Scanned, LimiterTypeOK
<1> QED
  BY <1>4, <1>5, <1>9, <1>10, <1>11, <1>12, <1>13, <1>14 DEF LimiterNext

(* Its invariant holds of every behaviour.                                  *)
LEMMA LimiterInvariant == LimiterSpec => []LimiterInv
<1>1. LimiterInit => LimiterInv
  <2> SUFFICES ASSUME LimiterInit PROVE LimiterInv
    OBVIOUS
  <2>1. \A c \in Callers : pc[c] # "scan"
    BY DEF LimiterInit
  <2>2. \A s \in Table : s_rl[s].key = NoKey
    BY DEF LimiterInit
  <2>3. \A k \in Keys : granted[k] = <<>> /\ Len(granted[k]) = 0
    BY DEF LimiterInit
  <2> QED  BY <2>1, <2>2, <2>3 DEF LimiterInv, Alone, Scanned, Recorded, Ordered, OneEntry
<1>2. LimiterTypeOK /\ LimiterInv /\ [LimiterNext]_limiterVars => LimiterInv'
  BY LimiterStep
<1> QED  BY <1>1, <1>2, LimiterTyped, PTL DEF LimiterSpec

(* No key has two entries, as long as the tasks do not meet in the function.*)
THEOREM OneEntryPerKey == LimiterSpec => []OneEntryAlone
<1>1. LimiterInv => OneEntryAlone
  BY DEF LimiterInv, OneEntry, OneEntryAlone
<1> QED  BY <1>1, LimiterInvariant, PTL

(* A window-long span sees fewer than twice the limit of a key's calls, as  *)
(* long as the tasks do not meet in the function.                           *)
THEOREM BelowTwiceTheLimit == LimiterSpec => []BelowTwiceAlone
<1> USE RateLimitAssumption
<1>1. LimiterTypeOK /\ LimiterInv => BelowTwiceAlone
  <2> SUFFICES ASSUME LimiterTypeOK, LimiterInv, ~met, NEW k \in Keys, NEW t \in 0..Horizon
               PROVE  In(k, t) < 2 * Limit
    BY DEF BelowTwiceAlone, BelowTwice
  <2>1. granted[k] \in Seq(Nat)
    BY SeqMonotonic DEF LimiterTypeOK
  <2>2. Ordered(granted[k])
    BY DEF LimiterInv, Recorded
  <2>3. t \in Nat
    OBVIOUS
  <2>4. Cardinality({n \in 1..Len(granted[k]) : granted[k][n] \in t..(t + Window - 1)})
          < 2 * Limit
    <3> DEFINE g == granted[k]
    <3>1. Limit \in Nat \ {0} /\ Window \in Nat \ {0}
      BY RateLimitAssumption
    <3>2. g \in Seq(Nat) /\ Ordered(g)
      BY <2>1, <2>2
    <3> HIDE DEF g
    <3>3. Cardinality({n \in 1..Len(g) : g[n] \in t..(t + Window - 1)}) < 2 * Limit
      BY <2>3, <3>1, <3>2, SpanBelowTwice
    <3> QED  BY <3>3 DEF g
  <2> QED  BY <2>4, Zenon DEF In
<1> QED  BY <1>1, LimiterTyped, LimiterInvariant, PTL

(* A call is denied only if the window up to it has seen Limit calls of its *)
(* key or every entry belongs to another key.                               *)
THEOREM DeniedForCause == LimiterSpec => DeniedAlone
<1> USE RateLimitAssumption
<1>1. LimiterTypeOK /\ LimiterInv /\ [LimiterNext]_limiterVars => [DenialHasCause]_limiterVars
  <2> SUFFICES ASSUME LimiterTypeOK, LimiterInv, LimiterNext, NEW c \in Callers,
                      ~met, pc[c] = "scan", pc'[c] = "idle", granted' = granted
               PROVE  \/ \E t \in 0..Horizon :
                           t <= now[c] /\ now[c] < t + Window /\ In(key[c], t) >= Limit
                      \/ \A s \in Table : s_rl[s].key \notin {NoKey, key[c]}
    BY DEF DenialHasCause
  <2>1. Alone /\ Scanned /\ Recorded
    BY DEF LimiterInv
  <2>2. key[c] \in Keys /\ now[c] \in 0..Horizon /\ granted[key[c]] \in Seq(0..Horizon)
    BY <2>1 DEF Scanned, LimiterTypeOK
  <2>3. ~Allow(c)
    <3> SUFFICES ASSUME Allow(c) PROVE FALSE
      OBVIOUS
    <3>1. granted'[key[c]] = Append(granted[key[c]], now[c])
      BY <2>2 DEF Allow, LimiterTypeOK
    <3>2. Len(granted'[key[c]]) = Len(granted[key[c]]) + 1 /\ Len(granted[key[c]]) \in Nat
      BY <2>2, <3>1, AllowedOnce
    <3> QED  BY <3>2
  <2>4. AtLimit(c) \/ TableFull(c)
    <3>1. ASSUME NEW d \in Callers, d # c,
                 \/ Call(d) \/ NextEntry(d) \/ Renew(d) \/ Count(d)
                 \/ AtLimit(d) \/ Claim(d) \/ TableFull(d)
          PROVE  FALSE
      BY <3>1 DEF Call, NextEntry, Renew, Count, AtLimit, Claim,
                  TableFull, Allow, Deny, LimiterTypeOK
    <3>2. ~Tick
      BY DEF Tick, calls
    <3>3. ~Call(c) /\ ~NextEntry(c)
      BY DEF Call, NextEntry
    <3>4. ~Renew(c) /\ ~Count(c) /\ ~Claim(c)
      BY <2>3 DEF Renew, Count, Claim
    <3> QED  BY <3>1, <3>2, <3>3, <3>4 DEF LimiterNext
  <2>5. CASE TableFull(c)
    <3>1. i[c] = RL_MAX /\ free[c] < 0
      BY <2>5 DEF TableFull
    <3> QED  BY <2>1, <3>1 DEF Scanned, Table
  <2>6. CASE AtLimit(c)
    <3> DEFINE e == s_rl[i[c]]
               g == granted[key[c]]
    <3>1. /\ i[c] \in Table /\ e.key = key[c] /\ e.key # NoKey
          /\ ~(now[c] - e.start >= Window) /\ e.count >= Limit
      BY <2>2, <2>6 DEF AtLimit, Mine, Elapsed, Exhausted, LimiterTypeOK, Table
    <3>2. e.start \in 0..Horizon /\ e.count \in 0..Limit
      BY <3>1 DEF LimiterTypeOK, Entries
    <3>3. Counts(e, g) /\ Ordered(g)
      BY <2>1, <2>2, <3>1 DEF Recorded
    <3>4. g \in Seq(Nat) /\ Len(g) \in Nat
      BY <2>2, SeqMonotonic, LenProperties
    <3>5. \A n \in 1..Len(g) : g[n] <= now[c]
      BY <2>1, <2>2 DEF Scanned
    <3> HIDE DEF e, g
    <3>6. First(e, g) \in 1..Len(g) /\ g[First(e, g)] = e.start
      BY <3>3, <3>4 DEF Counts, First
    <3>7. e.start <= now[c] /\ now[c] < e.start + Window
      BY <2>2, <3>1, <3>2, <3>5, <3>6
    <3>8. Cardinality({n \in 1..Len(g) : g[n] \in e.start..(e.start + Window - 1)}) >= e.count
      BY <3>2, <3>3, <3>4, CountedInWindow
    <3>9. In(key[c], e.start) >= Limit
      <4>1. e.count = Limit
        BY <3>1, <3>2
      <4>2. In(key[c], e.start) >= e.count
        BY <3>8, Zenon DEF In, g
      <4> QED  BY <4>1, <4>2
    <3> QED  BY <3>2, <3>7, <3>9
  <2> QED  BY <2>4, <2>5, <2>6
<1> QED  BY <1>1, LimiterTyped, LimiterInvariant, PTL DEF LimiterSpec, DeniedAlone
=============================================================================
