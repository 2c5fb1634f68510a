# A TLA+ model of the TUYA + SATEL bridge

The repository is firmware for an ESP32 that sits between the TUYA cloud and a
SATEL INTEGRA alarm panel (through an ETHM-1 Plus module): it polls both, tells
MQTT and a webhook what changed, switches a TUYA light when a zone is violated
at night, and is configured through a web panel.  These modules model its core,
TLC checks them on small instances, and TLAPS proves the main theorems for every
value of the constants.  All paths below are relative to `src/`; component
sources live in `components/<name>/<name>.cpp` unless another file is named.

## 1. The system

### 1.1 Tasks

| Task | Code | Calls |
|---|---|---|
| `satel_task` | `satel_client.cpp:174` | `on_zone_change` (`main.cpp:48`), and out of it the rate limiter, MQTT, the webhook and `tuya_cmd_bool` |
| `tuya_task` | `tuya_client.cpp:262` | `on_dp_change` (`main.cpp:69`), and out of it MQTT, the webhook, `satel_ip_input_on` |
| `light_off`, one per trigger | `main.cpp:40` | `tuya_cmd_bool`, the event log |
| `httpd` | `http_server.cpp` | every handler, one after the other: configuration, mode, wizard, status |
| the MQTT client's task | `mqtt_bridge.cpp` | connection events, the event log |
| `app_main` | `main.cpp:90` | start-up, then feeds the watchdog every 10 s |

They share memory and use two mutexes only: one for `s_panel` of the satel
client, one for the device table of the tuya client.

### 1.2 Components

For each: its state, its operations, what is hard about it, what makes it correct.

* **satel_client** — `s_state`, `s_panel`, `s_prev`, `s_sock`, `s_reconnects`,
  the command ring (`s_cmd_queue`, `s_cmd_len`, `s_cmd_head`, `s_cmd_tail`) and
  `recv_frame`'s static buffer.  Operations: connect, poll each register and
  apply the replies, notify, flush commands, reconnect; `enqueue_cmd`; start and
  stop.  Hard: TCP cuts replies anywhere; replies lag behind requests; the
  receive buffer outlives the connection; the task can be deleted anywhere.
  Correct: callbacks match the client's view of the panel, events of a zone
  alternate, no reading is undone by an older one, a lost link is recovered
  from, commands are sent once, whole, in order.
* **satel_protocol** (`satel_client/satel_protocol.cpp`) — no state; frames,
  escaping, CRC, the parser, `satel_apply_frame`.  Correct: what is built is
  parsed back, from any chunks, and again after a cut frame.
* **tuya_client** — `s_token`, `s_token_expire`, `s_devices`, `s_dev_count`,
  `s_state`, `s_reconnects`.  Operations: token, device list, status rounds,
  callbacks; commands; copies of the table for other tasks.  Hard: the datapoint
  is stored before the callback, which blocks with the mutex taken; a token that
  expires or is revoked in the middle of a round; `success=false` is not looked
  at.  Correct: no stored change is left untold, how far a round can rely on its
  token, listeners learn the state in the end.
* **tuya_http** (`tuya_client/tuya_http.cpp`) — one static reply buffer
  `s_rbuf`, `s_rlen` for all tasks.  Correct: a request returns its own reply
  and writes inside the buffer.
* **main** — the night rule, its off timer, the wiring.  Correct: the light goes
  on in the window only, stays on for `auto_off_ms`, and goes off.
* **automation_modes** — the mode, the window over midnight.
* **rate_limit** — a table of fixed windows, scanned without a lock by
  `satel_task` and `httpd`.  Correct: a key is not allowed too much, and not
  refused without reason.
* **event_log** — a ring of 64 entries with `s_head` and `s_count`, written by
  every task without a lock and listed by `httpd` into a buffer of 8192 bytes.
  Correct: the ring holds the last entries in order; the listing fits.
* **config_manager**, **crypto_manager** — one NVS blob per part of the
  configuration.  Hard: the results of the writes are ignored.
* **http_server** — the credentials, the mode, the webhook address and the broker
  in use, next to what is in flash; one handler at a time.  Correct: a save
  changes what was sent and keeps what was left empty.
* **spiffs_data/index.html** — the wizard's page: the step shown, the completed
  steps, inputs that a GET fills later.  Hard: a request and its answer with
  clicks, restarts and losses between them.  Correct: it resumes where all before
  is stored; going through a step without typing changes nothing; it can be
  completed.
* **web_tls** — a certificate and its key, two NVS strings.  Correct: what is
  served fits together and is the same after a restart.
* **webhook_client**, **mqtt_bridge**, **ota_manager**, **hw_watchdog**,
  **system_services**, **mdns_wrapper** — wrappers around ESP-IDF with status
  structures; what the rest depends on is in the models of their callers.
* **boot_manager, captive_portal, rule_engine, spiffs_www, watchdog,
  wifi_manager** — empty files.

`PROJECT.json` lists all of them with their status, and the hazards by line.

## 2. The modules

| Module | Models | Role |
|---|---|---|
| `SatelClient` | `satel_task` with its environment: TCP, panel, other tasks | state machine |
| `SatelCmdQueue` | the command ring, store by store | state machine |
| `CommandFifo` | what the ring promises: a bounded FIFO | abstract specification |
| `SatelFrame` | the wire format and `recv_frame`, byte by byte | functions and a small machine |
| `TuyaHttp` | `do_request`, `http_event_cb`, the shared buffer | state machine |
| `TuyaClient` | `tuya_task`, the table and its mutex, callbacks, a reader, the cloud | state machine |
| `TuyaToken` | the token against the time the requests take | timed state machine |
| `NightRule` | `on_zone_change`, `delayed_light_off_task`, modes, the window | timed state machine |
| `RateLimit` | `rate_limit_allow`, entry by entry, from two tasks | state machine |
| `EventLog` | `event_log_add` store by store, from two tasks, and the JSON listing | state machine |
| `ConfigStore` | the NVS blobs and the saves that fail unnoticed | operators on its state |
| `WebPanel` | the handlers of `http_server` that change state, over `ConfigStore` | operators on its state |
| `Device` | `app_main`'s start-up, `web_tls_init`, restarts, over `WebPanel` | actions |
| `Wizard` | the page, its user and its requests, over `Device` | state machine, composes the four |
| `*_proofs` | theorems about the module of that name; `SatelWire_proofs` is about `SatelCmdQueue` and `SatelFrame`, `SharedTables_proofs` about `EventLog` and `RateLimit` | proofs |
| `MC*` | definitions and symmetry for TLC | instances |

Each module keeps the source's variable names.  `pc` is the place in the code; a
step runs from one point where another task or the environment can matter to the
next: a blocking call, a delay, the taking of a mutex, or, where no lock is
taken and that is the question (`SatelCmdQueue`, `TuyaHttp`, `RateLimit`), every
load and store.  Ghost variables are marked so where they are declared.

**SatelClient.**  A reply is a record of register, value and version on two
*fragments*, head and tail, because one cut is what the parser can tell apart: no
terminator yet, a whole frame, a bad frame, a frame that is too long.
`SatelFrame` justifies this at the level of bytes.  `Begin … Lost` are the
statements of `satel_task` with `poll_once` (`SendPoll`, `RecvData`,
`RecvNothing`, `RecvTimeout`, `TakeMutex`, `ApplyFrame`, `NextCmd`),
`notify_changes` (`NotifyLine`, `NotifyDone`), `flush_cmd_queue` (`FlushOne`,
`FlushDone`).  An incomplete or bad frame ends the wait for its register and the
poll goes on, as at `satel_client.cpp:147`; the result of the poll after
connecting is ignored, as at `:193`.  The environment breaks links (whatever had
arrived may still be readable), refuses connections, splits replies, answers late.
`ClientStop` deletes the task at any point and resets neither the state nor the
mutex: a task deleted with the mutex taken blocks the next one for good, and that
run therefore allows the system to stop.

**SatelCmdQueue.**  `enqueue_cmd` in four steps, `flush_cmd_queue` in three.  A
refinement mapping (`Capacity <- QueueCap - 1`) shows it implements
`CommandFifo`.  The producer is latent: `satel_client.h` exports the functions
that call `enqueue_cmd`, but nothing in the tree calls them today.  What is
checked is what they promise to one caller at a time.

**TuyaHttp.**  A reply is a sequence of cells that know whose they are.
`avail` is a `size_t` that wraps once `s_rlen` has passed the end; `Copied` keeps
that.  `alone` says that no other request overlapped this one.

**TuyaClient.**  A request and its reply are one step; a reply that is another
request's, or a refusal, is a body without properties, which `ParseStatus` takes
for a status that changes nothing.  The callback is a step of its own with the
mutex taken.  The cloud changes datapoints and the list, refuses and revokes
tokens.

**TuyaToken.**  `now` is true time, `time(NULL)` is `now + offset`, and SNTP may
move it forward once.  Every request takes 0 to `Timeout` (the code's
`timeout_ms`, taken as the bound of a whole request), the callbacks of a device
up to `Callbacks`.  The task looks at the token in `Check`, between two rounds;
the commands of `satel_task` are signed with whatever token there is, so what is
said about them is a bound on `now` in every state.

**NightRule.**  Minutes of a short day; the handler is a sequence of blocking
calls, every off task waits on its own.  A command may be lost, or only its
answer; an off task may fail to be created.

**RateLimit.**  One step per entry scanned, so that two scans can interleave.  Two
ghosts: `granted`, the times of the calls each key was allowed, and `met`, which
remembers that two calls have been in the table at once.

**EventLog.**  A step is one access to the table, `s_head` or `s_count`; `s_count`
is loaded once for its test and its increment, as the optimised build does.  An
entry is the pair of events its source and its message come from, so that two
writers can mix them.  The listing knows only lengths: an entry adds 1 to
`EntryMax` bytes, `JsonStop` is the 7800 of the `break`.

**ConfigStore, WebPanel, Device, Wizard** are one chain of `EXTENDS`, from the
flash to the browser.  A blob is three fields: what a GET shows (`plain`), one
shown field for which the page has a default (`preset`: the port of `satel`, the
region of `tuya`, the acknowledgement time of `escalation`), and what a GET hides
(`secret`).  A field is empty (a number: zero), built in, or typed.  A write works,
or fails and looks the same to the handler (`SaveFails`, which `failed` remembers).
`WebPanel` has one operator per kind of POST: configuration with a secret that is
kept when the input is empty, the webhook that takes effect at once, the broker
that does not, lists that are replaced, credentials, and the mode, which is not
stored.  `Device` is `app_main` with a step per part, so that `Restart` can fall
between any two, also between the certificate and its key.  `Wizard` is the page:
`page` is what DALEJ's handler waits for, `target` the step its request is about,
`current` the step shown, `loads` the GETs not answered yet, `reloading` the timer
of `savePanel`, which nothing stops: `Reload` may come during a later save, and
`UserReload` at any time.  `Preset` is the page's `||`, between a GET and the
inputs and between the inputs and a POST.  Only DALEJ and BACK are disabled during
a save; the inputs (`Type`) and the list of steps (`ClickStep`) are not.  A request
is handled in one step, as `httpd` does; it may be refused, or handled with its
answer lost; one that a reload gives up was handled before it, or never is.
In the ghost variables are what a handler has stored (`saved`) and whether the
inputs are as a GET filled them (`clean`).

## 3. What is checked

| Run | Shows |
|---|---|
| `satel_link` | one fault (broken link, refused connection or timeout), one reply cut in two, one command, two changes, one deletion of the task anywhere: told = believed, edges alternate, readings are monotone, the stream stays framed |
| `satel_live` | with one fault and room left in the buffer, polling goes on and the application comes to know the panel |
| `satel_wedge` | **violation**: heads orphaned by three lost links make a frame that is too long, of which the parser consumes nothing: no poll succeeds again |
| `satel_cmd_queue` | the ring is a FIFO, no command is torn, all are sent |
| `satel_frame` | round trip, no loss, resynchronisation, for payloads over FE, F0, 0D and an ordinary byte, in chunks of 1, 2 and 16 |
| `tuya_http` | a request nobody overlaps gets its own reply, inside the buffer |
| `tuya_client` | told = stored, repeats follow a new list only, ready means a token, listeners learn the state |
| `tuya_token` | with rounds that outlast the margin: which devices of a polling round are asked with a live token, and how long past its expiry any token can be in use |
| `night_rule` | the light goes on in the window only, is always covered by an off task, stays on long enough, goes off |
| `rate_limit` | fewer than twice the limit in any span of a window, no refusal without reason, one entry per key |
| `event_log` | as long as no two tasks log at once the ring is the last entries in order; the listing fits its buffer whoever logs meanwhile |
| `wizard` | the place where the wizard resumes has everything before it stored, a step left as it was read changes nothing in flash but a zero or empty field that becomes the page's default, the certificate served fits its key and is stored, the wizard can be completed |

### Bounds

* SatelClient: two registers of one line each.  Two are needed for replies to be
  taken for one another; lines of a register do not interact.  Buffer of 6
  fragments and frames of at most 3, so that both limits are reached (512 and 128
  bytes in the code).  Two changes let a line go and return.  One split and one
  command give replies that lag by two, a whole poll.  `satel_live` has a buffer
  that one fault cannot fill: `satel_wedge` shows what happens when it does.
* SatelCmdQueue: 4 slots, 6 commands, so head and tail wrap.
* TuyaHttp: a buffer of 3 cells, replies of 0 to 3 in chunks of 1 and 2: shorter
  than, equal to and one more than what fits; two tasks.
* TuyaClient: two devices and slots, which is the smallest table where a slot
  changes its owner; the list fits the table, as a page of 20 fits 32 slots.  Two
  faults let a token be revoked and the next be refused.
* TuyaToken: up to three devices of 4 units each, a margin of 10 and life times
  on both sides of it, 40 units of time.  As in the code a round may outlast the
  margin: the first two devices surely fit in what is left of a token that passed
  the check, the third does not, and a run of the model does ask it with an
  expired token.
* NightRule: a day of 5, a window over midnight, three triggers, one fault.
* RateLimit: two entries for three keys, so the table fills; limit 2, window 2.
* EventLog: three slots, five events, two writers: the ring wraps, and a slot is
  written again while it is being listed.  The JSON's sizes are scaled so that the
  listing stops before, at and after its limit; the proof has them free.
* Wizard: seven steps, one of each kind: a protected blob with a default
  (`satel`), the credentials, the broker, the webhook, the mode, a list kept by the
  page with a default next to it (`escalation`), the summary; `tuya` and `net` go
  through the same operators as `satel`, `scenes` and `schedules` through those of
  `escalation`.  One field typed, a zero included.  Two events in all (`MaxTroubles`) out of failing
  writes, power failures, key generations that fail, refusals by a running device,
  lost answers, clicks in the list of steps, BACK and reloads: the cases of
  section 5 that are about the wizard each take two at most.  A device that is not
  up refuses requests at no charge.

### Fairness

`satel_task` and `tuya_task` are scheduled (FreeRTOS, nothing of higher priority
spins) and their blocking calls end: receives by `SO_RCVTIMEO`, requests by
`timeout_ms`, delays by the tick.  Hence `WF(TaskStep)`, `WF(TuyaTask)`,
`WF(Flush)`, `WF(Handler)` and one for each off task.  A panel whose link is up
answers: `WF(PanelReplies)`.  Time passes: `WF(Tick)`, and the clock reaches the
margin of the token: `WF(TokenDue)`.  Nothing obliges anyone to change a
register, break a link, enqueue a command, stop the client or switch the mode.
In `Wizard`, `app_main` runs (`WF(Boot)`), a request is answered or fails
(`WF(Answers)` and one for each GET: the browser gives up in the end), and the
user goes on: presses DALEJ (`WF(Presses)`), and loads the page again when the
broker, without which DALEJ refuses, could not be read (`WF(Reload)`; the same
action is the page's own reload).  Nothing obliges the user to type, click or go
back.
`SatelClient`'s and `TuyaClient`'s faults are bounded, which is the usual premise
that they cease in the end.

## 4. What is proved

TLAPS, for every value of the constants that meets the named assumptions:

* **SatelClient** (`SatelClient_proofs`): `TypeOK`; `ToldMatchesPrev`, inductive
  together with `TypeOK`; `EdgesAlternate` from both (a callback is made where
  `s_panel` and `s_prev` differ, and the application has been told `s_prev`);
  `MonotoneReads`.  The last needs `OrderInv`: for each register the versions in
  the buffer, the socket and the delayed tail are sorted (`StreamOrder`), the
  frame in hand comes before them (`FrameOrder`), and `s_panel` is no newer than
  the panel (`PanelOrder`).  `WellFramed` needs `Framed`: what the buffer and the
  socket hold is heads and tails of replies in which a tail follows a head, and
  where a connection began with an empty buffer, its own head
  (`TailsFollowHeads`); the cut of a link shortens this at the end, where a delayed
  tail is waited for, and `recv_frame` at the front, a whole frame at a time.  No
  bound on faults, splits, changes or stops is used.
* **SatelCmdQueue** (`SatelWire_proofs`), one producer: `TypeOK`, `QueuedIntact` and
  the refinement `FifoSpec`.  The invariant adds to `QueuedIntact` what a call in
  progress has written (`CallInv`) and that the consumer inside its loop has
  something to send (`FlushInv`).
* **SatelFrame** (`SatelWire_proofs`), any bytes, password, sizes of chunks and
  number of breaks: `RoundTrip`, `NothingLost`, `Resynchronises`.  In four steps:
  * Stuffing one byte more (`EscapeAppend`, `UnescapeAppend`) appends its stuffing,
    which gives `EscapeProperties`: stuffed bytes come back as they were, and in
    them FE is always followed by F0, so that neither FE FE nor FE 0D is inside a
    frame (`WireInside`).  The CRC is in 16 bits and its two bytes make it.
  * `StreamStep` is about one call of the parser on any stream that is *junk* (no
    FE FE in it, no FE at its end), a *closed* frame (FE FE at the start, the first
    FE 0D at the end, no longer than the buffer of a frame), and more: wherever recv
    cut it, either some junk goes, or exactly the junk and the frame do.
  * `Garbled`: the beginning of a frame and the next frame are one closed frame and
    some junk.  It ends at the next frame's FE 0D or, when that one's cmd byte is
    0D, right after its FE FE.
  * `StreamInv` ties these to `recv_frame`: the bytes buffered and under way are the
    frames not yet returned (`Whole`) or, once the connection broke, a garbled frame,
    junk and the third frame (`CutFrame`), junk and the third frame (`SomeJunk`), or
    nothing (`Back`).
  `RoundTrip` and `NothingLost` rest on `SizeAssumption`: a frame with every byte
  stuffed fits the buffer of a frame, which for its 128 bytes means data of up to 50
  bytes (registers have at most 16, the client's commands 4).  `NothingLost` needs of
  the invariant only `WholeInv`.  `Resynchronises` has a premise, `TwoFramesFit`: two
  such frames fit that buffer, so data of up to 19 bytes.  A garbled frame beyond that
  makes `satel_parse_buffer` return an error that consumes nothing, which is what
  `satel_wedge` is about.
* **TuyaHttp** (`TuyaHttp_proofs`), any number of tasks: `TypeOK`, `OwnReplyAlone`,
  `InBoundsAlone`, from `AloneAt`, which says at each point of `do_request` what a
  request nobody has overlapped finds in `s_rbuf` and `s_rlen`.
* **TuyaClient** (`TuyaClient_proofs`): `TypeOK`, `ToldIsStored`,
  `RepeatsOnlyFirst`, `ReadyHasToken`.  `PlaceInv` ties `pc` to the mutex, the
  index and the token; `TableInv` says a device has one slot; `ToldInv` is
  `ToldIsStored` with the one device whose callback is due taken out.
* **TuyaToken** (`TuyaToken_proofs`): `TypeOK` and `TokenLive`, with no premise on
  how a round, the margin and the life times compare.  The invariant bounds at
  each place of `tuya_task` the time since the token was granted or found good
  (`SpentAt`): a turn for each device of the round so far, one request more before
  the first round, the pause after the last.  `KnownEnd` says that the client's
  idea of the expiry is late by one request at most, which SNTP can only make
  earlier.
* **NightRule** (`NightRule_proofs`), any day, window and number of triggers:
  `TypeOK`; `LightCovered`; `HeldFullTimeAlone`, from `WaitInv` (an off task has
  waited no longer than the light has been on); `RunsInWindow`, which needs the
  arithmetic of a clock that goes around: a quiet window entered and not left
  while a handler ran (`QuietWalk`).
* **EventLog** (`SharedTables_proofs`), any size of the ring and any number of tasks:
  `TypeOK`; `RingIsLastAlone`, whose invariant says of each writer's place what it
  has written so far; `JsonFits`, from the assumption on the sizes alone
  (`BufferAssumption`: 7800 + 1 + 194 + 2 < 8192), whoever writes meanwhile.
* **RateLimit** (`SharedTables_proofs`), any table, keys, limit, window and number
  of tasks: its type invariant; `OneEntryAlone`, `BelowTwiceAlone`, `DeniedAlone`,
  all three while no two calls have met in the table.  `LimiterInv` says a call in
  its second scan has found its key in no entry (`Scanned`), a key has one entry
  (`OneEntry`), and the entry is a record of what was allowed (`Recorded`): the
  times are in order; of any `2 * Limit` in a row the last is a full window after
  the first; the entry's count is the number of calls since its start, never more
  than the limit.  The middle one is the property in a form that a step can
  preserve: a call that opens a new window has at most `Limit` calls of the old
  window behind it, and those before them are a window older.  `SpanBelowTwice`
  turns it into a bound on the number of calls in any span.
* **Wizard** (`Wizard_proofs`), any steps and any number of troubles and edits:
  `TypeOK`; `ResumePoint`, from `MarksSound` (the device's marks have no gap, the
  page's marks are among them, and the step shown comes right after marked ones)
  and `SaveSound` (what DALEJ waits for is about such a step, which is the one
  shown or one completed before); `TlsReady`, from `TlsInv` (while no write has
  failed, a key is stored only next to its certificate, and there is none in flash
  while a pair is being stored); `UneditedKeeps`, from `UneditedInv`: inputs that
  are as their GET filled them show what is stored and no secret (`AsStored`,
  `NoSecrets`), with the page's default where a field is zero or empty, and what
  a finished start-up has read is stored (`Booted`), so that a save of such inputs
  writes what is there already, or that default.

Induction over sequences is proved rather than assumed: a set of sequences that
holds the empty one and with each its extensions holds them all
(`SequenceInduction`, from the well-foundedness of the natural numbers), and
`FlattenSeq` and the CRC are shown to be the function their recursion describes
(`FlattenIs`, `CrcRange`).

So every safety invariant that a run checks is a theorem.  Only model-checked is
what is temporal (`EventuallyTold`, `KeepsPolling`, `EventuallySent`,
`LightGoesOff`, `WizardEnds`), since the prover does not handle fairness and
`ENABLED`.

## 5. Where the code and its promises part

One run is expected to end in a violation, `satel_wedge`; `PROJECT.json` has the
quote.  The premises of other properties stand for further cases met on the way,
each with the line where it arises:

* `satel_client.cpp:236` — a task deleted between two callbacks has made some and
  not saved `s_prev`; after a restart that change may never be told (`~cut` in
  `ToldMatchesPrev`).  Deleted with the mutex taken, it blocks the next task.
  Nothing in the tree calls `satel_client_stop` today.
* `satel_client.cpp:147` — an incomplete reply counts as success, so the poll
  "right after connecting" may end with registers not read.
* `tuya_client.cpp:107` — the table is cleared on each reconnect, so every
  datapoint is reported again although it did not change (what
  `RepeatsOnlyFirst` allows).
* `tuya_client.cpp:297` — a round can outlast the margin of 300 s, and requests
  then carry an expired token.  With requests of 10 s, 0.2 s between devices and
  one changed datapoint each, whose webhook takes 5 s, a turn is 15.2 s.
  `TokenLive` then gives the devices 1 to 19 of a round a live token, and not the
  20th: its request starts after 19 turns, 288.8 s, and with a token request of
  10 s before and its own 10 s after that is beyond 301 s.  A cycle is 10 + 20 *
  15.2 + 10 = 324 s, so no token is in use more than 33 s past its expiry, and a
  command signed while the next one is requested 10 s more.  More changed
  datapoints make longer turns, of which the same formula speaks.  A reply that
  refuses the expired token is `success=false`, which nothing looks at until the
  next check replaces the token.
* `tuya_client.cpp:355` — the index is checked before the mutex is taken; the
  list may shrink in between and the copy is of a slot past its end.
* `main.cpp:43` and `:63` — the off command and `xTaskCreate` are not looked at;
  one loss leaves the light on (why `LightGoesOff` allows `faults > 0`).
* `rate_limit.cpp:16` — two tasks may claim the same free entry; a key can lose
  its entry and start over (why the properties say `~met`).
* `tuya_http.cpp:129` — two tasks inside `do_request` at once share `s_rbuf`, so
  what `tuya_client.cpp:210` calls the status of one device may be another reply
  (why `OwnReplyAlone` and `InBoundsAlone` say "alone").
* `main.cpp:63` — a second trigger within the delay starts a second off task, and
  the first one's command cuts its light short; README.md:51 promises "after a
  given time" (why `HeldFullTimeAlone` says "alone").
* `event_log.cpp:20` — two tasks that log at once may fill one slot with halves of
  both, lose one, or take `s_count` down (why `RingIsLastAlone` says "alone").
  Even alone, the oldest entry of a full ring is blank while it is replaced, and
  between the stores of `s_head` and `s_count` a ring that is not full is listed
  from its second entry on.
* `event_log.cpp:54` — when 64 entries do not fit, the listing keeps the oldest and
  leaves out the newest, while its `count` still says 64.
* `main.cpp:90`, `http_server.cpp:98` — the mode is not stored: a restart goes back
  to NIGHT although README.md:33 counts the mode among the steps saved at once
  (why `modes` is in `Untracked`).
* `index.html:163`, `:194`, `:427` — an empty region, a port 0 or an acknowledgement
  time 0 is shown as the page's default, and DALEJ stores the default though
  nobody typed: on a new device going through the escalation stores 300 s for 0
  (why `UneditedKeeps` allows `Refilled`).
* `index.html:226` — the panel's step is marked before its credentials are sent;
  when that request fails the step stays marked (why `panel` is in `Untracked`).
* `index.html:503` — the list of steps stays active during a save and `advance` is
  called with the step shown when the answer comes: a click marks a step that was
  not saved (why `ResumePoint` says `~skipped`).
* `index.html:246`, `http_server.cpp:95` — the broker's page shows the broker in
  use; DALEJ writes it over one that was stored since the start (why
  `UneditedKeeps` leaves `mqtt` out).
* `index.html:489` — when the GET of a step is late or fails, its inputs are empty
  and DALEJ is active: it stores the empty ones (why `UneditedKeeps` asks for
  inputs that are as the GET filled them).
* `config_manager.cpp:4` — a write that fails is not noticed (why three properties
  say `~failed`); `web_tls.cpp:86` — after one of the two `nvs_set_str` calls
  failed, certificate and key in flash may be of different pairs for good.
* `http_server.cpp:148` — one `httpd_req_recv` and 2048 bytes at most: a list of
  scenes that the page lets one enter may be too long to be saved.
* `http_server.cpp:86` — `root_get` answers a built-in text; the wizard's page is
  served by no handler of the tree.
* `satel_protocol.cpp:62` — `SatelClient` takes the CRC to be perfect.  A head of
  one connection glued to the tail of another passes it once in 2^16.

## 6. What is not modelled

* `satel_client_test`, `tuya_client_test`, `tuya_client_stop`: no caller in the
  tree.  IP inputs: plain requests that leave no state.  The empty-host branch of
  `satel_task`: `main.cpp` always writes a host.
* The wording of JSON and of logs; signing; the fields of a device other than its
  id and one datapoint.  `s_reconnects` saturates.
* Anybody else switching the light.
* Basic Auth and its encoding, the texts of the JSON bodies and what a body that
  is cut does: a bad body is a refused request.  A `step` beyond 15 and the
  `uint8_t` it is kept in: the page has 11 steps and sends nothing else.
* The switch of the escalation, which the page shows off until the GET is answered;
  its levels, kept in a variable, are `plain`.  In the mode's select "empty" is
  HOME, which it shows until then.
* Clients of the panel other than one browser with the wizard's page.
* The components marked `not_modelled` in `PROJECT.json`: `webhook_client` and
  `mqtt_bridge`, whose calls nobody waits for the outcome of; `ota_manager` and
  `hw_watchdog`, which are a restart to everybody else; `system_services`, whose
  SNTP is `ClockJump` of `TuyaToken`; `mdns_wrapper` and the empty files.
* The composition of the bridge as a whole.  Where two components meet, each model
  has the other as its environment: an edge of `SatelClient` is a trigger of
  `NightRule`, a lost or mixed reply of `TuyaHttp` a reply of another request in
  `TuyaClient` and a lost command in `NightRule`, a restart of `Device` a deletion
  of the tasks.  A composition adds the dropped edge (`main.cpp:50`) and the token
  written while a command is signed (`tuya_client.cpp:254`), of which the code
  promises nothing.

## 7. Plan

Written, in this order, because the two clients and the rule are the bridge and
the panel configures it: `SatelClient`, `SatelCmdQueue`/`CommandFifo`,
`SatelFrame`, `TuyaHttp`, `TuyaClient`, `TuyaToken`, `NightRule`, `RateLimit`,
`EventLog`, the chain from `ConfigStore` to `Wizard`, and the proofs above.

Next: the status structures of the webhook and MQTT clients, written by several
tasks, if a promise about them is found.
