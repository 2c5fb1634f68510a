----------------------------- MODULE NightRule -----------------------------
(***************************************************************************)
(* The night rule of main.cpp: zone 1 violated, mode NIGHT and the time in *)
(* the window switch the light on, and a task of its own switches it off   *)
(* after auto_off_ms (on_zone_change, delayed_light_off_task), with the    *)
(* conditions of components/automation_modes/automation_modes.cpp.         *)
(*                                                                         *)
(* on_zone_change runs in satel_task, one call at a time; every off task   *)
(* is a FreeRTOS task.  Time passes between any two steps.  The light is   *)
(* what the Tuya cloud made of the commands; nobody else switches it here. *)
(***************************************************************************)
EXTENDS Integers

CONSTANTS
    Modes, Night,    \* bridge_mode_t and g_night_rule.only_mode
    Day, From, To,   \* minutes of a day, and g_night_rule's window
    AutoOff,         \* auto_off_ms
    MaxTriggers,     \* bound on the runs of the rule
    MaxFaults        \* bound on commands lost and tasks not created

ASSUME NightRuleAssumption ==
    /\ Night \in Modes
    /\ Day \in Nat /\ From \in 0..(Day - 1) /\ To \in 0..(Day - 1)
    /\ AutoOff \in Nat /\ MaxTriggers \in Nat /\ MaxFaults \in Nat

VARIABLES
    clock,      \* minute of the day
    mode,       \* s_status.current_mode
    pc,         \* on_zone_change
    now,        \* its local: the time it was called
    triggers,   \* runs of the rule so far: the off task of run n is n
    off,        \* the off tasks
    left,       \* what each has still to wait
    light,
    age,        \* time since the last on command took effect, up to AutoOff
    overlapped, \* ghost: a command to switch on was sent before an off task ended
    faults

rule == <<pc, now, triggers>>
tasks == <<off, left>>
vars == <<clock, mode, rule, tasks, light, age, overlapped, faults>>

Tasks == 1..MaxTriggers

TypeOK ==
    /\ clock \in 0..(Day - 1) /\ mode \in Modes
    /\ pc \in {"idle", "post", "match", "command", "create"}
    /\ now \in 0..(Day - 1) /\ triggers \in 0..MaxTriggers
    /\ off \in [Tasks -> {"none", "delay", "done"}]
    /\ left \in [Tasks -> 0..AutoOff]
    /\ light \in BOOLEAN /\ age \in 0..AutoOff
    /\ overlapped \in BOOLEAN /\ faults \in 0..MaxFaults

\* app_main sets MODE_NIGHT before it starts the clients.
Init ==
    /\ clock \in 0..(Day - 1) /\ mode = Night
    /\ pc = "idle" /\ now = clock /\ triggers = 0
    /\ off = [n \in Tasks |-> "none"] /\ left = [n \in Tasks |-> 0]
    /\ light = FALSE /\ age = 0 /\ overlapped = FALSE /\ faults = 0

----------------------------------------------------------------------------
\* automation_modes_quiet_hours: both ends belong to the window, which may
\* cross midnight; NoMidnight does not know that.
NoMidnight(t) == From <= t /\ t <= To
QuietHours(t) ==
    IF From <= To THEN From <= t /\ t <= To ELSE t >= From \/ t <= To

\* automation_modes_match
Match(t) == mode = Night /\ QuietHours(t)

\* What the handler does next after the light: the off task comes second.
\* TaskFirst creates it before the command.
TaskFirst(l) == CASE l = "match" -> "create" [] l = "create" -> "command"
                  [] l = "command" -> "idle"
Following(l) == CASE l = "match" -> "command" [] l = "command" -> "create"
                  [] l = "create" -> "idle"

\* The satel client reports an edge of zone 1; limited or not, the rule goes
\* on only with a violation that rate_limit_allow lets through.
ZoneEdge ==
    /\ pc = "idle" /\ triggers < MaxTriggers
    /\ now' = clock /\ pc' = "post"
    /\ UNCHANGED <<clock, mode, triggers, tasks, light, age, overlapped, faults>>

\* MQTT and the webhook are told; the latter waits for its answer.
Posted ==
    /\ pc = "post" /\ pc' = "match"
    /\ UNCHANGED <<clock, mode, now, triggers, tasks, light, age, overlapped,
                   faults>>

Decide ==
    /\ pc = "match"
    /\ IF Match(now)
       THEN pc' = Following("match") /\ triggers' = triggers + 1
       ELSE pc' = "idle" /\ UNCHANGED triggers
    /\ UNCHANGED <<clock, mode, now, tasks, light, age, overlapped, faults>>

\* What becomes of a command: it is carried out, or it is lost, or only its
\* answer is; tuya_cmd_bool's result is not looked at.
Commanded(value) ==
    \/ light' = value /\ UNCHANGED faults
    \/ faults < MaxFaults /\ faults' = faults + 1 /\ light' \in {light, value}

CommandOn ==
    /\ pc = "command" /\ pc' = Following("command")
    /\ Commanded(TRUE)
    /\ age' = IF light' /\ (faults' = faults \/ ~light) THEN 0 ELSE age
    /\ overlapped' = (overlapped \/ \E n \in Tasks \ {triggers} : off[n] = "delay")
    /\ UNCHANGED <<clock, mode, now, triggers, tasks>>

\* vTaskDelay(pdMS_TO_TICKS(auto_off_ms)); NoDelay leaves the call out,
\* Unscaled the macro.
NoDelay == 0
Unscaled == 10 * AutoOff
FullDelay == AutoOff

\* xTaskCreate, whose result is not looked at either
CreateOff ==
    /\ pc = "create" /\ pc' = Following("create")
    /\ \/ /\ off' = [off EXCEPT ![triggers] = "delay"]
          /\ left' = [left EXCEPT ![triggers] = FullDelay]
          /\ UNCHANGED faults
       \/ faults < MaxFaults /\ faults' = faults + 1 /\ UNCHANGED tasks
    /\ UNCHANGED <<clock, mode, now, triggers, light, age, overlapped>>

\* delayed_light_off_task after its vTaskDelay; TurnOn has the wrong value.
TurnOn == TRUE
SwitchOff == FALSE
CommandOff(n) ==
    /\ off[n] = "delay" /\ left[n] = 0
    /\ Commanded(SwitchOff)
    /\ off' = [off EXCEPT ![n] = "done"]
    /\ UNCHANGED <<clock, mode, rule, left, age, overlapped>>

\* mode_post
SetMode ==
    /\ mode' \in Modes
    /\ UNCHANGED <<clock, rule, tasks, light, age, overlapped, faults>>

Tick ==
    /\ clock' = (clock + 1) % Day
    /\ left' = [n \in Tasks |-> IF left[n] > 0 THEN left[n] - 1 ELSE 0]
    /\ age' = IF age < AutoOff THEN age + 1 ELSE age
    /\ UNCHANGED <<mode, rule, off, light, overlapped, faults>>

Handler == Posted \/ Decide \/ CommandOn \/ CreateOff

Next ==
    \/ ZoneEdge \/ Posted \/ Decide \/ CommandOn \/ CreateOff
    \/ \E n \in Tasks : CommandOff(n)
    \/ SetMode \/ Tick

Spec == Init /\ [][Next]_vars

\* Time passes, satel_task and the off tasks run, and requests return.
FairSpec ==
    /\ Spec /\ WF_vars(Handler) /\ WF_vars(Tick)
    /\ \A n \in Tasks : WF_vars(CommandOff(n))

----------------------------------------------------------------------------
\* While no command is lost, a light the rule has switched on has an off task
\* waiting, or the handler is about to create it: no interleaving of on
\* commands, off commands and tasks leaves the light on for good.
LightCovered ==
    light /\ faults = 0 =>
        pc = "create" \/ \E n \in Tasks : off[n] = "delay"

\* The light is not switched off earlier than auto_off_ms after the last
\* command that switched it on, when no two runs of the rule overlap.
HeldFullTimeAlone ==
    [][light /\ ~light' /\ ~overlapped => age = AutoOff]_vars

\* The light the rule has switched on is switched off again, unless a command
\* is lost or an off task not created: neither is retried (main.cpp:43, :63).
LightGoesOff == light ~> (~light \/ faults > 0)

\* With the mode NIGHT the rule runs for exactly the calls of the window, by a
\* definition of it that does not ask where midnight lies: a walk from From
\* that ends at To.
RunsInWindow ==
    [][pc = "match" =>
         (triggers' > triggers
            <=> /\ mode = Night
                /\ \E d \in 0..((To - From) % Day) : now = (From + d) % Day)]_pc
=============================================================================
