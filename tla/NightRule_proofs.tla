-------------------------- MODULE NightRule_proofs --------------------------
(***************************************************************************)
(* What holds of the night rule for every window, delay and number of      *)
(* triggers and faults.                                                    *)
(***************************************************************************)
EXTENDS NightRule, TLAPS

Minutes == 0..(Day - 1)

LEMMA DayPositive == Day \in Nat \ {0} /\ From \in Minutes /\ To \in Minutes
  BY NightRuleAssumption DEF Minutes

\* A minute after the last one of the day is of the next day.
LEMMA WrapOnce ==
    ASSUME NEW t \in 0..(2 * Day - 1)
    PROVE  t % Day = IF t < Day THEN t ELSE t - Day
  <1>1. CASE t < Day
    BY <1>1, DayPositive
  <1>2. CASE t >= Day
    BY <1>2, DayPositive
  <1>3. QED
    BY <1>1, <1>2, DayPositive

LEMMA WrapBack ==
    ASSUME NEW t \in (1 - Day)..(-1) PROVE t % Day = t + Day
  BY DayPositive

\* The window is the walk from its first minute to its last, wherever midnight
\* lies.
LEMMA QuietWalk ==
    ASSUME NEW t \in Minutes
    PROVE  QuietHours(t) <=> \E d \in 0..((To - From) % Day) : t = (From + d) % Day
  <1>1. (To - From) % Day = IF From <= To THEN To - From ELSE To - From + Day
    <2>1. CASE From <= To
      <3>1. To - From \in 0..(2 * Day - 1) /\ To - From < Day
        BY <2>1, DayPositive DEF Minutes
      <3>2. QED
        BY <2>1, <3>1, WrapOnce
    <2>2. CASE From > To
      <3>1. To - From \in (1 - Day)..(-1)
        BY <2>2, DayPositive DEF Minutes
      <3>2. (To - From) % Day = To - From + Day
        BY <3>1, WrapBack
      <3>3. QED
        BY <2>2, <3>2, DayPositive DEF Minutes
    <2>3. QED
      BY <2>1, <2>2, DayPositive DEF Minutes
  <1>2. \A d \in 0..(Day - 1) :
          (From + d) % Day = IF From + d < Day THEN From + d ELSE From + d - Day
    <2> TAKE d \in 0..(Day - 1)
    <2>1. From + d \in 0..(2 * Day - 1)
      BY DayPositive DEF Minutes
    <2>2. QED
      BY <2>1, WrapOnce, DayPositive DEF Minutes
  <1>3. CASE From <= To
    <2>1. ASSUME From <= t, t <= To
          PROVE  \E d \in 0..((To - From) % Day) : t = (From + d) % Day
      <3>1. t - From \in 0..(To - From) /\ t - From \in 0..(Day - 1)
        BY <2>1, DayPositive DEF Minutes
      <3>2. (From + (t - From)) % Day = t
        BY <1>2, <3>1, DayPositive DEF Minutes
      <3>3. QED
        BY <1>1, <1>3, <3>1, <3>2
    <2>2. ASSUME NEW d \in 0..((To - From) % Day), t = (From + d) % Day
          PROVE  From <= t /\ t <= To
      <3>1. d \in 0..(To - From) /\ d \in 0..(Day - 1) /\ From + d < Day
        BY <1>1, <1>3, <2>2, DayPositive DEF Minutes
      <3>2. t = From + d
        BY <1>2, <2>2, <3>1
      <3>3. QED
        BY <3>1, <3>2, DayPositive DEF Minutes
    <2>3. QED
      BY <1>3, <2>1, <2>2 DEF QuietHours
  <1>4. CASE From > To
    <2>1. ASSUME t >= From \/ t <= To
          PROVE  \E d \in 0..((To - From) % Day) : t = (From + d) % Day
      <3>1. CASE t >= From
        <4>1. t - From \in 0..(To - From + Day) /\ t - From \in 0..(Day - 1)
          BY <3>1, DayPositive DEF Minutes
        <4>2. (From + (t - From)) % Day = t
          BY <1>2, <4>1, DayPositive DEF Minutes
        <4>3. t - From \in 0..((To - From) % Day)
          BY <1>1, <1>4, <4>1, DayPositive DEF Minutes
        <4>4. QED
          BY <4>2, <4>3
      <3>2. CASE t <= To
        <4>1. t - From + Day \in 0..(To - From + Day)
              /\ t - From + Day \in 0..(Day - 1)
          BY <1>4, <3>2, DayPositive DEF Minutes
        <4>2. (From + (t - From + Day)) % Day = t
          BY <1>2, <4>1, DayPositive DEF Minutes
        <4>3. t - From + Day \in 0..((To - From) % Day)
          BY <1>1, <1>4, <4>1, DayPositive DEF Minutes
        <4>4. QED
          BY <4>2, <4>3
      <3>3. QED
        BY <2>1, <3>1, <3>2
    <2>2. ASSUME NEW d \in 0..((To - From) % Day), t = (From + d) % Day
          PROVE  t >= From \/ t <= To
      <3>1. d \in 0..(To - From + Day) /\ d \in 0..(Day - 1)
        BY <1>1, <1>4, DayPositive DEF Minutes
      <3>2. t = IF From + d < Day THEN From + d ELSE From + d - Day
        BY <1>2, <2>2, <3>1
      <3>3. QED
        BY <3>1, <3>2, DayPositive DEF Minutes
    <2>3. QED
      BY <1>4, <2>1, <2>2, DayPositive DEF QuietHours, Minutes
  <1>5. QED
    BY <1>3, <1>4, DayPositive DEF Minutes

----------------------------------------------------------------------------
\* Run n has the off task n; the run under way has none yet.

RunInv ==
    /\ \A n \in Tasks : off[n] = "none" \/ n <= triggers
    /\ pc \in {"post", "match"} => triggers < MaxTriggers
    /\ pc \in {"command", "create"} => triggers \in Tasks /\ off[triggers] = "none"

Inv == TypeOK /\ RunInv

LEMMA InvInit == Init => Inv
  <1> SUFFICES ASSUME Init PROVE TypeOK /\ RunInv
    BY DEF Inv
  <1>1. off = [n \in Tasks |-> "none"] /\ left = [n \in Tasks |-> 0]
    BY DEF Init
  <1>2. light \in BOOLEAN /\ overlapped \in BOOLEAN /\ pc = "idle"
    BY DEF Init
  <1>3. /\ clock \in 0..(Day - 1) /\ now = clock /\ mode = Night
        /\ triggers = 0 /\ age = 0 /\ faults = 0
    BY DEF Init
  <1>4. QED
    BY <1>1, <1>2, <1>3, NightRuleAssumption DEF TypeOK, RunInv

LEMMA FaultCounted ==
    ASSUME TypeOK, faults < MaxFaults PROVE faults + 1 \in 0..MaxFaults
  BY NightRuleAssumption DEF TypeOK

\* The light after a command, whatever becomes of the command.
LEMMA CommandedTyped ==
    ASSUME TypeOK, NEW value \in BOOLEAN, Commanded(value)
    PROVE  light' \in BOOLEAN /\ faults' \in 0..MaxFaults /\ faults' >= faults
           /\ (faults' = 0 => light' = value)
  <1>1. CASE light' = value /\ UNCHANGED faults
    <2>1. light' \in BOOLEAN
      BY <1>1
    <2>2. faults' \in 0..MaxFaults /\ faults' >= faults
      BY <1>1, NightRuleAssumption DEF TypeOK
    <2>3. QED
      BY <1>1, <2>1, <2>2
  <1>2. CASE faults < MaxFaults /\ faults' = faults + 1 /\ light' \in {light, value}
    <2>1. light' \in BOOLEAN
      BY <1>2, Zenon DEF TypeOK
    <2>2. faults' \in 0..MaxFaults /\ faults' >= faults /\ faults' # 0
      BY <1>2, FaultCounted, NightRuleAssumption DEF TypeOK
    <2>3. QED
      BY <2>1, <2>2, Zenon
  <1>3. QED
    BY <1>1, <1>2 DEF Commanded

LEMMA InvStep == ASSUME Inv, [Next]_vars PROVE Inv'
  <1> USE NightRuleAssumption DEF Inv
  <1>1. CASE ZoneEdge \/ Posted
    BY <1>1 DEF ZoneEdge, Posted, TypeOK, RunInv, tasks
  <1>2. CASE Decide
    <2>1. triggers < MaxTriggers => triggers + 1 \in Tasks
      BY DEF TypeOK, Tasks
    <2>2. QED
      BY <1>2, <2>1 DEF Decide, Following, TypeOK, RunInv, tasks, Tasks
  <1>3. CASE CommandOn
    <2>1. light' \in BOOLEAN /\ faults' \in 0..MaxFaults
      BY <1>3, CommandedTyped DEF CommandOn
    <2>2. overlapped' \in BOOLEAN
      BY <1>3, Zenon DEF CommandOn, TypeOK
    <2>3. age' \in 0..AutoOff
      BY <1>3 DEF CommandOn, TypeOK
    <2>4. pc' = "create" /\ UNCHANGED <<clock, mode, now, triggers, off, left>>
      BY <1>3 DEF CommandOn, Following, tasks
    <2>5. pc = "command"
      BY <1>3 DEF CommandOn
    <2>6. QED
      BY <2>1, <2>2, <2>3, <2>4, <2>5 DEF TypeOK, RunInv
  <1>4. CASE CreateOff
    <2>1. faults' \in 0..MaxFaults
      BY <1>4, FaultCounted DEF CreateOff, TypeOK
    <2>2. off' \in [Tasks -> {"none", "delay", "done"}] /\ left' \in [Tasks -> 0..AutoOff]
      BY <1>4 DEF CreateOff, FullDelay, tasks, TypeOK
    <2>3. \A n \in Tasks : off'[n] = off[n] \/ n = triggers
      BY <1>4 DEF CreateOff, tasks, TypeOK
    <2>4. pc' = "idle" /\ UNCHANGED <<clock, mode, now, triggers, age>>
          /\ UNCHANGED light /\ UNCHANGED overlapped
      BY <1>4 DEF CreateOff, Following
    <2>5. \A n \in Tasks : off'[n] = "none" \/ n <= triggers
      BY <2>3, <2>4 DEF RunInv, TypeOK, Tasks
    <2>6. QED
      BY <2>1, <2>2, <2>4, <2>5 DEF TypeOK, RunInv
  <1>5. ASSUME NEW n \in Tasks, CommandOff(n) PROVE Inv'
    <2>1. light' \in BOOLEAN /\ faults' \in 0..MaxFaults
      BY <1>5, CommandedTyped DEF CommandOff, SwitchOff
    <2>2. /\ off' = [off EXCEPT ![n] = "done"] /\ off[n] = "delay"
          /\ UNCHANGED <<clock, mode, pc, now, triggers, left, age>>
          /\ UNCHANGED overlapped
      BY <1>5 DEF CommandOff, rule
    <2>3. QED
      BY <2>1, <2>2 DEF TypeOK, RunInv
  <1>6. CASE SetMode
    BY <1>6 DEF SetMode, TypeOK, RunInv, rule, tasks
  <1>7. CASE Tick
    <2>1. clock' \in 0..(Day - 1)
      BY <1>7, DayPositive DEF Tick, TypeOK
    <2>2. left' \in [Tasks -> 0..AutoOff]
      BY <1>7 DEF Tick, TypeOK
    <2>3. age' \in 0..AutoOff
      BY <1>7 DEF Tick, TypeOK
    <2>4. UNCHANGED <<mode, pc, now, triggers, off, light, faults>>
          /\ UNCHANGED overlapped
      BY <1>7 DEF Tick, rule
    <2>5. QED
      BY <2>1, <2>2, <2>3, <2>4 DEF TypeOK, RunInv
  <1>8. CASE UNCHANGED vars
    BY <1>8 DEF vars, rule, tasks, TypeOK, RunInv
  <1>9. QED
    BY <1>1, <1>2, <1>3, <1>4, <1>5, <1>6, <1>7, <1>8 DEF Next

LEMMA InvInvariant == Spec => []Inv
  <1>1. Inv /\ [Next]_vars => Inv'
    BY InvStep
  <1>2. QED
    BY InvInit, <1>1, PTL DEF Spec

\* Every variable keeps its range, for any day, window and delay.
THEOREM TypeCorrect == Spec => []TypeOK
  <1>1. Inv => TypeOK
    BY DEF Inv
  <1>2. QED
    BY InvInvariant, <1>1, PTL

----------------------------------------------------------------------------
\* The light and its tasks.

LEMMA CoveredStep ==
    ASSUME Inv, LightCovered, [Next]_vars PROVE LightCovered'
  <1> SUFFICES ASSUME light', faults' = 0
               PROVE  pc' = "create" \/ \E n \in Tasks : off'[n] = "delay"
    BY DEF LightCovered
  <1>1. CASE ZoneEdge \/ Posted \/ Decide
    <2>1. UNCHANGED <<light, faults, off>> /\ pc # "create"
      BY <1>1 DEF ZoneEdge, Posted, Decide, tasks
    <2>2. \E n \in Tasks : off[n] = "delay"
      <3>1. light /\ faults = 0
        BY <2>1, Zenon
      <3>2. QED
        BY <2>1, <3>1 DEF LightCovered
    <2>3. QED
      BY <2>1, <2>2
  <1>2. CASE CommandOn
    BY <1>2 DEF CommandOn, Following
  <1>3. CASE CreateOff
    <2>1. triggers \in Tasks /\ off \in [Tasks -> {"none", "delay", "done"}]
      BY <1>3 DEF CreateOff, Inv, TypeOK, RunInv
    <2>2. off' = [off EXCEPT ![triggers] = "delay"]
      BY <1>3, NightRuleAssumption DEF CreateOff, Inv, TypeOK
    <2>3. QED
      BY <2>1, <2>2
  <1>4. ASSUME NEW n \in Tasks, CommandOff(n) PROVE FALSE
    <2>1. faults' = 0 => light' = FALSE
      BY <1>4, CommandedTyped DEF CommandOff, SwitchOff, Inv
    <2>2. QED
      BY <2>1, Zenon
  <1>5. CASE SetMode \/ Tick \/ UNCHANGED vars
    <2>1. UNCHANGED <<light, faults, off, pc>>
      BY <1>5 DEF SetMode, Tick, vars, rule, tasks
    <2>2. light /\ faults = 0
      BY <2>1, Zenon
    <2>3. QED
      BY <2>1, <2>2 DEF LightCovered
  <1>6. QED
    BY <1>1, <1>2, <1>3, <1>4, <1>5 DEF Next

\* As long as no command is lost and no task refused, a light that is on has
\* an off task that waits, or is about to be given one: for any number of
\* triggers, however on commands, off commands and tasks interleave.
THEOREM LightCoveredHolds == Spec => []LightCovered
  <1>1. Init => LightCovered
    BY DEF Init, LightCovered
  <1>2. Inv /\ LightCovered /\ [Next]_vars => LightCovered'
    BY CoveredStep
  <1>3. QED
    BY InvInvariant, <1>1, <1>2, PTL DEF Spec

\* As long as no two runs have overlapped, an off task has waited no longer
\* than the light has been on.
WaitInv == ~overlapped => \A n \in Tasks : off[n] = "delay" => age + left[n] >= AutoOff

LEMMA WaitStep == ASSUME Inv, WaitInv, [Next]_vars PROVE WaitInv'
  <1> SUFFICES ASSUME ~overlapped', NEW n \in Tasks, off'[n] = "delay"
               PROVE  age' + left'[n] >= AutoOff
    BY DEF WaitInv
  <1>1. ~overlapped
    BY Zenon
    DEF Next, ZoneEdge, Posted, Decide, CommandOn, CreateOff, CommandOff,
        SetMode, Tick, vars
  <1>2. \A m \in Tasks : off[m] = "delay" => age + left[m] >= AutoOff
    BY <1>1 DEF WaitInv
  <1>3. CASE CommandOn
    <2>1. off' = off /\ pc = "command"
      BY <1>3 DEF CommandOn, tasks
    <2>2. ~ \E m \in Tasks \ {triggers} : off[m] = "delay"
      BY <1>3, Zenon DEF CommandOn
    <2>3. off[triggers] = "none"
      BY <2>1 DEF Inv, RunInv
    <2>4. QED
      BY <2>1, <2>2, <2>3
  <1>4. CASE CreateOff
    <2>1. UNCHANGED age
      BY <1>4 DEF CreateOff
    <2>2. CASE n = triggers /\ off' = [off EXCEPT ![triggers] = "delay"]
               /\ left' = [left EXCEPT ![triggers] = FullDelay]
      BY <2>1, <2>2, NightRuleAssumption DEF FullDelay, Inv, TypeOK
    <2>3. CASE off'[n] = off[n] /\ left'[n] = left[n]
      BY <1>2, <2>1, <2>3
    <2>4. QED
      BY <1>4, <2>2, <2>3 DEF CreateOff, tasks, Inv, TypeOK
  <1>5. ASSUME NEW m \in Tasks, CommandOff(m) PROVE age' + left'[n] >= AutoOff
    <2>1. off' = [off EXCEPT ![m] = "done"] /\ UNCHANGED <<left, age>>
      BY <1>5 DEF CommandOff
    <2>2. off[n] = "delay"
      BY <2>1 DEF Inv, TypeOK
    <2>3. QED
      BY <1>2, <2>1, <2>2
  <1>6. CASE Tick
    <2>1. /\ left' = [m \in Tasks |-> IF left[m] > 0 THEN left[m] - 1 ELSE 0]
          /\ age' = IF age < AutoOff THEN age + 1 ELSE age
          /\ off' = off
      BY <1>6 DEF Tick
    <2>2. age + left[n] >= AutoOff /\ left[n] \in Nat /\ age \in Nat
      BY <1>2, <2>1 DEF Inv, TypeOK
    <2>3. left'[n] = IF left[n] > 0 THEN left[n] - 1 ELSE 0
      BY <2>1
    <2>4. QED
      BY <2>1, <2>2, <2>3, NightRuleAssumption
  <1>7. CASE ZoneEdge \/ Posted \/ Decide \/ SetMode \/ UNCHANGED vars
    <2>1. UNCHANGED <<off, left, age>>
      BY <1>7 DEF ZoneEdge, Posted, Decide, SetMode, vars, tasks
    <2>2. QED
      BY <1>2, <2>1
  <1>8. QED
    BY <1>3, <1>4, <1>5, <1>6, <1>7 DEF Next

LEMMA HeldStep ==
    ASSUME Inv, WaitInv, [Next]_vars, light, ~light', ~overlapped
    PROVE  age = AutoOff
  <1>1. PICK n \in Tasks : CommandOff(n)
    <2>1. CASE CommandOn
      BY <2>1, Zenon DEF CommandOn, Commanded
    <2>2. CASE ZoneEdge \/ Posted \/ Decide \/ CreateOff \/ SetMode \/ Tick
               \/ UNCHANGED vars
      BY <2>2, Zenon DEF ZoneEdge, Posted, Decide, CreateOff, SetMode, Tick, vars
    <2>3. QED
      BY <2>1, <2>2 DEF Next
  <1>2. age + 0 >= AutoOff /\ age \in 0..AutoOff
    BY <1>1 DEF CommandOff, WaitInv, Inv, TypeOK
  <1>3. QED
    BY <1>2, NightRuleAssumption

\* No off command ends a light earlier than auto_off_ms after the last command
\* that switched it on, when no two runs of the rule have overlapped.
THEOREM HeldFullTimeHolds == Spec => HeldFullTimeAlone
  <1>1. Init => WaitInv
    BY DEF Init, WaitInv
  <1>2. Inv /\ WaitInv /\ [Next]_vars => WaitInv'
    BY WaitStep
  <1>3. Inv /\ WaitInv /\ [Next]_vars =>
          [light /\ ~light' /\ ~overlapped => age = AutoOff]_vars
    BY HeldStep
  <1>4. QED
    BY InvInvariant, <1>1, <1>2, <1>3, PTL DEF Spec, HeldFullTimeAlone

\* The rule runs for exactly the calls in its window, for every window and
\* every length of the day.
THEOREM RunsInWindowHolds == Spec => RunsInWindow
  <1> DEFINE Runs == triggers' > triggers
                       <=> /\ mode = Night
                           /\ \E d \in 0..((To - From) % Day) : now = (From + d) % Day
  <1>1. ASSUME Inv, [Next]_vars PROVE [pc = "match" => Runs]_pc
    <2> SUFFICES ASSUME pc' # pc, pc = "match" PROVE Runs
      OBVIOUS
    <2>1. Decide
      BY <1>1
      DEF Next, ZoneEdge, Posted, CommandOn, CreateOff, CommandOff, SetMode,
          Tick, vars, rule
    <2>2. triggers' > triggers <=> Match(now)
      BY <1>1, <2>1 DEF Decide, Inv, TypeOK
    <2>3. Match(now) <=> mode = Night /\ QuietHours(now)
      BY DEF Match
    <2>4. QED
      BY <1>1, <2>2, <2>3, QuietWalk DEF Inv, TypeOK, Minutes
  <1>2. QED
    BY InvInvariant, <1>1, PTL DEF Spec, RunsInWindow
=============================================================================
