--------------------------- MODULE Wizard_proofs ---------------------------
(***************************************************************************)
(* What holds of the wizard for every list of steps and any number of      *)
(* edits, restarts, failing writes and lost requests.                      *)
(***************************************************************************)
EXTENDS Wizard, TLAPS

\* A step of the wizard has a key.
LEMMA Steps ==
    /\ Last \in Nat /\ Last + 1 = Len(STEPS) /\ 0 \in Indices /\ Last \in Indices
    /\ \A i \in Indices : Key(i) \in Keys \cup {"modes", "summary"}
    /\ \A i \in Indices : Key(i) = "summary" <=> i = Last
    /\ \A i \in Indices : i \in Nat /\ i <= Last
  <1>1. STEPS \in Seq(Keys \cup {"modes", "summary"}) /\ Len(STEPS) \in 1..15
    BY WizardAssumption
  <1>2. \A i \in Indices : i \in Nat /\ i <= Last /\ i + 1 \in 1..Len(STEPS)
    BY <1>1 DEF Last, Indices
  <1>3. \A i \in Indices : Key(i) \in Keys \cup {"modes", "summary"}
    BY <1>1, <1>2 DEF Key
  <1>4. \A i \in Indices : Key(i) = "summary" <=> i = Last
    BY WizardAssumption
  <1>5. QED
    <2>1. Last \in Nat /\ Last + 1 = Len(STEPS)
      <3>1. \A n \in 1..15 : n - 1 \in Nat /\ (n - 1) + 1 = n
        OBVIOUS
      <3>2. QED
        BY <1>1, <3>1, Zenon DEF Last
    <2>2. 0 \in Indices /\ Last \in Indices
      BY <2>1 DEF Indices
    <2>3. QED
      BY <1>2, <1>3, <1>4, <2>1, <2>2

\* A pair that is made is none of the stored ones.
LEMMA PairMade == NewPair \in 1..3
  <1>1. \E n \in 1..3 : n # cert /\ n # pkey
    <2>1. CASE cert # 1 /\ pkey # 1
      BY <2>1
    <2>2. CASE cert # 2 /\ pkey # 2
      BY <2>2
    <2>3. CASE cert # 3 /\ pkey # 3
      BY <2>3
    <2>4. QED
      BY <2>1, <2>2, <2>3
  <1>2. QED
    BY <1>1 DEF NewPair

----------------------------------------------------------------------------
\* What a write, and a handler, leaves typed.

LEMMA SaveTyped ==
    ASSUME StoreOK, NEW k \in Keys, NEW c \in Config, Save(k, c)
    PROVE  /\ stored' \subseteq Keys /\ nvs' \in [Keys -> Config]
           /\ progress' = progress
           /\ failed' \in BOOLEAN /\ troubles' \in 0..MaxTroubles
           /\ failed => failed'
  <1>1. CASE SaveFails
    <2>1. failed' \in BOOLEAN /\ (failed => failed')
      BY <1>1, Zenon DEF SaveFails
    <2>2. troubles' \in 0..MaxTroubles
      BY <1>1, StoreAssumption DEF StoreOK, SaveFails, Trouble
    <2>3. QED
      BY <1>1, <2>1, <2>2 DEF StoreOK, SaveFails
  <1>2. CASE ~SaveFails
    <2>1. /\ stored' = stored \cup {k} /\ nvs' = [nvs EXCEPT ![k] = c]
          /\ UNCHANGED <<progress, failed, troubles>>
      BY <1>2 DEF Save
    <2>2. failed' \in BOOLEAN /\ (failed => failed')
      BY <2>1, Zenon DEF StoreOK
    <2>3. troubles' \in 0..MaxTroubles
      BY <2>1, StoreAssumption DEF StoreOK
    <2>4. QED
      BY <2>1, <2>2, <2>3 DEF StoreOK
  <1>3. QED
    BY <1>1, <1>2

LEMMA BlankTyped == Blank \in Config /\ \A k : Defaults(k) \in Config
  BY StoreAssumption DEF Blank, Config, Fields, Defaults, Empty, BuiltIn

LEMMA AppliedTyped ==
    ASSUME StoreOK, NEW k \in Keys, NEW b \in Config
    PROVE  Applied(k, b) \in Config
  BY DEF StoreOK, Applied, Config

LEMMA PostTyped ==
    ASSUME StoreOK, PanelOK, NEW k, NEW b \in Config, Post(k, b)
    PROVE  /\ stored' \subseteq Keys /\ nvs' \in [Keys -> Config]
           /\ progress' = progress /\ saved' \subseteq Keys
           /\ failed' \in BOOLEAN /\ troubles' \in 0..MaxTroubles
           /\ failed => failed'
           /\ PanelOK'
           /\ saved \subseteq saved' /\ (k \in saved' \/ k = "modes")
  <1>1. CASE k \in Protected /\ ConfigPost(k, b)
    <2>1. k \in Keys /\ Save(k, Applied(k, b))
      BY <1>1 DEF Protected, Keys, ConfigPost
    <2>2. QED
      BY <1>1, <2>1, SaveTyped, AppliedTyped
      DEF ConfigPost, Stores, StoreOK, PanelOK
  <1>2. CASE k \in Lists /\ ListPost(k, b)
    <2>1. k \in Keys /\ Save(k, b)
      BY <1>2 DEF Lists, Keys, ListPost
    <2>2. QED
      BY <1>2, <2>1, SaveTyped DEF ListPost, Stores, StoreOK, PanelOK
  <1>3. CASE k = "panel" /\ AuthPost(b)
    <2>1. k \in Keys /\ Save(k, b)
      BY <1>3 DEF Keys, AuthPost
    <2>2. QED
      BY <1>3, <2>1, SaveTyped DEF AuthPost, Stores, InUse, StoreOK, PanelOK
  <1>4. CASE k = "mqtt" /\ MqttSet(b)
    <2>1. k \in Keys /\ Save(k, b)
      BY <1>4 DEF Keys, MqttSet
    <2>2. QED
      BY <1>4, <2>1, SaveTyped DEF MqttSet, Stores, StoreOK, PanelOK
  <1>5. CASE k = "webhook" /\ WebhookConfigPost(b)
    <2>1. k \in Keys /\ Save(k, b)
      BY <1>5 DEF Keys, WebhookConfigPost
    <2>2. QED
      BY <1>5, <2>1, SaveTyped
      DEF WebhookConfigPost, Stores, InUse, StoreOK, PanelOK
  <1>6. CASE k = "modes" /\ ModePost(b)
    <2>1. UNCHANGED <<stored, nvs, progress, saved, failed, troubles>>
      BY <1>6 DEF ModePost, store
    <2>2. PanelOK'
      BY <1>6 DEF ModePost, InUse, PanelOK
    <2>3. troubles' \in 0..MaxTroubles
      BY <2>1, StoreAssumption DEF StoreOK
    <2>4. failed => failed'
      BY <2>1, Zenon
    <2>5. QED
      BY <1>6, <2>1, <2>2, <2>3, <2>4 DEF StoreOK
  <1>7. QED
    BY <1>1, <1>2, <1>3, <1>4, <1>5, <1>6 DEF Post

----------------------------------------------------------------------------
\* A failed write is never forgotten.

LEMMA SaveFailed == ASSUME NEW k, NEW c, Save(k, c) PROVE ~failed' => ~failed
  BY Zenon DEF Save, SaveFails

LEMMA ProgressFailed == ASSUME NEW p, SaveProgress(p) PROVE ~failed' => ~failed
  BY Zenon DEF SaveProgress, SaveFails

LEMMA PostFailed == ASSUME NEW k, NEW b, Post(k, b) PROVE ~failed' => ~failed
  <1>1. CASE \E c : Save(k, c)
    BY <1>1, SaveFailed
  <1>2. CASE UNCHANGED failed
    BY <1>2, Zenon
  <1>3. (\E c : Save(k, c)) \/ UNCHANGED failed
    BY DEF Post, ConfigPost, ListPost, AuthPost, MqttSet, WebhookConfigPost,
           ModePost, store
  <1>4. QED
    BY <1>1, <1>2, <1>3

LEMMA AdvanceFailed ==
    ASSUME NEW i, NEW fin, WizardAdvancePost(i, fin) PROVE ~failed' => ~failed
  BY ProgressFailed DEF WizardAdvancePost

----------------------------------------------------------------------------
\* The certificate: what a step of the page leaves alone.

TlsKept == UNCHANGED <<boot, cert, pkey, tls>> /\ (~failed' => ~failed)

LEMMA DeviceKept == ASSUME UNCHANGED deviceVars PROVE TlsKept
  <1>1. UNCHANGED <<boot, cert, pkey, tls>> /\ UNCHANGED failed
    BY DEF deviceVars, tlsVars, store
  <1>2. ~failed' => ~failed
    BY <1>1, Zenon
  <1>3. QED
    BY <1>1, <1>2 DEF TlsKept

LEMMA HandledKept == ASSUME Handled, ~failed' => ~failed PROVE TlsKept
  BY DEF Handled, tlsVars, TlsKept

LEMMA AnswersKeep == ASSUME Answers PROVE TlsKept
  <1>1. CASE Opened
    <2>1. UNCHANGED deviceVars
      BY <1>1 DEF Opened, Answered, Handled, deviceVars
    <2>2. QED
      BY <2>1, DeviceKept
  <1>2. CASE OpenFails \/ RequestFails
    BY <1>2, DeviceKept DEF OpenFails, RequestFails, Refused
  <1>3. CASE Saved
    BY <1>3, PostFailed, HandledKept DEF Saved, Answered
  <1>4. CASE PanelSaved
    BY <1>4, PostFailed, HandledKept DEF PanelSaved, Answered
  <1>5. CASE Advanced \/ PanelAdvanced \/ FinishAdvanced \/ Finished
    BY <1>5, AdvanceFailed, HandledKept
    DEF Advanced, PanelAdvanced, FinishAdvanced, Finished, Answered
  <1>6. CASE ReplyLost
    <2>1. \/ \E k, b : Post(k, b)
          \/ \E i, fin : WizardAdvancePost(i, fin)
      BY <1>6 DEF ReplyLost, Busy
    <2>2. ~failed' => ~failed
      BY <2>1, PostFailed, AdvanceFailed
    <2>3. QED
      BY <1>6, <2>2, HandledKept DEF ReplyLost, AnswerLost
  <1>7. QED
    BY <1>1, <1>2, <1>3, <1>4, <1>5, <1>6 DEF Answers

LEMMA PageKeeps ==
    ASSUME Next \/ UNCHANGED vars
    PROVE  AppMain \/ Restart \/ TlsKept
  <1>1. CASE Boot \/ PowerFails
    BY <1>1 DEF Boot, PowerFails
  <1>2. CASE Answers
    BY <1>2, AnswersKeep
  <1>3. CASE Presses \/ Type \/ Back \/ Reload \/ UserReload
    BY <1>3, DeviceKept
    DEF Presses, PressSave, PressPanel, PressFinish, Press, Type, Back, Reload,
        UserReload, Load
  <1>4. ASSUME NEW i \in Indices, LoadAnswered(i) PROVE TlsKept
    <2>1. UNCHANGED deviceVars
      BY <1>4 DEF LoadAnswered, Answered, Handled, deviceVars
    <2>2. QED
      BY <2>1, DeviceKept
  <1>5. ASSUME NEW i \in Indices, LoadFails(i) \/ ClickStep(i) PROVE TlsKept
    BY <1>5, DeviceKept DEF LoadFails, Refused, ClickStep
  <1>6. CASE UNCHANGED vars
    <2>1. UNCHANGED deviceVars
      BY <1>6 DEF vars
    <2>2. QED
      BY <2>1, DeviceKept
  <1>7. QED
    BY <1>1, <1>2, <1>3, <1>4, <1>5, <1>6 DEF Next

\* No step forgets a failed write.
LEMMA NotForgotten == ASSUME Next \/ UNCHANGED vars PROVE ~failed' => ~failed
  <1>1. CASE TlsKept
    BY <1>1 DEF TlsKept
  <1>2. CASE Restart
    BY <1>2, Zenon DEF Restart, store
  <1>3. CASE AppMain
    <2>1. CASE UNCHANGED store
      BY <2>1, Zenon DEF store
    <2>2. CASE \E k, c : Save(k, c)
      BY <2>2, SaveFailed
    <2>3. ASSUME NEW ok, SetStr(ok) PROVE ~failed' => ~failed
      BY <2>3, Zenon DEF SetStr
    <2>4. QED
      BY <1>3, <2>1, <2>2, <2>3
      DEF AppMain, BootModes, BootSatel, BootTuya, BootNet, BootMqtt,
          BootWebhook, BootPanel, LoadOrDefault, TlsLoad, GenX509, GenFails,
          TlsSetCert, TlsSetKey
  <1>4. QED
    BY <1>1, <1>2, <1>3, PageKeeps

----------------------------------------------------------------------------
\* As long as no write failed: a key is stored only next to its certificate,
\* and while a pair is being stored there is no key in flash.
TlsSound ==
    /\ pkey # 0 => cert = pkey
    /\ tls.ready => tls.cert = tls.key /\ cert = tls.cert /\ pkey = tls.key
    /\ boot = "cert" => tls.cert = tls.key /\ pkey = 0 /\ ~tls.ready
    /\ boot = "pkey" => tls.cert = tls.key /\ cert = tls.cert /\ pkey = 0
                        /\ ~tls.ready
TlsInv ==
    /\ cert \in Nat /\ pkey \in Nat
    /\ tls \in [cert : Nat, key : Nat, ready : BOOLEAN]
    /\ ~failed => TlsSound

LEMMA TlsInvInit == Init => TlsInv
  BY DEF Init, DeviceInit, NoTls, TlsInv, TlsSound

LEMMA StoringKeeps ==
    ASSUME NEW k, LoadOrDefault(k)
    PROVE  UNCHANGED tlsVars /\ (~failed' => ~failed)
  <1>1. CASE UNCHANGED store
    <2>1. UNCHANGED failed
      BY <1>1 DEF store
    <2>2. QED
      BY <2>1, Zenon DEF LoadOrDefault
  <1>2. CASE Save(k, Defaults(k))
    BY <1>2, SaveFailed DEF LoadOrDefault
  <1>3. QED
    BY <1>1, <1>2 DEF LoadOrDefault

LEMMA TlsInvStep == ASSUME TlsInv, Next \/ UNCHANGED vars PROVE TlsInv'
  <1>1. CASE TlsKept
    BY <1>1 DEF TlsKept, TlsInv, TlsSound
  <1>2. CASE Restart
    <2>1. UNCHANGED failed /\ UNCHANGED <<cert, pkey>> /\ tls' = NoTls
          /\ boot' = "modes"
      BY <1>2 DEF Restart, store
    <2>2. ~failed' => ~failed
      BY <2>1, Zenon
    <2>3. QED
      BY <2>1, <2>2 DEF NoTls, TlsInv, TlsSound
  <1>3. CASE BootModes
    <2>1. UNCHANGED failed /\ UNCHANGED <<cert, pkey, tls>> /\ boot' = "satel"
      BY <1>3 DEF BootModes, store, tlsVars
    <2>2. ~failed' => ~failed
      BY <2>1, Zenon
    <2>3. QED
      BY <2>1, <2>2 DEF TlsInv, TlsSound
  <1>4. CASE BootSatel \/ BootTuya \/ BootNet \/ BootMqtt \/ BootWebhook
             \/ BootPanel
    <2>1. \E k : LoadOrDefault(k)
      BY <1>4 DEF BootSatel, BootTuya, BootNet, BootMqtt, BootWebhook, BootPanel
    <2>2. UNCHANGED <<cert, pkey, tls>> /\ (~failed' => ~failed)
      BY <2>1, StoringKeeps DEF tlsVars
    <2>3. boot' \notin {"cert", "pkey"}
      BY <1>4 DEF BootSatel, BootTuya, BootNet, BootMqtt, BootWebhook, BootPanel
    <2>4. QED
      BY <2>2, <2>3 DEF TlsInv, TlsSound
  <1>5. CASE TlsLoad \/ GenX509 \/ GenFails
    <2>1. UNCHANGED <<cert, pkey>> /\ UNCHANGED failed
      BY <1>5 DEF TlsLoad, GenX509, GenFails, store
    <2>2. ~failed' => ~failed
      BY <2>1, Zenon
    <2>3. CASE TlsLoad
      BY <2>1, <2>2, <2>3 DEF TlsLoad, PairStored, TlsInv, TlsSound
    <2>4. CASE GenX509
      BY <2>1, <2>2, <2>4, PairMade DEF GenX509, PairStored, TlsInv, TlsSound
    <2>5. CASE GenFails
      BY <2>1, <2>2, <2>5 DEF GenFails, TlsInv, TlsSound
    <2>6. QED
      BY <1>5, <2>3, <2>4, <2>5
  <1>6. ASSUME NEW ok \in BOOLEAN, TlsSetCert(ok) \/ TlsSetKey(ok)
        PROVE  TlsInv'
    <2>1. CASE ok
      <3>1. UNCHANGED failed
        BY <1>6, <2>1 DEF TlsSetCert, TlsSetKey, SetStr
      <3>2. ~failed' => ~failed
        BY <3>1, Zenon
      <3>3. CASE TlsSetCert(ok)
        BY <2>1, <3>2, <3>3 DEF TlsSetCert, TlsInv, TlsSound
      <3>4. CASE TlsSetKey(ok)
        BY <2>1, <3>2, <3>4 DEF TlsSetKey, TlsInv, TlsSound
      <3>5. QED
        BY <1>6, <3>3, <3>4
    <2>2. CASE ~ok
      <3>1. failed'
        BY <1>6, <2>2 DEF TlsSetCert, TlsSetKey, SetStr
      <3>2. QED
        BY <1>6, <2>2, <3>1 DEF TlsSetCert, TlsSetKey, TlsInv
    <2>3. QED
      BY <2>1, <2>2
  <1>7. QED
    BY <1>1, <1>2, <1>3, <1>4, <1>5, <1>6, PageKeeps DEF AppMain

\* The server that says it has a certificate has the one that fits its key,
\* and the next boot finds both (web_tls_init): whenever the power fails, for
\* any number of restarts, unless a write to the flash failed.
THEOREM TlsPairKept == Spec => []TlsReady
  <1>1. TlsInv => TlsReady
    BY DEF TlsInv, TlsSound, TlsReady
  <1>2. TlsInv /\ [Next]_vars => TlsInv'
    BY TlsInvStep
  <1>3. QED
    BY TlsInvInit, <1>1, <1>2, PTL DEF Spec

----------------------------------------------------------------------------
\* Types.  What the device has marked completed is a step of the wizard: the
\* page takes the mask over when it is opened.

TypeInv == TypeOK /\ progress.mask \subseteq Indices

Counted == detours' \in 0..MaxTroubles

LEMMA DetourCounted ==
    ASSUME StoreOK, Detour \/ UNCHANGED detours
    PROVE  Counted
  BY StoreAssumption DEF StoreOK, Detour, Counted

LEMMA KeptTyped ==
    ASSUME DeviceOK, progress.mask \subseteq Indices,
           UNCHANGED deviceVars, Counted
    PROVE  DeviceOK' /\ progress'.mask \subseteq Indices
  BY DEF DeviceOK, StoreOK, PanelOK, deviceVars, store, tlsVars, Counted

LEMMA PostDevice ==
    ASSUME DeviceOK, progress.mask \subseteq Indices, NEW k, NEW b \in Config,
           Post(k, b), UNCHANGED <<boot, tlsVars>>, Counted
    PROVE  DeviceOK' /\ progress'.mask \subseteq Indices
  BY PostTyped DEF DeviceOK, StoreOK, tlsVars, Counted

LEMMA AdvanceDevice ==
    ASSUME DeviceOK, progress.mask \subseteq Indices, NEW i \in Indices,
           NEW fin \in BOOLEAN, WizardAdvancePost(i, fin),
           UNCHANGED <<boot, tlsVars>>, Counted
    PROVE  DeviceOK' /\ progress'.mask \subseteq Indices
  <1>1. progress' \in [step : Nat, mask : SUBSET Nat, finished : BOOLEAN]
        /\ progress'.mask \subseteq Indices
    <2>1. CASE progress' = progress
      BY <2>1 DEF DeviceOK, StoreOK
    <2>2. CASE progress' = [step |-> i + 1, mask |-> Completed(i),
                            finished |-> fin \/ progress.finished]
      <3>1. i + 1 \in Nat /\ Completed(i) \in SUBSET Nat
            /\ Completed(i) \subseteq Indices
        BY Steps DEF Completed, DeviceOK, StoreOK
      <3>2. (fin \/ progress.finished) \in BOOLEAN
        BY Zenon DEF DeviceOK, StoreOK
      <3>3. QED
        BY <2>2, <3>1, <3>2
    <2>3. QED
      BY <2>1, <2>2 DEF WizardAdvancePost, SaveProgress, SaveFails
  <1>2. failed' \in BOOLEAN
    BY Zenon DEF WizardAdvancePost, SaveProgress, SaveFails, DeviceOK, StoreOK
  <1>3. troubles' \in 0..MaxTroubles
    BY StoreAssumption
    DEF WizardAdvancePost, SaveProgress, SaveFails, Trouble, DeviceOK, StoreOK
  <1>4. UNCHANGED <<stored, nvs, saved, running>>
    BY DEF WizardAdvancePost, SaveProgress, SaveFails
  <1>5. QED
    BY <1>1, <1>2, <1>3, <1>4 DEF DeviceOK, StoreOK, PanelOK, tlsVars, Counted

LEMMA StoringTyped ==
    ASSUME DeviceOK, NEW k \in Keys, LoadOrDefault(k)
    PROVE  /\ stored' \subseteq Keys /\ nvs' \in [Keys -> Config]
           /\ UNCHANGED <<progress, saved, cert, pkey, tls>>
           /\ failed' \in BOOLEAN /\ troubles' \in 0..MaxTroubles
           /\ Effective(k) \in Config
  <1>1. Effective(k) \in Config
    BY BlankTyped DEF Effective, DeviceOK, StoreOK
  <1>2. CASE UNCHANGED <<store, troubles>>
    BY <1>1, <1>2, StoreAssumption
    DEF LoadOrDefault, store, DeviceOK, StoreOK, tlsVars
  <1>3. CASE Save(k, Defaults(k)) /\ UNCHANGED saved
    BY <1>1, <1>3, BlankTyped, SaveTyped DEF LoadOrDefault, DeviceOK, tlsVars
  <1>4. QED
    BY <1>2, <1>3 DEF LoadOrDefault

LEMMA AppMainTyped ==
    ASSUME DeviceOK, progress.mask \subseteq Indices, AppMain, UNCHANGED detours
    PROVE  DeviceOK' /\ progress'.mask \subseteq Indices
  <1>1. CASE BootModes
    BY <1>1, BlankTyped
    DEF BootModes, InUse, DeviceOK, StoreOK, PanelOK, store, tlsVars, Boots
  <1>2. CASE BootSatel \/ BootTuya \/ BootNet
    <2>1. PICK k \in Keys : LoadOrDefault(k)
      BY <1>2 DEF BootSatel, BootTuya, BootNet, Keys
    <2>2. boot' \in Boots /\ UNCHANGED running
      BY <1>2 DEF BootSatel, BootTuya, BootNet, Boots
    <2>3. QED
      BY <2>1, <2>2, StoringTyped, StoreAssumption DEF DeviceOK, StoreOK, PanelOK
  <1>3. CASE BootMqtt \/ BootWebhook \/ BootPanel
    <2>1. PICK k \in Keys \cap Volatile : LoadOrDefault(k) /\ InUse(k, Effective(k))
      BY <1>3 DEF BootMqtt, BootWebhook, BootPanel, Keys, Volatile
    <2>2. boot' \in Boots
      BY <1>3 DEF BootMqtt, BootWebhook, BootPanel, Boots
    <2>3. PanelOK'
      BY <2>1, StoringTyped DEF InUse, PanelOK, DeviceOK
    <2>4. QED
      BY <2>1, <2>2, <2>3, StoringTyped, StoreAssumption DEF DeviceOK, StoreOK
  <1>4. CASE TlsLoad \/ GenX509
    <2>1. UNCHANGED <<store, troubles, running, cert, pkey>> /\ boot' \in Boots
      BY <1>4 DEF TlsLoad, GenX509, Boots
    <2>2. tls' \in [cert : Nat, key : Nat, ready : BOOLEAN]
      <3>1. NewPair \in Nat /\ cert \in Nat /\ pkey \in Nat
        BY PairMade DEF DeviceOK
      <3>2. \E c, k \in Nat, ready \in BOOLEAN :
              tls' = [cert |-> c, key |-> k, ready |-> ready]
        BY <1>4, <3>1 DEF TlsLoad, GenX509
      <3>3. QED
        BY <3>2
    <2>3. QED
      BY <2>1, <2>2 DEF DeviceOK, StoreOK, PanelOK, store
  <1>5. CASE GenFails
    BY <1>5, StoreAssumption
    DEF GenFails, Trouble, DeviceOK, StoreOK, PanelOK, store, Boots
  <1>6. ASSUME NEW ok \in BOOLEAN, TlsSetCert(ok) \/ TlsSetKey(ok)
        PROVE  DeviceOK' /\ progress'.mask \subseteq Indices
    <2>1. failed' \in BOOLEAN
      BY <1>6, Zenon DEF TlsSetCert, TlsSetKey, SetStr, DeviceOK, StoreOK
    <2>2. troubles' \in 0..MaxTroubles
      BY <1>6, StoreAssumption
      DEF TlsSetCert, TlsSetKey, SetStr, Trouble, DeviceOK, StoreOK
    <2>3. /\ UNCHANGED <<stored, nvs, progress, saved, running>>
          /\ cert' \in Nat /\ pkey' \in Nat /\ boot' \in Boots
          /\ tls' \in [cert : Nat, key : Nat, ready : BOOLEAN]
      BY <1>6 DEF TlsSetCert, TlsSetKey, DeviceOK, Boots
    <2>4. QED
      BY <2>1, <2>2, <2>3, StoreAssumption DEF DeviceOK, StoreOK, PanelOK
  <1>7. QED
    BY <1>1, <1>2, <1>3, <1>4, <1>5, <1>6 DEF AppMain

LEMMA RestartTyped ==
    ASSUME DeviceOK, progress.mask \subseteq Indices, Restart, UNCHANGED detours
    PROVE  DeviceOK' /\ progress'.mask \subseteq Indices
  BY BlankTyped, StoreAssumption
  DEF Restart, Trouble, DeviceOK, StoreOK, PanelOK, store, NoTls, Boots

\* The page.
LEMMA PresetTyped == ASSUME NEW k, NEW v \in Fields PROVE Preset(k, v) \in Fields
  BY StoreAssumption DEF Preset, Fields, BuiltIn

LEMMA GoToTyped ==
    ASSUME PageOK, NEW i \in Indices, GoTo(i)
    PROVE  /\ current' \in Indices /\ form' \in [Indices -> Config]
           /\ clean' \in BOOLEAN /\ loads' \in [Indices -> Nat]
  <1>1. current' \in Indices /\ clean' \in BOOLEAN
    BY DEF GoTo
  <1>2. form' \in [Indices -> Config]
    <2>1. ASSUME NEW j \in Indices PROVE Rendered(j) \in Config
      <3>1. form[j].plain \in Fields /\ Empty \in Fields
        BY StoreAssumption DEF PageOK, Config, Fields, Empty
      <3>2. Preset(Key(j), Empty) \in Fields
        BY <3>1, PresetTyped
      <3> QED
        BY <3>1, <3>2, BlankTyped DEF Rendered, Config
    <2> QED
      BY <2>1 DEF GoTo
  <1>3. loads' \in [Indices -> Nat]
    <2>1. [loads EXCEPT ![i] = @ + 1] \in [Indices -> Nat]
      BY DEF PageOK
    <2>2. QED
      BY <2>1 DEF PageOK, GoTo
  <1>4. QED
    BY <1>1, <1>2, <1>3

LEMMA SentTyped ==
    ASSUME PageOK, NEW next \in Busy \cup {"form", "load", "reload", "done"},
           NEW i \in Indices, Sent(next, i), completed' \subseteq Indices,
           UNCHANGED edits
    PROVE  PageOK'
  <1>1. clean' \in BOOLEAN /\ reloading' \in BOOLEAN
    BY Zenon DEF Sent, PageOK
  <1>2. body' \in Config
    BY BlankTyped DEF Sent, Waits, PageOK
  <1>3. QED
    BY <1>1, <1>2 DEF Sent, Waits, PageOK, Busy

LEMMA AnswersTyped == ASSUME TypeInv, Answers PROVE TypeInv'
  <1> USE DEF TypeInv, TypeOK
  <1>1. StoreOK
    BY DEF DeviceOK
  <1>2. CASE Opened \/ OpenFails
    <2>1. UNCHANGED deviceVars /\ Counted
      BY <1>1, <1>2, DetourCounted
      DEF Opened, OpenFails, Answered, Handled, Refused, deviceVars
    <2>2. PICK i \in Indices : GoTo(i)
      BY <1>1, <1>2, Steps DEF Opened, OpenFails, Indices, StoreOK
    <2>3. /\ completed' \subseteq Indices
          /\ UNCHANGED <<request, reloading, skipped, edits>>
          /\ page' = "form"
      BY <1>2 DEF Opened, OpenFails, Answered, Handled, Refused
    <2>4. PageOK'
      BY <2>2, <2>3, GoToTyped DEF PageOK, request
    <2>5. QED
      BY <2>1, <2>4, KeptTyped
  <1>3. CASE Saved \/ PanelSaved
    <2>1. PICK k : Post(k, body)
      BY <1>3 DEF Saved, PanelSaved
    <2>2. UNCHANGED <<boot, tlsVars>> /\ Counted /\ UNCHANGED edits
      BY <1>1, <1>3, DetourCounted DEF Saved, PanelSaved, Answered, Handled
    <2>3. body \in Config
      BY DEF PageOK
    <2>4. DeviceOK' /\ progress'.mask \subseteq Indices
      BY <2>1, <2>2, <2>3, PostDevice
    <2>5. PageOK'
      <3>1. PICK next \in {"advance", "reload"}, i \in Indices : Sent(next, i)
        BY <1>3, Steps DEF Saved, PanelSaved, PageOK
      <3>2. completed' \subseteq Indices
        BY <1>3 DEF Saved, PanelSaved, PageOK
      <3>3. QED
        BY <2>2, <3>1, <3>2, SentTyped DEF Busy
    <2>6. QED
      BY <2>4, <2>5
  <1>4. CASE Advanced \/ PanelAdvanced \/ FinishAdvanced \/ Finished
    <2>1. target \in Indices /\ completed' \subseteq Indices
      BY <1>4 DEF Advanced, PanelAdvanced, FinishAdvanced, Finished, PageOK
    <2>2. PICK fin \in BOOLEAN : WizardAdvancePost(target, fin)
      BY <1>4 DEF Advanced, PanelAdvanced, FinishAdvanced, Finished
    <2>3. UNCHANGED <<boot, tlsVars>> /\ Counted /\ UNCHANGED edits
      BY <1>1, <1>4, DetourCounted
      DEF Advanced, PanelAdvanced, FinishAdvanced, Finished, Answered, Handled
    <2>4. DeviceOK' /\ progress'.mask \subseteq Indices
      BY <2>1, <2>2, <2>3, AdvanceDevice
    <2>5. CASE Advanced
      <3>1. CASE current = Last
        <4>1. /\ page' = "done" /\ target' = 0 /\ body' = Blank /\ fresh' = FALSE
              /\ UNCHANGED <<current, form, clean, loads, reloading, skipped>>
          BY <2>5, <3>1 DEF Advanced, Waits
        <4>2. QED
          BY <2>1, <2>3, <2>4, <4>1, Steps, BlankTyped DEF PageOK
      <3>2. CASE current # Last
        <4>1. current + 1 \in Indices
          BY <3>2, Steps DEF Indices, PageOK
        <4>2. GoTo(current + 1)
              /\ (Waits("load", current + 1) \/ Waits("form", 0))
              /\ UNCHANGED <<reloading, skipped>>
          BY <2>5, <3>2 DEF Advanced
        <4>3. page' \in {"load", "form"} /\ target' \in Indices
              /\ body' = Blank /\ fresh' = FALSE
          BY <4>1, <4>2, Steps DEF Waits
        <4>4. QED
          <5>1. /\ current' \in Indices /\ form' \in [Indices -> Config]
                /\ clean' \in BOOLEAN /\ loads' \in [Indices -> Nat]
            BY <4>1, <4>2, GoToTyped
          <5>2. /\ body' \in Config /\ fresh' \in BOOLEAN
                /\ skipped' \in BOOLEAN /\ reloading' \in BOOLEAN
            BY <4>2, <4>3, BlankTyped DEF PageOK
          <5>3. QED
            BY <2>1, <2>3, <2>4, <4>3, <5>1, <5>2 DEF PageOK
      <3>3. QED
        BY <2>4, <3>1, <3>2
    <2>6. CASE PanelAdvanced \/ FinishAdvanced \/ Finished
      <3>1. PICK next \in {"auth", "finished", "done"}, i \in Indices : Sent(next, i)
        BY <2>6, Steps DEF PanelAdvanced, FinishAdvanced, Finished, PageOK
      <3>2. QED
        BY <2>1, <2>3, <2>4, <3>1, SentTyped DEF Busy
    <2>7. QED
      BY <1>4, <2>4, <2>5, <2>6
  <1>5. CASE RequestFails
    <2>1. UNCHANGED deviceVars /\ Counted /\ UNCHANGED edits
      BY <1>1, <1>5, DetourCounted DEF RequestFails, Refused
    <2>2. PageOK'
      BY <1>5, <2>1, Steps, SentTyped DEF RequestFails, PageOK
    <2>3. QED
      BY <2>1, <2>2, KeptTyped
  <1>6. CASE ReplyLost
    <2>1. UNCHANGED <<boot, tlsVars>> /\ Counted /\ UNCHANGED edits
      BY <1>1, <1>6, DetourCounted DEF ReplyLost, AnswerLost, Handled
    <2>2. \/ \E k : Post(k, body)
          \/ \E fin \in BOOLEAN : WizardAdvancePost(target, fin)
      BY <1>6 DEF ReplyLost, Busy
    <2>3. body \in Config /\ target \in Indices
      BY DEF PageOK
    <2>4. DeviceOK' /\ progress'.mask \subseteq Indices
      BY <2>1, <2>2, <2>3, PostDevice, AdvanceDevice
    <2>5. PageOK'
      BY <1>6, <2>1, Steps, SentTyped DEF ReplyLost, PageOK
    <2>6. QED
      BY <2>4, <2>5
  <1>7. QED
    BY <1>2, <1>3, <1>4, <1>5, <1>6 DEF Answers

LEMMA LoadTyped ==
    ASSUME TypeInv, NEW i \in Indices, LoadAnswered(i) \/ LoadFails(i)
    PROVE  TypeInv'
  <1> USE DEF TypeInv, TypeOK
  <1>1. UNCHANGED deviceVars /\ Counted /\ UNCHANGED edits
    BY DetourCounted
    DEF LoadAnswered, LoadFails, Answered, Handled, Refused, deviceVars, DeviceOK
  <1>2. Filled(i) \in Config
    <2>1. form[i] \in Config
      BY DEF PageOK
    <2>2. Shown(Key(i)) \in Config
      BY BlankTyped
      DEF Shown, StoredGet, MqttGet, ModeGet, Protected, Lists,
          DeviceOK, StoreOK, PanelOK, Keys, Volatile
    <2>3. Preset(Key(i), Shown(Key(i)).preset) \in Fields
      BY <2>2, PresetTyped DEF Config
    <2>4. QED
      BY <2>1, <2>2, <2>3 DEF Filled, Config
  <1>3. form' \in [Indices -> Config] /\ clean' \in BOOLEAN
    BY <1>2 DEF LoadAnswered, LoadFails, PageOK
  <1>4. LoadEnds(i)
    BY DEF LoadAnswered, LoadFails
  <1>5. loads' \in [Indices -> Nat]
    BY <1>4 DEF LoadEnds, PageOK
  <1>6. page' \in {page, "form"} /\ target' \in Indices
        /\ UNCHANGED <<current, completed, body, fresh, reloading, skipped>>
    BY <1>4, Steps DEF LoadEnds, PageOK
  <1>7. PageOK'
    BY <1>1, <1>3, <1>5, <1>6 DEF PageOK
  <1>8. QED
    BY <1>1, <1>7, KeptTyped

LEMMA TypeInvStep == ASSUME TypeInv, Next \/ UNCHANGED vars PROVE TypeInv'
  <1> USE DEF TypeInv, TypeOK
  <1>1. CASE Boot \/ PowerFails
    <2>1. DeviceOK' /\ progress'.mask \subseteq Indices
      BY <1>1, AppMainTyped, RestartTyped DEF Boot, PowerFails, budgets
    <2>2. PageOK'
      BY <1>1 DEF Boot, PowerFails, budgets, pageVars, request, PageOK
    <2>3. QED
      BY <2>1, <2>2
  <1>2. CASE Answers
    BY <1>2, AnswersTyped
  <1>3. CASE Presses
    <2>1. PICK next \in {"save", "advance", "first", "finish"} : Press(next)
      BY <1>3 DEF Presses, PressSave, PressPanel, PressFinish
    <2>2. UNCHANGED deviceVars /\ Counted
      BY <2>1, DetourCounted DEF Press, budgets, DeviceOK
    <2>3. PageOK'
      BY <2>1 DEF Press, PageOK, Busy, budgets
    <2>4. QED
      BY <2>2, <2>3, KeptTyped
  <1>4. CASE Type
    <2>1. UNCHANGED deviceVars /\ Counted
      BY <1>4, DetourCounted DEF Type, DeviceOK
    <2>2. form' \in [Indices -> Config] /\ edits' \in 0..MaxEdits
      <3>1. edits + 2 \in Fields /\ edits + 1 \in 0..MaxEdits /\ Empty \in Fields
        BY <1>4, StoreAssumption DEF Type, PageOK, Fields, Empty
      <3>2. form \in [Indices -> Config] /\ current \in Indices
        BY DEF PageOK
      <3>3. ASSUME NEW v \in Fields
            PROVE  /\ [form EXCEPT ![current].plain = v] \in [Indices -> Config]
                   /\ [form EXCEPT ![current].preset = v] \in [Indices -> Config]
                   /\ [form EXCEPT ![current].secret = v] \in [Indices -> Config]
        BY <3>2 DEF Config
      <3>4. Choices(Key(current)) \subseteq Fields
        BY <3>1 DEF Choices
      <3>5. QED
        BY <1>4, <3>1, <3>3, <3>4 DEF Type
    <2>3. PageOK'
      BY <1>4, <2>2 DEF Type, PageOK, request
    <2>4. QED
      BY <2>1, <2>3, KeptTyped
  <1>5. CASE Back \/ \E i \in Indices : ClickStep(i)
    <2>1. UNCHANGED deviceVars /\ Counted
      BY <1>5, DetourCounted DEF Back, ClickStep, DeviceOK
    <2>2. PICK i \in Indices : GoTo(i)
      BY <1>5, Steps DEF Back, ClickStep, PageOK, Indices
    <2>3. /\ page' \in {page, "form"}
          /\ UNCHANGED <<completed, request, reloading, edits>>
      BY <1>5 DEF Back, ClickStep
    <2>4. skipped' \in BOOLEAN
      BY <1>5, Zenon DEF Back, ClickStep, PageOK
    <2>5. PageOK'
      BY <2>2, <2>3, <2>4, GoToTyped DEF PageOK, request
    <2>6. QED
      BY <2>1, <2>5, KeptTyped
  <1>6. CASE Reload \/ UserReload
    <2>1. UNCHANGED deviceVars /\ Counted /\ Load
      BY <1>6, DetourCounted DEF Reload, UserReload, Load, DeviceOK
    <2>2. PageOK'
      BY <2>1, BlankTyped, Steps DEF Load, Waits, PageOK
    <2>3. QED
      BY <2>1, <2>2, KeptTyped
  <1>7. CASE \E i \in Indices : LoadAnswered(i) \/ LoadFails(i)
    BY <1>7, LoadTyped
  <1>8. CASE UNCHANGED vars
    <2>1. UNCHANGED deviceVars /\ Counted
      BY <1>8, DetourCounted DEF vars, budgets, DeviceOK
    <2>2. PageOK'
      BY <1>8 DEF vars, pageVars, request, budgets, PageOK
    <2>3. QED
      BY <2>1, <2>2, KeptTyped
  <1>9. QED
    BY <1>1, <1>2, <1>3, <1>4, <1>5, <1>6, <1>7, <1>8 DEF Next

LEMMA TypeInvInit == Init => TypeInv
  <1> SUFFICES ASSUME Init PROVE TypeInv
    OBVIOUS
  <1>1. StoreOK /\ progress.mask \subseteq Indices
    <2>1. progress = [step |-> 0, mask |-> {}, finished |-> FALSE]
      BY DEF Init, DeviceInit, StoreInit
    <2>2. progress \in [step : Nat, mask : SUBSET Nat, finished : BOOLEAN]
          /\ progress.mask \subseteq Indices
      BY <2>1
    <2>3. QED
      <3>1. stored = {} /\ nvs \in [Keys -> Config] /\ saved = {}
        BY BlankTyped DEF Init, DeviceInit, StoreInit
      <3>2. troubles = 0 /\ detours = 0 /\ failed \in BOOLEAN
        BY DEF Init, DeviceInit, StoreInit
      <3>3. QED
        BY <2>2, <3>1, <3>2, StoreAssumption DEF StoreOK
  <1>2. PanelOK
    BY BlankTyped DEF Init, DeviceInit, PanelInit, PanelOK
  <1>3. DeviceOK
    BY <1>1, <1>2 DEF Init, DeviceInit, NoTls, DeviceOK, Boots
  <1>4. PageOK
    <2>1. /\ form \in [Indices -> Config] /\ body \in Config
          /\ loads \in [Indices -> Nat]
      BY BlankTyped DEF Init
    <2>2. /\ clean \in BOOLEAN /\ fresh \in BOOLEAN /\ skipped \in BOOLEAN
          /\ reloading \in BOOLEAN
          /\ page = "state" /\ completed = {} /\ current = 0 /\ target = 0
          /\ edits = 0
      BY DEF Init
    <2>3. QED
      BY <2>1, <2>2, Steps, StoreAssumption DEF PageOK
  <1>5. QED
    BY <1>1, <1>3, <1>4 DEF TypeInv, TypeOK

\* Every variable keeps its type, and the counters their bounds; the step the
\* device resumes at is one the page has.
THEOREM TypeCorrect == Spec => []TypeOK
  <1>1. TypeInv /\ [Next]_vars => TypeInv'
    BY TypeInvStep
  <1>2. TypeInv => TypeOK
    BY DEF TypeInv
  <1>3. QED
    BY TypeInvInit, <1>1, <1>2, PTL DEF Spec

----------------------------------------------------------------------------
\* Where the wizard is resumed.  The inductive invariant adds that the marks
\* have no gap, that the page knows of no mark the device does not have, that
\* the step shown comes right after marked ones, and that DALEJ is about such
\* a step, which is the one shown or a completed one.

Reached(i) == \A j \in Indices : j < i => j \in progress.mask
Done(i) == Key(i) \in saved \cup Untracked

MarksSound ==
    /\ Reached(progress.step)
    /\ \A i \in Indices : i \in progress.mask => Reached(i) /\ Done(i)
    /\ completed \subseteq progress.mask
    /\ Reached(current)

SaveSound ==
    page \in Busy =>
        /\ Reached(target)
        /\ current = target \/ current \in completed
        /\ page \in {"advance", "first", "finish", "finished"} => Done(target)

ResumeInv == ~skipped /\ ~failed => MarksSound /\ SaveSound

\* What does not touch the marks.
LEMMA Unmarked ==
    ASSUME MarksSound, progress' = progress, saved \subseteq saved',
           completed' \subseteq progress.mask,
           \A j \in Indices : j < current' => j \in progress.mask
    PROVE  MarksSound'
  BY DEF MarksSound, Reached, Done, Key, Indices, Last

\* A step is marked after the ones before it, when it is stored.
LEMMA MarkedNext ==
    ASSUME TypeInv, MarksSound, SaveSound, page \in Busy, Done(target),
           NEW fin, WizardAdvancePost(target, fin), ~failed'
    PROVE  /\ ~failed /\ saved' = saved
           /\ Reached(progress.step)'
           /\ \A i \in Indices : i \in progress'.mask => (Reached(i) /\ Done(i))'
           /\ progress'.mask = progress.mask \cup {target}
  <1>1. progress' = [step |-> target + 1, mask |-> Completed(target),
                     finished |-> fin \/ progress.finished]
        /\ saved' = saved
    BY DEF WizardAdvancePost, SaveProgress, SaveFails
  <1>2. progress'.step = target + 1 /\ progress'.mask = progress.mask \cup {target}
    BY <1>1 DEF Completed
  <1>3. target \in Indices /\ \A i \in Indices : i \in Nat
    BY Steps DEF TypeInv, TypeOK, PageOK
  <1>4. \A j \in Indices : j < target => j \in progress.mask
    BY DEF SaveSound, Reached
  <1>5. Reached(progress.step)'
    BY <1>2, <1>3, <1>4 DEF Reached, Indices, Last
  <1>6. ASSUME NEW i \in Indices, i \in progress'.mask
        PROVE  (Reached(i) /\ Done(i))'
    <2>1. Reached(i) /\ Done(i)
      <3>1. CASE i = target
        BY <3>1 DEF SaveSound
      <3>2. CASE i # target
        BY <1>2, <1>6, <3>2 DEF MarksSound
      <3>3. QED
        BY <3>1, <3>2
    <2>2. QED
      BY <1>1, <1>2, <2>1 DEF Reached, Done, Key, Indices, Last
  <1>7. ~failed
    BY AdvanceFailed
  <1>8. QED
    BY <1>1, <1>2, <1>5, <1>6, <1>7

\* An advance is handled; DALEJ waits for something else, or for nothing.
LEMMA MarkStep ==
    ASSUME TypeInv, ResumeInv, ~skipped, ~failed', page \in Busy,
           page \in {"advance", "first", "finish", "finished"},
           NEW fin, WizardAdvancePost(target, fin),
           completed' \in {completed, completed \cup {target}},
           \/ current' = current
           \/ current' = current + 1 /\ page' \notin Busy,
           page' \in Busy => /\ completed' = completed \cup {target}
                             /\ target' \in {target, current}
    PROVE  MarksSound' /\ SaveSound'
  <1>1. ~failed
    BY AdvanceFailed
  <1>2. MarksSound /\ SaveSound /\ Done(target)
    BY <1>1 DEF ResumeInv, SaveSound
  <1>3. /\ saved' = saved
        /\ Reached(progress.step)'
        /\ \A i \in Indices : i \in progress'.mask => (Reached(i) /\ Done(i))'
        /\ progress'.mask = progress.mask \cup {target}
    BY <1>2, MarkedNext
  <1>4. completed' \subseteq progress'.mask
    BY <1>2, <1>3 DEF MarksSound
  <1>5. current \in progress'.mask
    BY <1>2, <1>3 DEF SaveSound, MarksSound
  <1>6. target \in Indices /\ current \in Indices /\ \A i \in Indices : i \in Nat
    BY Steps DEF TypeInv, TypeOK, PageOK
  <1>7. \A j \in Indices : j < current => j \in progress'.mask
    BY <1>2, <1>3 DEF MarksSound, Reached
  <1>8. Reached(current)'
    BY <1>5, <1>6, <1>7 DEF Reached, Indices, Last
  <1>9. MarksSound'
    BY <1>3, <1>4, <1>8 DEF MarksSound, Indices, Last
  <1>10. SaveSound'
    <2> SUFFICES ASSUME page' \in Busy
                 PROVE  /\ Reached(target)'
                        /\ current' = target' \/ current' \in completed'
                        /\ Done(target)'
      BY DEF SaveSound, Busy
    <2>1. target' \in Indices /\ target' \in progress'.mask
      BY <1>3, <1>5, <1>6
    <2>2. (\A i \in Indices : i \in progress.mask => Reached(i) /\ Done(i))'
      BY <1>9 DEF MarksSound
    <2>3. \A i \in Indices : i \in progress'.mask => (Reached(i) /\ Done(i))'
      BY <1>3
    <2>4. Reached(target)' /\ Done(target)'
      BY <2>1, <2>2 DEF Reached, Done, Key, Indices, Last
    <2>5. current' = target' \/ current' \in completed'
      BY <1>2 DEF SaveSound, Busy
    <2>6. QED
      BY <2>4, <2>5
  <1>11. QED
    BY <1>9, <1>10

LEMMA PostSaves ==
    ASSUME TypeInv, NEW k, Post(k, body)
    PROVE  progress' = progress /\ saved \subseteq saved' /\ (k \in saved' \/ k = "modes")
  BY PostTyped DEF TypeInv, TypeOK, DeviceOK, PageOK

LEMMA ResumeAnswers == ASSUME TypeInv, ResumeInv, Answers PROVE ResumeInv'
  <1> SUFFICES ASSUME ~skipped', ~failed' PROVE MarksSound' /\ SaveSound'
    BY DEF ResumeInv
  <1>1. ~skipped
    BY Zenon
    DEF Answers, Opened, OpenFails, Saved, Advanced, PanelAdvanced, PanelSaved,
        FinishAdvanced, Finished, RequestFails, ReplyLost, Sent
  <1>2. ~failed /\ MarksSound /\ SaveSound
    BY <1>1, AnswersKeep DEF TlsKept, ResumeInv
  <1>3. /\ \A i \in Indices : i \in Nat /\ i <= Last
        /\ target \in Indices /\ current \in Indices /\ 0 \in Indices
        /\ Last \in Indices /\ progress.step \in Nat
    BY Steps DEF TypeInv, TypeOK, DeviceOK, StoreOK, PageOK
  <1>4. CASE Opened
    <2>1. UNCHANGED <<progress, saved>>
      BY <1>4 DEF Opened, store
    <2>2. completed' = progress.mask /\ page' = "form"
      BY <1>4 DEF Opened
    <2>3. current' = IF progress.step > Last THEN Last ELSE progress.step
      BY <1>4 DEF Opened, GoTo
    <2>4. \A j \in Indices : j < current' => j \in progress.mask
      BY <1>2, <1>3, <2>3 DEF MarksSound, Reached
    <2>5. MarksSound'
      BY <1>2, <2>1, <2>2, <2>4, Unmarked
    <2>6. QED
      BY <2>2, <2>5 DEF SaveSound, Busy
  <1>5. CASE OpenFails
    <2>1. UNCHANGED <<progress, saved>>
      BY <1>5 DEF OpenFails, Refused, deviceVars, store
    <2>2. completed' = {} /\ page' = "form" /\ current' = 0
      BY <1>5 DEF OpenFails, GoTo
    <2>3. MarksSound'
      BY <1>2, <1>3, <2>1, <2>2, Unmarked
    <2>4. QED
      BY <2>2, <2>3 DEF SaveSound, Busy
  <1>6. CASE Saved
    <2>1. Post(Key(target), body) /\ UNCHANGED <<completed, current>>
          /\ page' = "advance" /\ target' = current /\ page = "save"
      BY <1>6 DEF Saved, Sent, Waits
    <2>2. progress' = progress /\ saved \subseteq saved'
          /\ (Key(target) \in saved' \/ Key(target) = "modes")
      BY <2>1, PostSaves
    <2>3. MarksSound'
      BY <1>2, <2>1, <2>2, Unmarked DEF MarksSound, Reached
    <2>4. SaveSound'
      <3>1. Reached(current)'
        BY <2>3 DEF MarksSound
      <3>2. Done(current)'
        <4>1. CASE current = target
          BY <2>1, <2>2, <4>1 DEF Done, Key, Untracked
        <4>2. CASE current # target
          <5>1. current \in progress.mask
            BY <1>2, <2>1, <4>2 DEF SaveSound, MarksSound, Busy
          <5>2. Done(current)
            BY <1>2, <1>3, <5>1 DEF MarksSound
          <5>3. QED
            BY <2>1, <2>2, <5>2 DEF Done, Key
        <4>3. QED
          BY <4>1, <4>2
      <3>3. QED
        BY <2>1, <3>1, <3>2 DEF SaveSound, Reached, Done, Key, Indices, Last
    <2>5. QED
      BY <2>3, <2>4
  <1>7. CASE PanelSaved
    <2>1. Post("panel", body) /\ UNCHANGED <<completed, current>>
          /\ page' = "reload"
      BY <1>7 DEF PanelSaved, Sent, Waits
    <2>2. MarksSound'
      BY <1>2, <2>1, PostSaves, Unmarked DEF MarksSound, Reached
    <2>3. QED
      BY <2>1, <2>2 DEF SaveSound, Busy
  <1>8. CASE Advanced
    <2>1. WizardAdvancePost(target, FALSE) /\ completed' = completed \cup {target}
          /\ page = "advance"
      BY <1>8 DEF Advanced
    <2>2. page' \notin Busy /\ current' \in {current, current + 1}
      BY <1>8 DEF Advanced, Waits, GoTo, Busy
    <2>3. QED
      BY <1>1, <2>1, <2>2, MarkStep DEF Busy
  <1>9. CASE PanelAdvanced \/ FinishAdvanced
    <2>1. WizardAdvancePost(target, FALSE) /\ completed' = completed \cup {target}
          /\ page \in {"first", "finish"}
      BY <1>9 DEF PanelAdvanced, FinishAdvanced
    <2>2. current' = current /\ target' \in {target, current}
      BY <1>9 DEF PanelAdvanced, FinishAdvanced, Sent, Waits
    <2>3. QED
      BY <1>1, <2>1, <2>2, MarkStep DEF Busy
  <1>10. CASE Finished
    <2>1. WizardAdvancePost(target, TRUE) /\ completed' = completed
          /\ page = "finished" /\ page' = "done" /\ current' = current
      BY <1>10 DEF Finished, Sent, Waits
    <2>2. page' \notin Busy
      BY <2>1 DEF Busy
    <2>3. QED
      BY <1>1, <2>1, <2>2, MarkStep DEF Busy
  <1>11. CASE RequestFails
    <2>1. UNCHANGED <<progress, saved, completed, current>> /\ page' = "form"
      BY <1>11 DEF RequestFails, Refused, deviceVars, store, Sent, Waits
    <2>2. MarksSound'
      BY <1>2, <2>1, Unmarked DEF MarksSound, Reached
    <2>3. QED
      BY <2>1, <2>2 DEF SaveSound, Busy
  <1>12. CASE ReplyLost
    <2>1. UNCHANGED <<completed, current>> /\ page' = "form" /\ page \in Busy
      BY <1>12 DEF ReplyLost, Sent, Waits
    <2>2. CASE \E k : Post(k, body)
      <3>1. MarksSound'
        BY <1>2, <2>1, <2>2, PostSaves, Unmarked DEF MarksSound, Reached
      <3>2. QED
        BY <2>1, <3>1 DEF SaveSound, Busy
    <2>3. CASE page \in {"advance", "first", "finish", "finished"}
      <3>1. PICK fin : WizardAdvancePost(target, fin)
        BY <1>12, <2>3 DEF ReplyLost
      <3>2. page' \notin Busy
        BY <2>1 DEF Busy
      <3>3. QED
        BY <1>1, <2>1, <2>3, <3>1, <3>2, MarkStep
    <2>4. (\E k : Post(k, body)) \/ page \in {"advance", "first", "finish", "finished"}
      BY <1>12 DEF ReplyLost, Busy
    <2>5. QED
      BY <2>2, <2>3, <2>4
  <1>13. QED
    BY <1>4, <1>5, <1>6, <1>7, <1>8, <1>9, <1>10, <1>11, <1>12 DEF Answers

LEMMA ResumeStep ==
    ASSUME TypeInv, ResumeInv, Next \/ UNCHANGED vars PROVE ResumeInv'
  <1>1. CASE Answers
    BY <1>1, ResumeAnswers
  <1>2. CASE Boot \/ PowerFails
    <2>1. UNCHANGED <<progress, saved>> /\ UNCHANGED pageVars
      BY <1>2
      DEF Boot, PowerFails, Restart, store, AppMain, BootModes, BootSatel,
          BootTuya, BootNet, BootMqtt, BootWebhook, BootPanel, LoadOrDefault,
          Save, SaveFails, TlsLoad, GenX509, GenFails, TlsSetCert, TlsSetKey
    <2>2. UNCHANGED <<page, current, completed, target>> /\ UNCHANGED skipped
      BY <2>1 DEF pageVars, request
    <2>3. ~failed' => ~failed
      BY NotForgotten
    <2>4. ~skipped' => ~skipped
      BY <2>2, Zenon
    <2>5. QED
      BY <2>1, <2>2, <2>3, <2>4
      DEF ResumeInv, MarksSound, SaveSound, Reached, Done, Key, Indices, Last
  <1>3. ASSUME ~Answers, ~Boot, ~PowerFails PROVE ResumeInv'
    <2> SUFFICES ASSUME ~skipped', ~failed' PROVE MarksSound' /\ SaveSound'
      BY DEF ResumeInv
    <2>1. UNCHANGED deviceVars
      BY <1>3
      DEF Next, Presses, PressSave, PressPanel, PressFinish, Press, Type, Back,
          Reload, UserReload, Load, LoadAnswered, Answered, Handled, LoadFails,
          Refused, ClickStep, vars, deviceVars
    <2>2. UNCHANGED <<progress, saved>> /\ ~failed
      BY <2>1, DeviceKept DEF TlsKept, deviceVars, store
    <2>3. ~skipped
      BY <1>3, Zenon
      DEF Next, Presses, PressSave, PressPanel, PressFinish, Press, Type, Back,
          Reload, UserReload, Load, LoadAnswered, LoadFails, LoadEnds,
          ClickStep, vars, pageVars
    <2>4. MarksSound /\ SaveSound
      BY <2>2, <2>3 DEF ResumeInv
    <2>5. \A i \in Indices : i \in Nat
      BY Steps
    <2>6. CASE Presses
      <3>1. /\ UNCHANGED <<current, completed>> /\ target' = current
            /\ page' \in {"save", "advance", "first", "finish"}
            /\ page' # "save" => Key(current) \in {"panel", "summary"}
        BY <2>6 DEF Presses, PressSave, PressPanel, PressFinish, Press
      <3>2. MarksSound'
        BY <2>2, <2>4, <3>1, Unmarked DEF MarksSound, Reached
      <3>3. SaveSound'
        BY <3>1, <3>2
        DEF SaveSound, MarksSound, Reached, Done, Key, Untracked, Indices, Last
      <3>4. QED
        BY <3>2, <3>3
    <2>7. CASE Back \/ Reload \/ UserReload
      <3>1. page' \notin Busy
        BY <2>7, <1>3, <2>4 DEF Back, Reload, UserReload, Load, Waits, Busy
      <3>2. completed' \in {completed, {}} /\ current' \in {0, current - 1}
        BY <2>7 DEF Back, Reload, UserReload, Load, GoTo
      <3>3. current \in Nat
        BY <2>5 DEF TypeInv, TypeOK, PageOK
      <3>4. \A j \in Indices : j < current' => j \in progress.mask
        BY <2>4, <2>5, <3>2, <3>3 DEF MarksSound, Reached
      <3>5. MarksSound'
        BY <2>2, <2>4, <3>2, <3>4, Unmarked DEF MarksSound
      <3>6. QED
        BY <3>1, <3>5 DEF SaveSound
    <2>8. ASSUME NEW i \in Indices, ClickStep(i) PROVE MarksSound' /\ SaveSound'
      <3>1. UNCHANGED <<completed, target>> /\ current' = i
            /\ (page' \in Busy => page' = page) /\ Active(i)
        BY <2>8 DEF ClickStep, request, GoTo, Busy
      <3>2. page \in Busy => i \in completed
        BY <2>8 DEF ClickStep
      <3>3. \A j \in Indices : j < i => j \in progress.mask
        <4>1. CASE i < current
          BY <2>4, <2>5, <4>1 DEF MarksSound, Reached, TypeInv, TypeOK, PageOK
        <4>2. CASE i = 0
          BY <2>5, <4>2
        <4>3. CASE i - 1 \in completed
          <5>1. i - 1 \in Indices /\ i - 1 \in progress.mask
            BY <2>4, <4>3 DEF MarksSound, TypeInv, TypeOK, PageOK
          <5>2. Reached(i - 1)
            BY <2>4, <5>1 DEF MarksSound
          <5>3. QED
            BY <2>5, <5>1, <5>2 DEF Reached
        <4>4. QED
          BY <3>1, <4>1, <4>2, <4>3 DEF Active
      <3>4. MarksSound'
        BY <2>2, <2>4, <3>1, <3>3, Unmarked DEF MarksSound
      <3>5. SaveSound'
        BY <2>2, <2>4, <3>1, <3>2
        DEF SaveSound, Reached, Done, Key, Indices, Last
      <3>6. QED
        BY <3>4, <3>5
    <2>9. CASE Type \/ UNCHANGED vars \/ \E i \in Indices : LoadAnswered(i) \/ LoadFails(i)
      <3>1. UNCHANGED <<completed, current>>
        BY <2>9
        DEF Type, LoadAnswered, LoadFails, LoadEnds, vars, pageVars
      <3>2. page' \in Busy => page' = page /\ target' = target
        BY <2>9
        DEF Type, LoadAnswered, LoadFails, LoadEnds, vars, pageVars, request, Busy
      <3>3. MarksSound'
        BY <2>2, <2>4, <3>1, Unmarked DEF MarksSound, Reached
      <3>4. SaveSound'
        BY <2>2, <2>4, <3>1, <3>2
        DEF SaveSound, Reached, Done, Key, Indices, Last
      <3>5. QED
        BY <3>3, <3>4
    <2>10. QED
      BY <1>3, <2>6, <2>7, <2>8, <2>9 DEF Next
  <1>4. QED
    BY <1>1, <1>2, <1>3

LEMMA ResumeInit == Init => ResumeInv
  BY Steps
  DEF Init, DeviceInit, StoreInit, ResumeInv, MarksSound, SaveSound, Reached, Busy

\* The wizard resumes at a step all of whose predecessors are stored, for every
\* list of steps and any number of restarts, refusals, lost answers, BACKs and
\* clicks, as long as no write fails and no step that is not completed is
\* clicked during a save.
THEOREM ResumeKept == Spec => []ResumePoint
  <1>1. TypeInv /\ ResumeInv /\ [Next]_vars => ResumeInv'
    BY ResumeStep
  <1>2. TypeInv /\ [Next]_vars => TypeInv'
    BY TypeInvStep
  <1>3. TypeInv /\ ResumeInv => ResumePoint
    BY DEF ResumeInv, MarksSound, Reached, Done, ResumePoint
  <1>4. QED
    BY TypeInvInit, ResumeInit, <1>1, <1>2, <1>3, PTL DEF Spec

----------------------------------------------------------------------------
\* Inputs that nobody edited.  The inductive invariant says where a secret may
\* be, that app_main leaves the parts it has started stored, and that inputs
\* marked clean, or fresh once they are sent, are what is stored.

NoSecrets ==
    /\ \A k \in Keys \ Protected : nvs[k].secret = Empty
    /\ \A i \in Indices : Key(i) \notin Protected => form[i].secret = Empty
    /\ page \in {"save", "first", "auth"} /\ Key(target) \notin Protected
          => body.secret = Empty
    /\ page = "save" => Key(target) \notin {"panel", "summary"}
    /\ page \in {"first", "auth"} => Key(target) = "panel"

Booted ==
    /\ boot \notin {"modes", "satel"} => "satel" \in stored
    /\ boot \notin {"modes", "satel", "tuya"} => "tuya" \in stored
    /\ boot \notin {"modes", "satel", "tuya", "net"} => "net" \in stored
    /\ boot \in {"panel", "up"} => "webhook" \in stored

AsStored(i, inputs) ==
    Key(i) \in Keys \ {"mqtt", "panel"} =>
        /\ Key(i) \in stored \cup Lists
        /\ inputs.plain = nvs[Key(i)].plain
        /\ inputs.preset = Preset(Key(i), nvs[Key(i)].preset)
        /\ inputs.secret = Empty

UneditedInv ==
    /\ NoSecrets
    /\ ~failed => /\ Booted
                  /\ clean => AsStored(current, form[current])
                  /\ page = "save" /\ fresh => AsStored(target, body)

\* What a write does when it does not fail.
LEMMA SaveWrites ==
    ASSUME NEW k, NEW c, Save(k, c)
    PROVE  /\ stored \subseteq stored' /\ stored' \subseteq stored \cup {k}
           /\ nvs' \in {nvs, [nvs EXCEPT ![k] = c]}
           /\ ~failed' => nvs' = [nvs EXCEPT ![k] = c] /\ k \in stored'
  <1>1. CASE SaveFails
    BY <1>1 DEF SaveFails
  <1>2. CASE ~SaveFails
    BY <1>2 DEF Save
  <1>3. QED
    BY <1>1, <1>2

\* The blob a handler writes.
Written(k, b) == IF k \in Protected THEN Applied(k, b) ELSE b

LEMMA PostWrites ==
    ASSUME NEW k, NEW b, Post(k, b)
    PROVE  \/ UNCHANGED <<nvs, stored>> /\ k = "modes"
           \/ k \in Keys /\ Save(k, Written(k, b))
  BY DEF Post, ConfigPost, ListPost, AuthPost, MqttSet, WebhookConfigPost,
     ModePost, store, Written, Protected, Lists, Keys

\* The steps that write to the flash: app_main stores the defaults of a part
\* that is not stored, or the request of DALEJ is handled.
LEMMA Writers ==
    ASSUME Next \/ UNCHANGED vars
    PROVE  \/ UNCHANGED <<nvs, stored>>
           \/ /\ \E k \in Keys \ (stored \cup Lists) : Save(k, Defaults(k))
              /\ UNCHANGED pageVars
           \/ /\ \/ page = "save" /\ Post(Key(target), body)
                 \/ page = "auth" /\ Post("panel", body)
              /\ page' # "save" /\ (clean' => nvs' = nvs)
  <1>1. CASE Boot \/ PowerFails
    <2>1. UNCHANGED pageVars
      BY <1>1 DEF Boot, PowerFails
    <2>2. CASE \E k \in Keys \ Lists : LoadOrDefault(k)
      <3>1. PICK k \in Keys \ Lists : LoadOrDefault(k)
        BY <2>2
      <3>2. \/ UNCHANGED <<nvs, stored>>
            \/ k \notin stored /\ Save(k, Defaults(k))
        BY <3>1 DEF LoadOrDefault, Loads, store
      <3>3. QED
        BY <2>1, <3>2
    <2>3. CASE UNCHANGED <<nvs, stored>>
      BY <2>3
    <2>4. QED
      BY <1>1, <2>2, <2>3
      DEF Boot, PowerFails, Restart, AppMain, BootModes, BootSatel, BootTuya,
          BootNet, BootMqtt, BootWebhook, BootPanel, TlsLoad, GenX509,
          GenFails, TlsSetCert, TlsSetKey, store, Keys, Lists
  <1>2. CASE Advanced \/ PanelAdvanced \/ FinishAdvanced \/ Finished
    BY <1>2 DEF Advanced, PanelAdvanced, FinishAdvanced, Finished,
       WizardAdvancePost, SaveProgress, SaveFails
  <1>3. CASE Saved \/ PanelSaved
    BY <1>3 DEF Saved, PanelSaved, Sent, Waits
  <1>4. CASE ReplyLost
    <2>1. page' # "save" /\ (clean' => nvs' = nvs)
      BY <1>4, Zenon DEF ReplyLost, Sent, Waits
    <2>2. \/ page = "save" /\ Post(Key(target), body)
          \/ page = "auth" /\ Post("panel", body)
          \/ \E fin : WizardAdvancePost(target, fin)
      BY <1>4 DEF ReplyLost, Busy
    <2>3. QED
      BY <2>1, <2>2 DEF WizardAdvancePost, SaveProgress, SaveFails
  <1>5. CASE Opened \/ OpenFails \/ RequestFails
    BY <1>5 DEF Opened, OpenFails, RequestFails, Refused, deviceVars, store
  <1>6. CASE Presses \/ Type \/ Back \/ Reload \/ UserReload \/ UNCHANGED vars
    BY <1>6 DEF Presses, PressSave, PressPanel, PressFinish, Press, Type, Back,
       Reload, UserReload, Load, vars, deviceVars, store
  <1>7. ASSUME NEW i \in Indices, LoadAnswered(i) \/ LoadFails(i) \/ ClickStep(i)
        PROVE  UNCHANGED <<nvs, stored>>
    BY <1>7 DEF LoadAnswered, LoadFails, Refused, ClickStep, deviceVars, store
  <1>8. QED
    BY <1>1, <1>2, <1>3, <1>4, <1>5, <1>6, <1>7 DEF Next, Answers

\* Where the inputs that are clean come from.
LEMMA CleanFrom ==
    ASSUME Next \/ UNCHANGED vars, clean'
    PROVE  \/ clean /\ current' = current /\ form'[current] = form[current]
           \/ LoadAnswered(current) /\ current' = current
  <1>1. CASE Boot \/ PowerFails \/ Presses \/ UNCHANGED vars
    BY <1>1 DEF Boot, PowerFails, Presses, PressSave, PressPanel, PressFinish,
       Press, vars, pageVars
  <1>2. CASE Opened \/ OpenFails \/ Back \/ Type \/ Reload \/ UserReload
    BY <1>2 DEF Opened, OpenFails, Back, Type, Reload, UserReload, Load, GoTo
  <1>3. CASE Advanced
    BY <1>3 DEF Advanced, GoTo
  <1>4. CASE \/ Saved \/ PanelAdvanced \/ PanelSaved \/ FinishAdvanced
             \/ Finished \/ RequestFails \/ ReplyLost
    <2>1. PICK next, i : Sent(next, i)
      BY <1>4 DEF Saved, PanelAdvanced, PanelSaved, FinishAdvanced, Finished,
         RequestFails, ReplyLost
    <2>2. clean /\ UNCHANGED <<current, form>>
      BY <2>1, Zenon DEF Sent
    <2>3. QED
      BY <2>2
  <1>5. ASSUME NEW i \in Indices, LoadAnswered(i)
        PROVE  \/ clean /\ current' = current /\ form'[current] = form[current]
               \/ LoadAnswered(current) /\ current' = current
    <2>1. current' = current
      BY <1>5 DEF LoadAnswered, LoadEnds
    <2>2. CASE i = current
      BY <1>5, <2>1, <2>2
    <2>3. CASE i # current
      <3>1. clean /\ form'[current] = form[current]
        BY <1>5, <2>3 DEF LoadAnswered
      <3>2. QED
        BY <2>1, <3>1
    <2>4. QED
      BY <2>2, <2>3
  <1>6. ASSUME NEW i \in Indices, LoadFails(i) \/ ClickStep(i)
        PROVE  clean /\ current' = current /\ form'[current] = form[current]
    BY <1>6 DEF LoadFails, LoadEnds, ClickStep, GoTo
  <1>7. QED
    BY <1>1, <1>2, <1>3, <1>4, <1>5, <1>6 DEF Next, Answers

\* Where the inputs that are being saved come from.
LEMMA FreshFrom ==
    ASSUME Next \/ UNCHANGED vars, page' = "save"
    PROVE  \/ page = "save" /\ UNCHANGED <<body, target, fresh>>
           \/ PressSave
  <1>1. CASE Boot \/ PowerFails \/ UNCHANGED vars
    BY <1>1 DEF Boot, PowerFails, vars, pageVars, request
  <1>2. CASE Presses
    BY <1>2 DEF Presses, PressPanel, PressFinish, Press
  <1>3. CASE Answers
    BY <1>3 DEF Answers, Opened, OpenFails, Saved, Advanced, PanelAdvanced,
       PanelSaved, FinishAdvanced, Finished, RequestFails, ReplyLost, Sent, Waits
  <1>4. CASE Back \/ Type \/ Reload \/ UserReload
    BY <1>4 DEF Back, Type, Reload, UserReload, Load, Waits, request
  <1>5. ASSUME NEW i \in Indices, LoadAnswered(i) \/ LoadFails(i) \/ ClickStep(i)
        PROVE  page = "save" /\ UNCHANGED <<body, target, fresh>>
    BY <1>5 DEF LoadAnswered, LoadFails, LoadEnds, ClickStep, request
  <1>6. QED
    BY <1>1, <1>2, <1>3, <1>4, <1>5 DEF Next

\* Only the parts with a password store a secret, and only their inputs hold one.
LEMMA NoSecretsStep ==
    ASSUME TypeInv, NoSecrets, Next \/ UNCHANGED vars PROVE NoSecrets'
  <1>1. ASSUME NEW k \in Keys \ Protected PROVE nvs'[k].secret = Empty
    <2>1. nvs[k].secret = Empty /\ nvs \in [Keys -> Config] /\ body \in Config
      BY DEF NoSecrets, TypeInv, TypeOK, DeviceOK, StoreOK, PageOK
    <2>2. ASSUME NEW j \in Keys, NEW c, Save(j, c),
                 j \notin Protected => c.secret = Empty
          PROVE  nvs'[k].secret = Empty
      <3>1. nvs' = nvs \/ nvs' = [nvs EXCEPT ![j] = c]
        BY <2>2, SaveWrites
      <3>2. QED
        BY <2>1, <2>2, <3>1
    <2>3. ASSUME NEW j \in Keys PROVE j \notin Protected => Defaults(j).secret = Empty
      BY DEF Defaults, Protected, Empty, Blank
    <2>4. ASSUME NEW j \in Keys, Post(j, body),
                 j \notin Protected => body.secret = Empty
          PROVE  nvs'[k].secret = Empty
      BY <2>1, <2>2, <2>4, PostWrites DEF Written
    <2>5. CASE page = "save" /\ Post(Key(target), body)
      <3>1. Key(target) \notin Protected => body.secret = Empty
        BY <2>5 DEF NoSecrets
      <3>2. CASE Key(target) \in Keys
        BY <2>4, <2>5, <3>1, <3>2
      <3>3. CASE Key(target) \notin Keys
        BY <2>1, <2>5, <3>3, PostWrites
      <3>4. QED
        BY <3>2, <3>3
    <2>6. CASE page = "auth" /\ Post("panel", body)
      <3>1. "panel" \in Keys /\ body.secret = Empty
        BY <2>6 DEF NoSecrets, Keys, Protected
      <3>2. QED
        BY <2>4, <2>6, <3>1
    <2>7. QED
      BY <2>1, <2>2, <2>3, <2>5, <2>6, Writers
  <1>2. \A i \in Indices : Key(i) \notin Protected => form'[i].secret = Empty
    <2> SUFFICES ASSUME NEW i \in Indices, Key(i) \notin Protected
                 PROVE  form'[i].secret = Empty
      OBVIOUS
    <2>1. form[i].secret = Empty /\ form \in [Indices -> Config]
          /\ Blank.secret = Empty /\ current \in Indices
      BY DEF NoSecrets, TypeInv, TypeOK, PageOK, Blank
    <2>2. CASE UNCHANGED form
      BY <2>1, <2>2
    <2>3. ASSUME NEW j, GoTo(j) PROVE form'[i].secret = Empty
      <3>1. Rendered(i).secret = Empty
        BY DEF Rendered, Blank
      <3>2. form'[i] = Rendered(i)
        BY <2>3 DEF GoTo
      <3>3. QED
        BY <3>1, <3>2
    <2>4. CASE Load
      BY <2>1, <2>4 DEF Load
    <2>5. CASE Type
      BY <2>1, <2>5 DEF Type, Config
    <2>6. ASSUME NEW j \in Indices, LoadAnswered(j) PROVE form'[i].secret = Empty
      <3>1. form[j] \in Config
        BY <2>1
      <3>2. Filled(j).secret = form[j].secret
        BY <3>1 DEF Filled, Config
      <3>3. QED
        BY <2>1, <2>6, <3>2 DEF LoadAnswered
    <2>7. QED
      BY <2>2, <2>3, <2>4, <2>5, <2>6
      DEF Next, Boot, PowerFails, pageVars, Answers, Opened, OpenFails, Saved,
          Advanced, PanelAdvanced, PanelSaved, FinishAdvanced, Finished,
          RequestFails, ReplyLost, Sent, Presses, PressSave, PressPanel,
          PressFinish, Press, Back, Reload, UserReload, LoadFails, ClickStep,
          vars
  <1>3. /\ page' \in {"save", "first", "auth"} /\ Key(target') \notin Protected
              => body'.secret = Empty
        /\ page' = "save" => Key(target') \notin {"panel", "summary"}
        /\ page' \in {"first", "auth"} => Key(target') = "panel"
    <2>1. CASE page' = page /\ UNCHANGED <<body, target>>
      BY <2>1 DEF NoSecrets
    <2>2. CASE page' \notin {"save", "first", "auth"}
      BY <2>2
    <2>3. CASE Presses
      BY <2>3
      DEF NoSecrets, TypeInv, TypeOK, PageOK, Presses, PressSave, PressPanel,
          PressFinish, Press
    <2>4. CASE PanelAdvanced
      <3>1. page = "first" /\ page' = "auth" /\ UNCHANGED <<body, target>>
        BY <2>4 DEF PanelAdvanced, Sent, Waits
      <3>2. QED
        BY <3>1 DEF NoSecrets
    <2>5. QED
      BY <2>1, <2>2, <2>3, <2>4
      DEF Next, Boot, PowerFails, pageVars, request, Answers, Opened, OpenFails,
          Saved, Advanced, PanelSaved, FinishAdvanced, Finished, RequestFails,
          ReplyLost, Sent, Waits, Type, Back, Reload, UserReload, Load,
          LoadAnswered, LoadFails, LoadEnds, ClickStep, vars
  <1>4. QED
    BY <1>1, <1>2, <1>3 DEF NoSecrets, Key, Indices, Last

\* app_main goes on from a part it has stored, unless the write failed.
LEMMA BootedStep ==
    ASSUME Booted, ~failed', Next \/ UNCHANGED vars
    PROVE  Booted' /\ stored \subseteq stored'
  <1>1. stored \subseteq stored'
    BY Writers, PostWrites, SaveWrites
  <1>2. CASE UNCHANGED boot
    BY <1>1, <1>2 DEF Booted
  <1>3. ASSUME NEW k, LoadOrDefault(k) PROVE k \in stored'
    BY <1>1, <1>3, SaveWrites DEF LoadOrDefault, Loads
  <1>4. CASE Restart
    BY <1>1, <1>4 DEF Restart, Booted
  <1>5. CASE AppMain
    BY <1>1, <1>3, <1>5
    DEF AppMain, BootModes, BootSatel, BootTuya, BootNet, BootMqtt, BootWebhook,
        BootPanel, TlsLoad, GenX509, GenFails, TlsSetCert, TlsSetKey, Booted
  <1>6. TlsKept => UNCHANGED boot
    BY DEF TlsKept
  <1>7. QED
    BY <1>1, <1>2, <1>4, <1>5, <1>6, PageKeeps

\* A write of something else, or of nothing new, leaves inputs as stored.
LEMMA AsStoredKept ==
    ASSUME TypeInv, NoSecrets, ~failed', Booted,
           NEW i \in Indices, NEW inputs, AsStored(i, inputs),
           Next \/ UNCHANGED vars,
           \/ page \notin {"save", "auth"}
           \/ page' = "save" \/ clean'
    PROVE  /\ Key(i) \in Keys \ {"mqtt", "panel"} =>
                 /\ Key(i) \in stored' \cup Lists
                 /\ inputs.plain = nvs'[Key(i)].plain
                 /\ inputs.preset = Preset(Key(i), nvs'[Key(i)].preset)
                 /\ inputs.secret = Empty
  <1> SUFFICES ASSUME Key(i) \in Keys \ {"mqtt", "panel"}
               PROVE  nvs'[Key(i)] = nvs[Key(i)] /\ stored \subseteq stored'
    BY DEF AsStored
  <1>1. stored \subseteq stored'
    BY BootedStep
  <1>2. nvs \in [Keys -> Config]
    BY DEF TypeInv, TypeOK, DeviceOK, StoreOK
  <1>3. ASSUME NEW k \in Keys \ (stored \cup Lists), Save(k, Defaults(k))
        PROVE  nvs'[Key(i)] = nvs[Key(i)]
    <2>1. nvs' = nvs \/ nvs' = [nvs EXCEPT ![k] = Defaults(k)]
      BY <1>3, SaveWrites
    <2>2. k # Key(i)
      BY <1>3 DEF AsStored
    <2>3. QED
      BY <1>2, <2>1, <2>2
  <1>4. QED
    BY <1>1, <1>3, Writers

LEMMA UneditedStep ==
    ASSUME TypeInv, UneditedInv, Next \/ UNCHANGED vars PROVE UneditedInv'
  <1>1. NoSecrets'
    BY NoSecretsStep DEF UneditedInv
  <1> SUFFICES ASSUME ~failed'
               PROVE  /\ Booted'
                      /\ clean' => AsStored(current, form[current])'
                      /\ page' = "save" /\ fresh' => AsStored(target, body)'
    BY <1>1 DEF UneditedInv
  <1>2. /\ NoSecrets /\ Booted
        /\ clean => AsStored(current, form[current])
        /\ page = "save" /\ fresh => AsStored(target, body)
    BY NotForgotten DEF UneditedInv
  <1>3. Booted'
    BY <1>2, BootedStep
  <1>4. current \in Indices /\ target \in Indices
        /\ form \in [Indices -> Config] /\ nvs \in [Keys -> Config]
    BY DEF TypeInv, TypeOK, DeviceOK, StoreOK, PageOK
  <1>5. ASSUME clean' PROVE AsStored(current, form[current])'
    <2>1. CASE clean /\ current' = current /\ form'[current] = form[current]
      BY <1>2, <1>4, <1>5, <2>1, AsStoredKept
      DEF AsStored, Key, Preset, HasPreset
    <2>2. CASE LoadAnswered(current) /\ current' = current
      <3>1. boot = "up" /\ UNCHANGED <<stored, nvs>>
            /\ form'[current] = Filled(current) /\ form[current].secret = Empty
        BY <1>4, <1>5, <2>2 DEF LoadAnswered, Answered, Handled, store
      <3>2. Key(current) \in Keys \ {"mqtt", "panel"} =>
               /\ Key(current) \in stored \cup Lists
               /\ Shown(Key(current)) = nvs[Key(current)]
        BY <1>2, <3>1 DEF Booted, Shown, StoredGet, Keys, Protected, Lists
      <3>3. form[current] \in Config
        BY <1>4
      <3>4. /\ Key(current) # "panel" =>
                  /\ Filled(current).plain = Shown(Key(current)).plain
                  /\ Filled(current).preset
                        = Preset(Key(current), Shown(Key(current)).preset)
            /\ Filled(current).secret = Empty
        BY <3>1, <3>3 DEF Filled, Config
      <3>5. QED
        BY <2>2, <3>1, <3>2, <3>4 DEF AsStored, Key, Preset, HasPreset
    <2>3. QED
      BY <1>5, <2>1, <2>2, CleanFrom
  <1>6. ASSUME page' = "save", fresh' PROVE AsStored(target, body)'
    <2>1. CASE page = "save" /\ UNCHANGED <<body, target, fresh>>
      <3>1. AsStored(target, body)
        BY <1>2, <1>6, <2>1, Zenon
      <3>2. QED
        BY <1>2, <1>4, <1>6, <2>1, <3>1, AsStoredKept
        DEF AsStored, Key, Preset, HasPreset
    <2>2. CASE PressSave
      <3>1. fresh' = clean /\ body' = form[current] /\ target' = current
            /\ UNCHANGED <<stored, nvs>>
        BY <2>2 DEF PressSave, Press, deviceVars, store
      <3>2. AsStored(current, form[current])
        BY <1>2, <1>6, <3>1, Zenon
      <3>3. QED
        BY <3>1, <3>2 DEF AsStored, Key, Preset, HasPreset
    <2>3. QED
      BY <1>6, <2>1, <2>2, FreshFrom
  <1>7. QED
    BY <1>3, <1>5, <1>6

LEMMA UneditedInit == Init => UneditedInv
  BY DEF Init, DeviceInit, StoreInit, UneditedInv, NoSecrets, Booted, Blank

\* Pressing DALEJ on inputs as the GET filled them leaves the stored part as
\* it is, with its secret, but for an empty or zero field the page has a
\* default for; for every list of steps, and whatever the device did between
\* the GET and the save, a restart that stores defaults included.
THEOREM UneditedKept == Spec => UneditedKeeps
  <1> DEFINE Keeps ==
         \A k \in Keys \ {"mqtt"} :
            page = "save" /\ fresh /\ Key(target) = k /\ ~failed'
               => nvs'[k] \in {nvs[k], Refilled(k)}
  <1>1. TypeInv /\ UneditedInv /\ [Next]_vars => [Keeps]_vars
    <2> SUFFICES ASSUME TypeInv, UneditedInv, Next, page = "save", fresh,
                        NEW k \in Keys \ {"mqtt"}, Key(target) = k, ~failed'
                 PROVE  nvs'[k] \in {nvs[k], Refilled(k)}
      OBVIOUS
    <2>1. /\ NoSecrets /\ Booted /\ k # "panel"
          /\ k \in stored \cup Lists
          /\ body.plain = nvs[k].plain
          /\ body.preset = Preset(k, nvs[k].preset)
          /\ body.secret = Empty
      BY NotForgotten DEF UneditedInv, AsStored, NoSecrets
    <2>2. nvs \in [Keys -> Config] /\ body \in Config /\ k \in Keys
      BY DEF TypeInv, TypeOK, DeviceOK, StoreOK, PageOK
    <2>3. ASSUME NEW j \in Keys \ (stored \cup Lists), Save(j, Defaults(j))
          PROVE  nvs'[k] = nvs[k]
      <3>1. nvs' = [nvs EXCEPT ![j] = Defaults(j)] /\ j # k
        BY <2>1, <2>3, SaveWrites
      <3>2. QED
        BY <2>2, <3>1
    <2>4. ASSUME Post(k, body) PROVE nvs'[k] \in {nvs[k], Refilled(k)}
      <3>1. CASE UNCHANGED nvs
        BY <3>1
      <3>2. CASE nvs' = [nvs EXCEPT ![k] = Written(k, body)]
        <4>1. nvs[k] \in Config /\ (k \notin Protected => nvs[k].secret = Empty)
          BY <2>1, <2>2 DEF NoSecrets
        <4>2. /\ Written(k, body).plain = nvs[k].plain
              /\ Written(k, body).preset = Preset(k, nvs[k].preset)
              /\ Written(k, body).secret = nvs[k].secret
              /\ Written(k, body) \in Config
          BY <2>1, <2>2, <4>1 DEF Written, Applied, Config
        <4>3. Written(k, body) = Refilled(k)
          BY <4>1, <4>2 DEF Config, Refilled
        <4>4. QED
          BY <2>2, <3>2, <4>3
      <3>3. QED
        BY <2>4, <3>1, <3>2, PostWrites, SaveWrites
    <2>5. QED
      BY <2>3, <2>4, Writers
  <1>2. TypeInv /\ UneditedInv /\ [Next]_vars => UneditedInv'
    BY UneditedStep
  <1>3. TypeInv /\ [Next]_vars => TypeInv'
    BY TypeInvStep
  <1>4. QED
    BY TypeInvInit, UneditedInit, <1>1, <1>2, <1>3, PTL DEF Spec, UneditedKeeps
=============================================================================
