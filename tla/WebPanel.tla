------------------------------ MODULE WebPanel ------------------------------
(***************************************************************************)
(* The handlers of components/http_server/http_server.cpp that change      *)
(* state.  httpd runs them one at a time, so each is one step; what it     *)
(* answers is left to the caller of these operators.  Next to the flash    *)
(* there is the configuration in use: the credentials, the mode and the    *)
(* webhook address change at once, the MQTT broker only with a restart.    *)
(***************************************************************************)
EXTENDS ConfigStore

VARIABLE running    \* s_auth, mqtt and webhook s_status, current_mode

Protected == {"net", "tuya", "satel"}   \* with a secret
Lists == {"scenes", "schedules", "escalation"}
Volatile == {"panel", "mqtt", "webhook", "modes"}

PanelOK == running \in [Volatile -> Config]
PanelInit == running = [k \in Volatile |-> Blank]

InUse(k, c) == running' = [running EXCEPT ![k] = c]
Stores(k) == saved' = saved \cup {k}

----------------------------------------------------------------------------
\* jstr_apply and jstr_apply_secret on the blob that was loaded: an empty
\* secret keeps the stored one; PlainApply wipes it.
PlainApply(k, body) == body
Applied(k, body) ==
    [body EXCEPT !.secret = IF @ # Empty THEN @ ELSE nvs[k].secret]

\* net_config_post, tuya_config_post, satel_config_post
ConfigPost(k, body) ==
    Save(k, Applied(k, body)) /\ Stores(k) /\ UNCHANGED running

\* webhook_client_init takes the address whether or not it was saved.
WebhookConfigPost(body) ==
    /\ Save("webhook", body) /\ Stores("webhook")
    /\ InUse("webhook", body)

\* An address of less than 5 characters is a bad request; the bridge goes on
\* with the broker it has.
MqttSet(body) ==
    /\ body.plain # Empty
    /\ Save("mqtt", body) /\ Stores("mqtt") /\ UNCHANGED running

\* scenes_post, schedules_post, escalation_post: the list is replaced, and
\* nothing of the old one is kept.
ListPost(k, body) ==
    Save(k, body) /\ Stores(k) /\ UNCHANGED running

AuthPost(body) ==
    /\ Save("panel", body) /\ Stores("panel")
    /\ InUse("panel", body)

\* automation_modes_set, and no save
ModePost(body) ==
    InUse("modes", body) /\ UNCHANGED <<store, troubles>>

Post(k, body) ==
    \/ k \in Protected /\ ConfigPost(k, body)
    \/ k \in Lists /\ ListPost(k, body)
    \/ k = "panel" /\ AuthPost(body)
    \/ k = "mqtt" /\ MqttSet(body)
    \/ k = "webhook" /\ WebhookConfigPost(body)
    \/ k = "modes" /\ ModePost(body)

\* wizard_advance_post: the page sends steps below 16 only.  OffByOne marks the
\* step that is next.
OffByOne(step) == progress.mask \cup {step + 1}
Completed(step) == progress.mask \cup {step}
WizardAdvancePost(step, fin) ==
    /\ SaveProgress([step |-> step + 1, mask |-> Completed(step),
                     finished |-> fin \/ progress.finished])
    /\ UNCHANGED <<saved, running>>

----------------------------------------------------------------------------
\* What the GET of a step answers: the stored blob, but the broker and the mode
\* in use, and of the credentials the name only, which no input takes over.
StoredGet(k) == nvs[k]
MqttGet == running["mqtt"]
ModeGet == running["modes"]

Shown(k) == CASE k \in Protected \cup Lists \cup {"webhook"} -> StoredGet(k)
              [] k = "mqtt" -> MqttGet
              [] k = "modes" -> ModeGet
              [] OTHER -> Blank
=============================================================================
