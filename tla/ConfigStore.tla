---------------------------- MODULE ConfigStore ----------------------------
(***************************************************************************)
(* The configuration in flash: config_manager.cpp and crypto_manager.cpp   *)
(* keep one NVS blob per part of the configuration.  A write reaches the   *)
(* flash at once (the commit that follows it adds nothing); the results of *)
(* nvs_set_blob and nvs_commit are not looked at, so a save that fails     *)
(* looks like one that worked.                                             *)
(*                                                                         *)
(* A blob is three fields: two that a GET shows again, of which the page   *)
(* knows a default for the second (port, region, acknowledgement time),    *)
(* and one that it only tells to be there (passwords, client_secret).  A   *)
(* field is empty or zero, the built-in default, or something typed.       *)
(***************************************************************************)
EXTENDS Integers, Sequences

CONSTANTS
    MaxEdits,       \* bound on the fields typed
    MaxTroubles     \* bound on troubles and detours together

ASSUME StoreAssumption == MaxEdits \in Nat /\ MaxTroubles \in Nat

VARIABLES
    stored,         \* the blobs that exist
    nvs,            \* what is in them; a load of one that does not leaves zeros
    progress,       \* wizard_cfg: wizard_progress_t
    saved,          \* ghost: the parts a handler has stored
    failed,         \* ghost: a write failed, nvs_set_str of web_tls included
    troubles,       \* ghost: failing writes and the like, and power failures
    detours         \* ghost: failures and detours of whoever uses the device

store == <<stored, nvs, progress, saved, failed>>

Keys == {"net", "tuya", "satel", "panel", "mqtt", "webhook", "scenes",
         "schedules", "escalation"}

Empty == 0
BuiltIn == 1
Fields == 0..(MaxEdits + 1)
Config == [plain : Fields, preset : Fields, secret : Fields]
Blank == [plain |-> Empty, preset |-> Empty, secret |-> Empty]
Defaults(k) ==
    IF k \in {"satel", "tuya"}
    THEN [plain |-> BuiltIn, preset |-> BuiltIn, secret |-> BuiltIn]
    ELSE [Blank EXCEPT !.plain = BuiltIn]

StoreOK ==
    /\ stored \subseteq Keys /\ nvs \in [Keys -> Config]
    /\ progress \in [step : Nat, mask : SUBSET Nat, finished : BOOLEAN]
    /\ saved \subseteq Keys /\ failed \in BOOLEAN /\ troubles \in Nat /\ detours \in Nat
    /\ troubles <= MaxTroubles /\ detours <= MaxTroubles

\* a new device
StoreInit ==
    /\ stored = {} /\ nvs = [k \in Keys |-> Blank]
    /\ progress = [step |-> 0, mask |-> {}, finished |-> FALSE]
    /\ saved = {} /\ failed = FALSE
    /\ troubles = 0 /\ detours = 0

\* config_manager_load_*, crypto_load_*: ESP_OK if the blob is there
Loads(k) == k \in stored

Trouble == troubles + detours < MaxTroubles /\ troubles' = troubles + 1
Detour == troubles + detours < MaxTroubles /\ detours' = detours + 1

SaveFails == Trouble /\ failed' = TRUE /\ UNCHANGED <<stored, nvs, progress>>

\* config_manager_save_*
Save(k, c) ==
    \/ /\ stored' = stored \cup {k} /\ nvs' = [nvs EXCEPT ![k] = c]
       /\ UNCHANGED <<progress, failed, troubles>>
    \/ SaveFails

\* crypto_save_satel_creds, crypto_save_tuya_creds
SaveCreds(k, c) == k \in {"satel", "tuya"} /\ Save(k, c)

\* config_manager_save_wizard_progress
SaveProgress(p) ==
    \/ progress' = p /\ UNCHANGED <<stored, nvs, failed, troubles>>
    \/ SaveFails
=============================================================================
