------------------------------- MODULE Device -------------------------------
(***************************************************************************)
(* The bridge as the browser meets it: app_main (main.cpp) brings it up    *)
(* part by part, the power may fail between any two of them, and only the  *)
(* flash survives.  Among the parts is the certificate of web_tls.cpp:     *)
(* two NVS strings, written one after the other.                           *)
(***************************************************************************)
EXTENDS WebPanel

VARIABLES
    boot,       \* where app_main is
    cert, pkey, \* the stored strings, by the pair they are of; 0, none
    tls         \* s_cert_pem, s_key_pem and s_status.ready

tlsVars == <<cert, pkey, tls>>
deviceVars == <<store, troubles, running, boot, tlsVars>>

Boots == {"modes", "satel", "tuya", "net", "tls", "cert", "pkey", "mqtt",
          "webhook", "panel", "up"}

DeviceOK ==
    /\ StoreOK /\ PanelOK
    /\ boot \in Boots
    /\ cert \in Nat /\ pkey \in Nat
    /\ tls \in [cert : Nat, key : Nat, ready : BOOLEAN]

NoTls == [cert |-> 0, key |-> 0, ready |-> FALSE]

DeviceInit ==
    /\ StoreInit /\ PanelInit
    /\ boot = "modes"
    /\ cert = 0 /\ pkey = 0 /\ tls = NoTls

----------------------------------------------------------------------------
\* app_main

\* automation_modes_set(MODE_NIGHT)
BootModes ==
    /\ boot = "modes" /\ boot' = "satel"
    /\ InUse("modes", Defaults("modes"))
    /\ UNCHANGED <<store, troubles, tlsVars>>

\* A part that is not stored gets its defaults, and they are stored.
LoadOrDefault(k) ==
    /\ IF Loads(k) THEN UNCHANGED <<store, troubles>>
       ELSE Save(k, Defaults(k)) /\ UNCHANGED saved
    /\ UNCHANGED tlsVars

\* The configuration a part is started with.
Effective(k) == IF Loads(k) THEN nvs[k] ELSE Defaults(k)

BootSatel ==
    boot = "satel" /\ boot' = "tuya" /\ LoadOrDefault("satel") /\ UNCHANGED running
BootTuya ==
    boot = "tuya" /\ boot' = "net" /\ LoadOrDefault("tuya") /\ UNCHANGED running
BootNet ==
    boot = "net" /\ boot' = "tls" /\ LoadOrDefault("net") /\ UNCHANGED running

BootMqtt ==
    /\ boot = "mqtt" /\ boot' = "webhook"
    /\ LoadOrDefault("mqtt") /\ InUse("mqtt", Effective("mqtt"))
BootWebhook ==
    /\ boot = "webhook" /\ boot' = "panel"
    /\ LoadOrDefault("webhook") /\ InUse("webhook", Effective("webhook"))

\* http_server_init; then the server and the clients are started.
BootPanel ==
    /\ boot = "panel" /\ boot' = "up"
    /\ LoadOrDefault("panel") /\ InUse("panel", Effective("panel"))

----------------------------------------------------------------------------
\* web_tls_init: the strings are read into the buffers, and a pair is made
\* when one of them is missing.  CertOnly looks at the certificate alone.
CertOnly == cert # 0
PairStored == cert # 0 /\ pkey # 0

TlsLoad ==
    /\ boot = "tls" /\ PairStored
    /\ boot' = "mqtt" /\ tls' = [cert |-> cert, key |-> pkey, ready |-> TRUE]
    /\ UNCHANGED <<store, troubles, running, cert, pkey>>

\* gen_x509_self_signed: one key pair, both texts in RAM
NewPair == CHOOSE n \in 1..3 : n # cert /\ n # pkey
GenX509 ==
    /\ boot = "tls" /\ ~PairStored
    /\ boot' = "cert"
    /\ tls' = [cert |-> NewPair, key |-> NewPair, ready |-> FALSE]
    /\ UNCHANGED <<store, troubles, running, cert, pkey>>

\* No entropy or no memory: app_main goes on without a certificate.
GenFails ==
    /\ boot = "tls" /\ ~PairStored /\ Trouble
    /\ boot' = "mqtt"
    /\ tls' = [cert |-> cert, key |-> pkey, ready |-> FALSE]
    /\ UNCHANGED <<store, running, cert, pkey>>

\* nvs_set_str, twice
SetStr(ok) ==
    IF ok THEN UNCHANGED <<failed, troubles>> ELSE Trouble /\ failed' = TRUE

TlsSetCert(ok) ==
    /\ boot = "cert" /\ boot' = "pkey"
    /\ SetStr(ok) /\ cert' = IF ok THEN tls.cert ELSE cert
    /\ UNCHANGED <<stored, nvs, progress, saved, running, pkey, tls>>

TlsSetKey(ok) ==
    /\ boot = "pkey" /\ boot' = "mqtt"
    /\ SetStr(ok) /\ pkey' = IF ok THEN tls.key ELSE pkey
    /\ tls' = [tls EXCEPT !.ready = TRUE]
    /\ UNCHANGED <<stored, nvs, progress, saved, running, cert>>

----------------------------------------------------------------------------
AppMain ==
    \/ BootModes \/ BootSatel \/ BootTuya \/ BootNet
    \/ TlsLoad \/ GenX509 \/ GenFails
    \/ \E ok \in BOOLEAN : TlsSetCert(ok) \/ TlsSetKey(ok)
    \/ BootMqtt \/ BootWebhook \/ BootPanel

\* The power fails, the watchdog bites or an update was installed.
Restart ==
    /\ Trouble
    /\ boot' = "modes" /\ tls' = NoTls
    /\ running' = [k \in Volatile |-> Blank]
    /\ UNCHANGED <<store, cert, pkey>>

\* A server that says it has a certificate has one that fits its key, and the
\* same pair is in flash, so that the next boot presents it again: a power
\* failure between the two writes is repaired, as long as no write fails.
TlsReady ==
    tls.ready /\ ~failed =>
        tls.cert = tls.key /\ cert = tls.cert /\ pkey = tls.key
=============================================================================
