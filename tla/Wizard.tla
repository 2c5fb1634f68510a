------------------------------- MODULE Wizard -------------------------------
(***************************************************************************)
(* The configuration wizard: the page of spiffs_data/index.html, a browser *)
(* showing it and the device that answers.  The page is one thread of      *)
(* callbacks; between a request and its answer the user may click in the   *)
(* list of steps, which stays active while DALEJ and BACK are disabled.    *)
(*                                                                         *)
(* A request is handled and answered in one step; it may be refused (rate  *)
(* limit, bad body, device not up), or handled and its answer lost.  One   *)
(* that a reload gives up has been handled before it, or never is.         *)
(***************************************************************************)
EXTENDS Device

CONSTANT STEPS  \* the steps, in order; the last is the summary

Last == Len(STEPS) - 1
Indices == 0..Last
Key(i) == STEPS[i + 1]

Kept == Lists                      \* in variables of the page
HasPreset == {"tuya", "satel", "escalation"}
Untracked == {"panel", "modes", "summary"}

ASSUME WizardAssumption ==
    /\ STEPS \in Seq(Keys \cup {"modes", "summary"}) /\ Len(STEPS) \in 1..15
    /\ \A i, j \in Indices : Key(i) = Key(j) => i = j
    /\ \A i \in Indices : Key(i) = "summary" <=> i = Last

VARIABLES
    page,           \* what DALEJ's handler, or the page itself, waits for
    current,        \* the step shown
    completed,      \* completedMask
    form,           \* the inputs of each step
    body,           \* the request DALEJ waits for: its inputs, ...
    target,         \* ... and the step it is about
    loads,          \* GETs of goTo that are not answered
    reloading,      \* savePanel's timer is running
    clean,          \* ghost: the inputs are as the last GET filled them, and
                    \* nothing was saved since
    fresh,          \* ghost: they were when the request was sent
    skipped,        \* ghost: a step not completed was clicked during a save
    edits           \* fields typed so far

request == <<body, target, fresh>>
budgets == <<edits, detours>>
pageVars == <<page, current, completed, form, clean, request, loads, reloading,
              skipped>>
vars == <<deviceVars, pageVars, budgets>>

\* What a press of DALEJ goes through: a step is saved, then marked; the
\* credentials are changed after the mark; the summary sends two marks.
Busy == {"save", "advance", "first", "auth", "finish", "finished"}

PageOK ==
    /\ page \in Busy \cup {"state", "form", "load", "reload", "done"}
    /\ current \in Indices /\ completed \subseteq Indices
    /\ form \in [Indices -> Config] /\ body \in Config /\ target \in Indices
    /\ loads \in [Indices -> Nat] /\ reloading \in BOOLEAN
    /\ clean \in BOOLEAN /\ fresh \in BOOLEAN /\ skipped \in BOOLEAN
    /\ edits \in 0..MaxEdits

TypeOK == DeviceOK /\ PageOK

Init ==
    /\ DeviceInit
    /\ page = "state" /\ current = 0 /\ completed = {}
    /\ form = [i \in Indices |-> Blank] /\ body = Blank /\ target = 0
    /\ loads = [i \in Indices |-> 0] /\ reloading = FALSE
    /\ clean = FALSE /\ fresh = FALSE /\ skipped = FALSE
    /\ edits = 0

----------------------------------------------------------------------------
\* The default the page puts for an empty port or region and for no port or
\* acknowledgement time, when it fills an input and when it sends it.
Preset(k, v) == IF k \in HasPreset /\ v = Empty THEN BuiltIn ELSE v

\* goTo: the inputs are rendered empty and a GET is sent; the summary has none.
HasGet(i) == Key(i) # "summary"
Rendered(j) ==
    [Blank EXCEPT !.plain = IF Key(j) \in Kept THEN form[j].plain ELSE Empty,
                  !.preset = Preset(Key(j), Empty)]
GoTo(i) ==
    /\ current' = i
    /\ form' = [j \in Indices |-> Rendered(j)]
    /\ clean' = FALSE
    /\ loads' = IF HasGet(i) THEN [loads EXCEPT ![i] = @ + 1] ELSE loads

\* A request that is not handled, and one whose answer is lost.
Refused ==
    /\ \/ boot # "up" /\ UNCHANGED detours
       \/ Detour
    /\ UNCHANGED <<deviceVars, edits>>
Handled == boot = "up" /\ UNCHANGED <<boot, tlsVars, edits>>
Answered == Handled /\ UNCHANGED detours
AnswerLost == Handled /\ Detour

----------------------------------------------------------------------------
\* init: the wizard is resumed at the step the device has stored.
Opened ==
    /\ page = "state" /\ page' = "form"
    /\ Answered /\ UNCHANGED <<store, troubles, running>>
    /\ completed' = progress.mask
    /\ GoTo(IF progress.step > Last THEN Last ELSE progress.step)
    /\ UNCHANGED <<request, reloading, skipped>>

OpenFails ==
    /\ page = "state" /\ page' = "form"
    /\ Refused
    /\ completed' = {} /\ GoTo(0)
    /\ UNCHANGED <<request, reloading, skipped>>

Waits(next, about) ==
    /\ page' = next /\ target' = about
    /\ body' = IF next = "auth" THEN body ELSE Blank
    /\ fresh' = FALSE

\* The page is loaded anew, whatever it waits for: by the timer that savePanel
\* starts and nothing stops, or by the user; so it may be when the broker,
\* which must not be left empty, could not be read.
Load ==
    /\ Waits("state", 0)
    /\ form' = [i \in Indices |-> Blank] /\ clean' = FALSE
    /\ loads' = [i \in Indices |-> 0] /\ completed' = {} /\ current' = 0
    /\ reloading' = FALSE
    /\ UNCHANGED <<deviceVars, skipped, edits>>

Unread ==
    /\ page = "form" /\ Key(current) = "mqtt"
    /\ form[current].plain = Empty /\ loads[current] = 0
Reload == (reloading \/ Unread) /\ Load /\ UNCHANGED detours
UserReload == Detour /\ Load

\* The answer to goTo's GET fills the inputs, if they are still on the page
\* or in its variables; the secret ones stay as they are, and the
\* credentials' too.  An error leaves them all.
Filled(i) ==
    LET shown == Shown(Key(i)) IN
    IF Key(i) = "panel" THEN form[i]
    ELSE [form[i] EXCEPT !.plain = shown.plain,
                         !.preset = Preset(Key(i), shown.preset)]
LoadEnds(i) ==
    /\ loads[i] > 0 /\ loads' = [loads EXCEPT ![i] = @ - 1]
    /\ IF page = "load" /\ target = i
       THEN \/ page' = "form" /\ target' = 0
            \/ loads[i] > 1 /\ UNCHANGED <<page, target>>
       ELSE UNCHANGED <<page, target>>
    /\ UNCHANGED <<current, completed, body, fresh, reloading, skipped>>

LoadAnswered(i) ==
    /\ LoadEnds(i) /\ Answered /\ UNCHANGED <<store, troubles, running>>
    /\ form' = IF i = current \/ Key(i) \in Kept
               THEN [form EXCEPT ![i] = Filled(i)] ELSE form
    /\ clean' = IF i = current THEN form[i].secret = Empty ELSE clean

LoadFails(i) ==
    LoadEnds(i) /\ Refused /\ UNCHANGED <<form, clean>>

----------------------------------------------------------------------------
\* the user

\* Zero can be typed as a number, not as a region.
Choices(k) == {edits + 2} \cup (IF k = "tuya" THEN {} ELSE {Empty})

\* The inputs are never disabled.
Type ==
    /\ page \notin {"state", "reload", "done"} /\ Key(current) # "summary"
    /\ edits < MaxEdits /\ edits' = edits + 1
    /\ \/ form' = [form EXCEPT ![current].plain = edits + 2]
       \/ /\ Key(current) \in HasPreset
          /\ \E v \in Choices(Key(current)) :
                form' = [form EXCEPT ![current].preset = v]
       \/ /\ Key(current) \in Protected
          /\ form' = [form EXCEPT ![current].secret = edits + 2]
    /\ clean' = FALSE
    /\ UNCHANGED <<deviceVars, page, current, completed, request, loads,
                   reloading, skipped, detours>>

\* DALEJ, ZAKONCZ
Press(next) ==
    /\ page = "form" /\ page' = next
    /\ body' = form[current] /\ target' = current /\ fresh' = clean
    /\ UNCHANGED <<deviceVars, current, completed, form, clean, loads, reloading,
                   skipped, budgets>>

PressSave ==
    /\ Key(current) \notin {"panel", "summary"}
    /\ Key(current) = "mqtt" => form[current].plain # Empty
    /\ Press("save")
PressPanel ==
    /\ Key(current) = "panel"
    /\ Press(IF form[current].plain = Empty THEN "advance" ELSE "first")
PressFinish == Key(current) = "summary" /\ Press("finish")

\* the list of steps, which brings DALEJ back when it is gone; AnyStep makes
\* every step active
AnyStep(i) == i \in Indices
Active(i) == i < current \/ i = 0 \/ i - 1 \in completed
ClickStep(i) ==
    /\ page # "state" /\ i # current /\ Active(i)
    /\ Detour
    /\ GoTo(i)
    /\ page' = IF page \in {"reload", "done"} THEN "form" ELSE page
    /\ skipped' = (skipped \/ (page \in Busy /\ i \notin completed))
    /\ UNCHANGED <<deviceVars, completed, request, reloading, edits>>

Back ==
    /\ page = "form" /\ current > 0
    /\ Detour
    /\ GoTo(current - 1)
    /\ UNCHANGED <<deviceVars, page, completed, request, reloading, skipped, edits>>

----------------------------------------------------------------------------
\* What DALEJ does when an answer comes.  advance is called with the step
\* shown by then.

Sent(next, about) ==
    /\ Waits(next, about) /\ UNCHANGED <<current, form, loads, skipped>>
    /\ clean' = (clean /\ nvs' = nvs)
    /\ reloading' = (reloading \/ next = "reload")

Saved ==
    /\ page = "save" /\ Answered /\ Post(Key(target), body)
    /\ Sent("advance", current) /\ UNCHANGED completed

\* DALEJ goes on to the step after the one shown.
Advanced ==
    /\ page = "advance" /\ Answered /\ WizardAdvancePost(target, FALSE)
    /\ completed' = completed \cup {target}
    /\ IF current = Last
       THEN Waits("done", 0) /\ UNCHANGED <<current, form, clean, loads>>
       ELSE /\ GoTo(current + 1)
            /\ IF HasGet(current + 1) THEN Waits("load", current + 1) ELSE Waits("form", 0)
    /\ UNCHANGED <<reloading, skipped>>

\* savePanel: the step is marked, then the credentials are changed, then the
\* page is loaded anew.
PanelAdvanced ==
    /\ page = "first" /\ Answered /\ WizardAdvancePost(target, FALSE)
    /\ completed' = completed \cup {target}
    /\ Sent("auth", target)

PanelSaved ==
    /\ page = "auth" /\ Answered /\ Post("panel", body)
    /\ Sent("reload", 0) /\ UNCHANGED completed

\* the summary: marked, then finished
FinishAdvanced ==
    /\ page = "finish" /\ Answered /\ WizardAdvancePost(target, FALSE)
    /\ completed' = completed \cup {target}
    /\ Sent("finished", current)

Finished ==
    /\ page = "finished" /\ Answered /\ WizardAdvancePost(target, TRUE)
    /\ Sent("done", 0) /\ UNCHANGED completed

\* An error leaves the user at the step shown; NoCatch leaves DALEJ disabled,
\* as it is while a step is read.
NoCatch ==
    /\ page \in Busy /\ Refused
    /\ Sent("load", target) /\ UNCHANGED completed
RequestFails ==
    /\ page \in Busy /\ Refused
    /\ Sent("form", 0) /\ UNCHANGED completed

ReplyLost ==
    /\ page \in Busy /\ AnswerLost
    /\ CASE page = "save" -> Post(Key(target), body)
         [] page = "auth" -> Post("panel", body)
         [] page \in {"advance", "first", "finish"} -> WizardAdvancePost(target, FALSE)
         [] page = "finished" -> WizardAdvancePost(target, TRUE)
    /\ Sent("form", 0) /\ UNCHANGED completed

----------------------------------------------------------------------------
Boot == AppMain /\ UNCHANGED <<pageVars, budgets>>
PowerFails == Restart /\ UNCHANGED <<pageVars, budgets>>

Answers ==
    \/ Opened \/ OpenFails \/ Saved \/ Advanced \/ PanelAdvanced \/ PanelSaved
    \/ FinishAdvanced \/ Finished \/ RequestFails \/ ReplyLost

Presses == PressSave \/ PressPanel \/ PressFinish

Next ==
    \/ Boot \/ PowerFails
    \/ Answers \/ Presses \/ Type \/ Back \/ Reload \/ UserReload
    \/ \E i \in Indices : LoadAnswered(i) \/ LoadFails(i) \/ ClickStep(i)

Spec == Init /\ [][Next]_vars

\* app_main runs, requests are answered or fail, and the user goes on.
FairSpec ==
    /\ Spec
    /\ WF_vars(Boot) /\ WF_vars(Answers) /\ WF_vars(Presses) /\ WF_vars(Reload)
    /\ \A i \in Indices : WF_vars(LoadAnswered(i) \/ LoadFails(i))

----------------------------------------------------------------------------
\* Wherever the wizard is resumed, every step before that place, and every
\* step marked completed, has been stored by its handler: across restarts,
\* refused requests, lost answers, BACK and the list of steps (README.md:33).
\* It takes that no write to the flash failed, and that no step that is not
\* completed was clicked while a save was under way: its answer would mark
\* the step clicked (index.html:503).  The credentials are marked before
\* they are stored, and the mode is not stored at all.
ResumePoint ==
    ~skipped /\ ~failed =>
        \A i \in Indices :
            /\ i < progress.step => i \in progress.mask
            /\ i \in progress.mask => Key(i) \in saved \cup Untracked

\* Inputs sent as the GET filled them change nothing in flash but a port, a
\* region or an acknowledgement time that was zero or empty, which becomes the
\* page's default (index.html:163, :194, :427); and a secret that is not shown
\* is not lost: the empty input of a password keeps the one stored.  Not so for
\* the broker: its page shows the one in use, and writes it over one stored
\* since (index.html:246, http_server.cpp:95); nor after a default that could
\* not be stored: the next boot stores it under the page.
Refilled(k) == [nvs[k] EXCEPT !.preset = Preset(k, @)]
UneditedKeeps ==
    [][\A k \in Keys \ {"mqtt"} :
         page = "save" /\ fresh /\ Key(target) = k /\ ~failed'
           => nvs'[k] \in {nvs[k], Refilled(k)}]_vars

\* The wizard can be completed: with finitely many failures, restarts and
\* detours the user who goes on gets to its end.
WizardEnds == <>(page = "done")
=============================================================================
