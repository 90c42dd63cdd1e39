--------------------------- MODULE ClientSettings ---------------------------
(***************************************************************************)
(* The desktop client's settings: the file (src/client/utils/config.py),   *)
(* the window's copy of it (src/client/gui/main_window.py), the dead man's *)
(* switch as the client configures it (src/client/security/deadman.py),    *)
(* and the experimental features with the dialog that opens them           *)
(* (src/client/experimental/manager.py, src/client/gui/                    *)
(* experimental_dialog.py).                                                *)
(*                                                                         *)
(* The interface and the local API's threads read the file, change what    *)
(* they read and write it back, truncating it first, with no lock. The API *)
(* changes the window's copy and writes that one. Of the settings two are  *)
(* kept: "look" for those only the window's copy holds, "switch" for the   *)
(* dead man's. The API runs once its own window has started it (LocalApi). *)
(***************************************************************************)
EXTENDS Naturals, Sequences

CONSTANTS Writers,      \* the interface and the threads of the API
          Window,       \* the interface's thread
          Cooldown,     \* 5 s before the slider may be moved
          MaxSeconds,   \* bound of the clock
          MaxSaves,     \* bound of the writes begun
          Torn, NoTime

ASSUME SettingsAssumption ==
    /\ Window \in Writers /\ Cooldown \in Nat /\ MaxSeconds \in Nat /\ MaxSaves \in Nat
    /\ NoTime \notin Nat

VARIABLES
    disk,       \* the settings file, Torn between its truncation and the write
    memory,     \* MainWindow.config
    job,        \* what a thread still has to do, its copy and its changes
    saved,      \* what the interface has said is saved, while nobody writes
    onServer,   \* the dead man's switch the server has been sent
    saves,
    seconds,
    master,     \* experimental.json: the switch of all features
    features,   \* and those enabled
    view,       \* the dialog: locked, cooling, open
    verified,   \* when the pin and the phrase were first accepted
    until       \* end of the cooling

settingsVars == <<disk, memory, job, saved, onServer, saves, seconds, master, features,
                  view, verified, until>>
fileVars == <<disk, memory, job, saved, onServer, saves>>
dialogVars == <<seconds, master, features, view, verified, until>>

Keys == {"look", "switch"}
Defaults == [k \in Keys |-> 0]
Settings == [Keys -> {0, 1}]
AtRest == [todo |-> <<>>, copy |-> Defaults, wanted |-> Defaults]
Features == {"http_api", "spider_wallet", "radio_link"}

SettingsInit ==
    /\ disk = Defaults /\ memory = Defaults /\ job = [t \in Writers |-> AtRest]
    /\ saved = Torn /\ onServer = 0 /\ saves = 0
    /\ seconds = 0 /\ master = FALSE /\ features = {}
    /\ view = "locked" /\ verified = NoTime /\ until = NoTime

\* load_config: what cannot be read is as good as absent.
Loaded == IF disk = Torn THEN Defaults ELSE disk

-----------------------------------------------------------------------------
(* The settings. *)

\* deadman.set_config, with its sync.
SetConfig == <<"fetch", "cut", "put copy", "sync">>

StartJob(t, steps, wanted) ==
    /\ job[t].todo = <<>> /\ saves < MaxSaves
    /\ saves' = saves + 1
    /\ job' = [job EXCEPT ![t] = [todo |-> steps, copy |-> Defaults, wanted |-> wanted]]
    /\ saved' = Torn
    /\ UNCHANGED <<disk, memory, onServer, dialogVars>>

\* "Save all" of the settings window.
SaveAll(wanted) ==
    StartJob(Window, <<"edit">> \o SetConfig \o <<"reload", "cut", "put memory", "say">>, wanted)

\* update_settings and update_deadman_config of the local API.
ApiUpdate(t, wanted) == t # Window /\ StartJob(t, <<"edit", "cut", "put memory">>, wanted)
ApiSwitch(t, wanted) == t # Window /\ StartJob(t, SetConfig, wanted)

Due(t, step) == job[t].todo # <<>> /\ Head(job[t].todo) = step
Done(t, copy) == job' = [job EXCEPT ![t].todo = Tail(@), ![t].copy = copy]

Edit(t) ==
    /\ Due(t, "edit") /\ Done(t, job[t].copy)
    /\ memory' = [memory EXCEPT !["look"] = job[t].wanted["look"]]
    /\ UNCHANGED <<disk, saved, onServer, saves, dialogVars>>

Fetch(t) ==
    /\ Due(t, "fetch") /\ Done(t, [Loaded EXCEPT !["switch"] = job[t].wanted["switch"]])
    /\ UNCHANGED <<disk, memory, saved, onServer, saves, dialogVars>>

Cut(t) ==
    /\ Due(t, "cut") /\ Done(t, job[t].copy)
    /\ disk' = Torn
    /\ UNCHANGED <<memory, saved, onServer, saves, dialogVars>>

\* Who writes into a file another has written since the truncation leaves
\* the other's end behind its own, if it writes less.
Put(settings) == disk' \in IF disk \in {Torn, settings} THEN {settings} ELSE {settings, Torn}

Write(t) ==
    /\ \/ Due(t, "put copy") /\ Put(job[t].copy)
       \/ Due(t, "put memory") /\ Put(memory)
    /\ Done(t, job[t].copy)
    /\ UNCHANGED <<memory, saved, onServer, saves, dialogVars>>

\* Only a switch that is on is sent, and sending may fail.
Sync(t) ==
    /\ Due(t, "sync") /\ Done(t, job[t].copy)
    /\ onServer' \in IF job[t].copy["switch"] = 1 THEN {onServer, Loaded["switch"]} ELSE {onServer}
    /\ UNCHANGED <<disk, memory, saved, saves, dialogVars>>

\* The window takes the file for its copy, its own changes not yet written.
Reload(t) ==
    /\ Due(t, "reload") /\ Done(t, job[t].copy)
    /\ memory' = Loaded
    /\ UNCHANGED <<disk, saved, onServer, saves, dialogVars>>

Say(t) ==
    /\ Due(t, "say") /\ Done(t, job[t].copy)
    /\ saved' = IF \A u \in Writers \ {t} : job[u].todo = <<>> THEN job[t].wanted ELSE Torn
    /\ UNCHANGED <<disk, memory, onServer, saves, dialogVars>>

\* The program ends and is started again.
SettingsRestart ==
    /\ job' = [t \in Writers |-> AtRest]
    /\ memory' = Loaded /\ saved' = Torn
    /\ view' = IF master THEN "open" ELSE "locked"
    /\ verified' = NoTime /\ until' = NoTime
    /\ UNCHANGED <<disk, onServer, saves, seconds, master, features>>

-----------------------------------------------------------------------------
(* The experimental features. *)

Second ==
    /\ seconds < MaxSeconds /\ seconds' = seconds + 1
    /\ UNCHANGED <<fileVars, master, features, view, verified, until>>

\* The button checks the pin, then the phrase, and starts the cooling; pressed
\* again once the slider is free it starts another, the slider staying free.
Verify(pin, phrase) ==
    /\ view \in {"locked", "slider"} /\ pin /\ phrase
    /\ until' = seconds + Cooldown
    /\ verified' = IF verified = NoTime THEN seconds ELSE verified
    /\ view' = IF view = "locked" THEN "cooling" ELSE view
    /\ UNCHANGED <<fileVars, seconds, master, features>>

\* The slider is freed at once.
CoolAtOnce ==
    /\ view = "cooling" /\ view' = "slider"
    /\ UNCHANGED <<fileVars, seconds, master, features, verified, until>>

\* The timer sees the cooling end and frees the slider.
Cool ==
    /\ view = "cooling" /\ seconds >= until
    /\ view' = "slider"
    /\ UNCHANGED <<fileVars, seconds, master, features, verified, until>>

Slide ==
    /\ view = "slider" /\ view' = "open" /\ master' = TRUE
    /\ verified' = NoTime /\ until' = NoTime
    /\ UNCHANGED <<fileVars, seconds, features>>

Requires(f) == IF f = "spider_wallet" THEN {"http_api"} ELSE {}

EnableFeature(f) ==
    /\ view = "open" /\ master /\ Requires(f) \subseteq features
    /\ features' = features \cup {f}
    /\ UNCHANGED <<fileVars, seconds, master, view, verified, until>>

DisableFeature(f) ==
    /\ view = "open" /\ features' = features \ {f}
    /\ UNCHANGED <<fileVars, seconds, master, view, verified, until>>

DisableAll ==
    /\ view = "open" /\ view' = "locked"
    /\ master' = FALSE /\ features' = {}
    /\ UNCHANGED <<fileVars, seconds, verified, until>>

\* Closing the dialog and opening it again.
Reopen ==
    /\ view' = IF master THEN "open" ELSE "locked"
    /\ verified' = NoTime /\ until' = NoTime
    /\ UNCHANGED <<fileVars, seconds, master, features>>

SettingsNext ==
    \/ \E wanted \in Settings :
          SaveAll(wanted) \/ \E t \in Writers : ApiUpdate(t, wanted) \/ ApiSwitch(t, wanted)
    \/ \E t \in Writers :
          Edit(t) \/ Fetch(t) \/ Cut(t) \/ Write(t) \/ Sync(t) \/ Reload(t) \/ Say(t)
    \/ SettingsRestart \/ Second \/ Cool \/ Slide \/ DisableAll \/ Reopen
    \/ \E pin, phrase \in BOOLEAN : Verify(pin, phrase)
    \/ \E f \in Features : EnableFeature(f) \/ DisableFeature(f)

SettingsSpec == SettingsInit /\ [][SettingsNext]_settingsVars

-----------------------------------------------------------------------------

SettingsTypeOK ==
    /\ disk \in Settings \cup {Torn} /\ memory \in Settings /\ saved \in Settings \cup {Torn}
    /\ \A t \in Writers : job[t].copy \in Settings /\ job[t].wanted \in Settings
    /\ onServer \in {0, 1} /\ saves \in 0 .. MaxSaves /\ seconds \in 0 .. MaxSeconds
    /\ master \in BOOLEAN /\ features \subseteq Features
    /\ view \in {"locked", "cooling", "slider", "open"}

\* The experimental features are switched on only by a dialog that saw the
\* right pin and the phrase at least the cooling time before, whatever was
\* pressed in between, closed or restarted; and a feature is never on while
\* the switch is off.
SwitchedOnInOrder ==
    [][ /\ master' /\ ~master => verified # NoTime /\ seconds >= verified + Cooldown
        /\ ~master' => features' = {} ]_settingsVars

\* What main_window.py:1734 says: the settings are saved. With nobody else
\* writing, the file then holds what the window was told to save.
SavedIsKept == saved # Torn => disk = saved

=============================================================================
