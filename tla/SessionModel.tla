----------------------------- MODULE SessionModel -----------------------------
(* The overlay of models a session lays over the live configuration        *)
(* (SessionModelManager), and the two front ends that use it: the terminal *)
(* commands and the web routes.  Both keep one configuration object and    *)
(* save all of it to the global settings file.  The overlay is also        *)
(* written to the metadata of the session, which the database does not     *)
(* store and nothing reads back; context sizes, and the fields that are    *)
(* not models, are left out.  The project's own settings are read over the *)
(* global ones and never written.                                          *)
CONSTANTS
    Slots,        \* the model fields in use: model, model_thinking, ...
    Models,       \* identifiers of models
    NoModel       \* an optional field that is not set

ASSUME SlotAssumption == "model" \in Slots /\ NoModel \notin Models

VARIABLES
    shell,        \* which front end runs: "terminal" or "web"
    project,      \* the models in the project's settings
    config,       \* the live AppConfig
    settings,     \* the global settings.json; nothing if a save tore it
    overlay,      \* _active_overlay; no field: none is active
    originals,    \* _originals
    unsaved,      \* did the last save of the configuration fail?
    chosen        \* history: the models that were ever meant for the settings
overlayVars == <<shell, project, config, settings, overlay, originals, unsaved, chosen>>

Configs == { c \in [Slots -> Models \cup {NoModel}] : c["model"] # NoModel }
Partial == UNION { [S -> Models] : S \in SUBSET Slots }
NoOverlay == [s \in {} |-> NoModel]
Torn == [s \in {} |-> NoModel]

(* Fields set one by one over those that are there.                        *)
SetOver(new, old) ==
    [s \in DOMAIN new \cup DOMAIN old |-> IF s \in DOMAIN new THEN new[s] ELSE old[s]]
Single(s, m) == [t \in {s} |-> m]

(* restore() and apply(); a command that lays a new overlay restores first.*)
Restored(c) == SetOver(originals, c)
Laid(c, ov) ==
    /\ overlay' = ov
    /\ originals' = [s \in DOMAIN ov |-> c[s]]
    /\ config' = SetOver(ov, c)
Peel == config' = Restored(config) /\ overlay' = NoOverlay /\ originals' = NoOverlay

-----------------------------------------------------------------------------
(* Mutant: the new overlay is laid over the old one.                       *)
SelectOver(s, m) ==
    /\ shell = "terminal"
    /\ Laid(config, SetOver(Single(s, m), overlay))
    /\ UNCHANGED <<shell, project, settings, unsaved, chosen>>

(* The terminal: /session-models adds a field to the overlay, its clear    *)
(* and /clear take the overlay off.                                        *)
Select(s, m) ==
    /\ shell = "terminal"
    /\ Laid(Restored(config), SetOver(Single(s, m), overlay))
    /\ UNCHANGED <<shell, project, settings, unsaved, chosen>>

Revert ==
    /\ shell = "terminal" /\ overlay # NoOverlay
    /\ Peel
    /\ UNCHANGED <<shell, project, settings, unsaved, chosen>>

(* /models: the field is set on the live configuration, a normal model     *)
(* fills fields that are empty, and the overlay is taken off for the save. *)
(* It takes the new value of an overlaid field with it.                    *)
Unfilled == { t \in Slots \ {"model_critique"} : config[t] = NoModel }
Filled(s) ==
    IF s = "model" THEN { f \in SUBSET Unfilled : Unfilled \cap {"model_compact"} \subseteq f }
    ELSE {{}}
Switched(s, m, fill) == [t \in Slots |-> IF t = s \/ t \in fill THEN m ELSE config[t]]

SwitchModel(s, m, fill) ==
    /\ shell = "terminal" /\ fill \in Filled(s)
    /\ LET global == Restored(Switched(s, m, fill))
       IN  /\ settings' = global
           /\ Laid(global, overlay)
    /\ unsaved' = FALSE
    /\ chosen' = [t \in Slots |-> IF t = s \/ t \in fill THEN chosen[t] \cup {m} ELSE chosen[t]]
    /\ UNCHANGED <<shell, project>>

(* A save that fails leaves the file, or tears it if it is open by then    *)
(* (config.py:128).                                                        *)
SettingsSaveFails == settings' \in {settings, Torn} /\ unsaved' = TRUE

(* When the save fails the overlay has been taken off already.             *)
SwitchFails(s, m, fill) ==
    /\ shell = "terminal" /\ fill \in Filled(s)
    /\ config' = Restored(Switched(s, m, fill))
    /\ overlay' = NoOverlay /\ originals' = NoOverlay
    /\ SettingsSaveFails
    /\ chosen' = [t \in Slots |-> IF t = s \/ t \in fill THEN chosen[t] \cup {m} ELSE chosen[t]]
    /\ UNCHANGED <<shell, project>>
-----------------------------------------------------------------------------
(* The web: an overlay replaces the one before, of whichever session that  *)
(* was; only the session that is current reaches the configuration.        *)
PutOverlay(ov) ==
    /\ shell = "web" /\ ov # NoOverlay
    /\ Laid(Restored(config), ov)
    /\ UNCHANGED <<shell, project, settings, unsaved, chosen>>

DeleteOverlay ==
    /\ shell = "web" /\ overlay # NoOverlay
    /\ Peel
    /\ UNCHANGED <<shell, project, settings, unsaved, chosen>>

(* PUT /config sets the fields it is given and saves what is live.         *)
UpdateConfig(new) ==
    /\ shell = "web"
    /\ config' = SetOver(new, config)
    /\ \/ settings' = config' /\ unsaved' = FALSE
       \/ SettingsSaveFails
    /\ chosen' = [s \in Slots |-> IF s \in DOMAIN new THEN chosen[s] \cup {new[s]} ELSE chosen[s]]
    /\ UNCHANGED <<shell, project, overlay, originals>>

(* The next start reads the project's settings over the global ones; no    *)
(* overlay is laid again.  With torn settings nothing starts.              *)
Relaunch ==
    /\ settings # Torn
    /\ config' = SetOver(project, settings)
    /\ overlay' = NoOverlay /\ originals' = NoOverlay
    /\ unsaved' = FALSE
    /\ UNCHANGED <<shell, project, settings, chosen>>
-----------------------------------------------------------------------------
OverlayInit ==
    /\ shell \in {"terminal", "web"}
    /\ project \in Partial /\ settings \in Configs
    /\ config = SetOver(project, settings)
    /\ overlay = NoOverlay /\ originals = NoOverlay
    /\ unsaved = FALSE
    /\ chosen = [s \in Slots |-> {config[s], settings[s]}]

OverlayNext ==
    \/ \E s \in Slots, m \in Models :
          \/ Select(s, m)
          \/ \E fill \in SUBSET Slots : SwitchModel(s, m, fill) \/ SwitchFails(s, m, fill)
    \/ \E new \in Partial : PutOverlay(new) \/ UpdateConfig(new)
    \/ Revert \/ DeleteOverlay \/ Relaunch
OverlaySpec == OverlayInit /\ [][OverlayNext]_overlayVars
-----------------------------------------------------------------------------
OverlayTypeOK ==
    /\ shell \in {"terminal", "web"}
    /\ project \in Partial /\ config \in Configs /\ settings \in Configs \cup {Torn}
    /\ overlay \in Partial
    /\ originals \in [DOMAIN overlay -> Models \cup {NoModel}]
    /\ unsaved \in BOOLEAN
    /\ chosen \in [Slots -> SUBSET (Models \cup {NoModel})]

(* session_model.py:31, "Restore before save_config() to prevent leaking   *)
(* overlay to settings.json": the settings hold models that were meant for *)
(* them or for the project, never one of an overlay.                       *)
SettingsStayGlobal == \A s \in DOMAIN settings : settings[s] \in chosen[s]

(* In the terminal, whatever is selected, switched and cleared, in         *)
(* whichever order, and whichever saves fail: taking the overlay off gives *)
(* what was saved or started with (the project's settings over the global  *)
(* ones), and the overlay is never saved.  A switch saves the project's    *)
(* models with the others.                                                 *)
TerminalPeelsOff ==
    shell = "terminal" =>
        /\ SettingsStayGlobal
        /\ ~unsaved => Restored(config) \in {settings, SetOver(project, settings)}
=============================================================================
