---------------------------- MODULE SetupPanels ----------------------------
(***************************************************************************)
(* A setup panel of the dashboard with held changes: Services, Presenta-   *)
(* tion, Lighting or Backend (the four *SetupPanel.tsx that share SaveBar  *)
(* and useSaveAttempt; the fifth, Playback, saves in a chain of its own).  *)
(* What the operator types is held until Save configuration; the dashboard *)
(* keeps a copy of the saved settings, which other operations and other    *)
(* sessions renew; leaving a panel with held changes asks first.           *)
(*                                                                         *)
(* Abstracted: a panel has two fields that can be typed in and, on         *)
(* Services, the secret, which the settings never show.  On Lighting the   *)
(* first field is OSC's, the second MIDI's, and the method says which of   *)
(* them is on show and stored; the other is kept as it was typed.          *)
(***************************************************************************)
EXTENDS Naturals

CONSTANT MaxPanelSaves   \* bound: saves sent, by this session and by others

ASSUME SetupPanelsAssumption == MaxPanelSaves \in Nat

Panels == {"services", "presentation", "lighting", "backend"}
Fields == {"method", "first", "second"}
Invalid == 2                       \* a value the panel cannot parse
Values == {0, 1}
Osc == 0                           \* the method of Lighting; 1 is MIDI
Texts == [Fields -> Values \cup {Invalid}]

VARIABLES
    panel,      \* the panel that is followed
    shown,      \* the panel on screen: this one, another or none
    leaving,    \* where the question "Discard unsaved changes?" leads, or "stay"
    stored,     \* the settings the backend has
    copy,       \* the settings the dashboard has
    draft,      \* what the fields show
    secret,     \* a secret is typed
    enabled,    \* this part has been saved once
    saving,     \* the save under way
    saveFailed, attempted,
    panelSaves

setupVars == <<panel, shown, leaving, stored, copy, draft, secret, enabled,
               saving, saveFailed, attempted, panelSaves>>

NoSave == [at |-> "none"]

SetupInit ==
    /\ panel \in Panels /\ shown = "none" /\ leaving = "stay"
    /\ \E method \in Values :
          /\ panel # "lighting" => method = 0
          /\ stored = [f \in Fields |-> IF f = "method" THEN method ELSE 0]
    /\ copy = stored /\ draft = stored
    /\ secret = FALSE /\ enabled \in BOOLEAN /\ (panel = "backend" => enabled)
    /\ saving = NoSave /\ saveFailed = FALSE /\ attempted = FALSE /\ panelSaves = 0

Open == shown = panel
Held(f) == Open /\ draft[f] # copy[f]

\* The fields that the panel shows, counts as changes and checks before a save.
Chosen(values, f) ==
    panel = "lighting" /\ f # "method" => f = IF values["method"] = Osc THEN "first" ELSE "second"
Offered(f) == Chosen(draft, f)

Dirty == Open /\ ((\E f \in Fields : Offered(f) /\ draft[f] # copy[f]) \/ secret)
Busy == saving.at # "none"
Parsed == \A f \in Fields : Offered(f) => draft[f] # Invalid

BarState == IF Busy THEN "saving"
            ELSE IF ~Dirty THEN "clean"
            ELSE IF saveFailed THEN "error" ELSE "held"

-----------------------------------------------------------------------------
(* Opening and leaving the panel.                                           *)

\* The panel is mounted again: its drafts are the saved values.
Mounts(to) ==
    IF to = panel
    THEN draft' = copy /\ secret' = FALSE /\ saveFailed' = FALSE /\ attempted' = FALSE
    ELSE UNCHANGED <<draft, secret, saveFailed, attempted>>

\* goTo: leaving with held changes asks; everything else is immediate.
GoTo(to) ==
    /\ leaving = "stay" /\ to # shown
    /\ IF Dirty
       THEN /\ leaving' = to
            /\ UNCHANGED <<shown, draft, secret, saveFailed, attempted>>
       ELSE shown' = to /\ Mounts(to) /\ UNCHANGED leaving
    /\ UNCHANGED <<panel, stored, copy, enabled, saving, panelSaves>>
KeepEditing ==
    /\ leaving # "stay" /\ leaving' = "stay"
    /\ UNCHANGED <<panel, shown, stored, copy, draft, secret, enabled, saving,
                   saveFailed, attempted, panelSaves>>
DiscardAndLeave ==
    /\ leaving # "stay" /\ leaving' = "stay" /\ shown' = leaving
    /\ UNCHANGED <<panel, stored, copy, draft, secret, enabled, saving, saveFailed,
                   attempted, panelSaves>>

-----------------------------------------------------------------------------
(* Typing, discarding and saving.  The fields are off while a save is under *)
(* way, but for the ones of Lighting.                                       *)

AtHand == Open /\ leaving = "stay"

Type(f, v) ==
    /\ AtHand /\ (panel = "lighting" \/ ~Busy)
    /\ IF f = "method" THEN panel = "lighting" /\ v # Invalid ELSE Offered(f)
    /\ draft' = [draft EXCEPT ![f] = v]
    /\ UNCHANGED <<panel, shown, leaving, stored, copy, secret, enabled, saving,
                   saveFailed, attempted, panelSaves>>
TypeSecret ==
    /\ AtHand /\ panel = "services" /\ ~Busy /\ secret' = TRUE
    /\ UNCHANGED <<panel, shown, leaving, stored, copy, draft, enabled, saving,
                   saveFailed, attempted, panelSaves>>

Discard ==
    /\ AtHand /\ BarState = "held"
    /\ draft' = copy /\ secret' = FALSE /\ saveFailed' = FALSE /\ attempted' = FALSE
    /\ UNCHANGED <<panel, shown, leaving, stored, copy, enabled, saving, panelSaves>>

\* Save and Try again.  A clean panel saves nothing once its part is enabled; a value
\* that does not parse is refused, and its field is marked.
WouldSave == AtHand /\ ~Busy /\ (Dirty \/ ~enabled)
Refuse ==
    /\ WouldSave \/ (AtHand /\ ~Busy /\ panel = "backend")
    /\ ~Parsed /\ attempted' = TRUE
    /\ UNCHANGED <<panel, shown, leaving, stored, copy, draft, secret, enabled, saving,
                   saveFailed, panelSaves>>

\* Lighting sends the MIDI settings it has a copy of while OSC is chosen, and its draft of
\* both while MIDI is.
Sent == IF panel = "lighting" /\ draft["method"] = Osc
        THEN [draft EXCEPT !["second"] = copy["second"]] ELSE draft
Save ==
    /\ WouldSave /\ Parsed /\ panelSaves < MaxPanelSaves /\ panelSaves' = panelSaves + 1
    /\ saving' = [at |-> "sent", values |-> Sent]
    /\ saveFailed' = FALSE /\ secret' = FALSE
    /\ UNCHANGED <<panel, shown, leaving, stored, copy, draft, enabled, attempted>>

-----------------------------------------------------------------------------
(* The dashboard's copy.                                                    *)

\* Mutant: any new copy resets every field.
Synced_All(new) == new

\* A field follows its own saved value on Lighting and Backend; any change resets all
\* of Presentation, and any new copy, changed or not, all of Services.
Synced(new) ==
    [f \in Fields |->
        CASE panel = "services" -> new[f]
          [] panel = "presentation" /\ new # copy -> new[f]
          [] panel \in {"lighting", "backend"} /\ new[f] # copy[f] -> new[f]
          [] OTHER -> draft[f]]
Takes(new) == copy' = new /\ draft' = IF Open THEN Synced(new) ELSE draft

\* Saving one method of Lighting does not touch the settings of the other.
Serve ==
    /\ saving.at = "sent"
    /\ stored' = [f \in Fields |-> IF Chosen(saving.values, f) THEN saving.values[f] ELSE stored[f]]
    /\ enabled' = TRUE
    /\ saving' = [saving EXCEPT !.at = "saved"]
    /\ UNCHANGED <<panel, shown, leaving, copy, draft, secret, saveFailed, attempted, panelSaves>>
Saved ==
    /\ saving.at = "saved" /\ saving' = NoSave
    /\ Takes(stored) /\ saveFailed' = FALSE
    /\ UNCHANGED <<panel, shown, leaving, stored, secret, enabled, attempted, panelSaves>>

\* Refused, not sent or not answered; the panel says so if it is still there.
PanelSaveFails ==
    /\ Busy /\ saving' = NoSave /\ saveFailed' = Open
    /\ UNCHANGED <<panel, shown, leaving, stored, copy, draft, secret, enabled,
                   attempted, panelSaves>>

\* Another operation of the dashboard reads the settings again.
Reread ==
    /\ Takes(stored)
    /\ UNCHANGED <<panel, shown, leaving, stored, secret, enabled, saving, saveFailed,
                   attempted, panelSaves>>

\* Another session saves a field.
SavedElsewhere(f, v) ==
    /\ f = "method" => panel = "lighting"
    /\ Chosen(stored, f)
    /\ panelSaves < MaxPanelSaves /\ panelSaves' = panelSaves + 1
    /\ stored' = [stored EXCEPT ![f] = v]
    /\ UNCHANGED <<panel, shown, leaving, copy, draft, secret, enabled, saving,
                   saveFailed, attempted>>

SetupNext ==
    \/ \E to \in {panel, "another", "none"} : GoTo(to)
    \/ KeepEditing \/ DiscardAndLeave
    \/ \E f \in Fields, v \in Values \cup {Invalid} : Type(f, v)
    \/ TypeSecret \/ Discard \/ Refuse \/ Save
    \/ Serve \/ Saved \/ PanelSaveFails \/ Reread
    \/ \E f \in Fields, v \in Values : SavedElsewhere(f, v)

SetupSpec == SetupInit /\ [][SetupNext]_setupVars

-----------------------------------------------------------------------------
(* Properties.                                                              *)

\* Saving one field, a save that fails, a reading of the settings or a change of panel
\* never takes away what another field holds: a held value goes only when the operator
\* types over it, discards it, or its own saved value changes (on Presentation, any).
\* Services is left out, for it resets its fields with every reading. Excepted is a value
\* typed for the method of Lighting that is not chosen any more: it is not counted
\* (changeCount), so that the panel, with nothing else held, is left without a question.
NoEditLost ==
    [][\A f \in Fields : Held(f) /\ panel # "services" =>
           \/ shown' = panel /\ draft'[f] = draft[f]
           \/ Discard \/ DiscardAndLeave
           \/ \E v \in Values \cup {Invalid} : Type(f, v)
           \/ IF panel = "presentation" THEN copy' # copy ELSE copy'[f] # copy[f]
           \/ ~Offered(f) /\ ~Dirty]_setupVars
=============================================================================
