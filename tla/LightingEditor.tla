--------------------------- MODULE LightingEditor ---------------------------
(***************************************************************************)
(* The Lighting panel as an editor of the cues saved per song and method:  *)
(* LightingSetupPanel.tsx with the cue rows, the timeline and the cue      *)
(* board, the hook's operations on cues and pads (useStagePilot.ts) and    *)
(* the routes they call.  The panel shows rows of its own, taken from the  *)
(* dashboard's copy of the settings, and a row edit sends the whole list.  *)
(* A press of a pad while the song runs adds a cue at the backend.  Three  *)
(* operations may be under way at once: one under the key "lights", one    *)
(* of the board (a press or an undo), and one that saves the pads.         *)
(*                                                                         *)
(* A cue is its identifier; times, notes and addresses are left out.       *)
(***************************************************************************)
EXTENDS Naturals, FiniteSets

CONSTANTS Cues,     \* identifiers a new cue may get, each once
          Songs,    \* song keys of the plan
          MaxEdits  \* bound on the operations started

\* Without a song there is nothing to edit.
ASSUME LightingEditorAssumption == Songs # {} /\ MaxEdits \in Nat

Methods == {"osc", "midi"}
CueMaps == [Songs -> [Methods -> SUBSET Cues]]
LightsCopy == [cues : CueMaps, method : Methods]

Lanes == {"lights", "board", "pads"}
Free == [kind |-> "none"]

VARIABLES
  savedLights,  \* the backend's saved cue maps and method
  heldLights,   \* the dashboard's copy of them
  rows,         \* the rows shown for the selected song, by method
  unfilled,     \* OSC rows shown that have no address yet
  editedSong, viewMethod,
  lanes,        \* the operation under way in each lane
  lastCapture,  \* what Undo would undo
  usedCues, editCount,
  captured,     \* history: cues captured and not taken away by the operator
  calm          \* history: no two operations overlapped and none failed

editorVars == <<savedLights, heldLights, rows, unfilled, editedSong,
                viewMethod, lanes, lastCapture, usedCues, editCount,
                captured, calm>>

EditorInit ==
  /\ savedLights = [cues |-> [s \in Songs |-> [m \in Methods |-> {}]],
                    method |-> "osc"]
  /\ heldLights = savedLights
  /\ rows = [m \in Methods |-> {}] /\ unfilled = {}
  /\ editedSong = CHOOSE s \in Songs : TRUE
  /\ viewMethod = "osc"
  /\ lanes = [l \in Lanes |-> Free]
  /\ lastCapture = {} /\ usedCues = {} /\ editCount = 0
  /\ captured = {} /\ calm = TRUE

-----------------------------------------------------------------------------
(* Helpers *)

Idle(l) == lanes[l].kind = "none"
NewCue == CHOOSE c \in Cues : c \notin usedCues

(* A lane's operation takes its key, or is refused when the key is taken. *)
Starts(l, op) ==
  /\ editCount < MaxEdits /\ editCount' = editCount + 1
  /\ lanes' = [lanes EXCEPT ![l] = op]
  /\ calm' = (calm /\ \A k \in Lanes : Idle(k))

Ends(l) == lanes' = [lanes EXCEPT ![l] = Free]

(* A song without cues of either method has no cue map: the effect that    *)
(* copies the map into the rows sees no change and leaves them alone.      *)
Mapless(copy, s) == \A m \in Methods : copy.cues[s][m] = {}

\* Mutant: the rows do not follow the settings that are read again.
Shows_NotTheRows(copy) ==
  /\ heldLights' = copy
  /\ viewMethod' = IF copy.method # heldLights.method THEN copy.method ELSE viewMethod
  /\ UNCHANGED <<rows, unfilled>>

(* setSettings: the rows follow the new copy, and the method its value. *)
Shows(copy) ==
  /\ heldLights' = copy
  /\ viewMethod' = IF copy.method # heldLights.method THEN copy.method
                                                       ELSE viewMethod
  /\ IF Mapless(heldLights, editedSong) /\ Mapless(copy, editedSong)
       THEN UNCHANGED <<rows, unfilled>>
       ELSE rows' = copy.cues[editedSong] /\ unfilled' = {}

(* The update of one method's cues keeps the other method's. *)
PutCues(s, m, list) == [savedLights EXCEPT !.cues[s][m] = list]

Taken(s, m, list) == {x \in captured :
                        ~ (x.song = s /\ x.method = m /\ x.cue \in list)}

-----------------------------------------------------------------------------
(* The operator's edits.  Rows and buttons are off while an operation of   *)
(* the "lights" key is pending; the board is off while either works.       *)

(* persistCues, persistOscCues: shows the list and saves all of it. *)
Persist(list) ==
  /\ rows' = [rows EXCEPT ![viewMethod] = list]
  /\ Starts("lights", [kind |-> "save", at |-> "sent", song |-> editedSong,
                      method |-> viewMethod, list |-> list,
                      valid |-> viewMethod = "midi" \/ unfilled' \cap list = {}])
  /\ UNCHANGED <<savedLights, heldLights, editedSong, viewMethod,
                 lastCapture>>

AddCue ==
  /\ Idle("lights") /\ viewMethod = "midi" /\ usedCues # Cues
  /\ unfilled' = unfilled
  /\ Persist(rows.midi \cup {NewCue})
  /\ usedCues' = usedCues \cup {NewCue}
  /\ UNCHANGED captured

(* A new OSC row is only shown until its address is valid. *)
AddOscCue ==
  /\ Idle("lights") /\ viewMethod = "osc" /\ usedCues # Cues
  /\ rows' = [rows EXCEPT !.osc = @ \cup {NewCue}]
  /\ unfilled' = unfilled \cup {NewCue}
  /\ usedCues' = usedCues \cup {NewCue}
  /\ UNCHANGED <<savedLights, heldLights, editedSong, viewMethod,
                 lanes, lastCapture, editCount, captured, calm>>

(* OscCueRow.commit: the row is complete, and all rows are saved. *)
CommitOscCue(c) ==
  /\ Idle("lights") /\ viewMethod = "osc" /\ c \in rows.osc
  /\ unfilled' = unfilled \ {c}
  /\ Persist(rows.osc)
  /\ UNCHANGED <<usedCues, captured>>

(* A row edited or a marker moved, of either method. *)
ChangeCue ==
  /\ Idle("lights") /\ rows[viewMethod] \ unfilled # {}
  /\ unfilled' = unfilled
  /\ Persist(rows[viewMethod])
  /\ UNCHANGED <<usedCues, captured>>

RemoveCue(c) ==
  /\ Idle("lights") /\ c \in rows[viewMethod]
  /\ unfilled' = unfilled \ {c}
  /\ Persist(rows[viewMethod] \ {c})
  /\ captured' = Taken(editedSong, viewMethod, {c})
  /\ UNCHANGED usedCues

ClearSong ==
  /\ Idle("lights") /\ rows[viewMethod] # {}
  /\ unfilled' = IF viewMethod = "osc" THEN {} ELSE unfilled
  /\ Persist({})
  /\ captured' = Taken(editedSong, viewMethod, rows[viewMethod])
  /\ UNCHANGED usedCues

(* Clear all saves an empty list for one song after the other. *)
ClearAll ==
  /\ Idle("lights")
  /\ rows' = [rows EXCEPT ![viewMethod] = {}]
  /\ unfilled' = IF viewMethod = "osc" THEN {} ELSE unfilled
  /\ Starts("lights", [kind |-> "clear", at |-> "sent", method |-> viewMethod,
                      left |-> Songs])
  /\ captured' = {x \in captured : x.method # viewMethod}
  /\ UNCHANGED <<savedLights, heldLights, editedSong, viewMethod,
                 lastCapture, usedCues>>

(* The held configuration: only its method matters to the cues. *)
SaveMethod ==
  /\ Idle("lights") /\ viewMethod # heldLights.method
  /\ Starts("lights", [kind |-> "settings", at |-> "sent", method |-> viewMethod])
  /\ UNCHANGED <<savedLights, heldLights, rows, unfilled, editedSong,
                 viewMethod, lastCapture, usedCues, captured>>

(* Refresh outputs and the test cues read no settings. *)
Test ==
  /\ Idle("lights")
  /\ Starts("lights", [kind |-> "test", at |-> "sent"])
  /\ UNCHANGED <<savedLights, heldLights, rows, unfilled, editedSong,
                 viewMethod, lastCapture, usedCues, captured>>

(* A pad of the method on screen, when that is the saved one; it captures  *)
(* in capture mode while the selected song runs, which the stage decides.  *)
PressPad(capture) ==
  /\ Idle("lights") /\ Idle("board") /\ viewMethod = heldLights.method
  /\ capture => usedCues # Cues
  /\ Starts("board", [kind |-> "press", at |-> "sent", method |-> viewMethod,
                     song |-> editedSong, capture |-> capture])
  /\ UNCHANGED <<savedLights, heldLights, rows, unfilled, editedSong,
                 viewMethod, lastCapture, usedCues, captured>>

UndoCapture ==
  /\ Idle("lights") /\ Idle("board")
  /\ \E x \in lastCapture :
       /\ Starts("board", [kind |-> "undo", at |-> "sent", song |-> x.song,
                          cue |-> x.cue])
       /\ captured' = {y \in captured : y.cue # x.cue}
  /\ UNCHANGED <<savedLights, heldLights, rows, unfilled, editedSong,
                 viewMethod, lastCapture, usedCues>>

(* Saving the pads blocks neither the rows nor the board. *)
SavePads ==
  /\ Idle("lights") /\ Idle("board") /\ Idle("pads")
  /\ Starts("pads", [kind |-> "pads", at |-> "sent"])
  /\ UNCHANGED <<savedLights, heldLights, rows, unfilled, editedSong,
                 viewMethod, lastCapture, usedCues, captured>>

SelectSong(s) ==
  /\ s # editedSong /\ editedSong' = s
  /\ rows' = heldLights.cues[s] /\ unfilled' = {}
  /\ UNCHANGED <<savedLights, heldLights, viewMethod, lanes,
                 lastCapture, usedCues, editCount, captured, calm>>

ChooseMethod ==
  /\ viewMethod' = CHOOSE m \in Methods : m # viewMethod
  /\ UNCHANGED <<savedLights, heldLights, rows, unfilled, editedSong,
                 lanes, lastCapture, usedCues, editCount,
                 captured, calm>>

-----------------------------------------------------------------------------
(* The backend.  One that saves nothing more is ready to be read again.    *)

Handled(l) == lanes' = [lanes EXCEPT ![l].at = "done"]

Answer(l, kind) ==
  /\ lanes[l].kind = kind /\ lanes[l].at = "sent"
  /\ UNCHANGED <<heldLights, rows, unfilled, editedSong, viewMethod,
                 lastCapture, editCount, calm>>

(* An address still empty fails the validation of the whole list. *)
ServeCues ==
  /\ Answer("lights", "save") /\ lanes.lights.valid
  /\ LET op == lanes.lights IN savedLights' = PutCues(op.song, op.method, op.list)
  /\ Handled("lights")
  /\ UNCHANGED <<usedCues, captured>>

ServeClear(s) ==
  /\ Answer("lights", "clear")
  /\ LET op == lanes.lights IN
       /\ s \in op.left
       /\ savedLights' = PutCues(s, op.method, {})
       /\ lanes' = [lanes EXCEPT !.lights.left = op.left \ {s},
                                 !.lights.at = IF op.left = {s} THEN "done"
                                                               ELSE "sent"]
  /\ UNCHANGED <<usedCues, captured>>

ServeMethod ==
  /\ Answer("lights", "settings")
  /\ savedLights' = [savedLights EXCEPT !.method = lanes.lights.method]
  /\ Handled("lights")
  /\ UNCHANGED <<usedCues, captured>>

(* The capture takes the lock, fires the pad and then adds to the cue map  *)
(* as it is after the send.                                                *)
FirePad ==
  /\ Answer("board", "press") /\ lanes.board.method = savedLights.method
  /\ lanes' = [lanes EXCEPT !.board.at = "fired"]
  /\ UNCHANGED <<savedLights, usedCues, captured>>

AddCapture ==
  /\ lanes.board.kind = "press" /\ lanes.board.at = "fired"
  /\ LET op == lanes.board
         add == op.capture /\ usedCues # Cues
         c == NewCue IN
     /\ lanes' = [lanes EXCEPT !.board =
          [kind |-> "press", at |-> IF add THEN "done" ELSE "fire only",
           song |-> op.song, cue |-> IF add THEN {c} ELSE {}]]
     /\ savedLights' = IF add THEN [savedLights EXCEPT
                              !.cues[op.song][op.method] = @ \cup {c}]
                              ELSE savedLights
     /\ usedCues' = IF add THEN usedCues \cup {c} ELSE usedCues
     /\ captured' = IF add THEN captured \cup {[song |-> op.song,
                                    method |-> op.method, cue |-> c]}
                           ELSE captured
  /\ UNCHANGED <<heldLights, rows, unfilled, editedSong, viewMethod,
                 lastCapture, editCount, calm>>

ServeUndo ==
  /\ Answer("board", "undo")
  /\ savedLights' = [savedLights EXCEPT !.cues[lanes.board.song] =
                       [m \in Methods |-> @[m] \ {lanes.board.cue}]]
  /\ Handled("board")
  /\ UNCHANGED <<usedCues, captured>>

ServePads ==
  /\ Answer("pads", "pads") /\ Handled("pads")
  /\ UNCHANGED <<savedLights, usedCues, captured>>

(* getSettings after the answer: the copy as it is when it is served. *)
WithView(op) ==
  [f \in DOMAIN op \cup {"at", "view"} |->
     CASE f = "at" -> "read" [] f = "view" -> savedLights [] OTHER -> op[f]]
ServeSettings(l) ==
  /\ lanes[l].kind # "none" /\ lanes[l].at = "done"
  /\ lanes' = [lanes EXCEPT ![l] = WithView(lanes[l])]
  /\ UNCHANGED <<savedLights, heldLights, rows, unfilled, editedSong,
                 viewMethod, lastCapture, usedCues, editCount,
                 captured, calm>>

-----------------------------------------------------------------------------
(* The dashboard takes the answer.                                         *)

Remembers(op) ==
  lastCapture' = CASE op.kind = "press" /\ op.cue # {} ->
                        {[song |-> op.song, cue |-> CHOOSE c \in op.cue : TRUE]}
                   [] op.kind = "undo" -> {}
                   [] OTHER -> lastCapture

TakeSettings(l) ==
  /\ lanes[l].kind # "none" /\ lanes[l].at = "read"
  /\ Shows(lanes[l].view) /\ Remembers(lanes[l]) /\ Ends(l)
  /\ UNCHANGED <<savedLights, editedSong, usedCues, editCount,
                 captured, calm>>

(* A test, or a press that added no cue, is not followed by a read. *)
TakeAnswer(l) ==
  /\ \/ lanes[l].kind = "test"
     \/ lanes[l].kind = "press" /\ lanes[l].at = "fire only"
  /\ Ends(l)
  /\ UNCHANGED <<savedLights, heldLights, rows, unfilled, editedSong,
                 viewMethod, lastCapture, usedCues, editCount,
                 captured, calm>>

(* A request that is refused or lost, or an answer that is: the catch      *)
(* leaves rows and copy as they are.  A failed undo also forgets the       *)
(* capture.                                                                *)
Fails(l) ==
  /\ lanes[l].kind \notin {"none", "test"}
  /\ Ends(l) /\ calm' = FALSE
  /\ lastCapture' = IF lanes[l].kind = "undo" THEN {} ELSE lastCapture
  /\ UNCHANGED <<savedLights, heldLights, rows, unfilled, editedSong,
                 viewMethod, usedCues, editCount, captured>>

-----------------------------------------------------------------------------
EditorNext ==
  \/ AddCue
  \/ AddOscCue
  \/ \E c \in Cues : CommitOscCue(c)
  \/ ChangeCue
  \/ \E c \in Cues : RemoveCue(c)
  \/ ClearSong
  \/ ClearAll
  \/ SaveMethod
  \/ Test
  \/ \E capture \in BOOLEAN : PressPad(capture)
  \/ UndoCapture
  \/ SavePads
  \/ \E s \in Songs : SelectSong(s)
  \/ ChooseMethod
  \/ ServeCues
  \/ \E s \in Songs : ServeClear(s)
  \/ ServeMethod
  \/ FirePad
  \/ AddCapture
  \/ ServeUndo
  \/ ServePads
  \/ \E l \in Lanes : ServeSettings(l)
  \/ \E l \in Lanes : TakeSettings(l)
  \/ \E l \in Lanes : TakeAnswer(l)
  \/ \E l \in Lanes : Fails(l)

EditorSpec == EditorInit /\ [][EditorNext]_editorVars

-----------------------------------------------------------------------------
(* As long as the operator waits for each operation and none fails, a cue  *)
(* captured from the board stays saved, through every later edit of the    *)
(* song's rows or of another method or song, until the operator removes,   *)
(* clears or undoes it.  (Each edit sends the whole list the panel shows,  *)
(* so this needs the read that follows a capture.)                         *)
CapturesStay ==
  calm => \A x \in captured : x.cue \in savedLights.cues[x.song][x.method]
=============================================================================
