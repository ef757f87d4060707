---------------------------- MODULE VisualEditor ----------------------------
(***************************************************************************)
(* The visual text and colour editor of the development server:            *)
(* dev-editor/overlay.ts in the page, plugin.ts and source.ts in the       *)
(* server.  The server rewrites one element of the source, found by the    *)
(* column that the page was tagged with.  Elements share a line, a text or *)
(* a colour class is as long as its number (0: no class, an empty text or  *)
(* one of white space), so that a save moves the elements behind it.  Hot  *)
(* reload tells the page, later.  An element has one text, its class names *)
(* one colour, and a string is written as it is shown.                     *)
(***************************************************************************)
EXTENDS Naturals, Sequences, SequencesExt

CONSTANTS LineOf,       \* how many elements the line has
          Plain,        \* the elements whose text is JSX text, and not a string in braces
          Lengths,      \* of texts, and the colours that a class can name
          Loose,        \* of JSX texts with white space that the panel does not show
          MaxElementSaves, Blank

\* An inverse operation: what a field was, of the element at a column or of a colour.
Inverses == [field : {"text", "color", "hue"}, place : Nat, old : Nat]

ASSUME OverlayAssumption ==
    /\ LineOf \in Nat \ {0} /\ Lengths \subseteq Nat \ {0} /\ 1..LineOf - 1 \subseteq Lengths
    /\ Plain \subseteq 1..LineOf /\ Loose \subseteq Lengths \ {1}
    /\ Blank \notin Nat \cup Seq(Inverses)

VARIABLES
    source,     \* the files: each element's text and colour class, each theme colour's hue
    tagged,     \* the page: the column that each element was tagged with
    target,     \* the column of the selected element, or 0
    info,       \* the description of it that the panel shows, or Blank
    described,  \* the description that is on its way to the panel; at most one is
    typed,      \* the unsaved edits: a text, or Blank, and a colour, or 0
    saveRun,    \* the save that runs: what it sends next, or Blank
    applied,    \* the inverse operations of what was saved
    reverting,  \* those that a revert still has to carry out, or Blank
    muddled,    \* history: an inverse was none, or was not carried out
    elementSaves

sourceVars == <<source, muddled>>
panelVars == <<target, info, described>>
undoVars == <<applied, reverting>>
overlayVars == <<sourceVars, tagged, panelVars, typed, saveRun, undoVars, elementSaves>>

Elements == 1..LineOf
\* Behind the last save of the bound nothing is selected or typed any more.
WithinSaves == elementSaves < MaxElementSaves \/ saveRun # Blank
NoEdits == [text |-> Blank, color |-> 0]
Original == [text |-> [i \in Elements |-> 1], color |-> [i \in Elements |-> i - 1],
             hue |-> [c \in Lengths |-> c]]

\* tagJsx: an element stands behind the texts and classes of those before it.
ColumnsOf(files) ==
    LET column[i \in Elements] ==
            IF i = 1 THEN 1 ELSE column[i - 1] + files.text[i - 1] + files.color[i - 1] + 1
    IN  column
Columns == ColumnsOf(source)
\* findOpening
Tagged(column) == {i \in Elements : Columns[i] = column}

\* What the panel shows of a text; an empty JSX text is no segment any more.
Gone(i, text) == i \in Plain /\ text = 0
Shown(i, text) == IF i \in Plain /\ text \in Loose THEN text - 1 ELSE text
Kept(i, text) == ~Gone(i, text) /\ Shown(i, text) = text

OverlayInit ==
    /\ source = Original /\ tagged = Columns /\ muddled = FALSE
    /\ target = 0 /\ info = Blank /\ described = {}
    /\ typed = NoEdits /\ saveRun = Blank
    /\ applied = <<>> /\ reverting = Blank /\ elementSaves = 0

(***************************************************************************)
(* The page: previews, the selection and the panel.                        *)
(***************************************************************************)
Describe(column) ==
    described' = IF Tagged(column) = {} THEN {Blank}
                 ELSE {[text |-> IF Gone(i, source.text[i]) THEN Blank ELSE Shown(i, source.text[i]),
                        color |-> source.color[i], hue |-> source.hue] : i \in Tagged(column)}

\* Hot reload, the timer behind a save, or the end of edit mode.
DropPreview ==
    /\ typed # NoEdits /\ typed' = NoEdits
    /\ UNCHANGED <<sourceVars, tagged, panelVars, saveRun, undoVars, elementSaves>>

HotReload ==
    /\ tagged # Columns /\ tagged' = Columns /\ typed' = NoEdits
    /\ UNCHANGED <<sourceVars, panelVars, saveRun, undoVars, elementSaves>>

SelectElement(i) ==
    /\ WithinSaves /\ described = {} /\ target' = tagged[i] /\ typed' = NoEdits
    /\ Describe(tagged[i])
    /\ UNCHANGED <<sourceVars, tagged, info, saveRun, undoVars, elementSaves>>

\* `Blank` is an error.  A save goes on with the description it began with.
Described(answer) ==
    /\ answer \in described /\ described' = {} /\ info' = answer
    /\ saveRun' = IF saveRun = Blank THEN Blank ELSE [saveRun EXCEPT !.shown = FALSE]
    /\ UNCHANGED <<sourceVars, tagged, target, typed, undoVars, elementSaves>>

PreviewText(text) ==
    /\ WithinSaves /\ info # Blank /\ info.text # Blank /\ typed' = [typed EXCEPT !.text = text]
    /\ UNCHANGED <<sourceVars, tagged, panelVars, saveRun, undoVars, elementSaves>>

PreviewColor(color) ==
    /\ WithinSaves /\ info # Blank /\ typed' = [typed EXCEPT !.color = color]
    /\ UNCHANGED <<sourceVars, tagged, panelVars, saveRun, undoVars, elementSaves>>

(***************************************************************************)
(* Saving, one request after the other.                                    *)
(***************************************************************************)
SaveElement ==
    /\ saveRun = Blank /\ typed # NoEdits /\ target # 0 /\ info # Blank
    /\ elementSaves < MaxElementSaves /\ elementSaves' = elementSaves + 1
    /\ saveRun' = [next |-> "text", column |-> target, info |-> info, shown |-> TRUE]
    /\ UNCHANGED <<sourceVars, tagged, panelVars, typed, undoVars>>

Sends(next) == saveRun # Blank /\ saveRun.next = next
Old(field) == saveRun.info[field]
Here == Tagged(saveRun.column)

Edited(field, column, value) ==
    [source EXCEPT ![field] = [i \in Elements |-> IF i \in Tagged(column) THEN value ELSE @[i]]]

\* Edited in place, a JSX text keeps the white space at its ends.
Segment(column) == {i \in Tagged(column) : ~Gone(i, source.text[i])}
EndSpace(field, column, value) ==
    IF field = "text" /\ value # 0 /\ \E i \in Tagged(column) : ~Kept(i, source.text[i])
    THEN {0, 1} ELSE {0}

\* inverse: the request that puts back what the description said; place is a column, or a colour.
Stored(files, inverse, field, new, next) ==
    LET after == [saveRun.info EXCEPT ![field] = new]
    IN  /\ source' = files /\ applied' = Append(applied, inverse)
        /\ saveRun' = [saveRun EXCEPT !.info = after, !.next = next]
        /\ info' = IF saveRun.shown THEN after ELSE info

Undoing(field, place, old) == [field |-> field, place |-> place, old |-> old]
Muddle(outdated) == muddled' = (muddled \/ outdated \/ reverting # Blank)
Outdated(field) == \E i \in Here : Old(field) # source[field][i]

SaveText ==
    /\ Sends("text") /\ typed.text # Blank /\ Old("text") # Blank
    /\ \E i \in Segment(saveRun.column) : Shown(i, source.text[i]) \in {Old("text"), typed.text}
    /\ \E ends \in EndSpace("text", saveRun.column, typed.text) :
          Stored(Edited("text", saveRun.column, typed.text + ends),
                 Undoing("text", saveRun.column, Old("text")), "text", typed.text, "color")
    /\ Muddle(Outdated("text") \/ \E i \in Here : ~Kept(i, source.text[i]) \/ ~Kept(i, typed.text))
    /\ UNCHANGED <<tagged, target, described, typed, reverting, elementSaves>>

NoText ==
    /\ Sends("text") /\ typed.text = Blank /\ saveRun' = [saveRun EXCEPT !.next = "color"]
    /\ UNCHANGED <<sourceVars, tagged, panelVars, typed, undoVars, elementSaves>>

SaveColor ==
    /\ Sends("color") /\ typed.color # 0 /\ Here # {}
    /\ Stored(Edited("color", saveRun.column, typed.color),
             Undoing("color", saveRun.column, Old("color")), "color", typed.color, "end")
    /\ Muddle(Outdated("color"))
    /\ UNCHANGED <<tagged, target, described, typed, reverting, elementSaves>>

\* Wherever the theme's colour is used: the box that says so may be ticked until the last.
SaveToken ==
    /\ Sends("color") /\ typed.color # 0 /\ Old("color") # 0
    /\ Stored([source EXCEPT !.hue[Old("color")] = Old("hue")[typed.color]],
             Undoing("hue", Old("color"), Old("hue")[Old("color")]), "color", typed.color, "end")
    /\ Muddle(Old("hue") # source.hue)
    /\ UNCHANGED <<tagged, target, described, typed, reverting, elementSaves>>

SaveEnds ==
    /\ Sends("end") \/ (Sends("color") /\ typed.color = 0)
    /\ saveRun' = Blank /\ typed' = NoEdits
    /\ UNCHANGED <<sourceVars, tagged, panelVars, undoVars, elementSaves>>

\* Refused by the server, or not sent: the edits stay typed.
ElementSaveFails ==
    /\ (Sends("text") /\ typed.text # Blank) \/ (Sends("color") /\ typed.color # 0)
    /\ saveRun' = Blank
    /\ UNCHANGED <<sourceVars, tagged, panelVars, typed, undoVars, elementSaves>>

\* Mutant: what was saved first is reverted first.
Revert_InOrder ==
    /\ applied # <<>> /\ reverting = Blank
    /\ reverting' = applied /\ applied' = <<>> /\ typed' = NoEdits
    /\ muddled' = (muddled \/ saveRun # Blank)
    /\ UNCHANGED <<source, tagged, panelVars, saveRun, elementSaves>>

(***************************************************************************)
(* Reverting what was saved, the latest first.                             *)
(***************************************************************************)
Revert ==
    /\ applied # <<>> /\ reverting = Blank
    /\ reverting' = Reverse(applied) /\ applied' = <<>> /\ typed' = NoEdits
    /\ muddled' = (muddled \/ saveRun # Blank)
    /\ UNCHANGED <<source, tagged, panelVars, saveRun, elementSaves>>

UndoNext(remaining, files) ==
    /\ reverting' = remaining /\ source' = files
    /\ UNCHANGED <<tagged, panelVars, typed, saveRun, applied, elementSaves>>

\* Where no element or no text is found the server refuses, and the rest is forgotten.
Finds(inverse) ==
    \/ inverse.field = "hue"
    \/ inverse.field = "color" /\ Tagged(inverse.place) # {}
    \/ inverse.field = "text" /\ Segment(inverse.place) # {}

Undone(inverse) ==
    IF inverse.field = "hue" THEN {[source EXCEPT !.hue[inverse.place] = inverse.old]}
    ELSE {Edited(inverse.field, inverse.place, inverse.old + ends) :
             ends \in EndSpace(inverse.field, inverse.place, inverse.old)}

UndoSave ==
    /\ reverting \notin {Blank, <<>>}
    /\ \/ /\ Finds(Head(reverting))
          /\ \E files \in Undone(Head(reverting)) : UndoNext(Tail(reverting), files)
       \/ ~Finds(Head(reverting)) /\ UndoNext(Blank, source)
    /\ UNCHANGED muddled

\* The server did not answer.
UndoFails == reverting \notin {Blank, <<>>} /\ UndoNext(Blank, source) /\ muddled' = TRUE

RevertEnds ==
    /\ reverting = <<>> /\ reverting' = Blank /\ described = {}
    /\ IF target # 0 THEN Describe(target) ELSE UNCHANGED described
    /\ UNCHANGED <<sourceVars, tagged, target, info, typed, saveRun, applied, elementSaves>>

OverlayNext ==
    \/ \E i \in Elements : SelectElement(i)
    \/ \E answer \in described : Described(answer)
    \/ \E n \in Lengths \cup {0} : PreviewText(n)
    \/ \E n \in Lengths : PreviewColor(n)
    \/ DropPreview \/ HotReload \/ SaveElement
    \/ SaveText \/ NoText \/ SaveColor \/ SaveToken \/ SaveEnds \/ ElementSaveFails
    \/ Revert \/ UndoSave \/ UndoFails \/ RevertEnds

(***************************************************************************)
(* Properties.                                                             *)
(***************************************************************************)
\* After a revert that ran to its end, the source is what it was before the first save:
\* elements that moved, selections made between the saves, descriptions that came late and
\* saves that failed half way included (overlay.ts:237-284).  It is not what overlay.ts:69
\* says of every saved edit, "inverse operations".  Excepted are a save that the panel sent
\* from an outdated description, whose inverse is no inverse; of a JSX text, one that empties
\* it, whose inverse finds no text, and one of white space that the panel does not show, which
\* is not put back (source.ts:91, 203-214); an inverse that the server never answered; and,
\* left out of the model, a class with several colours of a kind (source.ts:264-271).
RevertRestores ==
    ~muddled /\ saveRun = Blank /\ reverting = Blank /\ applied = <<>> => source = Original
=============================================================================
