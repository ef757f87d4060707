------------------------------ MODULE Popovers ------------------------------
(***************************************************************************)
(* What opens under the pointer on the dashboard: the notes of the rows of *)
(* a widget (useCursorPopover, components/Dashboard.tsx), which wait for   *)
(* the pointer to rest once per visit of the widget and are pinned by a    *)
(* tap, and the card of the header (hooks/useDelayedHover.ts).  A timer    *)
(* fires whenever the browser comes to it; a row may lose or get its note, *)
(* or leave the page, while the pointer is over it.                        *)
(*                                                                         *)
(* Abstracted: places on the screen are left out.                          *)
(***************************************************************************)
EXTENDS Naturals, FiniteSets

CONSTANTS NoteRows,  \* of the widget
          Card,      \* the header's card
          Nowhere,   \* the pointer is over neither
          MaxHover   \* bound: of hoverCount, which rows that leave the page keep up

ASSUME PopoverAssumption == Card \notin NoteRows /\ Nowhere \notin NoteRows \cup {Card} /\ MaxHover \in Nat

VARIABLES
    pointer,     \* what the mouse pointer is over
    noted,       \* the rows that have a note
    visible,     \* the rows with `visible`
    pinned,      \* the rows with `pinned`
    warming,     \* the rows whose warm-up timer runs
    warmup,      \* shared by the rows: hoverCount, warm, and whether the leave timer runs
    lost,        \* history: a row left the page under the pointer
    cardOpen, cardTimer, cardFocus   \* of the card

rowNoteVars == <<noted, visible, pinned, warming, warmup, lost>>
cardVars == <<cardOpen, cardTimer, cardFocus>>
popoverVars == <<pointer, rowNoteVars, cardVars>>

PopoversInit ==
    /\ pointer = Nowhere /\ noted = NoteRows /\ visible = {} /\ pinned = {} /\ warming = {}
    /\ warmup = [count |-> 0, warm |-> FALSE, leaving |-> FALSE] /\ lost = FALSE
    /\ cardOpen = FALSE /\ cardTimer = FALSE /\ cardFocus = FALSE

Less(n) == IF n = 0 THEN 0 ELSE n - 1

(***************************************************************************)
(* The rows.                                                               *)
(***************************************************************************)
EnterRow(r) ==
    /\ pointer = Nowhere /\ pointer' = r /\ warmup.count < MaxHover
    /\ IF r \notin noted THEN UNCHANGED <<visible, warming, warmup>>
       ELSE /\ warmup' = [warmup EXCEPT !.count = @ + 1, !.leaving = FALSE]
            /\ IF warmup.warm THEN visible' = visible \cup {r} /\ UNCHANGED warming
                              ELSE warming' = warming \cup {r} /\ UNCHANGED visible
    /\ UNCHANGED <<noted, pinned, lost, cardVars>>

WarmedUp(r) ==
    /\ r \in warming /\ warming' = warming \ {r}
    /\ warmup' = [warmup EXCEPT !.warm = TRUE] /\ visible' = visible \cup {r}
    /\ UNCHANGED <<pointer, noted, pinned, lost, cardVars>>

\* Mutant: the timer of the row goes on.
LeaveRow_Warms(r) ==
    /\ pointer = r /\ pointer' = Nowhere
    /\ visible' = visible \ {r}
    /\ warmup' = [warmup EXCEPT !.count = Less(@), !.leaving = @ \/ warmup.count <= 1]
    /\ UNCHANGED <<noted, pinned, warming, lost, cardVars>>

\* Rows without a note, and pinned ones, are left in the same way.
LeaveRow(r) ==
    /\ pointer = r /\ pointer' = Nowhere
    /\ warming' = warming \ {r} /\ visible' = visible \ {r}
    /\ warmup' = [warmup EXCEPT !.count = Less(@), !.leaving = @ \/ warmup.count <= 1]
    /\ UNCHANGED <<noted, pinned, lost, cardVars>>

LeaveTimer ==
    /\ warmup.leaving
    /\ warmup' = [warmup EXCEPT !.leaving = FALSE, !.warm = @ /\ warmup.count > 0]
    /\ UNCHANGED <<pointer, noted, visible, pinned, warming, lost, cardVars>>

\* A finger comes down outside what is pinned, and taps row r or nothing.
TouchOutside(r) == pinned \ {r}
Tap(r) ==
    /\ r \in noted
    /\ LET still == visible \ TouchOutside(r)
       IN  IF r \in still
           THEN visible' = still \ {r} /\ pinned' = {}
           ELSE visible' = still \cup {r} /\ pinned' = {r}
    /\ UNCHANGED <<pointer, noted, warming, warmup, lost, cardVars>>
TapElsewhere ==
    /\ pinned # {} /\ visible' = visible \ pinned /\ pinned' = {}
    /\ UNCHANGED <<pointer, noted, warming, warmup, lost, cardVars>>

\* The plan gives the row a note or takes it, or takes the row.
NoteChanges(r) ==
    /\ noted' = IF r \in noted THEN noted \ {r} ELSE noted \cup {r}
    /\ UNCHANGED <<pointer, visible, pinned, warming, warmup, lost, cardVars>>
Unmount(r) ==
    /\ pointer' = IF pointer = r THEN Nowhere ELSE pointer
    /\ lost' = (lost \/ pointer = r)
    /\ visible' = visible \ {r} /\ pinned' = pinned \ {r} /\ warming' = warming \ {r}
    /\ UNCHANGED <<noted, warmup, cardVars>>

(***************************************************************************)
(* The card.                                                               *)
(***************************************************************************)
EnterCard ==
    /\ pointer = Nowhere /\ pointer' = Card
    /\ cardTimer' = (cardTimer \/ ~cardOpen)
    /\ UNCHANGED <<rowNoteVars, cardOpen, cardFocus>>
CardRested ==
    /\ cardTimer /\ cardTimer' = FALSE /\ cardOpen' = TRUE
    /\ UNCHANGED <<pointer, rowNoteVars, cardFocus>>
LeaveCard ==
    /\ pointer = Card /\ pointer' = Nowhere /\ cardTimer' = FALSE /\ cardOpen' = FALSE
    /\ UNCHANGED <<rowNoteVars, cardFocus>>
FocusCard ==
    /\ ~cardFocus /\ cardFocus' = TRUE /\ cardTimer' = FALSE /\ cardOpen' = TRUE
    /\ UNCHANGED <<pointer, rowNoteVars>>
ClickCard ==
    /\ pointer = Card \/ cardFocus
    /\ cardTimer' = FALSE /\ cardOpen' = TRUE /\ UNCHANGED <<pointer, rowNoteVars, cardFocus>>
BlurCard ==
    /\ cardFocus /\ cardFocus' = FALSE /\ cardTimer' = FALSE /\ cardOpen' = FALSE
    /\ UNCHANGED <<pointer, rowNoteVars>>

PopoversNext ==
    \/ \E r \in NoteRows : EnterRow(r) \/ WarmedUp(r) \/ LeaveRow(r)
    \/ LeaveTimer \/ TapElsewhere
    \/ \E r \in NoteRows : Tap(r) \/ NoteChanges(r) \/ Unmount(r)
    \/ EnterCard \/ CardRested \/ LeaveCard \/ FocusCard \/ ClickCard \/ BlurCard

(***************************************************************************)
(* Properties.                                                             *)
(***************************************************************************)
\* However timers, taps and changes of the plan fall between the pointer's moves: nothing
\* is open but what the pointer rests on, a finger pinned or the focus holds, and once the
\* pointer has left the widget the notes wait again before they open - unless a row left
\* the page under the pointer, which the widget does not notice.
OpensUnderPointer ==
    /\ \A r \in visible : pointer = r \/ r \in pinned
    /\ cardOpen \/ cardTimer => pointer = Card \/ cardFocus
    /\ pointer \notin NoteRows /\ ~warmup.leaving /\ ~lost => ~warmup.warm
=============================================================================
