------------------------------- MODULE Header -------------------------------
(***************************************************************************)
(* The header of the dashboard: the row of connection cards, which fades   *)
(* its labels before it becomes compact on a narrow window, and the queue  *)
(* of notices.  The window tells of a new width in an event of its own;    *)
(* the two timers of the row and the timer of a notice fire before or      *)
(* after it.  The fade ends in the browser's frame, which delivers the     *)
(* event of a new width first.                                             *)
(***************************************************************************)
EXTENDS Naturals, Sequences, FiniteSets, SequencesExt

CONSTANTS MaxResizes, MaxNotices

VARIABLES
    narrow,     \* is the window at most 1000 wide?
    resized,    \* has the row not heard of its last change yet?
    compact,    \* is the row compact?
    motion,     \* "idle", "preparing" or "moving"
    fading,     \* do the labels fade?
    timer,      \* the row's timer: "none", "apply" or "finish"
    notices,    \* the notices that wait, the first of which shows
    resizes, noticed

rowVars == <<narrow, resized, compact, motion, fading, timer, resizes>>
headerVars == <<rowVars, notices, noticed>>

HeaderInit ==
    /\ narrow \in BOOLEAN /\ compact = narrow
    /\ resized = FALSE /\ motion = "idle" /\ fading = FALSE /\ timer = "none"
    /\ notices = <<>> /\ resizes = 0 /\ noticed = 0

(***************************************************************************)
(* The row.                                                                *)
(***************************************************************************)
ChangeWidth ==
    /\ resizes < MaxResizes
    /\ narrow' = ~narrow /\ resized' = TRUE /\ resizes' = resizes + 1
    /\ UNCHANGED <<compact, motion, fading, timer, notices, noticed>>

ApplyMode(to) == compact' = to /\ motion' = "moving" /\ timer' = "finish"
FinishMotion == motion' = "idle"
ClearMotion == fading' = FALSE /\ timer' = "none"
RowKept == UNCHANGED <<compact, motion, fading, timer>>

\* Mutant: a width that the row shows already changes nothing, not even a fade.
Revert_Kept == RowKept

\* The width is what the row already shows: only a fade under way is given up.
Revert == IF motion = "preparing" THEN ClearMotion /\ FinishMotion /\ UNCHANGED compact
          ELSE RowKept

\* reduced: motion is not wanted.  animates: labels can fade, else a timer stands in.
RowChanges(reduced, animates) ==
    \/ /\ reduced /\ compact' = narrow /\ ClearMotion /\ FinishMotion
    \/ /\ ~reduced /\ ~narrow /\ ApplyMode(FALSE) /\ fading' = FALSE
    \/ /\ ~reduced /\ narrow /\ motion' = "preparing" /\ UNCHANGED compact
       /\ IF animates THEN fading' = TRUE /\ timer' = "none"
          ELSE fading' = FALSE /\ timer' = "apply"

HandleResize ==
    /\ resized /\ resized' = FALSE
    /\ IF narrow /\ motion = "preparing" THEN RowKept
       ELSE IF narrow = compact THEN Revert
       ELSE \E reduced, animates \in BOOLEAN : RowChanges(reduced, animates)
    /\ UNCHANGED <<narrow, resizes, notices, noticed>>

FadeEnds ==
    /\ fading /\ ~resized /\ fading' = FALSE
    /\ IF motion = "preparing" /\ narrow THEN ApplyMode(TRUE)
       ELSE UNCHANGED <<compact, motion, timer>>
    /\ UNCHANGED <<narrow, resized, resizes, notices, noticed>>

TimerFires ==
    /\ timer # "none"
    /\ IF timer = "apply" THEN ApplyMode(TRUE)
       ELSE FinishMotion /\ timer' = "none" /\ UNCHANGED compact
    /\ UNCHANGED <<narrow, resized, fading, resizes, notices, noticed>>

(***************************************************************************)
(* The notices: new ones replace those that wait.                          *)
(***************************************************************************)
QueueLimit == 2
Sources == <<"error", "action", "service", "update">>
Latest(new) ==
    LET order == SelectSeq(Sources, LAMBDA s : s \in new)
    IN SubSeq(order, IF Len(order) > QueueLimit THEN Len(order) - QueueLimit + 1 ELSE 1,
              Len(order))

Notify(new) ==
    /\ noticed < MaxNotices
    /\ notices' = Latest(new) /\ noticed' = noticed + 1
    /\ UNCHANGED rowVars

NoticeExpires ==
    /\ notices # <<>> /\ notices' = Tail(notices)
    /\ UNCHANGED <<rowVars, noticed>>

HeaderNext ==
    \/ ChangeWidth \/ HandleResize \/ FadeEnds \/ TimerFires \/ NoticeExpires
    \/ \E new \in SUBSET ToSet(Sources) \ {{}} : Notify(new)

\* The browser delivers its events, ends its animations and fires its timers.
HeaderFairness ==
    /\ WF_headerVars(HandleResize) /\ WF_headerVars(FadeEnds)
    /\ WF_headerVars(TimerFires) /\ WF_headerVars(NoticeExpires)

(***************************************************************************)
(* Properties.                                                             *)
(***************************************************************************)
\* However the window was dragged while the labels faded and the cards moved, the row ends
\* up in the shape of the window, at rest, and the last notice leaves the header
\* (Dashboard.tsx:618-660, 735-741).
HeaderSettles == <>[](compact = narrow /\ motion = "idle" /\ notices = <<>>)
=============================================================================
