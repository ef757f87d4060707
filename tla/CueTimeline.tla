---------------------------- MODULE CueTimeline ----------------------------
(***************************************************************************)
(* The timeline of one song's lighting cues: components/LightingTimeline   *)
(* .tsx and lightingTimelineMath.ts.  A marker stands at its cue's time;   *)
(* its label shares the space with the labels and lines of the others.     *)
(* Times are whole units of which the track shows `scale` pixels each.     *)
(***************************************************************************)
EXTENDS Integers, FiniteSets, FiniteSetsExt

CONSTANTS Markers,      \* a set of numbers: the cues' ids, in their order
          LongNames,    \* the markers with a name of 20 letters; the others have 2
          SongLength, Scales, ShiftStep, NoMarker

ASSUME TimelineAssumption ==
    /\ Markers \subseteq Nat /\ IsFiniteSet(Markers) /\ NoMarker \notin Markers
    /\ SongLength \in Nat \ {0} /\ ShiftStep \in Nat \ {0} /\ Scales \subseteq Nat \ {0}

VARIABLES
    cueAt,      \* the time of each marker
    placed,     \* the markers that have a cue
    scale,      \* the zoom, in pixels for a unit of time
    measured,   \* the scale that the labels were last measured for, 0 before
    drag        \* the marker that the pointer holds, or NoMarker

timelineVars == <<cueAt, placed, scale, measured, drag>>

Rows == 0..2
LabelOffset == 6        \* a label begins so far to the right of its line
LabelGap == 10          \* and ends so far, less the offset, before the next line
Times == 0..SongLength

\* The width that a label asks for.
MarkerLabelWidth(letters) == Min({112, 7 * letters + 14})
Wanted == [m \in Markers |-> MarkerLabelWidth(IF m \in LongNames THEN 20 ELSE 2)]

TimelineInit ==
    /\ cueAt = [m \in Markers |-> 0] /\ placed = {} /\ drag = NoMarker
    /\ scale \in Scales /\ measured = 0

(***************************************************************************)
(* Where the labels go: placeMarkerLabels.                                 *)
(***************************************************************************)
X(m) == cueAt[m] * measured
Before(m, o) == cueAt[m] < cueAt[o] \/ (cueAt[m] = cueAt[o] /\ m < o)
LastOf(S) == CHOOSE m \in S : \A o \in S \ {m} : Before(o, m)

Unplaced == [row |-> [m \in Markers |-> 0], width |-> Wanted,
             ends |-> [r \in Rows |-> -1], last |-> [r \in Rows |-> NoMarker]]

\* The first row that is free, or the one that will be first, at the cost of its label.
RowFor(labels, m) ==
    LET free == {r \in Rows : labels.ends[r] <= X(m)}
        soonest == {r \in Rows : \A s \in Rows : labels.ends[r] <= labels.ends[s]}
    IN  Min(IF free # {} THEN free ELSE soonest)

Shorter(width, room) == Max({0, Min({width, room})})

PlaceLabel(labels, m) ==
    LET row == RowFor(labels, m)
        earlier == labels.last[row]
        cut == IF labels.ends[row] <= X(m) THEN labels.width
               ELSE [labels.width EXCEPT ![earlier] = Shorter(@, X(m) - X(earlier) - 4)]
    IN  [row |-> [labels.row EXCEPT ![m] = row], width |-> cut,
         ends |-> [labels.ends EXCEPT ![row] = X(m) + Wanted[m]],
         last |-> [labels.last EXCEPT ![row] = m]]

\* One marker after the other, in their order.
Stack[S \in SUBSET placed] ==
    IF S = {} THEN Unplaced ELSE PlaceLabel(Stack[S \ {LastOf(S)}], LastOf(S))
Stacked == Stack[placed]

\* The later markers whose lines, which run from their rows down, would cross this label.
Crossing(labels, m) == {o \in placed : cueAt[o] > cueAt[m] /\ labels.row[o] <= labels.row[m]}

\* Mutant: only the labels of one row are kept apart.
Clipped_NextOnly(labels) == labels.width

Clipped(labels) ==
    [m \in Markers |->
        IF m \notin placed \/ Crossing(labels, m) = {} THEN labels.width[m]
        ELSE Shorter(labels.width[m],
                     Min({X(o) : o \in Crossing(labels, m)}) - X(m) - LabelGap)]

Labels == IF measured = 0 THEN Unplaced ELSE [Stacked EXCEPT !.width = Clipped(Stacked)]

(***************************************************************************)
(* What the operator and the page do.                                      *)
(***************************************************************************)
ClampCueTime(at) == Max({0, Min({at, SongLength})})
Moved(m, at) == cueAt' = [cueAt EXCEPT ![m] = ClampCueTime(at)]

AddMarker(m, at) ==
    /\ m \notin placed /\ placed' = placed \cup {m} /\ Moved(m, at)
    /\ UNCHANGED <<scale, measured, drag>>

RemoveMarker(m) ==
    /\ m \in placed /\ placed' = placed \ {m} /\ cueAt' = [cueAt EXCEPT ![m] = 0]
    /\ UNCHANGED <<scale, measured, drag>>

Nudge(m, direction, shift) ==
    /\ m \in placed /\ Moved(m, cueAt[m] + direction * (IF shift THEN ShiftStep ELSE 1))
    /\ UNCHANGED <<placed, scale, measured, drag>>

StartDrag(m) ==
    /\ m \in placed /\ drag = NoMarker /\ drag' = m
    /\ UNCHANGED <<cueAt, placed, scale, measured>>

\* The pointer may be left or right of the track; the cue may be gone.
EndDrag(at) ==
    /\ drag # NoMarker /\ drag' = NoMarker
    /\ IF drag \in placed THEN Moved(drag, at) ELSE UNCHANGED cueAt
    /\ UNCHANGED <<placed, scale, measured>>

Zoom(s) ==
    /\ s # scale /\ scale' = s
    /\ UNCHANGED <<cueAt, placed, measured, drag>>

Measure ==
    /\ measured # scale /\ measured' = scale
    /\ UNCHANGED <<cueAt, placed, scale, drag>>

TimelineNext ==
    \/ \E m \in Markers :
        \/ RemoveMarker(m) \/ StartDrag(m)
        \/ \E at \in Times : AddMarker(m, at)
        \/ \E direction \in {-1, 1}, shift \in BOOLEAN : Nudge(m, direction, shift)
    \/ \E at \in -1..SongLength + 1 : EndDrag(at)
    \/ \E s \in Scales : Zoom(s)
    \/ Measure

(***************************************************************************)
(* Properties.                                                             *)
(***************************************************************************)
\* However close the cues stand, once the track is measured no label runs into the line of
\* a later marker on its row or above, nor into the next label on its row; and a label is
\* only shortened where a later marker is in its way (lightingTimelineMath.ts:102-106, 139).
LabelsKeepClear ==
    LET labels == Labels
        EndOf(m) == X(m) + LabelOffset + labels.width[m]
        InTheWay(m, o) == /\ Before(m, o) /\ labels.row[o] <= labels.row[m]
                          /\ cueAt[m] = cueAt[o] => labels.row[o] = labels.row[m]
    IN  drag = NoMarker /\ measured = scale =>
            \A m \in placed :
                /\ labels.width[m] > 0 => \A o \in placed : InTheWay(m, o) => EndOf(m) < X(o)
                /\ labels.width[m] < Wanted[m] =>
                        \E o \in placed : InTheWay(m, o) /\ X(o) < X(m) + Wanted[m] + LabelGap
=============================================================================
