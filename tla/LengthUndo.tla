----------------------------- MODULE LengthUndo -----------------------------
(***************************************************************************)
(* Song lengths measured in Playback, written into the Planning Center     *)
(* plan, and put back: services/planning_center_lengths.py behind the      *)
(* "Update Services" button.  A record of what to put back is saved before *)
(* each write.  People edit the same plan; a write may be refused, or lost *)
(* after or before it was carried out; StagePilot may stop at any point.   *)
(* No two hands give one song the same length: equal lengths are one and   *)
(* the same to the code.                                                   *)
(***************************************************************************)
EXTENDS Naturals

CONSTANTS N,            \* the songs of the plan
          Given,        \* the lengths the plan starts with
          Measured,     \* what scans measure
          Typed,        \* what people type, each once
          MaxPreviews,
          None

ASSUME LengthAssumption ==
    /\ N \in Nat /\ {Given} \cup Measured \cup Typed \subseteq Nat
    /\ Given \notin Measured \cup Typed /\ Measured \cap Typed = {}
    /\ None \notin {Given} \cup Measured \cup Typed

Lengths == {Given} \cup Measured \cup Typed
UndoRecord == [old: Lengths, new: Measured, pending: Lengths \cup {None}]

ASSUME NoneIsNoRecord == None \notin UndoRecord

VARIABLES
    planLengths, \* Planning Center: the length of each song
    before,     \* history: the length that a person last gave it
    crossed,    \* history: songs whose edit fell between StagePilot's look and its write
    undo,       \* the settings file: the record of each song, or None
    marked,     \* the settings file: were this scan's lengths written completely?
    preview,    \* the preview that may be confirmed, or None
    dialog,     \* the number of the preview that the page shows, or 0
    previews,   \* how many were made
    work        \* the update or restore that runs, or None

lengthVars == <<planLengths, before, crossed, undo, marked, preview, dialog, previews, work>>
planVars == <<planLengths, before, crossed>>
pageVars == <<preview, dialog, previews>>

LengthSongs == 1..N

LengthInit ==
    /\ planLengths = [i \in LengthSongs |-> Given] /\ before = planLengths /\ crossed = {}
    /\ undo = [i \in LengthSongs |-> None] /\ marked = FALSE
    /\ preview = None /\ dialog = 0 /\ previews = 0 /\ work = None

\* Does a record say that StagePilot may have put this length there?
Recorded(record, length) == length \in {record.new, record.pending}
Foreign(i, length) == undo[i] # None /\ ~Recorded(undo[i], length)

(***************************************************************************)
(* The page.                                                               *)
(***************************************************************************)
Offered(i, length) == length # None /\ length # planLengths[i] /\ ~Foreign(i, planLengths[i])

\* shown: it is this page's, and nothing that the page watches changed meanwhile.
Preview(lengths, shown) ==
    /\ work = None /\ ~marked /\ previews < MaxPreviews
    /\ previews' = previews + 1
    /\ preview' = [token |-> previews + 1,
                   changes |-> [i \in LengthSongs |-> IF Offered(i, lengths[i])
                                                THEN [old |-> planLengths[i], new |-> lengths[i]]
                                                ELSE None]]
    /\ dialog' = IF shown THEN previews + 1 ELSE dialog
    /\ UNCHANGED <<planVars, undo, marked, work>>

CloseDialog ==
    /\ dialog # 0 /\ dialog' = 0
    /\ UNCHANGED <<planVars, undo, marked, preview, previews, work>>

Job(records, restoring) ==
    [records |-> records, restoring |-> restoring, at |-> 1, pc |-> "look",
     expected |-> None, prior |-> None, finished |-> {}, whole |-> TRUE]

\* valid: the preview is recent, and neither the scan nor Playback changed.
ConfirmUpdate(valid) ==
    /\ dialog # 0 /\ work = None /\ preview # None
    /\ preview' = None
    /\ work' = IF valid /\ preview.token = dialog /\ \E i \in LengthSongs : preview.changes[i] # None
              THEN Job(preview.changes, FALSE) ELSE None
    /\ UNCHANGED <<planVars, undo, marked, dialog, previews>>

Restore ==
    /\ work = None /\ \E i \in LengthSongs : undo[i] # None
    /\ work' = Job(undo, TRUE)
    /\ UNCHANGED <<planVars, undo, marked, pageVars>>

\* A new scan: its lengths are not in the plan, and no older preview is valid.
Rescan ==
    /\ marked /\ marked' = FALSE /\ preview' = None
    /\ UNCHANGED <<planVars, undo, dialog, previews, work>>

(***************************************************************************)
(* One song after the other.                                               *)
(***************************************************************************)
Reached(pc) == work # None /\ work.at \in LengthSongs /\ work.pc = pc
Record == work.records[work.at]
Target == IF work.restoring THEN Record.old ELSE Record.new
Onward == [work EXCEPT !.at = @ + 1, !.pc = "look"]
Halted == [work EXCEPT !.at = N + 1, !.whole = FALSE]
\* The song is done with: a restore forgets its record in the end.
Settled == IF work.restoring THEN [Onward EXCEPT !.finished = @ \cup {work.at}] ELSE Onward

Expected ==
    IF ~work.restoring THEN Record.old
    ELSE IF Record.pending # None /\ planLengths[work.at] = Record.pending THEN Record.pending
    ELSE Record.new

\* Mutant: the record of a second update forgets the first one's.
NewRecord_LastWrite(prior) == [old |-> Expected, new |-> Record.new, pending |-> Expected]

\* The record of an update keeps the length from before all of StagePilot's writes.
NewRecord(prior) ==
    [old |-> IF prior = None THEN Expected ELSE prior.old, new |-> Record.new,
     pending |-> Expected]

Pass ==
    /\ Reached("look") /\ Record = None /\ work' = Onward
    /\ UNCHANGED <<planVars, undo, marked, pageVars>>

Look ==
    /\ Reached("look") /\ Record # None
    /\ IF planLengths[work.at] # Expected THEN work' = Settled /\ UNCHANGED undo
       ELSE IF ~work.restoring /\ Foreign(work.at, Expected) THEN work' = Onward /\ UNCHANGED undo
       ELSE /\ work' = [work EXCEPT !.pc = "write", !.expected = Expected, !.prior = undo[work.at]]
            /\ undo' = IF work.restoring THEN undo
                       ELSE [undo EXCEPT ![work.at] = NewRecord(undo[work.at])]
    /\ UNCHANGED <<planVars, marked, pageVars>>

\* Not connected, Playback began, the scan changed, the file or the answer failed.
Halt ==
    /\ Reached("look") /\ Record # None /\ work' = Halted
    /\ UNCHANGED <<planVars, undo, marked, pageVars>>

Put ==
    /\ planLengths' = [planLengths EXCEPT ![work.at] = Target]
    /\ crossed' = IF planLengths[work.at] = work.expected THEN crossed ELSE crossed \cup {work.at}

Write ==
    /\ Reached("write") /\ Put /\ work' = [work EXCEPT !.pc = "verify"]
    /\ UNCHANGED <<before, undo, marked, pageVars>>

\* No answer, or one that says nothing: was it carried out?
Uncertain ==
    /\ Reached("write") /\ work' = Halted
    /\ Put \/ UNCHANGED <<planLengths, crossed>>
    /\ UNCHANGED <<before, undo, marked, pageVars>>

Withdrawn == IF work.restoring THEN undo ELSE [undo EXCEPT ![work.at] = work.prior]

\* Denied, or limited once more than the one retry.
Refused ==
    /\ Reached("write") /\ work' = Halted /\ undo' = Withdrawn
    /\ UNCHANGED <<planVars, marked, pageVars>>

\* Limited; the look before the retry shows another length.
Conflict ==
    /\ Reached("write") /\ planLengths[work.at] # work.expected
    /\ work' = Settled /\ undo' = Withdrawn
    /\ UNCHANGED <<planVars, marked, pageVars>>

Verify(answered) ==
    /\ Reached("verify")
    /\ IF answered /\ planLengths[work.at] = Target
       THEN /\ work' = Settled
            /\ undo' = IF work.restoring THEN undo ELSE [undo EXCEPT ![work.at].pending = None]
       ELSE work' = Halted /\ UNCHANGED undo
    /\ UNCHANGED <<planVars, marked, pageVars>>

JobEnds ==
    /\ work # None /\ work.at = N + 1 /\ work' = None
    /\ undo' = [i \in LengthSongs |-> IF i \in work.finished THEN None ELSE undo[i]]
    /\ marked' = (marked \/ (~work.restoring /\ work.whole))
    /\ dialog' = IF work.restoring THEN dialog ELSE 0
    /\ UNCHANGED <<planVars, preview, previews>>

\* The backend stops, or the request is cancelled: only the file stays.
StopJob ==
    /\ work # None \/ preview # None
    /\ work' = None /\ preview' = None
    /\ UNCHANGED <<planVars, undo, marked, dialog, previews>>

EditLength(i, length) ==
    /\ \A j \in LengthSongs : length \notin {before[j], planLengths[j]}
    /\ length > before[i]
    /\ planLengths' = [planLengths EXCEPT ![i] = length] /\ before' = [before EXCEPT ![i] = length]
    /\ UNCHANGED <<crossed, undo, marked, pageVars, work>>

LengthNext ==
    \/ \E lengths \in [LengthSongs -> Measured \cup {None}], shown \in BOOLEAN : Preview(lengths, shown)
    \/ CloseDialog \/ Restore \/ Rescan \/ Pass \/ Look \/ Halt \/ Write \/ Uncertain
    \/ Refused \/ Conflict \/ JobEnds \/ StopJob
    \/ \E yes \in BOOLEAN : ConfirmUpdate(yes) \/ Verify(yes)
    \/ \E i \in LengthSongs, length \in Typed : EditLength(i, length)

LengthSpec == LengthInit /\ [][LengthNext]_lengthVars

(***************************************************************************)
(* Properties.                                                             *)
(***************************************************************************)
\* Whatever was refused, lost, repeated or interrupted, a length that StagePilot put into
\* the plan is on record with the length that a person had given the song, so that
\* "Restore Services times" finds it and puts that one back; and no record is forgotten
\* before.  Only an edit that fell between a look and the write that followed it, which
\* Planning Center cannot refuse, may be lost (planning_center_lengths.py:283-456).
CanBeGivenBack ==
    \A i \in LengthSongs \ crossed : planLengths[i] # before[i] =>
        undo[i] # None /\ undo[i].old = before[i] /\ Recorded(undo[i], planLengths[i])
=============================================================================
