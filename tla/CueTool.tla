------------------------------- MODULE CueTool -------------------------------
(***************************************************************************)
(* The ordinal cues of a MultiTracks setlist: the planner that compares    *)
(* the setlist with the events of its songs, the proposal an agent makes   *)
(* and a person confirms, and the applier that adds the missing events one *)
(* by one.  A plan is read with one call for the setlist and more for each *)
(* song, and other people edit the setlist meanwhile.  A create is sent    *)
(* once and its answer may be lost.                                        *)
(*                                                                         *)
(* The events of a song are those of the cue's channel and note, each as   *)
(* the song ordinal it carries, or Odd when it is malformed or at another  *)
(* beat.  Here are those of the Default bank and the chosen bus, where a   *)
(* cue is created; there, those of other banks and buses, of which the     *)
(* planner does not count the ones at another beat: they are left out.     *)
(* Positions left undefined, the whole setlist, are all of Places.         *)
(***************************************************************************)
EXTENDS Naturals, Sequences, FiniteSets, SequencesExt

CONSTANTS Targets,    \* what can be cued: Library entries and Cloud arrangements
          Lists,      \* the setlists other people arrange
          Talk,       \* an item that is explicitly not a song
          Unclear,    \* an item whose target is not known
          Found,      \* what a song may hold that the tool has not created
          MaxItems,   \* of a setlist
          MaxRuns, MaxRearranged

ASSUME CueAssumption ==
    /\ MaxItems \in Nat /\ Talk \notin Targets /\ Unclear \notin Targets
    /\ \A have \in Found : /\ have = [here |-> have.here, there |-> have.there]
                          /\ have.here \in Seq(Nat) /\ have.there \subseteq Nat

VARIABLES setlist,    \* at MultiTracks: what each position holds
          events,     \* at MultiTracks: the cue events of each song
          job,        \* the run of the tool
          edited,     \* somebody edited something since this run began to apply
          found,      \* history: what people last left here, of each song
          crossed,    \* history: songs that people edited between the reading and the write
          runs, edits

cueVars == <<setlist, events, job, edited, found, crossed, runs, edits>>
peopleVars == <<found, crossed, edits>>

Odd == 0
Places == 1 .. MaxItems
Unproposed == [places |-> {}, digest |-> <<>>]
NoRun == [at |-> "idle", use |-> "display", chosen |-> {}, list |-> <<>>, left |-> {},
          plan |-> <<>>, proposal |-> Unproposed, agent |-> FALSE, todo |-> {},
          asked |-> {}, results |-> {}]

CueInit ==
    /\ setlist \in Lists
    /\ events \in [Targets -> Found] /\ found = [s \in Targets |-> events[s].here]
    /\ job = NoRun /\ edited = FALSE /\ crossed = {} /\ runs = 0 /\ edits = 0

(***************************************************************************)
(* The plan.                                                               *)
(***************************************************************************)
IsSong(item) == item \in Targets
Ordinal(list, p) == Cardinality({q \in 1 .. p : IsSong(list[q])})
Reused(list, p) == \E q \in DOMAIN list \ {p} : list[q] = list[p]
Exact(seen, n) == {i \in DOMAIN seen : seen[i] = n}

\* The cue of another ordinal is in the way here, and not counted elsewhere.
Operation(list, p, now) ==
    IF list[p] = Talk THEN "non_song"
    ELSE IF ~IsSong(list[p]) \/ Reused(list, p) THEN "ambiguous"
    ELSE LET seen == now[list[p]]
             n == Ordinal(list, p)
         IN IF Cardinality(Exact(seen.here, n)) = 1 THEN "present"
            ELSE IF seen.here # <<>> \/ {n, Odd} \cap seen.there # {} THEN "conflict"
            ELSE "create"

\* The planned item of a position, from the setlist and the events as they were read.
Item(list, p, now) ==
    [target |-> list[p], ordinal |-> Ordinal(list, p),
     operation |-> Operation(list, p, now)]

Creates(plan) == {p \in DOMAIN plan : plan[p].operation = "create"}
Unsafe(plan) == \E p \in DOMAIN plan : plan[p].operation \in {"ambiguous", "conflict"}

Reading(j, use, chosen) == [j EXCEPT !.at = "setlist", !.use = use, !.chosen = chosen]
Planned(use) == job.at = "songs" /\ job.left = {} /\ job.use = use

ReadSetlist ==
    /\ job.at = "setlist"
    /\ job' = [job EXCEPT !.at = "songs", !.list = setlist, !.plan = <<>>,
                          !.left = job.chosen \cap DOMAIN setlist]
    /\ UNCHANGED <<setlist, events, edited, runs, peopleVars>>

ReadSong ==
    /\ job.at = "songs" /\ job.left # {}
    /\ LET p == CHOOSE q \in job.left : \A r \in job.left : q <= r
       IN job' = [job EXCEPT !.left = @ \ {p},
                     !.plan = [q \in DOMAIN @ \cup {p} |->
                                 IF q = p THEN Item(job.list, p, events) ELSE @[q]]]
    /\ UNCHANGED <<setlist, events, edited, runs, peopleVars>>

(***************************************************************************)
(* A person runs the apply command, for the setlist or for one position.   *)
(***************************************************************************)
ApplyCommand(chosen) ==
    /\ job = NoRun /\ runs < MaxRuns
    /\ job' = Reading(job, "display", chosen)
    /\ runs' = runs + 1
    /\ UNCHANGED <<setlist, events, edited, peopleVars>>

\* Reading alone: the inspect, prepare and dry-run commands.
InspectCommand(chosen) ==
    /\ job = NoRun /\ runs < MaxRuns
    /\ job' = Reading(job, "look", chosen)
    /\ runs' = runs + 1
    /\ UNCHANGED <<setlist, events, edited, peopleVars>>

\* The verify command counts what is missing, conflicting or duplicated.
VerifyCommand(chosen) ==
    /\ job = NoRun /\ runs < MaxRuns
    /\ job' = Reading(job, "check", chosen)
    /\ runs' = runs + 1 /\ edited' = FALSE
    /\ UNCHANGED <<setlist, events, peopleVars>>

Inspected ==
    /\ Planned("look")
    /\ job' = IF job.agent THEN [job EXCEPT !.at = "turn"] ELSE NoRun
    /\ UNCHANGED <<setlist, events, edited, runs, peopleVars>>

Verified ==
    /\ Planned("check")
    /\ LET bad == {p \in DOMAIN job.plan : job.plan[p].operation \notin {"non_song", "present"}}
       IN job' = [job EXCEPT !.at = "items", !.asked = DOMAIN job.plan,
                             !.results = IF bad = {} THEN {"verified"} ELSE {"failed"}]
    /\ UNCHANGED <<setlist, events, edited, runs, peopleVars>>

\* An agent's turn: it asks for proposals, the last of which counts.
AgentRequest ==
    /\ job = NoRun /\ runs < MaxRuns
    /\ job' = [job EXCEPT !.at = "turn", !.agent = TRUE]
    /\ runs' = runs + 1
    /\ UNCHANGED <<setlist, events, edited, peopleVars>>

ProposeFor(chosen) ==
    /\ job.at = "turn"
    /\ job' = Reading(job, "propose", chosen)
    /\ UNCHANGED <<setlist, events, edited, runs, peopleVars>>

\* Its other tools only read.
LookUp(chosen) ==
    /\ job.at = "turn"
    /\ job' = Reading(job, "look", chosen)
    /\ UNCHANGED <<setlist, events, edited, runs, peopleVars>>

\* One position needs a create of its own; the whole setlist at least one.
Propose ==
    /\ Planned("propose")
    /\ LET ok == Creates(job.plan) # {} /\ ~Unsafe(job.plan)
       IN job' = [job EXCEPT !.at = "turn", !.proposal =
                     IF ok THEN [places |-> Creates(job.plan), digest |-> job.plan] ELSE @]
    /\ UNCHANGED <<setlist, events, edited, runs, peopleVars>>

\* A proposal of one position is planned again for that position only.
TurnEnds ==
    /\ job.at = "turn"
    /\ job' = IF job.proposal = Unproposed THEN NoRun
              ELSE Reading(job, "display", IF Cardinality(job.proposal.places) = 1
                                           THEN job.proposal.places ELSE Places)
    /\ UNCHANGED <<setlist, events, edited, runs, peopleVars>>

Display ==
    /\ Planned("display")
    /\ job' = IF job.agent /\ job.plan # job.proposal.digest THEN NoRun
              ELSE [job EXCEPT !.at = "confirm"]
    /\ UNCHANGED <<setlist, events, edited, runs, peopleVars>>

Confirm ==
    /\ job.at = "confirm"
    /\ job' = Reading(job, "apply", job.chosen)
    /\ edited' = FALSE
    /\ UNCHANGED <<setlist, events, runs, peopleVars>>

\* The run is declined, cannot read the service, or is interrupted.
Stop ==
    /\ job # NoRun
    /\ job' = NoRun
    /\ UNCHANGED <<setlist, events, edited, runs, peopleVars>>

(***************************************************************************)
(* The applier.                                                            *)
(***************************************************************************)
Apply ==
    /\ Planned("apply")
    /\ job' = IF Unsafe(job.plan) THEN NoRun
              ELSE [job EXCEPT !.at = "items", !.todo = Creates(job.plan),
                       !.asked = DOMAIN job.plan, !.results =
                         IF DOMAIN job.plan = Creates(job.plan) THEN {} ELSE {"skipped"}]
    /\ UNCHANGED <<setlist, events, edited, runs, peopleVars>>

Current(todo) == CHOOSE p \in todo : \A q \in todo : p <= q
Result(j, result) ==
    [j EXCEPT !.at = "items", !.todo = @ \ {Current(@)}, !.results = @ \cup {result}]
Present(plan) == \E p \in DOMAIN plan : plan[p].operation = "present"

\* Every item is planned afresh before it is written.
TakeItem ==
    /\ job.at = "items" /\ job.todo # {}
    /\ job' = Reading(job, "fresh", {Current(job.todo)})
    /\ UNCHANGED <<setlist, events, edited, runs, peopleVars>>

Fresh ==
    /\ Planned("fresh")
    /\ job' = IF Creates(job.plan) # {} THEN [job EXCEPT !.at = "write"]
              ELSE Result(job, IF Present(job.plan) THEN "verified" ELSE "failed")
    /\ UNCHANGED <<setlist, events, edited, runs, peopleVars>>

\* Mutant: a create without an answer is sent again.
Attempts_Retry == 2

\* The calls a create is worth: writes are not repeated.
Attempts == 1

Create ==
    /\ job.at = "write"
    /\ LET item == job.plan[Current(job.todo)]
       IN \E done \in 0 .. Attempts, answered \in BOOLEAN :
            /\ answered => done > 0
            /\ events' = [events EXCEPT ![item.target].here =
                             @ \o [i \in 1 .. done |-> item.ordinal]]
            /\ job' = Reading(job, IF answered THEN "verify" ELSE "reconcile",
                              {Current(job.todo)})
    /\ UNCHANGED <<setlist, edited, runs, peopleVars>>

\* Only reading the event back says that it is there.
ReadBack ==
    /\ Planned("verify") \/ Planned("reconcile")
    /\ job' = Result(job, IF Present(job.plan) THEN "verified" ELSE "failed")
    /\ UNCHANGED <<setlist, events, edited, runs, peopleVars>>

Success == job.at = "items" /\ job.todo = {} /\ "failed" \notin job.results

Finish ==
    /\ job.at = "items" /\ job.todo = {}
    /\ job' = NoRun
    /\ UNCHANGED <<setlist, events, edited, runs, peopleVars>>

(***************************************************************************)
(* Other people, at MultiTracks.                                           *)
(***************************************************************************)
Rearrange ==
    /\ edits < MaxRearranged
    /\ setlist' \in Lists \ {setlist}
    /\ edits' = edits + 1 /\ edited' = TRUE
    /\ UNCHANGED <<events, job, found, crossed, runs>>

\* They add, take away or move the cues of a song.
EditCues(s) ==
    /\ edits < MaxRearranged
    /\ \E have \in Found \ {events[s]} :
          events' = [events EXCEPT ![s] = have] /\ found' = [found EXCEPT ![s] = have.here]
    /\ crossed' = IF job.at \in {"songs", "write"} /\ job.use = "fresh"
                  THEN crossed \cup {s} ELSE crossed \ {s}
    /\ edits' = edits + 1 /\ edited' = TRUE
    /\ UNCHANGED <<setlist, job, runs>>

CueNext ==
    \/ \E chosen \in {Places} \cup {{p} : p \in Places} :
          \/ ApplyCommand(chosen) \/ InspectCommand(chosen) \/ VerifyCommand(chosen)
          \/ ProposeFor(chosen) \/ LookUp(chosen)
    \/ Inspected \/ Verified \/ AgentRequest \/ Propose \/ TurnEnds \/ Display \/ Confirm \/ Stop
    \/ ReadSetlist \/ ReadSong
    \/ Apply \/ TakeItem \/ Fresh \/ Create \/ ReadBack \/ Finish
    \/ Rearrange \/ \E s \in Targets : EditCues(s)

(***************************************************************************)
(* Properties.                                                             *)
(***************************************************************************)
\* However often the tool is run, wherever it is interrupted, whatever answers are lost
\* and however the setlist is rearranged under it: what the tool adds to the cues that
\* people left of a song is at most one cue, where there was none, and none that the song
\* has in another place. Excepted is a song that people edit between the reading and the
\* write. And a run that reports success, with nobody editing since it began to apply or to
\* verify, leaves every song it was asked for with exactly one cue of its ordinal; cues of
\* other ordinals may stand beside it (cues/planner.ts:120-158, cues/applier.ts:38-65,
\* cues/verifier.ts:31, mcp/client.ts:120).
OneCuePerSong ==
    \A s \in Targets \ crossed :
       LET here == events[s].here
       IN here # found[s] =>
             found[s] = <<>> /\ Len(here) = 1 /\ here[1] \notin events[s].there
SuccessIsReal ==
    Success /\ ~edited =>
       \A p \in job.asked : IsSong(setlist[p]) =>
          Cardinality(Exact(events[setlist[p]].here, Ordinal(setlist, p))) = 1
\* Both hold of every run of the tool, by its commands and by its agent.
CueRunIsSound == OneCuePerSong /\ SuccessIsReal
=============================================================================
