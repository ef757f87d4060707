---------------------------- MODULE SongPairing ----------------------------
(***************************************************************************)
(* Which Playback song goes with which song of the service plan when songs *)
(* are skipped (frontend/src/components/songPairing.ts, drawn by           *)
(* PlaybackArrangement.tsx).  The loop of arrangeSongs, one line a step,   *)
(* against pair_songs of the backend's arrangement.py, by which the timer  *)
(* is driven.                                                              *)
(*                                                                         *)
(* Abstracted: songs are their positions.                                  *)
(***************************************************************************)
EXTENDS Naturals, Sequences, FiniteSets, SequencesExt

CONSTANT MaxSongs   \* bound: songs on either side

ASSUME SongPairingAssumption == MaxSongs \in Nat

VARIABLES
    planCount, playbackCount,   \* songs of the plan, songs of Playback
    planSkips, playbackSkips,   \* the skipped ones
    plan, playback,             \* the loop's cursors
    lines                       \* the lines so far

pairingVars == <<planCount, playbackCount, planSkips, playbackSkips, plan, playback, lines>>

PairingInit ==
    /\ planCount \in 0..MaxSongs /\ playbackCount \in 0..MaxSongs
    /\ planSkips \in SUBSET (1..planCount)
    /\ playbackSkips \in SUBSET (1..playbackCount)
    /\ plan = 1 /\ playback = 1 /\ lines = <<>>

\* A line of the arrangement; 0 stands for a side it does not have.
PairLine(kind, p, q) ==
    /\ lines' = Append(lines, [kind |-> kind, plan |-> p, playback |-> q])
    /\ plan' = IF p = 0 THEN plan ELSE plan + 1
    /\ playback' = IF q = 0 THEN playback ELSE playback + 1
    /\ UNCHANGED <<planCount, playbackCount, planSkips, playbackSkips>>

PlanLeft == plan <= planCount
PlaybackLeft == playback <= playbackCount
PlanSkipped == PlanLeft /\ plan \in planSkips
PlaybackSkipped == PlaybackLeft /\ playback \in playbackSkips

PlanSkip == PlanSkipped /\ PairLine("plan-skip", plan, 0)
PlaybackSkip == ~PlanSkipped /\ PlaybackSkipped /\ PairLine("playback-skip", 0, playback)
\* Mutant: a skipped song of Playback can be paired.
PairUp_SkippedToo ==
    /\ PlanLeft /\ PlaybackLeft /\ ~PlanSkipped
    /\ PairLine("pair", plan, playback)

PairUp ==
    /\ PlanLeft /\ PlaybackLeft /\ ~PlanSkipped /\ ~PlaybackSkipped
    /\ PairLine("pair", plan, playback)
PlanAlone ==
    /\ PlanLeft /\ ~PlanSkipped /\ ~PlaybackLeft
    /\ PairLine("plan-alone", plan, 0)
PlaybackAlone ==
    /\ PlaybackLeft /\ ~PlaybackSkipped /\ ~PlanLeft
    /\ PairLine("playback-alone", 0, playback)

PairingNext == PlanSkip \/ PlaybackSkip \/ PairUp \/ PlanAlone \/ PlaybackAlone

-----------------------------------------------------------------------------
\* pair_songs: the Nth song that is not skipped on one side goes with the Nth of the other.
Nth(skips, song) == Cardinality((1..song) \ skips)
PairSongs ==
    {pair \in ((1..planCount) \ planSkips) \X ((1..playbackCount) \ playbackSkips) :
        Nth(planSkips, pair[1]) = Nth(playbackSkips, pair[2])}

\* A side of the lines, where it has one, is its songs in order, each once.
EachOnce(side, count) ==
    /\ {side[i] : i \in DOMAIN side} \ {0} = 1..count
    /\ \A i, j \in DOMAIN side : i < j /\ side[i] # 0 /\ side[j] # 0 => side[i] < side[j]

\* When the table is complete, the pairs it draws are those by which the backend
\* drives the timer, and every song of either side has exactly one line, in order.
DrawsWhatDrives ==
    ~PlanLeft /\ ~PlaybackLeft =>
        /\ {<<l.plan, l.playback>> : l \in {m \in ToSet(lines) : m.kind = "pair"}} = PairSongs
        /\ EachOnce([i \in DOMAIN lines |-> lines[i].plan], planCount)
        /\ EachOnce([i \in DOMAIN lines |-> lines[i].playback], playbackCount)
=============================================================================
