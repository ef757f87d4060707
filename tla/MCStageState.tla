---------------------------- MODULE MCStageState ----------------------------
(* The instance: two songs with a duration, one without, one that comes back  *)
(* under a new id; two plans of the first day and one of the second.          *)
EXTENDS StageState

Song(id, title, timed) == [id |-> id, title |-> title, timed |-> timed]

Opener  == Song(1, "opener", TRUE)
Prayer  == Song(2, "prayer", FALSE)
Closer  == Song(3, "closer", TRUE)
Opener2 == Song(4, "opener", TRUE)

MCSongs == {Opener, Prayer, Closer, Opener2}

Morning == [date |-> 1, songs |-> <<Opener, Closer>>]
Edited  == [date |-> 1, songs |-> <<Prayer, Closer, Opener2>>]
Evening == [date |-> 2, songs |-> <<Prayer, Closer>>]

Short   == [date |-> 1, songs |-> <<Closer>>]

OnePlan == {Short}
OneDay  == {Morning, Edited}
TwoDays == {Morning, Evening}

TimedCalls == {Request(op, 0, left) : op \in TimeOps, left \in {"zero", "some"}}
StartCalls(n) == {Request("start_at", i, "none") : i \in 1 .. n}
PlainCalls == {Request(op, 0, "none") : op \in PlainOps}

\* Every call; positions from the first to one past the longest plan.
AllCalls == PlainCalls \cup TimedCalls \cup StartCalls(4)

\* One call for each way an action can suspend.
SuspendingCalls == {Request(op, 0, "none") : op \in {"start_next", "reset"}}
                   \cup {Request("resume_at", 0, "zero")}
=============================================================================
