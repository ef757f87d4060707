----------------------------- MODULE ChatSession -----------------------------
(***************************************************************************)
(* The commands of the cue tool that ask ChatGPT in a browser window       *)
(* (tools/multitracks-cues/src/chatgpt): one command per process, which    *)
(* opens the browser, returns to the stored conversation, types and sends, *)
(* and then polls the page until it takes the answer for complete.  The    *)
(* page belongs to someone else: it shows a sent question, an answer and   *)
(* the answer's copy button in its own time.                               *)
(*                                                                         *)
(* Abstracted: a text is its length, a question is the number of the       *)
(* command that asked it, and the login is part of opening the page.       *)
(***************************************************************************)
EXTENDS Naturals, Sequences

CONSTANTS
    Talks,       \* the ids of conversations
    Home,        \* the page of no conversation
    MaxAsks,     \* bound: commands
    MaxLength,   \* bound: of an answer
    Threshold    \* FALLBACK_STABLE_THRESHOLD

ASSUME ChatAssumption ==
    /\ Home \notin Talks
    /\ MaxAsks \in Nat /\ MaxLength \in Nat \ {0} /\ Threshold \in Nat \ {0}

VARIABLES
    talk,       \* at ChatGPT: the questions of each conversation and their answers
    page,       \* the page: its conversation, the address, the turns it shows
    disk,       \* session.json: the conversation to return to, or Home
    mem,        \* sessionState.conversationId, or Home
    process,    \* the command that runs: what it does next, and its question
    reading,    \* what the poll has seen: copy button, thinking, length, equal reads, and more
    printed,    \* the answer that the last question was given, if any
    asks,       \* the questions asked
    late,       \* history: the question was not on the page by the second poll
    fresh       \* history: the conversation was ended and nothing asked since

chatVars == <<talk, page, disk, mem, process, reading, printed, asks, late, fresh>>

QuestionLength == 1
NoReading == [copy |-> FALSE, thinking |-> FALSE, length |-> 0, stable |-> 0,
              polled |-> FALSE, sure |-> FALSE]
NoAnswer == [by |-> "nobody", question |-> 0, length |-> 0, whole |-> FALSE,
           sure |-> FALSE]
NoCommand == [at |-> "none", asks |-> 0]
Closed == [at |-> Home, url |-> Home, turns |-> 0]

ChatInit ==
    /\ talk = [c \in Talks |-> <<>>] /\ page = Closed /\ disk = Home /\ mem = Home
    /\ process = NoCommand /\ reading = NoReading /\ printed = NoAnswer
    /\ asks = 0 /\ late = FALSE /\ fresh = FALSE

At(step) == process.at = step
Go(step) == process' = [process EXCEPT !.at = step]

(***************************************************************************)
(* The page of ChatGPT.                                                    *)
(***************************************************************************)
\* A page that loads shows its turns at once or later; an unknown id leads home.
Visit(id) ==
    IF id = Home \/ talk[id] = <<>> THEN page' = Closed
    ELSE \E n \in {0, Len(talk[id])} : page' = [at |-> id, url |-> id, turns |-> n]

Turns == IF page.at = Home THEN 0 ELSE Len(talk[page.at])

Text(by, turn) == [by |-> by, question |-> turn.question, length |-> turn.length,
                   whole |-> turn.whole, sure |-> FALSE]

\* Of the answers on the page the last, and the first where the last has nothing to read.
Earlier ==
    LET answered == {i \in 1 .. page.turns : talk[page.at][i].length > 0}
    IN  {Text("earlier", talk[page.at][i]) : i \in
            {k \in answered : (\A j \in answered : k <= j) \/ (\A j \in answered : j <= k)}}

\* getLatestResponseText: what the last of at least two turns says, which may be the
\* question's own; while it is empty or only thinks, nothing or an earlier answer.
Latest ==
    IF page.turns = 0 THEN {NoAnswer}
    ELSE LET last == talk[page.at][page.turns]
         IN  IF last.length > 0 THEN {Text("assistant", last)}
             ELSE IF ~last.begun /\ page.turns > 1
                  THEN {[Text("user", last) EXCEPT !.length = QuestionLength]}
             ELSE {NoAnswer} \cup Earlier

Changes == UNCHANGED <<disk, mem, process, reading, printed, asks, late, fresh>>

PageShows ==
    /\ page.turns < Turns /\ page' = [page EXCEPT !.turns = Turns]
    /\ UNCHANGED talk /\ Changes

\* The answer begins, grows, and has its copy button when it is whole.
AnswerGrows ==
    /\ page.turns = Turns /\ Turns > 0
    /\ LET last == talk[page.at][Turns]
       IN  \/ /\ ~last.begun
              /\ talk' = [talk EXCEPT ![page.at][Turns].begun = TRUE]
           \/ /\ last.begun /\ ~last.whole /\ last.length < MaxLength
              /\ talk' = [talk EXCEPT ![page.at][Turns].length = @ + 1]
           \/ /\ ~last.whole /\ last.length > 0
              /\ talk' = [talk EXCEPT ![page.at][Turns].whole = TRUE]
    /\ UNCHANGED page /\ Changes

(***************************************************************************)
(* The commands.                                                           *)
(***************************************************************************)
CommandStarts(kind, n) ==
    /\ At("none") /\ process' = [at |-> "open", asks |-> n]
    /\ mem' = disk /\ printed' = NoAnswer /\ late' = FALSE
    /\ UNCHANGED <<talk, page, disk, reading, fresh>>

Ask == asks < MaxAsks /\ asks' = asks + 1 /\ CommandStarts("ask", asks + 1)
New == disk # Home /\ UNCHANGED asks /\ CommandStarts("new", 0)

\* thread clear opens no browser, so it may come while another command runs.
ClearThread ==
    /\ disk # Home /\ disk' = Home /\ fresh' = At("none")
    /\ UNCHANGED <<talk, page, mem, process, reading, printed, asks, late>>

\* The command ends or is interrupted, and its browser is closed.
CommandEnds ==
    /\ process' = NoCommand /\ page' = Closed /\ mem' = Home /\ reading' = NoReading
    /\ UNCHANGED <<talk, disk, asks, late>>

\* The page or its text field is not there, a timeout, or Ctrl+C: nothing is printed.
Gives == ~At("none") /\ CommandEnds /\ UNCHANGED <<printed, fresh>>

\* ensureSession
OpenPage ==
    /\ At("open") /\ Visit(mem) /\ Go(IF process.asks = 0 THEN "forget" ELSE "return")
    /\ UNCHANGED <<talk, disk, mem, reading, printed, asks, late, fresh>>

\* newConversation, whose navigation home ends with the process
Forget ==
    /\ At("forget") /\ disk' = Home /\ fresh' = TRUE
    /\ process' = NoCommand /\ page' = Closed /\ mem' = Home
    /\ UNCHANGED <<talk, reading, printed, asks, late>>

\* navigateToConversation: back to the conversation; if it is gone or does not load, to
\* the one that the page shows, if any.
Return ==
    /\ At("return") /\ Go("send")
    /\ \/ /\ mem # Home /\ Visit(mem)
          /\ mem' = page'.url /\ disk' = IF page'.url \in {mem, Home} THEN disk ELSE page'.url
       \/ /\ UNCHANGED page
          /\ mem' = page.url /\ disk' = IF page.url = Home THEN disk ELSE page.url
    /\ UNCHANGED <<talk, reading, printed, asks, late, fresh>>

\* The question goes to the page's conversation, or begins one, whose address comes later.
Send ==
    /\ At("send") /\ Go("keep")
    /\ LET asked == [question |-> process.asks, begun |-> FALSE, length |-> 0, whole |-> FALSE]
       IN  \/ /\ page.at # Home
              /\ talk' = [talk EXCEPT ![page.at] = Append(@, asked)] /\ UNCHANGED page
           \/ /\ page.at = Home
              /\ \E c \in Talks :
                    /\ talk[c] = <<>> /\ talk' = [talk EXCEPT ![c] = <<asked>>]
                    /\ \E url \in {Home, c} : page' = [at |-> c, url |-> url, turns |-> 0]
    /\ fresh' = FALSE
    /\ UNCHANGED <<disk, mem, reading, printed, asks, late>>

\* sendPromptText: the conversation's id is stored, if the address has it by then.
Keep ==
    /\ At("keep") /\ Go("look")
    /\ IF page.url = Home THEN UNCHANGED <<mem, disk>> ELSE mem' = page.url /\ disk' = page.url
    /\ UNCHANGED <<talk, page, reading, printed, asks, late, fresh>>

(***************************************************************************)
(* isGenerationComplete and pollUntilComplete.                             *)
(***************************************************************************)
Glance ==
    /\ At("look") /\ Go("read")
    /\ \E thinking \in BOOLEAN :
        /\ thinking => page.turns > 1 \/ (page.turns = 1 /\ talk[page.at][1].begun)
        /\ reading' = [reading EXCEPT !.thinking = thinking, !.copy =
                          page.turns > 0 /\ talk[page.at][page.turns].whole]
    /\ late' = (late \/ (page.turns < Turns /\ reading.polled))
    /\ UNCHANGED <<talk, page, disk, mem, printed, asks, fresh>>

\* Mutant: the copy button is enough.
Sure_AtOnce(seen, length, stable) == seen.copy /\ length > 0

\* The last turn has its copy button and was read twice, or it stood still for long.
Sure(seen, length, stable) == seen.copy /\ length > 0 /\ stable >= 1
StoodStill(seen, length, stable) == ~seen.thinking /\ length > 0 /\ stable >= Threshold

\* bound: equal reads beyond the threshold are not told apart
Capped(n) == IF n > Threshold THEN Threshold ELSE n

Read ==
    /\ At("read")
    /\ \E text \in Latest :
       LET length == text.length
           stable == IF length > 0 /\ length = reading.length THEN Capped(reading.stable + 1) ELSE 0
       IN  /\ Go(IF Sure(reading, length, stable) \/ StoodStill(reading, length, stable)
                 THEN "take" ELSE "look")
           /\ reading' = [reading EXCEPT !.length = length, !.stable = stable, !.polled = TRUE,
                                        !.sure = Sure(reading, length, stable)]
    /\ UNCHANGED <<talk, page, disk, mem, printed, asks, late, fresh>>

Take ==
    /\ At("take")
    /\ \E text \in Latest : printed' = [text EXCEPT !.sure = reading.sure]
    /\ CommandEnds /\ UNCHANGED fresh

ChatNext ==
    \/ PageShows \/ AnswerGrows \/ Ask \/ New \/ ClearThread \/ Gives
    \/ OpenPage \/ Forget \/ Return \/ Send \/ Keep \/ Glance \/ Read \/ Take

(***************************************************************************)
(* Properties.                                                             *)
(***************************************************************************)
\* What a command prints is the answer to its own question, or a part of it or the question
\* itself where the page stood still, but none of those before it; and it is the whole answer
\* unless it was taken because the page stood still: also behind questions whose answers were
\* cut short, and while the page changes between two reads of one poll. Excepted is a page
\* that stands still while the answer is empty or only thinks: there the extractor falls
\* through to an earlier answer. The page must show the question by the second poll, five
\* seconds after it was sent (chatgpt-client.ts:168-202, response-extractor.ts:31-125).
AnswerIsWhole ==
    printed # NoAnswer /\ ~late =>
        /\ printed.by # "earlier" => printed.question = asks
        /\ printed.sure => printed.by = "assistant" /\ printed.question = asks /\ printed.whole
=============================================================================
