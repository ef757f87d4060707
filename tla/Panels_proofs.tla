---------------------------- MODULE Panels_proofs ----------------------------
(***************************************************************************)
(* The panels of the dashboard and the tools of the repository, for any    *)
(* number of saves, songs, labels, questions, logins and edits.  Each part *)
(* has its own inductive invariant; at the end they hold beside each       *)
(* other, as MCPanels composes them.                                       *)
(***************************************************************************)
EXTENDS MCPanels, FiniteSetTheorems, SequenceTheorems, WellFoundedInduction, TLAPS

-----------------------------------------------------------------------------
(* Induction, over finite sets and over the numbers, of a set of them.      *)

\* Finite sets are well founded under inclusion.
LEMMA SmallestSet ==
  ASSUME NEW S, NEW T \in SUBSET FiniteSubsetsOf(S), T # {}
  PROVE  \E A \in T : \A B \in T : B \subseteq A => B = A
<1>1. IsWellFoundedOn(StrictSubsetOrdering(S), FiniteSubsetsOf(S))
  BY FS_StrictSubsetOrderingWellFounded
<1>2. PICK A \in T : \A B \in T : <<B, A>> \notin StrictSubsetOrdering(S)
  BY <1>1, WFMin, Zenon
<1>3. QED
  BY <1>2 DEF StrictSubsetOrdering, FiniteSubsetsOf

\* A set of numbers has a least one.
LEMMA LeastNumber ==
  ASSUME NEW S \in SUBSET Nat, S # {}
  PROVE  \E n \in S : \A k \in S : n <= k
<1> DEFINE Below(n) == 1 .. n
           Rest == {Below(n) : n \in S}
<1>1. \A n \in S : Below(n) \in FiniteSubsetsOf(Nat)
  BY FS_Interval DEF FiniteSubsetsOf
<1>2. Rest \in SUBSET FiniteSubsetsOf(Nat) /\ Rest # {}
  BY <1>1
<1>3. PICK A \in Rest : \A B \in Rest : B \subseteq A => B = A
  <2> HIDE DEF Rest
  <2>1. QED
    BY <1>2, SmallestSet
<1>4. PICK n \in S : A = Below(n)
  BY <1>3
<1>5. ASSUME NEW k \in S, ~(n <= k)
      PROVE  FALSE
  <2>1. Below(k) \in Rest /\ Below(k) \subseteq A
    BY <1>4, <1>5
  <2>2. n \in Below(n) /\ n \notin Below(k)
    BY <1>5
  <2>3. QED
    BY <1>3, <1>4, <2>1, <2>2
<1>6. QED
  BY <1>5

\* Induction over the numbers, of a set of them.
LEMMA Induction ==
  ASSUME NEW S, 0 \in S, \A n \in Nat : n \in S => n + 1 \in S
  PROVE  \A n \in Nat : n \in S
<1> DEFINE Rest == {n \in Nat : n \notin S}
<1>1. SUFFICES ASSUME Rest # {} PROVE FALSE
  OBVIOUS
<1>2. PICK n \in Rest : \A k \in Rest : n <= k
  BY <1>1, LeastNumber
<1>3. n # 0 /\ n - 1 \in Nat
  BY <1>2
<1>4. n - 1 \notin Rest
  BY <1>2, <1>3
<1>5. QED
  BY <1>2, <1>3, <1>4


-----------------------------------------------------------------------------
(* The setup panels (SetupPanels).                                          *)

SetupTypeOK ==
    /\ stored \in Texts /\ copy \in Texts /\ draft \in Texts
    /\ saving = NoSave \/ (saving.at \in {"sent", "saved"} /\ saving.values \in Texts)

\* A new copy gives each field its own value or leaves what it holds.
LEMMA SyncedType ==
  ASSUME SetupTypeOK, NEW new \in Texts
  PROVE  /\ Synced(new) \in Texts
         /\ \A f \in Fields : Synced(new)[f] # draft[f] /\ panel # "services" =>
               IF panel = "presentation" THEN new # copy ELSE new[f] # copy[f]
BY DEF SetupTypeOK, Synced, Texts

\* Every step of a panel keeps the types.
LEMMA SetupTypeStep ==
  ASSUME SetupTypeOK, [SetupNext]_setupVars
  PROVE  SetupTypeOK'
<1> USE DEF SetupTypeOK
<1>1. CASE \E to \in {panel, "another", "none"} : GoTo(to)
  BY <1>1 DEF GoTo, Mounts
<1>2. CASE KeepEditing \/ DiscardAndLeave \/ TypeSecret \/ Discard \/ Refuse
  BY <1>2 DEF KeepEditing, DiscardAndLeave, TypeSecret, Discard, Refuse
<1>3. CASE \E f \in Fields, v \in Values \cup {Invalid} : Type(f, v)
  BY <1>3 DEF Type, Texts
<1>4. CASE Save
  <2>1. Sent \in Texts
    BY DEF Sent, Texts, Fields
  <2>2. QED
    BY <1>4, <2>1 DEF Save, NoSave
<1>5. CASE Serve
  <2>1. saving.values \in Texts
    BY <1>5 DEF Serve, NoSave
  <2>2. stored' \in Texts
    BY <1>5, <2>1 DEF Serve, Texts
  <2>3. QED
    BY <1>5, <2>1, <2>2 DEF Serve
<1>6. CASE Saved
  BY <1>6, SyncedType DEF Saved, Takes
<1>7. CASE PanelSaveFails
  BY <1>7 DEF PanelSaveFails
<1>8. CASE Reread
  BY <1>8, SyncedType DEF Reread, Takes
<1>9. CASE \E f \in Fields, v \in Values : SavedElsewhere(f, v)
  BY <1>9 DEF SavedElsewhere, Texts
<1>10. CASE UNCHANGED setupVars
  BY <1>10 DEF setupVars
<1>11. QED
  BY <1>1, <1>2, <1>3, <1>4, <1>5, <1>6, <1>7, <1>8, <1>9, <1>10 DEF SetupNext

\* What a field holds goes only in the ways that NoEditLost names.
LEMMA HeldStep ==
  ASSUME SetupTypeOK, SetupNext, NEW f \in Fields, Held(f), panel # "services"
  PROVE  \/ shown' = panel /\ draft'[f] = draft[f]
         \/ Discard \/ DiscardAndLeave
         \/ \E v \in Values \cup {Invalid} : Type(f, v)
         \/ IF panel = "presentation" THEN copy' # copy ELSE copy'[f] # copy[f]
         \/ ~Offered(f) /\ ~Dirty
<1>1. shown = panel /\ (Offered(f) => Dirty)
  BY DEF Held, Dirty, Open
<1>2. CASE \E to \in {panel, "another", "none"} : GoTo(to)
  BY <1>1, <1>2 DEF GoTo
<1>3. CASE KeepEditing \/ TypeSecret \/ Refuse \/ Save \/ Serve \/ PanelSaveFails
  BY <1>1, <1>3 DEF KeepEditing, TypeSecret, Refuse, Save, Serve, PanelSaveFails
<1>4. CASE \E g \in Fields, v \in Values \cup {Invalid} : Type(g, v)
  <2>1. PICK g \in Fields, v \in Values \cup {Invalid} : Type(g, v)
    BY <1>4
  <2>2. CASE g = f
    BY <2>1, <2>2
  <2>3. CASE g # f
    BY <1>1, <2>1, <2>3 DEF Type, SetupTypeOK, Texts
  <2>4. QED
    BY <2>2, <2>3
<1>5. CASE Saved \/ Reread
  BY <1>1, <1>5, SyncedType DEF Saved, Reread, Takes, Open, SetupTypeOK
<1>6. CASE \E g \in Fields, v \in Values : SavedElsewhere(g, v)
  BY <1>1, <1>6 DEF SavedElsewhere
<1>7. QED
  BY <1>2, <1>3, <1>4, <1>5, <1>6 DEF SetupNext

\* For any number of saves, here and elsewhere: a value that the operator has typed is not
\* taken away by saving another field, by a save that fails, by a reading of the settings or
\* by a change of the panel, unless it is for the method of Lighting that is not chosen any
\* more and nothing else is held.
THEOREM EditsAreKept == SetupSpec => NoEditLost
<1>1. SetupInit => SetupTypeOK
  BY DEF SetupInit, SetupTypeOK, Texts, Values, NoSave
<1>2. SetupTypeOK /\ [SetupNext]_setupVars => SetupTypeOK'
  BY SetupTypeStep
<1>3. SetupTypeOK /\ [SetupNext]_setupVars =>
        [\A f \in Fields : Held(f) /\ panel # "services" =>
           \/ shown' = panel /\ draft'[f] = draft[f]
           \/ Discard \/ DiscardAndLeave
           \/ \E v \in Values \cup {Invalid} : Type(f, v)
           \/ IF panel = "presentation" THEN copy' # copy ELSE copy'[f] # copy[f]
           \/ ~Offered(f) /\ ~Dirty]_setupVars
  BY HeldStep
<1>4. QED
  BY <1>1, <1>2, <1>3, PTL DEF SetupSpec, NoEditLost

-----------------------------------------------------------------------------
(* The saved settings and the dashboard's copy (SettingsDesk): the          *)
(* inductive invariant.                                                     *)

Settings == [Sections -> Nat]
Writing == {"general", "midi", "presentation", "services", "oauth", "input", "arrangement",
            "lights", "source"}
Operations == Writing \cup Probes \cup {"load"}
Replies == {<<>>} \cup {<<a>> : a \in Settings}
OperationRecords ==
    [op : Operations, step : {1, 2}, basis : Settings, value : Nat, part : BOOLEAN,
     answer : Replies]
\* What a chain of a kind calls for.
PartsOf(kind) ==
    IF kind = "save" THEN {"source", "arrangement", "midi"}
    ELSE {"refreshMidi", "presentation", "lights", "services"}

SettingsTypeOK ==
    /\ kept \in Settings /\ held \in Settings /\ saves \in Nat /\ apart \in BOOLEAN
    /\ running \subseteq OperationRecords
    /\ \A o \in running : o.step <= Len(CallsOf(o.op))
    /\ (chain.kind # "none" \/ running # {}) => saves > 0
    /\ chain.kind \in {"none", "save", "activate"} /\ chain.basis \in Settings
    /\ chain = [kind |-> chain.kind, left |-> chain.left, basis |-> chain.basis]
    /\ chain.left \in Seq(Operations) /\ (chain.kind = "none" => chain.left = <<>>)
    /\ \A i \in DOMAIN chain.left : chain.left[i] \in PartsOf(chain.kind)

\* Two copies of the settings are the same but for some sections.
Agree(a, b, but) == \A s \in Refreshed \ but : a[s] = b[s]

\* One operation is under way at a time, the chain's if there is a chain; it writes the
\* number of the latest save, or what was there.
OneAtATime ==
    /\ \A s \in Refreshed : kept[s] <= saves
    /\ \A o, p \in running : o = p
    /\ \A o \in running :
          /\ o.part <=> chain.kind # "none"
          /\ o.part => o.op \in PartsOf(chain.kind)
          /\ o.value = IF chain.kind = "activate" THEN 0 ELSE saves

\* The copy an operation goes by has what is saved, but for what the operation writes: a
\* part of Save goes by a copy from before the parts that came earlier, and those write
\* what it writes itself, or it reads the settings first.
BasisInv ==
    \A o \in running :
        /\ ~(o.op = "arrangement" \/ (o.op = "source" /\ o.step = 1)) =>
              Agree(o.basis, kept, Writes(o.op))
        /\ o.value = 0 => Agree(o.basis, kept, {})
        /\ o.answer # <<>> => o.answer = <<kept>>
        /\ o.op = "presentation" /\ (o.step = 2 \/ o.answer # <<>>) =>
              kept["presentation"] = Own(o, "presentation")
ChainInv ==
    chain.kind # "none" =>
        Agree(chain.basis, kept, IF chain.kind = "save" THEN {"midi", "method"} ELSE {})

\* The dashboard's copy has what is saved, but for what the operation under way has written
\* and not read back.
UnreadOp(o) ==
    /\ o.step = 2 \/ o.answer # <<>>
    /\ ~(o.op = "presentation" /\ o.step = 2)
HeldInv ==
    \A s \in Refreshed : held[s] = kept[s] \/ \E o \in running : s \in Writes(o.op) /\ UnreadOp(o)

SettingsInv ==
    SettingsTypeOK /\ (apart => OneAtATime /\ BasisInv /\ ChainInv /\ HeldInv)

-----------------------------------------------------------------------------
\* The calls of each operation.
LEMMA CallTable ==
  ASSUME NEW op \in Operations, NEW n \in {1, 2}, n <= Len(CallsOf(op))
  PROVE  /\ CallsOf(op)[n] = "put" <=>
               \/ n = 1 /\ op \in {"general", "midi", "presentation"}
               \/ n = 2 /\ op \in {"services", "source"}
         /\ CallsOf(op)[n] = "direct" <=>
               \/ n = 1 /\ op \in {"services", "oauth", "input", "arrangement", "lights"}
               \/ n = 2 /\ op = "presentation"
         /\ CallsOf(op)[n] = "get" <=>
               \/ n = 1 /\ op \in {"source", "load"}
               \/ n = 2 /\ op = "lights"
         /\ n = Len(CallsOf(op)) <=> (n = 1 <=> op \notin {"presentation", "services", "lights", "source"})
<1>1. CASE op \in {"general", "midi"}
  <2>1. CallsOf(op) = <<"put">>
    BY <1>1 DEF CallsOf, Probes
  <2>2. Len(CallsOf(op)) = 1 /\ CallsOf(op)[1] = "put"
    BY <2>1
  <2>3. QED
    BY <1>1, <2>2
<1>2. CASE op = "presentation"
  <2>1. CallsOf(op) = <<"put", "direct">>
    BY <1>2 DEF CallsOf, Probes
  <2>2. Len(CallsOf(op)) = 2 /\ CallsOf(op)[1] = "put" /\ CallsOf(op)[2] = "direct"
    BY <2>1
  <2>3. QED
    BY <1>2, <2>2
<1>3. CASE op = "services"
  <2>1. CallsOf(op) = <<"direct", "put">>
    BY <1>3 DEF CallsOf, Probes
  <2>2. Len(CallsOf(op)) = 2 /\ CallsOf(op)[1] = "direct" /\ CallsOf(op)[2] = "put"
    BY <2>1
  <2>3. QED
    BY <1>3, <2>2
<1>4. CASE op \in {"oauth", "input", "arrangement"}
  <2>1. CallsOf(op) = <<"direct">>
    BY <1>4 DEF CallsOf, Probes
  <2>2. Len(CallsOf(op)) = 1 /\ CallsOf(op)[1] = "direct"
    BY <2>1
  <2>3. QED
    BY <1>4, <2>2
<1>5. CASE op = "lights"
  <2>1. CallsOf(op) = <<"direct", "get">>
    BY <1>5 DEF CallsOf, Probes
  <2>2. Len(CallsOf(op)) = 2 /\ CallsOf(op)[1] = "direct" /\ CallsOf(op)[2] = "get"
    BY <2>1
  <2>3. QED
    BY <1>5, <2>2
<1>6. CASE op = "source"
  <2>1. CallsOf(op) = <<"get", "put">>
    BY <1>6 DEF CallsOf, Probes
  <2>2. Len(CallsOf(op)) = 2 /\ CallsOf(op)[1] = "get" /\ CallsOf(op)[2] = "put"
    BY <2>1
  <2>3. QED
    BY <1>6, <2>2
<1>7. CASE op = "load"
  <2>1. CallsOf(op) = <<"get">>
    BY <1>7 DEF CallsOf, Probes
  <2>2. Len(CallsOf(op)) = 1 /\ CallsOf(op)[1] = "get" /\ n = 1
    BY <2>1
  <2>3. QED
    BY <1>7, <2>2
<1>8. CASE op \in Probes
  <2>1. CallsOf(op) = <<"probe">>
    BY <1>8 DEF CallsOf, Probes
  <2>2. Len(CallsOf(op)) = 1 /\ CallsOf(op)[1] = "probe"
    BY <2>1
  <2>3. QED
    BY <1>8, <2>2 DEF Probes
<1>9. QED
  BY <1>1, <1>2, <1>3, <1>4, <1>5, <1>6, <1>7, <1>8 DEF Operations, Writing

\* Every operation has a call.
LEMMA CallsLength ==
  ASSUME NEW op \in Operations
  PROVE  Len(CallsOf(op)) \in {1, 2}
BY DEF CallsOf, Operations, Writing, Probes

\* What an operation writes.
LEMMA WritesTable ==
  ASSUME NEW op \in Operations
  PROVE  Writes(op) = CASE op = "midi" -> {"midi", "method"}
                        [] op = "oauth" -> {"auth"}
                        [] op = "source" -> {"method"}
                        [] op \in Probes \cup {"load"} -> {}
                        [] OTHER -> {op}
BY DEF Writes

\* A reply is a copy of the settings, if it has come.
LEMMA ReplyTable ==
  /\ <<>> \in Replies
  /\ \A a \in Settings : <<a>> \in Replies /\ Head(<<a>>) = a /\ <<a>> # <<>>
  /\ \A r \in Replies : r # <<>> => Head(r) \in Settings
<1>1. <<>> \in Replies
  BY Zenon DEF Replies
<1>2. \A a \in Settings : <<a>> \in Replies
  BY Zenon DEF Replies
<1>3. \A a \in Settings : Head(<<a>>) = a /\ <<a>> # <<>>
  OBVIOUS
<1>4. \A r \in Replies : r = <<>> \/ \E a \in Settings : r = <<a>>
  BY Zenon DEF Replies
<1>5. QED
  BY <1>1, <1>2, <1>3, <1>4

\* A press of a button.
LEMMA BeginStep ==
  ASSUME SettingsInv, NEW op \in Operations, Begin(op)
  PROVE  SettingsInv'
<1> DEFINE o == Starting(op, held, saves + 1, FALSE)
<1>1. /\ running' = running \cup {o} /\ saves' = saves + 1
      /\ apart' = (apart /\ running = {} /\ chain.kind = "none")
      /\ kept' = kept /\ held' = held /\ chain' = chain
  BY DEF Begin
<1>2. /\ o \in OperationRecords /\ o.step = 1 /\ o.step <= Len(CallsOf(o.op))
      /\ o.op = op /\ o.value = saves + 1 /\ ~o.part /\ o.answer = <<>> /\ o.basis = held
  <2>1. held \in Settings /\ saves + 1 \in Nat /\ <<>> \in Replies /\ 1 <= Len(CallsOf(op))
    BY CallsLength, ReplyTable DEF SettingsInv, SettingsTypeOK
  <2>2. QED
    BY <2>1 DEF Starting, OperationRecords
<1> HIDE DEF o
<1>3. SettingsTypeOK'
  BY <1>1, <1>2 DEF SettingsInv, SettingsTypeOK
<1>4. ASSUME apart' PROVE (OneAtATime /\ BasisInv /\ ChainInv /\ HeldInv)'
  <2>1. /\ apart /\ running = {} /\ chain.kind = "none" /\ running' = {o}
        /\ saves \in Nat /\ kept \in Settings /\ OneAtATime /\ HeldInv
    BY <1>1, <1>4 DEF SettingsInv, SettingsTypeOK
  <2>2. \A s \in Refreshed : held[s] = kept[s]
    BY <2>1 DEF HeldInv
  <2>3. OneAtATime'
    <3>1. \A s \in Refreshed : kept[s] \in Nat /\ kept[s] <= saves
      BY <2>1 DEF OneAtATime, Settings, Refreshed
    <3>2. \A s \in Refreshed : kept'[s] <= saves'
      BY <1>1, <2>1, <3>1
    <3>3. QED
      BY <1>1, <1>2, <2>1, <3>2 DEF OneAtATime
  <2>4. BasisInv'
    BY <1>1, <1>2, <2>1, <2>2 DEF BasisInv, Agree
  <2>5. ChainInv'
    BY <1>1, <2>1 DEF ChainInv
  <2>6. HeldInv'
    BY <1>1, <2>2 DEF HeldInv
  <2>7. QED
    BY <2>3, <2>4, <2>5, <2>6
<1>5. QED
  BY <1>3, <1>4 DEF SettingsInv

\* The Save of the Playback panel and the activation begin.
LEMMA BeginChainStep ==
  ASSUME SettingsInv, NEW kind \in {"save", "activate"}, NEW left \in Seq(Operations),
         \A i \in DOMAIN left : left[i] \in PartsOf(kind), BeginChain(kind, left)
  PROVE  SettingsInv'
<1>1. /\ running' = running /\ saves' = saves + 1 /\ chain.kind = "none"
      /\ apart' = (apart /\ running = {}) /\ kept' = kept /\ held' = held
      /\ chain' = [kind |-> kind, left |-> left, basis |-> held]
  BY DEF BeginChain
<1>2. SettingsTypeOK'
  BY <1>1 DEF SettingsInv, SettingsTypeOK
<1>3. ASSUME apart' PROVE (OneAtATime /\ BasisInv /\ ChainInv /\ HeldInv)'
  <2>1. /\ apart /\ running = {} /\ running' = {} /\ chain'.basis = held
        /\ saves \in Nat /\ kept \in Settings /\ OneAtATime /\ HeldInv
    BY <1>1, <1>3 DEF SettingsInv, SettingsTypeOK
  <2>2. \A s \in Refreshed : held[s] = kept[s]
    BY <2>1 DEF HeldInv
  <2>3. OneAtATime' /\ BasisInv'
    <3>1. \A s \in Refreshed : kept[s] \in Nat /\ kept[s] <= saves
      BY <2>1 DEF OneAtATime, Settings, Refreshed
    <3>2. \A s \in Refreshed : kept'[s] <= saves'
      BY <1>1, <2>1, <3>1
    <3>3. QED
      BY <1>1, <2>1, <3>2 DEF OneAtATime, BasisInv
  <2>4. ChainInv'
    BY <1>1, <2>1, <2>2 DEF ChainInv, Agree
  <2>5. HeldInv'
    BY <1>1, <2>2 DEF HeldInv
  <2>6. QED
    BY <2>3, <2>4, <2>5
<1>4. QED
  BY <1>2, <1>3 DEF SettingsInv

\* What a chain has left after its next step.
LEMMA TailOfLeft ==
  ASSUME SettingsTypeOK, chain.left # <<>>
  PROVE  /\ Head(chain.left) \in PartsOf(chain.kind) /\ Head(chain.left) \in Operations
         /\ Tail(chain.left) \in Seq(Operations)
         /\ \A i \in DOMAIN Tail(chain.left) : Tail(chain.left)[i] \in PartsOf(chain.kind)
BY DEF SettingsTypeOK

\* The chain takes its next step or ends.
LEMMA ContinueStep ==
  ASSUME SettingsInv, Continue \/ ChainEnds
  PROVE  SettingsInv'
<1>1. /\ kept' = kept /\ held' = held /\ saves' = saves /\ apart' = apart
      /\ ~\E p \in running : p.part
  BY DEF Continue, ChainEnds
<1> DEFINE op == Head(chain.left)
           o == Starting(op, chain.basis, IF chain.kind = "save" THEN saves ELSE 0, TRUE)
           rest == [chain EXCEPT !.left = Tail(chain.left)]
<1>2. CASE Continue /\ ~Claimed(op)
  <2>1. chain.left # <<>> /\ chain' = rest /\ running' = running \cup {o}
    BY <1>2 DEF Continue
  <2>2. /\ chain.kind # "none" /\ op \in Operations /\ op \in PartsOf(chain.kind)
        /\ rest.kind = chain.kind /\ rest.basis = chain.basis /\ rest.left = Tail(chain.left)
    BY <2>1, TailOfLeft DEF SettingsInv, SettingsTypeOK
  <2>3. /\ o \in OperationRecords /\ o.step = 1 /\ o.step <= Len(CallsOf(o.op))
        /\ o.op = op /\ o.part /\ o.answer = <<>> /\ o.basis = chain.basis
        /\ o.value = IF chain.kind = "save" THEN saves ELSE 0
    <3>1. chain.basis \in Settings /\ saves \in Nat /\ <<>> \in Replies /\ 1 <= Len(CallsOf(op))
      BY <2>2, CallsLength, ReplyTable DEF SettingsInv, SettingsTypeOK
    <3>2. QED
      BY <2>2, <3>1 DEF Starting, OperationRecords
  <2> HIDE DEF o
  <2>4. SettingsTypeOK'
    BY <1>1, <2>1, <2>2, <2>3, TailOfLeft DEF SettingsInv, SettingsTypeOK
  <2>5. ASSUME apart PROVE (OneAtATime /\ BasisInv /\ ChainInv /\ HeldInv)'
    <3>1. OneAtATime /\ ChainInv /\ HeldInv /\ chain.kind \in {"save", "activate"}
      BY <2>2, <2>5 DEF SettingsInv, SettingsTypeOK
    <3>2. running = {} /\ running' = {o}
      BY <1>1, <2>1, <2>2, <3>1 DEF OneAtATime
    <3>3. OneAtATime'
      BY <1>1, <2>1, <2>2, <2>3, <3>1, <3>2 DEF OneAtATime
    <3>4. BasisInv'
      <4>1. o.op = "midi" => Writes(o.op) = {"midi", "method"}
        BY DEF Writes, Probes
      <4>2. Agree(o.basis, kept, IF chain.kind = "save" THEN {"midi", "method"} ELSE {})
        BY <2>2, <2>3, <3>1 DEF ChainInv
      <4>3. ~(o.op = "arrangement" \/ (o.op = "source" /\ o.step = 1)) =>
              Agree(o.basis, kept, Writes(o.op))
        BY <2>2, <2>3, <4>1, <4>2 DEF Agree, PartsOf
      <4>4. o.value = 0 => Agree(o.basis, kept, {})
        <5>1. CASE chain.kind = "activate"
          BY <4>2, <5>1
        <5>2. saves > 0 /\ saves \in Nat
          BY <2>2 DEF SettingsInv, SettingsTypeOK
        <5>3. QED
          BY <2>3, <3>1, <5>1, <5>2
      <4>5. QED
        BY <1>1, <2>3, <3>2, <4>3, <4>4 DEF BasisInv
    <3>5. ChainInv'
      BY <1>1, <2>1, <2>2, <3>1 DEF ChainInv
    <3>6. HeldInv'
      BY <1>1, <3>1, <3>2 DEF HeldInv
    <3>7. QED
      BY <3>3, <3>4, <3>5, <3>6
  <2>6. QED
    BY <1>1, <2>4, <2>5 DEF SettingsInv
<1>3. CASE (Continue /\ Claimed(op)) \/ ChainEnds
  <2>1. running' = running /\ (chain' = NoChain \/ (chain.left # <<>> /\ chain' = rest))
    BY <1>3 DEF Continue, ChainEnds
  <2>2. chain' = NoChain => SettingsTypeOK'
    BY <1>1, <2>1 DEF SettingsInv, SettingsTypeOK, NoChain, Settings
  <2>3. chain.left # <<>> /\ chain' = rest => SettingsTypeOK' /\ chain'.kind = chain.kind /\ chain'.basis = chain.basis
    BY <1>1, <2>1, TailOfLeft DEF SettingsInv, SettingsTypeOK
  <2>4. ASSUME apart PROVE (OneAtATime /\ BasisInv /\ ChainInv /\ HeldInv)'
    <3>1. OneAtATime /\ BasisInv /\ ChainInv /\ HeldInv
      BY <2>4 DEF SettingsInv
    <3>2. chain.kind # "none" => running = {}
      BY <1>1, <3>1 DEF OneAtATime
    <3>3. chain.kind # "none"
      BY <1>3, TailOfLeft DEF ChainEnds, Continue, SettingsInv, SettingsTypeOK
    <3>4. QED
      BY <1>1, <2>1, <2>3, <3>1, <3>2, <3>3 DEF OneAtATime, BasisInv, ChainInv, HeldInv, NoChain
  <2>5. QED
    BY <1>1, <2>1, <2>2, <2>3, <2>4 DEF SettingsInv
<1>4. QED
  BY <1>2, <1>3

\* What is saved after a call of the operation under way.
LEMMA ServedSettings ==
  ASSUME SettingsTypeOK, NEW o \in running, Serves(o)
  PROVE  /\ kept' \in Settings
         /\ Call(o) = "put" => \A s \in Sections :
               kept'[s] = IF s \in Writes(o.op) THEN Own(o, s) ELSE o.basis[s]
         /\ Call(o) = "direct" => \A s \in Sections :
               kept'[s] = IF s \in Writes(o.op) THEN Own(o, s) ELSE kept[s]
         /\ Call(o) \notin {"put", "direct"} => kept' = kept
<1>1. o.basis \in Settings /\ o.value \in Nat /\ kept \in Settings
  BY DEF SettingsTypeOK, OperationRecords
<1>2. \A s \in Sections : Own(o, s) \in Nat
  BY <1>1 DEF Own, Settings
<1>3. Content(o) \in Settings /\ Changed(o) \in Settings
  BY <1>1, <1>2 DEF Content, Changed, Settings
<1>4. CASE Call(o) = "put"
  <2>1. kept' = Content(o)
    BY <1>4 DEF Serves
  <2>2. QED
    BY <1>3, <1>4, <2>1 DEF Content
<1>5. CASE Call(o) = "direct"
  <2>1. kept' = Changed(o)
    BY <1>5 DEF Serves
  <2>2. QED
    BY <1>3, <1>5, <2>1 DEF Changed
<1>6. CASE Call(o) \notin {"put", "direct"}
  <2>1. kept' = kept
    BY <1>6 DEF Serves
  <2>2. QED
    BY <1>1, <1>6, <2>1
<1>7. QED
  BY <1>4, <1>5, <1>6

\* With one operation under way, what a call saves is newer or what was there.
LEMMA ServedIsNewer ==
  ASSUME SettingsInv, apart, NEW o \in running, Serves(o)
  PROVE  \A s \in Refreshed :
            /\ kept'[s] >= kept[s]
            /\ kept'[s] # kept[s] => s \in Writes(o.op) /\ o.value # 0
            /\ s \in Writes(o.op) /\ Call(o) \in {"put", "direct"} => kept'[s] = Own(o, s)
<1>1. /\ o.op \in Operations /\ o.step \in {1, 2} /\ o.step <= Len(CallsOf(o.op))
      /\ saves \in Nat /\ kept \in Settings /\ o.basis \in Settings /\ o.value \in Nat
      /\ OneAtATime /\ BasisInv
  BY DEF SettingsInv, SettingsTypeOK, OperationRecords
<1>2. SUFFICES ASSUME NEW s \in Refreshed
               PROVE  /\ kept'[s] >= kept[s]
                      /\ kept'[s] # kept[s] => s \in Writes(o.op) /\ o.value # 0
                      /\ s \in Writes(o.op) /\ Call(o) \in {"put", "direct"} => kept'[s] = Own(o, s)
  OBVIOUS
<1>3. s \in Sections /\ kept[s] \in Nat /\ kept[s] <= saves /\ o.basis[s] \in Nat
  BY <1>1 DEF Refreshed, OneAtATime, Settings
<1>4. o.value = 0 => o.basis[s] = kept[s]
  BY <1>1 DEF BasisInv, Agree
<1>5. o.value # 0 => o.value = saves
  BY <1>1 DEF OneAtATime
<1>6. Own(o, s) >= kept[s] /\ (o.value = 0 => Own(o, s) = kept[s])
  BY <1>3, <1>4, <1>5 DEF Own
<1>7. CASE Call(o) = "put"
  <2>1. ~(o.op = "arrangement" \/ (o.op = "source" /\ o.step = 1))
    BY <1>1, <1>7, CallTable DEF Call
  <2>2. s \notin Writes(o.op) => o.basis[s] = kept[s]
    BY <1>1, <2>1 DEF BasisInv, Agree
  <2>3. QED
    BY <1>3, <1>6, <1>7, <2>2, ServedSettings DEF SettingsInv
<1>8. CASE Call(o) = "direct"
  BY <1>3, <1>6, <1>8, ServedSettings DEF SettingsInv
<1>9. CASE Call(o) \notin {"put", "direct"}
  BY <1>3, <1>9, ServedSettings DEF SettingsInv
<1>10. QED
  BY <1>7, <1>8, <1>9

\* The operation with its answer or at its next call.
LEMMA ServedType ==
  ASSUME SettingsTypeOK, NEW o \in running, Serves(o)
  PROVE  LET p == [o EXCEPT !.answer = <<kept'>>]
         IN  /\ p \in OperationRecords /\ p.op = o.op /\ p.step = o.step /\ p.basis = o.basis
             /\ p.value = o.value /\ p.part = o.part /\ p.answer = <<kept'>>
BY ServedSettings, ReplyTable DEF SettingsTypeOK, OperationRecords

\* A call is served.
LEMMA ServesStep ==
  ASSUME SettingsInv, NEW o \in running, Serves(o)
  PROVE  SettingsInv'
<1> DEFINE p == [o EXCEPT !.answer = <<kept'>>]
<1>1. /\ held' = held /\ chain' = chain /\ saves' = saves /\ apart' = apart
      /\ running' = (running \ {o}) \cup {p} /\ o.answer = <<>>
  BY DEF Serves
<1>2. /\ p \in OperationRecords /\ p.op = o.op /\ p.step = o.step /\ p.basis = o.basis
      /\ p.value = o.value /\ p.part = o.part /\ p.answer = <<kept'>>
  BY ServedType DEF SettingsInv
<1>3. kept' \in Settings /\ p.answer # <<>>
  BY <1>2, ServedSettings, ReplyTable DEF SettingsInv
<1> HIDE DEF p
<1>4. SettingsTypeOK'
  BY <1>1, <1>2, <1>3 DEF SettingsInv, SettingsTypeOK
<1>5. ASSUME apart PROVE (OneAtATime /\ BasisInv /\ ChainInv /\ HeldInv)'
  <2>1. /\ OneAtATime /\ BasisInv /\ ChainInv /\ HeldInv /\ saves \in Nat
        /\ o.op \in Operations /\ o.step \in {1, 2} /\ o.step <= Len(CallsOf(o.op))
        /\ o.value \in Nat /\ o.basis \in Settings /\ kept \in Settings
    BY <1>5 DEF SettingsInv, SettingsTypeOK, OperationRecords
  <2>2. running = {o} /\ running' = {p}
    BY <1>1, <2>1 DEF OneAtATime
  <2>3. \A s \in Refreshed :
            /\ kept'[s] # kept[s] => s \in Writes(o.op) /\ o.value # 0
            /\ s \in Writes(o.op) /\ Call(o) \in {"put", "direct"} => kept'[s] = Own(o, s)
    BY <1>5, ServedIsNewer
  <2>4. OneAtATime'
    <3>1. ASSUME NEW s \in Refreshed PROVE kept'[s] <= saves
      <4>1. kept[s] \in Nat /\ kept[s] <= saves /\ s \in Sections
        BY <2>1 DEF OneAtATime, Settings, Refreshed
      <4>2. kept'[s] = kept[s] \/ (s \in Writes(o.op) /\ o.value # 0)
        BY <2>3
      <4>3. o.value # 0 => o.value = saves /\ Own(o, s) = saves
        BY <2>1 DEF OneAtATime, Own
      <4>4. s \in Writes(o.op) => kept'[s] = kept[s] \/ kept'[s] = Own(o, s)
        <5>1. Call(o) \notin {"put", "direct"} => kept' = kept
          BY ServedSettings DEF SettingsInv
        <5>2. QED
          BY <2>3, <5>1
      <4>5. QED
        BY <2>1, <4>1, <4>2, <4>3, <4>4
    <3>2. QED
      BY <1>1, <1>2, <2>1, <2>2, <3>1 DEF OneAtATime
  <2>5. BasisInv'
    <3>1. ~(p.op = "arrangement" \/ (p.op = "source" /\ p.step = 1)) =>
            Agree(p.basis, kept', Writes(p.op))
      BY <1>2, <2>1, <2>3 DEF BasisInv, Agree
    <3>2. p.value = 0 => Agree(p.basis, kept', {})
      BY <1>2, <2>1, <2>3 DEF BasisInv, Agree
    <3>3. p.op = "presentation" => kept'["presentation"] = Own(p, "presentation")
      <4>1. ASSUME p.op = "presentation"
            PROVE  Call(o) \in {"put", "direct"} /\ "presentation" \in Writes(o.op)
        BY <1>2, <2>1, <4>1, CallTable DEF Call, Writes, Probes
      <4>2. "presentation" \in Refreshed /\ Own(p, "presentation") = Own(o, "presentation")
        BY <1>2 DEF Refreshed, Sections, Own
      <4>3. QED
        BY <1>2, <2>3, <4>1, <4>2
    <3>4. QED
      BY <1>2, <2>2, <3>1, <3>2, <3>3 DEF BasisInv
  <2>6. ChainInv'
    <3>1. ASSUME chain.kind = "save", NEW s \in Refreshed \ {"midi", "method"}
          PROVE  s \notin Writes(o.op)
      <4>1. o.op \in {"source", "arrangement", "midi"}
        BY <2>1, <3>1 DEF OneAtATime, PartsOf
      <4>2. QED
        BY <4>1 DEF Writes, Probes, Refreshed
    <3>2. chain.kind = "activate" => o.value = 0
      BY <2>1 DEF OneAtATime
    <3>3. QED
      BY <1>1, <1>4, <2>1, <2>3, <3>1, <3>2 DEF ChainInv, Agree, SettingsTypeOK
  <2>7. HeldInv'
    <3>1. SUFFICES ASSUME NEW s \in Refreshed
                   PROVE  held[s] = kept'[s] \/ (s \in Writes(p.op) /\ UnreadOp(p))
      BY <1>1, <2>2 DEF HeldInv
    <3>2. CASE kept'[s] = kept[s]
      <4>1. held[s] = kept[s] \/ (s \in Writes(o.op) /\ UnreadOp(o))
        BY <2>1, <2>2 DEF HeldInv
      <4>2. QED
        BY <1>2, <1>3, <3>2, <4>1 DEF UnreadOp
    <3>3. CASE kept'[s] # kept[s]
      <4>1. s \in Writes(o.op)
        BY <2>3, <3>3
      <4>2. ~(o.op = "presentation" /\ o.step = 2)
        <5>1. SUFFICES ASSUME o.op = "presentation", o.step = 2 PROVE FALSE
          OBVIOUS
        <5>2. Call(o) = "direct" /\ s = "presentation"
          BY <2>1, <4>1, <5>1, CallTable DEF Call, Writes, Probes
        <5>3. kept["presentation"] = Own(o, "presentation")
          BY <2>1, <5>1 DEF BasisInv
        <5>4. QED
          BY <2>3, <3>3, <4>1, <5>2, <5>3
      <4>3. QED
        BY <1>2, <1>3, <4>1, <4>2 DEF UnreadOp
    <3>4. QED
      BY <3>2, <3>3
  <2>8. QED
    BY <2>4, <2>5, <2>6, <2>7
<1>6. QED
  BY <1>1, <1>4, <1>5 DEF SettingsInv

\* The handler goes on with the answer of a call.
LEMMA AnswersStep ==
  ASSUME SettingsInv, NEW o \in running, Answers(o)
  PROVE  SettingsInv'
<1> DEFINE reply == Head(o.answer)
           p == [o EXCEPT !.step = @ + 1, !.answer = <<>>,
                          !.basis = IF Rebases(o.op, Call(o)) THEN reply ELSE @]
<1>1. /\ kept' = kept /\ chain' = chain /\ saves' = saves /\ apart' = apart
      /\ held' = IF Refreshes(o.op, Call(o)) THEN reply ELSE held
      /\ running' = (running \ {o}) \cup (IF LastCall(o) THEN {} ELSE {p})
      /\ o.answer # <<>>
  BY DEF Answers
<1>2. /\ o \in OperationRecords /\ o.op \in Operations /\ o.step \in {1, 2}
      /\ o.step <= Len(CallsOf(o.op)) /\ Len(CallsOf(o.op)) \in {1, 2}
      /\ kept \in Settings /\ held \in Settings /\ o.basis \in Settings /\ saves \in Nat
      /\ reply \in Settings /\ <<>> \in Replies
  BY <1>1, CallsLength, ReplyTable DEF SettingsInv, SettingsTypeOK, OperationRecords
<1>3. ASSUME ~LastCall(o)
      PROVE  /\ p \in OperationRecords /\ p.op = o.op /\ o.step = 1 /\ p.step = 2
             /\ p.value = o.value /\ p.part = o.part /\ p.answer = <<>>
             /\ p.basis = IF Rebases(o.op, Call(o)) THEN reply ELSE o.basis
             /\ Len(CallsOf(o.op)) = 2
  <2>1. o.step = 1 /\ Len(CallsOf(o.op)) = 2
    <3> DEFINE n == Len(CallsOf(o.op))
    <3>1. n \in {1, 2} /\ o.step <= n /\ o.step # n
      BY <1>2, <1>3 DEF LastCall
    <3> HIDE DEF n
    <3>2. o.step = 1 /\ n = 2
      BY <1>2, <3>1
    <3>3. QED
      BY <3>2 DEF n
  <2> DEFINE basis == IF Rebases(o.op, Call(o)) THEN reply ELSE o.basis
  <2>2. basis \in Settings
    BY <1>2
  <2>3. p = [o EXCEPT !.step = 2, !.answer = <<>>, !.basis = basis]
    BY <1>2, <2>1 DEF OperationRecords
  <2> HIDE DEF basis, reply, p
  <2>4. /\ p \in OperationRecords /\ p.op = o.op /\ p.step = 2 /\ p.value = o.value
        /\ p.part = o.part /\ p.answer = <<>> /\ p.basis = basis
    BY <1>2, <2>2, <2>3 DEF OperationRecords
  <2>5. QED
    BY <2>1, <2>4 DEF basis
<1>4. LastCall(o) <=> o.step = Len(CallsOf(o.op))
  BY DEF LastCall
<1> HIDE DEF p, reply
<1>5. SettingsTypeOK'
  <2>1. running' \subseteq running \cup (IF LastCall(o) THEN {} ELSE {p})
    BY <1>1
  <2>2. running' \subseteq OperationRecords /\ held' \in Settings
        /\ \A q \in running' : q.step <= Len(CallsOf(q.op))
    <3>1. CASE LastCall(o)
      BY <1>1, <1>2, <2>1, <3>1 DEF SettingsInv, SettingsTypeOK
    <3>2. CASE ~LastCall(o)
      <4>1. p \in OperationRecords /\ p.step <= Len(CallsOf(p.op))
        <5>1. /\ p \in OperationRecords /\ p.op = o.op /\ p.step = 2
              /\ Len(CallsOf(o.op)) = 2
          BY <1>3, <3>2
        <5>2. Len(CallsOf(p.op)) = 2
          BY <5>1, Zenon
        <5>3. QED
          BY <5>1, <5>2
      <4>2. QED
        BY <1>1, <1>2, <2>1, <3>2, <4>1 DEF SettingsInv, SettingsTypeOK
    <3>3. QED
      BY <3>1, <3>2
  <2>3. QED
    BY <1>1, <2>2 DEF SettingsInv, SettingsTypeOK
<1>6. ASSUME apart PROVE (OneAtATime /\ BasisInv /\ ChainInv /\ HeldInv)'
  <2>1. OneAtATime /\ BasisInv /\ ChainInv /\ HeldInv
    BY <1>6 DEF SettingsInv
  <2>2. running = {o} /\ running' = IF LastCall(o) THEN {} ELSE {p}
    BY <1>1, <2>1 DEF OneAtATime
  <2>3. reply = kept
    BY <1>1, <1>2, <2>1, ReplyTable DEF BasisInv, reply
  <2>4. /\ ChainInv'
        /\ OneAtATime'
    BY <1>1, <1>3, <2>1, <2>2 DEF ChainInv, OneAtATime
  <2>5. BasisInv'
    <3>1. SUFFICES ASSUME ~LastCall(o)
                   PROVE  /\ p.op # "arrangement" => Agree(p.basis, kept, Writes(p.op))
                          /\ p.value = 0 => Agree(p.basis, kept, {})
                          /\ p.op = "presentation" =>
                                kept["presentation"] = Own(p, "presentation")
      BY <1>1, <1>3, <2>2 DEF BasisInv, Own, Agree
    <3>2. CASE Rebases(o.op, Call(o))
      <4>1. p.op # "presentation"
        BY <1>3, <3>1, <3>2 DEF Rebases
      <4>2. QED
        BY <1>3, <2>3, <3>1, <3>2, <4>1 DEF Agree
    <3>3. CASE ~Rebases(o.op, Call(o))
      <4>1. o.op # "source"
        BY <1>2, <1>3, <3>1, <3>3, CallTable DEF Rebases, Call
      <4>2. QED
        BY <1>1, <1>3, <2>1, <3>1, <3>3, <4>1 DEF BasisInv, Own
    <3>4. QED
      BY <3>2, <3>3
  <2>6. HeldInv'
    <3>1. CASE Refreshes(o.op, Call(o))
      BY <1>1, <2>3, <3>1 DEF HeldInv
    <3>2. CASE ~Refreshes(o.op, Call(o))
      <4>1. SUFFICES ASSUME NEW s \in Refreshed, held[s] # kept[s]
                     PROVE  \E q \in running' : s \in Writes(q.op) /\ UnreadOp(q)
        BY <1>1, <3>2 DEF HeldInv
      <4>2. s \in Writes(o.op) /\ UnreadOp(o)
        BY <2>1, <2>2, <4>1 DEF HeldInv
      <4>3. ~LastCall(o) /\ o.op # "presentation"
        <5>1. o.op \notin {"oauth", "input", "arrangement", "load"} \cup Probes
          BY <4>2 DEF Writes, Refreshed, Probes
        <5>2. Call(o) # "put" /\ ~(Call(o) = "get" /\ o.op # "source")
          BY <3>2 DEF Refreshes
        <5>3. o.op = "presentation" => o.step # 2
          BY <4>2 DEF UnreadOp
        <5>4. QED
          BY <1>2, <1>4, <5>1, <5>2, <5>3, CallTable DEF Call, Operations, Writing
      <4>4. QED
        BY <1>3, <2>2, <4>2, <4>3 DEF UnreadOp
    <3>3. QED
      BY <3>1, <3>2
  <2>7. QED
    BY <2>4, <2>5, <2>6
<1>7. QED
  BY <1>1, <1>5, <1>6 DEF SettingsInv

\* A call that fails ends its operation, and the Save that it is a part of.
LEMMA CallFailsStep ==
  ASSUME SettingsInv, NEW o \in running, CallFails(o)
  PROVE  SettingsInv'
<1>1. /\ kept' = kept /\ held' = held /\ saves' = saves /\ running' = running \ {o}
      /\ chain' = IF o.part /\ chain.kind = "save" THEN NoChain ELSE chain
      /\ apart' = (apart /\ o.answer = <<>> /\ o.step = 1)
  BY DEF CallFails
<1>2. SettingsTypeOK'
  BY <1>1 DEF SettingsInv, SettingsTypeOK, NoChain, Settings
<1>3. ASSUME apart' PROVE (OneAtATime /\ BasisInv /\ ChainInv /\ HeldInv)'
  <2>1. /\ OneAtATime /\ ChainInv /\ HeldInv /\ o.answer = <<>> /\ o.step = 1
    BY <1>1, <1>3 DEF SettingsInv
  <2>2. running' = {} /\ running = {o}
    BY <1>1, <2>1 DEF OneAtATime
  <2>3. OneAtATime' /\ BasisInv'
    BY <1>1, <2>1, <2>2 DEF OneAtATime, BasisInv
  <2>4. ChainInv'
    BY <1>1, <2>1 DEF ChainInv, NoChain
  <2>5. HeldInv'
    BY <1>1, <2>1, <2>2 DEF HeldInv, UnreadOp
  <2>6. QED
    BY <2>3, <2>4, <2>5
<1>4. QED
  BY <1>2, <1>3 DEF SettingsInv

\* The presses of the buttons.
Presses ==
    \/ SaveGeneralSettings \/ SaveMidiSettings \/ SelectMidi
    \/ SavePlanningCenter \/ SignInOAuth \/ DisconnectOAuth
    \/ SaveProPresenter \/ SaveLighting \/ SaveArrangement \/ SelectSource \/ LoadSettings
    \/ TestPlanningCenter \/ LoadServiceTypes \/ TestProPresenter \/ RefreshProPresenter
    \/ RefreshMidi \/ RefreshLighting \/ SendLightingTest

\* Each begins one operation.
LEMMA PressBegins ==
  ASSUME Presses
  PROVE  \E op \in Operations : Begin(op)
BY DEF Presses, Operations, Writing, Probes, SaveGeneralSettings, SaveMidiSettings, SelectMidi,
       SavePlanningCenter, SignInOAuth, DisconnectOAuth, SaveProPresenter, SaveLighting,
       SaveArrangement, SelectSource, LoadSettings, TestPlanningCenter, LoadServiceTypes,
       TestProPresenter, RefreshProPresenter, RefreshMidi, RefreshLighting, SendLightingTest

\* The two chains are made of their parts.
LEMMA ChainParts ==
  /\ \A left \in SaveSteps : left \in Seq(Operations) /\ \A i \in DOMAIN left : left[i] \in PartsOf("save")
  /\ LET left == <<"refreshMidi", "presentation", "lights", "services">>
     IN  left \in Seq(Operations) /\ \A i \in DOMAIN left : left[i] \in PartsOf("activate")
BY DEF SaveSteps, PartsOf, Operations, Writing, Probes

\* Every step of the settings keeps the invariant.
LEMMA SettingsStep ==
  ASSUME SettingsInv, [SettingsNext]_deskSettingsVars
  PROVE  SettingsInv'
<1>1. CASE Presses
  BY <1>1, PressBegins, BeginStep
<1>2. CASE PressSave
  BY <1>2, ChainParts, BeginChainStep DEF PressSave
<1>3. CASE Activate
  BY <1>3, ChainParts, BeginChainStep DEF Activate
<1>4. CASE Continue \/ ChainEnds
  BY <1>4, ContinueStep
<1>5. CASE \E o \in running : Serves(o)
  BY <1>5, ServesStep
<1>6. CASE \E o \in running : Answers(o)
  BY <1>6, AnswersStep
<1>7. CASE \E o \in running : CallFails(o)
  BY <1>7, CallFailsStep
<1>8. CASE UNCHANGED deskSettingsVars
  BY <1>8 DEF deskSettingsVars, SettingsInv, SettingsTypeOK, OneAtATime, BasisInv, ChainInv, HeldInv
<1>9. QED
  BY <1>1, <1>2, <1>3, <1>4, <1>5, <1>6, <1>7, <1>8 DEF SettingsNext, Presses

\* For any number of saves: as long as operations do not overlap and every answer comes, what
\* a save writes over a section it does not edit is never older than what is there.
THEOREM SavesPutNothingBack == SettingsSpec => NothingIsPutBack
<1>1. SettingsInit => SettingsInv
  <2>1. SUFFICES ASSUME SettingsInit PROVE SettingsInv
    OBVIOUS
  <2>2. SettingsTypeOK
    BY <2>1 DEF SettingsInit, SettingsTypeOK, NoChain, Settings
  <2>3. OneAtATime /\ BasisInv /\ ChainInv /\ HeldInv
    BY <2>1 DEF SettingsInit, OneAtATime, BasisInv, ChainInv, HeldInv, NoChain, Refreshed
  <2>4. QED
    BY <2>2, <2>3 DEF SettingsInv
<1>2. SettingsInv /\ [SettingsNext]_deskSettingsVars => SettingsInv'
  BY SettingsStep
<1>3. SettingsInv /\ [SettingsNext]_deskSettingsVars =>
        [apart' => \A s \in Refreshed : kept'[s] >= kept[s]]_deskSettingsVars
  <2> SUFFICES ASSUME SettingsInv, SettingsNext, apart'
               PROVE  \A s \in Refreshed : kept'[s] >= kept[s]
    OBVIOUS
  <2>1. CASE \E o \in running : Serves(o)
    BY <2>1, ServedIsNewer DEF Serves
  <2>2. CASE ~\E o \in running : Serves(o)
    <3>1. kept' = kept
      <4>1. CASE Presses
        BY <4>1, PressBegins DEF Begin
      <4>2. CASE PressSave \/ Activate
        BY <4>2 DEF PressSave, Activate, BeginChain
      <4>3. CASE Continue \/ ChainEnds
        BY <4>3 DEF Continue, ChainEnds
      <4>4. CASE \E o \in running : Answers(o) \/ CallFails(o)
        BY <4>4 DEF Answers, CallFails
      <4>5. QED
        BY <2>2, <4>1, <4>2, <4>3, <4>4 DEF SettingsNext, Presses
    <3>2. \A s \in Refreshed : kept[s] \in Nat
      BY DEF SettingsInv, SettingsTypeOK, Settings, Refreshed
    <3>3. QED
      BY <3>1, <3>2
  <2>3. QED
    BY <2>1, <2>2
<1>4. QED
  BY <1>1, <1>2, <1>3, PTL DEF SettingsSpec, NothingIsPutBack

-----------------------------------------------------------------------------
(* The widgets and their saved layout (LayoutGrid).                         *)

\* What is saved is the layout; its mobile list always has every widget, and so has the list
\* of an earlier version, if it is taken.
LayoutInv ==
    /\ layout = [desktop |-> layout.desktop, mobile |-> layout.mobile, hidden |-> layout.hidden]
    /\ Complete(layout.mobile) /\ layout.mobile \in Seq(Widgets)
    /\ layoutStore # <<>> => layoutStore = <<layout>>

\* The usual order has every widget once.
LEMMA UsualIsComplete == Complete(Usual) /\ Usual \in Seq(Widgets)
<1> DEFINE n == Cardinality(Widgets)
<1>1. n \in Nat /\ IsFiniteSet(Widgets) /\ ExistsBijection(1..n, Widgets)
  BY LayoutAssumption, FS_CardinalityType
<1>2. Orders = {f \in [1..n -> Widgets] : \A i, j \in 1..n : i # j => f[i] # f[j]}
  BY DEF Orders, SetToSeqs
<1>3. Orders = Injection(1..n, Widgets)
  BY <1>2 DEF Injection, IsInjective
<1>4. \E f : f \in Orders
  BY <1>1, <1>3 DEF ExistsBijection, Bijection
<1>5. Usual \in Orders
  BY <1>4 DEF Usual
<1>6. IsFiniteSet(1..n) /\ Cardinality(1..n) = n
  BY <1>1, FS_Interval
<1>7. Usual \in Surjection(1..n, Widgets)
  BY <1>1, <1>3, <1>5, <1>6, FS_Injection
<1>8. Usual \in [1..n -> Widgets] /\ \A w \in Widgets : \E i \in 1..n : Usual[i] = w
  BY <1>7 DEF Surjection
<1> HIDE DEF n
<1>9. Usual \in Seq(Widgets) /\ Len(Usual) = n /\ DOMAIN Usual = 1..n
  BY <1>1, <1>8
<1>10. ToSet(Usual) = Widgets
  BY <1>8, <1>9 DEF ToSet
<1>11. QED
  BY <1>9, <1>10 DEF Complete, n

\* A layout whose desktop list alone is another one.
LEMMA DesktopChanges ==
  ASSUME LayoutInv, NEW d, Commit([layout EXCEPT !.desktop = d])
  PROVE  LayoutInv'
<1>1. /\ layout' = [desktop |-> d, mobile |-> layout.mobile, hidden |-> layout.hidden]
      /\ layoutStore' = <<layout'>>
  BY DEF Commit, LayoutInv
<1>2. QED
  BY <1>1 DEF LayoutInv, Complete, ToSet

\* Two places of a list are swapped.
LEMMA SwappedIsComplete ==
  ASSUME NEW order \in Seq(Widgets), Complete(order), NEW i \in 1..Len(order), NEW j \in 1..Len(order)
  PROVE  Complete(Swapped(order, i, j)) /\ Swapped(order, i, j) \in Seq(Widgets)
<1> DEFINE new == Swapped(order, i, j)
<1>1. /\ DOMAIN order = 1..Len(order) /\ Len(order) \in Nat
      /\ order \in [1..Len(order) -> Widgets]
  OBVIOUS
<1>2. new \in [1..Len(order) -> Widgets]
  BY <1>1 DEF Swapped
<1>3. new \in Seq(Widgets) /\ Len(new) = Len(order) /\ DOMAIN new = 1..Len(order)
  <2> HIDE DEF new
  <2> QED
    BY <1>1, <1>2
<1>4. \A k \in 1..Len(order) : \E l \in 1..Len(order) : new[l] = order[k]
  <2>1. new[i] = order[j] /\ new[j] = order[i]
    BY <1>1 DEF Swapped
  <2>2. \A k \in 1..Len(order) : k # i /\ k # j => new[k] = order[k]
    BY <1>1 DEF Swapped
  <2>3. QED
    BY <2>1, <2>2
<1>5. ToSet(new) = Widgets
  <2>1. ToSet(order) = Widgets
    BY DEF Complete
  <2> HIDE DEF new
  <2>2. \A w \in Widgets : \E l \in 1..Len(order) : new[l] = w
    BY <1>1, <1>4, <2>1 DEF ToSet
  <2>3. ToSet(new) = {new[l] : l \in 1..Len(order)}
    BY <1>3 DEF ToSet
  <2>4. QED
    BY <1>2, <2>2, <2>3
<1>6. QED
  BY <1>3, <1>5 DEF Complete

\* Move earlier, Move later.
LEMMA MoveItemStep ==
  ASSUME LayoutInv, NEW id \in Widgets, NEW offset \in {0 - 1, 1}, MoveItem(id, offset)
  PROVE  LayoutInv'
<1>1. CASE mode = "mobile"
  <2>1. PICK j \in Neighbour(layout.mobile, id, offset) :
            Commit([layout EXCEPT !.mobile = Swapped(layout.mobile, j - offset, j)])
    BY <1>1, Zenon DEF MoveItem
  <2> DEFINE new == Swapped(layout.mobile, j - offset, j)
  <2>2. j \in 1..Len(layout.mobile) /\ j - offset \in 1..Len(layout.mobile)
    BY <2>1 DEF Neighbour
  <2>3. Complete(new) /\ new \in Seq(Widgets)
    BY <2>2, SwappedIsComplete DEF LayoutInv
  <2> HIDE DEF new
  <2>4. Commit([layout EXCEPT !.mobile = new])
    BY <2>1, Zenon DEF new
  <2>5. /\ layout' = [desktop |-> layout.desktop, mobile |-> new, hidden |-> layout.hidden]
        /\ layoutStore' = <<layout'>>
    BY <2>4 DEF Commit, LayoutInv
  <2>6. QED
    BY <2>3, <2>5 DEF LayoutInv, Complete, ToSet
<1>2. CASE mode # "mobile"
  <2>1. \E d : Commit([layout EXCEPT !.desktop = d])
    BY <1>2, Zenon DEF MoveItem
  <2>2. QED
    BY <2>1, DesktopChanges
<1>3. QED
  BY <1>1, <1>2

\* What is loaded has a mobile list that is whole.
LEMMA LoadStep ==
  ASSUME LayoutInv, v1Order \in Seq(Widgets), Load
  PROVE  LayoutInv'
<1>1. layout' = Loaded /\ layoutStore' = <<Loaded>>
  BY DEF Load
<1> DEFINE Shaped(l) == l = [desktop |-> l.desktop, mobile |-> l.mobile, hidden |-> l.hidden]
           Sound(l) == Shaped(l) /\ Complete(l.mobile) /\ l.mobile \in Seq(Widgets)
<1>2. Sound(Loaded)
  <2>1. CASE layoutStore # <<>> /\ Parses(layoutStore[1])
    <3>1. layoutStore[1] = layout /\ Loaded = layoutStore[1]
      BY <2>1 DEF LayoutInv, Loaded
    <3>2. Loaded = layout
      BY <3>1
    <3>3. QED
      BY <3>2 DEF LayoutInv
  <2>2. CASE ~(layoutStore # <<>> /\ Parses(layoutStore[1])) /\ v1Order # <<>> /\ Complete(v1Order)
    <3>1. Loaded = [desktop |-> v1Order, mobile |-> v1Order, hidden |-> FALSE]
      BY <2>2, Zenon DEF Loaded
    <3>2. QED
      BY <2>2, <3>1
  <2>3. CASE ~(layoutStore # <<>> /\ Parses(layoutStore[1])) /\ ~(v1Order # <<>> /\ Complete(v1Order))
    <3>1. Loaded = [desktop |-> Usual, mobile |-> Usual, hidden |-> FALSE]
      BY <2>3, Zenon DEF Loaded, DefaultLayout
    <3>2. QED
      BY <3>1, UsualIsComplete
  <2>4. QED
    BY <2>1, <2>2, <2>3
<1>3. Sound(layout') /\ layoutStore' = <<layout'>>
  <2> HIDE DEF Sound
  <2> QED
    BY <1>1, <1>2
<1>4. QED
  BY <1>3 DEF LayoutInv, Complete, ToSet

\* Every step of the layout keeps the invariant.
LEMMA LayoutStep ==
  ASSUME LayoutInv, v1Order \in Seq(Widgets), [LayoutNext]_layoutVars
  PROVE  LayoutInv' /\ v1Order' \in Seq(Widgets)
<1>1. v1Order' = v1Order
  BY Zenon DEF LayoutNext, Load, Close, Fit, Compact, Drag, MoveItem, ResetLayout,
     ToggleEventsHidden, Edit, Resize, RoleChanges, Commit, layoutVars
<1> SUFFICES LayoutInv'
  BY <1>1
<1>2. CASE Load
  BY <1>2, LoadStep
<1>3. CASE Fit
  <2>1. (\E d : Commit([layout EXCEPT !.desktop = d])) \/ Commit(layout)
    BY <1>3, Zenon DEF Fit
  <2>2. Commit(layout) => LayoutInv'
    BY DEF Commit, LayoutInv, Complete, ToSet
  <2>3. QED
    BY <2>1, <2>2, DesktopChanges
<1>4. CASE Compact \/ Drag
  <2>1. \E d : Commit([layout EXCEPT !.desktop = d])
    BY <1>4, Zenon DEF Compact, Drag
  <2>2. QED
    BY <2>1, DesktopChanges
<1>5. CASE \E id \in Widgets, offset \in {0 - 1, 1} : MoveItem(id, offset)
  BY <1>5, MoveItemStep
<1>6. CASE ResetLayout
  <2>1. layout' = [desktop |-> Usual, mobile |-> Usual, hidden |-> FALSE] /\ layoutStore' = <<layout'>>
    BY <1>6 DEF ResetLayout, Commit, DefaultLayout
  <2>2. QED
    BY <2>1, UsualIsComplete DEF LayoutInv, Complete, ToSet
<1>7. CASE ToggleEventsHidden
  <2>1. /\ layout' = [desktop |-> layout.desktop, mobile |-> layout.mobile, hidden |-> ~layout.hidden]
        /\ layoutStore' = <<layout'>>
    BY <1>7 DEF ToggleEventsHidden, Commit, LayoutInv
  <2>2. QED
    BY <2>1 DEF LayoutInv, Complete, ToSet
<1>8. CASE Close \/ Edit \/ Resize \/ RoleChanges \/ UNCHANGED layoutVars
  <2>1. layout' = layout /\ layoutStore' = layoutStore
    BY <1>8 DEF Close, Edit, Resize, RoleChanges, layoutVars
  <2>2. QED
    BY <2>1 DEF LayoutInv, Complete, ToSet
<1>9. QED
  BY <1>2, <1>3, <1>4, <1>5, <1>6, <1>7, <1>8, Zenon DEF LayoutNext

\* For any widgets: a layout whose desktop list is whole comes back as it was left
\* (dashboardLayoutStorage.ts).
THEOREM LayoutComesBack == LayoutSpec => WholeLayoutSurvives
<1> DEFINE Inv == LayoutInv /\ v1Order \in Seq(Widgets)
<1>1. LayoutInit => Inv
  <2>1. SUFFICES ASSUME LayoutInit PROVE Inv
    OBVIOUS
  <2>2. /\ layout = [desktop |-> Usual, mobile |-> Usual, hidden |-> FALSE] /\ layoutStore = <<>>
        /\ v1Order \in {<<>>, Reverse(Usual), Tail(Usual)}
    BY <2>1, Zenon DEF LayoutInit, DefaultLayout
  <2>3. Reverse(Usual) \in Seq(Widgets)
    BY UsualIsComplete DEF Reverse
  <2>4. Tail(Usual) \in Seq(Widgets)
    <3>1. Widgets # {} /\ Usual # <<>>
      BY UsualIsComplete, LayoutAssumption DEF Complete, ToSet
    <3>2. QED
      BY <3>1, UsualIsComplete
  <2>5. v1Order \in Seq(Widgets)
    <3>1. <<>> \in Seq(Widgets)
      OBVIOUS
    <3>2. QED
      BY <2>2, <2>3, <2>4, <3>1, Zenon
  <2>6. LayoutInv
    BY <2>2, UsualIsComplete DEF LayoutInv
  <2>7. QED
    BY <2>5, <2>6
<1>2. Inv /\ [LayoutNext]_layoutVars => Inv'
  BY LayoutStep
<1>3. Inv /\ [LayoutNext]_layoutVars =>
        [~open /\ open' /\ layoutStore # <<>> /\ Complete(layout.desktop) => layout' = layout]_layoutVars
  <2>1. SUFFICES ASSUME Inv, LayoutNext, ~open, open', layoutStore # <<>>, Complete(layout.desktop)
                 PROVE  layout' = layout
    OBVIOUS
  <2>2. Load
    BY <2>1, Zenon DEF LayoutNext, Close, Fit, Compact, Drag, MoveItem, ResetLayout,
       ToggleEventsHidden, Edit, Resize, RoleChanges
  <2>3. layoutStore[1] = layout
    BY <2>1 DEF LayoutInv
  <2>4. Parses(layoutStore[1])
    BY <2>1, <2>3 DEF LayoutInv, Parses
  <2>5. QED
    BY <2>1, <2>2, <2>3, <2>4 DEF Load, Loaded
<1>4. QED
  BY <1>1, <1>2, <1>3, PTL DEF LayoutSpec, WholeLayoutSurvives

-----------------------------------------------------------------------------
(* The pill and the checklist (Readiness).                                  *)

\* The pill asks for more than the checklist.
LEMMA PillAsksMore == PillMeansReady
<1>1. SUFFICES ASSUME Pill
               PROVE  /\ ChecklistReady /\ ServicesSaved /\ PresentationSaved
                      /\ configured.midi # "simulated"
  BY Zenon DEF PillMeansReady
<1>2. /\ Known /\ configured.services = "real" /\ configured.credentials /\ snapshot.services
      /\ snapshot.loaded /\ snapshot.plan = "good" /\ Playback /\ HasTimer /\ snapshot.timer
      /\ presentation = TRUE /\ link /\ NoOrderNotice
  BY <1>1, Zenon DEF Pill, Services, PlanReady, DurationReady, Presents, TimerFound
<1>3. /\ configured.midi # "simulated"
      /\ IF playbackInfo # Unread THEN playbackInfo.connected
         ELSE snapshot.midi /\ (configured.midi = "api" \/ configured.input)
  BY <1>2, Zenon DEF Playback
<1>4. ~OrderNotice
  BY <1>2, <1>3, Zenon DEF NoOrderNotice
<1>5. ConnectionsComplete
  BY <1>2, <1>3, Zenon DEF ConnectionsComplete
<1>6. ServicesSaved /\ PresentationSaved
  BY <1>2, Zenon DEF ServicesSaved, PresentationSaved, HasTimer
<1>7. ChecklistReady
  BY <1>2, <1>4, <1>5, Zenon DEF ChecklistReady
<1>8. QED
  BY <1>3, <1>6, <1>7

-----------------------------------------------------------------------------
(* What opens under the pointer (Popovers).                                 *)

\* A row's timer runs only under the pointer, and so does the card's, or under the focus;
\* while the pointer is over a row the count tells, if no row was lost.
PopoversInv ==
    /\ pointer \in NoteRows \cup {Card, Nowhere}
    /\ warmup = [count |-> warmup.count, warm |-> warmup.warm, leaving |-> warmup.leaving]
    /\ warmup.count \in Nat /\ warmup.warm \in BOOLEAN /\ warmup.leaving \in BOOLEAN
    /\ lost \in BOOLEAN /\ visible \subseteq NoteRows /\ warming \subseteq NoteRows
    /\ \A r \in warming : pointer = r
    /\ ~lost /\ pointer \notin NoteRows => warmup.count = 0
    /\ ~lost /\ pointer \in NoteRows => warmup.count <= 1
    /\ OpensUnderPointer

\* The pointer and the timers of a row.
LEMMA RowPointerStep ==
  ASSUME PopoversInv, NEW r \in NoteRows, EnterRow(r) \/ WarmedUp(r) \/ LeaveRow(r) \/ Unmount(r)
  PROVE  PopoversInv'
<1>1. CASE EnterRow(r)
  <2>1. /\ pointer = Nowhere /\ pointer' = r /\ pointer \notin NoteRows /\ warming = {}
        /\ UNCHANGED <<pinned, lost, cardOpen, cardTimer, cardFocus>>
    BY <1>1, PopoverAssumption DEF EnterRow, PopoversInv, cardVars
  <2>2. /\ warmup' = warmup \/ warmup' = [count |-> warmup.count + 1, warm |-> warmup.warm, leaving |-> FALSE]
        /\ visible' \subseteq visible \cup {r} /\ warming' \subseteq {r}
    BY <1>1, <2>1 DEF EnterRow, PopoversInv
  <2>3. /\ warmup' = [count |-> warmup'.count, warm |-> warmup'.warm, leaving |-> warmup'.leaving]
        /\ warmup'.count \in Nat /\ warmup'.warm \in BOOLEAN /\ warmup'.leaving \in BOOLEAN
        /\ warmup'.count <= warmup.count + 1
    <3>1. CASE warmup' = warmup
      BY <3>1 DEF PopoversInv
    <3>2. CASE warmup' = [count |-> warmup.count + 1, warm |-> warmup.warm, leaving |-> FALSE]
      BY <3>2 DEF PopoversInv
    <3>3. QED
      BY <2>2, <3>1, <3>2
  <2>4. ~lost => warmup'.count <= 1
    BY <2>1, <2>3 DEF PopoversInv
  <2>5. OpensUnderPointer'
    BY <2>1, <2>2, PopoverAssumption DEF PopoversInv, OpensUnderPointer
  <2>6. QED
    BY <2>1, <2>2, <2>3, <2>4, <2>5, PopoverAssumption DEF PopoversInv
<1>2. CASE WarmedUp(r)
  BY <1>2, PopoverAssumption DEF WarmedUp, PopoversInv, OpensUnderPointer, cardVars
<1>3. CASE LeaveRow(r)
  <2>1. /\ pointer = r /\ pointer' = Nowhere /\ pointer' \notin NoteRows /\ warming' = {}
        /\ visible' = visible \ {r} /\ UNCHANGED <<pinned, lost, cardOpen, cardTimer, cardFocus>>
    BY <1>3, PopoverAssumption DEF LeaveRow, PopoversInv, cardVars
  <2> DEFINE leaves == warmup.leaving \/ warmup.count <= 1
  <2>2. warmup' = [count |-> Less(warmup.count), warm |-> warmup.warm, leaving |-> leaves]
    BY <1>3 DEF LeaveRow, PopoversInv
  <2>3. /\ Less(warmup.count) \in Nat /\ leaves \in BOOLEAN
        /\ ~lost => Less(warmup.count) = 0 /\ leaves
    BY <2>1 DEF Less, PopoversInv
  <2> HIDE DEF leaves
  <2>4. /\ warmup' = [count |-> warmup'.count, warm |-> warmup'.warm, leaving |-> warmup'.leaving]
        /\ warmup'.count \in Nat /\ warmup'.warm \in BOOLEAN /\ warmup'.leaving \in BOOLEAN
        /\ ~lost => warmup'.count = 0 /\ warmup'.leaving
    BY <2>2, <2>3 DEF PopoversInv
  <2>5. OpensUnderPointer'
    BY <2>1, <2>4, PopoverAssumption DEF PopoversInv, OpensUnderPointer
  <2>6. QED
    BY <2>1, <2>4, <2>5, PopoverAssumption DEF PopoversInv
<1>4. CASE Unmount(r)
  BY <1>4, PopoverAssumption DEF Unmount, PopoversInv, OpensUnderPointer, cardVars
<1>5. QED
  BY <1>1, <1>2, <1>3, <1>4

\* The leave timer, the taps and the plan.
LEMMA NoteStep ==
  ASSUME PopoversInv,
         LeaveTimer \/ TapElsewhere \/ \E r \in NoteRows : Tap(r) \/ NoteChanges(r)
  PROVE  PopoversInv'
<1>1. CASE LeaveTimer
  <2> DEFINE stays == warmup.warm /\ warmup.count > 0
  <2>1. /\ UNCHANGED <<pointer, visible, pinned, warming, lost, cardOpen, cardTimer, cardFocus>>
        /\ warmup' = [count |-> warmup.count, warm |-> stays, leaving |-> FALSE]
    BY <1>1 DEF LeaveTimer, PopoversInv, cardVars
  <2>2. stays \in BOOLEAN /\ (warmup.count = 0 => ~stays)
    BY DEF PopoversInv
  <2> HIDE DEF stays
  <2>3. OpensUnderPointer'
    BY <2>1, <2>2 DEF PopoversInv, OpensUnderPointer
  <2>4. QED
    BY <2>1, <2>2, <2>3 DEF PopoversInv
<1>2. CASE TapElsewhere
  BY <1>2, PopoverAssumption DEF TapElsewhere, PopoversInv, OpensUnderPointer, cardVars
<1>3. ASSUME NEW r \in NoteRows, Tap(r) PROVE PopoversInv'
  BY <1>3, PopoverAssumption DEF Tap, TouchOutside, PopoversInv, OpensUnderPointer, cardVars
<1>4. ASSUME NEW r \in NoteRows, NoteChanges(r) PROVE PopoversInv'
  BY <1>4, PopoverAssumption DEF NoteChanges, PopoversInv, OpensUnderPointer, cardVars
<1>5. QED
  BY <1>1, <1>2, <1>3, <1>4

\* The card.
LEMMA CardStep ==
  ASSUME PopoversInv,
         EnterCard \/ CardRested \/ LeaveCard \/ FocusCard \/ ClickCard \/ BlurCard
  PROVE  PopoversInv'
<1>1. UNCHANGED <<visible, pinned, warming, warmup, lost>>
  BY DEF EnterCard, CardRested, LeaveCard, FocusCard, ClickCard, BlurCard, rowNoteVars
<1>2. /\ pointer' \in {pointer, Card, Nowhere}
      /\ pointer' # pointer => pointer \in {Card, Nowhere} /\ pointer' \in {Card, Nowhere}
  BY DEF EnterCard, CardRested, LeaveCard, FocusCard, ClickCard, BlurCard
<1>3. cardOpen' \/ cardTimer' => pointer' = Card \/ cardFocus'
  BY PopoverAssumption DEF EnterCard, CardRested, LeaveCard, FocusCard, ClickCard, BlurCard,
     PopoversInv, OpensUnderPointer
<1>4. pointer' # pointer => pointer \notin NoteRows /\ pointer' \notin NoteRows
  BY <1>2, PopoverAssumption
<1>5. OpensUnderPointer'
  <2>1. \A r \in visible : pointer' = r \/ r \in pinned
    <3>1. SUFFICES ASSUME NEW r \in visible, r \notin pinned PROVE pointer' = r
      OBVIOUS
    <3>2. pointer = r
      BY <3>1 DEF PopoversInv, OpensUnderPointer
    <3>3. pointer = r => ~EnterCard /\ ~LeaveCard
      <4>1. r \in NoteRows
        BY <3>1 DEF PopoversInv
      <4>2. QED
        BY <4>1, PopoverAssumption DEF EnterCard, LeaveCard
    <3>4. QED
      BY <3>2, <3>3 DEF CardRested, FocusCard, ClickCard, BlurCard
  <2>2. QED
    BY <1>1, <1>3, <1>4, <2>1 DEF PopoversInv, OpensUnderPointer
<1>6. pointer' = pointer \/ (pointer \notin NoteRows /\ pointer' \notin NoteRows /\ warming = {})
  <2>1. pointer' # pointer => warming = {}
    BY <1>4 DEF PopoversInv
  <2>2. QED
    BY <1>4, <2>1
<1>7. pointer' \in NoteRows \cup {Card, Nowhere}
  BY <1>2 DEF PopoversInv
<1>8. QED
  BY <1>1, <1>5, <1>6, <1>7 DEF PopoversInv

\* Every step keeps it.
LEMMA PopoversStep ==
  ASSUME PopoversInv, [PopoversNext]_popoverVars
  PROVE  PopoversInv'
<1>1. CASE UNCHANGED popoverVars
  BY <1>1 DEF popoverVars, rowNoteVars, cardVars, PopoversInv, OpensUnderPointer
<1>2. QED
  BY <1>1, RowPointerStep, NoteStep, CardStep DEF PopoversNext

\* At first nothing is shown, and nothing points anywhere.
LEMMA PopoversStart ==
  ASSUME PopoversInit
  PROVE  PopoversInv
BY PopoverAssumption DEF PopoversInit, PopoversInv, OpensUnderPointer

-----------------------------------------------------------------------------
(* The login of the cue tool (CueLogin).                                    *)

Configs == [client : Clients \cup {Nobody}, organization : Organizations \cup {Nobody}]
LoginTypeOK ==
    /\ vault \in [Clients \X (Organizations \cup {Nobody}) -> Accounts \cup {Nobody}]
    /\ chosen \in Configs /\ switched \in BOOLEAN /\ removed \in BOOLEAN
    /\ command \in [at : {"none", "browser", "client", "organizations", "reported", "assign",
                          "release", "choose", "logout"},
                    config : Configs, account : Accounts \cup {Nobody},
                    organization : Organizations \cup {Nobody}]

\* As long as the client stays the same: the configuration and the command's copy of it name
\* that client; a chosen organization means that no login waits to be given one; and from the
\* browser to the report, the account of the command is in the slot that it goes by.
LoginIsKept ==
    /\ Client(chosen) = DefaultClient
    /\ command.at # "none" => Client(command.config) = DefaultClient
    /\ ~removed /\ chosen.organization # Nobody => vault[Slot(chosen)] # Nobody
    /\ chosen.organization # Nobody => vault[<<DefaultClient, Nobody>>] = Nobody
    /\ command.at \in {"browser", "client", "organizations", "assign", "release", "choose",
                       "logout"} =>
          command.config.organization = chosen.organization
    /\ command.at \in {"client", "organizations", "assign", "release", "choose", "reported"} =>
          command.account \in Accounts
    /\ command.at \in {"client", "organizations", "reported"} =>
          vault[Slot(chosen)] = command.account
    /\ command.at \in {"assign", "release", "choose"} =>
          command.organization \in Organizations /\ chosen.organization = Nobody
    /\ command.at = "assign" => vault[<<DefaultClient, Nobody>>] = command.account
    /\ command.at \in {"release", "choose"} =>
          vault[<<DefaultClient, command.organization>>] = command.account
    /\ command.at = "choose" => vault[<<DefaultClient, Nobody>>] = Nobody
    /\ command.at = "logout" => removed

LoginInv == LoginTypeOK /\ (~switched => LoginIsKept)

\* The slot of a configuration, and of one with an organization.
LEMMA Slots ==
  /\ \A c \in Configs : Client(c) \in Clients /\ Slot(c) \in Clients \X (Organizations \cup {Nobody})
  /\ \A c \in Configs : c.organization \in Organizations \cup {Nobody}
BY LoginAssumption DEF Configs, Client, Slot

\* A login.
LEMMA LoginCommandStep ==
  ASSUME LoginInv,
         \/ Login \/ SaveClient \/ NoOrganizations \/ (\E account \in Accounts : Authorize(account))
         \/ (\E organization \in Organizations : Select(organization))
         \/ Assign \/ Release \/ SaveOrganization
  PROVE  LoginInv'
<1>1. CASE Login
  BY <1>1 DEF Login, LoginInv, LoginTypeOK, LoginIsKept, Quiet, Configs, Client, Slot
<1>2. ASSUME NEW account \in Accounts, Authorize(account) PROVE LoginInv'
  BY <1>2, Slots, LoginAssumption
     DEF Authorize, LoginInv, LoginTypeOK, LoginIsKept, Configs, Client, Slot
<1>3. CASE SaveClient
  BY <1>3, Slots, LoginAssumption
     DEF SaveClient, LoginInv, LoginTypeOK, LoginIsKept, Configs, Client, Slot
<1>4. CASE NoOrganizations
  BY <1>4 DEF NoOrganizations, LoginInv, LoginTypeOK, LoginIsKept, Configs, Client, Slot
<1>5. ASSUME NEW organization \in Organizations, Select(organization) PROVE LoginInv'
  BY <1>5, LoginAssumption
     DEF Select, Unassigned, Quiet, LoginInv, LoginTypeOK, LoginIsKept, Configs, Client, Slot
<1>6. CASE Assign
  BY <1>6, LoginAssumption
     DEF Assign, Selected, Unassigned, LoginInv, LoginTypeOK, LoginIsKept, Configs, Client, Slot
<1>7. CASE Release
  BY <1>7, LoginAssumption
     DEF Release, Unassigned, LoginInv, LoginTypeOK, LoginIsKept, Configs, Client, Slot
<1>8. CASE SaveOrganization
  BY <1>8, LoginAssumption
     DEF SaveOrganization, Selected, LoginInv, LoginTypeOK, LoginIsKept, Configs, Client, Slot
<1>9. QED
  BY <1>1, <1>2, <1>3, <1>4, <1>5, <1>6, <1>7, <1>8

\* The rest.
LEMMA OtherLoginStep ==
  ASSUME LoginInv,
         \/ Logout \/ SaveLogout \/ LoginEnds \/ (\E client \in Clients : Configure(client))
         \/ UNCHANGED loginVars
  PROVE  LoginInv'
<1>1. CASE Logout
  BY <1>1, Slots, LoginAssumption DEF Logout, Quiet, LoginInv, LoginTypeOK, LoginIsKept, Configs, Client, Slot
<1>2. CASE SaveLogout
  BY <1>2, LoginAssumption DEF SaveLogout, Quiet, LoginInv, LoginTypeOK, LoginIsKept, Configs, Client, Slot
<1>3. CASE LoginEnds
  BY <1>3, LoginAssumption DEF LoginEnds, Quiet, LoginInv, LoginTypeOK, LoginIsKept, Configs
<1>4. ASSUME NEW client \in Clients, Configure(client) PROVE LoginInv'
  BY <1>4, LoginAssumption DEF Configure, Quiet, LoginInv, LoginTypeOK, LoginIsKept, Configs, Client, Slot
<1>5. CASE UNCHANGED loginVars
  BY <1>5 DEF loginVars, LoginInv, LoginTypeOK, LoginIsKept
<1>6. QED
  BY <1>1, <1>2, <1>3, <1>4, <1>5

\* Every step keeps it.
LEMMA LoginStep ==
  ASSUME LoginInv, [LoginNext]_loginVars
  PROVE  LoginInv'
BY LoginCommandStep, OtherLoginStep DEF LoginNext

\* At first no tokens are kept.
LEMMA LoginStart ==
  ASSUME LoginInit
  PROVE  LoginInv
BY LoginAssumption DEF LoginInit, Quiet, LoginInv, LoginTypeOK, LoginIsKept, Configs, Client

\* What the tool promises of a login follows.
LEMMA LoginInvSuffices ==
  ASSUME LoginInv
  PROVE  LoginHolds
BY DEF LoginInv, LoginIsKept, LoginHolds

-----------------------------------------------------------------------------
(* A question to ChatGPT (ChatSession).                                     *)

Turn == [question : Nat, begun : BOOLEAN, length : Nat, whole : BOOLEAN]
Steps == {"none", "open", "forget", "return", "send", "keep", "look", "read", "take"}
ChatTypeOK ==
    /\ talk \in [Talks -> Seq(Turn)] /\ asks \in Nat /\ late \in BOOLEAN
    /\ page \in [at : Talks \cup {Home}, url : Talks \cup {Home}, turns : Nat]
    /\ process \in [at : Steps, asks : Nat]
    /\ reading \in [copy : BOOLEAN, thinking : BOOLEAN, length : Nat, stable : Nat,
                    polled : BOOLEAN, sure : BOOLEAN]
    /\ disk \in Talks \cup {Home} /\ mem \in Talks \cup {Home}

\* An answer is whole only if there is one.
TalkInv == \A c \in Talks : \A i \in 1..Len(talk[c]) : talk[c][i].whole => talk[c][i].length > 0

\* The page shows no more turns than there are.
PageInv == page.turns <= Turns

\* The question of the command is the last one asked, and from the sending on the last turn of
\* the page's conversation.
Asked == page.at # Home /\ Turns > 0 /\ talk[page.at][Turns].question = asks
CommandInv ==
    /\ At("open") /\ process.asks # 0 => process.asks = asks
    /\ At("return") \/ At("send") => process.asks = asks
    /\ At("keep") \/ At("look") \/ At("read") \/ At("take") => Asked

\* What the poll has read twice was the last turn, unless the question came late; and an
\* answer that is surely complete is whole.
LastIsWhole == talk[page.at][Turns].whole
PollInv ==
    /\ reading.length > 0 => reading.polled
    /\ At("read") /\ reading.polled /\ ~late => page.turns = Turns
    /\ At("read") /\ reading.polled /\ ~late /\ reading.copy => LastIsWhole
    /\ At("take") /\ ~late => page.turns = Turns
    /\ At("take") /\ ~late /\ reading.sure => LastIsWhole

ChatInv == ChatTypeOK /\ TalkInv /\ PageInv /\ CommandInv /\ PollInv /\ AnswerIsWhole

\* The turns of the page's conversation.
LEMMA TurnsType ==
  ASSUME ChatTypeOK
  PROVE  /\ Turns \in Nat /\ (page.at = Home => Turns = 0)
         /\ page.at # Home => page.at \in Talks /\ talk[page.at] \in Seq(Turn) /\ Turns = Len(talk[page.at])
         /\ \A i \in 1..Turns : talk[page.at][i] \in Turn
<1>1. page.at # Home => page.at \in Talks /\ talk[page.at] \in Seq(Turn) /\ Turns = Len(talk[page.at])
  BY DEF ChatTypeOK, Turns
<1>2. page.at = Home => Turns = 0
  BY DEF Turns
<1>3. QED
  BY <1>1, <1>2

\* A page that is opened shows nothing or every turn.
LEMMA VisitedPage ==
  ASSUME ChatTypeOK, NEW id \in Talks \cup {Home}, Visit(id), talk' = talk
  PROVE  /\ page' \in [at : Talks \cup {Home}, url : Talks \cup {Home}, turns : Nat]
         /\ PageInv'
<1>1. CASE id = Home \/ talk[id] = <<>>
  BY <1>1 DEF Visit, Closed, PageInv, Turns
<1>2. CASE ~(id = Home \/ talk[id] = <<>>)
  <2>1. PICK n \in {0, Len(talk[id])} : page' = [at |-> id, url |-> id, turns |-> n]
    BY <1>2 DEF Visit
  <2>2. talk[id] \in Seq(Turn) /\ id \in Talks
    BY <1>2 DEF ChatTypeOK
  <2>3. QED
    BY <1>2, <2>1, <2>2 DEF PageInv, Turns
<1>3. QED
  BY <1>1, <1>2

\* The page's own steps leave the command alone.
LEMMA PageShowsStep ==
  ASSUME ChatInv, PageShows
  PROVE  ChatInv'
<1>1. /\ page' = [at |-> page.at, url |-> page.url, turns |-> Turns]
      /\ UNCHANGED <<talk, disk, mem, process, reading, printed, asks, late>>
  BY DEF PageShows, Changes, ChatInv, ChatTypeOK
<1>2. Turns' = Turns /\ page'.at = page.at /\ page'.turns = Turns /\ Turns \in Nat
  BY <1>1, TurnsType DEF Turns, ChatInv
<1>3. ChatTypeOK' /\ TalkInv' /\ PageInv'
  BY <1>1, <1>2 DEF ChatInv, ChatTypeOK, TalkInv, PageInv
<1>4. CommandInv' /\ PollInv' /\ AnswerIsWhole'
  BY <1>1, <1>2 DEF ChatInv, CommandInv, PollInv, At, Asked, LastIsWhole, AnswerIsWhole
<1>5. QED
  BY <1>3, <1>4 DEF ChatInv

\* One field of a turn changed.
LEMMA TurnFields ==
  ASSUME NEW t \in Turn, NEW n \in Nat, NEW w \in BOOLEAN
  PROVE  /\ [t EXCEPT !.begun = w] = [question |-> t.question, begun |-> w, length |-> t.length, whole |-> t.whole]
         /\ [t EXCEPT !.length = n] = [question |-> t.question, begun |-> t.begun, length |-> n, whole |-> t.whole]
         /\ [t EXCEPT !.whole = w] = [question |-> t.question, begun |-> t.begun, length |-> t.length, whole |-> w]
BY DEF Turn

\* The answer that grows leaves the command and what it has read alone.
LEMMA AnswerGrowsStep ==
  ASSUME ChatInv, AnswerGrows
  PROVE  ChatInv'
<1> DEFINE c == page.at
           last == talk[c][Turns]
<1>1. /\ page.turns = Turns /\ Turns > 0
      /\ UNCHANGED <<page, disk, mem, process, reading, printed, asks, late>>
  BY DEF AnswerGrows, Changes
<1>2. /\ c \in Talks /\ c # Home /\ talk[c] \in Seq(Turn) /\ Turns = Len(talk[c]) /\ Turns \in Nat
      /\ last \in Turn /\ talk \in [Talks -> Seq(Turn)] /\ Turns \in 1..Len(talk[c])
  BY <1>1, TurnsType DEF ChatInv, ChatTypeOK
<1>3. PICK new \in Turn :
        /\ talk' = [talk EXCEPT ![c][Turns] = new]
        /\ new.question = last.question /\ (new.whole => new.length > 0)
        /\ last.whole => new.whole
  <2>1. CASE ~last.whole /\ talk' = [talk EXCEPT ![c][Turns].length = @ + 1]
    <3> DEFINE new == [question |-> last.question, begun |-> last.begun, length |-> last.length + 1, whole |-> last.whole]
    <3>1. new \in Turn /\ new.question = last.question /\ new.whole = last.whole
      BY <1>2 DEF Turn
    <3>2. last.length + 1 \in Nat
      BY <1>2 DEF Turn
    <3>3. talk' = [talk EXCEPT ![c][Turns] = [last EXCEPT !.length = last.length + 1]]
      BY <1>2, <2>1
    <3> HIDE DEF last
    <3>5. [last EXCEPT !.length = last.length + 1] = new
      BY <1>2, <3>2, TurnFields
    <3>4. QED
      BY <2>1, <3>1, <3>3, <3>5
  <2>2. CASE last.length > 0 /\ talk' = [talk EXCEPT ![c][Turns].whole = TRUE]
    <3> DEFINE new == [question |-> last.question, begun |-> last.begun, length |-> last.length, whole |-> TRUE]
    <3>1. new \in Turn /\ new.question = last.question /\ new.length > 0
      BY <1>2, <2>2 DEF Turn
    <3>3. talk' = [talk EXCEPT ![c][Turns] = [last EXCEPT !.whole = TRUE]]
      BY <1>2, <2>2
    <3> HIDE DEF last
    <3>2. [last EXCEPT !.whole = TRUE] = new
      BY <1>2, TurnFields
    <3>4. QED
      BY <3>1, <3>2, <3>3
  <2>3. CASE talk' = [talk EXCEPT ![c][Turns].begun = TRUE]
    <3> DEFINE new == [question |-> last.question, begun |-> TRUE, length |-> last.length, whole |-> last.whole]
    <3>1. new \in Turn /\ new.question = last.question /\ new.whole = last.whole
      BY <1>2 DEF Turn
    <3>3. talk' = [talk EXCEPT ![c][Turns] = [last EXCEPT !.begun = TRUE]]
      BY <1>2, <2>3
    <3> HIDE DEF last
    <3>2. [last EXCEPT !.begun = TRUE] = new
      BY <1>2, TurnFields
    <3>4. last.whole => last.length > 0
      BY <1>2 DEF ChatInv, TalkInv, last
    <3>5. QED
      BY <3>1, <3>2, <3>3, <3>4
  <2>4. QED
    BY <2>1, <2>2, <2>3 DEF AnswerGrows
<1>4. talk' = [talk EXCEPT ![c] = [talk[c] EXCEPT ![Turns] = new]]
  BY <1>2, <1>3
<1> DEFINE grown == [talk[c] EXCEPT ![Turns] = new]
<1>5. /\ grown \in Seq(Turn) /\ Len(grown) = Len(talk[c])
      /\ \A i \in 1..Len(talk[c]) : grown[i] = IF i = Turns THEN new ELSE talk[c][i]
  BY <1>2, ExceptSeq
<1> HIDE DEF grown
<1>6. /\ talk' \in [Talks -> Seq(Turn)] /\ talk'[c] = grown
      /\ \A d \in Talks \ {c} : talk'[d] = talk[d]
  BY <1>2, <1>4, <1>5 DEF grown
<1>7. Turns' = Turns /\ talk'[c][Turns] = new
  BY <1>1, <1>2, <1>5, <1>6 DEF Turns
<1>8. ChatTypeOK' /\ PageInv'
  BY <1>1, <1>6, <1>7 DEF ChatInv, ChatTypeOK, PageInv
<1>9. TalkInv'
  <2>1. SUFFICES ASSUME NEW d \in Talks, NEW i \in 1..Len(talk'[d]), talk'[d][i].whole
                 PROVE  talk'[d][i].length > 0
    BY DEF TalkInv
  <2>2. CASE d = c
    BY <1>2, <1>3, <1>5, <1>6, <2>1, <2>2 DEF ChatInv, TalkInv
  <2>3. CASE d # c
    BY <1>6, <2>1, <2>3 DEF ChatInv, TalkInv
  <2>4. QED
    BY <2>2, <2>3
<1>10. CommandInv'
  BY <1>1, <1>3, <1>7 DEF ChatInv, CommandInv, At, Asked
<1>11. PollInv' /\ AnswerIsWhole'
  BY <1>1, <1>3, <1>7 DEF ChatInv, PollInv, At, LastIsWhole, AnswerIsWhole
<1>12. QED
  BY <1>8, <1>9, <1>10, <1>11 DEF ChatInv

\* What the poll reads of the page: something of the last turn shown, or of an earlier one.
AnswerShape == [by : {"nobody", "assistant", "user", "earlier"}, question : Nat, length : Nat,
           whole : BOOLEAN, sure : BOOLEAN]

\* What may be read of a turn.
LEMMA TextType ==
  ASSUME NEW turn \in Turn, NEW by \in {"assistant", "user", "earlier"}
  PROVE  /\ Text(by, turn) \in AnswerShape /\ Text(by, turn).by = by
         /\ Text(by, turn).question = turn.question /\ Text(by, turn).whole = turn.whole
         /\ [Text(by, turn) EXCEPT !.length = QuestionLength] \in AnswerShape
         /\ [Text(by, turn) EXCEPT !.length = QuestionLength].by = by
         /\ [Text(by, turn) EXCEPT !.length = QuestionLength].question = turn.question
BY DEF Text, Turn, AnswerShape, QuestionLength

\* An earlier answer is one that the page shows.
LEMMA EarlierType ==
  ASSUME ChatInv, NEW text \in Earlier
  PROVE  text \in AnswerShape /\ text.by = "earlier"
<1>1. PICK i \in 1..page.turns : text = Text("earlier", talk[page.at][i])
  BY DEF Earlier
<1>2. talk[page.at][i] \in Turn
  BY TurnsType DEF ChatInv, ChatTypeOK, PageInv
<1>3. QED
  BY <1>1, <1>2, TextType

\* What may be read is an answer, the question, or nothing.
LEMMA LatestType ==
  ASSUME ChatInv, NEW text \in Latest
  PROVE  text \in AnswerShape
<1>1. NoAnswer \in AnswerShape
  BY DEF NoAnswer, AnswerShape
<1>2. CASE page.turns = 0
  BY <1>1, <1>2 DEF Latest
<1>3. CASE page.turns # 0
  <2> DEFINE last == talk[page.at][page.turns]
  <2>1. last \in Turn
    BY <1>3, TurnsType DEF ChatInv, ChatTypeOK, PageInv
  <2>2. text \in {Text("assistant", last), [Text("user", last) EXCEPT !.length = QuestionLength],
                  NoAnswer} \cup Earlier
    BY <1>3 DEF Latest
  <2> HIDE DEF last
  <2>3. QED
    BY <1>1, <2>1, <2>2, TextType, EarlierType
<1>4. QED
  BY <1>2, <1>3

\* Of a page that shows every turn it is the last one, or its question, or while that has no
\* answer nothing or an earlier one.
LEMMA LatestIsLast ==
  ASSUME ChatInv, page.turns = Turns, Turns > 0, NEW text \in Latest
  PROVE  LET last == talk[page.at][Turns]
         IN  /\ last.length > 0 => /\ text.by = "assistant" /\ text.question = last.question
                                   /\ text.whole = last.whole
             /\ ~(last.length > 0) =>
                  \/ text = NoAnswer \/ text.by = "earlier"
                  \/ text.by = "user" /\ text.question = last.question
             /\ last.whole => last.length > 0
<1> DEFINE last == talk[page.at][Turns]
<1>1. last \in Turn /\ Turns \in Nat /\ (last.whole => last.length > 0)
  BY TurnsType DEF ChatInv, ChatTypeOK, PageInv, TalkInv
<1>2. last.length > 0 => text = Text("assistant", last)
  BY <1>1 DEF Latest
<1>3. ~(last.length > 0) => text \in {[Text("user", last) EXCEPT !.length = QuestionLength],
                                      NoAnswer} \cup Earlier
  BY <1>1 DEF Latest
<1> HIDE DEF last
<1>4. ASSUME last.length > 0
      PROVE  text.by = "assistant" /\ text.question = last.question /\ text.whole = last.whole
  BY <1>1, <1>2, <1>4, TextType
<1>5. ASSUME ~(last.length > 0), text # NoAnswer, text.by # "earlier"
      PROVE  text.by = "user" /\ text.question = last.question
  <2>1. text = [Text("user", last) EXCEPT !.length = QuestionLength]
    BY <1>3, <1>5, EarlierType
  <2>2. QED
    BY <1>1, <2>1, TextType
<1>6. QED
  BY <1>1, <1>4, <1>5 DEF last

\* A command starts with nothing printed yet.
LEMMA CommandStartsStep ==
  ASSUME ChatInv, Ask \/ New
  PROVE  ChatInv'
<1>1. /\ At("none") /\ mem' = disk /\ printed' = NoAnswer /\ late' = FALSE
      /\ UNCHANGED <<talk, page, disk, reading>>
      /\ \E n \in Nat : process' = [at |-> "open", asks |-> n] /\ asks' \in Nat /\ n \in {0, asks'}
  BY DEF Ask, New, CommandStarts, ChatInv, ChatTypeOK
<1>5. process' \in [at : Steps, asks : Nat]
  BY <1>1 DEF Steps
<1>6. late' \in BOOLEAN
  BY <1>1
<1>2. ChatTypeOK'
  BY <1>1, <1>5, <1>6 DEF ChatInv, ChatTypeOK
<1>3. Turns' = Turns
  BY <1>1 DEF Turns
<1>4. QED
  BY <1>1, <1>2, <1>3 DEF ChatInv, TalkInv, PageInv, CommandInv, PollInv, At, AnswerIsWhole

\* Clearing the stored conversation is nothing to the command that runs.
LEMMA ClearThreadStep ==
  ASSUME ChatInv, ClearThread
  PROVE  ChatInv'
<1>1. disk' = Home /\ UNCHANGED <<talk, page, mem, process, reading, printed, asks, late>>
  BY DEF ClearThread
<1>2. Turns' = Turns
  BY <1>1 DEF Turns
<1>3. QED
  BY <1>1, <1>2
     DEF ChatInv, ChatTypeOK, TalkInv, PageInv, CommandInv, Asked, PollInv, LastIsWhole, At,
         AnswerIsWhole

\* What holds of every command that has ended.
LEMMA CommandEndsStep ==
  ASSUME ChatInv, process' = NoCommand, page' = Closed, mem' = Home,
         reading' \in {reading, NoReading}, UNCHANGED <<talk, asks, late>>,
         disk' \in {disk, Home}, AnswerIsWhole'
  PROVE  ChatInv'
<1>1. Turns' = 0
  BY DEF Turns, Closed
<1>2. reading'.length > 0 => reading'.polled
  BY DEF ChatInv, PollInv, NoReading
<1>3. reading' \in [copy : BOOLEAN, thinking : BOOLEAN, length : Nat, stable : Nat,
                    polled : BOOLEAN, sure : BOOLEAN]
  <2>1. NoReading \in [copy : BOOLEAN, thinking : BOOLEAN, length : Nat, stable : Nat,
                       polled : BOOLEAN, sure : BOOLEAN]
    BY DEF NoReading
  <2>2. QED
    BY <2>1 DEF ChatInv, ChatTypeOK
<1>4. ChatTypeOK'
  BY <1>3 DEF ChatInv, ChatTypeOK, NoCommand, Closed, Steps
<1>5. QED
  BY <1>1, <1>2, <1>4 DEF ChatInv, TalkInv, PageInv, CommandInv, PollInv, At, NoCommand, Closed

\* A command that gives up prints nothing, and neither does a new conversation.
LEMMA GivesForgetStep ==
  ASSUME ChatInv, Gives \/ Forget
  PROVE  ChatInv'
<1>1. AnswerIsWhole'
  BY DEF Gives, CommandEnds, Forget, ChatInv, AnswerIsWhole
<1>2. QED
  BY <1>1, CommandEndsStep DEF Gives, CommandEnds, Forget

\* The page is opened, with the command's question still the last.
LEMMA OpenPageStep ==
  ASSUME ChatInv, OpenPage
  PROVE  ChatInv'
<1>1. /\ process' = [process EXCEPT !.at = IF process.asks = 0 THEN "forget" ELSE "return"]
      /\ At("open") /\ Visit(mem) /\ mem \in Talks \cup {Home}
      /\ UNCHANGED <<talk, disk, mem, reading, printed, asks, late>>
  BY DEF OpenPage, Go, ChatInv, ChatTypeOK
<1>2. /\ process' \in [at : Steps, asks : Nat] /\ process'.asks = process.asks
      /\ process'.at \in {"forget", "return"} /\ (process'.at = "return" => process.asks # 0)
  BY <1>1 DEF ChatInv, ChatTypeOK, Steps
<1>3. page' \in [at : Talks \cup {Home}, url : Talks \cup {Home}, turns : Nat] /\ PageInv'
  BY <1>1, VisitedPage DEF ChatInv
<1>4. ChatTypeOK' /\ TalkInv'
  BY <1>1, <1>2, <1>3 DEF ChatInv, ChatTypeOK, TalkInv
<1>5. CommandInv' /\ PollInv' /\ AnswerIsWhole'
  BY <1>1, <1>2 DEF ChatInv, CommandInv, PollInv, At, AnswerIsWhole
<1>6. QED
  BY <1>3, <1>4, <1>5 DEF ChatInv

\* Back in the conversation, or in another that the page shows.
LEMMA ReturnStep ==
  ASSUME ChatInv, Return
  PROVE  ChatInv'
<1>1. /\ process' = [process EXCEPT !.at = "send"] /\ At("return")
      /\ UNCHANGED <<talk, reading, printed, asks, late>> /\ mem \in Talks \cup {Home}
  BY DEF Return, Go, ChatInv, ChatTypeOK
<1>2. process' \in [at : Steps, asks : Nat] /\ process'.asks = process.asks /\ process'.at = "send"
  BY <1>1 DEF ChatInv, ChatTypeOK, Steps
<1>3. /\ page' \in [at : Talks \cup {Home}, url : Talks \cup {Home}, turns : Nat] /\ PageInv'
      /\ mem' \in Talks \cup {Home} /\ disk' \in Talks \cup {Home}
  <2>1. CASE Visit(mem) /\ mem' = page'.url
             /\ disk' = IF page'.url \in {mem, Home} THEN disk ELSE page'.url
    <3>1. page' \in [at : Talks \cup {Home}, url : Talks \cup {Home}, turns : Nat] /\ PageInv'
      BY <1>1, <2>1, VisitedPage DEF ChatInv
    <3>2. QED
      BY <2>1, <3>1 DEF ChatInv, ChatTypeOK
  <2>2. CASE UNCHANGED page /\ mem' = page.url
             /\ disk' = IF page.url = Home THEN disk ELSE page.url
    BY <1>1, <2>2 DEF ChatInv, ChatTypeOK, PageInv, Turns
  <2>3. QED
    BY <2>1, <2>2 DEF Return
<1>4. ChatTypeOK' /\ TalkInv'
  BY <1>1, <1>2, <1>3 DEF ChatInv, ChatTypeOK, TalkInv
<1>5. CommandInv' /\ PollInv' /\ AnswerIsWhole'
  BY <1>1, <1>2 DEF ChatInv, CommandInv, PollInv, At, AnswerIsWhole
<1>6. QED
  BY <1>3, <1>4, <1>5 DEF ChatInv

\* The question is sent: it is the last turn of the page's conversation.
LEMMA SendStep ==
  ASSUME ChatInv, Send
  PROVE  ChatInv'
<1> DEFINE asked == [question |-> process.asks, begun |-> FALSE, length |-> 0, whole |-> FALSE]
<1>1. /\ process' = [process EXCEPT !.at = "keep"] /\ At("send")
      /\ UNCHANGED <<disk, mem, reading, printed, asks, late>>
  BY DEF Send, Go
<1>2. /\ process' \in [at : Steps, asks : Nat] /\ process'.asks = process.asks
      /\ process'.at = "keep" /\ process.asks = asks
  BY <1>1 DEF ChatInv, ChatTypeOK, Steps, CommandInv
<1>3. asked \in Turn /\ ~asked.whole /\ asked.question = asks
  BY <1>2 DEF ChatInv, ChatTypeOK, Turn
<1> HIDE DEF asked
<1>4. PICK c \in Talks, url \in Talks \cup {Home}, n \in Nat :
        /\ talk' = [talk EXCEPT ![c] = Append(talk[c], asked)]
        /\ page' = [at |-> c, url |-> url, turns |-> n] /\ n <= Len(talk[c])
  <2>1. CASE page.at # Home /\ talk' = [talk EXCEPT ![page.at] = Append(@, asked)]
             /\ UNCHANGED page
    <3>1. /\ page.at \in Talks /\ page.url \in Talks \cup {Home} /\ page.turns \in Nat
          /\ page.turns <= Len(talk[page.at])
          /\ page = [at |-> page.at, url |-> page.url, turns |-> page.turns]
      BY <2>1, TurnsType DEF ChatInv, ChatTypeOK, PageInv
    <3>2. QED
      BY <2>1, <3>1
  <2>2. CASE \E c \in Talks :
               /\ talk[c] = <<>> /\ talk' = [talk EXCEPT ![c] = <<asked>>]
               /\ \E url \in {Home, c} : page' = [at |-> c, url |-> url, turns |-> 0]
    <3>1. PICK c \in Talks :
            /\ talk[c] = <<>> /\ talk' = [talk EXCEPT ![c] = <<asked>>]
            /\ \E url \in {Home, c} : page' = [at |-> c, url |-> url, turns |-> 0]
      BY <2>2
    <3>2. Append(talk[c], asked) = <<asked>> /\ 0 <= Len(talk[c])
      BY <3>1
    <3>3. QED
      BY <3>1, <3>2
  <2>3. QED
    BY <2>1, <2>2 DEF Send, asked
<1> DEFINE more == Append(talk[c], asked)
<1>5. /\ talk[c] \in Seq(Turn) /\ talk \in [Talks -> Seq(Turn)] /\ Len(talk[c]) \in Nat
      /\ more \in Seq(Turn) /\ Len(more) = Len(talk[c]) + 1
      /\ more[Len(more)] = asked /\ \A i \in 1..Len(talk[c]) : more[i] = talk[c][i]
  BY <1>3 DEF ChatInv, ChatTypeOK
<1> HIDE DEF more
<1>6. /\ talk' \in [Talks -> Seq(Turn)] /\ talk'[c] = more
      /\ \A d \in Talks \ {c} : talk'[d] = talk[d]
  BY <1>4, <1>5 DEF more
<1>7. c # Home /\ page'.at = c /\ page'.turns = n /\ Turns' = Len(talk[c]) + 1
  BY <1>4, <1>5, <1>6, ChatAssumption DEF Turns
<1>8. ChatTypeOK' /\ PageInv'
  BY <1>1, <1>2, <1>4, <1>5, <1>6, <1>7 DEF ChatInv, ChatTypeOK, PageInv
<1>9. TalkInv'
  <2>1. SUFFICES ASSUME NEW d \in Talks, NEW i \in 1..Len(talk'[d]), talk'[d][i].whole
                 PROVE  talk'[d][i].length > 0
    BY DEF TalkInv
  <2>2. CASE d = c
    BY <1>3, <1>5, <1>6, <2>1, <2>2 DEF ChatInv, TalkInv
  <2>3. CASE d # c
    BY <1>6, <2>1, <2>3 DEF ChatInv, TalkInv
  <2>4. QED
    BY <2>2, <2>3
<1>10. Asked'
  BY <1>1, <1>3, <1>5, <1>6, <1>7 DEF Asked
<1>11. CommandInv' /\ PollInv' /\ AnswerIsWhole'
  BY <1>1, <1>2, <1>10 DEF ChatInv, CommandInv, PollInv, At, AnswerIsWhole
<1>12. QED
  BY <1>8, <1>9, <1>11 DEF ChatInv

\* The page's address is kept for the next command.
LEMMA KeepStep ==
  ASSUME ChatInv, Keep
  PROVE  ChatInv'
<1>1. /\ process' = [process EXCEPT !.at = "look"] /\ At("keep")
      /\ UNCHANGED <<talk, page, reading, printed, asks, late>>
      /\ mem' \in Talks \cup {Home} /\ disk' \in Talks \cup {Home}
  BY DEF Keep, Go, ChatInv, ChatTypeOK
<1>2. process' \in [at : Steps, asks : Nat] /\ process'.at = "look"
  BY <1>1 DEF ChatInv, ChatTypeOK, Steps
<1>3. Turns' = Turns
  BY <1>1 DEF Turns
<1>4. ChatTypeOK'
  BY <1>1, <1>2 DEF ChatInv, ChatTypeOK
<1>5. QED
  BY <1>1, <1>2, <1>3, <1>4
     DEF ChatInv, TalkInv, PageInv, CommandInv, Asked, PollInv, At, AnswerIsWhole

\* A poll looks for the copy button; from the second on the page shows the question, or the
\* question is late.
LEMMA GlanceStep ==
  ASSUME ChatInv, Glance
  PROVE  ChatInv'
<1> DEFINE button == page.turns > 0 /\ talk[page.at][page.turns].whole
<1>1. PICK thinking \in BOOLEAN :
        reading' = [reading EXCEPT !.thinking = thinking, !.copy = button]
  BY DEF Glance
<1>2. /\ process' = [process EXCEPT !.at = "read"] /\ At("look")
      /\ late' = (late \/ (page.turns < Turns /\ reading.polled))
      /\ UNCHANGED <<talk, page, disk, mem, printed, asks>>
  BY DEF Glance, Go
<1>3. button \in BOOLEAN
  <2>1. page.turns > 0 => talk[page.at][page.turns] \in Turn
    BY TurnsType DEF ChatInv, ChatTypeOK, PageInv
  <2>2. QED
    BY <2>1 DEF Turn
<1>4. /\ reading' \in [copy : BOOLEAN, thinking : BOOLEAN, length : Nat, stable : Nat,
                       polled : BOOLEAN, sure : BOOLEAN]
      /\ reading'.copy = button /\ reading'.polled = reading.polled
      /\ reading'.length = reading.length
  BY <1>1, <1>3 DEF ChatInv, ChatTypeOK
<1>5. process' \in [at : Steps, asks : Nat] /\ process'.at = "read"
  BY <1>2 DEF ChatInv, ChatTypeOK, Steps
<1>6. Turns' = Turns /\ Turns \in Nat /\ page.turns \in Nat /\ page.turns <= Turns
  BY <1>2, TurnsType DEF Turns, ChatInv, ChatTypeOK, PageInv
<1>7. ChatTypeOK'
  BY <1>2, <1>4, <1>5, <1>6 DEF ChatInv, ChatTypeOK
<1>8. Asked /\ Asked'
  BY <1>2, <1>6 DEF ChatInv, CommandInv, Asked, At
<1>9. ASSUME reading'.polled, ~late'
      PROVE  page.turns = Turns /\ (button => LastIsWhole)
  <2>1. page.turns = Turns
    BY <1>2, <1>4, <1>6, <1>9
  <2>2. QED
    BY <2>1 DEF LastIsWhole
<1>10. PollInv'
  BY <1>2, <1>4, <1>5, <1>6, <1>9 DEF ChatInv, PollInv, At, LastIsWhole
<1>11. TalkInv' /\ PageInv' /\ CommandInv' /\ AnswerIsWhole'
  BY <1>2, <1>5, <1>6, <1>8 DEF ChatInv, TalkInv, PageInv, CommandInv, At, AnswerIsWhole
<1>12. QED
  BY <1>7, <1>10, <1>11 DEF ChatInv

\* A poll reads the answer; it takes only what it has read before.
LEMMA ReadStep ==
  ASSUME ChatInv, Read
  PROVE  ChatInv'
<1>11. PICK text \in Latest :
        LET length == text.length
            stable == IF length > 0 /\ length = reading.length THEN Capped(reading.stable + 1) ELSE 0
        IN  /\ Go(IF Sure(reading, length, stable) \/ StoodStill(reading, length, stable)
                  THEN "take" ELSE "look")
            /\ reading' = [reading EXCEPT !.length = length, !.stable = stable, !.polled = TRUE,
                                         !.sure = Sure(reading, length, stable)]
  BY DEF Read
<1> DEFINE length == text.length
           stable == IF length > 0 /\ length = reading.length THEN Capped(reading.stable + 1) ELSE 0
           sure == Sure(reading, length, stable)
           enough == sure \/ StoodStill(reading, length, stable)
<1>1. /\ process' = [process EXCEPT !.at = IF enough THEN "take" ELSE "look"] /\ At("read")
      /\ reading' = [reading EXCEPT !.length = length, !.stable = stable, !.polled = TRUE,
                                    !.sure = sure]
      /\ UNCHANGED <<talk, page, disk, mem, printed, asks, late>>
  BY <1>11 DEF Read, Go
<1>2. length \in Nat /\ reading.length \in Nat /\ reading.stable \in Nat /\ reading.copy \in BOOLEAN
  BY LatestType DEF AnswerShape, ChatInv, ChatTypeOK
<1> HIDE DEF length
<1>3. stable \in Nat /\ sure \in BOOLEAN
  BY <1>2, ChatAssumption DEF Capped, Sure
<1>4. /\ enough => reading.polled
      /\ sure => reading.copy
  <2>1. enough => length > 0 /\ stable # 0
    BY <1>2, ChatAssumption DEF Sure, StoodStill
  <2>2. length > 0 /\ stable # 0 => reading.length > 0
    BY <1>2
  <2>3. QED
    BY <2>1, <2>2 DEF ChatInv, PollInv, Sure
<1> HIDE DEF stable, sure, enough
<1>5. /\ reading' \in [copy : BOOLEAN, thinking : BOOLEAN, length : Nat, stable : Nat,
                       polled : BOOLEAN, sure : BOOLEAN]
      /\ reading'.polled /\ reading'.sure = sure
  BY <1>1, <1>2, <1>3 DEF ChatInv, ChatTypeOK
<1>6. /\ process' \in [at : Steps, asks : Nat] /\ process'.at \in {"take", "look"}
      /\ process'.at = "take" => enough
  BY <1>1 DEF ChatInv, ChatTypeOK, Steps
<1>7. Turns' = Turns
  BY <1>1 DEF Turns
<1>8. ChatTypeOK'
  BY <1>1, <1>5, <1>6 DEF ChatInv, ChatTypeOK
<1>9. PollInv'
  BY <1>1, <1>4, <1>5, <1>6, <1>7 DEF ChatInv, PollInv, At, LastIsWhole
<1>10. TalkInv' /\ PageInv' /\ CommandInv' /\ AnswerIsWhole'
  BY <1>1, <1>6, <1>7 DEF ChatInv, TalkInv, PageInv, CommandInv, Asked, At, AnswerIsWhole
<1>12. QED
  BY <1>8, <1>9, <1>10 DEF ChatInv

\* What is printed is the last turn, which answers the command's question.
LEMMA TakeStep ==
  ASSUME ChatInv, Take
  PROVE  ChatInv'
<1>1. /\ At("take")
      /\ process' = NoCommand /\ page' = Closed /\ mem' = Home /\ reading' = NoReading
      /\ UNCHANGED <<talk, disk, asks, late>>
  BY DEF Take, CommandEnds
<1>5. PICK text \in Latest : printed' = [text EXCEPT !.sure = reading.sure]
  BY DEF Take
<1>6. reading.sure \in BOOLEAN
  BY DEF ChatInv, ChatTypeOK
<1>7. printed' = [by |-> text.by, question |-> text.question, length |-> text.length,
                  whole |-> text.whole, sure |-> reading.sure]
  BY <1>5, LatestType DEF AnswerShape
<1>2. ASSUME printed' # NoAnswer, ~late
      PROVE  /\ printed'.by # "earlier" => printed'.question = asks
             /\ printed'.sure => /\ printed'.by = "assistant" /\ printed'.question = asks
                                 /\ printed'.whole
  <2> DEFINE last == talk[page.at][Turns]
  <2>1. /\ page.turns = Turns /\ Turns > 0 /\ last.question = asks
        /\ reading.sure => last.whole
    BY <1>1, <1>2 DEF ChatInv, CommandInv, PollInv, LastIsWhole, Asked
  <2>2. /\ last.length > 0 => /\ text.by = "assistant" /\ text.question = last.question
                              /\ text.whole = last.whole
        /\ ~(last.length > 0) =>
             \/ text = NoAnswer \/ text.by = "earlier"
             \/ text.by = "user" /\ text.question = last.question
        /\ last.whole => last.length > 0
    BY <2>1, LatestIsLast
  <2> HIDE DEF last
  <2>3. CASE last.length > 0
    BY <1>7, <2>1, <2>2, <2>3
  <2>4. CASE ~(last.length > 0)
    <3>1. reading.sure = FALSE
      BY <1>6, <2>1, <2>2, <2>4
    <3>2. text # NoAnswer
      <4>1. SUFFICES ASSUME text = NoAnswer
                     PROVE  printed' = NoAnswer
        BY <1>2
      <4>2. /\ text.by = "nobody" /\ text.question = 0 /\ text.length = 0
            /\ text.whole = FALSE
        BY <4>1 DEF NoAnswer
      <4>3. QED
        BY <1>7, <3>1, <4>2 DEF NoAnswer
    <3>3. QED
      BY <1>7, <2>1, <2>2, <2>4, <3>1, <3>2
  <2>5. QED
    BY <2>3, <2>4
<1>3. AnswerIsWhole'
  BY <1>1, <1>2 DEF AnswerIsWhole
<1>4. QED
  BY <1>1, <1>3, CommandEndsStep

\* Every step of the page and of the commands keeps the invariant.
LEMMA ChatStep ==
  ASSUME ChatInv, [ChatNext]_chatVars
  PROVE  ChatInv'
<1>1. CASE UNCHANGED chatVars
  BY <1>1
     DEF chatVars, ChatInv, ChatTypeOK, TalkInv, PageInv, CommandInv, Asked, PollInv, LastIsWhole,
         At, AnswerIsWhole, Turns
<1>2. CASE ChatNext
  BY <1>2, PageShowsStep, AnswerGrowsStep, CommandStartsStep, ClearThreadStep, GivesForgetStep,
     OpenPageStep, ReturnStep, SendStep, KeepStep, GlanceStep, ReadStep, TakeStep
     DEF ChatNext
<1>3. QED
  BY <1>1, <1>2

\* At first nothing was asked.
LEMMA ChatStart ==
  ASSUME ChatInit
  PROVE  ChatInv
<1>1. ChatTypeOK
  <2>1. NoReading \in [copy : BOOLEAN, thinking : BOOLEAN, length : Nat, stable : Nat,
                       polled : BOOLEAN, sure : BOOLEAN]
    BY DEF NoReading
  <2>2. /\ Closed \in [at : Talks \cup {Home}, url : Talks \cup {Home}, turns : Nat]
        /\ NoCommand \in [at : Steps, asks : Nat]
    BY DEF Closed, NoCommand, Steps
  <2>3. [c \in Talks |-> <<>>] \in [Talks -> Seq(Turn)]
    OBVIOUS
  <2>4. QED
    BY <2>1, <2>2, <2>3 DEF ChatInit, ChatTypeOK
<1>2. TalkInv
  BY DEF ChatInit, TalkInv
<1>3. PageInv
  BY DEF ChatInit, PageInv, Closed, Turns
<1>4. CommandInv /\ PollInv /\ AnswerIsWhole
  BY DEF ChatInit, CommandInv, PollInv, At, NoCommand, NoReading, AnswerIsWhole
<1>5. QED
  BY <1>1, <1>2, <1>3, <1>4 DEF ChatInv

-----------------------------------------------------------------------------
(* The cues of a setlist (CueTool).                                         *)

\* What a song may hold, and the fields of a run.
SongCues == [here : Seq(Nat), there : SUBSET Nat]
CueShape ==
    /\ job = [at |-> job.at, use |-> job.use, chosen |-> job.chosen, list |-> job.list,
              left |-> job.left, plan |-> job.plan, proposal |-> job.proposal,
              agent |-> job.agent, todo |-> job.todo, asked |-> job.asked,
              results |-> job.results]
    /\ job.chosen \subseteq Places /\ job.todo \subseteq Places
    /\ job.proposal.places \subseteq Places
    /\ events \in [Targets -> SongCues] /\ found \in [Targets -> Seq(Nat)]

\* A fresh plan says of what it creates that the song, unless it was edited since, has no cue
\* here and not that one elsewhere; and without edits every plan says what is so.
CreatesNew(item) ==
    /\ item.target \in Targets /\ item.ordinal \in Nat
    /\ item.target \notin crossed =>
          events[item.target].here = <<>> /\ item.ordinal \notin events[item.target].there
PlanInv ==
    job.at \in {"songs", "write"} =>
        /\ job.left \subseteq job.chosen /\ DOMAIN job.plan \subseteq job.chosen
        /\ job.use = "fresh" => \A p \in Creates(job.plan) : CreatesNew(job.plan[p])
        /\ ~edited => /\ job.list = setlist
                      /\ \A p \in DOMAIN job.plan : job.plan[p] = Item(setlist, p, events)

\* The applier has one item at a time in hand, the first of what is left to do.
OneItem == job.at \in {"setlist", "songs", "write"} /\ job.use \in {"fresh", "verify", "reconcile"}
ItemInv ==
    /\ OneItem => job.todo # {} /\ job.chosen = {Current(job.todo)}
    /\ job.at = "write" => job.use = "fresh" /\ Current(job.todo) \in Creates(job.plan)

\* What was asked for and is done is as it should be, unless something failed or was edited.
AsAsked(p) ==
    IsSong(setlist[p]) =>
       Cardinality(Exact(events[setlist[p]].here, Ordinal(setlist, p))) = 1
DoneInv ==
    (job.at = "items" \/ OneItem) /\ "failed" \notin job.results /\ ~edited =>
        \A p \in job.asked \ job.todo : AsAsked(p)

CueInv == CueShape /\ OneCuePerSong /\ PlanInv /\ ItemInv /\ DoneInv

\* The first of some places.
LEMMA CurrentIsOne ==
  ASSUME NEW todo \in SUBSET Places, todo # {}
  PROVE  Current(todo) \in todo
<1>1. todo \in SUBSET Nat
  BY CueAssumption DEF Places
<1>2. QED
  BY <1>1, LeastNumber DEF Current

\* The ordinal of a place is a number.
LEMMA OrdinalIsNat ==
  ASSUME NEW list, NEW p \in Places
  PROVE  Ordinal(list, p) \in Nat
<1>1. IsFiniteSet(1..p)
  BY FS_Interval DEF Places
<1>2. IsFiniteSet({q \in 1..p : IsSong(list[q])})
  BY <1>1, FS_Subset
<1>3. QED
  BY <1>2, FS_CardinalityType DEF Ordinal

\* Nothing is exact among no events.
LEMMA NothingExact ==
  ASSUME NEW n
  PROVE  Cardinality(Exact(<<>>, n)) = 0
<1>1. Exact(<<>>, n) = {}
  BY DEF Exact
<1>2. QED
  BY <1>1, FS_EmptySet, Zenon

\* What the operation of a planned item says.
LEMMA OperationSays ==
  ASSUME NEW list, NEW p \in Places, NEW now \in [Targets -> SongCues]
  PROVE  LET item == Item(list, p, now)
         IN  /\ item.target = list[p] /\ item.ordinal = Ordinal(list, p) /\ item.ordinal \in Nat
             /\ item.operation = "create" =>
                   IsSong(list[p]) /\ now[list[p]].here = <<>> /\ item.ordinal \notin now[list[p]].there
             /\ item.operation \notin {"create", "ambiguous", "conflict"} /\ IsSong(list[p])
                  => Cardinality(Exact(now[list[p]].here, Ordinal(list, p))) = 1
             /\ item.operation = "present" => IsSong(list[p])
<1> DEFINE n == Ordinal(list, p)
           op == Operation(list, p, now)
           one == Cardinality(Exact(now[list[p]].here, n)) = 1
<1>1. n \in Nat /\ Item(list, p, now) = [target |-> list[p], ordinal |-> n, operation |-> op]
  BY OrdinalIsNat DEF Item
<1>2. IsSong(list[p]) => list[p] # Talk
  BY CueAssumption DEF IsSong
<1>3. op \notin {"create", "ambiguous", "conflict"} /\ IsSong(list[p]) => one
  BY <1>2 DEF Operation
<1>4. op = "create" =>
         IsSong(list[p]) /\ now[list[p]].here = <<>> /\ n \notin now[list[p]].there
  BY DEF Operation
<1>5. op = "present" => IsSong(list[p])
  BY DEF Operation
<1> HIDE DEF n, op
<1>6. QED
  BY <1>1, <1>3, <1>4, <1>5 DEF n

\* A run that ends, or that never ran.
LEMMA NoRunKeeps ==
  ASSUME CueInv, job' = NoRun, UNCHANGED <<events, found, crossed>>
  PROVE  CueInv'
<1>1. CueShape'
  BY DEF CueInv, CueShape, NoRun, Unproposed
<1>2. PlanInv' /\ ItemInv' /\ DoneInv'
  BY DEF PlanInv, ItemInv, DoneInv, OneItem, NoRun
<1>3. QED
  BY <1>1, <1>2 DEF CueInv, OneCuePerSong

\* The fields of a run that begins to read the setlist.
LEMMA ReadingShape ==
  ASSUME CueShape, NEW use, NEW some \in SUBSET Places, job' = Reading(job, use, some),
         UNCHANGED <<events, found, crossed>>
  PROVE  /\ CueShape' /\ job'.at = "setlist" /\ job'.use = use /\ job'.chosen = some
         /\ job'.todo = job.todo /\ job'.asked = job.asked /\ job'.results = job.results
<1>1. job' = [at |-> "setlist", use |-> use, chosen |-> some, list |-> job.list,
              left |-> job.left, plan |-> job.plan, proposal |-> job.proposal,
              agent |-> job.agent, todo |-> job.todo, asked |-> job.asked,
              results |-> job.results]
  BY DEF Reading, CueShape
<1>2. QED
  BY <1>1 DEF CueShape

\* Reading for another use than the applier's items.
LEMMA ReadingKeeps ==
  ASSUME CueInv, NEW use, use \notin {"fresh", "verify", "reconcile"},
         NEW some \in SUBSET Places, job' = Reading(job, use, some), UNCHANGED <<events, found, crossed>>
  PROVE  CueInv'
<1>1. CueShape' /\ job'.at = "setlist" /\ job'.use = use
  BY ReadingShape DEF CueInv
<1>2. PlanInv' /\ ItemInv' /\ DoneInv'
  BY <1>1 DEF PlanInv, ItemInv, DoneInv, OneItem
<1>3. QED
  BY <1>1, <1>2 DEF CueInv, OneCuePerSong

\* A run between two plans: an agent's turn, or a plan shown to a person.
LEMMA WaitingKeeps ==
  ASSUME CueInv, CueShape', job'.at \in {"turn", "confirm"}, UNCHANGED <<events, found, crossed>>
  PROVE  CueInv'
<1>1. PlanInv' /\ ItemInv' /\ DoneInv'
  BY DEF PlanInv, ItemInv, DoneInv, OneItem
<1>2. QED
  BY <1>1 DEF CueInv, OneCuePerSong

\* The setlist that was read is kept for the run.
LEMMA ReadSetlistStep ==
  ASSUME CueInv, ReadSetlist
  PROVE  CueInv'
<1>1. /\ job.at = "setlist" /\ UNCHANGED <<setlist, events, edited, found, crossed>>
      /\ job' = [at |-> "songs", use |-> job.use, chosen |-> job.chosen, list |-> setlist,
                 left |-> job.chosen \cap DOMAIN setlist, plan |-> <<>>,
                 proposal |-> job.proposal, agent |-> job.agent, todo |-> job.todo,
                 asked |-> job.asked, results |-> job.results]
  BY DEF ReadSetlist, peopleVars, CueInv, CueShape
<1>2. CueShape'
  BY <1>1 DEF CueInv, CueShape
<1>3. DOMAIN job'.plan = {}
  BY <1>1
<1>4. PlanInv'
  BY <1>1, <1>3 DEF PlanInv, Creates
<1>5. ItemInv' /\ DoneInv'
  BY <1>1 DEF CueInv, ItemInv, DoneInv, OneItem, AsAsked
<1>6. QED
  BY <1>1, <1>2, <1>4, <1>5 DEF CueInv, OneCuePerSong

\* A song's events are read, and its item joins the plan.
LEMMA ReadSongStep ==
  ASSUME CueInv, ReadSong
  PROVE  CueInv'
<1> DEFINE p == CHOOSE q \in job.left : \A r \in job.left : q <= r
           more == [q \in DOMAIN job.plan \cup {p} |->
                      IF q = p THEN Item(job.list, p, events) ELSE job.plan[q]]
<1>1. /\ job.at = "songs" /\ job.left # {} /\ UNCHANGED <<setlist, events, edited, found, crossed>>
      /\ job' = [at |-> job.at, use |-> job.use, chosen |-> job.chosen, list |-> job.list,
                 left |-> job.left \ {p}, plan |-> more,
                 proposal |-> job.proposal, agent |-> job.agent, todo |-> job.todo,
                 asked |-> job.asked, results |-> job.results]
  BY DEF ReadSong, peopleVars, CueInv, CueShape
<1>2. p \in job.left /\ p \in job.chosen /\ p \in Places
  <2>1. job.left \in SUBSET Places
    BY <1>1 DEF CueInv, CueShape, PlanInv
  <2>2. p = Current(job.left)
    BY DEF Current
  <2>3. QED
    BY <1>1, <2>1, <2>2, CurrentIsOne DEF CueInv, CueShape, PlanInv
<1> HIDE DEF p
<1>3. /\ DOMAIN more = DOMAIN job.plan \cup {p}
      /\ \A q \in DOMAIN more : more[q] = IF q = p THEN Item(job.list, p, events) ELSE job.plan[q]
  OBVIOUS
<1> HIDE DEF more
<1>4. CueShape'
  BY <1>1 DEF CueInv, CueShape
<1>5. ASSUME Item(job.list, p, events).operation = "create"
      PROVE  CreatesNew(Item(job.list, p, events))
  <2> DEFINE item == Item(job.list, p, events)
  <2>1. events \in [Targets -> SongCues]
    BY DEF CueInv, CueShape
  <2>2. /\ item.target = job.list[p] /\ item.ordinal \in Nat
        /\ item.operation = "create" =>
              /\ IsSong(job.list[p]) /\ events[job.list[p]].here = <<>>
              /\ item.ordinal \notin events[job.list[p]].there
    BY <1>2, <2>1, OperationSays
  <2> HIDE DEF item
  <2>3. QED
    BY <1>5, <2>2 DEF CreatesNew, IsSong, item
<1>6. job.use = "fresh" => \A q \in Creates(more) : CreatesNew(more[q])
  <2>1. SUFFICES ASSUME job.use = "fresh", NEW q \in DOMAIN more, more[q].operation = "create"
                 PROVE  CreatesNew(more[q])
    BY DEF Creates
  <2>2. CASE q = p
    BY <1>3, <1>5, <2>1, <2>2
  <2>3. CASE q # p
    BY <1>1, <1>3, <2>1, <2>3 DEF CueInv, PlanInv, Creates
  <2>4. QED
    BY <2>2, <2>3
<1>7. ~edited' => /\ job'.list = setlist'
                  /\ \A q \in DOMAIN job'.plan : job'.plan[q] = Item(setlist', q, events')
  BY <1>1, <1>3 DEF CueInv, PlanInv
<1>8. job'.left \subseteq job'.chosen /\ DOMAIN job'.plan \subseteq job'.chosen
  BY <1>1, <1>2, <1>3 DEF CueInv, PlanInv
<1>12. job'.use = "fresh" => (\A q \in Creates(job.plan) : CreatesNew(job.plan[q]))'
  BY <1>1, <1>6 DEF CreatesNew
<1>9. PlanInv'
  BY <1>7, <1>8, <1>12 DEF PlanInv
<1>10. ItemInv' /\ DoneInv'
  BY <1>1 DEF CueInv, ItemInv, DoneInv, OneItem, AsAsked
<1>11. QED
  BY <1>1, <1>4, <1>9, <1>10 DEF CueInv, OneCuePerSong

\* What a plan without edits says is done, is done.
LEMMA PlannedIsDone ==
  ASSUME CueInv, job.at \in {"songs", "write"}, ~edited, NEW p \in DOMAIN job.plan,
         job.plan[p].operation \notin {"create", "ambiguous", "conflict"}
  PROVE  AsAsked(p)
<1>1. job.plan[p] = Item(setlist, p, events) /\ p \in Places
  BY DEF CueInv, PlanInv, CueShape
<1>2. events \in [Targets -> SongCues]
  BY DEF CueInv, CueShape
<1> DEFINE item == Item(setlist, p, events)
<1>4. item.operation \notin {"create", "ambiguous", "conflict"}
        /\ IsSong(setlist[p])
        => Cardinality(Exact(events[setlist[p]].here, Ordinal(setlist, p))) = 1
  BY <1>1, <1>2, OperationSays
<1>5. QED
  BY <1>1, <1>4 DEF AsAsked

\* The plan is verified: nothing is missing, in conflict or unclear.
LEMMA VerifiedStep ==
  ASSUME CueInv, Verified
  PROVE  CueInv'
<1> DEFINE bad == {p \in DOMAIN job.plan : job.plan[p].operation \notin {"non_song", "present"}}
           results == IF bad = {} THEN {"verified"} ELSE {"failed"}
<1>1. /\ job.at = "songs" /\ UNCHANGED <<setlist, events, edited, found, crossed>>
      /\ job' = [at |-> "items", use |-> job.use, chosen |-> job.chosen, list |-> job.list,
                 left |-> job.left, plan |-> job.plan,
                 proposal |-> job.proposal, agent |-> job.agent, todo |-> job.todo,
                 asked |-> DOMAIN job.plan, results |-> results]
  BY DEF Verified, peopleVars, Planned, CueInv, CueShape
<1>2. CueShape'
  BY <1>1 DEF CueInv, CueShape
<1>3. PlanInv' /\ ItemInv'
  BY <1>1 DEF PlanInv, ItemInv, OneItem
<1>4. ASSUME "failed" \notin results, ~edited, NEW p \in DOMAIN job.plan
      PROVE  AsAsked(p)
  <2>1. job.plan[p].operation \in {"non_song", "present"}
    BY <1>4
  <2>2. QED
    BY <1>1, <1>4, <2>1, PlannedIsDone
<1>5. DoneInv'
  BY <1>1, <1>4 DEF DoneInv, AsAsked
<1>6. QED
  BY <1>1, <1>2, <1>3, <1>5 DEF CueInv, OneCuePerSong

\* The applier takes the plan's creates; the others are done.
LEMMA ApplyStep ==
  ASSUME CueInv, Apply
  PROVE  CueInv'
<1>1. CASE Unsafe(job.plan)
  BY <1>1, NoRunKeeps DEF Apply, peopleVars
<1>2. CASE ~Unsafe(job.plan)
  <2> DEFINE results == IF DOMAIN job.plan = Creates(job.plan) THEN {} ELSE {"skipped"}
  <2>1. /\ job.at = "songs" /\ UNCHANGED <<setlist, events, edited, found, crossed>>
        /\ job' = [at |-> "items", use |-> job.use, chosen |-> job.chosen, list |-> job.list,
                   left |-> job.left, plan |-> job.plan,
                   proposal |-> job.proposal, agent |-> job.agent, todo |-> Creates(job.plan),
                   asked |-> DOMAIN job.plan, results |-> results]
    BY <1>2 DEF Apply, peopleVars, Planned, CueInv, CueShape
  <2>2. Creates(job.plan) \subseteq Places
    BY <2>1 DEF CueInv, CueShape, PlanInv, Creates
  <2>3. CueShape'
    BY <2>1, <2>2 DEF CueInv, CueShape
  <2>4. PlanInv' /\ ItemInv'
    BY <2>1 DEF PlanInv, ItemInv, OneItem
  <2>5. ASSUME ~edited, NEW p \in DOMAIN job.plan \ Creates(job.plan)
        PROVE  AsAsked(p)
    <3>1. job.plan[p].operation \notin {"create", "ambiguous", "conflict"}
      BY <1>2 DEF Unsafe, Creates
    <3>2. QED
      BY <2>1, <2>5, <3>1, PlannedIsDone
  <2>6. DoneInv'
    BY <2>1, <2>5 DEF DoneInv, AsAsked
  <2>7. QED
    BY <2>1, <2>3, <2>4, <2>6 DEF CueInv, OneCuePerSong
<1>3. QED
  BY <1>1, <1>2

\* The next item is begun with a fresh reading.
LEMMA TakeItemStep ==
  ASSUME CueInv, TakeItem
  PROVE  CueInv'
<1>1. /\ job.at = "items" /\ job.todo # {} /\ job.todo \in SUBSET Places
      /\ job' = Reading(job, "fresh", {Current(job.todo)}) /\ UNCHANGED <<setlist, events, edited, found, crossed>>
  BY DEF TakeItem, peopleVars, CueInv, CueShape
<1>2. Current(job.todo) \in Places
  BY <1>1, CurrentIsOne
<1>3. /\ CueShape' /\ job'.at = "setlist" /\ job'.use = "fresh" /\ job'.chosen = {Current(job.todo)}
      /\ job'.todo = job.todo /\ job'.asked = job.asked /\ job'.results = job.results
  BY <1>1, <1>2, ReadingShape DEF CueInv
<1>4. PlanInv' /\ ItemInv' /\ DoneInv'
  BY <1>1, <1>3 DEF CueInv, PlanInv, ItemInv, DoneInv, OneItem, AsAsked
<1>5. QED
  BY <1>1, <1>3, <1>4 DEF CueInv, OneCuePerSong

\* The item in hand is done if it was read to be present, and failed otherwise.
LEMMA ResultKeeps ==
  ASSUME CueInv, job.at = "songs", OneItem, UNCHANGED <<setlist, events, edited, found, crossed>>,
         job' = Result(job, IF Present(job.plan) THEN "verified" ELSE "failed")
  PROVE  CueInv'
<1> DEFINE c == Current(job.todo)
           result == IF Present(job.plan) THEN "verified" ELSE "failed"
<1>1. job' = [at |-> "items", use |-> job.use, chosen |-> job.chosen, list |-> job.list,
              left |-> job.left, plan |-> job.plan,
              proposal |-> job.proposal, agent |-> job.agent, todo |-> job.todo \ {c},
              asked |-> job.asked, results |-> job.results \cup {result}]
  BY DEF Result, CueInv, CueShape
<1>2. CueShape'
  BY <1>1 DEF CueInv, CueShape
<1>3. PlanInv' /\ ItemInv'
  BY <1>1 DEF PlanInv, ItemInv, OneItem
<1>4. ASSUME "failed" \notin job.results \cup {result}, ~edited,
             NEW p \in job.asked \ (job.todo \ {c})
      PROVE  AsAsked(p)
  <2>1. CASE p # c
    BY <1>4, <2>1 DEF CueInv, DoneInv
  <2>2. CASE p = c
    <3>1. PICK q \in DOMAIN job.plan : job.plan[q].operation = "present"
      BY <1>4 DEF Present
    <3>2. q = c
      BY <3>1 DEF CueInv, PlanInv, ItemInv
    <3>3. QED
      BY <1>4, <2>2, <3>1, <3>2, PlannedIsDone
  <2>3. QED
    BY <2>1, <2>2
<1>5. DoneInv'
  BY <1>1, <1>4 DEF DoneInv, AsAsked
<1>6. QED
  BY <1>2, <1>3, <1>5 DEF CueInv, OneCuePerSong

\* With the reading of its own, an item is written, verified or failed.
LEMMA FreshStep ==
  ASSUME CueInv, Fresh
  PROVE  CueInv'
<1>1. job.at = "songs" /\ job.use = "fresh" /\ OneItem /\ UNCHANGED <<setlist, events, edited, found, crossed>>
  BY DEF Fresh, peopleVars, Planned, OneItem
<1>2. CASE Creates(job.plan) # {}
  <2>1. job' = [at |-> "write", use |-> job.use, chosen |-> job.chosen, list |-> job.list,
                left |-> job.left, plan |-> job.plan,
                proposal |-> job.proposal, agent |-> job.agent, todo |-> job.todo,
                asked |-> job.asked, results |-> job.results]
    BY <1>2 DEF Fresh, peopleVars, CueInv, CueShape
  <2>2. CueShape'
    BY <2>1, <1>1 DEF CueInv, CueShape
  <2>3. Current(job.todo) \in Creates(job.plan)
    BY <1>1, <1>2 DEF CueInv, ItemInv, PlanInv, Creates
  <2>4. PlanInv'
    <3>1. (\A p \in Creates(job.plan) : CreatesNew(job.plan[p]))'
      BY <1>1, <2>1 DEF CueInv, PlanInv, CreatesNew
    <3>2. QED
      BY <1>1, <2>1, <3>1 DEF CueInv, PlanInv
  <2>5. ItemInv' /\ DoneInv'
    BY <1>1, <2>1, <2>3 DEF CueInv, ItemInv, DoneInv, OneItem, AsAsked
  <2>6. QED
    BY <1>1, <2>2, <2>4, <2>5 DEF CueInv, OneCuePerSong
<1>3. CASE Creates(job.plan) = {}
  <2>1. job' = Result(job, IF Present(job.plan) THEN "verified" ELSE "failed")
    BY <1>3 DEF Fresh
  <2>2. QED
    BY <1>1, <2>1, ResultKeeps
<1>4. QED
  BY <1>2, <1>3

\* What was written is read back.
LEMMA ReadBackStep ==
  ASSUME CueInv, ReadBack
  PROVE  CueInv'
<1>1. /\ job.at = "songs" /\ OneItem /\ UNCHANGED <<setlist, events, edited, found, crossed>>
      /\ job' = Result(job, IF Present(job.plan) THEN "verified" ELSE "failed")
  BY DEF ReadBack, peopleVars, Planned, OneItem
<1>2. QED
  BY <1>1, ResultKeeps

\* The create is sent once, for a song without a cue.
LEMMA CreateStep ==
  ASSUME CueInv, Create
  PROVE  CueInv'
<1> DEFINE c == Current(job.todo)
           t == job.plan[c].target
           n == job.plan[c].ordinal
           old == events[t].here
<1>1. PICK done \in 0..Attempts, answered \in BOOLEAN :
        /\ events' = [events EXCEPT ![t].here = @ \o [i \in 1..done |-> n]]
        /\ job' = Reading(job, IF answered THEN "verify" ELSE "reconcile", {c})
  BY DEF Create
<1>2. job.at = "write" /\ UNCHANGED <<setlist, edited, found, crossed>>
  BY DEF Create, peopleVars
<1>3. /\ t \in Targets /\ n \in Nat
      /\ t \notin crossed => old = <<>> /\ n \notin events[t].there
      /\ job.todo # {} /\ job.use = "fresh" /\ OneItem
  BY <1>2 DEF CueInv, PlanInv, ItemInv, CreatesNew, OneItem
<1>4. /\ events \in [Targets -> SongCues] /\ found \in [Targets -> Seq(Nat)]
      /\ job.todo \in SUBSET Places
  BY DEF CueInv, CueShape
<1>5. c \in Places
  BY <1>3, <1>4, CurrentIsOne
<1>15. ~edited => old = <<>>
  <2>1. ~edited => Item(setlist, c, events).operation = "create" /\ t = Item(setlist, c, events).target
    BY <1>2 DEF CueInv, PlanInv, ItemInv, Creates
  <2>2. LET item == Item(setlist, c, events)
        IN  /\ item.target = setlist[c]
            /\ item.operation = "create" => events[setlist[c]].here = <<>>
    BY <1>4, <1>5, OperationSays
  <2> HIDE DEF c, t
  <2>3. QED
    BY <2>1, <2>2
<1> DEFINE new == [i \in 1..done |-> n]
           one == [here |-> old \o new, there |-> events[t].there]
<1>6. new \in Seq(Nat) /\ Len(new) \in {0, 1} /\ (Len(new) = 1 => new[1] = n)
  <2>1. done \in {0, 1}
    BY DEF Attempts
  <2>2. QED
    BY <1>3, <2>1
<1>16. old \in Seq(Nat) /\ events[t].there \subseteq Nat
  BY <1>3, <1>4 DEF SongCues
<1>20. Len(new) = 1 => new[1] = n
  BY <1>6
<1> HIDE DEF new, old, t, n, c
<1>17. old \o new \in Seq(Nat) /\ (old = <<>> => old \o new = new)
  <2>1. \A a, b \in Seq(Nat) : a \o b \in Seq(Nat) /\ (a = <<>> => a \o b = b)
    OBVIOUS
  <2>2. new \in Seq(Nat) /\ old \in Seq(Nat)
    BY <1>6, <1>16
  <2>3. QED
    BY <2>1, <2>2
<1>18. events' = [events EXCEPT ![t] = one]
  <2>1. events' = [events EXCEPT ![t] = [events[t] EXCEPT !.here = old \o new]]
    BY <1>1, <1>3, <1>4 DEF new, old
  <2>2. events[t] \in SongCues
    BY <1>3, <1>4
  <2>3. \A x : [events[t] EXCEPT !.here = x] = [here |-> x, there |-> events[t].there]
    BY <2>2 DEF SongCues
  <2>4. QED
    BY <2>1, <2>3
<1>19. one \in SongCues
  BY <1>16, <1>17 DEF SongCues
<1>7. /\ events' \in [Targets -> SongCues] /\ events'[t] = one
      /\ \A s \in Targets \ {t} : events'[s] = events[s]
  BY <1>3, <1>4, <1>18, <1>19
<1>8. job' = [at |-> "setlist", use |-> IF answered THEN "verify" ELSE "reconcile", chosen |-> {c},
              list |-> job.list,
              left |-> job.left, plan |-> job.plan, proposal |-> job.proposal,
              agent |-> job.agent, todo |-> job.todo, asked |-> job.asked,
              results |-> job.results]
  BY <1>1 DEF Reading, CueInv, CueShape
<1>9. CueShape'
  BY <1>2, <1>4, <1>5, <1>7, <1>8 DEF CueInv, CueShape
<1>10. OneCuePerSong'
  <2>1. SUFFICES ASSUME NEW s \in Targets \ crossed, events'[s].here # found[s]
                 PROVE  found[s] = <<>> /\ Len(events'[s].here) = 1 /\ events'[s].here[1] \notin events'[s].there
    BY <1>2 DEF OneCuePerSong
  <2>2. CASE s # t
    BY <1>7, <2>1, <2>2 DEF CueInv, OneCuePerSong
  <2>3. CASE s = t
    <3>1. old = <<>> /\ n \notin events[t].there
      BY <1>3, <2>1, <2>3
    <3>2. found[t] = <<>>
      <4>1. Len(<<>>) = 0
        OBVIOUS
      <4>2. QED
        BY <1>3, <2>1, <2>3, <3>1, <4>1 DEF CueInv, OneCuePerSong, old
    <3>3. events'[t].here = new /\ events'[t].there = events[t].there
      BY <1>7, <1>17, <3>1
    <3>4. Len(new) = 1
      <4>1. \A a \in Seq(Nat) : Len(a) = 0 => a = <<>>
        OBVIOUS
      <4>2. new # <<>>
        BY <2>1, <2>3, <3>2, <3>3
      <4>3. new \in Seq(Nat) /\ (Len(new) = 0 \/ Len(new) = 1)
        BY <1>6
      <4>4. QED
        BY <4>1, <4>2, <4>3
    <3>5. new[1] = n
      BY <1>20, <3>4
    <3>6. QED
      BY <2>3, <3>1, <3>2, <3>3, <3>4, <3>5
  <2>4. QED
    BY <2>2, <2>3
<1>11. PlanInv' /\ ItemInv'
  BY <1>3, <1>8 DEF PlanInv, ItemInv, OneItem, c
<1>12. ASSUME ~edited, NEW p, AsAsked(p)
       PROVE  AsAsked(p)'
  <2>1. CASE IsSong(setlist[p]) /\ setlist[p] = t
    <3>1. Cardinality(Exact(<<>>, Ordinal(setlist, p))) = 1
      BY <1>12, <1>15, <2>1 DEF AsAsked, old
    <3>2. QED
      BY <3>1, NothingExact
  <2>2. CASE IsSong(setlist[p]) /\ setlist[p] # t
    BY <1>2, <1>7, <1>12, <2>2 DEF AsAsked, IsSong
  <2>3. CASE ~IsSong(setlist[p])
    BY <1>2, <2>3 DEF AsAsked
  <2>4. QED
    BY <2>1, <2>2, <2>3
<1>13. DoneInv'
  BY <1>2, <1>3, <1>8, <1>12 DEF CueInv, DoneInv, OneItem
<1>14. QED
  BY <1>9, <1>10, <1>11, <1>13 DEF CueInv

\* Other people edit, and the run is not to blame.
LEMMA OthersStep ==
  ASSUME CueInv, Rearrange \/ \E s \in Targets : EditCues(s)
  PROVE  CueInv'
<1>1. edited' = TRUE /\ job' = job
  BY DEF Rearrange, EditCues
<1>2. events \in [Targets -> SongCues] /\ found \in [Targets -> Seq(Nat)]
  BY DEF CueInv, CueShape
<1>3. CASE Rearrange
  <2>1. UNCHANGED <<events, found, crossed>>
    BY <1>3 DEF Rearrange
  <2>2. CueShape' /\ OneCuePerSong'
    BY <1>1, <2>1 DEF CueInv, CueShape, OneCuePerSong
  <2>3. PlanInv' /\ ItemInv' /\ DoneInv'
    BY <1>1, <2>1 DEF CueInv, PlanInv, CreatesNew, ItemInv, DoneInv, OneItem
  <2>4. QED
    BY <2>2, <2>3 DEF CueInv
<1>4. ASSUME NEW s \in Targets, EditCues(s)
      PROVE  CueInv'
  <2>1. PICK have \in Found : /\ events' = [events EXCEPT ![s] = have]
                              /\ found' = [found EXCEPT ![s] = have.here]
    BY <1>4 DEF EditCues
  <2>2. have \in SongCues
    BY CueAssumption DEF SongCues
  <2>3. have.here \in Seq(Nat)
    BY CueAssumption
  <2>4. /\ crossed' \subseteq crossed \cup {s} /\ crossed \ {s} \subseteq crossed'
        /\ job.at \in {"songs", "write"} /\ job.use = "fresh" => s \in crossed'
    BY <1>4 DEF EditCues
  <2>5. /\ events' \in [Targets -> SongCues] /\ found' \in [Targets -> Seq(Nat)]
        /\ events'[s] = have /\ found'[s] = have.here
        /\ \A r \in Targets \ {s} : events'[r] = events[r] /\ found'[r] = found[r]
    BY <1>2, <2>1, <2>2, <2>3
  <2>6. CueShape'
    BY <1>1, <2>5 DEF CueInv, CueShape
  <2>7. OneCuePerSong'
    BY <2>4, <2>5 DEF CueInv, OneCuePerSong
  <2>8. ASSUME NEW item, CreatesNew(item), job.at \in {"songs", "write"}, job.use = "fresh"
        PROVE  CreatesNew(item)'
    BY <2>4, <2>5, <2>8 DEF CreatesNew
  <2>9. PlanInv' /\ ItemInv' /\ DoneInv'
    BY <1>1, <2>8 DEF CueInv, PlanInv, ItemInv, DoneInv, OneItem
  <2>10. QED
    BY <2>6, <2>7, <2>9 DEF CueInv
<1>5. QED
  BY <1>3, <1>4

\* The commands, and what comes between two plans.
LEMMA CommandsStep ==
  ASSUME CueInv, NEW some \in {Places} \cup {{p} : p \in Places},
         \/ ApplyCommand(some) \/ InspectCommand(some) \/ VerifyCommand(some)
         \/ ProposeFor(some) \/ LookUp(some)
  PROVE  CueInv'
<1>1. some \in SUBSET Places
  OBVIOUS
<1>2. PICK use \in {"display", "look", "check", "propose"} : job' = Reading(job, use, some)
  BY DEF ApplyCommand, InspectCommand, VerifyCommand, ProposeFor, LookUp
<1>3. UNCHANGED <<events, found, crossed>>
  BY DEF ApplyCommand, InspectCommand, VerifyCommand, ProposeFor, LookUp, peopleVars
<1>4. QED
  BY <1>1, <1>2, <1>3, ReadingKeeps

\* A look at the cues ends a command, and goes on with an agent's turn.
LEMMA InspectedStep ==
  ASSUME CueInv, Inspected
  PROVE  CueInv'
<1>1. CASE job.agent
  <2>1. job' = [at |-> "turn", use |-> job.use, chosen |-> job.chosen, list |-> job.list,
                left |-> job.left, plan |-> job.plan, proposal |-> job.proposal,
                agent |-> job.agent, todo |-> job.todo, asked |-> job.asked,
                results |-> job.results]
    BY <1>1 DEF Inspected, peopleVars, CueInv, CueShape
  <2>2. CueShape' /\ job'.at = "turn" /\ UNCHANGED <<events, found, crossed>>
    BY <2>1 DEF Inspected, peopleVars, CueInv, CueShape
  <2>3. QED
    BY <2>2, WaitingKeeps
<1>2. CASE ~job.agent
  BY <1>2, NoRunKeeps DEF Inspected, peopleVars
<1>3. QED
  BY <1>1, <1>2

\* An agent's turn begins without a proposal.
LEMMA AgentRequestStep ==
  ASSUME CueInv, AgentRequest
  PROVE  CueInv'
<1>1. job' = [at |-> "turn", use |-> job.use, chosen |-> job.chosen, list |-> job.list,
              left |-> job.left, plan |-> job.plan, proposal |-> job.proposal,
              agent |-> TRUE, todo |-> job.todo, asked |-> job.asked,
              results |-> job.results]
  BY DEF AgentRequest, peopleVars, CueInv, CueShape
<1>2. CueShape' /\ job'.at = "turn" /\ UNCHANGED <<events, found, crossed>>
  BY <1>1 DEF AgentRequest, peopleVars, CueInv, CueShape
<1>3. QED
  BY <1>2, WaitingKeeps

\* A proposal is of places of the plan.
LEMMA ProposeStep ==
  ASSUME CueInv, Propose
  PROVE  CueInv'
<1> DEFINE ok == Creates(job.plan) # {} /\ ~Unsafe(job.plan)
           proposal == IF ok THEN [places |-> Creates(job.plan), digest |-> job.plan]
                             ELSE job.proposal
<1>1. job' = [at |-> "turn", use |-> job.use, chosen |-> job.chosen, list |-> job.list,
              left |-> job.left, plan |-> job.plan, proposal |-> proposal,
              agent |-> job.agent, todo |-> job.todo, asked |-> job.asked,
              results |-> job.results]
  BY DEF Propose, peopleVars, CueInv, CueShape
<1>2. proposal.places \subseteq Places
  <2>1. Creates(job.plan) \subseteq Places
    BY DEF Propose, peopleVars, Planned, CueInv, CueShape, PlanInv, Creates
  <2>2. QED
    BY <2>1 DEF CueInv, CueShape
<1> HIDE DEF proposal
<1>5. UNCHANGED <<events, found, crossed>>
  BY DEF Propose, peopleVars
<1>3. CueShape' /\ job'.at = "turn" /\ UNCHANGED <<events, found, crossed>>
  BY <1>1, <1>2, <1>5 DEF CueInv, CueShape
<1>4. QED
  BY <1>3, WaitingKeeps

\* The agent's turn ends.
LEMMA TurnEndsStep ==
  ASSUME CueInv, TurnEnds
  PROVE  CueInv'
<1>1. CASE job.proposal = Unproposed
  BY <1>1, NoRunKeeps DEF TurnEnds, peopleVars
<1>2. CASE job.proposal # Unproposed
  <2> DEFINE some == IF Cardinality(job.proposal.places) = 1 THEN job.proposal.places ELSE Places
  <2>1. job' = Reading(job, "display", some) /\ UNCHANGED <<events, found, crossed>>
    BY <1>2 DEF TurnEnds, peopleVars
  <2>2. some \in SUBSET Places
    BY DEF CueInv, CueShape
  <2> HIDE DEF some
  <2>3. QED
    BY <2>1, <2>2, ReadingKeeps
<1>3. QED
  BY <1>1, <1>2

\* A proposal is shown for confirmation.
LEMMA DisplayStep ==
  ASSUME CueInv, Display
  PROVE  CueInv'
<1>1. CASE job.agent /\ job.plan # job.proposal.digest
  BY <1>1, NoRunKeeps DEF Display, peopleVars
<1>2. CASE ~(job.agent /\ job.plan # job.proposal.digest)
  <2>1. job' = [at |-> "confirm", use |-> job.use, chosen |-> job.chosen, list |-> job.list,
                left |-> job.left, plan |-> job.plan, proposal |-> job.proposal,
                agent |-> job.agent, todo |-> job.todo, asked |-> job.asked,
                results |-> job.results]
    BY <1>2 DEF Display, peopleVars, CueInv, CueShape
  <2>2. CueShape' /\ job'.at = "confirm" /\ UNCHANGED <<events, found, crossed>>
    BY <2>1 DEF Display, peopleVars, CueInv, CueShape
  <2>3. QED
    BY <2>2, WaitingKeeps
<1>3. QED
  BY <1>1, <1>2

\* What was confirmed is applied to what it was shown for.
LEMMA ConfirmStep ==
  ASSUME CueInv, Confirm
  PROVE  CueInv'
<1>1. job' = Reading(job, "apply", job.chosen) /\ UNCHANGED <<events, found, crossed>> /\ job.chosen \in SUBSET Places
  BY DEF Confirm, peopleVars, CueInv, CueShape
<1>2. QED
  BY <1>1, ReadingKeeps

\* Every step of the tool and of other people keeps the invariant.
LEMMA CueStep ==
  ASSUME CueInv, [CueNext]_cueVars
  PROVE  CueInv'
<1>1. CASE UNCHANGED cueVars
  BY <1>1
     DEF cueVars, CueInv, CueShape, OneCuePerSong, PlanInv, CreatesNew, ItemInv, OneItem, DoneInv,
         AsAsked
<1>2. CASE Stop \/ Finish
  BY <1>2, NoRunKeeps DEF Stop, Finish, peopleVars
<1>3. CASE CueNext
  BY <1>2, <1>3, CommandsStep, InspectedStep, VerifiedStep, AgentRequestStep, ProposeStep,
     TurnEndsStep, DisplayStep, ConfirmStep, ReadSetlistStep, ReadSongStep, ApplyStep,
     TakeItemStep, FreshStep, CreateStep, ReadBackStep, OthersStep
     DEF CueNext
<1>4. QED
  BY <1>1, <1>3

\* At first nothing was asked of the tool.
LEMMA CueStart ==
  ASSUME CueInit
  PROVE  CueInv
<1>1. \A have \in Found : have \in SongCues /\ have.here \in Seq(Nat)
  BY CueAssumption DEF SongCues
<1>2. /\ events \in [Targets -> Found] /\ found = [s \in Targets |-> events[s].here]
      /\ job = NoRun
  BY DEF CueInit
<1>3. /\ events \in [Targets -> SongCues] /\ found \in [Targets -> Seq(Nat)]
      /\ OneCuePerSong
  BY <1>1, <1>2 DEF OneCuePerSong
<1>4. CueShape
  BY <1>2, <1>3 DEF CueShape, NoRun, Unproposed
<1>5. PlanInv /\ ItemInv /\ DoneInv
  BY <1>2 DEF PlanInv, ItemInv, DoneInv, OneItem, NoRun
<1>6. QED
  BY <1>3, <1>4, <1>5 DEF CueInv

\* The invariant is what the run of the tool promises.
LEMMA CueInvSuffices ==
  ASSUME CueInv
  PROVE  CueRunIsSound
BY DEF CueInv, DoneInv, AsAsked, CueRunIsSound, SuccessIsReal, Success

-----------------------------------------------------------------------------
(* The arrangement of the two song lists (SongPairing).                     *)

\* The pairs of the lines, and the side of each line.
PairsOf(seen) == {<<l.plan, l.playback>> : l \in {m \in ToSet(seen) : m.kind = "pair"}}
PlanSide(seen) == [i \in DOMAIN seen |-> seen[i].plan]
PlaybackSide(seen) == [i \in DOMAIN seen |-> seen[i].playback]

Line == [kind : {"plan-skip", "playback-skip", "pair", "plan-alone", "playback-alone"},
         plan : Nat, playback : Nat]

PairingTypeOK ==
    /\ planCount \in Nat /\ playbackCount \in Nat
    /\ plan \in 1..planCount + 1 /\ playback \in 1..playbackCount + 1
    /\ lines \in Seq(Line)

\* The pairs that the backend drives by, of the songs that the loop has passed.
PairsSoFar ==
    {pair \in ((1..plan - 1) \ planSkips) \X ((1..playback - 1) \ playbackSkips) :
        Nth(planSkips, pair[1]) = Nth(playbackSkips, pair[2])}

\* Both sides have passed as many songs to be paired, or one is at its end.
InStep ==
    LET a == Nth(planSkips, plan - 1)
        b == Nth(playbackSkips, playback - 1)
    IN  a = b \/ (a > b /\ ~PlaybackLeft) \/ (a < b /\ ~PlanLeft)

PairingInv ==
    /\ PairingTypeOK /\ InStep
    /\ PairsOf(lines) = PairsSoFar
    /\ EachOnce(PlanSide(lines), plan - 1)
    /\ EachOnce(PlaybackSide(lines), playback - 1)

\* The number of a song among those kept grows by one with each that is kept.
LEMMA NthFacts ==
  ASSUME NEW skips
  PROVE  /\ \A p \in Nat : Nth(skips, p) \in Nat
         /\ Nth(skips, 0) = 0
         /\ \A p \in Nat \ {0} : Nth(skips, p) = Nth(skips, p - 1) + (IF p \in skips THEN 0 ELSE 1)
         /\ \A p, q \in Nat : p <= q => Nth(skips, p) <= Nth(skips, q)
<1>1. \A p \in Nat : IsFiniteSet((1..p) \ skips)
  <2>1. SUFFICES ASSUME NEW p \in Nat PROVE IsFiniteSet((1..p) \ skips)
    OBVIOUS
  <2>2. IsFiniteSet(1..p)
    BY FS_Interval
  <2>3. QED
    BY <2>2, FS_Subset
<1>2. \A p \in Nat : Nth(skips, p) \in Nat
  BY <1>1, FS_CardinalityType DEF Nth
<1>3. Nth(skips, 0) = 0
  <2>1. (1..0) \ skips = {}
    OBVIOUS
  <2>2. QED
    BY <2>1, FS_EmptySet DEF Nth
<1>4. ASSUME NEW p \in Nat \ {0}
      PROVE  Nth(skips, p) = Nth(skips, p - 1) + (IF p \in skips THEN 0 ELSE 1)
  <2>1. IsFiniteSet((1..p - 1) \ skips) /\ p - 1 \in Nat
    BY <1>1
  <2>2. CASE p \in skips
    <3>1. (1..p) \ skips = (1..p - 1) \ skips
      BY <2>2
    <3>2. Nth(skips, p) = Nth(skips, p - 1)
      BY <3>1 DEF Nth
    <3>3. QED
      BY <1>2, <2>1, <2>2, <3>2
  <2>3. CASE p \notin skips
    <3>1. (1..p) \ skips = ((1..p - 1) \ skips) \cup {p}
      BY <2>3
    <3>2. p \notin (1..p - 1) \ skips
      OBVIOUS
    <3>3. QED
      BY <2>1, <2>3, <3>1, <3>2, FS_AddElement DEF Nth
  <2>4. QED
    BY <2>2, <2>3
<1>5. ASSUME NEW p \in Nat, NEW q \in Nat, p <= q
      PROVE  Nth(skips, p) <= Nth(skips, q)
  <2>1. (1..p) \ skips \in SUBSET ((1..q) \ skips)
    BY <1>5
  <2>2. QED
    BY <1>1, <2>1, FS_Subset DEF Nth
<1>6. QED
  BY <1>2, <1>3, <1>4, <1>5

\* A side of the lines with one line more, which has the next song or none of that side.
LEMMA OnceMore ==
  ASSUME NEW n \in Nat, NEW old, NEW new, NEW song \in Nat \ {0}, NEW p \in {0, song},
         DOMAIN old = 1..n, DOMAIN new = 1..n + 1, new[n + 1] = p,
         \A i \in 1..n : new[i] = old[i] /\ old[i] \in Nat,
         EachOnce(old, song - 1)
  PROVE  EachOnce(new, (IF p = 0 THEN song ELSE song + 1) - 1)
<1>1. \A i \in 1..n : old[i] # 0 => old[i] < song
  BY DEF EachOnce
<1>2. {new[i] : i \in DOMAIN new} \ {0} = 1..(IF p = 0 THEN song ELSE song + 1) - 1
  <2>1. {new[i] : i \in DOMAIN new} = {old[i] : i \in DOMAIN old} \cup {p}
    OBVIOUS
  <2>2. {old[i] : i \in DOMAIN old} \ {0} = 1..song - 1
    BY DEF EachOnce
  <2>3. CASE p = 0
    BY <2>1, <2>2, <2>3
  <2>4. CASE p # 0
    <3>1. p = song
      BY <2>4
    <3>2. 1..song = (1..song - 1) \cup {song}
      OBVIOUS
    <3>3. QED
      BY <2>1, <2>2, <3>1, <3>2
  <2>5. QED
    BY <2>3, <2>4
<1>3. ASSUME NEW i \in DOMAIN new, NEW j \in DOMAIN new, i < j, new[i] # 0, new[j] # 0
      PROVE  new[i] < new[j]
  <2>1. CASE j \in 1..n
    BY <1>3, <2>1 DEF EachOnce
  <2>2. CASE j = n + 1
    BY <1>1, <1>3, <2>2
  <2>3. QED
    BY <2>1, <2>2
<1>4. QED
  BY <1>2, <1>3 DEF EachOnce

\* The lines with one more.
LEMMA LineMore ==
  ASSUME PairingInv, NEW kind \in {"plan-skip", "playback-skip", "pair", "plan-alone", "playback-alone"},
         NEW p \in {0, plan}, NEW q \in {0, playback}, PairLine(kind, p, q)
  PROVE  /\ lines' \in Seq(Line)
         /\ PairsOf(lines') = PairsOf(lines) \cup (IF kind = "pair" THEN {<<p, q>>} ELSE {})
         /\ EachOnce(PlanSide(lines'), plan' - 1)
         /\ EachOnce(PlaybackSide(lines'), playback' - 1)
<1> DEFINE l == [kind |-> kind, plan |-> p, playback |-> q]
<1>1. /\ lines' = Append(lines, l) /\ lines \in Seq(Line) /\ l \in Line
      /\ plan' = (IF p = 0 THEN plan ELSE plan + 1) /\ plan \in Nat \ {0}
      /\ playback' = (IF q = 0 THEN playback ELSE playback + 1) /\ playback \in Nat \ {0}
      /\ l.kind = kind /\ l.plan = p /\ l.playback = q
  BY DEF PairLine, PairingInv, PairingTypeOK, Line
<1> HIDE DEF l
<1> DEFINE n == Len(lines)
<1>2. /\ n \in Nat /\ DOMAIN lines = 1..n /\ DOMAIN lines' = 1..n + 1 /\ lines'[n + 1] = l
      /\ \A i \in 1..n : lines'[i] = lines[i]
      /\ \A i \in 1..n : lines[i].plan \in Nat /\ lines[i].playback \in Nat
      /\ lines' \in Seq(Line)
  <2>1. /\ n \in Nat /\ DOMAIN lines = 1..n /\ DOMAIN lines' = 1..n + 1 /\ lines'[n + 1] = l
        /\ \A i \in 1..n : lines'[i] = lines[i] /\ lines[i] \in Line
        /\ lines' \in Seq(Line)
    BY <1>1
  <2>2. \A x \in Line : x.plan \in Nat /\ x.playback \in Nat
    BY DEF Line
  <2>3. QED
    BY <2>1, <2>2
<1>3. ToSet(lines') = ToSet(lines) \cup {l}
  BY <1>2 DEF ToSet
<1>4. PairsOf(lines') = PairsOf(lines) \cup (IF kind = "pair" THEN {<<p, q>>} ELSE {})
  BY <1>1, <1>3 DEF PairsOf
<1> HIDE DEF n
<1>5. EachOnce(PlanSide(lines'), plan' - 1)
  <2>1. /\ DOMAIN PlanSide(lines) = 1..n /\ DOMAIN PlanSide(lines') = 1..n + 1
        /\ PlanSide(lines')[n + 1] = p
        /\ \A i \in 1..n : PlanSide(lines')[i] = PlanSide(lines)[i] /\ PlanSide(lines)[i] \in Nat
    BY <1>1, <1>2 DEF PlanSide
  <2>2. EachOnce(PlanSide(lines), plan - 1)
    BY DEF PairingInv
  <2>3. n \in Nat /\ plan \in Nat \ {0} /\ p \in {0, plan}
    BY <1>1, <1>2
  <2>4. EachOnce(PlanSide(lines'), (IF p = 0 THEN plan ELSE plan + 1) - 1)
    BY <2>1, <2>2, <2>3, OnceMore
  <2>5. QED
    BY <1>1, <2>4
<1>6. EachOnce(PlaybackSide(lines'), playback' - 1)
  <2>1. /\ DOMAIN PlaybackSide(lines) = 1..n /\ DOMAIN PlaybackSide(lines') = 1..n + 1
        /\ PlaybackSide(lines')[n + 1] = q
        /\ \A i \in 1..n : /\ PlaybackSide(lines')[i] = PlaybackSide(lines)[i]
                          /\ PlaybackSide(lines)[i] \in Nat
    BY <1>1, <1>2 DEF PlaybackSide
  <2>2. EachOnce(PlaybackSide(lines), playback - 1)
    BY DEF PairingInv
  <2>3. n \in Nat /\ playback \in Nat \ {0} /\ q \in {0, playback}
    BY <1>1, <1>2
  <2>4. EachOnce(PlaybackSide(lines'), (IF q = 0 THEN playback ELSE playback + 1) - 1)
    BY <2>1, <2>2, <2>3, OnceMore
  <2>5. QED
    BY <1>1, <2>4
<1>7. QED
  BY <1>2, <1>4, <1>5, <1>6

\* The types of the cursors after a line.
LEMMA CursorsStay ==
  ASSUME PairingInv, NEW kind, NEW p \in {0, plan}, NEW q \in {0, playback}, PairLine(kind, p, q),
         p # 0 => PlanLeft, q # 0 => PlaybackLeft
  PROVE  /\ plan' = (IF p = 0 THEN plan ELSE plan + 1) /\ plan \in 1..planCount + 1
         /\ playback' = (IF q = 0 THEN playback ELSE playback + 1) /\ playback \in 1..playbackCount + 1
         /\ UNCHANGED <<planCount, playbackCount, planSkips, playbackSkips>>
         /\ planCount \in Nat /\ playbackCount \in Nat
         /\ plan' \in 1..planCount + 1 /\ playback' \in 1..playbackCount + 1
BY DEF PairLine, PairingInv, PairingTypeOK, PlanLeft, PlaybackLeft

\* The pairs of the songs passed, when a song more is passed that pairs with none of them.
LEMMA NoNewPair ==
  ASSUME PairingInv, NEW kind \in {"plan-skip", "playback-skip", "plan-alone", "playback-alone"},
         NEW p \in {0, plan}, NEW q \in {0, playback}, PairLine(kind, p, q),
         p = 0 \/ q = 0, p # 0 => PlanLeft, q # 0 => PlaybackLeft,
         p # 0 => plan \in planSkips \/ ~PlaybackLeft,
         q # 0 => playback \in playbackSkips \/ ~PlanLeft
  PROVE  PairingInv'
<1> DEFINE a == Nth(planSkips, plan - 1)
           b == Nth(playbackSkips, playback - 1)
<1>1. /\ plan' = (IF p = 0 THEN plan ELSE plan + 1) /\ plan \in 1..planCount + 1
      /\ playback' = (IF q = 0 THEN playback ELSE playback + 1) /\ playback \in 1..playbackCount + 1
      /\ UNCHANGED <<planCount, playbackCount, planSkips, playbackSkips>>
      /\ planCount \in Nat /\ playbackCount \in Nat
      /\ plan' \in 1..planCount + 1 /\ playback' \in 1..playbackCount + 1
  BY CursorsStay
<1>2. /\ lines' \in Seq(Line) /\ PairsOf(lines') = PairsOf(lines)
      /\ EachOnce(PlanSide(lines'), plan' - 1) /\ EachOnce(PlaybackSide(lines'), playback' - 1)
  BY LineMore
<1>3. /\ a \in Nat /\ b \in Nat
      /\ Nth(planSkips, plan) = a + (IF plan \in planSkips THEN 0 ELSE 1)
      /\ Nth(playbackSkips, playback) = b + (IF playback \in playbackSkips THEN 0 ELSE 1)
      /\ \A x \in 1..plan - 1 : Nth(planSkips, x) <= a /\ Nth(planSkips, x) \in Nat
      /\ \A y \in 1..playback - 1 : Nth(playbackSkips, y) <= b /\ Nth(playbackSkips, y) \in Nat
  <2>1. plan \in Nat \ {0} /\ plan - 1 \in Nat /\ playback \in Nat \ {0} /\ playback - 1 \in Nat
    BY <1>1
  <2>2. \A x \in 1..plan - 1 : x \in Nat /\ x <= plan - 1
    BY <2>1
  <2>3. \A y \in 1..playback - 1 : y \in Nat /\ y <= playback - 1
    BY <2>1
  <2>4. /\ a \in Nat /\ Nth(planSkips, plan) = a + (IF plan \in planSkips THEN 0 ELSE 1)
        /\ \A x \in 1..plan - 1 : Nth(planSkips, x) <= a /\ Nth(planSkips, x) \in Nat
    BY <2>1, <2>2, NthFacts
  <2>5. /\ b \in Nat /\ Nth(playbackSkips, playback) = b + (IF playback \in playbackSkips THEN 0 ELSE 1)
        /\ \A y \in 1..playback - 1 : Nth(playbackSkips, y) <= b /\ Nth(playbackSkips, y) \in Nat
    BY <2>1, <2>3, NthFacts
  <2>6. QED
    BY <2>4, <2>5
<1>4. a = b \/ (a > b /\ ~PlaybackLeft) \/ (a < b /\ ~PlanLeft)
  BY DEF PairingInv, InStep
<1>5. InStep'
  <2>1. CASE p = 0 /\ q = 0
    BY <1>1, <1>4, <2>1 DEF InStep, PlanLeft, PlaybackLeft
  <2>2. CASE p # 0 /\ q = 0
    <3>1. /\ plan' - 1 = plan /\ playback' = playback /\ PlanLeft
          /\ plan \in planSkips \/ ~PlaybackLeft
      BY <1>1, <2>2
    <3>2. CASE plan \in planSkips
      BY <1>1, <1>3, <1>4, <3>1, <3>2 DEF InStep, PlanLeft, PlaybackLeft
    <3>3. CASE plan \notin planSkips
      BY <1>1, <1>3, <1>4, <3>1, <3>3 DEF InStep, PlanLeft, PlaybackLeft
    <3>4. QED
      BY <3>2, <3>3
  <2>3. CASE p = 0 /\ q # 0
    <3>1. /\ playback' - 1 = playback /\ plan' = plan /\ PlaybackLeft
          /\ playback \in playbackSkips \/ ~PlanLeft
      BY <1>1, <2>3
    <3>2. CASE playback \in playbackSkips
      BY <1>1, <1>3, <1>4, <3>1, <3>2 DEF InStep, PlanLeft, PlaybackLeft
    <3>3. CASE playback \notin playbackSkips
      BY <1>1, <1>3, <1>4, <3>1, <3>3 DEF InStep, PlanLeft, PlaybackLeft
    <3>4. QED
      BY <3>2, <3>3
  <2>4. QED
    BY <2>1, <2>2, <2>3
<1>6. PairsSoFar' = PairsSoFar
  <2>1. SUFFICES ASSUME NEW x \in (1..plan' - 1) \ planSkips,
                        NEW y \in (1..playback' - 1) \ playbackSkips,
                        Nth(planSkips, x) = Nth(playbackSkips, y)
                 PROVE  x \in 1..plan - 1 /\ y \in 1..playback - 1
    <3>1. PairsSoFar' \subseteq PairsSoFar
      BY <1>1, <2>1 DEF PairsSoFar
    <3>2. PairsSoFar \subseteq PairsSoFar'
      BY <1>1 DEF PairsSoFar
    <3>3. QED
      BY <3>1, <3>2
  <2>2. CASE p = 0 /\ q = 0
    BY <1>1, <2>2
  <2>3. CASE p # 0 /\ q = 0
    <3>1. y \in 1..playback - 1 /\ (x \in 1..plan - 1 \/ x = plan)
      BY <1>1, <2>3
    <3>2. x # plan
      <4>1. SUFFICES ASSUME x = plan PROVE FALSE
        OBVIOUS
      <4>2. ~PlaybackLeft /\ PlanLeft
        BY <2>3, <4>1
      <4>3. Nth(planSkips, x) = a + 1
        BY <1>3, <4>1
      <4>4. Nth(playbackSkips, y) <= b
        BY <1>3, <3>1
      <4>5. QED
        BY <1>3, <1>4, <2>1, <4>2, <4>3, <4>4
    <3>3. QED
      BY <3>1, <3>2
  <2>4. CASE p = 0 /\ q # 0
    <3>1. x \in 1..plan - 1 /\ (y \in 1..playback - 1 \/ y = playback)
      BY <1>1, <2>4
    <3>2. y # playback
      <4>1. SUFFICES ASSUME y = playback PROVE FALSE
        OBVIOUS
      <4>2. ~PlanLeft /\ PlaybackLeft
        BY <2>4, <4>1
      <4>3. Nth(playbackSkips, y) = b + 1
        BY <1>3, <4>1
      <4>4. Nth(planSkips, x) <= a
        BY <1>3, <3>1
      <4>5. QED
        BY <1>3, <1>4, <2>1, <4>2, <4>3, <4>4
    <3>3. QED
      BY <3>1, <3>2
  <2>5. QED
    BY <2>2, <2>3, <2>4
<1>7. QED
  BY <1>1, <1>2, <1>5, <1>6 DEF PairingInv, PairingTypeOK

\* Two songs that are both kept, and both the next of their sides, are the next pair.
LEMMA OneNewPair ==
  ASSUME PairingInv, PairUp
  PROVE  PairingInv'
<1> DEFINE a == Nth(planSkips, plan - 1)
           b == Nth(playbackSkips, playback - 1)
<1>1. /\ PlanLeft /\ PlaybackLeft /\ plan \notin planSkips /\ playback \notin playbackSkips
      /\ PairLine("pair", plan, playback)
  BY DEF PairUp, PlanSkipped, PlaybackSkipped
<1>2. /\ plan' = plan + 1 /\ plan \in 1..planCount + 1
      /\ playback' = playback + 1 /\ playback \in 1..playbackCount + 1
      /\ UNCHANGED <<planCount, playbackCount, planSkips, playbackSkips>>
      /\ planCount \in Nat /\ playbackCount \in Nat
      /\ plan' \in 1..planCount + 1 /\ playback' \in 1..playbackCount + 1
  BY <1>1, CursorsStay DEF PairingInv, PairingTypeOK
<1>3. /\ lines' \in Seq(Line) /\ PairsOf(lines') = PairsOf(lines) \cup {<<plan, playback>>}
      /\ EachOnce(PlanSide(lines'), plan' - 1) /\ EachOnce(PlaybackSide(lines'), playback' - 1)
  BY <1>1, LineMore
<1>4. /\ a \in Nat /\ b \in Nat
      /\ Nth(planSkips, plan) = a + 1 /\ Nth(playbackSkips, playback) = b + 1
      /\ \A x \in 1..plan - 1 : Nth(planSkips, x) <= a /\ Nth(planSkips, x) \in Nat
      /\ \A y \in 1..playback - 1 : Nth(playbackSkips, y) <= b /\ Nth(playbackSkips, y) \in Nat
  <2>1. plan \in Nat \ {0} /\ plan - 1 \in Nat /\ playback \in Nat \ {0} /\ playback - 1 \in Nat
    BY <1>2
  <2>2. \A x \in 1..plan - 1 : x \in Nat /\ x <= plan - 1
    BY <2>1
  <2>3. \A y \in 1..playback - 1 : y \in Nat /\ y <= playback - 1
    BY <2>1
  <2>4. /\ a \in Nat /\ Nth(planSkips, plan) = a + 1
        /\ \A x \in 1..plan - 1 : Nth(planSkips, x) <= a /\ Nth(planSkips, x) \in Nat
    BY <1>1, <2>1, <2>2, NthFacts
  <2>5. /\ b \in Nat /\ Nth(playbackSkips, playback) = b + 1
        /\ \A y \in 1..playback - 1 : Nth(playbackSkips, y) <= b /\ Nth(playbackSkips, y) \in Nat
    BY <1>1, <2>1, <2>3, NthFacts
  <2>6. QED
    BY <2>4, <2>5
<1>5. a = b
  BY <1>1, <1>4 DEF PairingInv, InStep
<1>6. InStep'
  BY <1>2, <1>4, <1>5 DEF InStep
<1>7. PairsSoFar' = PairsSoFar \cup {<<plan, playback>>}
  <2>1. 1..plan' - 1 = (1..plan - 1) \cup {plan} /\ 1..playback' - 1 = (1..playback - 1) \cup {playback}
    BY <1>2
  <2>2. PairsSoFar' =
          {pair \in ((1..plan' - 1) \ planSkips) \X ((1..playback' - 1) \ playbackSkips) :
             Nth(planSkips, pair[1]) = Nth(playbackSkips, pair[2])}
    BY <1>2 DEF PairsSoFar
  <2>3. \A x \in 1..plan - 1 : Nth(planSkips, x) # b + 1
    BY <1>4, <1>5
  <2>4. \A y \in 1..playback - 1 : Nth(playbackSkips, y) # a + 1
    BY <1>4, <1>5
  <2>5. PairsSoFar' \subseteq PairsSoFar \cup {<<plan, playback>>}
    BY <1>4, <2>1, <2>2, <2>3, <2>4 DEF PairsSoFar
  <2>6. <<plan, playback>> \in PairsSoFar'
    BY <1>1, <1>4, <1>5, <2>1, <2>2
  <2>7. PairsSoFar \subseteq PairsSoFar'
    BY <2>1, <2>2 DEF PairsSoFar
  <2>8. QED
    BY <2>5, <2>6, <2>7
<1>8. QED
  BY <1>2, <1>3, <1>6, <1>7 DEF PairingInv, PairingTypeOK

\* Every line of the loop keeps the invariant.
LEMMA PairingStep ==
  ASSUME PairingInv, [PairingNext]_pairingVars
  PROVE  PairingInv'
<1>1. CASE UNCHANGED pairingVars
  BY <1>1 DEF pairingVars, PairingInv, PairingTypeOK, InStep, PlanLeft, PlaybackLeft, PairsSoFar
<1>2. CASE PlanSkip \/ PlanAlone
  <2>1. PICK kind \in {"plan-skip", "plan-alone"} : PairLine(kind, plan, 0)
    BY <1>2 DEF PlanSkip, PlanAlone
  <2>2. PlanLeft /\ (plan \in planSkips \/ ~PlaybackLeft)
    BY <1>2 DEF PlanSkip, PlanAlone, PlanSkipped
  <2>3. QED
    BY <2>1, <2>2, NoNewPair
<1>3. CASE PlaybackSkip \/ PlaybackAlone
  <2>1. PICK kind \in {"playback-skip", "playback-alone"} : PairLine(kind, 0, playback)
    BY <1>3 DEF PlaybackSkip, PlaybackAlone
  <2>2. PlaybackLeft /\ (playback \in playbackSkips \/ ~PlanLeft)
    BY <1>3 DEF PlaybackSkip, PlaybackAlone, PlaybackSkipped
  <2>3. QED
    BY <2>1, <2>2, NoNewPair
<1>4. CASE PairUp
  BY <1>4, OneNewPair
<1>5. QED
  BY <1>1, <1>2, <1>3, <1>4 DEF PairingNext

\* At first no line is drawn.
LEMMA PairingStart ==
  ASSUME PairingInit
  PROVE  PairingInv
<1>1. /\ plan = 1 /\ playback = 1 /\ lines = <<>> /\ planCount \in Nat /\ playbackCount \in Nat
  BY SongPairingAssumption DEF PairingInit
<1>2. PairingTypeOK
  BY <1>1 DEF PairingTypeOK
<1>3. InStep
  BY <1>1, NthFacts DEF InStep
<1>4. PairsOf(lines) = {} /\ PairsSoFar = {}
  BY <1>1 DEF PairsOf, PairsSoFar, ToSet
<1>5. EachOnce(PlanSide(lines), 0) /\ EachOnce(PlaybackSide(lines), 0)
  BY <1>1 DEF EachOnce, PlanSide, PlaybackSide
<1>6. QED
  BY <1>1, <1>2, <1>3, <1>4, <1>5 DEF PairingInv

\* The whole table draws the pairs by which the timer is driven.
LEMMA PairingInvSuffices ==
  ASSUME PairingInv
  PROVE  DrawsWhatDrives
<1>1. SUFFICES ASSUME ~PlanLeft, ~PlaybackLeft
               PROVE  /\ PairsOf(lines) = PairSongs
                      /\ EachOnce(PlanSide(lines), planCount)
                      /\ EachOnce(PlaybackSide(lines), playbackCount)
  BY DEF DrawsWhatDrives, PairsOf, PlanSide, PlaybackSide
<1>2. plan - 1 = planCount /\ playback - 1 = playbackCount
  BY <1>1 DEF PairingInv, PairingTypeOK, PlanLeft, PlaybackLeft
<1>3. QED
  BY <1>2 DEF PairingInv, PairsSoFar, PairSongs

-----------------------------------------------------------------------------
(* The labels of the lighting timeline (CueTimeline).                       *)

TimelineTypeOK ==
    /\ cueAt \in [Markers -> Times] /\ placed \in SUBSET Markers
    /\ scale \in Scales /\ measured \in Scales \cup {0} /\ drag \in Markers \cup {NoMarker}

\* The least of some numbers.
LEMMA MinIsLeast ==
  ASSUME NEW S \in SUBSET Nat, S # {}
  PROVE  Min(S) \in S /\ \A k \in S : Min(S) <= k
BY LeastNumber DEF Min

\* A label asks for some width.
LEMMA WantedType == Wanted \in [Markers -> Nat \ {0}]
<1>1. Min({112, 154}) \in Nat \ {0}
  <2>1. {112, 154} \in SUBSET Nat /\ {112, 154} # {}
    OBVIOUS
  <2>2. Min({112, 154}) \in {112, 154}
    BY <2>1, MinIsLeast
  <2>3. QED
    BY <2>2
<1>2. Min({112, 28}) \in Nat \ {0}
  <2>1. {112, 28} \in SUBSET Nat /\ {112, 28} # {}
    OBVIOUS
  <2>2. Min({112, 28}) \in {112, 28}
    BY <2>1, MinIsLeast
  <2>3. QED
    BY <2>2
<1>3. \A n \in {20, 2} : MarkerLabelWidth(n) \in Nat \ {0}
  <2>1. MarkerLabelWidth(20) = Min({112, 154}) /\ MarkerLabelWidth(2) = Min({112, 28})
    BY DEF MarkerLabelWidth
  <2>2. QED
    BY <1>1, <1>2, <2>1
<1>4. QED
  BY <1>3 DEF Wanted

\* A shorter label has no more than it had, nor than there is room for.
LEMMA ShorterFits ==
  ASSUME NEW width \in Nat, NEW room \in Int
  PROVE  /\ Shorter(width, room) \in Nat /\ Shorter(width, room) <= width
         /\ Shorter(width, room) > 0 => Shorter(width, room) <= room
         /\ Shorter(width, room) < width => room < width
<1> DEFINE less == Min({width, room})
<1>1. less = IF width <= room THEN width ELSE room
  BY DEF Min
<1>2. less \in Int
  BY <1>1
<1> HIDE DEF less
<1>3. Max({0, less}) = IF less <= 0 THEN 0 ELSE less
  BY <1>2 DEF Max
<1>4. Shorter(width, room) = Max({0, less})
  BY DEF Shorter, less
<1>5. QED
  BY <1>1, <1>2, <1>3, <1>4

\* Where the markers stand.
LEMMA PlacedIn ==
  ASSUME TimelineTypeOK
  PROVE  /\ \A m \in Markers : X(m) \in Nat /\ cueAt[m] \in Nat
         /\ \A m, o \in Markers : cueAt[m] = cueAt[o] => X(m) = X(o)
<1>1. measured \in Nat /\ \A m \in Markers : cueAt[m] \in Nat
  BY TimelineAssumption DEF TimelineTypeOK, Times
<1>2. \A a, b \in Nat : a * b \in Nat
  OBVIOUS
<1>3. QED
  BY <1>1, <1>2 DEF X

\* Of some markers one is the last.
LEMMA LastOfIsLast ==
  ASSUME TimelineTypeOK, NEW S \in SUBSET Markers, S # {}
  PROVE  LastOf(S) \in S /\ \A o \in S \ {LastOf(S)} : Before(o, LastOf(S))
<1> DEFINE HasLast(A) == \E m \in A : \A o \in A \ {m} : Before(o, m)
           Rest == {A \in SUBSET Markers : A # {} /\ ~HasLast(A)}
<1>1. \A A \in SUBSET Markers : A \in FiniteSubsetsOf(Markers)
  BY TimelineAssumption, FS_Subset DEF FiniteSubsetsOf
<1>2. ASSUME Rest # {} PROVE FALSE
  <2>1. PICK A \in Rest : \A B \in Rest : B \subseteq A => B = A
    <3>1. Rest \in SUBSET FiniteSubsetsOf(Markers)
      BY <1>1
    <3> HIDE DEF Rest
    <3>2. QED
      BY <1>2, <3>1, SmallestSet
  <2>2. PICK x : x \in A
    BY <2>1
  <2>3. A \ {x} # {} /\ A \ {x} \in SUBSET Markers /\ x \in Markers
    BY <2>1, <2>2
  <2>4. HasLast(A \ {x})
    <3> HIDE DEF HasLast
    <3>1. A \ {x} # A /\ A \ {x} \subseteq A
      BY <2>2
    <3>2. A \ {x} \notin Rest
      BY <2>1, <3>1
    <3>3. QED
      BY <2>3, <3>2
  <2>5. PICK m \in A \ {x} : \A o \in (A \ {x}) \ {m} : Before(o, m)
    BY <2>4
  <2>6. /\ \A k \in Markers : cueAt[k] \in Nat /\ k \in Nat
        /\ m \in Markers /\ m # x
    BY <2>1, <2>5, PlacedIn, TimelineAssumption
  <2>7. Before(x, m) \/ Before(m, x)
    BY <2>3, <2>6 DEF Before
  <2>8. CASE Before(x, m)
    BY <2>1, <2>5, <2>8
  <2>9. CASE Before(m, x)
    <3>1. \A o \in A \ {x} : Before(o, x)
      BY <2>1, <2>3, <2>5, <2>6, <2>9 DEF Before
    <3>2. QED
      BY <2>1, <2>2, <3>1
  <2>10. QED
    BY <2>7, <2>8, <2>9
<1>3. HasLast(S)
  BY <1>2
<1>4. QED
  BY <1>3 DEF LastOf

\* The recursion over the markers is one: the labels of some are those of all but the last,
\* and the last one's.
LEMMA StackIsOneMore ==
  ASSUME TimelineTypeOK
  PROVE  \A S \in SUBSET placed :
            Stack[S] = IF S = {} THEN Unplaced
                       ELSE PlaceLabel(Stack[S \ {LastOf(S)}], LastOf(S))
<1> DEFINE Sizes(n) == {S \in SUBSET placed : Cardinality(S) <= n}
           Next(f, S) == IF S = {} THEN Unplaced ELSE PlaceLabel(f[S \ {LastOf(S)}], LastOf(S))
           Good(D) == \E f : f = [S \in D |-> Next(f, S)]
           N == {n \in Nat : Good(Sizes(n))}
<1>1. IsFiniteSet(placed) /\ \A S \in SUBSET placed : IsFiniteSet(S) /\ Cardinality(S) \in Nat
  <2>1. IsFiniteSet(placed)
    BY TimelineAssumption, FS_Subset DEF TimelineTypeOK
  <2>2. \A S \in SUBSET placed : IsFiniteSet(S)
    BY <2>1, FS_Subset
  <2>3. QED
    BY <2>1, <2>2, FS_CardinalityType
<1>2. \A S \in SUBSET placed : S # {} => LastOf(S) \in S
  BY LastOfIsLast DEF TimelineTypeOK
<1>3. ASSUME NEW n \in Nat, NEW S \in Sizes(n + 1), S # {}
      PROVE  S \ {LastOf(S)} \in Sizes(n)
  <2>1. Cardinality(S \ {LastOf(S)}) = Cardinality(S) - 1
    BY <1>1, <1>2, <1>3, FS_RemoveElement
  <2>2. QED
    BY <1>1, <1>3, <2>1
<1>4. 0 \in N
  <2>1. \A S \in Sizes(0) : S = {}
    <3>1. \A S \in Sizes(0) : Cardinality(S) = 0 /\ IsFiniteSet(S)
      BY <1>1
    <3>2. QED
      BY <3>1, FS_EmptySet
  <2>2. [S \in Sizes(0) |-> Unplaced] = [S \in Sizes(0) |-> Next([T \in Sizes(0) |-> Unplaced], S)]
    BY <2>1
  <2>3. QED
    BY <2>2
<1>5. ASSUME NEW n \in Nat, n \in N
      PROVE  n + 1 \in N
  <2>1. PICK f : f = [S \in Sizes(n) |-> Next(f, S)]
    BY <1>5
  <2> DEFINE g == [S \in Sizes(n + 1) |-> Next(f, S)]
  <2>2. ASSUME NEW S \in Sizes(n + 1)
        PROVE  Next(g, S) = Next(f, S)
    <3>1. CASE S = {}
      BY <3>1
    <3>2. CASE S # {}
      <4>1. S \ {LastOf(S)} \in Sizes(n)
        BY <1>3, <3>2
      <4>2. Sizes(n) \subseteq Sizes(n + 1)
        BY <1>1
      <4> HIDE DEF Sizes
      <4>3. g[S \ {LastOf(S)}] = Next(f, S \ {LastOf(S)})
        BY <4>1, <4>2
      <4>4. f[S \ {LastOf(S)}] = Next(f, S \ {LastOf(S)})
        <5> HIDE DEF Next
        <5>1. QED
          BY <2>1, <4>1
      <4>5. QED
        BY <3>2, <4>3, <4>4
    <3>3. QED
      BY <3>1, <3>2
  <2>3. g = [S \in Sizes(n + 1) |-> Next(g, S)]
    <3> HIDE DEF Sizes, Next
    <3>1. QED
      BY <2>2
  <2>4. QED
    <3> HIDE DEF Next, Sizes, g
    <3>1. QED
      BY <2>3
<1> HIDE DEF N
<1>6. Cardinality(placed) \in N
  BY <1>1, <1>4, <1>5, Induction
<1>7. Sizes(Cardinality(placed)) = SUBSET placed
  BY <1>1, FS_Subset
<1>8. Good(SUBSET placed)
  <2> HIDE DEF Good, Sizes
  <2>1. QED
    BY <1>6, <1>7 DEF N
<1>9. Stack = CHOOSE f : f = [S \in SUBSET placed |-> Next(f, S)]
  BY DEF Stack
<1>10. Stack = [S \in SUBSET placed |-> Next(Stack, S)]
  <2> HIDE DEF Next
  <2>1. QED
    BY <1>8, <1>9
<1>11. QED
  <2> HIDE DEF Next
  <2>1. \A S \in SUBSET placed : Stack[S] = Next(Stack, S)
    BY <1>10
  <2>2. QED
    BY <2>1 DEF Next

\* What the labels of some markers are, before the later lines are kept clear of: each row has
\* the last of its markers, that ends where it asks to; of two at one time on one row the
\* earlier has no label; and one is shortened only where the next on its row is in its way.
RowOf(labels, S, r) ==
    \/ /\ labels.ends[r] = -1 /\ \A m \in S : labels.row[m] # r
    \/ /\ labels.last[r] \in S /\ labels.row[labels.last[r]] = r
       /\ labels.ends[r] = X(labels.last[r]) + Wanted[labels.last[r]]
       /\ \A m \in S \ {labels.last[r]} : labels.row[m] = r => Before(m, labels.last[r])
SameTime(labels, S) ==
    \A m, o \in S : labels.row[m] = labels.row[o] /\ cueAt[m] = cueAt[o] /\ Before(m, o)
                        => labels.width[m] = 0
CutFor(labels, S) ==
    \A m \in S : labels.width[m] < Wanted[m] =>
        \E o \in S : Before(m, o) /\ labels.row[m] = labels.row[o] /\ X(o) < X(m) + Wanted[m]
LabelsOf(labels, S) ==
    /\ labels = [row |-> labels.row, width |-> labels.width, ends |-> labels.ends,
                 last |-> labels.last]
    /\ labels.row \in [Markers -> Rows] /\ labels.width \in [Markers -> Nat]
    /\ labels.ends \in [Rows -> Int] /\ labels.last \in [Rows -> Markers \cup {NoMarker}]
    /\ \A m \in Markers : labels.width[m] <= Wanted[m]
    /\ \A m \in Markers \ S : labels.width[m] = Wanted[m]
    /\ \A r \in Rows : RowOf(labels, S, r)
    /\ SameTime(labels, S) /\ CutFor(labels, S)

\* A label is where its marker is, whatever stands above it.
LEMMA UnplacedLabels == LabelsOf(Unplaced, {})
<1>1. /\ Unplaced.row \in [Markers -> Rows] /\ Unplaced.width = Wanted
      /\ Unplaced.ends \in [Rows -> Int] /\ Unplaced.last \in [Rows -> Markers \cup {NoMarker}]
      /\ \A r \in Rows : Unplaced.ends[r] = -1
  BY DEF Unplaced, Rows
<1>2. Unplaced = [row |-> Unplaced.row, width |-> Unplaced.width, ends |-> Unplaced.ends,
                  last |-> Unplaced.last]
  BY DEF Unplaced
<1>3. Wanted \in [Markers -> Nat]
  BY WantedType
<1>4. \A m \in Markers : Wanted[m] <= Wanted[m]
  BY <1>3
<1>5. QED
  BY <1>1, <1>2, <1>3, <1>4 DEF LabelsOf, RowOf, SameTime, CutFor

\* A row is found for every label.
LEMMA RowForIsRow ==
  ASSUME TimelineTypeOK, NEW labels, labels.ends \in [Rows -> Int], NEW m \in Markers
  PROVE  RowFor(labels, m) \in Rows
<1> DEFINE free == {r \in Rows : labels.ends[r] <= X(m)}
           soonest == {r \in Rows : \A s \in Rows : labels.ends[r] <= labels.ends[s]}
<1>1. Rows = {0, 1, 2} /\ free \in SUBSET Nat /\ soonest \in SUBSET Nat
  BY DEF Rows
<1>2. soonest # {}
  <2>1. labels.ends[0] \in Int /\ labels.ends[1] \in Int /\ labels.ends[2] \in Int
    BY <1>1
  <2>2. \E r \in {0, 1, 2} : /\ labels.ends[r] <= labels.ends[0] /\ labels.ends[r] <= labels.ends[1]
                             /\ labels.ends[r] <= labels.ends[2]
    BY <2>1
  <2>3. QED
    BY <1>1, <2>2
<1>3. RowFor(labels, m) = Min(IF free # {} THEN free ELSE soonest)
  BY DEF RowFor
<1>4. CASE free # {}
  <2>1. Min(free) \in free
    BY <1>1, <1>4, MinIsLeast
  <2>2. QED
    BY <1>3, <1>4, <2>1
<1>5. CASE free = {}
  <2>1. Min(soonest) \in soonest
    BY <1>1, <1>2, MinIsLeast
  <2>2. QED
    BY <1>3, <1>5, <2>1
<1>6. QED
  BY <1>4, <1>5

\* One label more, after all others.
LEMMA PlacedLabel ==
  ASSUME TimelineTypeOK, NEW S \in SUBSET Markers, NEW m \in Markers \ S,
         \A o \in S : Before(o, m), NEW labels, LabelsOf(labels, S)
  PROVE  LabelsOf(PlaceLabel(labels, m), S \cup {m})
<1> DEFINE row == RowFor(labels, m)
           earlier == labels.last[row]
           shared == ~(labels.ends[row] <= X(m))
           short == Shorter(labels.width[earlier], X(m) - X(earlier) - 4)
           cut == IF ~shared THEN labels.width ELSE [labels.width EXCEPT ![earlier] = short]
           new == PlaceLabel(labels, m)
           T == S \cup {m}
<1>1. /\ labels.row \in [Markers -> Rows] /\ labels.width \in [Markers -> Nat]
      /\ labels.ends \in [Rows -> Int] /\ labels.last \in [Rows -> Markers \cup {NoMarker}]
      /\ \A k \in Markers : labels.width[k] <= Wanted[k]
      /\ \A k \in Markers \ S : labels.width[k] = Wanted[k]
      /\ \A r \in Rows : RowOf(labels, S, r)
      /\ SameTime(labels, S) /\ CutFor(labels, S)
  BY DEF LabelsOf
<1>2. row \in Rows
  BY <1>1, RowForIsRow
<1>3. /\ \A k \in Markers : X(k) \in Nat /\ cueAt[k] \in Nat /\ k \in Nat
      /\ \A k \in Markers : Wanted[k] \in Nat /\ Wanted[k] > 0
      /\ \A k, o \in Markers : cueAt[k] = cueAt[o] => X(k) = X(o)
  BY PlacedIn, WantedType, TimelineAssumption
<1>4. new = [row |-> [labels.row EXCEPT ![m] = row], width |-> cut,
             ends |-> [labels.ends EXCEPT ![row] = X(m) + Wanted[m]],
             last |-> [labels.last EXCEPT ![row] = m]]
  BY DEF PlaceLabel
<1> HIDE DEF row, new
<1>5. /\ new.row \in [Markers -> Rows] /\ new.row[m] = row
      /\ \A k \in Markers \ {m} : new.row[k] = labels.row[k]
      /\ new.ends \in [Rows -> Int] /\ new.ends[row] = X(m) + Wanted[m]
      /\ \A r \in Rows \ {row} : new.ends[r] = labels.ends[r]
      /\ new.last \in [Rows -> Markers \cup {NoMarker}] /\ new.last[row] = m
      /\ \A r \in Rows \ {row} : new.last[r] = labels.last[r]
      /\ new.width = cut
      /\ new = [row |-> new.row, width |-> new.width, ends |-> new.ends, last |-> new.last]
  BY <1>1, <1>2, <1>3, <1>4
\* The row that is shared has a marker, whose label is cut.
<1>6. shared => /\ earlier \in S /\ earlier # m /\ labels.row[earlier] = row
                /\ labels.ends[row] = X(earlier) + Wanted[earlier]
                /\ \A k \in S \ {earlier} : labels.row[k] = row => Before(k, earlier)
  BY <1>1, <1>2, <1>3 DEF RowOf
<1> DEFINE room == X(m) - X(earlier) - 4
<1>7. shared => /\ short \in Nat /\ short <= labels.width[earlier]
                /\ short > 0 => short <= room
  <2>1. SUFFICES ASSUME shared
                 PROVE  /\ short \in Nat /\ short <= labels.width[earlier]
                        /\ short > 0 => short <= room
    OBVIOUS
  <2>2. labels.width[earlier] \in Nat /\ X(m) \in Nat /\ X(earlier) \in Nat
    BY <1>1, <1>3, <1>6, <2>1
  <2>3. room \in Int
    BY <2>2
  <2>4. short = Shorter(labels.width[earlier], room)
    OBVIOUS
  <2> HIDE DEF short, room
  <2>5. QED
    BY <2>2, <2>3, <2>4, ShorterFits
<1> HIDE DEF short
<1>8. /\ cut \in [Markers -> Nat]
      /\ \A k \in Markers : cut[k] <= labels.width[k]
      /\ \A k \in Markers : ~shared \/ k # earlier => cut[k] = labels.width[k]
      /\ shared => cut[earlier] = short
  BY <1>1, <1>6, <1>7
<1> HIDE DEF cut, room
<1>9. \A k \in Markers : new.width[k] <= Wanted[k]
  BY <1>1, <1>3, <1>5, <1>8
<1>10. \A k \in Markers \ T : new.width[k] = Wanted[k]
  BY <1>1, <1>5, <1>6, <1>8
<1>11. \A r \in Rows : RowOf(new, T, r)
  <2>1. SUFFICES ASSUME NEW r \in Rows PROVE RowOf(new, T, r)
    OBVIOUS
  <2>2. CASE r = row
    BY <1>2, <1>5, <2>2 DEF RowOf
  <2>3. CASE r # row
    <3>1. new.ends[r] = labels.ends[r] /\ new.last[r] = labels.last[r] /\ new.row[m] # r
      BY <1>5, <2>3
    <3>2. \A k \in S : new.row[k] = labels.row[k]
      BY <1>5
    <3>3. RowOf(labels, S, r)
      BY <1>1
    <3>4. QED
      BY <3>1, <3>2, <3>3 DEF RowOf
  <2>4. QED
    BY <2>2, <2>3
<1>12. SameTime(new, T)
  <2>1. SUFFICES ASSUME NEW k \in T, NEW o \in T, new.row[k] = new.row[o],
                        cueAt[k] = cueAt[o], Before(k, o)
                 PROVE  cut[k] = 0
    BY <1>5 DEF SameTime
  <2>2. k \in S
    <3>1. ~Before(m, o)
      BY <1>3 DEF Before
    <3>2. QED
      BY <2>1, <3>1
  <2>3. CASE o \in S
    <3>1. labels.width[k] = 0
      BY <1>1, <1>5, <2>1, <2>2, <2>3 DEF SameTime
    <3>2. QED
      BY <1>8, <2>2, <3>1
  <2>4. CASE o = m
    <3>1. labels.row[k] = row /\ X(k) = X(m)
      BY <1>3, <1>5, <2>1, <2>2, <2>4
    <3>2. PICK last \in S : /\ labels.last[row] = last /\ labels.row[last] = row
                            /\ labels.ends[row] = X(last) + Wanted[last]
                            /\ k # last => Before(k, last)
      BY <1>1, <1>2, <2>2, <3>1 DEF RowOf
    <3>3. cueAt[last] = cueAt[k] /\ X(last) = X(m)
      <4>1. Before(last, m) /\ (k = last \/ Before(k, last))
        BY <3>2
      <4>2. cueAt[k] <= cueAt[last] /\ cueAt[last] <= cueAt[k]
        BY <1>3, <2>1, <2>2, <2>4, <4>1 DEF Before
      <4>3. cueAt[last] \in Nat /\ cueAt[k] \in Nat
        BY <1>3, <2>2
      <4>4. cueAt[last] = cueAt[k]
        BY <4>2, <4>3
      <4>5. QED
        BY <1>3, <2>2, <3>1, <4>4
    <3>4. shared /\ earlier = last
      BY <1>3, <3>2, <3>3
    <3>5. CASE k = last
      <4>1. room = -4
        BY <1>3, <3>3, <3>4 DEF room
      <4>2. short = 0
        BY <1>7, <3>4, <4>1
      <4>3. QED
        BY <1>8, <3>4, <3>5, <4>2
    <3>6. CASE k # last
      <4>1. labels.width[k] = 0
        BY <1>1, <2>2, <3>1, <3>2, <3>3, <3>6 DEF SameTime
      <4>2. QED
        BY <1>8, <2>2, <4>1
    <3>7. QED
      BY <3>5, <3>6
  <2>5. QED
    BY <2>3, <2>4
<1>13. CutFor(new, T)
  <2>1. SUFFICES ASSUME NEW k \in T, cut[k] < Wanted[k]
                 PROVE  \E o \in T : /\ Before(k, o) /\ new.row[k] = new.row[o]
                                     /\ X(o) < X(k) + Wanted[k]
    BY <1>5 DEF CutFor
  <2>2. CASE shared /\ k = earlier
    <3>1. X(m) < X(k) + Wanted[k]
      BY <1>1, <1>2, <1>3, <1>6, <2>2
    <3>2. Before(k, m) /\ new.row[k] = row /\ new.row[m] = row
      BY <1>5, <1>6, <2>2
    <3>3. QED
      BY <3>1, <3>2
  <2>3. CASE ~(shared /\ k = earlier)
    <3>1. labels.width[k] < Wanted[k]
      BY <1>8, <2>1, <2>3
    <3>2. k \in S
      <4>1. labels.width[m] = Wanted[m] /\ Wanted[m] \in Nat
        BY <1>1, <1>3
      <4>2. k # m
        BY <3>1, <4>1
      <4>3. QED
        BY <4>2
    <3>3. PICK o \in S : Before(k, o) /\ labels.row[k] = labels.row[o] /\ X(o) < X(k) + Wanted[k]
      BY <1>1, <3>1, <3>2 DEF CutFor
    <3>4. new.row[k] = new.row[o]
      BY <1>5, <3>2, <3>3
    <3>5. QED
      BY <3>3, <3>4
  <2>4. QED
    BY <2>2, <2>3
<1>14. QED
  BY <1>5, <1>8, <1>9, <1>10, <1>11, <1>12, <1>13 DEF LabelsOf, new

\* So it is for the labels of all markers.
LEMMA StackedLabels ==
  ASSUME TimelineTypeOK
  PROVE  LabelsOf(Stacked, placed)
<1> DEFINE Rest == {S \in SUBSET placed : ~LabelsOf(Stack[S], S)}
<1>1. \A S \in SUBSET placed : S \in FiniteSubsetsOf(Markers) /\ S \in SUBSET Markers
  BY TimelineAssumption, FS_Subset DEF FiniteSubsetsOf, TimelineTypeOK
<1>2. ASSUME Rest # {} PROVE FALSE
  <2>1. PICK S \in Rest : \A B \in Rest : B \subseteq S => B = S
    <3>1. Rest \in SUBSET FiniteSubsetsOf(Markers)
      BY <1>1
    <3> HIDE DEF Rest
    <3>2. QED
      BY <1>2, <3>1, SmallestSet
  <2>2. S \in SUBSET placed /\ ~LabelsOf(Stack[S], S)
    BY <2>1
  <2>3. S # {}
    BY <2>2, StackIsOneMore, UnplacedLabels
  <2> DEFINE m == LastOf(S)
             U == S \ {m}
  <2>4. m \in S /\ m \in Markers /\ \A o \in U : Before(o, m)
    BY <1>1, <2>2, <2>3, LastOfIsLast
  <2>5. Stack[S] = PlaceLabel(Stack[U], m)
    BY <2>2, <2>3, StackIsOneMore
  <2> HIDE DEF m
  <2>6. U # S /\ U \subseteq S /\ U \in SUBSET placed /\ U \in SUBSET Markers
        /\ m \in Markers \ U /\ U \cup {m} = S
    BY <1>1, <2>2, <2>4
  <2>7. LabelsOf(Stack[U], U)
    <3>1. U \notin Rest
      BY <2>1, <2>6
    <3>2. QED
      BY <2>6, <3>1
  <2> HIDE DEF U
  <2>8. LabelsOf(PlaceLabel(Stack[U], m), U \cup {m})
    BY <2>4, <2>6, <2>7, PlacedLabel
  <2>9. QED
    BY <2>2, <2>5, <2>6, <2>8
<1>3. QED
  BY <1>2 DEF Stacked

\* What is drawn keeps clear of what comes later.
LEMMA KeepsClear ==
  ASSUME TimelineTypeOK
  PROVE  LabelsKeepClear
<1>1. SUFFICES ASSUME measured = scale, NEW m \in placed
               PROVE  LET labels == Labels
                          EndOf(k) == X(k) + LabelOffset + labels.width[k]
                          InTheWay(k, o) == /\ Before(k, o) /\ labels.row[o] <= labels.row[k]
                                            /\ cueAt[k] = cueAt[o] => labels.row[o] = labels.row[k]
                      IN  /\ labels.width[m] > 0 =>
                                \A o \in placed : InTheWay(m, o) => EndOf(m) < X(o)
                          /\ labels.width[m] < Wanted[m] =>
                                \E o \in placed : InTheWay(m, o) /\ X(o) < X(m) + Wanted[m] + LabelGap
  BY DEF LabelsKeepClear
<1> DEFINE st == Stacked
           width == Clipped(st)[m]
           row == st.row
           crossing == Crossing(st, m)
           Heads == {X(o) : o \in crossing}
           room == Min(Heads) - X(m) - LabelGap
           InTheWay(o) == /\ Before(m, o) /\ row[o] <= row[m]
                          /\ cueAt[m] = cueAt[o] => row[o] = row[m]
<1>2. m \in Markers /\ placed \in SUBSET Markers
  BY DEF TimelineTypeOK
<1>3. Labels = [Stacked EXCEPT !.width = Clipped(Stacked)]
  BY <1>1, TimelineAssumption DEF Labels, TimelineTypeOK
<1>4. LabelsOf(st, placed)
  BY StackedLabels
<1> HIDE DEF st
<1>5. /\ row \in [Markers -> Rows] /\ st.width \in [Markers -> Nat]
      /\ st.width[m] <= Wanted[m] /\ SameTime(st, placed) /\ CutFor(st, placed)
      /\ st = [row |-> st.row, width |-> st.width, ends |-> st.ends, last |-> st.last]
  BY <1>2, <1>4 DEF LabelsOf
<1>6. Labels.row = row /\ Labels.width[m] = width
  <2>1. Labels = [row |-> st.row, width |-> Clipped(st), ends |-> st.ends, last |-> st.last]
    BY <1>3, <1>5 DEF st
  <2>2. QED
    BY <2>1
<1>7. /\ \A k \in Markers : X(k) \in Nat /\ cueAt[k] \in Nat /\ row[k] \in Nat
      /\ \A k \in Markers : Wanted[k] \in Nat /\ Wanted[k] > 0
  BY <1>5, PlacedIn, WantedType DEF Rows
<1> HIDE DEF row
<1>8. width = IF crossing = {} THEN st.width[m] ELSE Shorter(st.width[m], room)
  BY <1>2 DEF Clipped
<1>9. crossing # {} => /\ room \in Int /\ \A o \in crossing : room <= X(o) - X(m) - LabelGap
                       /\ \E o \in crossing : room = X(o) - X(m) - LabelGap
  <2>1. SUFFICES ASSUME crossing # {}
                 PROVE  /\ room \in Int /\ \A o \in crossing : room <= X(o) - X(m) - LabelGap
                        /\ \E o \in crossing : room = X(o) - X(m) - LabelGap
    OBVIOUS
  <2>2. \A o \in crossing : o \in Markers /\ X(o) \in Nat
    BY <1>2, <1>7 DEF Crossing
  <2>3. Heads \in SUBSET Nat /\ Heads # {}
    BY <2>1, <2>2
  <2>4. Min(Heads) \in Heads /\ \A x \in Heads : Min(Heads) <= x
    <3> HIDE DEF Heads
    <3>1. QED
      BY <2>3, MinIsLeast
  <2> DEFINE least == Min(Heads)
  <2>5. /\ least \in Nat /\ X(m) \in Nat /\ \A o \in crossing : least <= X(o)
        /\ \E o \in crossing : least = X(o)
    BY <1>2, <1>7, <2>3, <2>4
  <2>6. room = least - X(m) - LabelGap
    OBVIOUS
  <2> HIDE DEF least, room, crossing
  <2>7. QED
    BY <2>2, <2>5, <2>6 DEF LabelGap
<1>10. /\ \A o \in placed : InTheWay(o) /\ cueAt[m] # cueAt[o] => o \in crossing
       /\ \A o \in crossing : o \in placed /\ InTheWay(o)
  BY <1>2, <1>7 DEF Crossing, Before, row
<1> HIDE DEF crossing, room, Heads
<1>11. /\ crossing # {} => /\ width \in Nat /\ width <= st.width[m] /\ (width > 0 => width <= room)
                           /\ width < st.width[m] => room < st.width[m]
       /\ crossing = {} => width = st.width[m]
  BY <1>2, <1>5, <1>8, <1>9, ShorterFits
<1> HIDE DEF width
<1>12. st.width[m] \in Nat /\ Wanted[m] \in Nat /\ X(m) \in Nat
  BY <1>2, <1>5, <1>7
<1>13. ASSUME width > 0, NEW o \in placed, InTheWay(o)
       PROVE  X(m) + LabelOffset + width < X(o)
  <2>1. o \in Markers /\ X(o) \in Nat
    BY <1>2, <1>7
  <2>2. cueAt[m] # cueAt[o]
    <3>1. SUFFICES ASSUME cueAt[m] = cueAt[o] PROVE FALSE
      OBVIOUS
    <3>2. st.width[m] = 0
      BY <1>5, <1>13, <3>1 DEF SameTime, row
    <3>3. QED
      BY <1>11, <1>13, <3>2
  <2>3. o \in crossing
    BY <1>10, <1>13, <2>2
  <2>4. /\ width \in Nat /\ width <= room /\ room \in Int
        /\ room <= X(o) - X(m) - LabelGap
    BY <1>9, <1>11, <1>13, <2>3
  <2>5. QED
    BY <1>12, <2>1, <2>4 DEF LabelOffset, LabelGap
<1>14. ASSUME width < Wanted[m]
       PROVE  \E o \in placed : InTheWay(o) /\ X(o) < X(m) + Wanted[m] + LabelGap
  <2>1. CASE st.width[m] < Wanted[m]
    <3>1. PICK o \in placed : /\ Before(m, o) /\ row[m] = row[o]
                              /\ X(o) < X(m) + Wanted[m]
      BY <1>5, <2>1 DEF CutFor, row
    <3>2. o \in Markers /\ X(o) \in Nat /\ row[o] \in Nat
      BY <1>2, <1>7
    <3>3. InTheWay(o)
      BY <3>1, <3>2
    <3>4. X(o) < X(m) + Wanted[m] + LabelGap
      BY <1>12, <3>1, <3>2 DEF LabelGap
    <3>5. QED
      BY <3>3, <3>4
  <2>2. CASE ~(st.width[m] < Wanted[m])
    <3>1. st.width[m] = Wanted[m]
      BY <1>5, <1>12, <2>2
    <3>2. crossing # {} /\ room < Wanted[m]
      <4>1. width < st.width[m]
        BY <1>14, <3>1
      <4>2. crossing # {}
        BY <1>11, <1>12, <4>1
      <4>3. room < st.width[m]
        BY <1>11, <4>1, <4>2
      <4>4. QED
        BY <3>1, <4>2, <4>3
    <3>3. PICK o \in crossing : room = X(o) - X(m) - LabelGap
      BY <1>9, <3>2
    <3>4. o \in placed /\ InTheWay(o)
      BY <1>10
    <3>5. X(o) \in Nat
      BY <1>2, <1>7, <3>4
    <3>6. X(o) < X(m) + Wanted[m] + LabelGap
      BY <1>12, <3>2, <3>3, <3>5 DEF LabelGap
    <3>7. QED
      BY <3>4, <3>6
  <2>3. QED
    BY <2>1, <2>2
<1>15. QED
  BY <1>6, <1>13, <1>14

\* The markers, the zoom and the drag keep their types.
LEMMA TimelineStep ==
  ASSUME TimelineTypeOK, [TimelineNext]_timelineVars
  PROVE  TimelineTypeOK'
<1>1. \A at \in Int : ClampCueTime(at) \in Times
  <2>1. SUFFICES ASSUME NEW at \in Int PROVE ClampCueTime(at) \in Times
    OBVIOUS
  <2> DEFINE less == Min({at, SongLength})
  <2>2. less = IF at <= SongLength THEN at ELSE SongLength
    BY TimelineAssumption DEF Min
  <2>3. less \in Int /\ less <= SongLength
    BY <2>2, TimelineAssumption
  <2> HIDE DEF less
  <2>4. Max({0, less}) = IF less <= 0 THEN 0 ELSE less
    BY <2>3 DEF Max
  <2>5. ClampCueTime(at) = Max({0, less})
    BY DEF ClampCueTime, less
  <2>6. QED
    BY <2>3, <2>4, <2>5, TimelineAssumption DEF Times
<1>2. ASSUME NEW m \in Markers, NEW at \in Int, Moved(m, at)
      PROVE  cueAt' \in [Markers -> Times]
  BY <1>1, <1>2 DEF Moved, TimelineTypeOK
<1>3. CASE UNCHANGED timelineVars
  BY <1>3 DEF timelineVars, TimelineTypeOK
<1>4. ASSUME NEW m \in Markers, NEW at \in Times, AddMarker(m, at)
      PROVE  TimelineTypeOK'
  <2>1. at \in Int
    BY DEF Times
  <2>2. QED
    BY <1>2, <1>4, <2>1 DEF AddMarker, TimelineTypeOK
<1>5. ASSUME NEW m \in Markers, RemoveMarker(m)
      PROVE  TimelineTypeOK'
  <2>1. 0 \in Times
    BY TimelineAssumption DEF Times
  <2>2. QED
    BY <1>5, <2>1 DEF RemoveMarker, TimelineTypeOK
<1>6. ASSUME NEW m \in Markers, NEW direction \in {-1, 1}, NEW shift \in BOOLEAN,
             Nudge(m, direction, shift)
      PROVE  TimelineTypeOK'
  <2> DEFINE by == direction * (IF shift THEN ShiftStep ELSE 1)
  <2>1. by \in Int
    BY TimelineAssumption
  <2> HIDE DEF by
  <2>2. cueAt[m] + by \in Int
    BY <2>1 DEF TimelineTypeOK, Times
  <2>3. cueAt' \in [Markers -> Times]
    BY <1>2, <1>6, <2>2 DEF Nudge, by
  <2>4. QED
    BY <1>6, <2>3 DEF Nudge, TimelineTypeOK
<1>7. ASSUME NEW m \in Markers, StartDrag(m)
      PROVE  TimelineTypeOK'
  BY <1>7 DEF StartDrag, TimelineTypeOK
<1>8. ASSUME NEW at \in -1..SongLength + 1, EndDrag(at)
      PROVE  TimelineTypeOK'
  <2>1. at \in Int
    BY TimelineAssumption
  <2>2. cueAt' \in [Markers -> Times]
    BY <1>2, <1>8, <2>1 DEF EndDrag, TimelineTypeOK
  <2>3. QED
    BY <1>8, <2>2 DEF EndDrag, TimelineTypeOK
<1>9. ASSUME Measure \/ \E s \in Scales : Zoom(s)
      PROVE  TimelineTypeOK'
  BY <1>9 DEF Measure, Zoom, TimelineTypeOK
<1>10. QED
  BY <1>3, <1>4, <1>5, <1>6, <1>7, <1>8, <1>9 DEF TimelineNext

\* Heads first no marker is placed.
LEMMA TimelineStart ==
  ASSUME TimelineInit
  PROVE  TimelineTypeOK
<1>1. 0 \in Times
  BY TimelineAssumption DEF Times
<1>2. QED
  BY <1>1 DEF TimelineInit, TimelineTypeOK

-----------------------------------------------------------------------------
(* The revert of the visual editor (VisualEditor).                          *)

Colors == Lengths \cup {0}
Files == [text : [Elements -> Nat], color : [Elements -> Colors], hue : [Lengths -> Lengths]]
Description == [text : Nat \cup {Blank}, color : Colors, hue : [Lengths -> Lengths]]
SaveRuns == [next : {"text", "color", "end"}, column : Nat, info : Description, shown : BOOLEAN]

Typed == [text : Colors \cup {Blank}, color : Colors]

OverlayTypeOK ==
    /\ source \in Files /\ tagged \in [Elements -> Nat] /\ target \in Nat
    /\ info \in Description \cup {Blank} /\ described \in SUBSET (Description \cup {Blank})
    /\ typed \in Typed
    /\ saveRun \in SaveRuns \cup {Blank} /\ muddled \in BOOLEAN
    /\ applied \in Seq(Inverses) /\ reverting \in Seq(Inverses) \cup {Blank}

\* The elements of a line of the files that stand at a column.
TaggedIn(files, column) == {i \in Elements : ColumnsOf(files)[i] = column}
EditedIn(files, field, column, value) ==
    [files EXCEPT ![field] = [i \in Elements |-> IF i \in TaggedIn(files, column) THEN value ELSE @[i]]]

\* An inverse operation turns the files into what they were; a text is where it can be found.
Undoes(files, inverse, before) ==
    IF inverse.field = "hue" THEN before = [files EXCEPT !.hue[inverse.place] = inverse.old]
    ELSE /\ TaggedIn(files, inverse.place) # {}
         /\ inverse.field = "text" =>
               \A i \in TaggedIn(files, inverse.place) : Kept(i, files.text[i])
         /\ before = EditedIn(files, inverse.field, inverse.place, inverse.old)

\* What was saved, the first save first, and what is to be reverted, the latest first, leads
\* from the files, each to the files before, to the original.
Leads(inverses, files) ==
    \E h : /\ h[0] = Original /\ h[Len(inverses)] = files
           /\ \A i \in 0..Len(inverses) : h[i] \in Files
           /\ \A i \in 1..Len(inverses) : Undoes(h[i], inverses[i], h[i - 1])
LeadsBack(inverses, files) ==
    \E h : /\ h[0] = Original /\ h[Len(inverses)] = files
           /\ \A i \in 0..Len(inverses) : h[i] \in Files
           /\ \A i \in 1..Len(inverses) :
                  Undoes(h[i], inverses[Len(inverses) + 1 - i], h[i - 1])

RevertInv ==
    ~muddled => /\ reverting = Blank => Leads(applied, source)
                /\ reverting # Blank => applied = <<>> /\ LeadsBack(reverting, source)

OverlayInv == OverlayTypeOK /\ RevertInv
\* Once muddled, nothing is promised.
OverlayHolds == ~muddled => OverlayInv

\* The recursion over the elements is one: an element stands behind the one before it.
LEMMA ColumnsAreOneMore ==
  ASSUME NEW files \in Files
  PROVE  ColumnsOf(files) =
            [i \in Elements |-> IF i = 1 THEN 1
                                ELSE ColumnsOf(files)[i - 1] + files.text[i - 1] + files.color[i - 1] + 1]
<1> DEFINE Next(f, i) == IF i = 1 THEN 1 ELSE f[i - 1] + files.text[i - 1] + files.color[i - 1] + 1
           Good(n) == \E f : f = [i \in 1..n |-> Next(f, i)]
           N == {n \in Nat : Good(n)}
<1>1. 0 \in N
  <2>1. [i \in 1..0 |-> 0] = [i \in 1..0 |-> Next([j \in 1..0 |-> 0], i)]
    OBVIOUS
  <2>2. QED
    BY <2>1
<1>2. ASSUME NEW n \in Nat, n \in N
      PROVE  n + 1 \in N
  <2>1. PICK f : f = [i \in 1..n |-> Next(f, i)]
    BY <1>2
  <2> DEFINE g == [i \in 1..n + 1 |-> Next(f, i)]
  <2>2. ASSUME NEW i \in 1..n + 1
        PROVE  Next(g, i) = Next(f, i)
    <3>1. CASE i = 1
      BY <3>1
    <3>2. CASE i # 1
      <4>1. i - 1 \in 1..n /\ i - 1 \in 1..n + 1
        BY <3>2
      <4>2. g[i - 1] = Next(f, i - 1)
        BY <4>1
      <4>3. f[i - 1] = Next(f, i - 1)
        <5> HIDE DEF Next
        <5>1. QED
          BY <2>1, <4>1
      <4>4. QED
        BY <3>2, <4>2, <4>3
    <3>3. QED
      BY <3>1, <3>2
  <2>3. g = [i \in 1..n + 1 |-> Next(g, i)]
    <3> HIDE DEF Next
    <3>1. QED
      BY <2>2
  <2>4. QED
    <3> HIDE DEF Next, g
    <3>1. QED
      BY <2>3
<1> HIDE DEF N
<1>3. LineOf \in N
  BY <1>1, <1>2, Induction, OverlayAssumption
<1>4. \E f : f = [i \in Elements |-> Next(f, i)]
  BY <1>3 DEF N, Elements
<1>5. ColumnsOf(files) = CHOOSE f : f = [i \in Elements |-> Next(f, i)]
  BY DEF ColumnsOf
<1>6. ColumnsOf(files) = [i \in Elements |-> Next(ColumnsOf(files), i)]
  <2> HIDE DEF Next
  <2>1. QED
    BY <1>4, <1>5
<1>7. QED
  BY <1>6

\* The next column is behind the element's own text and class.
LEMMA NextColumn ==
  ASSUME NEW files \in Files
  PROVE  /\ 1 \in Elements /\ ColumnsOf(files)[1] = 1
         /\ \A i \in Elements : i + 1 \in Elements =>
                /\ files.text[i] \in Nat /\ files.color[i] \in Nat
                /\ ColumnsOf(files)[i + 1] = ColumnsOf(files)[i] + files.text[i] + files.color[i] + 1
<1>1. 1 \in Elements
  BY OverlayAssumption DEF Elements
<1>2. \A i \in Elements : files.text[i] \in Nat /\ files.color[i] \in Nat
  <2>1. Colors \subseteq Nat
    BY OverlayAssumption DEF Colors
  <2>2. files.text \in [Elements -> Nat] /\ files.color \in [Elements -> Colors]
    BY DEF Files
  <2>3. QED
    BY <2>1, <2>2
<1> DEFINE col == ColumnsOf(files)
<1>3. \A i \in Elements : col[i] = IF i = 1 THEN 1
                                   ELSE col[i - 1] + files.text[i - 1] + files.color[i - 1] + 1
  BY ColumnsAreOneMore
<1> HIDE DEF col
<1>4. ASSUME NEW i \in Elements, i + 1 \in Elements
      PROVE  col[i + 1] = col[i] + files.text[i] + files.color[i] + 1
  <2>1. i + 1 # 1 /\ (i + 1) - 1 = i
    BY DEF Elements
  <2>2. QED
    BY <1>3, <1>4, <2>1
<1>5. QED
  BY <1>1, <1>2, <1>3, <1>4 DEF col

\* An element stands behind all before it.
LEMMA ColumnsIncrease ==
  ASSUME NEW files \in Files
  PROVE  /\ ColumnsOf(files) \in [Elements -> Nat]
         /\ \A i, j \in Elements : i < j => ColumnsOf(files)[i] < ColumnsOf(files)[j]
<1> DEFINE col == ColumnsOf(files)
           N == {n \in Nat : n + 1 \in Elements =>
                                col[n + 1] \in Nat /\ \A i \in 1..n : col[i] < col[n + 1]}
<1>1. /\ 1 \in Elements /\ col[1] = 1
      /\ \A i \in Elements : i + 1 \in Elements =>
             /\ files.text[i] \in Nat /\ files.color[i] \in Nat
             /\ col[i + 1] = col[i] + files.text[i] + files.color[i] + 1
  BY NextColumn
<1>2. DOMAIN col = Elements /\ col = [i \in Elements |-> col[i]]
  BY ColumnsAreOneMore
<1> HIDE DEF col
<1>3. 0 \in N
  BY <1>1
<1>4. ASSUME NEW n \in Nat, n \in N
      PROVE  n + 1 \in N
  <2>1. SUFFICES ASSUME (n + 1) + 1 \in Elements
                 PROVE  /\ col[(n + 1) + 1] \in Nat
                        /\ \A i \in 1..n + 1 : col[i] < col[(n + 1) + 1]
    OBVIOUS
  <2>2. n + 1 \in Elements
    BY <2>1, OverlayAssumption DEF Elements
  <2>3. col[n + 1] \in Nat /\ \A i \in 1..n : col[i] < col[n + 1]
    BY <1>4, <2>2
  <2>4. PICK a \in Nat, b \in Nat : col[(n + 1) + 1] = col[n + 1] + a + b + 1
    BY <1>1, <2>1, <2>2
  <2>5. \A i \in 1..n : col[i] \in Nat
    <3>1. \A i \in 1..n : i \in Elements
      BY <2>2, OverlayAssumption DEF Elements
    <3>2. \A i \in 1..n : i - 1 \in Nat /\ (i - 1) + 1 = i
      OBVIOUS
    <3> DEFINE M == {m \in Nat : m + 1 \in Elements => col[m + 1] \in Nat}
    <3>3. 0 \in M
      BY <1>1
    <3>4. ASSUME NEW m \in Nat, m \in M PROVE m + 1 \in M
      <4>1. CASE (m + 1) + 1 \in Elements
        <5>1. m + 1 \in Elements
          BY <4>1, OverlayAssumption DEF Elements
        <5>2. QED
          BY <1>1, <3>4, <4>1, <5>1
      <4>2. CASE (m + 1) + 1 \notin Elements
        BY <4>2
      <4>3. QED
        BY <4>1, <4>2
    <3> HIDE DEF M
    <3>5. \A m \in Nat : m \in M
      BY <3>3, <3>4, Induction
    <3>6. QED
      BY <3>1, <3>2, <3>5 DEF M
  <2>6. QED
    BY <2>3, <2>4, <2>5
<1> HIDE DEF N
<1>5. \A n \in Nat : n \in N
  BY <1>3, <1>4, Induction
<1>6. \A j \in Elements : j - 1 \in Nat /\ (j - 1) + 1 = j
  BY OverlayAssumption DEF Elements
<1>7. \A j \in Elements : col[j] \in Nat /\ \A i \in 1..j - 1 : col[i] < col[j]
  BY <1>5, <1>6 DEF N
<1>8. \A i, j \in Elements : i < j => i \in 1..j - 1
  BY OverlayAssumption DEF Elements
<1>9. col \in [Elements -> Nat]
  BY <1>2, <1>7
<1>10. QED
  BY <1>7, <1>8, <1>9 DEF col

\* Where it stands depends on those before it only.
LEMMA ColumnsAreLocal ==
  ASSUME NEW files \in Files, NEW other \in Files, NEW e \in Elements,
         \A j \in Elements : j < e => files.text[j] = other.text[j] /\ files.color[j] = other.color[j]
  PROVE  ColumnsOf(files)[e] = ColumnsOf(other)[e]
<1> DEFINE N == {n \in Nat : n + 1 \in Elements /\ n + 1 <= e =>
                                ColumnsOf(files)[n + 1] = ColumnsOf(other)[n + 1]}
<1>1. 0 \in N
  BY NextColumn
<1>2. ASSUME NEW n \in Nat, n \in N
      PROVE  n + 1 \in N
  <2>1. SUFFICES ASSUME (n + 1) + 1 \in Elements, (n + 1) + 1 <= e
                 PROVE  ColumnsOf(files)[(n + 1) + 1] = ColumnsOf(other)[(n + 1) + 1]
    OBVIOUS
  <2>2. n + 1 \in Elements /\ n + 1 < e /\ n + 1 <= e
    BY <2>1, OverlayAssumption DEF Elements
  <2>3. ColumnsOf(files)[n + 1] = ColumnsOf(other)[n + 1]
    BY <1>2, <2>2
  <2>4. /\ ColumnsOf(files)[(n + 1) + 1] =
               ColumnsOf(files)[n + 1] + files.text[n + 1] + files.color[n + 1] + 1
        /\ ColumnsOf(other)[(n + 1) + 1] =
               ColumnsOf(other)[n + 1] + other.text[n + 1] + other.color[n + 1] + 1
    BY <2>1, <2>2, NextColumn
  <2>5. QED
    BY <2>2, <2>3, <2>4
<1> HIDE DEF N
<1>3. \A n \in Nat : n \in N
  BY <1>1, <1>2, Induction
<1>4. e - 1 \in Nat /\ (e - 1) + 1 = e
  BY OverlayAssumption DEF Elements
<1>5. e - 1 \in N
  BY <1>3, <1>4
<1>6. QED
  BY <1>4, <1>5 DEF N

\* At most one element stands at a column.
LEMMA OneTagged ==
  ASSUME NEW files \in Files, NEW column, NEW e \in TaggedIn(files, column)
  PROVE  TaggedIn(files, column) = {e} /\ e \in Elements
<1>1. \A i \in TaggedIn(files, column) : i = e
  <2>1. SUFFICES ASSUME NEW i \in Elements, ColumnsOf(files)[i] = column, i # e
                 PROVE  FALSE
    BY DEF TaggedIn
  <2>2. e \in Elements /\ ColumnsOf(files)[e] = column
    BY DEF TaggedIn
  <2>3. i < e \/ e < i
    BY <2>1, <2>2, OverlayAssumption DEF Elements
  <2>4. /\ ColumnsOf(files)[i] \in Nat /\ ColumnsOf(files)[e] \in Nat
        /\ i < e => ColumnsOf(files)[i] < ColumnsOf(files)[e]
        /\ e < i => ColumnsOf(files)[e] < ColumnsOf(files)[i]
    BY <2>1, <2>2, ColumnsIncrease
  <2>5. QED
    BY <2>1, <2>2, <2>3, <2>4
<1>2. QED
  BY <1>1 DEF TaggedIn

\* What an edit makes of the files.
LEMMA EditedFields ==
  ASSUME NEW files \in Files, NEW column, NEW value
  PROVE  /\ EditedIn(files, "text", column, value) =
               [text |-> [i \in Elements |-> IF i \in TaggedIn(files, column) THEN value
                                             ELSE files.text[i]],
                color |-> files.color, hue |-> files.hue]
         /\ EditedIn(files, "color", column, value) =
               [text |-> files.text,
                color |-> [i \in Elements |-> IF i \in TaggedIn(files, column) THEN value
                                              ELSE files.color[i]],
                hue |-> files.hue]
<1> DEFINE text == [i \in Elements |-> IF i \in TaggedIn(files, column) THEN value ELSE files.text[i]]
           color == [i \in Elements |-> IF i \in TaggedIn(files, column) THEN value ELSE files.color[i]]
<1>1. EditedIn(files, "text", column, value) = [files EXCEPT !["text"] = text]
  BY Zenon DEF EditedIn
<1>2. EditedIn(files, "color", column, value) = [files EXCEPT !["color"] = color]
  BY Zenon DEF EditedIn
<1> HIDE DEF text, color
<1>3. files = [text |-> files.text, color |-> files.color, hue |-> files.hue]
  BY DEF Files
<1>4. QED
  BY <1>1, <1>2, <1>3 DEF text, color

\* An edit is undone where it was done.
LEMMA EditIsUndone ==
  ASSUME NEW files \in Files, NEW field \in {"text", "color"}, NEW column,
         NEW e \in TaggedIn(files, column), NEW value \in Nat,
         field = "color" => value \in Colors,
         NEW old, old = files[field][e]
  PROVE  LET new == EditedIn(files, field, column, value)
         IN  /\ new \in Files /\ TaggedIn(new, column) = {e} /\ new[field][e] = value
             /\ EditedIn(new, field, column, old) = files
<1> DEFINE new == EditedIn(files, field, column, value)
           F(f) == f[field]
<1>1. e \in Elements /\ TaggedIn(files, column) = {e}
  BY OneTagged
<1>2. /\ files = [text |-> files.text, color |-> files.color, hue |-> files.hue]
      /\ files.text \in [Elements -> Nat] /\ files.color \in [Elements -> Colors]
      /\ files.hue \in [Lengths -> Lengths]
  BY DEF Files
<1>4. CASE field = "text"
  <2> DEFINE text == [i \in Elements |-> IF i = e THEN value ELSE files.text[i]]
  <2>1. new = [text |-> text, color |-> files.color, hue |-> files.hue]
    BY <1>1, <1>4, EditedFields
  <2>2. /\ text \in [Elements -> Nat] /\ \A i \in Elements : i # e => text[i] = files.text[i]
        /\ text[e] = value
    BY <1>1, <1>2
  <2>3. [i \in Elements |-> IF i = e THEN old ELSE text[i]] = files.text
    BY <1>2, <1>4
  <2> HIDE DEF text
  <2>4. new \in Files /\ new.text = text /\ new.color = files.color /\ new.hue = files.hue
    BY <1>2, <2>1, <2>2 DEF Files
  <2> HIDE DEF new
  <2>5. ColumnsOf(files)[e] = ColumnsOf(new)[e]
    <3>1. \A j \in Elements : j < e => j # e
      BY <1>1, OverlayAssumption DEF Elements
    <3>2. \A j \in Elements : j < e => files.text[j] = new.text[j] /\ files.color[j] = new.color[j]
      BY <2>2, <2>4, <3>1
    <3>3. QED
      BY <1>1, <2>4, <3>2, ColumnsAreLocal
  <2>6. e \in TaggedIn(new, column)
    BY <1>1, <2>5 DEF TaggedIn
  <2>7. TaggedIn(new, column) = {e}
    BY <2>4, <2>6, OneTagged
  <2>8. EditedIn(new, field, column, old) = [text |-> files.text, color |-> files.color, hue |-> files.hue]
    BY <1>4, <2>3, <2>4, <2>7, EditedFields
  <2>9. QED
    BY <1>2, <1>4, <2>2, <2>4, <2>7, <2>8 DEF new
<1>5. CASE field = "color"
  <2> DEFINE color == [i \in Elements |-> IF i = e THEN value ELSE files.color[i]]
  <2>1. new = [text |-> files.text, color |-> color, hue |-> files.hue]
    BY <1>1, <1>5, EditedFields
  <2>2. /\ color \in [Elements -> Colors] /\ \A i \in Elements : i # e => color[i] = files.color[i]
        /\ color[e] = value
    BY <1>1, <1>2, <1>5
  <2>3. [i \in Elements |-> IF i = e THEN old ELSE color[i]] = files.color
    BY <1>2, <1>5
  <2> HIDE DEF color
  <2>4. new \in Files /\ new.text = files.text /\ new.color = color /\ new.hue = files.hue
    BY <1>2, <2>1, <2>2 DEF Files
  <2> HIDE DEF new
  <2>5. ColumnsOf(files)[e] = ColumnsOf(new)[e]
    <3>1. \A j \in Elements : j < e => j # e
      BY <1>1, OverlayAssumption DEF Elements
    <3>2. \A j \in Elements : j < e => files.text[j] = new.text[j] /\ files.color[j] = new.color[j]
      BY <2>2, <2>4, <3>1
    <3>3. QED
      BY <1>1, <2>4, <3>2, ColumnsAreLocal
  <2>6. e \in TaggedIn(new, column)
    BY <1>1, <2>5 DEF TaggedIn
  <2>7. TaggedIn(new, column) = {e}
    BY <2>4, <2>6, OneTagged
  <2>8. EditedIn(new, field, column, old) = [text |-> files.text, color |-> files.color, hue |-> files.hue]
    BY <1>5, <2>3, <2>4, <2>7, EditedFields
  <2>9. QED
    BY <1>2, <1>5, <2>2, <2>4, <2>7, <2>8 DEF new
<1>6. QED
  BY <1>4, <1>5

\* A theme colour's hue is put back.
LEMMA HueIsUndone ==
  ASSUME NEW files \in Files, NEW c \in Lengths, NEW value \in Lengths
  PROVE  LET new == [files EXCEPT !.hue[c] = value]
         IN  new \in Files /\ [new EXCEPT !.hue[c] = files.hue[c]] = files
<1> DEFINE new == [files EXCEPT !.hue[c] = value]
           hue == [files.hue EXCEPT ![c] = value]
<1>1. /\ files = [text |-> files.text, color |-> files.color, hue |-> files.hue]
      /\ files.text \in [Elements -> Nat] /\ files.color \in [Elements -> Colors]
      /\ files.hue \in [Lengths -> Lengths]
  BY DEF Files
<1>2. new = [text |-> files.text, color |-> files.color, hue |-> hue]
  BY <1>1
<1>3. hue \in [Lengths -> Lengths] /\ [hue EXCEPT ![c] = files.hue[c]] = files.hue
  BY <1>1
<1> HIDE DEF hue
<1>4. new \in Files
  BY <1>1, <1>2, <1>3 DEF Files
<1>5. [new EXCEPT !.hue[c] = files.hue[c]] = [text |-> files.text, color |-> files.color, hue |-> files.hue]
  <2>1. new.hue = hue /\ new.text = files.text /\ new.color = files.color
        /\ new = [text |-> new.text, color |-> new.color, hue |-> new.hue]
    BY <1>2
  <2> HIDE DEF new
  <2>2. [new EXCEPT !.hue[c] = files.hue[c]] = [new EXCEPT !.hue = [new.hue EXCEPT ![c] = files.hue[c]]]
    BY <2>1
  <2>3. [new.hue EXCEPT ![c] = files.hue[c]] = files.hue
    BY <1>3, <2>1
  <2>4. QED
    BY <2>1, <2>2, <2>3
<1>6. QED
  BY <1>1, <1>4, <1>5

\* A save puts one more inverse behind those it found.
LEMMA LeadsFurther ==
  ASSUME NEW s \in Seq(Inverses), NEW files, NEW new \in Files, NEW inverse \in Inverses,
         Leads(s, files), Undoes(new, inverse, files)
  PROVE  Leads(Append(s, inverse), new)
<1> DEFINE n == Len(s)
           t == Append(s, inverse)
<1>1. PICK h : /\ h[0] = Original /\ h[n] = files
               /\ \A i \in 0..n : h[i] \in Files
               /\ \A i \in 1..n : Undoes(h[i], s[i], h[i - 1])
  BY DEF Leads
<1>2. n \in Nat /\ Len(t) = n + 1 /\ t[n + 1] = inverse /\ \A i \in 1..n : t[i] = s[i]
  OBVIOUS
<1> HIDE DEF n, t
<1> DEFINE g == [i \in 0..n + 1 |-> IF i = n + 1 THEN new ELSE h[i]]
<1>3. g[n + 1] = new /\ \A i \in 0..n : g[i] = h[i]
  BY <1>2
<1>4. 0 \in 0..n /\ n \in 0..n
  BY <1>2
<1> HIDE DEF g
<1>5. \A i \in 0..n + 1 : g[i] \in Files
  <2>1. \A i \in 0..n + 1 : i = n + 1 \/ i \in 0..n
    BY <1>2
  <2>2. QED
    BY <1>1, <1>3, <2>1
<1>6. ASSUME NEW i \in 1..n + 1
      PROVE  Undoes(g[i], t[i], g[i - 1])
  <2>1. CASE i = n + 1
    <3>1. g[i] = new /\ t[i] = inverse /\ g[i - 1] = files
      <4>1. i - 1 = n
        BY <1>2, <2>1
      <4>2. QED
        BY <1>1, <1>2, <1>3, <1>4, <2>1, <4>1
    <3>2. QED
      BY <3>1
  <2>2. CASE i # n + 1
    <3>1. i \in 1..n /\ i \in 0..n /\ i - 1 \in 0..n
      BY <1>2, <2>2
    <3>2. g[i] = h[i] /\ g[i - 1] = h[i - 1] /\ t[i] = s[i]
      BY <1>2, <1>3, <3>1
    <3>3. QED
      BY <1>1, <3>1, <3>2
  <2>3. QED
    BY <2>1, <2>2
<1>7. g[0] = Original /\ g[Len(t)] = new
  BY <1>1, <1>2, <1>3, <1>4
<1>8. Leads(t, new)
  BY <1>2, <1>5, <1>6, <1>7 DEF Leads
<1>9. QED
  BY <1>8 DEF t

\* Reverted is the latest first.
LEMMA LeadsBackwards ==
  ASSUME NEW s \in Seq(Inverses), NEW files, Leads(s, files)
  PROVE  Reverse(s) \in Seq(Inverses) /\ LeadsBack(Reverse(s), files)
<1> DEFINE n == Len(s)
           r == Reverse(s)
<1>1. n \in Nat /\ r = [i \in 1..n |-> s[(n - i) + 1]]
  BY DEF Reverse
<1>2. \A i \in 1..n : (n - i) + 1 \in 1..n /\ s[i] \in Inverses
  BY <1>1
<1>3. r \in Seq(Inverses)
  <2>1. r \in [1..n -> Inverses]
    BY <1>1, <1>2
  <2>2. QED
    BY <1>1, <2>1
<1>4. Len(r) = n
  BY <1>1, <1>3
<1> HIDE DEF n, r
<1>5. \A i \in 1..n : r[n + 1 - i] = s[i]
  <2>1. ASSUME NEW i \in 1..n
        PROVE  r[n + 1 - i] = s[i]
    <3>1. n + 1 - i \in 1..n /\ (n - (n + 1 - i)) + 1 = i
      BY <1>1
    <3>2. QED
      BY <1>1, <3>1
  <2>2. QED
    BY <2>1
<1>6. PICK h : /\ h[0] = Original /\ h[n] = files
               /\ \A i \in 0..n : h[i] \in Files
               /\ \A i \in 1..n : Undoes(h[i], s[i], h[i - 1])
  BY DEF Leads, n
<1>7. \A i \in 1..n : Undoes(h[i], r[n + 1 - i], h[i - 1])
  BY <1>5, <1>6
<1>8. LeadsBack(r, files)
  BY <1>4, <1>6, <1>7 DEF LeadsBack
<1>9. QED
  BY <1>3, <1>8 DEF r

\* The first of what is to be reverted undoes the latest save.
LEMMA LeadsBackByOne ==
  ASSUME NEW r \in Seq(Inverses), r # <<>>, NEW files, LeadsBack(r, files)
  PROVE  \E before \in Files : /\ Undoes(files, Head(r), before)
                               /\ LeadsBack(Tail(r), before)
<1> DEFINE n == Len(r)
           t == Tail(r)
<1>1. n \in Nat /\ n > 0 /\ Head(r) = r[1] /\ Len(t) = n - 1 /\ n - 1 \in Nat
  OBVIOUS
<1>2. \A i \in 1..n - 1 : t[i] = r[i + 1]
  OBVIOUS
<1>3. PICK h : /\ h[0] = Original /\ h[n] = files
               /\ \A i \in 0..n : h[i] \in Files
               /\ \A i \in 1..n : Undoes(h[i], r[n + 1 - i], h[i - 1])
  BY DEF LeadsBack
<1> HIDE DEF n, t
<1>4. n \in 1..n /\ n + 1 - n = 1 /\ n - 1 \in 0..n
  BY <1>1
<1>5. Undoes(files, Head(r), h[n - 1]) /\ h[n - 1] \in Files
  BY <1>1, <1>3, <1>4
<1>6. \A i \in 1..n - 1 : Undoes(h[i], t[(n - 1) + 1 - i], h[i - 1])
  <2>1. ASSUME NEW i \in 1..n - 1
        PROVE  Undoes(h[i], t[(n - 1) + 1 - i], h[i - 1])
    <3>1. (n - 1) + 1 - i \in 1..n - 1 /\ ((n - 1) + 1 - i) + 1 = n + 1 - i /\ i \in 1..n
      BY <1>1
    <3>2. t[(n - 1) + 1 - i] = r[n + 1 - i]
      BY <1>2, <3>1
    <3>3. Undoes(h[i], r[n + 1 - i], h[i - 1])
      BY <1>3, <3>1
    <3>4. QED
      BY <3>2, <3>3
  <2>2. QED
    BY <2>1
<1>7. \A i \in 0..n - 1 : h[i] \in Files
  BY <1>1, <1>3
<1>8. LeadsBack(t, h[n - 1])
  BY <1>1, <1>3, <1>6, <1>7 DEF LeadsBack
<1>9. QED
  BY <1>5, <1>8 DEF t

\* Before the first save, nothing is to be undone.
LEMMA LeadsNowhere ==
  ASSUME NEW files, files \in Files
  PROVE  (Leads(<<>>, files) <=> files = Original) /\ (LeadsBack(<<>>, files) <=> files = Original)
<1>1. /\ Len(<<>>) = 0 /\ \A i \in 1..0 : FALSE
      /\ \A i \in 0..0 : i = 0
  OBVIOUS
<1>2. ASSUME Leads(<<>>, files) \/ LeadsBack(<<>>, files)
      PROVE  files = Original
  BY <1>1, <1>2 DEF Leads, LeadsBack
<1>3. ASSUME files = Original
      PROVE  Leads(<<>>, files) /\ LeadsBack(<<>>, files)
  <2> DEFINE h == [i \in 0..0 |-> Original]
  <2>1. h[0] = Original /\ \A i \in 0..0 : h[i] \in Files
    BY <1>3
  <2> HIDE DEF h
  <2>2. QED
    BY <1>1, <1>3, <2>1 DEF Leads, LeadsBack
<1>4. QED
  BY <1>2, <1>3

\* The original files: no class is longer than a colour of the palette.
LEMMA OriginalFiles == Original \in Files
<1>1. \A i \in Elements : i - 1 \in Colors
  <2>1. \A i \in Elements : i = 1 \/ i - 1 \in 1..LineOf - 1
    BY OverlayAssumption DEF Elements
  <2>2. QED
    BY <2>1, OverlayAssumption DEF Colors
<1>2. QED
  BY <1>1 DEF Original, Files

\* At first nothing was saved.
LEMMA OverlayStart == OverlayInit => OverlayHolds
<1> SUFFICES ASSUME OverlayInit PROVE OverlayInv
  BY DEF OverlayHolds
<1>1. source \in Files
  BY OriginalFiles DEF OverlayInit
<1>2. tagged \in [Elements -> Nat]
  BY <1>1, ColumnsIncrease DEF OverlayInit, Columns
<1>3. typed \in Typed
  BY DEF OverlayInit, NoEdits, Typed, Colors
<1>4. applied \in Seq(Inverses)
  BY DEF OverlayInit
<1>5. Leads(applied, source)
  BY <1>1, LeadsNowhere DEF OverlayInit
<1>6. OverlayTypeOK
  BY <1>1, <1>2, <1>3, <1>4 DEF OverlayTypeOK, OverlayInit
<1>7. RevertInv
  BY <1>5 DEF RevertInv, OverlayInit
<1>8. QED
  BY <1>6, <1>7 DEF OverlayInv

\* When nothing is left to be undone, the files are the original.
LEMMA OverlayInvSuffices == OverlayHolds => RevertRestores
  BY LeadsNowhere DEF OverlayHolds, OverlayInv, OverlayTypeOK, RevertInv, RevertRestores

\* What is described is a description.
LEMMA DescribesOne ==
  ASSUME OverlayTypeOK, NEW column, Describe(column)
  PROVE  described' \in SUBSET (Description \cup {Blank})
<1>1. ASSUME NEW i \in Tagged(column)
      PROVE  [text |-> IF Gone(i, source.text[i]) THEN Blank ELSE Shown(i, source.text[i]),
              color |-> source.color[i], hue |-> source.hue] \in Description
  <2>1. /\ source.text[i] \in Nat /\ source.color[i] \in Colors
        /\ source.hue \in [Lengths -> Lengths]
    BY DEF OverlayTypeOK, Files, Tagged
  <2>2. Shown(i, source.text[i]) \in Nat
    <3>1. \A n \in Loose : n \in Nat /\ n - 1 \in Nat
      BY OverlayAssumption
    <3>2. QED
      BY <2>1, <3>1 DEF Shown
  <2>3. QED
    BY <2>1, <2>2 DEF Description
<1>2. QED
  BY <1>1 DEF Describe

\* What a field holds, after an edit of it.
LEMMA EditedIs ==
  ASSUME NEW field, NEW column, NEW value
  PROVE  Edited(field, column, value) = EditedIn(source, field, column, value)
  BY Zenon DEF Edited, EditedIn, Tagged, TaggedIn, Columns

\* The page, the panel and a save that ends leave the files and their inverses alone.
LEMMA PageStep ==
  ASSUME OverlayInv,
         \/ \E i \in Elements : SelectElement(i)
         \/ \E answer \in described : Described(answer)
         \/ \E n \in Lengths \cup {0} : PreviewText(n)
         \/ \E n \in Lengths : PreviewColor(n)
         \/ DropPreview \/ HotReload \/ SaveElement \/ NoText \/ SaveEnds \/ ElementSaveFails
         \/ UNCHANGED overlayVars
  PROVE  OverlayInv'
<1> USE DEF OverlayInv
<1>1. UNCHANGED <<sourceVars, undoVars>>
  BY DEF SelectElement, Described, PreviewText, PreviewColor, DropPreview, HotReload,
         SaveElement, NoText, SaveEnds, ElementSaveFails, overlayVars
<1>2. RevertInv'
  BY <1>1 DEF RevertInv, sourceVars, undoVars
<1>3. /\ source' \in Files /\ muddled' \in BOOLEAN /\ applied' \in Seq(Inverses)
      /\ reverting' \in Seq(Inverses) \cup {Blank}
  BY <1>1 DEF OverlayTypeOK, sourceVars, undoVars
<1>4. NoEdits \in Typed
  BY DEF NoEdits, Typed, Colors
<1>5. ASSUME NEW i \in Elements, SelectElement(i) PROVE OverlayTypeOK'
  <2>1. tagged[i] \in Nat
    BY DEF OverlayTypeOK
  <2>2. described' \in SUBSET (Description \cup {Blank})
    BY <1>5, DescribesOne DEF SelectElement
  <2>3. QED
    BY <1>3, <1>4, <1>5, <2>1, <2>2 DEF OverlayTypeOK, SelectElement
<1>6. ASSUME NEW answer \in described, Described(answer) PROVE OverlayTypeOK'
  <2>1. saveRun' \in SaveRuns \cup {Blank}
    <3>1. CASE saveRun = Blank
      BY <1>6, <3>1 DEF Described
    <3>2. CASE saveRun # Blank
      BY <1>6, <3>2 DEF Described, OverlayTypeOK, SaveRuns
    <3>3. QED
      BY <3>1, <3>2
  <2>2. answer \in Description \cup {Blank}
    BY <1>6 DEF OverlayTypeOK
  <2>3. QED
    BY <1>3, <1>6, <2>1, <2>2 DEF OverlayTypeOK, Described
<1>7. ASSUME NEW n \in Colors, PreviewText(n) \/ PreviewColor(n) PROVE OverlayTypeOK'
  <2>1. typed' \in Typed
    BY <1>7 DEF OverlayTypeOK, PreviewText, PreviewColor, Typed
  <2>2. QED
    BY <1>3, <1>7, <2>1 DEF OverlayTypeOK, PreviewText, PreviewColor, panelVars
<1>8. CASE DropPreview
  BY <1>2, <1>3, <1>4, <1>8 DEF OverlayTypeOK, DropPreview, panelVars
<1>9. CASE HotReload
  <2>1. Columns \in [Elements -> Nat]
    BY ColumnsIncrease DEF OverlayTypeOK, Columns
  <2>2. QED
    BY <1>2, <1>3, <1>4, <1>9, <2>1 DEF OverlayTypeOK, HotReload, panelVars
<1>10. CASE SaveElement
  <2>1. saveRun' \in SaveRuns
    BY <1>10 DEF OverlayTypeOK, SaveElement, SaveRuns
  <2>2. QED
    BY <1>2, <1>3, <1>10, <2>1 DEF OverlayTypeOK, SaveElement, panelVars
<1>11. CASE NoText
  <2>1. saveRun' \in SaveRuns
    BY <1>11 DEF OverlayTypeOK, NoText, Sends, SaveRuns
  <2>2. QED
    BY <1>2, <1>3, <1>11, <2>1 DEF OverlayTypeOK, NoText, panelVars
<1>12. CASE SaveEnds
  BY <1>2, <1>3, <1>4, <1>12 DEF OverlayTypeOK, SaveEnds, panelVars
<1>13. CASE ElementSaveFails
  BY <1>2, <1>3, <1>13 DEF OverlayTypeOK, ElementSaveFails, panelVars
<1>14. CASE UNCHANGED overlayVars
  BY <1>2, <1>3, <1>14 DEF OverlayTypeOK, overlayVars, panelVars
<1>16. Colors = Lengths \cup {0}
  BY DEF Colors
<1>15. QED
  BY <1>16, <1>2, <1>5, <1>6, <1>7, <1>8, <1>9, <1>10, <1>11, <1>12, <1>13, <1>14

\* A save that the server carried out leads on, unless its description was outdated.
LEMMA StoredStep ==
  ASSUME OverlayInv, ~muddled, saveRun # Blank, NEW files \in Files, NEW inverse \in Inverses,
         NEW field, NEW new, NEW next \in {"color", "end"}, Stored(files, inverse, field, new, next),
         [saveRun.info EXCEPT ![field] = new] \in Description,
         NEW outdated, Muddle(outdated), ~outdated => Undoes(files, inverse, source),
         UNCHANGED <<tagged, target, described, typed, reverting, elementSaves>>,
         outdated \in BOOLEAN
  PROVE  OverlayInv'
<1> DEFINE after == [saveRun.info EXCEPT ![field] = new]
<1> HIDE DEF after
<1>1. after \in Description
  BY DEF after
<1>2. /\ source' = files /\ applied' = Append(applied, inverse)
      /\ saveRun' = [saveRun EXCEPT !.info = after, !.next = next]
      /\ info' = IF saveRun.shown THEN after ELSE info
  BY DEF Stored, after
<1>3. saveRun' \in SaveRuns
  BY <1>1, <1>2 DEF OverlayInv, OverlayTypeOK, SaveRuns
<1>4. applied' \in Seq(Inverses) /\ muddled' \in BOOLEAN
  BY <1>2 DEF OverlayInv, OverlayTypeOK, Muddle
<1>5. OverlayTypeOK'
  BY <1>1, <1>2, <1>3, <1>4 DEF OverlayInv, OverlayTypeOK
<1>6. ASSUME ~muddled'
      PROVE  reverting' = Blank /\ Leads(applied', source')
  <2>1. ~outdated /\ reverting = Blank
    BY <1>6 DEF Muddle
  <2>2. Leads(applied, source) /\ applied \in Seq(Inverses)
    BY <2>1 DEF OverlayInv, OverlayTypeOK, RevertInv
  <2>3. Leads(Append(applied, inverse), files)
    BY <2>1, <2>2, LeadsFurther
  <2>4. QED
    BY <1>2, <2>1, <2>3
<1>7. RevertInv'
  BY <1>6 DEF RevertInv
<1>8. QED
  BY <1>5, <1>7 DEF OverlayInv

\* A text that was saved is undone at the column it was saved at.
LEMMA SaveTextStep ==
  ASSUME OverlayInv, ~muddled, SaveText
  PROVE  OverlayInv'
<1> DEFINE column == saveRun.column
           old == saveRun.info.text
           new == typed.text
           inverse == Undoing("text", column, old)
           outdated == Outdated("text") \/ \E i \in Here : ~Kept(i, source.text[i]) \/ ~Kept(i, new)
           after == [saveRun.info EXCEPT !["text"] = new]
<1>1. /\ saveRun \in SaveRuns /\ new \in Colors /\ source \in Files
      /\ old # Blank
  BY DEF SaveText, Sends, Old, OverlayInv, OverlayTypeOK, Typed
<1>2. /\ column \in Nat /\ old \in Nat /\ new \in Nat /\ saveRun.info \in Description
  <2>1. Colors \subseteq Nat
    BY OverlayAssumption DEF Colors
  <2>2. column \in Nat /\ saveRun.info \in Description
    BY <1>1 DEF SaveRuns
  <2> HIDE DEF column
  <2>3. QED
    BY <1>1, <2>1, <2>2 DEF Description
<1>3. PICK e \in Tagged(column) : TRUE
  BY DEF SaveText, Segment
<1>4. e \in TaggedIn(source, column)
  BY <1>3 DEF Tagged, TaggedIn, Columns
<1>14. PICK ends \in EndSpace("text", column, new) :
          Stored(Edited("text", column, new + ends), inverse, "text", new, "color")
  BY DEF SaveText, Old
<1>15. ends \in Nat /\ (~outdated => ends = 0)
  <2>1. EndSpace("text", column, new) \subseteq {0, 1}
    BY DEF EndSpace
  <2>2. (\A i \in Tagged(column) : Kept(i, source.text[i])) => EndSpace("text", column, new) = {0}
    BY DEF EndSpace
  <2>3. ~outdated => \A i \in Tagged(column) : Kept(i, source.text[i])
    BY DEF Here
  <2> HIDE DEF column, new, outdated
  <2>4. QED
    BY <1>14, <2>1, <2>2, <2>3
<1> DEFINE files == Edited("text", column, new + ends)
<1>5. files = EditedIn(source, "text", column, new + ends)
  BY EditedIs
<1>16. new + ends \in Nat /\ (~outdated => new + ends = new)
  BY <1>2, <1>15
<1>6. /\ files \in Files /\ TaggedIn(files, column) = {e} /\ files["text"][e] = new + ends
      /\ EditedIn(files, "text", column, source["text"][e]) = source
  <2> HIDE DEF new, column
  <2>1. QED
    BY <1>1, <1>4, <1>5, <1>16, EditIsUndone
<1>7. inverse \in Inverses /\ inverse.field = "text" /\ inverse.place = column /\ inverse.old = old
  BY <1>2 DEF Inverses, Undoing
<1>8. ~outdated => old = source["text"][e] /\ Kept(e, new)
  BY <1>3 DEF Outdated, Here, Old
<1>9. ~outdated => Undoes(files, inverse, source)
  <2> HIDE DEF files, inverse, outdated, old, column, new
  <2>1. SUFFICES ASSUME ~outdated PROVE Undoes(files, inverse, source)
    OBVIOUS
  <2>2. source = EditedIn(files, inverse.field, inverse.place, inverse.old)
    BY <1>6, <1>7, <1>8, <2>1
  <2>3. files["text"][e] = new
    BY <1>6, <1>16, <2>1
  <2>4. \A i \in TaggedIn(files, inverse.place) : Kept(i, files.text[i])
    BY <1>6, <1>7, <1>8, <2>1, <2>3
  <2>5. QED
    BY <1>6, <1>7, <2>2, <2>4 DEF Undoes
<1>10. after \in Description
  BY <1>2 DEF Description
<1>11. Stored(files, inverse, "text", new, "color") /\ Muddle(outdated)
       /\ UNCHANGED <<tagged, target, described, typed, reverting, elementSaves>>
       /\ saveRun # Blank
  BY <1>14 DEF SaveText, Old, Sends
<1>12. outdated \in BOOLEAN
  BY DEF Outdated
<1> HIDE DEF files, inverse, outdated, new
<1>13. QED
  BY <1>6, <1>7, <1>9, <1>10, <1>11, <1>12, StoredStep

\* So is a colour of one element.
LEMMA SaveColorStep ==
  ASSUME OverlayInv, ~muddled, SaveColor
  PROVE  OverlayInv'
<1> DEFINE column == saveRun.column
           old == saveRun.info.color
           new == typed.color
           files == Edited("color", column, new)
           inverse == Undoing("color", column, old)
           outdated == Outdated("color")
           after == [saveRun.info EXCEPT !["color"] = new]
<1>1. /\ saveRun \in SaveRuns /\ new \in Colors /\ source \in Files
  BY DEF SaveColor, Sends, OverlayInv, OverlayTypeOK, Typed
<1>2. /\ column \in Nat /\ old \in Nat /\ saveRun.info \in Description /\ new \in Nat
  <2>1. Colors \subseteq Nat
    BY OverlayAssumption DEF Colors
  <2>2. column \in Nat /\ saveRun.info \in Description
    BY <1>1 DEF SaveRuns
  <2> HIDE DEF column
  <2>3. QED
    BY <1>1, <2>1, <2>2 DEF Description
<1>3. PICK e \in Tagged(column) : TRUE
  BY DEF SaveColor, Here
<1>4. e \in TaggedIn(source, column)
  BY <1>3 DEF Tagged, TaggedIn, Columns
<1>5. files = EditedIn(source, "color", column, new)
  BY EditedIs
<1>6. files \in Files /\ TaggedIn(files, column) # {}
      /\ EditedIn(files, "color", column, source["color"][e]) = source
  <2> HIDE DEF new, column
  <2>1. QED
    BY <1>1, <1>2, <1>4, <1>5, EditIsUndone
<1>7. inverse \in Inverses /\ inverse.field = "color" /\ inverse.place = column /\ inverse.old = old
  BY <1>2 DEF Inverses, Undoing
<1>8. ~outdated => old = source["color"][e]
  BY <1>3 DEF Outdated, Here, Old
<1>9. ~outdated => Undoes(files, inverse, source)
  <2> HIDE DEF files, inverse, outdated, old, column, new
  <2>1. SUFFICES ASSUME ~outdated PROVE Undoes(files, inverse, source)
    OBVIOUS
  <2>2. source = EditedIn(files, inverse.field, inverse.place, inverse.old)
    BY <1>6, <1>7, <1>8, <2>1
  <2>3. QED
    BY <1>6, <1>7, <2>2 DEF Undoes
<1>10. after \in Description
  BY <1>1, <1>2 DEF Description
<1>11. Stored(files, inverse, "color", new, "end") /\ Muddle(outdated)
       /\ UNCHANGED <<tagged, target, described, typed, reverting, elementSaves>>
       /\ saveRun # Blank
  BY DEF SaveColor, Old, Sends
<1>12. outdated \in BOOLEAN
  BY DEF Outdated
<1> HIDE DEF files, inverse, outdated, new
<1>13. QED
  BY <1>6, <1>7, <1>9, <1>10, <1>11, <1>12, StoredStep

\* And the hue of a colour of the theme.
LEMMA SaveTokenStep ==
  ASSUME OverlayInv, ~muddled, SaveToken
  PROVE  OverlayInv'
<1> DEFINE c == saveRun.info.color
           hues == saveRun.info.hue
           new == typed.color
           value == hues[new]
           old == hues[c]
           files == [source EXCEPT !.hue[c] = value]
           inverse == Undoing("hue", c, old)
           outdated == hues # source.hue
           after == [saveRun.info EXCEPT !["color"] = new]
<1>1. saveRun \in SaveRuns /\ typed.color \in Colors /\ source \in Files
      /\ typed.color # 0 /\ saveRun.info.color # 0
  BY DEF SaveToken, Sends, Old, OverlayInv, OverlayTypeOK, Typed
<1>2. saveRun.info \in Description /\ hues \in [Lengths -> Lengths]
  BY <1>1 DEF SaveRuns, Description
<1>3. c \in Lengths /\ new \in Lengths
  BY <1>1, <1>2 DEF Colors, Description
<1>4. value \in Lengths /\ old \in Lengths /\ c \in Nat /\ old \in Nat
  BY <1>2, <1>3, OverlayAssumption
<1>5. files \in Files /\ [files EXCEPT !.hue[c] = source.hue[c]] = source
  BY <1>1, <1>3, <1>4, HueIsUndone
<1>6. inverse \in Inverses /\ inverse.field = "hue" /\ inverse.place = c /\ inverse.old = old
  BY <1>4 DEF Inverses, Undoing
<1>7. ~outdated => old = source.hue[c]
  OBVIOUS
<1>8. ~outdated => Undoes(files, inverse, source)
  <2> HIDE DEF files, inverse, outdated, old, c
  <2>1. SUFFICES ASSUME ~outdated PROVE Undoes(files, inverse, source)
    OBVIOUS
  <2>2. source = [files EXCEPT !.hue[inverse.place] = inverse.old]
    BY <1>5, <1>6, <1>7, <2>1
  <2>3. QED
    BY <1>6, <2>2 DEF Undoes
<1>9. after \in Description
  BY <1>1, <1>2 DEF Description
<1>10. Stored(files, inverse, "color", new, "end") /\ Muddle(outdated)
       /\ UNCHANGED <<tagged, target, described, typed, reverting, elementSaves>>
       /\ saveRun # Blank
  BY DEF SaveToken, Old, Sends
<1>11. outdated \in BOOLEAN
  OBVIOUS
<1> HIDE DEF files, inverse, outdated, new
<1>12. QED
  BY <1>5, <1>6, <1>8, <1>9, <1>10, <1>11, StoredStep

\* A revert takes the inverses, the latest first.
LEMMA RevertStep ==
  ASSUME OverlayInv, Revert
  PROVE  OverlayInv'
<1>1. applied \in Seq(Inverses) /\ reverting = Blank /\ reverting' = Reverse(applied)
      /\ applied' = <<>> /\ source' = source /\ (~muddled' => ~muddled)
  BY DEF Revert, OverlayInv, OverlayTypeOK
<1>2. Reverse(applied) \in Seq(Inverses)
  <2>1. Reverse(applied) \in [1..Len(applied) -> Inverses]
    BY <1>1 DEF Reverse
  <2>2. QED
    BY <1>1, <2>1
<1>3. OverlayTypeOK'
  <2>1. NoEdits \in Typed
    BY DEF NoEdits, Typed, Colors
  <2>2. muddled' \in BOOLEAN
    BY DEF Revert, OverlayInv, OverlayTypeOK
  <2>3. QED
    BY <1>1, <1>2, <2>1, <2>2 DEF Revert, OverlayInv, OverlayTypeOK, panelVars
<1>4. RevertInv'
  <2>1. SUFFICES ASSUME ~muddled' PROVE reverting' # Blank /\ LeadsBack(reverting', source')
    BY <1>1 DEF RevertInv
  <2>2. Leads(applied, source)
    BY <1>1, <2>1 DEF OverlayInv, RevertInv
  <2>3. LeadsBack(Reverse(applied), source)
    BY <1>1, <2>2, LeadsBackwards
  <2>4. QED
    BY <1>1, <1>2, <2>3, OverlayAssumption
<1>5. QED
  BY <1>3, <1>4 DEF OverlayInv

\* The latest inverse is carried out, and leads back by one save.
LEMMA UndoSaveStep ==
  ASSUME OverlayInv, ~muddled, UndoSave
  PROVE  OverlayInv'
<1> DEFINE inverse == Head(reverting)
           rest == Tail(reverting)
<1>1. reverting # Blank /\ reverting # <<>> /\ reverting \in Seq(Inverses)
  BY DEF UndoSave, OverlayInv, OverlayTypeOK
<1>2. applied = <<>> /\ LeadsBack(reverting, source)
  BY <1>1 DEF OverlayInv, RevertInv
<1>3. PICK before \in Files : Undoes(source, inverse, before) /\ LeadsBack(rest, before)
  BY <1>1, <1>2, LeadsBackByOne
<1>11. inverse \in Inverses
  BY <1>1
<1> HIDE DEF inverse
<1>4. Finds(inverse) /\ \A files \in Undone(inverse) : files = before
  <2>1. TaggedIn(source, inverse.place) = Tagged(inverse.place)
    BY Zenon DEF TaggedIn, Tagged, Columns
  <2>2. CASE inverse.field = "hue"
    BY <1>3, <2>2 DEF Undoes, Finds, Undone
  <2>3. CASE inverse.field # "hue"
    <3>1. /\ Tagged(inverse.place) # {}
          /\ inverse.field = "text" => \A i \in Tagged(inverse.place) : Kept(i, source.text[i])
          /\ before = EditedIn(source, inverse.field, inverse.place, inverse.old)
      BY <1>3, <2>1, <2>3 DEF Undoes
    <3>2. Finds(inverse)
      <4>1. inverse.field \in {"text", "color"}
        BY <1>11, <2>3 DEF Inverses
      <4>2. QED
        BY <3>1, <4>1 DEF Finds, Segment, Kept
    <3>3. EndSpace(inverse.field, inverse.place, inverse.old) = {0}
      BY <3>1 DEF EndSpace
    <3>4. inverse.old + 0 = inverse.old
      BY <1>11 DEF Inverses
    <3>5. Undone(inverse) = {Edited(inverse.field, inverse.place, inverse.old)}
      <4>1. Undone(inverse) = {Edited(inverse.field, inverse.place, inverse.old + ends) : ends \in {0}}
        BY <2>3, <3>3, Zenon DEF Undone
      <4>2. \A ends \in {0} : inverse.old + ends = inverse.old
        BY <3>4
      <4>3. QED
        BY <4>1, <4>2
    <3>6. QED
      BY <3>1, <3>2, <3>5, EditedIs
  <2>4. QED
    BY <2>2, <2>3
<1>5. rest \in Seq(Inverses) /\ rest # Blank
  BY <1>1, OverlayAssumption
<1>6. UndoNext(rest, before) /\ UNCHANGED muddled
  BY <1>4 DEF UndoSave, inverse
<1> HIDE DEF rest
<1>7. /\ reverting' = rest /\ source' = before
      /\ UNCHANGED <<tagged, panelVars, typed, saveRun, applied, elementSaves, muddled>>
  BY <1>6 DEF UndoNext
<1>8. OverlayTypeOK'
  BY <1>5, <1>7 DEF OverlayInv, OverlayTypeOK, panelVars
<1>9. RevertInv'
  BY <1>2, <1>3, <1>5, <1>7 DEF RevertInv
<1>10. QED
  BY <1>8, <1>9 DEF OverlayInv

\* An inverse that was never answered muddles what is left; a revert that ended left nothing.
LEMMA RevertOverStep ==
  ASSUME OverlayInv, UndoFails \/ RevertEnds
  PROVE  OverlayInv'
<1>1. CASE UndoFails
  <2>1. muddled' = TRUE /\ source' = source /\ reverting' = Blank
        /\ UNCHANGED <<tagged, panelVars, typed, saveRun, applied, elementSaves>>
    BY <1>1 DEF UndoFails, UndoNext
  <2>2. OverlayTypeOK'
    BY <2>1 DEF OverlayInv, OverlayTypeOK, panelVars
  <2>3. RevertInv'
    BY <2>1 DEF RevertInv
  <2>4. QED
    BY <2>2, <2>3 DEF OverlayInv
<1>2. CASE RevertEnds
  <2>1. /\ reverting = <<>> /\ reverting' = Blank /\ reverting # Blank
        /\ UNCHANGED <<sourceVars, tagged, target, info, typed, saveRun, applied, elementSaves>>
    <3>1. <<>> \in Seq(Inverses)
      OBVIOUS
    <3>2. QED
      BY <1>2, <3>1, OverlayAssumption DEF RevertEnds
  <2>2. described' \in SUBSET (Description \cup {Blank})
    <3>1. CASE target # 0
      BY <1>2, <3>1, DescribesOne DEF RevertEnds, OverlayInv
    <3>2. CASE target = 0
      BY <1>2, <3>2 DEF RevertEnds, OverlayInv, OverlayTypeOK
    <3>3. QED
      BY <3>1, <3>2
  <2>3. OverlayTypeOK'
    BY <2>1, <2>2 DEF OverlayInv, OverlayTypeOK, sourceVars
  <2>4. RevertInv'
    <3>1. SUFFICES ASSUME ~muddled PROVE Leads(applied', source')
      BY <2>1 DEF RevertInv, sourceVars
    <3>2. applied = <<>> /\ LeadsBack(<<>>, source) /\ source \in Files
      BY <2>1, <3>1 DEF OverlayInv, OverlayTypeOK, RevertInv
    <3>3. Leads(<<>>, source)
      BY <3>2, LeadsNowhere
    <3>4. applied' = <<>> /\ source' = source
      BY <2>1, <3>2 DEF sourceVars
    <3>5. QED
      BY <3>3, <3>4
  <2>5. QED
    BY <2>3, <2>4 DEF OverlayInv
<1>3. QED
  BY <1>1, <1>2

\* What was muddled stays muddled.
LEMMA MuddledStays ==
  ASSUME muddled, OverlayNext \/ UNCHANGED overlayVars
  PROVE  muddled'
  BY DEF OverlayNext, SelectElement, Described, PreviewText, PreviewColor, DropPreview, HotReload,
         SaveElement, SaveText, NoText, SaveColor, SaveToken, SaveEnds, ElementSaveFails, Muddle,
         Revert, UndoSave, UndoFails, RevertEnds, overlayVars, sourceVars

\* Every step keeps what the overlay promises until it is muddled.
LEMMA OverlayStep ==
  ASSUME OverlayHolds, OverlayNext \/ UNCHANGED overlayVars
  PROVE  OverlayHolds'
<1>1. CASE muddled
  BY <1>1, MuddledStays DEF OverlayHolds
<1>2. CASE ~muddled
  <2>1. OverlayInv
    BY <1>2 DEF OverlayHolds
  <2>2. OverlayInv'
    BY <1>2, <2>1, PageStep, SaveTextStep, SaveColorStep, SaveTokenStep, RevertStep, UndoSaveStep,
       RevertOverStep DEF OverlayNext
  <2>3. QED
    BY <2>2 DEF OverlayHolds
<1>3. QED
  BY <1>1, <1>2

-----------------------------------------------------------------------------
(* The parts beside each other (MCPanels).                                  *)

PanelsInv ==
    /\ CueInv /\ ChatInv /\ LoginInv /\ PairingInv /\ TimelineTypeOK /\ PopoversInv /\ OverlayHolds

\* A step of the composition is one of each part, or none of it.
LEMMA PartsMove ==
  ASSUME [MCNext]_<<focus, deskSettingsVars, pairingVars, accessVars, editorVars, layoutVars,
                    setupVars, readinessVars, cueVars, loginVars, overlayVars, timelineVars,
                    chatVars, popoverVars>>
  PROVE  /\ [SettingsNext]_deskSettingsVars /\ [SetupNext]_setupVars /\ [LayoutNext]_layoutVars
         /\ [PairingNext]_pairingVars /\ [CueNext]_cueVars /\ [LoginNext]_loginVars
         /\ [TimelineNext]_timelineVars /\ [ChatNext]_chatVars /\ [PopoversNext]_popoverVars
         /\ OverlayNext \/ UNCHANGED overlayVars
BY DEF MCNext, Moves

\* The inductive invariants of the parts hold of every state.
THEOREM PanelsInvariant == MCSpec => []PanelsInv
<1>1. MCInit => PanelsInv
  BY CueStart, ChatStart, LoginStart, PairingStart, TimelineStart, PopoversStart, OverlayStart
     DEF MCInit, PanelsInv
<1>2. PanelsInv /\ [MCNext]_<<focus, deskSettingsVars, pairingVars, accessVars, editorVars,
                              layoutVars, setupVars, readinessVars, cueVars, loginVars,
                              overlayVars, timelineVars, chatVars, popoverVars>>
      => PanelsInv'
  BY PartsMove, CueStep, ChatStep, LoginStep, PairingStep, TimelineStep, PopoversStep, OverlayStep
     DEF PanelsInv
<1>3. QED
  BY <1>1, <1>2, PTL DEF MCSpec

\* For any setlists, cues found in them, runs, questions, clients and organizations: the tool
\* never gives a song a second cue where the run looks for one, and a run that reports success
\* left every song it was asked for with the cue of its ordinal, unless the setlist was edited
\* under it (cues/applier.ts:38-65); what a command prints answers its own question, wholly where
\* it says so, or is an answer the page showed before when there is none
\* (chatgpt/chatgpt-client.ts:168-202, response-extractor.ts:45-70); and, as long as the client
\* stays the same, the organization of the configuration has a login, the one that was reported
\* last (auth/service.ts:139-168).
THEOREM ToolIsAlwaysSound == MCSpec => []ToolIsSound
<1>1. PanelsInv => ToolIsSound
  BY CueInvSuffices, LoginInvSuffices DEF PanelsInv, ToolIsSound, ChatInv
<1>2. QED
  BY <1>1, PanelsInvariant, PTL

\* For any two lists of songs and any skipped in either: the complete table draws the pairs by
\* which the backend drives the timer, and each song once, in order (songPairing.ts); and for any
\* settings and snapshot the pill never says Ready before the checklist
\* (dashboardReadiness.ts:323-325).
THEOREM ViewsAlwaysAgree == MCSpec => []ViewsAgree
<1>1. PanelsInv => ViewsAgree
  BY PairingInvSuffices, PillAsksMore DEF PanelsInv, ViewsAgree
<1>2. QED
  BY <1>1, PanelsInvariant, PTL

\* For any markers, names and scale: no label of the measured timeline runs into a later marker
\* or label, nor is one shortened without need (lightingTimelineMath.ts:102-139); and for any
\* rows nothing is open but what the pointer rests on, a finger pinned or the focus holds
\* (Dashboard.tsx).
THEOREM OverlaysAlwaysBehave == MCSpec => []OverlaysBehave
<1>1. PanelsInv => OverlaysBehave
  BY KeepsClear DEF PanelsInv, OverlaysBehave, PopoversInv
<1>2. QED
  BY <1>1, PanelsInvariant, PTL

\* For any elements, texts, also empty ones, colours and number of saves: a revert that ran to
\* its end leaves the source as it was before the first save, unless a save went out from an
\* outdated description or into a running revert, emptied a JSX text or replaced one with white
\* space that the panel does not show, or an inverse was never answered
\* (dev-editor/overlay.ts:237-284, source.ts:197-225).
THEOREM RevertAlwaysRestores == MCSpec => []RevertRestores
<1>1. PanelsInv => RevertRestores
  BY OverlayInvSuffices DEF PanelsInv
<1>2. QED
  BY <1>1, PanelsInvariant, PTL

\* In the composition the panels for settings, setup and layout take the steps that they take
\* alone, and so they keep there what they keep alone: see SavesPutNothingBack, EditsAreKept and
\* LayoutComesBack.
THEOREM PanelsKeepEdits ==
  MCSpec => /\ SettingsSpec /\ SetupSpec /\ LayoutSpec
            /\ NothingIsPutBack /\ NoEditLost /\ WholeLayoutSurvives
<1>1. MCInit => SettingsInit /\ SetupInit /\ LayoutInit
  BY DEF MCInit
<1>2. [MCNext]_<<focus, deskSettingsVars, pairingVars, accessVars, editorVars, layoutVars,
                 setupVars, readinessVars, cueVars, loginVars, overlayVars, timelineVars,
                 chatVars, popoverVars>>
      => [SettingsNext]_deskSettingsVars /\ [SetupNext]_setupVars /\ [LayoutNext]_layoutVars
  BY PartsMove
<1>3. MCSpec => SettingsSpec /\ SetupSpec /\ LayoutSpec
  BY <1>1, <1>2, PTL DEF MCSpec, SettingsSpec, SetupSpec, LayoutSpec
<1>4. QED
  BY <1>3, SavesPutNothingBack, EditsAreKept, LayoutComesBack, PTL
=============================================================================
