---------------------------- MODULE WorkflowProofs ----------------------------
(* Theorems about Workflow, for any program, questions and cuts.             *)
EXTENDS Workflow, FiniteSetTheorems, WellFoundedInduction, TLAPS

(* The steps of that name before position i, and the key of step i.          *)
Before(i, n) == {j \in 1 .. i - 1 : Program[j] = n}
Seen(i, n)   == Cardinality(Before(i, n))
KeyOf(i)     == <<Program[i], Seen(i, Program[i])>>

(* The steps the journal tells of.                                           *)
Told == {lines[l] : l \in StepLines}

(* The body is in a step; the first step that it has not entered.            *)
InStep == stage \in {"entered", "writing"}
FirstLeft  == IF InStep THEN at + 1 ELSE at

(* The rank of the next question is at most the number of those that were    *)
(* passed.                                                                   *)
Passed == {i \in Asks : i < at \/ (i = at /\ stage = "writing")}

Typing ==
    /\ lines \in Seq(Lines)
    /\ ended \in BOOLEAN /\ (~ended => lines # <<>>)
    /\ rows \in [RowRanks -> [question : 0 .. Len(Program),
                           decision : {"none", "pending", "approved", "denied"}]]
    /\ stage \in Stages
    /\ at \in 1 .. Len(Program) + 1
    /\ InStep => at \in Positions
    /\ counts \in [Names -> Nat]
    /\ occurrence \in 0 .. Len(Program)
    /\ questionRank \in Nat
    /\ got \in [Positions -> 0 .. Len(Program)]
    /\ written \in [Positions -> {"never", "alone", "joined"}]
    /\ mishaps \in 0 .. MaxMishaps

(* What the journal tells of a step is told under its key; so is what the    *)
(* run has read of it.                                                       *)
ToldFaithfully == \A s \in Told : s.key = KeyOf(s.value)
DoneFaithfully == \A k \in DOMAIN done : done[k] \in Positions /\ k = KeyOf(done[k])

(* The run counts the steps of a name that it has entered; the one it is in  *)
(* has the number of those before it.                                        *)
CountsKept ==
    /\ \A n \in Names : counts[n] = Seen(FirstLeft, n)
    /\ InStep => occurrence = Seen(at, Program[at])

RankKept == questionRank <= Cardinality(Passed)

(* The inductive invariant.                                                  *)
IInv ==
    /\ Typing
    /\ ToldFaithfully /\ DoneFaithfully
    /\ CountsKept /\ RankKept
    /\ ReplayFaithful

------------------------------------------------------------------------------
(* Keys.                                                                     *)

LEMMA ProgramIs ==
  /\ Len(Program) \in Nat /\ Positions \subseteq Nat /\ IsFiniteSet(Positions)
  /\ \A i \in Positions : Program[i] \in Names
  /\ Asks \subseteq Positions /\ IsFiniteSet(Asks) /\ Cardinality(Asks) \in Nat
<1>1. Len(Program) \in Nat
  BY WorkflowAssumption
<1>2. IsFiniteSet(Positions) /\ Asks \subseteq Positions
  BY <1>1, FS_Interval, WorkflowAssumption DEF Positions
<1>3. IsFiniteSet(Asks) /\ Cardinality(Asks) \in Nat
  BY <1>2, FS_Subset, FS_CardinalityType
<1>. QED
  BY <1>1, <1>2, <1>3 DEF Positions, Names

LEMMA SeenType ==
  ASSUME NEW i \in 1 .. Len(Program) + 1, NEW n
  PROVE  IsFiniteSet(Before(i, n)) /\ Seen(i, n) \in 0 .. Len(Program)
<1>1. i \in Nat /\ i >= 1 /\ i - 1 <= Len(Program) /\ Len(Program) \in Nat
  BY ProgramIs
<1>2. IsFiniteSet(1 .. i - 1) /\ Cardinality(1 .. i - 1) = i - 1
  <2>. DEFINE m == i - 1
  <2>1. m \in Nat /\ 1 \in Int
    BY <1>1
  <2>. HIDE DEF m
  <2>2. IsFiniteSet(1 .. m) /\ Cardinality(1 .. m) = IF 1 > m THEN 0 ELSE m - 1 + 1
    BY <2>1, FS_Interval
  <2>3. Cardinality(1 .. m) = m
    BY <2>1, <2>2
  <2>. QED
    BY <2>2, <2>3 DEF m
<1>3. IsFiniteSet(Before(i, n)) /\ Seen(i, n) <= i - 1
  BY <1>2, FS_Subset DEF Before, Seen
<1>4. Seen(i, n) \in Nat
  BY <1>3, FS_CardinalityType DEF Seen
<1>. QED
  BY <1>1, <1>3, <1>4

(* Nothing is before the first step; and one step more, one name more.       *)
LEMMA SeenFirst ==
  ASSUME NEW n
  PROVE  Seen(1, n) = 0
<1>1. Before(1, n) = {}
  BY DEF Before
<1>. QED
  BY <1>1, FS_EmptySet DEF Seen

LEMMA SeenNext ==
  ASSUME NEW i \in Positions, NEW n
  PROVE  Seen(i + 1, n) = Seen(i, n) + (IF Program[i] = n THEN 1 ELSE 0)
<1>1. i \in Nat /\ i \in 1 .. Len(Program) + 1 /\ Len(Program) \in Nat
  BY ProgramIs DEF Positions
<1>2. IsFiniteSet(Before(i, n)) /\ Seen(i, n) \in Nat
  BY <1>1, SeenType
<1>3. CASE Program[i] = n
  <2>1. Before(i + 1, n) = Before(i, n) \cup {i} /\ i \notin Before(i, n)
    BY <1>1, <1>3 DEF Before, Positions
  <2>. QED
    BY <1>2, <1>3, <2>1, FS_AddElement DEF Seen
<1>4. CASE Program[i] # n
  <2>1. Before(i + 1, n) = Before(i, n)
    BY <1>1, <1>4 DEF Before, Positions
  <2>. QED
    BY <1>2, <1>4, <2>1 DEF Seen
<1>. QED
  BY <1>3, <1>4

(* No two steps have the same key.                                           *)
LEMMA KeysDiffer ==
  ASSUME NEW i \in Positions, NEW j \in Positions, KeyOf(i) = KeyOf(j)
  PROVE  i = j
<1>1. \A k \in Positions : k \in 1 .. Len(Program) + 1 /\ k \in Nat
  BY ProgramIs DEF Positions
<1>2. ASSUME NEW a \in Positions, NEW b \in Positions, a < b, KeyOf(a) = KeyOf(b)
      PROVE  FALSE
  <2>. DEFINE n == Program[a]
  <2>1. Program[b] = n /\ Seen(a, n) = Seen(b, n)
    BY <1>2 DEF KeyOf
  <2>2. IsFiniteSet(Before(b, n))
    BY <1>1, SeenType
  <2>3. Before(a, n) \subseteq Before(b, n) /\ a \in Before(b, n) /\ a \notin Before(a, n)
    BY <1>1, <1>2 DEF Before, Positions
  <2>. QED
    BY <2>1, <2>2, <2>3, FS_Subset DEF Seen
<1>3. i < j \/ j < i \/ i = j
  BY <1>1
<1>. QED
  BY <1>2, <1>3

------------------------------------------------------------------------------
(* The journal.                                                              *)

(* A set of natural numbers has a least one.                                 *)
LEMMA Least ==
  ASSUME NEW T \in SUBSET Nat, T # {}
  PROVE  \E x \in T : \A y \in T : x <= y
<1>1. PICK x \in T : \A y \in T : ~(<<y, x>> \in OpToRel(<, Nat))
  BY NatLessThanWellFounded, WFMin, Zenon
<1>2. \A y \in T : ~(y < x)
  BY <1>1, Zenon DEF OpToRel
<1>. HIDE <1>1
<1>3. \A y \in T : x <= y
  BY <1>2
<1>. QED
  BY <1>3

(* So those up to a bound have a greatest one.                               *)
LEMMA Greatest ==
  ASSUME NEW n \in Nat, NEW T \in SUBSET (1 .. n), T # {}
  PROVE  \E x \in T : \A y \in T : y <= x
<1>. DEFINE S == {n - y : y \in T}
<1>0. \A y \in T : n - y \in Nat
  OBVIOUS
<1>1. S \in SUBSET Nat /\ S # {}
  BY <1>0
<1>2. PICK s \in S : \A z \in S : s <= z
  BY <1>1, Least
<1>3. PICK x \in T : s = n - x
  OBVIOUS
<1>4. \A y \in T : n - x <= n - y
  BY <1>2, <1>3
<1>5. \A y \in T : y <= x
  BY <1>4
<1>. QED
  BY <1>5

(* What journal::read returns for a step, the journal tells.                 *)
LEMMA ReadIsTold ==
  ASSUME lines \in Seq(Lines), NEW k \in DOMAIN DoneSteps
  PROVE  \E s \in Told : s.key = k /\ DoneSteps[k] = s.value
<1>. DEFINE T == {l \in StepLines : lines[l].key = k}
            IsLast(l) == l \in StepLines /\ lines[l].key = k
                         /\ \A m \in StepLines : lines[m].key = k => m <= l
<1>1. Len(lines) \in Nat /\ StepLines \subseteq 1 .. Len(lines)
  BY DEF StepLines
<1>2. T # {} /\ T \in SUBSET (1 .. Len(lines))
  BY <1>1 DEF DoneSteps
<1>3. PICK l \in T : \A m \in T : m <= l
  BY <1>1, <1>2, Greatest
<1>4. IsLast(l)
  BY <1>3
<1>. DEFINE last == CHOOSE m \in StepLines : lines[m].key = k
                                             /\ \A x \in StepLines : lines[x].key = k => x <= m
<1>5. last \in StepLines /\ lines[last].key = k
  BY <1>4
<1>6. DoneSteps[k] = lines[last].value
  BY DEF DoneSteps
<1>. QED
  BY <1>5, <1>6 DEF Told

LEMMA ToldAreLines ==
  ASSUME lines \in Seq(Lines), NEW s \in Told
  PROVE  s \in [kind : {"step"}, key : Keys, value : Positions]
BY DEF Told, StepLines, Lines, ResultLine, Garbled, Split

(* A line is written, or cut: the journal tells of no other step.            *)
LEMMA AddedTells ==
  ASSUME Typing, NEW entry \in Lines, lines' = Added(entry), ended' \in BOOLEAN
  PROVE  /\ lines' \in Seq(Lines) /\ lines' # <<>>
         /\ Told' \subseteq Told \cup {s \in {entry} : s.kind = "step"}
<1>1. lines \in Seq(Lines) /\ Garbled \in Lines /\ Split \in Lines
  BY DEF Typing, Lines
<1>2. CASE ended
  <2>1. lines' = Append(lines, entry)
    BY <1>2 DEF Added
  <2>2. /\ lines' \in Seq(Lines) /\ lines' # <<>> /\ Len(lines') = Len(lines) + 1
        /\ Len(lines) \in Nat /\ lines'[Len(lines) + 1] = entry
        /\ \A l \in 1 .. Len(lines) : lines'[l] = lines[l]
    BY <1>1, <2>1
  <2>3. \A l \in DOMAIN lines' : lines'[l] = entry \/ (l \in DOMAIN lines /\ lines'[l] = lines[l])
    BY <1>1, <2>2
  <2>. QED
    BY <2>2, <2>3 DEF Told, StepLines
<1>3. CASE ~ended
  <2>1. lines # <<>>
    BY <1>3 DEF Typing
  <2>2. PICK e \in {Garbled, Split} : lines' = [lines EXCEPT ![Len(lines)] = e]
    BY <1>3 DEF Added
  <2>3. Len(lines) \in 1 .. Len(lines) /\ DOMAIN lines = 1 .. Len(lines)
    BY <1>1, <2>1
  <2>4. lines' \in Seq(Lines) /\ Len(lines') = Len(lines)
    BY <1>1, <2>2, <2>3
  <2>5. \A l \in DOMAIN lines' : l \in DOMAIN lines /\ lines'[l] \in {e, lines[l]}
    BY <1>1, <2>2
  <2>6. e.kind # "step"
    BY <2>2 DEF Garbled, Split
  <2>. QED
    BY <2>1, <2>3, <2>4, <2>5, <2>6 DEF Told, StepLines
<1>. QED
  BY <1>2, <1>3 DEF Typing

------------------------------------------------------------------------------
(* The steps of a run.                                                       *)

LEMMA SomeAsks ==
  ASSUME NEW S \in SUBSET Asks
  PROVE  IsFiniteSet(S) /\ Cardinality(S) \in 0 .. Cardinality(Asks)
<1>1. IsFiniteSet(S) /\ Cardinality(S) <= Cardinality(Asks)
  BY ProgramIs, FS_Subset
<1>. QED
  BY <1>1, ProgramIs, FS_CardinalityType

LEMMA PassedGrows ==
  ASSUME RankKept, Typing, Passed \subseteq Passed', UNCHANGED questionRank
  PROVE  RankKept'
<1>1. Passed' \subseteq Asks
  BY DEF Passed
<1>2. IsFiniteSet(Passed') /\ Cardinality(Passed) <= Cardinality(Passed')
  BY <1>1, SomeAsks, FS_Subset
<1>3. Cardinality(Passed) \in Nat /\ Cardinality(Passed') \in Nat
  BY <1>1, SomeAsks, ProgramIs DEF Passed
<1>. QED
  BY <1>2, <1>3 DEF RankKept, Typing

LEMMA PassedNext ==
  ASSUME at \in Positions, at' = at + 1
  PROVE  Passed \subseteq Passed'
<1>. SUFFICES ASSUME NEW i \in Asks, i < at \/ i = at PROVE i < at'
  BY DEF Passed
<1>1. i \in Nat /\ at \in Nat
  BY ProgramIs
<1>. QED
  BY <1>1

(* The rank of a question that is asked has a row.                           *)
LEMMA RankHasRow ==
  ASSUME IInv, stage = "entered", at \in Asks
  PROVE  questionRank \in RowRanks
<1>1. Passed \subseteq Asks \ {at}
  BY ProgramIs DEF Passed, Positions
<1>2. IsFiniteSet(Asks \ {at}) /\ Cardinality(Asks \ {at}) = Cardinality(Asks) - 1
  BY ProgramIs, FS_RemoveElement
<1>3. Cardinality(Passed) <= Cardinality(Asks) - 1
  BY <1>1, <1>2, FS_Subset
<1>4. Cardinality(Passed) \in Nat
  BY SomeAsks, ProgramIs DEF Passed
<1>. QED
  BY <1>3, <1>4, ProgramIs DEF IInv, RankKept, RowRanks, Typing

LEMMA RunOverKeeps ==
  ASSUME Typing, NEW next \in {"ready", "suspended", "denied", "finished"}, RunOver(next)
  PROVE  /\ stage' = next /\ next \in Stages /\ ~InStep' /\ at' \in 1 .. Len(Program) + 1
         /\ counts' \in [Names -> Nat] /\ questionRank' \in Nat
         /\ got' \in [Positions -> 0 .. Len(Program)] /\ occurrence' \in 0 .. Len(Program)
         /\ DoneFaithfully' /\ CountsKept' /\ RankKept' /\ ReplayFaithful'
<1>1. /\ stage' = next /\ next \in Stages /\ ~InStep'
      /\ at' \in 1 .. Len(Program) + 1 /\ counts' \in [Names -> Nat]
  BY ProgramIs DEF RunOver, Stages, InStep
<1>2. occurrence' \in 0 .. Len(Program) /\ questionRank' \in Nat /\ got' \in [Positions -> 0 .. Len(Program)]
  BY ProgramIs DEF RunOver
<1>3. DoneFaithfully' /\ ReplayFaithful'
  BY DEF RunOver, DoneFaithfully, NoneDone, ReplayFaithful
<1>4. CountsKept'
  BY <1>1, SeenFirst DEF RunOver, CountsKept, FirstLeft, Seen, Before
<1>5. Passed' \subseteq Asks
  BY DEF Passed
<1>6. RankKept'
  BY <1>5, SomeAsks, ProgramIs DEF RunOver, RankKept
<1>. QED
  BY <1>1, <1>2, <1>3, <1>4, <1>6

(* The key of the step the body is in.                                       *)
LEMMA KeyIs ==
  ASSUME IInv, InStep
  PROVE  at \in Positions /\ Key = KeyOf(at) /\ Key \in Keys
<1>0. at \in Positions
  BY DEF IInv, Typing
<1>1. Program[at] \in Names /\ at \in 1 .. Len(Program) + 1
  BY <1>0, ProgramIs DEF Positions
<1>. QED
  BY <1>0, <1>1, SeenType DEF IInv, CountsKept, Key, KeyOf, Keys

(* A step entered is counted, and has the number of those before it.         *)
LEMMA CountKeeps ==
  ASSUME IInv, Enter
  PROVE  /\ counts' \in [Names -> Nat] /\ CountsKept'
         /\ occurrence' \in 0 .. Len(Program)
<1>0. /\ at \in Positions /\ ~InStep /\ InStep' /\ at' = at
      /\ occurrence' = counts[Program[at]]
      /\ counts' = [counts EXCEPT ![Program[at]] = @ + 1]
  BY DEF IInv, Typing, Enter, InStep, Positions
<1>1. Program[at] \in Names /\ counts \in [Names -> Nat] /\ at \in 1 .. Len(Program) + 1
  BY <1>0, ProgramIs DEF IInv, Typing
<1>2. \A n \in Names : counts[n] = Seen(at, n)
  BY <1>0 DEF IInv, CountsKept, FirstLeft
<1>3. counts' \in [Names -> Nat]
  BY <1>0, <1>1
<1>4. \A n \in Names : counts'[n] = Seen(at + 1, n)
  <2>. TAKE n \in Names
  <2>1. counts[n] = Seen(at, n) /\ counts[n] \in Nat
    BY <1>1, <1>2
  <2>2. counts'[n] = counts[n] + (IF Program[at] = n THEN 1 ELSE 0)
    BY <1>0, <1>1, <2>1
  <2>. QED
    BY <1>0, <2>1, <2>2, SeenNext
<1>5. occurrence' = Seen(at, Program[at]) /\ occurrence' \in 0 .. Len(Program)
  BY <1>0, <1>1, <1>2, SeenType
<1>6. CountsKept'
  BY <1>0, <1>4, <1>5 DEF CountsKept, FirstLeft, Seen, Before
<1>. QED
  BY <1>3, <1>5, <1>6

(* A step that is left is no longer ahead.                                   *)
LEMMA CountsLeft ==
  ASSUME IInv, InStep, ~InStep', at' = at + 1, UNCHANGED counts
  PROVE  CountsKept' /\ at' \in 1 .. Len(Program) + 1
<1>1. FirstLeft' = FirstLeft
  BY DEF FirstLeft
<1>2. CountsKept'
  BY <1>1 DEF IInv, CountsKept, Seen, Before
<1>. QED
  BY <1>2, ProgramIs DEF IInv, Typing, Positions

(* The steps that do not write the journal.                                  *)
LEMMA ToldSame ==
  ASSUME ToldFaithfully, UNCHANGED lines
  PROVE  ToldFaithfully'
BY DEF ToldFaithfully, Told, StepLines, KeyOf, Seen, Before

LEMMA DoneSame ==
  ASSUME DoneFaithfully, UNCHANGED done
  PROVE  DoneFaithfully'
BY DEF DoneFaithfully

LEMMA CountsSame ==
  ASSUME CountsKept, UNCHANGED <<at, counts, occurrence>>, InStep' = InStep
  PROVE  CountsKept'
BY DEF CountsKept, FirstLeft, Seen, Before

(* A line written or cut by the run, at its step or at its end.              *)
LEMMA WrittenKeeps ==
  ASSUME IInv, NEW entry \in Lines, lines' = Added(entry), ended' \in BOOLEAN,
         entry.kind = "step" => entry.key = KeyOf(entry.value)
  PROVE  lines' \in Seq(Lines) /\ lines' # <<>> /\ ToldFaithfully'
<1>1. /\ lines' \in Seq(Lines) /\ lines' # <<>>
      /\ Told' \subseteq Told \cup {s \in {entry} : s.kind = "step"}
  BY AddedTells DEF IInv
<1>2. \A s \in Told' : s.key = KeyOf(s.value)
  BY <1>1 DEF IInv, ToldFaithfully
<1>. QED
  BY <1>1, <1>2 DEF ToldFaithfully, KeyOf, Seen, Before

LEMMA StepIInv ==
  ASSUME IInv, [WorkflowNext]_workflowVars
  PROVE  IInv'
<1>. Typing
  BY DEF IInv
<1>1. CASE Open
  <2>1. Typing'
    BY <1>1 DEF Open, Typing, disk, Stages, InStep
  <2>2. DoneFaithfully'
    <3>1. CASE HasResult
      BY <1>1, <3>1 DEF Open, DoneFaithfully, NoneDone
    <3>2. CASE ~HasResult
      <4>1. done' = DoneSteps
        BY <1>1, <3>2 DEF Open
      <4>2. \A k \in DOMAIN DoneSteps : \E s \in Told : s.key = k /\ DoneSteps[k] = s.value
        BY ReadIsTold DEF Typing
      <4>3. \A k \in DOMAIN DoneSteps : DoneSteps[k] \in Positions /\ k = KeyOf(DoneSteps[k])
        BY <4>2, ToldAreLines DEF IInv, ToldFaithfully, Typing
      <4>. QED
        BY <4>1, <4>3 DEF DoneFaithfully
    <3>. QED
      BY <3>1, <3>2
  <2>3. CountsKept' /\ ReplayFaithful'
    BY <1>1, CountsSame DEF Open, IInv, ReplayFaithful, InStep
  <2>4. RankKept'
    BY <1>1, PassedGrows DEF Open, IInv, Passed
  <2>. QED
    BY <1>1, <2>1, <2>2, <2>3, <2>4, ToldSame DEF Open, IInv, disk
<1>11. CASE Enter
  <2>0. /\ at \in Positions /\ stage = "running" /\ stage' = "entered"
        /\ UNCHANGED <<lines, ended, rows, done, at, questionRank, got, written, mishaps>>
    BY <1>11 DEF Enter, Typing, Positions, disk
  <2>1. RankKept'
    BY <2>0, PassedGrows DEF IInv, Passed
  <2>. QED
    BY <1>11, <2>0, <2>1, CountKeeps, ToldSame, DoneSame
    DEF IInv, Typing, ReplayFaithful, Stages
<1>2. CASE Replay
  <2>0. /\ InStep /\ ~InStep' /\ stage' = "running" /\ Key \in DOMAIN done /\ at' = at + 1
        /\ got' = [got EXCEPT ![at] = done[Key]]
        /\ UNCHANGED <<lines, ended, rows, done, counts, occurrence, questionRank, written,
                       mishaps>>
    BY <1>2 DEF Replay, Journaled, InStep, disk
  <2>1. at \in Positions /\ Key = KeyOf(at)
    BY <2>0, KeyIs
  <2>2. done[Key] = at
    BY <2>0, <2>1, KeysDiffer DEF IInv, DoneFaithfully
  <2>3. CountsKept' /\ at' \in 1 .. Len(Program) + 1
    BY <2>0, CountsLeft
  <2>4. ReplayFaithful' /\ got' \in [Positions -> 0 .. Len(Program)]
    BY <2>0, <2>1, <2>2, ProgramIs DEF IInv, ReplayFaithful, Typing, Positions
  <2>5. RankKept'
    BY <2>0, <2>1, PassedNext, PassedGrows DEF IInv
  <2>. QED
    BY <2>0, <2>3, <2>4, <2>5, ToldSame, DoneSame DEF IInv, Typing, Stages
<1>3. CASE RunBlock
  <2>0. /\ InStep /\ InStep' /\ stage = "entered" /\ stage' = "writing"
        /\ UNCHANGED <<lines, ended, rows, done, at, counts, occurrence, questionRank, got,
                       written, mishaps>>
    BY <1>3 DEF RunBlock, AtBlock, InStep, disk
  <2>1. RankKept'
    BY <2>0, PassedGrows DEF IInv, Passed
  <2>. QED
    BY <2>0, <2>1, ToldSame, DoneSame, CountsSame DEF IInv, Typing, ReplayFaithful, Stages
<1>4. CASE Ask \/ AskedAgain \/ Fail \/ QuestionLost
  <2>1. /\ UNCHANGED <<lines, ended, written>> /\ mishaps' \in 0 .. MaxMishaps
        /\ \E next \in {"ready", "suspended", "denied", "finished"} : RunOver(next)
    BY <1>4, WorkflowAssumption DEF Ask, AskedAgain, Fail, QuestionLost, Typing, disk
  <2>2. rows' \in [RowRanks -> [question : 0 .. Len(Program),
                              decision : {"none", "pending", "approved", "denied"}]]
    <3>1. CASE UNCHANGED rows
      BY <3>1 DEF Typing
    <3>2. CASE rows' = [rows EXCEPT ![questionRank] = [question |-> at, decision |-> "pending"]]
               /\ at \in Asks
      <4>1. at \in 0 .. Len(Program)
        BY <3>2, ProgramIs DEF Positions
      <4>2. [question |-> at, decision |-> "pending"] \in
               [question : 0 .. Len(Program), decision : {"none", "pending", "approved", "denied"}]
        BY <4>1
      <4>. QED
        BY <3>2, <4>2 DEF Typing
    <3>3. CASE Ask \/ QuestionLost
      BY <3>2, <3>3 DEF Ask, QuestionLost, InsertRow, AtQuestion
    <3>4. CASE AskedAgain \/ Fail
      BY <3>1, <3>4 DEF AskedAgain, Fail
    <3>. QED
      BY <1>4, <3>3, <3>4
  <2>. QED
    BY <2>1, <2>2, RunOverKeeps, ToldSame DEF IInv, Typing
<1>5. CASE Answered
  <2>0. /\ at \in Asks /\ at \in Positions /\ stage = "entered" /\ stage' = "writing"
        /\ InStep /\ InStep' /\ questionRank' = questionRank + 1
        /\ UNCHANGED <<lines, ended, rows, done, at, counts, occurrence, got, written, mishaps>>
    BY <1>5 DEF Answered, AtQuestion, AtBlock, Typing, InStep, disk
  <2>1. Passed' = Passed \cup {at} /\ at \notin Passed
    BY <2>0, ProgramIs DEF Passed, Positions
  <2>2. IsFiniteSet(Passed) /\ Cardinality(Passed) \in Nat
    BY SomeAsks, ProgramIs DEF Passed
  <2>3. Cardinality(Passed') = Cardinality(Passed) + 1
    BY <2>1, <2>2, FS_AddElement
  <2>4. RankKept'
    BY <2>0, <2>2, <2>3 DEF IInv, RankKept, Typing
  <2>. QED
    BY <2>0, <2>4, ToldSame, DoneSame, CountsSame DEF IInv, Typing, ReplayFaithful, Stages
<1>12. CASE StartWaiting
  <2>0. /\ stage = "suspended" /\ stage' = "waiting" /\ InStep' = InStep
        /\ UNCHANGED <<lines, ended, rows, done, at, counts, occurrence, questionRank, got,
                       written, mishaps>>
    BY <1>12 DEF StartWaiting, InStep, disk
  <2>1. RankKept'
    BY <2>0, PassedGrows DEF IInv, Passed
  <2>2. ~InStep'
    BY <2>0 DEF InStep
  <2>. QED
    BY <2>0, <2>1, <2>2, ToldSame, DoneSame, CountsSame DEF IInv, Typing, ReplayFaithful, Stages
<1>6. CASE Journal
  <2>0. /\ stage' = "running" /\ InStep /\ ~InStep' /\ at' = at + 1
        /\ got' = [got EXCEPT ![at] = at]
        /\ lines' = Added(StepLine(Key, at)) /\ ended' = TRUE
        /\ UNCHANGED <<rows, done, counts, occurrence, questionRank, mishaps>>
    BY <1>6 DEF Journal, Write, InStep
  <2>1. at \in Positions /\ StepLine(Key, at) \in Lines /\ Key = KeyOf(at)
    BY <2>0, KeyIs DEF StepLine, Lines
  <2>2. lines' \in Seq(Lines) /\ lines' # <<>> /\ ToldFaithfully'
    BY <2>0, <2>1, WrittenKeeps DEF StepLine
  <2>3. CountsKept' /\ at' \in 1 .. Len(Program) + 1
    BY <2>0, CountsLeft
  <2>4. ReplayFaithful' /\ got' \in [Positions -> 0 .. Len(Program)]
    BY <2>0, <2>1, ProgramIs DEF IInv, ReplayFaithful, Typing, Positions
  <2>5. RankKept'
    BY <2>0, <2>1, PassedNext, PassedGrows DEF IInv
  <2>6. written' \in [Positions -> {"never", "alone", "joined"}]
    BY <1>6 DEF Journal, Typing
  <2>. QED
    BY <2>0, <2>2, <2>3, <2>4, <2>5, <2>6, DoneSame DEF IInv, Typing, Stages
<1>7. CASE FinishBody
  <2>1. /\ lines' = Added(ResultLine) /\ ended' = TRUE /\ RunOver("finished")
        /\ UNCHANGED <<rows, written, mishaps>>
    BY <1>7 DEF FinishBody, Write
  <2>2. ResultLine \in Lines /\ ResultLine.kind # "step"
    BY DEF Lines, ResultLine
  <2>3. lines' \in Seq(Lines) /\ lines' # <<>> /\ ToldFaithfully'
    BY <2>1, <2>2, WrittenKeeps
  <2>. QED
    BY <2>1, <2>3, RunOverKeeps DEF IInv, Typing
<1>8. CASE FailWriting
  <2>1. /\ ended' = FALSE /\ RunOver("ready") /\ UNCHANGED <<rows, written>>
        /\ mishaps' \in 0 .. MaxMishaps
    BY <1>8, WorkflowAssumption DEF FailWriting, Cut, Typing
  <2>2. PICK entry \in {StepLine(Key, at), ResultLine}, kind \in CutKinds :
           /\ entry = StepLine(Key, at) => InStep
           /\ Cut(entry, kind)
    BY <1>8, WorkflowAssumption DEF FailWriting, InStep, StepLine, ResultLine
  <2>3. /\ entry \in Lines /\ Garbled \in Lines /\ Split \in Lines
        /\ Garbled.kind # "step" /\ Split.kind # "step"
        /\ entry.kind = "step" => entry.key = KeyOf(entry.value)
    BY <2>2, KeyIs DEF Lines, Garbled, Split, StepLine, ResultLine
  <2>4. PICK e \in {entry, Garbled, Split} : lines' = Added(e)
    BY <2>2 DEF Cut, CutKinds
  <2>5. lines' \in Seq(Lines) /\ lines' # <<>> /\ ToldFaithfully'
    BY <2>1, <2>3, <2>4, WrittenKeeps
  <2>. QED
    BY <2>1, <2>5, RunOverKeeps DEF IInv, Typing
<1>9. CASE CallAgain
  <2>0. /\ stage' = "ready" /\ InStep' = InStep /\ stage \in {"finished", "denied"}
        /\ UNCHANGED <<lines, ended, rows, done, at, counts, occurrence, questionRank, got,
                       written, mishaps>>
    BY <1>9 DEF CallAgain, InStep, disk
  <2>1. RankKept'
    BY <2>0, PassedGrows DEF IInv, Passed
  <2>2. ~InStep'
    BY <2>0 DEF InStep
  <2>. QED
    BY <2>0, <2>1, <2>2, ToldSame, DoneSame, CountsSame DEF IInv, Typing, ReplayFaithful, Stages
<1>13. CASE DecideRow
  <2>0. /\ stage' \in Stages /\ InStep' = InStep /\ (stage' = "writing") = (stage = "writing")
        /\ UNCHANGED <<lines, ended, done, at, counts, occurrence, questionRank, got, written,
                       mishaps>>
    BY <1>13 DEF DecideRow, Typing, Stages, InStep, disk
  <2>1. rows' \in [RowRanks -> [question : 0 .. Len(Program),
                              decision : {"none", "pending", "approved", "denied"}]]
    BY <1>13 DEF DecideRow, Typing
  <2>2. RankKept'
    BY <2>0, PassedGrows DEF IInv, Passed
  <2>. QED
    BY <2>0, <2>1, <2>2, ToldSame, DoneSame, CountsSame DEF IInv, Typing, ReplayFaithful
<1>10. CASE UNCHANGED workflowVars
  <2>0. UNCHANGED <<lines, ended, rows, stage, done, at, counts, occurrence, questionRank, got,
                    written, mishaps>>
    BY <1>10 DEF workflowVars, disk, run
  <2>1. InStep' = InStep
    BY <2>0 DEF InStep
  <2>2. RankKept'
    BY <2>0, PassedGrows DEF IInv, Passed
  <2>. QED
    BY <2>0, <2>1, <2>2, ToldSame, DoneSame, CountsSame DEF IInv, Typing, ReplayFaithful
<1>. QED
  BY <1>1, <1>2, <1>3, <1>4, <1>5, <1>6, <1>7, <1>8, <1>9, <1>10, <1>11, <1>12, <1>13
  DEF WorkflowNext, BodyStep

LEMMA InitIInv == WorkflowInit => IInv
<1>. SUFFICES ASSUME WorkflowInit PROVE IInv
  OBVIOUS
<1>1. Typing
  BY ProgramIs, WorkflowAssumption DEF WorkflowInit, Typing, NoRow, Stages, InStep
<1>2. Told = {} /\ DOMAIN done = {} /\ ReplayFaithful
  BY DEF WorkflowInit, Told, StepLines, NoneDone, ReplayFaithful
<1>3. CountsKept
  BY SeenFirst DEF WorkflowInit, CountsKept, FirstLeft, InStep
<1>4. Passed \subseteq Asks
  BY DEF Passed
<1>5. RankKept
  BY <1>4, SomeAsks, ProgramIs DEF WorkflowInit, RankKept
<1>. QED
  BY <1>1, <1>2, <1>3, <1>5 DEF IInv, ToldFaithfully, DoneFaithfully

(* The invariant is inductive.                                               *)
THEOREM Invariant == WorkflowSpec => []IInv
  BY InitIInv, StepIInv, PTL DEF WorkflowSpec

(* A step returns its own value, in every run: a replay, of a journal with   *)
(* any lines cut, never hands it what another step, or another occurrence of *)
(* its name, returned.                                                       *)
THEOREM ReplaysFaithfully == WorkflowSpec => []ReplayFaithful
<1>1. IInv => ReplayFaithful
  BY DEF IInv
<1>. QED
  BY <1>1, Invariant, PTL

(* Types of the journal, of the rows and of the run: a question is never     *)
(* asked under a rank beyond the questions of the program.                   *)
THEOREM TypeCorrect == WorkflowSpec => []WorkflowTypeOK
<1>1. ASSUME IInv PROVE WorkflowTypeOK
  <2>1. DOMAIN done \subseteq Keys
    <3>. SUFFICES ASSUME NEW k \in DOMAIN done PROVE k \in Keys
      OBVIOUS
    <3>1. done[k] \in Positions /\ k = KeyOf(done[k])
      BY <1>1 DEF IInv, DoneFaithfully
    <3>. DEFINE i == done[k]
    <3>2. Program[i] \in Names /\ i \in 1 .. Len(Program) + 1
      BY <3>1, ProgramIs DEF Positions
    <3>. HIDE DEF i
    <3>3. KeyOf(i) \in Keys
      BY <3>2, SeenType DEF KeyOf, Keys
    <3>. QED
      BY <3>1, <3>3 DEF i
  <2>2. counts \in [Names -> 0 .. Len(Program)]
    <3>0. FirstLeft \in 1 .. Len(Program) + 1
      BY <1>1, ProgramIs DEF IInv, Typing, FirstLeft, Positions
    <3>1. \A n \in Names : counts[n] \in 0 .. Len(Program)
      BY <1>1, <3>0, SeenType DEF IInv, CountsKept
    <3>. QED
      BY <1>1, <3>1 DEF IInv, Typing
  <2>3. Passed \subseteq Asks
    BY DEF Passed
  <2>4. questionRank \in 0 .. Cardinality(Asks)
    BY <1>1, <2>3, SomeAsks, ProgramIs DEF IInv, RankKept, Typing
  <2>. QED
    BY <1>1, <2>1, <2>2, <2>4 DEF IInv, Typing, WorkflowTypeOK
<1>. QED
  BY <1>1, Invariant, PTL

------------------------------------------------------------------------------
(* A step on a line of its own stays journaled, and is read by every run.    *)

(* Lines a later write cannot reach: all but one without its end.            *)
Safe(l) == l \in DOMAIN lines /\ (ended \/ l < Len(lines))

WrittenTold ==
    \A i \in Positions : written[i] = "alone" =>
        \E l \in StepLines : Safe(l) /\ lines[l].key = KeyOf(i)

WrittenRead ==
    stage = "running" \/ InStep =>
        \A i \in Positions : i >= at /\ written[i] = "alone" => KeyOf(i) \in DOMAIN done

WInv == WrittenTold /\ WrittenRead /\ StepsRunOnce

(* No write takes away a line that is safe.                                  *)
LEMMA SafeStays ==
  ASSUME Typing, NEW entry \in Lines, lines' = Added(entry), NEW l, Safe(l)
  PROVE  l \in DOMAIN lines' /\ lines'[l] = lines[l] /\ Safe(l)'
<1>1. lines \in Seq(Lines) /\ l \in 1 .. Len(lines) /\ Len(lines) \in Nat
  BY DEF Typing, Safe
<1>2. CASE ended
  <2>1. lines' = Append(lines, entry)
    BY <1>2 DEF Added
  <2>. QED
    BY <1>1, <2>1 DEF Safe
<1>3. CASE ~ended
  <2>1. l < Len(lines) /\ \E e : lines' = [lines EXCEPT ![Len(lines)] = e]
    BY <1>3 DEF Added, Safe
  <2>2. DOMAIN lines' = DOMAIN lines /\ lines'[l] = lines[l] /\ Len(lines') = Len(lines)
    BY <1>1, <2>1
  <2>. QED
    BY <1>1, <2>1, <2>2 DEF Safe
<1>. QED
  BY <1>2, <1>3 DEF Typing

LEMMA ToldStays ==
  ASSUME Typing, WrittenTold, NEW entry \in Lines, lines' = Added(entry), UNCHANGED written
  PROVE  WrittenTold'
<1>. SUFFICES ASSUME NEW i \in Positions, written[i] = "alone"
              PROVE  \E l \in StepLines' : Safe(l)' /\ lines'[l].key = KeyOf(i)
  BY DEF WrittenTold, KeyOf, Seen, Before
<1>1. PICK l \in StepLines : Safe(l) /\ lines[l].key = KeyOf(i)
  BY DEF WrittenTold
<1>. QED
  BY <1>1, SafeStays DEF StepLines

(* The line a run appends after a line with its end.                         *)
LEMMA NewLineTold ==
  ASSUME Typing, ended, NEW i \in Positions,
         lines' = Added(StepLine(KeyOf(i), i)), ended' = TRUE
  PROVE  \E l \in StepLines' : Safe(l)' /\ lines'[l].key = KeyOf(i)
<1>. DEFINE e == StepLine(KeyOf(i), i)
<1>1. lines' = Append(lines, e) /\ lines \in Seq(Lines)
  BY DEF Added, Typing
<1>2. PICK l : l = Len(lines) + 1
  OBVIOUS
<1>3. l \in DOMAIN lines' /\ lines'[l] = e
  BY <1>1, <1>2
<1>4. e.kind = "step" /\ e.key = KeyOf(i)
  BY DEF StepLine
<1>. HIDE DEF e
<1>5. l \in StepLines' /\ Safe(l)'
  BY <1>3, <1>4 DEF StepLines, Safe
<1>. QED
  BY <1>3, <1>4, <1>5

LEMMA WInvStep ==
  ASSUME IInv, WInv, [WorkflowNext]_workflowVars
  PROVE  WInv'
<1>. Typing
  BY DEF IInv
<1>0. \A i \in Positions : KeyOf(i)' = KeyOf(i)
  BY DEF KeyOf, Seen, Before
<1>1. ASSUME UNCHANGED <<lines, ended, written>>
      PROVE  WrittenTold'
  BY <1>1 DEF WInv, WrittenTold, StepLines, Safe, KeyOf, Seen, Before
<1>2. ASSUME stage' \notin {"running", "entered", "writing"}
      PROVE  WrittenRead' /\ StepsRunOnce'
  BY <1>2 DEF WrittenRead, StepsRunOnce, InStep
<1>3. ASSUME stage = "running" \/ InStep, UNCHANGED done,
             at \in Nat, at' \in {at, at + 1},
             \A i \in Positions : i >= at' => written'[i] = written[i]
      PROVE  WrittenRead'
  <2>. SUFFICES ASSUME NEW i \in Positions, i >= at', written'[i] = "alone"
                PROVE  KeyOf(i) \in DOMAIN done
    BY <1>0, <1>3 DEF WrittenRead
  <2>1. i >= at /\ written[i] = "alone"
    BY <1>3, ProgramIs
  <2>. QED
    BY <1>3, <2>1 DEF WInv, WrittenRead
<1>4. CASE Open
  <2>1. UNCHANGED <<lines, ended, written>> /\ StepsRunOnce'
    BY <1>4 DEF Open, disk, StepsRunOnce
  <2>2. CASE HasResult
    BY <1>1, <1>2, <1>4, <2>1, <2>2 DEF Open, WInv
  <2>3. CASE ~HasResult
    <3>1. done' = DoneSteps
      BY <1>4, <2>3 DEF Open
    <3>2. \A i \in Positions : written[i] = "alone" => KeyOf(i) \in DOMAIN DoneSteps
      BY DEF WInv, WrittenTold, DoneSteps
    <3>3. WrittenRead'
      BY <1>0, <2>1, <3>1, <3>2 DEF WrittenRead
    <3>. QED
      BY <1>1, <2>1, <3>3 DEF WInv
  <2>. QED
    BY <2>2, <2>3
<1>5. CASE Enter \/ Replay
  <2>1. /\ UNCHANGED <<lines, ended, written, done>> /\ stage' # "writing" /\ at \in Nat
        /\ (stage = "running" \/ InStep) /\ at' \in {at, at + 1}
    BY <1>5 DEF Enter, Replay, InStep, disk, Typing
  <2>. QED
    BY <1>1, <1>3, <2>1 DEF WInv, StepsRunOnce
<1>6. CASE RunBlock \/ Answered
  <2>1. /\ UNCHANGED <<lines, ended, written, done, at>> /\ at \in Nat
        /\ InStep /\ ~Journaled
    BY <1>6 DEF RunBlock, Answered, AtQuestion, AtBlock, InStep, disk, Typing
  <2>2. at \in Positions /\ KeyOf(at) \notin DOMAIN done
    BY <2>1, KeyIs DEF Journaled
  <2>3. written[at] # "alone"
    BY <2>1, <2>2 DEF WInv, WrittenRead
  <2>. QED
    BY <1>1, <1>3, <2>1, <2>3 DEF WInv, StepsRunOnce
<1>7. CASE Ask \/ AskedAgain \/ StartWaiting \/ Fail \/ QuestionLost \/ CallAgain
  <2>1. /\ UNCHANGED <<lines, ended, written>>
        /\ stage' \notin {"running", "entered", "writing"}
    BY <1>7
    DEF Ask, AskedAgain, StartWaiting, Fail, QuestionLost, CallAgain, RunOver, disk
  <2>. QED
    BY <1>1, <1>2, <2>1 DEF WInv
<1>8. CASE Journal
  <2>0. /\ stage' = "running" /\ InStep /\ at' = at + 1
        /\ lines' = Added(StepLine(Key, at)) /\ ended' = TRUE /\ UNCHANGED done
        /\ written' = [written EXCEPT ![at] = IF ended THEN "alone" ELSE "joined"]
    BY <1>8 DEF Journal, Write, InStep
  <2>1. at \in Positions /\ at \in Nat /\ Key = KeyOf(at) /\ StepLine(Key, at) \in Lines
    BY <2>0, KeyIs, ProgramIs DEF StepLine, Lines
  <2>2. WrittenTold'
    <3>. SUFFICES ASSUME NEW i \in Positions, written'[i] = "alone"
                  PROVE  \E l \in StepLines' : Safe(l)' /\ lines'[l].key = KeyOf(i)
      BY <1>0 DEF WrittenTold
    <3>1. CASE i = at
      <4>1. ended
        BY <2>0, <2>1, <3>1 DEF Typing
      <4>. QED
        BY <2>0, <2>1, <3>1, <4>1, NewLineTold
    <3>2. CASE i # at
      <4>1. written[i] = "alone"
        BY <2>0, <3>2 DEF Typing
      <4>2. PICK l \in StepLines : Safe(l) /\ lines[l].key = KeyOf(i)
        BY <4>1 DEF WInv, WrittenTold
      <4>. QED
        BY <2>0, <2>1, <4>2, SafeStays DEF StepLines
    <3>. QED
      BY <3>1, <3>2
  <2>3. \A i \in Positions : i >= at' => written'[i] = written[i]
    BY <2>0, <2>1, ProgramIs DEF Typing
  <2>. QED
    BY <1>3, <2>0, <2>1, <2>2, <2>3 DEF WInv, StepsRunOnce
<1>9. CASE FinishBody \/ FailWriting
  <2>1. PICK entry \in Lines : lines' = Added(entry)
    <3>1. CASE FinishBody
      BY <3>1 DEF FinishBody, Write, Lines
    <3>2. CASE FailWriting
      <4>1. PICK e \in {StepLine(Key, at), ResultLine}, kind \in CutKinds :
               /\ e = StepLine(Key, at) => InStep
               /\ Cut(e, kind)
        BY <3>2, WorkflowAssumption DEF FailWriting, InStep, StepLine, ResultLine
      <4>2. e \in Lines /\ Garbled \in Lines /\ Split \in Lines
        BY <4>1, KeyIs DEF Lines, StepLine
      <4>. QED
        BY <4>1, <4>2 DEF Cut, CutKinds
    <3>. QED
      BY <1>9, <3>1, <3>2
  <2>2. UNCHANGED written /\ stage' \notin {"running", "entered", "writing"}
    BY <1>9 DEF FinishBody, FailWriting, RunOver
  <2>. QED
    BY <1>2, <2>1, <2>2, ToldStays DEF WInv
<1>10. CASE DecideRow \/ UNCHANGED workflowVars
  <2>1. /\ UNCHANGED <<lines, ended, written, done, at>>
        /\ stage' = stage \/ stage' = "ready"
    BY <1>10 DEF DecideRow, workflowVars, run, disk
  <2>2. CASE stage' = stage
    <3>1. WrittenRead' /\ StepsRunOnce'
      BY <1>0, <2>1, <2>2 DEF WInv, WrittenRead, StepsRunOnce, InStep
    <3>. QED
      BY <1>1, <2>1, <3>1 DEF WInv
  <2>3. CASE stage' = "ready"
    BY <1>1, <1>2, <2>1, <2>3 DEF WInv
  <2>. QED
    BY <2>1, <2>2, <2>3
<1>. QED
  BY <1>4, <1>5, <1>6, <1>7, <1>8, <1>9, <1>10 DEF WorkflowNext, BodyStep

(* A step whose value was journaled on a line of its own does not run again: *)
(* whatever later writes are cut, joined or repeated, every run reads it.    *)
THEOREM StepsRunOnceHolds == WorkflowSpec => []StepsRunOnce
<1>1. WorkflowInit => WInv
  BY DEF WorkflowInit, WInv, WrittenTold, WrittenRead, StepsRunOnce, InStep
<1>2. WInv => StepsRunOnce
  BY DEF WInv
<1>. QED
  BY <1>1, <1>2, WInvStep, Invariant, PTL DEF WorkflowSpec
==============================================================================
