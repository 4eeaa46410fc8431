------------------------- MODULE JudgeScoring_proofs -------------------------
(***************************************************************************)
(* Judge scoring implements the table of module JudgeTable, for any cells, *)
(* judges and analyses, with any overlap, kill and Ctrl-C: the counter of  *)
(* a context reaches 0 exactly when the last of its judges is in.  Where   *)
(* nothing overlaps, calls are paid for once, an analysis that ends has    *)
(* forgotten no judge of any cell, and writers keep each other's scores.   *)
(***************************************************************************)
EXTENDS JudgeScoring, FiniteSetTheorems, TLAPS

\* The judges of a context that are pending and not in yet.
Open(x) == {j \in x.pending : x.scores[j] = NoEntry}

\* A context with judges pending is about a trace, and has the others' scores.
Covers(c, x) ==
  x.pending # {} => /\ x.of \in Execs
                    /\ \A j \in JudgesOf[c] : j \in x.pending \/ x.existing.judge[j] # NoEntry

Apart(i, k) == i.cell = k.cell => i.judges \cap k.judges = {}

\* Contexts count what is open, and it is asked for at most once.
Sound(contexts, asked, given) ==
  /\ \A c \in Cells : contexts[c].remaining = Cardinality(Open(contexts[c])) /\ Covers(c, contexts[c])
  /\ \A i \in asked : i.judges # {} /\ i.judges \subseteq Open(contexts[i.cell])
  /\ \A i \in given : /\ i.judges # {} /\ i.judges \subseteq Open(contexts[i.cell])
                      /\ \A j \in i.judges : i.scores[j] # NoEntry
  /\ \A i, k \in asked : i # k => Apart(i, k)
  /\ \A i, k \in given : i # k => Apart(i, k)
  /\ \A i \in asked, k \in given : Apart(i, k)

\* What holds of an analysis, at its control point.
PoolOf(a) ==
  /\ pc[a] \in {"new", "collecting"} => answered[a] = {}
  /\ pc[a] = "judging" => Sound(ctx[a], queued[a], answered[a])

PoolInv == \A a \in Analyses : PoolOf(a)

IInv == TypeOK /\ PoolInv

-----------------------------------------------------------------------------
(* Scores, verdicts and contexts.                                          *)

LEMMA NoScoresType ==
  /\ Unjudged \in Verdicts /\ NoScores \in Scores /\ NoScores.judge = Unjudged
  /\ NoContext \in Context /\ NoContexts \in [Cells -> Context]
<1>1. Unjudged \in Verdicts
  BY DEF Unjudged, Verdicts
<1>2. 0 \in 0..MaxExec
  BY ScoresAssumption
<1>3. NoScores \in Scores /\ NoScores.judge = Unjudged
  BY <1>1, <1>2 DEF NoScores, Scores
<1>4. NoContext \in Context
  BY <1>1, <1>2, <1>3 DEF NoContext, Context
<1> QED
  BY <1>1, <1>3, <1>4 DEF NoContexts

LEMMA ReadType == \A f \in Scores \cup {Torn} : Read(f) \in Scores
BY NoScoresType DEF Read

LEMMA FiniteJudges ==
  ASSUME NEW s \in SUBSET Judges
  PROVE  IsFiniteSet(s) /\ Cardinality(s) \in Nat /\ (Cardinality(s) = 0 <=> s = {})
BY CellsAssumption, FS_Subset, FS_CardinalityType, FS_EmptySet

\* What is collected for a cell: everything pending is open.
LEMMA CollectedSound ==
  ASSUME TypeOK, NEW a \in Analyses, NEW c \in Cells
  PROVE  LET x == Collected(a, c)
         IN  /\ x \in Context /\ x.pending \subseteq JudgesOf[c] /\ Open(x) = x.pending
             /\ x.remaining = Cardinality(Open(x)) /\ Covers(c, x)
<1> DEFINE p == Pending(Read(file[c]), JudgesOf[c], a \in forced)
           x == Collected(a, c)
<1>1. p \subseteq JudgesOf[c] /\ JudgesOf[c] \subseteq Judges
  BY CellsAssumption DEF Pending
<1>2. Read(file[c]) \in Scores /\ trace[c] \in 0..MaxExec
  BY ReadType DEF TypeOK
<1>3. CASE trace[c] = 0 \/ p = {}
  <2>1. x = NoContext
    BY <1>3 DEF Collected
  <2>2. x.pending = {} /\ Open(x) = {} /\ x.remaining = 0
    BY <2>1 DEF NoContext, Open
  <2> QED
    BY <2>1, <2>2, NoScoresType, FS_EmptySet DEF Covers
<1>4. CASE trace[c] # 0 /\ p # {}
  <2>1. x = [existing |-> Read(file[c]), pending |-> p, of |-> trace[c],
             remaining |-> Cardinality(p), scores |-> Unjudged]
    BY <1>4 DEF Collected, Remaining
  <2> HIDE DEF x
  <2>2. Open(x) = x.pending
    BY <1>1, <2>1 DEF Open, Unjudged
  <2>3. x \in Context
    BY <1>1, <1>2, <2>1, FiniteJudges, NoScoresType DEF Context
  <2>4. Covers(c, x)
    BY <1>2, <1>4, <2>1, ScoresAssumption DEF Covers, Pending, Execs
  <2> QED
    BY <1>1, <2>1, <2>2, <2>3, <2>4 DEF x
<1> QED
  BY <1>3, <1>4

\* Taking an answer in: what it answers is open no more, the rest stays open.
LEMMA InSound ==
  ASSUME NEW x \in Context, NEW ans \in Answer,
         ans.judges \subseteq Open(x), \A j \in ans.judges : ans.scores[j] # NoEntry,
         x.remaining = Cardinality(Open(x))
  PROVE  LET now == In(x, ans)
         IN  /\ now \in Context /\ Open(now) = Open(x) \ ans.judges
             /\ now.remaining = Cardinality(Open(now))
             /\ now.existing = x.existing /\ now.pending = x.pending /\ now.of = x.of
<1> DEFINE now == In(x, ans)
           scores == [j \in Judges |-> IF j \in ans.judges THEN ans.scores[j] ELSE x.scores[j]]
<1>1. now = [x EXCEPT !.remaining = @ - Cardinality(ans.judges), !.scores = scores]
  BY DEF In
<1>2. /\ now.existing = x.existing /\ now.pending = x.pending /\ now.of = x.of
      /\ now.remaining = x.remaining - Cardinality(ans.judges) /\ now.scores = scores
  BY <1>1 DEF Context
<1>3. x.pending \subseteq Judges /\ ans.judges \subseteq Judges
  BY DEF Context, Answer
<1>4. Open(now) = Open(x) \ ans.judges
  BY <1>2, <1>3 DEF Open
<1>5. /\ Cardinality(Open(x) \ ans.judges) = Cardinality(Open(x)) - Cardinality(ans.judges)
      /\ Cardinality(Open(x) \ ans.judges) \in Nat
  <2>1. Open(x) \cap ans.judges = ans.judges /\ Open(x) \subseteq Judges
    BY <1>3 DEF Open
  <2>2. IsFiniteSet(Open(x)) /\ Open(x) \ ans.judges \in SUBSET Judges
    BY <2>1, FiniteJudges
  <2>3. Cardinality(Open(x) \ ans.judges)
          = Cardinality(Open(x)) - Cardinality(Open(x) \cap ans.judges)
    BY <2>2, FS_Difference
  <2>4. Cardinality(Open(x) \ ans.judges) \in Nat
    BY <2>2, FiniteJudges
  <2>5. Cardinality(Open(x) \cap ans.judges) = Cardinality(ans.judges)
    BY <2>1
  <2> QED
    BY <2>3, <2>4, <2>5
<1>6. now \in Context
  <2>1. scores \in Verdicts
    BY DEF Context, Answer, Verdicts
  <2>2. now.remaining \in Nat
    BY <1>2, <1>5
  <2> HIDE DEF scores
  <2> QED
    BY <1>1, <1>2, <2>1, <2>2 DEF Context
<1> QED
  BY <1>2, <1>4, <1>5, <1>6

\* When nothing is open the merged file has an entry of every judge of the cell.
LEMMA MergedWhole ==
  ASSUME NEW c \in Cells, NEW x \in Context, Covers(c, x), x.pending # {}, Open(x) = {}
  PROVE  LET f == MergeJudges(x.existing, x.pending, x.scores)
         IN  f \in Scores /\ \A j \in JudgesOf[c] : f.judge[j] # NoEntry
<1> DEFINE judge == [j \in Judges |-> IF j \in x.pending THEN x.scores[j] ELSE x.existing.judge[j]]
           f == MergeJudges(x.existing, x.pending, x.scores)
<1>1. x.existing \in Scores /\ x.scores \in Verdicts /\ x.existing.judge \in Verdicts
  BY DEF Context, Scores
<1>2. judge \in Verdicts
  BY <1>1 DEF Verdicts
<1>3. \A j \in JudgesOf[c] : judge[j] # NoEntry
  BY CellsAssumption DEF Covers, Open
<1>4. f = [x.existing EXCEPT !.judge = judge]
  BY DEF MergeJudges
<1> HIDE DEF judge
<1>5. f.judge = judge /\ f \in Scores
  BY <1>1, <1>2, <1>4 DEF Scores
<1> QED
  BY <1>3, <1>5

-----------------------------------------------------------------------------
(* The invariant.                                                          *)

LEMMA InitInv == Init => IInv
<1> SUFFICES ASSUME Init PROVE IInv
  OBVIOUS
<1>1. TypeOK
  <2>1. \A c \in Cells : trace[c] \in 0..MaxExec /\ exec[c] \in Execs
    BY ScoresAssumption DEF Init, Execs
  <2>2. races \in 0..MaxRaces
    BY BoundsAssumption DEF Init
  <2> QED
    BY <2>1, <2>2, NoScoresType DEF Init, TypeOK, Execs
<1>2. \A a \in Analyses : PoolOf(a)
  BY DEF Init, PoolOf
<1> QED
  BY <1>1, <1>2 DEF IInv, PoolInv

\* A step of one analysis leaves the pools of the others as they are.
LEMMA OthersSound ==
  ASSUME IInv, NEW a \in Analyses, PoolOf(a)',
         \A b \in Analyses \ {a} : /\ pc'[b] = pc[b] /\ ctx'[b] = ctx[b]
                                   /\ queued'[b] = queued[b] /\ answered'[b] = answered[b]
  PROVE  PoolInv'
<1> SUFFICES ASSUME NEW b \in Analyses, b # a PROVE PoolOf(b)'
  BY DEF PoolInv
<1> QED
  BY DEF IInv, PoolInv, PoolOf, Sound

LEMMA RaceType ==
  ASSUME NEW A, races \in 0..MaxRaces, Race(A)
  PROVE  races' \in 0..MaxRaces
BY BoundsAssumption DEF Race

\* Metric scores are merged beside the scores of judges.
LEMMA MergedMetrics ==
  ASSUME NEW f \in Scores \cup {Torn}, NEW e \in 0..MaxExec
  PROVE  /\ MergeMetrics(f, e) \in Scores
         /\ Read(MergeMetrics(f, e)).judge = Read(f).judge
<1>1. Read(f) \in Scores
  BY ReadType
<1>2. MergeMetrics(f, e) \in Scores /\ MergeMetrics(f, e).judge = Read(f).judge
  BY <1>1 DEF MergeMetrics, Scores
<1>3. MergeMetrics(f, e) # Torn
  BY <1>2, ScoresAssumption
<1> QED
  BY <1>2, <1>3 DEF Read

LEMMA ExecuteInv ==
  ASSUME IInv, NEW c \in Cells, Execute(c)
  PROVE  IInv'
<1>1. TypeOK'
  <2>1. exec[c] + 1 \in Execs /\ exec[c] + 1 \in 0..MaxExec
    BY ScoresAssumption DEF IInv, TypeOK, Execute, Execs
  <2>2. InlineScores(exec[c] + 1) \in Scores
    BY <2>1, NoScoresType DEF InlineScores, Scores
  <2>3. file' \in [Cells -> Scores \cup {Torn}]
    BY <2>2 DEF IInv, TypeOK, Execute
  <2>4. exec' \in [Cells -> Execs] /\ trace' \in [Cells -> 0..MaxExec]
    BY <2>1 DEF IInv, TypeOK, Execute
  <2>5. races' \in 0..MaxRaces
    BY RaceType DEF IInv, TypeOK, Execute
  <2> QED
    BY <2>3, <2>4, <2>5 DEF IInv, TypeOK, Execute, pool
<1>2. PoolInv'
  BY DEF IInv, PoolInv, PoolOf, Execute, pool, Sound
<1> QED
  BY <1>1, <1>2 DEF IInv

LEMMA StartInv ==
  ASSUME IInv, NEW a \in Analyses, Start(a) \/ DieGating(a)
  PROVE  IInv'
<1>1. file' \in [Cells -> Scores \cup {Torn}]
  <2>1. CASE Start(a)
    <3>1. \A c \in Cells : MergeMetrics(file[c], trace[c]) \in Scores
      BY MergedMetrics DEF IInv, TypeOK
    <3> QED
      BY <2>1, <3>1 DEF IInv, TypeOK, Start
  <2>2. CASE DieGating(a)
    BY <2>2 DEF IInv, TypeOK, DieGating
  <2> QED
    BY <2>1, <2>2
<1>2. TypeOK'
  <2>1. races' \in 0..MaxRaces
    BY RaceType DEF IInv, TypeOK, Start, DieGating
  <2>2. pc' \in [Analyses -> {"new", "ended", "killed"} \cup Stages]
    BY DEF IInv, TypeOK, Start, DieGating, Goto, Stages
  <2>3. forced' \subseteq Analyses
    BY DEF IInv, TypeOK, Start, DieGating
  <2> QED
    BY <1>1, <2>1, <2>2, <2>3 DEF IInv, TypeOK, Start, DieGating, pool
<1>3. PoolOf(a)'
  <2>1. pc[a] = "new" /\ answered[a] = {}
    BY DEF IInv, PoolInv, PoolOf, Start, DieGating, IsNext
  <2>2. pc'[a] \in {"collecting", "killed"} /\ answered'[a] = {}
    BY <2>1 DEF IInv, TypeOK, Start, DieGating, Goto, pool
  <2> QED
    BY <2>2 DEF PoolOf
<1>4. PoolInv'
  BY <1>3, OthersSound DEF IInv, TypeOK, Start, DieGating, Goto, pool
<1> QED
  BY <1>2, <1>4 DEF IInv

\* The items of one cell: about its judges pending, and disjoint.
LEMMA ItemsSound ==
  ASSUME NEW c \in Cells, NEW p \in SUBSET Judges, NEW batch \in BOOLEAN
  PROVE  /\ Items(c, p, batch) \subseteq Item
         /\ \A i \in Items(c, p, batch) : i.cell = c /\ i.judges # {} /\ i.judges \subseteq p
         /\ \A i, k \in Items(c, p, batch) : i # k => Apart(i, k)
<1>1. CASE p = {}
  BY <1>1 DEF Items
<1>2. CASE p # {} /\ batch
  BY <1>2 DEF Items, Item
<1>3. CASE p # {} /\ ~batch
  <2>1. Items(c, p, batch) = {[cell |-> c, judges |-> {j}] : j \in p}
    BY <1>3 DEF Items
  <2> QED
    BY <2>1 DEF Item, Apart
<1> QED
  BY <1>1, <1>2, <1>3

LEMMA CollectInv ==
  ASSUME IInv, NEW a \in Analyses, Collect(a)
  PROVE  IInv'
<1> DEFINE new == [c \in Cells |-> Collected(a, c)]
<1>1. PICK batch \in BOOLEAN :
        /\ ctx' = [ctx EXCEPT ![a] = new]
        /\ queued' = [queued EXCEPT ![a] = UNION {Items(c, new[c].pending, batch) : c \in Cells}]
  BY CellsAssumption DEF Collect
<1> DEFINE asked == UNION {Items(c, new[c].pending, batch) : c \in Cells}
<1>2. \A c \in Cells :
        /\ new[c] \in Context /\ Open(new[c]) = new[c].pending /\ new[c].pending \subseteq Judges
        /\ new[c].remaining = Cardinality(Open(new[c])) /\ Covers(c, new[c])
  BY CollectedSound, CellsAssumption DEF IInv
<1> HIDE DEF new
<1>3. new \in [Cells -> Context]
  BY <1>2 DEF new
<1>4. asked \in SUBSET Item
  BY <1>2, ItemsSound
<1>5. TypeOK'
  <2>1. ctx' \in [Analyses -> [Cells -> Context]]
    BY <1>1, <1>3 DEF IInv, TypeOK
  <2>2. queued' \in [Analyses -> SUBSET Item]
    BY <1>1, <1>4 DEF IInv, TypeOK
  <2>3. pc' \in [Analyses -> {"new", "ended", "killed"} \cup Stages]
    BY DEF IInv, TypeOK, Collect, Goto, Stages
  <2> QED
    BY <2>1, <2>2, <2>3 DEF IInv, TypeOK, Collect
<1>6. Sound(new, asked, {})
  <2>1. \A i \in asked : i \in Items(i.cell, new[i.cell].pending, batch) /\ i.cell \in Cells
    BY <1>2, ItemsSound
  <2>2. \A i \in asked : i.judges # {} /\ i.judges \subseteq Open(new[i.cell])
    BY <1>2, <2>1, ItemsSound
  <2>3. \A i, k \in asked : i # k => Apart(i, k)
    <3> SUFFICES ASSUME NEW i \in asked, NEW k \in asked, i # k, i.cell = k.cell
                 PROVE  Apart(i, k)
      BY DEF Apart
    <3>1. i.cell \in Cells /\ new[i.cell].pending \in SUBSET Judges
      BY <1>2, <2>1
    <3>2. i \in Items(i.cell, new[i.cell].pending, batch)
      BY <2>1
    <3>3. k \in Items(i.cell, new[i.cell].pending, batch)
      BY <2>1
    <3> HIDE DEF asked
    <3> QED
      BY <3>1, <3>2, <3>3, ItemsSound
  <2> QED
    BY <1>2, <2>2, <2>3 DEF Sound
<1>7. PoolOf(a)'
  <2>1. answered'[a] = {}
    BY DEF IInv, PoolInv, PoolOf, Collect
  <2>2. pc'[a] = "judging" /\ ctx'[a] = new /\ queued'[a] = asked
    BY <1>1 DEF IInv, TypeOK, Collect, Goto
  <2> QED
    BY <1>6, <2>1, <2>2 DEF PoolOf
<1>8. PoolInv'
  BY <1>1, <1>7, OthersSound DEF IInv, TypeOK, Collect, Goto
<1> QED
  BY <1>5, <1>8 DEF IInv

\* An item moves from those asked to those answered.
LEMMA CallInv ==
  ASSUME IInv, NEW a \in Analyses, NEW it \in queued[a], Call(a, it)
  PROVE  IInv'
<1> DEFINE x == ctx[a][it.cell]
<1>1. PICK ok \in [it.judges -> BOOLEAN] :
        answered' = [answered EXCEPT ![a] = @ \cup
          {[cell |-> it.cell, judges |-> it.judges,
            scores |-> [j \in Judges |->
               IF j \in it.judges THEN [of |-> ctx[a][it.cell].of, ok |-> ok[j]]
               ELSE NoEntry]]}]
  BY DEF Call
<1> DEFINE scores == [j \in Judges |-> IF j \in it.judges THEN [of |-> x.of, ok |-> ok[j]]
                                       ELSE NoEntry]
           ans == [cell |-> it.cell, judges |-> it.judges, scores |-> scores]
<1>2. /\ it \in Item /\ Sound(ctx[a], queued[a], answered[a])
      /\ pc'[a] = "judging" /\ ctx'[a] = ctx[a]
      /\ queued'[a] = queued[a] \ {it} /\ answered'[a] = answered[a] \cup {ans}
  BY <1>1 DEF IInv, TypeOK, PoolInv, PoolOf, Call
<1>3. it.cell \in Cells /\ it.judges \subseteq Judges /\ it.judges # {}
      /\ it.judges \subseteq Open(x)
  BY <1>2 DEF Item, Sound
<1>4. x.of \in Execs
  BY <1>2, <1>3 DEF Sound, Covers, Open
<1>5. /\ ans \in Answer
      /\ \A j \in ans.judges : ans.scores[j] # NoEntry
  <2>1. \A j \in it.judges : [of |-> x.of, ok |-> ok[j]] \in Entry
    BY <1>4 DEF Entry
  <2> HIDE DEF x
  <2>2. \A j \in it.judges : scores[j] \in Entry
    BY <1>3, <2>1
  <2>3. scores \in Verdicts
    BY <2>1 DEF Verdicts
  <2> HIDE DEF scores
  <2> QED
    BY <1>3, <2>2, <2>3, ScoresAssumption DEF Answer
<1> HIDE DEF ans
<1>6. ans.cell = it.cell /\ ans.judges = it.judges
  BY DEF ans
<1>7. TypeOK'
  <2>1. queued' \in [Analyses -> SUBSET Item]
    BY DEF IInv, TypeOK, Call
  <2>2. answered' = [answered EXCEPT ![a] = @ \cup {ans}]
    BY <1>1 DEF ans
  <2>3. answered' \in [Analyses -> SUBSET Answer]
    BY <1>5, <2>2 DEF IInv, TypeOK
  <2> QED
    BY <2>1, <2>3 DEF IInv, TypeOK, Call
<1>8. Sound(ctx[a], queued[a] \ {it}, answered[a] \cup {ans})
  <2>1. \A i \in queued[a] \ {it} : Apart(i, ans)
    BY <1>2, <1>6 DEF Sound, Apart
  <2>2. \A k \in answered[a] : Apart(ans, k) /\ Apart(k, ans)
    BY <1>2, <1>6 DEF Sound, Apart
  <2> QED
    BY <1>2, <1>3, <1>5, <1>6, <2>1, <2>2 DEF Sound
<1>9. PoolInv'
  <2>1. PoolOf(a)'
    BY <1>2, <1>8 DEF PoolOf
  <2> QED
    BY <2>1, OthersSound DEF IInv, TypeOK, Call
<1> QED
  BY <1>7, <1>9 DEF IInv

\* The context of an answer being taken in, and what is written with the last.
LEMMA TakenIn ==
  ASSUME IInv, NEW a \in Analyses, NEW ans \in answered[a], TakeIn(a, ans)
  PROVE  LET x == ctx[a][ans.cell]
             now == In(x, ans)
             f == MergeJudges(now.existing, now.pending, now.scores)
         IN  /\ ans \in Answer /\ ans.cell \in Cells
             /\ now \in Context /\ Open(now) = Open(x) \ ans.judges
             /\ now.remaining = Cardinality(Open(now)) /\ Covers(ans.cell, now)
             /\ now.remaining <= 0 =>
                  f \in Scores /\ \A j \in JudgesOf[ans.cell] : f.judge[j] # NoEntry
<1> DEFINE x == ctx[a][ans.cell]
           now == In(x, ans)
<1>1. Sound(ctx[a], queued[a], answered[a])
  BY DEF IInv, PoolInv, PoolOf, TakeIn
<1>2. ans \in Answer /\ ans.cell \in Cells /\ x \in Context
  BY DEF IInv, TypeOK, Answer
<1>3. /\ ans.judges # {} /\ ans.judges \subseteq Open(x)
      /\ \A j \in ans.judges : ans.scores[j] # NoEntry
      /\ x.remaining = Cardinality(Open(x)) /\ Covers(ans.cell, x)
  BY <1>1, <1>2 DEF Sound
<1>4. /\ now \in Context /\ Open(now) = Open(x) \ ans.judges
      /\ now.remaining = Cardinality(Open(now))
      /\ now.existing = x.existing /\ now.pending = x.pending /\ now.of = x.of
  BY <1>2, <1>3, InSound
<1> HIDE DEF x, now
<1>5. Covers(ans.cell, now)
  BY <1>3, <1>4 DEF Covers
<1>6. ASSUME now.remaining <= 0
      PROVE  Open(now) = {} /\ now.pending # {}
  <2>1. Open(now) \in SUBSET Judges
    BY <1>4 DEF Open, Context
  <2>2. Open(now) = {}
    BY <1>4, <1>6, <2>1, FiniteJudges
  <2>3. x.pending # {}
    BY <1>3 DEF Open
  <2> QED
    BY <1>4, <2>2, <2>3
<1>7. now.remaining <= 0 =>
        LET f == MergeJudges(now.existing, now.pending, now.scores)
        IN  f \in Scores /\ \A j \in JudgesOf[ans.cell] : f.judge[j] # NoEntry
  BY <1>2, <1>4, <1>5, <1>6, MergedWhole
<1> QED
  BY <1>2, <1>4, <1>5, <1>7 DEF x, now

LEMMA TakeInInv ==
  ASSUME IInv, NEW a \in Analyses, NEW ans \in answered[a], TakeIn(a, ans)
  PROVE  IInv'
<1> DEFINE c == ans.cell
           now == In(ctx[a][c], ans)
           f == MergeJudges(now.existing, now.pending, now.scores)
<1>1. /\ ans \in Answer /\ c \in Cells
      /\ now \in Context /\ Open(now) = Open(ctx[a][c]) \ ans.judges
      /\ now.remaining = Cardinality(Open(now)) /\ Covers(c, now)
      /\ now.remaining <= 0 => f \in Scores
  BY TakenIn
<1>2. /\ ctx' = [ctx EXCEPT ![a][c] = now]
      /\ file' = IF now.remaining <= 0 THEN [file EXCEPT ![c] = f] ELSE file
  BY DEF TakeIn
<1> HIDE DEF c, now, f
<1>3. TypeOK'
  <2>1. file' \in [Cells -> Scores \cup {Torn}]
    BY <1>1, <1>2 DEF IInv, TypeOK
  <2>2. ctx' \in [Analyses -> [Cells -> Context]]
    BY <1>1, <1>2 DEF IInv, TypeOK
  <2>3. answered' \in [Analyses -> SUBSET Answer]
    BY DEF IInv, TypeOK, TakeIn
  <2> QED
    BY <2>1, <2>2, <2>3 DEF IInv, TypeOK, TakeIn
<1>4. /\ Sound(ctx[a], queued[a], answered[a])
      /\ pc'[a] = "judging" /\ ctx'[a] = [ctx[a] EXCEPT ![c] = now]
      /\ queued'[a] = queued[a] /\ answered'[a] = answered[a] \ {ans}
  BY <1>2 DEF IInv, TypeOK, PoolInv, PoolOf, TakeIn
<1>5. Sound([ctx[a] EXCEPT ![c] = now], queued[a], answered[a] \ {ans})
  <2> DEFINE after == [ctx[a] EXCEPT ![c] = now]
  <2>1. ctx[a] \in [Cells -> Context] /\ queued[a] \in SUBSET Item /\ answered[a] \in SUBSET Answer
    BY DEF IInv, TypeOK
  <2>2. after[c] = now /\ \A d \in Cells \ {c} : after[d] = ctx[a][d]
    BY <1>1, <2>1
  <2> HIDE DEF after
  <2>3. \A i \in queued[a] : i.judges \subseteq Open(after[i.cell])
    BY <1>1, <1>4, <2>1, <2>2 DEF Sound, Apart, Item, c
  <2>4. \A i \in answered[a] \ {ans} : i.judges \subseteq Open(after[i.cell])
    BY <1>1, <1>4, <2>1, <2>2 DEF Sound, Apart, Answer, c
  <2>5. \A d \in Cells : after[d].remaining = Cardinality(Open(after[d])) /\ Covers(d, after[d])
    BY <1>1, <1>4, <2>2 DEF Sound
  <2>6. Sound(after, queued[a], answered[a] \ {ans})
    BY <1>4, <2>3, <2>4, <2>5 DEF Sound
  <2> QED
    BY <2>6 DEF after
<1>6. PoolInv'
  <2>1. PoolOf(a)'
    BY <1>4, <1>5 DEF PoolOf
  <2>2. \A b \in Analyses \ {a} : ctx'[b] = ctx[b]
    BY <1>2 DEF IInv, TypeOK
  <2> QED
    BY <2>1, <2>2, OthersSound DEF IInv, TypeOK, TakeIn
<1> QED
  BY <1>3, <1>6 DEF IInv

\* An analysis that is over, or waits for calls in vain, holds nothing.
LEMMA GoneInv ==
  ASSUME IInv, NEW a \in Analyses,
         \/ Finish(a) \/ Kill(a) \/ Interrupt(a) \/ Drained(a)
         \/ \E it \in queued[a] : CallInVain(a, it)
  PROVE  IInv'
<1>1. file' \in [Cells -> Scores \cup {Torn}]
  <2>1. \A c \in Writing(a) : c \in Cells
    BY DEF IInv, TypeOK, Writing, Answer
  <2>2. CASE MayTear(a)
    BY <2>1, <2>2 DEF IInv, TypeOK, MayTear
  <2>3. CASE file' = file
    BY <2>3 DEF IInv, TypeOK
  <2> QED
    BY <2>2, <2>3 DEF Finish, Kill, Interrupt, Drained, CallInVain
<1>2. /\ pc' \in [Analyses -> {"new", "ended", "killed"} \cup Stages]
      /\ pc'[a] \in {"ended", "killed", "draining"}
      /\ \A b \in Analyses \ {a} : pc'[b] = pc[b]
  BY DEF IInv, TypeOK, Finish, Kill, Interrupt, Drained, CallInVain, Over, Goto, Stages
<1>3. /\ ctx' \in [Analyses -> [Cells -> Context]]
      /\ \A b \in Analyses \ {a} : ctx'[b] = ctx[b]
  BY NoScoresType DEF IInv, TypeOK, Finish, Kill, Interrupt, Drained, CallInVain, Over
<1>4. /\ queued' \in [Analyses -> SUBSET Item] /\ answered' \in [Analyses -> SUBSET Answer]
      /\ \A b \in Analyses \ {a} : queued'[b] = queued[b] /\ answered'[b] = answered[b]
  BY DEF IInv, TypeOK, Finish, Kill, Interrupt, Drained, CallInVain, Over
<1>5. forced' \subseteq Analyses
  BY DEF IInv, TypeOK, Finish, Kill, Interrupt, Drained, CallInVain, Over
<1>6. TypeOK'
  BY <1>1, <1>2, <1>3, <1>4, <1>5
  DEF IInv, TypeOK, Finish, Kill, Interrupt, Drained, CallInVain
<1>7. PoolOf(a)'
  BY <1>2 DEF PoolOf
<1>8. PoolInv'
  BY <1>2, <1>3, <1>4, <1>7, OthersSound
<1> QED
  BY <1>6, <1>8 DEF IInv

LEMMA StepInv == IInv /\ [Next]_vars => IInv'
<1> SUFFICES ASSUME IInv, [Next]_vars PROVE IInv'
  OBVIOUS
<1>1. CASE \E c \in Cells : Execute(c)
  BY <1>1, ExecuteInv
<1>2. ASSUME NEW a \in Analyses,
             Start(a) \/ DieGating(a) \/ Advance(a) \/ Kill(a) \/ Interrupt(a)
      PROVE  IInv'
  <2>1. CASE Start(a) \/ DieGating(a)
    BY <2>1, StartInv
  <2>2. CASE Collect(a)
    BY <2>2, CollectInv
  <2>3. CASE \E it \in queued[a] : Call(a, it)
    BY <2>3, CallInv
  <2>4. CASE \E ans \in answered[a] : TakeIn(a, ans)
    BY <2>4, TakeInInv
  <2>5. CASE \/ Finish(a) \/ Kill(a) \/ Interrupt(a) \/ Drained(a)
             \/ \E it \in queued[a] : CallInVain(a, it)
    BY <2>5, GoneInv
  <2> QED
    BY <1>2, <2>1, <2>2, <2>3, <2>4, <2>5 DEF Advance
<1>3. CASE UNCHANGED vars
  BY <1>3 DEF IInv, TypeOK, PoolInv, PoolOf, Sound, vars, pool
<1> QED
  BY <1>1, <1>2, <1>3 DEF Next, Rest

\* Every reachable state is well typed and its pools are sound.
THEOREM Inductive == Spec => []IInv
BY InitInv, StepInv, PTL DEF Spec

-----------------------------------------------------------------------------
(* The refinement.                                                         *)

\* The row of a cell in the table the files show.
Row(c) == Read(file[c]).judge

LEMMA RowsType == TypeOK => \A c \in Cells : Row(c) \in Verdicts
BY ReadType DEF TypeOK, Row, Scores

\* A step that may tear one file, or blank one, forgets that cell or nothing.
LEMMA ForgetsOne ==
  ASSUME TypeOK, NEW c \in Cells, NEW f \in Scores \cup {Torn}, Read(f).judge = Unjudged,
         file' = [file EXCEPT ![c] = f]
  PROVE  Table!Forget(c)
<1>1. \A d \in Cells : Row(d)' = IF d = c THEN Unjudged ELSE Row(d)
  BY DEF TypeOK, Row, Read
<1> QED
  BY <1>1 DEF Table!Forget, Row

\* A torn file forgets all verdicts of its cell.
LEMMA TornForgets ==
  ASSUME TypeOK, NEW c \in Cells, file' = [file EXCEPT ![c] = Torn]
  PROVE  Table!Forget(c)
<1>1. Read(Torn).judge = Unjudged
  BY NoScoresType DEF Read
<1> QED
  BY <1>1, ForgetsOne

\* A step that leaves the judge scores alone is a stutter of the table.
LEMMA SameRows ==
  ASSUME \A c \in Cells : Row(c)' = Row(c)
  PROVE  UNCHANGED [c \in Cells |-> Read(file[c]).judge]
BY DEF Row

LEMMA InitTable == Init => Table!Init
<1> SUFFICES ASSUME Init PROVE Table!Init
  OBVIOUS
<1>1. TypeOK
  BY InitInv DEF IInv
<1> QED
  BY <1>1, RowsType DEF Table!Init, Row

LEMMA ExecuteTable ==
  ASSUME IInv, NEW c \in Cells, Execute(c)
  PROVE  Table!Forget(c) \/ UNCHANGED [d \in Cells |-> Read(file[d]).judge]
<1> DEFINE f == InlineScores(exec[c] + 1)
<1>1. CASE file' = file
  BY <1>1
<1>2. CASE file' = [file EXCEPT ![c] = f]
  <2>1. f \in Scores /\ f.judge = Unjudged
    <3>1. exec[c] + 1 \in 0..MaxExec
      BY ScoresAssumption DEF IInv, TypeOK, Execute, Execs
    <3> QED
      BY <3>1, NoScoresType DEF InlineScores, Scores
  <2>2. f # Torn
    BY <2>1, ScoresAssumption
  <2> HIDE DEF f
  <2>3. Read(f).judge = Unjudged
    BY <2>1, <2>2 DEF Read
  <2> QED
    BY <1>2, <2>1, <2>3, ForgetsOne DEF IInv
<1> QED
  BY <1>1, <1>2 DEF Execute

LEMMA StartTable ==
  ASSUME IInv, NEW a \in Analyses, Start(a)
  PROVE  UNCHANGED [c \in Cells |-> Read(file[c]).judge]
<1>1. \A c \in Cells : Row(c)' = Row(c)
  BY MergedMetrics DEF IInv, TypeOK, Start, Row
<1> QED
  BY <1>1, SameRows

LEMMA TornTable ==
  ASSUME IInv, NEW a \in Analyses, MayTear(a)
  PROVE  \/ \E c \in Cells : Table!Forget(c)
         \/ UNCHANGED [c \in Cells |-> Read(file[c]).judge]
<1>1. \A c \in Writing(a) : c \in Cells
  BY DEF IInv, TypeOK, Writing, Answer
<1>2. CASE file' = file
  BY <1>2
<1>3. CASE \E c \in Writing(a) : file' = [file EXCEPT ![c] = Torn]
  BY <1>1, <1>3, TornForgets DEF IInv
<1> QED
  BY <1>2, <1>3 DEF MayTear

\* With the last answer the cell is judged as a whole, before it not at all.
LEMMA TakeInTable ==
  ASSUME IInv, NEW a \in Analyses, NEW ans \in answered[a], TakeIn(a, ans)
  PROVE  \/ \E c \in Cells : Table!Judge(c)
         \/ UNCHANGED [c \in Cells |-> Read(file[c]).judge]
<1> DEFINE c == ans.cell
           now == In(ctx[a][c], ans)
           f == MergeJudges(now.existing, now.pending, now.scores)
<1>1. /\ c \in Cells
      /\ now.remaining <= 0 => f \in Scores /\ \A j \in JudgesOf[c] : f.judge[j] # NoEntry
      /\ file' = IF now.remaining <= 0 THEN [file EXCEPT ![c] = f] ELSE file
  BY TakenIn DEF TakeIn
<1> HIDE DEF c, now, f
<1>2. CASE now.remaining <= 0
  <2>1. Read(f) = f /\ f.judge \in Verdicts
    BY <1>1, <1>2, ScoresAssumption DEF Read, Scores
  <2>2. \A d \in Cells : Row(d)' = IF d = c THEN f.judge ELSE Row(d)
    BY <1>1, <1>2, <2>1 DEF IInv, TypeOK, Row
  <2>3. Table!Whole(c, f.judge)
    BY <1>1, <1>2 DEF Table!Whole
  <2>4. Table!Judge(c)
    BY <1>1, <2>1, <2>2, <2>3 DEF Table!Judge, Row
  <2> QED
    BY <1>1, <2>4
<1>3. CASE ~(now.remaining <= 0)
  BY <1>1, <1>3
<1> QED
  BY <1>2, <1>3

LEMMA StepTable ==
  IInv /\ [Next]_vars => [Table!Next]_([c \in Cells |-> Read(file[c]).judge])
<1> SUFFICES ASSUME IInv, [Next]_vars
             PROVE  \/ Table!Next
                    \/ UNCHANGED [c \in Cells |-> Read(file[c]).judge]
  OBVIOUS
<1>1. CASE \E c \in Cells : Execute(c)
  BY <1>1, ExecuteTable DEF Table!Next
<1>2. ASSUME NEW a \in Analyses,
             Start(a) \/ DieGating(a) \/ Advance(a) \/ Kill(a) \/ Interrupt(a)
      PROVE  \/ Table!Next
             \/ UNCHANGED [c \in Cells |-> Read(file[c]).judge]
  <2>1. CASE Start(a)
    BY <2>1, StartTable
  <2>2. CASE DieGating(a)
    <3>1. PICK c \in Gated : file' = [file EXCEPT ![c] = Torn]
      BY <2>2 DEF DieGating
    <3> QED
      BY <3>1, TornForgets, CellsAssumption DEF IInv, Table!Next
  <2>3. CASE \E ans \in answered[a] : TakeIn(a, ans)
    BY <2>3, TakeInTable DEF Table!Next
  <2>4. CASE Kill(a) \/ Interrupt(a)
    BY <2>4, TornTable DEF Kill, Interrupt, Table!Next
  <2>5. CASE file' = file
    BY <2>5
  <2> QED
    BY <1>2, <2>1, <2>2, <2>3, <2>4, <2>5
    DEF Advance, Collect, Finish, Drained, Call, CallInVain
<1>3. CASE UNCHANGED vars
  BY <1>3 DEF vars
<1> QED
  BY <1>1, <1>2, <1>3 DEF Next, Rest

\* Judge scoring implements the table: whatever analyses overlap, whatever is
\* executed again, killed or interrupted, a cell's judge scores change as a
\* whole, to a row with every judge of its task or to none.
THEOREM ImplementsTableHolds == Spec => ImplementsTable
<1>1. IInv /\ [Next]_vars => [Table!Next]_([c \in Cells |-> Read(file[c]).judge])
  BY StepTable
<1> QED
  BY <1>1, InitTable, Inductive, PTL DEF Spec, ImplementsTable, Table!Spec

-----------------------------------------------------------------------------
(* Calls are paid for once.                                                *)

\* Without a race only one analysis is under way, and what it still asks for
\* has no score in the file.
Alone ==
  /\ \A a \in Analyses : pc[a] \notin {"judging", "draining"} => queued[a] = {}
  /\ races = 0 => \A a, b \in Analyses : Active(a) /\ Active(b) => a = b
  /\ NotPaidTwice

LEMMA InitAlone == Init => Alone
BY DEF Init, Alone, Active, Stages, NotPaidTwice

\* A race is counted unless nothing is under way.
LEMMA NoRace ==
  ASSUME IInv, Alone, Race({a \in Analyses : Active(a)}), races' = 0
  PROVE  races = 0 /\ \A a \in Analyses : ~Active(a) /\ queued[a] = {}
<1>1. {a \in Analyses : Active(a)} = {} /\ races = 0
  BY BoundsAssumption DEF Race, IInv, TypeOK
<1> QED
  BY <1>1 DEF Alone, Active, Stages

\* Executions and new analyses, which count as races when they meet another.
LEMMA OutsideAlone ==
  ASSUME IInv, Alone,
         \/ \E c \in Cells : Execute(c)
         \/ \E a \in Analyses : Start(a) \/ DieGating(a)
  PROVE  Alone'
<1>1. queued' = queued /\ Race({a \in Analyses : Active(a)})
  BY DEF Execute, Start, DieGating, pool
<1>2. \A a \in Analyses : pc'[a] \notin {"judging", "draining"} => queued'[a] = {}
  BY <1>1 DEF IInv, TypeOK, Alone, Execute, Start, DieGating, Goto, IsNext
<1>3. ASSUME races' = 0
      PROVE  /\ \A a \in Analyses : queued'[a] = {}
             /\ \A a, b \in Analyses : Active(a)' /\ Active(b)' => a = b
  <2>1. \A a \in Analyses : ~Active(a) /\ queued[a] = {}
    BY <1>1, <1>3, NoRace
  <2> QED
    BY <1>1, <2>1 DEF IInv, TypeOK, Execute, Start, DieGating, Goto, Active
<1>4. NotPaidTwice'
  BY <1>3 DEF NotPaidTwice
<1> QED
  BY <1>2, <1>3, <1>4 DEF Alone

LEMMA CollectAlone ==
  ASSUME IInv, Alone, NEW a \in Analyses, Collect(a)
  PROVE  Alone'
<1> DEFINE new == [c \in Cells |-> Collected(a, c)]
<1>1. PICK batch \in BOOLEAN :
        queued' = [queued EXCEPT ![a] = UNION {Items(c, new[c].pending, batch) : c \in Cells}]
  BY CellsAssumption DEF Collect
<1>2. ASSUME a \notin forced, NEW it \in queued'[a], NEW j \in it.judges
      PROVE  Read(file[it.cell]).judge[j] = NoEntry
  <2>1. PICK c \in Cells : it \in Items(c, new[c].pending, batch)
    BY <1>1, <1>2 DEF IInv, TypeOK
  <2>2. new[c].pending \in SUBSET Judges
    BY CollectedSound, CellsAssumption DEF IInv
  <2>3. it.cell = c /\ j \in new[c].pending
    BY <2>1, <2>2, ItemsSound
  <2>4. Collected(a, c) # NoContext
    BY <2>3 DEF NoContext
  <2>5. j \in Pending(Read(file[c]), JudgesOf[c], a \in forced)
    BY <2>3, <2>4 DEF Collected
  <2> QED
    BY <1>2, <2>3, <2>5 DEF Pending
<1>3. NotPaidTwice'
  <2> SUFFICES ASSUME races = 0, NEW b \in Analyses \ forced, NEW it \in queued'[b],
                      NEW j \in it.judges
               PROVE  Read(file[it.cell]).judge[j] = NoEntry
    BY DEF NotPaidTwice, Collect
  <2> QED
    BY <1>1, <1>2 DEF IInv, TypeOK, Alone, NotPaidTwice
<1> QED
  BY <1>1, <1>3 DEF IInv, TypeOK, Alone, Collect, Goto, Active, Stages

\* With the last answer of a cell its file is written, and nothing asks for it.
LEMMA TakeInAlone ==
  ASSUME IInv, Alone, NEW a \in Analyses, NEW ans \in answered[a], TakeIn(a, ans)
  PROVE  Alone'
<1> DEFINE c == ans.cell
           now == In(ctx[a][c], ans)
<1>1. /\ c \in Cells /\ now.remaining = Cardinality(Open(now)) /\ Open(now) \in SUBSET Judges
  <2>1. now \in Context /\ c \in Cells /\ now.remaining = Cardinality(Open(now))
    BY TakenIn
  <2> HIDE DEF now
  <2> QED
    BY <2>1 DEF Open, Context
<1>2. ASSUME now.remaining <= 0, NEW it \in queued[a]
      PROVE  it.cell # c
  <2>1. Open(now) = {}
    BY <1>1, <1>2, FiniteJudges
  <2>2. IInv'
    BY TakeInInv
  <2>3. Sound(ctx'[a], queued'[a], answered'[a])
    BY <2>2 DEF IInv, PoolInv, PoolOf, TakeIn
  <2>4. queued'[a] = queued[a] /\ ctx'[a][c] = now
    BY <1>1 DEF TakeIn, IInv, TypeOK
  <2>5. it.judges # {} /\ it.judges \subseteq Open(ctx'[a][it.cell])
    BY <2>3, <2>4 DEF Sound
  <2> HIDE DEF now, c
  <2> QED
    BY <2>1, <2>4, <2>5
<1>3. /\ UNCHANGED <<pc, forced, queued, races>>
      /\ \A d \in Cells : file'[d] # file[d] => now.remaining <= 0 /\ d = c
  BY DEF TakeIn, IInv, TypeOK
<1> HIDE DEF now, c
<1>4. NotPaidTwice'
  <2> SUFFICES ASSUME races = 0, NEW b \in Analyses \ forced, NEW it \in queued[b],
                      NEW j \in it.judges
               PROVE  Read(file'[it.cell]).judge[j] = NoEntry
    BY <1>3 DEF NotPaidTwice
  <2>1. it.cell \in Cells
    BY DEF IInv, TypeOK, Item
  <2>2. Active(a) /\ Active(b)
    BY DEF TakeIn, Alone, Active, Stages
  <2>3. a = b
    BY <2>2 DEF Alone
  <2>4. file'[it.cell] = file[it.cell]
    BY <1>2, <1>3, <2>1, <2>3
  <2>5. Read(file'[it.cell]) = Read(file[it.cell])
    BY <2>4
  <2> QED
    BY <2>5 DEF Alone, NotPaidTwice
<1> QED
  BY <1>3, <1>4 DEF Alone, Active

\* Whatever is cut short may tear a file, and a torn one holds no scores.
LEMMA GoneAlone ==
  ASSUME IInv, Alone, NEW a \in Analyses,
         \/ Finish(a) \/ Kill(a) \/ Interrupt(a) \/ Drained(a)
         \/ \E it \in queued[a] : Call(a, it) \/ CallInVain(a, it)
  PROVE  Alone'
<1>1. \A c \in Cells, j \in Judges :
        Read(file[c]).judge[j] = NoEntry => Read(file'[c]).judge[j] = NoEntry
  <2>1. \A c \in Cells : file'[c] \in {file[c], Torn}
    BY DEF IInv, TypeOK, MayTear, Finish, Kill, Interrupt, Drained, CallInVain, Call
  <2>2. \A j \in Judges : Read(Torn).judge[j] = NoEntry
    BY NoScoresType DEF Read, Unjudged
  <2> QED
    BY <2>1, <2>2
<1>2. /\ races' = races
      /\ \A b \in Analyses : queued'[b] \subseteq queued[b] /\ (Active(b)' => Active(b))
      /\ \A b \in Analyses : b \in forced /\ b \notin forced' => queued'[b] = {}
      /\ \A b \in Analyses : pc'[b] \notin {"judging", "draining"} => queued'[b] = {}
  <2>1. CASE Finish(a) \/ Kill(a) \/ Drained(a)
    <3>1. PICK how \in {"ended", "killed"} : Over(a, how)
      BY <2>1 DEF Finish, Kill, Drained
    <3>2. /\ pc'[a] = how /\ queued'[a] = {} /\ forced' = forced \ {a} /\ races' = races
          /\ \A b \in Analyses \ {a} : pc'[b] = pc[b] /\ queued'[b] = queued[b]
      BY <2>1, <3>1 DEF IInv, TypeOK, Over, Goto, Finish, Kill, Drained
    <3>3. ~Active(a)'
      BY <3>1, <3>2 DEF Active, Stages
    <3> QED
      BY <3>2, <3>3 DEF Alone, Active
  <2>2. CASE Interrupt(a)
    BY <2>2 DEF IInv, TypeOK, Alone, Interrupt, Goto, Active, Stages
  <2>3. CASE \E it \in queued[a] : Call(a, it) \/ CallInVain(a, it)
    <3>1. /\ UNCHANGED <<pc, forced, races>>
          /\ \E it \in queued[a] : queued' = [queued EXCEPT ![a] = @ \ {it}]
      BY <2>3 DEF Call, CallInVain
    <3>2. \A b \in Analyses : queued'[b] \subseteq queued[b]
      BY <3>1 DEF IInv, TypeOK
    <3> QED
      BY <3>1, <3>2 DEF Alone, Active
  <2> QED
    BY <2>1, <2>2, <2>3
<1>3. NotPaidTwice'
  <2> SUFFICES ASSUME races = 0, NEW b \in Analyses \ forced', NEW it \in queued'[b],
                      NEW j \in it.judges
               PROVE  Read(file'[it.cell]).judge[j] = NoEntry
    BY <1>2 DEF NotPaidTwice
  <2>1. b \notin forced /\ it \in queued[b]
    BY <1>2
  <2>2. it.cell \in Cells /\ j \in Judges
    BY <2>1 DEF IInv, TypeOK, Item
  <2> QED
    BY <1>1, <2>1, <2>2 DEF Alone, NotPaidTwice
<1> QED
  BY <1>2, <1>3 DEF Alone

LEMMA StepAlone == IInv /\ Alone /\ [Next]_vars => Alone'
<1> SUFFICES ASSUME IInv, Alone, [Next]_vars PROVE Alone'
  OBVIOUS
<1>1. CASE \E c \in Cells : Execute(c)
  BY <1>1, OutsideAlone
<1>2. ASSUME NEW a \in Analyses,
             Start(a) \/ DieGating(a) \/ Advance(a) \/ Kill(a) \/ Interrupt(a)
      PROVE  Alone'
  <2>1. CASE Start(a) \/ DieGating(a)
    BY <2>1, OutsideAlone
  <2>2. CASE Collect(a)
    BY <2>2, CollectAlone
  <2>3. CASE \E ans \in answered[a] : TakeIn(a, ans)
    BY <2>3, TakeInAlone
  <2>4. CASE \/ Finish(a) \/ Kill(a) \/ Interrupt(a) \/ Drained(a)
             \/ \E it \in queued[a] : Call(a, it) \/ CallInVain(a, it)
    BY <2>4, GoneAlone
  <2> QED
    BY <1>2, <2>1, <2>2, <2>3, <2>4 DEF Advance
<1>3. CASE UNCHANGED vars
  BY <1>3 DEF Alone, NotPaidTwice, Active, vars, pool
<1> QED
  BY <1>1, <1>2, <1>3 DEF Next, Rest

\* No analysis calls a judge again whose score the file has, unless --re-eval
\* asks for it or two of them overlap.
THEOREM NotPaidTwiceHolds == Spec => []NotPaidTwice
<1>1. Alone => NotPaidTwice
  BY DEF Alone
<1> QED
  BY <1>1, InitAlone, StepAlone, Inductive, PTL DEF Spec

-----------------------------------------------------------------------------
(* What an analysis holds still fits the file and the trace.               *)

\* A judging analysis was collected from the trace and, until its answers are
\* written, from the scores that are still there; what it did not collect
\* needs no judge.
FitsCell(a, c) ==
  LET x == ctx[a][c] IN
  /\ x.pending # {} =>
       /\ x.of = trace[c]
       /\ x.pending = Pending(x.existing, JudgesOf[c], a \in forced)
       /\ IF Open(x) = {} THEN file[c] = MergeJudges(x.existing, x.pending, x.scores)
          ELSE Read(file[c]) = x.existing
  /\ x.pending = {} /\ trace[c] # 0 =>
       Pending(Read(file[c]), JudgesOf[c], a \in forced) = {}
  /\ \A j \in x.pending : x.scores[j] # NoEntry => x.scores[j].of = x.of

\* Its answers are about the trace collected, and every open judge is asked
\* for or answered.
FitsPool(a) ==
  /\ \A ans \in answered[a] : \A j \in ans.judges : ans.scores[j].of = ctx[a][ans.cell].of
  /\ \A c \in Cells : \A j \in Open(ctx[a][c]) :
       \E i \in queued[a] \cup answered[a] : i.cell = c /\ j \in i.judges

Fits(a) == (\A c \in Cells : FitsCell(a, c)) /\ FitsPool(a)

Fit == races = 0 => \A a \in Analyses : pc[a] = "judging" => Fits(a)

LEMMA SameFits ==
  ASSUME NEW a, NEW c, FitsCell(a, c), ctx'[a][c] = ctx[a][c], file'[c] = file[c],
         trace' = trace, forced' = forced
  PROVE  FitsCell(a, c)'
<1>1. (a \in forced') <=> (a \in forced)
  OBVIOUS
<1> QED
  BY <1>1 DEF FitsCell, Pending

LEMMA InitFit == Init => Fit
BY DEF Init, Fit

\* While an analysis is judging and nothing raced, no other is.
LEMMA OnlyOne ==
  ASSUME Alone, races = 0, NEW a \in Analyses, Active(a), NEW b \in Analyses, pc[b] = "judging"
  PROVE  b = a
BY DEF Alone, Active, Stages

\* Executions and new analyses do not change what a context stands for.
LEMMA OutsideFit ==
  ASSUME IInv, Alone,
         \/ \E c \in Cells : Execute(c)
         \/ \E a \in Analyses : Start(a) \/ DieGating(a)
  PROVE  Fit'
<1>1. Race({a \in Analyses : Active(a)})
  BY DEF Execute, Start, DieGating
<1>2. ASSUME races' = 0, NEW b \in Analyses PROVE pc'[b] # "judging"
  <2>1. pc[b] # "judging"
    BY <1>1, <1>2, NoRace DEF Active, Stages
  <2> QED
    BY <2>1 DEF IInv, TypeOK, Execute, Start, DieGating, Goto
<1> QED
  BY <1>2 DEF Fit

\* An analysis that is over, or drains, judges no more, and no other is judging.
LEMMA GoneFit ==
  ASSUME IInv, Alone, NEW a \in Analyses,
         \/ Finish(a) \/ Kill(a) \/ Interrupt(a) \/ Drained(a)
         \/ \E it \in queued[a] : CallInVain(a, it)
  PROVE  Fit'
<1>1. Active(a) /\ races' = races
  BY DEF Finish, Kill, Interrupt, Drained, CallInVain, Active, Stages
<1>2. pc'[a] # "judging" /\ \A b \in Analyses \ {a} : pc'[b] = pc[b]
  BY DEF IInv, TypeOK, Finish, Kill, Interrupt, Drained, CallInVain, Over, Goto
<1>3. ASSUME races' = 0, NEW b \in Analyses PROVE pc'[b] # "judging"
  BY <1>1, <1>2, <1>3, OnlyOne
<1> QED
  BY <1>3 DEF Fit

\* A context that is collected is about what is in the file.
LEMMA CollectedFits ==
  ASSUME IInv, NEW a \in Analyses, NEW c \in Cells, forced' = forced, trace' = trace,
         file' = file, ctx'[a][c] = Collected(a, c)
  PROVE  FitsCell(a, c)'
<1> DEFINE p == Pending(Read(file[c]), JudgesOf[c], a \in forced)
           x == Collected(a, c)
<1>1. p \subseteq Judges
  BY CellsAssumption DEF Pending
<1>2. CASE trace[c] = 0 \/ p = {}
  <2>1. x = NoContext
    BY <1>2 DEF Collected
  <2>2. x.pending = {}
    BY <2>1 DEF NoContext
  <2> QED
    BY <1>2, <2>2 DEF FitsCell
<1>3. CASE trace[c] # 0 /\ p # {}
  <2>1. x = [existing |-> Read(file[c]), pending |-> p, of |-> trace[c],
             remaining |-> Cardinality(p), scores |-> Unjudged]
    BY <1>3 DEF Collected, Remaining
  <2> HIDE DEF x
  <2>2. /\ x.pending = p /\ x.of = trace[c] /\ x.existing = Read(file[c])
        /\ \A j \in x.pending : x.scores[j] = NoEntry
    BY <1>1, <2>1 DEF Unjudged
  <2>3. Open(x) # {}
    BY <1>3, <2>2 DEF Open
  <2>4. ctx'[a][c] = x
    BY DEF x
  <2> HIDE DEF p
  <2> QED
    BY <1>3, <2>2, <2>3, <2>4 DEF FitsCell, p
<1> QED
  BY <1>2, <1>3

LEMMA CollectFit ==
  ASSUME IInv, Alone, NEW a \in Analyses, Collect(a)
  PROVE  Fit'
<1> DEFINE new == [c \in Cells |-> Collected(a, c)]
<1>1. PICK batch \in BOOLEAN :
        /\ ctx' = [ctx EXCEPT ![a] = new]
        /\ queued' = [queued EXCEPT ![a] = UNION {Items(c, new[c].pending, batch) : c \in Cells}]
  BY CellsAssumption DEF Collect
<1>2. /\ ctx'[a] = new /\ UNCHANGED <<file, trace, forced, races>>
      /\ queued'[a] = UNION {Items(c, new[c].pending, batch) : c \in Cells}
      /\ answered'[a] = {}
      /\ Active(a) /\ \A b \in Analyses \ {a} : pc'[b] = pc[b]
  BY <1>1 DEF IInv, TypeOK, PoolInv, PoolOf, Collect, Goto, Active, Stages
<1>3. \A c \in Cells : FitsCell(a, c)'
  BY <1>2, CollectedFits
<1>4. FitsPool(a)'
  <2> SUFFICES ASSUME NEW c \in Cells, NEW j \in Open(new[c])
               PROVE  \E i \in queued'[a] : i.cell = c /\ j \in i.judges
    BY <1>2 DEF FitsPool
  <2> DEFINE p == new[c].pending
  <2>1. j \in p
    BY DEF Open
  <2> HIDE DEF p
  <2>2. \E i \in Items(c, p, batch) : i.cell = c /\ j \in i.judges
    <3>1. CASE batch
      BY <2>1, <3>1 DEF Items
    <3>2. CASE ~batch
      <4>1. [cell |-> c, judges |-> {j}] \in Items(c, p, batch)
        BY <2>1, <3>2 DEF Items
      <4> QED
        BY <4>1
    <3> QED
      BY <3>1, <3>2
  <2> QED
    BY <1>2, <2>2 DEF p
<1>5. ASSUME races' = 0, NEW b \in Analyses, pc'[b] = "judging" PROVE b = a
  BY <1>2, <1>5, OnlyOne
<1> QED
  BY <1>3, <1>4, <1>5 DEF Fit, Fits

\* The answer is about the trace that was collected.
LEMMA CallFit ==
  ASSUME IInv, Alone, Fit, NEW a \in Analyses, NEW it \in queued[a], Call(a, it)
  PROVE  Fit'
<1>1. PICK ok \in [it.judges -> BOOLEAN] :
        answered' = [answered EXCEPT ![a] = @ \cup
          {[cell |-> it.cell, judges |-> it.judges,
            scores |-> [j \in Judges |->
               IF j \in it.judges THEN [of |-> ctx[a][it.cell].of, ok |-> ok[j]]
               ELSE NoEntry]]}]
  BY DEF Call
<1> DEFINE scores == [j \in Judges |-> IF j \in it.judges
                                       THEN [of |-> ctx[a][it.cell].of, ok |-> ok[j]]
                                       ELSE NoEntry]
           ans == [cell |-> it.cell, judges |-> it.judges, scores |-> scores]
<1>2. /\ UNCHANGED <<file, trace, pc, forced, ctx, races>> /\ pc[a] = "judging" /\ Active(a)
      /\ queued'[a] = queued[a] \ {it} /\ answered'[a] = answered[a] \cup {ans}
  BY <1>1 DEF IInv, TypeOK, Call, Active, Stages
<1>3. /\ ans.cell = it.cell /\ ans.judges = it.judges
      /\ \A j \in ans.judges : ans.scores[j].of = ctx[a][it.cell].of
  <2>1. it.judges \subseteq Judges
    BY DEF IInv, TypeOK, Item
  <2> QED
    BY <2>1
<1> HIDE DEF ans
<1>4. ASSUME races' = 0, NEW b \in Analyses, pc'[b] = "judging" PROVE Fits(b)'
  <2>1. b = a /\ Fits(a)
    BY <1>2, <1>4, OnlyOne DEF Fit
  <2>2. \A c \in Cells : FitsCell(a, c)'
    BY <1>2, <2>1 DEF Fits, FitsCell
  <2>3. FitsPool(a)'
    <3>1. \A i \in answered'[a] : \A j \in i.judges : i.scores[j].of = ctx'[a][i.cell].of
      BY <1>2, <1>3, <2>1 DEF Fits, FitsPool
    <3>2. ASSUME NEW c \in Cells, NEW j \in Open(ctx[a][c])
          PROVE  \E i \in queued'[a] \cup answered'[a] : i.cell = c /\ j \in i.judges
      <4>1. PICK i \in queued[a] \cup answered[a] : i.cell = c /\ j \in i.judges
        BY <2>1 DEF Fits, FitsPool
      <4> QED
        BY <1>2, <1>3, <4>1
    <3> QED
      BY <1>2, <3>1, <3>2 DEF FitsPool
  <2> QED
    BY <2>1, <2>2, <2>3 DEF Fits
<1> QED
  BY <1>4 DEF Fit

\* An answer taken in: its cell's file is written with the last one, and is what
\* was read until then.
LEMMA TakeInFit ==
  ASSUME IInv, Alone, Fit, NEW a \in Analyses, NEW ans \in answered[a], TakeIn(a, ans)
  PROVE  Fit'
<1> DEFINE c == ans.cell
           x == ctx[a][c]
           now == In(x, ans)
<1>1. /\ ans \in Answer /\ c \in Cells /\ x \in Context
      /\ ans.judges # {} /\ ans.judges \subseteq Open(x)
      /\ \A j \in ans.judges : ans.scores[j] # NoEntry
      /\ x.remaining = Cardinality(Open(x))
  BY DEF IInv, TypeOK, PoolInv, PoolOf, Sound, TakeIn, Answer
<1>2. /\ now \in Context /\ Open(now) = Open(x) \ ans.judges
      /\ now.remaining = Cardinality(Open(now))
      /\ now.existing = x.existing /\ now.pending = x.pending /\ now.of = x.of
  BY <1>1, InSound
<1>3. \A j \in Judges : now.scores[j] = IF j \in ans.judges THEN ans.scores[j] ELSE x.scores[j]
  BY <1>1 DEF In, Context
<1>4. x.pending # {} /\ x.pending \subseteq Judges /\ Open(x) # {}
  BY <1>1 DEF Open, Context
<1>5. now.remaining <= 0 <=> Open(now) = {}
  <2>1. Open(now) \in SUBSET Judges
    BY <1>2, <1>4 DEF Open
  <2> QED
    BY <1>2, <2>1, FiniteJudges
<1>6. /\ UNCHANGED <<trace, pc, forced, queued, races>> /\ pc[a] = "judging" /\ Active(a)
      /\ answered'[a] = answered[a] \ {ans} /\ ctx'[a] = [ctx[a] EXCEPT ![c] = now]
      /\ file' = IF now.remaining <= 0
                 THEN [file EXCEPT ![c] = MergeJudges(now.existing, now.pending, now.scores)]
                 ELSE file
  BY DEF IInv, TypeOK, TakeIn, Active, Stages
<1>7. ctx'[a][c] = now /\ \A d \in Cells \ {c} : ctx'[a][d] = ctx[a][d] /\ file'[d] = file[d]
  BY <1>1, <1>6 DEF IInv, TypeOK
<1> HIDE DEF now, x, c
<1>8. ASSUME races' = 0, NEW b \in Analyses, pc'[b] = "judging" PROVE Fits(b)'
  <2>1. b = a /\ Fits(a)
    BY <1>6, <1>8, OnlyOne DEF Fit
  <2>2. ASSUME NEW d \in Cells \ {c} PROVE FitsCell(a, d)'
    BY <1>6, <1>7, <2>1, SameFits DEF Fits
  <2>3. FitsCell(a, c)'
    <3>1. /\ x.of = trace[c] /\ x.pending = Pending(x.existing, JudgesOf[c], a \in forced)
          /\ Read(file[c]) = x.existing
          /\ \A j \in x.pending : x.scores[j] # NoEntry => x.scores[j].of = x.of
          /\ \A j \in ans.judges : ans.scores[j].of = x.of
      BY <1>1, <1>4, <2>1 DEF Fits, FitsCell, FitsPool, x, c
    <3>2. \A j \in now.pending : now.scores[j] # NoEntry => now.scores[j].of = now.of
      BY <1>2, <1>3, <1>4, <3>1
    <3>3. IF Open(now) = {} THEN file'[c] = MergeJudges(now.existing, now.pending, now.scores)
          ELSE Read(file'[c]) = now.existing
      BY <1>1, <1>2, <1>5, <1>6, <3>1 DEF IInv, TypeOK
    <3> QED
      BY <1>2, <1>4, <1>6, <1>7, <3>1, <3>2, <3>3 DEF FitsCell
  <2>4. FitsPool(a)'
    <3>1. \A i \in answered'[a] : i.cell \in Cells /\ ctx'[a][i.cell].of = ctx[a][i.cell].of
      BY <1>2, <1>6, <1>7 DEF IInv, TypeOK, Answer, x
    <3>2. ASSUME NEW d \in Cells, NEW j \in Open(ctx'[a][d])
          PROVE  \E i \in queued'[a] \cup answered'[a] : i.cell = d /\ j \in i.judges
      <4>1. j \in Open(ctx[a][d]) /\ (d = c => j \notin ans.judges)
        BY <1>2, <1>7 DEF x
      <4>2. PICK i \in queued[a] \cup answered[a] : i.cell = d /\ j \in i.judges
        BY <2>1, <4>1 DEF Fits, FitsPool
      <4> QED
        BY <1>6, <4>1, <4>2 DEF c
    <3> QED
      BY <1>6, <2>1, <3>1, <3>2 DEF Fits, FitsPool
  <2> QED
    BY <2>1, <2>2, <2>3, <2>4 DEF Fits
<1> QED
  BY <1>8 DEF Fit

LEMMA StepFit == IInv /\ Alone /\ Fit /\ [Next]_vars => Fit'
<1> SUFFICES ASSUME IInv, Alone, Fit, [Next]_vars PROVE Fit'
  OBVIOUS
<1>1. CASE \E c \in Cells : Execute(c)
  BY <1>1, OutsideFit
<1>2. ASSUME NEW a \in Analyses,
             Start(a) \/ DieGating(a) \/ Advance(a) \/ Kill(a) \/ Interrupt(a)
      PROVE  Fit'
  <2>1. CASE Start(a) \/ DieGating(a)
    BY <2>1, OutsideFit
  <2>2. CASE Collect(a)
    BY <2>2, CollectFit
  <2>3. CASE \E it \in queued[a] : Call(a, it)
    BY <2>3, CallFit
  <2>4. CASE \E ans \in answered[a] : TakeIn(a, ans)
    BY <2>4, TakeInFit
  <2>5. CASE \/ Finish(a) \/ Kill(a) \/ Interrupt(a) \/ Drained(a)
             \/ \E it \in queued[a] : CallInVain(a, it)
    BY <2>5, GoneFit
  <2> QED
    BY <1>2, <2>1, <2>2, <2>3, <2>4, <2>5 DEF Advance
<1>3. CASE UNCHANGED vars
  <2> SUFFICES ASSUME races = 0, NEW a \in Analyses, pc[a] = "judging" PROVE Fits(a)'
    BY <1>3 DEF Fit, vars
  <2>1. Fits(a)
    BY DEF Fit
  <2>2. FitsPool(a)'
    BY <1>3, <2>1 DEF Fits, FitsPool, vars
  <2> QED
    BY <1>3, <2>1, <2>2, SameFits DEF Fits, vars
<1> QED
  BY <1>1, <1>2, <1>3 DEF Next, Rest

\* In every reachable state calls are paid for once and, if nothing raced, the
\* one analysis that is judging fits the files.
LEMMA InductiveFit == Spec => [](IInv /\ Alone /\ Fit)
BY InitInv, StepInv, InitAlone, StepAlone, InitFit, StepFit, PTL DEF Spec

-----------------------------------------------------------------------------
(* An analysis that ends is complete.                                      *)

\* An analysis that finishes has a score of every judge on disk.
LEMMA FinishComplete ==
  ASSUME IInv, Fit, NEW a \in Analyses, Finish(a), races = 0,
         NEW c \in Cells, NEW j \in JudgesOf[c], trace[c] # 0
  PROVE  /\ Read(file[c]).judge[j] # NoEntry
         /\ a \in forced => file[c].judge[j].of = trace[c]
<1> DEFINE x == ctx[a][c]
<1>1. /\ FitsCell(a, c) /\ FitsPool(a) /\ queued[a] = {} /\ answered[a] = {}
      /\ x \in Context /\ Covers(c, x)
  BY DEF Fit, Fits, Finish, IInv, TypeOK, PoolInv, PoolOf, Sound
<1>2. Open(x) = {} /\ j \in Judges
  BY <1>1, CellsAssumption DEF FitsPool
<1>3. CASE x.pending = {}
  <2>1. Pending(Read(file[c]), JudgesOf[c], a \in forced) = {}
    BY <1>1, <1>3 DEF FitsCell
  <2> QED
    BY <2>1 DEF Pending
<1>4. CASE x.pending # {}
  <2> DEFINE f == MergeJudges(x.existing, x.pending, x.scores)
  <2>1. /\ file[c] = f /\ x.of = trace[c]
        /\ x.pending = Pending(x.existing, JudgesOf[c], a \in forced)
        /\ \A k \in x.pending : x.scores[k] # NoEntry => x.scores[k].of = x.of
    BY <1>1, <1>2, <1>4 DEF FitsCell
  <2>2. f \in Scores /\ \A k \in JudgesOf[c] : f.judge[k] # NoEntry
    BY <1>1, <1>2, <1>4, MergedWhole
  <2>3. a \in forced => j \in x.pending /\ f.judge[j] = x.scores[j]
    BY <1>1, <1>2, <2>1 DEF Pending, MergeJudges, Context, Scores
  <2>4. Read(f) = f
    BY <2>2, ScoresAssumption DEF Read
  <2> HIDE DEF f, x
  <2> QED
    BY <2>1, <2>2, <2>3, <2>4
<1> QED
  BY <1>3, <1>4

\* When an analysis ends that nothing raced, every cell with a trace has an
\* entry of every judge of its task, and with --re-eval an entry about the
\* trace that is there: no cell was forgotten, none judged on an older trace.
THEOREM FinishedIsCompleteHolds == Spec => FinishedIsComplete
<1>1. IInv /\ Fit => \A a \in Analyses : (Finish(a) /\ races = 0) =>
        \A c \in Cells : \A j \in JudgesOf[c] : trace[c] # 0 =>
          /\ Read(file[c]).judge[j] # NoEntry
          /\ a \in forced => file[c].judge[j].of = trace[c]
  BY FinishComplete
<1> QED
  BY <1>1, InductiveFit, PTL DEF FinishedIsComplete

-----------------------------------------------------------------------------
(* Writers leave each other's scores alone.                                *)

Kept(c) ==
  /\ file'[c].inline = file[c].inline
  /\ file'[c].metric # file[c].metric => \E a \in Analyses : Start(a)
  /\ forced = {} =>
       \A j \in Judges : file[c].judge[j] \in {NoEntry, file'[c].judge[j]}

\* Writing a cell keeps the scores of others.
LEMMA TakeInKeeps ==
  ASSUME IInv, Alone, Fit, NEW a \in Analyses, NEW ans \in answered[a], TakeIn(a, ans),
         races' = 0, NEW c \in Cells, file[c] # Torn
  PROVE  Kept(c)
<1> DEFINE x == ctx[a][c]
           now == In(x, ans)
<1>1. CASE file'[c] = file[c]
  BY <1>1 DEF Kept
<1>2. CASE file'[c] # file[c]
  <2>1. c = ans.cell /\ file'[c] = MergeJudges(now.existing, now.pending, now.scores)
    BY <1>2 DEF TakeIn, IInv, TypeOK
  <2>2. /\ ans \in Answer /\ x \in Context
        /\ ans.judges # {} /\ ans.judges \subseteq Open(x)
        /\ \A j \in ans.judges : ans.scores[j] # NoEntry
        /\ x.remaining = Cardinality(Open(x))
    BY <2>1 DEF IInv, TypeOK, PoolInv, PoolOf, Sound, TakeIn, Answer
  <2>3. now.existing = x.existing /\ now.pending = x.pending
    BY <2>2, InSound
  <2>4. races = 0 /\ pc[a] = "judging"
    BY DEF TakeIn
  <2>5. x.pending # {} /\ Open(x) # {}
    BY <2>2 DEF Open
  <2>6. /\ x.pending = Pending(x.existing, JudgesOf[c], a \in forced)
        /\ file[c] = x.existing
    BY <2>4, <2>5 DEF Fit, Fits, FitsCell, Read
  <2> HIDE DEF now, x
  <2>7. /\ file'[c].inline = file[c].inline /\ file'[c].metric = file[c].metric
        /\ \A j \in Judges : j \notin x.pending => file'[c].judge[j] = file[c].judge[j]
    BY <2>1, <2>2, <2>3, <2>6 DEF MergeJudges, Context, Scores
  <2>8. forced = {} => \A j \in x.pending : file[c].judge[j] = NoEntry
    BY <2>6 DEF Pending
  <2> QED
    BY <2>7, <2>8 DEF Kept
<1> QED
  BY <1>1, <1>2

LEMMA StepKeeps ==
  ASSUME IInv, Alone, Fit, [Next]_vars, NEW c \in Cells,
         races' = 0, exec'[c] = exec[c], Torn \notin {file[c], file'[c]}
  PROVE  Kept(c)
<1>1. CASE file'[c] = file[c]
  BY <1>1 DEF Kept
<1>2. ASSUME NEW d \in Cells, Execute(d) PROVE file'[c] = file[c]
  BY <1>2 DEF IInv, TypeOK, Execs, Execute
<1>3. ASSUME NEW a \in Analyses, Start(a) PROVE Kept(c)
  <2>1. file[c] \in Scores /\ trace[c] \in 0..MaxExec
    BY DEF IInv, TypeOK
  <2>2. file'[c].inline = file[c].inline /\ file'[c].judge = file[c].judge
    BY <1>3, <2>1 DEF Start, MergeMetrics, Read, Scores
  <2> QED
    BY <1>3, <2>2 DEF Kept
<1>4. ASSUME NEW a \in Analyses,
             \/ DieGating(a) \/ Collect(a) \/ Finish(a) \/ Drained(a) \/ Kill(a) \/ Interrupt(a)
             \/ \E it \in queued[a] : Call(a, it) \/ CallInVain(a, it)
      PROVE  file'[c] = file[c]
  BY <1>4 DEF IInv, TypeOK, DieGating, Collect, Finish, Drained, Kill, Interrupt, Call,
              CallInVain, MayTear
<1>5. ASSUME NEW a \in Analyses, \E ans \in answered[a] : TakeIn(a, ans) PROVE Kept(c)
  BY <1>5, TakeInKeeps
<1> QED
  BY <1>1, <1>2, <1>3, <1>4, <1>5 DEF Next, Advance, Rest, vars

\* Whatever analyses and executions follow one another, the writers of a scores
\* file keep what is not theirs: inline scores fall only to an execution of the
\* cell, metric scores only to gating, and a judge's score to no other unless the
\* user asked for --re-eval, as long as the writers do not overlap.
THEOREM KeepsScoresHolds == Spec => KeepsScores
<1>1. (IInv /\ Alone /\ Fit) /\ [Next]_vars =>
        [\A c \in Cells :
           (races' = 0 /\ exec'[c] = exec[c] /\ Torn \notin {file[c], file'[c]}) =>
             /\ file'[c].inline = file[c].inline
             /\ file'[c].metric # file[c].metric => \E a \in Analyses : Start(a)
             /\ forced = {} =>
                  \A j \in Judges : file[c].judge[j] \in {NoEntry, file'[c].judge[j]}]_vars
  BY StepKeeps DEF Kept
<1> QED
  BY <1>1, InductiveFit, PTL DEF Spec, KeepsScores

=============================================================================
