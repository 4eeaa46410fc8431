--------------------------- MODULE Report_proofs ---------------------------
(***************************************************************************)
(* What the numbers of a report can be relied on for, for inputs of any    *)
(* size and any values of the constants: gates on what is left of a trace, *)
(* judges that answer in a batch, the two corrections for multiple tests,  *)
(* which are proved equal to their definitions for every finite family     *)
(* before they are about the markers of rows, scores files and the cells   *)
(* they are of, the sizes of samples and the rates of attempts, and the    *)
(* score of a judge that is asked several times.                           *)
(***************************************************************************)
EXTENDS Report, FiniteSetTheorems, WellFoundedInduction, TLAPS

-----------------------------------------------------------------------------
(***************************************************************************)
(* Every state is one step applied to an input                             *)
(***************************************************************************)
\* What is behind what a step shows.
Sampled ==
  /\ in \in Seq(Response) /\ in # <<>>
  /\ out = [single |-> [j \in Judges |-> [i \in DOMAIN in |-> InvokeSingle(in[i], j)]],
            batch |-> [j \in Judges |-> [i \in DOMAIN in |-> InvokeBatch(in[i], j)]]]

LoadedFrom(input, output) ==
  \E tasks \in SUBSET Names(MaxTaskWords), variants \in SUBSET Names(MaxVariantWords),
     fixtures \in {{<<>>}} \cup SUBSET Names(MaxFixtureWords) : \E listed \in SUBSET variants :
    /\ input = [tasks |-> tasks, variants |-> variants, fixtures |-> fixtures, listed |-> listed]
    /\ output = [c \in tasks \X listed \X fixtures \X Epochs |->
                   ShownFor(c[1], c[2], c[3], c[4], listed,
                     {RunSlug(d[1], d[2], d[3], d[4]) : d \in tasks \X variants \X fixtures \X Epochs})]

Loaded == LoadedFrom(in, out)

Counted ==
  /\ in \in SUBSET Cell /\ IsFiniteSet(in)
  /\ \A c, d \in in : <<d.variant, d.epoch>> = <<c.variant, c.epoch>> => c = d
  /\ out = Count1(in)

Attempted ==
  /\ in \in SUBSET [variant : Variants, run : TaskRuns, epoch : Epochs, passed : BOOLEAN]
  /\ IsFiniteSet(in) /\ in # {}
  /\ \A a, b \in in : <<b.variant, b.run, b.epoch>> = <<a.variant, a.run, a.epoch>> => a = b
  /\ out = PassK(in)

Marked ==
  /\ in \in Seq(Row) /\ in # <<>>
  /\ out = [m \in Corrected \cup {"none"} |-> Markers(in, m)]

Trace(root, turns, cost, chats) ==
  [root |-> root, turns |-> turns, cost |-> cost, tools |-> 1, chats |-> chats]

Traced ==
  /\ in = Trace(in.root, in.turns, in.cost, in.chats)
  /\ out = Trace(out.root, out.turns, out.cost, out.chats)
  /\ in.root = TRUE /\ out.root \in BOOLEAN /\ out.turns \in Left(in.turns) /\ out.cost \in Left(in.cost)
  /\ in.chats \in Seq(Chats) /\ out.chats \in Seq(UNION {Remains(c) : c \in Chats})
  /\ Len(out.chats) = Len(in.chats)
  /\ \A i \in DOMAIN in.chats : out.chats[i] \in Remains(in.chats[i])

Inv ==
  /\ step = "none" => in = <<>>
  /\ step = "sample" => Sampled
  /\ step = "load" => Loaded
  /\ step = "count" => Counted
  /\ step = "attempt" => Attempted
  /\ step = "mark" => Marked
  /\ step = "measure" => Traced

-----------------------------------------------------------------------------
LEMMA SampleInv == ASSUME Inv, Sample PROVE Inv'
<1>1. <<>> \in Seq(Response)
  OBVIOUS
<1>2. in \in Seq(Response) /\ step' = "sample"
  BY <1>1 DEF Sample, Inv, Sampled
<1>3. in' \in Seq(Response) /\ in' # <<>>
  BY <1>2 DEF Sample
<1>4. Sampled'
  BY <1>3 DEF Sample, Sampled
<1>5. QED BY <1>2, <1>4 DEF Inv

LEMMA LoadInv == ASSUME Inv, Load PROVE Inv'
<1>1. PICK tasks \in SUBSET Names(MaxTaskWords), variants \in SUBSET Names(MaxVariantWords),
           fixtures \in {{<<>>}} \cup {f \in SUBSET Names(MaxFixtureWords) : Cardinality(f) = 2} :
        \E listed \in SUBSET variants \ {{}} :
          /\ in' = [tasks |-> tasks, variants |-> variants, fixtures |-> fixtures, listed |-> listed]
          /\ out' = [c \in tasks \X listed \X fixtures \X Epochs |->
                       ShownFor(c[1], c[2], c[3], c[4], listed,
                         {RunSlug(d[1], d[2], d[3], d[4]) : d \in tasks \X variants \X fixtures \X Epochs})]
  BY DEF Load
<1>2. fixtures \in {{<<>>}} \cup SUBSET Names(MaxFixtureWords)
  OBVIOUS
<1>3. PICK listed \in SUBSET variants :
        /\ in' = [tasks |-> tasks, variants |-> variants, fixtures |-> fixtures, listed |-> listed]
        /\ out' = [c \in tasks \X listed \X fixtures \X Epochs |->
                     ShownFor(c[1], c[2], c[3], c[4], listed,
                       {RunSlug(d[1], d[2], d[3], d[4]) : d \in tasks \X variants \X fixtures \X Epochs})]
  BY <1>1
<1>4. Loaded'
  BY <1>2, <1>3 DEF Loaded, LoadedFrom
<1>5. step' = "load"
  BY DEF Load
<1>6. QED BY <1>4, <1>5 DEF Inv

LEMMA CountInv == ASSUME Inv, CountCell PROVE Inv'
<1> DEFINE cells == IF step = "none" THEN {} ELSE in
<1>1. cells \in SUBSET Cell /\ IsFiniteSet(cells) /\ step' = "count"
  BY FS_EmptySet DEF CountCell, Inv, Counted
<1>2. \A c, d \in cells : <<d.variant, d.epoch>> = <<c.variant, c.epoch>> => c = d
  BY DEF CountCell, Inv, Counted
<1>3. PICK c \in Cell : /\ \A d \in cells : <<d.variant, d.epoch>> # <<c.variant, c.epoch>>
                        /\ in' = cells \cup {c}
  BY DEF CountCell
<1>4. out' = Count1(in')
  BY DEF CountCell
<1> HIDE DEF cells
<1>5. IsFiniteSet(in') /\ in' \in SUBSET Cell
  BY <1>1, <1>3, FS_AddElement
<1>6. \A x, y \in in' : <<y.variant, y.epoch>> = <<x.variant, x.epoch>> => x = y
  BY <1>2, <1>3
<1>7. Counted'
  BY <1>4, <1>5, <1>6 DEF Counted
<1>8. QED BY <1>1, <1>7 DEF Inv

LEMMA AttemptInv == ASSUME Inv, Attempt PROVE Inv'
<1> DEFINE scored == IF step = "none" THEN {} ELSE in
           A == [variant : Variants, run : TaskRuns, epoch : Epochs, passed : BOOLEAN]
<1>1. scored \in SUBSET A /\ IsFiniteSet(scored) /\ step' = "attempt"
  BY FS_EmptySet DEF Attempt, Inv, Attempted
<1>2. \A a, b \in scored : <<b.variant, b.run, b.epoch>> = <<a.variant, a.run, a.epoch>> => a = b
  BY DEF Attempt, Inv, Attempted
<1>3. PICK a \in A : /\ \A b \in scored : <<b.variant, b.run, b.epoch>> # <<a.variant, a.run, a.epoch>>
                     /\ in' = scored \cup {a}
  BY DEF Attempt
<1>4. out' = PassK(in')
  BY DEF Attempt
<1> HIDE DEF scored
<1>5. IsFiniteSet(in') /\ in' \in SUBSET A /\ in' # {}
  BY <1>1, <1>3, FS_AddElement
<1>6. \A x, y \in in' : <<y.variant, y.run, y.epoch>> = <<x.variant, x.run, x.epoch>> => x = y
  BY <1>2, <1>3
<1>7. Attempted'
  BY <1>4, <1>5, <1>6 DEF Attempted
<1>8. QED BY <1>1, <1>7 DEF Inv

LEMMA MarkInv == ASSUME Inv, Mark PROVE Inv'
<1>1. <<>> \in Seq(Row)
  OBVIOUS
<1>2. in \in Seq(Row) /\ step' = "mark"
  BY <1>1 DEF Mark, Inv, Marked
<1>3. PICK r \in Row : in' = Append(in, r)
  BY DEF Mark
<1>4. in' \in Seq(Row) /\ in' # <<>>
  BY <1>2, <1>3
<1>5. Marked'
  BY <1>4 DEF Mark, Marked
<1>6. QED BY <1>2, <1>5 DEF Inv

LEMMA BeginInv == ASSUME Inv, BeginTrace PROVE Inv'
<1>1. step' = "measure"
  BY DEF BeginTrace
<1>2. PICK turns \in Counts, cost \in Counts :
        /\ in' = [root |-> TRUE, turns |-> turns, cost |-> cost, tools |-> 1, chats |-> <<>>]
        /\ \E root \in BOOLEAN, t \in Left(turns), c \in Left(cost) :
             out' = [root |-> root, turns |-> t, cost |-> c, tools |-> 1, chats |-> <<>>]
  BY DEF BeginTrace
<1>3. <<>> \in Seq(Chats) /\ <<>> \in Seq(UNION {Remains(c) : c \in Chats}) /\ Len(<<>>) = 0
  OBVIOUS
<1>4. /\ in' = Trace(TRUE, turns, cost, <<>>)
      /\ \E root \in BOOLEAN, t \in Left(turns), c \in Left(cost) : out' = Trace(root, t, c, <<>>)
  BY <1>2 DEF Trace
<1>5. Traced'
  BY <1>3, <1>4 DEF Traced, Trace
<1>6. QED BY <1>1, <1>5 DEF Inv

LEMMA MeasureInv == ASSUME Inv, Measure PROVE Inv'
<1>1. Traced /\ step' = "measure"
  BY DEF Measure, Inv
<1>2. PICK chat \in Chats : /\ in' = [in EXCEPT !.chats = Append(@, chat)]
                            /\ \E left \in Remains(chat) : out' = [out EXCEPT !.chats = Append(@, left)]
  BY DEF Measure
<1>3. PICK left \in Remains(chat) : out' = [out EXCEPT !.chats = Append(@, left)]
  BY <1>2
<1> DEFINE R == UNION {Remains(c) : c \in Chats}
           x == Append(in.chats, chat)
           y == Append(out.chats, left)
<1>4. in' = Trace(in.root, in.turns, in.cost, x) /\ out' = Trace(out.root, out.turns, out.cost, y)
  <2> HIDE DEF x, y
  <2>1. /\ in = Trace(in.root, in.turns, in.cost, in.chats)
        /\ out = Trace(out.root, out.turns, out.cost, out.chats)
    BY <1>1 DEF Traced
  <2>2. [in EXCEPT !.chats = x] = Trace(in.root, in.turns, in.cost, x)
    BY <2>1 DEF Trace
  <2>3. [out EXCEPT !.chats = y] = Trace(out.root, out.turns, out.cost, y)
    BY <2>1 DEF Trace
  <2>4. QED BY <1>2, <1>3, <2>2, <2>3 DEF x, y
<1>5. in.chats \in Seq(Chats) /\ out.chats \in Seq(R) /\ Len(out.chats) = Len(in.chats)
  BY <1>1 DEF Traced
<1>6. left \in R
  OBVIOUS
<1>7. x \in Seq(Chats) /\ y \in Seq(R) /\ Len(y) = Len(x)
  BY <1>5, <1>6
<1>8. \A i \in DOMAIN x : y[i] \in Remains(x[i])
  <2> SUFFICES ASSUME NEW i \in DOMAIN x PROVE y[i] \in Remains(x[i])
    OBVIOUS
  <2>1. CASE i \in DOMAIN in.chats
    BY <1>1, <1>5, <2>1 DEF Traced
  <2>2. CASE i = Len(in.chats) + 1
    BY <1>5, <2>2
  <2>3. QED BY <1>5, <2>1, <2>2
<1> HIDE DEF x, y
<1>9. Traced'
  BY <1>1, <1>4, <1>7, <1>8 DEF Traced, Trace
<1>10. QED BY <1>1, <1>9 DEF Inv

LEMMA NextInv == Inv /\ [Next]_vars => Inv'
<1> SUFFICES ASSUME Inv, [Next]_vars PROVE Inv'
  OBVIOUS
<1>1. CASE UNCHANGED vars
  <2>1. step' = step /\ in' = in /\ out' = out
    BY <1>1 DEF vars
  <2>2. (Sampled => Sampled') /\ (Loaded => Loaded')
    <3>1. Sampled => Sampled'
      BY <2>1 DEF Sampled
    <3>2. Loaded => Loaded'
      BY <2>1 DEF Loaded
    <3> QED
      BY <3>1, <3>2
  <2>3. Counted => Counted'
    BY <2>1 DEF Counted
  <2>4. Attempted => Attempted'
    BY <2>1 DEF Attempted
  <2>5. (Marked => Marked') /\ (Traced => Traced')
    BY <2>1 DEF Marked, Traced
  <2>6. QED BY <2>1, <2>2, <2>3, <2>4, <2>5 DEF Inv
<1>2. CASE Rest
  BY <1>1, <1>2 DEF Rest, vars
<1>3. QED BY <1>1, <1>2, SampleInv, LoadInv, CountInv, AttemptInv, MarkInv, BeginInv, MeasureInv
          DEF Next

LEMMA Invariance == Spec => []Inv
<1>1. Init => Inv
  BY DEF Init, Inv
<1>2. QED BY <1>1, NextInv, PTL DEF Spec

-----------------------------------------------------------------------------
(***************************************************************************)
(* Lost telemetry                                                          *)
(***************************************************************************)
LEMMA TagLeft ==
  ASSUME NEW v, NEW w \in Left(v), Numeric(w)
  PROVE  w = v
BY DEF Left, Numeric

\* A sum over a tag that every chat still has is that of the whole trace.
LEMMA SumLeft ==
  ASSUME Traced, NEW key \in {"input", "output"}, SumRequired(TagsOf(out.chats, key)).available
  PROVE  SumRequired(TagsOf(in.chats, key)) = SumRequired(TagsOf(out.chats, key))
<1>1. DOMAIN out.chats = DOMAIN in.chats
  BY DEF Traced
<1>2. \A i \in DOMAIN out.chats : Numeric(out.chats[i][key])
  BY DEF SumRequired, TagsOf
<1>3. \A i \in DOMAIN in.chats : out.chats[i][key] \in Left(in.chats[i][key])
  BY DEF Traced, Remains
<1>4. \A i \in DOMAIN in.chats : out.chats[i][key] = in.chats[i][key]
  BY <1>1, <1>2, <1>3, TagLeft
<1>5. TagsOf(out.chats, key) = TagsOf(in.chats, key)
  BY <1>1, <1>4 DEF TagsOf
<1>6. QED BY <1>5

\* A value that is available after losses is the one of the whole trace.
LEMMA ValueLeft ==
  ASSUME Traced, NEW name \in MetricNames \ {"cache"}, MetricValue(out, name).available
  PROVE  MetricValue(in, name) = MetricValue(out, name)
<1>1. CASE name = "turns"
  BY <1>1, TagLeft DEF Traced, MetricValue, Measured
<1>2. CASE name = "cost"
  BY <1>2, TagLeft DEF Traced, MetricValue, Measured
<1>3. CASE name = "tools"
  BY <1>3 DEF Traced, Trace, MetricValue
<1>4. CASE name = "input"
  BY <1>4, SumLeft DEF MetricValue
<1>5. CASE name = "output"
  BY <1>5, SumLeft DEF MetricValue
<1>6. CASE name = "total"
  BY <1>6, SumLeft DEF MetricValue, Plus
<1>7. QED BY <1>1, <1>2, <1>3, <1>4, <1>5, <1>6 DEF MetricNames

\* Losing tags or the root span of a trace never opens a gate, whatever the metric,
\* the comparison and the threshold (extract_metrics, metric_value, eval_metric).
THEOREM GateFailsClosedHolds == Spec => []GateFailsClosed
<1>1. ASSUME Inv PROVE GateFailsClosed
  <2> SUFFICES ASSUME step = "measure", NEW name \in MetricNames \ {"cache"},
                      NEW op \in Operators, NEW threshold \in Counts,
                      Passes(out, name, op, threshold)
               PROVE  out.root /\ Passes(in, name, op, threshold)
    BY DEF GateFailsClosed
  <2>1. Traced
    BY <1>1 DEF Inv
  <2>2. MetricValue(in, name) = MetricValue(out, name)
    BY <2>1, ValueLeft DEF Passes
  <2>3. in.root
    BY <2>1 DEF Traced, Trace
  <2>4. QED BY <2>2, <2>3 DEF Passes
<1>2. QED BY <1>1, Invariance, PTL

-----------------------------------------------------------------------------
(***************************************************************************)
(* Judges in a batch                                                       *)
(***************************************************************************)
LEMMA InvokedAlike ==
  ASSUME NEW r \in Response, NEW j \in Judges
  PROVE  /\ InvokeBatch(r, j).score = InvokeSingle(r, j).score
         /\ \/ InvokeBatch(r, j) = InvokeSingle(r, j)
            \/ r.how = "answer" /\ ~r.clean /\ r.says[j] = Missing
<1>1. CASE r \in [how : {"timeout", "not_found", "oserror"}]
  BY <1>1 DEF InvokeBatch, InvokeSingle
<1>2. CASE r \in [how : {"noise"}, clean : BOOLEAN]
  BY <1>2 DEF InvokeBatch, InvokeSingle
<1>3. CASE r \in [how : {"answer"}, clean : BOOLEAN, says : [Judges -> Says]]
  BY <1>3 DEF InvokeBatch, InvokeSingle, Unparsed, Failure
<1>4. QED BY <1>1, <1>2, <1>3 DEF Response

\* The score of a judge is the aggregate of its usable samples.
LEMMA FinalizedScore ==
  ASSUME NEW per, NEW method
  PROVE  Finalize(per, method).score =
           IF Usable(per) = {} THEN NoScore ELSE AggregateScores(ScoresOf(per), method)
BY DEF Finalize, Failure

\* However many samples and judges: a judge gets the score from a batched call that it
\* would have got from calls of its own (_invoke_batch, _invoke_single, _finalize).
THEOREM BatchLikeSingleHolds == Spec => []BatchLikeSingle
<1>1. ASSUME Inv PROVE BatchLikeSingle
  <2> SUFFICES ASSUME step = "sample", NEW j \in Judges
               PROVE  /\ \A m \in Aggregates : Finalize(out.batch[j], m).score = Finalize(out.single[j], m).score
                      /\ \A i \in DOMAIN in :
                           \/ out.batch[j][i] = out.single[j][i]
                           \/ in[i].how = "answer" /\ ~in[i].clean /\ in[i].says[j] = Missing
    BY DEF BatchLikeSingle
  <2>1. /\ in \in Seq(Response)
        /\ out.single[j] = [i \in DOMAIN in |-> InvokeSingle(in[i], j)]
        /\ out.batch[j] = [i \in DOMAIN in |-> InvokeBatch(in[i], j)]
    BY <1>1 DEF Inv, Sampled
  <2>2. \A i \in DOMAIN in : in[i] \in Response
    BY <2>1
  <2>3. \A i \in DOMAIN in : out.batch[j][i].score = out.single[j][i].score
    BY <2>1, <2>2, InvokedAlike
  <2>4. Usable(out.batch[j]) = Usable(out.single[j])
    BY <2>1, <2>3 DEF Usable
  <2>5. ScoresOf(out.batch[j]) = ScoresOf(out.single[j])
    BY <2>1, <2>3, <2>4 DEF ScoresOf, Usable
  <2>6. \A i \in DOMAIN in :
           \/ out.batch[j][i] = out.single[j][i]
           \/ in[i].how = "answer" /\ ~in[i].clean /\ in[i].says[j] = Missing
    BY <2>1, <2>2, InvokedAlike
  <2>7. QED BY <2>4, <2>5, <2>6, FinalizedScore
<1>2. QED BY <1>1, Invariance, PTL

-----------------------------------------------------------------------------
(***************************************************************************)
(* The corrections, for every finite family of p-values                    *)
(***************************************************************************)
\* A family: finitely many rows, in an order.
IsFamily(p) == /\ DOMAIN p \in SUBSET Int /\ IsFiniteSet(DOMAIN p)
               /\ p \in [DOMAIN p -> Nat]

\* The order of the stable sort, and what comes before i in it.
Before(p, j, i) == p[j] < p[i] \/ (p[j] = p[i] /\ j < i)
Below(p, i) == {j \in DOMAIN p : p[j] < p[i] \/ (p[j] = p[i] /\ j < i)}

-----------------------------------------------------------------------------
\* A finite family of sets has a smallest one if they are nested.
LEMMA SmallestNested ==
  ASSUME NEW D, IsFiniteSet(D), NEW T \in SUBSET SUBSET D, T # {},
         \A x, y \in T : x \subseteq y \/ y \subseteq x
  PROVE  \E x \in T : \A y \in T : x \subseteq y
<1>1. FiniteSubsetsOf(D) = SUBSET D
  BY FS_FiniteSubsetsOfFinite
<1>2. IsWellFoundedOn(StrictSubsetOrdering(D), SUBSET D)
  BY <1>1, FS_StrictSubsetOrderingWellFounded
<1>3. PICK x \in T : \A y \in T : ~ (<<y, x>> \in StrictSubsetOrdering(D))
  BY <1>2, WFMin
<1>4. \A y \in T : ~ (y \subseteq x /\ y # x)
  BY <1>3 DEF StrictSubsetOrdering
<1> QED
  BY <1>4

\* Ranks count from 0, and are finite.
LEMMA RankType ==
  ASSUME NEW p, IsFamily(p), NEW i \in DOMAIN p
  PROVE  /\ Below(p, i) \in SUBSET DOMAIN p /\ IsFiniteSet(Below(p, i))
         /\ Rank(p, i) = Cardinality(Below(p, i)) /\ Rank(p, i) \in Nat
         /\ Size(p) \in Nat
<1>1. Below(p, i) \in SUBSET DOMAIN p
  BY DEF Below
<1>2. IsFiniteSet(Below(p, i)) /\ IsFiniteSet(DOMAIN p)
  BY <1>1, FS_Subset DEF IsFamily
<1> QED
  BY <1>1, <1>2, FS_CardinalityType DEF Rank, Below, Size

\* What comes earlier has a smaller rank.
LEMMA RankLess ==
  ASSUME NEW p, IsFamily(p), NEW i \in DOMAIN p, NEW j \in DOMAIN p, Before(p, j, i)
  PROVE  Rank(p, j) < Rank(p, i) /\ Below(p, j) \subseteq Below(p, i)
<1>1. p[i] \in Nat /\ p[j] \in Nat /\ i \in Int /\ j \in Int
  BY DEF IsFamily
<1>2. Below(p, j) \subseteq Below(p, i)
  <2> SUFFICES ASSUME NEW k \in Below(p, j) PROVE k \in Below(p, i)
    OBVIOUS
  <2>1. k \in DOMAIN p /\ p[k] \in Nat /\ k \in Int
    BY DEF Below, IsFamily
  <2> QED
    BY <1>1, <2>1 DEF Below, Before
<1>3. j \in Below(p, i) /\ j \notin Below(p, j)
  BY <1>1 DEF Below, Before
<1>4. Cardinality(Below(p, j)) <= Cardinality(Below(p, i))
      /\ (Cardinality(Below(p, i)) = Cardinality(Below(p, j)) => Below(p, i) = Below(p, j))
  BY <1>2, RankType, FS_Subset
<1> QED
  BY <1>2, <1>3, <1>4, RankType

\* Ranks order a family like the sort does: totally.
LEMMA RankOrder ==
  ASSUME NEW p, IsFamily(p), NEW i \in DOMAIN p, NEW j \in DOMAIN p
  PROVE  /\ Rank(p, j) < Rank(p, i) <=> Before(p, j, i)
         /\ Rank(p, j) <= Rank(p, i) <=> (j = i \/ Before(p, j, i))
         /\ Rank(p, j) <= Rank(p, i) => p[j] <= p[i]
         /\ Rank(p, j) <= Rank(p, i) => Below(p, j) \subseteq Below(p, i)
<1>1. p[i] \in Nat /\ p[j] \in Nat /\ i \in Int /\ j \in Int
  BY DEF IsFamily
<1>2. Rank(p, i) \in Nat /\ Rank(p, j) \in Nat
  BY RankType
<1>3. CASE i = j
  BY <1>1, <1>2, <1>3 DEF Before
<1>4. CASE Before(p, j, i)
  <2>1. Rank(p, j) < Rank(p, i) /\ Below(p, j) \subseteq Below(p, i)
    BY <1>4, RankLess
  <2> QED
    BY <1>1, <1>2, <1>4, <2>1 DEF Before
<1>5. CASE Before(p, i, j)
  <2>1. Rank(p, i) < Rank(p, j)
    BY <1>5, RankLess
  <2> QED
    BY <1>1, <1>2, <1>5, <2>1 DEF Before
<1> QED
  BY <1>1, <1>3, <1>4, <1>5 DEF Before

\* Among any rows of a family one comes first and one comes last.
LEMMA FirstRow ==
  ASSUME NEW p, IsFamily(p), NEW s \in SUBSET DOMAIN p, s # {}
  PROVE  \E k \in s : \A j \in s : Rank(p, k) <= Rank(p, j)
<1> DEFINE T == {Below(p, k) : k \in s}
<1>1. T \in SUBSET SUBSET DOMAIN p /\ T # {} /\ IsFiniteSet(DOMAIN p)
  BY DEF Below, IsFamily
<1>2. \A i, j \in s : Rank(p, i) \in Nat /\ Rank(p, j) \in Nat
  BY RankType
<1>3. \A i, j \in s : Below(p, i) \subseteq Below(p, j) \/ Below(p, j) \subseteq Below(p, i)
  BY <1>2, RankOrder
<1>4. PICK x \in T : \A y \in T : x \subseteq y
  <2> HIDE DEF T
  <2>1. \A x, y \in T : x \subseteq y \/ y \subseteq x
    BY <1>3 DEF T
  <2> QED
    BY <1>1, <2>1, SmallestNested
<1>5. PICK k \in s : x = Below(p, k)
  OBVIOUS
<1>6. \A j \in s : Below(p, k) \subseteq Below(p, j)
  BY <1>4, <1>5
<1>7. \A j \in s : Cardinality(Below(p, k)) <= Cardinality(Below(p, j))
  BY <1>6, RankType, FS_Subset
<1> QED
  BY <1>7, RankType

LEMMA LastRow ==
  ASSUME NEW p, IsFamily(p), NEW s \in SUBSET DOMAIN p, s # {}
  PROVE  \E k \in s : \A j \in s : Rank(p, j) <= Rank(p, k)
<1> DEFINE T == {DOMAIN p \ Below(p, k) : k \in s}
<1>1. T \in SUBSET SUBSET DOMAIN p /\ T # {} /\ IsFiniteSet(DOMAIN p)
  BY DEF IsFamily
<1>2. \A i, j \in s : Rank(p, i) \in Nat /\ Rank(p, j) \in Nat
  BY RankType
<1>3. \A i, j \in s : Below(p, i) \subseteq Below(p, j) \/ Below(p, j) \subseteq Below(p, i)
  BY <1>2, RankOrder
<1>4. PICK x \in T : \A y \in T : x \subseteq y
  <2>1. \A x, y \in T : x \subseteq y \/ y \subseteq x
    BY <1>3
  <2> HIDE DEF T
  <2> QED
    BY <1>1, <2>1, SmallestNested
<1>5. PICK k \in s : x = DOMAIN p \ Below(p, k)
  OBVIOUS
<1>6. \A j \in s : Below(p, j) \subseteq Below(p, k)
  <2> SUFFICES ASSUME NEW j \in s PROVE Below(p, j) \subseteq Below(p, k)
    OBVIOUS
  <2>1. DOMAIN p \ Below(p, k) \subseteq DOMAIN p \ Below(p, j)
    <3>1. DOMAIN p \ Below(p, j) \in T
      OBVIOUS
    <3> HIDE DEF T
    <3> QED
      BY <1>4, <1>5, <3>1
  <2>2. Below(p, j) \subseteq DOMAIN p
    BY DEF Below
  <2> QED
    BY <2>1, <2>2
<1>7. \A j \in s : Cardinality(Below(p, j)) <= Cardinality(Below(p, k))
  BY <1>6, RankType, FS_Subset
<1> QED
  BY <1>7, RankType

\* As many are before i as its rank says, so many more are not after it, and the
\* others are left.
LEMMA RankCounts ==
  ASSUME NEW p, IsFamily(p), NEW i \in DOMAIN p
  PROVE  /\ Rank(p, i) < Size(p)
         /\ IsFiniteSet(DOMAIN p \ Below(p, i))
         /\ Cardinality(DOMAIN p \ Below(p, i)) = Size(p) - Rank(p, i)
         /\ IsFiniteSet(Below(p, i) \cup {i})
         /\ Cardinality(Below(p, i) \cup {i}) = Rank(p, i) + 1
<1>1. IsFiniteSet(DOMAIN p) /\ Below(p, i) \in SUBSET DOMAIN p /\ IsFiniteSet(Below(p, i))
  BY RankType DEF IsFamily
<1>2. i \notin Below(p, i)
  BY DEF Below, IsFamily
<1>3. DOMAIN p \cap Below(p, i) = Below(p, i)
  BY <1>1
<1>4. Cardinality(DOMAIN p \ Below(p, i)) = Size(p) - Rank(p, i)
      /\ IsFiniteSet(DOMAIN p \ Below(p, i))
  <2>1. /\ IsFiniteSet(DOMAIN p \ Below(p, i))
        /\ Cardinality(DOMAIN p \ Below(p, i))
             = Cardinality(DOMAIN p) - Cardinality(DOMAIN p \cap Below(p, i))
    BY <1>1, FS_Difference
  <2> QED
    BY <1>3, <2>1, RankType DEF Size
<1>5. IsFiniteSet(Below(p, i) \cup {i}) /\ Cardinality(Below(p, i) \cup {i}) = Rank(p, i) + 1
  BY <1>1, <1>2, FS_AddElement, RankType
<1>6. Cardinality(Below(p, i) \cup {i}) <= Cardinality(DOMAIN p)
  BY <1>1, FS_Subset
<1> QED
  BY <1>4, <1>5, <1>6, RankType DEF Size

-----------------------------------------------------------------------------
\* Holm's procedure rejects what Bonferroni rejects within every set of hypotheses
\* that it belongs to.  So it controls the family-wise error rate whatever the
\* p-values and their ties (_holm_bonferroni).
THEOREM HolmIsClosedTesting ==
  ASSUME NEW p, IsFamily(p)
  PROVE  Holm(p) = ClosedTesting(p)
<1> USE CorrectionsAssumption
<1>1. ASSUME NEW i \in Holm(p) PROVE i \in ClosedTesting(p)
  <2> SUFFICES ASSUME NEW s \in SUBSET DOMAIN p, i \in s
               PROVE  \E j \in s : p[j] * Cardinality(s) <= Alpha
    BY DEF Holm, ClosedTesting
  <2>1. PICK k \in s : \A j \in s : Rank(p, k) <= Rank(p, j)
    BY FirstRow
  <2>2. p[k] * (Size(p) - Rank(p, k)) <= Alpha
    BY <2>1 DEF Holm
  <2>3. s \subseteq DOMAIN p \ Below(p, k)
    <3> SUFFICES ASSUME NEW j \in s PROVE j \notin Below(p, k)
      OBVIOUS
    <3>1. ~ (Rank(p, j) < Rank(p, k))
      BY <2>1, RankType
    <3> QED
      BY <3>1, RankOrder DEF Before, Below
  <2>4. Cardinality(s) <= Size(p) - Rank(p, k) /\ Cardinality(s) \in Nat
    <3>1. k \in DOMAIN p
      OBVIOUS
    <3>2. /\ IsFiniteSet(DOMAIN p \ Below(p, k))
          /\ Cardinality(DOMAIN p \ Below(p, k)) = Size(p) - Rank(p, k)
      BY <3>1, RankCounts
    <3>3. IsFiniteSet(s) /\ Cardinality(s) <= Cardinality(DOMAIN p \ Below(p, k))
      BY <2>3, <3>2, FS_Subset
    <3> QED
      BY <3>2, <3>3, FS_CardinalityType
  <2>5. p[k] \in Nat /\ Size(p) - Rank(p, k) \in Int
    BY RankType DEF IsFamily
  <2>6. p[k] * Cardinality(s) <= p[k] * (Size(p) - Rank(p, k))
    BY <2>4, <2>5
  <2> QED
    BY <2>2, <2>4, <2>5, <2>6
<1>2. ASSUME NEW i \in ClosedTesting(p) PROVE i \in Holm(p)
  <2> SUFFICES ASSUME NEW j \in DOMAIN p, Rank(p, j) <= Rank(p, i)
               PROVE  p[j] * (Size(p) - Rank(p, j)) <= Alpha
    BY DEF Holm, ClosedTesting
  <2> DEFINE s == DOMAIN p \ Below(p, j)
  <2>1. i \in DOMAIN p
    BY DEF ClosedTesting
  <2>2. i \in s
    <3>1. ~ (Rank(p, i) < Rank(p, j))
      BY <2>1, RankType
    <3> QED
      BY <2>1, <3>1, RankOrder DEF Before, Below
  <2>3. PICK k \in s : p[k] * Cardinality(s) <= Alpha
    BY <2>2 DEF ClosedTesting
  <2>4. p[j] <= p[k]
    <3>1. k \in DOMAIN p /\ ~ Before(p, k, j)
      BY DEF Before, Below
    <3>2. p[j] \in Nat /\ p[k] \in Nat /\ j \in Int /\ k \in Int
      BY <3>1 DEF IsFamily
    <3> QED
      BY <3>1, <3>2 DEF Before
  <2>5. Cardinality(s) = Size(p) - Rank(p, j) /\ Cardinality(s) \in Nat
    BY RankCounts, FS_CardinalityType
  <2>6. p[j] \in Nat /\ p[k] \in Nat
    BY DEF IsFamily
  <2>7. p[j] * Cardinality(s) <= p[k] * Cardinality(s)
    BY <2>4, <2>5, <2>6
  <2> QED
    BY <2>3, <2>5, <2>6, <2>7
<1> QED
  BY <1>1, <1>2

\* Benjamini-Hochberg rejects what lies below the largest level that enough
\* p-values reach (_benjamini_hochberg).
THEOREM BenjaminiHochbergIsThreshold ==
  ASSUME NEW p, IsFamily(p)
  PROVE  BenjaminiHochberg(p) = UpToThreshold(p)
<1> USE CorrectionsAssumption
<1>1. ASSUME NEW i \in BenjaminiHochberg(p) PROVE i \in UpToThreshold(p)
  <2>1. PICK k \in DOMAIN p : /\ Rank(p, i) <= Rank(p, k)
                              /\ p[k] * Size(p) <= (Rank(p, k) + 1) * Alpha
    BY DEF BenjaminiHochberg
  <2> DEFINE n == Rank(p, k) + 1
             low == {j \in DOMAIN p : p[j] * Size(p) <= n * Alpha}
  <2>2. i \in DOMAIN p /\ n \in 1..Size(p)
    <3>1. Rank(p, k) \in Nat /\ Size(p) \in Nat /\ Rank(p, k) < Size(p)
      BY RankType, RankCounts
    <3> QED
      BY <3>1 DEF BenjaminiHochberg
  <2>3. \A j \in DOMAIN p : p[j] <= p[k] => j \in low
    <3> SUFFICES ASSUME NEW j \in DOMAIN p, p[j] <= p[k] PROVE p[j] * Size(p) <= n * Alpha
      OBVIOUS
    <3>1. p[j] \in Nat /\ p[k] \in Nat /\ Size(p) \in Nat /\ Rank(p, k) \in Nat
      BY RankType DEF IsFamily
    <3>2. p[j] * Size(p) <= p[k] * Size(p)
      BY <3>1
    <3> QED
      BY <2>1, <3>1, <3>2
  <2>4. Below(p, k) \cup {k} \subseteq low
    <3>1. \A j \in Below(p, k) \cup {k} : j \in DOMAIN p /\ p[j] <= p[k]
      BY DEF Below, IsFamily
    <3> QED
      BY <2>3, <3>1
  <2>5. IsFiniteSet(low)
    BY FS_Subset DEF IsFamily
  <2>6. Cardinality(low) >= n
    <3>1. IsFiniteSet(Below(p, k) \cup {k}) /\ Cardinality(Below(p, k) \cup {k}) = n
      BY RankCounts
    <3>2. Cardinality(Below(p, k) \cup {k}) <= Cardinality(low)
      BY <2>4, <2>5, FS_Subset
    <3> QED
      BY <2>5, <3>1, <3>2, RankType, FS_CardinalityType
  <2>7. i \in low
    BY <2>1, <2>2, <2>3, RankOrder
  <2> QED
    BY <2>2, <2>6, <2>7 DEF UpToThreshold
<1>2. ASSUME NEW i \in UpToThreshold(p) PROVE i \in BenjaminiHochberg(p)
  <2>1. PICK n \in 1..Size(p) :
          /\ p[i] * Size(p) <= n * Alpha
          /\ Cardinality({j \in DOMAIN p : p[j] * Size(p) <= n * Alpha}) >= n
    BY DEF UpToThreshold
  <2> DEFINE low == {j \in DOMAIN p : p[j] * Size(p) <= n * Alpha}
  <2>2. i \in low
    BY <2>1 DEF UpToThreshold
  <2>3. PICK k \in low : \A j \in low : Rank(p, j) <= Rank(p, k)
    BY <2>2, LastRow
  <2>4. low \subseteq Below(p, k) \cup {k}
    BY <2>3, RankOrder DEF Before, Below
  <2>5. n <= Rank(p, k) + 1
    <3>1. Cardinality(low) <= Rank(p, k) + 1 /\ Cardinality(low) \in Nat
      <4>1. /\ IsFiniteSet(Below(p, k) \cup {k})
            /\ Cardinality(Below(p, k) \cup {k}) = Rank(p, k) + 1
        BY RankCounts
      <4>2. IsFiniteSet(low) /\ Cardinality(low) <= Cardinality(Below(p, k) \cup {k})
        BY <2>4, <4>1, FS_Subset
      <4> QED
        BY <4>1, <4>2, FS_CardinalityType
    <3> QED
      BY <2>1, <3>1, RankType
  <2>6. n * Alpha <= (Rank(p, k) + 1) * Alpha
    BY <2>5, RankType
  <2>7. p[k] * Size(p) <= (Rank(p, k) + 1) * Alpha
    <3>1. p[k] \in Nat /\ Size(p) \in Nat /\ Rank(p, k) \in Nat
      BY RankType DEF IsFamily
    <3> QED
      BY <2>6, <3>1
  <2> QED
    BY <2>2, <2>3, <2>7 DEF BenjaminiHochberg
<1> QED
  BY <1>1, <1>2

\* What Holm rejects Benjamini-Hochberg rejects as well.
THEOREM HolmWithinBenjaminiHochberg ==
  ASSUME NEW p, IsFamily(p)
  PROVE  Holm(p) \subseteq BenjaminiHochberg(p)
<1> USE CorrectionsAssumption
<1> SUFFICES ASSUME NEW i \in Holm(p) PROVE p[i] * Size(p) <= (Rank(p, i) + 1) * Alpha
  BY RankType DEF Holm, BenjaminiHochberg
<1> DEFINE r == Rank(p, i)  m == Size(p)
<1>1. i \in DOMAIN p /\ p[i] * (m - r) <= Alpha
  BY RankType DEF Holm
<1>2. p[i] \in Nat /\ m \in Nat /\ r \in Nat /\ r < m
  BY <1>1, RankType, RankCounts DEF IsFamily
<1> HIDE DEF r, m
<1>3. p[i] * (m - r) * (r + 1) <= Alpha * (r + 1)
  BY <1>1, <1>2
<1>4. m <= (m - r) * (r + 1)
  <2>1. (m - r) * (r + 1) = m + r * (m - r - 1)
    BY <1>2
  <2>2. r * (m - r - 1) >= 0
    BY <1>2
  <2> QED
    BY <1>2, <2>1, <2>2
<1>5. p[i] * m <= p[i] * ((m - r) * (r + 1))
  BY <1>2, <1>4
<1>6. p[i] * ((m - r) * (r + 1)) = p[i] * (m - r) * (r + 1)
  <2>1. \A a, b, c \in Int : a * (b * c) = a * b * c
    OBVIOUS
  <2>2. p[i] \in Int /\ m - r \in Int /\ r + 1 \in Int
    BY <1>2
  <2> QED
    BY <2>1, <2>2
<1> QED
  BY <1>1, <1>2, <1>3, <1>5, <1>6 DEF r, m

-----------------------------------------------------------------------------
(***************************************************************************)
(* Rows in another order                                                   *)
(***************************************************************************)
\* f renames the members of D one by one.
Renames(f, D, E) ==
  /\ f \in [D -> E]
  /\ \A i, j \in D : f[i] = f[j] => i = j
  /\ \A k \in E : \E i \in D : f[i] = k

\* Renaming keeps the size of a set.
LEMMA Image ==
  ASSUME NEW f, NEW D, NEW E, Renames(f, D, E), NEW s \in SUBSET D, IsFiniteSet(s),
         NEW t \in SUBSET E, \A i \in D : i \in s <=> f[i] \in t
  PROVE  IsFiniteSet(t) /\ Cardinality(t) = Cardinality(s)
<1> DEFINE g == [i \in s |-> f[i]]
<1>1. g \in [s -> t] /\ (\A i, j \in s : g[i] = g[j] => i = j) /\ \A k \in t : \E i \in s : g[i] = k
  BY DEF Renames
<1> HIDE DEF g
<1>2. IsInjective(g)
  BY <1>1 DEF IsInjective
<1>3. g \in Bijection(s, t)
  BY <1>1, <1>2 DEF Bijection, Injection, Surjection
<1>4. ExistsBijection(s, t)
  BY <1>3 DEF ExistsBijection
<1>5. QED BY <1>4, FS_Bijection

\* Neither closed testing nor the threshold depends on the order of the rows.
LEMMA Reordered ==
  ASSUME NEW p, IsFamily(p), NEW q, IsFamily(q), NEW f, Renames(f, DOMAIN q, DOMAIN p),
         \A i \in DOMAIN q : q[i] = p[f[i]], NEW i \in DOMAIN q
  PROVE  /\ i \in ClosedTesting(q) <=> f[i] \in ClosedTesting(p)
         /\ i \in UpToThreshold(q) <=> f[i] \in UpToThreshold(p)
<1>1. /\ IsFiniteSet(DOMAIN q) /\ \A s \in SUBSET DOMAIN q : IsFiniteSet(s)
      /\ \A j \in DOMAIN q : f[j] \in DOMAIN p
  BY FS_Subset DEF IsFamily, Renames
<1>2. Size(q) = Size(p)
  BY <1>1, Image DEF Size
<1>3. ASSUME i \in ClosedTesting(q), NEW t \in SUBSET DOMAIN p, f[i] \in t
      PROVE  \E k \in t : p[k] * Cardinality(t) <= Alpha
  <2> DEFINE s == {j \in DOMAIN q : f[j] \in t}
  <2>1. i \in s /\ s \in SUBSET DOMAIN q
    BY <1>3
  <2>2. PICK j \in s : q[j] * Cardinality(s) <= Alpha
    BY <1>3, <2>1 DEF ClosedTesting
  <2>3. Cardinality(t) = Cardinality(s)
    BY <1>1, Image
  <2>4. QED BY <2>2, <2>3
<1>4. ASSUME f[i] \in ClosedTesting(p), NEW s \in SUBSET DOMAIN q, i \in s
      PROVE  \E j \in s : q[j] * Cardinality(s) <= Alpha
  <2> DEFINE t == {f[j] : j \in s}
  <2>1. f[i] \in t /\ t \in SUBSET DOMAIN p
    BY <1>1, <1>4
  <2>2. \A j \in DOMAIN q : j \in s <=> f[j] \in t
    BY DEF Renames
  <2>3. Cardinality(t) = Cardinality(s)
    <3> HIDE DEF t
    <3>1. QED BY <1>1, <2>1, <2>2, Image
  <2>4. PICK k \in t : p[k] * Cardinality(t) <= Alpha
    BY <1>4, <2>1 DEF ClosedTesting
  <2>5. QED BY <2>3, <2>4
<1>5. i \in ClosedTesting(q) <=> f[i] \in ClosedTesting(p)
  BY <1>1, <1>3, <1>4 DEF ClosedTesting
<1>6. ASSUME NEW k \in 1..Size(p)
      PROVE  Cardinality({j \in DOMAIN p : p[j] * Size(p) <= k * Alpha})
               = Cardinality({j \in DOMAIN q : q[j] * Size(q) <= k * Alpha})
  <2> DEFINE t == {j \in DOMAIN p : p[j] * Size(p) <= k * Alpha}
             s == {j \in DOMAIN q : q[j] * Size(q) <= k * Alpha}
  <2>1. \A j \in DOMAIN q : j \in s <=> f[j] \in t
    BY <1>1, <1>2
  <2>2. s \in SUBSET DOMAIN q /\ t \in SUBSET DOMAIN p
    OBVIOUS
  <2> HIDE DEF s, t
  <2>3. Cardinality(t) = Cardinality(s)
    BY <1>1, <2>1, <2>2, Image
  <2>4. QED BY <2>3 DEF s, t
<1>7. i \in UpToThreshold(q) <=> f[i] \in UpToThreshold(p)
  BY <1>1, <1>2, <1>6 DEF UpToThreshold
<1>8. QED BY <1>5, <1>7

-----------------------------------------------------------------------------
(***************************************************************************)
(* Markers                                                                 *)
(***************************************************************************)
LEMMA RowKinds ==
  ASSUME NEW r \in Row
  PROVE  /\ r = [n |-> r.n, p |-> r.p, significant |-> r.significant, regression |-> r.regression]
         /\ r.n >= MinReliableN =>
              /\ r.p \in Nat /\ r.significant \in BOOLEAN /\ r.regression \in BOOLEAN
              /\ r.regression => r.significant = TRUE
         /\ ~ (r.n >= MinReliableN) => r.significant = None /\ r.regression = FALSE
<1> DEFINE A == [n : {1}, p : {None}, significant : {None}, regression : {FALSE}]
           B == [n : {MinReliableN - 1}, p : PRange, significant : {None}, regression : {FALSE}]
           C == [n : {MinReliableN}, p : PRange, significant : BOOLEAN, regression : BOOLEAN]
<1>1. MinReliableN \in Nat /\ MinReliableN >= 2 /\ PRange \subseteq Nat
  BY CorrectionsAssumption, BoundsAssumption
<1>2. r \in A \/ r \in B \/ (r \in C /\ RawMarker(r))
  BY DEF Row
<1>3. r = [n |-> r.n, p |-> r.p, significant |-> r.significant, regression |-> r.regression]
  <2>1. CASE r \in A
    BY <2>1
  <2>2. CASE r \in B
    BY <2>2
  <2>3. CASE r \in C
    BY <2>3
  <2>4. QED BY <1>2, <2>1, <2>2, <2>3
<1>4. CASE r \in A \/ r \in B
  <2>1. r.significant = None /\ r.regression = FALSE
    BY <1>4
  <2>2. r.n = 1 \/ r.n = MinReliableN - 1
    BY <1>4
  <2>3. ~ (r.n >= MinReliableN)
    BY <1>1, <2>2
  <2>4. QED BY <1>3, <2>1, <2>3
<1>5. CASE r \in C /\ RawMarker(r)
  <2>1. r.n = MinReliableN /\ r.p \in PRange /\ r.significant \in BOOLEAN /\ r.regression \in BOOLEAN
    BY <1>5
  <2>2. r.regression => r.significant = TRUE
    BY <1>5, <2>1 DEF RawMarker
  <2>3. QED BY <1>1, <1>3, <2>1, <2>2
<1>6. QED BY <1>2, <1>4, <1>5

\* The p-values of testable rows are a family.
LEMMA Family ==
  ASSUME NEW rows \in Seq(Row)
  PROVE  /\ IsFamily(PValues(rows)) /\ DOMAIN PValues(rows) = Testable(rows)
         /\ Testable(rows) \subseteq DOMAIN rows
         /\ \A i \in Testable(rows) : rows[i] \in Row /\ rows[i].n >= MinReliableN
<1>1. DOMAIN rows = 1..Len(rows) /\ Len(rows) \in Nat /\ \A i \in DOMAIN rows : rows[i] \in Row
  OBVIOUS
<1>2. Testable(rows) \subseteq DOMAIN rows /\ \A i \in Testable(rows) : rows[i].n >= MinReliableN
  BY DEF Testable
<1>3. IsFiniteSet(Testable(rows))
  <2>1. IsFiniteSet(DOMAIN rows)
    BY <1>1, FS_Interval
  <2>2. QED BY <1>2, <2>1, FS_Subset
<1>4. \A i \in Testable(rows) : rows[i].p \in Nat
  BY <1>1, <1>2, RowKinds
<1>5. QED BY <1>1, <1>2, <1>3, <1>4 DEF PValues, IsFamily

\* What a correction makes of one row.
Dropped(rows, method, i) ==
  /\ method # "none" /\ i \in Testable(rows)
  /\ rows[i].significant = TRUE /\ i \notin Rejected(PValues(rows), method)

\* What correcting a family does to one row.
LEMMA OneMarker ==
  ASSUME NEW rows \in Seq(Row), NEW method, NEW i \in DOMAIN rows
  PROVE  /\ Dropped(rows, method, i) => /\ Markers(rows, method)[i].significant = FALSE
                                        /\ Markers(rows, method)[i].regression = FALSE
         /\ ~Dropped(rows, method, i) => Markers(rows, method)[i] = rows[i]
<1> DEFINE r == rows[i]
<1>1. r \in Row
  OBVIOUS
<1>2. r = [n |-> r.n, p |-> r.p, significant |-> r.significant, regression |-> r.regression]
  BY <1>1, RowKinds
<1> HIDE DEF r
<1>3. [r EXCEPT !.significant = FALSE, !.regression = FALSE].significant = FALSE
      /\ [r EXCEPT !.significant = FALSE, !.regression = FALSE].regression = FALSE
  BY <1>2
<1>4. Dropped(rows, method, i) =>
        Markers(rows, method)[i] = [r EXCEPT !.significant = FALSE, !.regression = FALSE]
  BY DEF Markers, Dropped, r
<1>5. ~Dropped(rows, method, i) => Markers(rows, method)[i] = rows[i]
  BY DEF Markers, Dropped
<1>6. QED BY <1>3, <1>4, <1>5

\* The places of rows after the first has gone last.
Rotated(n) == [i \in 1..n |-> IF i < n THEN i + 1 ELSE 1]

\* Moving the first row to the end renames the rows.
LEMMA Rotation ==
  ASSUME NEW X, NEW s \in Seq(X), s # <<>>
  PROVE  /\ Tail(s) \o <<Head(s)>> \in Seq(X)
         /\ DOMAIN (Tail(s) \o <<Head(s)>>) = DOMAIN s
         /\ Tail(s) \o <<Head(s)>> = [i \in DOMAIN s |-> s[Rotated(Len(s))[i]]]
         /\ Renames(Rotated(Len(s)), DOMAIN s, DOMAIN s)
<1> DEFINE n == Len(s)  t == Tail(s) \o <<Head(s)>>
<1>1. n \in Nat /\ n >= 1 /\ DOMAIN s = 1..n
  OBVIOUS
<1>2. t \in Seq(X) /\ Len(t) = n
  OBVIOUS
<1>3. \A i \in 1..n : t[i] = s[Rotated(n)[i]]
  BY DEF Rotated
<1>4. /\ Rotated(n) \in [1..n -> 1..n]
      /\ \A i, j \in 1..n : Rotated(n)[i] = Rotated(n)[j] => i = j
  BY <1>1 DEF Rotated
<1>5. ASSUME NEW k \in 1..n PROVE \E i \in 1..n : Rotated(n)[i] = k
  <2>1. CASE k = 1
    <3>1. n \in 1..n /\ Rotated(n)[n] = 1
      BY <1>1 DEF Rotated
    <3>2. QED BY <2>1, <3>1
  <2>2. CASE k # 1
    <3>1. k - 1 \in 1..n /\ Rotated(n)[k - 1] = k
      BY <1>1, <2>2 DEF Rotated
    <3>2. QED BY <3>1
  <2>3. QED BY <2>1, <2>2
<1>6. t = [i \in 1..n |-> s[Rotated(n)[i]]]
  <2> HIDE DEF t, n
  <2>1. t = [i \in 1..n |-> t[i]]
    BY <1>2
  <2>2. QED BY <1>3, <2>1
<1>7. QED BY <1>1, <1>2, <1>4, <1>5, <1>6 DEF Renames

\* A row keeps its marker or not wherever it stands.
LEMMA MarkersRotated ==
  ASSUME NEW rows \in Seq(Row), rows # <<>>, NEW m \in Corrected
  PROVE  Markers(Tail(rows) \o <<Head(rows)>>, m)
           = Tail(Markers(rows, m)) \o <<Head(Markers(rows, m))>>
<1> DEFINE x == Tail(rows) \o <<Head(rows)>>
           f == Rotated(Len(rows))
           D == DOMAIN rows
           p == PValues(rows)
           q == PValues(x)
           M == Markers(rows, m)
<1>1. /\ x \in Seq(Row) /\ x = [i \in D |-> rows[f[i]]] /\ Renames(f, D, D)
  BY Rotation
<1> HIDE DEF x, f, D
<1>2. DOMAIN x = D /\ \A i \in D : f[i] \in D /\ x[i] = rows[f[i]]
  BY <1>1 DEF Renames
<1>3. \A i \in D : i \in Testable(x) <=> f[i] \in Testable(rows)
  BY <1>2 DEF Testable, D
<1>4. /\ IsFamily(p) /\ IsFamily(q) /\ DOMAIN p = Testable(rows) /\ DOMAIN q = Testable(x)
      /\ Testable(rows) \subseteq D /\ Testable(x) \subseteq D
  BY <1>1, <1>2, Family DEF D
<1>5. \A i \in DOMAIN q : q[i] = p[f[i]]
  BY <1>2, <1>3, <1>4 DEF PValues
<1> DEFINE g == [i \in DOMAIN q |-> f[i]]
<1>6. Renames(g, DOMAIN q, DOMAIN p) /\ \A i \in DOMAIN q : g[i] = f[i]
  BY <1>1, <1>3, <1>4 DEF Renames
<1> HIDE DEF p, q, g
<1>7. \A i \in Testable(x) : i \in Rejected(q, m) <=> f[i] \in Rejected(p, m)
  BY <1>4, <1>5, <1>6, Reordered, HolmIsClosedTesting, BenjaminiHochbergIsThreshold DEF Rejected
<1>8. \A i \in D : Markers(x, m)[i] = Markers(rows, m)[f[i]]
  BY <1>2, <1>3, <1>7 DEF Markers, p, q, D
<1>9. Markers(x, m) = [i \in D |-> M[f[i]]]
  BY <1>2, <1>8 DEF Markers
<1>10. DOMAIN M = D /\ D = 1..Len(rows) /\ Len(rows) \in Nat /\ Len(rows) >= 1
  BY DEF Markers, D
<1>11. M = [i \in 1..Len(rows) |-> M[i]]
  BY <1>10 DEF Markers, D
<1> DEFINE V == {M[i] : i \in D}
<1>12. M \in Seq(V) /\ Len(M) = Len(rows) /\ M # <<>>
  <2> HIDE DEF M
  <2>1. QED BY <1>10, <1>11
<1>13. Tail(M) \o <<Head(M)>> = [i \in D |-> M[f[i]]]
  <2> HIDE DEF M, V
  <2>1. Tail(M) \o <<Head(M)>> = [i \in DOMAIN M |-> M[Rotated(Len(M))[i]]]
    BY <1>12, Rotation
  <2>2. QED BY <1>10, <1>12, <2>1 DEF f
<1>14. QED BY <1>9, <1>13 DEF x

\* The markers that survive a correction are those its method promises, in families of
\* any size: the procedures are applied to the testable rows only, take markers and
\* regressions away together, and do not look at where a row stands
\* (_apply_mc_correction, _apply_baseline_mc_correction).
THEOREM MarkersExactHolds == Spec => []MarkersExact
<1>1. ASSUME Inv PROVE MarkersExact
  <2> SUFFICES ASSUME step = "mark" PROVE MarkersExact
    BY DEF MarkersExact
  <2> DEFINE p == PValues(in)
             kept(m) == {i \in Testable(in) : in[i].significant = TRUE /\ out[m][i].significant = TRUE}
             marked == {i \in Testable(in) : in[i].significant = TRUE}
  <2>1. /\ in \in Seq(Row) /\ in # <<>>
        /\ out = [m \in Corrected \cup {"none"} |-> Markers(in, m)]
    BY <1>1 DEF Inv, Marked
  <2>2. /\ IsFamily(p) /\ DOMAIN p = Testable(in) /\ Testable(in) \subseteq DOMAIN in
        /\ \A i \in Testable(in) : in[i] \in Row /\ in[i].n >= MinReliableN
    BY <2>1, Family
  <2>3. \A m \in Corrected \cup {"none"} : out[m] = Markers(in, m)
    BY <2>1
  <2>4. \A i \in DOMAIN in : in[i] \in Row
    BY <2>1
  <2>5. \A m \in Corrected : kept(m) = marked \cap Rejected(p, m)
    <3> SUFFICES ASSUME NEW m \in Corrected, NEW i \in Testable(in), in[i].significant = TRUE
                 PROVE  out[m][i].significant = TRUE <=> i \in Rejected(p, m)
      OBVIOUS
    <3>1. m # "none" /\ i \in DOMAIN in /\ out[m] = Markers(in, m)
      BY <2>2, <2>3 DEF Corrected
    <3>2. QED BY <2>1, <3>1, OneMarker DEF Dropped
  <2>6. kept("holm") = marked \cap ClosedTesting(p)
    BY <2>2, <2>5, HolmIsClosedTesting DEF Corrected, Rejected
  <2>7. kept("benjamini-hochberg") = marked \cap UpToThreshold(p)
    BY <2>2, <2>5, BenjaminiHochbergIsThreshold DEF Corrected, Rejected
  <2>8. kept("holm") \subseteq kept("benjamini-hochberg")
    BY <2>2, <2>5, HolmWithinBenjaminiHochberg DEF Corrected, Rejected
  <2>9. out["none"] = in
    <3>1. \A i \in DOMAIN in : Markers(in, "none")[i] = in[i]
      BY DEF Markers
    <3>2. DOMAIN Markers(in, "none") = DOMAIN in /\ Markers(in, "none") = [i \in DOMAIN in |-> in[i]]
      BY DEF Markers
    <3>3. in = [i \in DOMAIN in |-> in[i]]
      BY <2>1
    <3>4. QED BY <2>3, <3>2, <3>3
  <2>10. ASSUME NEW m \in Corrected, NEW i \in DOMAIN in
         PROVE  /\ \/ out[m][i].significant = in[i].significant
                   \/ in[i].significant = TRUE /\ out[m][i].significant = FALSE
                /\ i \notin Testable(in) => out[m][i] = in[i]
                /\ out[m][i].regression = (in[i].regression /\ out[m][i].significant = TRUE)
    <3>1. out[m] = Markers(in, m)
      BY <2>3
    <3>2. CASE Dropped(in, m, i)
      <4>1. out[m][i].significant = FALSE /\ out[m][i].regression = FALSE
        BY <2>1, <3>1, <3>2, OneMarker
      <4>2. i \in Testable(in) /\ in[i].significant = TRUE
        BY <3>2 DEF Dropped
      <4>3. QED BY <4>1, <4>2
    <3>3. CASE ~Dropped(in, m, i)
      <4>1. out[m][i] = in[i]
        BY <2>1, <3>1, <3>3, OneMarker
      <4>2. in[i].regression = (in[i].regression /\ in[i].significant = TRUE)
        BY <2>4, RowKinds, CorrectionsAssumption
      <4>3. QED BY <4>1, <4>2
    <3>4. QED BY <3>2, <3>3
  <2>11. \A m \in Corrected : Markers(Tail(in) \o <<Head(in)>>, m) = Tail(out[m]) \o <<Head(out[m])>>
    BY <2>1, <2>3, MarkersRotated
  <2>12. QED BY <2>6, <2>7, <2>8, <2>9, <2>10, <2>11 DEF MarkersExact
<1>2. QED BY <1>1, Invariance, PTL

-----------------------------------------------------------------------------
(***************************************************************************)
(* Counting                                                                *)
(***************************************************************************)
\* What D covers through f is finite and not more than D.
LEMMA Covered ==
  ASSUME NEW f, NEW D, IsFiniteSet(D), NEW T, \A t \in T : \E d \in D : f[d] = t
  PROVE  IsFiniteSet(T) /\ Cardinality(T) <= Cardinality(D) /\ Cardinality(T) \in Nat
<1> DEFINE E == {d \in D : f[d] \in T}
           g == [d \in E |-> f[d]]
<1>1. IsFiniteSet(E) /\ Cardinality(E) <= Cardinality(D)
  BY FS_Subset
<1>2. g \in [E -> T] /\ \A t \in T : \E d \in E : g[d] = t
  OBVIOUS
<1> HIDE DEF E, g
<1>3. g \in Surjection(E, T)
  BY <1>2 DEF Surjection
<1>4. IsFiniteSet(T) /\ Cardinality(T) <= Cardinality(E)
  BY <1>1, <1>3, FS_Surjection
<1>5. QED BY <1>1, <1>4, FS_CardinalityType

\* A set of numbers has a least one, and with a bound a greatest one.
LEMMA Least ==
  ASSUME NEW S \in SUBSET Nat, S # {}
  PROVE  \E k \in S : \A m \in S : k <= m
<1>1. PICK z \in S : TRUE
  OBVIOUS
<1> DEFINE D == 1..z
           T == {1..s : s \in {m \in S : m <= z}}
<1>2. IsFiniteSet(D) /\ z \in Nat
  BY FS_Interval
<1>3. \A s, t \in S : s <= t => 1..s \subseteq 1..t
  OBVIOUS
<1>4. \A s, t \in S : s <= t \/ t <= s
  OBVIOUS
<1>5. T # {} /\ \A x \in T : x \subseteq D
  BY <1>1, <1>3
<1>6. \A x, y \in T : x \subseteq y \/ y \subseteq x
  <2> HIDE DEF D
  <2>1. QED BY <1>3, <1>4
<1>7. PICK x \in T : \A y \in T : x \subseteq y
  <2> HIDE DEF T, D
  <2>1. QED BY <1>2, <1>5, <1>6, SmallestNested
<1>8. PICK k \in S : k <= z /\ x = 1..k
  OBVIOUS
<1>9. ASSUME NEW m \in S PROVE k <= m
  <2> SUFFICES ASSUME m < k PROVE FALSE
    BY <1>2
  <2>1. m \in Nat /\ k \in Nat /\ m <= z
    BY <1>2, <1>8
  <2>2. 1..m \in T
    BY <2>1
  <2>3. 1..k \subseteq 1..m
    BY <1>7, <1>8, <2>2
  <2>4. k \in 1..k /\ k \notin 1..m
    BY <2>1
  <2>5. QED BY <2>3, <2>4
<1>10. QED BY <1>9

LEMMA Greatest ==
  ASSUME NEW N \in Nat, NEW S \in SUBSET (0..N), S # {}
  PROVE  \E k \in S : \A m \in S : m <= k
<1> DEFINE T == {N - s : s \in S}
<1>1. T \in SUBSET Nat /\ T # {}
  <2>1. \A s \in S : N - s \in Nat
    OBVIOUS
  <2>2. QED BY <2>1
<1>2. PICK t \in T : \A x \in T : t <= x
  <2> HIDE DEF T
  <2>1. QED BY <1>1, Least
<1>3. PICK k \in S : t = N - k
  OBVIOUS
<1>4. \A m \in S : N - k <= N - m
  BY <1>2, <1>3
<1>5. \A m \in S : m <= k
  BY <1>4
<1>6. QED BY <1>5

\* Members of D that f sends to one of R.
Fibre(f, D, r) == {d \in D : f[d] = r}

\* With at most k to each of R, and with at least m.
LEMMA Fibres ==
  ASSUME NEW f, NEW D, IsFiniteSet(D), NEW R, IsFiniteSet(R), \A d \in D : f[d] \in R,
         NEW m \in Nat, NEW k \in Nat
  PROVE  /\ (\A r \in R : Cardinality(Fibre(f, D, r)) <= k) => Cardinality(D) <= Cardinality(R) * k
         /\ (\A r \in R : Cardinality(Fibre(f, D, r)) >= m) => Cardinality(D) >= Cardinality(R) * m
<1> DEFINE Over(s) == {d \in D : f[d] \in s}
           Right(s) ==
             /\ (\A r \in s : Cardinality(Fibre(f, D, r)) <= k) => Cardinality(Over(s)) <= Cardinality(s) * k
             /\ (\A r \in s : Cardinality(Fibre(f, D, r)) >= m) => Cardinality(Over(s)) >= Cardinality(s) * m
           Wrong == {s \in SUBSET R : ~Right(s)}
<1>1. FiniteSubsetsOf(R) = SUBSET R
  BY FS_FiniteSubsetsOfFinite
<1>2. IsWellFoundedOn(StrictSubsetOrdering(R), SUBSET R)
  BY <1>1, FS_StrictSubsetOrderingWellFounded
<1>3. Wrong = {}
  <2> SUFFICES ASSUME Wrong # {} PROVE FALSE
    OBVIOUS
  <2>1. PICK s \in Wrong : \A x \in Wrong : ~ (<<x, s>> \in StrictSubsetOrdering(R))
    <3>1. Wrong \in SUBSET SUBSET R
      OBVIOUS
    <3> HIDE DEF Wrong
    <3>2. QED BY <1>2, <3>1, WFMin
  <2>2. s \in SUBSET R /\ IsFiniteSet(s) /\ ~Right(s)
    BY FS_Subset
  <2>3. \A x \in SUBSET s : x # s => Right(x)
    BY <2>1, <2>2 DEF StrictSubsetOrdering
  <2>4. CASE s = {}
    <3>1. Over(s) = {} /\ Cardinality({}) = 0
      BY <2>4, FS_EmptySet
    <3>2. 0 * k = 0 /\ 0 * m = 0
      OBVIOUS
    <3>3. Right({})
      BY <2>4, <3>1, <3>2
    <3>4. QED BY <2>2, <2>4, <3>3
  <2>5. CASE s # {}
    <3>1. PICK r \in s : TRUE
      BY <2>5
    <3> DEFINE x == s \ {r}
               a == Cardinality(Over(x))
               b == Cardinality(Fibre(f, D, r))
               n == Cardinality(x)
    <3>2. Right(x)
      BY <2>3, <3>1
    <3>3. IsFiniteSet(x) /\ Cardinality(s) = n + 1 /\ n \in Nat
      <4>1. IsFiniteSet(x) /\ n = Cardinality(s) - 1
        BY <2>2, <3>1, FS_RemoveElement
      <4>2. n \in Nat /\ Cardinality(s) \in Nat
        BY <2>2, <4>1, FS_CardinalityType
      <4>3. QED BY <4>1, <4>2
    <3>4. IsFiniteSet(Over(x)) /\ IsFiniteSet(Fibre(f, D, r)) /\ a \in Nat /\ b \in Nat
      BY FS_Subset, FS_CardinalityType DEF Fibre
    <3>5. Over(s) = Over(x) \cup Fibre(f, D, r) /\ Over(x) \cap Fibre(f, D, r) = {}
      BY <3>1 DEF Fibre
    <3>6. Cardinality(Over(s)) = a + b
      <4>1. Cardinality(Over(x) \cup Fibre(f, D, r)) = a + b - Cardinality(Over(x) \cap Fibre(f, D, r))
        BY <3>4, FS_Union
      <4>2. Cardinality(Over(s)) = a + b - 0
        BY <3>5, <4>1, FS_EmptySet
      <4>3. QED BY <3>4, <4>2
    <3>7. (n + 1) * k = n * k + k /\ (n + 1) * m = n * m + m /\ n * k \in Nat /\ n * m \in Nat
      <4>1. \A i, j \in Nat : (i + 1) * j = i * j + j /\ i * j \in Nat
        OBVIOUS
      <4> HIDE DEF n
      <4>2. QED BY <3>3, <4>1
    <3>8. ASSUME \A q \in s : Cardinality(Fibre(f, D, q)) <= k
          PROVE  Cardinality(Over(s)) <= Cardinality(s) * k
      <4>1. a <= n * k /\ b <= k
        BY <3>1, <3>2, <3>8
      <4>2. QED BY <3>3, <3>4, <3>6, <3>7, <4>1
    <3>9. ASSUME \A q \in s : Cardinality(Fibre(f, D, q)) >= m
          PROVE  Cardinality(Over(s)) >= Cardinality(s) * m
      <4>1. a >= n * m /\ b >= m
        BY <3>1, <3>2, <3>9
      <4>2. QED BY <3>3, <3>4, <3>6, <3>7, <4>1
    <3>10. QED BY <2>2, <3>8, <3>9
  <2>6. QED BY <2>4, <2>5
<1>4. Right(R)
  BY <1>3
<1>5. Over(R) = D
  OBVIOUS
<1>6. QED BY <1>4, <1>5

-----------------------------------------------------------------------------
(***************************************************************************)
(* Names and slugs                                                         *)
(***************************************************************************)
LEMMA SuffixPlaces ==
  ASSUME NEW u \in Seq(Words), NEW s \in Seq(Words)
  PROVE  IsSuffix(u, s) <=> /\ Len(u) <= Len(s)
                            /\ \A i \in 1..Len(u) : u[i] = s[Len(s) - Len(u) + i]
<1> DEFINE ru == Reverse(u)  rs == Reverse(s)
<1>1. ru \in Seq(Words) /\ rs \in Seq(Words) /\ Len(ru) = Len(u) /\ Len(rs) = Len(s)
  BY DEF Reverse
<1>2. /\ \A i \in 1..Len(u) : ru[i] = u[Len(u) - i + 1]
      /\ \A i \in 1..Len(s) : rs[i] = s[Len(s) - i + 1]
  BY DEF Reverse
<1> HIDE DEF ru, rs
<1>3. IsSuffix(u, s) <=> Len(u) <= Len(s) /\ SubSeq(ru, 1, Len(u)) = SubSeq(rs, 1, Len(u))
  BY <1>1 DEF IsSuffix, IsPrefix, ru, rs
<1>4. ASSUME Len(u) <= Len(s), SubSeq(ru, 1, Len(u)) = SubSeq(rs, 1, Len(u)), NEW i \in 1..Len(u)
      PROVE  u[i] = s[Len(s) - Len(u) + i]
  <2> DEFINE k == Len(u) - i + 1
  <2>1. k \in 1..Len(u) /\ k \in 1..Len(s) /\ Len(u) - k + 1 = i /\ Len(s) - k + 1 = Len(s) - Len(u) + i
    BY <1>4
  <2> HIDE DEF k
  <2>2. SubSeq(ru, 1, Len(u))[k] = ru[k] /\ SubSeq(rs, 1, Len(u))[k] = rs[k]
    BY <1>1, <1>4, <2>1
  <2>3. ru[k] = rs[k]
    BY <1>4, <2>2
  <2>4. QED BY <1>2, <2>1, <2>3
<1>5. ASSUME Len(u) <= Len(s), \A i \in 1..Len(u) : u[i] = s[Len(s) - Len(u) + i]
      PROVE  SubSeq(ru, 1, Len(u)) = SubSeq(rs, 1, Len(u))
  <2>1. ASSUME NEW k \in 1..Len(u) PROVE ru[k] = rs[k]
    <3>1. /\ Len(u) - k + 1 \in 1..Len(u) /\ k \in 1..Len(s)
          /\ Len(s) - Len(u) + (Len(u) - k + 1) = Len(s) - k + 1
      BY <1>5
    <3>2. u[Len(u) - k + 1] = s[Len(s) - k + 1]
      BY <1>5, <3>1
    <3>3. QED BY <1>2, <3>1, <3>2
  <2>2. QED BY <1>1, <1>5, <2>1
<1>6. QED BY <1>3, <1>4, <1>5

\* Suffixes of the same length are the same.
LEMMA SuffixOfLength ==
  ASSUME NEW u \in Seq(Words), NEW v \in Seq(Words), NEW s \in Seq(Words),
         IsSuffix(u, s), IsSuffix(v, s), Len(u) = Len(v)
  PROVE  u = v
<1>1. /\ \A i \in 1..Len(u) : u[i] = s[Len(s) - Len(u) + i]
      /\ \A i \in 1..Len(v) : v[i] = s[Len(s) - Len(v) + i]
  BY SuffixPlaces
<1>2. \A i \in 1..Len(u) : u[i] = v[i]
  BY <1>1
<1>3. QED BY <1>2

\* After the one word of a task the longest variant that fits is the variant itself.
LEMMA LongestOwn ==
  ASSUME NEW w \in Words, NEW variants \in SUBSET Seq(Words), NEW v \in variants, Len(v) >= 1,
         NEW fit \in SUBSET variants, \A u \in variants : u \in fit <=> Ends(<<w>> \o v, u)
  PROVE  v \in fit /\ Longest(fit) = v
<1> DEFINE s == <<w>> \o v
<1>1. s \in Seq(Words) /\ Len(s) = Len(v) + 1 /\ s[1] = w /\ \A i \in 1..Len(v) : s[1 + i] = v[i]
  OBVIOUS
<1> HIDE DEF s
<1>2. IsSuffix(v, s)
  BY <1>1, SuffixPlaces
<1>3. Ends(s, v)
  BY <1>1, <1>2 DEF Ends, IsStrictSuffix
<1>4. ASSUME NEW u \in variants, Ends(s, u) PROVE Len(u) <= Len(v)
  <2>1. u \in Seq(Words) /\ IsSuffix(u, s) /\ u # s
    BY <1>4 DEF Ends, IsStrictSuffix
  <2>2. SUFFICES ASSUME Len(u) = Len(s) PROVE FALSE
    BY <1>1, <2>1, SuffixPlaces
  <2>3. IsSuffix(s, s)
    BY <1>1, SuffixPlaces
  <2>4. QED BY <1>1, <2>1, <2>2, <2>3, SuffixOfLength
<1>5. ASSUME NEW u \in variants, Ends(s, u), Len(v) <= Len(u) PROVE u = v
  BY <1>1, <1>2, <1>4, <1>5, SuffixOfLength DEF Ends, IsStrictSuffix
<1>6. \A u \in variants : u \in fit <=> Ends(s, u)
  BY DEF s
<1>7. v \in fit /\ \A x \in fit : Len(x) <= Len(v) /\ (Len(v) <= Len(x) => x = v)
  BY <1>3, <1>4, <1>5, <1>6
<1>8. QED BY <1>7 DEF Longest

\* A name that ends in "_" and a variant, after the one word of a task, is that of the
\* variant or of one whose own name ends so.
LEMMA EndsOwn ==
  ASSUME NEW w \in Words, NEW u \in Seq(Words), NEW v \in Seq(Words), Ends(<<w>> \o u, v)
  PROVE  u = v \/ Ends(u, v)
<1> DEFINE s == <<w>> \o u
<1>1. s \in Seq(Words) /\ Len(s) = Len(u) + 1 /\ \A i \in 1..Len(u) : s[1 + i] = u[i]
  OBVIOUS
<1> HIDE DEF s
<1>2. IsSuffix(v, s) /\ v # s
  BY DEF Ends, IsStrictSuffix, s
<1>3. Len(v) <= Len(s) /\ \A i \in 1..Len(v) : v[i] = s[Len(s) - Len(v) + i]
  BY <1>1, <1>2, SuffixPlaces
<1>4. Len(v) # Len(s)
  <2>1. IsSuffix(s, s)
    BY <1>1, SuffixPlaces
  <2>2. QED BY <1>1, <1>2, <2>1, SuffixOfLength
<1>5. Len(v) <= Len(u)
  BY <1>1, <1>3, <1>4
<1>6. ASSUME NEW i \in 1..Len(v) PROVE v[i] = u[Len(u) - Len(v) + i]
  <2>1. Len(u) - Len(v) + i \in 1..Len(u)
    BY <1>5
  <2>2. s[1 + (Len(u) - Len(v) + i)] = u[Len(u) - Len(v) + i]
    BY <1>1, <2>1
  <2>3. Len(s) - Len(v) + i = 1 + (Len(u) - Len(v) + i)
    BY <1>1
  <2>4. QED BY <1>3, <2>2, <2>3
<1>7. IsSuffix(v, u)
  BY <1>5, <1>6, SuffixPlaces
<1>8. QED BY <1>7 DEF Ends, IsStrictSuffix

LEMMA NamesAreWords ==
  ASSUME NEW n \in Nat, NEW name \in Names(n)
  PROVE  name \in Seq(Words) /\ Len(name) \in 1..n
BY DEF Names

\* Concatenation and parts of sequences, index by index.
LEMMA Joined ==
  ASSUME NEW S, NEW x \in Seq(S), NEW y \in Seq(S)
  PROVE  /\ x \o y \in Seq(S) /\ Len(x \o y) = Len(x) + Len(y)
         /\ \A i \in 1..Len(x) : (x \o y)[i] = x[i]
         /\ \A i \in 1..Len(y) : (x \o y)[Len(x) + i] = y[i]
OBVIOUS

LEMMA PartOf ==
  ASSUME NEW S, NEW x \in Seq(S), NEW i \in Nat, NEW k \in Nat, i + k <= Len(x)
  PROVE  LET y == SubSeq(x, i + 1, i + k)
         IN y \in Seq(S) /\ Len(y) = k /\ \A j \in 1..k : y[j] = x[i + j]
OBVIOUS

LEMMA SameSequence ==
  ASSUME NEW S, NEW x \in Seq(S), NEW y \in Seq(S), Len(x) = Len(y),
         \A i \in 1..Len(x) : x[i] = y[i]
  PROVE  x = y
OBVIOUS

\* What follows the epoch in a slug.
AfterEpoch(fixture) == IF fixture = <<>> THEN <<>> ELSE <<FixtureMark>> \o fixture

\* A slug is cut where the epoch begins, whatever marks the names of task and variant
\* hold, and gives epoch and fixture back, whatever marks of fixtures the fixture holds.
LEMMA SlugCut ==
  ASSUME NEW w \in Words, NEW v \in Seq(Words), Len(v) >= 1,
         NEW f \in Seq(Words), \A i \in 1..Len(f) : f[i] \notin EpochWords,
         NEW e \in EpochTexts
  PROVE  LET s == RunSlug(<<w>>, v, f, e)
         IN /\ NameVariant(s) = <<w>> \o v
            /\ SplitFixture(EpochPart(s)) = [epoch |-> <<EpochWord(e)>>, fixture |-> f]
            /\ Begins(s, <<w>>)
            /\ s[1] = w
<1> DEFINE s == RunSlug(<<w>>, v, f, e)
           t == AfterEpoch(f)
           n == Len(v) + 1
           All == Words \cup EpochWords \cup {FixtureMark}
           E == EpochWord(e)
<1>1. E \in EpochWords /\ FixtureMark \notin EpochWords
  BY FixtureMarkAssumption DEF EpochWords
<1> HIDE DEF E
<1>2. /\ t \in Seq(All)
      /\ \A i \in 1..Len(t) : t[i] \notin EpochWords
      /\ f = <<>> => Len(t) = 0
      /\ f # <<>> => Len(t) = Len(f) + 1 /\ t[1] = FixtureMark /\ \A i \in 1..Len(f) : t[1 + i] = f[i]
  <2>1. CASE f = <<>>
    BY <2>1 DEF AfterEpoch
  <2>2. CASE f # <<>>
    <3>1. f \in Seq(All) /\ <<FixtureMark>> \in Seq(All) /\ t = <<FixtureMark>> \o f
      BY <2>2 DEF AfterEpoch
    <3>2. t \in Seq(All) /\ Len(t) = Len(f) + 1 /\ t[1] = FixtureMark /\ \A i \in 1..Len(f) : t[1 + i] = f[i]
      BY <3>1
    <3>3. ASSUME NEW i \in 1..Len(t) PROVE t[i] \notin EpochWords
      <4>1. CASE i = 1
        BY <1>1, <3>2, <4>1
      <4>2. CASE i # 1
        <5>1. i - 1 \in 1..Len(f) /\ i = 1 + (i - 1)
          BY <3>2, <4>2
        <5>2. t[i] = f[i - 1]
          BY <3>2, <5>1
        <5>3. QED BY <5>1, <5>2
      <4>3. QED BY <4>1, <4>2
    <3>4. QED BY <2>2, <3>2, <3>3
  <2>3. QED BY <2>1, <2>2
<1>3. s = ((<<w>> \o v) \o <<E>>) \o t
  BY DEF RunSlug, AfterEpoch, E
<1> HIDE DEF t, s, All
<1> DEFINE a == <<w>> \o v
           b == a \o <<E>>
<1>4. a \in Seq(All) /\ Len(a) = n /\ a[1] = w /\ <<w>> \o v = a
  BY DEF All
<1> HIDE DEF a
<1>5. /\ b \in Seq(All) /\ Len(b) = n + 1 /\ b[n + 1] = E
      /\ \A i \in 1..n : b[i] = a[i]
  BY <1>1, <1>4 DEF All
<1> HIDE DEF b
<1>6. /\ s \in Seq(All) /\ Len(s) = n + 1 + Len(t)
      /\ s[n + 1] = E
      /\ \A i \in 1..n : s[i] = a[i]
      /\ \A i \in 1..Len(t) : s[n + 1 + i] = t[i]
  <2>1. s = b \o t
    BY <1>3 DEF a, b
  <2>2. /\ s \in Seq(All) /\ Len(s) = Len(b) + Len(t)
        /\ \A i \in 1..Len(b) : s[i] = b[i]
        /\ \A i \in 1..Len(t) : s[Len(b) + i] = t[i]
    <3>1. b \in Seq(All) /\ t \in Seq(All)
      BY <1>2, <1>5
    <3>2. QED BY <2>1, <3>1, Joined
  <2>3. n \in Nat
    OBVIOUS
  <2> HIDE DEF n
  <2>4. QED BY <1>5, <2>2, <2>3
<1>7. LastMark(s) = n + 1
  <2>1. n + 1 \in EpochMarks(s)
    BY <1>1, <1>2, <1>6 DEF EpochMarks
  <2>2. ASSUME NEW j \in EpochMarks(s) PROVE j <= n + 1
    <3> SUFFICES ASSUME j > n + 1 PROVE FALSE
      BY DEF EpochMarks
    <3>1. j \in 2..Len(s) /\ s[j] \in EpochWords
      BY DEF EpochMarks
    <3>2. j - (n + 1) \in 1..Len(t) /\ j = n + 1 + (j - (n + 1))
      BY <1>2, <1>6, <3>1
    <3>3. s[j] = t[j - (n + 1)]
      BY <1>6, <3>2
    <3>4. QED BY <1>2, <3>1, <3>2, <3>3
  <2>3. \A i \in EpochMarks(s) : i \in Int
    BY DEF EpochMarks
  <2>4. QED BY <2>1, <2>2, <2>3 DEF LastMark
<1>8. n \in Nat /\ n >= 2
  OBVIOUS
<1> HIDE DEF n
<1>9. NameVariant(s) = a
  <2> DEFINE p == SubSeq(s, 1, n)
  <2>1. NameVariant(s) = p
    BY <1>7, <1>8 DEF NameVariant
  <2>2. p \in Seq(All) /\ Len(p) = n /\ \A i \in 1..n : p[i] = s[0 + i]
    BY <1>2, <1>6, <1>8, PartOf
  <2> HIDE DEF p
  <2>3. \A i \in 1..n : p[i] = a[i]
    BY <1>6, <1>8, <2>2
  <2>4. p = a
    BY <1>4, <2>2, <2>3, SameSequence
  <2>5. QED BY <2>1, <2>4
<1>10. SplitFixture(EpochPart(s)) = [epoch |-> <<E>>, fixture |-> f]
  <2> DEFINE p == EpochPart(s)
  <2>1. p = SubSeq(s, n + 1, n + (Len(t) + 1))
    BY <1>2, <1>6, <1>7, <1>8 DEF EpochPart
  <2>2. p \in Seq(All) /\ Len(p) = Len(t) + 1 /\ \A i \in 1..(Len(t) + 1) : p[i] = s[n + i]
    <3>1. Len(t) + 1 \in Nat /\ n + (Len(t) + 1) <= Len(s)
      BY <1>2, <1>6, <1>8
    <3>2. QED BY <1>6, <1>8, <2>1, <3>1, PartOf
  <2> HIDE DEF p
  <2>3. p[1] = E
    BY <1>2, <1>6, <2>2
  <2>4. ASSUME NEW i \in 1..Len(t) PROVE p[1 + i] = t[i]
    <3>1. 1 + i \in 1..(Len(t) + 1) /\ n + (1 + i) = n + 1 + i
      BY <1>2, <1>8
    <3>2. QED BY <1>6, <2>2, <3>1
  <2>5. CASE f = <<>>
    <3>1. FixtureMarks(p) = {} /\ p = <<E>>
      BY <1>1, <1>2, <2>2, <2>3, <2>5 DEF FixtureMarks
    <3>2. QED BY <2>5, <3>1 DEF SplitFixture, p
  <2>6. CASE f # <<>>
    <3>0. Len(t) = Len(f) + 1 /\ t[1] = FixtureMark /\ Len(f) \in Nat /\ \A i \in 1..Len(f) : t[1 + i] = f[i]
      BY <1>2, <2>6
    <3>1. 2 \in FixtureMarks(p)
      BY <2>2, <2>4, <3>0 DEF FixtureMarks
    <3>2. \A j \in FixtureMarks(p) : j \in Int /\ 2 <= j
      BY <1>1, <2>2, <2>3 DEF FixtureMarks
    <3>3. (CHOOSE i \in FixtureMarks(p) : \A j \in FixtureMarks(p) : i <= j) = 2
      BY <3>1, <3>2
    <3>4. SubSeq(p, 1, 1) = <<E>>
      <4> DEFINE q == SubSeq(p, 0 + 1, 0 + 1)
      <4>1. q \in Seq(All) /\ Len(q) = 1 /\ \A i \in 1..1 : q[i] = p[0 + i]
        <5>1. 0 \in Nat /\ 1 \in Nat /\ 0 + 1 <= Len(p)
          BY <2>2, <3>0
        <5>2. QED BY <2>2, <5>1, PartOf
      <4> HIDE DEF q
      <4>2. <<E>> \in Seq(All) /\ Len(<<E>>) = 1 /\ <<E>>[1] = E
        BY <1>1 DEF All
      <4>3. q = <<E>>
        BY <2>3, <4>1, <4>2, SameSequence
      <4>4. QED BY <4>3 DEF q
    <3>5. SubSeq(p, 3, Len(p)) = f
      <4> DEFINE q == SubSeq(p, 2 + 1, 2 + Len(f))
      <4>1. Len(p) = 2 + Len(f)
        BY <2>2, <3>0
      <4>2. q \in Seq(All) /\ Len(q) = Len(f) /\ \A i \in 1..Len(f) : q[i] = p[2 + i]
        BY <2>2, <3>0, <4>1, PartOf
      <4> HIDE DEF q
      <4>3. ASSUME NEW i \in 1..Len(f) PROVE q[i] = f[i]
        <5>1. 1 + i \in 1..Len(t) /\ 2 + i = 1 + (1 + i)
          BY <3>0
        <5>2. p[2 + i] = t[1 + i]
          BY <2>4, <5>1
        <5>3. QED BY <3>0, <4>2, <5>2
      <4>4. f \in Seq(All)
        BY DEF All
      <4>5. q = f
        BY <4>2, <4>3, <4>4, SameSequence
      <4>6. QED BY <4>1, <4>5 DEF q
    <3>6. SplitFixture(p) = [epoch |-> SubSeq(p, 1, 2 - 1), fixture |-> SubSeq(p, 2 + 1, Len(p))]
      BY <3>1, <3>3 DEF SplitFixture
    <3>7. SplitFixture(p) = [epoch |-> <<E>>, fixture |-> f]
      <4>1. 2 - 1 = 1 /\ 2 + 1 = 3
        OBVIOUS
      <4>2. QED BY ONLY <3>4, <3>5, <3>6, <4>1
    <3>8. QED BY <3>7 DEF p
  <2>7. QED BY <2>5, <2>6
<1>11. s[1] = w /\ Begins(s, <<w>>)
  <2>1. s[1] = w /\ Len(s) >= 2
    BY <1>2, <1>4, <1>6, <1>8
  <2>2. <<w>> = SubSeq(s, 1, 1) /\ <<w>> # s
    BY <1>6, <2>1
  <2>3. QED BY <1>6, <2>1, <2>2 DEF Begins, IsStrictPrefix, IsPrefix
<1>12. QED BY <1>9, <1>10, <1>11 DEF s, a, E

\* The one word of a task.
LEMMA TaskIsWord ==
  ASSUME MaxTaskWords <= 1, NEW t \in Names(MaxTaskWords)
  PROVE  t = <<t[1]>> /\ t[1] \in Words
<1>1. MaxTaskWords \in Nat
  BY BoundsAssumption
<1>2. t \in Seq(Words) /\ Len(t) \in 1..MaxTaskWords
  BY <1>1, NamesAreWords
<1>3. \A n \in Nat : n <= 1 => \A k \in 1..n : k = 1
  OBVIOUS
<1>4. Len(t) = 1
  BY <1>1, <1>2, <1>3, Zenon
<1>5. \A u \in Seq(Words) : Len(u) = 1 => u = <<u[1]>> /\ u[1] \in Words
  OBVIOUS
<1>6. QED BY <1>2, <1>4, <1>5, Zenon

\* The words of a variant, and of a fixture without the mark of an epoch.
LEMMA VariantIsWords ==
  ASSUME NEW v \in Names(MaxVariantWords)
  PROVE  v \in Seq(Words) /\ Len(v) >= 1 /\ Len(v) \in 0..MaxVariantWords
<1>1. MaxVariantWords \in Nat
  BY BoundsAssumption
<1>2. v \in Seq(Words) /\ Len(v) \in 1..MaxVariantWords
  BY <1>1, NamesAreWords
<1>3. QED BY <1>1, <1>2

FixtureLabels == Names(MaxFixtureWords) \cup {<<>>}

LEMMA FixtureIsWords ==
  ASSUME NEW f \in FixtureLabels, ToSet(f) \cap EpochWords = {}
  PROVE  f \in Seq(Words) /\ \A i \in 1..Len(f) : f[i] \notin EpochWords
<1>1. MaxFixtureWords \in Nat
  BY BoundsAssumption
<1>2. f \in Seq(Words)
  <2>1. CASE f = <<>>
    BY <2>1
  <2>2. CASE f \in Names(MaxFixtureWords)
    BY <1>1, <2>2, NamesAreWords
  <2>3. QED BY <2>1, <2>2 DEF FixtureLabels
<1>3. \A i \in 1..Len(f) : f[i] \in ToSet(f)
  BY <1>2 DEF ToSet
<1>4. QED BY <1>2, <1>3

\* What a slug parses to, but for the variant.
LEMMA SlugParts ==
  ASSUME MaxTaskWords <= 1, Epochs \subseteq EpochTexts,
         NEW t \in Names(MaxTaskWords), NEW u \in Names(MaxVariantWords),
         NEW g \in FixtureLabels, ToSet(g) \cap EpochWords = {}, NEW x \in Epochs
  PROVE  LET s == RunSlug(t, u, g, x)
         IN /\ NameVariant(s) = <<t[1]>> \o u
            /\ SplitFixture(EpochPart(s)) = [epoch |-> <<EpochWord(x)>>, fixture |-> g]
            /\ Begins(s, t)
            /\ s[1] = t[1]
<1> DEFINE w == t[1]
<1>1. w \in Words /\ t = <<w>>
  BY TaskIsWord
<1>2. u \in Seq(Words) /\ Len(u) >= 1
  BY VariantIsWords
<1>3. g \in Seq(Words) /\ \A i \in 1..Len(g) : g[i] \notin EpochWords
  BY FixtureIsWords
<1> HIDE DEF w
<1>4. LET s == RunSlug(<<w>>, u, g, x)
      IN /\ NameVariant(s) = <<w>> \o u
         /\ SplitFixture(EpochPart(s)) = [epoch |-> <<EpochWord(x)>>, fixture |-> g]
         /\ Begins(s, <<w>>)
         /\ s[1] = w
  BY <1>1, <1>2, <1>3, SlugCut
<1>5. w = t[1]
  BY DEF w
<1>6. QED BY <1>1, <1>4, <1>5

\* A longest variant fits, if any does.
LEMMA LongestFits ==
  ASSUME NEW fit \in SUBSET Names(MaxVariantWords), fit # {}
  PROVE  Longest(fit) \in fit
<1> DEFINE lengths == {Len(v) : v \in fit}
<1>1. MaxVariantWords \in Nat
  BY BoundsAssumption
<1>2. lengths \in SUBSET (0..MaxVariantWords) /\ lengths # {}
  <2>1. \A v \in fit : Len(v) \in 0..MaxVariantWords
    BY VariantIsWords
  <2>2. QED BY <2>1
<1>3. \E k \in lengths : \A m \in lengths : m <= k
  <2> HIDE DEF lengths
  <2>1. QED BY <1>1, <1>2, Greatest
<1>4. \E v \in fit : \A x \in fit : Len(x) <= Len(v)
  BY <1>3
<1>5. QED BY <1>4 DEF Longest

\* What is shown for a cell of a listed variant.
LEMMA OwnShown ==
  ASSUME MaxTaskWords <= 1, Epochs \subseteq EpochTexts,
         NEW listed \in SUBSET Names(MaxVariantWords), NEW slugs,
         NEW t \in Names(MaxTaskWords), NEW v \in listed,
         NEW f \in FixtureLabels, ToSet(f) \cap EpochWords = {}, NEW e \in Epochs,
         RunSlug(t, v, f, e) \in slugs
  PROVE  RunSlug(t, v, f, e) \in ShownFor(t, v, f, e, listed, slugs)
<1> DEFINE s == RunSlug(t, v, f, e)
           split == [epoch |-> <<EpochWord(e)>>, fixture |-> f]
           fit == Matches(s, listed)
<1>1. NameVariant(s) = <<t[1]>> \o v /\ SplitFixture(EpochPart(s)) = split /\ Begins(s, t)
  BY SlugParts
<1>2. t[1] \in Words /\ listed \in SUBSET Seq(Words) /\ Len(v) >= 1
  BY TaskIsWord, VariantIsWords
<1> HIDE DEF s
<1> DEFINE w == t[1]
<1>3. fit \in SUBSET listed /\ \A u \in listed : u \in fit <=> Ends(<<w>> \o v, u)
  BY <1>1 DEF Matches
<1>4. w \in Words
  BY <1>2
<1> HIDE DEF w, fit
<1>5. v \in fit /\ Longest(fit) = v
  BY <1>2, <1>3, <1>4, LongestOwn
<1>6. ParseSlug(s, listed) = [variant |-> v, split |-> split]
  BY <1>1, <1>5 DEF ParseSlug, fit
<1>7. QED BY <1>1, <1>5, <1>6 DEF ShownFor, s, fit

LEMMA OthersShown ==
  ASSUME MaxTaskWords <= 1, Epochs \subseteq EpochTexts,
         NEW listed \in SUBSET Names(MaxVariantWords), NEW slugs,
         NEW task \in Names(MaxTaskWords), NEW v, NEW f, NEW e,
         NEW t \in Names(MaxTaskWords), NEW u \in Names(MaxVariantWords),
         NEW g \in FixtureLabels, ToSet(g) \cap EpochWords = {}, NEW x \in Epochs,
         RunSlug(t, u, g, x) \in ShownFor(task, v, f, e, listed, slugs)
  PROVE  t = task /\ g = f /\ x = e /\ v \in listed /\ (u = v \/ (u \notin listed /\ Ends(u, v)))
<1> DEFINE s == RunSlug(t, u, g, x)
           fit == Matches(s, listed)
           longest == Longest(fit)
<1>1. /\ NameVariant(s) = <<t[1]>> \o u /\ s[1] = t[1]
      /\ SplitFixture(EpochPart(s)) = [epoch |-> <<EpochWord(x)>>, fixture |-> g]
  BY SlugParts
<1>2. /\ Begins(s, task) /\ fit # {}
      /\ ParseSlug(s, listed) = [variant |-> v, split |-> [epoch |-> <<EpochWord(e)>>, fixture |-> f]]
  BY DEF ShownFor
<1> HIDE DEF s
<1>3. /\ longest = v
      /\ SplitFixture(EpochPart(s)) = [epoch |-> <<EpochWord(e)>>, fixture |-> f]
  <2>1. ParseSlug(s, listed) = [variant |-> longest, split |-> SplitFixture(EpochPart(s))]
    BY DEF ParseSlug
  <2> HIDE DEF longest
  <2>2. QED BY <1>2, <2>1
<1>4. g = f /\ x = e
  <2>1. [epoch |-> <<EpochWord(x)>>, fixture |-> g] = [epoch |-> <<EpochWord(e)>>, fixture |-> f]
    BY <1>1, <1>3
  <2>2. <<EpochWord(x)>>[1] = <<EpochWord(e)>>[1] /\ g = f
    BY <2>1
  <2>3. EpochWord(x)[2] = EpochWord(e)[2]
    BY <2>2
  <2>4. QED BY <2>2, <2>3 DEF EpochWord
<1>5. t = task
  <2>1. t = <<t[1]>> /\ task = <<task[1]>>
    BY TaskIsWord
  <2>2. Len(task) = 1
    BY <2>1
  <2>3. SubSeq(task, 1, 1) = SubSeq(s, 1, 1) /\ 1 <= Len(s)
    BY <1>2, <2>2 DEF Begins, IsStrictPrefix, IsPrefix
  <2>4. SubSeq(s, 1, 1)[1] = s[1] /\ SubSeq(task, 1, 1)[1] = task[1]
    BY <2>1, <2>3 DEF s, RunSlug
  <2>5. QED BY <1>1, <2>1, <2>3, <2>4
<1>6. v \in fit /\ v \in listed /\ Ends(<<t[1]>> \o u, v)
  <2>1. fit \in SUBSET Names(MaxVariantWords)
    BY DEF Matches
  <2>2. longest \in fit
    <3> HIDE DEF fit
    <3>1. QED BY <1>2, <2>1, LongestFits
  <2>3. v \in fit
    BY <1>3, <2>2
  <2>4. QED BY <1>1, <2>3 DEF Matches
<1>7. t[1] \in Words /\ u \in Seq(Words) /\ v \in Seq(Words) /\ listed \in SUBSET Seq(Words) /\ Len(u) >= 1
  BY <1>6, TaskIsWord, VariantIsWords
<1> DEFINE w == t[1]
<1>8. w \in Words /\ Ends(<<w>> \o u, v)
      /\ fit \in SUBSET listed /\ \A y \in listed : y \in fit <=> Ends(<<w>> \o u, y)
  BY <1>1, <1>6, <1>7 DEF Matches
<1> HIDE DEF w, fit
<1>9. u = v \/ Ends(u, v)
  BY <1>7, <1>8, EndsOwn
<1>10. ASSUME u \in listed PROVE u = v
  <2>1. Longest(fit) = u
    BY <1>7, <1>8, <1>10, LongestOwn
  <2>2. QED BY <1>3, <2>1
<1>11. QED BY <1>4, <1>5, <1>6, <1>9, <1>10

\* While names of tasks hold no underscore, each cell is shown its own scores file, and
\* no file of another task, epoch or fixture, whatever marks the names of tasks and
\* variants hold, as long as none of a fixture holds the mark of an epoch; a file of
\* another variant is shown only if the report does not list that variant and its name
\* ends in "_" and the one shown (run_slug, parse_slug, _load_judge_raw).
THEOREM ScoresFindTheirCellHolds ==
  ASSUME MaxTaskWords <= 1, Epochs \subseteq EpochTexts
  PROVE  Spec => []ScoresFindTheirCell
<1>1. ASSUME Inv PROVE ScoresFindTheirCell
  <2> SUFFICES ASSUME step = "load", \A f \in in.fixtures : ToSet(f) \cap EpochWords = {},
                      NEW task \in in.tasks, NEW v \in in.listed, NEW f \in in.fixtures, NEW e \in Epochs
               PROVE  /\ RunSlug(task, v, f, e) \in out[<<task, v, f, e>>]
                      /\ out[<<task, v, f, e>>] \subseteq
                           {RunSlug(task, u, f, e) :
                              u \in {v} \cup {w \in in.variants \ in.listed : Ends(w, v)}}
    BY DEF ScoresFindTheirCell
  <2>1. PICK tasks \in SUBSET Names(MaxTaskWords), variants \in SUBSET Names(MaxVariantWords),
             fixtures \in {{<<>>}} \cup SUBSET Names(MaxFixtureWords) : \E listed \in SUBSET variants :
          /\ in = [tasks |-> tasks, variants |-> variants, fixtures |-> fixtures, listed |-> listed]
          /\ out = [c \in tasks \X listed \X fixtures \X Epochs |->
                      ShownFor(c[1], c[2], c[3], c[4], listed,
                        {RunSlug(d[1], d[2], d[3], d[4]) : d \in tasks \X variants \X fixtures \X Epochs})]
    BY <1>1 DEF Inv, Loaded, LoadedFrom
  <2> DEFINE slugs == {RunSlug(d[1], d[2], d[3], d[4]) : d \in tasks \X variants \X fixtures \X Epochs}
  <2>2. PICK listed \in SUBSET variants :
          /\ in = [tasks |-> tasks, variants |-> variants, fixtures |-> fixtures, listed |-> listed]
          /\ out = [c \in tasks \X listed \X fixtures \X Epochs |->
                      ShownFor(c[1], c[2], c[3], c[4], listed, slugs)]
    BY <2>1
  <2>3. task \in tasks /\ v \in listed /\ v \in variants /\ f \in fixtures
    BY <2>2
  <2>4. out[<<task, v, f, e>>] = ShownFor(task, v, f, e, listed, slugs)
    <3> HIDE DEF slugs
    <3>1. <<task, v, f, e>> \in tasks \X listed \X fixtures \X Epochs
      BY <2>3
    <3>2. QED BY <2>2, <3>1
  <2>5. \A g \in fixtures : g \in FixtureLabels /\ ToSet(g) \cap EpochWords = {}
    BY <2>2 DEF FixtureLabels
  <2>6. \A t \in tasks, u \in variants, g \in fixtures, x \in Epochs : RunSlug(t, u, g, x) \in slugs
    <3> SUFFICES ASSUME NEW t \in tasks, NEW u \in variants, NEW g \in fixtures, NEW x \in Epochs
                 PROVE  RunSlug(t, u, g, x) \in slugs
      OBVIOUS
    <3> DEFINE d == <<t, u, g, x>>
    <3>1. d \in tasks \X variants \X fixtures \X Epochs
      OBVIOUS
    <3>2. d[1] = t /\ d[2] = u /\ d[3] = g /\ d[4] = x
      OBVIOUS
    <3> HIDE DEF d
    <3>3. RunSlug(d[1], d[2], d[3], d[4]) \in slugs
      BY <3>1
    <3>4. QED BY <3>2, <3>3
  <2>7. \A s \in slugs : \E t \in tasks, u \in variants, g \in fixtures, x \in Epochs : s = RunSlug(t, u, g, x)
    <3> SUFFICES ASSUME NEW d \in tasks \X variants \X fixtures \X Epochs
                 PROVE  \E t \in tasks, u \in variants, g \in fixtures, x \in Epochs :
                          RunSlug(d[1], d[2], d[3], d[4]) = RunSlug(t, u, g, x)
      OBVIOUS
    <3>1. d[1] \in tasks /\ d[2] \in variants /\ d[3] \in fixtures /\ d[4] \in Epochs
      OBVIOUS
    <3>2. QED BY <3>1
  <2> HIDE DEF slugs
  <2>8. listed \in SUBSET Names(MaxVariantWords) /\ task \in Names(MaxTaskWords)
    BY <2>3
  <2>9. RunSlug(task, v, f, e) \in ShownFor(task, v, f, e, listed, slugs)
    BY <2>3, <2>5, <2>6, <2>8, OwnShown
  <2>10. ASSUME NEW s \in ShownFor(task, v, f, e, listed, slugs)
         PROVE  \E u \in {v} \cup {w \in variants \ listed : Ends(w, v)} : s = RunSlug(task, u, f, e)
    <3>1. s \in slugs
      BY DEF ShownFor
    <3>2. PICK t \in tasks, u \in variants, g \in fixtures, x \in Epochs : s = RunSlug(t, u, g, x)
      BY <2>7, <3>1
    <3>3. t = task /\ g = f /\ x = e /\ v \in listed /\ (u = v \/ (u \notin listed /\ Ends(u, v)))
      BY <2>5, <2>8, <3>2, OthersShown
    <3>4. QED BY <3>2, <3>3
  <2>11. in.variants = variants /\ in.listed = listed
    BY <2>2
  <2>12. QED BY <2>4, <2>9, <2>10, <2>11
<1>2. QED BY <1>1, Invariance, PTL

-----------------------------------------------------------------------------
(***************************************************************************)
(* Sizes of samples                                                        *)
(***************************************************************************)
OwnSample(c) == [variant |-> c.variant, epoch |-> c.epoch, id |-> <<c.variant, c.epoch, "own">>]
UntaggedSample(c) == [variant |-> c.variant, epoch |-> NoEpoch, id |-> <<c.variant, c.epoch, "own">>]
EarlierSample(c) == [variant |-> c.variant, epoch |-> c.epoch, id |-> <<c.variant, c.epoch, "earlier">>]
RowOf(c) == [variant |-> c.variant, status |-> c.status, cached |-> c.cached,
             id |-> <<c.variant, c.epoch, "own">>]

\* Samples and rows, cell by cell.
LEMMA SamplesByCell ==
  ASSUME NEW cells
  PROVE  SamplesOf(cells) = {OwnSample(c) : c \in {d \in cells : d.trace \in {"own", "both"}}}
                              \cup {UntaggedSample(c) : c \in {d \in cells : d.trace \in {"untagged"}}}
                              \cup {EarlierSample(c) : c \in {d \in cells : d.trace \in {"both"}}}
BY DEF SamplesOf, OwnSample, UntaggedSample, EarlierSample

LEMMA RowsByCell ==
  ASSUME NEW cells
  PROVE  RowsOf(cells) = {RowOf(c) : c \in {d \in cells : d.status # "none"}}
BY DEF RowsOf, RowOf

\* What the definitions below need to know of samples.
LEMMA SampleFacts ==
  ASSUME NEW cells \in SUBSET Cell, IsFiniteSet(cells)
  PROVE  /\ IsFiniteSet(SamplesOf(cells))
         /\ \A s \in SamplesOf(cells) :
              /\ s.epoch \in Epochs \cup {NoEpoch}
              /\ s.id[1] = s.variant
<1> DEFINE A == {OwnSample(c) : c \in {d \in cells : d.trace \in {"own", "both"}}}
           B == {UntaggedSample(c) : c \in {d \in cells : d.trace \in {"untagged"}}}
           C == {EarlierSample(c) : c \in {d \in cells : d.trace \in {"both"}}}
           fa == [c \in cells |-> OwnSample(c)]
           fb == [c \in cells |-> UntaggedSample(c)]
           fc == [c \in cells |-> EarlierSample(c)]
<1>1. SamplesOf(cells) = A \cup B \cup C
  BY SamplesByCell
<1>2. IsFiniteSet(A)
  <2>1. \A t \in A : \E d \in cells : fa[d] = t
    OBVIOUS
  <2> HIDE DEF A, fa
  <2>2. QED BY <2>1, Covered
<1>3. IsFiniteSet(B)
  <2>1. \A t \in B : \E d \in cells : fb[d] = t
    OBVIOUS
  <2> HIDE DEF B, fb
  <2>2. QED BY <2>1, Covered
<1>4. IsFiniteSet(C)
  <2>1. \A t \in C : \E d \in cells : fc[d] = t
    OBVIOUS
  <2> HIDE DEF C, fc
  <2>2. QED BY <2>1, Covered
<1>5. IsFiniteSet(SamplesOf(cells))
  <2> HIDE DEF A, B, C
  <2>1. IsFiniteSet(A \cup B)
    BY <1>2, <1>3, FS_Union
  <2>2. QED BY <1>1, <1>4, <2>1, FS_Union
<1>6. \A c \in cells : c.epoch \in Epochs
  BY DEF Cell
<1>7. \A s \in A \cup B \cup C : s.epoch \in Epochs \cup {NoEpoch} /\ s.id[1] = s.variant
  BY <1>6 DEF OwnSample, UntaggedSample, EarlierSample
<1>8. QED BY <1>1, <1>5, <1>7

\* Pairs are not more than the samples of either variant.
LEMMA PairedWithin ==
  ASSUME NEW samples, IsFiniteSet(samples), NEW v \in Variants
  PROVE  /\ IsFiniteSet(Shared(samples)) /\ Cardinality(Shared(samples)) \in Nat
         /\ IsFiniteSet(Of(samples, v)) /\ Cardinality(Of(samples, v)) \in Nat
         /\ Cardinality(Shared(samples)) <= Cardinality(Of(samples, v))
         /\ PairedN(samples) \in Nat /\ PairedN(samples) <= Cardinality(Of(samples, v))
<1> DEFINE D == Of(samples, v)  T == Shared(samples)  f == [s \in D |-> s.epoch]
<1>1. IsFiniteSet(D) /\ Cardinality(D) \in Nat
  BY FS_Subset, FS_CardinalityType DEF Of
<1>2. \A t \in T : \E d \in D : f[d] = t
  BY DEF Shared, EpochsOf
<1> HIDE DEF D, T, f
<1>3. IsFiniteSet(T) /\ Cardinality(T) <= Cardinality(D) /\ Cardinality(T) \in Nat
  BY <1>1, <1>2, Covered
<1>4. PairedN(samples) \in {0, Cardinality(T)}
  BY DEF PairedN, T
<1>5. QED BY <1>1, <1>3, <1>4 DEF D, T

\* The fresh samples of a variant are those that were not reused.
LEMMA FreshLeft ==
  ASSUME NEW samples, IsFiniteSet(samples), NEW fresh \in SUBSET samples, NEW v
  PROVE  /\ Cardinality(Of(samples, v)) - Cardinality(Of(samples, v) \ fresh) = Cardinality(Of(fresh, v))
         /\ IsFiniteSet(Of(samples, v) \ fresh) /\ Cardinality(Of(samples, v) \ fresh) \in Nat
         /\ Cardinality(Of(fresh, v)) \in Nat
<1> DEFINE A == Of(samples, v)
<1>1. IsFiniteSet(A) /\ A \cap fresh = Of(fresh, v)
  BY FS_Subset DEF Of
<1>2. IsFiniteSet(A \ fresh) /\ Cardinality(A \ fresh) = Cardinality(A) - Cardinality(A \cap fresh)
  BY <1>1, FS_Difference
<1>3. IsFiniteSet(A \cap fresh)
  BY <1>1, FS_Intersection
<1>4. Cardinality(A) \in Nat /\ Cardinality(A \ fresh) \in Nat /\ Cardinality(A \cap fresh) \in Nat
  BY <1>1, <1>2, <1>3, FS_CardinalityType
<1>5. QED BY <1>1, <1>2, <1>4

\* Fewer samples share fewer epochs.
LEMMA SharedLess ==
  ASSUME NEW samples, NEW fresh \in SUBSET samples
  PROVE  Shared(fresh) \subseteq Shared(samples)
<1>1. \A v \in Variants : EpochsOf(Of(fresh, v)) \subseteq EpochsOf(Of(samples, v))
  BY DEF EpochsOf, Of
<1>2. QED BY <1>1 DEF Shared

\* Between two variants: pairs that go with the reused samples are backed by
\* reused samples, and pairs are the epochs both have.
LEMMA TwoVariants ==
  ASSUME NEW samples, IsFiniteSet(samples), NEW fresh \in SUBSET samples,
         \A s \in samples : s.epoch \in Epochs \cup {NoEpoch},
         NEW v \in Variants, NEW w \in Variants, Variants = {v, w}, v # w
  PROVE  /\ PairedN(samples) - PairedN(fresh)
              <= Cardinality(Of(samples, v) \ fresh) + Cardinality(Of(samples, w) \ fresh)
         /\ Cardinality(EpochsOf(Of(samples, v))) + Cardinality(EpochsOf(Of(samples, w)))
              = PairedN(samples) + Cardinality(EpochsOf(Of(samples, v)) \cup EpochsOf(Of(samples, w)))
<1>1. Cardinality(Variants) = 2
  <2>1. IsFiniteSet({v}) /\ Cardinality({v}) = 1
    BY FS_Singleton
  <2>2. Cardinality({v} \cup {w}) = 2
    <3>1. Cardinality({v} \cup {w}) = IF w \in {v} THEN Cardinality({v}) ELSE Cardinality({v}) + 1
      BY <2>1, FS_AddElement
    <3>2. QED BY <2>1, <3>1
  <2>3. {v} \cup {w} = Variants
    OBVIOUS
  <2>4. QED BY <2>2, <2>3
<1>2. IsFiniteSet(fresh)
  BY FS_Subset
<1>3. PairedN(samples) = Cardinality(Shared(samples)) /\ PairedN(fresh) = Cardinality(Shared(fresh))
  BY <1>1 DEF PairedN
<1> DEFINE E(u) == EpochsOf(Of(samples, u))
           cv == Of(samples, v) \ fresh
           cw == Of(samples, w) \ fresh
           T == Shared(samples) \ Shared(fresh)
           f == [s \in cv \cup cw |-> s.epoch]
<1>4. IsFiniteSet(Shared(samples)) /\ Cardinality(Shared(samples)) \in Nat
  BY PairedWithin
<1>5. PairedN(samples) - PairedN(fresh) <= Cardinality(cv) + Cardinality(cw)
  <2>1. IsFiniteSet(cv) /\ IsFiniteSet(cw) /\ Cardinality(cv) \in Nat /\ Cardinality(cw) \in Nat
    BY FreshLeft
  <2>2. \A t \in T : \E d \in cv \cup cw : f[d] = t
    <3> SUFFICES ASSUME NEW t \in T PROVE \E d \in cv \cup cw : d.epoch = t
      OBVIOUS
    <3>1. PICK u \in Variants : t \notin EpochsOf(Of(fresh, u))
      BY DEF Shared
    <3>2. t \in EpochsOf(Of(samples, u))
      BY DEF Shared
    <3>3. PICK s \in Of(samples, u) : s.epoch = t /\ t # NoEpoch
      BY <3>2 DEF EpochsOf
    <3>4. s \notin fresh
      BY <3>1, <3>3 DEF EpochsOf, Of
    <3>5. s \in cv \cup cw
      BY <3>3, <3>4
    <3>6. QED BY <3>3, <3>5
  <2>3. Shared(samples) \cap Shared(fresh) = Shared(fresh)
    BY SharedLess
  <2>4. Cardinality(T) = Cardinality(Shared(samples)) - Cardinality(Shared(fresh))
    BY <1>4, <2>3, FS_Difference
  <2> HIDE DEF T, cv, cw, f
  <2>5. IsFiniteSet(cv \cup cw) /\ Cardinality(cv \cup cw) = Cardinality(cv) + Cardinality(cw) - Cardinality(cv \cap cw)
    BY <2>1, FS_Union
  <2>6. Cardinality(cv \cap cw) \in Nat
    BY <2>1, FS_Intersection, FS_CardinalityType
  <2>7. Cardinality(T) <= Cardinality(cv \cup cw) /\ Cardinality(T) \in Nat
    BY <2>2, <2>5, Covered
  <2>8. QED BY <1>3, <2>1, <2>4, <2>5, <2>6, <2>7
<1>6. \A u \in Variants : IsFiniteSet(E(u))
  <2> SUFFICES ASSUME NEW u \in Variants PROVE IsFiniteSet(E(u))
    OBVIOUS
  <2> DEFINE D == Of(samples, u)  X == EpochsOf(D)  g == [s \in D |-> s.epoch]
  <2>1. IsFiniteSet(D)
    BY PairedWithin
  <2>2. \A t \in X : \E d \in D : g[d] = t
    BY DEF EpochsOf
  <2> HIDE DEF D, X, g
  <2>3. IsFiniteSet(X)
    BY <2>1, <2>2, Covered
  <2>4. QED BY <2>3 DEF X, D
<1>7. Shared(samples) = E(v) \cap E(w)
  <2>1. \A u \in Variants : E(u) \subseteq Epochs
    BY DEF EpochsOf, Of
  <2> HIDE DEF E
  <2>2. Shared(samples) = {e \in Epochs : \A u \in Variants : e \in E(u)}
    BY DEF Shared, E
  <2>3. QED BY <2>1, <2>2
<1>8. Cardinality(E(v)) + Cardinality(E(w)) = PairedN(samples) + Cardinality(E(v) \cup E(w))
  <2> HIDE DEF E
  <2>1. IsFiniteSet(E(v)) /\ IsFiniteSet(E(w))
    BY <1>6
  <2>2. /\ IsFiniteSet(E(v) \cup E(w))
        /\ Cardinality(E(v) \cup E(w)) = Cardinality(E(v)) + Cardinality(E(w)) - Cardinality(E(v) \cap E(w))
    BY <2>1, FS_Union
  <2>3. /\ Cardinality(E(v)) \in Nat /\ Cardinality(E(w)) \in Nat
        /\ Cardinality(E(v) \cup E(w)) \in Nat
    BY <2>1, <2>2, FS_CardinalityType
  <2>4. QED BY <1>3, <1>4, <1>7, <2>2, <2>3
<1>9. QED BY <1>5, <1>8

-----------------------------------------------------------------------------
(***************************************************************************)
(* How runs ended                                                          *)
(***************************************************************************)
\* Every row has one class.
LEMMA OneClass ==
  ASSUME NEW rows, IsFiniteSet(rows), NEW ids, NEW v
  PROVE  LET class == Reliability(rows, ids, v)
         IN class["success"] + class["timeout"] + class["failed"] + class["missing"]
              = Cardinality({r \in rows : r.variant = v})
<1> DEFINE all == {r \in rows : r.variant = v}
           of(c) == {r \in rows : r.variant = v /\ Class(r, ids) = c}
           A == of("success")  B == of("timeout")  C == of("failed")  D == of("missing")
<1>1. \A r : Class(r, ids) \in {"success", "timeout", "failed", "missing"}
  BY DEF Class
<1>2. all = ((A \cup B) \cup C) \cup D
  BY <1>1
<1>3. A \cap B = {} /\ (A \cup B) \cap C = {} /\ ((A \cup B) \cup C) \cap D = {}
  OBVIOUS
<1>4. IsFiniteSet(A) /\ IsFiniteSet(B) /\ IsFiniteSet(C) /\ IsFiniteSet(D)
  BY FS_Subset
<1> DEFINE class == Reliability(rows, ids, v)
<1>5. /\ class["success"] = Cardinality(A) /\ class["timeout"] = Cardinality(B)
      /\ class["failed"] = Cardinality(C) /\ class["missing"] = Cardinality(D)
  BY DEF Reliability
<1> HIDE DEF all, A, B, C, D, class
<1>6. Cardinality(A) \in Nat /\ Cardinality(B) \in Nat /\ Cardinality(C) \in Nat /\ Cardinality(D) \in Nat
  BY <1>4, FS_CardinalityType
<1>7. IsFiniteSet(A \cup B) /\ Cardinality(A \cup B) = Cardinality(A) + Cardinality(B)
  <2>1. IsFiniteSet(A \cup B) /\ Cardinality(A \cup B) = Cardinality(A) + Cardinality(B) - Cardinality(A \cap B)
    BY <1>4, FS_Union
  <2>2. QED BY <1>3, <1>6, <2>1, FS_EmptySet
<1>8. /\ IsFiniteSet((A \cup B) \cup C)
      /\ Cardinality((A \cup B) \cup C) = Cardinality(A) + Cardinality(B) + Cardinality(C)
  <2>1. /\ IsFiniteSet((A \cup B) \cup C)
        /\ Cardinality((A \cup B) \cup C) = Cardinality(A \cup B) + Cardinality(C) - Cardinality((A \cup B) \cap C)
    BY <1>4, <1>7, FS_Union
  <2>2. QED BY <1>3, <1>6, <1>7, <2>1, FS_EmptySet
<1>9. Cardinality(all) = Cardinality(A) + Cardinality(B) + Cardinality(C) + Cardinality(D)
  <2>1. Cardinality(((A \cup B) \cup C) \cup D)
          = Cardinality((A \cup B) \cup C) + Cardinality(D) - Cardinality(((A \cup B) \cup C) \cap D)
    BY <1>4, <1>8, FS_Union
  <2>2. QED BY <1>2, <1>3, <1>6, <1>8, <2>1, FS_EmptySet
<1>10. class["success"] + class["timeout"] + class["failed"] + class["missing"] = Cardinality(all)
  BY <1>5, <1>6, <1>9
<1>11. QED BY <1>10 DEF all, class

\* The rows of a variant are its cells in the manifest; those that succeeded
\* have completed, and have a sample or a trace without its root span.
LEMMA RowsAreCells ==
  ASSUME NEW cells \in SUBSET Cell, IsFiniteSet(cells), NEW v,
         \A c, d \in cells : <<d.variant, d.epoch>> = <<c.variant, c.epoch>> => c = d
  PROVE  LET samples == SamplesOf(cells)
             rows == RowsOf(cells)
             success == {r \in rows : r.variant = v /\ Class(r, TraceIds(cells)) = "success"}
         IN /\ IsFiniteSet(rows)
            /\ Cardinality({r \in rows : r.variant = v})
                 = Cardinality({c \in cells : c.variant = v /\ c.status \in Statuses})
            /\ Cardinality(success) <= Cardinality({c \in cells : c.variant = v /\ c.status \in {"completed"}})
            /\ Cardinality(success)
                 <= Cardinality(Of(samples, v)) + Cardinality({c \in cells : c.variant = v /\ c.trace = "rootless"})
<1> DEFINE samples == SamplesOf(cells)
           rows == RowsOf(cells)
           success == {r \in rows : r.variant = v /\ Class(r, TraceIds(cells)) = "success"}
           f == [c \in cells |-> RowOf(c)]
<1>1. /\ \A r \in rows : \E c \in cells : c.status # "none" /\ f[c] = r
      /\ \A c \in cells : c.status # "none" => f[c] \in rows
  BY RowsByCell
<1>2. \A c \in cells : /\ f[c].variant = c.variant /\ f[c].status = c.status
                       /\ f[c].id = <<c.variant, c.epoch, "own">>
  BY DEF RowOf
<1>3. \A c, d \in cells : f[c].id = f[d].id => c = d
  BY <1>2
<1>4. \A c \in cells : c.status \in Statuses \cup {"none"}
  BY DEF Cell
<1>5. "none" \notin Statuses
  BY DEF Statuses
<1>6. \A s \in samples : s.id[1] = s.variant
  BY SampleFacts
<1>7. IsFiniteSet(samples)
  BY SampleFacts
<1>8. f \in [cells -> {f[c] : c \in cells}]
  OBVIOUS
<1> HIDE DEF rows, samples, f
<1>9. IsFiniteSet(rows)
  BY <1>1, Covered
<1>10. Cardinality({r \in rows : r.variant = v}) = Cardinality({c \in cells : c.variant = v /\ c.status \in Statuses})
  <2> DEFINE E == {f[c] : c \in cells}
             cs == {c \in cells : c.variant = v /\ c.status \in Statuses}
             rs == {r \in rows : r.variant = v}
  <2>1. Renames(f, cells, E)
    BY <1>3, <1>8 DEF Renames
  <2>2. cs \in SUBSET cells /\ IsFiniteSet(cs)
    BY FS_Subset
  <2>3. rs \in SUBSET E
    BY <1>1
  <2>4. \A c \in cells : c \in cs <=> f[c] \in rs
    <3>1. \A c \in cells : c.status # "none" <=> c.status \in Statuses
      BY <1>4, <1>5
    <3>2. \A c \in cells : f[c] \in rows => c.status # "none"
      BY <1>1, <1>3
    <3>3. QED BY <1>1, <1>2, <3>1, <3>2
  <2> HIDE DEF E, cs, rs
  <2>5. Cardinality(rs) = Cardinality(cs)
    BY <2>1, <2>2, <2>3, <2>4, Image
  <2>6. QED BY <2>5 DEF rs, cs
<1>11. Cardinality(success) <= Cardinality({c \in cells : c.variant = v /\ c.status \in {"completed"}})
  <2> DEFINE D == {c \in cells : c.variant = v /\ c.status \in {"completed"}}
  <2>1. IsFiniteSet(D)
    BY FS_Subset
  <2>2. \A r \in success : \E c \in D : f[c] = r
    <3> SUFFICES ASSUME NEW r \in success PROVE \E c \in D : f[c] = r
      OBVIOUS
    <3>1. PICK c \in cells : c.status # "none" /\ f[c] = r
      BY <1>1
    <3>2. r.status \notin {"timeout", "failed", "setup_failed"}
      BY DEF Class
    <3>3. c.variant = v /\ c.status = "completed"
      BY <1>2, <1>4, <3>1, <3>2 DEF Statuses
    <3>4. QED BY <3>1, <3>3
  <2> HIDE DEF D, success
  <2>3. Cardinality(success) <= Cardinality(D)
    BY <2>1, <2>2, Covered
  <2>4. QED BY <2>3 DEF D
<1>12. Cardinality(success)
         <= Cardinality(Of(samples, v)) + Cardinality({c \in cells : c.variant = v /\ c.trace = "rootless"})
  <2> DEFINE D == Of(samples, v)
             R == {c \in cells : c.variant = v /\ c.trace = "rootless"}
             SD == {r \in success : \E s \in samples : s.id = r.id}
             SR == {r \in success : \E c \in R : f[c] = r}
             g == [s \in D |-> CHOOSE r \in rows : r.id = s.id]
             h == [c \in R |-> f[c]]
  <2>1. IsFiniteSet(D) /\ IsFiniteSet(R) /\ Cardinality(D) \in Nat /\ Cardinality(R) \in Nat
    BY <1>7, FS_Subset, FS_CardinalityType DEF Of
  <2>2. \A r, q \in rows : r.id = q.id => r = q
    BY <1>1, <1>3
  <2>3. \A r \in SD : \E s \in D : g[s] = r
    <3> SUFFICES ASSUME NEW r \in SD PROVE \E s \in D : g[s] = r
      OBVIOUS
    <3>1. r \in rows /\ r.variant = v
      OBVIOUS
    <3>2. PICK s \in samples : s.id = r.id
      OBVIOUS
    <3>3. r.id[1] = r.variant
      BY <1>1, <1>2, <3>1
    <3>4. s \in D
      BY <1>6, <3>1, <3>2, <3>3 DEF Of
    <3>5. g[s] = r
      BY <2>2, <3>1, <3>2, <3>4
    <3>6. QED BY <3>4, <3>5
  <2>4. \A r \in SR : \E c \in R : h[c] = r
    OBVIOUS
  <2>5. success = SD \cup SR
    <3> SUFFICES ASSUME NEW r \in success, r \notin SD PROVE r \in SR
      OBVIOUS
    <3>1. r \in rows /\ r.variant = v /\ r.id \in TraceIds(cells)
      BY DEF Class
    <3>2. PICK c \in cells : c.trace = "rootless" /\ r.id = <<c.variant, c.epoch, "own">>
      BY <3>1 DEF TraceIds, samples
    <3>3. PICK d \in cells : f[d] = r
      BY <1>1, <3>1
    <3>4. c = d
      BY <1>2, <1>3, <3>2, <3>3
    <3>5. QED BY <1>2, <3>1, <3>2, <3>3, <3>4
  <2> HIDE DEF D, R, SD, SR, g, h, success
  <2>6. /\ IsFiniteSet(SD) /\ Cardinality(SD) <= Cardinality(D) /\ Cardinality(SD) \in Nat
        /\ IsFiniteSet(SR) /\ Cardinality(SR) <= Cardinality(R) /\ Cardinality(SR) \in Nat
    BY <2>1, <2>3, <2>4, Covered
  <2>7. Cardinality(success) = Cardinality(SD) + Cardinality(SR) - Cardinality(SD \cap SR)
    BY <2>5, <2>6, FS_Union
  <2>8. Cardinality(SD \cap SR) \in Nat
    BY <2>6, FS_Intersection, FS_CardinalityType
  <2>9. Cardinality(success) <= Cardinality(D) + Cardinality(R)
    BY <2>1, <2>6, <2>7, <2>8
  <2>10. QED BY <2>9 DEF D, R
<1>13. QED BY <1>9, <1>10, <1>11, <1>12 DEF rows, samples

-----------------------------------------------------------------------------
\* The sizes of a report on any cells.
LEMMA SizesOfCells == ASSUME Counted, step = "count" PROVE SizesHonest
<1> DEFINE samples == SamplesOf(in)
           rows == RowsOf(in)
           fresh == Fresh(samples, rows)
           s == out.sizes
           epochs(v) == EpochsOf(Of(samples, v))
           ended(v, statuses) == Cardinality({c \in in : c.variant = v /\ c.status \in statuses})
           class(v) == out.reliability[v]
           rootless(v) == Cardinality({c \in in : c.variant = v /\ c.trace = "rootless"})
<1>1. in \in SUBSET Cell /\ IsFiniteSet(in)
  BY DEF Counted
<1>2. /\ IsFiniteSet(samples)
      /\ \A x \in samples : x.epoch \in Epochs \cup {NoEpoch}
  BY <1>1, SampleFacts
<1>3. /\ s = Sizes(samples, rows)
      /\ out.reliability = [v \in Variants |-> Reliability(rows, TraceIds(in), v)]
  BY DEF Counted, Count1
<1>4. fresh \in SUBSET samples /\ IsFiniteSet(fresh)
  BY <1>2, FS_Subset DEF Fresh
<1>5. /\ s.paired = PairedN(samples) /\ s.freshPaired = PairedN(fresh)
      /\ \A v \in Variants :
           /\ s.n[v] = Cardinality(Of(samples, v))
           /\ s.cached[v] = Cardinality(Of(samples, v) \ fresh)
           /\ s.fresh[v] = Cardinality(Of(samples, v)) - Cardinality(Of(samples, v) \ fresh)
  BY <1>3 DEF Sizes, VariantN
<1>6. \A v \in Variants : s.fresh[v] = Cardinality(Of(fresh, v)) /\ s.fresh[v] \in Nat
  <2> SUFFICES ASSUME NEW v \in Variants
               PROVE  s.fresh[v] = Cardinality(Of(fresh, v)) /\ s.fresh[v] \in Nat
    OBVIOUS
  <2> HIDE DEF samples, fresh, s
  <2>1. /\ Cardinality(Of(samples, v)) - Cardinality(Of(samples, v) \ fresh) = Cardinality(Of(fresh, v))
        /\ Cardinality(Of(fresh, v)) \in Nat
    BY <1>2, <1>4, FreshLeft
  <2>2. QED BY <1>5, <2>1
<1>7. \A v \in Variants : s.fresh[v] >= 0 /\ s.paired <= s.n[v] /\ s.freshPaired <= s.fresh[v]
  <2> SUFFICES ASSUME NEW v \in Variants
               PROVE  s.fresh[v] >= 0 /\ s.paired <= s.n[v] /\ s.freshPaired <= s.fresh[v]
    OBVIOUS
  <2> HIDE DEF samples, fresh, s
  <2>1. /\ PairedN(samples) <= Cardinality(Of(samples, v))
        /\ PairedN(fresh) <= Cardinality(Of(fresh, v))
    BY <1>2, <1>4, PairedWithin
  <2>2. s.fresh[v] = Cardinality(Of(fresh, v)) /\ s.fresh[v] \in Nat /\ s.n[v] = Cardinality(Of(samples, v))
    BY <1>5, <1>6
  <2>3. QED BY <1>5, <2>1, <2>2
<1>8. \A v \in Variants :
        /\ class(v)["success"] + class(v)["timeout"] + class(v)["failed"] + class(v)["missing"]
             = ended(v, Statuses)
        /\ class(v)["success"] <= ended(v, {"completed"})
        /\ class(v)["success"] <= s.n[v] + rootless(v)
  <2> SUFFICES ASSUME NEW v \in Variants
               PROVE  /\ class(v)["success"] + class(v)["timeout"] + class(v)["failed"] + class(v)["missing"]
                           = ended(v, Statuses)
                      /\ class(v)["success"] <= ended(v, {"completed"})
                      /\ class(v)["success"] <= s.n[v] + rootless(v)
    OBVIOUS
  <2> DEFINE success == {r \in rows : r.variant = v /\ Class(r, TraceIds(in)) = "success"}
  <2>1. \A c, d \in in : <<d.variant, d.epoch>> = <<c.variant, c.epoch>> => c = d
    BY DEF Counted
  <2>2. /\ IsFiniteSet(rows)
        /\ Cardinality({r \in rows : r.variant = v}) = ended(v, Statuses)
        /\ Cardinality(success) <= ended(v, {"completed"})
        /\ Cardinality(success) <= Cardinality(Of(samples, v)) + rootless(v)
    BY <1>1, <2>1, RowsAreCells
  <2>3. class(v) = Reliability(rows, TraceIds(in), v)
    BY <1>3
  <2>4. class(v)["success"] = Cardinality(success)
    BY <2>3 DEF Reliability
  <2> HIDE DEF rows, samples, success, class, ended, rootless
  <2>5. class(v)["success"] + class(v)["timeout"] + class(v)["failed"] + class(v)["missing"]
           = Cardinality({r \in rows : r.variant = v})
    BY <2>2, <2>3, OneClass
  <2>6. QED BY <1>5, <2>2, <2>4, <2>5
<1>9. s.freshPaired <= s.paired
  <2> HIDE DEF samples, fresh, s
  <2>1. CASE Cardinality(Variants) = 2
    <3>1. Variants # {}
      BY <2>1, FS_EmptySet
    <3>2. IsFiniteSet(Shared(samples))
      BY <1>2, <3>1, PairedWithin
    <3>3. Shared(fresh) \in SUBSET Shared(samples)
      BY <1>4, SharedLess
    <3>4. Cardinality(Shared(fresh)) <= Cardinality(Shared(samples))
      BY <3>2, <3>3, FS_Subset
    <3>5. QED BY <1>5, <2>1, <3>4 DEF PairedN
  <2>2. CASE Cardinality(Variants) # 2
    BY <1>5, <2>2 DEF PairedN
  <2>3. QED BY <2>1, <2>2
<1>10. \A v, w \in Variants : Variants = {v, w} /\ v # w =>
         /\ s.paired - s.freshPaired <= s.cached[v] + s.cached[w]
         /\ Cardinality(epochs(v)) + Cardinality(epochs(w))
              = s.paired + Cardinality(epochs(v) \cup epochs(w))
  <2> SUFFICES ASSUME NEW v \in Variants, NEW w \in Variants, Variants = {v, w}, v # w
               PROVE  /\ s.paired - s.freshPaired <= s.cached[v] + s.cached[w]
                      /\ Cardinality(epochs(v)) + Cardinality(epochs(w))
                           = s.paired + Cardinality(epochs(v) \cup epochs(w))
    OBVIOUS
  <2> HIDE DEF samples, fresh, s
  <2>1. /\ PairedN(samples) - PairedN(fresh)
              <= Cardinality(Of(samples, v) \ fresh) + Cardinality(Of(samples, w) \ fresh)
        /\ Cardinality(epochs(v)) + Cardinality(epochs(w))
              = PairedN(samples) + Cardinality(epochs(v) \cup epochs(w))
    BY <1>2, <1>4, TwoVariants
  <2> HIDE DEF epochs
  <2>2. QED BY <1>5, <2>1
<1>11. step # "attempt"
  OBVIOUS
<1> HIDE DEF s, epochs, ended, class, samples, rootless
<1>12. QED BY <1>7, <1>8, <1>9, <1>10, <1>11 DEF SizesHonest, s, epochs, ended, class, samples, rootless

-----------------------------------------------------------------------------
(***************************************************************************)
(* Attempts                                                                *)
(***************************************************************************)
CellsOf(scored, v, results) ==
  {<<a.run, a.epoch>> : a \in {b \in scored : b.variant = v /\ b.passed \in results}}
With(scored, v, results) == {b \in scored : b.variant = v /\ b.passed \in results}

Once(scored) ==
  /\ scored \in SUBSET [variant : Variants, run : TaskRuns, epoch : Epochs, passed : BOOLEAN]
  /\ IsFiniteSet(scored) /\ scored # {}
  /\ \A a, b \in scored : <<b.variant, b.run, b.epoch>> = <<a.variant, a.run, a.epoch>> => a = b

\* Cells and attempts are the same number.
LEMMA CellsCounted ==
  ASSUME NEW scored, Once(scored), NEW v, NEW results
  PROVE  /\ Cardinality(CellsOf(scored, v, results)) = Cardinality(With(scored, v, results))
         /\ IsFiniteSet(With(scored, v, results))
<1> DEFINE D == With(scored, v, results)
           E == CellsOf(scored, v, results)
           f == [a \in D |-> <<a.run, a.epoch>>]
<1>1. IsFiniteSet(D)
  BY FS_Subset DEF Once, With
<1>2. Renames(f, D, E)
  <2>1. f \in [D -> E] /\ \A k \in E : \E i \in D : f[i] = k
    BY DEF CellsOf, With
  <2>2. \A a, b \in D : f[a] = f[b] => a = b
    BY DEF Once, With
  <2>3. QED BY <2>1, <2>2 DEF Renames
<1> HIDE DEF D, E, f
<1>3. \A i \in D : i \in D <=> f[i] \in E
  BY <1>2 DEF Renames
<1>4. Cardinality(E) = Cardinality(D)
  BY <1>1, <1>2, <1>3, Image
<1>5. QED BY <1>1, <1>4 DEF D, E

\* k and minK are the sizes of the largest and the smallest task-run.
LEMMA Labels ==
  ASSUME NEW scored, Once(scored)
  PROVE  /\ PassK(scored).k \in Nat /\ PassK(scored).minK \in Nat
         /\ \A a \in scored : /\ Cardinality(Attempts(scored, a.variant, a.run)) <= PassK(scored).k
                              /\ Cardinality(Attempts(scored, a.variant, a.run)) >= PassK(scored).minK
<1> DEFINE sizes == {Cardinality(Attempts(scored, s.variant, s.run)) : s \in scored}
           N == Cardinality(scored)
<1>1. N \in Nat /\ sizes # {}
  BY FS_CardinalityType DEF Once
<1>2. sizes \in SUBSET (0..N)
  <2> SUFFICES ASSUME NEW s \in scored PROVE Cardinality(Attempts(scored, s.variant, s.run)) \in 0..N
    OBVIOUS
  <2>1. Attempts(scored, s.variant, s.run) \in SUBSET scored
    BY DEF Attempts
  <2>2. /\ Cardinality(Attempts(scored, s.variant, s.run)) <= N
        /\ Cardinality(Attempts(scored, s.variant, s.run)) \in Nat
    BY <2>1, FS_Subset, FS_CardinalityType DEF Once
  <2>3. QED BY <1>1, <2>2
<1>3. /\ PassK(scored).k = CHOOSE k \in sizes : \A m \in sizes : m <= k
      /\ PassK(scored).minK = CHOOSE k \in sizes : \A m \in sizes : k <= m
  BY DEF PassK
<1>4. \A s \in scored : Cardinality(Attempts(scored, s.variant, s.run)) \in sizes
  OBVIOUS
<1> HIDE DEF sizes, N
<1>5. \E k \in sizes : \A m \in sizes : m <= k
  BY <1>1, <1>2, Greatest
<1>6. \E k \in sizes : \A m \in sizes : k <= m
  <2>1. sizes \in SUBSET Nat
    BY <1>2
  <2>2. QED BY <1>1, <2>1, Least
<1>7. PassK(scored).k \in sizes /\ \A m \in sizes : m <= PassK(scored).k
  BY <1>3, <1>5
<1>8. PassK(scored).minK \in sizes /\ \A m \in sizes : PassK(scored).minK <= m
  BY <1>3, <1>6
<1>9. \A x \in sizes : x \in Nat
  BY <1>1, <1>2
<1>10. ASSUME NEW a \in scored
      PROVE  /\ Cardinality(Attempts(scored, a.variant, a.run)) <= PassK(scored).k
             /\ Cardinality(Attempts(scored, a.variant, a.run)) >= PassK(scored).minK
  <2> DEFINE z == Cardinality(Attempts(scored, a.variant, a.run))
  <2>1. z \in sizes
    BY <1>4
  <2>2. z \in Nat /\ PassK(scored).k \in Nat /\ PassK(scored).minK \in Nat
    BY <1>7, <1>8, <1>9, <2>1
  <2>3. z <= PassK(scored).k /\ PassK(scored).minK <= z
    BY <1>7, <1>8, <2>1
  <2> HIDE DEF z
  <2>4. z >= PassK(scored).minK
    BY <2>2, <2>3
  <2>5. QED BY <2>3, <2>4 DEF z
<1>11. PassK(scored).k \in Nat /\ PassK(scored).minK \in Nat
  BY <1>7, <1>8, <1>9
<1>12. QED BY <1>10, <1>11

\* Of the attempts of a kind, at most k are in each of the task-runs they are in,
\* and at least minK in each that has no others.
LEMMA KindCounted ==
  ASSUME NEW scored, Once(scored), NEW v, NEW kind \in SUBSET {a \in scored : a.variant = v},
         NEW some \in SUBSET RunsOf(scored, v), \A a \in kind : a.run \in some,
         NEW whole \in SUBSET RunsOf(scored, v),
         \A r \in whole : Attempts(scored, v, r) \subseteq kind
  PROVE  /\ IsFiniteSet(RunsOf(scored, v))
         /\ Cardinality(kind) \in (Cardinality(whole) * PassK(scored).minK)..(Cardinality(some) * PassK(scored).k)
<1> DEFINE k == PassK(scored).k  m == PassK(scored).minK
           f == [a \in scored |-> a.run]
           inside == {a \in kind : a.run \in whole}
<1>1. k \in Nat /\ m \in Nat
  BY Labels
<1>2. IsFiniteSet(scored) /\ IsFiniteSet(kind) /\ IsFiniteSet(inside)
  BY FS_Subset DEF Once
<1>3. IsFiniteSet(RunsOf(scored, v))
  <2> DEFINE T == RunsOf(scored, v)
  <2>1. \A t \in T : \E a \in scored : f[a] = t
    BY DEF RunsOf
  <2> HIDE DEF T, f
  <2>2. QED BY <1>2, <2>1, Covered DEF T
<1>4. IsFiniteSet(some) /\ IsFiniteSet(whole)
  BY <1>3, FS_Subset
<1>5. \A r \in RunsOf(scored, v) :
        /\ IsFiniteSet(Attempts(scored, v, r))
        /\ Cardinality(Attempts(scored, v, r)) <= k /\ Cardinality(Attempts(scored, v, r)) >= m
  <2> SUFFICES ASSUME NEW r \in RunsOf(scored, v)
               PROVE  /\ IsFiniteSet(Attempts(scored, v, r))
                      /\ Cardinality(Attempts(scored, v, r)) <= k /\ Cardinality(Attempts(scored, v, r)) >= m
    OBVIOUS
  <2>1. PICK a \in scored : a.variant = v /\ a.run = r
    BY DEF RunsOf
  <2>2. IsFiniteSet(Attempts(scored, v, r))
    BY <1>2, FS_Subset DEF Attempts
  <2>3. QED BY <2>1, <2>2, Labels
<1>6. Cardinality(kind) <= Cardinality(some) * k
  <2>1. \A a \in kind : f[a] \in some
    OBVIOUS
  <2>2. \A r \in some : Cardinality(Fibre(f, kind, r)) <= k
    <3> SUFFICES ASSUME NEW r \in some PROVE Cardinality(Fibre(f, kind, r)) <= k
      OBVIOUS
    <3>1. Fibre(f, kind, r) \in SUBSET Attempts(scored, v, r)
      BY DEF Fibre, Attempts
    <3>2. IsFiniteSet(Attempts(scored, v, r)) /\ Cardinality(Attempts(scored, v, r)) <= k
      BY <1>5
    <3>3. IsFiniteSet(Fibre(f, kind, r)) /\ Cardinality(Fibre(f, kind, r)) <= Cardinality(Attempts(scored, v, r))
      BY <3>1, <3>2, FS_Subset
    <3>4. Cardinality(Fibre(f, kind, r)) \in Nat /\ Cardinality(Attempts(scored, v, r)) \in Nat
      BY <3>2, <3>3, FS_CardinalityType
    <3> HIDE DEF f, k
    <3>5. QED BY <1>1, <3>2, <3>3, <3>4
  <2> HIDE DEF f, k
  <2>3. QED BY <1>1, <1>2, <1>4, <2>1, <2>2, Fibres
<1>7. Cardinality(kind) >= Cardinality(whole) * m
  <2>1. \A a \in inside : f[a] \in whole
    OBVIOUS
  <2>2. \A r \in whole : Cardinality(Fibre(f, inside, r)) >= m
    <3> SUFFICES ASSUME NEW r \in whole PROVE Cardinality(Fibre(f, inside, r)) >= m
      OBVIOUS
    <3>1. Fibre(f, inside, r) = Attempts(scored, v, r)
      BY DEF Fibre, Attempts
    <3>2. QED BY <1>5, <3>1
  <2>3. Cardinality(inside) <= Cardinality(kind) /\ Cardinality(inside) \in Nat /\ Cardinality(kind) \in Nat
    BY <1>2, FS_Subset, FS_CardinalityType
  <2>4. Cardinality(whole) \in Nat
    BY <1>4, FS_CardinalityType
  <2> HIDE DEF f, m, inside
  <2>5. Cardinality(inside) >= Cardinality(whole) * m
    BY <1>1, <1>2, <1>4, <2>1, <2>2, Fibres
  <2>6. Cardinality(whole) * m \in Nat
    BY <1>1, <2>4
  <2>7. QED BY <2>3, <2>5, <2>6
<1>8. /\ Cardinality(kind) \in Nat /\ Cardinality(some) * k \in Nat /\ Cardinality(whole) * m \in Nat
  <2>1. Cardinality(kind) \in Nat /\ Cardinality(some) \in Nat /\ Cardinality(whole) \in Nat
    BY <1>2, <1>4, FS_CardinalityType
  <2> HIDE DEF k, m
  <2>2. QED BY <1>1, <2>1
<1>9. QED BY <1>3, <1>6, <1>7, <1>8

\* The rates of a report on any attempts.
LEMMA RatesOfAttempts == ASSUME Attempted, step = "attempt" PROVE SizesHonest
<1> DEFINE runs(v) == RunsOf(in, v)
           any(v) == out.any[v]
           all(v) == out.all[v]
           k == PassK(in).k
           m == PassK(in).minK
           cells(v, results) == CellsOf(in, v, results)
<1>1. Once(in)
  BY DEF Attempted, Once
<1>2. /\ out.k = k /\ out.minK = m
      /\ \A v \in Variants :
           /\ out.n[v] = Cardinality(runs(v))
           /\ any(v) = {r \in runs(v) : \E a \in Attempts(in, v, r) : a.passed}
           /\ all(v) = {r \in runs(v) : \A a \in Attempts(in, v, r) : a.passed}
  BY DEF Attempted, PassK
<1>3. \A a \in in : a.passed \in BOOLEAN
  BY DEF Attempted
<1>4. \A a \in in : a \in Attempts(in, a.variant, a.run) /\ a.run \in runs(a.variant)
  BY DEF Attempts, RunsOf
<1>5. \A v, r : \A a \in Attempts(in, v, r) : a \in in /\ a.variant = v /\ a.run = r
  BY DEF Attempts
<1> HIDE DEF any, all, runs
<1>6. ASSUME NEW v \in Variants
      PROVE  /\ Cardinality(cells(v, {TRUE})) \in (Cardinality(all(v)) * m)..(Cardinality(any(v)) * k)
             /\ IsFiniteSet(runs(v))
  <2> DEFINE kind == With(in, v, {TRUE})
  <2>1. kind \in SUBSET {a \in in : a.variant = v} /\ \A a \in kind : a.run \in any(v)
    BY <1>2, <1>4 DEF With
  <2>2. any(v) \in SUBSET runs(v) /\ all(v) \in SUBSET runs(v)
    BY <1>2
  <2>3. \A r \in all(v) : Attempts(in, v, r) \subseteq kind
    <3> SUFFICES ASSUME NEW r \in all(v), NEW a \in Attempts(in, v, r) PROVE a \in kind
      OBVIOUS
    <3>1. a \in in /\ a.variant = v
      BY <1>5
    <3>2. a.passed
      BY <1>2
    <3>3. a.passed = TRUE
      BY <1>3, <3>1, <3>2
    <3>4. QED BY <3>1, <3>3 DEF With
  <2>4. Cardinality(cells(v, {TRUE})) = Cardinality(kind)
    BY <1>1, CellsCounted
  <2> HIDE DEF kind, k, m, cells
  <2>5. /\ Cardinality(kind) \in (Cardinality(all(v)) * PassK(in).minK)..(Cardinality(any(v)) * PassK(in).k)
        /\ IsFiniteSet(RunsOf(in, v))
    BY <1>1, <2>1, <2>2, <2>3, KindCounted DEF runs
  <2>6. QED BY <2>4, <2>5 DEF runs, k, m
<1>7. ASSUME NEW v \in Variants
      PROVE  Cardinality(cells(v, {FALSE}))
               \in ((Cardinality(runs(v)) - Cardinality(any(v))) * m)
                    ..((Cardinality(runs(v)) - Cardinality(all(v))) * k)
  <2> DEFINE kind == With(in, v, {FALSE})
             some == runs(v) \ all(v)
             whole == runs(v) \ any(v)
  <2>1. kind \in SUBSET {a \in in : a.variant = v} /\ \A a \in kind : a.run \in some
    BY <1>2, <1>4 DEF With
  <2>2. some \in SUBSET runs(v) /\ whole \in SUBSET runs(v)
    OBVIOUS
  <2>3. \A r \in whole : Attempts(in, v, r) \subseteq kind
    <3> SUFFICES ASSUME NEW r \in whole, NEW a \in Attempts(in, v, r) PROVE a \in kind
      OBVIOUS
    <3>1. a \in in /\ a.variant = v
      BY <1>5
    <3>2. ~ a.passed
      BY <1>2
    <3>3. a.passed = FALSE
      BY <1>3, <3>1, <3>2
    <3>4. QED BY <3>1, <3>3 DEF With
  <2>4. Cardinality(cells(v, {FALSE})) = Cardinality(kind)
    BY <1>1, CellsCounted
  <2>5. /\ Cardinality(some) = Cardinality(runs(v)) - Cardinality(all(v))
        /\ Cardinality(whole) = Cardinality(runs(v)) - Cardinality(any(v))
    <3>1. runs(v) \cap all(v) = all(v) /\ runs(v) \cap any(v) = any(v)
      BY <1>2
    <3>2. QED BY <1>6, <3>1, FS_Difference
  <2> HIDE DEF kind, some, whole, k, m, cells
  <2>6. Cardinality(kind) \in (Cardinality(whole) * PassK(in).minK)..(Cardinality(some) * PassK(in).k)
    BY <1>1, <2>1, <2>2, <2>3, KindCounted DEF runs
  <2>7. QED BY <2>4, <2>5, <2>6 DEF k, m
<1>8. ASSUME NEW v \in Variants, NEW w \in Variants,
             cells(v, BOOLEAN) = cells(w, BOOLEAN), cells(v, {TRUE}) \subseteq cells(w, {TRUE})
      PROVE  /\ Cardinality(any(v)) <= Cardinality(any(w))
             /\ Cardinality(all(v)) <= Cardinality(all(w))
  <2>1. \A u, r, e : <<r, e>> \in cells(u, {TRUE})
                       <=> \E a \in in : a.variant = u /\ a.run = r /\ a.epoch = e /\ a.passed = TRUE
    BY DEF CellsOf
  <2>2. \A u, r, e : <<r, e>> \in cells(u, BOOLEAN)
                       <=> \E a \in in : a.variant = u /\ a.run = r /\ a.epoch = e
    BY <1>3 DEF CellsOf
  <2>3. \A a, b \in in : b.variant = a.variant /\ b.run = a.run /\ b.epoch = a.epoch => a = b
    BY <1>1 DEF Once
  <2> HIDE DEF cells
  <2>4. any(v) \subseteq any(w)
    <3> SUFFICES ASSUME NEW r \in any(v) PROVE r \in any(w)
      OBVIOUS
    <3>1. PICK a \in Attempts(in, v, r) : a.passed
      BY <1>2
    <3>2. a \in in /\ a.variant = v /\ a.run = r /\ a.passed = TRUE
      BY <1>3, <1>5, <3>1
    <3>3. <<r, a.epoch>> \in cells(w, {TRUE})
      BY <1>8, <2>1, <3>2
    <3>4. PICK b \in in : b.variant = w /\ b.run = r /\ b.passed = TRUE
      BY <2>1, <3>3
    <3>5. QED BY <1>2, <1>4, <3>4
  <2>5. all(v) \subseteq all(w)
    <3> SUFFICES ASSUME NEW r \in all(v) PROVE r \in all(w)
      OBVIOUS
    <3>1. r \in runs(v)
      BY <1>2
    <3>2. PICK a \in in : a.variant = v /\ a.run = r
      BY <3>1 DEF runs, RunsOf
    <3>3. PICK b \in in : b.variant = w /\ b.run = r
      <4>1. <<r, a.epoch>> \in cells(w, BOOLEAN)
        BY <1>8, <2>2, <3>2
      <4>2. QED BY <2>2, <4>1
    <3>4. r \in runs(w)
      BY <1>4, <3>3
    <3>5. ASSUME NEW d \in Attempts(in, w, r) PROVE d.passed
      <4>1. d \in in /\ d.variant = w /\ d.run = r
        BY <1>5
      <4>2. <<r, d.epoch>> \in cells(v, BOOLEAN)
        BY <1>8, <2>2, <4>1
      <4>3. PICK c \in in : c.variant = v /\ c.run = r /\ c.epoch = d.epoch
        BY <2>2, <4>2
      <4>4. c \in Attempts(in, v, r)
        BY <1>4, <4>3
      <4>5. c.passed = TRUE
        BY <1>2, <1>3, <4>3, <4>4
      <4>6. <<r, d.epoch>> \in cells(w, {TRUE})
        BY <1>8, <2>1, <4>3, <4>5
      <4>7. PICK x \in in : x.variant = w /\ x.run = r /\ x.epoch = d.epoch /\ x.passed = TRUE
        BY <2>1, <4>6
      <4>8. x = d
        BY <2>3, <4>1, <4>7
      <4>9. QED BY <4>7, <4>8
    <3>6. QED BY <1>2, <3>4, <3>5
  <2>6. IsFiniteSet(any(w)) /\ IsFiniteSet(all(w))
    <3>1. IsFiniteSet(runs(w))
      BY <1>6
    <3>2. any(w) \in SUBSET runs(w) /\ all(w) \in SUBSET runs(w)
      BY <1>2
    <3>3. QED BY <3>1, <3>2, FS_Subset
  <2>7. QED BY <2>4, <2>5, <2>6, FS_Subset
<1>9. \A v, results :
        cells(v, results) = {<<a.run, a.epoch>> : a \in {b \in in : b.variant = v /\ b.passed \in results}}
  BY DEF CellsOf
<1>10. step # "count"
  OBVIOUS
<1> HIDE DEF k, m, cells
<1>11. /\ \A v \in Variants :
            /\ Cardinality(cells(v, {TRUE})) \in (Cardinality(out.all[v]) * out.minK)..(Cardinality(out.any[v]) * out.k)
            /\ Cardinality(cells(v, {FALSE})) \in ((out.n[v] - Cardinality(out.any[v])) * out.minK)
                                  ..((out.n[v] - Cardinality(out.all[v])) * out.k)
  BY <1>2, <1>6, <1>7 DEF any, all
<1>12. \A v, w \in Variants :
            (cells(v, BOOLEAN) = cells(w, BOOLEAN) /\ cells(v, {TRUE}) \subseteq cells(w, {TRUE})) =>
                 /\ Cardinality(out.any[v]) <= Cardinality(out.any[w])
                 /\ Cardinality(out.all[v]) <= Cardinality(out.all[w])
  BY <1>8 DEF any, all
<1>13. QED BY <1>10, <1>11, <1>12 DEF SizesHonest, cells, CellsOf

\* However many cells, variants, epochs and task-runs: the sizes a report discloses are
\* those of samples that exist, and its rates fit the attempts they are of (build_report,
\* _build_reliability, _build_pass_k_rows).
THEOREM SizesHonestHolds == Spec => []SizesHonest
<1>1. Inv => SizesHonest
  <2> SUFFICES ASSUME Inv PROVE SizesHonest
    OBVIOUS
  <2>1. CASE step = "count"
    BY <2>1, SizesOfCells DEF Inv
  <2>2. CASE step = "attempt"
    BY <2>2, RatesOfAttempts DEF Inv
  <2>3. CASE step \notin {"count", "attempt"}
    BY <2>3 DEF SizesHonest
  <2>4. QED BY <2>1, <2>2, <2>3
<1>2. QED BY <1>1, Invariance, PTL

-----------------------------------------------------------------------------
(***************************************************************************)
(* The score of a judge.  A sum over a finite set does not depend on the   *)
(* order in which it is taken, which the fold itself leaves open.          *)
(***************************************************************************)
\* A finite set is reached from {} by adding one member at a time.
LEMMA SetInduction ==
  ASSUME NEW D, IsFiniteSet(D), NEW G, {} \in G,
         \A s \in SUBSET D : \A i \in s : s \ {i} \in G => s \in G
  PROVE  \A s \in SUBSET D : s \in G
<1> DEFINE Wrong == (SUBSET D) \ G
<1>1. FiniteSubsetsOf(D) = SUBSET D
  BY FS_FiniteSubsetsOfFinite
<1>2. IsWellFoundedOn(StrictSubsetOrdering(D), SUBSET D)
  BY <1>1, FS_StrictSubsetOrderingWellFounded
<1>3. ASSUME Wrong # {} PROVE FALSE
  <2>1. PICK s \in Wrong : \A y \in Wrong : ~ (<<y, s>> \in StrictSubsetOrdering(D))
    <3>1. Wrong \subseteq SUBSET D
      OBVIOUS
    <3> HIDE DEF Wrong
    <3>2. QED BY <1>2, <1>3, <3>1, WFMin
  <2>2. s \in SUBSET D /\ s \notin G /\ s # {}
    BY <2>1
  <2>3. PICK i \in s : TRUE
    BY <2>2
  <2>4. s \ {i} \in SUBSET D /\ s \ {i} \in Wrong
    BY <2>2, <2>3
  <2>5. <<s \ {i}, s>> \in StrictSubsetOrdering(D)
    BY <2>2, <2>3, <2>4 DEF StrictSubsetOrdering
  <2>6. QED BY <2>1, <2>4, <2>5
<1>4. QED BY <1>3

\* g sums up x over each subset of D, one member after the other.
Additive(g, D, x) ==
  /\ g \in [SUBSET D -> Int] /\ g[{}] = 0
  /\ \A s \in SUBSET D : \A i \in s : g[s] = x[i] + g[s \ {i}]

\* There is a sum over the subsets of a finite set.
LEMMA AdditiveExists ==
  ASSUME NEW D, IsFiniteSet(D), NEW x, \A i \in D : x[i] \in Int
  PROVE  \E g : Additive(g, D, x)
<1> DEFINE G == {s \in SUBSET D : \E g : Additive(g, s, x)}
<1>1. {} \in G
  <2> DEFINE g == [s \in SUBSET {} |-> 0]
  <2>1. Additive(g, {}, x)
    BY DEF Additive
  <2>2. QED BY <2>1
<1>2. ASSUME NEW t \in SUBSET D, NEW e \in t, t \ {e} \in G PROVE t \in G
  <2> DEFINE u == t \ {e}
  <2>1. PICK g : Additive(g, u, x)
    BY <1>2
  <2> DEFINE h == [s \in SUBSET t |-> IF e \in s THEN x[e] + g[s \ {e}] ELSE g[s]]
  <2>2. /\ g \in [SUBSET u -> Int] /\ g[{}] = 0
        /\ \A s \in SUBSET u : \A i \in s : g[s] = x[i] + g[s \ {i}]
    BY <2>1 DEF Additive
  <2>3. \A s \in SUBSET t : s \ {e} \in SUBSET u /\ (e \notin s => s \in SUBSET u)
    OBVIOUS
  <2> HIDE DEF u
  <2>4. \A s \in SUBSET t : h[s] \in Int
    <3> SUFFICES ASSUME NEW s \in SUBSET t PROVE h[s] \in Int
      OBVIOUS
    <3>1. CASE e \in s
      BY <2>2, <2>3, <3>1
    <3>2. CASE e \notin s
      BY <2>2, <2>3, <3>2
    <3>3. QED BY <3>1, <3>2
  <2>5. h[{}] = 0
    BY <2>2
  <2>6. ASSUME NEW s \in SUBSET t, NEW i \in s PROVE h[s] = x[i] + h[s \ {i}]
    <3>1. s \ {i} \in SUBSET t /\ x[i] \in Int /\ x[e] \in Int
      OBVIOUS
    <3>2. CASE e \notin s
      BY <2>2, <2>3, <3>1, <3>2
    <3>3. CASE i = e
      BY <3>1, <3>3
    <3>4. CASE e \in s /\ i # e
      <4>1. g[s \ {e}] = x[i] + g[(s \ {e}) \ {i}]
        BY <2>2, <2>3, <3>4
      <4>2. (s \ {e}) \ {i} = (s \ {i}) \ {e}
        OBVIOUS
      <4>3. h[s] = x[e] + (x[i] + g[(s \ {i}) \ {e}])
        BY <3>4, <4>1, <4>2
      <4>4. h[s \ {i}] = x[e] + g[(s \ {i}) \ {e}]
        BY <3>1, <3>4
      <4>5. g[(s \ {i}) \ {e}] \in Int
        BY <2>2, <2>3, <3>1
      <4>6. QED BY <3>1, <4>3, <4>4, <4>5
    <3>5. QED BY <3>2, <3>3, <3>4
  <2>7. h \in [SUBSET t -> Int]
    BY <2>4
  <2> HIDE DEF h
  <2>8. Additive(h, t, x)
    BY <2>5, <2>6, <2>7 DEF Additive
  <2>9. QED BY <2>8
<1> HIDE DEF G
<1>3. D \in G
  BY <1>1, <1>2, SetInduction
<1>4. QED BY <1>3 DEF G

Folded(g, x) ==
  g = [s \in SUBSET DOMAIN x |-> IF s = {} THEN 0
                                 ELSE x[CHOOSE i \in s : TRUE] + g[s \ {CHOOSE i \in s : TRUE}]]

\* The fold of the model is such a sum.
LEMMA TotalAdditive ==
  ASSUME NEW x, IsFiniteSet(DOMAIN x), NEW g, Additive(g, DOMAIN x, x)
  PROVE  Total(x) = g[DOMAIN x]
<1> DEFINE D == DOMAIN x
           pick(s) == CHOOSE i \in s : TRUE
           R(h) == Folded(h, x)
<1>1. Total(x) = (CHOOSE h : R(h))[D]
  BY DEF Total, FoldFunction, FoldFunctionOnSet, MapThenFoldSet, Folded
<1>2. \A s \in SUBSET D : s # {} => pick(s) \in s
  OBVIOUS
<1>3. Folded(g, x)
  <2>1. g = [s \in SUBSET D |-> g[s]]
    BY DEF Additive
  <2>2. \A s \in SUBSET D : g[s] = IF s = {} THEN 0 ELSE x[pick(s)] + g[s \ {pick(s)}]
    <3> HIDE DEF pick
    <3>1. QED BY <1>2 DEF Additive
  <2>3. [s \in SUBSET D |-> g[s]] = [s \in SUBSET D |-> IF s = {} THEN 0 ELSE x[pick(s)] + g[s \ {pick(s)}]]
    <3> HIDE DEF pick, D
    <3>1. QED BY <2>2
  <2>4. QED BY <2>1, <2>3 DEF Folded
<1>4. ASSUME NEW h, Folded(h, x) PROVE h = g
  <2> DEFINE G == {s \in SUBSET D : h[s] = g[s]}
  <2>1. \A s \in SUBSET D : h[s] = IF s = {} THEN 0 ELSE x[pick(s)] + h[s \ {pick(s)}]
    BY <1>4 DEF Folded
  <2>2. \A s \in SUBSET D : g[s] = IF s = {} THEN 0 ELSE x[pick(s)] + g[s \ {pick(s)}]
    BY <1>3 DEF Folded
  <2>3. IsWellFoundedOn(StrictSubsetOrdering(D), SUBSET D)
    BY FS_FiniteSubsetsOfFinite, FS_StrictSubsetOrderingWellFounded
  <2> DEFINE Wrong == (SUBSET D) \ G
  <2>4. ASSUME Wrong # {} PROVE FALSE
    <3>1. PICK s \in Wrong : \A y \in Wrong : ~ (<<y, s>> \in StrictSubsetOrdering(D))
      <4>1. Wrong \subseteq SUBSET D
        OBVIOUS
      <4> HIDE DEF Wrong
      <4>2. QED BY <2>3, <2>4, <4>1, WFMin
    <3>2. s \in SUBSET D /\ h[s] # g[s]
      BY <3>1
    <3>3. s # {}
      BY <2>1, <2>2, <3>2
    <3> DEFINE y == s \ {pick(s)}
    <3>4. y \in SUBSET D /\ <<y, s>> \in StrictSubsetOrdering(D)
      BY <1>2, <3>2, <3>3 DEF StrictSubsetOrdering
    <3>5. h[y] = g[y]
      BY <3>1, <3>4
    <3> HIDE DEF pick
    <3>6. QED BY <2>1, <2>2, <3>2, <3>3, <3>5
  <2>5. \A s \in SUBSET D : h[s] = g[s]
    BY <2>4
  <2>6. h = [s \in SUBSET D |-> h[s]] /\ g = [s \in SUBSET D |-> g[s]]
    <3>1. DOMAIN h = SUBSET D /\ DOMAIN g = SUBSET D
      BY <1>3, <1>4 DEF Folded
    <3>2. QED BY <1>3, <1>4, <3>1, Zenon DEF Folded
  <2> HIDE DEF D
  <2>7. QED BY <2>5, <2>6
<1> HIDE DEF R, D
<1>5. (CHOOSE h : R(h)) = g
  BY <1>3, <1>4, Zenon DEF R
<1>6. QED BY <1>1, <1>5 DEF D

LEMMA TotalType ==
  ASSUME NEW x, IsFiniteSet(DOMAIN x), \A i \in DOMAIN x : x[i] \in Int
  PROVE  Total(x) \in Int
<1>1. PICK g : Additive(g, DOMAIN x, x)
  BY AdditiveExists
<1>2. g[DOMAIN x] \in Int
  BY <1>1 DEF Additive
<1>3. QED BY <1>1, <1>2, TotalAdditive

\* It lies between so many times the bounds of its terms.
LEMMA TotalBounds ==
  ASSUME NEW x, IsFiniteSet(DOMAIN x), NEW lo \in Int, NEW hi \in Int,
         \A i \in DOMAIN x : x[i] \in Int /\ lo <= x[i] /\ x[i] <= hi
  PROVE  /\ Cardinality(DOMAIN x) * lo <= Total(x)
         /\ Total(x) <= Cardinality(DOMAIN x) * hi
<1> DEFINE D == DOMAIN x
<1>1. PICK g : Additive(g, D, x)
  BY AdditiveExists
<1> DEFINE G == {s \in SUBSET D : Cardinality(s) * lo <= g[s] /\ g[s] <= Cardinality(s) * hi}
<1>2. {} \in G
  <2>1. Cardinality({}) = 0 /\ 0 * lo = 0 /\ 0 * hi = 0 /\ g[{}] = 0
    BY <1>1, FS_EmptySet DEF Additive
  <2>2. QED BY <2>1
<1>3. ASSUME NEW s \in SUBSET D, NEW i \in s, s \ {i} \in G PROVE s \in G
  <2> DEFINE n == Cardinality(s \ {i})  z == g[s \ {i}]
  <2>1. IsFiniteSet(s) /\ IsFiniteSet(s \ {i})
    BY FS_Subset
  <2>2. Cardinality(s \ {i}) = Cardinality(s) - 1
    BY <2>1, FS_RemoveElement
  <2>3. n \in Nat /\ Cardinality(s) \in Nat
    BY <2>1, FS_CardinalityType
  <2>4. Cardinality(s) = n + 1
    BY <2>2, <2>3
  <2>5. g[s] = x[i] + z /\ z \in Int
    BY <1>1 DEF Additive
  <2>6. n * lo <= z /\ z <= n * hi
    BY <1>3
  <2>7. (n + 1) * lo = n * lo + lo /\ (n + 1) * hi = n * hi + hi /\ n * lo \in Int /\ n * hi \in Int
    <3>1. \A a \in Nat, b \in Int : (a + 1) * b = a * b + b /\ a * b \in Int
      OBVIOUS
    <3> HIDE DEF n
    <3>2. QED BY <2>3, <3>1
  <2>8. x[i] \in Int /\ lo <= x[i] /\ x[i] <= hi
    OBVIOUS
  <2> HIDE DEF n, z
  <2>9. (n + 1) * lo <= g[s] /\ g[s] <= (n + 1) * hi
    BY <2>5, <2>6, <2>7, <2>8
  <2>10. QED BY <2>4, <2>9
<1>4. D \in G
  <2>1. IsFiniteSet(D)
    OBVIOUS
  <2> HIDE DEF D, G
  <2>2. QED BY <1>2, <1>3, <2>1, SetInduction
<1>5. QED BY <1>1, <1>4, TotalAdditive

\* A total does not depend on the order of what is added.
LEMMA TotalRenamed ==
  ASSUME NEW x, NEW y, NEW f, Renames(f, DOMAIN x, DOMAIN y),
         IsFiniteSet(DOMAIN x), IsFiniteSet(DOMAIN y),
         \A i \in DOMAIN x : x[i] \in Int /\ y[f[i]] = x[i]
  PROVE  Total(x) = Total(y)
<1> DEFINE D == DOMAIN x  E == DOMAIN y
           image(s) == {f[i] : i \in s}
<1>1. PICK g : Additive(g, D, x)
  BY AdditiveExists
<1>2. \A k \in E : y[k] \in Int
  BY DEF Renames
<1>3. PICK h : Additive(h, E, y)
  BY <1>2, AdditiveExists
<1> DEFINE G == {s \in SUBSET D : g[s] = h[image(s)]}
<1>4. {} \in G
  BY <1>1, <1>3 DEF Additive
<1>5. ASSUME NEW s \in SUBSET D, NEW i \in s, s \ {i} \in G PROVE s \in G
  <2>1. image(s) \in SUBSET E /\ f[i] \in image(s)
    BY DEF Renames
  <2>2. image(s \ {i}) = image(s) \ {f[i]}
    BY DEF Renames
  <2> HIDE DEF image
  <2>3. g[s] = x[i] + g[s \ {i}]
    BY <1>1 DEF Additive
  <2>4. h[image(s)] = y[f[i]] + h[image(s) \ {f[i]}]
    BY <1>3, <2>1 DEF Additive
  <2>5. QED BY <1>5, <2>2, <2>3, <2>4
<1>6. D \in G
  <2>1. IsFiniteSet(D)
    OBVIOUS
  <2> HIDE DEF D, G
  <2>2. QED BY <1>4, <1>5, <2>1, SetInduction
<1>7. image(D) = E
  BY DEF Renames
<1>8. QED BY <1>1, <1>3, <1>6, <1>7, TotalAdditive

-----------------------------------------------------------------------------
\* Usable samples: at least one, with numbers for scores.
IsSample(x) ==
  /\ IsFiniteSet(DOMAIN x) /\ DOMAIN x # {}
  /\ \A i \in DOMAIN x : x[i] \in Int

UpTo(x, v) == {i \in DOMAIN x : x[i] <= v}
Under(x, v) == {i \in DOMAIN x : x[i] < v}
Over(x, v) == {i \in DOMAIN x : x[i] > v}

LEMMA Highest ==
  ASSUME NEW s, IsFiniteSet(s), s # {}, NEW x, \A i \in s : x[i] \in Int
  PROVE  \E i \in s : \A k \in s : x[k] <= x[i]
<1> DEFINE G == {t \in SUBSET s : t = {} \/ \E i \in t : \A k \in t : x[k] <= x[i]}
<1>1. {} \in G
  OBVIOUS
<1>2. ASSUME NEW t \in SUBSET s, NEW e \in t, t \ {e} \in G PROVE t \in G
  <2>1. CASE t \ {e} = {}
    <3>1. t = {e}
      BY <2>1
    <3>2. x[e] <= x[e]
      OBVIOUS
    <3>3. QED BY <3>1, <3>2
  <2>2. CASE t \ {e} # {}
    <3>1. PICK i \in t \ {e} : \A k \in t \ {e} : x[k] <= x[i]
      BY <1>2, <2>2
    <3>2. CASE x[e] <= x[i]
      BY <3>1, <3>2
    <3>3. CASE ~ (x[e] <= x[i])
      <4>1. \A k \in t : x[k] <= x[e]
        BY <3>1, <3>3
      <4>2. QED BY <4>1
    <3>4. QED BY <3>2, <3>3
  <2>3. QED BY <2>1, <2>2
<1> HIDE DEF G
<1>3. s \in G
  BY <1>1, <1>2, SetInduction
<1>4. QED BY <1>3 DEF G

LEMMA Lowest ==
  ASSUME NEW s, IsFiniteSet(s), s # {}, NEW x, \A i \in s : x[i] \in Int
  PROVE  \E i \in s : \A k \in s : x[i] <= x[k]
<1> DEFINE y == [i \in s |-> -x[i]]
<1>1. \A i \in s : y[i] \in Int
  OBVIOUS
<1>2. PICK i \in s : \A k \in s : y[k] <= y[i]
  <2> HIDE DEF y
  <2>1. QED BY <1>1, Highest
<1>3. \A k \in s : x[i] <= x[k]
  BY <1>2
<1>4. QED BY <1>3

\* Every count over a sample is a natural number.
LEMMA SampleCounts ==
  ASSUME NEW x, IsSample(x), NEW v
  PROVE  /\ IsFiniteSet(UpTo(x, v)) /\ Cardinality(UpTo(x, v)) \in Nat
         /\ IsFiniteSet(Under(x, v)) /\ Cardinality(Under(x, v)) \in Nat
         /\ IsFiniteSet(Over(x, v)) /\ Cardinality(Over(x, v)) \in Nat
         /\ Count(x, v) \in Nat
         /\ Cardinality(DOMAIN x) \in Nat /\ Cardinality(DOMAIN x) >= 1
<1>1. IsFiniteSet(UpTo(x, v)) /\ IsFiniteSet(Under(x, v)) /\ IsFiniteSet(Over(x, v))
  BY FS_Subset DEF IsSample, UpTo, Under, Over
<1>2. IsFiniteSet({i \in DOMAIN x : x[i] = v})
  BY FS_Subset DEF IsSample
<1>3. Cardinality(DOMAIN x) \in Nat /\ Cardinality(DOMAIN x) # 0
  BY FS_CardinalityType, FS_EmptySet DEF IsSample
<1>4. QED BY <1>1, <1>2, <1>3, FS_CardinalityType DEF Count

\* The k-th of the sorted scores, for any k that there is.
LEMMA SortedIs ==
  ASSUME NEW x, IsSample(x), NEW k \in 1..Cardinality(DOMAIN x)
  PROVE  /\ \E i \in DOMAIN x : x[i] = Sorted(x, k)
         /\ Cardinality(Under(x, Sorted(x, k))) < k
         /\ Cardinality(UpTo(x, Sorted(x, k))) >= k
<1> DEFINE D == DOMAIN x
           Good == {i \in D : Cardinality(UpTo(x, x[i])) >= k}
<1>1. IsFiniteSet(D) /\ D # {} /\ \A i \in D : x[i] \in Int
  BY DEF IsSample
<1>2. IsFiniteSet(Good)
  BY <1>1, FS_Subset
<1>3. Good # {}
  <2>1. PICK i \in D : \A m \in D : x[m] <= x[i]
    BY <1>1, Highest
  <2>2. UpTo(x, x[i]) = D
    BY <2>1 DEF UpTo
  <2>3. Cardinality(D) \in Nat
    BY <1>1, FS_CardinalityType
  <2>4. Cardinality(UpTo(x, x[i])) >= k
    BY <2>2, <2>3
  <2>5. QED BY <2>4
<1>4. PICK i \in Good : \A m \in Good : x[i] <= x[m]
  <2>1. \A m \in Good : x[m] \in Int
    BY <1>1
  <2> HIDE DEF Good
  <2>2. QED BY <1>2, <1>3, <2>1, Lowest
<1>5. i \in D /\ Cardinality(UpTo(x, x[i])) >= k
  OBVIOUS
<1>6. Cardinality(Under(x, x[i])) < k
  <2> DEFINE L == Under(x, x[i])
  <2>1. IsFiniteSet(L) /\ Cardinality(L) \in Nat
    BY SampleCounts
  <2> SUFFICES ASSUME Cardinality(L) >= k PROVE FALSE
    BY <2>1
  <2>2. L # {}
    BY <2>1, FS_EmptySet
  <2>3. PICK m \in L : \A n \in L : x[n] <= x[m]
    <3>1. \A n \in L : x[n] \in Int
      BY <1>1 DEF Under
    <3> HIDE DEF L
    <3>2. QED BY <2>1, <2>2, <3>1, Highest
  <2>4. m \in D /\ x[m] < x[i]
    BY DEF Under
  <2>5. UpTo(x, x[m]) = L
    <3>1. \A n \in D : x[n] <= x[m] => x[n] < x[i]
      BY <1>1, <2>4
    <3>2. \A n \in D : x[n] < x[i] => x[n] <= x[m]
      BY <2>3 DEF Under
    <3>3. QED BY <3>1, <3>2 DEF UpTo, Under
  <2>6. m \in Good
    BY <2>4, <2>5
  <2>7. x[i] <= x[m]
    BY <1>4, <2>6
  <2>8. x[m] \in Int /\ x[i] \in Int
    BY <1>1, <2>4
  <2>9. QED BY <2>4, <2>7, <2>8
<1> DEFINE P(v) == v \in Range(x) /\ Cardinality(Under(x, v)) < k /\ Cardinality(UpTo(x, v)) >= k
<1>7. Sorted(x, k) = CHOOSE v : P(v)
  BY DEF Sorted, Under, UpTo
<1>8. P(x[i])
  BY <1>5, <1>6 DEF Range
<1> HIDE DEF P
<1>9. P(Sorted(x, k))
  BY <1>7, <1>8, Zenon
<1>10. QED BY <1>9 DEF P, Range

\* The majority is a score of the sample that none outnumbers, the least of them.
LEMMA MajorityIs ==
  ASSUME NEW x, IsSample(x)
  PROVE  /\ \E i \in DOMAIN x : x[i] = Majority(x)
         /\ \A i \in DOMAIN x : \/ Count(x, Majority(x)) > Count(x, x[i])
                                \/ Count(x, Majority(x)) = Count(x, x[i]) /\ Majority(x) <= x[i]
<1> DEFINE D == DOMAIN x
           c == [i \in D |-> Count(x, x[i])]
<1>1. IsFiniteSet(D) /\ D # {} /\ \A i \in D : x[i] \in Int
  BY DEF IsSample
<1>2. \A i \in D : c[i] \in Int
  BY SampleCounts
<1>3. PICK e \in D : \A m \in D : c[m] <= c[e]
  <2> HIDE DEF c, D
  <2>1. QED BY <1>1, <1>2, Highest
<1> DEFINE Top == {i \in D : c[i] = c[e]}
<1>4. IsFiniteSet(Top) /\ Top # {}
  BY <1>1, FS_Subset
<1>5. PICK i \in Top : \A m \in Top : x[i] <= x[m]
  <2>1. \A m \in Top : x[m] \in Int
    BY <1>1
  <2> HIDE DEF Top
  <2>2. QED BY <1>4, <2>1, Lowest
<1>6. i \in D /\ \A m \in D : c[i] > c[m] \/ (c[i] = c[m] /\ x[i] <= x[m])
  <2> HIDE DEF c
  <2>1. QED BY <1>2, <1>3, <1>5
<1> DEFINE P(v) ==
             \A y \in Range(x) :
               \/ Count(x, v) > Count(x, y)
               \/ Count(x, v) = Count(x, y) /\ v <= y
<1>7. Majority(x) = CHOOSE v \in Range(x) : P(v)
  BY Zenon DEF Majority
<1>8. x[i] \in Range(x) /\ P(x[i])
  <2>1. \A m \in D : c[m] = Count(x, x[m])
    OBVIOUS
  <2> HIDE DEF c
  <2>2. \A m \in D :
          \/ Count(x, x[i]) > Count(x, x[m])
          \/ Count(x, x[i]) = Count(x, x[m]) /\ x[i] <= x[m]
    BY <1>6, <2>1
  <2>3. QED BY <1>6, <2>2 DEF Range
<1> HIDE DEF P
<1>9. Majority(x) \in Range(x) /\ P(Majority(x))
  BY <1>7, <1>8, Zenon
<1>10. QED BY <1>9 DEF P, Range

\* The first place of the least cost.
LEMMA FirstLeastIs ==
  ASSUME NEW cost, IsSample(cost), DOMAIN cost \subseteq Int
  PROVE  FirstLeast(cost) \in DOMAIN cost /\ \A k \in DOMAIN cost : cost[FirstLeast(cost)] <= cost[k]
<1> DEFINE D == DOMAIN cost
<1>1. IsFiniteSet(D) /\ D # {} /\ \A i \in D : cost[i] \in Int
  BY DEF IsSample
<1>2. PICK e \in D : \A m \in D : cost[e] <= cost[m]
  BY <1>1, Lowest
<1> DEFINE Top == {i \in D : cost[i] = cost[e]}
           place == [i \in Top |-> i]
<1>3. IsFiniteSet(Top) /\ Top # {}
  BY <1>1, FS_Subset
<1>4. PICK i \in Top : \A m \in Top : place[i] <= place[m]
  <2>1. \A m \in Top : place[m] \in Int
    OBVIOUS
  <2> HIDE DEF Top, place
  <2>2. QED BY <1>3, <2>1, Lowest
<1> DEFINE P(v) == v \in D /\ \A k \in D : cost[v] < cost[k] \/ (cost[v] = cost[k] /\ v <= k)
<1>5. P(i)
  <2>1. \A k \in D : cost[i] = cost[e] /\ cost[i] <= cost[k]
    BY <1>2
  <2>2. \A k \in D : cost[i] = cost[k] => i <= k
    BY <1>4
  <2>3. QED BY <1>1, <2>1, <2>2
<1>6. FirstLeast(cost) = CHOOSE v : P(v)
  BY DEF FirstLeast
<1> HIDE DEF P
<1>7. P(FirstLeast(cost))
  BY <1>5, <1>6, Zenon
<1>8. \A k \in D : cost[FirstLeast(cost)] <= cost[k]
  BY <1>1, <1>7 DEF P
<1>9. QED BY <1>7, <1>8 DEF P

-----------------------------------------------------------------------------
\* What an aggregate of a sample is.
LEMMA MedianIs ==
  ASSUME NEW x, IsSample(x)
  PROVE  LET n == Cardinality(DOMAIN x)
         IN /\ Median(x) \in Int
            /\ \E i \in DOMAIN x : x[i] <= Median(x)
            /\ \E i \in DOMAIN x : x[i] >= Median(x)
            /\ 2 * Cardinality(Under(x, Median(x))) <= n
            /\ 2 * Cardinality(Over(x, Median(x))) <= n
<1> DEFINE D == DOMAIN x
           n == Cardinality(D)
           j == (n + 1) \div 2
           k == n \div 2 + 1
           a == Sorted(x, j)
           b == Sorted(x, k)
           y == Median(x)
<1>1. n \in Nat /\ n >= 1 /\ \A i \in D : x[i] \in Int
  BY SampleCounts DEF IsSample
<1>2. j \in 1..n /\ k \in 1..n /\ j <= k /\ 2 * j >= n /\ 2 * (k - 1) <= n
  <2> HIDE DEF n
  <2>1. QED BY <1>1
<1>3. /\ \E i \in D : x[i] = a
      /\ Cardinality(Under(x, a)) < j /\ Cardinality(UpTo(x, a)) >= j
  <2> HIDE DEF j
  <2>1. QED BY <1>2, SortedIs
<1>4. /\ \E i \in D : x[i] = b
      /\ Cardinality(Under(x, b)) < k /\ Cardinality(UpTo(x, b)) >= k
  <2> HIDE DEF k
  <2>1. QED BY <1>2, SortedIs
<1>5. a \in Int /\ b \in Int
  <2> HIDE DEF a, b
  <2>1. QED BY <1>1, <1>3, <1>4
<1>6. y = (2 * (a + b) + 2) \div 4
  BY DEF Median, HalfUp
<1>7. \A v, w \in Int : v < w => UpTo(x, v) \subseteq Under(x, w)
  BY <1>1 DEF UpTo, Under
<1> HIDE DEF D, n, j, k, a, b, y
<1>8. /\ Cardinality(UpTo(x, a)) \in Nat /\ Cardinality(Under(x, b)) \in Nat /\ IsFiniteSet(UpTo(x, a))
      /\ Cardinality(UpTo(x, b)) \in Nat /\ IsFiniteSet(Under(x, a)) /\ Cardinality(Under(x, a)) \in Nat
  BY SampleCounts
<1>9. a <= b
  <2> SUFFICES ASSUME b < a PROVE FALSE
    BY <1>5
  <2>1. Cardinality(UpTo(x, b)) <= Cardinality(Under(x, a))
    BY <1>5, <1>7, <1>8, FS_Subset
  <2>2. QED BY <1>1, <1>2, <1>3, <1>4, <1>8, <2>1
<1>10. y \in Int /\ a <= y /\ y <= b
  BY <1>5, <1>6, <1>9
<1>11. 2 * Cardinality(Under(x, y)) <= n
  <2>1. Under(x, y) \subseteq Under(x, b)
    BY <1>1, <1>5, <1>10 DEF Under, D
  <2>2. IsFiniteSet(Under(x, b)) /\ Cardinality(Under(x, y)) \in Nat
    BY SampleCounts
  <2>3. Cardinality(Under(x, y)) <= Cardinality(Under(x, b))
    BY <2>1, <2>2, FS_Subset
  <2>4. QED BY <1>1, <1>2, <1>4, <1>8, <2>2, <2>3
<1>12. 2 * Cardinality(Over(x, y)) <= n
  <2>1. Over(x, y) \subseteq D \ UpTo(x, a)
    BY <1>1, <1>5, <1>10 DEF Over, UpTo, D
  <2>2. IsFiniteSet(D)
    BY DEF IsSample, D
  <2>3. D \cap UpTo(x, a) = UpTo(x, a)
    BY DEF UpTo, D
  <2>4. /\ IsFiniteSet(D \ UpTo(x, a))
        /\ Cardinality(D \ UpTo(x, a)) = n - Cardinality(UpTo(x, a))
    BY <2>2, <2>3, FS_Difference DEF n
  <2>5. Cardinality(Over(x, y)) <= Cardinality(D \ UpTo(x, a)) /\ Cardinality(Over(x, y)) \in Nat
    BY <2>1, <2>4, FS_Subset, SampleCounts
  <2>6. QED BY <1>1, <1>2, <1>3, <1>8, <2>4, <2>5
<1>13. (\E i \in D : x[i] <= y) /\ (\E i \in D : x[i] >= y)
  BY <1>1, <1>3, <1>4, <1>5, <1>10
<1>14. QED BY <1>10, <1>11, <1>12, <1>13 DEF D, n, y

\* The mean is rounded to the nearest point, halves up, and lies within the sample.
LEMMA MeanIs ==
  ASSUME NEW x, IsSample(x)
  PROVE  LET n == Cardinality(DOMAIN x)
             y == HalfUp(Total(x), n)
         IN /\ y \in Int
            /\ \E i \in DOMAIN x : x[i] <= y
            /\ \E i \in DOMAIN x : x[i] >= y
            /\ 2 * n * y - n <= 2 * Total(x) /\ 2 * Total(x) < 2 * n * y + n
<1> DEFINE D == DOMAIN x
           n == Cardinality(D)
           t == Total(x)
           y == HalfUp(t, n)
<1>1. n \in Nat /\ n >= 1 /\ IsFiniteSet(D) /\ D # {} /\ \A i \in D : x[i] \in Int
  BY SampleCounts DEF IsSample
<1>2. t \in Int
  BY <1>1, TotalType
<1>3. PICK lo \in D : \A i \in D : x[lo] <= x[i]
  BY <1>1, Lowest
<1>4. PICK hi \in D : \A i \in D : x[i] <= x[hi]
  BY <1>1, Highest
<1>5. n * x[lo] <= t /\ t <= n * x[hi]
  BY <1>1, <1>3, <1>4, TotalBounds
<1>6. \A m \in Int : \A d \in Nat : d >= 1 =>
        /\ m \div d \in Int
        /\ d * (m \div d) <= m /\ m < d * (m \div d) + d
  OBVIOUS
<1> DEFINE z == 2 * t + n
           d == 2 * n
<1>7. z \in Int /\ d \in Nat /\ d >= 1 /\ y = z \div d
  BY <1>1, <1>2 DEF HalfUp
<1> HIDE DEF D, n, t, y, z, d
<1>8. y \in Int /\ d * y <= z /\ z < d * y + d
  BY <1>6, <1>7
<1>9. x[lo] \in Int /\ x[hi] \in Int
  BY <1>1
<1>10. \A b \in Int : d * b = 2 * (n * b) /\ n * b \in Int /\ 2 * n * b = 2 * (n * b)
  BY <1>1 DEF d
<1>11. 2 * (n * y) <= 2 * t + n /\ 2 * t + n < 2 * (n * y) + 2 * n
  BY <1>8, <1>10 DEF z, d
<1>12. 2 * n * y - n <= 2 * t /\ 2 * t < 2 * n * y + n
  BY <1>1, <1>2, <1>8, <1>10, <1>11
<1>13. \A b, c \in Int : b < c => n * b + n <= n * c
  <2> SUFFICES ASSUME NEW b \in Int, NEW c \in Int, b < c PROVE n * b + n <= n * c
    OBVIOUS
  <2>1. c = b + 1 + (c - b - 1) /\ c - b - 1 \in Nat
    OBVIOUS
  <2>2. \A e \in Nat : n * (b + 1 + e) = n * b + n + n * e /\ n * e \in Nat /\ n * b \in Int
    BY <1>1
  <2>3. QED BY <1>1, <2>1, <2>2
<1>14. x[lo] <= y
  <2> SUFFICES ASSUME y < x[lo] PROVE FALSE
    BY <1>8, <1>9
  <2>1. n * y + n <= n * x[lo]
    BY <1>8, <1>9, <1>13
  <2>2. QED BY <1>1, <1>2, <1>5, <1>8, <1>9, <1>10, <1>11, <2>1
<1>15. x[hi] >= y
  <2> SUFFICES ASSUME x[hi] < y PROVE FALSE
    BY <1>8, <1>9
  <2>1. n * x[hi] + n <= n * y
    BY <1>8, <1>9, <1>13
  <2>2. QED BY <1>1, <1>2, <1>5, <1>8, <1>9, <1>10, <1>11, <2>1
<1>16. QED BY <1>3, <1>4, <1>8, <1>12, <1>14, <1>15 DEF D, n, t, y

-----------------------------------------------------------------------------
\* An aggregate does not depend on the order of its sample.
LEMMA CountsRenamed ==
  ASSUME NEW x, IsSample(x), NEW y, IsSample(y), NEW f, Renames(f, DOMAIN x, DOMAIN y),
         \A i \in DOMAIN x : y[f[i]] = x[i], NEW v
  PROVE  /\ Cardinality(DOMAIN y) = Cardinality(DOMAIN x)
         /\ Count(y, v) = Count(x, v)
         /\ Cardinality(UpTo(y, v)) = Cardinality(UpTo(x, v))
         /\ Cardinality(Under(y, v)) = Cardinality(Under(x, v))
<1> DEFINE D == DOMAIN x  E == DOMAIN y
<1>1. IsFiniteSet(D) /\ \A i \in D : f[i] \in E
  BY DEF IsSample, Renames
<1>2. Cardinality(E) = Cardinality(D)
  <2> HIDE DEF D, E
  <2>1. QED BY <1>1, Image DEF D, E
<1>3. Count(y, v) = Count(x, v)
  <2> DEFINE s == {i \in D : x[i] = v}  t == {i \in E : y[i] = v}
  <2>1. IsFiniteSet(s) /\ s \in SUBSET D /\ t \in SUBSET E
    BY <1>1, FS_Subset
  <2>2. \A i \in D : i \in s <=> f[i] \in t
    BY <1>1
  <2> HIDE DEF s, t
  <2>3. Cardinality(t) = Cardinality(s)
    BY <2>1, <2>2, Image
  <2>4. QED BY <2>3 DEF Count, s, t
<1>4. Cardinality(UpTo(y, v)) = Cardinality(UpTo(x, v))
  <2>1. UpTo(x, v) \in SUBSET D /\ UpTo(y, v) \in SUBSET E /\ IsFiniteSet(UpTo(x, v))
    BY SampleCounts DEF UpTo
  <2>2. \A i \in D : i \in UpTo(x, v) <=> f[i] \in UpTo(y, v)
    BY <1>1 DEF UpTo
  <2>3. QED BY <2>1, <2>2, Image
<1>5. Cardinality(Under(y, v)) = Cardinality(Under(x, v))
  <2>1. Under(x, v) \in SUBSET D /\ Under(y, v) \in SUBSET E /\ IsFiniteSet(Under(x, v))
    BY SampleCounts DEF Under
  <2>2. \A i \in D : i \in Under(x, v) <=> f[i] \in Under(y, v)
    BY <1>1 DEF Under
  <2>3. QED BY <2>1, <2>2, Image
<1>6. QED BY <1>2, <1>3, <1>4, <1>5

\* No aggregate depends on the order of the sample.
LEMMA AggregateRenamed ==
  ASSUME NEW x, IsSample(x), NEW y, IsSample(y), NEW f, Renames(f, DOMAIN x, DOMAIN y),
         \A i \in DOMAIN x : y[f[i]] = x[i], NEW method
  PROVE  AggregateScores(y, method) = AggregateScores(x, method)
<1> DEFINE D == DOMAIN x  E == DOMAIN y  n == Cardinality(D)
<1>1. n \in Nat /\ n >= 1 /\ Cardinality(E) = n
  BY SampleCounts, CountsRenamed
<1>2. \A i \in D : x[i] \in Int
  BY DEF IsSample
<1>3. \A i \in E : y[i] \in Int
  BY DEF IsSample
<1>4. /\ \A i \in D : \E k \in E : y[k] = x[i]
      /\ \A k \in E : \E i \in D : y[k] = x[i]
  BY DEF Renames
<1>5. ASSUME NEW k \in 1..n PROVE Sorted(y, k) = Sorted(x, k)
  <2> DEFINE v == Sorted(x, k)  w == Sorted(y, k)
  <2>1. (\E i \in D : x[i] = v) /\ Cardinality(Under(x, v)) < k /\ Cardinality(UpTo(x, v)) >= k
    BY SortedIs
  <2>2. (\E i \in E : y[i] = w) /\ Cardinality(Under(y, w)) < k /\ Cardinality(UpTo(y, w)) >= k
    BY <1>1, SortedIs
  <2> HIDE DEF v, w
  <2>3. v \in Int /\ w \in Int
    BY <1>2, <1>3, <2>1, <2>2
  <2>4. /\ Cardinality(Under(x, w)) < k /\ Cardinality(UpTo(x, w)) >= k
    BY <2>2, CountsRenamed
  <2>5. \A a, b \in Int : a < b /\ Cardinality(UpTo(x, a)) >= k => Cardinality(Under(x, b)) >= k
    <3> SUFFICES ASSUME NEW a \in Int, NEW b \in Int, a < b, Cardinality(UpTo(x, a)) >= k
                 PROVE  Cardinality(Under(x, b)) >= k
      OBVIOUS
    <3>1. UpTo(x, a) \subseteq Under(x, b)
      BY <1>2 DEF UpTo, Under
    <3>2. /\ IsFiniteSet(Under(x, b)) /\ Cardinality(Under(x, b)) \in Nat
          /\ Cardinality(UpTo(x, a)) \in Nat
      BY SampleCounts
    <3>3. Cardinality(UpTo(x, a)) <= Cardinality(Under(x, b))
      BY <3>1, <3>2, FS_Subset
    <3>4. QED BY <3>2, <3>3
  <2>6. /\ Cardinality(Under(x, v)) \in Nat /\ Cardinality(Under(x, w)) \in Nat
    BY SampleCounts
  <2>7. ~ (v < w) /\ ~ (w < v)
    BY <2>1, <2>3, <2>4, <2>5, <2>6
  <2>8. v = w
    BY <2>3, <2>7
  <2>9. QED BY <2>8 DEF v, w
<1>6. Median(y) = Median(x)
  <2> DEFINE j == (n + 1) \div 2  k == n \div 2 + 1
  <2>1. j \in 1..n /\ k \in 1..n
    <3> HIDE DEF n
    <3>1. QED BY <1>1
  <2>2. Sorted(y, j) = Sorted(x, j) /\ Sorted(y, k) = Sorted(x, k)
    <3> HIDE DEF j, k
    <3>1. QED BY <1>5, <2>1
  <2>3. Median(x) = HalfUp(Sorted(x, j) + Sorted(x, k), 2)
    BY DEF Median
  <2>4. Median(y) = HalfUp(Sorted(y, j) + Sorted(y, k), 2)
    BY <1>1 DEF Median
  <2> HIDE DEF j, k
  <2>5. QED BY <2>2, <2>3, <2>4
<1>7. Majority(y) = Majority(x)
  <2> DEFINE v == Majority(x)  w == Majority(y)
  <2>1. /\ \E i \in D : x[i] = v
        /\ \A i \in D : Count(x, v) > Count(x, x[i]) \/ (Count(x, v) = Count(x, x[i]) /\ v <= x[i])
    BY MajorityIs
  <2>2. /\ \E i \in E : y[i] = w
        /\ \A i \in E : Count(y, w) > Count(y, y[i]) \/ (Count(y, w) = Count(y, y[i]) /\ w <= y[i])
    BY MajorityIs
  <2> HIDE DEF v, w
  <2>3. v \in Int /\ w \in Int
    BY <1>2, <1>3, <2>1, <2>2
  <2>4. /\ Count(y, v) = Count(x, v) /\ Count(y, w) = Count(x, w)
        /\ Count(x, v) \in Nat /\ Count(x, w) \in Nat
    BY CountsRenamed, SampleCounts
  <2>5. (\E i \in D : x[i] = w) /\ (\E i \in E : y[i] = v)
    BY <1>4, <2>1, <2>2
  <2>6. Count(x, v) > Count(x, w) \/ (Count(x, v) = Count(x, w) /\ v <= w)
    BY <2>1, <2>5
  <2>7. Count(x, w) > Count(x, v) \/ (Count(x, w) = Count(x, v) /\ w <= v)
    BY <2>2, <2>4, <2>5
  <2>8. v = w
    BY <2>3, <2>4, <2>6, <2>7
  <2>9. QED BY <2>8 DEF v, w
<1>8. Total(y) = Total(x)
  BY <1>2, TotalRenamed DEF IsSample
<1>9. QED BY <1>1, <1>6, <1>7, <1>8 DEF AggregateScores

\* Nor does the score of a judge, unusable samples included.
LEMMA FinalizedReordered ==
  ASSUME NEW per, NEW qer, IsFiniteSet(DOMAIN per), IsFiniteSet(DOMAIN qer),
         NEW f, Renames(f, DOMAIN per, DOMAIN qer), \A i \in DOMAIN per : qer[f[i]] = per[i],
         \A i \in DOMAIN per : per[i].score \in Int \cup {NoScore},
         NEW method
  PROVE  Finalize(qer, method).score = Finalize(per, method).score
<1> DEFINE x == ScoresOf(per)  y == ScoresOf(qer)
           D == Usable(per)  E == Usable(qer)
           g == [i \in D |-> f[i]]
<1>1. DOMAIN x = D /\ DOMAIN y = E
  BY DEF ScoresOf
<1>2. D \in SUBSET DOMAIN per /\ E \in SUBSET DOMAIN qer
  BY DEF Usable
<1>3. \A i \in DOMAIN per : f[i] \in DOMAIN qer /\ (i \in D <=> f[i] \in E)
  BY DEF Usable, Renames
<1>4. Renames(g, D, E)
  <2>1. g \in [D -> E]
    BY <1>2, <1>3
  <2>2. \A i, j \in D : g[i] = g[j] => i = j
    BY <1>2 DEF Renames
  <2>3. \A k \in E : \E i \in D : g[i] = k
    BY <1>2, <1>3 DEF Renames
  <2> HIDE DEF g, D, E
  <2>4. QED BY <2>1, <2>2, <2>3 DEF Renames
<1>5. \A i \in D : y[g[i]] = x[i] /\ x[i] \in Int
  BY <1>2, <1>3 DEF ScoresOf, Usable
<1>6. \A k \in E : y[k] \in Int
  BY <1>4, <1>5 DEF Renames
<1>7. IsFiniteSet(D) /\ IsFiniteSet(E)
  BY <1>2, FS_Subset
<1>8. CASE D = {}
  <2>1. E = {}
    BY <1>4, <1>8 DEF Renames
  <2>2. QED BY <1>8, <2>1, FinalizedScore
<1>9. CASE D # {}
  <2> HIDE DEF D, E, g, x, y
  <2>1. E # {}
    BY <1>4, <1>9 DEF Renames
  <2>2. IsSample(x) /\ IsSample(y)
    BY <1>1, <1>5, <1>6, <1>7, <1>9, <2>1 DEF IsSample
  <2>3. AggregateScores(y, method) = AggregateScores(x, method)
    BY <1>1, <1>4, <1>5, <2>2, AggregateRenamed
  <2>4. QED BY <1>9, <2>1, <2>3, FinalizedScore DEF D, E, x, y
<1>10. QED BY <1>8, <1>9

\* Reversing renames places.
LEMMA Reversed ==
  ASSUME NEW n \in Nat
  PROVE  Renames([i \in 1..n |-> n - i + 1], 1..n, 1..n)
<1> DEFINE f == [i \in 1..n |-> n - i + 1]
<1>1. f \in [1..n -> 1..n] /\ \A i, j \in 1..n : f[i] = f[j] => i = j
  OBVIOUS
<1>2. \A k \in 1..n : n - k + 1 \in 1..n /\ f[n - k + 1] = k
  OBVIOUS
<1> HIDE DEF f
<1>3. QED BY <1>1, <1>2 DEF Renames, f

-----------------------------------------------------------------------------
\* Only an answer that could be used has a score.
LEMMA InvokedScore ==
  ASSUME NEW r \in Response, NEW j \in Judges
  PROVE  /\ InvokeSingle(r, j).score \in Int \cup {NoScore}
         /\ InvokeSingle(r, j).score # NoScore => InvokeSingle(r, j).outcome \in {"ok", "ok_nonzero"}
<1>1. CASE r \in [how : {"timeout", "not_found", "oserror"}]
  BY <1>1 DEF InvokeSingle, NoAnswer, Failure
<1>2. CASE r \in [how : {"noise"}, clean : BOOLEAN]
  BY <1>2 DEF InvokeSingle, Unparsed, Failure
<1>3. CASE r \in [how : {"answer"}, clean : BOOLEAN, says : [Judges -> Says]]
  <2>1. r.says[j] \in Says
    BY <1>3
  <2>2. CASE r.says[j] = Missing
    BY <1>3, <2>2 DEF InvokeSingle, Unparsed, Failure
  <2>3. CASE r.says[j] # Missing /\ r.says[j] = Garbled
    BY <1>3, <2>3 DEF InvokeSingle, Scored, Failure
  <2>4. CASE r.says[j] # Missing /\ r.says[j] # Garbled
    <3>1. r.says[j] \in Int
      BY <2>1, <2>4, ScoreAssumption DEF Says
    <3>2. InvokeSingle(r, j) = [score |-> r.says[j], outcome |-> IF r.clean THEN "ok" ELSE "ok_nonzero"]
      BY <1>3, <2>4 DEF InvokeSingle, Scored
    <3>3. QED BY <3>1, <3>2
  <2>5. QED BY <2>2, <2>3, <2>4
<1>4. QED BY <1>1, <1>2, <1>3 DEF Response

\* What a judge has answered, sample by sample.
Answered(per) ==
  /\ Len(per) \in Nat /\ Len(per) >= 1 /\ DOMAIN per = 1..Len(per)
  /\ \A i \in DOMAIN per :
       /\ per[i].score \in Int \cup {NoScore}
       /\ per[i].score # NoScore => per[i].outcome \in {"ok", "ok_nonzero"}

\* Without a usable sample, the failure reported is a most frequent one.
LEMMA NoneUsable ==
  ASSUME NEW per, Answered(per), Usable(per) = {}, NEW method
  PROVE  \A s \in ToSet(per) : Outcomes(per, s.outcome) <= Outcomes(per, Finalize(per, method).outcome)
<1> DEFINE D == DOMAIN per
           c == [i \in D |-> -Outcomes(per, per[i].outcome)]
           e == FirstLeast(c)
<1>1. IsFiniteSet(D) /\ D # {} /\ D \subseteq Int
  <2>1. D = 1..Len(per) /\ Len(per) \in Nat /\ Len(per) >= 1
    BY DEF Answered
  <2>2. IsFiniteSet(D)
    BY <2>1, FS_Interval
  <2> HIDE DEF D
  <2>3. QED BY <2>1, <2>2
<1>2. \A o : Outcomes(per, o) \in Nat
  <2> SUFFICES ASSUME NEW o PROVE Outcomes(per, o) \in Nat
    OBVIOUS
  <2>1. IsFiniteSet({i \in D : per[i].outcome = o})
    BY <1>1, FS_Subset
  <2>2. QED BY <2>1, FS_CardinalityType DEF Outcomes
<1>3. IsSample(c) /\ DOMAIN c = D
  BY <1>1, <1>2 DEF IsSample
<1>4. e \in D /\ \A k \in D : c[e] <= c[k]
  <2> HIDE DEF c
  <2>1. QED BY <1>1, <1>3, FirstLeastIs
<1>5. Finalize(per, method).outcome = per[e].outcome
  BY DEF Finalize, Failure
<1> HIDE DEF e
<1>6. \A k \in D : Outcomes(per, per[k].outcome) <= Outcomes(per, per[e].outcome)
  <2> SUFFICES ASSUME NEW k \in D PROVE Outcomes(per, per[k].outcome) <= Outcomes(per, per[e].outcome)
    OBVIOUS
  <2>1. -Outcomes(per, per[e].outcome) <= -Outcomes(per, per[k].outcome)
    BY <1>4
  <2>2. QED BY <1>2, <2>1
<1>7. QED BY <1>5, <1>6 DEF ToSet

\* With one, the score is that of a fair aggregate.
LEMMA SomeUsable ==
  ASSUME NEW per, Answered(per), Usable(per) # {}, NEW method \in Aggregates
  PROVE  LET f == Finalize(per, method)
             x == ScoresOf(per)
             n == Cardinality(DOMAIN x)
         IN /\ f.score \in Int /\ n \in Nat /\ n > 0
            /\ f.outcome \in {"ok", "ok_nonzero"}
            /\ \E i \in DOMAIN x : x[i] <= f.score
            /\ \E i \in DOMAIN x : x[i] >= f.score
            /\ method = "median" => /\ 2 * Cardinality(Under(x, f.score)) <= n
                                    /\ 2 * Cardinality(Over(x, f.score)) <= n
            /\ method = "mean" => 2 * n * f.score - n <= 2 * Total(x) /\ 2 * Total(x) < 2 * n * f.score + n
            /\ method = "majority" => \A y \in Range(x) : Count(x, y) <= Count(x, f.score)
<1> DEFINE x == ScoresOf(per)
           D == Usable(per)
           score == AggregateScores(x, method)
           n == Cardinality(DOMAIN x)
           far == [i \in D |-> Distance(per[i].score, score)]
           e == FirstLeast(far)
<1>1. IsFiniteSet(D) /\ D \subseteq Int /\ DOMAIN x = D
  <2>1. DOMAIN per = 1..Len(per) /\ Len(per) \in Nat
    BY DEF Answered
  <2>2. IsFiniteSet(DOMAIN per)
    BY <2>1, FS_Interval
  <2>3. QED BY <2>1, <2>2, FS_Subset DEF Usable, ScoresOf
<1>2. \A i \in D : /\ x[i] = per[i].score /\ x[i] \in Int
                   /\ per[i].outcome \in {"ok", "ok_nonzero"}
  BY DEF Answered, Usable, ScoresOf
<1>3. IsSample(x)
  BY <1>1, <1>2 DEF IsSample
<1>4. n \in Nat /\ n > 0
  BY <1>3, SampleCounts
<1> HIDE DEF x, n
<1>5. /\ score \in Int
      /\ \E i \in DOMAIN x : x[i] <= score
      /\ \E i \in DOMAIN x : x[i] >= score
      /\ method = "median" => /\ 2 * Cardinality(Under(x, score)) <= n
                              /\ 2 * Cardinality(Over(x, score)) <= n
      /\ method = "mean" => 2 * n * score - n <= 2 * Total(x) /\ 2 * Total(x) < 2 * n * score + n
      /\ method = "majority" => \A y \in Range(x) : Count(x, y) <= Count(x, score)
  <2>1. CASE method = "median"
    <3>1. score = Median(x)
      BY <2>1 DEF AggregateScores
    <3> HIDE DEF score
    <3>2. QED BY <1>3, <2>1, <3>1, MedianIs DEF n
  <2>2. CASE method = "mean"
    <3>1. score = HalfUp(Total(x), n)
      BY <2>2 DEF AggregateScores, n
    <3> HIDE DEF score
    <3>2. QED BY <1>3, <2>2, <3>1, MeanIs DEF n
  <2>3. CASE method = "majority"
    <3>1. score = Majority(x)
      BY <2>3 DEF AggregateScores
    <3> HIDE DEF score
    <3>2. PICK i \in DOMAIN x : x[i] = score
      BY <1>3, <3>1, MajorityIs
    <3>3. \A k \in DOMAIN x : Count(x, score) > Count(x, x[k]) \/ Count(x, score) = Count(x, x[k])
      BY <1>3, <3>1, MajorityIs
    <3>4. \A v : Count(x, v) \in Nat
      BY <1>3, SampleCounts
    <3>5. \A k \in DOMAIN x : Count(x, x[k]) <= Count(x, score)
      BY <3>3, <3>4
    <3>6. \A y \in Range(x) : Count(x, y) <= Count(x, score)
      BY <3>5 DEF Range
    <3>7. score \in Int /\ x[i] <= score /\ x[i] >= score
      BY <1>1, <1>2, <3>2
    <3>8. QED BY <2>3, <3>2, <3>6, <3>7
  <2>4. QED BY <2>1, <2>2, <2>3 DEF Aggregates
<1>6. Finalize(per, method).score = score /\ Finalize(per, method).outcome = per[e].outcome
  BY DEF Finalize, x
<1>7. e \in D
  <2>1. \A i \in D : Distance(per[i].score, score) \in Int
    <3> HIDE DEF score
    <3>1. QED BY <1>2, <1>5 DEF Distance
  <2>2. IsSample(far) /\ DOMAIN far = D
    <3> HIDE DEF score
    <3>1. QED BY <1>1, <2>1 DEF IsSample
  <2> HIDE DEF far
  <2>3. QED BY <1>1, <2>2, FirstLeastIs
<1> HIDE DEF e, score
<1>8. QED BY <1>2, <1>4, <1>5, <1>6, <1>7 DEF x, n

\* The score of a judge is a fair aggregate of however many samples, in whatever
\* order they came, and its outcome that of a sample or of the most frequent failure
\* (_aggregate_scores, _finalize).
THEOREM SamplesAgreeHolds == Spec => []SamplesAgree
<1>1. ASSUME Inv, step = "sample", NEW j \in Judges, NEW m \in Aggregates
      PROVE  LET per == out.single[j]
                 f == Finalize(per, m)
                 x == ScoresOf(per)
                 n == Cardinality(DOMAIN x)
                 number(P(_)) == Cardinality({i \in DOMAIN x : P(x[i])})
             IN /\ (f.score = NoScore) <=> (n = 0)
                /\ f.score = Finalize(Reverse(per), m).score
                /\ f.score = Finalize(Tail(per) \o <<Head(per)>>, m).score
                /\ n = 0 => \A s \in ToSet(per) : Outcomes(per, s.outcome) <= Outcomes(per, f.outcome)
                /\ n > 0 =>
                     /\ f.outcome \in {"ok", "ok_nonzero"}
                     /\ \E i \in DOMAIN x : x[i] <= f.score
                     /\ \E i \in DOMAIN x : x[i] >= f.score
                     /\ m = "median" => /\ 2 * number(LAMBDA y : y < f.score) <= n
                                        /\ 2 * number(LAMBDA y : y > f.score) <= n
                     /\ m = "mean" => 2 * n * f.score - n <= 2 * Total(x) /\ 2 * Total(x) < 2 * n * f.score + n
                     /\ m = "majority" => \A y \in Range(x) : Count(x, y) <= Count(x, f.score)
  <2> DEFINE per == out.single[j]
             f == Finalize(per, m)
             x == ScoresOf(per)
             n == Cardinality(DOMAIN x)
  <2>1. /\ in \in Seq(Response) /\ in # <<>>
        /\ per = [i \in DOMAIN in |-> InvokeSingle(in[i], j)]
    BY <1>1 DEF Inv, Sampled
  <2>2. /\ DOMAIN per = 1..Len(in) /\ Len(in) \in Nat /\ Len(in) >= 1
        /\ \A i \in DOMAIN per : per[i] = InvokeSingle(in[i], j) /\ in[i] \in Response
    BY <2>1
  <2> DEFINE X == {per[i] : i \in DOMAIN per}
  <2>3. per \in Seq(X) /\ per # <<>> /\ Len(per) = Len(in)
    <3>1. per = [i \in 1..Len(in) |-> per[i]]
      BY <2>1, <2>2
    <3>2. \A i \in 1..Len(in) : per[i] \in X
      BY <2>2
    <3> HIDE DEF per, X
    <3>3. per \in [1..Len(in) -> X]
      BY <3>1, <3>2
    <3>4. QED BY <2>2, <3>3
  <2>4. \A i \in DOMAIN per :
          /\ per[i].score \in Int \cup {NoScore}
          /\ per[i].score # NoScore => per[i].outcome \in {"ok", "ok_nonzero"}
    BY <1>1, <2>2, InvokedScore
  <2> HIDE DEF per
  <2>5. Answered(per)
    BY <2>2, <2>3, <2>4 DEF Answered
  <2>6. IsFiniteSet(DOMAIN per)
    BY <2>2, FS_Interval
  <2>7. f.score = Finalize(Reverse(per), m).score
    <3> DEFINE q == Reverse(per)  g == [i \in 1..Len(in) |-> Len(in) - i + 1]
    <3>1. q = [i \in 1..Len(in) |-> per[Len(in) - i + 1]]
      BY <2>3 DEF Reverse
    <3>2. Renames(g, DOMAIN per, DOMAIN q)
      BY <2>2, <3>1, Reversed
    <3>3. \A i \in DOMAIN per : q[g[i]] = per[i]
      BY <2>2, <3>1
    <3>4. IsFiniteSet(DOMAIN q)
      BY <2>2, <2>6, <3>1
    <3> HIDE DEF q, g
    <3>5. Finalize(q, m).score = Finalize(per, m).score
      BY <2>4, <2>6, <3>2, <3>3, <3>4, FinalizedReordered
    <3>6. QED BY <3>5 DEF q
  <2>8. f.score = Finalize(Tail(per) \o <<Head(per)>>, m).score
    <3> DEFINE q == Tail(per) \o <<Head(per)>>  g == Rotated(Len(per))
    <3>1. /\ DOMAIN q = DOMAIN per
          /\ q = [i \in DOMAIN per |-> per[g[i]]]
          /\ Renames(g, DOMAIN per, DOMAIN per)
      <4> HIDE DEF X
      <4>1. QED BY <2>3, Rotation
    <3> HIDE DEF q, g
    <3>2. Renames(g, DOMAIN q, DOMAIN per) /\ \A i \in DOMAIN q : per[g[i]] = q[i]
      BY <3>1
    <3>3. ASSUME NEW i \in DOMAIN q PROVE q[i].score \in Int \cup {NoScore}
      <4>1. g[i] \in DOMAIN per /\ q[i] = per[g[i]]
        BY <3>1 DEF Renames
      <4>2. QED BY <2>4, <4>1
    <3>4. IsFiniteSet(DOMAIN q)
      BY <2>6, <3>1
    <3>5. Finalize(per, m).score = Finalize(q, m).score
      BY <2>6, <3>2, <3>3, <3>4, FinalizedReordered
    <3>6. QED BY <3>5 DEF q
  <2>9. CASE Usable(per) = {}
    <3>1. n = 0
      BY <2>9, FS_EmptySet DEF ScoresOf
    <3>2. f.score = NoScore
      BY <2>9, FinalizedScore
    <3>3. \A s \in ToSet(per) : Outcomes(per, s.outcome) <= Outcomes(per, f.outcome)
      BY <2>5, <2>9, NoneUsable
    <3> HIDE DEF f, x, n
    <3>4. QED BY <2>7, <2>8, <3>1, <3>2, <3>3 DEF f, x, n, per
  <2>10. CASE Usable(per) # {}
    <3>1. /\ f.score \in Int /\ n \in Nat /\ n > 0
          /\ f.outcome \in {"ok", "ok_nonzero"}
          /\ \E i \in DOMAIN x : x[i] <= f.score
          /\ \E i \in DOMAIN x : x[i] >= f.score
          /\ m = "median" => /\ 2 * Cardinality(Under(x, f.score)) <= n
                             /\ 2 * Cardinality(Over(x, f.score)) <= n
          /\ m = "mean" => 2 * n * f.score - n <= 2 * Total(x) /\ 2 * Total(x) < 2 * n * f.score + n
          /\ m = "majority" => \A y \in Range(x) : Count(x, y) <= Count(x, f.score)
      BY <1>1, <2>5, <2>10, SomeUsable
    <3>2. f.score # NoScore
      BY <3>1, ScoreAssumption
    <3> HIDE DEF f, x, n
    <3>3. n # 0
      BY <3>1
    <3>4. QED BY <2>7, <2>8, <3>1, <3>2, <3>3 DEF f, x, n, per, Under, Over
  <2>11. QED BY <2>9, <2>10
<1>2. Inv => SamplesAgree
  <2> SUFFICES ASSUME Inv, step = "sample" PROVE SamplesAgree
    BY DEF SamplesAgree
  <2>1. QED BY <1>1 DEF SamplesAgree
<1>3. QED BY <1>2, Invariance, PTL

=============================================================================
