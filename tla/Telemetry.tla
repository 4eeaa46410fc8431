------------------------------ MODULE Telemetry ------------------------------
(***************************************************************************)
(* What one trace measures: extract_metrics makes numbers of its tags, and *)
(* says which of them the trace really has; eval_metric compares one with  *)
(* a threshold.  A trace has the tags of its root span and, of every chat  *)
(* span, those of its usage.  A tag is a number, absent, or no number.     *)
(* Tools and durations come from the structure of the trace and are always *)
(* there.                                                                  *)
(***************************************************************************)
EXTENDS Integers, Sequences, SequencesExt

CONSTANTS NoTag, BadTag   \* an absent tag; "?", or whatever is no number

Numeric(v) == v \notin {NoTag, BadTag}

\* int_tag and float_tag: the value shown, and whether it is a measurement.
Measured(v) == [value |-> IF Numeric(v) THEN v ELSE 0, available |-> Numeric(v)]

TagsOf(chats, key) == [i \in DOMAIN chats |-> chats[i][key]]
SumOf(tags) == FoldSeq(LAMBDA v, sum : Measured(v).value + sum, 0, tags)

\* Mutant: one measurement is enough.
SumRequiredAny(tags) ==
  [value |-> SumOf(tags), available |-> \E i \in DOMAIN tags : Numeric(tags[i])]

\* sum_required_int_tag: every chat span must have it, and there must be one.
SumRequired(tags) ==
  [value |-> SumOf(tags),
   available |-> tags # <<>> /\ \A i \in DOMAIN tags : Numeric(tags[i])]

\* sum_optional_int_tag: a turn without a cache hit has no such tag.
SumOptional(tags) == [value |-> SumOf(tags), available |-> tags # <<>>]

Plus(a, b) == [value |-> a.value + b.value, available |-> a.available /\ b.available]

\* extract_metrics and the accessors of metric_value, for a trace with a root.
MetricNames == {"turns", "cost", "input", "output", "cache", "total", "tools"}
MetricValue(t, name) ==
  LET input == SumRequired(TagsOf(t.chats, "input"))
      output == SumRequired(TagsOf(t.chats, "output"))
  IN CASE name = "turns" -> Measured(t.turns)
       [] name = "cost" -> Measured(t.cost)
       [] name = "input" -> input
       [] name = "output" -> output
       [] name = "cache" -> SumOptional(TagsOf(t.chats, "cache"))
       [] name = "total" -> Plus(input, output)
       [] name = "tools" -> Measured(t.tools)

Operators == {"<", "<=", ">", ">=", "==", "!="}
Holds(x, op, y) ==
  CASE op = "<" -> x < y [] op = "<=" -> x <= y [] op = ">" -> x > y
    [] op = ">=" -> x >= y [] op = "==" -> x = y [] op = "!=" -> x # y

\* eval_metric; a trace without a root span yields no metrics, and no gate passes.
Passes(t, name, op, threshold) ==
  /\ t.root /\ MetricValue(t, name).available
  /\ Holds(MetricValue(t, name).value, op, threshold)

=============================================================================
