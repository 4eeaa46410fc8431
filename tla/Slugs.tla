-------------------------------- MODULE Slugs --------------------------------
(***************************************************************************)
(* File names of the results of a run, and which of them the report of a   *)
(* task takes its scores from.  Names of tasks, variants and fixtures are  *)
(* words joined by "_", the character that also joins them in a slug, so a *)
(* name and a slug are sequences of words.  A slug is marked where the     *)
(* epoch begins, by a word that begins with "epoch", and where the fixture *)
(* does; a name may hold either mark (_NAME_RE allows it).  (That names    *)
(* hold no ".scores" and no ".judges", which the report deletes wherever   *)
(* they stand in a stem, is assumed.)                                      *)
(***************************************************************************)
EXTENDS Sequences, SequencesExt, FiniteSets

CONSTANTS
  EpochTexts,   \* what can follow "epoch" in a word
  FixtureMark   \* FIXTURE_MARKER, as one word

EpochWord(text) == <<"epoch", text>>
EpochWords == {EpochWord(text) : text \in EpochTexts}

ASSUME FixtureMarkAssumption == FixtureMark \notin EpochWords

\* run_slug; the label of the fixture is empty for a task with one fixture.
RunSlug(task, variant, fixture, epoch) ==
  task \o variant \o <<EpochWord(epoch)>>
    \o (IF fixture = <<>> THEN <<>> ELSE <<FixtureMark>> \o fixture)

\* str.startswith(task + "_"), str.endswith("_" + variant): something is left.
Begins(stem, task) == IsStrictPrefix(task, stem)
Ends(stem, variant) == IsStrictSuffix(variant, stem)

\* rsplit("_epoch", 1): the last word with the mark, the first word of all not counted.
EpochMarks(stem) == {i \in 2..Len(stem) : stem[i] \in EpochWords}
LastMark(stem) == CHOOSE i \in EpochMarks(stem) : \A j \in EpochMarks(stem) : j <= i
NameVariant(stem) == SubSeq(stem, 1, LastMark(stem) - 1)
EpochPart(stem) == SubSeq(stem, LastMark(stem), Len(stem))

\* split_fixture: at the first mark.
FixtureMarks(part) == {i \in DOMAIN part : part[i] = FixtureMark}
SplitFixture(part) ==
  IF FixtureMarks(part) = {} THEN [epoch |-> part, fixture |-> <<>>]
  ELSE LET i == CHOOSE i \in FixtureMarks(part) : \A j \in FixtureMarks(part) : i <= j
       IN [epoch |-> SubSeq(part, 1, i - 1), fixture |-> SubSeq(part, i + 1, Len(part))]

Matches(stem, variants) == {v \in variants : Ends(NameVariant(stem), v)}

Longest(names) == CHOOSE v \in names : \A w \in names : Len(w) <= Len(v)

\* Mutant: the shortest of the variants that fit.
ParseShortest(stem, variants) ==
  [variant |-> CHOOSE v \in Matches(stem, variants) :
                 \A w \in Matches(stem, variants) : Len(v) <= Len(w),
   split |-> SplitFixture(EpochPart(stem))]

\* parse_slug: the longest of the variants that fit.
ParseSlug(stem, variants) ==
  [variant |-> Longest(Matches(stem, variants)), split |-> SplitFixture(EpochPart(stem))]

\* _load_judge_raw: the files whose scores the report of the task, which lists
\* the variants, shows for one cell (when there are several, the last that is read).
ShownFor(task, variant, fixture, epoch, variants, slugs) ==
  {s \in slugs :
     /\ Begins(s, task)
     /\ Matches(s, variants) # {}
     /\ ParseSlug(s, variants) =
          [variant |-> variant, split |-> [epoch |-> <<EpochWord(epoch)>>, fixture |-> fixture]]}

=============================================================================
