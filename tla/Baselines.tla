------------------------------ MODULE Baselines ------------------------------
(***************************************************************************)
(* `baseline save`, `baseline delete` and `analyze --baseline` on runs     *)
(* that are executed, resumed and killed meanwhile, by the docker runner   *)
(* or by the replay runner, whose traces are no measurements, and that     *)
(* share a result cache (`run --cache`) whose keys do not tell the two     *)
(* apart.  Each command reads traces first and the manifest's replayed     *)
(* marker later.                                                           *)
(*                                                                         *)
(* One baseline name (names are files of their own), and one metric: with  *)
(* several, each is compared by itself and any can be a regression.  No    *)
(* task has a metric gate and no other gate is asked for (module Analyze   *)
(* has those).                                                             *)
(***************************************************************************)
EXTENDS Naturals, FiniteSets

CONSTANTS
  Runs,
  Cells,           \* pairs of a variant and an epoch
  Shaky,           \* cells whose execution may fail, or leave no trace
  Levels,          \* values of the metric; lower is better
  Recorded,        \* bound: its value in every recording that is replayed
  MinReliableN,    \* MIN_RELIABLE_N
  Commands,        \* bound: commands given, one at most of each
  MaxInvocations,  \* bound: invocations of `run`
  MaxCached,       \* bound: how many of them, the first ones, may have --cache,
                   \* when they measure what the recording has
  None,            \* no trace, manifest, invocation or file
  Torn             \* a file whose writing was cut short

Sample == [level : Levels, synthetic : BOOLEAN]
Traces == [Cells -> Sample \cup {None}]
Manifest == [done : SUBSET Cells, replayed : BOOLEAN]
Snapshot == [run : Runs, replayed : BOOLEAN, traces : Traces]
Cache == [stored : SUBSET Cells, traces : Traces]
Invocation == [run : Runs, synthetic : BOOLEAN, level : Levels, keyed : SUBSET Cells,
               todo : SUBSET Cells, fresh : SUBSET Cells, reused : SUBSET Cells]

ASSUME BaselinesAssumption ==
  /\ Shaky \subseteq Cells /\ IsFiniteSet(Cells) /\ Levels \subseteq Nat /\ Recorded \in Levels
  /\ MinReliableN \in Nat \ {0, 1} /\ MaxInvocations \in Nat /\ MaxCached \in Nat
  /\ None \notin Sample \cup Manifest \cup Invocation

VARIABLES
  traces,    \* traces[r]: the trace files of a run
  manifest,  \* manifest[r], None when it is missing or unreadable
  cache,     \* the cells that have an entry, and the trace files in the entries
  inv,       \* the invocation of `run` under way
  launched,  \* how many there were
  snapshot,  \* the baseline's file
  cmd,       \* cmd[p]: what a command holds, and in the end its result
  unmarked   \* history: runs whose synthetic traces were left, or looked at,
             \* before a manifest said that they are synthetic, or that the
             \* docker runner took from the cache

vars == <<traces, manifest, cache, inv, launched, snapshot, cmd, unmarked>>

Idle == [pc |-> "new"]
Busy == [pc : {"saving", "writing"}, run : Runs, got : Traces]
          \cup [pc : {"comparing"}, run : Runs, got : Traces, rows : BOOLEAN]
Over == [pc : {"done", "killed"}]
          \cup [pc : {"analyzed"}, run : Runs, got : Traces, rows : BOOLEAN, allowEmpty : BOOLEAN,
                base : Snapshot \cup {None, Torn}, banner : BOOLEAN, outcome : {"green", "red"}]

TypeOK ==
  /\ traces \in [Runs -> Traces]
  /\ manifest \in [Runs -> Manifest \cup {None}]
  /\ cache \in Cache
  /\ inv \in Invocation \cup {None}
  /\ launched \in 0..MaxInvocations
  /\ snapshot \in Snapshot \cup {None, Torn}
  /\ cmd \in [Commands -> {Idle} \cup Busy \cup Over]
  /\ unmarked \subseteq Runs

Nothing == [c \in Cells |-> None]

Init ==
  /\ traces = [r \in Runs |-> Nothing]
  /\ manifest = [r \in Runs |-> None]
  /\ cache = [stored |-> {}, traces |-> Nothing]
  /\ inv = None /\ launched = 0
  /\ snapshot = None
  /\ cmd = [p \in Commands |-> Idle]
  /\ unmarked = {}

Variants == {c[1] : c \in Cells}
HasMetrics(t) == \E c \in Cells : t[c] # None
Synthetic(t) == \E c \in Cells : t[c] # None /\ t[c].synthetic

-----------------------------------------------------------------------------
UnderWay(p) == cmd[p].pc \in {"saving", "writing", "comparing"}

\* load_manifest_replayed: without a readable manifest a run passes for real.
Replayed(r) == manifest[r] # None /\ manifest[r].replayed

Done(r) == IF manifest[r] = None THEN {} ELSE manifest[r].done

\* `to` after the trace files of some cells were copied over it; one that is
\* not there leaves the one that is.
Copied(from, to, cells) == [c \in Cells |-> IF c \in cells /\ from[c] # None THEN from[c] ELSE to[c]]

\* With --cache the cells of the variants whose image is known have a key.
Keyed == {{c \in Cells : c[1] \in known} : known \in SUBSET Variants}

\* Cells that are not done and have an entry are not executed.
Hits(r, keyed) == (keyed \cap cache.stored) \ Done(r)

\* `run`, or `run --resume` when there is something to resume, after
\* resolve_cache_hits.  All cells of an invocation measure the same.  (Bound: an
\* invocation and a command overlap only on one run; on two, their steps commute.)
Launch(r, synthetic, keyed, level) ==
  /\ inv = None /\ launched < MaxInvocations
  /\ \A p \in Commands : UnderWay(p) => cmd[p].run = r
  /\ synthetic => level = Recorded
  /\ keyed # {} => launched < MaxCached /\ level = Recorded
  /\ launched' = launched + 1
  /\ inv' = [run |-> r, synthetic |-> synthetic, level |-> level, keyed |-> keyed,
             todo |-> (Cells \ Done(r)) \ Hits(r, keyed), fresh |-> {}, reused |-> Hits(r, keyed)]
  /\ traces' = [traces EXCEPT ![r] = Copied(cache.traces, @, Hits(r, keyed))]
  /\ unmarked' = IF ~synthetic /\ Synthetic(Copied(cache.traces, Nothing, Hits(r, keyed)))
                 THEN unmarked \cup {r} ELSE unmarked
  /\ UNCHANGED <<manifest, cache, snapshot, cmd>>

\* The trace file of an earlier execution stays when this one leaves none.
\* (Bound: epoch by epoch.)
Execute(c) ==
  /\ inv # None /\ c \in inv.todo /\ \A d \in inv.todo : c[2] <= d[2]
  /\ \E completed, traced \in (IF c \in Shaky THEN BOOLEAN ELSE {TRUE}) :
       /\ inv' = [inv EXCEPT !.todo = @ \ {c}, !.fresh = IF completed THEN @ \cup {c} ELSE @]
       /\ traces' = IF traced
                    THEN [traces EXCEPT ![inv.run][c] =
                            [level |-> inv.level, synthetic |-> inv.synthetic]]
                    ELSE traces
  /\ UNCHANGED <<manifest, cache, launched, snapshot, cmd, unmarked>>

\* store_fresh_results, for some of the cells: what their trace files are by now.
\* (Bound: an entry is written whole; module RunCache has its parts.)
Store(cells) ==
  cache' = [stored |-> cache.stored \cup cells,
            traces |-> Copied(traces[inv.run], cache.traces, cells)]

\* Mutant: what the marker said before is not looked at.
MarkerOwn(i) == i.synthetic

\* A resume never drops the marker.
Marker(i) == i.synthetic \/ Replayed(i.run)

Record ==
  /\ inv # None /\ inv.todo = {}
  /\ Store(inv.fresh \cap inv.keyed)
  /\ manifest' = [manifest EXCEPT ![inv.run] =
                    [done |-> Done(inv.run) \cup inv.fresh \cup inv.reused, replayed |-> Marker(inv)]]
  /\ inv' = None
  /\ UNCHANGED <<traces, launched, snapshot, cmd, unmarked>>

\* Synthetic traces of r are in its directory, or in the hands of a command.
Around(r) ==
  \/ Synthetic(traces[r])
  \/ \E p \in Commands : UnderWay(p) /\ cmd[p].run = r /\ Synthetic(cmd[p].got)

\* Killed before the manifest is written, when some entries may be stored, or
\* while it is.
KillRun ==
  /\ inv # None
  /\ \E stored \in SUBSET (IF inv.todo = {} THEN inv.fresh \cap inv.keyed ELSE {}) : Store(stored)
  /\ manifest' \in {manifest} \cup
       (IF inv.todo = {} THEN {[manifest EXCEPT ![inv.run] = None]} ELSE {})
  /\ unmarked' = IF Around(inv.run) /\ (manifest'[inv.run] = None \/ ~manifest'[inv.run].replayed)
                 THEN unmarked \cup {inv.run} ELSE unmarked
  /\ inv' = None
  /\ UNCHANGED <<traces, launched, snapshot, cmd>>

-----------------------------------------------------------------------------
Set(p, state) == cmd' = [cmd EXCEPT ![p] = state]

\* A command has read the traces of r, while a replay may be adding some.
Seen(r) == unmarked' = IF inv # None /\ inv.run = r /\ inv.synthetic THEN unmarked \cup {r} ELSE unmarked

\* `baseline save`: load_run_metrics.  (Bound: one save at a time.)
BeginSave(p, r) ==
  /\ inv # None => inv.run = r
  /\ cmd[p] = Idle /\ \A q \in Commands : cmd[q].pc \notin {"saving", "writing"}
  /\ Set(p, [pc |-> "saving", run |-> r, got |-> traces[r]])
  /\ Seen(r)
  /\ UNCHANGED <<traces, manifest, cache, inv, launched, snapshot>>

\* save_baseline raises.
Refused(r, got) == Replayed(r) \/ ~HasMetrics(got)

\* The marker is read, and the file opened for writing unless it is refused.
DecideSave(p) ==
  /\ cmd[p].pc = "saving"
  /\ IF Refused(cmd[p].run, cmd[p].got)
     THEN Set(p, [pc |-> "done"]) /\ UNCHANGED snapshot
     ELSE Set(p, [cmd[p] EXCEPT !.pc = "writing"]) /\ snapshot' = Torn
  /\ UNCHANGED <<traces, manifest, cache, inv, launched, unmarked>>

\* It is never written for a replayed run, so the flag in it is false.
WriteSnapshot(p) ==
  /\ cmd[p].pc = "writing"
  /\ snapshot' = [run |-> cmd[p].run, replayed |-> FALSE, traces |-> cmd[p].got]
  /\ Set(p, [pc |-> "done"])
  /\ UNCHANGED <<traces, manifest, cache, inv, launched, unmarked>>

KillSave(p) ==
  /\ cmd[p].pc \in {"saving", "writing"}
  /\ Set(p, [pc |-> "killed"])
  /\ UNCHANGED <<traces, manifest, cache, inv, launched, snapshot, unmarked>>

\* `baseline delete`; without a baseline it fails, and nothing changes.  (Bound:
\* not under a save.)
Delete(p) ==
  /\ snapshot # None
  /\ cmd[p] = Idle /\ \A q \in Commands : cmd[q].pc # "writing"
  /\ snapshot' = None
  /\ Set(p, [pc |-> "done"])
  /\ UNCHANGED <<traces, manifest, cache, inv, launched, unmarked>>

-----------------------------------------------------------------------------
\* `analyze --baseline`, in CI or with --fail-on-regression.  (Without, regressions
\* are only shown.)
BeginAnalyze(p, r) ==
  /\ inv # None => inv.run = r
  /\ cmd[p] = Idle
  /\ Set(p, [pc |-> "comparing", run |-> r, got |-> traces[r], rows |-> manifest[r] # None])
  /\ Seen(r)
  /\ UNCHANGED <<traces, manifest, cache, inv, launched, snapshot>>

Of(t, v) == {c \in Cells : c[1] = v /\ t[c] # None}

\* Both samples are large enough, and resampling them can only come out on one
\* side: every difference of medians is above 0, or none is.
Reliable(b, t, v) == Cardinality(Of(b, v)) >= MinReliableN /\ Cardinality(Of(t, v)) >= MinReliableN
AllWorse(b, t, v) == \A c \in Of(b, v), d \in Of(t, v) : t[d].level > b[c].level
NoneWorse(b, t, v) == \A c \in Of(b, v), d \in Of(t, v) : t[d].level <= b[c].level

\* Mutant: any difference that counts is a regression.
RegressionsBothWays(b, t) ==
  {s \in SUBSET Variants : \A v \in Variants :
     /\ (Reliable(b, t, v) /\ (AllWorse(b, t, v) \/ NoneWorse(b, t, v))) => v \in s
     /\ v \in s => Reliable(b, t, v)}

\* build_baseline_comparisons: the sets of variants that may come out as
\* regressions.  A variant without metrics on one side is at most mentioned; a
\* correction for multiple tests takes no marker from a p-value of 0.
Regressions(b, t) ==
  {s \in SUBSET Variants : \A v \in Variants :
     /\ (Reliable(b, t, v) /\ AllWorse(b, t, v)) => v \in s
     /\ v \in s => Reliable(b, t, v) /\ ~NoneWorse(b, t, v)}

\* `allowEmpty`: the flag was given, and looked at.
Analyzed(p, allowEmpty, base, banner, outcome) ==
  Set(p, [pc |-> "analyzed", run |-> cmd[p].run, got |-> cmd[p].got, rows |-> cmd[p].rows,
          allowEmpty |-> allowEmpty, base |-> base, banner |-> banner, outcome |-> outcome])

\* Neither metrics nor, when the analysis began, a manifest.  (A manifest has a
\* row for every cell, so with one there is something to report.)
EmptyRun(c) == ~HasMetrics(c.got) /\ ~c.rows

\* The rest of run_analysis: an empty run is left before the baseline is loaded,
\* green if --allow-empty was given; a missing or corrupt baseline is an error.
Compare(p) ==
  /\ cmd[p].pc = "comparing"
  /\ IF EmptyRun(cmd[p])
       THEN \E allowEmpty \in BOOLEAN :
              Analyzed(p, allowEmpty, None, FALSE, IF allowEmpty THEN "green" ELSE "red")
     ELSE IF snapshot \in {None, Torn} THEN Analyzed(p, FALSE, snapshot, FALSE, "red")
     ELSE \E s \in Regressions(snapshot.traces, cmd[p].got) :
            Analyzed(p, FALSE, snapshot, Replayed(cmd[p].run) \/ snapshot.replayed,
                     IF s # {} THEN "red" ELSE "green")
  /\ UNCHANGED <<traces, manifest, cache, inv, launched, snapshot, unmarked>>

\* Bound: nothing more happens once an analysis is over, which changes none of
\* the files here, or all commands are.
AllOver ==
  \/ \E p \in Commands : cmd[p].pc = "analyzed"
  \/ \A p \in Commands : cmd[p].pc \in {"done", "killed"}

Rest == AllOver /\ UNCHANGED vars

Run ==
  /\ ~AllOver
  /\ \/ \E r \in Runs, synthetic \in BOOLEAN, keyed \in Keyed, level \in Levels :
          Launch(r, synthetic, keyed, level)
     \/ \E c \in Cells : Execute(c)
     \/ Record \/ KillRun

Command(p) ==
  /\ ~AllOver
  /\ \/ \E r \in Runs : BeginSave(p, r) \/ BeginAnalyze(p, r)
     \/ DecideSave(p) \/ WriteSnapshot(p) \/ KillSave(p) \/ Delete(p) \/ Compare(p)

Next == Run \/ (\E p \in Commands : Command(p)) \/ Rest

Spec == Init /\ [][Next]_vars

-----------------------------------------------------------------------------
(* Properties. *)

\* The firewall of docs/configuration.md: no baseline holds a synthetic trace,
\* and no analysis shows or compares with one under no banner, whatever was
\* resumed and reused with which runner in between.  There are three exceptions: a
\* replay was killed before its manifest said so (or while that was rewritten); it
\* was looked at while it ran; or `run --cache` on the docker runner reused what a
\* replay had stored (save_baseline, load_manifest_replayed, run_analysis).
Firewall ==
  LET marked(r, t) == Synthetic(t) => r \in unmarked
  IN /\ snapshot \notin {None, Torn} => marked(snapshot.run, snapshot.traces)
     /\ \A p \in Commands : cmd[p].pc = "analyzed" =>
          \/ cmd[p].banner \/ cmd[p].base \in {None, Torn}
          \/ marked(cmd[p].run, cmd[p].got) /\ marked(cmd[p].base.run, cmd[p].base.traces)

\* The regression gate fails closed, and only for a reason.  An analysis is
\* green without a whole baseline only with --allow-empty, of a run that had no
\* metrics and no manifest when it began; with one, it is never green when every
\* trace of a variant is worse than every one of the baseline's and there are
\* enough of both, and never red when no trace is worse than any of the
\* baseline's, however the files were torn, replaced and resumed in between
\* (build_baseline_comparisons, run_analysis).
RegressionGate ==
  \A p \in Commands : cmd[p].pc = "analyzed" =>
    LET base == cmd[p].base
        got == cmd[p].got
    IN IF base \in {None, Torn}
       THEN cmd[p].outcome = "green" => cmd[p].allowEmpty /\ ~cmd[p].rows /\ ~HasMetrics(got)
       ELSE /\ cmd[p].outcome = "green" =>
                 \A v \in Variants : Reliable(base.traces, got, v) => ~AllWorse(base.traces, got, v)
            /\ cmd[p].outcome = "red" =>
                 \E c, d \in Cells : /\ c[1] = d[1] /\ base.traces[c] # None /\ got[d] # None
                                     /\ got[d].level > base.traces[c].level

=============================================================================
