-------------------------- MODULE Baselines_proofs --------------------------
(***************************************************************************)
(* The firewall between synthetic and real runs, for any runs, cells,      *)
(* commands and numbers of invocations.                                    *)
(***************************************************************************)
EXTENDS Baselines, TLAPS

\* Synthetic traces of r are excused, or r has a marker.
Excused(r, t) == Synthetic(t) => r \in unmarked
Marked(r, t) == Synthetic(t) => r \in unmarked \/ Replayed(r)

\* Traces of a run are marked, or will be by the invocation that makes them.
RunsInv ==
  /\ traces \in [Runs -> Traces]
  /\ manifest \in [Runs -> Manifest \cup {None}]
  /\ inv = None \/ inv \in Invocation
  /\ cache \in Cache
  /\ \A r \in Runs : Marked(r, traces[r]) \/ (inv # None /\ inv.run = r /\ inv.synthetic)

\* A command holds marked traces, and writes or shows them only if they are excused
\* or come with a banner.
Held(c) ==
  /\ c.pc \in {"new", "saving", "writing", "comparing", "done", "killed", "analyzed"}
  /\ c.pc \in {"saving", "writing", "comparing"} =>
       c \in Busy /\ Marked(c.run, c.got)
  /\ c.pc = "writing" => Excused(c.run, c.got)
  /\ c.pc = "analyzed" => \/ c.banner \/ c.base \in {None, Torn}
                          \/ Excused(c.run, c.got) /\ Excused(c.base.run, c.base.traces)

CommandsInv ==
  /\ DOMAIN cmd = Commands
  /\ \A p \in Commands : Held(cmd[p])
  /\ snapshot \notin {None, Torn} => Excused(snapshot.run, snapshot.traces)

-----------------------------------------------------------------------------
LEMMA InitInv == Init => RunsInv /\ CommandsInv
BY BaselinesAssumption
   DEF Init, Cache, RunsInv, CommandsInv, Held, Marked, Excused, Synthetic, Traces, Nothing, Idle

\* What is recorded says synthetic if the invocation is, or the manifest did.
LEMMA RecordMade ==
  ASSUME RunsInv, Record
  PROVE  /\ manifest' \in [Runs -> Manifest \cup {None}] /\ inv.run \in Runs
         /\ \A r \in Runs : Replayed(r)' <=> (Replayed(r) \/ (r = inv.run /\ inv.synthetic))
<1> USE BaselinesAssumption
<1> DEFINE m == [done |-> Done(inv.run) \cup inv.fresh \cup inv.reused, replayed |-> Marker(inv)]
<1>1. inv \in Invocation /\ manifest' = [manifest EXCEPT ![inv.run] = m]
  BY DEF Record, RunsInv
<1>2. inv.run \in Runs /\ inv.fresh \cup inv.reused \in SUBSET Cells /\ inv.synthetic \in BOOLEAN
  BY <1>1 DEF Invocation
<1>3. Done(inv.run) \in SUBSET Cells
  BY <1>2 DEF Done, RunsInv, Manifest
<1>4. Marker(inv) \in BOOLEAN
  BY <1>2 DEF Marker, Replayed
<1>5. m \in Manifest /\ m # None /\ m.replayed = Marker(inv)
  <2>1. m \in Manifest
    BY <1>2, <1>3, <1>4 DEF Manifest
  <2> QED
    BY <2>1
<1>6. manifest'[inv.run] = m /\ \A r \in Runs \ {inv.run} : manifest'[r] = manifest[r]
  <2> HIDE DEF m
  <2> QED
    BY <1>1, <1>2 DEF RunsInv
<1>7. manifest' \in [Runs -> Manifest \cup {None}]
  <2> HIDE DEF m
  <2> QED
    BY <1>1, <1>2, <1>5 DEF RunsInv
<1>8. ASSUME NEW r \in Runs
      PROVE  Replayed(r)' <=> (Replayed(r) \/ (r = inv.run /\ inv.synthetic))
  <2>1. CASE r = inv.run
    <3>1. Replayed(r)' <=> Marker(inv)
      <4> HIDE DEF m
      <4> QED
        BY <1>5, <1>6, <2>1 DEF Replayed
    <3> QED
      BY <2>1, <3>1 DEF Marker
  <2>2. CASE r # inv.run
    BY <1>6, <2>2 DEF Replayed
  <2> QED
    BY <2>1, <2>2
<1> QED
  BY <1>2, <1>7, <1>8

\* Nobody loses an excuse, and only a kill takes a marker away.
LEMMA MarkersStay ==
  ASSUME RunsInv, [Next]_vars
  PROVE  /\ unmarked \subseteq unmarked'
         /\ \A r \in Runs : Replayed(r) => \/ Replayed(r)'
                                           \/ r \in unmarked' \/ ~Around(r)
<1> USE BaselinesAssumption
<1>1. CASE Record
  <2>1. \A r \in Runs : Replayed(r) => Replayed(r)'
    BY <1>1, RecordMade
  <2> QED
    BY <1>1, <2>1 DEF Record
<1>2. CASE KillRun
  <2>1. unmarked \subseteq unmarked'
    BY <1>2 DEF KillRun
  <2>2. SUFFICES ASSUME NEW r \in Runs, Replayed(r), ~Replayed(r)', Around(r)
                 PROVE  r \in unmarked'
    BY <2>1
  <2>3. manifest' = [manifest EXCEPT ![inv.run] = None]
    BY <1>2, <2>2 DEF KillRun, Replayed
  <2>4. r = inv.run
    BY <2>2, <2>3 DEF Replayed, RunsInv
  <2>5. manifest'[inv.run] = None
    BY <2>3, <2>4 DEF RunsInv
  <2> QED
    BY <1>2, <2>2, <2>4, <2>5 DEF KillRun
<1>3. CASE UNCHANGED manifest /\ unmarked \subseteq unmarked'
  BY <1>3 DEF Replayed
<1> QED
  BY <1>1, <1>2, <1>3
     DEF Next, Run, Command, Launch, Execute, BeginSave, Seen, DecideSave, WriteSnapshot, KillSave,
         Delete, BeginAnalyze, Compare, Rest, vars

LEMMA RunsStep == ASSUME RunsInv, [Next]_vars PROVE RunsInv'
<1> USE BaselinesAssumption
<1>0. /\ unmarked \subseteq unmarked'
      /\ \A r \in Runs : Replayed(r) => \/ Replayed(r)' \/ r \in unmarked' \/ ~Around(r)
  BY MarkersStay
<1>1. CASE \E r \in Runs, synthetic \in BOOLEAN, keyed \in Keyed, level \in Levels :
             Launch(r, synthetic, keyed, level)
  <2>1. PICK r \in Runs, synthetic \in BOOLEAN, keyed \in Keyed, level \in Levels :
          Launch(r, synthetic, keyed, level)
    BY <1>1
  <2>2. keyed \in SUBSET Cells /\ Hits(r, keyed) \in SUBSET Cells
    BY DEF Keyed, Hits
  <2>3. inv' \in Invocation /\ inv'.run = r /\ inv'.synthetic = synthetic /\ inv' # None
    <3>1. inv' \in Invocation /\ inv'.run = r /\ inv'.synthetic = synthetic
      BY <2>1, <2>2 DEF Launch, Invocation
    <3> QED
      BY <3>1
  <2>4. Copied(cache.traces, traces[r], Hits(r, keyed)) \in Traces
    BY DEF Copied, RunsInv, Cache, Traces
  <2>5. traces' = [traces EXCEPT ![r] = Copied(cache.traces, traces[r], Hits(r, keyed))]
    BY <2>1 DEF Launch
  <2>6. traces' \in [Runs -> Traces]
    BY <2>4, <2>5 DEF RunsInv
  <2>7. ASSUME NEW q \in Runs
        PROVE  Marked(q, traces[q])' \/ (inv' # None /\ inv'.run = q /\ inv'.synthetic)
    <3>1. Marked(q, traces[q])
      BY <2>1 DEF Launch, RunsInv
    <3>2. CASE q # r
      BY <2>1, <2>5, <3>1, <3>2 DEF Launch, RunsInv, Marked, Replayed, Synthetic
    <3>3. CASE q = r /\ synthetic
      BY <2>3, <3>3
    <3>4. CASE q = r /\ ~synthetic
      <4>1. Synthetic(traces'[r]) => \/ Synthetic(traces[r])
                                     \/ Synthetic(Copied(cache.traces, Nothing, Hits(r, keyed)))
        BY <2>5 DEF RunsInv, Copied, Nothing, Synthetic
      <4> QED
        BY <2>1, <3>1, <3>4, <4>1 DEF Launch, Marked, Replayed, Synthetic
    <3> QED
      BY <3>2, <3>3, <3>4
  <2> QED
    BY <2>1, <2>3, <2>6, <2>7 DEF Launch, RunsInv
<1>2. CASE \E c \in Cells : Execute(c)
  <2>1. PICK c \in Cells, completed \in BOOLEAN, traced \in BOOLEAN :
          /\ inv # None
          /\ inv' = [inv EXCEPT !.todo = @ \ {c}, !.fresh = IF completed THEN @ \cup {c} ELSE @]
          /\ traces' = IF traced
                       THEN [traces EXCEPT ![inv.run][c] =
                               [level |-> inv.level, synthetic |-> inv.synthetic]]
                       ELSE traces
          /\ UNCHANGED <<manifest, cache, unmarked>>
    BY <1>2 DEF Execute
  <2>2. inv' \in Invocation /\ inv'.run = inv.run /\ inv'.synthetic = inv.synthetic /\ inv' # None
    <3>1. inv \in Invocation
      BY <2>1 DEF RunsInv
    <3>2. inv' \in Invocation /\ inv'.run = inv.run /\ inv'.synthetic = inv.synthetic
      BY <2>1, <3>1 DEF Invocation
    <3> QED
      BY <3>2
  <2>3. [level |-> inv.level, synthetic |-> inv.synthetic] \in Sample
    BY <2>1 DEF RunsInv, Invocation, Sample
  <2>4. traces' \in [Runs -> Traces]
    BY <2>1, <2>3 DEF RunsInv, Traces
  <2>5. ASSUME NEW r \in Runs
        PROVE  Marked(r, traces[r])' \/ (inv' # None /\ inv'.run = r /\ inv'.synthetic)
    <3>1. CASE r # inv.run
      BY <2>1, <2>2, <3>1 DEF RunsInv, Marked, Replayed
    <3>2. CASE r = inv.run /\ inv.synthetic
      BY <2>2, <3>2
    <3>3. CASE r = inv.run /\ ~inv.synthetic
      <4>1. Synthetic(traces'[r]) => Synthetic(traces[r])
        BY <2>1, <3>3 DEF RunsInv, Traces, Synthetic
      <4> QED
        BY <2>1, <3>3, <4>1 DEF RunsInv, Marked, Replayed
    <3> QED
      BY <3>1, <3>2, <3>3 DEF RunsInv, Invocation
  <2> QED
    BY <2>1, <2>2, <2>4, <2>5 DEF RunsInv
<1>3. CASE Record
  <2>0. cache' \in Cache
    BY <1>3 DEF Record, RunsInv, Invocation, Store, Cache, Copied, Traces
  <2>1. /\ manifest' \in [Runs -> Manifest \cup {None}]
        /\ \A r \in Runs : Replayed(r)' <=> (Replayed(r) \/ (r = inv.run /\ inv.synthetic))
    BY <1>3, RecordMade
  <2>2. \A r \in Runs : Marked(r, traces[r])'
    BY <1>3, <2>1 DEF Record, RunsInv, Marked
  <2> QED
    BY <1>3, <2>0, <2>1, <2>2 DEF Record, RunsInv
<1>4. CASE KillRun
  <2>0. cache' \in Cache
    <3>1. PICK stored \in SUBSET Cells : Store(stored)
      BY <1>4 DEF KillRun, RunsInv, Invocation
    <3> QED
      BY <1>4, <3>1 DEF KillRun, RunsInv, Invocation, Store, Cache, Copied, Traces
  <2>1. manifest' \in [Runs -> Manifest \cup {None}]
    BY <1>4 DEF KillRun, RunsInv
  <2>2. \A r \in Runs : Marked(r, traces[r])'
    <3> SUFFICES ASSUME NEW r \in Runs, Synthetic(traces[r])
                 PROVE  r \in unmarked' \/ Replayed(r)'
      BY <1>4 DEF KillRun, Marked
    <3>1. Around(r)
      BY DEF Around, UnderWay
    <3>2. CASE r = inv.run
      BY <1>4, <3>1, <3>2 DEF KillRun, Replayed
    <3>3. CASE r # inv.run
      BY <1>0, <3>1, <3>3 DEF RunsInv, Marked
    <3> QED
      BY <3>2, <3>3
  <2> QED
    BY <1>4, <2>0, <2>1, <2>2 DEF KillRun, RunsInv
<1>5. CASE UNCHANGED <<traces, manifest, cache, inv>>
  BY <1>0, <1>5 DEF RunsInv, Marked, Replayed
<1> QED
  BY <1>1, <1>2, <1>3, <1>4, <1>5
     DEF Next, Run, Command, BeginSave, DecideSave, WriteSnapshot, KillSave, Delete, BeginAnalyze,
         Compare, Rest, vars

\* What a command holds stays as good as it was, whatever happens to the run.
LEMMA HeldStays ==
  ASSUME RunsInv, CommandsInv, [Next]_vars, NEW p \in Commands, cmd'[p] = cmd[p]
  PROVE  Held(cmd[p])'
<1>1. /\ unmarked \subseteq unmarked'
      /\ \A r \in Runs : Replayed(r) => \/ Replayed(r)' \/ r \in unmarked' \/ ~Around(r)
  BY MarkersStay
<1>2. Held(cmd[p])
  BY DEF CommandsInv
<1>3. ASSUME cmd[p].pc \in {"saving", "writing", "comparing"}
      PROVE  Marked(cmd[p].run, cmd[p].got)'
  <2>1. PICK r \in Runs : r = cmd[p].run
    BY <1>2, <1>3 DEF Held, Busy
  <2>2. ASSUME Synthetic(cmd[p].got) PROVE r \in unmarked' \/ Replayed(r)'
    <3>1. Around(r)
      BY <1>3, <2>1, <2>2 DEF Around, UnderWay
    <3> QED
      BY <1>1, <1>2, <1>3, <2>1, <2>2, <3>1 DEF Held, Marked
  <2> QED
    BY <2>1, <2>2 DEF Marked, Synthetic, Replayed
<1>4. Excused(cmd[p].run, cmd[p].got) => Excused(cmd[p].run, cmd[p].got)'
  BY <1>1 DEF Excused, Synthetic
<1>5. Excused(cmd[p].base.run, cmd[p].base.traces) => Excused(cmd[p].base.run, cmd[p].base.traces)'
  BY <1>1 DEF Excused, Synthetic
<1> QED
  BY <1>2, <1>3, <1>4, <1>5 DEF Held

LEMMA CommandsStep == ASSUME RunsInv, CommandsInv, [Next]_vars PROVE CommandsInv'
<1> USE BaselinesAssumption
<1>1. unmarked \subseteq unmarked'
  BY MarkersStay
<1>2. \A q \in Commands : cmd'[q] = cmd[q] => Held(cmd[q])'
  BY HeldStays
<1>3. snapshot' = snapshot =>
        (snapshot' \notin {None, Torn} => Excused(snapshot.run, snapshot.traces)')
  BY <1>1 DEF CommandsInv, Excused, Synthetic
<1>4. CASE UNCHANGED <<cmd, snapshot>>
  BY <1>2, <1>3, <1>4 DEF CommandsInv
<1>5. ASSUME NEW p \in Commands, NEW r \in Runs, BeginSave(p, r) \/ BeginAnalyze(p, r)
      PROVE  CommandsInv'
  <2>1. cmd'[p].run = r /\ cmd'[p].got = traces[r] /\ cmd'[p].pc \in {"saving", "comparing"}
    BY <1>5 DEF BeginSave, BeginAnalyze, Set, CommandsInv
  <2>2. Marked(r, traces[r])'
    BY <1>5 DEF BeginSave, BeginAnalyze, Seen, RunsInv, Marked, Replayed
  <2>3. Held(cmd[p])'
    <3>1. cmd'[p] \in Busy
      <4>1. traces[r] \in Traces
        BY DEF RunsInv
      <4>2. CASE BeginSave(p, r)
        BY <4>1, <4>2 DEF BeginSave, Set, CommandsInv, Busy
      <4>3. CASE BeginAnalyze(p, r)
        <5>1. cmd'[p] = [pc |-> "comparing", run |-> r, got |-> traces[r], rows |-> manifest[r] # None]
          BY <4>3 DEF BeginAnalyze, Set, CommandsInv
        <5> QED
          BY <4>1, <5>1 DEF Busy
      <4> QED
        BY <1>5, <4>2, <4>3
    <3> QED
      BY <1>5, <2>1, <2>2, <3>1
         DEF BeginSave, BeginAnalyze, Held, Marked, Replayed, Synthetic, RunsInv
  <2> QED
    BY <1>2, <1>3, <1>5, <2>3 DEF BeginSave, BeginAnalyze, Set, CommandsInv
<1>6. ASSUME NEW p \in Commands, DecideSave(p) PROVE CommandsInv'
  <2>1. CASE Refused(cmd[p].run, cmd[p].got)
    <3>1. Held(cmd[p])'
      BY <1>6, <2>1 DEF DecideSave, Set, CommandsInv, Held
    <3> QED
      BY <1>2, <1>3, <1>6, <2>1, <3>1 DEF DecideSave, Set, CommandsInv
  <2>2. CASE ~Refused(cmd[p].run, cmd[p].got)
    <3>1. Held(cmd[p]) /\ Excused(cmd[p].run, cmd[p].got) /\ cmd[p].pc = "saving"
      BY <1>6, <2>2 DEF DecideSave, CommandsInv, Held, Marked, Excused, Refused
    <3>2. cmd' = [cmd EXCEPT ![p] = [cmd[p] EXCEPT !.pc = "writing"]] /\ snapshot' = Torn
      BY <1>6, <2>2 DEF DecideSave, Set
    <3>3. cmd'[p].run = cmd[p].run /\ cmd'[p].got = cmd[p].got /\ cmd'[p].pc = "writing"
      BY <3>1, <3>2 DEF CommandsInv, Held, Busy
    <3>4. cmd'[p] \in Busy
      BY <3>1, <3>2 DEF CommandsInv, Held, Busy
    <3>5. Held(cmd[p])'
      BY <1>1, <3>1, <3>3, <3>4 DEF Held, Excused, Marked, Synthetic
    <3> QED
      BY <1>2, <3>2, <3>5 DEF CommandsInv
  <2> QED
    BY <2>1, <2>2
<1>7. ASSUME NEW p \in Commands, WriteSnapshot(p) PROVE CommandsInv'
  <2>1. Held(cmd[p])'
    BY <1>7 DEF WriteSnapshot, Set, CommandsInv, Held
  <2>2. Excused(snapshot.run, snapshot.traces)'
    BY <1>1, <1>7 DEF WriteSnapshot, CommandsInv, Held, Excused, Synthetic
  <2> QED
    BY <1>2, <1>7, <2>1, <2>2 DEF WriteSnapshot, Set, CommandsInv
<1>8. ASSUME NEW p \in Commands, KillSave(p) \/ Delete(p) PROVE CommandsInv'
  <2>1. Held(cmd[p])'
    BY <1>8 DEF KillSave, Delete, Set, CommandsInv, Held
  <2> QED
    BY <1>2, <1>3, <1>8, <2>1 DEF KillSave, Delete, Set, CommandsInv
<1>9. ASSUME NEW p \in Commands, Compare(p) PROVE CommandsInv'
  <2>1. UNCHANGED <<manifest, snapshot, unmarked>> /\ cmd[p].pc = "comparing"
    BY <1>9 DEF Compare
  <2>2. PICK allowEmpty, base, banner, outcome :
          /\ Analyzed(p, allowEmpty, base, banner, outcome)
          /\ \/ base \in {None, Torn}
             \/ base = snapshot /\ banner = (Replayed(cmd[p].run) \/ snapshot.replayed)
    BY <1>9 DEF Compare
  <2>3. Held(cmd[p])'
    BY <2>1, <2>2 DEF Analyzed, Set, CommandsInv, Held, Marked, Excused, Synthetic
  <2> QED
    BY <1>2, <1>3, <2>1, <2>2, <2>3 DEF Analyzed, Set, CommandsInv
<1> QED
  BY <1>4, <1>5, <1>6, <1>7, <1>8, <1>9
     DEF Next, Run, Command, Launch, Execute, Record, KillRun, Rest, vars

\* The firewall between synthetic and real runs holds (save_baseline,
\* load_manifest_replayed, run_analysis).
THEOREM FirewallHolds == Spec => []Firewall
<1>1. Init => RunsInv /\ CommandsInv
  BY InitInv
<1>2. RunsInv /\ CommandsInv /\ [Next]_vars => (RunsInv /\ CommandsInv)'
  BY RunsStep, CommandsStep
<1>3. RunsInv /\ CommandsInv => Firewall
  BY DEF CommandsInv, Held, Excused, Firewall
<1> QED
  BY <1>1, <1>2, <1>3, PTL DEF Spec

-----------------------------------------------------------------------------
(* The regression gate.                                                    *)

\* What RegressionGate says of one command.
GateOf(c) ==
  c.pc = "analyzed" =>
    IF c.base \in {None, Torn}
    THEN c.outcome = "green" => c.allowEmpty /\ ~c.rows /\ ~HasMetrics(c.got)
    ELSE /\ c.outcome = "green" =>
              \A v \in Variants : Reliable(c.base.traces, c.got, v) => ~AllWorse(c.base.traces, c.got, v)
         /\ c.outcome = "red" =>
              \E x, y \in Cells : /\ x[1] = y[1] /\ c.base.traces[x] # None /\ c.got[y] # None
                                  /\ c.got[y].level > c.base.traces[x].level

GatesInv ==
  /\ snapshot \notin {None, Torn} => snapshot.traces \in Traces
  /\ \A p \in Commands : GateOf(cmd[p])

\* A regression is a reliable difference that is not to the better.
LEMMA RegressionIsWorse ==
  ASSUME NEW b \in Traces, NEW t \in Traces, NEW s \in Regressions(b, t)
  PROVE  /\ s = {} => \A v \in Variants : Reliable(b, t, v) => ~AllWorse(b, t, v)
         /\ s # {} => \E x, y \in Cells : /\ x[1] = y[1] /\ b[x] # None /\ t[y] # None
                                          /\ t[y].level > b[x].level
<1>1. ASSUME s # {}
      PROVE  \E x, y \in Cells : /\ x[1] = y[1] /\ b[x] # None /\ t[y] # None
                                 /\ t[y].level > b[x].level
  <2>1. PICK v \in Variants : ~NoneWorse(b, t, v)
    BY <1>1 DEF Regressions
  <2>2. PICK x \in Of(b, v), y \in Of(t, v) : ~(t[y].level <= b[x].level)
    BY <2>1 DEF NoneWorse
  <2>3. x \in Cells /\ y \in Cells /\ x[1] = y[1] /\ b[x] # None /\ t[y] # None
    BY <2>2 DEF Of
  <2>4. b[x].level \in Nat /\ t[y].level \in Nat
    BY <2>3, BaselinesAssumption DEF Traces, Sample
  <2> QED
    BY <2>2, <2>3, <2>4
<1> QED
  BY <1>1 DEF Regressions

\* How a comparison ends is decided by the traces it compares.
LEMMA CompareGate ==
  ASSUME CommandsInv, GatesInv, NEW p \in Commands, Compare(p)
  PROVE  GateOf(cmd'[p])
<1>1. cmd[p].got \in Traces /\ DOMAIN cmd = Commands
  BY DEF Compare, CommandsInv, Held, Busy
<1>2. ASSUME EmptyRun(cmd[p]), NEW allowEmpty \in BOOLEAN,
             Analyzed(p, allowEmpty, None, FALSE, IF allowEmpty THEN "green" ELSE "red")
      PROVE  GateOf(cmd'[p])
  BY <1>1, <1>2 DEF Analyzed, Set, GateOf, EmptyRun, HasMetrics
<1>3. CASE snapshot \in {None, Torn} /\ Analyzed(p, FALSE, snapshot, FALSE, "red")
  BY <1>1, <1>3 DEF Analyzed, Set, GateOf
<1>4. CASE /\ snapshot \notin {None, Torn}
           /\ \E s \in Regressions(snapshot.traces, cmd[p].got) :
                Analyzed(p, FALSE, snapshot, Replayed(cmd[p].run) \/ snapshot.replayed,
                         IF s # {} THEN "red" ELSE "green")
  <2>1. PICK s \in Regressions(snapshot.traces, cmd[p].got) :
          Analyzed(p, FALSE, snapshot, Replayed(cmd[p].run) \/ snapshot.replayed,
                   IF s # {} THEN "red" ELSE "green")
    BY <1>4
  <2>2. /\ cmd'[p].pc = "analyzed" /\ cmd'[p].base = snapshot /\ cmd'[p].got = cmd[p].got
        /\ cmd'[p].outcome = IF s # {} THEN "red" ELSE "green"
    BY <1>1, <2>1 DEF Analyzed, Set
  <2>3. /\ s = {} => \A v \in Variants : Reliable(snapshot.traces, cmd[p].got, v)
                                          => ~AllWorse(snapshot.traces, cmd[p].got, v)
        /\ s # {} => \E x, y \in Cells : /\ x[1] = y[1] /\ snapshot.traces[x] # None
                                         /\ cmd[p].got[y] # None
                                         /\ cmd[p].got[y].level > snapshot.traces[x].level
    BY <1>1, <1>4, RegressionIsWorse DEF GatesInv
  <2> QED
    BY <1>4, <2>2, <2>3 DEF GateOf
<1> QED
  BY <1>2, <1>3, <1>4 DEF Compare

LEMMA GatesStep == ASSUME CommandsInv, GatesInv, [Next]_vars PROVE GatesInv'
<1>1. \A p \in Commands : GateOf(cmd'[p])
  <2> SUFFICES ASSUME NEW p \in Commands PROVE GateOf(cmd'[p])
    OBVIOUS
  <2>1. CASE cmd'[p] = cmd[p]
    BY <2>1 DEF GatesInv
  <2>2. CASE Compare(p)
    BY <2>2, CompareGate
  <2>3. CASE cmd'[p].pc # "analyzed"
    BY <2>3 DEF GateOf
  <2>4. ASSUME NEW q \in Commands, q # p, \E state : Set(q, state) PROVE cmd'[p] = cmd[p]
    BY <2>4 DEF Set, CommandsInv
  <2>5. \A r \in Runs : BeginSave(p, r) \/ BeginAnalyze(p, r) => cmd'[p].pc # "analyzed"
    BY DEF BeginSave, BeginAnalyze, Set, CommandsInv
  <2>6. DecideSave(p) => cmd'[p].pc # "analyzed"
    BY DEF DecideSave, Set, CommandsInv, Held, Busy
  <2>7. WriteSnapshot(p) \/ KillSave(p) \/ Delete(p) => cmd'[p].pc # "analyzed"
    BY DEF WriteSnapshot, KillSave, Delete, Set, CommandsInv
  <2>8. \A q \in Commands : \/ \E r \in Runs : BeginSave(q, r) \/ BeginAnalyze(q, r)
                            \/ DecideSave(q) \/ WriteSnapshot(q) \/ KillSave(q) \/ Delete(q)
                            \/ Compare(q)
                            => \E state : Set(q, state)
    BY DEF BeginSave, BeginAnalyze, DecideSave, WriteSnapshot, KillSave, Delete, Compare, Analyzed
  <2>9. CASE UNCHANGED cmd
    BY <2>9 DEF GatesInv
  <2> QED
    BY <2>1, <2>2, <2>3, <2>4, <2>5, <2>6, <2>7, <2>8, <2>9
       DEF Next, Run, Command, Launch, Execute, Record, KillRun, Rest, vars
<1>2. snapshot' \notin {None, Torn} => snapshot'.traces \in Traces
  <2>1. CASE \E p \in Commands : WriteSnapshot(p)
    BY <2>1 DEF WriteSnapshot, CommandsInv, Held, Busy
  <2>2. CASE snapshot' \in {None, Torn, snapshot}
    BY <2>2 DEF GatesInv
  <2> QED
    BY <2>1, <2>2 DEF Next, Run, Command, Launch, Execute, Record, KillRun, BeginSave, DecideSave,
       KillSave, Delete, BeginAnalyze, Compare, Rest, vars
<1> QED
  BY <1>1, <1>2 DEF GatesInv, GateOf, Reliable, AllWorse, Of, HasMetrics

\* The regression gate fails closed and never without a reason, for any samples
\* (build_baseline_comparisons, run_analysis).
THEOREM RegressionGateHolds == Spec => []RegressionGate
<1>1. Init => RunsInv /\ CommandsInv /\ GatesInv
  BY InitInv DEF Init, GatesInv, GateOf, Idle
<1>2. RunsInv /\ CommandsInv /\ GatesInv /\ [Next]_vars => (RunsInv /\ CommandsInv /\ GatesInv)'
  BY RunsStep, CommandsStep, GatesStep
<1>3. GatesInv => RegressionGate
  BY DEF GatesInv, GateOf, RegressionGate
<1> QED
  BY <1>1, <1>2, <1>3, PTL DEF Spec

=============================================================================
