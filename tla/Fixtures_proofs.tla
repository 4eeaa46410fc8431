--------------------------- MODULE Fixtures_proofs ---------------------------
(***************************************************************************)
(* Theorems about the two halves of a fixture's way into a cell.  Module   *)
(* FixtureCache: for any number of concurrent calls, any set of declared   *)
(* fixtures and whatever servers answer, what is returned is verified.     *)
(* Module FixtureLock: for any fixtures, files and number of edits, what a *)
(* run executes on is what was pinned and what it records, but for         *)
(* fixtures edited after it had hashed them.                               *)
(***************************************************************************)
EXTENDS FixtureCache, FixtureLock, TLAPS

-----------------------------------------------------------------------------
(* FixtureCache.                                                           *)

IInv == TypeOK /\ BlobsGenuine /\ EntriesGenuine /\ Holds

LEMMA InitInv == Init => IInv
BY AbsentAssumption
   DEF Init, IInv, TypeOK, BlobsGenuine, EntriesGenuine, Holds, Complete

LEMMA NextInv == IInv /\ [Next]_vars => IInv'
<1> SUFFICES ASSUME IInv, [Next]_vars PROVE IInv'
  OBVIOUS
<1> USE DEF IInv, TypeOK, BlobsGenuine, EntriesGenuine, Holds, Complete, Step, Running, Ended
<1>1. CASE UNCHANGED vars
  BY <1>1 DEF vars
<1>2. ASSUME NEW p \in Calls, Begin(p) PROVE IInv'
  BY <1>2 DEF Begin
<1>3. ASSUME NEW p \in Calls, CheckEntry(p) PROVE IInv'
  BY <1>3 DEF CheckEntry
<1>4. ASSUME NEW p \in Calls, CheckBlob(p) PROVE IInv'
  BY <1>4 DEF CheckBlob
<1>5. ASSUME NEW p \in Calls, Download(p) PROVE IInv'
  BY <1>5 DEF Download
<1>6. ASSUME NEW p \in Calls, WriteBlob(p) PROVE IInv'
  BY <1>6 DEF WriteBlob
<1>7. ASSUME NEW p \in Calls, PublishBlob(p) PROVE IInv'
  BY <1>7, AbsentAssumption DEF PublishBlob
<1>8. ASSUME NEW p \in Calls, BeginExtract(p) PROVE IInv'
  BY <1>8 DEF BeginExtract
<1>9. ASSUME NEW p \in Calls, EndExtract(p) PROVE IInv'
  BY <1>9, AbsentAssumption DEF EndExtract
<1>10. ASSUME NEW p \in Calls, Publish(p) PROVE IInv'
  BY <1>10, AbsentAssumption DEF Publish
<1>11. ASSUME NEW p \in Calls, Kill(p) PROVE IInv'
  BY <1>11 DEF Kill
<1>12. QED
  BY <1>1, <1>2, <1>3, <1>4, <1>5, <1>6, <1>7, <1>8, <1>9, <1>10, <1>11 DEF Next, Advance

LEMMA Invariance == Spec => []IInv
BY InitInv, NextInv, PTL DEF Spec

(***************************************************************************)
(* A run never executes against unverified or half-extracted inputs.       *)
(***************************************************************************)
THEOREM ReturnsVerifiedHolds == Spec => []ReturnsVerified
<1>1. IInv => ReturnsVerified
  BY DEF IInv, TypeOK, EntriesGenuine, Holds, Complete, ReturnsVerified
<1>2. QED BY <1>1, Invariance, PTL

(***************************************************************************)
(* A blob's presence under its digest is proof of its integrity.           *)
(***************************************************************************)
THEOREM BlobsGenuineHolds == Spec => []BlobsGenuine
BY Invariance, PTL DEF IInv

(***************************************************************************)
(* A call that ended by itself has removed its temporary files.            *)
(***************************************************************************)
THEOREM NothingLeftBehindHolds == Spec => []NothingLeftBehind
<1>1. IInv => NothingLeftBehind
  BY DEF IInv, Holds, NothingLeftBehind
<1>2. QED BY <1>1, Invariance, PTL

(***************************************************************************)
(* A published extraction is never changed, deleted or replaced.           *)
(***************************************************************************)
THEOREM NeverClobberedHolds == Spec => NeverClobbered
<1>1. IInv /\ [Next]_vars => [\A s \in Shas : Complete(s) => entries'[s] = entries[s]]_vars
  <2> SUFFICES ASSUME IInv, Next, NEW s \in Shas, Complete(s)
               PROVE  entries'[s] = entries[s]
    BY DEF vars
  <2>1. CASE UNCHANGED entries
    BY <2>1
  <2>2. ASSUME NEW p \in Calls, Publish(p) PROVE entries'[s] = entries[s]
    BY <2>2, AbsentAssumption DEF IInv, TypeOK, Complete, Publish
  <2>3. QED
    BY <2>1, <2>2 DEF Next, Advance, Begin, CheckEntry, CheckBlob, Download, WriteBlob,
       PublishBlob, BeginExtract, EndExtract, Kill
<1>2. QED BY <1>1, Invariance, PTL DEF Spec, NeverClobbered

-----------------------------------------------------------------------------
(* FixtureLock.                                                            *)

\* What a run sees of a fixture.
Shown(d) == IF d = Missing THEN Missing ELSE HashFixture(d)

\* Entries say what they were made from, or have lost part of the digest.
Genuine(lines) ==
  \A f \in DOMAIN lines : /\ lines[f].files \in Directory
                          /\ lines[f].sha \in {HashFixture(lines[f].files), Cut}

\* The user's side: the fixtures and the lock file.
LockInv ==
  /\ dir \in [Fixtures -> Directory \cup {Missing}]
  /\ pin.at = "over" \/ Genuine(pin.entries)
  /\ IsEntries(lock) => Genuine(lock)

\* Unless it was edited since, a fixture is as it was hashed, and was copied as it is.
RunInv ==
  /\ run \in {"new", "hashing", "running", "ended", "aborted"}
  /\ IsEntries(held) => Genuine(held)
  /\ DOMAIN hashed \subseteq Fixtures /\ DOMAIN copied \subseteq Fixtures
  /\ \A f \in DOMAIN hashed \ touched : hashed[f] = Shown(dir[f])
  /\ \A f \in DOMAIN copied \ touched : copied[f] = dir[f]
  /\ run \in {"new", "hashing", "aborted"} => DOMAIN copied = {}
  /\ run = "new" => DOMAIN hashed = {}
  /\ run = "hashing" => held # Malformed
  /\ (run \in {"running", "ended"} /\ held # Malformed) => DOMAIN hashed = Fixtures
  /\ (run \in {"running", "ended"} /\ strict) => IsEntries(held) /\ \A f \in Fixtures : ~Problem(f)

-----------------------------------------------------------------------------
\* Two directories with one digest are the same.
LEMMA HashInjective ==
  ASSUME NEW d \in Directory, NEW e \in Directory, HashFixture(d) = HashFixture(e)
  PROVE  d = e
<1> SUFFICES ASSUME NEW p \in Paths PROVE d[p] = e[p]
  BY DEF Directory
<1>1. ASSUME NEW x \in Directory, NEW y \in Directory, HashFixture(x) = HashFixture(y), x[p] # Missing
      PROVE  x[p] = y[p]
  <2>1. <<p, x[p]>> \in HashFixture(y)
    BY <1>1 DEF HashFixture
  <2>2. PICK q \in Paths : <<p, x[p]>> = <<q, y[q]>>
    BY <2>1 DEF HashFixture
  <2> QED
    BY <2>2
<1> QED
  BY <1>1

LEMMA InitLock == LockInit => LockInv /\ RunInv
BY FixturesAssumption DEF LockInit, LockInv, RunInv, Genuine, NoEntries, IsEntries

LEMMA LockStep == ASSUME LockInv, [LockNext]_lockVars PROVE LockInv'
<1> USE FixturesAssumption
<1>1. CASE \E f \in Fixtures : Edit(f)
  BY <1>1 DEF Edit, LockInv, Genuine, IsEntries
<1>2. CASE \E f \in Fixtures : PinOne(f)
  <2>1. PICK f \in Fixtures : PinOne(f)
    BY <1>2
  <2>2. Genuine(With(pin.entries, f, Entry(dir[f]))) \/ dir[f] = Missing
    <3>1. CASE dir[f] # Missing
      <4>1. Entry(dir[f]).files \in Directory /\ Entry(dir[f]).sha = HashFixture(Entry(dir[f]).files)
        BY <3>1 DEF Entry, LockInv
      <4>2. Genuine(pin.entries)
        BY <2>1 DEF PinOne, LockInv
      <4> QED
        BY <4>1, <4>2 DEF Genuine, With
    <3> QED
      BY <3>1
  <2>3. Genuine(pin'.entries)
    BY <2>1, <2>2 DEF PinOne, LockInv
  <2> QED
    BY <2>1, <2>3 DEF PinOne, files, LockInv, Genuine, IsEntries
<1>3. CASE OpenLock
  BY <1>3 DEF OpenLock, LockInv, Genuine, IsEntries
<1>4. CASE WriteLock
  BY <1>4 DEF WriteLock, LockInv, Genuine, IsEntries
<1>5. CASE KillPin
  <2>1. PICK s \in SUBSET DOMAIN pin.entries :
          LET some == Restrict(pin.entries, s)
          IN lock' \in {Malformed, some} \cup {[some EXCEPT ![f].sha = Cut] : f \in s}
    BY <1>5 DEF KillPin
  <2> DEFINE some == Restrict(pin.entries, s)
  <2>2. Genuine(some) /\ DOMAIN some = s
    BY <1>5 DEF KillPin, LockInv, Genuine, Restrict
  <2>3. \A f \in s : Genuine([some EXCEPT ![f].sha = Cut])
    BY <2>2 DEF Genuine
  <2>4. IsEntries(lock') => Genuine(lock')
    BY <2>1, <2>2, <2>3 DEF IsEntries
  <2> QED
    BY <1>5, <2>4 DEF KillPin, LockInv, IsEntries
<1>6. CASE UNCHANGED <<files, pin>>
  BY <1>6 DEF files, LockInv, Genuine, IsEntries
<1> QED
  BY <1>1, <1>2, <1>3, <1>4, <1>5, <1>6
     DEF LockNext, Load, HashOne, Decide, Copy, Finish, Rest, lockVars, files

LEMMA RunStep == ASSUME LockInv, RunInv, [LockNext]_lockVars PROVE RunInv'
<1> USE FixturesAssumption
<1>1. CASE run \notin {"ended", "aborted"} /\ \E f \in Fixtures : Edit(f)
  <2>1. PICK f \in Fixtures : Edit(f)
    BY <1>1
  <2>2. \A g \in Fixtures \ {f} : dir'[g] = dir[g]
    BY <2>1 DEF Edit, LockInv
  <2>3. touched \subseteq touched' /\ (run = "running" \/ f \in DOMAIN hashed => f \in touched')
    BY <2>1 DEF Edit
  <2>4. run \notin {"ended", "aborted"}
    BY <1>1
  <2> QED
    BY <2>1, <2>2, <2>3, <2>4 DEF Edit, RunInv, Genuine, IsEntries, Problem
<1>2. CASE UNCHANGED <<dir, running>>
  BY <1>2 DEF running, RunInv, Genuine, IsEntries, Problem
<1>3. CASE Load
  BY <1>3 DEF Load, files, LockInv, RunInv, Genuine, IsEntries, Problem
<1>4. CASE \E f \in Fixtures : HashOne(f)
  <2>1. PICK f \in Fixtures : HashOne(f)
    BY <1>4
  <2>2. /\ DOMAIN hashed' = DOMAIN hashed \cup {f} /\ hashed'[f] = Shown(dir[f])
        /\ \A g \in DOMAIN hashed \ {f} : hashed'[g] = hashed[g]
    BY <2>1 DEF HashOne, Shown, With
  <2> QED
    BY <2>1, <2>2 DEF HashOne, files, RunInv, Genuine, IsEntries, Looked
<1>5. CASE Decide
  BY <1>5 DEF Decide, files, RunInv, Genuine, IsEntries, Looked, Problem
<1>6. CASE \E f \in Fixtures : Copy(f)
  <2>1. PICK f \in Fixtures : Copy(f)
    BY <1>6
  <2>2. /\ DOMAIN copied' = DOMAIN copied \cup {f} /\ copied'[f] = dir[f]
        /\ \A g \in DOMAIN copied \ {f} : copied'[g] = copied[g]
    BY <2>1 DEF Copy, With
  <2> QED
    BY <2>1, <2>2 DEF Copy, files, RunInv, Genuine, IsEntries, Problem
<1>7. CASE Finish
  BY <1>7 DEF Finish, files, RunInv, Genuine, IsEntries, Problem
<1> QED
  BY <1>1, <1>2, <1>3, <1>4, <1>5, <1>6, <1>7
     DEF LockNext, PinOne, OpenLock, WriteLock, KillPin, Rest, lockVars, files, running

\* For any fixtures, paths and contents, and any interleaving of edits, a pin that may
\* die half-way and a run: cells run on what was pinned and on what is recorded
\* (pin_fixtures, verify_fixtures, _verify_fixtures_or_abort).
THEOREM RunsOnRecordHolds == LockSpec => []RunsOnRecord
<1>1. LockInit => LockInv /\ RunInv
  BY InitLock
<1>2. LockInv /\ RunInv /\ [LockNext]_lockVars => (LockInv /\ RunInv)'
  BY LockStep, RunStep
<1>3. LockInv /\ RunInv => RunsOnRecord
  <2> SUFFICES ASSUME LockInv, RunInv, NEW f \in DOMAIN copied \ touched
               PROVE  /\ strict => IF copied[f] = Missing THEN f \notin Explicit /\ f \notin DOMAIN held
                                   ELSE f \in DOMAIN held /\ held[f].files = copied[f]
                      /\ held # Malformed => hashed[f] = Shown(copied[f])
    BY DEF RunsOnRecord, Shown
  <2>1. /\ f \in Fixtures /\ copied[f] = dir[f] /\ dir[f] \in Directory \cup {Missing}
        /\ run \in {"running", "ended"}
    BY DEF RunInv, LockInv
  <2>2. held # Malformed => f \in DOMAIN hashed /\ hashed[f] = Shown(copied[f])
    BY <2>1 DEF RunInv
  <2>3. ASSUME strict
        PROVE  IF copied[f] = Missing THEN f \notin Explicit /\ f \notin DOMAIN held
               ELSE f \in DOMAIN held /\ held[f].files = copied[f]
    <3>1. IsEntries(held) /\ Genuine(held) /\ ~Problem(f) /\ hashed[f] = Shown(copied[f])
      BY <2>1, <2>2, <2>3 DEF RunInv, IsEntries
    <3>2. CASE copied[f] = Missing
      BY <3>1, <3>2 DEF Problem, Shown
    <3>3. CASE copied[f] # Missing
      <4>1. copied[f] \in Directory /\ hashed[f] = HashFixture(copied[f])
        BY <2>1, <3>1, <3>3 DEF Shown
      <4>2. f \in DOMAIN held /\ HashFixture(copied[f]) = held[f].sha
        BY <3>1, <4>1, FixturesAssumption DEF Problem
      <4>3. held[f].files \in Directory /\ HashFixture(copied[f]) = HashFixture(held[f].files)
        BY <3>1, <4>1, <4>2, FixturesAssumption DEF Genuine
      <4> QED
        BY <3>3, <4>1, <4>2, <4>3, HashInjective
    <3> QED
      BY <3>2, <3>3
  <2> QED
    BY <2>2, <2>3
<1> QED
  BY <1>1, <1>2, <1>3, PTL DEF LockSpec

=============================================================================
