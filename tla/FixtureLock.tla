----------------------------- MODULE FixtureLock -----------------------------
(***************************************************************************)
(* fixtures.lock: `pin-fixtures` writes it, `run` verifies the fixtures    *)
(* against it before anything else, with --strict-fixtures stops at any    *)
(* problem, and later copies each fixture when a cell's turn comes.  The   *)
(* user edits fixtures at any time; a pin may be killed and leave part of  *)
(* a file, which may still be good YAML.                                   *)
(*                                                                         *)
(* A directory is its files: a path has a content or is absent.  What the  *)
(* code leaves out of a hash (empty directories, linked directories, file  *)
(* modes) is left out here, and the bytes of one hash are taken to be read *)
(* at once.                                                                *)
(***************************************************************************)
EXTENDS Naturals, FiniteSets, Functions

CONSTANTS
  Fixtures,   \* names the tasks refer to
  Explicit,   \* those declared by a task; the others are task names
  Paths, Contents,
  MaxEdits,   \* bound: edits
  Missing,     \* no such file; no such directory; no lock file
  Malformed,  \* a lock file that is refused
  Cut         \* a digest cut short

Directory == [Paths -> Contents \cup {Missing}]

\* Mutant: the names of the files are left out.
HashContents(d) == {d[p] : p \in {q \in Paths : d[q] # Missing}}

\* hash_fixture: over path, content hash and size of every file.
HashFixture(d) == {<<p, d[p]>> : p \in {q \in Paths : d[q] # Missing}}

ASSUME FixturesAssumption ==
  /\ Explicit \subseteq Fixtures /\ MaxEdits \in Nat
  /\ Missing \notin Contents /\ Missing \notin Directory /\ Malformed # Missing
  /\ \A d \in Directory : HashFixture(d) \notin {Missing, Cut}

VARIABLES
  dir,      \* dir[f]: the fixture on disk, Missing if there is none
  edits,    \* edits made
  lock,     \* the lock file: Missing, Malformed, or entries of some fixtures
  pin,      \* pin-fixtures: where it is, entries so far, fixtures to hash
  run,      \* where `run` is: "new", "hashing", "running", "ended", "aborted"
  strict,   \* --strict-fixtures
  held,     \* the lock file as it was loaded
  hashed,   \* current_hashes
  copied,   \* what the cells of every fixture ran on
  touched   \* history: fixtures edited after the run had hashed them

lockVars == <<dir, edits, lock, pin, run, strict, held, hashed, copied, touched>>
files == <<dir, edits, lock>>
running == <<run, strict, held, hashed, copied, touched>>

\* An entry of the lock file has the digest and the files it was made from.
Entry(d) == [sha |-> HashFixture(d), files |-> d]

NoEntries == [f \in {} |-> 0]
With(entries, f, e) == [g \in DOMAIN entries \cup {f} |-> IF g = f THEN e ELSE entries[g]]

IsEntries(x) == x \notin {Missing, Malformed}

LockTypeOK ==
  /\ dir \in [Fixtures -> Directory \cup {Missing}]
  /\ edits \in 0..MaxEdits
  /\ IsEntries(lock) => DOMAIN lock \subseteq Fixtures
  /\ pin.at \in {"new", "hashing", "writing", "over"}
  /\ run \in {"new", "hashing", "running", "ended", "aborted"}
  /\ strict \in BOOLEAN
  /\ IsEntries(held) => DOMAIN held \subseteq Fixtures
  /\ DOMAIN hashed \subseteq Fixtures /\ DOMAIN copied \subseteq Fixtures
  /\ touched \subseteq Fixtures

LockInit ==
  /\ dir \in [Fixtures -> Directory \cup {Missing}]
  /\ edits = 0
  /\ lock \in {Missing, Malformed, NoEntries}
  /\ pin = [at |-> "new", entries |-> NoEntries, todo |-> Fixtures]
  /\ run = "new" /\ strict \in BOOLEAN
  /\ held = Missing /\ hashed = NoEntries /\ copied = NoEntries /\ touched = {}

-----------------------------------------------------------------------------
Edit(f) ==
  /\ edits < MaxEdits /\ edits' = edits + 1
  /\ \E d \in (Directory \cup {Missing}) \ {dir[f]} : dir' = [dir EXCEPT ![f] = d]
  /\ touched' = IF run = "running" \/ f \in DOMAIN hashed THEN touched \cup {f} ELSE touched
  /\ UNCHANGED <<lock, pin, run, strict, held, hashed, copied>>

PinOne(f) ==
  /\ pin.at \in {"new", "hashing"} /\ f \in pin.todo
  /\ pin' = [at |-> "hashing", todo |-> pin.todo \ {f},
             entries |-> IF dir[f] = Missing THEN pin.entries
                         ELSE With(pin.entries, f, Entry(dir[f]))]
  /\ UNCHANGED <<files, running>>

\* pin_fixtures writes in place: a reader in between finds nothing.
OpenLock ==
  /\ pin.at = "hashing" /\ pin.todo = {}
  /\ pin' = [pin EXCEPT !.at = "writing"] /\ lock' = Malformed
  /\ UNCHANGED <<dir, edits, running>>

WriteLock ==
  /\ pin.at = "writing"
  /\ pin' = [pin EXCEPT !.at = "over"] /\ lock' = pin.entries
  /\ UNCHANGED <<dir, edits, running>>

\* Killed: what is there is malformed, or has some of the entries, of which the
\* last may have lost part of its digest.
KillPin ==
  /\ pin.at = "writing"
  /\ \E s \in SUBSET DOMAIN pin.entries :
       LET some == Restrict(pin.entries, s)
       IN lock' \in {Malformed, some}
            \cup {[some EXCEPT ![f].sha = Cut] : f \in s}
  /\ pin' = [pin EXCEPT !.at = "over"]
  /\ UNCHANGED <<dir, edits, running>>

-----------------------------------------------------------------------------
\* verify_fixtures loads the lock.  A malformed one ends a strict run; any other
\* goes on, without a lock and without hashes.
Load ==
  /\ run = "new"
  /\ held' = lock
  /\ run' = IF lock # Malformed THEN "hashing" ELSE IF strict THEN "aborted" ELSE "running"
  /\ UNCHANGED <<files, pin, strict, hashed, copied, touched>>

Looked == DOMAIN hashed

\* Each fixture is hashed once; one that is not there leaves no hash.
HashOne(f) ==
  /\ run = "hashing" /\ f \notin Looked
  /\ hashed' = With(hashed, f, IF dir[f] = Missing THEN Missing ELSE HashFixture(dir[f]))
  /\ UNCHANGED <<files, pin, run, strict, held, copied, touched>>

\* Drifted: pinned and different or missing, or declared and neither there nor
\* pinned.  Unpinned: there, but not in the lock.
Problem(f) ==
  IF f \in DOMAIN held THEN hashed[f] = Missing \/ hashed[f] # held[f].sha
  ELSE hashed[f] # Missing \/ f \in Explicit

\* _verify_fixtures_or_abort.
Decide ==
  /\ run = "hashing" /\ Looked = Fixtures
  /\ run' = IF strict /\ (held = Missing \/ \E f \in Fixtures : Problem(f)) THEN "aborted"
            ELSE "running"
  /\ UNCHANGED <<files, pin, strict, held, hashed, copied, touched>>

\* run_one copies the fixture, if it is there, for the first cell that needs it.
\* (Bound: its other cells copy it again; one stands for them.)
Copy(f) ==
  /\ run = "running" /\ f \notin DOMAIN copied
  /\ copied' = With(copied, f, dir[f])
  /\ UNCHANGED <<files, pin, run, strict, held, hashed, touched>>

Finish ==
  /\ run = "running" /\ DOMAIN copied = Fixtures
  /\ run' = "ended"
  /\ UNCHANGED <<files, pin, strict, held, hashed, copied, touched>>

Rest == run \in {"ended", "aborted"} /\ UNCHANGED lockVars

\* Bound: the files are left alone once the run is over.
LockNext ==
  \/ /\ run \notin {"ended", "aborted"}
     /\ \/ \E f \in Fixtures : Edit(f) \/ PinOne(f)
        \/ OpenLock \/ WriteLock \/ KillPin
  \/ Load \/ Decide \/ Finish
  \/ \E f \in Fixtures : HashOne(f) \/ Copy(f)
  \/ Rest

LockSpec == LockInit /\ [][LockNext]_lockVars

-----------------------------------------------------------------------------
\* What a run's cells ran on is what was pinned and what the manifest will record,
\* fixture by fixture, unless it was edited after it was hashed: with
\* --strict-fixtures the very files the entry was made from, whatever pin was
\* killed or edit made in between (pin_fixtures, verify_fixtures,
\* _verify_fixtures_or_abort, run_one); without, at least what is recorded, if the
\* lock file was readable.
RunsOnRecord ==
  \A f \in DOMAIN copied \ touched :
    /\ strict => IF copied[f] = Missing THEN f \notin Explicit /\ f \notin DOMAIN held
                 ELSE f \in DOMAIN held /\ held[f].files = copied[f]
    /\ held # Malformed => hashed[f] = IF copied[f] = Missing THEN Missing ELSE HashFixture(copied[f])

=============================================================================
