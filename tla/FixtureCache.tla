---------------------------- MODULE FixtureCache ----------------------------
(***************************************************************************)
(* Remote fixtures (eval/services/fixtures_service.py ensure_remote_blob   *)
(* and ensure_remote_fixture): a content-addressed cache of downloads and  *)
(* of their extractions that any number of `run` processes fill and read   *)
(* at the same time, without a lock, each of which may be killed anywhere. *)
(* A call is one ensure_remote_fixture by one process; its temporary files *)
(* carry pid and uuid in their names and so belong to the call.            *)
(***************************************************************************)
EXTENDS Naturals

CONSTANTS
  Calls,      \* calls of ensure_remote_fixture, by any process
  Shas,       \* digests fixtures are declared with
  Payloads,   \* bytes a server may answer with
  Digest,     \* the sha256 of each payload
  Absent,     \* no such file or directory
  Partial     \* present but incomplete: no .ok marker, or no content

ASSUME DigestAssumption == DOMAIN Digest = Payloads
ASSUME AbsentAssumption == Absent \notin Payloads /\ Partial \notin Payloads /\ Absent # Partial

VARIABLES
  blobs,     \* blobs[s]: blobs/<s>
  entries,   \* entries[s]: extracted/<s>, a payload when it is its whole extraction
  pc,        \* control point of each call
  want,      \* digest the fixture of the call is declared with
  data,      \* bytes the call downloaded
  tmpBlob,   \* its temporary file next to the blob
  tmpDir     \* its temporary directory next to the entry

vars == <<blobs, entries, pc, want, data, tmpBlob, tmpDir>>

Running == {"entry", "blob", "download", "write", "publish_blob", "extract", "extracting",
            "publish"}
Ended == {"done", "failed", "killed"}

TypeOK ==
  /\ blobs \in [Shas -> Payloads \cup {Absent}]
  /\ entries \in [Shas -> Payloads \cup {Absent, Partial}]
  /\ pc \in [Calls -> {"new"} \cup Running \cup Ended]
  /\ want \in [Calls -> Shas]
  /\ data \in [Calls -> Payloads \cup {Absent}]
  /\ tmpBlob \in [Calls -> Payloads \cup {Absent, Partial}]
  /\ tmpDir \in [Calls -> Payloads \cup {Absent, Partial}]

\* The cache may start with an entry damaged by hand; what the code leaves
\* behind itself is not assumed.
Init ==
  /\ blobs = [s \in Shas |-> Absent]
  /\ entries \in [Shas -> {Absent, Partial}]
  /\ pc = [p \in Calls |-> "new"]
  /\ want \in [Calls -> Shas]
  /\ data = [p \in Calls |-> Absent]
  /\ tmpBlob = [p \in Calls |-> Absent]
  /\ tmpDir = [p \in Calls |-> Absent]

-----------------------------------------------------------------------------
Complete(s) == entries[s] \in Payloads

Step(p, from, to) == pc[p] = from /\ pc' = [pc EXCEPT ![p] = to]

Begin(p) ==
  /\ Step(p, "new", "entry")
  /\ UNCHANGED <<blobs, entries, want, data, tmpBlob, tmpDir>>

\* Marker and content present: reuse, with no network access.
CheckEntry(p) ==
  /\ IF Complete(want[p]) THEN Step(p, "entry", "done") ELSE Step(p, "entry", "blob")
  /\ UNCHANGED <<blobs, entries, want, data, tmpBlob, tmpDir>>

CheckBlob(p) ==
  /\ IF blobs[want[p]] # Absent THEN Step(p, "blob", "extract") ELSE Step(p, "blob", "download")
  /\ UNCHANGED <<blobs, entries, want, data, tmpBlob, tmpDir>>

\* Mutant: the digest is computed and not compared.
DownloadUnchecked(p) ==
  /\ \/ Step(p, "download", "failed") /\ UNCHANGED data
     \/ \E d \in Payloads :
          /\ data' = [data EXCEPT ![p] = d]
          /\ Step(p, "download", "write")
  /\ UNCHANGED <<blobs, entries, want, tmpBlob, tmpDir>>

\* The server fails, or answers with anything; only the declared digest passes.
Download(p) ==
  /\ \/ Step(p, "download", "failed") /\ UNCHANGED data
     \/ \E d \in Payloads :
          /\ data' = [data EXCEPT ![p] = d]
          /\ IF Digest[d] = want[p] THEN Step(p, "download", "write")
             ELSE Step(p, "download", "failed")
  /\ UNCHANGED <<blobs, entries, want, tmpBlob, tmpDir>>

\* tmp.write_bytes; on an OSError the `finally` unlinks what was written.
WriteBlob(p) ==
  /\ \/ Step(p, "write", "publish_blob") /\ tmpBlob' = [tmpBlob EXCEPT ![p] = data[p]]
     \/ Step(p, "write", "failed") /\ UNCHANGED tmpBlob
  /\ UNCHANGED <<blobs, entries, want, data, tmpDir>>

\* tmp.replace(blob) is atomic and replaces what another call published.
PublishBlob(p) ==
  /\ Step(p, "publish_blob", "extract")
  /\ blobs' = [blobs EXCEPT ![want[p]] = tmpBlob[p]]
  /\ tmpBlob' = [tmpBlob EXCEPT ![p] = Absent]
  /\ UNCHANGED <<entries, want, data, tmpDir>>

\* The temporary directory fills up member by member.
BeginExtract(p) ==
  /\ Step(p, "extract", "extracting")
  /\ tmpDir' = [tmpDir EXCEPT ![p] = Partial]
  /\ UNCHANGED <<blobs, entries, want, data, tmpBlob>>

\* Mutant: a failed extraction leaves its directory.
EndExtractKeepsTmp(p) ==
  /\ \/ Step(p, "extracting", "publish") /\ tmpDir' = [tmpDir EXCEPT ![p] = blobs[want[p]]]
     \/ Step(p, "extracting", "failed") /\ UNCHANGED tmpDir
  /\ UNCHANGED <<blobs, entries, want, data, tmpBlob>>

\* Everything extracted and the marker written, or a corrupt archive or one
\* over the extraction budget: the `finally` removes the directory.
EndExtract(p) ==
  /\ \/ Step(p, "extracting", "publish") /\ tmpDir' = [tmpDir EXCEPT ![p] = blobs[want[p]]]
     \/ Step(p, "extracting", "failed") /\ tmpDir' = [tmpDir EXCEPT ![p] = Absent]
  /\ UNCHANGED <<blobs, entries, want, data, tmpBlob>>

\* Mutant: the loser of the race deletes the entry in its way and tries again.
PublishClobbering(p) ==
  /\ \/ /\ entries[want[p]] = Absent
        /\ entries' = [entries EXCEPT ![want[p]] = tmpDir[p]]
        /\ tmpDir' = [tmpDir EXCEPT ![p] = Absent]
        /\ Step(p, "publish", "done")
     \/ /\ entries[want[p]] # Absent
        /\ entries' = [entries EXCEPT ![want[p]] = Absent]
        /\ Step(p, "publish", "publish") /\ UNCHANGED tmpDir
  /\ UNCHANGED <<blobs, want, data, tmpBlob>>

\* Mutant: the loser of the race waits for the entry to become complete.
PublishWaiting(p) ==
  /\ \/ /\ entries[want[p]] = Absent
        /\ entries' = [entries EXCEPT ![want[p]] = tmpDir[p]]
     \/ Complete(want[p]) /\ UNCHANGED entries
  /\ Step(p, "publish", "done")
  /\ tmpDir' = [tmpDir EXCEPT ![p] = Absent]
  /\ UNCHANGED <<blobs, want, data, tmpBlob>>

\* tmp.rename(base) succeeds only where there is no entry; the loser of a race
\* keeps the other's if it is complete, and fails closed if it is not.
Publish(p) ==
  /\ \/ /\ entries[want[p]] = Absent
        /\ entries' = [entries EXCEPT ![want[p]] = tmpDir[p]]
        /\ Step(p, "publish", "done")
     \/ /\ Complete(want[p])
        /\ Step(p, "publish", "done") /\ UNCHANGED entries
     \/ /\ entries[want[p]] = Partial
        /\ Step(p, "publish", "failed") /\ UNCHANGED entries
  /\ tmpDir' = [tmpDir EXCEPT ![p] = Absent]
  /\ UNCHANGED <<blobs, want, data, tmpBlob>>

\* The process dies; a blob being written is torn in its temporary file.
Kill(p) ==
  /\ pc[p] \in Running
  /\ pc' = [pc EXCEPT ![p] = "killed"]
  /\ \/ pc[p] = "write" /\ tmpBlob' = [tmpBlob EXCEPT ![p] = Partial]
     \/ UNCHANGED tmpBlob
  /\ UNCHANGED <<blobs, entries, want, data, tmpDir>>

Advance(p) ==
  \/ CheckEntry(p) \/ CheckBlob(p) \/ Download(p) \/ WriteBlob(p) \/ PublishBlob(p)
  \/ BeginExtract(p) \/ EndExtract(p) \/ Publish(p)

Next == \E p \in Calls : Begin(p) \/ Advance(p) \/ Kill(p)

\* The download has a timeout and the rest is local: a call that has begun
\* goes on, unless it is killed.
Spec == Init /\ [][Next]_vars /\ \A p \in Calls : WF_vars(Advance(p))

-----------------------------------------------------------------------------
(***************************************************************************)
(* Fail closed: a call that returns a directory returns the whole          *)
(* extraction of bytes with the declared digest, whoever published it and  *)
(* whatever was killed on the way (ensure_remote_fixture).                 *)
(***************************************************************************)
ReturnsVerified ==
  \A p \in Calls : pc[p] = "done" =>
    /\ entries[want[p]] \in Payloads
    /\ Digest[entries[want[p]]] = want[p]

(***************************************************************************)
(* "Its presence is proof of integrity" (ensure_remote_blob): what lies    *)
(* under blobs/<sha256> has that digest, at any moment.                    *)
(***************************************************************************)
BlobsGenuine == \A s \in Shas : blobs[s] # Absent => Digest[blobs[s]] = s

(***************************************************************************)
(* "A concurrent run that already published the entry is never clobbered": *)
(* a complete entry, which another process may be copying, never changes.  *)
(***************************************************************************)
NeverClobbered ==
  [][\A s \in Shas : Complete(s) => entries'[s] = entries[s]]_vars

(***************************************************************************)
(* "Any failure raises and leaves nothing behind": a call that ended by    *)
(* itself has removed its temporary file and directory.                    *)
(***************************************************************************)
NothingLeftBehind ==
  \A p \in Calls : pc[p] \in {"done", "failed"} => tmpBlob[p] = Absent /\ tmpDir[p] = Absent

(***************************************************************************)
(* Every call returns or raises, with no lock to wait for.                 *)
(***************************************************************************)
EveryCallEnds == \A p \in Calls : pc[p] \in Running ~> pc[p] \in Ended

-----------------------------------------------------------------------------
\* The inductive strengthening: what a call holds, by where it is.
Holds ==
  \A p \in Calls :
    /\ pc[p] = "write" => data[p] \in Payloads /\ Digest[data[p]] = want[p]
    /\ pc[p] = "publish_blob" => tmpBlob[p] \in Payloads /\ Digest[tmpBlob[p]] = want[p]
    /\ pc[p] \in {"extract", "extracting"} => blobs[want[p]] \in Payloads
    /\ pc[p] = "publish" => tmpDir[p] \in Payloads /\ Digest[tmpDir[p]] = want[p]
    /\ pc[p] = "done" => Complete(want[p])
    /\ pc[p] \notin {"publish_blob", "killed"} => tmpBlob[p] = Absent
    /\ pc[p] \notin {"extracting", "publish", "killed"} => tmpDir[p] = Absent

EntriesGenuine == \A s \in Shas : Complete(s) => Digest[entries[s]] = s

=============================================================================
