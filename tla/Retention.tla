------------------------------ MODULE Retention ------------------------------
(* What runs leave in the project's store, and the collection of what no   *)
(* retained run refers to: allocate_run_id, read_cache_entry,              *)
(* write_node_cache, write_run_artifact, gc_cache and gc_artifacts         *)
(* (store.py) and BlobStore (blobs.py).                                    *)
(*                                                                         *)
(* A process owns one run and produces one node in it, again after a       *)
(* change of its declaration. A node has a cache key; what it returns      *)
(* refers to one blob. The collector lists directories and then opens what *)
(* it has listed, and nothing keeps the runs out meanwhile.                *)
EXTENDS Integers, FiniteSets, FiniteSetsExt

CONSTANTS Process, Key, Blob,
          Nil,
          KeepLast,     \* runs retained
          Alone,        \* no process works while a collection is under way
          MaxJobs,      \* bound: productions of all processes together
          MaxGC         \* bound: collections

VARIABLES dirs,         \* numbers of the run directories
          files,        \* JSON files of the runs: File records
          cache,        \* [Key -> Blob \cup {None}]: node cache entries
          written,      \* [Key -> Nat]: which file an entry is, by its writes
          blobs,        \* digests in the blob store
          job,          \* [Process -> its run, place, key, blob, ...]
          gc,           \* the collector
          productions, collections,
          settled       \* files nobody has touched since the collection began

retVars == <<dirs, files, cache, written, blobs, job, gc, productions, collections, settled>>

\* A JSON file below a run directory that refers to a blob or names a key
File == [run: Nat, in: {"top", "history", "attempts"},
         kind: {"artifact", "sidecar", "candidate"}, key: Key, blob: Blob]

FileOf(p, in, kind) ==
  [run |-> job[p].run, in |-> in, kind |-> kind, key |-> job[p].key, blob |-> job[p].blob]

NoJob == [at |-> "scan", run |-> 0, key |-> Nil, blob |-> Nil, seen |-> 0]
NoGC == [at |-> "idle", keep |-> {}, toList |-> {}, toRead |-> {}, refs |-> {}, names |-> {}]

MayWork == Alone => gc.at = "idle"
At(p, from) == job[p].at = from /\ MayWork
Goes(p, to) == job' = [job EXCEPT ![p].at = to]

-----------------------------------------------------------------------------
\* allocate_run_id: one past the largest number found, then as many further as
\* it takes for mkdir to succeed
Scan(p) ==
  /\ At(p, "scan")
  /\ job' = [job EXCEPT ![p].at = "mkdir", ![p].run = Max(dirs \cup {0}) + 1]
  /\ UNCHANGED <<dirs, files, cache, written, blobs, gc, productions, collections, settled>>

Mkdir(p) ==
  \/ /\ job[p].run \notin dirs
     /\ dirs' = dirs \cup {job[p].run}
     /\ Goes(p, "ready")
  \/ /\ job[p].run \in dirs
     /\ job' = [job EXCEPT ![p].run = @ + 1]
     /\ UNCHANGED dirs

Allocate(p) ==
  /\ At(p, "mkdir")
  /\ Mkdir(p)
  /\ UNCHANGED <<files, cache, written, blobs, gc, productions, collections, settled>>

\* a node is executed: looked up in the cache, or forced past it
Start(p) ==
  /\ At(p, "ready") /\ productions < MaxJobs
  /\ productions' = productions + 1
  /\ \E k \in Key, at \in {"stat", "produce"} :
       job' = [job EXCEPT ![p].at = at, ![p].key = k]
  /\ UNCHANGED <<dirs, files, cache, written, blobs, gc, collections, settled>>

\* _read_node_cache_envelope: MISSING only when the file is not there at the
\* stat; when it is another file or none at the open, the entry is CORRUPT
Stat(p) ==
  /\ At(p, "stat")
  /\ LET k == job[p].key IN
       job' = [job EXCEPT ![p].at = IF cache[k] = Nil THEN "produce" ELSE "read",
                          ![p].seen = written[k]]
  /\ UNCHANGED <<dirs, files, cache, written, blobs, gc, productions, collections, settled>>

ReadEntry(p) ==
  /\ At(p, "read")
  /\ LET k == job[p].key IN
       IF cache[k] # Nil /\ written[k] = job[p].seen
       THEN job' = [job EXCEPT ![p].at = "publish", ![p].blob = cache[k]]
       ELSE Goes(p, "corrupt")
  /\ UNCHANGED <<dirs, files, cache, written, blobs, gc, productions, collections, settled>>

\* the node's own work: BlobStore.put or ingest of what it makes, which links a
\* finished file to its digest unless one is there already
Produce(p) ==
  /\ At(p, "produce")
  /\ \E b \in Blob : /\ blobs' = blobs \cup {b}
                     /\ job' = [job EXCEPT ![p].at = "candidate", ![p].blob = b]
  /\ UNCHANGED <<dirs, files, cache, written, gc, productions, collections, settled>>

\* a file is written in place of the one of the same name
Save(p, in, kind) ==
  LET old == {f \in files : /\ f.run = job[p].run /\ f.in = in
                            /\ f.kind = kind /\ f.key = job[p].key}
      new == FileOf(p, in, kind)
  IN /\ files' = (files \ old) \cup {new}
     /\ settled' = settled \ (old \cup {new})

SaveCandidate(p) ==
  /\ At(p, "candidate")
  /\ Save(p, "attempts", "candidate")
  /\ Goes(p, "seal")
  /\ UNCHANGED <<dirs, cache, written, blobs, gc, productions, collections>>

\* write_node_cache
Seal(p) ==
  /\ At(p, "seal")
  /\ cache' = [cache EXCEPT ![job[p].key] = job[p].blob]
  /\ written' = [written EXCEPT ![job[p].key] = @ + 1]
  /\ Goes(p, "publish")
  /\ UNCHANGED <<dirs, files, blobs, gc, productions, collections, settled>>

\* materialization: the blob is read and verified, or the node fails for it
Publish(p) ==
  /\ At(p, "publish")
  /\ Goes(p, IF job[p].blob \in blobs THEN "archive" ELSE "missing")
  /\ UNCHANGED <<dirs, files, cache, written, blobs, gc, productions, collections, settled>>

Stale(p, kind) ==
  {f \in files : /\ f.run = job[p].run /\ f.in = "top" /\ f.kind = kind
                 /\ f.key = job[p].key}

\* _archive_stale: an artifact that differs goes to the history with its
\* sidecar, one rename after the other
Archive(p, kind, next) ==
  /\ LET moved == {f \in Stale(p, kind) : f.blob # job[p].blob}
     IN /\ files' = (files \ moved) \cup {[f EXCEPT !.in = "history"] : f \in moved}
        /\ settled' = settled \ moved
  /\ Goes(p, next)
  /\ UNCHANGED <<dirs, cache, written, blobs, gc, productions, collections>>

ArchiveArtifact(p) == At(p, "archive") /\ Archive(p, "artifact", "archive_sidecar")
ArchiveSidecar(p) == At(p, "archive_sidecar") /\ Archive(p, "sidecar", "artifact")

\* write_run_artifact: the artifact, then its sidecar
WriteArtifact(p) ==
  /\ At(p, "artifact")
  /\ Save(p, "top", "artifact")
  /\ Goes(p, "sidecar")
  /\ UNCHANGED <<dirs, cache, written, blobs, gc, productions, collections>>

WriteSidecar(p) ==
  /\ At(p, "sidecar")
  /\ Save(p, "top", "sidecar")
  /\ job' = [job EXCEPT ![p] = [NoJob EXCEPT !.at = "ready", !.run = job[p].run]]
  /\ UNCHANGED <<dirs, cache, written, blobs, gc, productions, collections>>

Run(p) ==
  \/ Scan(p) \/ Allocate(p) \/ Start(p) \/ Stat(p) \/ ReadEntry(p) \/ Produce(p)
  \/ SaveCandidate(p) \/ Seal(p) \/ Publish(p) \/ ArchiveArtifact(p)
  \/ ArchiveSidecar(p) \/ WriteArtifact(p) \/ WriteSidecar(p)

-----------------------------------------------------------------------------
\* run_sort_key: by number, the last KeepLast of them
Retained == {r \in dirs : Cardinality({s \in dirs : s > r}) < KeepLast}

Working == \E p \in Process : job[p].at \notin {"scan", "ready", "corrupt", "missing"}

\* gc_cache begins: the retained runs, whose directories are then listed
StartGC ==
  /\ gc.at = "idle" /\ collections < MaxGC
  /\ Alone => ~Working
  /\ collections' = collections + 1
  /\ gc' = [NoGC EXCEPT !.at = "cache_scan", !.toList = {<<r, "top">> : r \in Retained}]
  /\ settled' = {f \in files : f.blob \in blobs /\ cache[f.key] # Nil}
  /\ UNCHANGED <<dirs, files, cache, written, blobs, job, productions>>

\* Mutant: the directories below a run's own are left out.
RootsTopOnly == {"top"}

\* where a collection of blobs looks: _iter_json_values is recursive
Roots == {"top", "history", "attempts"}

Listed(d) ==
  {f \in files : /\ f.run = d[1] /\ f.in = d[2]
                 /\ gc.at = "cache_scan" => f.kind = "sidecar"}

\* a directory is listed
List ==
  /\ gc.at \in {"cache_scan", "blob_scan"}
  /\ \E d \in gc.toList :
       gc' = [gc EXCEPT !.toList = @ \ {d}, !.toRead = @ \cup Listed(d)]
  /\ UNCHANGED <<dirs, files, cache, written, blobs, job, productions, collections, settled>>

\* a listed file is read; one that is not there any more is skipped
ReadFile ==
  /\ gc.at \in {"cache_scan", "blob_scan"}
  /\ \E f \in gc.toRead :
       gc' = [gc EXCEPT
         !.toRead = @ \ {f},
         !.refs = IF f \notin files THEN @
                  ELSE @ \cup {IF gc.at = "cache_scan" THEN f.key ELSE f.blob}]
  /\ UNCHANGED <<dirs, files, cache, written, blobs, job, productions, collections, settled>>

\* the scan is over: the entries, then the blobs, are listed
Sweep ==
  /\ gc.at \in {"cache_scan", "blob_scan"} /\ gc.toList = {} /\ gc.toRead = {}
  /\ gc' = IF gc.at = "cache_scan"
           THEN [gc EXCEPT !.at = "cache_sweep", !.names = {k \in Key : cache[k] # Nil} \ gc.refs]
           ELSE [gc EXCEPT !.at = "blob_sweep", !.names = blobs \ gc.refs]
  /\ UNCHANGED <<dirs, files, cache, written, blobs, job, productions, collections, settled>>

RemoveEntry ==
  /\ gc.at = "cache_sweep"
  /\ \E k \in gc.names : /\ cache' = [cache EXCEPT ![k] = Nil]
                         /\ gc' = [gc EXCEPT !.names = @ \ {k}]
  /\ UNCHANGED <<dirs, files, written, blobs, job, productions, collections, settled>>

\* gc_artifacts goes on with the blobs, for the runs there are by now
NextBlobs ==
  /\ gc.at = "cache_sweep" /\ gc.names = {}
  /\ gc' = [NoGC EXCEPT !.at = "blob_scan", !.toList = Retained \X Roots]
  /\ UNCHANGED <<dirs, files, cache, written, blobs, job, productions, collections, settled>>

\* BlobStore.gc
RemoveBlob ==
  /\ gc.at = "blob_sweep"
  /\ \E b \in gc.names : /\ blobs' = blobs \ {b}
                         /\ gc' = [gc EXCEPT !.names = @ \ {b}]
  /\ UNCHANGED <<dirs, files, cache, written, job, productions, collections, settled>>

EndGC ==
  /\ gc.at = "blob_sweep" /\ gc.names = {}
  /\ gc' = NoGC
  /\ UNCHANGED <<dirs, files, cache, written, blobs, job, productions, collections, settled>>

Collect ==
  StartGC \/ List \/ ReadFile \/ Sweep \/ RemoveEntry \/ NextBlobs \/ RemoveBlob \/ EndGC

RetInit ==
  /\ dirs = {} /\ files = {} /\ blobs = {}
  /\ cache = [k \in Key |-> Nil] /\ written = [k \in Key |-> 0]
  /\ job = [p \in Process |-> NoJob]
  /\ gc = NoGC /\ productions = 0 /\ collections = 0 /\ settled = {}

RetNext == (\E p \in Process : Run(p)) \/ Collect

RetSpec == RetInit /\ [][RetNext]_retVars

-----------------------------------------------------------------------------

\* A collection keeps what the retained runs had recorded before it began and
\* have not touched since: the entry that a top-level sidecar names is still
\* cached and the blob that any of their files refers to is still stored, in
\* the history and in the attempts too (retention.md:23), whatever the runs
\* write, archive and allocate while it is under way.
SettledKept ==
  \A f \in settled : f.run \in Retained =>
    /\ f.blob \in blobs
    /\ f.in = "top" /\ f.kind = "sidecar" => cache[f.key] # Nil

\* What a retained run names can be reused (retention.md:11): an entry that is
\* cached for the key of its sidecar has its blob. It does not hold where an
\* entry is the one of a run that is retained no longer.
ReusableKept ==
  gc.at = "idle" =>
    \A f \in settled : f.run \in Retained /\ f.in = "top" /\ f.kind = "sidecar" =>
      cache[f.key] \in blobs

=============================================================================
