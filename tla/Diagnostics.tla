----------------------------- MODULE Diagnostics -----------------------------
(***************************************************************************)
(* The control plane's store of diagnostic bundles (uploadDiagnostics and  *)
(* expireOldDiagnostics, control-plane/src/index.ts).  A bundle's bytes go *)
(* to the R2 bucket, its metadata to the Durable Object's storage, and a   *)
(* running total of the bytes to registry:stats, in three separate writes; *)
(* an upload first sweeps out bundles that are too old.  Any bucket call   *)
(* may fail, or be carried out and its answer be lost, and the Durable     *)
(* Object may be evicted between two writes: the request ends there.       *)
(***************************************************************************)
EXTENDS Naturals, FiniteSets, FiniteSetsExt

CONSTANTS
    Bundles,     \* bound: the uploads that are ever made
    MaxSize,     \* MAX_DIAGNOSTICS_BUNDLE_BYTES, in units
    Cap,         \* DIAGNOSTICS_STORAGE_CAP_BYTES
    SweepBatch,  \* bundles swept by one upload (25)
    NoJob

\* An upload under way: what it uploads, where it is, how many old bundles it has swept, its
\* copy of the running total, and the bundle it sweeps.
UploadJobs == [bundle : Bundles, pc : {"sweep", "forget", "check", "list", "count"},
               swept : Nat, total : Nat, victim : Bundles]

ASSUME DiagnosticsAssumption ==
    /\ MaxSize \in Nat /\ Cap \in Nat /\ SweepBatch \in Nat
    /\ NoJob \notin UploadJobs

VARIABLES
    stored,      \* the bundles in the bucket
    listed,      \* the bundles with metadata in storage
    size,        \* the size of each bundle uploaded so far, else 0
    old,         \* the bundles past their retention
    used,        \* registry:stats.diagnosticsBytesUsed
    job,         \* the upload under way, or NoJob
    torn         \* history: an upload stopped between bucket and running total

diagVars == <<stored, listed, size, old, used, job, torn>>

Bytes(set) == MapThenSumSet(LAMBDA b : size[b], set)

DiagnosticsInit ==
    /\ stored = {} /\ listed = {} /\ old = {}
    /\ size = [b \in Bundles |-> 0]
    /\ used = 0 /\ job = NoJob /\ torn = FALSE

Uploading(pc) == job # NoJob /\ job.pc = pc

\* An upload of a new bundle arrives; `total` is its copy of the statistics.
Upload(b, bytes) ==
    /\ job = NoJob
    /\ size[b] = 0
    /\ size' = [size EXCEPT ![b] = bytes]
    /\ job' = [bundle |-> b, pc |-> "sweep", swept |-> 0, total |-> used, victim |-> b]
    /\ UNCHANGED <<stored, listed, old, used, torn>>

\* expireOldDiagnostics, one old bundle: its bytes, and then its metadata.
Sweep(v) ==
    /\ Uploading("sweep") /\ job.swept < SweepBatch
    /\ v \in listed \cap old
    /\ stored' = stored \ {v}
    /\ \/ job' = [job EXCEPT !.pc = "forget", !.victim = v]
       \/ job' = NoJob
    /\ UNCHANGED <<listed, size, old, used, torn>>
Forget ==
    /\ Uploading("forget")
    /\ listed' = listed \ {job.victim}
    /\ job' = [job EXCEPT !.pc = "sweep", !.swept = @ + 1,
                          !.total = IF size[job.victim] > @ THEN 0 ELSE @ - size[job.victim]]
    /\ UNCHANGED <<stored, size, old, used, torn>>
SweepDone ==
    /\ Uploading("sweep")
    /\ (job.swept = SweepBatch \/ listed \cap old = {})
    /\ job' = [job EXCEPT !.pc = "check"]
    /\ UNCHANGED <<stored, listed, size, old, used, torn>>

\* The cap is checked before the bundle is written: a refusal saves nothing,
\* and what the sweep has freed is not counted.
OverCap ==
    /\ Uploading("check")
    /\ job.total + size[job.bundle] > Cap
    /\ job' = NoJob
    /\ UNCHANGED <<stored, listed, size, old, used, torn>>
Store ==
    /\ Uploading("check")
    /\ job.total + size[job.bundle] <= Cap
    /\ stored' = stored \cup {job.bundle}
    /\ \/ job' = [job EXCEPT !.pc = "list"] /\ UNCHANGED torn
       \/ job' = NoJob /\ torn' = TRUE
    /\ UNCHANGED <<listed, size, old, used>>
List ==
    /\ Uploading("list")
    /\ listed' = listed \cup {job.bundle}
    /\ job' = [job EXCEPT !.pc = "count"]
    /\ UNCHANGED <<stored, size, old, used, torn>>
Count ==
    /\ Uploading("count")
    /\ used' = job.total + size[job.bundle]
    /\ job' = NoJob
    /\ UNCHANGED <<stored, listed, size, old, torn>>

\* A bucket call fails, or the Durable Object is evicted.
Abandon ==
    /\ job # NoJob
    /\ job' = NoJob
    /\ torn' = (torn \/ job.pc \in {"list", "count"})
    /\ UNCHANGED <<stored, listed, size, old, used>>

\* DIAGNOSTICS_RETENTION_DAYS pass.
Age(b) ==
    /\ size[b] > 0 /\ b \notin old
    /\ job # NoJob => job.bundle # b
    /\ old' = old \cup {b}
    /\ UNCHANGED <<stored, listed, size, used, job, torn>>

DiagnosticsNext ==
    \/ \E b \in Bundles : Age(b) \/ Sweep(b) \/ \E bytes \in 1..MaxSize : Upload(b, bytes)
    \/ Forget \/ SweepDone \/ OverCap \/ Store \/ List \/ Count \/ Abandon

-----------------------------------------------------------------------------
(* Properties.                                                              *)

\* The cap is real: as long as no upload stopped between the bucket and the
\* running total, the bucket never holds more than the total says, and the
\* total is never above DIAGNOSTICS_STORAGE_CAP_BYTES, whatever sweeps failed.
BucketWithinCap ==
    /\ used <= Cap
    /\ ~torn /\ job = NoJob => Bytes(stored) <= used
    /\ ~torn => Bytes(stored) <= Cap
=============================================================================
