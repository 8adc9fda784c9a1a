------------------------------ MODULE CodeIndex ------------------------------
(***************************************************************************)
(* The index of one branch of one repository: requests of the API          *)
(* (code-index-request, embedding-credential), the code-index queue and    *)
(* the indexer (indexing-service, index-store).                            *)
(*                                                                         *)
(* Each request opens a new generation and queues its job.  The indexer    *)
(* stages the generation's chunks beside those of the active one, which    *)
(* retrieval keeps serving, then activates it and purges the others.       *)
(* Every database statement is an action; a job is delivered at least      *)
(* once.  The status the repository shows for all of its branches is left  *)
(* out, as are stage, progress and deletion of rows.                       *)
(***************************************************************************)
EXTENDS Naturals, FiniteSets

CONSTANTS
  Requests,        \* requests the API processes may have open at once
  Indexers,        \* slots of the indexer's worker, numbered from 1
  Batches,         \* inserts that make up one generation's chunks
  MaxFingerprint,  \* bound on the embedding configurations that may be set
  Kinds,           \* the failures and settings that can happen, each once
  MaxBeside,       \* bound on how many of those happen beside an edit
  MaxGeneration,   \* bound on the number of requests
  MaxCommit        \* bound on the commits pushed to the branch

ASSUME BoundsAssumption ==
  /\ Batches \in Nat \ {0} /\ MaxBeside \in Nat
  /\ MaxFingerprint \in Nat \ {0} /\ MaxGeneration \in Nat /\ MaxCommit \in Nat
ASSUME KindsAssumption ==
  Kinds \subseteq {"enqueue", "added", "api", "aborted", "error", "denied", "crash", "unacked",
                   "stall", "slow", "ack", "purge", "edit", "remove"}
ASSUME IndexersAssumption == Indexers \subseteq Nat \ {0}
ASSUME RequestsAssumption == IsFiniteSet(Requests)

Credentials == 0 .. MaxFingerprint   \* 0: none is configured
Generations == 1 .. MaxGeneration

VARIABLES
  row,         \* the repoBranchIndex row
  chunks,      \* the codeChunk rows
  credential,  \* fingerprint of the active embedding credential
  head,        \* the branch's head commit
  asked,       \* the head commit at the latest request (for Refreshed only)
  request,     \* request[c]: the locals of an API request
  job,         \* job[g]: where generation g's job is, and its deliveries
  indexer,     \* indexer[w]: the locals of one run of process()
  happened     \* the failures and settings so far

vars == <<row, chunks, credential, head, asked, request, job, indexer, happened>>

Happens(kind) ==
  /\ kind \in Kinds \ happened
  /\ kind = "edit" \/ Cardinality(happened \ {"edit"}) < MaxBeside
  /\ happened' = happened \cup {kind}
Quiet == UNCHANGED happened

-----------------------------------------------------------------------------
(* Requests of the API.                                                    *)

IdleRequest == [pc |-> "idle", force |-> FALSE, seen |-> 0, generation |-> 0]

Goes(c, k) == request' = [request EXCEPT ![c] = k]
Awaits(c, pc) == request[c].pc = pc

\* Bounds the requests that start, so that each of them can upsert.
Room == row.requested + Cardinality({c \in Requests : ~Awaits(c, "idle")}) < MaxGeneration

\* A request comes in, a tester's or the nightly refresh's, and reads whether
\* the organisation has an embedding credential.
Request(c) ==
  /\ Awaits(c, "idle") /\ Room
  /\ \E f \in BOOLEAN :
       Goes(c, [IdleRequest EXCEPT !.pc = "upsert", !.force = f, !.seen = credential])
  /\ Quiet /\ UNCHANGED <<row, chunks, credential, head, asked, job, indexer>>

\* An edit requests the branches of the organisation one after another: the
\* request of this one does the same...
ReadEmbedding(c) ==
  /\ Awaits(c, "embedding")
  /\ Goes(c, [request[c] EXCEPT !.pc = "upsert", !.seen = credential])
  /\ Quiet /\ UNCHANGED <<row, chunks, credential, head, asked, job, indexer>>

\* ... unless the request of a branch before it throws: the queue cannot be
\* reached, or a repository was deleted since the branches were read.  Nobody
\* catches it, and the branches that are left are not requested.
LoopAborts(c) ==
  /\ Awaits(c, "embedding") /\ Happens("aborted") /\ Goes(c, IdleRequest)
  /\ UNCHANGED <<row, chunks, credential, head, asked, job, indexer>>

Upsert(c) ==
  LET k == request[c]
      blocked == k.seen = 0
      generation == row.requested + 1
  IN
  /\ Awaits(c, "upsert")
  /\ row' = [row EXCEPT !.requested = generation,
                        !.status = IF blocked THEN "BLOCKED" ELSE "PENDING"]
  /\ asked' = head
  /\ Goes(c, IF blocked THEN IdleRequest
             ELSE [k EXCEPT !.pc = "enqueue", !.generation = generation])
  /\ Quiet /\ UNCHANGED <<chunks, credential, head, job, indexer>>

Queued(g, f) == job' = [job EXCEPT ![g].state = "waiting", ![g].force = f]

EnqueueCodeIndex(c) ==
  LET k == request[c] IN
  /\ Awaits(c, "enqueue")
  /\ Queued(k.generation, k.force) /\ Goes(c, IdleRequest)
  /\ Quiet /\ UNCHANGED <<row, chunks, credential, head, asked, indexer>>

\* The queue cannot be reached, or its answer is lost after it took the job.
EnqueueFails(c) ==
  LET k == request[c] IN
  /\ Awaits(c, "enqueue")
  /\ \/ Happens("enqueue") /\ UNCHANGED job
     \/ Happens("added") /\ Queued(k.generation, k.force)
  /\ Goes(c, [k EXCEPT !.pc = "unavailable"])
  /\ UNCHANGED <<row, chunks, credential, head, asked, indexer>>

QueueUnavailable(c) ==
  /\ Awaits(c, "unavailable")
  /\ row' = IF row.requested = request[c].generation THEN [row EXCEPT !.status = "FAILED"]
            ELSE row
  /\ Goes(c, IdleRequest)
  /\ Quiet /\ UNCHANGED <<chunks, credential, head, asked, job, indexer>>

ApiCrash(c) ==
  /\ ~Awaits(c, "idle") /\ Happens("api") /\ Goes(c, IdleRequest)
  /\ UNCHANGED <<row, chunks, credential, head, asked, job, indexer>>

-----------------------------------------------------------------------------
(* The embedding credential.  An edit that changes the fingerprint asks    *)
(* for every index to be built anew.                                       *)

EditCredential(c) ==
  /\ Awaits(c, "idle") /\ Room /\ Happens("edit")
  /\ Goes(c, [IdleRequest EXCEPT !.pc = "edit", !.seen = credential, !.force = TRUE])
  /\ UNCHANGED <<row, chunks, credential, head, asked, job, indexer>>

ChangedFromNone(k, f) == k.seen = 0
Changed(k, f) == k.seen # f

WriteCredential(c) ==
  /\ Awaits(c, "edit")
  /\ \E f \in 1 .. MaxFingerprint :
       /\ credential' = f
       /\ Goes(c, IF Changed(request[c], f) THEN [request[c] EXCEPT !.pc = "embedding"]
                  ELSE IdleRequest)
  /\ Quiet /\ UNCHANGED <<row, chunks, head, asked, job, indexer>>

RemoveCredential ==
  /\ credential # 0 /\ Happens("remove")
  /\ credential' = 0
  /\ row' = [row EXCEPT !.status = "BLOCKED"]
  /\ UNCHANGED <<chunks, head, asked, request, job, indexer>>

-----------------------------------------------------------------------------
(* The queue: two attempts per job, one redelivery of a stalled job.       *)

IdleIndexer == [pc |-> "idle", generation |-> 0, active |-> 0, commit |-> 0,
                indexed |-> 0, fingerprint |-> 0, head |-> 0, batch |-> 0,
                outcome |-> "STALE"]

At(w, pc) == indexer[w].pc = pc
Runs(w, k) == indexer' = [indexer EXCEPT ![w] = k]
To(w, pc) == Runs(w, [indexer[w] EXCEPT !.pc = pc])
Gen(w) == indexer[w].generation

\* process() ends; an indexer that has lost the job's lock decides nothing.
Holds(w) == job[Gen(w)].slot = w
Leave(j, state) == [j EXCEPT !.state = state, !.slot = 0]
Settle(w, j) ==
  /\ job' = IF Holds(w) THEN [job EXCEPT ![Gen(w)] = j] ELSE job
  /\ Runs(w, IdleIndexer)

Returns(w) == Settle(w, Leave(job[Gen(w)], "done"))
ThrowsAgain(w) ==
  LET j == job[Gen(w)] IN Settle(w, [Leave(j, "waiting") EXCEPT !.failures = @ + 1])
Throws(w) ==
  LET j == job[Gen(w)] IN
  Settle(w, [Leave(j, IF j.failures = 0 THEN "waiting" ELSE "done") EXCEPT !.failures = @ + 1])

\* A job that stalled is delivered once more, and failed the second time.
Stalls(j) == [Leave(j, IF j.stalls = 0 THEN "waiting" ELSE "done") EXCEPT !.stalls = @ + 1]

IndexerCrash(w) ==
  /\ ~At(w, "idle")
  /\ Happens(IF At(w, "purge") THEN "unacked" ELSE "crash")
  /\ Settle(w, Stalls(job[Gen(w)]))
  /\ UNCHANGED <<row, chunks, credential, head, asked, request>>

\* The lock is not renewed in time while the indexer runs on.
Stall(w) ==
  /\ ~At(w, "idle") /\ Holds(w) /\ Happens("stall")
  /\ job' = [job EXCEPT ![Gen(w)] = Stalls(@)]
  /\ UNCHANGED <<row, chunks, credential, head, asked, request, indexer>>

-----------------------------------------------------------------------------
(* process().                                                              *)

Of(g) == {x \in chunks : x.generation = g}

\* The test of ensureCurrent, and of every conditional write.
CurrentIgnored(g) == TRUE
Current(g) == row.requested = g

Abandon(w) == Runs(w, [indexer[w] EXCEPT !.pc = "cleanup", !.outcome = "STALE"])

\* Anything the indexer cannot do: GitHub, the archive, the embedder.
Breaks(w) ==
  /\ \/ Happens("error") /\ Runs(w, [indexer[w] EXCEPT !.pc = "cleanup", !.outcome = "FAILED"])
     \/ Happens("denied") /\ Runs(w, [indexer[w] EXCEPT !.pc = "cleanup", !.outcome = "BLOCKED"])
  /\ \E pc \in {"head", "prepare", "save", "activate"} : At(w, pc)
  /\ UNCHANGED <<row, chunks, credential, head, asked, request, job>>

\* A job is delivered; claim reads the row and the credentials.  Whatever
\* claim throws leaves process() without a context: nothing is cleaned up.
Load(g) == [IdleIndexer EXCEPT !.pc = "claim", !.generation = g, !.active = row.active,
                               !.commit = row.commit, !.indexed = row.fingerprint,
                               !.fingerprint = credential]

\* A new delivery takes the lowest free slot.
Free(w) == At(w, "idle") /\ \A v \in Indexers : v < w => ~At(v, "idle")

Deliver(w, g) ==
  /\ Free(w) /\ job[g].state = "waiting"
  /\ job' = IF Current(g) THEN [job EXCEPT ![g].state = "active", ![g].slot = w]
            ELSE [job EXCEPT ![g].state = "done"]
  /\ Runs(w, IF ~Current(g) THEN IdleIndexer
             ELSE IF credential = 0
                  THEN [IdleIndexer EXCEPT !.pc = "block", !.generation = g]
             ELSE Load(g))
  /\ Quiet /\ UNCHANGED <<row, chunks, credential, head, asked, request>>

Block(w) ==
  /\ At(w, "block")
  /\ row' = IF Current(Gen(w)) THEN [row EXCEPT !.status = "BLOCKED"] ELSE row
  /\ Throws(w)
  /\ Quiet /\ UNCHANGED <<chunks, credential, head, asked, request>>

Claim(w) ==
  /\ At(w, "claim")
  /\ IF Current(Gen(w)) /\ row.status # "INDEXING"
     THEN row' = [row EXCEPT !.status = "INDEXING"] /\ To(w, "head") /\ UNCHANGED job
     ELSE Returns(w) /\ UNCHANGED row
  /\ Quiet /\ UNCHANGED <<chunks, credential, head, asked, request>>

Unchanged(k) ==
  /\ ~job[k.generation].force
  /\ k.active # 0 /\ k.commit = head /\ k.indexed = k.fingerprint

GetBranchHead(w) ==
  LET k == indexer[w] IN
  /\ At(w, "head")
  /\ IF ~Current(k.generation) THEN Abandon(w)
     ELSE Runs(w, [k EXCEPT !.pc = IF Unchanged(k) THEN "unchanged" ELSE "prepare",
                            !.head = head, !.commit = 0, !.indexed = 0])
  /\ Quiet /\ UNCHANGED <<row, chunks, credential, head, asked, request, job>>

Ready(k) == [row EXCEPT !.status = "READY", !.commit = k.head,
                        !.fingerprint = k.fingerprint]

CompleteUnchanged(w) ==
  LET k == indexer[w] IN
  /\ At(w, "unchanged")
  /\ IF credential = k.fingerprint /\ Current(k.generation) /\ row.active = k.active
     THEN row' = Ready(k) /\ Returns(w)
     ELSE Abandon(w) /\ UNCHANGED <<row, job>>
  /\ Quiet /\ UNCHANGED <<chunks, credential, head, asked, request>>

\* Staging begins a download and an extraction after the head was read: one
\* that overtakes the purge of the generation activated before is "slow".
Overtakes(w) == \E v \in Indexers : v # w /\ At(v, "purge")

PrepareGeneration(w) ==
  /\ At(w, "prepare")
  /\ IF Overtakes(w) THEN Happens("slow") ELSE Quiet
  /\ \/ Current(Gen(w)) /\ chunks' = chunks \ Of(Gen(w)) /\ To(w, "save")
     \/ ~Current(Gen(w)) /\ Abandon(w) /\ UNCHANGED chunks
  /\ UNCHANGED <<row, credential, head, asked, request, job>>

\* saveChunks checks that the generation is current, then inserts.
SaveChunks(w) ==
  /\ At(w, "save")
  /\ IF Current(Gen(w)) THEN To(w, "insert") ELSE Abandon(w)
  /\ Quiet /\ UNCHANGED <<row, chunks, credential, head, asked, request, job>>

Insert(w) ==
  LET k == indexer[w]
      batch == k.batch + 1
  IN
  /\ At(w, "insert")
  /\ chunks' = chunks \cup {[generation |-> k.generation, batch |-> batch, by |-> w,
                             commit |-> k.head, fingerprint |-> k.fingerprint]}
  /\ Runs(w, [k EXCEPT !.pc = IF batch = Batches THEN "activate" ELSE "save",
                       !.batch = batch])
  /\ Quiet /\ UNCHANGED <<row, credential, head, asked, request, job>>

\* activate reads the number of staged chunks and the credential...
Staged(k) == Cardinality(Of(k.generation)) = Batches

CheckActivation(w) ==
  LET k == indexer[w] IN
  /\ At(w, "activate")
  /\ IF ~Current(k.generation) THEN Abandon(w)
     ELSE IF ~Staged(k) THEN Runs(w, [k EXCEPT !.pc = "cleanup", !.outcome = "FAILED"])
     ELSE IF credential # k.fingerprint THEN Abandon(w)
     ELSE To(w, "commit")
  /\ Quiet /\ UNCHANGED <<row, chunks, credential, head, asked, request, job>>

\* ... and writes the row if the generation is still the requested one.  The
\* commit may take effect and be reported as an error.
Activate(w) ==
  LET k == indexer[w] IN
  /\ At(w, "commit")
  /\ IF ~Current(k.generation) THEN Abandon(w) /\ Quiet /\ UNCHANGED row
     ELSE /\ row' = [Ready(k) EXCEPT !.active = k.generation]
          /\ \/ To(w, "purge") /\ Quiet
             \/ Happens("ack") /\ Runs(w, [k EXCEPT !.pc = "cleanup", !.outcome = "FAILED"])
  /\ UNCHANGED <<chunks, credential, head, asked, request, job>>

\* A purge that fails is only logged.
KeptRequested(w) == Of(row.requested)
Kept(w) == Of(Gen(w))

Purge(w) ==
  /\ At(w, "purge")
  /\ \/ chunks' = Kept(w) /\ Quiet
     \/ Happens("purge") /\ UNCHANGED chunks
  /\ Returns(w)
  /\ UNCHANGED <<row, credential, head, asked, request>>

CleansErrors(k) == k.generation # k.active /\ k.outcome # "STALE"
Cleans(k) == k.generation # k.active

CleanupGeneration(w) ==
  LET k == indexer[w] IN
  /\ At(w, "cleanup")
  /\ chunks' = IF Cleans(k) THEN chunks \ Of(k.generation) ELSE chunks
  /\ IF k.outcome = "STALE" THEN Returns(w) ELSE To(w, "fail") /\ UNCHANGED job
  /\ Quiet /\ UNCHANGED <<row, credential, head, asked, request>>

FailedIfBlocked(k) == IF k.outcome = "BLOCKED" THEN [row EXCEPT !.status = "BLOCKED"] ELSE row
Failed(k) == [row EXCEPT !.status = k.outcome]

Fail(w) ==
  LET k == indexer[w] IN
  /\ At(w, "fail")
  /\ row' = IF Current(k.generation) THEN Failed(k) ELSE row
  /\ Throws(w)
  /\ Quiet /\ UNCHANGED <<chunks, credential, head, asked, request>>

-----------------------------------------------------------------------------
Push ==
  /\ head < MaxCommit /\ head' = head + 1
  /\ Quiet /\ UNCHANGED <<row, chunks, credential, asked, request, job, indexer>>

Init ==
  /\ row = [status |-> "new", requested |-> 0, active |-> 0, commit |-> 0,
            fingerprint |-> 0]
  /\ chunks = {} /\ credential \in 0 .. 1
  /\ head = 1 /\ asked = 0
  /\ request = [c \in Requests |-> IdleRequest]
  /\ job = [g \in Generations |-> [state |-> "none", slot |-> 0, failures |-> 0, stalls |-> 0,
                                   force |-> FALSE]]
  /\ indexer = [w \in Indexers |-> IdleIndexer]
  /\ happened = {}

RequestStep(c) ==
  \/ ReadEmbedding(c) \/ Upsert(c) \/ EnqueueCodeIndex(c) \/ QueueUnavailable(c)
  \/ WriteCredential(c)

IndexerStep(w) ==
  \/ Block(w) \/ Claim(w) \/ GetBranchHead(w) \/ CompleteUnchanged(w)
  \/ PrepareGeneration(w) \/ SaveChunks(w) \/ Insert(w)
  \/ CheckActivation(w) \/ Activate(w) \/ Purge(w) \/ CleanupGeneration(w) \/ Fail(w)

Next ==
  \/ \E c \in Requests : \/ RequestStep(c) \/ Request(c) \/ EnqueueFails(c)
                         \/ LoopAborts(c) \/ ApiCrash(c) \/ EditCredential(c)
  \/ \E w \in Indexers : \/ IndexerStep(w) \/ Breaks(w) \/ IndexerCrash(w) \/ Stall(w)
                         \/ \E g \in Generations : Deliver(w, g)
  \/ RemoveCredential \/ Push

Spec == Init /\ [][Next]_vars

\* API requests and runs of process() continue (every network call has a
\* timeout), and waiting jobs are delivered.
FairSpec ==
  /\ Spec
  /\ \A c \in Requests : WF_vars(RequestStep(c))
  /\ \A w \in Indexers : WF_vars(IndexerStep(w))
  /\ \A g \in Generations : WF_vars(\E w \in Indexers : Deliver(w, g))

-----------------------------------------------------------------------------
\* The rows and locals are what the code can write, and no job is delivered
\* after its second failure (queue.module 28-41) or its second stall.
Chunk == [generation : Generations, batch : 1 .. Batches, by : Indexers,
          commit : Nat, fingerprint : Credentials]
TypeOK ==
  /\ row \in [status : {"new", "PENDING", "INDEXING", "READY", "FAILED", "BLOCKED"},
              requested : 0 .. MaxGeneration, active : 0 .. MaxGeneration,
              commit : Nat, fingerprint : Credentials]
  /\ chunks \subseteq Chunk
  /\ credential \in Credentials /\ head \in Nat /\ asked \in Nat
  /\ request \in [Requests ->
       [pc : {"idle", "edit", "embedding", "upsert", "enqueue", "unavailable"},
        force : BOOLEAN, seen : Credentials, generation : 0 .. MaxGeneration]]
  /\ job \in [Generations -> [state : {"none", "waiting", "active", "done"},
                              slot : Indexers \cup {0}, failures : 0 .. 2,
                              stalls : 0 .. 2, force : BOOLEAN]]
  /\ indexer \in [Indexers ->
       [pc : {"idle", "block", "claim", "head", "unchanged", "prepare", "save",
              "insert", "activate", "commit", "purge", "cleanup", "fail"},
        generation : 0 .. MaxGeneration, active : 0 .. MaxGeneration, commit : Nat,
        indexed : Credentials, fingerprint : Credentials, head : Nat,
        batch : 0 .. Batches, outcome : {"STALE", "FAILED", "BLOCKED"}]]
  /\ happened \subseteq Kinds

\* The job of an active generation may be delivered again: its indexer died
\* or lost its lock, or took its commit to have failed.
Redelivered == happened \cap {"unacked", "stall", "ack"} # {}

\* Retrieval serves the chunks of the active generation (codebase-retrieval,
\* 146-226) while others are staged, abandoned, retried and purged: they are
\* all of that generation's, once each, taken from the commit and embedded
\* with the configuration that the row names.  It takes for granted that no
\* active generation is redelivered (it would be cleared and restaged in
\* place) and that staging does not overtake a purge.
ServedWhole ==
  row.active # 0 /\ ~Redelivered /\ "slow" \notin happened =>
    /\ Cardinality(Of(row.active)) = Batches
    /\ {x.batch : x \in Of(row.active)} = 1 .. Batches
    /\ \A x \in Of(row.active) : x.commit = row.commit /\ x.fingerprint = row.fingerprint

\* A refresh that ended READY has indexed whatever was pushed before it was
\* asked for, although the request's predecessors may still be running.
Refreshed == row.status = "READY" => row.commit >= asked

\* Once an edit of the credential is through, an index that is READY was
\* embedded with that credential, also one that was being built when the edit
\* came - unless the edit did not come to this branch's request, because its
\* process died or the request of another branch threw.  The credential has
\* been written by then, and the same edit made again asks for nothing.
Unrequested == happened \cap {"api", "aborted"} # {}
Reembedded ==
  row.status = "READY" /\ credential # 0 /\ ~Unrequested
    /\ (\A c \in Requests : Awaits(c, "idle"))
    => row.fingerprint = credential

\* When no indexer runs, only the served chunks are stored, unless an
\* indexer died, a purge failed or an active generation was redelivered.
Tidy ==
  (\A w \in Indexers : At(w, "idle")) /\ ~Redelivered /\ happened \cap {"crash", "purge"} = {}
    => chunks = Of(row.active)

\* A generation that was superseded never becomes active again.
NeverBack == [][row'.active >= row.active]_vars

\* A requested index is built or refused.  A process that dies in between
\* leaves it PENDING or INDEXING: the refresh (code-index-refresh.cron,
\* 45-76) looks only for READY and FAILED rows, and the redelivered job finds
\* the row INDEXING and gives up (index-store 127-143).  So does an index
\* given up for a new credential whose request is never made: the loop was
\* aborted, or the edit wrote back what a removal had taken away meanwhile.
EverSettles ==
  row.status \in {"PENDING", "INDEXING"} ~>
    \/ row.status \in {"READY", "FAILED", "BLOCKED"}
    \/ credential = 0 \/ Unrequested \/ {"edit", "remove"} \subseteq happened
    \/ happened \cap {"crash", "unacked"} # {}
=============================================================================
