----------------------- MODULE CodeIndexChunks_proofs -----------------------
(***************************************************************************)
(* The stored chunks of CodeIndex, for any number of requests, indexers,   *)
(* generations, batches and failures: the active generation's are complete *)
(* and of one commit and one embedding, and nothing else is left behind.   *)
(*                                                                         *)
(* Both need that no active generation is delivered again (Redelivered):   *)
(* only then is each indexer at work alone on its generation (Alone), and  *)
(* the served one left to itself.                                          *)
(***************************************************************************)
EXTENDS CodeIndex_proofs, FunctionTheorems

Busy(w) == ~At(w, "idle")

\* Statements between the clearing of the generation's chunks and the commit,
\* and those at which the generation may have chunks that are to be removed.
Staging == {"save", "insert", "activate", "commit"}
Held == Staging \cup {"cleanup"}

\* The chunks that an indexer has inserted, and those of a whole generation.
Inserted(w, k) ==
  {x \in Chunk : /\ x.generation = k.generation /\ x.by = w /\ x.commit = k.head
                 /\ x.fingerprint = k.fingerprint /\ x.batch <= k.batch}
Whole(by) ==
  {x \in Chunk : /\ x.generation = row.active /\ x.by = by /\ x.commit = row.commit
                 /\ x.fingerprint = row.fingerprint}

-----------------------------------------------------------------------------
(* The invariant.                                                          *)

\* An indexer at work holds the job of its generation, which is not served
\* unless the indexer has just activated it; what it read of the row is of
\* an earlier generation, or still true.
Underway(k) ==
  k.pc # "idle" =>
    /\ k.generation = row.active => k.pc = "purge"
    /\ k.active <= row.active
    /\ k.pc # "block" => k.active # k.generation
    /\ k.pc \in {"activate", "commit"} => k.batch = Batches
    /\ k.pc \in {"claim", "head"} /\ k.active = row.active /\ row.active # 0 =>
         k.commit = row.commit /\ k.indexed = row.fingerprint
    /\ k.pc = "unchanged" =>
         /\ k.active # 0
         /\ k.active = row.active => k.head = row.commit /\ k.fingerprint = row.fingerprint

Employed(w) == Busy(w) => Holds(w) /\ job[Gen(w)].state = "active"

\* The job of the active generation is done, or about to be.
ServedJob ==
  row.active # 0 =>
    /\ job[row.active].state # "none"
    /\ \/ job[row.active].state = "done"
       \/ \E w \in Indexers : At(w, "purge") /\ Gen(w) = row.active

Alone == /\ \A w \in Indexers : Employed(w) /\ Underway(indexer[w])
         /\ ServedJob

\* Every chunk is served, or an indexer is going to remove it.
Attended(x) ==
  \/ x.generation = row.active
  \/ \E w \in Indexers : Gen(w) = x.generation /\ indexer[w].pc \in Held
  \/ \E v \in Indexers : At(v, "purge") /\ Gen(v) # x.generation

TidyInv == happened \cap {"crash", "purge"} = {} => \A x \in chunks : Attended(x)

\* The chunks of the generation in the making and of the served one.
StoredIs(w, k) == Of(k.generation) = Inserted(w, k)

ServedInv ==
  "slow" \notin happened =>
    /\ \A v \in Indexers : At(v, "purge") => Gen(v) = row.active
    /\ \A v, w \in Indexers : At(v, "purge") /\ indexer[w].pc \in Staging => ~Current(Gen(w))
    /\ \A w \in Indexers : indexer[w].pc \in Staging /\ Current(Gen(w)) => StoredIs(w, indexer[w])
    /\ row.active # 0 => \E by \in Indexers : Of(row.active) = Whole(by)

CInv == ~Redelivered => Alone /\ TidyInv /\ ServedInv

-----------------------------------------------------------------------------
(* What the steps do.                                                      *)

RowKept == /\ row'.active = row.active /\ row'.commit = row.commit
           /\ row'.fingerprint = row.fingerprint

\* An indexer goes on with its generation, k being its locals then.
Onward(w, k) ==
  /\ Runs(w, k) /\ k \in IndexerT /\ job' = job
  /\ RowKept /\ row'.requested = row.requested
  /\ Busy(w) /\ ~At(w, "purge")
  /\ k.generation = Gen(w) /\ k.pc \notin {"idle", "purge"} /\ Underway(k)
  /\ \A x \in chunks : x.generation # Gen(w) => x \in chunks'
  /\ \A x \in chunks' : x \in chunks \/ (x.generation = Gen(w) /\ k.pc \in Staging)
  /\ indexer[w].pc \in Held /\ k.pc \notin Held => \A x \in chunks' : x.generation # Gen(w)
  /\ k.pc \in Staging /\ "slow" \notin happened' =>
       \/ /\ indexer[w].pc \in Staging
          /\ StoredIs(w, indexer[w]) => StoredIs(w, k)'
       \/ /\ \A v \in Indexers : ~At(v, "purge")
          /\ StoredIs(w, k)'

\* An indexer ends; j is the job that it leaves behind.
Ends(w, j) ==
  /\ Runs(w, IdleIndexer) /\ job' = [job EXCEPT ![Gen(w)] = j]
  /\ RowKept /\ row'.requested = row.requested
  /\ Busy(w) /\ j.state # "none" /\ (At(w, "purge") => j.state = "done")
  /\ \/ At(w, "purge") /\ (chunks' = Kept(w) \/ (chunks' = chunks /\ "purge" \in happened'))
     \/ At(w, "cleanup") /\ chunks' = chunks \ Of(Gen(w))
     \/ ~At(w, "purge") /\ chunks' = chunks /\ (indexer[w].pc \in Held => "crash" \in happened')

\* An indexer activates its generation.
Commits(w) ==
  /\ At(w, "commit") /\ Current(Gen(w)) /\ To(w, "purge")
  /\ row' = [Ready(indexer[w]) EXCEPT !.active = Gen(w)]
  /\ UNCHANGED <<chunks, job>>

\* A step of a request or of the world around.
Outside ==
  /\ UNCHANGED <<chunks, indexer>> /\ RowKept
  /\ row'.requested >= row.requested /\ row'.requested \in Nat
  /\ \A g \in Generations : job'[g] = job[g] \/ (job[g].state = "none" /\ job'[g].state # "none")

LEMMA HappenedStays ==
  ASSUME [Next]_vars, ~Redelivered'
  PROVE  ~Redelivered /\ happened \subseteq happened'
<1>1. happened \subseteq happened'
  <2>1. CASE UNCHANGED vars
    BY <2>1 DEF vars
  <2>2. ASSUME NEW c \in Requests,
               RequestStep(c) \/ Request(c) \/ EnqueueFails(c)
                 \/ LoopAborts(c) \/ ApiCrash(c) \/ EditCredential(c)
        PROVE  Quiet \/ \E kind : Happens(kind)
    BY <2>2 DEF RequestStep, ReadEmbedding, Upsert, EnqueueCodeIndex, QueueUnavailable,
                WriteCredential, Request, EnqueueFails, LoopAborts, ApiCrash, EditCredential
  <2>3. ASSUME NEW w \in Indexers, IndexerStep(w) \/ Breaks(w) \/ IndexerCrash(w) \/ Stall(w)
        PROVE  Quiet \/ \E kind : Happens(kind)
    BY <2>3 DEF IndexerStep, Block, Claim, GetBranchHead, CompleteUnchanged, PrepareGeneration,
                SaveChunks, Insert, CheckActivation, Activate, Purge, CleanupGeneration, Fail,
                Breaks, IndexerCrash, Stall
  <2>4. ASSUME NEW w \in Indexers, NEW g \in Generations, Deliver(w, g)
        PROVE  Quiet
    BY <2>4 DEF Deliver
  <2>5. RemoveCredential \/ Push => Quiet \/ \E kind : Happens(kind)
    BY DEF RemoveCredential, Push
  <2> QED
    BY <2>1, <2>2, <2>3, <2>4, <2>5, RemembersHappened DEF Next
<1> QED
  BY <1>1 DEF Redelivered

LEMMA RowTyped ==
  ASSUME TInv
  PROVE  /\ row \in RowT /\ row.requested \in Nat /\ row.active \in Nat /\ chunks \subseteq Chunk
         /\ job \in [Generations -> JobT] /\ indexer \in [Indexers -> IndexerT]
<1>1. /\ row \in RowT /\ chunks \subseteq Chunk /\ job \in [Generations -> JobT]
      /\ indexer \in [Indexers -> IndexerT]
  BY TypesAre DEF TInv
<1> QED
  BY <1>1, BoundsAssumption DEF RowT

LEMMA StatusKept ==
  ASSUME TInv, NEW s \in {"BLOCKED", "PENDING", "FAILED", "INDEXING"},
         row' = row \/ row' = [row EXCEPT !.status = s]
  PROVE  RowKept /\ row'.requested = row.requested /\ row'.requested \in Nat
BY RowTyped DEF RowT, RowKept

LEMMA QueuedIsOutside ==
  ASSUME TInv, NEW c \in Requests, EnqueueCodeIndex(c) \/ EnqueueFails(c)
  PROVE  Outside
<1>1. UNCHANGED <<chunks, indexer, row>> /\ Awaits(c, "enqueue")
  BY DEF EnqueueCodeIndex, EnqueueFails
<1>2. CASE job' = job
  BY <1>1, <1>2, RowTyped DEF Outside, RowKept
<1>3. CASE Queued(request[c].generation, request[c].force)
  <2>1. request[c].force \in BOOLEAN
    BY TypesAre DEF TInv, RequestT
  <2>2. PICK g \in Generations : \E j : /\ JobMay(j) /\ job[g].state = "none"
                                        /\ job' = [job EXCEPT ![g] = j]
    BY <1>1, <1>3, <2>1, JobOfRequest
  <2>3. PICK j : JobMay(j) /\ job' = [job EXCEPT ![g] = j]
    BY <2>2
  <2>4. \A h \in Generations : job'[h] = IF h = g THEN j ELSE job[h]
    BY <2>3, RowTyped
  <2> QED
    BY <1>1, <2>2, <2>3, <2>4, RowTyped DEF Outside, RowKept, JobMay
<1> QED
  BY <1>2, <1>3 DEF EnqueueCodeIndex, EnqueueFails

LEMMA RequestIsOutside ==
  ASSUME TInv, NEW c \in Requests,
         RequestStep(c) \/ Request(c) \/ EnqueueFails(c)
           \/ LoopAborts(c) \/ ApiCrash(c) \/ EditCredential(c)
  PROVE  Outside
<1>1. CASE Upsert(c)
  <2> DEFINE s == IF request[c].seen = 0 THEN "BLOCKED" ELSE "PENDING"
             r == [row EXCEPT !.requested = row.requested + 1, !.status = s]
  <2>1. row' = r /\ UNCHANGED <<chunks, indexer, job>>
    BY <1>1 DEF Upsert
  <2>2. /\ r.active = row.active /\ r.commit = row.commit /\ r.fingerprint = row.fingerprint
        /\ r.requested = row.requested + 1
    BY RowTyped DEF RowT
  <2> HIDE DEF r
  <2> QED
    BY <2>1, <2>2, RowTyped DEF Outside, RowKept
<1>2. CASE QueueUnavailable(c)
  <2>1. row' = row \/ row' = [row EXCEPT !.status = "FAILED"]
    BY <1>2 DEF QueueUnavailable
  <2>2. UNCHANGED <<chunks, indexer, job>>
    BY <1>2 DEF QueueUnavailable
  <2>3. row.requested \in Nat
    BY RowTyped
  <2> QED
    BY <2>1, <2>2, <2>3, StatusKept DEF Outside
<1>3. CASE ReadEmbedding(c) \/ WriteCredential(c) \/ Request(c) \/ LoopAborts(c) \/ ApiCrash(c)
             \/ EditCredential(c)
  <2>1. UNCHANGED <<chunks, indexer, job, row>>
    BY <1>3 DEF ReadEmbedding, WriteCredential, Request, LoopAborts, ApiCrash, EditCredential
  <2>2. row.requested \in Nat
    BY RowTyped
  <2> QED
    BY <2>1, <2>2 DEF Outside, RowKept
<1> QED
  BY <1>1, <1>2, <1>3, QueuedIsOutside DEF RequestStep

LEMMA WorldIsOutside ==
  ASSUME TInv, RemoveCredential \/ Push
  PROVE  Outside
<1>1. UNCHANGED <<chunks, indexer, job>>
      /\ (row' = row \/ row' = [row EXCEPT !.status = "BLOCKED"])
  BY DEF RemoveCredential, Push
<1>2. row.requested \in Nat
  BY RowTyped
<1> QED
  BY <1>1, <1>2, StatusKept DEF Outside

-----------------------------------------------------------------------------
(* What the steps of an indexer do.                                        *)

\* One that goes on without touching the chunks.
LEMMA GoesOn ==
  ASSUME TInv, NEW w \in Indexers, NEW k \in IndexerT, Runs(w, k), UNCHANGED <<chunks, job>>,
         RowKept, row'.requested = row.requested, Busy(w), ~At(w, "purge"),
         k.generation = Gen(w), k.pc \notin {"idle", "purge"}, Underway(k),
         indexer[w].pc \in Held => k.pc \in Held,
         k.pc \in Staging => /\ indexer[w].pc \in Staging /\ k.batch = indexer[w].batch
                             /\ k.head = indexer[w].head
                             /\ k.fingerprint = indexer[w].fingerprint
  PROVE  Onward(w, k)
<1>1. k.pc \in Staging => (StoredIs(w, indexer[w]) => StoredIs(w, k)')
  <2>1. k.pc \in Staging => Inserted(w, k) = Inserted(w, indexer[w])
    BY DEF Inserted, Gen
  <2>2. Inserted(w, k)' = Inserted(w, k)
    BY DEF Inserted
  <2>3. Of(k.generation)' = Of(k.generation)
    BY DEF Of
  <2> QED
    BY <2>1, <2>2, <2>3 DEF StoredIs, Gen
<1> QED
  BY <1>1 DEF Onward

\* One that abandons its generation, or takes it for failed.
LEMMA GivesUp ==
  ASSUME TInv, Alone, NEW w \in Indexers, NEW pc \in {"cleanup"},
         NEW o \in {"STALE", "FAILED", "BLOCKED"},
         Runs(w, [indexer[w] EXCEPT !.pc = pc, !.outcome = o]),
         UNCHANGED <<chunks, job>>, RowKept, row'.requested = row.requested,
         indexer[w].pc \notin {"idle", "block", "purge"}
  PROVE  \E k : Onward(w, k)
<1>a. PICK k : k = [indexer[w] EXCEPT !.pc = pc, !.outcome = o]
  OBVIOUS
<1>1. /\ k \in IndexerT /\ k.pc = "cleanup" /\ k.generation = Gen(w)
      /\ k.active = indexer[w].active
  BY <1>a, Holding DEF IndexerT, Gen
<1>2. Runs(w, k)
  BY <1>a
<1>3. Busy(w) /\ ~At(w, "purge")
  BY DEF Busy, At
<1>4. Underway(k)
  BY <1>1, <1>3 DEF Alone, Underway, Gen, At
<1>5. Onward(w, k)
  BY <1>1, <1>2, <1>3, <1>4, GoesOn DEF Held, Staging
<1> QED
  BY <1>5

\* An indexer at work holds its job, and leaves it done or waiting.
LEMMA LeavesJob ==
  ASSUME TInv, Alone, NEW w \in Indexers, Busy(w),
         Returns(w) \/ Throws(w) \/ Settle(w, Stalls(job[Gen(w)]))
  PROVE  \E j : /\ Runs(w, IdleIndexer) /\ job' = [job EXCEPT ![Gen(w)] = j]
                /\ j.state # "none" /\ (Returns(w) => j.state = "done")
<1> DEFINE i == job[Gen(w)]
           r == Leave(i, "done")
           t == [Leave(i, IF i.failures = 0 THEN "waiting" ELSE "done") EXCEPT !.failures = @ + 1]
           s == Stalls(i)
<1>1. Holds(w) /\ i \in JobT
  BY Holding, RowTyped DEF Alone, Employed, Busy
<1>2. r.state = "done" /\ t.state \in {"waiting", "done"} /\ s.state \in {"waiting", "done"}
  BY <1>1 DEF Leave, Stalls, JobT
<1>3. ASSUME NEW j, Settle(w, j)
      PROVE  Runs(w, IdleIndexer) /\ job' = [job EXCEPT ![Gen(w)] = j]
  BY <1>1, <1>3 DEF Settle
<1>4. CASE Returns(w)
  <2>1. Settle(w, r)
    BY <1>4 DEF Returns
  <2> HIDE DEF r
  <2> QED
    BY <1>2, <1>3, <2>1
<1>5. CASE Throws(w) /\ ~Returns(w)
  <2>1. Settle(w, t)
    BY <1>5 DEF Throws
  <2> HIDE DEF t
  <2> QED
    BY <1>2, <1>3, <1>5, <2>1
<1>6. CASE Settle(w, s) /\ ~Returns(w)
  <2> HIDE DEF s
  <2> QED
    BY <1>2, <1>3, <1>6
<1> QED
  BY <1>4, <1>5, <1>6

LEMMA EndsAway ==
  ASSUME TInv, Alone, NEW w \in Indexers, Busy(w), ~At(w, "purge"),
         Returns(w) \/ Throws(w) \/ Settle(w, Stalls(job[Gen(w)])),
         chunks' = chunks, indexer[w].pc \in Held => "crash" \in happened',
         RowKept, row'.requested = row.requested
  PROVE  \E j : Ends(w, j)
<1>1. PICK j : /\ Runs(w, IdleIndexer) /\ job' = [job EXCEPT ![Gen(w)] = j]
               /\ j.state # "none"
  BY LeavesJob
<1>2. Ends(w, j)
  BY <1>1 DEF Ends
<1> QED
  BY <1>2

LEMMA BlockOrFailDoes ==
  ASSUME TInv, Alone, NEW w \in Indexers, Block(w) \/ Fail(w)
  PROVE  \E j : Ends(w, j)
<1>1. /\ Throws(w) /\ chunks' = chunks /\ Busy(w) /\ ~At(w, "purge")
      /\ indexer[w].pc \notin Held
  BY DEF Block, Fail, Busy, At, Held, Staging
<1>2. \E s \in {"BLOCKED", "PENDING", "FAILED", "INDEXING"} :
        row' = row \/ row' = [row EXCEPT !.status = s]
  <2>1. CASE Block(w)
    BY <2>1 DEF Block
  <2>2. CASE Fail(w)
    <3>1. indexer[w].outcome \in {"FAILED", "BLOCKED"}
      BY <2>2, Holding DEF LocalsOK, IndexerT, Fail, At
    <3> QED
      BY <2>2, <3>1 DEF Fail, Failed
  <2> QED
    BY <2>1, <2>2
<1> QED
  BY <1>1, <1>2, StatusKept, EndsAway

LEMMA CrashDoes ==
  ASSUME TInv, Alone, NEW w \in Indexers, IndexerCrash(w), ~Redelivered'
  PROVE  \E j : Ends(w, j)
<1>1. ~At(w, "purge") /\ "crash" \in happened'
  BY DEF IndexerCrash, Redelivered, Happens
<1>2. Busy(w) /\ Settle(w, Stalls(job[Gen(w)])) /\ UNCHANGED <<row, chunks>>
  BY DEF IndexerCrash, Busy
<1> QED
  BY <1>1, <1>2, EndsAway DEF RowKept

LEMMA PurgeDoes ==
  ASSUME TInv, Alone, NEW w \in Indexers, Purge(w)
  PROVE  \E j : Ends(w, j)
<1>1. /\ At(w, "purge") /\ Busy(w) /\ Returns(w) /\ row' = row
      /\ chunks' = Kept(w) \/ (chunks' = chunks /\ "purge" \in happened')
  BY DEF Purge, Busy, At, Happens
<1>2. PICK j : /\ Runs(w, IdleIndexer) /\ job' = [job EXCEPT ![Gen(w)] = j]
               /\ j.state # "none" /\ (Returns(w) => j.state = "done")
  BY <1>1, LeavesJob
<1>3. Ends(w, j)
  BY <1>1, <1>2 DEF Ends, RowKept
<1> QED
  BY <1>3

LEMMA BreaksDoes ==
  ASSUME TInv, Alone, NEW w \in Indexers, Breaks(w)
  PROVE  \E k : Onward(w, k)
<1>1. UNCHANGED <<row, chunks, job>> /\ indexer[w].pc \notin {"idle", "block", "purge"}
  BY DEF Breaks, At
<1>2. \E o \in {"STALE", "FAILED", "BLOCKED"} :
        Runs(w, [indexer[w] EXCEPT !.pc = "cleanup", !.outcome = o])
  BY DEF Breaks
<1> QED
  BY <1>1, <1>2, GivesUp DEF RowKept

LEMMA AbandonDoes ==
  ASSUME TInv, Alone, NEW w \in Indexers, Abandon(w), UNCHANGED <<row, chunks, job>>,
         indexer[w].pc \notin {"idle", "block", "purge"}
  PROVE  \E k : Onward(w, k)
BY GivesUp DEF Abandon, RowKept

LEMMA CleanupDoes ==
  ASSUME TInv, Alone, NEW w \in Indexers, CleanupGeneration(w)
  PROVE  (\E k : Onward(w, k)) \/ \E j : Ends(w, j)
<1>1. At(w, "cleanup") /\ Busy(w) /\ ~At(w, "purge") /\ row' = row
  BY DEF CleanupGeneration, Busy, At
<1>2. indexer[w].generation # indexer[w].active
  BY <1>1 DEF Alone, Underway, At
<1>3. chunks' = chunks \ Of(Gen(w))
  BY <1>2 DEF CleanupGeneration, Cleans, Gen
<1>4. CASE Returns(w)
  <2>1. PICK j : /\ Runs(w, IdleIndexer) /\ job' = [job EXCEPT ![Gen(w)] = j]
                 /\ j.state # "none" /\ (Returns(w) => j.state = "done")
    BY <1>1, <1>4, LeavesJob
  <2>2. Ends(w, j)
    BY <1>1, <1>3, <2>1 DEF Ends, RowKept
  <2> QED
    BY <2>2
<1>5. CASE To(w, "fail") /\ job' = job
  <2>a. PICK k : k = [indexer[w] EXCEPT !.pc = "fail"]
    OBVIOUS
  <2>1. /\ Runs(w, k) /\ k \in IndexerT /\ k.pc = "fail" /\ k.generation = Gen(w)
        /\ k.active = indexer[w].active
    BY <1>5, <2>a, Holding DEF To, IndexerT, Gen
  <2>2. Underway(k)
    BY <1>1, <2>1 DEF Alone, Underway, Gen, At
  <2>3. k.pc \notin Held
    BY <2>1 DEF Held, Staging
  <2>4. Onward(w, k)
    BY <1>1, <1>3, <1>5, <2>1, <2>2, <2>3 DEF Onward, Of, RowKept, Held
  <2> QED
    BY <2>4
<1> QED
  BY <1>4, <1>5 DEF CleanupGeneration

LEMMA ClaimDoes ==
  ASSUME TInv, Alone, NEW w \in Indexers, Claim(w)
  PROVE  (\E k : Onward(w, k)) \/ \E j : Ends(w, j)
<1>1. /\ At(w, "claim") /\ Busy(w) /\ ~At(w, "purge") /\ chunks' = chunks
      /\ indexer[w].pc \notin Held
  BY DEF Claim, Busy, At, Held, Staging
<1>2. RowKept /\ row'.requested = row.requested
  BY StatusKept DEF Claim
<1>3. CASE Returns(w)
  BY <1>1, <1>2, <1>3, EndsAway
<1>4. CASE To(w, "head") /\ job' = job
  <2>a. PICK k : k = [indexer[w] EXCEPT !.pc = "head"]
    OBVIOUS
  <2>1. /\ Runs(w, k) /\ k \in IndexerT /\ k.pc = "head" /\ k.generation = Gen(w)
        /\ k.active = indexer[w].active /\ k.commit = indexer[w].commit
        /\ k.indexed = indexer[w].indexed
    BY <1>4, <2>a, Holding DEF To, IndexerT, Gen
  <2>2. Underway(k)
    BY <1>1, <2>1 DEF Alone, Underway, Gen, At
  <2>3. k.pc \notin Staging
    BY <2>1 DEF Staging
  <2>4. Onward(w, k)
    BY <1>1, <1>2, <1>4, <2>1, <2>2, <2>3, GoesOn
  <2> QED
    BY <2>4
<1> QED
  BY <1>3, <1>4 DEF Claim

LEMMA GetBranchHeadDoes ==
  ASSUME TInv, Alone, NEW w \in Indexers, GetBranchHead(w)
  PROVE  \E k : Onward(w, k)
<1>1. /\ At(w, "head") /\ Busy(w) /\ ~At(w, "purge") /\ UNCHANGED <<row, chunks, job>>
      /\ indexer[w].pc \notin Held
  BY DEF GetBranchHead, Busy, At, Held, Staging
<1>2. CASE Abandon(w)
  BY <1>1, <1>2, AbandonDoes DEF At
<1>3. CASE ~Abandon(w)
  <2> DEFINE pc == IF Unchanged(indexer[w]) THEN "unchanged" ELSE "prepare"
  <2>b. PICK k : k = [indexer[w] EXCEPT !.pc = pc, !.head = head, !.commit = 0, !.indexed = 0]
    OBVIOUS
  <2>1. Runs(w, k)
    BY <1>3, <2>b DEF GetBranchHead
  <2>2. pc \in {"unchanged", "prepare"}
    OBVIOUS
  <2>3. pc = "unchanged" => Unchanged(indexer[w])
    OBVIOUS
  <2> HIDE DEF pc
  <2>a. 0 \in Credentials /\ 0 \in Nat
    BY BoundsAssumption DEF Credentials
  <2>4. /\ k \in IndexerT /\ k.pc = pc /\ k.generation = Gen(w)
        /\ k.active = indexer[w].active /\ k.head = head /\ k.fingerprint = indexer[w].fingerprint
    BY <2>2, <2>a, <2>b, Holding DEF IndexerT, Gen
  <2>5. Underway(k)
    BY <1>1, <2>2, <2>3, <2>4 DEF Alone, Underway, Gen, At, Unchanged
  <2>6. k.pc \notin Staging
    BY <2>2, <2>4 DEF Staging
  <2>7. Onward(w, k)
    BY <1>1, <2>1, <2>2, <2>4, <2>5, <2>6, GoesOn DEF RowKept
  <2> QED
    BY <2>7
<1> QED
  BY <1>2, <1>3

LEMMA CompleteUnchangedDoes ==
  ASSUME TInv, Alone, NEW w \in Indexers, CompleteUnchanged(w)
  PROVE  (\E k : Onward(w, k)) \/ \E j : Ends(w, j)
<1>1. /\ At(w, "unchanged") /\ Busy(w) /\ ~At(w, "purge") /\ chunks' = chunks
      /\ indexer[w].pc \notin Held
  BY DEF CompleteUnchanged, Busy, At, Held, Staging
<1>2. CASE Abandon(w) /\ UNCHANGED <<row, job>>
  BY <1>1, <1>2, AbandonDoes DEF At
<1>3. CASE /\ row.active = indexer[w].active /\ row' = Ready(indexer[w]) /\ Returns(w)
  <2>1. indexer[w].head = row.commit /\ indexer[w].fingerprint = row.fingerprint
    BY <1>1, <1>3 DEF Alone, Underway, At
  <2>2. RowKept /\ row'.requested = row.requested
    BY <1>3, <2>1, RowTyped DEF Ready, RowT, RowKept
  <2> QED
    BY <1>1, <1>3, <2>2, EndsAway
<1> QED
  BY <1>2, <1>3 DEF CompleteUnchanged

LEMMA PrepareDoes ==
  ASSUME TInv, Alone, NEW w \in Indexers, PrepareGeneration(w)
  PROVE  \E k : Onward(w, k)
<1>1. /\ At(w, "prepare") /\ Busy(w) /\ ~At(w, "purge") /\ UNCHANGED <<row, job>>
  BY DEF PrepareGeneration, Busy, At
<1>2. CASE Abandon(w) /\ UNCHANGED chunks
  BY <1>1, <1>2, AbandonDoes DEF At
<1>3. CASE chunks' = chunks \ Of(Gen(w)) /\ To(w, "save")
  <2>a. PICK k : k = [indexer[w] EXCEPT !.pc = "save"]
    OBVIOUS
  <2>1. /\ Runs(w, k) /\ k \in IndexerT /\ k.pc = "save" /\ k.generation = Gen(w)
        /\ k.active = indexer[w].active /\ k.batch = 0
    BY <1>1, <1>3, <2>a, Holding DEF To, IndexerT, Gen, At, LocalsOK
  <2>2. Underway(k)
    BY <1>1, <2>1 DEF Alone, Underway, Gen, At
  <2>3. StoredIs(w, k)'
    <3>1. Of(k.generation)' = {}
      BY <1>3, <2>1 DEF Of
    <3>2. Inserted(w, k)' = {}
      BY <2>1, BoundsAssumption DEF Inserted, Chunk
    <3> QED
      BY <3>1, <3>2 DEF StoredIs
  <2>4. "slow" \notin happened' => \A v \in Indexers : ~At(v, "purge")
    BY <1>1 DEF PrepareGeneration, Overtakes, Happens
  <2>5. /\ \A x \in chunks : x.generation # Gen(w) => x \in chunks'
        /\ \A x \in chunks' : x \in chunks
    BY <1>3 DEF Of
  <2>6. k.pc \in Held
    BY <2>1 DEF Held, Staging
  <2>7. Onward(w, k)
    BY <1>1, <2>1, <2>2, <2>3, <2>4, <2>5, <2>6 DEF Onward, RowKept
  <2> QED
    BY <2>7
<1> QED
  BY <1>2, <1>3 DEF PrepareGeneration

LEMMA SaveOrCheckDoes ==
  ASSUME TInv, Alone, NEW w \in Indexers, SaveChunks(w) \/ CheckActivation(w)
  PROVE  \E k : Onward(w, k)
<1>1. /\ indexer[w].pc \in {"save", "activate"} /\ Busy(w) /\ ~At(w, "purge")
      /\ UNCHANGED <<row, chunks, job>>
  BY DEF SaveChunks, CheckActivation, Busy, At
<1>2. CASE \E o \in {"STALE", "FAILED", "BLOCKED"} :
              Runs(w, [indexer[w] EXCEPT !.pc = "cleanup", !.outcome = o])
  BY <1>1, <1>2, GivesUp DEF RowKept
<1>3. ASSUME NEW pc \in {"insert", "commit"}, To(w, pc), pc = "commit" => At(w, "activate")
      PROVE  \E k : Onward(w, k)
  <2>a. PICK k : k = [indexer[w] EXCEPT !.pc = pc]
    OBVIOUS
  <2>1. /\ Runs(w, k) /\ k \in IndexerT /\ k.pc = pc /\ k.generation = Gen(w)
        /\ k.active = indexer[w].active /\ k.batch = indexer[w].batch
        /\ k.head = indexer[w].head /\ k.fingerprint = indexer[w].fingerprint
    BY <1>3, <2>a, Holding DEF To, IndexerT, Gen
  <2>2. Underway(k)
    BY <1>1, <1>3, <2>1 DEF Alone, Underway, Gen, At
  <2>3. k.pc \in Staging /\ indexer[w].pc \in Staging
    BY <1>1, <2>1 DEF Staging
  <2>4. Onward(w, k)
    BY <1>1, <2>1, <2>2, <2>3, GoesOn DEF RowKept, Held
  <2> QED
    BY <2>4
<1>4. CASE SaveChunks(w)
  <2>1. CASE To(w, "insert")
    BY <1>3, <2>1
  <2> QED
    BY <1>2, <1>4, <2>1 DEF SaveChunks, Abandon
<1>5. CASE CheckActivation(w)
  <2>1. CASE To(w, "commit")
    BY <1>3, <1>5, <2>1 DEF CheckActivation
  <2> QED
    BY <1>2, <1>5, <2>1 DEF CheckActivation, Abandon
<1> QED
  BY <1>4, <1>5

LEMMA InsertDoes ==
  ASSUME TInv, Alone, NEW w \in Indexers, Insert(w)
  PROVE  \E k : Onward(w, k)
<1> DEFINE i == indexer[w]
           b == i.batch + 1
           pc == IF b = Batches THEN "activate" ELSE "save"
<1>a. PICK k : k = [i EXCEPT !.pc = pc, !.batch = b]
  OBVIOUS
<1>b. PICK new : new = [generation |-> i.generation, batch |-> b, by |-> w,
                        commit |-> i.head, fingerprint |-> i.fingerprint]
  OBVIOUS
<1>1. /\ At(w, "insert") /\ Busy(w) /\ ~At(w, "purge") /\ UNCHANGED <<row, job>>
      /\ chunks' = chunks \cup {new} /\ Runs(w, k)
  BY <1>a, <1>b DEF Insert, Busy, At
<1>2. b \in 1 .. Batches /\ i.batch \in Nat /\ i \in IndexerT /\ i.generation \in Generations
  BY <1>1, Holding, BoundsAssumption DEF At, LocalsOK, IndexerT
<1>3. pc \in {"activate", "save"} /\ (pc = "activate" => b = Batches)
  OBVIOUS
<1>4. new \in Chunk
  BY <1>2, <1>b DEF Chunk, IndexerT
<1> HIDE DEF pc
<1>5. /\ k \in IndexerT /\ k.pc = pc /\ k.generation = Gen(w) /\ k.active = i.active
      /\ k.batch = b /\ k.head = i.head /\ k.fingerprint = i.fingerprint
  <2>1. b \in 0 .. Batches
    BY <1>2
  <2> HIDE DEF b
  <2> QED
    BY <1>2, <1>3, <1>a, <2>1 DEF IndexerT, Gen
<1>6. Underway(k)
  BY <1>1, <1>3, <1>5 DEF Alone, Underway, Gen, At
<1>7. k.pc \in Staging /\ i.pc \in Staging
  BY <1>1, <1>3, <1>5 DEF Staging, At
<1>8. Inserted(w, k) = Inserted(w, i) \cup {new}
  <2>1. \A x \in Chunk : x.batch \in Nat
    BY BoundsAssumption DEF Chunk
  <2>2. new \in Inserted(w, k)
    BY <1>2, <1>4, <1>5, <1>b DEF Inserted, Gen
  <2>3. ASSUME NEW x \in Inserted(w, i) PROVE x \in Inserted(w, k)
    BY <1>2, <1>5, <2>1, <2>3 DEF Inserted, Gen
  <2>4. ASSUME NEW x \in Inserted(w, k), x \notin Inserted(w, i) PROVE x = new
    <3>1. /\ x \in Chunk /\ x.generation = i.generation /\ x.by = w /\ x.commit = i.head
          /\ x.fingerprint = i.fingerprint /\ x.batch = b
      BY <1>2, <1>5, <2>1, <2>4 DEF Inserted, Gen
    <3> QED
      BY <1>b, <3>1 DEF Chunk
  <2> QED
    BY <2>2, <2>3, <2>4
<1>9. StoredIs(w, i) => StoredIs(w, k)'
  <2>1. Inserted(w, k)' = Inserted(w, k)
    BY DEF Inserted
  <2>2. Of(k.generation)' = Of(i.generation) \cup {new}
    BY <1>1, <1>5, <1>b DEF Of, Gen
  <2> QED
    BY <1>8, <2>1, <2>2 DEF StoredIs
<1>10. \A x \in chunks' : x \in chunks \/ x.generation = Gen(w)
  BY <1>1, <1>b DEF Gen
<1>11. Onward(w, k)
  BY <1>1, <1>5, <1>6, <1>7, <1>9, <1>10, <1>3 DEF Onward, RowKept, Held
<1> QED
  BY <1>11

LEMMA ActivateDoes ==
  ASSUME TInv, Alone, NEW w \in Indexers, Activate(w), ~Redelivered'
  PROVE  (\E k : Onward(w, k)) \/ Commits(w)
<1>1. At(w, "commit") /\ UNCHANGED <<chunks, job>>
  BY DEF Activate
<1>2. CASE Abandon(w) /\ row' = row
  BY <1>1, <1>2, AbandonDoes DEF At
<1>3. CASE /\ Current(Gen(w)) /\ row' = [Ready(indexer[w]) EXCEPT !.active = Gen(w)]
           /\ To(w, "purge")
  BY <1>1, <1>3 DEF Commits
<1>4. "ack" \notin happened'
  BY DEF Redelivered
<1> QED
  BY <1>2, <1>3, <1>4 DEF Activate, Happens, Gen

LEMMA IndexerDoes ==
  ASSUME TInv, Alone, NEW w \in Indexers, IndexerStep(w) \/ Breaks(w) \/ IndexerCrash(w),
         ~Redelivered'
  PROVE  (\E k : Onward(w, k)) \/ (\E j : Ends(w, j)) \/ Commits(w)
BY BlockOrFailDoes, CrashDoes, PurgeDoes, BreaksDoes, CleanupDoes, ClaimDoes, GetBranchHeadDoes,
   CompleteUnchangedDoes, PrepareDoes, SaveOrCheckDoes, InsertDoes, ActivateDoes DEF IndexerStep

-----------------------------------------------------------------------------
(* Each indexer is alone on its generation.                                *)

LEMMA Distinct ==
  ASSUME TInv, Alone, NEW v \in Indexers, NEW w \in Indexers, Busy(v), Busy(w), Gen(v) = Gen(w)
  PROVE  v = w
BY DEF Alone, Employed, Holds

LEMMA RunsMeans ==
  ASSUME TInv, NEW w \in Indexers, NEW k, Runs(w, k)
  PROVE  \A v \in Indexers : indexer'[v] = IF v = w THEN k ELSE indexer[v]
BY RowTyped DEF Runs

LEMMA AloneOnward ==
  ASSUME TInv, Alone, NEW w \in Indexers, NEW k, Onward(w, k)
  PROVE  Alone'
<1>1. \A v \in Indexers : indexer'[v] = IF v = w THEN k ELSE indexer[v]
  BY RunsMeans DEF Onward
<1>2. ASSUME NEW v \in Indexers
      PROVE  Employed(v)' /\ Underway(indexer[v])'
  <2>1. Employed(v)'
    BY <1>1 DEF Onward, Alone, Employed, Busy, At, Holds, Gen
  <2>2. Underway(indexer'[v])
    BY <1>1 DEF Onward, Alone
  <2> QED
    BY <2>1, <2>2 DEF Underway, Onward, RowKept
<1>3. ServedJob'
  BY <1>1 DEF Onward, RowKept, Alone, ServedJob, At, Gen
<1> QED
  BY <1>2, <1>3 DEF Alone

LEMMA AloneEnds ==
  ASSUME TInv, Alone, NEW w \in Indexers, NEW j, Ends(w, j)
  PROVE  Alone'
<1>1. \A v \in Indexers : indexer'[v] = IF v = w THEN IdleIndexer ELSE indexer[v]
  BY RunsMeans DEF Ends
<1>2. /\ \A g \in Generations : job'[g] = IF g = Gen(w) THEN j ELSE job[g]
      /\ Gen(w) \in Generations
  BY RowTyped, Holding DEF Ends, Busy
<1>3. ASSUME NEW v \in Indexers
      PROVE  Employed(v)' /\ Underway(indexer[v])'
  <2>1. CASE v = w
    BY <1>1, <2>1 DEF Employed, Underway, Busy, At, IdleIndexer
  <2>2. CASE v # w
    <3>1. indexer'[v] = indexer[v]
      BY <1>1, <2>2
    <3>2. Busy(v) => Gen(v) # Gen(w) /\ Gen(v) \in Generations
      BY <2>2, Distinct, Holding DEF Ends, Busy
    <3>3. Employed(v)'
      BY <1>2, <3>1, <3>2 DEF Alone, Employed, Busy, At, Holds, Gen
    <3>4. Underway(indexer[v])'
      BY <3>1 DEF Alone, Underway, Ends, RowKept
    <3> QED
      BY <3>3, <3>4
  <2> QED
    BY <2>1, <2>2
<1>4. ServedJob'
  <2> SUFFICES ASSUME row.active # 0
               PROVE  /\ job'[row.active].state # "none"
                      /\ \/ job'[row.active].state = "done"
                         \/ \E v \in Indexers : At(v, "purge")' /\ Gen(v)' = row.active
    BY DEF ServedJob, Ends, RowKept
  <2>1. row.active \in Generations
    BY RowTyped DEF RowT, Generations
  <2>2. CASE row.active = Gen(w)
    <3>1. At(w, "purge")
      BY <2>2 DEF Ends, Busy, Alone, Underway, At, Gen
    <3> QED
      BY <1>2, <2>1, <2>2, <3>1 DEF Ends
  <2>3. CASE row.active # Gen(w)
    <3>1. job'[row.active] = job[row.active]
      BY <1>2, <2>1, <2>3
    <3>2. \A v \in Indexers : Gen(v) = row.active => indexer'[v] = indexer[v]
      BY <1>1, <2>3
    <3> QED
      BY <3>1, <3>2 DEF Alone, ServedJob, At, Gen
  <2> QED
    BY <2>2, <2>3
<1> QED
  BY <1>3, <1>4 DEF Alone

\* The generation that is activated is later than the active one.
LEMMA CommitAdvances ==
  ASSUME TInv, IInv, Alone, NEW w \in Indexers, Commits(w)
  PROVE  /\ row'.active = Gen(w) /\ row'.requested = row.requested
         /\ row'.commit = indexer[w].head /\ row'.fingerprint = indexer[w].fingerprint
         /\ row.active < Gen(w) /\ Gen(w) \in Generations /\ Gen(w) \in Nat /\ Busy(w)
<1>1. Busy(w)
  BY DEF Commits, Busy, At
<1>2. Gen(w) \in Generations /\ Gen(w) \in Nat
  BY <1>1, Holding, BoundsAssumption DEF Busy, Generations
<1>3. row.active # Gen(w)
  BY <1>1 DEF Commits, Alone, Underway, At, Gen
<1>4. row.active < Gen(w)
  BY <1>2, <1>3, RowTyped DEF IInv, Commits, Current
<1>5. /\ row'.active = Gen(w) /\ row'.requested = row.requested
      /\ row'.commit = indexer[w].head /\ row'.fingerprint = indexer[w].fingerprint
  BY RowTyped DEF Commits, Ready, RowT
<1> QED
  BY <1>1, <1>2, <1>4, <1>5

LEMMA AloneCommits ==
  ASSUME TInv, IInv, Alone, NEW w \in Indexers, Commits(w)
  PROVE  Alone'
<1>a. PICK k : k = [indexer[w] EXCEPT !.pc = "purge"]
  OBVIOUS
<1>b. k.pc = "purge" /\ k.generation = Gen(w) /\ k.active = indexer[w].active
  BY <1>a, Holding DEF IndexerT, Gen
<1>1. \A v \in Indexers : indexer'[v] = IF v = w THEN k ELSE indexer[v]
  BY <1>a, RunsMeans DEF Commits, To
<1>2. /\ row'.active = Gen(w) /\ row.active < Gen(w) /\ Gen(w) \in Nat
      /\ row.active \in Nat /\ Busy(w) /\ job' = job
  BY CommitAdvances, RowTyped DEF Commits
<1>3. ASSUME NEW v \in Indexers
      PROVE  Employed(v)' /\ Underway(indexer[v])'
  <2>1. Employed(v)'
    BY <1>1, <1>2, <1>b DEF Alone, Employed, Busy, At, Holds, Gen
  <2>2. CASE v = w
    <3>1. k.active <= row.active /\ k.active # k.generation /\ k.active \in Nat
      BY <1>2, <1>b, Holding, BoundsAssumption DEF Commits, Alone, Underway, At, Gen, IndexerT
    <3>2. indexer'[v] = k
      BY <1>1, <2>2
    <3>3. k.active <= row'.active
      BY <1>2, <3>1
    <3> QED
      BY <1>b, <2>1, <3>1, <3>2, <3>3 DEF Underway
  <2>3. CASE v # w
    <3>1. indexer'[v] = indexer[v]
      BY <1>1, <2>3
    <3>2. Busy(v) => Gen(v) # Gen(w)
      BY <1>2, <2>3, Distinct
    <3>3. indexer[v].active \in Nat
      BY Holding, BoundsAssumption DEF IndexerT
    <3>4. Underway(indexer[v])
      BY DEF Alone
    <3>5. indexer[v].pc # "idle" => indexer[v].active < row'.active
      BY <1>2, <3>3, <3>4 DEF Underway
    <3>6. Underway(indexer[v])'
      BY <1>2, <3>1, <3>2, <3>3, <3>4, <3>5 DEF Underway, Busy, At, Gen
    <3> QED
      BY <2>1, <3>6
  <2> QED
    BY <2>2, <2>3
<1>4. ServedJob'
  <2>1. job[Gen(w)].state = "active"
    BY <1>2 DEF Alone, Employed
  <2>2. At(w, "purge")' /\ Gen(w)' = Gen(w)
    BY <1>1, <1>b DEF At, Gen
  <2> QED
    BY <1>2, <2>1, <2>2 DEF ServedJob
<1> QED
  BY <1>3, <1>4 DEF Alone

LEMMA AloneOutside ==
  ASSUME TInv, Alone, Outside
  PROVE  Alone'
<1>1. \A v \in Indexers : Busy(v) => Gen(v) \in Generations
  BY Holding DEF Busy
<1>2. row.active # 0 => row.active \in Generations
  BY RowTyped DEF RowT, Generations
<1>3. ASSUME NEW v \in Indexers
      PROVE  Employed(v)' /\ Underway(indexer[v])'
  <2>1. Employed(v)'
    BY <1>1 DEF Alone, Employed, Outside, Busy, At, Holds, Gen
  <2>2. Underway(indexer[v])'
    BY DEF Alone, Underway, Outside, RowKept
  <2> QED
    BY <2>1, <2>2
<1>4. ServedJob'
  BY <1>2 DEF Alone, ServedJob, Outside, RowKept, At, Gen
<1> QED
  BY <1>3, <1>4 DEF Alone

\* A job is delivered: k are the indexer's locals and j the job thereafter.
Starts(w, g, k, j) ==
  /\ ~Busy(w) /\ job[g].state = "waiting"
  /\ Runs(w, k) /\ job' = [job EXCEPT ![g] = j]
  /\ UNCHANGED <<row, chunks>>
  /\ \/ k.pc = "idle" /\ j.state = "done"
     \/ /\ k.pc \in {"block", "claim"} /\ k.generation = g /\ Underway(k)
        /\ j.state = "active" /\ j.slot = w

LEMMA DeliverDoes ==
  ASSUME TInv, Alone, NEW w \in Indexers, NEW g \in Generations, Deliver(w, g)
  PROVE  \E k, j : Starts(w, g, k, j)
<1>1. /\ ~Busy(w) /\ job[g].state = "waiting" /\ UNCHANGED <<row, chunks>>
      /\ job[g] \in JobT /\ row \in RowT
  BY RowTyped DEF Deliver, Free, Busy
<1>2. CASE ~Current(g)
  <2>a. PICK k : k = IdleIndexer
    OBVIOUS
  <2>b. PICK j : j = [job[g] EXCEPT !.state = "done"]
    OBVIOUS
  <2>1. k.pc = "idle" /\ j.state = "done"
    BY <1>1, <2>a, <2>b DEF IdleIndexer, JobT
  <2>2. Runs(w, k) /\ job' = [job EXCEPT ![g] = j]
    BY <1>2, <2>a, <2>b DEF Deliver
  <2> QED
    BY <1>1, <2>1, <2>2 DEF Starts
<1>3. CASE Current(g)
  <2>a. PICK k : k = IF credential = 0
                     THEN [IdleIndexer EXCEPT !.pc = "block", !.generation = g]
                     ELSE Load(g)
    OBVIOUS
  <2>b. PICK j : j = [job[g] EXCEPT !.state = "active", !.slot = w]
    OBVIOUS
  <2>1. Runs(w, k)
    BY <1>3, <2>a DEF Deliver
  <2>2. job' = [job EXCEPT ![g] = j]
    BY <1>1, <1>3, <2>b, RowTyped DEF Deliver
  <2>3. j.state = "active" /\ j.slot = w
    BY <1>1, <2>b DEF JobT
  <2>4. g # row.active
    <3>1. ASSUME g = row.active PROVE FALSE
      <4>1. row.active # 0
        BY <3>1 DEF Generations
      <4>2. PICK v \in Indexers : At(v, "purge") /\ Gen(v) = row.active
        BY <1>1, <3>1, <4>1 DEF Alone, ServedJob
      <4>3. job[Gen(v)].state = "active"
        BY <4>2 DEF Alone, Employed, Busy, At
      <4> QED
        BY <1>1, <3>1, <4>2, <4>3
    <3> QED
      BY <3>1
  <2>5. CASE credential = 0
    <3>1. k.pc = "block" /\ k.generation = g /\ k.active = 0
      BY <2>a, <2>5 DEF IdleIndexer
    <3>2. Underway(k)
      BY <2>4, <3>1, RowTyped DEF Underway
    <3> QED
      BY <1>1, <2>1, <2>2, <2>3, <3>1, <3>2 DEF Starts
  <2>6. CASE credential # 0
    <3>1. /\ k.pc = "claim" /\ k.generation = g /\ k.active = row.active
          /\ k.commit = row.commit /\ k.indexed = row.fingerprint
      BY <2>a, <2>6 DEF Load, IdleIndexer
    <3>2. Underway(k)
      BY <2>4, <3>1, RowTyped DEF Underway
    <3> QED
      BY <1>1, <2>1, <2>2, <2>3, <3>1, <3>2 DEF Starts
  <2> QED
    BY <2>5, <2>6
<1> QED
  BY <1>2, <1>3

LEMMA AloneStarts ==
  ASSUME TInv, Alone, NEW w \in Indexers, NEW g \in Generations, NEW k, NEW j,
         Starts(w, g, k, j)
  PROVE  Alone'
<1>1. \A v \in Indexers : indexer'[v] = IF v = w THEN k ELSE indexer[v]
  BY RunsMeans DEF Starts
<1>2. \A h \in Generations : job'[h] = IF h = g THEN j ELSE job[h]
  BY RowTyped DEF Starts
<1>3. \A v \in Indexers : Busy(v) => v # w /\ Gen(v) # g /\ Gen(v) \in Generations
  BY Holding DEF Alone, Employed, Starts, Busy
<1>4. ASSUME NEW v \in Indexers
      PROVE  Employed(v)' /\ Underway(indexer[v])'
  <2>1. CASE v # w
    <3>1. indexer'[v] = indexer[v]
      BY <1>1, <2>1
    <3>2. Employed(v)'
      BY <1>2, <1>3, <3>1 DEF Alone, Employed, Busy, At, Holds, Gen
    <3>3. Underway(indexer[v])'
      BY <3>1 DEF Alone, Underway, Starts
    <3> QED
      BY <3>2, <3>3
  <2>2. CASE v = w
    <3>1. indexer'[v] = k
      BY <1>1, <2>2
    <3>2. Employed(v)'
      BY <1>2, <2>2, <3>1 DEF Starts, Employed, Busy, At, Holds, Gen
    <3>3. Underway(indexer[v])'
      BY <3>1 DEF Starts, Underway
    <3> QED
      BY <3>2, <3>3
  <2> QED
    BY <2>1, <2>2
<1>5. ServedJob'
  <2> SUFFICES ASSUME row.active # 0
               PROVE  /\ job'[row.active].state # "none"
                      /\ \/ job'[row.active].state = "done"
                         \/ \E v \in Indexers : At(v, "purge")' /\ Gen(v)' = row.active
    BY DEF ServedJob, Starts
  <2>1. row.active \in Generations
    BY RowTyped DEF RowT, Generations
  <2>2. row.active # g
    BY <1>3 DEF Alone, ServedJob, Starts, Busy, At
  <2>3. job'[row.active] = job[row.active]
    BY <1>2, <2>1, <2>2
  <2>4. \A v \in Indexers : At(v, "purge") => indexer'[v] = indexer[v]
    BY <1>1 DEF Starts, Busy, At
  <2> QED
    BY <2>3, <2>4 DEF Alone, ServedJob, At, Gen
<1> QED
  BY <1>4, <1>5 DEF Alone

-----------------------------------------------------------------------------
(* Nothing is left behind.                                                 *)

\* A step that keeps the active generation, and after which whoever attended
\* to a chunk still does.
LEMMA TidyKept ==
  ASSUME TInv, TidyInv, happened \subseteq happened', row'.active = row.active,
         NEW w \in Indexers, NEW k, \A v \in Indexers : indexer'[v] = IF v = w THEN k ELSE indexer[v],
         ~At(w, "purge"),
         happened' \cap {"crash", "purge"} = {} =>
           \A x \in chunks' :
             \/ x \in chunks /\ (x.generation # Gen(w) \/ indexer[w].pc \notin Held)
             \/ x.generation = k.generation /\ k.pc \in Held
  PROVE  TidyInv'
<1> SUFFICES ASSUME happened' \cap {"crash", "purge"} = {}, NEW x \in chunks'
             PROVE  Attended(x)'
  BY DEF TidyInv
<1>1. CASE x.generation = k.generation /\ k.pc \in Held
  BY <1>1 DEF Attended, Gen
<1>2. CASE x \in chunks /\ (x.generation # Gen(w) \/ indexer[w].pc \notin Held)
  <2>1. Attended(x)
    BY <1>2 DEF TidyInv
  <2>2. \A v \in Indexers : At(v, "purge") => indexer'[v] = indexer[v]
    OBVIOUS
  <2>3. \A v \in Indexers : Gen(v) = x.generation /\ indexer[v].pc \in Held =>
                              indexer'[v] = indexer[v]
    BY <1>2
  <2> QED
    BY <2>1, <2>2, <2>3 DEF Attended, At, Gen
<1> QED
  BY <1>1, <1>2

LEMMA TidyOnward ==
  ASSUME TInv, TidyInv, happened \subseteq happened', NEW w \in Indexers, NEW k, Onward(w, k)
  PROVE  TidyInv'
<1>1. \A v \in Indexers : indexer'[v] = IF v = w THEN k ELSE indexer[v]
  BY RunsMeans DEF Onward
<1>2. ASSUME NEW x \in chunks'
      PROVE  \/ x \in chunks /\ (x.generation # Gen(w) \/ indexer[w].pc \notin Held)
             \/ x.generation = k.generation /\ k.pc \in Held
  BY DEF Onward, Held
<1> QED
  BY <1>1, <1>2, TidyKept DEF Onward, RowKept

LEMMA TidyEnds ==
  ASSUME TInv, TidyInv, happened \subseteq happened', NEW w \in Indexers, NEW j, Ends(w, j)
  PROVE  TidyInv'
<1>1. \A v \in Indexers : indexer'[v] = IF v = w THEN IdleIndexer ELSE indexer[v]
  BY RunsMeans DEF Ends
<1>2. CASE At(w, "purge")
  <2> SUFFICES ASSUME happened' \cap {"crash", "purge"} = {}, NEW x \in chunks'
               PROVE  Attended(x)'
    BY DEF TidyInv
  <2>1. x \in chunks /\ x.generation = Gen(w)
    BY <1>2 DEF Ends, Kept, Of, At
  <2>2. Attended(x)
    BY <2>1 DEF TidyInv
  <2>3. \A v \in Indexers : \/ Gen(v) = x.generation /\ indexer[v].pc \in Held
                            \/ At(v, "purge") /\ Gen(v) # x.generation
                            => indexer'[v] = indexer[v]
    BY <1>1, <1>2, <2>1 DEF At, Held, Staging
  <2> QED
    BY <2>2, <2>3 DEF Attended, At, Gen, Ends, RowKept
<1>3. CASE ~At(w, "purge")
  <2>1. happened' \cap {"crash", "purge"} = {} =>
          \A x \in chunks' : x \in chunks /\ (x.generation # Gen(w) \/ indexer[w].pc \notin Held)
    BY <1>3 DEF Ends, Of
  <2> QED
    BY <1>1, <1>3, <2>1, TidyKept DEF Ends, RowKept
<1> QED
  BY <1>2, <1>3

LEMMA TidyCommits ==
  ASSUME TInv, IInv, Alone, TidyInv, happened \subseteq happened', NEW w \in Indexers, Commits(w)
  PROVE  TidyInv'
<1> SUFFICES ASSUME happened' \cap {"crash", "purge"} = {}, NEW x \in chunks'
             PROVE  Attended(x)'
  BY DEF TidyInv
<1>a. PICK k : k = [indexer[w] EXCEPT !.pc = "purge"]
  OBVIOUS
<1>b. k.pc = "purge" /\ k.generation = Gen(w)
  BY <1>a, Holding DEF IndexerT, Gen
<1>1. \A v \in Indexers : indexer'[v] = IF v = w THEN k ELSE indexer[v]
  BY <1>a, RunsMeans DEF Commits, To
<1>2. row'.active = Gen(w)
  BY CommitAdvances
<1>3. CASE x.generation = Gen(w)
  BY <1>2, <1>3 DEF Attended
<1>4. CASE x.generation # Gen(w)
  BY <1>1, <1>b, <1>4 DEF Attended, At, Gen
<1> QED
  BY <1>3, <1>4

LEMMA TidyStarts ==
  ASSUME TInv, TidyInv, happened \subseteq happened', NEW w \in Indexers, NEW g \in Generations,
         NEW k, NEW j, Starts(w, g, k, j)
  PROVE  TidyInv'
<1>1. \A v \in Indexers : indexer'[v] = IF v = w THEN k ELSE indexer[v]
  BY RunsMeans DEF Starts
<1>2. indexer[w].pc \notin Held /\ ~At(w, "purge")
  BY DEF Starts, Busy, At, Held, Staging
<1> QED
  BY <1>1, <1>2, TidyKept DEF Starts

LEMMA TidyOutside ==
  ASSUME TidyInv, happened \subseteq happened', Outside
  PROVE  TidyInv'
BY DEF TidyInv, Attended, At, Gen, Outside, RowKept

-----------------------------------------------------------------------------
(* The served generation is whole.                                         *)

\* A step after which the active generation and its chunks are the same.
LEMMA WholeKept ==
  ASSUME RowKept, \A x : x.generation = row.active => (x \in chunks' <=> x \in chunks),
         row.active # 0 => \E by \in Indexers : Of(row.active) = Whole(by)
  PROVE  row'.active # 0 => \E by \in Indexers : Of(row.active)' = Whole(by)'
<1>1. Of(row.active)' = Of(row.active)
  BY DEF Of, RowKept
<1>2. \A by \in Indexers : Whole(by)' = Whole(by)
  BY DEF Whole, RowKept
<1> QED
  BY <1>1, <1>2 DEF RowKept

LEMMA InsertedKept ==
  ASSUME NEW w \in Indexers, NEW k
  PROVE  Inserted(w, k)' = Inserted(w, k)
BY DEF Inserted

LEMMA ServedOnward ==
  ASSUME TInv, Alone, ServedInv, "slow" \notin happened', happened \subseteq happened',
         NEW w \in Indexers, NEW k, Onward(w, k)
  PROVE  ServedInv'
<1>1. \A v \in Indexers : indexer'[v] = IF v = w THEN k ELSE indexer[v]
  BY RunsMeans DEF Onward
<1>2. "slow" \notin happened /\ Busy(w) /\ ~At(w, "purge")
  BY DEF Onward
<1>3. \A g : Current(g)' <=> Current(g)
  BY DEF Onward, Current
<1>4. \A x : x.generation # Gen(w) => (x \in chunks' <=> x \in chunks)
  BY DEF Onward
<1>5. \A v \in Indexers : At(v, "purge")' => v # w /\ At(v, "purge") /\ indexer'[v] = indexer[v]
  BY <1>1 DEF Onward, At
<1>6. ASSUME NEW v \in Indexers, At(v, "purge")' PROVE Gen(v)' = row'.active
  BY <1>2, <1>5, <1>6 DEF ServedInv, Onward, RowKept, Gen
<1>7. ASSUME NEW v \in Indexers, NEW u \in Indexers, At(v, "purge")', indexer'[u].pc \in Staging
      PROVE  ~Current(Gen(u))'
  <2>1. CASE u = w
    <3>1. indexer'[u] = k /\ k.generation = Gen(w)
      BY <1>1, <2>1 DEF Onward
    <3>2. ~Current(Gen(w))
      BY <1>2, <1>5, <1>7, <3>1 DEF Onward, ServedInv
    <3> QED
      BY <3>1, <3>2 DEF Onward, Current, Gen
  <2>2. CASE u # w
    <3>1. indexer'[u] = indexer[u]
      BY <1>1, <2>2
    <3>2. ~Current(Gen(u))
      BY <1>2, <1>5, <1>7, <3>1 DEF ServedInv
    <3> QED
      BY <3>1, <3>2 DEF Onward, Current, Gen
  <2> QED
    BY <2>1, <2>2
<1>8. ASSUME NEW u \in Indexers, indexer'[u].pc \in Staging, Current(Gen(u))'
      PROVE  StoredIs(u, indexer[u])'
  <2>1. CASE u = w
    <3>1. indexer'[u] = k /\ k.generation = Gen(w)
      BY <1>1, <2>1 DEF Onward
    <3>2. Current(Gen(w))
      BY <1>8, <3>1 DEF Onward, Current, Gen
    <3>3. indexer[w].pc \in Staging => StoredIs(w, indexer[w])
      BY <1>2, <3>2 DEF ServedInv
    <3>4. StoredIs(w, k)'
      BY <1>8, <3>1, <3>3 DEF Onward
    <3> QED
      BY <2>1, <3>1, <3>4 DEF StoredIs, Of, Inserted
  <2>2. CASE u # w
    <3>1. indexer'[u] = indexer[u]
      BY <1>1, <2>2
    <3>2. Current(Gen(u)) /\ StoredIs(u, indexer[u])
      BY <1>2, <1>8, <3>1 DEF ServedInv, Onward, Current, Gen
    <3>3. Gen(u) # Gen(w)
      BY <1>2, <1>8, <2>2, <3>1, Distinct DEF Busy, At, Staging
    <3>4. {x \in chunks' : x.generation = Gen(u)} = Of(Gen(u))
      BY <1>4, <3>3 DEF Of
    <3>5. PICK i : i = indexer[u]
      OBVIOUS
    <3>6. Of(i.generation) = Inserted(u, i)
      BY <3>2, <3>5 DEF StoredIs
    <3>7. {x \in chunks' : x.generation = i.generation} = Inserted(u, i)'
      BY <3>4, <3>5, <3>6, InsertedKept DEF Gen
    <3> QED
      BY <3>1, <3>5, <3>7 DEF StoredIs, Of, Inserted
  <2> QED
    BY <2>1, <2>2
<1>9. row'.active # 0 => \E by \in Indexers : Of(row.active)' = Whole(by)'
  <2>1. row.active # Gen(w)
    BY <1>2 DEF Alone, Underway, Busy, At, Gen
  <2> QED
    BY <1>2, <1>4, <2>1, WholeKept DEF Onward, ServedInv
<1> QED
  BY <1>6, <1>7, <1>8, <1>9 DEF ServedInv

\* The same for a step of an indexer that ends, or of none, or that starts.
LEMMA ServedWithout ==
  ASSUME TInv, ServedInv, "slow" \notin happened', happened \subseteq happened',
         RowKept, row'.requested >= row.requested,
         \A v \in Indexers : \/ indexer'[v] = indexer[v]
                             \/ indexer'[v].pc \notin Staging \cup {"purge"},
         \A v \in Indexers : indexer'[v].pc \in Staging => Gen(v) <= row.requested,
         \A v \in Indexers : indexer'[v].pc \in Staging /\ Current(Gen(v)) =>
           \A x : x.generation = Gen(v) => (x \in chunks' <=> x \in chunks),
         \A x : x.generation = row.active => (x \in chunks' <=> x \in chunks)
  PROVE  ServedInv'
<1>2. "slow" \notin happened
  OBVIOUS
<1>3. \A v \in Indexers : indexer'[v].pc \in Staging /\ Current(Gen(v))' =>
                            indexer'[v] = indexer[v] /\ Current(Gen(v))
  BY RowTyped, Holding DEF Current, Gen, IndexerT
<1>6. ASSUME NEW v \in Indexers, At(v, "purge")' PROVE Gen(v)' = row'.active
  BY <1>2, <1>6 DEF ServedInv, RowKept, Gen, At
<1>7. ASSUME NEW v \in Indexers, NEW u \in Indexers, At(v, "purge")', indexer'[u].pc \in Staging
      PROVE  ~Current(Gen(u))'
  BY <1>2, <1>3, <1>7 DEF ServedInv, At
<1>8. ASSUME NEW u \in Indexers, indexer'[u].pc \in Staging, Current(Gen(u))'
      PROVE  StoredIs(u, indexer[u])'
  <2>1. indexer'[u] = indexer[u] /\ Current(Gen(u)) /\ StoredIs(u, indexer[u])
    BY <1>2, <1>3, <1>8 DEF ServedInv
  <2>2. PICK i : i = indexer[u]
    OBVIOUS
  <2>3. Of(i.generation) = Inserted(u, i)
    BY <2>1, <2>2 DEF StoredIs
  <2>4. {x \in chunks' : x.generation = i.generation} = Inserted(u, i)'
    BY <1>8, <2>1, <2>2, <2>3, InsertedKept DEF Gen, Of
  <2> QED
    BY <2>1, <2>2, <2>4 DEF StoredIs, Of, Inserted
<1>9. row'.active # 0 => \E by \in Indexers : Of(row.active)' = Whole(by)'
  BY <1>2, WholeKept DEF ServedInv
<1> QED
  BY <1>6, <1>7, <1>8, <1>9 DEF ServedInv

LEMMA RequestedBefore ==
  ASSUME IInv
  PROVE  \A v \in Indexers : Gen(v) <= row.requested
BY DEF IInv, Gen

LEMMA ServedEnds ==
  ASSUME TInv, IInv, Alone, ServedInv, "slow" \notin happened', happened \subseteq happened',
         NEW w \in Indexers, NEW j, Ends(w, j)
  PROVE  ServedInv'
<1>1. \A v \in Indexers : indexer'[v] = IF v = w THEN IdleIndexer ELSE indexer[v]
  BY RunsMeans DEF Ends
<1>2. "slow" \notin happened /\ Busy(w)
  BY DEF Ends
<1>3. IdleIndexer.pc \notin Staging \cup {"purge"}
  BY DEF IdleIndexer, Staging
<1>4. \A v \in Indexers : \/ indexer'[v] = indexer[v]
                          \/ indexer'[v].pc \notin Staging \cup {"purge"}
  BY <1>1, <1>3
<1>5. ASSUME NEW v \in Indexers, indexer'[v].pc \in Staging, Current(Gen(v))
      PROVE  \A x : x.generation = Gen(v) => (x \in chunks' <=> x \in chunks)
  <2>1. v # w /\ indexer[v].pc \in Staging
    BY <1>1, <1>3, <1>5
  <2>2. Gen(v) # Gen(w)
    BY <1>2, <2>1, Distinct DEF Busy, At, Staging
  <2>3. ~At(w, "purge")
    BY <1>2, <1>5, <2>1 DEF ServedInv
  <2> QED
    BY <2>2, <2>3 DEF Ends, Of
<1>6. \A x : x.generation = row.active => (x \in chunks' <=> x \in chunks)
  <2>1. CASE At(w, "purge")
    <3>1. Gen(w) = row.active
      BY <1>2, <2>1 DEF ServedInv
    <3> QED
      BY <2>1, <3>1 DEF Ends, Kept, Of, At
  <2>2. CASE ~At(w, "purge")
    <3>1. Gen(w) # row.active
      BY <1>2, <2>2 DEF Alone, Underway, Busy, At, Gen
    <3> QED
      BY <2>2, <3>1 DEF Ends, Of
  <2> QED
    BY <2>1, <2>2
<1>7. RowKept /\ row'.requested >= row.requested
  BY RowTyped DEF Ends
<1> QED
  BY <1>4, <1>5, <1>6, <1>7, RequestedBefore, ServedWithout

LEMMA ServedStarts ==
  ASSUME TInv, IInv, ServedInv, "slow" \notin happened', happened \subseteq happened',
         NEW w \in Indexers, NEW g \in Generations, NEW k, NEW j, Starts(w, g, k, j)
  PROVE  ServedInv'
<1>1. \A v \in Indexers : indexer'[v] = IF v = w THEN k ELSE indexer[v]
  BY RunsMeans DEF Starts
<1>2. k.pc \notin Staging \cup {"purge"}
  BY DEF Starts, Staging
<1>3. \A v \in Indexers : \/ indexer'[v] = indexer[v]
                          \/ indexer'[v].pc \notin Staging \cup {"purge"}
  BY <1>1, <1>2
<1>4. UNCHANGED <<row, chunks>> /\ row'.requested >= row.requested
  BY RowTyped DEF Starts
<1> QED
  BY <1>3, <1>4, RequestedBefore, ServedWithout DEF RowKept

LEMMA ServedOutside ==
  ASSUME TInv, IInv, ServedInv, "slow" \notin happened', happened \subseteq happened', Outside
  PROVE  ServedInv'
BY RequestedBefore, ServedWithout DEF Outside

\* At the commit the chunks are all of the generation, and no purge is under
\* way that would remove them.
LEMMA ServedCommits ==
  ASSUME TInv, IInv, Alone, ServedInv, "slow" \notin happened', happened \subseteq happened',
         NEW w \in Indexers, Commits(w)
  PROVE  ServedInv'
<1>a. PICK k : k = [indexer[w] EXCEPT !.pc = "purge"]
  OBVIOUS
<1>b. k.pc = "purge" /\ k.generation = Gen(w)
  BY <1>a, Holding DEF IndexerT, Gen
<1>1. \A v \in Indexers : indexer'[v] = IF v = w THEN k ELSE indexer[v]
  BY <1>a, RunsMeans DEF Commits, To
<1>2. /\ row'.active = Gen(w) /\ row'.requested = row.requested /\ Busy(w)
      /\ row'.commit = indexer[w].head /\ row'.fingerprint = indexer[w].fingerprint
      /\ chunks' = chunks /\ Current(Gen(w)) /\ indexer[w].pc \in Staging
  BY CommitAdvances DEF Commits, At, Staging
<1>3. "slow" \notin happened
  OBVIOUS
<1>4. \A v \in Indexers : ~At(v, "purge")
  BY <1>2, <1>3 DEF ServedInv
<1>5. \A u \in Indexers : indexer'[u].pc \in Staging =>
                            indexer'[u] = indexer[u] /\ ~Current(Gen(u))'
  <2> SUFFICES ASSUME NEW u \in Indexers, indexer'[u].pc \in Staging
               PROVE  indexer'[u] = indexer[u] /\ ~Current(Gen(u))'
    OBVIOUS
  <2>1. u # w /\ indexer'[u] = indexer[u]
    BY <1>1, <1>b DEF Staging
  <2>2. Gen(u) # Gen(w)
    BY <1>2, <2>1, Distinct DEF Busy, At, Staging
  <2> QED
    BY <1>2, <2>1, <2>2 DEF Current, Gen
<1>6. ASSUME NEW v \in Indexers, At(v, "purge")' PROVE Gen(v)' = row'.active
  BY <1>1, <1>2, <1>4, <1>6, <1>b DEF At, Gen
<1>7. row'.active # 0 => \E by \in Indexers : Of(row.active)' = Whole(by)'
  <2>1. Of(Gen(w)) = Inserted(w, indexer[w])
    BY <1>2, <1>3 DEF ServedInv, StoredIs, Gen
  <2>2. indexer[w].batch = Batches
    BY <1>2 DEF Commits, Alone, Underway, At, Gen
  <2>3. Of(row.active)' = {x \in chunks : x.generation = Gen(w)}
    BY <1>2 DEF Of
  <2>4. Whole(w)' = Inserted(w, indexer[w])
    <3>1. \A x \in Chunk : x.batch <= Batches
      BY BoundsAssumption DEF Chunk
    <3> QED
      BY <1>2, <2>2, <3>1 DEF Whole, Inserted, Gen
  <2> QED
    BY <2>1, <2>3, <2>4 DEF Of
<1> QED
  BY <1>5, <1>6, <1>7 DEF ServedInv

-----------------------------------------------------------------------------
(* The theorems.                                                           *)

LEMMA ChunksKept ==
  ASSUME TInv, IInv, CInv, [Next]_vars
  PROVE  CInv'
<1> SUFFICES ASSUME ~Redelivered'
             PROVE  Alone' /\ TidyInv' /\ ServedInv'
  BY DEF CInv
<1>1. Alone /\ TidyInv /\ ServedInv /\ happened \subseteq happened'
  BY HappenedStays DEF CInv
<1>2. "slow" \in happened' => ServedInv'
  BY DEF ServedInv
<1>3. CASE UNCHANGED vars
  BY <1>1, <1>3 DEF vars, Alone, Employed, Underway, ServedJob, Busy, At, Holds, Gen,
                    TidyInv, Attended, ServedInv, StoredIs, Inserted, Whole, Of, Current
<1>4. ASSUME NEW w \in Indexers, IndexerStep(w) \/ Breaks(w) \/ IndexerCrash(w)
      PROVE  Alone' /\ TidyInv' /\ ServedInv'
  <2>1. ASSUME NEW k, Onward(w, k) PROVE Alone' /\ TidyInv' /\ ServedInv'
    BY <1>1, <1>2, <2>1, AloneOnward, TidyOnward, ServedOnward
  <2>2. ASSUME NEW j, Ends(w, j) PROVE Alone' /\ TidyInv' /\ ServedInv'
    BY <1>1, <1>2, <2>2, AloneEnds, TidyEnds, ServedEnds
  <2>3. ASSUME Commits(w) PROVE Alone' /\ TidyInv' /\ ServedInv'
    BY <1>1, <1>2, <2>3, AloneCommits, TidyCommits, ServedCommits
  <2> QED
    BY <1>1, <1>4, <2>1, <2>2, <2>3, IndexerDoes
<1>5. ASSUME NEW w \in Indexers, NEW g \in Generations, Deliver(w, g)
      PROVE  Alone' /\ TidyInv' /\ ServedInv'
  <2>1. PICK k, j : Starts(w, g, k, j)
    BY <1>1, <1>5, DeliverDoes
  <2> QED
    BY <1>1, <1>2, <2>1, AloneStarts, TidyStarts, ServedStarts
<1>6. CASE Outside
  BY <1>1, <1>2, <1>6, AloneOutside, TidyOutside, ServedOutside
<1>7. \A w \in Indexers : ~Stall(w)
  BY DEF Stall, Happens, Redelivered
<1>8. ASSUME NEW c \in Requests,
             RequestStep(c) \/ Request(c) \/ EnqueueFails(c)
               \/ LoopAborts(c) \/ ApiCrash(c) \/ EditCredential(c)
      PROVE  Outside
  BY <1>8, RequestIsOutside
<1> QED
  BY <1>3, <1>4, <1>5, <1>6, <1>7, <1>8, WorldIsOutside DEF Next

LEMMA InitiallyChunks ==
  ASSUME Init
  PROVE  CInv
<1>1. \A w \in Indexers : indexer[w].pc = "idle"
  BY DEF Init, IdleIndexer
<1>2. row.active = 0 /\ chunks = {}
  BY DEF Init
<1> QED
  BY <1>1, <1>2 DEF CInv, Alone, Employed, Underway, ServedJob, Busy, At, TidyInv, ServedInv,
                    Staging

LEMMA Invariants == Spec => [](TInv /\ IInv /\ CInv)
<1>1. Init => TInv /\ IInv /\ CInv
  BY InitiallyTyped, Initially, InitiallyChunks
<1>2. TInv /\ IInv /\ CInv /\ [Next]_vars => (TInv /\ IInv /\ CInv)'
  BY StepTyped, Step, ChunksKept DEF Preserved
<1> QED
  BY <1>1, <1>2, PTL DEF Spec

\* When no indexer runs only the served chunks are stored: whatever a
\* superseded, failed or abandoned generation had staged was removed by its
\* own indexer or by the purge of another.
THEOREM OnlyServedStored == Spec => []Tidy
<1>1. TInv /\ IInv /\ CInv => Tidy
  <2> SUFFICES ASSUME CInv, \A w \in Indexers : At(w, "idle"), ~Redelivered,
                      happened \cap {"crash", "purge"} = {}
               PROVE  chunks = Of(row.active)
    BY DEF Tidy
  <2>1. \A x \in chunks : Attended(x)
    BY DEF CInv, TidyInv
  <2> QED
    BY <2>1 DEF Attended, At, Held, Staging, Of
<1> QED
  BY <1>1, Invariants, PTL

\* All the chunks of a generation are as many as it has batches.
LEMMA WholeCounts ==
  ASSUME TInv, NEW by \in Indexers, row.active # 0
  PROVE  /\ Cardinality(Whole(by)) = Batches
         /\ {x.batch : x \in Whole(by)} = 1 .. Batches
<1>1. /\ row.active \in Generations /\ row.commit \in Nat /\ row.fingerprint \in Credentials
      /\ Batches \in Nat
  BY RowTyped, BoundsAssumption DEF RowT, Generations
<1> DEFINE f == [b \in 1 .. Batches |-> [generation |-> row.active, batch |-> b, by |-> by,
                                         commit |-> row.commit,
                                         fingerprint |-> row.fingerprint]]
<1>2. \A b \in 1 .. Batches : f[b] \in Whole(by) /\ f[b].batch = b
  BY <1>1 DEF Whole, Chunk
<1>3. ASSUME NEW x \in Whole(by) PROVE x.batch \in 1 .. Batches /\ f[x.batch] = x
  BY <1>3 DEF Whole, Chunk
<1>4. f \in [1 .. Batches -> Whole(by)]
  BY <1>2
<1> HIDE DEF f
<1>5. f \in Bijection(1 .. Batches, Whole(by))
  <2>1. \A a, b \in 1 .. Batches : f[a] = f[b] => a = b
    BY <1>2
  <2>2. \A x \in Whole(by) : \E b \in 1 .. Batches : f[b] = x
    BY <1>3
  <2> DEFINE S == 1 .. Batches
             T == Whole(by)
  <2>3. f \in [S -> T] /\ (\A a, b \in S : f[a] = f[b] => a = b)
        /\ (\A x \in T : \E b \in S : f[b] = x)
    BY <1>4, <2>1, <2>2
  <2> HIDE DEF S, T
  <2>4. f \in Bijection(S, T)
    BY <2>3, Fun_IsBij
  <2> QED
    BY <2>4 DEF S, T
<1>6. Cardinality(Whole(by)) = Batches
  BY <1>1, <1>5, FS_CountingElements, Fun_ExistsBij
<1>7. {x.batch : x \in Whole(by)} = 1 .. Batches
  BY <1>2, <1>3
<1> QED
  BY <1>6, <1>7

\* Retrieval always finds the active generation whole, and as the row
\* describes it, while others are staged, abandoned and purged: the commit
\* comes after the last insert, the purge spares the active generation, and
\* no two indexers ever work on one generation.
THEOREM ActiveIsWhole == Spec => []ServedWhole
<1>1. TInv /\ IInv /\ CInv => ServedWhole
  <2> SUFFICES ASSUME TInv, CInv, row.active # 0, ~Redelivered, "slow" \notin happened
               PROVE  /\ Cardinality(Of(row.active)) = Batches
                      /\ {x.batch : x \in Of(row.active)} = 1 .. Batches
                      /\ \A x \in Of(row.active) :
                           x.commit = row.commit /\ x.fingerprint = row.fingerprint
    BY DEF ServedWhole
  <2>1. PICK by \in Indexers : Of(row.active) = Whole(by)
    BY DEF CInv, ServedInv
  <2> QED
    BY <2>1, WholeCounts DEF Whole
<1> QED
  BY <1>1, Invariants, PTL

=============================================================================
