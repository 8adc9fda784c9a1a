-------------------------- MODULE CodeIndex_proofs ---------------------------
(***************************************************************************)
(* Four properties of CodeIndex for any number of requests, indexers,      *)
(* generations, commits and failures: types and the attempts of a job, the *)
(* embedding an index that is READY was built with, the active generation, *)
(* which never goes back, and a refresh that ended READY, which has        *)
(* indexed the commit that was the head when it was asked for.             *)
(*                                                                         *)
(* The last two rest on IInv.  Nothing in it is about the jobs of the      *)
(* queue: whatever the queue delivers, and however often, is compared with *)
(* the requested generation before it is used.  The types rest on TInv,    *)
(* which is about the jobs, and the embedding on RInv beside these.        *)
(***************************************************************************)
EXTENDS CodeIndex, TLAPS, FiniteSetTheorems

RowType == [status : {"new", "PENDING", "INDEXING", "READY", "FAILED", "BLOCKED"},
            requested : Nat, active : Nat, commit : Nat, fingerprint : Nat]
RequestType == [pc : {"idle", "edit", "embedding", "upsert", "enqueue", "unavailable"},
                force : BOOLEAN, seen : Nat, generation : Nat]
IndexerType ==
  [pc : {"idle", "block", "claim", "head", "unchanged", "prepare", "save",
         "insert", "activate", "commit", "purge", "cleanup", "fail"},
   generation : Nat, active : Nat, commit : Nat, indexed : Nat, fingerprint : Nat,
   head : Nat, batch : Nat, outcome : {"STALE", "FAILED", "BLOCKED"}]

Shape ==
  /\ row \in RowType /\ credential \in Nat /\ head \in Nat /\ asked \in Nat
  /\ request \in [Requests -> RequestType]
  /\ indexer \in [Indexers -> IndexerType]

\* Statements reached after the head was read.
Informed == {"unchanged", "prepare", "save", "insert", "activate", "commit"}

\* An indexer at work on the requested generation k has read a head that is
\* no older than the request; and only a failure is filed as one.
Knows(k, generation, commit) ==
  /\ k.pc \in Informed /\ k.generation = generation => k.head >= commit
  /\ k.pc = "fail" => k.outcome # "STALE"

IInv ==
  /\ Shape
  /\ row.active <= row.requested /\ asked <= head
  /\ \A w \in Indexers : /\ indexer[w].generation <= row.requested
                         /\ Knows(indexer[w], row.requested, asked)
  /\ Refreshed

\* What each step establishes.
Preserved == IInv' /\ row'.active >= row.active

-----------------------------------------------------------------------------
LEMMA RequestMoves ==
  ASSUME Shape, NEW c \in Requests, NEW k \in RequestType, Goes(c, k)
  PROVE  request' \in [Requests -> RequestType]
BY DEF Shape, Goes

\* A step of an indexer.
LEMMA IndexerMoves ==
  ASSUME IInv, NEW w \in Indexers, NEW k \in IndexerType, Runs(w, k),
         UNCHANGED <<credential, head, asked, request>>,
         row' \in RowType, row'.requested = row.requested,
         row'.active \in {row.active, row.requested},
         row'.status = "READY" => row'.commit >= asked,
         k.generation <= row.requested, Knows(k, row.requested, asked)
  PROVE  Preserved
<1>1. /\ indexer' \in [Indexers -> IndexerType]
      /\ \A v \in Indexers : indexer'[v] = IF v = w THEN k ELSE indexer[v]
  BY DEF IInv, Shape, Runs
<1>2. Shape'
  BY <1>1 DEF IInv, Shape
<1>3. \A v \in Indexers : /\ indexer'[v].generation <= row'.requested
                          /\ Knows(indexer'[v], row'.requested, asked')
  BY <1>1 DEF IInv
<1>4. row'.active <= row'.requested /\ row'.active >= row.active
  BY DEF IInv, Shape, RowType
<1> QED
  BY <1>2, <1>3, <1>4 DEF IInv, Preserved, Refreshed

\* A step of something else that opens no generation.
LEMMA OthersMove ==
  ASSUME IInv, UNCHANGED <<asked, indexer>>,
         request' \in [Requests -> RequestType], credential' \in Nat,
         head' \in Nat, head' >= head,
         row' \in RowType, row'.requested = row.requested, row'.active = row.active,
         row'.status = "READY" => row'.commit >= asked
  PROVE  Preserved
<1>1. Shape'
  BY DEF IInv, Shape
<1>2. \A v \in Indexers : /\ indexer'[v].generation <= row'.requested
                          /\ Knows(indexer'[v], row'.requested, asked')
  BY DEF IInv
<1>3. row'.active <= row'.requested /\ row'.active >= row.active /\ asked' <= head'
  BY DEF IInv, Shape, RowType
<1> QED
  BY <1>1, <1>2, <1>3 DEF IInv, Preserved, Refreshed

\* The row's status written, nothing else of it.
LEMMA StatusWritten ==
  ASSUME IInv, NEW s \in {"PENDING", "INDEXING", "FAILED", "BLOCKED"},
         row' = [row EXCEPT !.status = s] \/ row' = row
  PROVE  /\ row' \in RowType /\ row'.requested = row.requested /\ row'.active = row.active
         /\ row'.status = "READY" => row'.commit >= asked
BY DEF IInv, Shape, RowType, Refreshed

LEMMA IdleTypes == IdleRequest \in RequestType /\ IdleIndexer \in IndexerType
BY DEF IdleRequest, IdleIndexer, RequestType, IndexerType

-----------------------------------------------------------------------------
(* Requests and the credential.                                            *)

LEMMA RequestStarts ==
  ASSUME IInv, NEW c \in Requests,
         Request(c) \/ ReadEmbedding(c) \/ EnqueueCodeIndex(c) \/ EnqueueFails(c)
           \/ LoopAborts(c) \/ ApiCrash(c) \/ EditCredential(c)
  PROVE  Preserved
<1>1. request[c] \in RequestType /\ credential \in Nat
  BY DEF IInv, Shape
<1>2. \E k \in RequestType : Goes(c, k)
  <2>1. CASE Request(c)
    <3>1. PICK f \in BOOLEAN : Goes(c, [IdleRequest EXCEPT !.pc = "upsert", !.force = f,
                                                           !.seen = credential])
      BY <2>1 DEF Request
    <3> QED BY <3>1, <1>1, IdleTypes DEF RequestType
  <2>2. CASE ReadEmbedding(c)
    BY <2>2, <1>1 DEF ReadEmbedding, RequestType
  <2>3. CASE EnqueueCodeIndex(c)
    BY <2>3, IdleTypes DEF EnqueueCodeIndex
  <2>4. CASE EnqueueFails(c)
    BY <2>4, <1>1 DEF EnqueueFails, RequestType
  <2>5. CASE LoopAborts(c) \/ ApiCrash(c)
    BY <2>5, IdleTypes DEF LoopAborts, ApiCrash
  <2>6. CASE EditCredential(c)
    BY <2>6, <1>1, IdleTypes DEF EditCredential, RequestType
  <2> QED BY <2>1, <2>2, <2>3, <2>4, <2>5, <2>6
<1>3. request' \in [Requests -> RequestType]
  BY <1>2, RequestMoves DEF IInv
<1>4. UNCHANGED <<row, credential, head, asked, indexer>>
  BY DEF Request, ReadEmbedding, EnqueueCodeIndex, EnqueueFails,
         LoopAborts, ApiCrash, EditCredential
<1> QED
  BY <1>3, <1>4, OthersMove DEF IInv, Shape, Refreshed

\* The upsert opens a generation that no indexer is at work on.
LEMMA UpsertStep ==
  ASSUME IInv, NEW c \in Requests, Upsert(c)
  PROVE  Preserved
<1> DEFINE s == IF request[c].seen = 0 THEN "BLOCKED" ELSE "PENDING"
           g == row.requested + 1
<1>1. row' = [row EXCEPT !.requested = g, !.status = s]
  BY DEF Upsert
<1>2. UNCHANGED <<credential, head, indexer>> /\ asked' = head
  BY DEF Upsert
<1>3. request[c] \in RequestType /\ row \in RowType /\ row.requested \in Nat /\ g \in Nat
  BY DEF IInv, Shape, RowType
<1>4. /\ row' \in RowType /\ row'.requested = row.requested + 1 /\ row'.active = row.active
      /\ row'.status # "READY"
  <2>1. s \in {"BLOCKED", "PENDING"}
    OBVIOUS
  <2> HIDE DEF s, g
  <2>2. /\ row' \in RowType /\ row'.requested = g /\ row'.active = row.active
        /\ row'.status = s
    BY <1>1, <1>3, <2>1 DEF RowType
  <2> QED BY <2>1, <2>2 DEF g
<1>5. PICK k \in RequestType : Goes(c, k)
  <2> HIDE DEF g
  <2>1. [request[c] EXCEPT !.pc = "enqueue", !.generation = g] \in RequestType
    BY <1>3 DEF RequestType
  <2>2. Goes(c, IdleRequest)
        \/ Goes(c, [request[c] EXCEPT !.pc = "enqueue", !.generation = g])
    BY DEF Upsert, g
  <2> QED BY <2>1, <2>2, IdleTypes
<1>6. request' \in [Requests -> RequestType]
  BY <1>5, RequestMoves DEF IInv
<1>7. Shape'
  BY <1>2, <1>4, <1>6 DEF IInv, Shape
<1>8. ASSUME NEW w \in Indexers
      PROVE  /\ indexer'[w].generation <= row'.requested
             /\ Knows(indexer'[w], row'.requested, asked')
  <2>1. indexer[w].generation \in Nat /\ indexer[w].generation <= row.requested
        /\ row.requested \in Nat
    BY DEF IInv, Shape, RowType, IndexerType
  <2>2. Knows(indexer[w], row.requested, asked)
    BY DEF IInv
  <2> QED BY <2>1, <2>2, <1>2, <1>4 DEF Knows
<1>9. row'.active <= row'.requested /\ row'.active >= row.active /\ asked' <= head'
  BY <1>2, <1>4 DEF IInv, Shape, RowType
<1> QED
  BY <1>4, <1>7, <1>8, <1>9 DEF IInv, Preserved, Refreshed

LEMMA QueueUnavailableStep ==
  ASSUME IInv, NEW c \in Requests, QueueUnavailable(c)
  PROVE  Preserved
<1>1. row' = [row EXCEPT !.status = "FAILED"] \/ row' = row
  BY DEF QueueUnavailable
<1>2. request' \in [Requests -> RequestType]
  BY IdleTypes, RequestMoves DEF IInv, QueueUnavailable
<1> QED
  BY <1>1, <1>2, StatusWritten, OthersMove DEF QueueUnavailable, IInv, Shape

LEMMA WriteCredentialStep ==
  ASSUME IInv, NEW c \in Requests, WriteCredential(c)
  PROVE  Preserved
<1>1. PICK f \in 1 .. MaxFingerprint :
        /\ credential' = f
        /\ Goes(c, IF Changed(request[c], f) THEN [request[c] EXCEPT !.pc = "embedding"]
                   ELSE IdleRequest)
  BY DEF WriteCredential
<1>2. credential' \in Nat
  BY <1>1
<1>3. request[c] \in RequestType
  BY DEF IInv, Shape
<1>4. PICK k \in RequestType : Goes(c, k)
  BY <1>1, <1>3, IdleTypes DEF RequestType
<1>5. request' \in [Requests -> RequestType]
  BY <1>4, RequestMoves DEF IInv
<1>6. UNCHANGED <<row, head, asked, indexer>>
  BY DEF WriteCredential
<1> QED
  BY <1>2, <1>5, <1>6, OthersMove DEF IInv, Shape, Refreshed

LEMMA RemoveCredentialStep ==
  ASSUME IInv, RemoveCredential
  PROVE  Preserved
<1>1. row' = [row EXCEPT !.status = "BLOCKED"]
  BY DEF RemoveCredential
<1> QED
  BY <1>1, StatusWritten, OthersMove DEF RemoveCredential, IInv, Shape

LEMMA PushStep ==
  ASSUME IInv, Push
  PROVE  Preserved
<1>1. head' \in Nat /\ head' >= head
  BY DEF Push, IInv, Shape
<1>2. UNCHANGED <<row, credential, asked, request, indexer>>
  BY DEF Push
<1> QED
  BY <1>1, <1>2, OthersMove DEF IInv, Shape, Refreshed

-----------------------------------------------------------------------------
(* Steps of the indexer.                                                   *)

\* A step that leaves the row alone, or writes a status other than READY.
LEMMA IndexerGoes ==
  ASSUME IInv, NEW w \in Indexers, NEW k \in IndexerType, Runs(w, k),
         UNCHANGED <<credential, head, asked, request>>,
         NEW s \in {"PENDING", "INDEXING", "FAILED", "BLOCKED"},
         row' = [row EXCEPT !.status = s] \/ row' = row,
         k.generation <= row.requested, Knows(k, row.requested, asked)
  PROVE  Preserved
BY IndexerMoves, StatusWritten DEF IInv, Shape

\* What an indexer carries, and what it may carry on with.
LEMMA Carries ==
  ASSUME IInv, NEW w \in Indexers
  PROVE  /\ indexer[w] \in IndexerType /\ indexer[w].generation <= row.requested
         /\ Knows(indexer[w], row.requested, asked)
         /\ row \in RowType /\ row.requested \in Nat /\ asked \in Nat /\ head \in Nat
         /\ asked <= head /\ credential \in Nat
BY DEF IInv, Shape, RowType

\* The locals of an indexer that is done are 0.
LEMMA IdleCarries ==
  ASSUME IInv
  PROVE  /\ IdleIndexer \in IndexerType /\ IdleIndexer.generation <= row.requested
         /\ Knows(IdleIndexer, row.requested, asked)
BY IdleTypes DEF IInv, Shape, RowType, IdleIndexer, Knows, Informed

\* An indexer that ends, or goes to a statement that needs no head.
LEMMA UninformedMove ==
  ASSUME IInv, NEW w \in Indexers,
         NEW pc \in {"head", "purge", "cleanup"},
         NEW outcome \in {"STALE", "FAILED", "BLOCKED"},
         \/ Runs(w, IdleIndexer)
         \/ Runs(w, [indexer[w] EXCEPT !.pc = pc])
         \/ Runs(w, [indexer[w] EXCEPT !.pc = pc, !.outcome = outcome]),
         UNCHANGED <<credential, head, asked, request>>,
         NEW s \in {"PENDING", "INDEXING", "FAILED", "BLOCKED"},
         row' = [row EXCEPT !.status = s] \/ row' = row
  PROVE  Preserved
<1>1. CASE Runs(w, IdleIndexer)
  BY <1>1, IdleCarries, IndexerGoes
<1>2. ASSUME NEW k, Runs(w, k),
             \/ k = [indexer[w] EXCEPT !.pc = pc]
             \/ k = [indexer[w] EXCEPT !.pc = pc, !.outcome = outcome]
      PROVE  Preserved
  <2>1. k \in IndexerType /\ k.generation = indexer[w].generation /\ k.pc = pc
    BY <1>2, Carries DEF IndexerType
  <2>2. k.generation <= row.requested /\ Knows(k, row.requested, asked)
    BY <2>1, Carries DEF Knows, Informed
  <2> QED BY <1>2, <2>1, <2>2, IndexerGoes
<1> QED
  BY <1>1, <1>2

\* An indexer that goes on with what it knows.
LEMMA InformedMove ==
  ASSUME IInv, NEW w \in Indexers, indexer[w].pc \in Informed,
         NEW pc \in {"save", "insert", "activate", "commit"},
         NEW batch \in Nat,
         \/ Runs(w, [indexer[w] EXCEPT !.pc = pc])
         \/ Runs(w, [indexer[w] EXCEPT !.pc = pc, !.batch = batch]),
         UNCHANGED <<row, credential, head, asked, request>>
  PROVE  Preserved
<1>1. ASSUME NEW k, Runs(w, k),
             \/ k = [indexer[w] EXCEPT !.pc = pc]
             \/ k = [indexer[w] EXCEPT !.pc = pc, !.batch = batch]
      PROVE  Preserved
  <2>1. /\ k \in IndexerType /\ k.generation = indexer[w].generation
        /\ k.head = indexer[w].head /\ k.pc = pc
    BY <1>1, Carries DEF IndexerType
  <2>2. k.generation <= row.requested /\ Knows(k, row.requested, asked)
    BY <2>1, Carries DEF Knows
  <2> QED BY <1>1, <2>1, <2>2, IndexerGoes
<1> QED
  BY <1>1

LEMMA DeliverStep ==
  ASSUME IInv, NEW w \in Indexers, NEW g \in Generations, Deliver(w, g)
  PROVE  Preserved
<1> DEFINE blocked == [IdleIndexer EXCEPT !.pc = "block", !.generation = g]
<1>1. g \in Nat
  BY DEF Generations
<1>2. UNCHANGED <<row, credential, head, asked, request>>
  BY DEF Deliver
<1>3. CASE ~Current(g)
  BY <1>2, <1>3, UninformedMove DEF Deliver
<1>4. CASE Current(g)
  <2>1. g = row.requested
    BY <1>4 DEF Current
  <2>2. PICK k \in {blocked, Load(g)} : Runs(w, k)
    BY <1>4 DEF Deliver
  <2>3. /\ row.active \in Nat /\ row.commit \in Nat /\ row.fingerprint \in Nat
        /\ credential \in Nat
    BY DEF IInv, Shape, RowType
  <2>4. k \in IndexerType /\ k.generation = g /\ k.pc \in {"block", "claim"}
    BY <1>1, <2>2, <2>3, IdleTypes DEF IndexerType, Load
  <2>5. k.generation <= row.requested /\ Knows(k, row.requested, asked)
    BY <1>1, <2>1, <2>4 DEF Knows, Informed
  <2> QED BY <1>2, <2>2, <2>4, <2>5, IndexerGoes
<1> QED
  BY <1>3, <1>4

LEMMA GetBranchHeadStep ==
  ASSUME IInv, NEW w \in Indexers, GetBranchHead(w)
  PROVE  Preserved
<1>1. UNCHANGED <<row, credential, head, asked, request>>
  BY DEF GetBranchHead
<1>2. CASE ~Current(indexer[w].generation)
  BY <1>1, <1>2, UninformedMove DEF GetBranchHead, Abandon
<1>3. CASE Current(indexer[w].generation)
  <2>1. PICK pc \in {"unchanged", "prepare"} :
          Runs(w, [indexer[w] EXCEPT !.pc = pc, !.head = head, !.commit = 0, !.indexed = 0])
    BY <1>3 DEF GetBranchHead
  <2> DEFINE k == [indexer[w] EXCEPT !.pc = pc, !.head = head, !.commit = 0, !.indexed = 0]
  <2>2. k \in IndexerType /\ k.generation = indexer[w].generation /\ k.head = head
    BY Carries DEF IndexerType
  <2>3. k.generation <= row.requested /\ Knows(k, row.requested, asked)
    BY <2>2, Carries DEF Knows
  <2> HIDE DEF k
  <2>4. Runs(w, k)
    BY <2>1 DEF k
  <2> QED BY <1>1, <2>2, <2>3, <2>4, IndexerGoes
<1> QED
  BY <1>2, <1>3

\* READY is written only for the requested generation, with the head that
\* its indexer read after the request.
LEMMA ReadyStep ==
  ASSUME IInv, NEW w \in Indexers, indexer[w].pc \in Informed,
         Current(indexer[w].generation),
         NEW k \in IndexerType, Runs(w, k), k.generation <= row.requested,
         k.pc \notin Informed \cup {"fail"},
         row' = Ready(indexer[w])
           \/ row' = [Ready(indexer[w]) EXCEPT !.active = indexer[w].generation],
         UNCHANGED <<credential, head, asked, request>>
  PROVE  Preserved
<1>1. indexer[w].generation = row.requested /\ indexer[w].head >= asked
  BY Carries DEF Current, Knows
<1>2. indexer[w].head \in Nat /\ indexer[w].fingerprint \in Nat /\ row.requested \in Nat
  BY Carries DEF IndexerType
<1>3. /\ row' \in RowType /\ row'.requested = row.requested
      /\ row'.active \in {row.active, row.requested} /\ row'.commit = indexer[w].head
  BY <1>1, <1>2, Carries DEF Ready, RowType
<1>4. Knows(k, row.requested, asked)
  BY DEF Knows, Informed
<1> QED
  BY <1>1, <1>3, <1>4, IndexerMoves

LEMMA CompleteUnchangedStep ==
  ASSUME IInv, NEW w \in Indexers, CompleteUnchanged(w)
  PROVE  Preserved
<1>1. UNCHANGED <<credential, head, asked, request>>
  BY DEF CompleteUnchanged
<1>2. indexer[w].pc \in Informed
  BY DEF CompleteUnchanged, At, Informed
<1>3. CASE row' = Ready(indexer[w]) /\ Current(indexer[w].generation) /\ Runs(w, IdleIndexer)
  <2>1. IdleIndexer.pc \notin Informed \cup {"fail"}
    BY DEF IdleIndexer, Informed
  <2> QED BY <1>1, <1>2, <1>3, <2>1, IdleCarries, ReadyStep
<1>4. CASE UNCHANGED row /\ Abandon(w)
  BY <1>1, <1>4, UninformedMove DEF Abandon
<1> QED
  BY <1>3, <1>4 DEF CompleteUnchanged, Returns, Settle

LEMMA ActivateStep ==
  ASSUME IInv, NEW w \in Indexers, Activate(w)
  PROVE  Preserved
<1>1. UNCHANGED <<credential, head, asked, request>>
  BY DEF Activate
<1>2. indexer[w].pc \in Informed
  BY DEF Activate, At, Informed
<1>3. CASE ~Current(indexer[w].generation)
  BY <1>1, <1>3, UninformedMove DEF Activate, Abandon
<1>4. CASE Current(indexer[w].generation)
  <2>1. PICK k \in {[indexer[w] EXCEPT !.pc = "purge"],
                    [indexer[w] EXCEPT !.pc = "cleanup", !.outcome = "FAILED"]} : Runs(w, k)
    BY <1>4 DEF Activate, To
  <2>2. k \in IndexerType /\ k.generation = indexer[w].generation /\ k.pc \notin Informed \cup {"fail"}
    BY <2>1, Carries DEF IndexerType, Informed
  <2>3. row' = [Ready(indexer[w]) EXCEPT !.active = indexer[w].generation]
    BY <1>4 DEF Activate
  <2>4. k.generation <= row.requested
    BY <2>2, Carries
  <2> QED BY <1>1, <1>2, <1>4, <2>1, <2>2, <2>3, <2>4, ReadyStep
<1> QED
  BY <1>3, <1>4

LEMMA WorkStep ==
  ASSUME IInv, NEW w \in Indexers,
         PrepareGeneration(w) \/ SaveChunks(w) \/ Insert(w) \/ CheckActivation(w)
  PROVE  Preserved
<1>1. UNCHANGED <<row, credential, head, asked, request>>
  BY DEF PrepareGeneration, SaveChunks, Insert, CheckActivation
<1>2. indexer[w].pc \in Informed
  BY DEF PrepareGeneration, SaveChunks, Insert, CheckActivation, At, Informed
<1>3. indexer[w].batch + 1 \in Nat
  BY Carries DEF IndexerType
<1>4. CASE PrepareGeneration(w)
  <2>1. Runs(w, [indexer[w] EXCEPT !.pc = "save"])
        \/ Runs(w, [indexer[w] EXCEPT !.pc = "cleanup", !.outcome = "STALE"])
    BY <1>4 DEF PrepareGeneration, To, Abandon
  <2> QED BY <1>1, <1>2, <2>1, InformedMove, UninformedMove
<1>5. CASE SaveChunks(w)
  <2>1. Runs(w, [indexer[w] EXCEPT !.pc = "insert"])
        \/ Runs(w, [indexer[w] EXCEPT !.pc = "cleanup", !.outcome = "STALE"])
    BY <1>5 DEF SaveChunks, To, Abandon
  <2> QED BY <1>1, <1>2, <2>1, InformedMove, UninformedMove
<1>6. CASE Insert(w)
  <2> DEFINE b == indexer[w].batch + 1
  <2>1. PICK pc \in {"activate", "save"} :
          Runs(w, [indexer[w] EXCEPT !.pc = pc, !.batch = b])
    BY <1>6 DEF Insert
  <2>2. b \in Nat
    BY <1>3
  <2> HIDE DEF b
  <2> QED BY <1>1, <1>2, <2>1, <2>2, InformedMove
<1>7. CASE CheckActivation(w)
  <2>1. \/ Runs(w, [indexer[w] EXCEPT !.pc = "commit"])
        \/ \E o \in {"STALE", "FAILED"} :
             Runs(w, [indexer[w] EXCEPT !.pc = "cleanup", !.outcome = o])
    BY <1>7 DEF CheckActivation, To, Abandon
  <2> QED BY <1>1, <1>2, <2>1, InformedMove, UninformedMove
<1> QED
  BY <1>4, <1>5, <1>6, <1>7

\* The steps that end an indexer's work, or take it to its end.
LEMMA EndingStep ==
  ASSUME IInv, NEW w \in Indexers,
         Block(w) \/ Claim(w) \/ Purge(w) \/ CleanupGeneration(w) \/ Fail(w)
           \/ Breaks(w) \/ IndexerCrash(w)
  PROVE  Preserved
<1>1. UNCHANGED <<credential, head, asked, request>>
  BY DEF Block, Claim, Purge, CleanupGeneration, Fail, Breaks, IndexerCrash
<1>2. indexer[w].outcome \in {"STALE", "FAILED", "BLOCKED"}
  BY Carries DEF IndexerType
<1>3. CASE Block(w)
  <2>1. row' = [row EXCEPT !.status = "BLOCKED"] \/ row' = row
    BY <1>3 DEF Block
  <2> QED BY <1>1, <1>3, <2>1, UninformedMove DEF Block, Throws, Settle
<1>4. CASE Claim(w)
  <2>1. row' = [row EXCEPT !.status = "INDEXING"] \/ row' = row
    BY <1>4 DEF Claim
  <2>2. Runs(w, [indexer[w] EXCEPT !.pc = "head"]) \/ Runs(w, IdleIndexer)
    BY <1>4 DEF Claim, To, Returns, Settle
  <2> QED BY <1>1, <2>1, <2>2, UninformedMove
<1>5. CASE Purge(w)
  BY <1>1, <1>5, UninformedMove DEF Purge, Returns, Settle
<1>6. CASE CleanupGeneration(w)
  <2>1. row' = row
    BY <1>6 DEF CleanupGeneration
  <2>2. CASE indexer[w].outcome = "STALE"
    BY <1>1, <1>6, <2>1, <2>2, UninformedMove DEF CleanupGeneration, Returns, Settle
  <2>3. CASE indexer[w].outcome # "STALE"
    <3> DEFINE k == [indexer[w] EXCEPT !.pc = "fail"]
    <3>1. Runs(w, k)
      BY <1>6, <2>3 DEF CleanupGeneration, To
    <3>2. /\ k \in IndexerType /\ k.generation = indexer[w].generation
          /\ k.pc = "fail" /\ k.outcome # "STALE"
      BY <2>3, Carries DEF IndexerType
    <3> HIDE DEF k
    <3>3. k.generation <= row.requested /\ Knows(k, row.requested, asked)
      BY <3>2, Carries DEF Knows, Informed
    <3> QED BY <1>1, <2>1, <3>1, <3>2, <3>3, IndexerGoes
  <2> QED BY <2>2, <2>3
<1>7. CASE Fail(w)
  <2>1. indexer[w].pc = "fail" /\ Runs(w, IdleIndexer)
    BY <1>7 DEF Fail, At, Throws, Settle
  <2>2. row' = [row EXCEPT !.status = indexer[w].outcome] \/ row' = row
    BY <1>7 DEF Fail, Failed
  <2>3. indexer[w].outcome # "STALE"
    BY <2>1, Carries DEF Knows
  <2> QED BY <1>1, <1>2, <2>1, <2>2, <2>3, UninformedMove
<1>8. CASE Breaks(w)
  <2>1. \E o \in {"FAILED", "BLOCKED"} :
          Runs(w, [indexer[w] EXCEPT !.pc = "cleanup", !.outcome = o])
    BY <1>8 DEF Breaks
  <2>2. row' = row
    BY <1>8 DEF Breaks
  <2> QED BY <1>1, <2>1, <2>2, UninformedMove
<1>9. CASE IndexerCrash(w)
  BY <1>1, <1>9, UninformedMove DEF IndexerCrash, Settle
<1> QED
  BY <1>3, <1>4, <1>5, <1>6, <1>7, <1>8, <1>9

LEMMA StallStep ==
  ASSUME IInv, NEW w \in Indexers, Stall(w)
  PROVE  Preserved
<1>1. UNCHANGED <<row, credential, head, asked, request, indexer>>
  BY DEF Stall
<1> QED
  BY <1>1, OthersMove DEF IInv, Shape, Refreshed

-----------------------------------------------------------------------------
(* The theorems.                                                           *)

LEMMA Initially == Init => IInv
<1> SUFFICES ASSUME Init PROVE IInv
  OBVIOUS
<1>1. Shape
  BY IdleTypes DEF Init, Shape, RowType
<1>2. \A w \in Indexers : indexer[w] = IdleIndexer
  BY DEF Init
<1>3. ASSUME NEW w \in Indexers
      PROVE  indexer[w].generation <= row.requested /\ Knows(indexer[w], row.requested, asked)
  BY <1>2 DEF Init, IdleIndexer, Knows, Informed
<1> QED
  BY <1>1, <1>3 DEF Init, IInv, Refreshed

LEMMA Step == IInv /\ [Next]_vars => Preserved
<1> SUFFICES ASSUME IInv, [Next]_vars PROVE Preserved
  OBVIOUS
<1>1. CASE UNCHANGED vars
  BY <1>1, OthersMove DEF vars, IInv, Shape, Refreshed
<1>2. ASSUME NEW c \in Requests, RequestStep(c)
      PROVE  Preserved
  BY <1>2, RequestStarts, UpsertStep, QueueUnavailableStep, WriteCredentialStep
  DEF RequestStep
<1>3. ASSUME NEW c \in Requests,
             Request(c) \/ EnqueueFails(c) \/ LoopAborts(c) \/ ApiCrash(c) \/ EditCredential(c)
      PROVE  Preserved
  BY <1>3, RequestStarts
<1>4. ASSUME NEW w \in Indexers, IndexerStep(w)
      PROVE  Preserved
  BY <1>4, GetBranchHeadStep, CompleteUnchangedStep, WorkStep, ActivateStep, EndingStep
  DEF IndexerStep
<1>5. ASSUME NEW w \in Indexers, Breaks(w) \/ IndexerCrash(w) \/ Stall(w)
      PROVE  Preserved
  BY <1>5, EndingStep, StallStep
<1>6. ASSUME NEW w \in Indexers, NEW g \in Generations, Deliver(w, g)
      PROVE  Preserved
  BY <1>6, DeliverStep
<1> QED
  BY <1>1, <1>2, <1>3, <1>4, <1>5, <1>6, RemoveCredentialStep, PushStep DEF Next

\* A refresh that ended READY indexed the head of its request or a newer one:
\* the head is read after the row has shown the request (claim, 80-145), and
\* READY is written only while the request is still the latest (activate and
\* completeUnchanged).
THEOREM RefreshIsCurrent == Spec => []Refreshed
<1>1. Init => IInv
  BY Initially
<1>2. IInv /\ [Next]_vars => IInv'
  BY Step DEF Preserved
<1>3. IInv => Refreshed
  BY DEF IInv
<1> QED
  BY <1>1, <1>2, <1>3, PTL DEF Spec

\* The active generation only advances, however many indexers work on however
\* many generations at once and whatever the queue delivers again.
THEOREM ActiveAdvances == Spec => NeverBack
<1>1. Init => IInv
  BY Initially
<1>2. IInv /\ [Next]_vars => IInv' /\ row'.active >= row.active
  BY Step DEF Preserved
<1>3. IInv /\ [Next]_vars => [row'.active >= row.active]_vars
  BY <1>2
<1> QED
  BY <1>1, <1>2, <1>3, PTL DEF Spec, NeverBack

-----------------------------------------------------------------------------
(* Types.  A generation is queued once, by the request that opened it; a   *)
(* job that is not done has failed or stalled at most once; and a request  *)
(* starts only while there is room for its generation.                     *)

RowT == [status : {"new", "PENDING", "INDEXING", "READY", "FAILED", "BLOCKED"},
         requested : 0 .. MaxGeneration, active : 0 .. MaxGeneration,
         commit : Nat, fingerprint : Credentials]
RequestT == [pc : {"idle", "edit", "embedding", "upsert", "enqueue", "unavailable"},
             force : BOOLEAN, seen : Credentials, generation : 0 .. MaxGeneration]
JobT == [state : {"none", "waiting", "active", "done"}, slot : Indexers \cup {0},
         failures : 0 .. 2, stalls : 0 .. 2, force : BOOLEAN]
IndexerT ==
  [pc : {"idle", "block", "claim", "head", "unchanged", "prepare", "save",
         "insert", "activate", "commit", "purge", "cleanup", "fail"},
   generation : 0 .. MaxGeneration, active : 0 .. MaxGeneration, commit : Nat,
   indexed : Credentials, fingerprint : Credentials, head : Nat,
   batch : 0 .. Batches, outcome : {"STALE", "FAILED", "BLOCKED"}]

\* A request that has yet to open its generation.
Opening == {"edit", "embedding", "upsert"}
Openings == {c \in Requests : request[c].pc \in Opening}

\* A job that was queued, and may be delivered again unless it is done.
JobMay(j) ==
  /\ j \in JobT /\ j.state # "none"
  /\ j.slot # 0 => j.state = "active"
  /\ j.state # "done" => j.failures <= 1 /\ j.stalls <= 1

JobOK(g) == /\ job[g].state # "none" => JobMay(job[g])
            /\ job[g].state = "none" => job[g].slot = 0 /\ job[g].failures = 0 /\ job[g].stalls = 0
            /\ g > row.requested => job[g].state = "none"

Queueing(c) == /\ request[c].generation \in 1 .. row.requested
               /\ job[request[c].generation].state = "none"

EnqueueOK ==
  /\ \A c \in Requests : Awaits(c, "enqueue") => Queueing(c)
  /\ \A c, d \in Requests : c # d /\ Awaits(c, "enqueue") /\ Awaits(d, "enqueue") =>
       request[c].generation # request[d].generation

LocalsOK(k) ==
  /\ k \in IndexerT
  /\ k.pc # "idle" => k.generation \in Generations
  /\ k.pc \in {"claim", "head", "prepare"} => k.batch = 0
  /\ k.pc \in {"save", "insert"} => k.batch < Batches
  /\ k.pc = "fail" => k.outcome # "STALE"

TInv ==
  /\ TypeOK
  /\ \A g \in Generations : JobOK(g)
  /\ EnqueueOK
  /\ \A w \in Indexers : LocalsOK(indexer[w])
  /\ row.requested + Cardinality(Openings) <= MaxGeneration

LEMMA TypesAre ==
  TypeOK <=> /\ row \in RowT /\ chunks \subseteq Chunk
             /\ credential \in Credentials /\ head \in Nat /\ asked \in Nat
             /\ request \in [Requests -> RequestT]
             /\ job \in [Generations -> JobT]
             /\ indexer \in [Indexers -> IndexerT]
             /\ happened \subseteq Kinds
BY DEF TypeOK, RowT, RequestT, JobT, IndexerT

LEMMA IdleLocals == IdleRequest \in RequestT /\ LocalsOK(IdleIndexer)
<1>1. 0 \in 0 .. MaxGeneration /\ 0 \in Credentials /\ 0 \in 0 .. Batches
  BY BoundsAssumption DEF Credentials
<1> QED
  BY <1>1 DEF IdleRequest, IdleIndexer, RequestT, IndexerT, LocalsOK

LEMMA HappensTypes ==
  ASSUME TypeOK, Quiet \/ \E kind : Happens(kind)
  PROVE  happened' \subseteq Kinds
BY DEF TypeOK, Quiet, Happens

LEMMA OpeningsCount ==
  ASSUME TypeOK
  PROVE  /\ IsFiniteSet(Openings) /\ Cardinality(Openings) \in Nat
         /\ \A c : /\ IsFiniteSet(Openings \cup {c})
                   /\ Cardinality(Openings \cup {c}) <= Cardinality(Openings) + 1
                   /\ c \in Openings => Cardinality(Openings \ {c}) = Cardinality(Openings) - 1
<1>1. IsFiniteSet(Openings)
  BY RequestsAssumption, FS_Subset DEF Openings
<1>2. Cardinality(Openings) \in Nat
  BY <1>1, FS_CardinalityType
<1>3. ASSUME NEW c
      PROVE  /\ IsFiniteSet(Openings \cup {c})
             /\ Cardinality(Openings \cup {c}) <= Cardinality(Openings) + 1
  <2>1. /\ IsFiniteSet(Openings \cup {c})
        /\ \/ Cardinality(Openings \cup {c}) = Cardinality(Openings)
           \/ Cardinality(Openings \cup {c}) = Cardinality(Openings) + 1
    BY <1>1, FS_AddElement
  <2> QED
    BY <1>2, <2>1
<1>4. \A c : c \in Openings => Cardinality(Openings \ {c}) = Cardinality(Openings) - 1
  BY <1>1, FS_RemoveElement
<1> QED
  BY <1>1, <1>2, <1>3, <1>4

\* A request that starts leaves room for the others and for itself.
LEMMA RoomFor ==
  ASSUME TypeOK, Room
  PROVE  row.requested + Cardinality(Openings) + 1 <= MaxGeneration
<1> DEFINE Under == {c \in Requests : ~Awaits(c, "idle")}
<1>1. IsFiniteSet(Under) /\ Cardinality(Under) \in Nat
  BY RequestsAssumption, FS_Subset, FS_CardinalityType
<1>2. Openings \subseteq Under
  BY DEF Openings, Opening, Awaits
<1>3. Cardinality(Openings) <= Cardinality(Under)
  BY <1>1, <1>2, FS_Subset
<1>4. row.requested \in Nat
  BY DEF TypeOK
<1>5. row.requested + Cardinality(Under) < MaxGeneration
  BY DEF Room
<1> HIDE DEF Under
<1> QED
  BY <1>1, <1>3, <1>4, <1>5, OpeningsCount, BoundsAssumption

LEMMA RequestGoes ==
  ASSUME TInv, NEW c \in Requests, NEW k \in RequestT, Goes(c, k)
  PROVE  /\ request' \in [Requests -> RequestT] /\ request'[c] = k
         /\ \A d \in Requests \ {c} : request'[d] = request[d]
BY TypesAre DEF TInv, Goes

\* A step of a request that opens and queues nothing.
LEMMA RequestTyped ==
  ASSUME TInv, NEW c \in Requests, NEW k \in RequestT, Goes(c, k), k.pc # "enqueue",
         k.pc \in Opening => request[c].pc \in Opening \/ Room,
         UNCHANGED <<chunks, job, indexer, head, asked>>,
         row' \in RowT, row'.requested = row.requested, credential' \in Credentials,
         happened' \subseteq Kinds
  PROVE  TInv'
<1>1. /\ request' \in [Requests -> RequestT] /\ request'[c] = k
      /\ \A d \in Requests \ {c} : request'[d] = request[d]
  BY RequestGoes
<1>2. TypeOK'
  BY <1>1, TypesAre DEF TInv, TypeOK, RowT, RequestT
<1>3. \A g \in Generations : JobOK(g)'
  BY DEF TInv, JobOK, JobMay
<1>4. EnqueueOK'
  BY <1>1 DEF TInv, EnqueueOK, Queueing, Awaits
<1>5. \A w \in Indexers : LocalsOK(indexer'[w])
  BY DEF TInv
<1>6. row'.requested + Cardinality(Openings') <= MaxGeneration
  <2>1. row.requested \in Nat
    BY DEF TInv, TypeOK
  <2>2. CASE Openings' \subseteq Openings
    <3>1. Cardinality(Openings') <= Cardinality(Openings) /\ Cardinality(Openings') \in Nat
      BY <2>2, OpeningsCount, FS_Subset, FS_CardinalityType DEF TInv
    <3> QED
      BY <2>1, <3>1, OpeningsCount, BoundsAssumption DEF TInv
  <2>3. CASE k.pc \in Opening /\ Room /\ Openings' \subseteq Openings \cup {c}
    <3>1. /\ Cardinality(Openings') <= Cardinality(Openings \cup {c})
          /\ Cardinality(Openings') \in Nat /\ Cardinality(Openings \cup {c}) \in Nat
      BY <2>3, OpeningsCount, FS_Subset, FS_CardinalityType DEF TInv
    <3>2. Cardinality(Openings \cup {c}) <= Cardinality(Openings) + 1
      BY OpeningsCount DEF TInv
    <3> QED
      BY <2>1, <2>3, <3>1, <3>2, OpeningsCount, RoomFor, BoundsAssumption DEF TInv
  <2> QED
    BY <1>1, <2>2, <2>3 DEF Openings
<1> QED
  BY <1>2, <1>3, <1>4, <1>5, <1>6 DEF TInv, LocalsOK

LEMMA JobOfRequest ==
  ASSUME TInv, NEW c \in Requests, Awaits(c, "enqueue"), NEW f \in BOOLEAN,
         Queued(request[c].generation, f)
  PROVE  \E g \in Generations : \E j :
           /\ g = request[c].generation /\ JobMay(j) /\ g <= row.requested
           /\ job[g].state = "none" /\ job' = [job EXCEPT ![g] = j]
<1> DEFINE g == request[c].generation
           j == [job[g] EXCEPT !.state = "waiting", !.force = f]
<1>0. row \in RowT /\ job \in [Generations -> JobT] /\ g \in 1 .. row.requested
      /\ job[g].state = "none"
  BY TypesAre DEF TInv, EnqueueOK, Queueing
<1>1. g \in Generations /\ g <= row.requested
  BY <1>0, BoundsAssumption DEF Generations, RowT
<1>2. job[g] \in JobT /\ job[g].slot = 0 /\ job[g].failures = 0 /\ job[g].stalls = 0
  BY <1>0, <1>1 DEF TInv, JobOK
<1>3. /\ j \in JobT /\ j.state = "waiting" /\ j.slot = 0
      /\ j.failures = 0 /\ j.stalls = 0
  BY <1>2 DEF JobT
<1>4. job' = [job EXCEPT ![g] = j]
  BY <1>0, <1>1 DEF Queued, JobT
<1>5. JobMay(j)
  BY <1>3 DEF JobMay
<1> QED
  BY <1>0, <1>1, <1>4, <1>5

LEMMA EnqueueTyped ==
  ASSUME TInv, NEW c \in Requests, EnqueueCodeIndex(c) \/ EnqueueFails(c)
  PROVE  TInv'
<1>1. request[c] \in RequestT
  BY TypesAre DEF TInv
<1>2. PICK k \in RequestT : Goes(c, k) /\ k.pc \in {"idle", "unavailable"}
  <2>1. CASE EnqueueCodeIndex(c)
    BY <2>1, IdleLocals DEF EnqueueCodeIndex, IdleRequest
  <2>2. CASE EnqueueFails(c)
    BY <1>1, <2>2 DEF EnqueueFails, RequestT
  <2> QED
    BY <2>1, <2>2
<1>3. UNCHANGED <<row, chunks, credential, head, asked, indexer>> /\ Awaits(c, "enqueue")
      /\ happened' \subseteq Kinds
  BY HappensTypes DEF EnqueueCodeIndex, EnqueueFails, TInv
<1>4. CASE job' = job
  BY <1>2, <1>3, <1>4, RequestTyped, TypesAre DEF TInv, Opening
<1>5. CASE Queued(request[c].generation, request[c].force)
  <2>0. PICK g \in Generations : \E j : /\ g = request[c].generation /\ JobMay(j)
                                        /\ g <= row.requested /\ job[g].state = "none"
                                        /\ job' = [job EXCEPT ![g] = j]
    BY <1>1, <1>3, <1>5, JobOfRequest DEF RequestT
  <2>1. PICK j : /\ g = request[c].generation /\ JobMay(j) /\ g <= row.requested
                 /\ job[g].state = "none" /\ job' = [job EXCEPT ![g] = j]
    BY <2>0
  <2>2. /\ request' \in [Requests -> RequestT] /\ request'[c] = k
        /\ \A d \in Requests \ {c} : request'[d] = request[d]
    BY <1>2, RequestGoes
  <2>3. /\ job' \in [Generations -> JobT] /\ job'[g] = j
        /\ \A h \in Generations \ {g} : job'[h] = job[h]
    BY <2>1, TypesAre DEF TInv, JobMay
  <2>4. TypeOK'
    BY <1>3, <2>2, <2>3, TypesAre DEF TInv, TypeOK, RequestT, JobT
  <2>5. \A h \in Generations : JobOK(h)'
    <3> SUFFICES ASSUME NEW h \in Generations PROVE JobOK(h)'
      OBVIOUS
    <3>1. CASE h = g
      BY <1>3, <2>1, <2>3, <3>1 DEF JobOK, JobMay, Generations, TInv, TypeOK
    <3>2. CASE h # g
      BY <1>3, <2>3, <3>2 DEF TInv, JobOK, JobMay
    <3> QED
      BY <3>1, <3>2
  <2>6. EnqueueOK'
    <3>1. \A d \in Requests : Awaits(d, "enqueue")' =>
            d # c /\ Awaits(d, "enqueue") /\ request[d].generation # g
      BY <1>2, <1>3, <2>1, <2>2 DEF TInv, EnqueueOK, Awaits
    <3>2. \A d \in Requests : Awaits(d, "enqueue") => request[d].generation \in Generations
      BY TypesAre DEF TInv, EnqueueOK, Queueing, Generations, RequestT, RowT
    <3> QED
      BY <1>3, <2>2, <2>3, <3>1, <3>2 DEF TInv, EnqueueOK, Queueing, Awaits
  <2>7. Openings' = Openings
    BY <1>2, <1>3, <2>2 DEF Openings, Opening, Awaits
  <2> QED
    BY <1>3, <2>4, <2>5, <2>6, <2>7 DEF TInv, LocalsOK
<1> QED
  BY <1>3, <1>4, <1>5 DEF EnqueueCodeIndex, EnqueueFails

LEMMA UpsertTyped ==
  ASSUME TInv, NEW c \in Requests, Upsert(c)
  PROVE  TInv'
<1> DEFINE n == row.requested + 1
           s == IF request[c].seen = 0 THEN "BLOCKED" ELSE "PENDING"
<1>1. request[c] \in RequestT /\ row \in RowT /\ row.requested \in Nat
  BY TypesAre DEF TInv, RowT
<1>2. c \in Openings /\ Awaits(c, "upsert")
  BY DEF Upsert, Awaits, Openings, Opening
<1>3. Cardinality(Openings) >= 1 /\ Cardinality(Openings \ {c}) = Cardinality(Openings) - 1
      /\ Cardinality(Openings) \in Nat /\ Cardinality(Openings \ {c}) \in Nat
  BY <1>2, OpeningsCount, FS_Subset, FS_CardinalityType DEF TInv
<1>4. n \in 1 .. MaxGeneration /\ n + Cardinality(Openings \ {c}) <= MaxGeneration
  BY <1>1, <1>3, BoundsAssumption DEF TInv
<1>5. UNCHANGED <<chunks, credential, head, job, indexer, happened>> /\ asked' = head
  BY DEF Upsert, Quiet
<1>6. row' = [row EXCEPT !.requested = n, !.status = s] /\ s \in {"BLOCKED", "PENDING"}
  BY DEF Upsert
<1>7. \/ Goes(c, IdleRequest)
      \/ Goes(c, [request[c] EXCEPT !.pc = "enqueue", !.generation = n])
  BY DEF Upsert
<1> HIDE DEF n, s
<1>7a. n \in 0 .. MaxGeneration
  BY <1>4
<1>8. row' \in RowT /\ row'.requested = n
  BY <1>1, <1>6, <1>7a DEF RowT
<1>9. PICK k \in RequestT : /\ Goes(c, k) /\ k.pc \in {"idle", "enqueue"}
                            /\ k.pc = "enqueue" => k.generation = n
  <2> DEFINE q == [request[c] EXCEPT !.pc = "enqueue", !.generation = n]
  <2>1. q \in RequestT /\ q.pc = "enqueue" /\ q.generation = n
    BY <1>1, <1>7a DEF RequestT
  <2>2. IdleRequest \in RequestT /\ IdleRequest.pc = "idle"
    BY IdleLocals DEF IdleRequest
  <2> QED
    BY <1>7, <2>1, <2>2
<1>10. /\ request' \in [Requests -> RequestT] /\ request'[c] = k
       /\ \A d \in Requests \ {c} : request'[d] = request[d]
  BY <1>9, RequestGoes
<1>11. TypeOK'
  BY <1>5, <1>8, <1>10, TypesAre DEF TInv, TypeOK, RowT, RequestT
<1>12. n > row.requested /\ n \in Generations
  BY <1>1, <1>4 DEF n, Generations
<1>13. \A g \in Generations : JobOK(g)' /\ (g = n => job[g].state = "none")
  BY <1>1, <1>5, <1>8, <1>12 DEF TInv, JobOK, JobMay, Generations
<1>14. EnqueueOK'
  <2>1. \A d \in Requests : d # c /\ Awaits(d, "enqueue") =>
          /\ request[d].generation \in 1 .. n /\ request[d].generation # n
          /\ job[request[d].generation].state = "none"
    BY <1>1, <1>4, <1>12 DEF TInv, EnqueueOK, Queueing
  <2> QED
    BY <1>4, <1>5, <1>8, <1>9, <1>10, <1>12, <1>13, <2>1 DEF TInv, EnqueueOK, Queueing, Awaits
<1>15. Openings' = Openings \ {c}
  BY <1>9, <1>10 DEF Openings, Opening
<1> QED
  BY <1>4, <1>5, <1>8, <1>11, <1>13, <1>14, <1>15 DEF TInv, LocalsOK

LEMMA RequestStepTyped ==
  ASSUME TInv, NEW c \in Requests,
         Request(c) \/ ReadEmbedding(c) \/ QueueUnavailable(c) \/ LoopAborts(c) \/ ApiCrash(c)
           \/ EditCredential(c) \/ WriteCredential(c)
  PROVE  TInv'
<1>1. /\ request[c] \in RequestT /\ row \in RowT /\ credential \in Credentials
      /\ \A f \in 1 .. MaxFingerprint : f \in Credentials
  BY TypesAre, BoundsAssumption DEF TInv, Credentials
<1>2. UNCHANGED <<chunks, job, indexer, head, asked>> /\ happened' \subseteq Kinds
  BY HappensTypes DEF TInv, Request, ReadEmbedding, QueueUnavailable,
                      LoopAborts, ApiCrash, EditCredential,
                      WriteCredential
<1>3. credential' \in Credentials
  BY <1>1 DEF Request, ReadEmbedding, QueueUnavailable,
              LoopAborts, ApiCrash, EditCredential, WriteCredential
<1>4. row' \in RowT /\ row'.requested = row.requested
  <2>1. row' = row \/ row' = [row EXCEPT !.status = "FAILED"]
    BY DEF Request, ReadEmbedding, QueueUnavailable,
           LoopAborts, ApiCrash, EditCredential, WriteCredential
  <2> QED
    BY <1>1, <2>1 DEF RowT
<1>5. PICK k \in RequestT : /\ Goes(c, k) /\ k.pc # "enqueue"
                            /\ k.pc \in Opening => request[c].pc \in Opening \/ Room
  <2>1. CASE Request(c)
    <3>1. PICK f \in BOOLEAN : Goes(c, [IdleRequest EXCEPT !.pc = "upsert", !.force = f,
                                                           !.seen = credential])
      BY <2>1 DEF Request
    <3> QED
      BY <1>1, <2>1, <3>1, IdleLocals DEF RequestT, Request
  <2>2. CASE ReadEmbedding(c)
    BY <1>1, <2>2 DEF ReadEmbedding, RequestT, Opening, Awaits
  <2>3. CASE QueueUnavailable(c) \/ LoopAborts(c) \/ ApiCrash(c)
    BY <2>3, IdleLocals DEF QueueUnavailable, LoopAborts, ApiCrash, IdleRequest, Opening
  <2>4. CASE EditCredential(c)
    BY <1>1, <2>4, IdleLocals DEF EditCredential, RequestT
  <2>5. CASE WriteCredential(c)
    <3>1. \/ Goes(c, [request[c] EXCEPT !.pc = "embedding"])
          \/ Goes(c, IdleRequest)
      BY <2>5 DEF WriteCredential
    <3> QED
      BY <1>1, <2>5, <3>1, IdleLocals DEF WriteCredential, RequestT, IdleRequest, Opening, Awaits
  <2> QED
    BY <2>1, <2>2, <2>3, <2>4, <2>5
<1> QED
  BY <1>2, <1>3, <1>4, <1>5, RequestTyped

\* Steps of nobody: what they write has no part in the bookkeeping.
LEMMA OthersTyped ==
  ASSUME TInv, UNCHANGED <<chunks, request, job, indexer>>,
         row' \in RowT, row'.requested = row.requested, credential' \in Credentials,
         head' \in Nat, asked' \in Nat, happened' \subseteq Kinds
  PROVE  TInv'
<1>1. TypeOK'
  BY TypesAre DEF TInv, TypeOK, RowT
<1>2. \A g \in Generations : JobOK(g)'
  BY DEF TInv, JobOK, JobMay
<1>3. EnqueueOK' /\ Openings' = Openings
  BY DEF TInv, EnqueueOK, Queueing, Awaits, Openings
<1> QED
  BY <1>1, <1>2, <1>3 DEF TInv, LocalsOK

LEMMA OutsideTyped ==
  ASSUME TInv, RemoveCredential \/ Push
  PROVE  TInv'
<1>1. row \in RowT /\ 0 \in Credentials /\ credential \in Credentials /\ head \in Nat
      /\ asked \in Nat
  BY TypesAre, BoundsAssumption DEF TInv, Credentials
<1>2. row' = row \/ row' = [row EXCEPT !.status = "BLOCKED"]
  BY DEF RemoveCredential, Push
<1>3. row' \in RowT /\ row'.requested = row.requested
  BY <1>1, <1>2 DEF RowT
<1>4. happened' \subseteq Kinds
  BY HappensTypes DEF TInv, RemoveCredential, Push
<1> QED
  BY <1>1, <1>3, <1>4, OthersTyped DEF RemoveCredential, Push

\* What becomes of the jobs in a step of an indexer.
JobsMove == \/ job' = job
            \/ \E g \in Generations : \E j : /\ JobMay(j) /\ job[g].state # "none"
                                             /\ job' = [job EXCEPT ![g] = j]

LEMMA IndexerTyped ==
  ASSUME TInv, NEW w \in Indexers, NEW k, LocalsOK(k), Runs(w, k), JobsMove,
         UNCHANGED <<credential, head, asked, request>>,
         row' \in RowT, row'.requested = row.requested, chunks' \subseteq Chunk,
         happened' \subseteq Kinds
  PROVE  TInv'
<1>1. /\ indexer' \in [Indexers -> IndexerT]
      /\ \A v \in Indexers : indexer'[v] = IF v = w THEN k ELSE indexer[v]
  BY TypesAre DEF TInv, LocalsOK, Runs
<1>2. /\ job' \in [Generations -> JobT]
      /\ \A g \in Generations : \/ job'[g] = job[g]
                                \/ JobMay(job'[g]) /\ job[g].state # "none"
  <2>1. CASE job' = job
    BY <2>1, TypesAre DEF TInv
  <2>2. ASSUME NEW g \in Generations, NEW j, JobMay(j), job[g].state # "none",
               job' = [job EXCEPT ![g] = j]
        PROVE  /\ job' \in [Generations -> JobT]
               /\ \A h \in Generations : \/ job'[h] = job[h]
                                         \/ JobMay(job'[h]) /\ job[h].state # "none"
    BY <2>2, TypesAre DEF TInv, JobMay
  <2> QED
    BY <2>1, <2>2 DEF JobsMove
<1>3. TypeOK'
  BY <1>1, <1>2, TypesAre DEF TInv, TypeOK, RowT, JobT, IndexerT
<1>4. \A g \in Generations : JobOK(g)'
  BY <1>2 DEF TInv, JobOK, JobMay
<1>5. EnqueueOK'
  <2>1. \A c \in Requests : Awaits(c, "enqueue") => request[c].generation \in Generations
    BY TypesAre DEF TInv, EnqueueOK, Queueing, Generations, RequestT, RowT
  <2> QED
    BY <1>2, <2>1 DEF TInv, EnqueueOK, Queueing, Awaits, JobMay
<1>6. Openings' = Openings
  BY DEF Openings
<1> QED
  BY <1>1, <1>3, <1>4, <1>5, <1>6 DEF TInv, LocalsOK

\* An indexer and what it holds.
LEMMA Holding ==
  ASSUME TInv, NEW w \in Indexers
  PROVE  /\ indexer[w] \in IndexerT /\ LocalsOK(indexer[w]) /\ row \in RowT
         /\ job \in [Generations -> JobT] /\ chunks \subseteq Chunk
         /\ row.requested \in Nat /\ credential \in Credentials /\ head \in Nat
         /\ ~At(w, "idle") => Gen(w) \in Generations
         /\ ~At(w, "idle") /\ Holds(w) =>
              /\ JobMay(job[Gen(w)]) /\ job[Gen(w)].state = "active"
              /\ job[Gen(w)].failures <= 1 /\ job[Gen(w)].stalls <= 1
<1>1. /\ indexer[w] \in IndexerT /\ LocalsOK(indexer[w]) /\ row \in RowT
      /\ job \in [Generations -> JobT] /\ chunks \subseteq Chunk /\ credential \in Credentials
      /\ head \in Nat
  BY TypesAre DEF TInv
<1>2. ~At(w, "idle") => Gen(w) \in Generations
  BY <1>1 DEF LocalsOK, At, Gen
<1>3. w # 0
  BY IndexersAssumption
<1>4. ~At(w, "idle") /\ Holds(w) => JobMay(job[Gen(w)]) /\ job[Gen(w)].state = "active"
  BY <1>2, <1>3 DEF TInv, JobOK, Holds, JobMay
<1> QED
  BY <1>1, <1>2, <1>4 DEF JobMay, RowT

LEMMA JobLeaves ==
  ASSUME NEW j \in JobT, j.failures <= 1, j.stalls <= 1
  PROVE  /\ JobMay(Leave(j, "done"))
         /\ JobMay([Leave(j, IF j.failures = 0 THEN "waiting" ELSE "done") EXCEPT !.failures = @ + 1])
         /\ JobMay(Stalls(j))
<1>1. JobMay(Leave(j, "done"))
  BY DEF JobMay, JobT, Leave
<1>2. ASSUME NEW s \in {"waiting", "done"}, s = "waiting" => j.failures = 0
      PROVE  JobMay([Leave(j, s) EXCEPT !.failures = @ + 1])
  <2> DEFINE x == [Leave(j, s) EXCEPT !.failures = @ + 1]
  <2> SUFFICES JobMay(x)
    OBVIOUS
  <2>1. /\ x = [j EXCEPT !.state = s, !.slot = 0, !.failures = j.failures + 1]
        /\ j.failures + 1 \in 0 .. 2
    BY DEF JobT, Leave
  <2>2. x \in JobT /\ x.state = s /\ x.slot = 0 /\ x.failures = j.failures + 1 /\ x.stalls = j.stalls
    BY <2>1 DEF JobT
  <2>3. s = "waiting" => j.failures + 1 <= 1
    BY <1>2
  <2> HIDE DEF x
  <2> QED
    BY <1>2, <2>2, <2>3 DEF JobMay
<1>3. ASSUME NEW s \in {"waiting", "done"}, s = "waiting" => j.stalls = 0
      PROVE  JobMay([Leave(j, s) EXCEPT !.stalls = @ + 1])
  <2> DEFINE x == [Leave(j, s) EXCEPT !.stalls = @ + 1]
  <2> SUFFICES JobMay(x)
    OBVIOUS
  <2>1. /\ x = [j EXCEPT !.state = s, !.slot = 0, !.stalls = j.stalls + 1]
        /\ j.stalls + 1 \in 0 .. 2
    BY DEF JobT, Leave
  <2>2. x \in JobT /\ x.state = s /\ x.slot = 0 /\ x.failures = j.failures /\ x.stalls = j.stalls + 1
    BY <2>1 DEF JobT
  <2>3. s = "waiting" => j.stalls + 1 <= 1
    BY <1>3
  <2> HIDE DEF x
  <2> QED
    BY <1>3, <2>2, <2>3 DEF JobMay
<1> QED
  BY <1>1, <1>2, <1>3 DEF Stalls

\* An indexer that ends what it does with its job.
LEMMA Settled ==
  ASSUME TInv, NEW w \in Indexers, ~At(w, "idle"),
         Returns(w) \/ Throws(w) \/ Settle(w, Stalls(job[Gen(w)]))
  PROVE  Runs(w, IdleIndexer) /\ JobsMove
<1> DEFINE g == Gen(w)
<1>1. g \in Generations /\ job[g] \in JobT
  BY Holding
<1>2. PICK j : /\ Settle(w, j)
               /\ Holds(w) => JobMay(j)
  BY <1>1, Holding, JobLeaves DEF Returns, Throws
<1>3. Holds(w) => job[g].state # "none"
  BY Holding
<1> QED
  BY <1>1, <1>2, <1>3 DEF Settle, JobsMove

LEMMA StatementSet ==
  ASSUME NEW k, LocalsOK(k), k.pc # "idle",
         NEW pc \in {"head", "insert", "activate", "commit", "purge", "cleanup", "fail"},
         pc = "head" => k.pc = "claim", pc = "insert" => k.pc = "save",
         pc = "fail" => k.outcome # "STALE",
         NEW outcome \in {"STALE", "FAILED", "BLOCKED"}, pc = "fail" => outcome # "STALE"
  PROVE  /\ LocalsOK([k EXCEPT !.pc = pc])
         /\ LocalsOK([k EXCEPT !.pc = pc, !.outcome = outcome])
BY DEF LocalsOK, IndexerT

LEMMA DeliverTyped ==
  ASSUME TInv, NEW w \in Indexers, NEW g \in Generations, Deliver(w, g)
  PROVE  TInv'
<1>1. UNCHANGED <<row, chunks, credential, head, asked, request>> /\ happened' = happened
  BY DEF Deliver, Quiet
<1>2. /\ row \in RowT /\ job[g] \in JobT /\ JobMay(job[g]) /\ job[g].state = "waiting"
      /\ credential \in Credentials /\ g \in 0 .. MaxGeneration /\ w # 0
  <2>1. job[g].state = "waiting"
    BY DEF Deliver
  <2>2. JobMay(job[g])
    BY <2>1 DEF TInv, JobOK
  <2>3. g \in 0 .. MaxGeneration /\ w # 0
    BY IndexersAssumption, BoundsAssumption DEF Generations
  <2> QED
    BY <2>1, <2>2, <2>3, Holding DEF JobMay
<1>3. JobsMove
  <2>1. job' = [job EXCEPT ![g] = [job[g] EXCEPT !.state = "active", !.slot = w]]
        \/ job' = [job EXCEPT ![g] = [job[g] EXCEPT !.state = "done"]]
    BY Holding DEF Deliver
  <2>2. JobMay([job[g] EXCEPT !.state = "active", !.slot = w])
    BY <1>2 DEF JobMay, JobT
  <2>3. JobMay([job[g] EXCEPT !.state = "done"])
    BY <1>2 DEF JobMay, JobT
  <2> QED
    BY <1>2, <2>1, <2>2, <2>3 DEF JobsMove
<1>4. PICK k \in {IdleIndexer, [IdleIndexer EXCEPT !.pc = "block", !.generation = g], Load(g)} :
        Runs(w, k)
  BY DEF Deliver
<1>5. LocalsOK(k)
  <2>1. IdleIndexer \in IndexerT /\ IdleIndexer.batch = 0
    BY IdleLocals DEF LocalsOK, IdleIndexer
  <2>2. LocalsOK([IdleIndexer EXCEPT !.pc = "block", !.generation = g])
    BY <1>2, <2>1 DEF LocalsOK, IndexerT
  <2>3. LocalsOK(Load(g))
    BY <1>2, <2>1 DEF LocalsOK, IndexerT, Load, RowT
  <2> QED
    BY <2>2, <2>3, IdleLocals
<1> QED
  BY <1>1, <1>2, <1>3, <1>4, <1>5, IndexerTyped, Holding DEF TInv, TypeOK

\* READY is filed with what the indexer has carried.
LEMMA ReadyTyped ==
  ASSUME TInv, NEW w \in Indexers, ~At(w, "idle")
  PROVE  /\ Ready(indexer[w]) \in RowT /\ Ready(indexer[w]).requested = row.requested
         /\ [Ready(indexer[w]) EXCEPT !.active = Gen(w)] \in RowT
         /\ [Ready(indexer[w]) EXCEPT !.active = Gen(w)].requested = row.requested
<1>1. /\ indexer[w].head \in Nat /\ indexer[w].fingerprint \in Credentials
      /\ Gen(w) \in 0 .. MaxGeneration /\ row \in RowT
  BY Holding DEF IndexerT, Gen
<1> QED
  BY <1>1 DEF Ready, RowT

LEMMA IndexerStepTyped ==
  ASSUME TInv, NEW w \in Indexers,
         IndexerStep(w) \/ Breaks(w) \/ IndexerCrash(w)
  PROVE  TInv'
<1>1. UNCHANGED <<credential, head, asked, request>> /\ ~At(w, "idle")
      /\ happened' \subseteq Kinds
  <2>1. UNCHANGED <<credential, head, asked, request>> /\ ~At(w, "idle")
    BY DEF IndexerStep, Block, Claim, GetBranchHead, CompleteUnchanged, PrepareGeneration,
           SaveChunks, Insert, CheckActivation, Activate, Purge, CleanupGeneration, Fail, Breaks,
           IndexerCrash, At
  <2>2. Quiet \/ \E kind : Happens(kind)
    BY DEF IndexerStep, Block, Claim, GetBranchHead, CompleteUnchanged, PrepareGeneration,
           SaveChunks, Insert, CheckActivation, Activate, Purge, CleanupGeneration, Fail, Breaks,
           IndexerCrash
  <2> QED
    BY <2>1, <2>2, HappensTypes DEF TInv
<1> DEFINE k == indexer[w]
<1>2. /\ k \in IndexerT /\ LocalsOK(k) /\ k.pc # "idle" /\ row \in RowT /\ chunks \subseteq Chunk
      /\ head \in Nat /\ Gen(w) \in Generations
  BY <1>1, Holding DEF At
<1>3. row' \in RowT /\ row'.requested = row.requested
  <2>1. \/ \E s \in {"INDEXING", "BLOCKED"} : row' = [row EXCEPT !.status = s]
        \/ row' = [row EXCEPT !.status = k.outcome] /\ k.pc = "fail"
        \/ row' = row \/ row' = Ready(k) \/ row' = [Ready(k) EXCEPT !.active = Gen(w)]
    <3>1. CASE Block(w) \/ Claim(w)
      BY <3>1 DEF Block, Claim
    <3>2. CASE Fail(w)
      BY <3>2 DEF Fail, Failed, At
    <3>3. CASE CompleteUnchanged(w) \/ Activate(w)
      BY <3>3 DEF CompleteUnchanged, Activate, Gen
    <3>4. CASE \/ GetBranchHead(w) \/ PrepareGeneration(w) \/ SaveChunks(w) \/ Insert(w)
               \/ CheckActivation(w) \/ Purge(w) \/ CleanupGeneration(w) \/ Breaks(w)
               \/ IndexerCrash(w)
      BY <3>4 DEF GetBranchHead, PrepareGeneration, SaveChunks, Insert, CheckActivation, Purge,
                  CleanupGeneration, Breaks, IndexerCrash
    <3> QED
      BY <3>1, <3>2, <3>3, <3>4 DEF IndexerStep
  <2>2. ASSUME NEW s \in {"INDEXING", "FAILED", "BLOCKED"}
        PROVE  /\ [row EXCEPT !.status = s] \in RowT
               /\ [row EXCEPT !.status = s].requested = row.requested
    BY <1>2 DEF RowT
  <2>3. k.pc = "fail" => k.outcome \in {"FAILED", "BLOCKED"}
    BY <1>2 DEF LocalsOK, IndexerT
  <2> QED
    BY <1>1, <1>2, <2>1, <2>2, <2>3, ReadyTyped
<1>4. chunks' \subseteq Chunk
  <2>1. CASE Insert(w)
    <3>1. k.batch + 1 \in 1 .. Batches
      BY <1>2, <2>1, BoundsAssumption DEF Insert, At, LocalsOK, IndexerT
    <3>2. k.head \in Nat /\ k.fingerprint \in Credentials /\ k.generation \in Generations
      BY <1>2 DEF IndexerT, Gen
    <3> QED
      BY <1>2, <2>1, <3>1, <3>2 DEF Insert, Chunk
  <2>2. CASE ~Insert(w)
    <3>1. chunks' \subseteq chunks
      BY <2>2 DEF IndexerStep, Block, Claim, GetBranchHead, CompleteUnchanged, PrepareGeneration,
             SaveChunks, CheckActivation, Activate, Purge, CleanupGeneration, Fail, Breaks,
             IndexerCrash, Kept, Of
    <3> QED
      BY <1>2, <3>1
  <2> QED
    BY <2>1, <2>2
<1>5. JobsMove /\ \E j : LocalsOK(j) /\ Runs(w, j)
  <2>1. CASE Runs(w, IdleIndexer) /\ JobsMove
    BY <2>1, IdleLocals
  <2>2. CASE \E pc \in {"insert", "activate", "commit", "purge", "cleanup", "fail"} :
               \E outcome \in {"STALE", "FAILED", "BLOCKED"} :
                 /\ pc = "insert" => k.pc = "save"
                 /\ pc = "fail" => k.outcome # "STALE" /\ outcome # "STALE"
                 /\ Runs(w, [k EXCEPT !.pc = pc, !.outcome = outcome]) \/ To(w, pc)
                 /\ job' = job
    BY <1>2, <2>2, StatementSet DEF To, JobsMove
  <2>3. CASE Block(w) \/ Fail(w) \/ Purge(w) \/ IndexerCrash(w)
    BY <1>1, <2>1, <2>3, Settled DEF Block, Fail, Purge, IndexerCrash
  <2>4. CASE Breaks(w)
    BY <2>2, <2>4 DEF Breaks
  <2>5. CASE Claim(w)
    <3>1. CASE To(w, "head") /\ job' = job
      BY <1>2, <2>5, <3>1, StatementSet DEF Claim, At, To, JobsMove
    <3> QED
      BY <1>1, <2>1, <2>5, <3>1, Settled DEF Claim
  <2>6. CASE GetBranchHead(w)
    <3>1. CASE Abandon(w)
      BY <2>2, <2>6, <3>1 DEF GetBranchHead, Abandon
    <3>2. CASE ~Abandon(w)
      <4>1. PICK pc \in {"unchanged", "prepare"} :
              Runs(w, [k EXCEPT !.pc = pc, !.head = head, !.commit = 0, !.indexed = 0])
        BY <2>6, <3>2 DEF GetBranchHead
      <4>2. k.batch = 0 /\ 0 \in Credentials
        BY <1>2, <2>6, BoundsAssumption DEF GetBranchHead, At, LocalsOK, Credentials
      <4>3. LocalsOK([k EXCEPT !.pc = pc, !.head = head, !.commit = 0, !.indexed = 0])
        BY <1>2, <4>2 DEF LocalsOK, IndexerT
      <4> QED
        BY <2>6, <4>1, <4>3 DEF GetBranchHead, JobsMove
    <3> QED
      BY <3>1, <3>2
  <2>7. CASE CompleteUnchanged(w)
    <3>1. CASE Abandon(w) /\ job' = job
      BY <2>2, <3>1 DEF Abandon
    <3> QED
      BY <1>1, <2>1, <2>7, <3>1, Settled DEF CompleteUnchanged
  <2>8. CASE PrepareGeneration(w)
    <3>1. CASE Abandon(w)
      BY <2>2, <2>8, <3>1 DEF PrepareGeneration, Abandon
    <3>2. CASE To(w, "save")
      <4>1. k.batch = 0 /\ 0 < Batches
        BY <1>2, <2>8, BoundsAssumption DEF PrepareGeneration, At, LocalsOK
      <4>2. LocalsOK([k EXCEPT !.pc = "save"])
        BY <1>2, <4>1 DEF LocalsOK, IndexerT
      <4> QED
        BY <2>8, <3>2, <4>2 DEF PrepareGeneration, To, JobsMove
    <3> QED
      BY <2>8, <3>1, <3>2 DEF PrepareGeneration
  <2>9. CASE SaveChunks(w)
    BY <2>2, <2>9 DEF SaveChunks, Abandon, At
  <2>10. CASE Insert(w)
    <3> DEFINE n == k.batch + 1
               pc == IF n = Batches THEN "activate" ELSE "save"
    <3>1. Runs(w, [k EXCEPT !.pc = pc, !.batch = n])
      BY <2>10 DEF Insert
    <3>2. n \in 0 .. Batches /\ (pc = "save" => n < Batches) /\ pc \in {"activate", "save"}
      BY <1>2, <2>10, BoundsAssumption DEF Insert, At, LocalsOK, IndexerT
    <3> HIDE DEF n, pc
    <3>3. LocalsOK([k EXCEPT !.pc = pc, !.batch = n])
      BY <1>2, <3>2 DEF LocalsOK, IndexerT
    <3> QED
      BY <2>10, <3>1, <3>3 DEF Insert, JobsMove
  <2>11. CASE CheckActivation(w)
    BY <2>2, <2>11 DEF CheckActivation, Abandon
  <2>12. CASE Activate(w)
    BY <2>2, <2>12 DEF Activate, Abandon
  <2>13. CASE CleanupGeneration(w)
    <3>1. CASE To(w, "fail") /\ job' = job /\ k.outcome # "STALE"
      BY <2>2, <3>1
    <3> QED
      BY <1>1, <2>1, <2>13, <3>1, Settled DEF CleanupGeneration
  <2> QED
    BY <2>3, <2>4, <2>5, <2>6, <2>7, <2>8, <2>9, <2>10, <2>11, <2>12, <2>13 DEF IndexerStep
<1> QED
  BY <1>1, <1>3, <1>4, <1>5, IndexerTyped

LEMMA StallTyped ==
  ASSUME TInv, NEW w \in Indexers, Stall(w)
  PROVE  TInv'
<1>1. ~At(w, "idle") /\ Holds(w) /\ happened' \subseteq Kinds
      /\ UNCHANGED <<row, chunks, credential, head, asked, request, indexer>>
  BY HappensTypes DEF Stall, TInv
<1>2. JobMay(Stalls(job[Gen(w)])) /\ Gen(w) \in Generations /\ job[Gen(w)].state # "none"
  BY <1>1, Holding, JobLeaves DEF JobMay
<1>3. JobsMove
  BY <1>2 DEF Stall, JobsMove
<1>4. Runs(w, indexer[w]) /\ LocalsOK(indexer[w])
  BY <1>1, Holding, TypesAre DEF Runs, TInv
<1> QED
  BY <1>1, <1>3, <1>4, IndexerTyped, Holding

LEMMA InitiallyTyped ==
  ASSUME Init
  PROVE  TInv
<1>1. /\ 0 \in 0 .. MaxGeneration /\ 0 \in Credentials /\ 0 .. 1 \subseteq Credentials
      /\ MaxGeneration \in Nat
  BY BoundsAssumption DEF Credentials
<1>2. TypeOK
  BY <1>1, IdleLocals, TypesAre DEF Init, RowT, JobT, LocalsOK
<1>3. Openings = {}
  BY DEF Init, Openings, Opening, IdleRequest
<1>4. \A g \in Generations : JobOK(g)
  BY DEF Init, JobOK
<1>5. EnqueueOK
  BY DEF Init, EnqueueOK, Awaits, IdleRequest
<1>6. Cardinality(Openings) = 0
  BY <1>3, FS_EmptySet
<1> QED
  BY <1>1, <1>2, <1>4, <1>5, <1>6, IdleLocals DEF Init, TInv

LEMMA StepTyped ==
  ASSUME TInv, [Next]_vars
  PROVE  TInv'
<1>1. CASE UNCHANGED vars
  <2>1. row \in RowT /\ credential \in Credentials /\ head \in Nat /\ asked \in Nat
        /\ happened \subseteq Kinds
    BY TypesAre DEF TInv
  <2> QED
    BY <1>1, <2>1, OthersTyped DEF vars
<1>2. ASSUME NEW c \in Requests,
             RequestStep(c) \/ Request(c) \/ EnqueueFails(c)
               \/ LoopAborts(c) \/ ApiCrash(c) \/ EditCredential(c)
      PROVE  TInv'
  BY <1>2, EnqueueTyped, UpsertTyped, RequestStepTyped DEF RequestStep
<1>3. ASSUME NEW w \in Indexers, IndexerStep(w) \/ Breaks(w) \/ IndexerCrash(w) \/ Stall(w)
      PROVE  TInv'
  BY <1>3, IndexerStepTyped, StallTyped
<1>4. ASSUME NEW w \in Indexers, NEW g \in Generations, Deliver(w, g)
      PROVE  TInv'
  BY <1>4, DeliverTyped
<1> QED
  BY <1>1, <1>2, <1>3, <1>4, OutsideTyped DEF Next

-----------------------------------------------------------------------------
(* The embedding.  An index that is READY, or about to be, was embedded    *)
(* with the active credential, unless a request is about to supersede it.  *)

\* Statements at which an indexer has a credential to embed with.
Embedding == {"claim", "head", "unchanged", "prepare", "save", "insert", "activate", "commit"}

\* A request that will open a generation.
Superseding == \E c \in Requests : request[c].pc \in {"embedding", "upsert"}

\* An edit that is under way when the credential has been removed compares
\* with the removed one.
Fresh(fingerprint) ==
  \/ fingerprint = credential
  \/ credential = 0 /\ \A c \in Requests : Awaits(c, "edit") => request[c].seen \in {0, fingerprint}
  \/ Superseding

EditsOK ==
  /\ \A c \in Requests : Awaits(c, "edit") =>
       "edit" \in happened /\ (request[c].seen = credential \/ credential = 0)
  /\ \A c, d \in Requests : Awaits(c, "edit") /\ Awaits(d, "edit") => c = d

\* The same of the indexer's locals k.
FreshAtCommit(k) ==
  /\ k.pc \in Embedding => k.fingerprint # 0
  /\ ~Unrequested /\ k.pc = "commit" /\ Current(k.generation) => Fresh(k.fingerprint)

RInv ==
  /\ EditsOK
  /\ \A w \in Indexers : FreshAtCommit(indexer[w])
  /\ row.status = "READY" => /\ row.fingerprint # 0
                             /\ ~Unrequested => Fresh(row.fingerprint)

LEMMA RemembersHappened ==
  ASSUME Quiet \/ \E kind : Happens(kind)
  PROVE  happened \subseteq happened'
BY DEF Quiet, Happens

\* A step that starts no edit and leaves the credential alone.
LEMMA FreshKept ==
  ASSUME RInv, credential' = credential, happened \subseteq happened',
         \A c \in Requests : Awaits(c, "edit")' => Awaits(c, "edit") /\ request'[c] = request[c],
         ~Unrequested' => (Superseding => Superseding')
  PROVE  EditsOK' /\ \A fp : ~Unrequested' /\ Fresh(fp) => Fresh(fp)'
<1>1. EditsOK'
  BY DEF RInv, EditsOK, Awaits
<1> QED
  BY <1>1 DEF Fresh, Awaits

\* What has not been requested is not requested later.
LEMMA StaysUnrequested ==
  ASSUME happened \subseteq happened'
  PROVE  Unrequested => Unrequested'
BY DEF Unrequested

LEMMA RequestFresh ==
  ASSUME TInv, RInv, NEW c \in Requests,
         Request(c) \/ ReadEmbedding(c) \/ EnqueueCodeIndex(c) \/ EnqueueFails(c)
           \/ QueueUnavailable(c) \/ LoopAborts(c) \/ ApiCrash(c)
  PROVE  RInv'
<1>1. /\ UNCHANGED <<credential, indexer>> /\ row'.requested = row.requested
      /\ row'.status = "READY" => row' = row
  <2>1. UNCHANGED <<credential, indexer>> /\ (row' = row \/ row' = [row EXCEPT !.status = "FAILED"])
    BY DEF Request, ReadEmbedding, EnqueueCodeIndex, EnqueueFails, QueueUnavailable,
           LoopAborts, ApiCrash
  <2> QED
    BY <2>1, TypesAre DEF TInv, RowT
<1>2. happened \subseteq happened'
  <2>1. Quiet \/ \E kind : Happens(kind)
    BY DEF Request, ReadEmbedding, EnqueueCodeIndex, EnqueueFails, QueueUnavailable,
           LoopAborts, ApiCrash
  <2> QED
    BY <2>1, RemembersHappened
<1>3. PICK k \in RequestT : /\ Goes(c, k) /\ k.pc # "edit"
                            /\ \/ Unrequested'
                               \/ request[c].pc \notin {"embedding", "upsert"}
                               \/ k.pc = "upsert"
  <2>1. request[c] \in RequestT /\ IdleRequest \in RequestT /\ IdleRequest.pc = "idle"
        /\ credential \in Credentials
    BY TypesAre, IdleLocals DEF TInv, IdleRequest
  <2>2. CASE Request(c)
    <3>1. PICK f \in BOOLEAN : Goes(c, [IdleRequest EXCEPT !.pc = "upsert", !.force = f,
                                                           !.seen = credential])
      BY <2>2 DEF Request
    <3> DEFINE k == [IdleRequest EXCEPT !.pc = "upsert", !.force = f, !.seen = credential]
    <3>2. k \in RequestT /\ k.pc = "upsert"
      BY <2>1 DEF RequestT
    <3> QED
      BY <3>1, <3>2
  <2>3. CASE ReadEmbedding(c)
    <3> DEFINE k == [request[c] EXCEPT !.pc = "upsert", !.seen = credential]
    <3>1. k \in RequestT /\ k.pc = "upsert"
      BY <2>1 DEF RequestT
    <3>2. Goes(c, k)
      BY <2>3 DEF ReadEmbedding
    <3> QED
      BY <3>1, <3>2
  <2>4. CASE EnqueueCodeIndex(c) \/ QueueUnavailable(c)
    BY <2>1, <2>4 DEF EnqueueCodeIndex, QueueUnavailable, Awaits
  <2>5. CASE EnqueueFails(c)
    <3>1. Goes(c, [request[c] EXCEPT !.pc = "unavailable"]) /\ request[c].pc = "enqueue"
      BY <2>5 DEF EnqueueFails, Awaits
    <3> QED
      BY <2>1, <3>1 DEF RequestT
  <2>6. CASE LoopAborts(c) \/ ApiCrash(c)
    BY <2>1, <2>6 DEF LoopAborts, ApiCrash, Happens, Unrequested
  <2> QED
    BY <2>2, <2>3, <2>4, <2>5, <2>6
<1>4. /\ request'[c] = k
      /\ \A d \in Requests \ {c} : request'[d] = request[d]
  BY <1>3, RequestGoes
<1>5. EditsOK' /\ \A fp : ~Unrequested' /\ Fresh(fp) => Fresh(fp)'
  <2>1. \A d \in Requests : Awaits(d, "edit")' => Awaits(d, "edit") /\ request'[d] = request[d]
    BY <1>3, <1>4 DEF Awaits
  <2>2. ~Unrequested' => (Superseding => Superseding')
    BY <1>3, <1>4 DEF Superseding
  <2> QED
    BY <1>1, <1>2, <2>1, <2>2, FreshKept
<1> QED
  BY <1>1, <1>2, <1>5, StaysUnrequested DEF RInv, FreshAtCommit, Current

LEMMA UpsertFresh ==
  ASSUME TInv, IInv, RInv, NEW c \in Requests, Upsert(c)
  PROVE  RInv'
<1>1. /\ UNCHANGED <<credential, indexer, happened>> /\ row'.status # "READY"
      /\ row'.requested = row.requested + 1
  <2>1. row \in RowT
    BY TypesAre DEF TInv
  <2> QED
    BY <2>1 DEF Upsert, Quiet, RowT
<1>2. \A d \in Requests : Awaits(d, "edit")' => Awaits(d, "edit") /\ request'[d] = request[d]
  BY TypesAre DEF TInv, Upsert, Goes, Awaits, RequestT, IdleRequest
<1>3. EditsOK'
  BY <1>1, <1>2 DEF RInv, EditsOK, Awaits
<1>4. \A w \in Indexers : ~Current(indexer[w].generation)'
  <2> SUFFICES ASSUME NEW w \in Indexers PROVE indexer[w].generation # row.requested + 1
    BY <1>1 DEF Current
  <2> QED
    BY Carries DEF IndexerType
<1> QED
  BY <1>1, <1>3, <1>4 DEF RInv, FreshAtCommit

LEMMA EditFresh ==
  ASSUME TInv, RInv, NEW c \in Requests, EditCredential(c)
  PROVE  RInv'
<1> DEFINE k == [IdleRequest EXCEPT !.pc = "edit", !.seen = credential, !.force = TRUE]
<1>1. /\ UNCHANGED <<row, credential, indexer>> /\ happened \subseteq happened'
      /\ "edit" \notin happened /\ "edit" \in happened' /\ Awaits(c, "idle")
  BY DEF EditCredential, Happens
<1>2. k \in RequestT /\ k.pc = "edit" /\ k.seen = credential
  BY TypesAre, IdleLocals DEF TInv, RequestT
<1>3. request'[c] = k /\ \A d \in Requests \ {c} : request'[d] = request[d]
  BY <1>2, RequestGoes DEF EditCredential
<1> HIDE DEF k
<1>4. \A d \in Requests : Awaits(d, "edit")' <=> d = c
  BY <1>1, <1>2, <1>3 DEF RInv, EditsOK, Awaits
<1>5. EditsOK'
  BY <1>1, <1>2, <1>3, <1>4 DEF EditsOK
<1>6. \A fp : Fresh(fp) => Fresh(fp)'
  <2>1. Superseding => Superseding'
    BY <1>1, <1>3 DEF Superseding, Awaits
  <2> QED
    BY <1>1, <1>2, <1>3, <1>4, <2>1 DEF Fresh
<1> QED
  BY <1>1, <1>5, <1>6, StaysUnrequested DEF RInv, FreshAtCommit, Current

LEMMA WriteFresh ==
  ASSUME TInv, RInv, NEW c \in Requests, WriteCredential(c)
  PROVE  RInv'
<1>1. PICK f \in 1 .. MaxFingerprint :
        /\ credential' = f
        /\ Goes(c, IF Changed(request[c], f) THEN [request[c] EXCEPT !.pc = "embedding"]
                   ELSE IdleRequest)
  BY DEF WriteCredential
<1>2. UNCHANGED <<row, indexer, happened>> /\ Awaits(c, "edit") /\ request[c] \in RequestT
  BY TypesAre DEF WriteCredential, Quiet, TInv
<1>3. PICK k \in RequestT : /\ Goes(c, k) /\ k.pc # "edit"
                            /\ k.pc = "embedding" \/ request[c].seen = f
  <2>1. [request[c] EXCEPT !.pc = "embedding"] \in RequestT
        /\ [request[c] EXCEPT !.pc = "embedding"].pc = "embedding"
    BY <1>2 DEF RequestT
  <2>2. IdleRequest \in RequestT /\ IdleRequest.pc = "idle"
    BY IdleLocals DEF IdleRequest
  <2> QED
    BY <1>1, <2>1, <2>2 DEF Changed
<1>4. request'[c] = k /\ \A d \in Requests \ {c} : request'[d] = request[d]
  BY <1>3, RequestGoes
<1>5. \A d \in Requests : ~Awaits(d, "edit")'
  BY <1>2, <1>3, <1>4 DEF RInv, EditsOK, Awaits
<1>6. \A fp : fp # 0 /\ Fresh(fp) => Fresh(fp)'
  <2> SUFFICES ASSUME NEW fp, fp # 0, Fresh(fp) PROVE Fresh(fp)'
    OBVIOUS
  <2>1. CASE k.pc = "embedding"
    BY <1>4, <2>1 DEF Fresh, Superseding
  <2>2. CASE request[c].seen = f /\ fp = credential
    <3>1. f # 0
      OBVIOUS
    <3>2. request[c].seen = credential \/ credential = 0
      BY <1>2 DEF RInv, EditsOK
    <3> QED
      BY <1>1, <2>2, <3>1, <3>2 DEF Fresh
  <2>3. CASE request[c].seen = f /\ request[c].seen \in {0, fp}
    <3>1. f # 0
      OBVIOUS
    <3> QED
      BY <1>1, <2>3, <3>1 DEF Fresh
  <2>4. CASE Superseding
    <3>1. Superseding'
      BY <1>2, <1>4, <2>4 DEF Superseding, Awaits
    <3> QED
      BY <3>1 DEF Fresh
  <2> QED
    BY <1>2, <1>3, <2>1, <2>2, <2>3, <2>4 DEF Fresh
<1> QED
  BY <1>2, <1>5, <1>6, StaysUnrequested DEF RInv, EditsOK, FreshAtCommit, Current, Embedding

LEMMA OutsideFresh ==
  ASSUME TInv, RInv, RemoveCredential \/ Push
  PROVE  RInv'
<1>1. UNCHANGED <<request, indexer>> /\ row'.requested = row.requested
  BY TypesAre DEF RemoveCredential, Push, TInv, RowT
<1>2. happened \subseteq happened'
  <2>1. Quiet \/ \E kind : Happens(kind)
    BY DEF RemoveCredential, Push
  <2> QED
    BY <2>1, RemembersHappened
<1>3. CASE Push
  <2>1. EditsOK' /\ \A fp : ~Unrequested' /\ Fresh(fp) => Fresh(fp)'
    BY <1>1, <1>2, <1>3, FreshKept DEF Push, Awaits, Superseding
  <2> QED
    BY <1>1, <1>2, <1>3, <2>1, StaysUnrequested DEF Push, RInv, FreshAtCommit, Current
<1>4. CASE RemoveCredential
  <2>1. credential' = 0 /\ credential # 0 /\ row'.status # "READY"
    BY <1>4, TypesAre DEF RemoveCredential, TInv, RowT
  <2>2. EditsOK'
    BY <1>1, <1>2, <2>1 DEF RInv, EditsOK, Awaits
  <2>3. \A fp : Fresh(fp) => Fresh(fp)'
    <3>1. Superseding' <=> Superseding
      BY <1>1 DEF Superseding
    <3>2. \A c \in Requests : Awaits(c, "edit") => request[c].seen = credential
      BY <2>1 DEF RInv, EditsOK
    <3> QED
      BY <1>1, <2>1, <3>1, <3>2 DEF Fresh, Awaits
  <2> QED
    BY <1>1, <1>2, <2>1, <2>2, <2>3, StaysUnrequested DEF RInv, FreshAtCommit, Current
<1> QED
  BY <1>3, <1>4

LEMMA IndexerFresh ==
  ASSUME TInv, RInv, NEW w \in Indexers, NEW k \in IndexerT, Runs(w, k),
         UNCHANGED <<credential, request>>, row'.requested = row.requested,
         happened \subseteq happened', FreshAtCommit(k),
         row'.status = "READY" =>
           \/ row.status = "READY" /\ row'.fingerprint = row.fingerprint
           \/ /\ row'.fingerprint # 0
              /\ ~Unrequested => Fresh(row'.fingerprint)
  PROVE  RInv'
<1>1. \A v \in Indexers : indexer'[v] = IF v = w THEN k ELSE indexer[v]
  BY TypesAre DEF TInv, Runs
<1>2. EditsOK' /\ \A fp : ~Unrequested' /\ Fresh(fp) => Fresh(fp)'
  BY FreshKept DEF Awaits, Superseding
<1>3. ASSUME NEW v \in Indexers PROVE FreshAtCommit(indexer[v])'
  <2>1. FreshAtCommit(indexer'[v])
    BY <1>1 DEF RInv
  <2> QED
    BY <1>2, <2>1, StaysUnrequested DEF FreshAtCommit, Current
<1>4. ASSUME NEW fp, row'.fingerprint = fp, row'.status = "READY"
      PROVE  fp # 0 /\ (~Unrequested' => Fresh(fp)')
  BY <1>2, <1>4, StaysUnrequested DEF RInv
<1>5. (row.status = "READY" => /\ row.fingerprint # 0
                               /\ ~Unrequested => Fresh(row.fingerprint))'
  BY <1>4 DEF Fresh
<1> QED
  BY <1>2, <1>3, <1>5 DEF RInv

\* What a step of the indexer that only moves on does to its locals.
LEMMA Moves ==
  ASSUME NEW w \in Indexers, indexer[w] \in IndexerT,
         NEW pc \in {"head", "save", "insert", "commit", "purge", "cleanup", "fail"}, To(w, pc)
  PROVE  \E j \in IndexerT : /\ Runs(w, j) /\ j.pc = pc
                             /\ j.fingerprint = indexer[w].fingerprint
<1> DEFINE j == [indexer[w] EXCEPT !.pc = pc]
<1>1. Runs(w, j)
  BY DEF To
<1>2. j \in IndexerT /\ j.pc = pc /\ j.fingerprint = indexer[w].fingerprint
  BY DEF IndexerT
<1> HIDE DEF j
<1> QED
  BY <1>1, <1>2

LEMMA MovesWithOutcome ==
  ASSUME NEW w \in Indexers, indexer[w] \in IndexerT, NEW pc \in {"cleanup", "fail"},
         NEW o \in {"STALE", "FAILED", "BLOCKED"},
         Runs(w, [indexer[w] EXCEPT !.pc = pc, !.outcome = o])
  PROVE  \E j \in IndexerT : Runs(w, j) /\ j.pc = pc
<1> DEFINE j == [indexer[w] EXCEPT !.pc = pc, !.outcome = o]
<1>1. Runs(w, j)
  OBVIOUS
<1>2. j \in IndexerT /\ j.pc = pc
  BY DEF IndexerT
<1> HIDE DEF j
<1> QED
  BY <1>1, <1>2

\* An indexer that goes on to a statement before the commit, or ends.
LEMMA IndexerGoesFresh ==
  ASSUME TInv, RInv, NEW w \in Indexers, NEW k \in IndexerT, Runs(w, k),
         UNCHANGED <<credential, request>>, row'.requested = row.requested,
         happened \subseteq happened', k.pc # "commit",
         k.pc \in Embedding => k.fingerprint = indexer[w].fingerprint /\ indexer[w].pc \in Embedding,
         row'.status = "READY" => row.status = "READY" /\ row'.fingerprint = row.fingerprint
  PROVE  RInv'
<1>1. FreshAtCommit(k)
  BY DEF RInv, FreshAtCommit
<1> QED
  BY <1>1, IndexerFresh

LEMMA DeliverFresh ==
  ASSUME TInv, RInv, NEW w \in Indexers, NEW g \in Generations, Deliver(w, g)
  PROVE  RInv'
<1>1. UNCHANGED <<row, credential, request, happened>>
  BY DEF Deliver, Quiet
<1>2. IdleIndexer \in IndexerT /\ credential \in Credentials /\ g \in 0 .. MaxGeneration
      /\ row \in RowT
  BY Holding, IdleLocals, BoundsAssumption DEF LocalsOK, Generations
<1>3. PICK k : /\ Runs(w, k)
               /\ \/ k = IdleIndexer
                  \/ k = [IdleIndexer EXCEPT !.pc = "block", !.generation = g]
                  \/ k = Load(g) /\ credential # 0
  BY DEF Deliver
<1>4. k \in IndexerT /\ FreshAtCommit(k)
  <2>1. CASE k = IdleIndexer
    BY <1>2, <2>1 DEF FreshAtCommit, IdleIndexer, Embedding
  <2>2. CASE k = [IdleIndexer EXCEPT !.pc = "block", !.generation = g]
    <3>1. k \in IndexerT /\ k.pc = "block"
      BY <1>2, <2>2 DEF IndexerT
    <3> QED
      BY <3>1 DEF FreshAtCommit, Embedding
  <2>3. CASE k = Load(g) /\ credential # 0
    <3>1. k \in IndexerT /\ k.pc = "claim" /\ k.fingerprint = credential
      BY <1>2, <2>3 DEF IndexerT, Load, RowT
    <3> QED
      BY <2>3, <3>1 DEF FreshAtCommit
  <2> QED
    BY <1>3, <2>1, <2>2, <2>3
<1> QED
  BY <1>1, <1>3, <1>4, IndexerFresh DEF RInv

LEMMA IndexerStepFresh ==
  ASSUME TInv, RInv, NEW w \in Indexers, IndexerStep(w) \/ Breaks(w) \/ IndexerCrash(w)
  PROVE  RInv'
<1> DEFINE k == indexer[w]
<1>1. /\ k \in IndexerT /\ row \in RowT /\ FreshAtCommit(k)
      /\ LocalsOK(k) /\ IdleIndexer \in IndexerT /\ head \in Nat
      /\ IdleIndexer.pc = "idle"
  BY Holding, IdleLocals DEF LocalsOK, IdleIndexer, RInv
<1>2. UNCHANGED <<credential, request>>
  BY DEF IndexerStep, Block, Claim, GetBranchHead, CompleteUnchanged, PrepareGeneration,
         SaveChunks, Insert, CheckActivation, Activate, Purge, CleanupGeneration, Fail, Breaks,
         IndexerCrash
<1>3. happened \subseteq happened'
  <2>1. Quiet \/ \E kind : Happens(kind)
    BY DEF IndexerStep, Block, Claim, GetBranchHead, CompleteUnchanged, PrepareGeneration,
           SaveChunks, Insert, CheckActivation, Activate, Purge, CleanupGeneration, Fail, Breaks,
           IndexerCrash
  <2> QED
    BY <2>1, RemembersHappened
<1>4. ASSUME NEW s \in {"INDEXING", "FAILED", "BLOCKED"}
      PROVE  /\ [row EXCEPT !.status = s].status = s
             /\ [row EXCEPT !.status = s].requested = row.requested
  BY <1>1 DEF RowT
<1>5. /\ Ready(k).fingerprint = k.fingerprint /\ Ready(k).requested = row.requested
      /\ [Ready(k) EXCEPT !.active = k.generation].fingerprint = k.fingerprint
      /\ [Ready(k) EXCEPT !.active = k.generation].requested = row.requested
  BY <1>1 DEF Ready, RowT
<1>6. CASE Runs(w, IdleIndexer)
           /\ \/ row' = row
              \/ \E s \in {"INDEXING", "FAILED", "BLOCKED"} : row' = [row EXCEPT !.status = s]
  BY <1>1, <1>2, <1>3, <1>4, <1>6, IndexerGoesFresh DEF Embedding
<1>7. CASE row' = row /\ \E pc \in {"cleanup", "fail"} : \E outcome \in {"STALE", "FAILED", "BLOCKED"} :
             Runs(w, [k EXCEPT !.pc = pc, !.outcome = outcome]) \/ To(w, pc)
  <2>1. PICK pc \in {"cleanup", "fail"} : \E outcome \in {"STALE", "FAILED", "BLOCKED"} :
             Runs(w, [k EXCEPT !.pc = pc, !.outcome = outcome]) \/ To(w, pc)
    BY <1>7
  <2>2. ASSUME To(w, pc)
        PROVE  \E j \in IndexerT : Runs(w, j) /\ j.pc = pc
    BY <1>1, <2>2, Moves
  <2>3. ASSUME NEW o \in {"STALE", "FAILED", "BLOCKED"},
               Runs(w, [k EXCEPT !.pc = pc, !.outcome = o])
        PROVE  \E j \in IndexerT : Runs(w, j) /\ j.pc = pc
    BY <1>1, <2>3, MovesWithOutcome
  <2>4. PICK j \in IndexerT : Runs(w, j) /\ j.pc = pc
    BY <2>1, <2>2, <2>3
  <2> QED
    BY <1>2, <1>3, <1>7, <2>4, IndexerGoesFresh DEF Embedding
<1>8. ASSUME k.pc \in Embedding, row' = row \/ row' = [row EXCEPT !.status = "INDEXING"],
             NEW j \in IndexerT, Runs(w, j), j.pc # "commit", j.fingerprint = k.fingerprint
      PROVE  RInv'
  BY <1>1, <1>2, <1>3, <1>4, <1>8, IndexerGoesFresh
<1>9. CASE Block(w) \/ Fail(w)
  <2>1. Runs(w, IdleIndexer)
    BY <1>9 DEF Block, Fail, Throws, Settle
  <2>2. \/ row' = row
        \/ \E s \in {"INDEXING", "FAILED", "BLOCKED"} : row' = [row EXCEPT !.status = s]
    <3>1. k.pc = "fail" => k.outcome \in {"FAILED", "BLOCKED"}
      BY <1>1 DEF LocalsOK, IndexerT
    <3> QED
      BY <1>9, <3>1 DEF Block, Fail, Failed, At
  <2> QED
    BY <1>6, <2>1, <2>2
<1>10. CASE Claim(w)
  <2>1. CASE To(w, "head") /\ row' = [row EXCEPT !.status = "INDEXING"]
    <3>1. PICK j \in IndexerT : Runs(w, j) /\ j.pc = "head" /\ j.fingerprint = k.fingerprint
      BY <1>1, <2>1, Moves
    <3>2. k.pc \in Embedding
      BY <1>10 DEF Claim, At, Embedding
    <3> QED
      BY <1>8, <2>1, <3>1, <3>2
  <2> QED
    BY <1>6, <1>10, <2>1 DEF Claim, Returns, Settle
<1>11. CASE GetBranchHead(w)
  <2>1. CASE Abandon(w)
    BY <1>7, <1>11, <2>1 DEF GetBranchHead, Abandon
  <2>2. CASE ~Abandon(w)
    <3>1. PICK pc \in {"unchanged", "prepare"} :
            Runs(w, [k EXCEPT !.pc = pc, !.head = head, !.commit = 0, !.indexed = 0])
      BY <1>11, <2>2 DEF GetBranchHead
    <3> DEFINE j == [k EXCEPT !.pc = pc, !.head = head, !.commit = 0, !.indexed = 0]
    <3>a. 0 \in Credentials /\ 0 \in Nat
      BY BoundsAssumption DEF Credentials
    <3>2. j \in IndexerT /\ j.pc = pc /\ j.fingerprint = k.fingerprint
      BY <1>1, <3>a DEF IndexerT
    <3>3. k.pc \in Embedding /\ row' = row
      BY <1>11 DEF GetBranchHead, At, Embedding
    <3> QED
      BY <1>8, <3>1, <3>2, <3>3
  <2> QED
    BY <2>1, <2>2
<1>12. CASE CompleteUnchanged(w)
  <2>1. CASE Abandon(w) /\ row' = row
    BY <1>7, <2>1 DEF Abandon
  <2>2. CASE credential = k.fingerprint /\ row' = Ready(k) /\ Returns(w)
    <3>1. k.fingerprint # 0
      BY <1>1, <1>12 DEF FreshAtCommit, CompleteUnchanged, At, Embedding
    <3>2. FreshAtCommit(IdleIndexer)
      BY <1>1 DEF FreshAtCommit, Embedding
    <3>3. Fresh(k.fingerprint)
      BY <2>2 DEF Fresh
    <3> QED
      BY <1>1, <1>2, <1>3, <1>5, <2>2, <3>1, <3>2, <3>3, IndexerFresh DEF Returns, Settle
  <2> QED
    BY <1>12, <2>1, <2>2 DEF CompleteUnchanged
<1>13. CASE PrepareGeneration(w) \/ SaveChunks(w)
  <2>1. CASE Abandon(w)
    BY <1>7, <1>13, <2>1 DEF PrepareGeneration, SaveChunks, Abandon
  <2>2. CASE \E pc \in {"save", "insert"} : To(w, pc)
    <3>1. PICK j \in IndexerT : Runs(w, j) /\ j.pc # "commit" /\ j.fingerprint = k.fingerprint
      BY <1>1, <2>2, Moves
    <3>2. k.pc \in Embedding /\ row' = row
      BY <1>13 DEF PrepareGeneration, SaveChunks, At, Embedding
    <3> QED
      BY <1>8, <3>1, <3>2
  <2> QED
    BY <1>13, <2>1, <2>2 DEF PrepareGeneration, SaveChunks
<1>14. CASE Insert(w)
  <2> DEFINE b == k.batch + 1
             pc == IF b = Batches THEN "activate" ELSE "save"
             j == [k EXCEPT !.pc = pc, !.batch = b]
  <2>1. b \in 0 .. Batches /\ k.pc \in Embedding /\ row' = row /\ Runs(w, j)
    BY <1>1, <1>14, BoundsAssumption DEF Insert, At, LocalsOK, IndexerT, Embedding
  <2>2. pc \in {"activate", "save"}
    OBVIOUS
  <2> HIDE DEF b, pc
  <2>3. j \in IndexerT /\ j.pc = pc /\ j.fingerprint = k.fingerprint
    BY <1>1, <2>1, <2>2 DEF IndexerT
  <2> QED
    BY <1>8, <2>1, <2>2, <2>3
<1>15. CASE CheckActivation(w)
  <2>1. CASE row' = row /\ \E o \in {"STALE", "FAILED"} : Runs(w, [k EXCEPT !.pc = "cleanup", !.outcome = o])
    BY <1>7, <2>1
  <2>2. CASE row' = row /\ credential = k.fingerprint /\ To(w, "commit")
    <3>1. PICK j \in IndexerT : Runs(w, j) /\ j.pc = "commit" /\ j.fingerprint = k.fingerprint
      BY <1>1, <2>2, Moves
    <3>2. k.fingerprint # 0
      BY <1>1, <1>15 DEF FreshAtCommit, CheckActivation, At, Embedding
    <3>3. FreshAtCommit(j)
      BY <2>2, <3>1, <3>2 DEF FreshAtCommit, Fresh
    <3> QED
      BY <1>2, <1>3, <2>2, <3>1, <3>3, IndexerFresh
  <2> QED
    BY <1>15, <2>1, <2>2 DEF CheckActivation, Abandon
<1>16. CASE Activate(w)
  <2>1. CASE Abandon(w) /\ row' = row
    BY <1>7, <2>1 DEF Abandon
  <2>2. CASE Current(k.generation) /\ row' = [Ready(k) EXCEPT !.active = k.generation]
    <3>1. k.fingerprint # 0 /\ (~Unrequested => Fresh(k.fingerprint))
      BY <1>1, <1>16, <2>2 DEF FreshAtCommit, Activate, At, Embedding
    <3>2. To(w, "purge") \/ Runs(w, [k EXCEPT !.pc = "cleanup", !.outcome = "FAILED"])
      BY <1>16, <2>2 DEF Activate
    <3>a. ASSUME To(w, "purge")
          PROVE  \E j \in IndexerT : Runs(w, j) /\ j.pc = "purge"
      BY <1>1, <3>a, Moves
    <3>b. ASSUME Runs(w, [k EXCEPT !.pc = "cleanup", !.outcome = "FAILED"])
          PROVE  \E j \in IndexerT : Runs(w, j) /\ j.pc = "cleanup"
      BY <1>1, <3>b, MovesWithOutcome
    <3>3. PICK j \in IndexerT : Runs(w, j) /\ j.pc \in {"purge", "cleanup"}
      BY <3>2, <3>a, <3>b
    <3>4. FreshAtCommit(j)
      BY <3>3 DEF FreshAtCommit, Embedding
    <3> QED
      BY <1>2, <1>3, <1>5, <2>2, <3>1, <3>3, <3>4, IndexerFresh
  <2> QED
    BY <1>16, <2>1, <2>2 DEF Activate
<1>17. CASE Purge(w) \/ IndexerCrash(w)
  BY <1>6, <1>17 DEF Purge, IndexerCrash, Returns, Settle
<1>18. CASE CleanupGeneration(w)
  BY <1>6, <1>7, <1>18 DEF CleanupGeneration, Returns, Settle
<1>19. CASE Breaks(w)
  BY <1>7, <1>19 DEF Breaks
<1> QED
  BY <1>9, <1>10, <1>11, <1>12, <1>13, <1>14, <1>15, <1>16, <1>17, <1>18, <1>19 DEF IndexerStep

LEMMA StallFresh ==
  ASSUME TInv, RInv, NEW w \in Indexers, Stall(w)
  PROVE  RInv'
<1>1. UNCHANGED <<row, credential, request, indexer>> /\ happened \subseteq happened'
  BY RemembersHappened DEF Stall
<1>2. Runs(w, indexer[w]) /\ FreshAtCommit(indexer[w]) /\ indexer[w] \in IndexerT
  BY <1>1, TypesAre DEF Runs, TInv, RInv
<1> QED
  BY <1>1, <1>2, IndexerFresh

LEMMA StepFresh ==
  ASSUME TInv, IInv, RInv, [Next]_vars
  PROVE  RInv'
<1>1. CASE UNCHANGED vars
  BY <1>1 DEF vars, RInv, EditsOK, FreshAtCommit, Fresh, Awaits, Superseding, Current,
              Unrequested
<1>2. ASSUME NEW c \in Requests,
             RequestStep(c) \/ Request(c) \/ EnqueueFails(c)
               \/ LoopAborts(c) \/ ApiCrash(c) \/ EditCredential(c)
      PROVE  RInv'
  BY <1>2, RequestFresh, UpsertFresh, EditFresh, WriteFresh DEF RequestStep
<1>3. ASSUME NEW w \in Indexers, IndexerStep(w) \/ Breaks(w) \/ IndexerCrash(w) \/ Stall(w)
      PROVE  RInv'
  BY <1>3, IndexerStepFresh, StallFresh
<1>4. ASSUME NEW w \in Indexers, NEW g \in Generations, Deliver(w, g)
      PROVE  RInv'
  BY <1>4, DeliverFresh
<1> QED
  BY <1>1, <1>2, <1>3, <1>4, OutsideFresh DEF Next

LEMMA InitiallyFresh ==
  ASSUME Init
  PROVE  RInv
BY DEF Init, RInv, EditsOK, FreshAtCommit, Awaits, IdleRequest, IdleIndexer, Embedding

-----------------------------------------------------------------------------
(* The theorems.                                                           *)

\* Types hold throughout, and no job is delivered after its second failure
\* or stall: what the queue is told of a generation is told by the one indexer
\* that holds its job, and each generation is queued at most once.
THEOREM IndexTypes == Spec => []TypeOK
<1>1. Init => TInv
  BY InitiallyTyped
<1>2. TInv /\ [Next]_vars => TInv'
  BY StepTyped
<1>3. TInv => TypeOK
  BY DEF TInv
<1> QED
  BY <1>1, <1>2, <1>3, PTL DEF Spec

\* After an edit of the credential has come to this branch's request, an index
\* that says READY was embedded with the active credential, unless the request
\* of another branch threw or an API process died before it.  An indexer that compared
\* before the edit is not the latest any more when it comes to file READY,
\* and a removed and restored credential is the one it embedded with, or one
\* that the edit takes for a change.
THEOREM EmbeddingIsCurrent == Spec => []Reembedded
<1>1. Init => TInv /\ IInv /\ RInv
  BY InitiallyTyped, Initially, InitiallyFresh
<1>2. TInv /\ IInv /\ RInv /\ [Next]_vars => TInv' /\ IInv' /\ RInv'
  BY StepTyped, Step, StepFresh DEF Preserved
<1>3. RInv => Reembedded
  <2> SUFFICES ASSUME RInv, row.status = "READY", credential # 0, ~Unrequested,
                      \A c \in Requests : Awaits(c, "idle")
               PROVE  row.fingerprint = credential
    BY DEF Reembedded
  <2>1. ~Superseding
    BY DEF Superseding, Awaits
  <2> QED
    BY <2>1 DEF RInv, Fresh
<1> QED
  BY <1>1, <1>2, <1>3, PTL DEF Spec

=============================================================================
