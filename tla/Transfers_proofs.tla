-------------------------- MODULE Transfers_proofs ---------------------------
(***************************************************************************)
(* The safety properties of Transfers for any number of organisations,     *)
(* users, requests, calls and edits.                                       *)
(*                                                                         *)
(* The argument: the index admits one pending request, an accept holds the *)
(* row of a pending request, so accepts exclude each other and no other    *)
(* call writes the row meanwhile.  What an accept read of the project thus *)
(* still holds at its commit, and what it read of the memberships holds    *)
(* for all users but those whose memberships were edited since.            *)
(***************************************************************************)
EXTENDS Transfers, TLAPS

RowType == [status: Statuses, from: Orgs, to: Orgs, plan: SUBSET Users]
LocalType == [pc: Steps, request: {{}} \cup {{q} : q \in Requests},
              from: Orgs, to: Orgs, users: SUBSET Users, owner: Users]

Shape == ProjectType /\ RequestType /\ CallType /\ staff \in [Orgs -> SUBSET Users]

\* The index: one request of the project is pending.
OneOpen == \A p, q \in Requests : Pending(p) /\ Pending(q) => p = q

\* What an accept with locals k knows of the request q it has claimed.
Knows(k, q) ==
  /\ Pending(q)
  /\ k.pc # "survey" => project.org = request[q].from
  /\ k.pc = "roster" => project.members \subseteq k.users \cup shifted
  /\ k.pc = "commit" =>
       (project.members \ k.users) \cup {k.owner} \subseteq staff[request[q].to] \cup shifted

Informed(k) ==
  k.pc \in Transaction => \E q \in Requests : k.request = {q} /\ Knows(k, q)

IInv ==
  /\ Shape /\ OneOpen /\ SoleAccept
  /\ \A c \in Calls : Informed(call[c])
  /\ moved \subseteq Requests /\ DecisionStands

Counts == lapsed \subseteq Requests /\ shifted \subseteq Users /\ edits \in 0 .. MaxEdits

-----------------------------------------------------------------------------
LEMMA IdleCall == NoCall \in LocalType /\ NoCall.pc = "idle"
BY OriginAssumption DEF NoCall, LocalType, Steps

LEMMA InitEstablishes == Init => IInv /\ Counts
<1> SUFFICES ASSUME Init PROVE IInv /\ Counts
  OBVIOUS
<1>1. Shape
  BY HomeAssumption, OriginAssumption, IdleCall
     DEF Init, Shape, ProjectType, RequestType, CallType, LocalType, NoRequest, Statuses
<1>2. \A c \in Calls : call[c].pc = "idle"
  BY IdleCall DEF Init
<1>3. \A q \in Requests : ~Pending(q)
  BY DEF Init, Pending, NoRequest
<1>4. SoleAccept /\ \A c \in Calls : Informed(call[c])
  BY <1>2 DEF SoleAccept, Accepting, Informed, Transaction
<1>5. Counts
  BY MaxEditsAssumption DEF Counts, Init
<1>6. moved \subseteq Requests /\ DecisionStands
  BY DEF Init, DecisionStands
<1> QED
  BY <1>1, <1>3, <1>4, <1>5, <1>6 DEF IInv, OneOpen

LEMMA Written ==
  ASSUME Shape, NEW c \in Calls, NEW k \in LocalType, Becomes(c, k)
  PROVE  /\ CallType'
         /\ \A d \in Calls : call'[d] = IF d = c THEN k ELSE call[d]
BY DEF Shape, CallType, LocalType, Becomes

\* A call writes its locals only.
LEMMA CallMoves ==
  ASSUME IInv, NEW c \in Calls, NEW k \in LocalType, Becomes(c, k),
         UNCHANGED <<project, staff, request, moved, shifted>>,
         Informed(k),
         k.pc \in Transaction => \A d \in Calls : Accepting(d) => d = c
  PROVE  IInv'
<1>1. CallType' /\ \A d \in Calls : call'[d] = IF d = c THEN k ELSE call[d]
  BY Written DEF IInv
<1>2. Shape' /\ OneOpen' /\ DecisionStands' /\ moved' \subseteq Requests
  BY <1>1 DEF IInv, Shape, ProjectType, RequestType, OneOpen, Pending, DecisionStands
<1>3. SoleAccept'
  BY <1>1 DEF IInv, SoleAccept, Accepting
<1>4. \A d \in Calls : Informed(call[d])'
  BY <1>1 DEF IInv, Informed, Knows, Pending
<1> QED
  BY <1>2, <1>3, <1>4 DEF IInv

\* A call that is not an accept writes a row nobody has claimed, and ends.
LEMMA RowMoves ==
  ASSUME IInv, NEW c \in Calls, NEW q \in Requests, NEW r \in RowType,
         call[c].pc \notin Transaction, ~Locked(q), Ends(c),
         request' = [request EXCEPT ![q] = r],
         UNCHANGED <<project, staff, moved, shifted>>,
         r.status = "PENDING" => \A p \in Requests : ~Pending(p),
         q \in moved => r.status = "EXPIRED"
  PROVE  IInv'
<1>1. /\ CallType'
      /\ \A d \in Calls : call'[d] = IF d = c THEN NoCall ELSE call[d]
  BY Written, IdleCall DEF IInv, Ends
<1>2. /\ RequestType'
      /\ \A p \in Requests : request'[p] = IF p = q THEN r ELSE request[p]
  BY DEF IInv, Shape, RequestType, RowType
<1>3. Shape'
  BY <1>1, <1>2 DEF IInv, Shape, ProjectType
<1>4. OneOpen'
  BY <1>2 DEF IInv, OneOpen, Pending
<1>5. \A d \in Calls : Accepting(d)' => d # c /\ Accepting(d) /\ call'[d] = call[d]
  BY <1>1, IdleCall DEF Accepting, Transaction
<1>6. SoleAccept'
  BY <1>5 DEF IInv, SoleAccept
<1>7. ASSUME NEW d \in Calls PROVE Informed(call[d])'
  <2> SUFFICES ASSUME Accepting(d)' PROVE Informed(call[d])'
    BY DEF Informed, Accepting
  <2>1. PICK p \in Requests : call[d].request = {p} /\ Knows(call[d], p)
    BY <1>5 DEF IInv, Informed, Accepting
  <2>2. p # q
    BY <1>5, <2>1 DEF Locked, Of
  <2>3. request'[p] = request[p]
    BY <1>2, <2>2
  <2> QED
    BY <1>5, <2>1, <2>3 DEF Informed, Knows, Pending
<1>8. moved' \subseteq Requests /\ DecisionStands'
  BY <1>2 DEF IInv, DecisionStands
<1> QED
  BY <1>3, <1>4, <1>6, <1>7, <1>8 DEF IInv

\* A call that has not claimed anything goes on, or any call ends.
LEMMA Elsewhere ==
  ASSUME IInv, NEW c \in Calls, NEW k \in LocalType, Becomes(c, k),
         UNCHANGED <<project, staff, request, moved, shifted>>,
         k.pc \notin Transaction
  PROVE  IInv'
BY CallMoves DEF Informed

LEMMA Ending ==
  ASSUME IInv, NEW c \in Calls, Ends(c),
         UNCHANGED <<project, staff, request, moved, shifted>>
  PROVE  IInv'
BY Elsewhere, IdleCall DEF Ends, Transaction

-----------------------------------------------------------------------------
\* Locals one call may have, given those it had.
LEMMA LocalTypes ==
  ASSUME IInv, NEW c \in Calls
  PROVE  /\ call[c] \in LocalType
         /\ call[c].users \subseteq Users /\ call[c].owner \in Users
         /\ project \in [org: Orgs, owner: Users, members: SUBSET Users, archived: BOOLEAN]
         /\ request \in [Requests -> RowType]
BY DEF IInv, Shape, CallType, LocalType, ProjectType, RequestType, RowType

LEMMA SendingKeeps ==
  ASSUME IInv, NEW c \in Calls,
         \/ \E to \in Orgs : Open(c, to)
         \/ Check(c) \/ Insert(c) \/ Fails(c)
         \/ \E q \in Requests : Withdraw(c, q)
  PROVE  IInv'
<1>1. CASE \E to \in Orgs : Open(c, to)
  <2>1. PICK to \in Orgs : Open(c, to)
    BY <1>1
  <2> DEFINE k == [NoCall EXCEPT !.pc = "check", !.from = project.org, !.to = to]
  <2>2. k \in LocalType /\ k.pc \notin Transaction
    BY IdleCall, LocalTypes DEF LocalType, Steps, Transaction, NoCall
  <2> QED
    BY <2>1, <2>2, Elsewhere DEF Open
<1>2. CASE Check(c)
  <2> DEFINE k == [call[c] EXCEPT !.pc = "insert",
                                  !.users = project.members \ staff[call[c].to]]
  <2>1. k \in LocalType /\ k.pc \notin Transaction
    BY LocalTypes DEF LocalType, Steps, Transaction
  <2> QED
    BY <1>2, <2>1, Elsewhere, Ending DEF Check
<1>3. CASE Insert(c)
  <2>1. CASE Admitted /\ request' # request
    <3> DEFINE r == [status |-> "PENDING", from |-> call[c].from, to |-> call[c].to,
                     plan |-> call[c].users]
    <3>1. r \in RowType /\ r.status = "PENDING"
      BY LocalTypes DEF LocalType, RowType, Statuses
    <3>2. PICK q \in Requests : /\ request[q].status = "NONE"
                               /\ request' = [request EXCEPT ![q] = r]
      BY <1>3, <2>1 DEF Insert
    <3>3. q \notin moved
      BY <3>2 DEF IInv, DecisionStands
    <3> HIDE DEF r
    <3> QED
      BY <1>3, <2>1, <3>1, <3>2, <3>3, RowMoves DEF Insert, Admitted, Transaction
  <2>2. CASE UNCHANGED request
    BY <1>3, <2>2, Ending DEF Insert
  <2> QED
    BY <1>3, <2>1, <2>2 DEF Insert
<1>4. CASE Fails(c)
  BY <1>4, Ending DEF Fails
<1>5. CASE \E q \in Requests : Withdraw(c, q)
  <2>1. PICK q \in Requests : Withdraw(c, q)
    BY <1>5
  <2> DEFINE k == [NoCall EXCEPT !.pc = "CANCELLED", !.request = {q}]
  <2>2. k \in LocalType /\ k.pc \notin Transaction
    BY IdleCall DEF LocalType, Steps, Transaction, NoCall
  <2> QED
    BY <2>1, <2>2, Elsewhere DEF Withdraw
<1> QED
  BY <1>1, <1>2, <1>3, <1>4, <1>5

LEMMA DecidingKeeps ==
  ASSUME IInv, NEW c \in Calls, NEW q \in Requests,
         \/ \E next \in {"REJECTED", "claim"} : LoadPending(c, q, next)
         \/ Decide(c, q) \/ Expire(c, q)
  PROVE  IInv'
<1>1. CASE \E next \in {"REJECTED", "claim"} : LoadPending(c, q, next)
  <2>1. PICK next \in {"REJECTED", "claim"} : LoadPending(c, q, next)
    BY <1>1
  <2>2. PICK pc \in {"REJECTED", "claim", "EXPIRED"} :
            Becomes(c, [NoCall EXCEPT !.pc = pc, !.request = {q}])
    BY <2>1 DEF LoadPending
  <2>3. /\ [NoCall EXCEPT !.pc = pc, !.request = {q}] \in LocalType
        /\ pc \notin Transaction
        /\ [NoCall EXCEPT !.pc = pc, !.request = {q}].pc = pc
    BY IdleCall DEF LocalType, Steps, Transaction, NoCall
  <2> QED
    BY <2>1, <2>2, <2>3, Elsewhere DEF LoadPending
<1>2. ASSUME Decide(c, q) \/ Expire(c, q),
             NEW status \in {"CANCELLED", "REJECTED", "EXPIRED"},
             Resolve(q, status), status # "EXPIRED" => Pending(q)
      PROVE  IInv'
  <2>1. PICK r \in RowType : /\ r.status = status
                            /\ request' = [request EXCEPT ![q] = r]
    <3>1. [request[q] EXCEPT !.status = status] \in RowType
      BY LocalTypes DEF RowType, Statuses
    <3>2. [request[q] EXCEPT !.status = status].status = status
      BY LocalTypes DEF RowType
    <3> QED
      BY <1>2, <3>1, <3>2 DEF Resolve
  <2>2. q \in moved => status = "EXPIRED"
    BY <1>2 DEF IInv, DecisionStands, Pending
  <2> QED
    BY <1>2, <2>1, <2>2, RowMoves DEF Decide, Expire, Transaction
<1>3. CASE Decide(c, q)
  BY <1>2, <1>3, Ending DEF Decide
<1>4. CASE Expire(c, q)
  BY <1>2, <1>4 DEF Expire
<1> QED
  BY <1>1, <1>3, <1>4

-----------------------------------------------------------------------------
\* A call that executes an accept is the only one, of the one open request.
LEMMA Executing ==
  ASSUME IInv, NEW c \in Calls, NEW q \in Requests, Accepting(c), Of(c, q)
  PROVE  /\ Knows(call[c], q)
         /\ \A d \in Calls : Accepting(d) => d = c
BY DEF IInv, Informed, Accepting, Of, SoleAccept

LEMMA ClaimKeeps ==
  ASSUME IInv, NEW c \in Calls, NEW q \in Requests, Claim(c, q)
  PROVE  IInv'
<1>1. CASE Pending(q) /\ Becomes(c, [call[c] EXCEPT !.pc = "survey"])
  <2> DEFINE k == [call[c] EXCEPT !.pc = "survey"]
  <2>1. k \in LocalType /\ k.pc = "survey" /\ k.request = {q}
    BY <1>1, LocalTypes DEF LocalType, Steps, Transaction, Claim, Of
  <2>2. ASSUME NEW d \in Calls, Accepting(d) PROVE FALSE
    <3>1. PICK p \in Requests : call[d].request = {p} /\ Pending(p)
      BY <2>2 DEF IInv, Informed, Accepting, Knows
    <3>2. p = q
      BY <1>1, <3>1 DEF IInv, OneOpen
    <3> QED
      BY <2>2, <3>1, <3>2 DEF Claim, Locked, Of
  <2>3. Informed(k)
    BY <1>1, <2>1 DEF Informed, Knows
  <2>4. Becomes(c, k)
    BY <1>1
  <2> HIDE DEF k
  <2> QED
    BY <2>1, <2>2, <2>3, <2>4, CallMoves DEF Claim
<1>2. CASE Ends(c)
  BY <1>2, Ending DEF Claim
<1> QED
  BY <1>1, <1>2 DEF Claim

LEMMA SurveyKeeps ==
  ASSUME IInv, NEW c \in Calls, NEW q \in Requests, Survey(c, q)
  PROVE  IInv'
<1>1. CASE project.org = request[q].from /\ Becomes(c, [call[c] EXCEPT !.pc = "members"])
  <2> DEFINE k == [call[c] EXCEPT !.pc = "members"]
  <2>1. k \in LocalType /\ k.pc = "members" /\ k.request = {q}
    BY LocalTypes DEF LocalType, Steps, Transaction, Survey, Of
  <2>2. Knows(call[c], q) /\ \A d \in Calls : Accepting(d) => d = c
    BY Executing DEF Survey, Accepting, Transaction
  <2>3. Informed(k)
    BY <1>1, <2>1, <2>2 DEF Informed, Knows
  <2>4. Becomes(c, k)
    BY <1>1
  <2> HIDE DEF k
  <2> QED
    BY <2>1, <2>2, <2>3, <2>4, CallMoves DEF Survey
<1>2. CASE Ends(c)
  BY <1>2, Ending DEF Survey
<1> QED
  BY <1>1, <1>2 DEF Survey

\* The members are read anew, and nothing has shifted since.
LEMMA MembersKeeps ==
  ASSUME IInv, NEW c \in Calls, Members(c)
  PROVE  IInv'
<1> DEFINE k == [call[c] EXCEPT !.pc = "roster", !.users = project.members]
<1>1. PICK q \in Requests : Of(c, q)
  BY DEF Members, IInv, Informed, Transaction, Of
<1>2. Knows(call[c], q) /\ \A d \in Calls : Accepting(d) => d = c
  BY <1>1, Executing DEF Members, Accepting, Transaction
<1>3. /\ k \in LocalType /\ k.pc = "roster" /\ k.request = {q}
      /\ k.users = project.members
  BY <1>1, LocalTypes DEF LocalType, Steps, Transaction, Of
<1>4. Becomes(c, k) /\ call[c].pc = "members"
  BY DEF Members
<1> HIDE DEF k
<1>5. CallType' /\ \A d \in Calls : call'[d] = IF d = c THEN k ELSE call[d]
  BY <1>3, <1>4, Written DEF IInv
<1>6. Shape' /\ OneOpen' /\ DecisionStands' /\ moved' \subseteq Requests
  BY <1>5 DEF Members, IInv, Shape, ProjectType, RequestType, OneOpen, Pending, DecisionStands
<1>7. SoleAccept'
  BY <1>2, <1>5 DEF SoleAccept, Accepting
<1>8. Informed(call[c])'
  BY <1>2, <1>3, <1>4, <1>5 DEF Members, Informed, Knows, Pending
<1>9. \A d \in Calls : d # c => Informed(call[d])'
  BY <1>2, <1>5 DEF Informed, Accepting
<1> QED
  BY <1>6, <1>7, <1>8, <1>9 DEF IInv

LEMMA RosterKeeps ==
  ASSUME IInv, NEW c \in Calls, NEW q \in Requests, Roster(c, q)
  PROVE  IInv'
<1>1. CASE \E n \in staff[request[q].to] :
             Becomes(c, [call[c] EXCEPT !.pc = "commit",
                                        !.users = @ \ staff[request[q].to], !.owner = n])
  <2>1. PICK n \in staff[request[q].to] :
          Becomes(c, [call[c] EXCEPT !.pc = "commit",
                                     !.users = @ \ staff[request[q].to], !.owner = n])
    BY <1>1
  <2> DEFINE k == [call[c] EXCEPT !.pc = "commit",
                                  !.users = @ \ staff[request[q].to], !.owner = n]
  <2>2. n \in Users
    BY LocalTypes DEF IInv, Shape, RowType
  <2>3. /\ k \in LocalType /\ k.pc = "commit" /\ k.request = {q} /\ k.owner = n
        /\ k.users = call[c].users \ staff[request[q].to]
    BY <2>2, LocalTypes DEF LocalType, Steps, Transaction, Roster, Of
  <2>4. Knows(call[c], q) /\ \A d \in Calls : Accepting(d) => d = c
    BY Executing DEF Roster, Accepting, Transaction
  <2>5. call[c].pc = "roster"
    BY DEF Roster
  <2>6. Informed(k)
    BY <2>3, <2>4, <2>5 DEF Informed, Knows
  <2>7. Becomes(c, k)
    BY <2>1
  <2> HIDE DEF k
  <2> QED
    BY <2>3, <2>4, <2>6, <2>7, CallMoves DEF Roster
<1>2. CASE Ends(c)
  BY <1>2, Ending DEF Roster
<1> QED
  BY <1>1, <1>2 DEF Roster

\* The commit writes the project of which the accept knows everything, and
\* leaves no request open and no accept at work.
LEMMA CommitKeeps ==
  ASSUME IInv, NEW c \in Calls, NEW q \in Requests, Commit(c, q)
  PROVE  IInv'
<1>1. Knows(call[c], q) /\ \A d \in Calls : Accepting(d) => d = c
  BY Executing DEF Commit, Accepting, Transaction
<1>2. CallType' /\ \A d \in Calls : call'[d] = IF d = c THEN NoCall ELSE call[d]
  BY Written, IdleCall DEF IInv, Commit, Ends
<1>3. PICK r \in RowType : /\ r.status = "ACCEPTED"
                          /\ request' = [request EXCEPT ![q] = r]
  <2>1. /\ [request[q] EXCEPT !.status = "ACCEPTED"] \in RowType
        /\ [request[q] EXCEPT !.status = "ACCEPTED"].status = "ACCEPTED"
    BY LocalTypes DEF RowType, Statuses
  <2> QED
    BY <2>1 DEF Commit, Resolve
<1>4. /\ RequestType'
      /\ \A p \in Requests : request'[p] = IF p = q THEN r ELSE request[p]
  BY <1>3 DEF IInv, Shape, RequestType, RowType
<1>5. ProjectType'
  BY LocalTypes DEF Commit, ProjectType, RowType
<1>6. Shape'
  BY <1>2, <1>4, <1>5 DEF IInv, Shape, Commit
<1>7. \A p \in Requests : ~Pending(p)'
  BY <1>1, <1>3, <1>4 DEF IInv, OneOpen, Knows, Pending
<1>8. \A d \in Calls : ~Accepting(d)'
  BY <1>1, <1>2, IdleCall DEF Accepting, Transaction
<1>9. moved' \subseteq Requests /\ DecisionStands'
  BY <1>3, <1>4 DEF IInv, DecisionStands, Commit
<1> QED
  BY <1>6, <1>7, <1>8, <1>9 DEF IInv, OneOpen, SoleAccept, Informed, Accepting

-----------------------------------------------------------------------------
\* An edit of u adds at most u to the members and removes at most u from an
\* organisation, and is noted while an accept has read either.
LEMMA EditKeeps ==
  ASSUME IInv, NEW u \in Users, Edit({u}), ProjectType', staff' \in [Orgs -> SUBSET Users],
         project'.org = project.org,
         project'.members \subseteq project.members \cup {u},
         \A o \in Orgs : staff[o] \subseteq staff'[o] \cup {u}
  PROVE  IInv'
<1>1. Shape' /\ OneOpen' /\ SoleAccept' /\ DecisionStands' /\ moved' \subseteq Requests
  BY DEF IInv, Shape, CallType, RequestType, OneOpen, Pending, SoleAccept, Accepting,
         DecisionStands, Edit
<1>2. ASSUME NEW c \in Calls PROVE Informed(call[c])'
  <2> SUFFICES ASSUME call[c].pc \in Transaction PROVE Informed(call[c])'
    BY DEF Informed, Edit
  <2>1. PICK q \in Requests : call[c].request = {q} /\ Knows(call[c], q)
    BY DEF IInv, Informed
  <2>2. request[q].to \in Orgs
    BY LocalTypes DEF RowType
  <2>3. call[c].pc \in {"roster", "commit"} => shifted' = shifted \cup {u}
    BY DEF Edit
  <2>4. Knows(call[c], q)'
    BY <2>1, <2>2, <2>3 DEF Knows, Pending, Edit
  <2> QED
    BY <2>1, <2>4 DEF Informed, Edit
<1> QED
  BY <1>1, <1>2 DEF IInv

LEMMA EditingKeeps == IInv /\ Editing => IInv'
<1> SUFFICES ASSUME IInv, Editing PROVE IInv'
  OBVIOUS
<1> USE DEF IInv, Shape, ProjectType
<1>1. ASSUME NEW u \in Users, AddMember(u) \/ RemoveMember(u) PROVE IInv'
  <2>1. /\ ProjectType' /\ project'.org = project.org
        /\ project'.members \subseteq project.members \cup {u}
    BY <1>1 DEF AddMember, RemoveMember
  <2> QED
    BY <1>1, <2>1, EditKeeps DEF AddMember, RemoveMember
<1>2. ASSUME NEW u \in Users, NEW o \in Orgs, JoinOrg(u, o) \/ LeaveOrg(u, o) PROVE IInv'
  <2>1. /\ staff' \in [Orgs -> SUBSET Users]
        /\ \A p \in Orgs : staff[p] \subseteq staff'[p] \cup {u}
    BY <1>2 DEF JoinOrg, LeaveOrg
  <2>2. /\ ProjectType' /\ project'.org = project.org
        /\ project'.members \subseteq project.members \cup {u}
    BY <1>2 DEF JoinOrg, LeaveOrg
  <2> QED
    BY <1>2, <2>1, <2>2, EditKeeps DEF JoinOrg, LeaveOrg
<1>3. ASSUME Archive PROVE IInv'
  <2>1. /\ ProjectType' /\ project'.org = project.org
        /\ project'.members = project.members
    BY <1>3 DEF Archive
  <2>2. \A c \in Calls : call[c].pc \in {"roster", "commit"} => shifted' = shifted
    BY <1>3 DEF Archive, Edit
  <2> QED
    BY <1>3, <2>1, <2>2
       DEF Archive, Edit, CallType, RequestType, OneOpen, Pending, SoleAccept, Accepting,
           DecisionStands, Informed, Knows
<1> QED
  BY <1>1, <1>2, <1>3 DEF Editing

-----------------------------------------------------------------------------
LEMMA HandlingKeeps ==
  ASSUME IInv, NEW c \in Calls, Handling(c)
  PROVE  IInv'
BY SendingKeeps, DecidingKeeps, ClaimKeeps, SurveyKeeps, MembersKeeps, RosterKeeps, CommitKeeps
   DEF Handling

LEMMA StepKeeps == IInv /\ [Next]_vars => IInv'
<1> SUFFICES ASSUME IInv, [Next]_vars PROVE IInv'
  OBVIOUS
<1> USE DEF IInv, Shape, ProjectType, RequestType, CallType, OneOpen, Pending, SoleAccept,
            Accepting, DecisionStands, Informed, Knows
<1>1. CASE \E q \in Requests : Lapses(q)
  BY <1>1 DEF Lapses
<1>2. CASE UNCHANGED vars
  BY <1>2 DEF vars
<1> QED
  BY <1>1, <1>2, HandlingKeeps, EditingKeeps DEF Next

LEMMA Invariance == Spec => []IInv
<1>1. Init => IInv
  BY InitEstablishes
<1> QED
  BY <1>1, StepKeeps, PTL DEF Spec

LEMMA StepCounts == IInv /\ Counts /\ [Next]_vars => Counts'
<1> SUFFICES ASSUME IInv, Counts, [Next]_vars PROVE Counts'
  OBVIOUS
<1>1. ASSUME NEW c \in Calls, Handling(c) PROVE Counts'
  BY <1>1 DEF Handling, Counts, Open, Check, Insert, Members, Fails, Withdraw, LoadPending,
       Decide, Expire, Claim, Survey, Roster, Commit
<1>2. ASSUME Editing PROVE Counts'
  <2>1. PICK u \in SUBSET Users : Edit(u)
    BY <1>2 DEF Editing, AddMember, RemoveMember, JoinOrg, LeaveOrg, Archive
  <2>2. edits + 1 \in 0 .. MaxEdits
    BY <2>1, MaxEditsAssumption DEF Edit, Counts
  <2> QED
    BY <2>1, <2>2 DEF Edit, Counts
<1>3. CASE \E q \in Requests : Lapses(q)
  BY <1>3 DEF Lapses, Counts
<1> QED
  BY <1>1, <1>2, <1>3 DEF Next, vars, Counts

\* The variables have their types: in particular the owner of the project is a
\* user, whatever the accept purges.
THEOREM TransferTypes == Spec => []TypeOK
<1>1. Init => IInv /\ Counts
  BY InitEstablishes
<1>2. IInv /\ Counts /\ [Next]_vars => (IInv /\ Counts)'
  BY StepKeeps, StepCounts
<1>3. IInv /\ Counts => TypeOK
  BY DEF IInv, Shape, Counts, TypeOK
<1> QED
  BY <1>1, <1>2, <1>3, PTL DEF Spec

\* No two accepts execute the move at the same time, whichever requests of the
\* project they accept.
THEOREM AcceptsExclude == Spec => []SoleAccept
<1>1. IInv => SoleAccept
  BY DEF IInv
<1> QED
  BY <1>1, Invariance, PTL

\* A request that was declined or withdrawn did not move the project.
THEOREM DecisionsStand == Spec => []DecisionStands
<1>1. IInv => DecisionStands
  BY DEF IInv
<1> QED
  BY <1>1, Invariance, PTL

\* Only the commit of an accept moves the project.
LEMMA OnlyCommits ==
  ASSUME IInv, [Next]_vars, project'.org # project.org
  PROVE  \E c \in Calls, q \in Requests : Commit(c, q)
<1>1. ASSUME NEW c \in Calls, Handling(c), UNCHANGED project PROVE FALSE
  BY <1>1
<1>2. ASSUME NEW c \in Calls, Handling(c)
      PROVE  UNCHANGED project \/ \E q \in Requests : Commit(c, q)
  BY <1>2 DEF Handling, Open, Check, Insert, Members, Fails, Withdraw, LoadPending,
       Decide, Expire, Claim, Survey, Roster
<1>3. ASSUME Editing PROVE FALSE
  BY <1>3 DEF Editing, AddMember, RemoveMember, JoinOrg, LeaveOrg, Archive, IInv, Shape,
       ProjectType
<1>4. CASE (\E q \in Requests : Lapses(q)) \/ UNCHANGED vars
  BY <1>4 DEF Lapses, vars
<1> QED
  BY <1>1, <1>2, <1>3, <1>4 DEF Next

\* What a commit does to the project.
LEMMA CommitMoves ==
  ASSUME IInv, NEW c \in Calls, NEW q \in Requests, Commit(c, q)
  PROVE  /\ q \notin moved /\ moved' = moved \cup {q}
         /\ Pending(q) /\ request[q].from = project.org /\ request[q].to = project'.org
         /\ project'.members \ staff[project'.org] \subseteq shifted
         /\ project'.owner \in project'.members
<1>1. Knows(call[c], q) /\ call[c].pc = "commit"
  BY Executing DEF Commit, Accepting, Transaction
<1>2. /\ project'.org = request[q].to /\ project'.owner = call[c].owner
      /\ project'.members = (project.members \ call[c].users) \cup {call[c].owner}
  BY LocalTypes DEF Commit
<1>3. q \notin moved
  BY <1>1 DEF IInv, DecisionStands, Knows, Pending
<1> QED
  BY <1>1, <1>2, <1>3 DEF Knows, Commit

\* The project moves only from the organisation that raised the request to
\* the one it names, once for each request.
THEOREM MovesAgreed == Spec => MovesAsAgreed
<1>1. ASSUME IInv, [Next]_vars, project'.org # project.org
      PROVE  \E q \in Requests \ moved :
               /\ moved' = moved \cup {q}
               /\ Pending(q) /\ request[q].from = project.org /\ request[q].to = project'.org
  BY <1>1, OnlyCommits, CommitMoves
<1>2. IInv /\ [Next]_vars =>
        [project.org' # project.org =>
           \E q \in Requests \ moved :
             /\ moved' = moved \cup {q}
             /\ Pending(q) /\ request[q].from = project.org /\ request[q].to = project.org']_vars
  BY <1>1
<1> QED
  BY <1>2, Invariance, PTL DEF Spec, MovesAsAgreed

\* A move leaves nobody outside the new organisation whose memberships did not
\* change while the accept was executing, and an owner who is a member.
THEOREM NobodyLeftOutside == Spec => LeavesNobodyOutside
<1>1. ASSUME IInv, [Next]_vars, project'.org # project.org
      PROVE  /\ project'.members \ staff[project'.org] \subseteq shifted
             /\ project'.owner \in project'.members
  BY <1>1, OnlyCommits, CommitMoves
<1>2. IInv /\ [Next]_vars =>
        [project.org' # project.org =>
           /\ project'.members \ staff[project.org'] \subseteq shifted
           /\ project'.owner \in project'.members]_vars
  BY <1>1
<1> QED
  BY <1>2, Invariance, PTL DEF Spec, LeavesNobodyOutside
=============================================================================
