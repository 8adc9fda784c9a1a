------------------------------ MODULE Transfers ------------------------------
(***************************************************************************)
(* The transfer of one project between organisations: requesting,          *)
(* withdrawing, declining and accepting (transfers.service), and the edits *)
(* of members and of the project they race with.                           *)
(*                                                                         *)
(* A call is one API request.  Statements outside a transaction take       *)
(* effect at once.  The statements of an accept become visible together    *)
(* at its commit; until then it holds the lock of its request's row, and   *)
(* a statement that would write that row waits.  Left out: slug, bindings, *)
(* documents and access requests, which the accept rewrites in statements  *)
(* whose outcome no guard here reads; notifications, mail and audit.       *)
(***************************************************************************)
EXTENDS Naturals, FiniteSets

CONSTANTS
  Orgs, Users,
  Home,      \* Home[o]: the users who are members of organisation o at first
  Origin,    \* the project's organisation at first
  Founder,   \* the project's owner at first
  Requests,  \* transfer requests that can be raised
  Calls,     \* API requests that can be open at once
  MaxEdits   \* bound on the edits of members and of the project

ASSUME HomeAssumption == Home \in [Orgs -> SUBSET Users]
ASSUME OriginAssumption == Origin \in Orgs /\ Founder \in Users
ASSUME MaxEditsAssumption == MaxEdits \in Nat

VARIABLES
  project,  \* the project's row, and its projectMember rows
  staff,    \* staff[o]: the orgMember rows of organisation o
  request,  \* request[q]: a projectTransferRequest row
  lapsed,   \* requests whose expiresAt has passed
  call,     \* call[c]: the locals of an API request
  edits,    \* edits so far
  moved,    \* requests that moved the project (for the properties only)
  shifted   \* users whose membership changed since the accept that is
            \* executing read them (for the properties only)

vars == <<project, staff, request, lapsed, call, edits, moved, shifted>>

-----------------------------------------------------------------------------
(* Calls.                                                                  *)

NoCall == [pc |-> "idle", request |-> {}, from |-> Origin, to |-> Origin,
           users |-> {}, owner |-> Founder]

Of(c, q) == call[c].request = {q}
Becomes(c, k) == call' = [call EXCEPT ![c] = k]
Ends(c) == Becomes(c, NoCall)

\* The steps of an accept between its claim of the request and its commit.
Transaction == {"survey", "members", "roster", "commit"}
Accepting(c) == call[c].pc \in Transaction
Locked(q) == \E c \in Calls : Accepting(c) /\ Of(c, q)

Pending(q) == request[q].status = "PENDING"
Resolve(q, status) == request' = [request EXCEPT ![q].status = status]

\* A call fails at any step: a lost connection, a transaction out of time, a
\* stopped process.  A transaction is rolled back.
Fails(c) ==
  /\ call[c].pc # "idle" /\ Ends(c)
  /\ UNCHANGED <<project, staff, request, lapsed, edits, moved, shifted>>

-----------------------------------------------------------------------------
(* The sending side.                                                       *)

\* createRequest resolves the target and reads the project.
Open(c, to) ==
  /\ call[c].pc = "idle"
  /\ ~project.archived /\ to # project.org
  /\ Becomes(c, [NoCall EXCEPT !.pc = "check", !.from = project.org, !.to = to])
  /\ UNCHANGED <<project, staff, request, lapsed, edits, moved, shifted>>

\* It looks for a pending request and plans the move.
Check(c) ==
  /\ call[c].pc = "check"
  /\ IF (\E q \in Requests : Pending(q)) \/ project.org = call[c].to
     THEN Ends(c)
     ELSE Becomes(c, [call[c] EXCEPT !.pc = "insert",
                                     !.users = project.members \ staff[call[c].to]])
  /\ UNCHANGED <<project, staff, request, lapsed, edits, moved, shifted>>

\* Mutant: the index is missing.
AdmittedAlways == TRUE

\* The index admits one pending row per project; a claimed row is waited for.
Admitted == \A q \in Requests : ~Pending(q)

Insert(c) ==
  /\ call[c].pc = "insert"
  /\ \A q \in Requests : ~Locked(q)
  /\ \/ /\ Admitted
        /\ \E q \in Requests :
             /\ request[q].status = "NONE"
             /\ request' = [request EXCEPT
                  ![q] = [status |-> "PENDING", from |-> call[c].from, to |-> call[c].to,
                          plan |-> call[c].users]]
     \/ ~Admitted /\ UNCHANGED request
  /\ Ends(c)
  /\ UNCHANGED <<project, staff, lapsed, edits, moved, shifted>>

\* cancelRequest finds the request pending.
Withdraw(c, q) ==
  /\ call[c].pc = "idle" /\ Pending(q)
  /\ Becomes(c, [NoCall EXCEPT !.pc = "CANCELLED", !.request = {q}])
  /\ UNCHANGED <<project, staff, request, lapsed, edits, moved, shifted>>

-----------------------------------------------------------------------------
(* The receiving side.                                                     *)

\* loadPending, for a reject or an accept: a lapsed request is to be expired.
LoadPending(c, q, next) ==
  /\ call[c].pc = "idle" /\ Pending(q) /\ next \in {"REJECTED", "claim"}
  /\ Becomes(c, [NoCall EXCEPT !.pc = IF q \in lapsed THEN "EXPIRED" ELSE next,
                               !.request = {q}])
  /\ UNCHANGED <<project, staff, request, lapsed, edits, moved, shifted>>

\* Mutant: cancelRequest and reject trust the status they read before.
DecideOnRead(c, q) ==
  /\ call[c].pc \in {"CANCELLED", "REJECTED"} /\ Of(c, q) /\ ~Locked(q)
  /\ Resolve(q, call[c].pc)
  /\ Ends(c)
  /\ UNCHANGED <<project, staff, lapsed, edits, moved, shifted>>

\* cancelRequest and reject write only a pending row, loadPending any row.
Decide(c, q) ==
  /\ call[c].pc \in {"CANCELLED", "REJECTED"} /\ Of(c, q) /\ ~Locked(q)
  /\ IF Pending(q) THEN Resolve(q, call[c].pc) ELSE UNCHANGED request
  /\ Ends(c)
  /\ UNCHANGED <<project, staff, lapsed, edits, moved, shifted>>

Expire(c, q) ==
  /\ call[c].pc = "EXPIRED" /\ Of(c, q) /\ ~Locked(q)
  /\ Resolve(q, "EXPIRED")
  /\ Ends(c)
  /\ UNCHANGED <<project, staff, lapsed, edits, moved, shifted>>

\* Mutant: accept reads the status and does not claim the row.
ClaimOnRead(c, q) ==
  /\ call[c].pc = "claim" /\ Of(c, q)
  /\ \/ Pending(q) /\ Becomes(c, [call[c] EXCEPT !.pc = "survey"])
     \/ (~Pending(q) \/ q \in lapsed) /\ Ends(c)
  /\ UNCHANGED <<project, staff, request, lapsed, edits, moved, shifted>>

\* accept's transaction claims the request.  Its `now` was read between
\* loadPending and here: a request that lapsed meanwhile may pass or not.
Claim(c, q) ==
  /\ call[c].pc = "claim" /\ Of(c, q) /\ ~Locked(q)
  /\ \/ Pending(q) /\ Becomes(c, [call[c] EXCEPT !.pc = "survey"])
     \/ (~Pending(q) \/ q \in lapsed) /\ Ends(c)
  /\ UNCHANGED <<project, staff, request, lapsed, edits, moved, shifted>>

\* It refuses an archived project and one that has moved since.
Survey(c, q) ==
  /\ call[c].pc = "survey" /\ Of(c, q)
  /\ IF project.archived \/ project.org # request[q].from
     THEN Ends(c)
     ELSE Becomes(c, [call[c] EXCEPT !.pc = "members"])
  /\ UNCHANGED <<project, staff, request, lapsed, edits, moved, shifted>>

Members(c) ==
  /\ call[c].pc = "members"
  /\ Becomes(c, [call[c] EXCEPT !.pc = "roster", !.users = project.members])
  /\ shifted' = {}
  /\ UNCHANGED <<project, staff, request, lapsed, edits, moved>>

\* Mutant: the owner leaves with the members: ownerId becomes null.
RosterWithoutNominee(c, q) ==
  LET inTargetOrg == staff[request[q].to]
  IN  /\ call[c].pc = "roster" /\ Of(c, q)
      /\ Becomes(c, [call[c] EXCEPT !.pc = "commit", !.users = @ \ inTargetOrg,
                       !.owner = IF project.owner \in inTargetOrg
                                   THEN project.owner ELSE "null"])
      /\ UNCHANGED <<project, staff, request, lapsed, edits, moved, shifted>>

\* Mutant: accept executes the plan of the request.
RosterOfPlan(c, q) ==
  LET inTargetOrg == staff[request[q].to]
  IN  /\ call[c].pc = "roster" /\ Of(c, q)
      /\ \/ \E n \in inTargetOrg :
              /\ project.owner \in inTargetOrg => n = project.owner
              /\ Becomes(c, [call[c] EXCEPT !.pc = "commit", !.users = request[q].plan,
                                            !.owner = n])
         \/ project.owner \notin inTargetOrg /\ Ends(c)
      /\ UNCHANGED <<project, staff, request, lapsed, edits, moved, shifted>>

\* Members outside the target organisation are to be purged; an owner outside
\* it is replaced by a nominee inside it, or the accept refused.
Roster(c, q) ==
  LET inTargetOrg == staff[request[q].to]
  IN  /\ call[c].pc = "roster" /\ Of(c, q)
      /\ \/ \E n \in inTargetOrg :
              /\ project.owner \in inTargetOrg => n = project.owner
              /\ Becomes(c, [call[c] EXCEPT !.pc = "commit", !.users = @ \ inTargetOrg,
                                            !.owner = n])
         \/ project.owner \notin inTargetOrg /\ Ends(c)
      /\ UNCHANGED <<project, staff, request, lapsed, edits, moved, shifted>>

Commit(c, q) ==
  /\ call[c].pc = "commit" /\ Of(c, q)
  /\ project' = [project EXCEPT !.org = request[q].to, !.owner = call[c].owner,
                                !.members = (@ \ call[c].users) \cup {call[c].owner}]
  /\ Resolve(q, "ACCEPTED")
  /\ moved' = moved \cup {q} /\ shifted' = {}
  /\ Ends(c)
  /\ UNCHANGED <<staff, lapsed, edits>>

-----------------------------------------------------------------------------
(* Edits, and time.                                                        *)

Edit(u) ==
  /\ edits < MaxEdits /\ edits' = edits + 1
  /\ shifted' = IF \E c \in Calls : call[c].pc \in {"roster", "commit"}
                THEN shifted \cup u ELSE {}
  /\ UNCHANGED <<request, lapsed, call, moved>>

AddMember(u) ==
  /\ project' = [project EXCEPT !.members = @ \cup {u}]
  /\ Edit({u}) /\ UNCHANGED staff

RemoveMember(u) ==
  /\ u \in project.members
  /\ project' = [project EXCEPT !.members = @ \ {u}]
  /\ Edit({u}) /\ UNCHANGED staff

\* acceptInvite, of an invitation that may name the project as well.
JoinOrg(u, o) ==
  /\ u \notin staff[o]
  /\ staff' = [staff EXCEPT ![o] = @ \cup {u}]
  /\ \E joining \in SUBSET {u} :
       project' = [project EXCEPT !.members = @ \cup joining]
  /\ Edit({u})

\* The last admin stays.
LeaveOrg(u, o) ==
  /\ u \in staff[o] /\ staff[o] # {u}
  /\ staff' = [staff EXCEPT ![o] = @ \ {u}]
  /\ Edit({u}) /\ UNCHANGED project

\* archive and restore.
Archive ==
  /\ project' = [project EXCEPT !.archived = ~@]
  /\ Edit({}) /\ UNCHANGED staff

Lapses(q) ==
  /\ Pending(q) /\ q \notin lapsed
  /\ lapsed' = lapsed \cup {q}
  /\ UNCHANGED <<project, staff, request, call, edits, moved, shifted>>

-----------------------------------------------------------------------------
NoRequest == [status |-> "NONE", from |-> Origin, to |-> Origin, plan |-> {}]

Init ==
  /\ project = [org |-> Origin, owner |-> Founder, members |-> {Founder}, archived |-> FALSE]
  /\ staff = Home
  /\ request = [q \in Requests |-> NoRequest]
  /\ lapsed = {} /\ edits = 0 /\ moved = {} /\ shifted = {}
  /\ call = [c \in Calls |-> NoCall]

Handling(c) ==
  \/ \E to \in Orgs : Open(c, to)
  \/ Check(c) \/ Insert(c) \/ Members(c) \/ Fails(c)
  \/ \E q \in Requests :
       \/ Withdraw(c, q)
       \/ \E next \in {"REJECTED", "claim"} : LoadPending(c, q, next)
       \/ Decide(c, q) \/ Expire(c, q)
       \/ Claim(c, q) \/ Survey(c, q) \/ Roster(c, q) \/ Commit(c, q)

Editing ==
  \/ \E u \in Users : AddMember(u) \/ RemoveMember(u)
  \/ \E u \in Users, o \in Orgs : JoinOrg(u, o) \/ LeaveOrg(u, o)
  \/ Archive

Next ==
  \/ \E c \in Calls : Handling(c)
  \/ Editing
  \/ \E q \in Requests : Lapses(q)

Spec == Init /\ [][Next]_vars

-----------------------------------------------------------------------------
(* Properties.                                                             *)

Statuses == {"NONE", "PENDING", "ACCEPTED", "REJECTED", "CANCELLED", "EXPIRED"}
Steps == Transaction \cup {"idle", "check", "insert", "CANCELLED", "REJECTED", "EXPIRED", "claim"}

ProjectType ==
  project \in [org: Orgs, owner: Users, members: SUBSET Users, archived: BOOLEAN]
RequestType ==
  request \in [Requests -> [status: Statuses, from: Orgs, to: Orgs, plan: SUBSET Users]]
CallType ==
  call \in [Calls -> [pc: Steps, request: {{}} \cup {{q} : q \in Requests},
                      from: Orgs, to: Orgs, users: SUBSET Users, owner: Users]]

\* The variables have their types; ownerId is never null.
TypeOK ==
  /\ ProjectType /\ RequestType /\ CallType
  /\ staff \in [Orgs -> SUBSET Users]
  /\ lapsed \subseteq Requests /\ moved \subseteq Requests /\ shifted \subseteq Users
  /\ edits \in 0 .. MaxEdits

\* Two accepts never execute the move at the same time, also when they accept
\* different requests: the second waits for the row of the first, or its
\* request cannot have been raised yet.
SoleAccept ==
  \A c, d \in Calls : Accepting(c) /\ Accepting(d) => c = d

\* A request that was declined or withdrawn did not move the project
\* (transfers.service.ts:249-250 and 330-332).
DecisionStands ==
  \A q \in moved : request[q].status \in {"ACCEPTED", "EXPIRED"}

\* The project moves only by the first accept of a request, from the
\* organisation that raised it to the one it names: it is never taken out of
\* wherever it now lives (transfers.service.ts:446-450).
MovesAsAgreed ==
  [][project.org' # project.org =>
       \E q \in Requests \ moved :
         /\ moved' = moved \cup {q}
         /\ Pending(q) /\ request[q].from = project.org /\ request[q].to = project.org']_vars

\* A move leaves no member outside the new organisation but one whose
\* memberships changed while the accept was executing, and the owner is a
\* member: the plan is made again, never taken from the request
\* (transfers.service.ts:391-394).
LeavesNobodyOutside ==
  [][project.org' # project.org =>
       /\ project'.members \ staff[project.org'] \subseteq shifted
       /\ project'.owner \in project'.members]_vars

\* The stored status matches what happened to the project (a test says so,
\* transfers.e2e-spec.ts:400-401).  TLC refutes it and no run checks it: the
\* README gives the trace.
StatusMatchesMove ==
  \A q \in moved : request[q].status = "ACCEPTED"
=============================================================================
