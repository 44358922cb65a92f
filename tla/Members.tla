------------------------------ MODULE Members ------------------------------
(***************************************************************************)
(* Membership of one workspace: registration, invitations and the member    *)
(* routes (apps/api/src/modules/invitations.ts and /auth/register).  Every  *)
(* handler is a sequence of Prisma statements that run in transactions of   *)
(* their own, so what one statement read may have changed when a later one  *)
(* writes.  A user stands for an email address; unique constraints make a   *)
(* second account or a second membership of the same user fail.             *)
(***************************************************************************)
EXTENDS Naturals, FiniteSets

CONSTANTS
  User,        \* email addresses
  Founder,     \* the user whose registration creates the workspace
  Invitation,  \* ids of invitation rows, used in any order
  Request,     \* concurrent HTTP requests
  Offered,     \* roles that invitations and PATCH requests ask for
  MaxLinks     \* bound on the links issued again for one invitation

ASSUME MembersAssumption ==
  /\ Founder \in User
  /\ IsFiniteSet(User)
  /\ Invitation # {}
  /\ Offered \subseteq {"ADMIN", "MEMBER", "VIEWER"}
  /\ MaxLinks \in Nat

VARIABLES
  account,  \* users that have a row in user
  role,     \* their role in workspace_member, or "none"
  inv,      \* rows of invitation
  req       \* where each request is and what it has read

vars == <<account, role, inv, req>>

GrantableRole == {"ADMIN", "MEMBER", "VIEWER"}
Role          == GrantableRole \cup {"OWNER"}

\* ROLE_RANK and hasMinimumRole
Rank == [OWNER |-> 3, ADMIN |-> 2, MEMBER |-> 1, VIEWER |-> 0]

HasMinimumRole(r, min) == r # "none" /\ Rank[r] >= Rank[min]

InvitationState == {"free", "pending", "accepted", "deleted"}
Row     == [state : InvitationState, email : User, role : GrantableRole,
            expired : BOOLEAN, link : Nat]
FreeRow == [state |-> "free", email |-> Founder, role |-> "MEMBER",
            expired |-> FALSE, link |-> 0]

Op      == {"invite", "link", "patch", "remove", "accept"}
Context == [pc : {"idle", "find", "check", "create", "write"}, op : Op,
            user : User, role : GrantableRole, inv : Invitation, link : Nat]

Open(i) == inv[i].state = "pending" /\ ~inv[i].expired

Idle == [pc |-> "idle", op |-> "invite", user |-> Founder, role |-> "MEMBER",
         inv |-> CHOOSE i \in Invitation : TRUE, link |-> 0]

\* The request answers, with success or with an error.
Answer(r) == req' = [req EXCEPT ![r] = Idle]

Goto(r, label) == req' = [req EXCEPT ![r].pc = label]

Init ==
  /\ account = {}
  /\ role = [u \in User |-> "none"]
  /\ inv = [i \in Invitation |-> FreeRow]
  /\ req = [r \in Request |-> Idle]

---------------------------------------------------------------------------
\* POST /auth/register: user, workspace and OWNER membership in a transaction.
Register(u) ==
  /\ u \notin account
  /\ account' = account \cup {u}
  /\ role' = IF u = Founder THEN [role EXCEPT ![u] = "OWNER"] ELSE role
  /\ UNCHANGED <<inv, req>>

\* makeWorkspaceGuard: membership and minimum role are read once, up front.
Guard(a, min) == HasMinimumRole(role[a], min)

Begin(r, c) ==
  /\ req[r].pc = "idle"
  /\ req' = [req EXCEPT ![r] = c]
  /\ UNCHANGED <<account, role, inv>>

BeginInvite(r, a, u, x) ==
  /\ Guard(a, "ADMIN")
  /\ Begin(r, [req[r] EXCEPT !.pc = "find", !.op = "invite", !.user = u, !.role = x])

BeginLink(r, a, i) ==
  /\ Guard(a, "ADMIN")
  /\ Begin(r, [req[r] EXCEPT !.pc = "find", !.op = "link", !.inv = i])

BeginPatch(r, a, u, x) ==
  /\ Guard(a, "ADMIN")
  /\ Begin(r, [req[r] EXCEPT !.pc = "find", !.op = "patch", !.user = u, !.role = x])

\* Any member may leave; removing somebody else takes an ADMIN.
BeginRemove(r, a, u) ==
  /\ Guard(a, "VIEWER")
  /\ a = u \/ HasMinimumRole(role[a], "ADMIN")
  /\ Begin(r, [req[r] EXCEPT !.pc = "find", !.op = "remove", !.user = u])

\* findValidInvitation, by the hash of a link that is still the current one.
BeginAccept(r, i) ==
  /\ Open(i)
  /\ Begin(r, [req[r] EXCEPT !.pc = "check", !.op = "accept", !.inv = i,
                             !.user = inv[i].email, !.link = inv[i].link])

\* The process dies with the request, or its database connection does.
Abandon(r) ==
  /\ req[r].pc # "idle"
  /\ Answer(r)
  /\ UNCHANGED <<account, role, inv>>

At(r, op, label) == req[r].op = op /\ req[r].pc = label

---------------------------------------------------------------------------
(* POST invitations *)

InviteFindMember(r) ==
  /\ At(r, "invite", "find")
  /\ IF role[req[r].user] # "none" THEN Answer(r) ELSE Goto(r, "check")
  /\ UNCHANGED <<account, role, inv>>

InviteFindPending(r) ==
  /\ At(r, "invite", "check")
  /\ IF \E i \in Invitation : Open(i) /\ inv[i].email = req[r].user
     THEN Answer(r) ELSE Goto(r, "write")
  /\ UNCHANGED <<account, role, inv>>

InviteCreate(r) ==
  /\ At(r, "invite", "write")
  /\ \E i \in Invitation :
       /\ inv[i].state = "free"
       /\ inv' = [inv EXCEPT ![i] = [FreeRow EXCEPT !.state = "pending",
                                       !.email = req[r].user, !.role = req[r].role]]
  /\ Answer(r)
  /\ UNCHANGED <<account, role>>

---------------------------------------------------------------------------
(* POST invitations/:id/link and DELETE invitations/:id *)

LinkFind(r) ==
  /\ At(r, "link", "find")
  /\ IF Open(req[r].inv) THEN Goto(r, "write") ELSE Answer(r)
  /\ UNCHANGED <<account, role, inv>>

\* The update fails when the row is gone, not when it was accepted since.
LinkUpdate(r) ==
  /\ At(r, "link", "write")
  /\ inv[req[r].inv].link < MaxLinks
  /\ inv' = IF inv[req[r].inv].state = "deleted" THEN inv
            ELSE [inv EXCEPT ![req[r].inv].link = @ + 1]
  /\ Answer(r)
  /\ UNCHANGED <<account, role>>

\* Faulty variant: accepted invitations can be deleted too.
DeleteAnyInvitation(a, i) ==
  /\ Guard(a, "ADMIN")
  /\ inv[i].state \in {"pending", "accepted"}
  /\ inv' = [inv EXCEPT ![i].state = "deleted"]
  /\ UNCHANGED <<account, role, req>>

\* One deleteMany with acceptedAt null.
DeleteInvitation(a, i) ==
  /\ Guard(a, "ADMIN")
  /\ inv[i].state = "pending"
  /\ inv' = [inv EXCEPT ![i].state = "deleted"]
  /\ UNCHANGED <<account, role, req>>

Expire(i) ==
  /\ Open(i)
  /\ inv' = [inv EXCEPT ![i].expired = TRUE]
  /\ UNCHANGED <<account, role, req>>

---------------------------------------------------------------------------
(* PATCH and DELETE members/:userId *)

MemberFind(r) ==
  /\ req[r].op \in {"patch", "remove"} /\ req[r].pc = "find"
  /\ CASE role[req[r].user] = "none"  -> Answer(r)
       [] role[req[r].user] = "OWNER" -> Goto(r, "check")
       [] OTHER                       -> Goto(r, "write")
  /\ UNCHANGED <<account, role, inv>>

\* Faulty variant: the last OWNER counts as one of several.
MemberCountOwnersWrong(r) ==
  /\ req[r].op \in {"patch", "remove"} /\ req[r].pc = "check"
  /\ IF Cardinality({u \in User : role[u] = "OWNER"}) < 1
     THEN Answer(r) ELSE Goto(r, "write")
  /\ UNCHANGED <<account, role, inv>>

\* ownerCount <= 1: the last OWNER is neither demoted nor removed.
MemberCountOwners(r) ==
  /\ req[r].op \in {"patch", "remove"} /\ req[r].pc = "check"
  /\ IF Cardinality({u \in User : role[u] = "OWNER"}) <= 1
     THEN Answer(r) ELSE Goto(r, "write")
  /\ UNCHANGED <<account, role, inv>>

\* update and delete fail when the membership is gone by now.
MemberWrite(r) ==
  /\ req[r].op \in {"patch", "remove"} /\ req[r].pc = "write"
  /\ role' = [role EXCEPT ![req[r].user] =
                IF @ # "none" /\ req[r].op = "patch" THEN req[r].role ELSE "none"]
  /\ Answer(r)
  /\ UNCHANGED <<account, inv>>

---------------------------------------------------------------------------
(* POST /auth/invitations/:token/accept *)

\* The account of the invited address is found; without one, name and password
\* are needed.
AcceptFindUser(r) ==
  /\ At(r, "accept", "check")
  /\ IF req[r].user \in account THEN Goto(r, "write")
     ELSE Goto(r, "create") \/ Answer(r)
  /\ UNCHANGED <<account, role, inv>>

AcceptCreateUser(r) ==
  /\ At(r, "accept", "create")
  /\ IF req[r].user \in account THEN Answer(r) ELSE Goto(r, "write")
  /\ account' = account \cup {req[r].user}
  /\ UNCHANGED <<role, inv>>

\* Faulty variant: the update matches no row and nothing fails.
AcceptUnchecked(r) ==
  LET i == req[r].inv
  IN  /\ At(r, "accept", "write")
      /\ IF role[req[r].user] # "none"
         THEN UNCHANGED <<role, inv>>
         ELSE /\ role' = [role EXCEPT ![req[r].user] = inv[i].role]
              /\ inv' = IF inv[i].state = "deleted" THEN inv
                        ELSE [inv EXCEPT ![i].state = "accepted"]
      /\ Answer(r)
      /\ UNCHANGED account

\* The transaction: membership and acceptedAt together, or neither when the
\* membership exists already or the invitation was deleted.
Accept(r) ==
  LET i == req[r].inv
  IN  /\ At(r, "accept", "write")
      /\ IF role[req[r].user] # "none" \/ inv[i].state = "deleted"
         THEN UNCHANGED <<role, inv>>
         ELSE /\ role' = [role EXCEPT ![req[r].user] = inv[i].role]
              /\ inv' = [inv EXCEPT ![i].state = "accepted"]
      /\ Answer(r)
      /\ UNCHANGED account

---------------------------------------------------------------------------
Next ==
  \/ \E u \in User : Register(u)
  \/ \E r \in Request, a, u \in User, x \in Offered :
       BeginInvite(r, a, u, x) \/ BeginPatch(r, a, u, x)
  \/ \E r \in Request, a, u \in User : BeginRemove(r, a, u)
  \/ \E r \in Request, a \in User, i \in Invitation : BeginLink(r, a, i)
  \/ \E r \in Request, i \in Invitation : BeginAccept(r, i)
  \/ \E a \in User, i \in Invitation : DeleteInvitation(a, i)
  \/ \E i \in Invitation : Expire(i)
  \/ \E r \in Request :
       \/ InviteFindMember(r) \/ InviteFindPending(r) \/ InviteCreate(r)
       \/ LinkFind(r) \/ LinkUpdate(r)
       \/ MemberFind(r) \/ MemberCountOwners(r) \/ MemberWrite(r)
       \/ AcceptFindUser(r) \/ AcceptCreateUser(r) \/ Accept(r)
       \/ Abandon(r)

Spec == Init /\ [][Next]_vars

---------------------------------------------------------------------------
(* Properties *)

\* Every variable keeps its type; OWNER is never the role of an invitation.
TypeOK ==
  /\ account \subseteq User
  /\ role \in [User -> Role \cup {"none"}]
  /\ inv \in [Invitation -> Row]
  /\ req \in [Request -> Context]

\* The workspace never becomes unowned (comment above the PATCH route), however
\* demotions, removals and departures interleave: its founder stays OWNER, and
\* nobody else becomes one.
OwnerStays ==
  \A u \in User : role[u] = "OWNER" <=> u = Founder /\ Founder \in account

\* Nobody gets in without an invitation, and the record of it stays: each
\* other member holds an accepted invitation to their own address.
JoinedByInvitation ==
  \A u \in User \ {Founder} :
    role[u] # "none" =>
      u \in account /\ \E i \in Invitation : inv[i].state = "accepted" /\ inv[i].email = u

\* The request whose step lets user u in, if any.
JoinsBy(r, u) == At(r, "accept", "write") /\ req[r].user = u /\ req'[r].pc = "idle"

\* A revoked invitation lets nobody in, not even through a request that found
\* it before it was deleted: the transaction of accept fails.
RevokedInvitationIsDead ==
  [][\A r \in Request, u \in User :
       role[u] = "none" /\ role'[u] # "none" /\ JoinsBy(r, u)
         => inv[req[r].inv].state # "deleted"]_vars
=============================================================================
