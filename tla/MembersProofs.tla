--------------------------- MODULE MembersProofs ---------------------------
(***************************************************************************)
(* The workspace keeps its OWNER and members joined by invitation, for any  *)
(* number of users, invitations and concurrent requests.                    *)
(***************************************************************************)
EXTENDS Members, TLAPS, FiniteSetTheorems

LEMMA IdleType == Idle \in Context /\ Idle.pc = "idle" /\ Idle.op = "invite"
<1>1. (CHOOSE i \in Invitation : TRUE) \in Invitation
  BY MembersAssumption
<1>. QED  BY <1>1, MembersAssumption DEF Idle, Context, Op, GrantableRole

LEMMA AnswerType ==
  ASSUME TypeOK, NEW r \in Request, Answer(r)
  PROVE  /\ req' \in [Request -> Context]
         /\ req'[r].pc = "idle"
         /\ \A s \in Request : s # r => req'[s] = req[s]
BY IdleType DEF TypeOK, Answer

LEMMA GotoType ==
  ASSUME TypeOK, NEW r \in Request,
         NEW label \in {"idle", "find", "check", "create", "write"}, Goto(r, label)
  PROVE  /\ req' \in [Request -> Context]
         /\ req'[r] = [req[r] EXCEPT !.pc = label]
         /\ \A s \in Request : s # r => req'[s] = req[s]
BY DEF TypeOK, Goto, Context

LEMMA BeginType ==
  ASSUME TypeOK, NEW r \in Request, NEW c \in Context, Begin(r, c)
  PROVE  /\ req' \in [Request -> Context]
         /\ req'[r] = c
         /\ \A s \in Request : s # r => req'[s] = req[s]
         /\ UNCHANGED <<account, role, inv>>
BY DEF TypeOK, Begin

---------------------------------------------------------------------------
(* The inductive invariant *)

\* What a request in flight knows: the workspace exists; a membership about to
\* be written is not the founder's; an invitation about to be accepted is a row
\* for the account that will join.
Knows(c) ==
  /\ c.pc # "idle" => Founder \in account
  /\ c.op \in {"patch", "remove"} /\ c.pc = "write" => c.user # Founder
  /\ c.op = "accept" /\ c.pc # "idle" =>
       /\ inv[c.inv].state # "free"
       /\ inv[c.inv].email = c.user
       /\ c.pc = "write" => c.user \in account

RequestsKnow == \A r \in Request : Knows(req[r])

\* Invitations exist only once the workspace does.
RowsAfterFounder == \A i \in Invitation : inv[i].state # "free" => Founder \in account

MembersHaveAccounts == \A u \in User : role[u] # "none" => u \in account

IInv ==
  /\ TypeOK
  /\ OwnerStays
  /\ MembersHaveAccounts
  /\ JoinedByInvitation
  /\ RowsAfterFounder
  /\ RequestsKnow

LEMMA InitIInv == Init => IInv
<1>. SUFFICES ASSUME Init PROVE IInv
  OBVIOUS
<1>1. TypeOK
  BY IdleType, MembersAssumption
     DEF Init, TypeOK, Row, FreeRow, InvitationState, GrantableRole, Role
<1>2. OwnerStays /\ JoinedByInvitation /\ MembersHaveAccounts
  BY DEF Init, OwnerStays, JoinedByInvitation, MembersHaveAccounts
<1>3. RowsAfterFounder /\ RequestsKnow
  BY IdleType DEF Init, RowsAfterFounder, RequestsKnow, Knows, FreeRow
<1>. QED  BY <1>1, <1>2, <1>3 DEF IInv

\* A step that only moves one request on.
LEMMA ReadStep ==
  ASSUME IInv, NEW r \in Request, UNCHANGED <<account, role, inv>>,
         req' \in [Request -> Context],
         \A s \in Request : s # r => req'[s] = req[s],
         Knows(req'[r])
  PROVE  IInv'
<1>1. /\ TypeOK' /\ OwnerStays' /\ MembersHaveAccounts'
      /\ JoinedByInvitation' /\ RowsAfterFounder'
  BY DEF IInv, TypeOK, OwnerStays, MembersHaveAccounts, JoinedByInvitation, RowsAfterFounder
<1>2. RequestsKnow'
  <2>. SUFFICES ASSUME NEW s \in Request PROVE Knows(req[s])'
    BY DEF RequestsKnow
  <2>1. Knows(req[s])
    BY DEF IInv, RequestsKnow
  <2>2. CASE s = r
    BY <2>2 DEF Knows
  <2>3. CASE s # r
    BY <2>1, <2>3 DEF Knows
  <2>. QED  BY <2>2, <2>3
<1>. QED  BY <1>1, <1>2 DEF IInv

\* Whoever passes the guard shows that the workspace exists.
LEMMA GuardFounder ==
  ASSUME IInv, NEW a \in User, role[a] # "none"
  PROVE  Founder \in account
<1>1. CASE a = Founder
  BY <1>1 DEF IInv, MembersHaveAccounts
<1>2. CASE a # Founder
  BY <1>2 DEF IInv, JoinedByInvitation, RowsAfterFounder
<1>. QED  BY <1>1, <1>2

LEMMA BeginStep ==
  ASSUME IInv, NEW r \in Request, NEW c \in Context, Begin(r, c), Knows(c)
  PROVE  IInv'
BY BeginType, ReadStep DEF IInv

LEMMA AnswerStep ==
  ASSUME IInv, NEW r \in Request, Answer(r), UNCHANGED <<account, role, inv>>
  PROVE  IInv'
<1>1. Knows(req'[r])
  BY IdleType DEF Answer, Knows, IInv, TypeOK
<1>. QED  BY <1>1, AnswerType, ReadStep DEF IInv

LEMMA GotoStep ==
  ASSUME IInv, NEW r \in Request,
         NEW label \in {"find", "check", "create", "write"}, Goto(r, label),
         UNCHANGED <<account, role, inv>>,
         Knows([req[r] EXCEPT !.pc = label])
  PROVE  IInv'
<1>1. /\ req' \in [Request -> Context]
      /\ req'[r] = [req[r] EXCEPT !.pc = label]
      /\ \A s \in Request : s # r => req'[s] = req[s]
  BY GotoType DEF IInv
<1>2. Knows(req'[r])
  BY <1>1
<1>. QED  BY <1>1, <1>2, ReadStep

---------------------------------------------------------------------------
(* Steps that only read *)

LEMMA Begins ==
  ASSUME IInv, NEW r \in Request
  PROVE  /\ \A a, u \in User, x \in Offered :
              BeginInvite(r, a, u, x) \/ BeginPatch(r, a, u, x) => IInv'
         /\ \A a, u \in User : BeginRemove(r, a, u) => IInv'
         /\ \A a \in User, i \in Invitation : BeginLink(r, a, i) => IInv'
         /\ \A i \in Invitation : BeginAccept(r, i) => IInv'
<1>. req[r] \in Context /\ Offered \subseteq GrantableRole
  BY MembersAssumption DEF IInv, TypeOK, GrantableRole
<1>1. ASSUME NEW a \in User, NEW u \in User, NEW x \in Offered, BeginInvite(r, a, u, x)
      PROVE  IInv'
  <2>. DEFINE c == [req[r] EXCEPT !.pc = "find", !.op = "invite", !.user = u, !.role = x]
  <2>1. c \in Context
    BY DEF Context, Op
  <2>2. Founder \in account
    BY <1>1, GuardFounder DEF BeginInvite, Guard, HasMinimumRole
  <2>3. Knows(c)
    BY <2>2 DEF Knows, Context
  <2>. QED  BY <1>1, <2>1, <2>3, BeginStep DEF BeginInvite
<1>2. ASSUME NEW a \in User, NEW u \in User, NEW x \in Offered, BeginPatch(r, a, u, x)
      PROVE  IInv'
  <2>. DEFINE c == [req[r] EXCEPT !.pc = "find", !.op = "patch", !.user = u, !.role = x]
  <2>1. c \in Context
    BY DEF Context, Op
  <2>2. Founder \in account
    BY <1>2, GuardFounder DEF BeginPatch, Guard, HasMinimumRole
  <2>3. Knows(c)
    BY <2>2 DEF Knows, Context
  <2>. QED  BY <1>2, <2>1, <2>3, BeginStep DEF BeginPatch
<1>3. ASSUME NEW a \in User, NEW u \in User, BeginRemove(r, a, u)
      PROVE  IInv'
  <2>. DEFINE c == [req[r] EXCEPT !.pc = "find", !.op = "remove", !.user = u]
  <2>1. c \in Context
    BY DEF Context, Op
  <2>2. Founder \in account
    BY <1>3, GuardFounder DEF BeginRemove, Guard, HasMinimumRole
  <2>3. Knows(c)
    BY <2>2 DEF Knows, Context
  <2>. QED  BY <1>3, <2>1, <2>3, BeginStep DEF BeginRemove
<1>4. ASSUME NEW a \in User, NEW i \in Invitation, BeginLink(r, a, i)
      PROVE  IInv'
  <2>. DEFINE c == [req[r] EXCEPT !.pc = "find", !.op = "link", !.inv = i]
  <2>1. c \in Context
    BY DEF Context, Op
  <2>2. Founder \in account
    BY <1>4, GuardFounder DEF BeginLink, Guard, HasMinimumRole
  <2>3. Knows(c)
    BY <2>2 DEF Knows, Context
  <2>. QED  BY <1>4, <2>1, <2>3, BeginStep DEF BeginLink
<1>5. ASSUME NEW i \in Invitation, BeginAccept(r, i)
      PROVE  IInv'
  <2>. DEFINE c == [req[r] EXCEPT !.pc = "check", !.op = "accept", !.inv = i,
                                  !.user = inv[i].email, !.link = inv[i].link]
  <2>1. c \in Context
    BY DEF Context, Op, IInv, TypeOK, Row
  <2>2. inv[i].state # "free" /\ Founder \in account
    BY <1>5 DEF BeginAccept, Open, IInv, RowsAfterFounder
  <2>3. Knows(c)
    BY <2>2 DEF Knows, Context
  <2>. QED  BY <1>5, <2>1, <2>3, BeginStep DEF BeginAccept
<1>. QED  BY <1>1, <1>2, <1>3, <1>4, <1>5

LEMMA Reads ==
  ASSUME IInv, NEW r \in Request,
         \/ InviteFindMember(r) \/ InviteFindPending(r) \/ LinkFind(r)
         \/ MemberFind(r) \/ MemberCountOwners(r) \/ AcceptFindUser(r) \/ Abandon(r)
  PROVE  IInv'
<1>. req[r] \in Context /\ Knows(req[r])
  BY DEF IInv, TypeOK, RequestsKnow
<1>1. UNCHANGED <<account, role, inv>>
  BY DEF InviteFindMember, InviteFindPending, LinkFind, MemberFind, MemberCountOwners,
         AcceptFindUser, Abandon
<1>2. CASE Answer(r)
  BY <1>1, <1>2, AnswerStep
<1>3. CASE InviteFindMember(r) /\ ~Answer(r)
  <2>1. Goto(r, "check") /\ Knows([req[r] EXCEPT !.pc = "check"])
    BY <1>3 DEF InviteFindMember, Knows, At, Context
  <2>. QED  BY <1>1, <2>1, GotoStep
<1>4. CASE (InviteFindPending(r) \/ LinkFind(r)) /\ ~Answer(r)
  <2>1. Goto(r, "write") /\ Knows([req[r] EXCEPT !.pc = "write"])
    BY <1>4 DEF InviteFindPending, LinkFind, Knows, At, Context
  <2>. QED  BY <1>1, <2>1, GotoStep
<1>5. CASE MemberFind(r) /\ role[req[r].user] = "OWNER"
  <2>1. Goto(r, "check") /\ Knows([req[r] EXCEPT !.pc = "check"])
    BY <1>5 DEF MemberFind, Knows, Context
  <2>. QED  BY <1>1, <2>1, GotoStep
<1>6. CASE MemberFind(r) /\ role[req[r].user] # "OWNER" /\ ~Answer(r)
  <2>1. Goto(r, "write")
    BY <1>6 DEF MemberFind
  <2>2. req[r].user # Founder
    BY <1>6 DEF MemberFind, IInv, OwnerStays, Knows, Context
  <2>3. Knows([req[r] EXCEPT !.pc = "write"])
    BY <1>6, <2>2 DEF MemberFind, Knows, Context
  <2>. QED  BY <1>1, <2>1, <2>3, GotoStep
<1>7. CASE MemberCountOwners(r)
  <2>1. Founder \in account
    BY <1>7 DEF MemberCountOwners, Knows
  <2>2. {u \in User : role[u] = "OWNER"} = {Founder}
    BY <2>1, MembersAssumption DEF IInv, OwnerStays
  <2>3. Cardinality({Founder}) = 1
    BY FS_Singleton
  <2>4. Answer(r)
    BY <1>7, <2>2, <2>3 DEF MemberCountOwners
  <2>. QED  BY <1>2, <2>4
<1>8. CASE AcceptFindUser(r) /\ ~Answer(r)
  <2>1. CASE req[r].user \in account
    <3>1. Goto(r, "write") /\ Knows([req[r] EXCEPT !.pc = "write"])
      BY <1>8, <2>1 DEF AcceptFindUser, Knows, At, Context
    <3>. QED  BY <1>1, <3>1, GotoStep
  <2>2. CASE req[r].user \notin account
    <3>1. Goto(r, "create") /\ Knows([req[r] EXCEPT !.pc = "create"])
      BY <1>8, <2>2 DEF AcceptFindUser, Knows, At, Context
    <3>. QED  BY <1>1, <3>1, GotoStep
  <2>. QED  BY <2>1, <2>2
<1>. QED  BY <1>2, <1>3, <1>4, <1>5, <1>6, <1>7, <1>8 DEF Abandon

---------------------------------------------------------------------------
(* Steps that write *)

LEMMA RegisterStep ==
  ASSUME IInv, NEW u \in User, Register(u)
  PROVE  IInv'
<1>1. TypeOK'
  BY DEF Register, IInv, TypeOK, Role
<1>2. OwnerStays' /\ MembersHaveAccounts'
  BY DEF Register, IInv, TypeOK, OwnerStays, MembersHaveAccounts
<1>3. JoinedByInvitation'
  BY DEF Register, IInv, TypeOK, JoinedByInvitation
<1>4. RowsAfterFounder' /\ RequestsKnow'
  BY DEF Register, IInv, TypeOK, RowsAfterFounder, RequestsKnow, Knows
<1>. QED  BY <1>1, <1>2, <1>3, <1>4 DEF IInv

\* A step that changes invitation rows but neither frees nor readdresses one
\* in use, and takes back no acceptance.
LEMMA RowStep ==
  ASSUME IInv, UNCHANGED <<account, role>>,
         inv' \in [Invitation -> Row],
         \A i \in Invitation : inv[i].state # "free" =>
            inv'[i].state # "free" /\ inv'[i].email = inv[i].email,
         \A i \in Invitation : inv[i].state = "accepted" => inv'[i].state = "accepted",
         Founder \in account,
         req' \in [Request -> Context],
         \A s \in Request : req'[s] = req[s] \/ req'[s].pc = "idle"
  PROVE  IInv'
<1>1. TypeOK' /\ OwnerStays' /\ MembersHaveAccounts'
  BY DEF IInv, TypeOK, OwnerStays, MembersHaveAccounts
<1>2. JoinedByInvitation'
  <2>. SUFFICES ASSUME NEW u \in User \ {Founder}, role[u] # "none"
                PROVE  u \in account /\
                       \E i \in Invitation : inv'[i].state = "accepted" /\ inv'[i].email = u
    BY DEF JoinedByInvitation
  <2>1. PICK i \in Invitation : inv[i].state = "accepted" /\ inv[i].email = u
    BY DEF IInv, JoinedByInvitation
  <2>. QED  BY <2>1 DEF IInv, JoinedByInvitation
<1>3. RowsAfterFounder'
  BY DEF RowsAfterFounder
<1>4. RequestsKnow'
  <2>. SUFFICES ASSUME NEW s \in Request, req'[s] = req[s] PROVE Knows(req[s])'
    BY DEF RequestsKnow, Knows
  <2>1. Knows(req[s]) /\ req[s].inv \in Invitation
    BY DEF IInv, RequestsKnow, TypeOK, Context
  <2>. QED  BY <2>1 DEF Knows
<1>. QED  BY <1>1, <1>2, <1>3, <1>4 DEF IInv

LEMMA RowWrites ==
  ASSUME IInv
  PROVE  /\ \A r \in Request : InviteCreate(r) \/ LinkUpdate(r) => IInv'
         /\ \A a \in User, i \in Invitation : DeleteInvitation(a, i) => IInv'
         /\ \A i \in Invitation : Expire(i) => IInv'
<1>. USE DEF IInv, TypeOK
<1>1. ASSUME NEW r \in Request, InviteCreate(r) PROVE IInv'
  <2>1. req[r] \in Context /\ Knows(req[r]) /\ Founder \in account
    BY <1>1 DEF InviteCreate, At, RequestsKnow, Knows
  <2>2. PICK i \in Invitation :
          /\ inv[i].state = "free"
          /\ inv' = [inv EXCEPT ![i] = [FreeRow EXCEPT !.state = "pending",
                                          !.email = req[r].user, !.role = req[r].role]]
    BY <1>1 DEF InviteCreate
  <2>3. [FreeRow EXCEPT !.state = "pending", !.email = req[r].user, !.role = req[r].role] \in Row
    BY <2>1 DEF FreeRow, Row, Context, InvitationState
  <2>4. inv' \in [Invitation -> Row]
    BY <2>2, <2>3
  <2>. QED  BY <1>1, <2>1, <2>2, <2>4, AnswerType, RowStep DEF InviteCreate
<1>2. ASSUME NEW r \in Request, LinkUpdate(r) PROVE IInv'
  <2>1. req[r] \in Context /\ Knows(req[r]) /\ Founder \in account
    BY <1>2 DEF LinkUpdate, At, RequestsKnow, Knows
  <2>2. inv' \in [Invitation -> Row]
    BY <1>2, <2>1 DEF LinkUpdate, Context, Row
  <2>3. \A i \in Invitation : inv'[i].state = inv[i].state /\ inv'[i].email = inv[i].email
    BY <1>2, <2>1 DEF LinkUpdate, Context, Row
  <2>. QED  BY <1>2, <2>1, <2>2, <2>3, AnswerType, RowStep DEF LinkUpdate
<1>3. ASSUME NEW a \in User, NEW i \in Invitation, DeleteInvitation(a, i) PROVE IInv'
  <2>1. Founder \in account
    BY <1>3 DEF DeleteInvitation, RowsAfterFounder
  <2>2. inv' \in [Invitation -> Row]
    BY <1>3 DEF DeleteInvitation, Row, InvitationState
  <2>3. \A j \in Invitation : /\ inv'[j].email = inv[j].email
                              /\ j # i => inv'[j] = inv[j]
                              /\ j = i => inv[j].state = "pending" /\ inv'[j].state = "deleted"
    BY <1>3 DEF DeleteInvitation, Row
  <2>. QED  BY <1>3, <2>1, <2>2, <2>3, RowStep DEF DeleteInvitation
<1>4. ASSUME NEW i \in Invitation, Expire(i) PROVE IInv'
  <2>1. Founder \in account
    BY <1>4 DEF Expire, Open, RowsAfterFounder
  <2>2. inv' \in [Invitation -> Row]
    BY <1>4 DEF Expire, Row
  <2>3. \A j \in Invitation : inv'[j].state = inv[j].state /\ inv'[j].email = inv[j].email
    BY <1>4 DEF Expire, Row
  <2>. QED  BY <1>4, <2>1, <2>2, <2>3, RowStep DEF Expire
<1>. QED  BY <1>1, <1>2, <1>3, <1>4

LEMMA MemberWriteStep ==
  ASSUME IInv, NEW r \in Request, MemberWrite(r)
  PROVE  IInv'
<1>. DEFINE u == req[r].user
<1>1. /\ req[r] \in Context /\ u \in User /\ u # Founder
      /\ req[r].role \in GrantableRole
  BY DEF MemberWrite, IInv, TypeOK, RequestsKnow, Knows, Context
<1>2. /\ \A v \in User : v # u => role'[v] = role[v]
      /\ role'[u] \in GrantableRole \cup {"none"}
      /\ role[u] = "none" => role'[u] = "none"
      /\ role' \in [User -> Role \cup {"none"}]
  BY <1>1 DEF MemberWrite, IInv, TypeOK, Role
<1>3. TypeOK'
  BY <1>2, AnswerType DEF MemberWrite, IInv, TypeOK
<1>4. OwnerStays' /\ MembersHaveAccounts' /\ JoinedByInvitation' /\ RowsAfterFounder'
  BY <1>1, <1>2 DEF MemberWrite, IInv, OwnerStays, MembersHaveAccounts, JoinedByInvitation,
                    RowsAfterFounder, GrantableRole
<1>5. RequestsKnow'
  BY AnswerType, IdleType DEF MemberWrite, IInv, RequestsKnow, Knows, Answer, TypeOK
<1>. QED  BY <1>3, <1>4, <1>5 DEF IInv

LEMMA AcceptCreateUserStep ==
  ASSUME IInv, NEW r \in Request, AcceptCreateUser(r)
  PROVE  IInv'
<1>1. req[r] \in Context /\ req[r].user \in User /\ Knows(req[r]) /\ Founder \in account
  BY DEF AcceptCreateUser, At, IInv, TypeOK, RequestsKnow, Knows, Context
<1>2. /\ req' \in [Request -> Context]
      /\ \A s \in Request : s # r => req'[s] = req[s]
      /\ req'[r].pc = "idle" \/ req'[r] = [req[r] EXCEPT !.pc = "write"]
  BY AnswerType, GotoType DEF AcceptCreateUser, IInv
<1>3. TypeOK' /\ OwnerStays' /\ MembersHaveAccounts' /\ JoinedByInvitation' /\ RowsAfterFounder'
  BY <1>1, <1>2 DEF AcceptCreateUser, IInv, TypeOK, OwnerStays, MembersHaveAccounts,
                    JoinedByInvitation, RowsAfterFounder
<1>4. RequestsKnow'
  <2>. SUFFICES ASSUME NEW s \in Request PROVE Knows(req[s])'
    BY DEF RequestsKnow
  <2>1. CASE s # r
    BY <1>2, <2>1 DEF AcceptCreateUser, IInv, RequestsKnow, Knows
  <2>2. CASE s = r
    BY <1>1, <1>2, <2>2, AnswerType, IdleType
       DEF AcceptCreateUser, At, IInv, Knows, Context
  <2>. QED  BY <2>1, <2>2
<1>. QED  BY <1>3, <1>4 DEF IInv

LEMMA AcceptStep ==
  ASSUME IInv, NEW r \in Request, Accept(r)
  PROVE  IInv'
<1>. DEFINE i == req[r].inv
            u == req[r].user
<1>1. /\ req[r] \in Context /\ i \in Invitation /\ u \in User
      /\ u \in account /\ inv[i].state # "free" /\ inv[i].email = u
      /\ inv[i] \in Row
  BY DEF Accept, At, IInv, TypeOK, RequestsKnow, Knows, Context
<1>2. CASE role[u] # "none" \/ inv[i].state = "deleted"
  BY <1>2, AnswerStep DEF Accept
<1>3. CASE ~(role[u] # "none" \/ inv[i].state = "deleted")
  <2>1. /\ role' = [role EXCEPT ![u] = inv[i].role]
        /\ inv' = [inv EXCEPT ![i].state = "accepted"]
        /\ UNCHANGED account
        /\ Answer(r)
    BY <1>3 DEF Accept
  <2>2. u # Founder
    BY <1>1, <1>3 DEF IInv, OwnerStays
  <2>3. /\ inv' \in [Invitation -> Row]
        /\ inv'[i].state = "accepted"
        /\ \A j \in Invitation : inv'[j].email = inv[j].email /\ (j # i => inv'[j] = inv[j])
    BY <1>1, <2>1 DEF IInv, TypeOK, Row, InvitationState
  <2>4. /\ role' \in [User -> Role \cup {"none"}]
        /\ \A v \in User : v # u => role'[v] = role[v]
        /\ role'[u] \in GrantableRole
    BY <1>1, <2>1 DEF IInv, TypeOK, Row, Role
  <2>5. TypeOK'
    BY <2>1, <2>3, <2>4, AnswerType DEF IInv, TypeOK
  <2>6. OwnerStays' /\ MembersHaveAccounts'
    BY <1>1, <2>1, <2>2, <2>4 DEF IInv, OwnerStays, MembersHaveAccounts, GrantableRole
  <2>7. JoinedByInvitation'
    <3>. SUFFICES ASSUME NEW v \in User \ {Founder}, role'[v] # "none"
                  PROVE  v \in account' /\
                         \E j \in Invitation : inv'[j].state = "accepted" /\ inv'[j].email = v
      BY DEF JoinedByInvitation
    <3>1. CASE v = u
      BY <1>1, <2>1, <2>3, <3>1
    <3>2. CASE v # u
      <4>1. role[v] # "none"
        BY <2>4, <3>2
      <4>2. PICK j \in Invitation : inv[j].state = "accepted" /\ inv[j].email = v
        BY <4>1 DEF IInv, JoinedByInvitation
      <4>3. inv'[j].state = "accepted" /\ inv'[j].email = v
        BY <2>3, <4>2
      <4>. QED  BY <2>1, <4>1, <4>3 DEF IInv, JoinedByInvitation
    <3>. QED  BY <3>1, <3>2
  <2>8. RowsAfterFounder'
    BY <1>1, <2>1, <2>3 DEF IInv, RowsAfterFounder
  <2>9. RequestsKnow'
    <3>. SUFFICES ASSUME NEW s \in Request, s # r PROVE Knows(req[s])'
      BY <2>1, AnswerType, IdleType DEF RequestsKnow, Knows, Answer, IInv, TypeOK
    <3>1. Knows(req[s]) /\ req'[s] = req[s] /\ req[s].inv \in Invitation
      BY <2>1, AnswerType DEF IInv, RequestsKnow, TypeOK, Context
    <3>. QED  BY <2>1, <2>3, <3>1 DEF Knows
  <2>. QED  BY <2>5, <2>6, <2>7, <2>8, <2>9 DEF IInv
<1>. QED  BY <1>2, <1>3

LEMMA NextIInv == IInv /\ [Next]_vars => IInv'
<1>. SUFFICES ASSUME IInv, [Next]_vars PROVE IInv'
  OBVIOUS
<1>1. CASE UNCHANGED vars
  BY <1>1 DEF vars, IInv, TypeOK, OwnerStays, MembersHaveAccounts, JoinedByInvitation,
              RowsAfterFounder, RequestsKnow, Knows
<1>2. CASE Next
  BY <1>2, RegisterStep, Begins, Reads, RowWrites, MemberWriteStep, AcceptCreateUserStep,
     AcceptStep DEF Next
<1>. QED  BY <1>1, <1>2

LEMMA Invariant == Spec => []IInv
BY InitIInv, NextIInv, PTL DEF Spec

\* The workspace always has its founder as the one OWNER, in whatever order
\* concurrent PATCH, DELETE and accept requests run their statements.
THEOREM WorkspaceKeepsItsOwner == Spec => []OwnerStays
<1>1. IInv => OwnerStays
  BY DEF IInv
<1>. QED  BY <1>1, Invariant, PTL

\* Everyone else in the workspace holds an accepted invitation to their own
\* address.
THEOREM MembersWereInvited == Spec => []JoinedByInvitation
<1>1. IInv => JoinedByInvitation
  BY DEF IInv
<1>. QED  BY <1>1, Invariant, PTL

\* No request lets a user in through an invitation that is deleted by then.
THEOREM RevocationHolds == Spec => RevokedInvitationIsDead
<1>. DEFINE Dead == \A r \in Request, u \in User :
                      role[u] = "none" /\ role'[u] # "none" /\ JoinsBy(r, u)
                        => inv[req[r].inv].state # "deleted"
<1>1. ASSUME IInv, [Next]_vars PROVE [Dead]_vars
  <2>. SUFFICES ASSUME Next, NEW r \in Request, NEW u \in User,
                       role[u] = "none", role'[u] # "none", JoinsBy(r, u)
                PROVE  inv[req[r].inv].state # "deleted"
    BY <1>1
  <2>1. req'[r] # req[r] /\ req[r].pc = "write" /\ req[r].op = "accept"
    BY DEF JoinsBy, At
  <2>2. PICK s \in Request : MemberWrite(s) \/ Accept(s)
    BY <2>1 DEF Next, Register, BeginInvite, BeginPatch, BeginRemove, BeginLink, BeginAccept,
        Begin, DeleteInvitation, Expire, InviteFindMember, InviteFindPending, InviteCreate,
        LinkFind, LinkUpdate, MemberFind, MemberCountOwners, AcceptFindUser,
        AcceptCreateUser, Abandon
  <2>3. s = r
    <3>1. Answer(s)
      BY <2>2 DEF MemberWrite, Accept
    <3>. QED  BY <1>1, <2>1, <3>1, AnswerType DEF IInv
  <2>. QED  BY <1>1, <2>1, <2>2, <2>3 DEF MemberWrite, Accept, IInv, TypeOK
<1>. QED  BY <1>1, Invariant, PTL DEF Spec, RevokedInvitationIsDead
=============================================================================
