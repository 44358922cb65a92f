------------------------------ MODULE Sessions ------------------------------
(***************************************************************************)
(* Console sessions (apps/api/src/modules/auth.ts): login opens a family of *)
(* refresh tokens, every refresh revokes the presented token and issues the *)
(* next one of its family, and presenting a token that was already rotated  *)
(* revokes the family.  A refresh is three statements that are not in a     *)
(* transaction, and anybody may present any token at any time: a second     *)
(* tab, a client that never saw the answer, the holder of a copy.           *)
(***************************************************************************)
EXTENDS Naturals, FiniteSets

CONSTANTS
  Token,           \* refresh tokens, one row of session each
  Family,          \* family ids, one for each login
  SessionRequest   \* concurrent refresh requests

ASSUME SessionsAssumption == Token # {} /\ Family # {}

VARIABLES
  session,  \* rows of session: state, family, past expiresAt
  refresh,  \* where each refresh request is, and the token it presented
  closed,   \* families that a replay or a logout should have ended, and which
  raced     \* families in which two requests have overlapped

sessionVars == <<session, refresh, closed, raced>>

SessionRow     == [state : {"free", "active", "revoked"}, family : Family, expired : BOOLEAN]
RefreshContext == [pc : {"idle", "kill", "rotate", "issue"}, token : Token]

FreeSession == [state |-> "free", family |-> CHOOSE f \in Family : TRUE, expired |-> FALSE]
NoRefresh   == [pc |-> "idle", token |-> CHOOSE t \in Token : TRUE]

FamilyOf(t) == session[t].family
InUse(f)    == \E t \in Token : session[t].state # "free" /\ FamilyOf(t) = f
Active(f)   == {t \in Token : session[t].state = "active" /\ FamilyOf(t) = f}

\* Requests of family f that have read a row and not finished.
InFlight(f) == {r \in SessionRequest : refresh[r].pc # "idle" /\ FamilyOf(refresh[r].token) = f}

SessionInit ==
  /\ session = [t \in Token |-> FreeSession]
  /\ refresh = [r \in SessionRequest |-> NoRefresh]
  /\ closed = {}
  /\ raced = {}

---------------------------------------------------------------------------
\* issueSession: a fresh row in the family.
IssueSession(f) ==
  \E t \in Token :
    /\ session[t].state = "free"
    /\ session' = [session EXCEPT ![t] = [FreeSession EXCEPT !.state = "active", !.family = f]]

\* POST /auth/login and /auth/register: a session in a new family.
Login(f) ==
  /\ ~InUse(f)
  /\ IssueSession(f)
  /\ UNCHANGED <<refresh, closed, raced>>

\* Faulty variant: a token that was rotated already is rotated again.
RefreshFindNoReuse(r, t) ==
  /\ refresh[r].pc = "idle"
  /\ session[t].state # "free" /\ ~session[t].expired
  /\ refresh' = [refresh EXCEPT ![r] = [pc |-> "rotate", token |-> t]]
  /\ raced' = IF InFlight(FamilyOf(t)) = {} THEN raced ELSE raced \cup {FamilyOf(t)}
  /\ UNCHANGED <<session, closed>>

\* POST /auth/refresh: the row of the presented token is read; an unknown or
\* expired token ends here.
RefreshFind(r, t) ==
  /\ refresh[r].pc = "idle"
  /\ session[t].state # "free" /\ ~session[t].expired
  /\ refresh' = [refresh EXCEPT ![r] =
               [pc |-> IF session[t].state = "revoked" THEN "kill" ELSE "rotate",
                token |-> t]]
  /\ raced' = IF InFlight(FamilyOf(t)) = {} THEN raced ELSE raced \cup {FamilyOf(t)}
  /\ UNCHANGED <<session, closed>>

\* Faulty variant: only the replayed token is revoked.
RefreshKillOne(r) ==
  /\ refresh[r].pc = "kill"
  /\ session' = [session EXCEPT ![refresh[r].token].state = "revoked"]
  /\ closed' = closed \cup {<<FamilyOf(refresh[r].token), "replay">>}
  /\ refresh' = [refresh EXCEPT ![r] = NoRefresh]
  /\ UNCHANGED raced

\* Reuse of a rotated token: every row of the family is revoked.
RefreshKill(r) ==
  LET f == FamilyOf(refresh[r].token)
  IN  /\ refresh[r].pc = "kill"
      /\ session' = [t \in Token |-> IF t \in Active(f)
                                     THEN [session[t] EXCEPT !.state = "revoked"]
                                     ELSE session[t]]
      /\ closed' = closed \cup {<<f, "replay">>}
      /\ refresh' = [refresh EXCEPT ![r] = NoRefresh]
      /\ UNCHANGED raced

\* The presented token is revoked, whatever has become of it since ...
RefreshRotate(r) ==
  /\ refresh[r].pc = "rotate"
  /\ session' = [session EXCEPT ![refresh[r].token].state = "revoked"]
  /\ refresh' = [refresh EXCEPT ![r].pc = "issue"]
  /\ UNCHANGED <<closed, raced>>

\* ... and the next one of its family is issued.
RefreshIssue(r) ==
  /\ refresh[r].pc = "issue"
  /\ IssueSession(FamilyOf(refresh[r].token))
  /\ refresh' = [refresh EXCEPT ![r] = NoRefresh]
  /\ UNCHANGED <<closed, raced>>

\* POST /auth/logout: one updateMany on the presented token.
Logout(t) ==
  LET f == FamilyOf(t)
  IN  /\ session[t].state # "free"
      /\ session' = [session EXCEPT ![t].state = "revoked"]
      /\ closed' = IF session[t].state = "active" THEN closed \cup {<<f, "logout">>} ELSE closed
      /\ raced' = IF InFlight(f) = {} THEN raced ELSE raced \cup {f}
      /\ UNCHANGED refresh

ExpireSession(t) ==
  /\ session[t].state # "free" /\ ~session[t].expired
  /\ session' = [session EXCEPT ![t].expired = TRUE]
  /\ UNCHANGED <<refresh, closed, raced>>

\* The process dies with the request: the answer never comes.
AbandonRefresh(r) ==
  /\ refresh[r].pc # "idle"
  /\ refresh' = [refresh EXCEPT ![r] = NoRefresh]
  /\ UNCHANGED <<session, closed, raced>>

SessionNext ==
  \/ \E f \in Family : Login(f)
  \/ \E r \in SessionRequest, t \in Token : RefreshFind(r, t)
  \/ \E r \in SessionRequest :
       RefreshKill(r) \/ RefreshRotate(r) \/ RefreshIssue(r) \/ AbandonRefresh(r)
  \/ \E t \in Token : Logout(t) \/ ExpireSession(t)

SessionSpec == SessionInit /\ [][SessionNext]_sessionVars

---------------------------------------------------------------------------
(* Properties *)

\* Every variable keeps its type.
SessionTypeOK ==
  /\ session \in [Token -> SessionRow]
  /\ refresh \in [SessionRequest -> RefreshContext]
  /\ closed \subseteq Family \X {"replay", "logout"}
  /\ raced \subseteq Family

\* Rotation leaves one usable token in a family at a time, replays, logouts and
\* dying requests included, as long as its requests have not overlapped.
OneActiveUnlessRaced ==
  \A f \in Family \ raced : \A t, u \in Active(f) : t = u

\* A family that a replay or a logout has ended never has a usable token
\* again, as long as its requests have not overlapped.
ClosedUnlessRaced ==
  \A c \in closed : c[1] \notin raced => Active(c[1]) = {}
=============================================================================
