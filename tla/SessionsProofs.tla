--------------------------- MODULE SessionsProofs ---------------------------
(***************************************************************************)
(* Refresh-token rotation keeps one usable token for each family, and ends  *)
(* families for good, for any number of tokens, families and requests.      *)
(***************************************************************************)
EXTENDS Sessions, TLAPS

LEMMA Defaults ==
  /\ FreeSession \in SessionRow /\ FreeSession.state = "free"
  /\ NoRefresh \in RefreshContext /\ NoRefresh.pc = "idle"
<1>1. (CHOOSE f \in Family : TRUE) \in Family
  BY SessionsAssumption
<1>2. (CHOOSE t \in Token : TRUE) \in Token
  BY SessionsAssumption
<1>. QED  BY <1>1, <1>2 DEF FreeSession, SessionRow, NoRefresh, RefreshContext

\* A request in flight presented a row that exists.
Presented == \A r \in SessionRequest : refresh[r].pc # "idle" => session[refresh[r].token].state # "free"

Closed(f) == \E c \in closed : c[1] = f

\* A family whose requests have not overlapped: one usable token and one
\* request in flight at most; before that request issues a token there is none
\* but the one it rotates; once the family has ended it has neither tokens nor
\* a rotation under way.
Good(f) ==
  /\ \A t, u \in Active(f) : t = u
  /\ \A r, s \in InFlight(f) : r = s
  /\ \A r \in InFlight(f) :
       /\ refresh[r].pc = "rotate" => \A t \in Active(f) : t = refresh[r].token
       /\ refresh[r].pc = "issue" => Active(f) = {}
  /\ Closed(f) => Active(f) = {} /\ \A r \in InFlight(f) : refresh[r].pc = "kill"

IInv ==
  /\ SessionTypeOK
  /\ Presented
  /\ \A f \in Family \ raced : Good(f)
  /\ \A f \in Family : Closed(f) => InUse(f)

LEMMA InitIInv == SessionInit => IInv
<1>. SUFFICES ASSUME SessionInit PROVE IInv
  OBVIOUS
<1>1. SessionTypeOK /\ Presented
  BY Defaults DEF SessionInit, SessionTypeOK, Presented
<1>2. \A f \in Family : InFlight(f) = {} /\ Active(f) = {} /\ ~Closed(f)
  BY Defaults DEF SessionInit, InFlight, Active, Closed
<1>3. \A f \in Family : Good(f)
  BY <1>2 DEF Good
<1>. QED  BY <1>1, <1>2, <1>3 DEF IInv

---------------------------------------------------------------------------
(* Types *)

LEMMA IssueType ==
  ASSUME SessionTypeOK, NEW f \in Family, IssueSession(f)
  PROVE  \E t \in Token :
           /\ session[t].state = "free"
           /\ session' \in [Token -> SessionRow]
           /\ session'[t].state = "active" /\ session'[t].family = f
           /\ \A u \in Token : u # t => session'[u] = session[u]
<1>. DEFINE new == [FreeSession EXCEPT !.state = "active", !.family = f]
<1>1. new \in SessionRow /\ new.state = "active" /\ new.family = f
  BY Defaults DEF SessionRow
<1>2. PICK t \in Token : session[t].state = "free" /\ session' = [session EXCEPT ![t] = new]
  BY DEF IssueSession
<1>. HIDE DEF new
<1>. QED  BY <1>1, <1>2 DEF SessionTypeOK

LEMMA TypeStep == SessionTypeOK /\ Presented /\ [SessionNext]_sessionVars => SessionTypeOK' /\ Presented'
<1>. SUFFICES ASSUME SessionTypeOK, Presented, [SessionNext]_sessionVars PROVE SessionTypeOK' /\ Presented'
  OBVIOUS
<1>. USE DEF SessionTypeOK
<1>1. ASSUME NEW f \in Family, Login(f) PROVE SessionTypeOK' /\ Presented'
  <2>1. /\ session' \in [Token -> SessionRow]
        /\ \A t \in Token : session[t].state # "free" => session'[t] = session[t]
    BY <1>1, IssueType DEF Login
  <2>. QED  BY <1>1, <2>1 DEF Login, Presented, RefreshContext
<1>2. ASSUME NEW r \in SessionRequest, NEW t \in Token, RefreshFind(r, t) PROVE SessionTypeOK' /\ Presented'
  BY <1>2 DEF RefreshFind, Presented, RefreshContext, SessionRow, FamilyOf
<1>3. ASSUME NEW r \in SessionRequest, RefreshKill(r) PROVE SessionTypeOK' /\ Presented'
  <2>1. session' \in [Token -> SessionRow] /\ closed' \subseteq Family \X {"replay", "logout"}
    BY <1>3 DEF RefreshKill, RefreshContext, SessionRow, FamilyOf
  <2>2. refresh' \in [SessionRequest -> RefreshContext] /\ raced' = raced
    BY <1>3, Defaults DEF RefreshKill
  <2>3. \A t \in Token : session'[t].state = "free" => session[t].state = "free"
    BY <1>3 DEF RefreshKill, Active, SessionRow
  <2>4. Presented'
    BY <1>3, <2>3, Defaults DEF RefreshKill, Presented, RefreshContext
  <2>. QED  BY <2>1, <2>2, <2>4
<1>4. ASSUME NEW r \in SessionRequest, RefreshRotate(r) PROVE SessionTypeOK' /\ Presented'
  <2>1. session' \in [Token -> SessionRow] /\ UNCHANGED <<closed, raced>>
    BY <1>4 DEF RefreshRotate, SessionRow
  <2>2. refresh' \in [SessionRequest -> RefreshContext]
    BY <1>4 DEF RefreshRotate, RefreshContext
  <2>3. \A t \in Token : session'[t].state = "free" => session[t].state = "free"
    BY <1>4 DEF RefreshRotate, SessionRow
  <2>4. Presented'
    BY <1>4, <2>3 DEF RefreshRotate, Presented, RefreshContext
  <2>. QED  BY <2>1, <2>2, <2>4
<1>5. ASSUME NEW r \in SessionRequest, RefreshIssue(r) PROVE SessionTypeOK' /\ Presented'
  <2>1. FamilyOf(refresh[r].token) \in Family
    BY DEF FamilyOf, RefreshContext, SessionRow
  <2>2. /\ session' \in [Token -> SessionRow]
        /\ \A t \in Token : session[t].state # "free" => session'[t] = session[t]
    BY <1>5, <2>1, IssueType DEF RefreshIssue
  <2>. QED  BY <1>5, <2>2, Defaults DEF RefreshIssue, Presented, RefreshContext
<1>6. ASSUME NEW r \in SessionRequest, AbandonRefresh(r) PROVE SessionTypeOK' /\ Presented'
  BY <1>6, Defaults DEF AbandonRefresh, Presented, RefreshContext
<1>7. ASSUME NEW t \in Token, Logout(t) PROVE SessionTypeOK' /\ Presented'
  BY <1>7 DEF Logout, Presented, RefreshContext, SessionRow, FamilyOf
<1>8. ASSUME NEW t \in Token, ExpireSession(t) PROVE SessionTypeOK' /\ Presented'
  <2>1. session' \in [Token -> SessionRow] /\ UNCHANGED <<refresh, closed, raced>>
    BY <1>8 DEF ExpireSession, SessionRow
  <2>2. Presented'
    BY <1>8 DEF ExpireSession, Presented, RefreshContext, SessionRow
  <2>. QED  BY <2>1, <2>2
<1>9. CASE UNCHANGED sessionVars
  BY <1>9 DEF sessionVars, Presented
<1>. QED  BY <1>1, <1>2, <1>3, <1>4, <1>5, <1>6, <1>7, <1>8, <1>9 DEF SessionNext

\* Rows are never freed and never change family.
LEMMA RowsStay ==
  ASSUME SessionTypeOK, [SessionNext]_sessionVars
  PROVE  \A t \in Token : session[t].state # "free" =>
           session'[t].state # "free" /\ session'[t].family = session[t].family
<1>. USE DEF SessionTypeOK
<1>1. ASSUME NEW f \in Family, IssueSession(f)
      PROVE  \A t \in Token : session[t].state # "free" => session'[t] = session[t]
  BY <1>1, IssueType
<1>2. ASSUME NEW r \in SessionRequest PROVE FamilyOf(refresh[r].token) \in Family
  BY DEF FamilyOf, RefreshContext, SessionRow
<1>3. CASE \E f \in Family : Login(f)
  BY <1>1, <1>3 DEF Login
<1>4. CASE \E r \in SessionRequest : RefreshIssue(r)
  BY <1>1, <1>2, <1>4 DEF RefreshIssue
<1>5. CASE \E r \in SessionRequest : RefreshKill(r)
  BY <1>5 DEF RefreshKill, Active, SessionRow
<1>6. CASE \E r \in SessionRequest : RefreshRotate(r)
  BY <1>6 DEF RefreshRotate, SessionRow
<1>7. CASE \E t \in Token : Logout(t) \/ ExpireSession(t)
  BY <1>7 DEF Logout, ExpireSession, SessionRow
<1>8. CASE UNCHANGED session
  BY <1>8
<1>. QED  BY <1>3, <1>4, <1>5, <1>6, <1>7, <1>8 DEF SessionNext, sessionVars, RefreshFind, AbandonRefresh

\* A step that adds nothing to a family leaves it good.
LEMMA Quiet ==
  ASSUME NEW f \in Family, Good(f),
         Active(f)' \subseteq Active(f),
         InFlight(f)' \subseteq InFlight(f),
         \A r \in InFlight(f)' : refresh'[r] = refresh[r],
         Closed(f)' => Closed(f)
  PROVE  Good(f)'
BY DEF Good

LEMMA InFlightSame ==
  ASSUME SessionTypeOK, Presented, [SessionNext]_sessionVars, NEW f \in Family, NEW r \in SessionRequest, refresh'[r] = refresh[r]
  PROVE  r \in InFlight(f)' <=> r \in InFlight(f)
BY RowsStay DEF InFlight, FamilyOf, Presented, SessionTypeOK, RefreshContext

LEMMA UsedStep ==
  ASSUME IInv, [SessionNext]_sessionVars
  PROVE  \A f \in Family : Closed(f)' => InUse(f)'
<1>. SUFFICES ASSUME NEW f \in Family, Closed(f)' PROVE InUse(f)'
  OBVIOUS
<1>1. CASE Closed(f)
  BY <1>1, RowsStay DEF IInv, InUse, FamilyOf
<1>2. CASE ~Closed(f)
  <2>1. CASE \E r \in SessionRequest : RefreshKill(r) /\ FamilyOf(refresh[r].token) = f
    BY <2>1, RowsStay DEF RefreshKill, IInv, Presented, SessionTypeOK, RefreshContext, InUse, FamilyOf
  <2>2. CASE \E t \in Token : Logout(t) /\ FamilyOf(t) = f
    BY <2>2, RowsStay DEF Logout, InUse, FamilyOf, IInv
  <2>3. \/ \E r \in SessionRequest : RefreshKill(r) /\ FamilyOf(refresh[r].token) = f
        \/ \E t \in Token : Logout(t) /\ FamilyOf(t) = f
    <3>1. closed' # closed
      BY <1>2 DEF Closed
    <3>2. (\E r \in SessionRequest : RefreshKill(r)) \/ (\E t \in Token : Logout(t))
      BY <3>1 DEF SessionNext, sessionVars, Login, RefreshFind, RefreshRotate, RefreshIssue, AbandonRefresh, ExpireSession
    <3>3. ASSUME NEW r \in SessionRequest, RefreshKill(r) PROVE FamilyOf(refresh[r].token) = f
      BY <1>2, <3>3 DEF RefreshKill, Closed
    <3>4. ASSUME NEW t \in Token, Logout(t) PROVE FamilyOf(t) = f
      BY <1>2, <3>4 DEF Logout, Closed
    <3>. QED  BY <3>2, <3>3, <3>4
  <2>. QED  BY <2>1, <2>2, <2>3
<1>. QED  BY <1>1, <1>2

---------------------------------------------------------------------------
(* Every step leaves the families without overlap good *)

LEMMA GoodStep ==
  ASSUME IInv, [SessionNext]_sessionVars, NEW f \in Family, f \notin raced'
  PROVE  Good(f)'
<1>. USE DEF IInv, SessionTypeOK
<1>0. f \notin raced /\ Good(f)
  BY DEF SessionNext, sessionVars, Login, RefreshFind, RefreshKill, RefreshRotate, RefreshIssue, AbandonRefresh,
         Logout, ExpireSession
<1>1. ASSUME NEW g \in Family, Login(g) PROVE Good(f)'
  <2>1. PICK t \in Token : /\ session[t].state = "free"
                           /\ session'[t].state = "active" /\ session'[t].family = g
                           /\ \A u \in Token : u # t => session'[u] = session[u]
    BY <1>1, IssueType DEF Login
  <2>2. InFlight(f)' = InFlight(f) /\ UNCHANGED <<refresh, closed>>
    BY <1>1, InFlightSame DEF Login, InFlight
  <2>3. CASE f # g
    <3>1. Active(f)' = Active(f)
      BY <2>1, <2>3 DEF Active, FamilyOf
    <3>. QED  BY <1>0, <2>2, <3>1, Quiet DEF Closed
  <2>4. CASE f = g
    <3>1. InFlight(f) = {} /\ ~Closed(f)
      BY <1>1, <2>4 DEF Login, InUse, InFlight, Presented, RefreshContext, FamilyOf
    <3>2. Active(f)' = {t}
      BY <1>1, <2>1, <2>4 DEF Login, InUse, Active, FamilyOf
    <3>. QED  BY <2>2, <3>1, <3>2 DEF Good, Closed
  <2>. QED  BY <2>3, <2>4
<1>2. ASSUME NEW r \in SessionRequest, NEW t \in Token, RefreshFind(r, t) PROVE Good(f)'
  <2>1. Active(f)' = Active(f) /\ UNCHANGED <<session, closed>>
    BY <1>2 DEF RefreshFind, Active, FamilyOf
  <2>2. \A s \in SessionRequest : s # r => (s \in InFlight(f)' <=> s \in InFlight(f)) /\ refresh'[s] = refresh[s]
    BY <1>2, InFlightSame DEF RefreshFind
  <2>3. CASE FamilyOf(t) # f
    <3>1. r \notin InFlight(f)'
      BY <1>2, <2>3 DEF RefreshFind, InFlight, FamilyOf
    <3>2. InFlight(f)' \subseteq InFlight(f) /\ \A s \in InFlight(f)' : refresh'[s] = refresh[s]
      BY <2>2, <3>1 DEF InFlight
    <3>. QED  BY <1>0, <2>1, <3>2, Quiet DEF Closed
  <2>4. CASE FamilyOf(t) = f
    <3>1. InFlight(f) = {}
      BY <1>2, <2>4 DEF RefreshFind
    <3>2. \A s \in InFlight(f)' : s = r
      BY <2>2, <3>1 DEF InFlight
    <3>3. /\ refresh'[r].token = t
          /\ \/ refresh'[r].pc = "kill"
             \/ refresh'[r].pc = "rotate" /\ t \in Active(f)
      BY <1>2, <2>4 DEF RefreshFind, Active, SessionRow
    <3>. QED  BY <1>0, <2>1, <3>2, <3>3 DEF Good, Closed
  <2>. QED  BY <2>3, <2>4
<1>3. ASSUME NEW r \in SessionRequest, RefreshKill(r) PROVE Good(f)'
  <2>. DEFINE g == FamilyOf(refresh[r].token)
  <2>1. /\ \A s \in SessionRequest : s # r => (s \in InFlight(f)' <=> s \in InFlight(f)) /\ refresh'[s] = refresh[s]
        /\ r \notin InFlight(f)'
    BY <1>3, InFlightSame, Defaults DEF RefreshKill, InFlight
  <2>2. Active(f)' \subseteq Active(f) /\ (f = g => Active(f)' = {})
    BY <1>3 DEF RefreshKill, Active, FamilyOf, SessionRow
  <2>3. CASE f # g
    <3>1. Closed(f)' => Closed(f)
      BY <1>3, <2>3 DEF RefreshKill, Closed
    <3>2. InFlight(f)' \subseteq InFlight(f) /\ \A s \in InFlight(f)' : refresh'[s] = refresh[s]
      BY <2>1 DEF InFlight
    <3>. QED  BY <1>0, <2>2, <3>1, <3>2, Quiet
  <2>4. CASE f = g
    <3>1. r \in InFlight(f)
      BY <1>3, <2>4 DEF RefreshKill, InFlight
    <3>2. InFlight(f)' = {}
      BY <1>0, <2>1, <3>1 DEF Good, InFlight
    <3>. QED  BY <2>2, <2>4, <3>2 DEF Good
  <2>. QED  BY <2>3, <2>4
<1>4. ASSUME NEW r \in SessionRequest, RefreshRotate(r) PROVE Good(f)'
  <2>. DEFINE g == FamilyOf(refresh[r].token)
  <2>1. /\ \A s \in SessionRequest : s # r => (s \in InFlight(f)' <=> s \in InFlight(f)) /\ refresh'[s] = refresh[s]
        /\ refresh'[r].pc = "issue" /\ refresh'[r].token = refresh[r].token
        /\ UNCHANGED closed
    BY <1>4, InFlightSame DEF RefreshRotate, RefreshContext
  <2>2. r \in InFlight(f)' <=> f = g
    BY <1>4, <2>1, RowsStay DEF RefreshRotate, InFlight, FamilyOf, Presented, RefreshContext
  <2>3. Active(f)' \subseteq Active(f) \ {refresh[r].token}
    BY <1>4 DEF RefreshRotate, Active, FamilyOf, SessionRow, RefreshContext
  <2>4. CASE f # g
    <3>1. InFlight(f)' \subseteq InFlight(f) /\ \A s \in InFlight(f)' : refresh'[s] = refresh[s]
      BY <2>1, <2>2, <2>4 DEF InFlight
    <3>. QED  BY <1>0, <2>1, <2>3, <3>1, Quiet DEF Closed
  <2>5. CASE f = g
    <3>1. r \in InFlight(f)
      BY <1>4, <2>5 DEF RefreshRotate, InFlight
    <3>2. Active(f)' = {} /\ ~Closed(f)
      BY <1>0, <1>4, <2>3, <3>1 DEF RefreshRotate, Good
    <3>3. InFlight(f)' \subseteq {r}
      BY <1>0, <2>1, <3>1 DEF Good, InFlight
    <3>. QED  BY <2>1, <3>2, <3>3 DEF Good, Closed
  <2>. QED  BY <2>4, <2>5
<1>5. ASSUME NEW r \in SessionRequest, RefreshIssue(r) PROVE Good(f)'
  <2>. DEFINE g == FamilyOf(refresh[r].token)
  <2>0. g \in Family
    BY DEF FamilyOf, RefreshContext, SessionRow
  <2>1. /\ \A s \in SessionRequest : s # r => (s \in InFlight(f)' <=> s \in InFlight(f)) /\ refresh'[s] = refresh[s]
        /\ r \notin InFlight(f)'
        /\ UNCHANGED closed
    BY <1>5, InFlightSame, Defaults DEF RefreshIssue, InFlight
  <2>2. PICK t \in Token : /\ session[t].state = "free"
                           /\ session'[t].state = "active" /\ session'[t].family = g
                           /\ \A u \in Token : u # t => session'[u] = session[u]
    BY <1>5, <2>0, IssueType DEF RefreshIssue
  <2>3. CASE f # g
    <3>1. Active(f)' = Active(f)
      BY <2>2, <2>3 DEF Active, FamilyOf
    <3>2. InFlight(f)' \subseteq InFlight(f) /\ \A s \in InFlight(f)' : refresh'[s] = refresh[s]
      BY <2>1 DEF InFlight
    <3>. QED  BY <1>0, <2>1, <3>1, <3>2, Quiet DEF Closed
  <2>4. CASE f = g
    <3>1. r \in InFlight(f)
      BY <1>5, <2>4 DEF RefreshIssue, InFlight
    <3>2. Active(f) = {} /\ ~Closed(f)
      BY <1>0, <1>5, <3>1 DEF RefreshIssue, Good
    <3>3. Active(f)' \subseteq {t}
      BY <2>2, <3>2 DEF Active, FamilyOf
    <3>4. InFlight(f)' = {}
      BY <1>0, <2>1, <3>1 DEF Good, InFlight
    <3>. QED  BY <2>1, <3>2, <3>3, <3>4 DEF Good, Closed
  <2>. QED  BY <2>3, <2>4
<1>6. ASSUME NEW r \in SessionRequest, AbandonRefresh(r) PROVE Good(f)'
  <2>1. InFlight(f)' \subseteq InFlight(f) /\ \A s \in InFlight(f)' : refresh'[s] = refresh[s]
    BY <1>6, InFlightSame, Defaults DEF AbandonRefresh, InFlight
  <2>2. Active(f)' = Active(f) /\ UNCHANGED closed
    BY <1>6 DEF AbandonRefresh, Active, FamilyOf
  <2>. QED  BY <1>0, <2>1, <2>2, Quiet DEF Closed
<1>7. ASSUME NEW t \in Token, Logout(t) PROVE Good(f)'
  <2>1. InFlight(f)' = InFlight(f) /\ UNCHANGED refresh
    BY <1>7, InFlightSame DEF Logout, InFlight
  <2>2. Active(f)' = Active(f) \ {t}
    BY <1>7 DEF Logout, Active, FamilyOf, SessionRow
  <2>3. CASE Closed(f)' => Closed(f)
    BY <1>0, <2>1, <2>2, <2>3, Quiet
  <2>4. CASE ~(Closed(f)' => Closed(f))
    <3>1. FamilyOf(t) = f /\ t \in Active(f)
      BY <1>7, <2>4 DEF Logout, Closed, Active
    <3>2. InFlight(f) = {}
      BY <1>7, <3>1 DEF Logout
    <3>3. Active(f)' = {}
      BY <1>0, <2>2, <3>1 DEF Good
    <3>. QED  BY <2>1, <3>2, <3>3 DEF Good
  <2>. QED  BY <2>3, <2>4
<1>8. ASSUME NEW t \in Token, ExpireSession(t) PROVE Good(f)'
  <2>1. InFlight(f)' = InFlight(f) /\ UNCHANGED <<refresh, closed>>
    BY <1>8, InFlightSame DEF ExpireSession, InFlight
  <2>2. Active(f)' = Active(f)
    BY <1>8 DEF ExpireSession, Active, FamilyOf, SessionRow
  <2>. QED  BY <1>0, <2>1, <2>2, Quiet DEF Closed
<1>9. CASE UNCHANGED sessionVars
  BY <1>0, <1>9 DEF sessionVars, Good, Active, InFlight, FamilyOf, Closed
<1>. QED  BY <1>1, <1>2, <1>3, <1>4, <1>5, <1>6, <1>7, <1>8, <1>9 DEF SessionNext

LEMMA NextIInv == IInv /\ [SessionNext]_sessionVars => IInv'
<1>. SUFFICES ASSUME IInv, [SessionNext]_sessionVars PROVE IInv'
  OBVIOUS
<1>1. SessionTypeOK' /\ Presented'
  BY TypeStep DEF IInv
<1>2. \A f \in Family \ raced' : Good(f)'
  BY GoodStep
<1>3. \A f \in Family : Closed(f)' => InUse(f)'
  BY UsedStep
<1>. QED  BY <1>1, <1>2, <1>3 DEF IInv

LEMMA Invariant == SessionSpec => []IInv
BY InitIInv, NextIInv, PTL DEF SessionSpec

\* One usable refresh token for each login at a time, unless two requests of
\* its family have overlapped.
THEOREM RotationLeavesOne == SessionSpec => []OneActiveUnlessRaced
<1>1. IInv => OneActiveUnlessRaced
  BY DEF IInv, Good, OneActiveUnlessRaced
<1>. QED  BY <1>1, Invariant, PTL

\* Replays and logouts end a family for good, unless two requests of it have
\* overlapped.
THEOREM EndedForGood == SessionSpec => []ClosedUnlessRaced
<1>1. IInv => ClosedUnlessRaced
  <2>. SUFFICES ASSUME IInv, NEW c \in closed, c[1] \notin raced PROVE Active(c[1]) = {}
    BY DEF ClosedUnlessRaced
  <2>1. c[1] \in Family /\ Closed(c[1])
    BY DEF IInv, SessionTypeOK, Closed
  <2>. QED  BY <2>1 DEF IInv, Good
<1>. QED  BY <1>1, Invariant, PTL
=============================================================================
