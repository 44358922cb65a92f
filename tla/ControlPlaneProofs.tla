------------------------ MODULE ControlPlaneProofs ------------------------
(***************************************************************************)
(* Proofs about the control plane, for any number of rows and of requests    *)
(* that overlap.  Each area has its inductive invariant, which the steps of  *)
(* the area keep; a step of ControlPlane is a step or a stutter of each.     *)
(***************************************************************************)
EXTENDS ControlPlane, FiniteSetTheorems, TLAPS

---------------------------------------------------------------------------
(* Credentials *)

\* A request that is about to write a credential: a PATCH found the row; the
\* defaults it takes away are of the provider, and it asks for the default then;
\* and a request that does not ask for the default found a row of the provider.
CredPending(q) ==
  \E c \in Credential :
    /\ q.cred = {c}
    /\ q.status \in {"none", "ACTIVE", "DISABLED"}
    /\ q.status = "none" => cred[c].status # "none"
    /\ \A x \in q.unset : ProviderOf[x] = ProviderOf[c]
    /\ ~q.default => /\ q.unset = {}
                     /\ \E x \in Credential : /\ ProviderOf[x] = ProviderOf[c]
                                              /\ cred[x].status # "none"

\* The providers of the pins are among those allowed.
PinsAllowed(pins, allow) == \A c \in pins : ProviderOf[c] \in allow

\* Only stored rows are defaults, no provider has two, and one whose default was
\* not deleted has a default or has never had a row.
DefaultsApart ==
  /\ \A c \in Credential : cred[c].default => cred[c].status \in {"ACTIVE", "DISABLED"}
  /\ \A c, d \in Credential :
       (cred[c].default /\ cred[d].default /\ ProviderOf[c] = ProviderOf[d]) => c = d
  /\ \A p \in Provider \ dropped :
       \/ \E c \in Credential : ProviderOf[c] = p /\ cred[c].default
       \/ \A c \in Credential : ProviderOf[c] = p => cred[c].status = "none"

CredInv ==
  /\ CredTypeOK
  /\ DefaultsApart
  /\ \A r \in CredRequest : creq[r].pc = "cred" => CredPending(creq[r])
  /\ \A r \in CredRequest : creq[r].pc = "key" => /\ \E k \in Key : creq[r].key = {k}
                                                  /\ PinsAllowed(creq[r].pins, creq[r].allow)
  /\ \A k \in Key : PinsAllowed(key[k].pins, key[k].allow)

\* The fields of a request have their types.
CredReq == [pc : {"idle", "cred", "key"}, cred : SUBSET Credential, status : Status,
            default : BOOLEAN, unset : SUBSET Credential, key : SUBSET Key,
            pins : SUBSET Credential, allow : SUBSET Provider]

LEMMA NoReqType == NoReq \in CredReq /\ NoReq.pc = "idle"
  BY DEF NoReq, CredReq, Status

\* A step that only reads puts a request under way.
LEMMA CredReadStep ==
  ASSUME CredInv, NEW r \in CredRequest, NEW q \in CredReq,
         creq' = [creq EXCEPT ![r] = q], UNCHANGED <<cred, key, dropped>>,
         q.pc = "cred" => CredPending(q),
         q.pc = "key" => (\E k \in Key : q.key = {k}) /\ PinsAllowed(q.pins, q.allow)
  PROVE  CredInv'
<1>1. creq' \in [CredRequest -> CredReq]
  BY DEF CredInv, CredTypeOK, CredReq
<1>2. CredTypeOK'
  BY <1>1 DEF CredInv, CredTypeOK, CredReq
<1>3. DefaultsApart'
  BY DEF CredInv, DefaultsApart
<1>4. \A x : CredPending(x)' <=> CredPending(x)
  BY DEF CredPending
<1>5. \A x \in CredRequest : creq'[x] = IF x = r THEN q ELSE creq[x]
  BY DEF CredInv, CredTypeOK
<1> QED
  BY <1>2, <1>3, <1>4, <1>5 DEF CredInv, PinsAllowed

\* The pins that are written together with the list of providers are in it.
LEMMA AllowlistCoversPins ==
  ASSUME CredInv, NEW pins \in SUBSET Credential, NEW base \in SUBSET Provider
  PROVE  /\ ResolveProviderAllowlist(pins, base) \in SUBSET Provider
         /\ PinsAllowed(pins, ResolveProviderAllowlist(pins, base))
  BY CredentialsAssumption DEF ResolveProviderAllowlist, PinsAllowed

LEMMA CredReads ==
  ASSUME CredInv, NEW r \in CredRequest, NEW c \in Credential, NEW d \in BOOLEAN
  PROVE  /\ CreateRead(r, c, d) => CredInv'
         /\ \A s \in {"none", "ACTIVE", "DISABLED"} : PatchRead(r, c, s, d) => CredInv'
<1> DEFINE p == ProviderOf[c]
<1>0. /\ Defaults(p) \subseteq Rows(p) /\ Rows(p) \subseteq Credential
      /\ \A x \in Rows(p) : ProviderOf[x] = p /\ cred[x].status # "none"
  BY DEF Defaults, Rows
<1>1. ASSUME CreateRead(r, c, d) PROVE CredInv'
  <2> DEFINE q == [NoReq EXCEPT
                     !.pc = "cred", !.cred = {c}, !.status = "ACTIVE",
                     !.default = d \/ Rows(p) = {},
                     !.unset = IF d THEN Defaults(p) ELSE {}]
  <2>1. q \in CredReq
    BY <1>0, NoReqType DEF CredReq, Status
  <2>2. CredPending(q)
    BY <1>0 DEF CredPending, NoReq
  <2>3. q.pc = "cred"
    BY DEF NoReq
  <2>4. creq' = [creq EXCEPT ![r] = q] /\ UNCHANGED <<cred, key, dropped>>
    BY <1>1 DEF CreateRead
  <2> HIDE DEF q
  <2> QED
    BY <2>1, <2>2, <2>3, <2>4, CredReadStep
<1>2. ASSUME NEW s \in {"none", "ACTIVE", "DISABLED"}, PatchRead(r, c, s, d) PROVE CredInv'
  <2> DEFINE q == [NoReq EXCEPT
                     !.pc = "cred", !.cred = {c}, !.status = s, !.default = d,
                     !.unset = IF d THEN Defaults(ProviderOf[c]) ELSE {}]
  <2>1. q \in CredReq
    BY <1>0, NoReqType DEF CredReq, Status
  <2>2. cred[c].status # "none"
    BY <1>2 DEF PatchRead, Stored, Rows
  <2>3. CredPending(q)
    BY <1>0, <2>2 DEF CredPending, NoReq
  <2>4. q.pc = "cred"
    BY DEF NoReq
  <2>5. creq' = [creq EXCEPT ![r] = q] /\ UNCHANGED <<cred, key, dropped>>
    BY <1>2 DEF PatchRead
  <2> HIDE DEF q
  <2> QED
    BY <2>1, <2>3, <2>4, <2>5, CredReadStep
<1> QED
  BY <1>1, <1>2

LEMMA KeyReads ==
  ASSUME CredInv, NEW r \in CredRequest, NEW k \in Key, NEW pins \in SUBSET Credential
  PROVE  /\ \A base \in SUBSET Provider : IssueRead(r, k, pins, base) => CredInv'
         /\ PatchKeyRead(r, k, pins) => CredInv'
<1>1. ASSUME NEW base \in SUBSET Provider,
             creq' = [creq EXCEPT ![r] = [NoReq EXCEPT
                        !.pc = "key", !.key = {k}, !.pins = pins,
                        !.allow = ResolveProviderAllowlist(pins, base)]],
             UNCHANGED <<cred, key, dropped>>
      PROVE  CredInv'
  <2> DEFINE q == [NoReq EXCEPT !.pc = "key", !.key = {k}, !.pins = pins,
                                !.allow = ResolveProviderAllowlist(pins, base)]
  <2>1. /\ ResolveProviderAllowlist(pins, base) \in SUBSET Provider
        /\ PinsAllowed(pins, ResolveProviderAllowlist(pins, base))
    BY AllowlistCoversPins
  <2>2. q \in CredReq /\ q.pc = "key" /\ q.key = {k} /\ PinsAllowed(q.pins, q.allow)
    BY <2>1, NoReqType DEF CredReq, NoReq
  <2>3. creq' = [creq EXCEPT ![r] = q]
    BY <1>1
  <2> HIDE DEF q
  <2> QED
    BY <1>1, <2>2, <2>3, CredReadStep
<1>2. key[k].allow \in SUBSET Provider
  BY DEF CredInv, CredTypeOK
<1> QED
  BY <1>1, <1>2 DEF IssueRead, PatchKeyRead

\* A row is never "none" again, so what a pending request has found stays found.
LEMMA PendingStays ==
  ASSUME \A x \in Credential : cred[x].status # "none" => cred'[x].status # "none"
  PROVE  \A q : CredPending(q) => CredPending(q)'
  BY DEF CredPending

\* The transaction of a create or a PATCH: the unique index leaves at most the
\* row that it writes, and takes nothing from other providers.
LEMMA CredWriteStep ==
  ASSUME CredInv, NEW r \in CredRequest, CredWrite(r)
  PROVE  CredInv'
<1> DEFINE q == creq[r]
           c == CHOOSE x \in q.cred : TRUE
           p == ProviderOf[c]
           status == IF q.status = "none" THEN cred[c].status ELSE q.status
           commits == cred[c].status # "deleted" /\ ~(q.default /\ Conflict(c, q.unset))
           newRow(x) == IF x = c THEN [status |-> status, default |-> q.default \/ cred[c].default]
                     ELSE [cred[x] EXCEPT !.default = @ /\ x \notin q.unset]
<1>0. /\ q.pc = "cred"
      /\ cred' = IF ~commits THEN cred ELSE [x \in Credential |-> newRow(x)]
      /\ dropped' = IF commits /\ q.default THEN dropped \ {p} ELSE dropped
      /\ creq' = [creq EXCEPT ![r] = NoReq]
      /\ key' = key
  BY DEF CredWrite
<1>1. /\ c \in Credential /\ q.cred = {c} /\ p \in Provider
      /\ q.status \in {"none", "ACTIVE", "DISABLED"}
      /\ q.status = "none" => cred[c].status # "none"
      /\ \A x \in q.unset : ProviderOf[x] = p
      /\ ~q.default => /\ q.unset = {}
                       /\ \E x \in Credential : ProviderOf[x] = p /\ cred[x].status # "none"
  <2>1. PICK d \in Credential :
          /\ q.cred = {d}
          /\ q.status \in {"none", "ACTIVE", "DISABLED"}
          /\ q.status = "none" => cred[d].status # "none"
          /\ \A x \in q.unset : ProviderOf[x] = ProviderOf[d]
          /\ ~q.default => /\ q.unset = {}
                           /\ \E x \in Credential : /\ ProviderOf[x] = ProviderOf[d]
                                                    /\ cred[x].status # "none"
    BY <1>0 DEF CredInv, CredPending
  <2>2. c = d
    BY <2>1
  <2> QED
    BY <2>1, <2>2, CredentialsAssumption
<1> HIDE DEF c
<1>2. /\ q.default \in BOOLEAN /\ q.unset \subseteq Credential
      /\ \A x \in Credential : /\ cred[x] \in [status : Status, default : BOOLEAN]
                               /\ cred[x].default \in BOOLEAN /\ cred[x].status \in Status
      /\ creq \in [CredRequest -> CredReq] /\ dropped \subseteq Provider
      /\ ProviderOf \in [Credential -> Provider]
  BY CredentialsAssumption DEF CredInv, CredTypeOK, CredReq
<1>3. creq' \in [CredRequest -> CredReq]
  BY <1>0, <1>2, NoReqType
<1>4. ASSUME ~commits PROVE CredInv'
  <2>1. cred' = cred /\ dropped' = dropped
    BY <1>0, <1>4
  <2> QED
    BY <1>0, <2>1, NoReqType, CredReadStep
<1>5. ASSUME commits PROVE CredInv'
  <2>1. cred[c].status # "deleted" /\ ~(q.default /\ Conflict(c, q.unset))
    BY <1>5
  <2>2. cred' = [x \in Credential |-> newRow(x)] /\ (dropped' = IF q.default THEN dropped \ {p} ELSE dropped)
    BY <1>0, <1>5
  <2> HIDE DEF commits, q
  <2>3. /\ cred'[c].status = status
        /\ cred'[c].default = (q.default \/ cred[c].default)
        /\ status \in {"ACTIVE", "DISABLED"}
    BY <1>1, <1>2, <2>1, <2>2 DEF Status
  <2>4. \A x \in Credential \ {c} :
          /\ cred'[x].status = cred[x].status
          /\ cred'[x].default = (cred[x].default /\ x \notin q.unset)
    BY <1>2, <2>2
  <2>5. CredTypeOK'
    <3>1. \A x \in Credential : newRow(x) \in [status : Status, default : BOOLEAN]
      BY <1>1, <1>2, <2>3 DEF Status
    <3>2. cred' \in [Credential -> [status : Status, default : BOOLEAN]]
      BY <2>2, <3>1
    <3> QED
      BY <1>0, <1>2, <1>3, <2>2, <3>2 DEF CredInv, CredTypeOK, CredReq
  <2>6. q.default => \A x \in Credential \ {c} : ProviderOf[x] = p => ~cred'[x].default
    <3> SUFFICES ASSUME q.default, NEW x \in Credential \ {c}, ProviderOf[x] = p, cred'[x].default
                 PROVE  FALSE
      OBVIOUS
    <3>1. cred[x].default /\ x \notin q.unset
      BY <2>4
    <3>2. x \in Defaults(p)
      BY <3>1 DEF Defaults, Rows, CredInv, DefaultsApart
    <3> QED
      BY <2>1, <3>1, <3>2 DEF Conflict
  <2>7. DefaultsApart'
    <3>1. \A x \in Credential : cred'[x].default => cred'[x].status \in {"ACTIVE", "DISABLED"}
      BY <1>1, <2>3, <2>4 DEF CredInv, DefaultsApart
    <3>2. \A x, y \in Credential :
            (cred'[x].default /\ cred'[y].default /\ ProviderOf[x] = ProviderOf[y]) => x = y
      <4>0. \A x \in Credential \ {c} : cred'[x].default => cred[x].default
        BY <2>4
      <4>1. CASE q.default
        <5>1. \A x \in Credential : (ProviderOf[x] = p /\ cred'[x].default) => x = c
          BY <2>6, <4>1
        <5> QED
          BY <4>0, <5>1, <1>1 DEF CredInv, DefaultsApart
      <4>2. CASE ~q.default
        BY <4>2, <1>1, <1>2, <2>3, <2>4 DEF CredInv, DefaultsApart
      <4> QED
        BY <1>2, <4>1, <4>2
    <3>3. ASSUME NEW x \in Provider \ dropped'
          PROVE  \/ \E d \in Credential : ProviderOf[d] = x /\ cred'[d].default
                 \/ \A d \in Credential : ProviderOf[d] = x => cred'[d].status = "none"
      <4>1. CASE x = p /\ q.default
        BY <1>1, <2>3, <4>1
      <4>2. CASE x = p /\ ~q.default
        <5>1. x \notin dropped
          BY <2>2, <3>3, <4>2
        <5>2. \E d \in Credential : ProviderOf[d] = x /\ cred[d].default
          BY <1>1, <4>2, <5>1, <3>3 DEF CredInv, DefaultsApart
        <5> QED
          BY <1>1, <2>3, <2>4, <4>2, <5>2
      <4>3. CASE x # p
        <5>1. x \notin dropped
          BY <2>2, <3>3, <4>3
        <5>2. \A d \in Credential : ProviderOf[d] = x => /\ cred'[d].status = cred[d].status
                                                         /\ cred'[d].default = cred[d].default
          BY <1>1, <1>2, <2>4, <4>3
        <5> QED
          BY <3>3, <5>1, <5>2 DEF CredInv, DefaultsApart
      <4> QED
        BY <1>2, <4>1, <4>2, <4>3
    <3> QED
      BY <3>1, <3>2, <3>3 DEF DefaultsApart
  <2>8. \A x \in Credential : cred[x].status # "none" => cred'[x].status # "none"
    BY <2>3, <2>4
  <2>9. \A s \in CredRequest : creq'[s] = IF s = r THEN NoReq ELSE creq[s]
    BY <1>0, <1>2
  <2>10. ASSUME NEW s \in CredRequest, creq'[s].pc = "cred" PROVE CredPending(creq[s])'
    <3>1. CredPending(creq[s]) /\ creq'[s] = creq[s]
      BY <2>9, <2>10, NoReqType DEF CredInv
    <3> QED
      BY <2>8, <3>1, PendingStays
  <2> QED
    BY <1>0, <2>5, <2>7, <2>9, <2>10, NoReqType DEF CredInv, PinsAllowed
<1> QED
  BY <1>4, <1>5

LEMMA KeyWriteStep ==
  ASSUME CredInv, NEW r \in CredRequest, KeyWrite(r)
  PROVE  CredInv'
<1> DEFINE q == creq[r]
           k == CHOOSE x \in q.key : TRUE
<1>0. /\ q.pc = "key"
      /\ key' = [key EXCEPT ![k] = [there |-> TRUE, pins |-> q.pins, allow |-> q.allow]]
      /\ creq' = [creq EXCEPT ![r] = NoReq]
      /\ cred' = cred /\ dropped' = dropped
  BY DEF KeyWrite
<1>1. k \in Key /\ PinsAllowed(q.pins, q.allow)
  <2>1. PICK x \in Key : q.key = {x}
    BY <1>0 DEF CredInv
  <2> QED
    BY <1>0, <2>1 DEF CredInv
<1>2. creq \in [CredRequest -> CredReq]
  BY DEF CredInv, CredTypeOK, CredReq
<1>3. CredTypeOK'
  <2>1. creq' \in [CredRequest -> CredReq]
    BY <1>0, <1>2, NoReqType
  <2>2. q.pins \subseteq Credential /\ q.allow \subseteq Provider
    BY <1>2 DEF CredReq
  <2> HIDE DEF k
  <2>3. key' \in [Key -> [there : BOOLEAN, pins : SUBSET Credential, allow : SUBSET Provider]]
    BY <1>0, <2>2 DEF CredInv, CredTypeOK
  <2> QED
    BY <1>0, <2>1, <2>3 DEF CredInv, CredTypeOK, CredReq
<1>4. DefaultsApart'
  BY <1>0 DEF CredInv, DefaultsApart
<1>5. \A s \in CredRequest : creq'[s] = IF s = r THEN NoReq ELSE creq[s]
  BY <1>0, <1>2
<1>6. \A x : CredPending(x) => CredPending(x)'
  BY <1>0, PendingStays
<1>7. \A x \in Key : PinsAllowed(key'[x].pins, key'[x].allow)
  <2> HIDE DEF k
  <2> QED
    BY <1>0, <1>1 DEF CredInv, CredTypeOK
<1>8. ASSUME NEW s \in CredRequest, creq'[s].pc = "cred" PROVE CredPending(creq[s])'
  <2>1. CredPending(creq[s]) /\ creq'[s] = creq[s]
    BY <1>5, <1>8, NoReqType DEF CredInv
  <2> QED
    BY <1>6, <2>1
<1> QED
  BY <1>3, <1>4, <1>5, <1>7, <1>8, NoReqType DEF CredInv, PinsAllowed

\* Deleting the default is recorded; no row and no default appears.
LEMMA DeleteCredentialStep ==
  ASSUME CredInv, NEW c \in Credential, DeleteCredential(c)
  PROVE  CredInv'
<1>0. /\ cred' = [cred EXCEPT ![c] = [status |-> "deleted", default |-> FALSE]]
      /\ dropped' = IF cred[c].default THEN dropped \cup {ProviderOf[c]} ELSE dropped
      /\ key' = key /\ creq' = creq
      /\ cred[c].status # "none"
  BY DEF DeleteCredential, Stored, Rows
<1>1. CredTypeOK'
  <2>1. cred' \in [Credential -> [status : Status, default : BOOLEAN]]
    BY <1>0 DEF CredInv, CredTypeOK, Status
  <2>2. dropped' \subseteq Provider
    <3>1. dropped' \in {dropped, dropped \cup {ProviderOf[c]}}
      BY <1>0
    <3>2. ProviderOf[c] \in Provider /\ dropped \subseteq Provider
      BY CredentialsAssumption DEF CredInv, CredTypeOK
    <3> QED
      BY <3>1, <3>2
  <2> QED
    BY <1>0, <2>1, <2>2 DEF CredInv, CredTypeOK
<1>2. /\ cred'[c].status = "deleted" /\ ~cred'[c].default
      /\ \A x \in Credential \ {c} : cred'[x] = cred[x]
  BY <1>0 DEF CredInv, CredTypeOK
<1>3. DefaultsApart'
  <2>1. /\ \A x \in Credential : cred'[x].default => cred'[x].status \in {"ACTIVE", "DISABLED"}
        /\ \A x, y \in Credential :
             (cred'[x].default /\ cred'[y].default /\ ProviderOf[x] = ProviderOf[y]) => x = y
    BY <1>2 DEF CredInv, DefaultsApart
  <2>2. ASSUME NEW p \in Provider \ dropped'
        PROVE  \/ \E x \in Credential : ProviderOf[x] = p /\ cred'[x].default
               \/ \A x \in Credential : ProviderOf[x] = p => cred'[x].status = "none"
    <3>1. p \notin dropped /\ (cred[c].default => ProviderOf[c] # p)
      BY <1>0, <2>2
    <3> QED
      BY <1>0, <1>2, <2>2, <3>1 DEF CredInv, DefaultsApart
  <2> QED
    BY <2>1, <2>2 DEF DefaultsApart
<1>4. \A x : CredPending(x) => CredPending(x)'
  BY <1>0, <1>2, PendingStays
<1>5. ASSUME NEW r \in CredRequest, creq'[r].pc = "cred" PROVE CredPending(creq[r])'
  BY <1>0, <1>4, <1>5 DEF CredInv
<1> QED
  BY <1>0, <1>1, <1>3, <1>5 DEF CredInv, PinsAllowed

LEMMA CredStep == CredInv /\ [CredNext]_credVars => CredInv'
<1> SUFFICES ASSUME CredInv, [CredNext]_credVars PROVE CredInv'
  OBVIOUS
<1>1. CASE UNCHANGED credVars
  BY <1>1 DEF CredInv, CredTypeOK, DefaultsApart, CredPending, PinsAllowed, credVars
<1> QED
  BY <1>1, CredReads, KeyReads, CredWriteStep, KeyWriteStep, DeleteCredentialStep DEF CredNext

LEMMA CredStart == CredInit => CredInv
<1> SUFFICES ASSUME CredInit PROVE CredInv
  OBVIOUS
<1>1. CredTypeOK
  BY NoReqType DEF CredInit, CredTypeOK, CredReq, NoCred, NoKey, Status
<1>2. DefaultsApart
  BY DEF CredInit, DefaultsApart, NoCred
<1> QED
  BY <1>1, <1>2 DEF CredInit, CredInv, NoReq, NoKey, PinsAllowed

LEMMA DefaultsAreUnique == CredInv => DefaultIsUnique
<1> SUFFICES ASSUME CredInv, NEW p \in Provider
             PROVE  /\ Cardinality(Defaults(p)) <= 1
                    /\ Rows(p) # {} /\ p \notin dropped => Defaults(p) # {}
  BY DEF DefaultIsUnique
<1>1. \A c, d \in Defaults(p) : c = d
  BY DEF CredInv, DefaultsApart, Defaults, Rows
<1>2. Cardinality(Defaults(p)) <= 1
  <2>1. CASE Defaults(p) = {}
    BY <2>1, FS_EmptySet
  <2>2. ASSUME NEW c \in Defaults(p) PROVE Cardinality(Defaults(p)) <= 1
    <3>1. Defaults(p) = {c}
      BY <1>1
    <3>2. Cardinality({c}) = 1
      BY FS_Singleton, Zenon
    <3> QED
      BY <3>1, <3>2
  <2> QED
    BY <2>1, <2>2
<1>3. ASSUME Rows(p) # {}, p \notin dropped PROVE Defaults(p) # {}
  <2>1. PICK c \in Credential : ProviderOf[c] = p /\ cred[c].status # "none"
    BY <1>3 DEF Rows
  <2>2. PICK d \in Credential : ProviderOf[d] = p /\ cred[d].default
    BY <1>3, <2>1 DEF CredInv, DefaultsApart
  <2> QED
    BY <2>2 DEF CredInv, DefaultsApart, Defaults, Rows
<1> QED
  BY <1>2, <1>3

LEMMA PinsAreServed == CredInv => PinnedIsServed
<1> SUFFICES ASSUME CredInv, NEW k \in Key, NEW c \in Stored,
                    c \in key[k].pins, cred[c].status = "ACTIVE"
             PROVE  /\ ProviderAllowed(k, ProviderOf[c])
                    /\ GetDefault(k, ProviderOf[c]) # {}
                    /\ GetDefault(k, ProviderOf[c]) \subseteq key[k].pins
  BY DEF PinnedIsServed
<1>1. c \in Rows(ProviderOf[c])
  BY DEF Stored, Rows
<1> QED
  BY <1>1 DEF CredInv, PinsAllowed, ProviderAllowed, GetDefault

---------------------------------------------------------------------------
(* Teams *)

\* Whoever a request is about to add was in the workspace when it looked.
TeamInv ==
  /\ TeamTypeOK
  /\ NothingDangles
  /\ \A r \in TeamRequest : treq[r].pc = "add" =>
       \A u \in treq[r].user : role[u] # "none" \/ u \in left

TeamReq == [pc : {"idle", "add", "edit", "key", "delete"}, team : Team \cup {NoTeam},
            user : SUBSET User, project : SUBSET Project, value : {"none", "MEMBER", "LEAD"}]

LEMMA FreeType == Free \in TeamReq /\ Free.pc = "idle"
  BY DEF Free, TeamReq

\* A step that only puts a request under way, or takes one back.
LEMMA TeamReadStep ==
  ASSUME TeamInv, NEW r \in TeamRequest, NEW q \in TeamReq,
         treq' = [treq EXCEPT ![r] = q], UNCHANGED <<role, team, member, project, left>>,
         q.pc = "add" => \A u \in q.user : role[u] # "none" \/ u \in left
  PROVE  TeamInv'
<1>1. treq' \in [TeamRequest -> TeamReq]
  BY DEF TeamInv, TeamTypeOK, TeamReq
<1>2. TeamTypeOK'
  BY <1>1 DEF TeamInv, TeamTypeOK, TeamReq
<1>3. NothingDangles'
  BY DEF TeamInv, NothingDangles, IsTeam, IsProject
<1>4. \A x \in TeamRequest : treq'[x] = IF x = r THEN q ELSE treq[x]
  BY DEF TeamInv, TeamTypeOK
<1> QED
  BY <1>2, <1>3, <1>4 DEF TeamInv

\* The checks that requests make before they write.
LEMMA TeamReads ==
  ASSUME TeamInv, NEW r \in TeamRequest
  PROVE  /\ \A t \in Team, by, u \in User, as \in {"MEMBER", "LEAD"} :
              AddMemberCheck(r, t, by, u, as) => TeamInv'
         /\ \A t \in Team, by, u \in User, as \in {"none", "MEMBER", "LEAD"} :
              EditMemberCheck(r, t, by, u, as) => TeamInv'
         /\ \A p \in Project : IssueKeyCheck(r, p) \/ DeleteProjectCheck(r, p) => TeamInv'
<1>1. ASSUME NEW t \in Team, NEW by \in User, NEW u \in User, NEW as \in {"MEMBER", "LEAD"},
             AddMemberCheck(r, t, by, u, as)
      PROVE  TeamInv'
  <2> DEFINE q == [Free EXCEPT !.pc = "add", !.team = t, !.user = {u}, !.value = as]
  <2>1. q \in TeamReq /\ q.user = {u}
    BY FreeType DEF TeamReq, Free
  <2>2. role[u] # "none" /\ treq' = [treq EXCEPT ![r] = q]
        /\ UNCHANGED <<role, team, member, project, left>>
    BY <1>1 DEF AddMemberCheck, InWorkspace
  <2> HIDE DEF q
  <2> QED
    BY <2>1, <2>2, TeamReadStep
<1>2. ASSUME NEW t \in Team, NEW by \in User, NEW u \in User,
             NEW as \in {"none", "MEMBER", "LEAD"}, EditMemberCheck(r, t, by, u, as)
      PROVE  TeamInv'
  <2> DEFINE q == [Free EXCEPT !.pc = "edit", !.team = t, !.user = {u}, !.value = as]
  <2>1. q \in TeamReq /\ q.pc # "add"
    BY FreeType DEF TeamReq, Free
  <2>2. treq' = [treq EXCEPT ![r] = q] /\ UNCHANGED <<role, team, member, project, left>>
    BY <1>2 DEF EditMemberCheck
  <2> HIDE DEF q
  <2> QED
    BY <2>1, <2>2, TeamReadStep
<1>3. ASSUME NEW p \in Project, NEW pc \in {"key", "delete"},
             treq' = [treq EXCEPT ![r] = [Free EXCEPT !.pc = pc, !.project = {p}]],
             UNCHANGED <<role, team, member, project, left>>
      PROVE  TeamInv'
  <2> DEFINE q == [Free EXCEPT !.pc = pc, !.project = {p}]
  <2>1. q \in TeamReq /\ q.pc # "add"
    BY FreeType DEF TeamReq, Free
  <2> HIDE DEF q
  <2> QED
    BY <1>3, <2>1, TeamReadStep DEF q
<1> QED
  BY <1>1, <1>2, <1>3 DEF IssueKeyCheck, DeleteProjectCheck

\* A write to the members of a team that is there, or only to rows that are.
LEMMA MemberWrites ==
  ASSUME TeamInv, NEW r \in TeamRequest, AddMember(r) \/ EditMember(r)
  PROVE  TeamInv'
<1> DEFINE t == treq[r].team
<1>0. /\ treq \in [TeamRequest -> TeamReq]
      /\ member \in [Team -> [User -> {"none", "MEMBER", "LEAD"}]]
      /\ treq' = [treq EXCEPT ![r] = Free]
      /\ UNCHANGED <<role, team, project, left>>
      /\ treq[r].value \in {"none", "MEMBER", "LEAD"}
  BY DEF TeamInv, TeamTypeOK, TeamReq, AddMember, EditMember, Done
<1>1. /\ member' \in [Team -> [User -> {"none", "MEMBER", "LEAD"}]]
      /\ \A s \in Team, u \in User : member[s][u] = "none" =>
           \/ member'[s][u] = "none"
           \/ IsTeam(s) /\ (role[u] # "none" \/ u \in left)
  <2>1. CASE AddMember(r) /\ IsTeam(t)
    <3>1. /\ member' = [member EXCEPT ![t] = [u \in User |->
                          IF u \in treq[r].user /\ @[u] = "none" THEN treq[r].value ELSE @[u]]]
          /\ \A u \in treq[r].user : role[u] # "none" \/ u \in left
      BY <2>1 DEF AddMember, Asked, TeamInv
    <3> QED
      BY <1>0, <2>1, <3>1
  <2>2. CASE AddMember(r) /\ ~IsTeam(t)
    BY <1>0, <2>2 DEF AddMember
  <2>3. CASE EditMember(r)
    <3>1. member' = [member EXCEPT ![t] = [u \in User |->
                       IF u \in treq[r].user /\ @[u] # "none" THEN treq[r].value ELSE @[u]]]
      BY <2>3 DEF EditMember
    <3> QED
      BY <1>0, <3>1
  <2> QED
    BY <2>1, <2>2, <2>3
<1>2. treq' \in [TeamRequest -> TeamReq]
  BY <1>0, FreeType
<1>3. TeamTypeOK'
  BY <1>0, <1>1, <1>2 DEF TeamInv, TeamTypeOK, TeamReq
<1>4. NothingDangles'
  BY <1>0, <1>1 DEF TeamInv, NothingDangles, IsTeam, IsProject
<1>5. \A x \in TeamRequest : treq'[x] = IF x = r THEN Free ELSE treq[x]
  BY <1>0
<1> QED
  BY <1>0, <1>3, <1>4, <1>5, FreeType DEF TeamInv

\* A step that changes teams, members and projects and takes back the request.
LEMMA RowsStep ==
  ASSUME TeamInv, UNCHANGED <<role, left>>, NothingDangles',
         member' \in [Team -> [User -> {"none", "MEMBER", "LEAD"}]],
         team' \in [Team -> {"none", "there", "deleted"}],
         project' \in [Project -> [status : {"none", "ACTIVE", "ARCHIVED", "deleted"},
                                   team : Team \cup {NoTeam}, keys : BOOLEAN, usage : BOOLEAN]],
         \/ treq' = treq
         \/ \E r \in TeamRequest : treq' = [treq EXCEPT ![r] = Free]
  PROVE  TeamInv'
<1>1. treq \in [TeamRequest -> TeamReq]
  BY DEF TeamInv, TeamTypeOK, TeamReq
<1>2. /\ treq' \in [TeamRequest -> TeamReq]
      /\ \A x \in TeamRequest : treq'[x] = treq[x] \/ treq'[x].pc = "idle"
  <2>1. CASE treq' = treq
    BY <1>1, <2>1
  <2>2. ASSUME NEW r \in TeamRequest, treq' = [treq EXCEPT ![r] = Free]
        PROVE  /\ treq' \in [TeamRequest -> TeamReq]
               /\ \A x \in TeamRequest : treq'[x] = treq[x] \/ treq'[x].pc = "idle"
    BY <1>1, <2>2, FreeType
  <2> QED
    BY <2>1, <2>2
<1> QED
  BY <1>2 DEF TeamInv, TeamTypeOK, TeamReq

ProjectRow == [status : {"none", "ACTIVE", "ARCHIVED", "deleted"},
               team : Team \cup {NoTeam}, keys : BOOLEAN, usage : BOOLEAN]

\* A project row that may replace another one: the team that owns it is there,
\* and so is a project with keys or usage.
SoundRow(x) ==
  /\ x \in ProjectRow
  /\ x.team # NoTeam => IsTeam(x.team)
  /\ x.usage \/ x.keys => x.status \in {"ACTIVE", "ARCHIVED"}

LEMMA RowIsSound ==
  ASSUME TeamInv, NEW p \in Project
  PROVE  SoundRow(project[p])
<1>1. project[p] \in ProjectRow
  BY DEF TeamInv, TeamTypeOK, ProjectRow
<1>2. project[p].team # NoTeam => IsTeam(project[p].team)
  BY <1>1 DEF TeamInv, NothingDangles, ProjectRow
<1> QED
  BY <1>1, <1>2 DEF TeamInv, NothingDangles, SoundRow, IsProject

\* Writes of sound rows to projects.
LEMMA ProjectWrites ==
  ASSUME TeamInv, UNCHANGED <<role, team, member, left>>,
         \/ treq' = treq
         \/ \E r \in TeamRequest : treq' = [treq EXCEPT ![r] = Free],
         NEW f, project' = [p \in Project |-> f[p]],
         \A p \in Project : SoundRow(f[p])
  PROVE  TeamInv'
<1>1. \A p \in Project : SoundRow(project'[p])
  OBVIOUS
<1>2. project' \in [Project -> ProjectRow]
  BY DEF SoundRow
<1>3. NothingDangles'
  BY <1>1, TeamsAssumption DEF TeamInv, NothingDangles, IsTeam, IsProject, SoundRow
<1> QED
  BY <1>2, <1>3, RowsStep DEF ProjectRow, TeamInv, TeamTypeOK

LEMMA ProjectSteps ==
  ASSUME TeamInv, NEW p \in Project, NEW t \in Team \cup {NoTeam},
         NEW s \in {"ACTIVE", "ARCHIVED"},
         CreateProject(p, t) \/ PatchProject(p, t, s) \/ RecordUsage(p)
  PROVE  TeamInv'
<1>0. /\ project \in [Project -> ProjectRow]
      /\ \A x \in Project : SoundRow(project[x])
      /\ UNCHANGED <<role, team, member, treq, left>>
  BY RowIsSound DEF TeamInv, TeamTypeOK, ProjectRow, CreateProject, PatchProject, RecordUsage
<1>1. CASE CreateProject(p, t)
  <2> DEFINE row1 == [NoProject EXCEPT !.status = "ACTIVE", !.team = t]
  <2>1. project' = [project EXCEPT ![p] = row1] /\ (t # NoTeam => IsTeam(t))
    BY <1>1 DEF CreateProject, Owners
  <2>2. SoundRow(row1)
    BY <2>1 DEF SoundRow, NoProject, ProjectRow
  <2> HIDE DEF row1
  <2>3. project' = [x \in Project |-> project'[x]] /\ \A x \in Project : SoundRow(project'[x])
    BY <1>0, <2>1, <2>2
  <2> QED
    BY <1>0, <2>3, ProjectWrites
<1>2. CASE PatchProject(p, t, s)
  <2> DEFINE row2 == [[project[p] EXCEPT !.team = t] EXCEPT !.status = s]
  <2>1. project' = [project EXCEPT ![p] = row2] /\ (t # NoTeam => IsTeam(t))
    BY <1>0, <1>2 DEF PatchProject, Owners, ProjectRow
  <2>2. SoundRow(row2)
    BY <1>0, <2>1 DEF SoundRow, ProjectRow
  <2> HIDE DEF row2
  <2>3. project' = [x \in Project |-> project'[x]] /\ \A x \in Project : SoundRow(project'[x])
    BY <1>0, <2>1, <2>2
  <2> QED
    BY <1>0, <2>3, ProjectWrites
<1>3. CASE RecordUsage(p)
  <2> DEFINE row3 == [project[p] EXCEPT !.usage = TRUE]
  <2>1. project' = [project EXCEPT ![p] = row3] /\ IsProject(p)
    BY <1>0, <1>3 DEF RecordUsage, ProjectRow
  <2>2. SoundRow(row3)
    BY <1>0, <2>1 DEF SoundRow, ProjectRow, IsProject
  <2> HIDE DEF row3
  <2>3. project' = [x \in Project |-> project'[x]] /\ \A x \in Project : SoundRow(project'[x])
    BY <1>0, <2>1, <2>2
  <2> QED
    BY <1>0, <2>3, ProjectWrites
<1> QED
  BY <1>1, <1>2, <1>3

\* Keys are written to projects that are there, and a project is deleted with
\* its keys and never with usage, whatever came in since it was checked.
LEMMA ProjectRequests ==
  ASSUME TeamInv, NEW r \in TeamRequest, IssueKey(r) \/ DeleteProject(r)
  PROVE  TeamInv'
<1>0. /\ project \in [Project -> ProjectRow]
      /\ \A x \in Project : SoundRow(project[x])
      /\ UNCHANGED <<role, team, member, left>>
      /\ treq' = [treq EXCEPT ![r] = Free]
  BY RowIsSound DEF TeamInv, TeamTypeOK, ProjectRow, IssueKey, DeleteProject, Done
<1>1. /\ project' = [x \in Project |-> project'[x]]
      /\ \A x \in Project :
           \/ project'[x] = project[x]
           \/ IsProject(x) /\ project'[x] = [project[x] EXCEPT !.keys = TRUE]
           \/ ~project[x].usage /\ project'[x] = [project[x] EXCEPT !.status = "deleted",
                                                     !.team = NoTeam, !.keys = FALSE]
  BY DEF IssueKey, DeleteProject, Restricted
<1>2. ASSUME NEW x \in Project PROVE SoundRow(project'[x])
  <2>0. SoundRow(project[x])
    BY <1>0
  <2>1. CASE project'[x] = project[x]
    BY <2>0, <2>1
  <2>2. CASE IsProject(x) /\ project'[x] = [project[x] EXCEPT !.keys = TRUE]
    BY <2>0, <2>2 DEF SoundRow, ProjectRow, IsProject
  <2>3. CASE ~project[x].usage /\ project'[x] = [project[x] EXCEPT !.status = "deleted",
                                                    !.team = NoTeam, !.keys = FALSE]
    BY <2>0, <2>3 DEF SoundRow, ProjectRow
  <2> QED
    BY <1>1, <2>1, <2>2, <2>3
<1> QED
  BY <1>0, <1>1, <1>2, ProjectWrites

\* A deleted team takes its members along and disowns its projects.
LEMMA TeamSteps ==
  ASSUME TeamInv, NEW t \in Team, CreateTeam(t) \/ DeleteTeam(t)
  PROVE  TeamInv'
<1>0. /\ team \in [Team -> {"none", "there", "deleted"}]
      /\ member \in [Team -> [User -> {"none", "MEMBER", "LEAD"}]]
      /\ project \in [Project -> ProjectRow]
      /\ UNCHANGED <<role, treq, left>>
  BY DEF TeamInv, TeamTypeOK, ProjectRow, CreateTeam, DeleteTeam
<1>1. CASE CreateTeam(t)
  <2>1. NothingDangles'
    BY <1>0, <1>1 DEF TeamInv, NothingDangles, IsTeam, IsProject, CreateTeam
  <2>2. team' \in [Team -> {"none", "there", "deleted"}] /\ member' = member /\ project' = project
    BY <1>0, <1>1 DEF CreateTeam
  <2> QED
    BY <1>0, <2>1, <2>2, RowsStep DEF ProjectRow
<1>2. CASE DeleteTeam(t)
  <2>1. /\ team' = [team EXCEPT ![t] = "deleted"]
        /\ member' = [member EXCEPT ![t] = [u \in User |-> "none"]]
        /\ project' = [p \in Project |-> IF project[p].team = t
                                         THEN [project[p] EXCEPT !.team = NoTeam] ELSE project[p]]
    BY <1>2 DEF DeleteTeam, Disowned
  <2>2. /\ team' \in [Team -> {"none", "there", "deleted"}]
        /\ member' \in [Team -> [User -> {"none", "MEMBER", "LEAD"}]]
    BY <1>0, <2>1
  <2>3. /\ project' \in [Project -> ProjectRow]
        /\ \A p \in Project :
             /\ project'[p].team # t
             /\ project'[p].team \in {project[p].team, NoTeam}
             /\ project'[p].usage = project[p].usage /\ project'[p].keys = project[p].keys
             /\ project'[p].status = project[p].status
    BY <1>0, <2>1, TeamsAssumption DEF ProjectRow
  <2>4. NothingDangles'
    <3>1. \A s \in Team : ~IsTeam(s)' => /\ \A u \in User : member'[s][u] = "none"
                                         /\ \A p \in Project : project'[p].team # s
      BY <1>0, <2>1, <2>3, TeamsAssumption DEF TeamInv, NothingDangles, IsTeam
    <3>2. \A p \in Project : project'[p].usage \/ project'[p].keys => IsProject(p)'
      BY <2>3 DEF TeamInv, NothingDangles, IsProject
    <3>3. \A s \in Team, u \in User : member'[s][u] # "none" => role'[u] # "none" \/ u \in left'
      BY <1>0, <2>1 DEF TeamInv, NothingDangles
    <3> QED
      BY <3>1, <3>2, <3>3 DEF NothingDangles
  <2> QED
    BY <1>0, <2>2, <2>3, <2>4, RowsStep DEF ProjectRow
<1> QED
  BY <1>1, <1>2

\* Leaving the workspace is on record, and joining it changes no team.
LEMMA WorkspaceSteps ==
  ASSUME TeamInv, NEW u \in User, RemoveWorkspaceMember(u) \/ JoinWorkspace(u)
  PROVE  TeamInv'
<1>0. /\ role' \in [User -> {"none", "MEMBER", "ADMIN"}] /\ left' \subseteq User
      /\ UNCHANGED <<team, member, project, treq>>
      /\ \A x \in User : role[x] # "none" \/ x \in left => role'[x] # "none" \/ x \in left'
  <2>0. role \in [User -> {"none", "MEMBER", "ADMIN"}] /\ left \subseteq User
    BY DEF TeamInv, TeamTypeOK
  <2>1. CASE RemoveWorkspaceMember(u)
    BY <2>0, <2>1 DEF RemoveWorkspaceMember
  <2>2. CASE JoinWorkspace(u)
    BY <2>0, <2>2 DEF JoinWorkspace
  <2> QED
    BY <2>1, <2>2
<1>1. TeamTypeOK'
  BY <1>0 DEF TeamInv, TeamTypeOK
<1>2. NothingDangles'
  BY <1>0 DEF TeamInv, NothingDangles, IsTeam, IsProject
<1>3. \A r \in TeamRequest : treq[r].user \subseteq User
  BY DEF TeamInv, TeamTypeOK
<1> QED
  BY <1>0, <1>1, <1>2, <1>3 DEF TeamInv

LEMMA TeamStep == TeamInv /\ [TeamNext]_teamVars => TeamInv'
<1> SUFFICES ASSUME TeamInv, [TeamNext]_teamVars PROVE TeamInv'
  OBVIOUS
<1>1. CASE UNCHANGED teamVars
  BY <1>1 DEF TeamInv, TeamTypeOK, NothingDangles, IsTeam, IsProject, teamVars
<1> QED
  BY <1>1, TeamReads, MemberWrites, ProjectRequests, ProjectSteps, TeamSteps, WorkspaceSteps
  DEF TeamNext

LEMMA TeamStart == TeamInit => TeamInv
<1> SUFFICES ASSUME TeamInit PROVE TeamInv
  OBVIOUS
<1>1. TeamTypeOK
  BY FreeType DEF TeamInit, TeamTypeOK, TeamReq, NoProject
<1>2. NothingDangles
  BY TeamsAssumption DEF TeamInit, NothingDangles, IsTeam, IsProject, NoProject
<1> QED
  BY <1>1, <1>2, FreeType DEF TeamInit, TeamInv

---------------------------------------------------------------------------
(* Prices *)

\* A PATCH that is about to write was allowed to re-key the row as it read it.
PatchesAllowed ==
  \A r \in PriceRequest : preq[r].pc = "write" =>
    /\ \E o \in Override : preq[r].row = {o}
    /\ preq[r].role = "OWNER" \/ preq[r].was = preq[r].to

\* Unless refreshes have overlapped one at most is under way, and what it has
\* read of the overrides is no older than the snapshot.
RefreshesInOrder ==
  /\ snap.at <= clock
  /\ ~overlap => /\ \A s, t \in Refresh : refresh[s].on /\ refresh[t].on => s = t
                 /\ \A s \in Refresh : \A n \in refresh[s].at : n >= snap.at
  /\ \A s \in Refresh : /\ ~refresh[s].on => refresh[s].at = {}
                       /\ \A n \in refresh[s].at : n <= clock

PriceInv == PriceTypeOK /\ PatchesAllowed /\ RefreshesInOrder

PriceReq == [pc : {"idle", "write"}, row : SUBSET Override, role : {"ADMIN", "OWNER"},
             was : Pattern \cup {NoPattern}, to : Pattern \cup {NoPattern}]
Answer   == [on : BOOLEAN, prices : SUBSET (0..MaxRows), at : SUBSET (0..MaxWrites)]

LEMMA NoPatchType == NoPatch \in PriceReq /\ NoPatch.pc = "idle"
  BY DEF NoPatch, PriceReq

LEMMA NoAnswerType == NoAnswer \in Answer /\ ~NoAnswer.on /\ NoAnswer.at = {}
  BY DEF NoAnswer, Answer

\* The next write stays within the types.
LEMMA WriteType ==
  ASSUME PriceInv, NEW o \in Override, NEW p \in Pattern \cup {NoPattern, Gone}, Write(o, p)
  PROVE  /\ clock' \in 0..MaxWrites /\ clock' > clock
         /\ row' \in [Override -> Pattern \cup {NoPattern, Gone}]
         /\ row' = [row EXCEPT ![o] = p]
  BY PricesAssumption DEF PriceInv, PriceTypeOK, Write

\* Steps of the API on the overrides and of the seed on the catalog.
LEMMA PriceApiSteps ==
  ASSUME PriceInv, UNCHANGED <<snap, refresh, overlap>>,
         clock' \in 0..MaxWrites, clock' >= clock, catalog' \in 0..MaxRows,
         row' \in [Override -> Pattern \cup {NoPattern, Gone}],
         preq' \in [PriceRequest -> PriceReq], PatchesAllowed'
  PROVE  PriceInv'
<1>1. PriceTypeOK'
  BY DEF PriceInv, PriceTypeOK, PriceReq
<1>2. RefreshesInOrder'
  <2>1. /\ snap.at \in 0..MaxWrites /\ clock \in 0..MaxWrites
        /\ \A s \in Refresh : refresh[s].at \subseteq 0..MaxWrites
    BY DEF PriceInv, PriceTypeOK
  <2>2. snap'.at <= clock' /\ \A s \in Refresh : \A n \in refresh[s].at : n <= clock'
    BY <2>1, PricesAssumption DEF PriceInv, RefreshesInOrder
  <2> QED
    BY <2>2 DEF PriceInv, RefreshesInOrder
<1> QED
  BY <1>1, <1>2 DEF PriceInv

LEMMA PriceWrites ==
  ASSUME PriceInv
  PROVE  /\ \A o \in Override : DeleteOverride(o) => PriceInv'
         /\ \A o \in Override, p \in Pattern : CreateOverride(o, p) => PriceInv'
         /\ \A r \in PriceRequest, o \in Override, role1 \in {"ADMIN", "OWNER"}, p \in Pattern :
              PatchRowRead(r, o, role1, p) => PriceInv'
         /\ \A r \in PriceRequest : PatchRowWrite(r) => PriceInv'
         /\ SeedRow => PriceInv'
<1>0. /\ clock \in 0..MaxWrites /\ catalog \in 0..MaxRows
      /\ row \in [Override -> Pattern \cup {NoPattern, Gone}]
      /\ preq \in [PriceRequest -> PriceReq]
      /\ MaxWrites \in Nat /\ MaxRows \in Nat
  BY PricesAssumption DEF PriceInv, PriceTypeOK, PriceReq
<1>1. ASSUME NEW o \in Override, NEW p \in Pattern \cup {Gone}, Write(o, p),
             UNCHANGED <<catalog, preq, snap, refresh, overlap>>
      PROVE  PriceInv'
  BY <1>0, <1>1, WriteType, PriceApiSteps DEF PriceInv, PatchesAllowed
<1>2. ASSUME NEW r \in PriceRequest, NEW o \in Override, NEW role1 \in {"ADMIN", "OWNER"},
             NEW p \in Pattern, PatchRowRead(r, o, role1, p)
      PROVE  PriceInv'
  <2> DEFINE q == [pc |-> "write", row |-> {o}, role |-> role1, was |-> row[o], to |-> p]
  <2>1. preq' = [preq EXCEPT ![r] = q] /\ There(o) /\ MayRekey(role1, row[o], p)
        /\ UNCHANGED <<row, clock, catalog, snap, refresh, overlap>>
    BY <1>2 DEF PatchRowRead
  <2>2. q \in PriceReq /\ q.row = {o} /\ (q.role = "OWNER" \/ q.was = q.to)
    BY <2>1 DEF PriceReq, There, MayRekey
  <2> HIDE DEF q
  <2>3. preq' \in [PriceRequest -> PriceReq] /\ PatchesAllowed'
    BY <1>0, <2>1, <2>2 DEF PriceInv, PatchesAllowed
  <2> QED
    BY <1>0, <2>1, <2>3, PriceApiSteps
<1>3. ASSUME NEW r \in PriceRequest, PatchRowWrite(r) PROVE PriceInv'
  <2> DEFINE q == preq[r]
             o == CHOOSE x \in q.row : TRUE
  <2>1. /\ q.pc = "write"
        /\ IF There(o) /\ ~Taken(o, q.to) THEN Write(o, q.to) ELSE UNCHANGED <<row, clock>>
        /\ preq' = [preq EXCEPT ![r] = NoPatch]
        /\ UNCHANGED <<catalog, snap, refresh, overlap>>
    BY <1>3 DEF PatchRowWrite
  <2>2. o \in Override
    BY <2>1 DEF PriceInv, PatchesAllowed
  <2>3. q.to \in Pattern \cup {NoPattern, Gone}
    BY <1>0 DEF PriceReq
  <2>4. preq' \in [PriceRequest -> PriceReq] /\ PatchesAllowed'
    BY <1>0, <2>1, NoPatchType DEF PriceInv, PatchesAllowed
  <2> HIDE DEF o, q
  <2>5. clock' \in 0..MaxWrites /\ clock' >= clock
        /\ row' \in [Override -> Pattern \cup {NoPattern, Gone}]
    BY <1>0, <2>1, <2>2, <2>3, WriteType
  <2> QED
    BY <1>0, <2>1, <2>4, <2>5, PriceApiSteps
<1>4. ASSUME SeedRow PROVE PriceInv'
  BY <1>0, <1>4, PriceApiSteps DEF SeedRow, PriceInv, PatchesAllowed
<1> QED
  BY <1>1, <1>2, <1>3, <1>4 DEF DeleteOverride, CreateOverride

\* What a refresh does to itself, and, when it is installed, to the snapshot.
LEMMA RefreshSteps ==
  ASSUME PriceInv, NEW s \in Refresh,
         RefreshStart(s) \/ ReadPrices(s) \/ ReadOverrides(s) \/ Install(s) \/ RefreshFails(s)
  PROVE  PriceInv'
<1>0. /\ clock \in 0..MaxWrites /\ catalog \in 0..MaxRows /\ snap.at \in 0..MaxWrites
      /\ snap \in [catalog : {"bundled", "table"}, at : 0..MaxWrites]
      /\ refresh \in [Refresh -> Answer] /\ overlap \in BOOLEAN
      /\ MaxWrites \in Nat /\ MaxRows \in Nat
      /\ UNCHANGED <<row, clock, catalog, preq>>
  BY PricesAssumption DEF PriceInv, PriceTypeOK, Answer, RefreshStart, ReadPrices,
     ReadOverrides, Install, RefreshFails
<1>1. SUFFICES /\ snap' \in [catalog : {"bundled", "table"}, at : 0..MaxWrites]
               /\ refresh' \in [Refresh -> Answer] /\ overlap' \in BOOLEAN
               /\ RefreshesInOrder'
  BY <1>0 DEF PriceInv, PriceTypeOK, PatchesAllowed, Answer
<1>2. CASE RefreshStart(s)
  <2> DEFINE a == [NoAnswer EXCEPT !.on = TRUE]
  <2>1. a \in Answer /\ a.on /\ a.at = {}
    BY NoAnswerType DEF Answer, NoAnswer
  <2>2. /\ refresh' = [refresh EXCEPT ![s] = a] /\ snap' = snap
        /\ overlap' = (overlap \/ \E x \in Refresh : refresh[x].on)
    BY <1>2 DEF RefreshStart
  <2> HIDE DEF a
  <2> QED
    BY <1>0, <2>1, <2>2 DEF PriceInv, RefreshesInOrder
<1>3. CASE ReadPrices(s)
  <2> DEFINE a == [refresh[s] EXCEPT !.prices = {catalog}]
  <2>1. a \in Answer /\ a.on = refresh[s].on /\ a.at = refresh[s].at
    BY <1>0 DEF Answer
  <2>2. refresh' = [refresh EXCEPT ![s] = a] /\ snap' = snap /\ overlap' = overlap
    BY <1>3 DEF ReadPrices
  <2> HIDE DEF a
  <2> QED
    BY <1>0, <2>1, <2>2 DEF PriceInv, RefreshesInOrder
<1>4. CASE ReadOverrides(s)
  <2> DEFINE a == [refresh[s] EXCEPT !.at = {clock}]
  <2>1. a \in Answer /\ a.on /\ refresh[s].on /\ a.at = {clock}
    BY <1>0, <1>4 DEF Answer, ReadOverrides
  <2>2. refresh' = [refresh EXCEPT ![s] = a] /\ snap' = snap /\ overlap' = overlap
    BY <1>4 DEF ReadOverrides
  <2> HIDE DEF a
  <2> QED
    BY <1>0, <2>1, <2>2 DEF PriceInv, RefreshesInOrder
<1>5. CASE Install(s)
  <2>1. PICK n \in refresh[s].at :
          /\ refresh[s].on
          /\ snap' = [catalog |-> CatalogOf(refresh[s].prices), at |-> n]
          /\ refresh' = [refresh EXCEPT ![s] = NoAnswer] /\ overlap' = overlap
    BY <1>5 DEF Install
  <2>2. n \in 0..MaxWrites /\ CatalogOf(refresh[s].prices) \in {"bundled", "table"}
    BY <1>0, <2>1 DEF Answer, CatalogOf
  <2>3. \A x \in Refresh \ {s} : ~overlap => ~refresh[x].on
    BY <1>0, <2>1 DEF PriceInv, RefreshesInOrder
  <2>4. n <= clock
    BY <2>1 DEF PriceInv, RefreshesInOrder
  <2> QED
    BY <1>0, <2>1, <2>2, <2>3, <2>4, NoAnswerType DEF PriceInv, RefreshesInOrder
<1>6. CASE RefreshFails(s)
  BY <1>0, <1>6, NoAnswerType DEF PriceInv, RefreshesInOrder, RefreshFails, AfterFailure
<1> QED
  BY <1>2, <1>3, <1>4, <1>5, <1>6

LEMMA PriceStep == PriceInv /\ [PriceNext]_priceVars => PriceInv'
<1> SUFFICES ASSUME PriceInv, [PriceNext]_priceVars PROVE PriceInv'
  OBVIOUS
<1>1. CASE UNCHANGED priceVars
  BY <1>1 DEF PriceInv, PriceTypeOK, PatchesAllowed, RefreshesInOrder, priceVars
<1> QED
  BY <1>1, PriceWrites, RefreshSteps DEF PriceNext

LEMMA PriceStart == PriceInit => PriceInv
<1> SUFFICES ASSUME PriceInit PROVE PriceInv
  OBVIOUS
<1>1. PriceTypeOK
  <2>1. clock \in 0..MaxWrites /\ catalog \in 0..MaxRows
        /\ snap \in [catalog : {"bundled", "table"}, at : 0..MaxWrites]
    BY PricesAssumption DEF PriceInit, Bundled
  <2>2. preq \in [PriceRequest -> PriceReq] /\ refresh \in [Refresh -> Answer]
    BY NoPatchType, NoAnswerType DEF PriceInit
  <2>3. row \in [Override -> Pattern \cup {NoPattern, Gone}] /\ overlap \in BOOLEAN
    BY DEF PriceInit
  <2> QED
    BY <2>1, <2>2, <2>3 DEF PriceTypeOK, PriceReq, Answer
<1>2. PatchesAllowed
  BY NoPatchType DEF PriceInit, PatchesAllowed
<1>3. RefreshesInOrder
  BY NoAnswerType DEF PriceInit, RefreshesInOrder, Bundled
<1> QED
  BY <1>1, <1>2, <1>3 DEF PriceInv

\* Of the steps that leave the snapshot alone only a PATCH re-keys a row.
LEMMA RekeyIsAllowed == PriceInv /\ [PriceNext]_priceVars => RekeyStep
<1> SUFFICES ASSUME PriceInv, [PriceNext]_priceVars, NEW o \in Override,
                    There(o), row'[o] \notin {row[o], Gone}
             PROVE  \E r \in PriceRequest :
                      /\ o \in preq[r].row /\ preq'[r] = NoPatch
                      /\ preq[r].role = "OWNER" \/ preq[r].was # row[o]
  BY DEF RekeyStep
<1>0. /\ row \in [Override -> Pattern \cup {NoPattern, Gone}] /\ row[o] # NoPattern
      /\ preq \in [PriceRequest -> PriceReq] /\ row' # row
  BY PricesAssumption DEF PriceInv, PriceTypeOK, PriceReq, There
<1>1. ASSUME NEW x \in Override, DeleteOverride(x) \/ \E p \in Pattern : CreateOverride(x, p)
      PROVE  FALSE
  BY <1>0, <1>1 DEF DeleteOverride, CreateOverride, Write
<1>2. PICK r \in PriceRequest : PatchRowWrite(r)
  <2>1. ASSUME NEW x \in Override, NEW r \in PriceRequest, NEW role1 \in {"ADMIN", "OWNER"},
               NEW p \in Pattern, PatchRowRead(r, x, role1, p)
        PROVE  FALSE
    BY <1>0, <2>1 DEF PatchRowRead
  <2>2. ASSUME NEW s \in Refresh,
               RefreshStart(s) \/ ReadPrices(s) \/ ReadOverrides(s) \/ Install(s) \/ RefreshFails(s)
        PROVE  FALSE
    BY <1>0, <2>2 DEF RefreshStart, ReadPrices, ReadOverrides, Install, RefreshFails
  <2>3. ~SeedRow /\ ~UNCHANGED priceVars
    BY <1>0 DEF SeedRow, priceVars
  <2> QED
    BY <1>1, <2>1, <2>2, <2>3 DEF PriceNext
<1>3. PICK x \in Override : preq[r].row = {x}
  BY <1>2 DEF PriceInv, PatchesAllowed, PatchRowWrite
<1>4. /\ preq[r].pc = "write" /\ Write(x, preq[r].to)
      /\ preq' = [preq EXCEPT ![r] = NoPatch]
  <2>1. (CHOOSE y \in preq[r].row : TRUE) = x
    BY <1>3
  <2> QED
    BY <1>0, <1>2, <2>1 DEF PatchRowWrite
<1>5. x = o /\ preq[r].to # row[o] /\ preq'[r] = NoPatch
  BY <1>0, <1>4 DEF Write
<1>6. preq[r].role = "OWNER" \/ preq[r].was = preq[r].to
  BY <1>4 DEF PriceInv, PatchesAllowed
<1> QED
  BY <1>3, <1>5, <1>6

\* An installed answer is no older than the snapshot it replaces.
LEMMA SnapshotIsKept == PriceInv /\ [PriceNext]_priceVars => SnapshotStep
<1> SUFFICES ASSUME PriceInv, [PriceNext]_priceVars PROVE SnapshotStep
  OBVIOUS
<1>0. snap.at \in 0..MaxWrites
  BY DEF PriceInv, PriceTypeOK
<1>1. CASE snap' = snap
  BY <1>0, <1>1 DEF SnapshotStep
<1>2. CASE \E s \in Refresh : Install(s)
  <2>1. PICK s \in Refresh : Install(s)
    BY <1>2
  <2>2. PICK n \in refresh[s].at : snap' = [catalog |-> CatalogOf(refresh[s].prices), at |-> n]
    BY <2>1 DEF Install
  <2>3. ~overlap => n >= snap.at
    BY DEF PriceInv, RefreshesInOrder
  <2>4. snap.catalog = "table" => CatalogOf(refresh[s].prices) = "table"
    BY DEF CatalogOf
  <2> QED
    BY <2>2, <2>3, <2>4 DEF SnapshotStep
<1>3. snap' = snap \/ \E s \in Refresh : Install(s)
  BY DEF PriceNext, priceVars, DeleteOverride, CreateOverride, PatchRowRead, PatchRowWrite,
     SeedRow, RefreshStart, ReadPrices, ReadOverrides, RefreshFails, AfterFailure
<1> QED
  BY <1>1, <1>2, <1>3

---------------------------------------------------------------------------
(* The console *)

\* An edit of a page invalidates the entries it changes, but for the listed pairs.
Announced(d) == \A q \in Query : Changes(d, q) /\ <<d.op, q>> \notin Unannounced => q \in d.names

\* Which entries show what.
LEMMA ReadBy ==
  ASSUME NEW q \in Query, NEW x \in Reads[q]
  PROVE  /\ x = "credential" => q = "credentials"
         /\ x = "key" => q = "keys"
         /\ x = "project" => q \in AllProjects
         /\ x = "owner" => q \in AllProjects \cup {"teams", "team"}
         /\ x = "teams" => q = "teams"
         /\ x = "team member" => q \in {"teams", "team"}
         /\ x \in {"team", "owned project"} => q = "team"
         /\ x = "member" => q = "members"
         /\ x = "invitation" => q = "invitations"
         /\ x = "override" => q = "overrides"
         /\ x = "export" => q = "exports"
<1>1. q \in {"credentials", "keys", "projects", "projectsPage", "teams", "team", "members",
             "invitations", "overrides", "exports"}
  BY DEF Query, Reads
<1>2. /\ Reads["credentials"] = {"credential"} /\ Reads["keys"] = {"key"}
      /\ Reads["projects"] = {"project", "owner"} /\ Reads["projectsPage"] = {"project", "owner"}
  BY DEF Reads
<1>3. /\ Reads["teams"] = {"teams", "team member", "owner"}
      /\ Reads["team"] = {"team", "team member", "owner", "owned project"}
  BY DEF Reads
<1>4. /\ Reads["members"] = {"member"} /\ Reads["invitations"] = {"invitation"}
      /\ Reads["overrides"] = {"override"} /\ Reads["exports"] = {"export"}
  BY DEF Reads
<1>5. CASE q \in {"credentials", "keys"}
  BY <1>2, <1>5 DEF AllProjects
<1>6. CASE q \in AllProjects
  BY <1>2, <1>6 DEF AllProjects
<1>7. CASE q \in {"teams", "team"}
  BY <1>3, <1>7 DEF AllProjects
<1>8. CASE q \in {"members", "invitations", "overrides", "exports"}
  BY <1>4, <1>8 DEF AllProjects
<1> QED
  BY <1>1, <1>5, <1>6, <1>7, <1>8 DEF AllProjects

\* To announce an edit is to name the entries that show what it changes.
LEMMA IsAnnounced ==
  ASSUME NEW op, NEW changes, NEW names,
         \A q \in Query : \A x \in changes \cap Reads[q] : q \in names \/ <<op, q>> \in Unannounced
  PROVE  Announced(Does(op, changes, names))
  BY DEF Announced, Does, Changes


\* The tables of the pages: no edit but the listed ones forgets an entry.
LEMMA EditsAreAnnounced == \A p \in Page : \A d \in Pages[p].edits : Announced(d)
<1>1. \A d \in DashboardPage.edits \cup KeyStep.edits : Announced(d)
  <2>1. Announced(Does("wizardCredential", {"credential"}, {}))
    BY ReadBy, IsAnnounced DEF Unannounced
  <2>2. Announced(Does("wizardProject", {"project"}, AllProjects))
    BY ReadBy, IsAnnounced
  <2>3. Announced(Does("wizardKey", {"key"}, {}))
    BY ReadBy, IsAnnounced DEF Unannounced
  <2> QED
    BY <2>1, <2>2, <2>3 DEF DashboardPage, KeyStep, CredentialStep, ProjectStep, Shows
<1>2. \A d \in KeysPage.edits \cup IssueKeyModal.edits \cup EditKeyModal.edits : Announced(d)
  <2>1. \A op \in {"revokeKey", "issueKey", "editKey"} : Announced(Does(op, {"key"}, {"keys"}))
    BY ReadBy, IsAnnounced
  <2> QED
    BY <2>1 DEF KeysPage, IssueKeyModal, EditKeyModal, Shows
<1>3. \A d \in ProjectsPage.edits : Announced(d)
  <2>1. Announced(Does("createProject", {"project"}, AllProjects))
    BY ReadBy, IsAnnounced
  <2>2. Announced(Does("setProjectStatus", {"project", "owned project"}, AllProjects))
    BY ReadBy, IsAnnounced DEF Unannounced
  <2>3. Announced(Does("deleteProject", {"project", "owner", "owned project", "key"}, AllProjects))
    BY ReadBy, IsAnnounced DEF Unannounced
  <2> QED
    BY <2>1, <2>2, <2>3 DEF ProjectsPage, Shows
<1>4. \A d \in TeamsPage.edits : Announced(d)
  <2>1. Announced(Does("createTeam", {"teams"}, {"teams"}))
    BY ReadBy, IsAnnounced
  <2>2. Announced(Does("deleteTeam", {"teams", "team", "team member", "owner"}, {"teams"}))
    BY ReadBy, IsAnnounced DEF Unannounced, AllProjects
  <2> QED
    BY <2>1, <2>2 DEF TeamsPage, Shows
<1>5. \A d \in TeamDetailPage.edits : Announced(d)
  <2>1. \A op \in {"addMember", "changeRole", "removeMember"} :
          Announced(Does(op, {"team member"}, Invalidate))
    BY ReadBy, IsAnnounced DEF Invalidate
  <2>2. \A op \in {"assignProject", "detachProject"} :
          Announced(Does(op, {"owner"}, Invalidate \cup AllProjects))
    BY ReadBy, IsAnnounced DEF Invalidate
  <2> QED
    BY <2>1, <2>2 DEF TeamDetailPage, Shows
<1>6. \A d \in ProvidersPage.edits : Announced(d)
  <2>1. \A op \in {"createCredential", "updateCredential", "toggleCredential", "deleteCredential"} :
          Announced(Does(op, {"credential"}, {"credentials"}))
    BY ReadBy, IsAnnounced
  <2> QED
    BY <2>1 DEF ProvidersPage, AddCredentialDrawer, EditCredentialDrawer, Shows
<1>7. \A d \in MembersPage.edits : Announced(d)
  <2>1. \A op \in {"invite", "revokeInvitation"} :
          Announced(Does(op, {"invitation"}, {"invitations"}))
    BY ReadBy, IsAnnounced
  <2>2. \A op \in {"updateRole", "removeMember"} : Announced(Does(op, {"member"}, {"members"}))
    BY ReadBy, IsAnnounced
  <2> QED
    BY <2>1, <2>2 DEF MembersPage, InviteModal, Shows
<1>8. \A d \in OverridesTab.edits \cup ExportsDrawer.edits : Announced(d)
  <2>1. \A op \in {"updateOverride", "deleteOverride"} :
          Announced(Does(op, {"override"}, {"overrides"}))
    BY ReadBy, IsAnnounced
  <2>2. Announced(Does("createExport", {"export"}, {"exports"}))
    BY ReadBy, IsAnnounced
  <2> QED
    BY <2>1, <2>2 DEF OverridesTab, OverrideEditor, ExportsDrawer, Shows
<1>9. ASSUME NEW p \in Page
      PROVE  Pages[p] \in {DashboardPage, KeyStep, KeysPage, IssueKeyModal, EditKeyModal,
                           ProjectsPage, TeamsPage, TeamDetailPage, ProvidersPage, MembersPage,
                           OverridesTab, ExportsDrawer, Shows({}, {})}
  BY DEF Page, Pages
<1>10. Shows({}, {}).edits = {}
  BY DEF Shows
<1> QED
  BY <1>1, <1>2, <1>3, <1>4, <1>5, <1>6, <1>7, <1>8, <1>9, <1>10

\* What is owed for an edit is invalidated by it.
LEMMA OwesNames ==
  ASSUME NEW q \in Query, NEW p \in Page, NEW does \in Effects[q][p]
  PROVE  /\ does \in [changes : BOOLEAN, names : BOOLEAN, owes : BOOLEAN]
         /\ does.owes => does.names
<1>1. PICK d \in Pages[p].edits : does = Effect(d, q)
  BY DEF Effects, Concerned
<1>2. Changes(d, q) /\ <<d.op, q>> \notin Unannounced => q \in d.names
  BY EditsAreAnnounced DEF Announced
<1>3. does.owes => does.names
  BY <1>1, <1>2 DEF Effect
<1>4. does \in [changes : BOOLEAN, names : BOOLEAN, owes : BOOLEAN]
  BY <1>1 DEF Effect, Changes
<1> QED
  BY <1>3, <1>4

\* The edits under way owe nothing they do not invalidate and nothing that is
\* not yet written; an answer on its way back has what is owed by now.
EditsAreSound ==
  \A e \in Edit : /\ edit[e].does.owes => edit[e].does.names
                  /\ edit[e].wrote <= version
AnswerIsRecent == ~crossed /\ fetch.pc = "read" => fetch.at >= owed

ConsoleInv == ConsoleTypeOK /\ EditsAreSound /\ AnswerIsRecent /\ OwnEditsAreShown

EditRow  == [pc : {"idle", "sent", "applied"}, wrote : 0..MaxEdits,
             does : [changes : BOOLEAN, names : BOOLEAN, owes : BOOLEAN]]
EntryRow == [there : BOOLEAN, at : 0..MaxEdits, fresh : BOOLEAN]
FetchRow == [pc : {"idle", "sent", "read"}, at : 0..MaxEdits]

LEMMA ConsoleRows ==
  /\ NoEdit \in EditRow /\ ~NoEdit.does.owes /\ NoEdit.wrote = 0
  /\ Nothing \in EntryRow /\ ~Nothing.there /\ ~Nothing.fresh
  /\ Still \in FetchRow /\ Still.pc = "idle"
  /\ [Still EXCEPT !.pc = "sent"] \in FetchRow /\ [Still EXCEPT !.pc = "sent"].pc = "sent"
<1>1. 0 \in 0..MaxEdits
  BY ConsoleAssumption
<1>2. NoEdit \in EditRow /\ ~NoEdit.does.owes /\ NoEdit.wrote = 0
  BY <1>1 DEF NoEdit, NoEffect, EditRow
<1>3. Nothing \in EntryRow /\ ~Nothing.there /\ ~Nothing.fresh
  BY <1>1 DEF Nothing, EntryRow
<1>4. Still \in FetchRow /\ Still.pc = "idle"
  BY <1>1 DEF Still, FetchRow
<1>5. [Still EXCEPT !.pc = "sent"] \in FetchRow /\ [Still EXCEPT !.pc = "sent"].pc = "sent"
  BY <1>1 DEF Still, FetchRow
<1> QED
  BY <1>2, <1>3, <1>4, <1>5

LEMMA ConsoleTypes ==
  ConsoleTypeOK <=> /\ watched \in Query /\ page \in Page /\ entry \in EntryRow
                    /\ fetch \in FetchRow /\ edit \in [Edit -> EditRow]
                    /\ version \in 0..MaxEdits /\ owed \in 0..version
                    /\ failed \in BOOLEAN /\ crossed \in BOOLEAN
  BY DEF ConsoleTypeOK, EntryRow, FetchRow, EditRow

\* A page reads: the user moves on, the answer of a request comes or does not.
LEMMA ConsoleReads ==
  ASSUME ConsoleInv,
         \/ \E to \in Visited[watched] : Navigate(to)
         \/ Serve \/ Arrive \/ FetchFails \/ Age \/ Refetch \/ Collect
  PROVE  ConsoleInv'
<1>0. /\ watched \in Query /\ page \in Page /\ entry \in EntryRow
      /\ fetch \in FetchRow /\ edit \in [Edit -> EditRow]
      /\ version \in 0..MaxEdits /\ owed \in 0..version /\ MaxEdits \in Nat
      /\ failed \in BOOLEAN /\ crossed \in BOOLEAN
      /\ UNCHANGED <<watched, edit, version, owed>> /\ crossed' \in BOOLEAN
  BY ConsoleTypes, ConsoleAssumption DEF ConsoleInv, Navigate, Serve, Arrive, FetchFails, Age,
     Refetch, Collect
<1>1. SUFFICES /\ page' \in Page /\ entry' \in EntryRow /\ fetch' \in FetchRow /\ failed' \in BOOLEAN
               /\ AnswerIsRecent' /\ OwnEditsAreShown'
  <2>1. EditsAreSound'
    BY <1>0 DEF ConsoleInv, EditsAreSound
  <2>2. ConsoleTypeOK'
    BY <1>0, <1>1 DEF ConsoleTypeOK, EntryRow, FetchRow, EditRow
  <2> QED
    BY <1>1, <2>1, <2>2 DEF ConsoleInv
<1>2. ASSUME NEW to \in Visited[watched], Navigate(to)
      PROVE  /\ page' \in Page /\ entry' \in EntryRow /\ fetch' \in FetchRow /\ failed' \in BOOLEAN
             /\ AnswerIsRecent' /\ OwnEditsAreShown'
  <2>1. to \in Page
    BY <1>0 DEF Visited, Page, Pages
  <2>2. page' = to /\ entry' = entry /\ failed' = failed /\ crossed' = crossed
        /\ IF watched \in Pages[to].shows /\ ~entry.fresh /\ fetch.pc = "idle"
           THEN fetch' \in FetchRow /\ fetch'.pc = "sent" ELSE fetch' = fetch
    BY <1>2, ConsoleRows DEF Navigate, Request
  <2>3. AnswerIsRecent'
    BY <1>0, <2>2 DEF ConsoleInv, AnswerIsRecent
  <2>4. OwnEditsAreShown'
    <3> SUFFICES ASSUME ~crossed
                 PROVE  /\ entry.fresh => entry.at >= owed
                        /\ watched \in Pages[to].shows /\ entry.there /\ entry.at < owed
                             => fetch'.pc # "idle" \/ failed
      BY <1>0, <2>2 DEF OwnEditsAreShown, IsShown
    <3>1. entry.fresh => entry.at >= owed
      BY DEF ConsoleInv, OwnEditsAreShown
    <3>2. entry.at \in 0..MaxEdits
      BY <1>0 DEF EntryRow
    <3> QED
      BY <1>0, <2>2, <3>1, <3>2
  <2> QED
    BY <1>0, <2>1, <2>2, <2>3, <2>4
<1>3. CASE Serve
  BY <1>0, <1>3 DEF ConsoleInv, AnswerIsRecent, OwnEditsAreShown, IsShown, Serve, FetchRow
<1>4. CASE Arrive
  <2>1. /\ entry' \in EntryRow /\ entry'.at = fetch.at /\ page' = page /\ failed' = FALSE
        /\ fetch.pc = "read" /\ fetch' = Still /\ crossed' = (crossed /\ fetch.at < owed)
    BY <1>0, <1>4 DEF Arrive, EntryRow, FetchRow
  <2>3. fetch.at \in 0..MaxEdits
    BY <1>0 DEF FetchRow
  <2>2. ~crossed' => fetch.at >= owed
    BY <1>0, <2>1, <2>3 DEF ConsoleInv, AnswerIsRecent
  <2>4. OwnEditsAreShown'
    BY <1>0, <2>1, <2>2, <2>3 DEF OwnEditsAreShown
  <2>5. AnswerIsRecent'
    BY <2>1, ConsoleRows DEF AnswerIsRecent
  <2> QED
    BY <1>0, <2>1, <2>4, <2>5, ConsoleRows
<1>5. CASE FetchFails
  BY <1>0, <1>5, ConsoleRows DEF ConsoleInv, AnswerIsRecent, OwnEditsAreShown, IsShown, FetchFails
<1>6. CASE Age
  <2>1. /\ entry' \in EntryRow /\ entry'.at = entry.at /\ entry'.there = entry.there
        /\ ~entry'.fresh /\ page' = page /\ failed' = failed /\ fetch' = fetch /\ crossed' = crossed
    BY <1>0, <1>6 DEF Age, EntryRow
  <2> QED
    BY <1>0, <2>1 DEF ConsoleInv, AnswerIsRecent, OwnEditsAreShown, IsShown
<1>7. CASE Refetch
  BY <1>0, <1>7, ConsoleRows
  DEF ConsoleInv, AnswerIsRecent, OwnEditsAreShown, IsShown, Refetch, Request
<1>8. CASE Collect
  BY <1>0, <1>8, ConsoleRows
  DEF ConsoleInv, AnswerIsRecent, OwnEditsAreShown, IsShown, Collect
<1> QED
  BY <1>2, <1>3, <1>4, <1>5, <1>6, <1>7, <1>8

\* Edits: they are submitted, committed, answered or lost, here and elsewhere.
LEMMA ConsoleEdits ==
  ASSUME ConsoleInv,
         \/ \E e \in Edit, does \in Effects[watched][page] : Submit(e, does)
         \/ Elsewhere
         \/ \E e \in Edit : Apply(e) \/ EditFails(e)
  PROVE  ConsoleInv'
<1>0. /\ watched \in Query /\ page \in Page /\ entry \in EntryRow
      /\ fetch \in FetchRow /\ edit \in [Edit -> EditRow]
      /\ version \in 0..MaxEdits /\ owed \in 0..version /\ MaxEdits \in Nat
      /\ failed \in BOOLEAN /\ crossed \in BOOLEAN
      /\ UNCHANGED <<watched, page, entry, fetch, owed, failed, crossed>>
  BY ConsoleTypes, ConsoleAssumption DEF ConsoleInv, Submit, Apply, EditFails, Elsewhere
<1>1. SUFFICES /\ edit' \in [Edit -> EditRow] /\ version' \in 0..MaxEdits /\ version' >= version
               /\ \A e \in Edit : /\ edit'[e].does.owes => edit'[e].does.names
                                  /\ edit'[e].wrote <= version'
  <2>1. EditsAreSound'
    BY <1>1 DEF EditsAreSound
  <2>2. owed' \in 0..version'
    BY <1>0, <1>1
  <2>3. ConsoleTypeOK'
    BY <1>0, <1>1, <2>2 DEF ConsoleTypeOK, EntryRow, FetchRow, EditRow
  <2>4. AnswerIsRecent' /\ OwnEditsAreShown'
    BY <1>0 DEF ConsoleInv, AnswerIsRecent, OwnEditsAreShown, IsShown
  <2> QED
    BY <2>1, <2>3, <2>4 DEF ConsoleInv
<1>2. \A e \in Edit : edit[e].wrote \in 0..MaxEdits
  BY <1>0 DEF EditRow
<1>3. \A f \in Edit : /\ edit[f].does.owes => edit[f].does.names
                     /\ edit[f].wrote <= version
  BY DEF ConsoleInv, EditsAreSound
<1>4. ASSUME NEW e \in Edit, NEW does \in Effects[watched][page], Submit(e, does)
      PROVE  /\ edit' \in [Edit -> EditRow] /\ version' \in 0..MaxEdits /\ version' >= version
             /\ \A f \in Edit : /\ edit'[f].does.owes => edit'[f].does.names
                                /\ edit'[f].wrote <= version'
  <2> DEFINE x == [pc |-> "sent", does |-> does, wrote |-> 0]
  <2>1. edit' = [edit EXCEPT ![e] = x] /\ version' = version
    BY <1>4 DEF Submit
  <2>2. x \in EditRow /\ x.does = does /\ x.wrote = 0
    BY <1>0, OwesNames DEF EditRow
  <2>3. does.owes => does.names
    BY <1>0, OwesNames
  <2> HIDE DEF x
  <2> QED
    BY <1>0, <1>2, <1>3, <2>1, <2>2, <2>3
<1>5. CASE Elsewhere
  BY <1>0, <1>2, <1>5 DEF Elsewhere, ConsoleInv, EditsAreSound
<1>6. ASSUME NEW e \in Edit, Apply(e)
      PROVE  /\ edit' \in [Edit -> EditRow] /\ version' \in 0..MaxEdits /\ version' >= version
             /\ \A f \in Edit : /\ edit'[f].does.owes => edit'[f].does.names
                                /\ edit'[f].wrote <= version'
  <2> DEFINE x == [[edit[e] EXCEPT !.pc = "applied"] EXCEPT !.wrote = version']
  <2>1. version' \in 0..MaxEdits /\ version' >= version
    BY <1>0, <1>6 DEF Apply
  <2>2. edit' = [edit EXCEPT ![e] = x]
    BY <1>0, <1>6 DEF Apply, EditRow
  <2>3. x \in EditRow /\ x.does = edit[e].does /\ x.wrote = version'
    BY <1>0, <2>1 DEF EditRow
  <2> HIDE DEF x
  <2>4. \A f \in Edit : f # e => edit'[f] = edit[f]
    BY <1>0, <2>2
  <2>5. edit'[e] = x /\ edit' \in [Edit -> EditRow]
    BY <1>0, <2>2, <2>3
  <2> QED
    BY <1>0, <1>2, <1>3, <2>1, <2>3, <2>4, <2>5
<1>7. ASSUME NEW e \in Edit, EditFails(e)
      PROVE  /\ edit' \in [Edit -> EditRow] /\ version' \in 0..MaxEdits /\ version' >= version
             /\ \A f \in Edit : /\ edit'[f].does.owes => edit'[f].does.names
                                /\ edit'[f].wrote <= version'
  BY <1>0, <1>2, <1>3, <1>7, ConsoleRows DEF EditFails
<1> QED
  BY <1>4, <1>5, <1>6, <1>7

\* The answer to an edit: what it owes it invalidates, so a shown entry that has
\* data is requested anew; any other has no answer on its way, or crossed is on
\* record.
LEMMA ConsoleAnswers ==
  ASSUME ConsoleInv, NEW e \in Edit, Answered(e)
  PROVE  ConsoleInv'
<1>0. /\ watched \in Query /\ page \in Page /\ entry \in EntryRow
      /\ fetch \in FetchRow /\ edit \in [Edit -> EditRow]
      /\ version \in 0..MaxEdits /\ owed \in 0..version /\ MaxEdits \in Nat
      /\ failed \in BOOLEAN /\ crossed \in BOOLEAN
      /\ UNCHANGED <<watched, page, version, failed>>
      /\ edit' = [edit EXCEPT ![e] = NoEdit]
      /\ edit[e].wrote \in 0..MaxEdits /\ edit[e].wrote <= version
      /\ edit[e].does.owes => edit[e].does.names
  <2>1. edit \in [Edit -> EditRow]
    BY ConsoleTypes DEF ConsoleInv
  <2>2. edit[e].wrote \in 0..MaxEdits
    BY <2>1 DEF EditRow
  <2> QED
    BY <2>1, <2>2, ConsoleTypes, ConsoleAssumption DEF ConsoleInv, EditsAreSound, Answered
<1>1. edit' \in [Edit -> EditRow] /\ EditsAreSound'
  <2>1. edit' \in [Edit -> EditRow] /\ \A f \in Edit : f # e => edit'[f] = edit[f]
    BY <1>0, ConsoleRows
  <2>2. edit'[e] = NoEdit
    BY <1>0
  <2> QED
    BY <1>0, <2>1, <2>2, ConsoleRows DEF ConsoleInv, EditsAreSound
<1>2. owed' \in 0..version /\ owed' >= owed /\ (~edit[e].does.owes => owed' = owed)
  BY <1>0 DEF Answered
<1>3. SUFFICES /\ entry' \in EntryRow /\ fetch' \in FetchRow /\ crossed' \in BOOLEAN
               /\ AnswerIsRecent' /\ OwnEditsAreShown'
  BY <1>0, <1>1, <1>2, <1>3 DEF ConsoleInv, ConsoleTypeOK, EntryRow, FetchRow, EditRow
<1>4. CASE ~edit[e].does.names
  <2>1. owed' = owed /\ UNCHANGED <<entry, fetch, crossed>>
    BY <1>0, <1>2, <1>4 DEF Answered
  <2> QED
    BY <1>0, <2>1 DEF ConsoleInv, AnswerIsRecent, OwnEditsAreShown, IsShown
<1>5. CASE edit[e].does.names
  <2>1. /\ entry' = [entry EXCEPT !.fresh = FALSE]
        /\ crossed' = (crossed \/ (~Replaced /\ fetch.pc = "read"))
        /\ IF Replaced THEN fetch' = [Still EXCEPT !.pc = "sent"] ELSE fetch' = fetch
    BY <1>5 DEF Answered, InvalidateFetch, Request
  <2>2. entry' \in EntryRow /\ ~entry'.fresh /\ entry'.there = entry.there
    BY <1>0, <2>1 DEF EntryRow
  <2>3. fetch' \in FetchRow /\ (Replaced => fetch'.pc = "sent") /\ (~Replaced => fetch' = fetch)
    BY <1>0, <2>1, ConsoleRows
  <2>7. IsShown /\ entry.there => Replaced
    BY DEF Replaced
  <2>4. IsShown' = IsShown
    BY <1>0 DEF IsShown
  <2>5. AnswerIsRecent'
    BY <2>1, <2>3 DEF AnswerIsRecent
  <2>6. OwnEditsAreShown'
    BY <2>2, <2>3, <2>4, <2>7 DEF OwnEditsAreShown
  <2> QED
    BY <2>1, <2>2, <2>3, <2>5, <2>6
<1> QED
  BY <1>4, <1>5

LEMMA ConsoleStep == ConsoleInv /\ [ConsoleNext]_consoleVars => ConsoleInv'
<1> SUFFICES ASSUME ConsoleInv, [ConsoleNext]_consoleVars PROVE ConsoleInv'
  OBVIOUS
<1>1. CASE UNCHANGED consoleVars
  BY <1>1 DEF ConsoleInv, ConsoleTypeOK, EditsAreSound, AnswerIsRecent, OwnEditsAreShown, IsShown,
     consoleVars
<1> QED
  BY <1>1, ConsoleReads, ConsoleEdits, ConsoleAnswers DEF ConsoleNext

LEMMA ConsoleStart == ConsoleInit => ConsoleInv
<1> SUFFICES ASSUME ConsoleInit PROVE ConsoleInv
  OBVIOUS
<1>1. ConsoleTypeOK
  <2>1. page \in Page
    BY DEF ConsoleInit, Page, Pages
  <2>2. version \in 0..MaxEdits /\ owed \in 0..version
    BY ConsoleAssumption DEF ConsoleInit
  <2>3. fetch \in FetchRow /\ entry \in EntryRow /\ edit \in [Edit -> EditRow]
    BY ConsoleRows DEF ConsoleInit
  <2> QED
    BY <2>1, <2>2, <2>3, ConsoleTypes DEF ConsoleInit
<1>2. EditsAreSound /\ AnswerIsRecent /\ OwnEditsAreShown
  BY ConsoleRows DEF ConsoleInit, EditsAreSound, AnswerIsRecent, OwnEditsAreShown
<1> QED
  BY <1>1, <1>2 DEF ConsoleInv

---------------------------------------------------------------------------
(* The control plane *)

\* A step is a step of each area, or leaves it alone.
LEMMA AreaSteps ==
  [Next]_vars => [CredNext]_credVars /\ [TeamNext]_teamVars /\ [PriceNext]_priceVars
                 /\ [ConsoleNext]_consoleVars
  BY DEF Next, vars

\* No step of any area leaves the types: of the requests under way too.
THEOREM ControlPlaneTypes == Spec => []TypeOK
<1>1. Init => CredInv /\ TeamInv /\ PriceInv /\ ConsoleInv
  BY CredStart, TeamStart, PriceStart, ConsoleStart DEF Init
<1>2. (CredInv /\ TeamInv /\ PriceInv /\ ConsoleInv) /\ [Next]_vars
        => (CredInv /\ TeamInv /\ PriceInv /\ ConsoleInv)'
  BY AreaSteps, CredStep, TeamStep, PriceStep, ConsoleStep
<1>3. CredInv /\ TeamInv /\ PriceInv /\ ConsoleInv => TypeOK
  BY DEF CredInv, TeamInv, PriceInv, ConsoleInv, TypeOK
<1> QED
  BY <1>1, <1>2, <1>3, PTL DEF Spec

\* Of the active credentials of a provider at most one is the default, however
\* the requests that create, patch and delete credentials interleave: the partial
\* unique index makes the demotion and promotion of one transaction collide with
\* those of another (modules/credentials.ts).
THEOREM OneDefaultCredential == Spec => []DefaultIsUnique
<1>1. Init => CredInv
  BY CredStart DEF Init
<1>2. CredInv /\ [Next]_vars => CredInv'
  BY AreaSteps, CredStep
<1> QED
  BY <1>1, <1>2, DefaultsAreUnique, PTL DEF Spec

\* The credential a key is pinned to is there and of a provider the key is for,
\* or the key is revoked, although the routes check it before they write.
THEOREM PinsStayServed == Spec => []PinnedIsServed
<1>1. Init => CredInv
  BY CredStart DEF Init
<1>2. CredInv /\ [Next]_vars => CredInv'
  BY AreaSteps, CredStep
<1> QED
  BY <1>1, <1>2, PinsAreServed, PTL DEF Spec

\* Deleted teams and projects leave nothing behind: the routes check what they
\* write to and the database restricts, cascades or disowns (modules/teams.ts,
\* modules/projects.ts).
THEOREM NoDanglingRows == Spec => []NothingDangles
<1>1. Init => TeamInv
  BY TeamStart DEF Init
<1>2. TeamInv /\ [Next]_vars => TeamInv'
  BY AreaSteps, TeamStep
<1>3. TeamInv => NothingDangles
  BY DEF TeamInv
<1> QED
  BY <1>1, <1>2, <1>3, PTL DEF Spec

\* Overlapping PATCHes let no administrator choose the key of an override, and
\* no refresh, failed or empty, undoes one that worked: only refreshes that
\* overlapped install an older snapshot (modules/pricing.ts, gateway pricing.ts).
THEOREM PricesChangeSoundly == Spec => PriceChangesAreSound
<1>1. Init => PriceInv
  BY PriceStart DEF Init
<1>2. PriceInv /\ [Next]_vars => PriceInv'
  BY AreaSteps, PriceStep
<1>3. PriceInv /\ [Next]_vars => [SnapshotStep /\ RekeyStep]_priceVars
  BY AreaSteps, RekeyIsAllowed, SnapshotIsKept
<1> QED
  BY <1>1, <1>2, <1>3, PTL DEF Spec, PriceChangesAreSound

\* Users see their own edits on every page that invalidates what it changes,
\* whichever page is open when the answer of an edit comes and however requests
\* are lost or late (apps/web/src/features), unless react-query has to keep an
\* answer from before the edit: that of a first load, or of a page left.
THEOREM UsersSeeTheirEdits == Spec => []OwnEditsAreShown
<1>1. Init => ConsoleInv
  BY ConsoleStart DEF Init
<1>2. ConsoleInv /\ [Next]_vars => ConsoleInv'
  BY AreaSteps, ConsoleStep
<1>3. ConsoleInv => OwnEditsAreShown
  BY DEF ConsoleInv
<1> QED
  BY <1>1, <1>2, <1>3, PTL DEF Spec
=============================================================================
