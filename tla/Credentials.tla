---------------------------- MODULE Credentials ----------------------------
(***************************************************************************)
(* Provider credentials of a workspace and the virtual keys pinned to them:  *)
(* apps/api/src/modules/credentials.ts and keys.ts write the rows,           *)
(* PgCredentialStore.getDefault of the gateway picks one for each request.   *)
(* A route reads and then writes, in a transaction or not, and the requests  *)
(* of several administrators overlap.  Postgres runs the transactions at     *)
(* READ COMMITTED, so what keeps the defaults apart is the partial unique    *)
(* index.  Requests that are refused before they write change nothing; that  *)
(* a revoked key is refused is the matter of KeyCache.                       *)
(***************************************************************************)
EXTENDS Naturals, FiniteSets

CONSTANTS
  Credential,    \* rows of provider_credential
  Provider,
  ProviderOf,    \* the provider of each credential
  Key,           \* virtual keys
  CredRequest    \* concurrent requests to the API

ASSUME CredentialsAssumption == ProviderOf \in [Credential -> Provider]

VARIABLES
  cred,     \* rows of provider_credential
  key,      \* rows of virtual_key: the pins and the allowed providers
  creq,     \* what each request has read
  dropped   \* history: providers whose default row was deleted, until the next one

credVars == <<cred, key, creq, dropped>>

Status  == {"none", "ACTIVE", "DISABLED", "deleted"}
NoCred  == [status |-> "none", default |-> FALSE]
NoKey   == [there |-> FALSE, pins |-> {}, allow |-> {}]
NoReq   == [pc |-> "idle", cred |-> {}, status |-> "none", default |-> FALSE,
            unset |-> {}, key |-> {}, pins |-> {}, allow |-> {}]

CredInit ==
  /\ cred = [c \in Credential |-> NoCred]
  /\ key = [k \in Key |-> NoKey]
  /\ creq = [r \in CredRequest |-> NoReq]
  /\ dropped = {}

Rows(p)     == {c \in Credential : ProviderOf[c] = p /\ cred[c].status \in {"ACTIVE", "DISABLED"}}
Defaults(p) == {c \in Rows(p) : cred[c].default}
Stored      == UNION {Rows(p) : p \in Provider}

---------------------------------------------------------------------------
(* Credentials *)

\* POST /credentials, the transaction up to its last statement: the default
\* of the provider is taken away if the new row asks for it, and the rows of
\* the provider are counted: the first one becomes the default.
CreateRead(r, c, isDefault) ==
  LET p == ProviderOf[c]
  IN  /\ creq[r].pc = "idle"
      /\ cred[c].status = "none"
      /\ \A q \in CredRequest : c \notin creq[q].cred
      /\ creq' = [creq EXCEPT ![r] = [NoReq EXCEPT
                    !.pc = "cred", !.cred = {c}, !.status = "ACTIVE",
                    !.default = isDefault \/ Rows(p) = {},
                    !.unset = IF isDefault THEN Defaults(p) ELSE {}]]
      /\ UNCHANGED <<cred, key, dropped>>

\* PATCH /credentials/:id, likewise.
PatchRead(r, c, status, isDefault) ==
  /\ creq[r].pc = "idle"
  /\ c \in Stored
  /\ creq' = [creq EXCEPT ![r] = [NoReq EXCEPT
                !.pc = "cred", !.cred = {c}, !.status = status, !.default = isDefault,
                !.unset = IF isDefault THEN Defaults(ProviderOf[c]) ELSE {}]]
  /\ UNCHANGED <<cred, key, dropped>>

\* Faulty variant: there is no partial unique index.
ConflictNever(c, unset) == FALSE

\* provider_credential_default_unique: a default that this transaction has not
\* taken away itself stops it.
Conflict(c, unset) == Defaults(ProviderOf[c]) \ (unset \cup {c}) # {}

\* The row is written and the transaction commits; a PATCH of a row that is
\* gone and a second default roll all of it back.
CredWrite(r) ==
  LET q == creq[r]
      c == CHOOSE x \in q.cred : TRUE
      p == ProviderOf[c]
      status == IF q.status = "none" THEN cred[c].status ELSE q.status
      commits == cred[c].status # "deleted" /\ ~(q.default /\ Conflict(c, q.unset))
  IN  /\ q.pc = "cred"
      /\ cred' = IF ~commits THEN cred
                 ELSE [x \in Credential |->
                         IF x = c THEN [status |-> status, default |-> q.default \/ cred[c].default]
                         ELSE [cred[x] EXCEPT !.default = @ /\ x \notin q.unset]]
      /\ dropped' = IF commits /\ q.default THEN dropped \ {p} ELSE dropped
      /\ creq' = [creq EXCEPT ![r] = NoReq]
      /\ UNCHANGED key

\* DELETE /credentials/:id, the default or not.
DeleteCredential(c) ==
  /\ c \in Stored
  /\ cred' = [cred EXCEPT ![c] = [status |-> "deleted", default |-> FALSE]]
  /\ dropped' = IF cred[c].default THEN dropped \cup {ProviderOf[c]} ELSE dropped
  /\ UNCHANGED <<key, creq>>

---------------------------------------------------------------------------
(* Virtual keys *)

\* Faulty variant: the providers of the pins are not merged in.
ResolveProviderAllowlistBase(pins, base) == base

\* resolveProviderAllowlist: pinning implies that the provider is allowed.
ResolveProviderAllowlist(pins, base) ==
  IF pins = {} THEN base ELSE base \cup {ProviderOf[c] : c \in pins}

\* POST /keys: all pins must be there when they are looked up ...
IssueRead(r, k, pins, base) ==
  /\ creq[r].pc = "idle"
  /\ ~key[k].there
  /\ \A q \in CredRequest : k \notin creq[q].key
  /\ pins \subseteq Stored
  /\ creq' = [creq EXCEPT ![r] = [NoReq EXCEPT
                !.pc = "key", !.key = {k}, !.pins = pins,
                !.allow = ResolveProviderAllowlist(pins, base)]]
  /\ UNCHANGED <<cred, key, dropped>>

\* PATCH /keys/:id with pins: the allowed providers the row has are the base,
\* so what a pin has added stays when the pin goes.
PatchKeyRead(r, k, pins) ==
  /\ creq[r].pc = "idle"
  /\ key[k].there
  /\ pins \subseteq Stored
  /\ creq' = [creq EXCEPT ![r] = [NoReq EXCEPT
                !.pc = "key", !.key = {k}, !.pins = pins,
                !.allow = ResolveProviderAllowlist(pins, key[k].allow)]]
  /\ UNCHANGED <<cred, key, dropped>>

\* ... and pins and providers are written together, whatever has become of the
\* credentials and of the row since.
KeyWrite(r) ==
  LET q == creq[r]
      k == CHOOSE x \in q.key : TRUE
  IN  /\ q.pc = "key"
      /\ key' = [key EXCEPT ![k] =
                   [there |-> TRUE, pins |-> q.pins, allow |-> q.allow]]
      /\ creq' = [creq EXCEPT ![r] = NoReq]
      /\ UNCHANGED <<cred, dropped>>

---------------------------------------------------------------------------
(* The gateway *)

\* The coarse check of the pipeline: an empty list allows every provider.
ProviderAllowed(k, p) == key[k].allow = {} \/ p \in key[k].allow

\* getDefault: the rows it may return for a key.  The default comes first, and
\* then the oldest row; which of the others is oldest is left open.
GetDefault(k, p) ==
  LET rows == {c \in Rows(p) : cred[c].status = "ACTIVE" /\ (key[k].pins = {} \/ c \in key[k].pins)}
  IN  IF rows \cap Defaults(p) # {} THEN rows \cap Defaults(p) ELSE rows

---------------------------------------------------------------------------
CredNext ==
  \/ \E r \in CredRequest, c \in Credential, d \in BOOLEAN :
       \/ CreateRead(r, c, d)
       \/ \E s \in {"none", "ACTIVE", "DISABLED"} : PatchRead(r, c, s, d)
  \/ \E r \in CredRequest : CredWrite(r) \/ KeyWrite(r)
  \/ \E c \in Credential : DeleteCredential(c)
  \/ \E r \in CredRequest, k \in Key, pins \in SUBSET Credential :
       \/ \E base \in SUBSET Provider : IssueRead(r, k, pins, base)
       \/ PatchKeyRead(r, k, pins)

CredSpec == CredInit /\ [][CredNext]_credVars

---------------------------------------------------------------------------
(* Properties *)

\* Every variable keeps its type.
CredTypeOK ==
  /\ cred \in [Credential -> [status : Status, default : BOOLEAN]]
  /\ key \in [Key -> [there : BOOLEAN, pins : SUBSET Credential, allow : SUBSET Provider]]
  /\ creq \in [CredRequest -> [pc : {"idle", "cred", "key"}, cred : SUBSET Credential,
                               status : Status, default : BOOLEAN, unset : SUBSET Credential,
                               key : SUBSET Key, pins : SUBSET Credential,
                               allow : SUBSET Provider]]
  /\ dropped \subseteq Provider

\* credentials.ts, "first credential becomes the default", and the migration,
\* "only one default credential per (workspace, provider)": a provider that has
\* credentials has one default and never two, however creations, changes of
\* the default and deletions overlap, unless its default itself was deleted.
DefaultIsUnique ==
  \A p \in Provider :
    /\ Cardinality(Defaults(p)) <= 1
    /\ Rows(p) # {} /\ p \notin dropped => Defaults(p) # {}

\* keys.ts: the check of the providers "never blocks a provider the caller
\* explicitly selected credentials for".  A pinned credential that is active is
\* reached through its key, after any overlap of edits of the key, the
\* credentials and the defaults, and the key reaches no unpinned one.
PinnedIsServed ==
  \A k \in Key, c \in Stored :
    (c \in key[k].pins /\ cred[c].status = "ACTIVE") =>
      /\ ProviderAllowed(k, ProviderOf[c])
      /\ GetDefault(k, ProviderOf[c]) # {}
      /\ GetDefault(k, ProviderOf[c]) \subseteq key[k].pins
=============================================================================
