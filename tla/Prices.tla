------------------------------- MODULE Prices -------------------------------
(***************************************************************************)
(* The workspace's price overrides (apps/api/src/modules/pricing.ts) and the *)
(* snapshot of catalog and overrides the gateway prices requests with        *)
(* (PgPricingSource, apps/gateway/src/pricing.ts).  A PATCH reads the row,   *)
(* decides on it and writes it afterwards.  A refresh sends two queries and  *)
(* installs both answers together; refreshes are started by a timer that     *)
(* does not wait for the one before.  How a price is chosen from a snapshot  *)
(* is the matter of Metering.                                                *)
(***************************************************************************)
EXTENDS Naturals, FiniteSets

CONSTANTS
  Override,       \* ids of model_price_override
  Pattern,        \* (provider, modelPattern) pairs
  PriceRequest,   \* concurrent requests to the API
  Refresh,        \* refreshes that are under way
  MaxWrites,      \* bound on the writes to the overrides
  MaxRows         \* rows of the catalog seed

VARIABLES
  row,       \* rows of model_price_override: the pattern of each
  clock,     \* number of writes to the overrides so far
  catalog,   \* number of rows of model_price that are effective
  preq,      \* what each PATCH has read
  snap,      \* the snapshot of the gateway: its catalog, and the write its overrides date from
  refresh,   \* the answers each refresh has so far
  overlap    \* history: two refreshes have been under way at once

priceVars == <<row, clock, catalog, preq, snap, refresh, overlap>>

NoPattern == "no pattern"
Gone      == "gone"

ASSUME PricesAssumption ==
  /\ NoPattern \notin Pattern /\ Gone \notin Pattern
  /\ MaxWrites \in Nat /\ MaxRows \in Nat

NoPatch   == [pc |-> "idle", row |-> {}, role |-> "ADMIN", was |-> NoPattern, to |-> NoPattern]
NoAnswer  == [on |-> FALSE, prices |-> {}, at |-> {}]

\* seedCatalog: the catalog bundled with the gateway, and no overrides.
Bundled   == [catalog |-> "bundled", at |-> 0]

PriceInit ==
  /\ row = [o \in Override |-> NoPattern]
  /\ clock = 0
  /\ catalog = 0
  /\ preq = [r \in PriceRequest |-> NoPatch]
  /\ snap = Bundled
  /\ refresh = [s \in Refresh |-> NoAnswer]
  /\ overlap = FALSE

There(o) == row[o] \in Pattern

\* The next write to the table.
Write(o, pattern) ==
  /\ clock < MaxWrites
  /\ clock' = clock + 1
  /\ row' = [row EXCEPT ![o] = pattern]

---------------------------------------------------------------------------
(* The API *)

\* The unique index on (workspaceId, provider, modelPattern).
Taken(o, pattern) == \E x \in Override \ {o} : There(x) /\ row[x] = pattern

\* POST /overrides; the check for an existing row is made again by the index.
CreateOverride(o, pattern) ==
  /\ row[o] = NoPattern
  /\ ~Taken(o, pattern)
  /\ Write(o, pattern)
  /\ UNCHANGED <<catalog, preq, snap, refresh, overlap>>

\* Only an OWNER may change the (provider, model) of an override.
MayRekey(role, from, to) == from = to \/ role = "OWNER"

\* PATCH /overrides/:id: the row is read, the right to re-key it and a conflict
\* are checked.  The console sends the pattern with every change of a price.
PatchRowRead(r, o, role, to) ==
  /\ preq[r].pc = "idle"
  /\ There(o)
  /\ MayRekey(role, row[o], to)
  /\ to # row[o] => ~Taken(o, to)
  /\ preq' = [preq EXCEPT ![r] = [pc |-> "write", row |-> {o}, role |-> role,
                                  was |-> row[o], to |-> to]]
  /\ UNCHANGED <<row, clock, catalog, snap, refresh, overlap>>

\* The row is written as the body says; a row that is gone, or a pattern that
\* was taken in between, makes the update fail.
PatchRowWrite(r) ==
  LET q == preq[r]
      o == CHOOSE x \in q.row : TRUE
  IN  /\ q.pc = "write"
      /\ IF There(o) /\ ~Taken(o, q.to)
         THEN Write(o, q.to)
         ELSE UNCHANGED <<row, clock>>
      /\ preq' = [preq EXCEPT ![r] = NoPatch]
      /\ UNCHANGED <<catalog, snap, refresh, overlap>>

\* DELETE /overrides/:id.
DeleteOverride(o) ==
  /\ There(o)
  /\ Write(o, Gone)
  /\ UNCHANGED <<catalog, preq, snap, refresh, overlap>>

\* The seed of packages/db fills model_price, one row after the other.
SeedRow ==
  /\ catalog < MaxRows
  /\ catalog' = catalog + 1
  /\ UNCHANGED <<row, clock, preq, snap, refresh, overlap>>

---------------------------------------------------------------------------
(* The gateway *)

\* refresh: at boot and then every five minutes, finished or not.
RefreshStart(s) ==
  /\ ~refresh[s].on
  /\ refresh' = [refresh EXCEPT ![s] = [NoAnswer EXCEPT !.on = TRUE]]
  /\ overlap' = (overlap \/ \E x \in Refresh : refresh[x].on)
  /\ UNCHANGED <<row, clock, catalog, preq, snap>>

\* The two queries of Promise.all, in either order.
ReadPrices(s) ==
  /\ refresh[s].on /\ refresh[s].prices = {}
  /\ refresh' = [refresh EXCEPT ![s].prices = {catalog}]
  /\ UNCHANGED <<row, clock, catalog, preq, snap, overlap>>

ReadOverrides(s) ==
  /\ refresh[s].on /\ refresh[s].at = {}
  /\ refresh' = [refresh EXCEPT ![s].at = {clock}]
  /\ UNCHANGED <<row, clock, catalog, preq, snap, overlap>>

\* No prices in the table leave the catalog that is there.
CatalogOf(prices) == IF prices = {0} THEN snap.catalog ELSE "table"

\* Both answers are there and replace the snapshot.
Install(s) ==
  LET q == refresh[s]
  IN  /\ q.on /\ q.prices # {} /\ q.at # {}
      /\ snap' = [catalog |-> CatalogOf(q.prices), at |-> CHOOSE n \in q.at : TRUE]
      /\ refresh' = [refresh EXCEPT ![s] = NoAnswer]
      /\ UNCHANGED <<row, clock, catalog, preq, overlap>>

\* Faulty variant: a failed refresh falls back to the bundled catalog.
AfterFailureBundled == Bundled

\* A failed refresh keeps the previous snapshot.
AfterFailure == snap

RefreshFails(s) ==
  /\ refresh[s].on
  /\ snap' = AfterFailure
  /\ refresh' = [refresh EXCEPT ![s] = NoAnswer]
  /\ UNCHANGED <<row, clock, catalog, preq, overlap>>

---------------------------------------------------------------------------
PriceNext ==
  \/ \E o \in Override :
       \/ DeleteOverride(o)
       \/ \E p \in Pattern :
            \/ CreateOverride(o, p)
            \/ \E r \in PriceRequest, role \in {"ADMIN", "OWNER"} : PatchRowRead(r, o, role, p)
  \/ \E r \in PriceRequest : PatchRowWrite(r)
  \/ SeedRow
  \/ \E s \in Refresh :
       RefreshStart(s) \/ ReadPrices(s) \/ ReadOverrides(s) \/ Install(s) \/ RefreshFails(s)

PriceSpec == PriceInit /\ [][PriceNext]_priceVars

---------------------------------------------------------------------------
(* Properties *)

\* Every variable keeps its type.
PriceTypeOK ==
  /\ row \in [Override -> Pattern \cup {NoPattern, Gone}]
  /\ clock \in 0..MaxWrites /\ catalog \in 0..MaxRows
  /\ preq \in [PriceRequest -> [pc : {"idle", "write"}, row : SUBSET Override,
                                role : {"ADMIN", "OWNER"},
                                was : Pattern \cup {NoPattern}, to : Pattern \cup {NoPattern}]]
  /\ snap \in [catalog : {"bundled", "table"}, at : 0..MaxWrites]
  /\ refresh \in [Refresh -> [on : BOOLEAN, prices : SUBSET (0..MaxRows),
                              at : SUBSET (0..MaxWrites)]]
  /\ overlap \in BOOLEAN

\* The prices of the gateway never get older, nor does it lose its catalog: no
\* failed or empty refresh undoes one that worked, and only refreshes that
\* overlapped may install an older answer.
SnapshotStep ==
  /\ snap'.at >= snap.at \/ overlap
  /\ snap.catalog = "table" => snap'.catalog = "table"

\* The key of an override changes by the write of an OWNER, or of an administrator
\* who read the row before an OWNER re-keyed it and so writes the old key back.
RekeyStep ==
  \A o \in Override :
    (There(o) /\ row'[o] \notin {row[o], Gone}) =>
      \E r \in PriceRequest :
        /\ o \in preq[r].row /\ preq'[r] = NoPatch
        /\ preq[r].role = "OWNER" \/ preq[r].was # row[o]

\* What no step does to the prices, although PATCHes decide on rows they read
\* earlier and refreshes overlap and fail: let the gateway's snapshot age, or let
\* administrators re-key overrides ("only OWNERs can re-key; admins can only edit
\* money", pricing.ts).
PriceChangesAreSound == [][SnapshotStep /\ RekeyStep]_priceVars
=============================================================================
