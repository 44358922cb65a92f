------------------------------ MODULE Console ------------------------------
(***************************************************************************)
(* What the pages of the web console show (apps/web/src/features): every     *)
(* page reads through the cache of react-query, where an answer counts as    *)
(* fresh for a minute, and an edit invalidates the entries its page names.   *)
(* The entries of the cache do not interact, so one of them, any one, is     *)
(* followed while the user moves between the pages and edits, others edit    *)
(* elsewhere, and requests are slow, fail or lose their answer.  The         *)
(* "New override" dialog of the pricing page is left out: it never opens.    *)
(***************************************************************************)
EXTENDS Naturals

CONSTANTS
  Edit,       \* edits of this user that are under way at once
  MaxEdits    \* bound on the edits of what the entry shows

ASSUME ConsoleAssumption == MaxEdits \in Nat

VARIABLES
  watched,   \* the entry of the cache that is followed
  page,      \* the page, or dialog of a page, on the screen
  entry,     \* the data in the cache, as a version, and whether they are fresh
  fetch,     \* the request for them
  edit,      \* the edits under way
  version,   \* version of what the database would answer
  owed,      \* history: the last version by an edit that was answered
  failed,    \* history: the last request failed
  crossed    \* history: an answer read before an edit was on its way at the edit,
             \* could not be abandoned, and no newer one has come

consoleVars == <<watched, page, entry, fetch, edit, version, owed, failed, crossed>>

Nothing  == [there |-> FALSE, at |-> 0, fresh |-> FALSE]
Still    == [pc |-> "idle", at |-> 0]
NoEffect == [changes |-> FALSE, names |-> FALSE, owes |-> FALSE]
NoEdit   == [pc |-> "idle", does |-> NoEffect, wrote |-> 0]

---------------------------------------------------------------------------
(* The pages: the useQuery and useMutation calls of apps/web/src/features *)

\* What an entry shows.  "owner" is the team of a project, "owned project" the
\* status of one that has a team; the console creates projects without a team.
Reads ==
  [credentials  |-> {"credential"},
   keys         |-> {"key"},
   projects     |-> {"project", "owner"},
   projectsPage |-> {"project", "owner"},
   teams        |-> {"teams", "team member", "owner"},
   team         |-> {"team", "team member", "owner", "owned project"},
   members      |-> {"member"},
   invitations  |-> {"invitation"},
   overrides    |-> {"override"},
   exports      |-> {"export"}]

Query == DOMAIN Reads

\* An edit: what it changes, and the entries that are invalidated when its
\* answer comes.  A page: the entries it shows, and its edits.
Does(op, changes, names) == [op |-> op, changes |-> changes, names |-> names]
Shows(queries, edits)    == [shows |-> queries, edits |-> edits]

AllProjects == {"projects", "projectsPage"}   \* the prefix [ws, "projects"]

\* The steps of the onboarding wizard, which the dashboard shows at first; the
\* dashboard stays below it.
CredentialStep == {Does("wizardCredential", {"credential"}, {})}
ProjectStep    == {Does("wizardProject", {"project"}, AllProjects)}
DashboardPage  == Shows({"credentials", "keys"}, CredentialStep \cup ProjectStep)
KeyStep        == Shows({"credentials", "keys", "projects"}, {Does("wizardKey", {"key"}, {})})

KeysPage == Shows({"keys", "members"}, {Does("revokeKey", {"key"}, {"keys"})})

\* The dialogs of the keys page.
IssueKeyModal == Shows({"keys", "members", "projects", "credentials"}, {Does("issueKey", {"key"}, {"keys"})})
EditKeyModal  == Shows({"keys", "members", "credentials"}, {Does("editKey", {"key"}, {"keys"})})

ProjectsPage ==
  Shows({"projectsPage"},
        {Does("createProject", {"project"}, AllProjects),
         Does("setProjectStatus", {"project", "owned project"}, AllProjects),
         Does("deleteProject", {"project", "owner", "owned project", "key"}, AllProjects)})

TeamsPage ==
  Shows({"teams"},
        {Does("createTeam", {"teams"}, {"teams"}),
         Does("deleteTeam", {"teams", "team", "team member", "owner"}, {"teams"})})

\* Faulty variant: the detail page of a team forgets the list of teams.
InvalidateDetail == {"team"}

\* TeamDetailPage: "the detail view AND the Teams list".
Invalidate == {"team", "teams"}

TeamDetailPage ==
  Shows({"team", "members", "projects"},
        {Does("addMember", {"team member"}, Invalidate),
         Does("changeRole", {"team member"}, Invalidate),
         Does("removeMember", {"team member"}, Invalidate),
         Does("assignProject", {"owner"}, Invalidate \cup AllProjects),
         Does("detachProject", {"owner"}, Invalidate \cup AllProjects)})

AddCredentialDrawer  == {Does("createCredential", {"credential"}, {"credentials"})}
EditCredentialDrawer == {Does("updateCredential", {"credential"}, {"credentials"})}
ProvidersPage ==
  Shows({"credentials"},
        AddCredentialDrawer \cup EditCredentialDrawer \cup
        {Does("toggleCredential", {"credential"}, {"credentials"}),
         Does("deleteCredential", {"credential"}, {"credentials"})})

InviteModal == {Does("invite", {"invitation"}, {"invitations"})}
MembersPage ==
  Shows({"members", "invitations"},
        InviteModal \cup
        {Does("revokeInvitation", {"invitation"}, {"invitations"}),
         Does("updateRole", {"member"}, {"members"}),
         Does("removeMember", {"member"}, {"members"})})

OverrideEditor == {Does("updateOverride", {"override"}, {"overrides"})}
OverridesTab   == Shows({"overrides"}, OverrideEditor \cup {Does("deleteOverride", {"override"}, {"overrides"})})

ExportsDrawer == Shows({"exports"}, {Does("createExport", {"export"}, {"exports"})})

\* The screens; analytics stands for those without these entries and edits.
Pages ==
  [dashboard |-> DashboardPage, keyStep |-> KeyStep, keys |-> KeysPage,
   issueKey |-> IssueKeyModal, editKey |-> EditKeyModal, projects |-> ProjectsPage,
   teams |-> TeamsPage, team |-> TeamDetailPage, providers |-> ProvidersPage,
   members |-> MembersPage, pricing |-> OverridesTab, exports |-> ExportsDrawer,
   analytics |-> Shows({}, {})]

Page == DOMAIN Pages

\* The edits of a page that change or invalidate an entry, and the pages that
\* show it or have such edits.
Changes(d, q)   == d.changes \cap Reads[q] # {}
Concerned(p, q) == {d \in Pages[p].edits : Changes(d, q) \/ q \in d.names}
Visited == [q \in Query |-> {p \in Page : q \in Pages[p].shows \/ Concerned(p, q) # {}} \cup {"analytics"}]

\* Edits that change an entry and do not invalidate it.
Unannounced ==
  {<<"wizardCredential", "credentials">>, <<"wizardKey", "keys">>,
   <<"setProjectStatus", "team">>, <<"deleteProject", "team">>,
   <<"deleteProject", "teams">>, <<"deleteProject", "keys">>,
   <<"deleteTeam", "team">>, <<"deleteTeam", "projects">>, <<"deleteTeam", "projectsPage">>}

\* What an edit does to the entry that is followed.
Effect(d, q) ==
  [changes |-> Changes(d, q), names |-> q \in d.names,
   owes |-> Changes(d, q) /\ <<d.op, q>> \notin Unannounced]

Effects == [q \in Query |-> [p \in Page |-> {Effect(d, q) : d \in Concerned(p, q)}]]

IsShown == watched \in Pages[page].shows

---------------------------------------------------------------------------
ConsoleInit ==
  /\ watched \in Query
  /\ page = "dashboard"
  /\ entry = Nothing
  /\ fetch = IF IsShown THEN [Still EXCEPT !.pc = "sent"] ELSE Still
  /\ edit = [e \in Edit |-> NoEdit]
  /\ version = 0 /\ owed = 0
  /\ failed = FALSE /\ crossed = FALSE

Request == fetch' = [Still EXCEPT !.pc = "sent"]

\* A page is opened: missing and stale entries are requested, unless a request
\* is under way.
Navigate(to) ==
  /\ page # to
  /\ page' = to
  /\ IF watched \in Pages[to].shows /\ ~entry.fresh /\ fetch.pc = "idle"
     THEN Request ELSE UNCHANGED fetch
  /\ UNCHANGED <<watched, entry, edit, version, owed, failed, crossed>>

\* The API reads the database ...
Serve ==
  /\ fetch.pc = "sent"
  /\ fetch' = [pc |-> "read", at |-> version]
  /\ UNCHANGED <<watched, page, entry, edit, version, owed, failed, crossed>>

\* ... and its answer is put into the cache, page or no page ...
Arrive ==
  /\ fetch.pc = "read"
  /\ entry' = [there |-> TRUE, at |-> fetch.at, fresh |-> TRUE]
  /\ fetch' = Still
  /\ failed' = FALSE
  /\ crossed' = (crossed /\ fetch.at < owed)
  /\ UNCHANGED <<watched, page, edit, version, owed>>

\* ... or the request and its one retry fail, and the entry stays.
FetchFails ==
  /\ fetch.pc # "idle"
  /\ fetch' = Still
  /\ failed' = TRUE
  /\ UNCHANGED <<watched, page, entry, edit, version, owed, crossed>>

\* staleTime is over.
Age ==
  /\ entry.fresh
  /\ entry' = [entry EXCEPT !.fresh = FALSE]
  /\ UNCHANGED <<watched, page, fetch, edit, version, owed, failed, crossed>>

\* The window gets the focus, or the export drawer polls.
Refetch ==
  /\ IsShown /\ fetch.pc = "idle"
  /\ ~entry.fresh \/ watched = "exports"
  /\ Request
  /\ UNCHANGED <<watched, page, entry, edit, version, owed, failed, crossed>>

\* An entry that no page has shown for five minutes is dropped.
Collect ==
  /\ ~IsShown /\ fetch.pc = "idle" /\ entry.there
  /\ entry' = Nothing
  /\ UNCHANGED <<watched, page, fetch, edit, version, owed, failed, crossed>>

---------------------------------------------------------------------------
\* The user submits a form of the page ...
Submit(e, does) ==
  /\ edit[e].pc = "idle"
  /\ edit' = [edit EXCEPT ![e] = [pc |-> "sent", does |-> does, wrote |-> 0]]
  /\ UNCHANGED <<watched, page, entry, fetch, version, owed, failed, crossed>>

\* ... the API commits it ...
Apply(e) ==
  LET changes == edit[e].does.changes
  IN  /\ edit[e].pc = "sent"
      /\ changes => version < MaxEdits
      /\ version' = IF changes THEN version + 1 ELSE version
      /\ edit' = [edit EXCEPT ![e].pc = "applied", ![e].wrote = version']
      /\ UNCHANGED <<watched, page, entry, fetch, owed, failed, crossed>>

\* Whether an invalidated entry is requested anew: it must be shown, and a
\* request under way is abandoned if the entry has data; a first one goes on.
Replaced == IsShown /\ (entry.there \/ fetch.pc = "idle")

InvalidateFetch == IF Replaced THEN Request ELSE UNCHANGED fetch

\* ... and onSuccess, whatever page is open by now, invalidates the entries it
\* names.
Answered(e) ==
  LET does == edit[e].does
  IN  /\ edit[e].pc = "applied"
      /\ edit' = [edit EXCEPT ![e] = NoEdit]
      /\ owed' = IF does.owes /\ edit[e].wrote > owed THEN edit[e].wrote ELSE owed
      /\ IF does.names
         THEN /\ entry' = [entry EXCEPT !.fresh = FALSE]
              /\ InvalidateFetch
              /\ crossed' = (crossed \/ (~Replaced /\ fetch.pc = "read"))
         ELSE UNCHANGED <<entry, fetch, crossed>>
      /\ UNCHANGED <<watched, page, version, failed>>

\* The edit is refused, or its answer is lost: an error is shown, and nothing
\* invalidated.
EditFails(e) ==
  /\ edit[e].pc # "idle"
  /\ edit' = [edit EXCEPT ![e] = NoEdit]
  /\ UNCHANGED <<watched, page, entry, fetch, version, owed, failed, crossed>>

\* Another tab, user or service changes what the entry shows.
Elsewhere ==
  /\ version < MaxEdits
  /\ version' = version + 1
  /\ UNCHANGED <<watched, page, entry, fetch, edit, owed, failed, crossed>>

ConsoleNext ==
  \/ \E to \in Visited[watched] : Navigate(to)
  \/ Serve \/ Arrive \/ FetchFails \/ Age \/ Refetch \/ Collect \/ Elsewhere
  \/ \E e \in Edit, does \in Effects[watched][page] : Submit(e, does)
  \/ \E e \in Edit : Apply(e) \/ Answered(e) \/ EditFails(e)

ConsoleSpec == ConsoleInit /\ [][ConsoleNext]_consoleVars

---------------------------------------------------------------------------
(* Properties *)

\* Every variable keeps its type.
ConsoleTypeOK ==
  /\ watched \in Query /\ page \in Page
  /\ entry \in [there : BOOLEAN, at : 0..MaxEdits, fresh : BOOLEAN]
  /\ fetch \in [pc : {"idle", "sent", "read"}, at : 0..MaxEdits]
  /\ edit \in [Edit -> [pc : {"idle", "sent", "applied"}, wrote : 0..MaxEdits,
                         does : [changes : BOOLEAN, names : BOOLEAN, owes : BOOLEAN]]]
  /\ version \in 0..MaxEdits /\ owed \in 0..version
  /\ failed \in BOOLEAN /\ crossed \in BOOLEAN

\* Users see their own edits: once an edit is answered, no page takes data
\* older than the edit for fresh, whichever page is open by then and however
\* slow the requests around it are; and while the open page shows such data a
\* request is under way, or the last one has failed.  Excepted are the pairs that
\* no page invalidates, and, until a newer answer comes, an entry whose answer
\* was on its way when it was invalidated, for its first load or for a page the
\* user had left: react-query keeps that request and takes the old answer for
\* fresh.
OwnEditsAreShown ==
  ~crossed => /\ entry.fresh => entry.at >= owed
              /\ (IsShown /\ entry.there /\ entry.at < owed) => fetch.pc # "idle" \/ failed
=============================================================================
