------------------------------- MODULE Teams -------------------------------
(***************************************************************************)
(* Teams, their members and the projects they own                            *)
(* (apps/api/src/modules/teams.ts and org.ts), beside the removal of         *)
(* workspace members (invitations.ts), the issue of keys (keys.ts) and the   *)
(* usage that ingest records.  The routes check first and write afterwards,  *)
(* outside a transaction.  Where the database makes the same check again,    *)
(* with a unique index or a row that must be there, the route is one step.   *)
(***************************************************************************)
EXTENDS Naturals

CONSTANTS
  User, Team, Project,
  TeamRequest      \* concurrent requests to the API

VARIABLES
  role,       \* workspace_member: the role of each user in the workspace
  team,       \* rows of team
  member,     \* rows of team_member
  project,    \* rows of project, and whether keys and usage refer to them
  treq,       \* what each request has checked
  left        \* history: users who were removed from the workspace

teamVars == <<role, team, member, project, treq, left>>

NoTeam    == "no team"

ASSUME TeamsAssumption == NoTeam \notin Team

NoProject == [status |-> "none", team |-> NoTeam, keys |-> FALSE, usage |-> FALSE]
Free      == [pc |-> "idle", team |-> NoTeam, user |-> {}, project |-> {}, value |-> "none"]

TeamInit ==
  /\ role \in [User -> {"none", "MEMBER", "ADMIN"}]
  /\ team = [t \in Team |-> "none"]
  /\ member = [t \in Team |-> [u \in User |-> "none"]]
  /\ project = [p \in Project |-> NoProject]
  /\ treq = [r \in TeamRequest |-> Free]
  /\ left = {}

IsTeam(t)    == team[t] = "there"
IsProject(p) == project[p].status \in {"ACTIVE", "ARCHIVED"}
Asked(r, pc) == treq[r].pc = pc
Done(r)      == treq' = [treq EXCEPT ![r] = Free]
Admin(u)     == role[u] = "ADMIN"
Owners       == {NoTeam} \cup {t \in Team : IsTeam(t)}

\* assertCanManageTeam, behind the workspace guard.
CanManageTeam(u, t) == Admin(u) \/ (role[u] # "none" /\ member[t][u] = "LEAD")

---------------------------------------------------------------------------
(* Teams and their members *)

\* POST /teams.
CreateTeam(t) ==
  /\ \E u \in User : Admin(u)
  /\ team[t] = "none"
  /\ team' = [team EXCEPT ![t] = "there"]
  /\ UNCHANGED <<role, member, project, treq, left>>

\* project_teamId_fkey: ON DELETE SET NULL.
Disowned(t) ==
  [p \in Project |-> IF project[p].team = t THEN [project[p] EXCEPT !.team = NoTeam] ELSE project[p]]

\* DELETE /teams/:id: the members cascade, the projects survive without owner.
DeleteTeam(t) ==
  /\ \E u \in User : Admin(u)
  /\ IsTeam(t)
  /\ team' = [team EXCEPT ![t] = "deleted"]
  /\ member' = [member EXCEPT ![t] = [u \in User |-> "none"]]
  /\ project' = Disowned(t)
  /\ UNCHANGED <<role, treq, left>>

\* "A team member must already belong to the workspace."
InWorkspace(u) == role[u] # "none"

\* POST /teams/:id/members: team, rights, workspace and team are read ...
AddMemberCheck(r, t, by, u, as) ==
  /\ Asked(r, "idle")
  /\ IsTeam(t) /\ CanManageTeam(by, t)
  /\ InWorkspace(u) /\ member[t][u] = "none"
  /\ treq' = [treq EXCEPT ![r] = [Free EXCEPT !.pc = "add", !.team = t, !.user = {u}, !.value = as]]
  /\ UNCHANGED <<role, team, member, project, left>>

\* ... and the row is written, unless the team is gone or the row is there.
AddMember(r) ==
  LET t == treq[r].team
  IN  /\ Asked(r, "add")
      /\ member' = IF IsTeam(t)
                   THEN [member EXCEPT ![t] = [u \in User |->
                           IF u \in treq[r].user /\ @[u] = "none" THEN treq[r].value ELSE @[u]]]
                   ELSE member
      /\ Done(r)
      /\ UNCHANGED <<role, team, project, left>>

\* PATCH and DELETE /teams/:id/members/:userId: rights are read ...
EditMemberCheck(r, t, by, u, as) ==
  /\ Asked(r, "idle")
  /\ IsTeam(t) /\ CanManageTeam(by, t)
  /\ member[t][u] # "none"
  /\ treq' = [treq EXCEPT ![r] = [Free EXCEPT !.pc = "edit", !.team = t, !.user = {u}, !.value = as]]
  /\ UNCHANGED <<role, team, member, project, left>>

\* ... and the row changed or deleted, if it is still there.
EditMember(r) ==
  /\ Asked(r, "edit")
  /\ member' = [member EXCEPT ![treq[r].team] = [u \in User |->
                  IF u \in treq[r].user /\ @[u] # "none" THEN treq[r].value ELSE @[u]]]
  /\ Done(r)
  /\ UNCHANGED <<role, team, project, left>>

\* DELETE /members/:userId takes the user out of the workspace and leaves the
\* rows of team_member alone.
RemoveWorkspaceMember(u) ==
  /\ role[u] # "none"
  /\ role' = [role EXCEPT ![u] = "none"]
  /\ left' = left \cup {u}
  /\ UNCHANGED <<team, member, project, treq>>

\* An accepted invitation brings a user into the workspace, or back.
JoinWorkspace(u) ==
  /\ role[u] = "none"
  /\ role' = [role EXCEPT ![u] = "MEMBER"]
  /\ UNCHANGED <<team, member, project, treq, left>>

---------------------------------------------------------------------------
(* Projects *)

\* POST /projects with or without an owning team, whose row must be there.
CreateProject(p, t) ==
  /\ \E u \in User : Admin(u)
  /\ project[p].status = "none"
  /\ t \in Owners
  /\ project' = [project EXCEPT ![p] = [NoProject EXCEPT !.status = "ACTIVE", !.team = t]]
  /\ UNCHANGED <<role, team, member, treq, left>>

\* PATCH /projects/:id: a new owner or none, archived or active again.
PatchProject(p, t, status) ==
  /\ \E u \in User : Admin(u)
  /\ IsProject(p)
  /\ t \in Owners
  /\ project' = [project EXCEPT ![p].team = t, ![p].status = status]
  /\ UNCHANGED <<role, team, member, treq, left>>

\* POST /keys: the project is found ACTIVE ...
IssueKeyCheck(r, p) ==
  /\ Asked(r, "idle")
  /\ project[p].status = "ACTIVE"
  /\ treq' = [treq EXCEPT ![r] = [Free EXCEPT !.pc = "key", !.project = {p}]]
  /\ UNCHANGED <<role, team, member, project, left>>

\* ... and the key is written, if the project is there at all.
IssueKey(r) ==
  /\ Asked(r, "key")
  /\ project' = [p \in Project |-> IF p \in treq[r].project /\ IsProject(p)
                                   THEN [project[p] EXCEPT !.keys = TRUE] ELSE project[p]]
  /\ Done(r)
  /\ UNCHANGED <<role, team, member, left>>

\* Ingest commits an event of a key of the project.
RecordUsage(p) ==
  /\ IsProject(p) /\ project[p].keys
  /\ project' = [project EXCEPT ![p].usage = TRUE]
  /\ UNCHANGED <<role, team, member, treq, left>>

\* DELETE /projects/:id: the events of the project are counted ...
DeleteProjectCheck(r, p) ==
  /\ Asked(r, "idle")
  /\ \E u \in User : Admin(u)
  /\ IsProject(p) /\ ~project[p].usage
  /\ treq' = [treq EXCEPT ![r] = [Free EXCEPT !.pc = "delete", !.project = {p}]]
  /\ UNCHANGED <<role, team, member, project, left>>

\* Faulty variant: usage_event does not refer to keys and projects.
RestrictedNever(p) == FALSE

\* usage_event_projectId_fkey and usage_event_virtualKeyId_fkey: ON DELETE RESTRICT.
Restricted(p) == project[p].usage

\* ... and its keys and the project are deleted in one transaction, which an
\* event that came in between makes fail.
DeleteProject(r) ==
  /\ Asked(r, "delete")
  /\ project' = [p \in Project |->
                   IF p \in treq[r].project /\ IsProject(p) /\ ~Restricted(p)
                   THEN [project[p] EXCEPT !.status = "deleted", !.team = NoTeam, !.keys = FALSE]
                   ELSE project[p]]
  /\ Done(r)
  /\ UNCHANGED <<role, team, member, left>>

---------------------------------------------------------------------------
TeamNext ==
  \/ \E t \in Team : CreateTeam(t) \/ DeleteTeam(t)
  \/ \E r \in TeamRequest, t \in Team, by, u \in User :
       \/ \E as \in {"MEMBER", "LEAD"} : AddMemberCheck(r, t, by, u, as)
       \/ \E as \in {"none", "MEMBER", "LEAD"} : EditMemberCheck(r, t, by, u, as)
  \/ \E r \in TeamRequest : AddMember(r) \/ EditMember(r) \/ IssueKey(r) \/ DeleteProject(r)
  \/ \E u \in User : RemoveWorkspaceMember(u) \/ JoinWorkspace(u)
  \/ \E p \in Project, t \in Team \cup {NoTeam} :
       \/ CreateProject(p, t)
       \/ \E status \in {"ACTIVE", "ARCHIVED"} : PatchProject(p, t, status)
  \/ \E r \in TeamRequest, p \in Project : IssueKeyCheck(r, p) \/ DeleteProjectCheck(r, p)
  \/ \E p \in Project : RecordUsage(p)

TeamSpec == TeamInit /\ [][TeamNext]_teamVars

---------------------------------------------------------------------------
(* Properties *)

\* Every variable keeps its type.
TeamTypeOK ==
  /\ role \in [User -> {"none", "MEMBER", "ADMIN"}]
  /\ team \in [Team -> {"none", "there", "deleted"}]
  /\ member \in [Team -> [User -> {"none", "MEMBER", "LEAD"}]]
  /\ project \in [Project -> [status : {"none", "ACTIVE", "ARCHIVED", "deleted"},
                              team : Team \cup {NoTeam}, keys : BOOLEAN, usage : BOOLEAN]]
  /\ treq \in [TeamRequest -> [pc : {"idle", "add", "edit", "key", "delete"},
                               team : Team \cup {NoTeam}, user : SUBSET User,
                               project : SUBSET Project, value : {"none", "MEMBER", "LEAD"}]]
  /\ left \subseteq User

\* A deleted team leaves no members and no project behind that names it, a
\* project with usage or keys is there (history is archived, not deleted), and a
\* member of a team who does not belong to the workspace has been removed from
\* it, whatever was checked before a deletion and written after it.
NothingDangles ==
  /\ \A t \in Team : ~IsTeam(t) => /\ \A u \in User : member[t][u] = "none"
                                   /\ \A p \in Project : project[p].team # t
  /\ \A p \in Project : project[p].usage \/ project[p].keys => IsProject(p)
  /\ \A t \in Team, u \in User : member[t][u] # "none" => role[u] # "none" \/ u \in left
=============================================================================
