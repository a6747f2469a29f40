----------------------------- MODULE Membership -----------------------------
(***************************************************************************)
(* Who belongs to an organisation and to its projects: the services of     *)
(* lib/server/organizations.ts and projects.ts, and the project-scoped     *)
(* keys of api-keys.ts.                                                    *)
(*                                                                         *)
(* A request reads the rows that permit its write and writes in a later    *)
(* statement, so any other request may come between the two.  A request    *)
(* whose check fails ends without a trace and is not a step here.  Reads   *)
(* that a key of the table repeats (is the user a member already?) are     *)
(* part of the write.                                                      *)
(***************************************************************************)
EXTENDS Integers, FiniteSets

CONSTANTS
  Users, Teams,     \* Teams: the projects of the one organisation
  MemberRequests,   \* requests that run at the same time
  Founders,         \* the users who may create the organisation
  MaxKeys           \* bound: keys of the projects that are there at a time

ASSUME FoundersAssumption == Founders \subseteq Users

VARIABLES
  org,              \* row of organization: "absent", "live" or "gone"
  orgRole,          \* orgRole[u]: the role of organization_member, or "none"
  team,             \* team[p]: row of project, likewise
  teamRole,         \* teamRole[p][u]: the role of project_member, or "none"
  keys,             \* <<p, u>>: a key of the project by the user, not revoked
  named,            \* named[p]: what names a key of the project, revoked or not:
                    \* "nothing", "envelope" (swept in time) or "job" (kept)
  request           \* request[r]: the write it has been permitted

rowVars == <<org, orgRole, team, teamRole, keys, named>>
membershipVars == <<rowVars, request>>

OrgRoles == {"owner", "admin", "member"}
TeamRoles == {"lead", "contributor"}

Idle == [op |-> "idle"]

Pending ==
  {Idle}
    \cup [op : {"addMember"}, on : Users, role : OrgRoles \ {"owner"}]
    \cup [op : {"readTarget"}, by : Users, on : Users, role : OrgRoles]
    \cup [op : {"removeMember"}, on : Users]
    \cup [op : {"deleteOrg"}]
    \cup [op : {"createTeam"}, by : Users, team : Teams]
    \cup [op : {"readOrgMember", "addTeamMember"}, on : Users, team : Teams, role : TeamRoles]
    \cup [op : {"removeTeamMember"}, on : Users, team : Teams]
    \cup [op : {"deleteTeam"}, team : Teams]
    \cup [op : {"readTeamMember", "createKey"}, by : Users, team : Teams]

MembershipTypeOK ==
  /\ org \in {"absent", "live", "gone"}
  /\ orgRole \in [Users -> OrgRoles \cup {"none"}]
  /\ team \in [Teams -> {"absent", "live", "gone"}]
  /\ teamRole \in [Teams -> [Users -> TeamRoles \cup {"none"}]]
  /\ keys \in SUBSET (Teams \X Users)
  /\ named \in [Teams -> {"nothing", "envelope", "job"}]
  /\ request \in [MemberRequests -> Pending]

NothingNamed == [p \in Teams |-> "nothing"]

NoRoles == [u \in Users |-> "none"]

MembershipInit ==
  /\ org = "absent" /\ orgRole = NoRoles
  /\ team = [p \in Teams |-> "absent"]
  /\ teamRole = [p \in Teams |-> NoRoles]
  /\ keys = {} /\ named = NothingNamed
  /\ request = [r \in MemberRequests |-> Idle]

\* The request has made its first check and is about to do next.
Permitted(r, next) ==
  /\ request[r] = Idle
  /\ request' = [request EXCEPT ![r] = next]
  /\ UNCHANGED rowVars

Goes(r, next) == request' = [request EXCEPT ![r] = next] /\ UNCHANGED rowVars

Finish(r) == request' = [request EXCEPT ![r] = Idle]

\* The request dies, or is refused by its second check or by the database.
AbandonRequest(r) == request[r] # Idle /\ Finish(r) /\ UNCHANGED rowVars

-----------------------------------------------------------------------------
(* The organisation. *)

\* One transaction: the organisation and the owner's row.
CreateOrganization(u) ==
  /\ org = "absent"
  /\ org' = "live"
  /\ orgRole' = [orgRole EXCEPT ![u] = "owner"]
  /\ UNCHANGED <<team, teamRole, keys, named, request>>

StartDeleteOrganization(r, u) ==
  /\ orgRole[u] = "owner"
  /\ Permitted(r, [op |-> "deleteOrg"])

\* Mutant: the members go with the organisation, its projects stay.
MutDeleteOrganization(r) ==
  /\ request[r].op = "deleteOrg"
  /\ org' = "gone" /\ orgRole' = NoRoles
  /\ Finish(r) /\ UNCHANGED <<team, teamRole, keys, named>>

\* The envelopes go with it.  A job stays, and the key that it names with it:
\* the foreign key then refuses the delete.
DeleteOrganization(r) ==
  /\ request[r].op = "deleteOrg"
  /\ \A p \in Teams : named[p] # "job"
  /\ org' = "gone" /\ orgRole' = NoRoles
  /\ team' = [p \in Teams |-> IF team[p] = "live" THEN "gone" ELSE team[p]]
  /\ teamRole' = [p \in Teams |-> NoRoles] /\ keys' = {} /\ named' = NothingNamed
  /\ Finish(r)

StartAddMember(r, u, target, role) ==
  /\ orgRole[u] \in {"owner", "admin"}
  /\ Permitted(r, [op |-> "addMember", on |-> target, role |-> role])

\* The foreign key needs the organisation, the primary key a user without row.
AddMember(r) ==
  /\ request[r].op = "addMember" /\ org = "live"
  /\ orgRole[request[r].on] = "none"
  /\ orgRole' = [orgRole EXCEPT ![request[r].on] = request[r].role]
  /\ Finish(r) /\ UNCHANGED <<org, team, teamRole, keys, named>>

\* Of the actor, only the role is kept for the second check.
StartRemoveMember(r, u, target) ==
  /\ orgRole[u] # "none"
  /\ Permitted(r, [op |-> "readTarget", by |-> u, on |-> target, role |-> orgRole[u]])

ReadTarget(r) ==
  /\ request[r].op = "readTarget"
  /\ LET q == request[r] IN
       /\ orgRole[q.on] \notin {"none", "owner"}
       /\ q.by = q.on \/ q.role = "owner" \/ (q.role = "admin" /\ orgRole[q.on] = "member")
       /\ Goes(r, [op |-> "removeMember", on |-> q.on])

\* Project memberships and keys of the user stay.
RemoveMember(r) ==
  /\ request[r].op = "removeMember"
  /\ orgRole' = [orgRole EXCEPT ![request[r].on] = "none"]
  /\ Finish(r) /\ UNCHANGED <<org, team, teamRole, keys, named>>

-----------------------------------------------------------------------------
(* Its projects. *)

StartCreateProject(r, u, p) ==
  /\ orgRole[u] # "none"
  /\ Permitted(r, [op |-> "createTeam", by |-> u, team |-> p])

\* One transaction: the project and the row of its first lead.
CreateProject(r) ==
  /\ request[r].op = "createTeam" /\ org = "live"
  /\ LET q == request[r] IN
       /\ team[q.team] = "absent"
       /\ team' = [team EXCEPT ![q.team] = "live"]
       /\ teamRole' = [teamRole EXCEPT ![q.team][q.by] = "lead"]
  /\ Finish(r) /\ UNCHANGED <<org, orgRole, keys, named>>

StartDeleteProject(r, u, p) ==
  /\ teamRole[p][u] = "lead"
  /\ Permitted(r, [op |-> "deleteTeam", team |-> p])

\* Members and keys go with the project.  Envelopes and jobs stay without it,
\* but not without the key that they name: then the delete is refused.
DeleteProject(r) ==
  /\ request[r].op = "deleteTeam"
  /\ LET p == request[r].team IN
       /\ team[p] = "live" /\ named[p] = "nothing"
       /\ team' = [team EXCEPT ![p] = "gone"]
       /\ teamRole' = [teamRole EXCEPT ![p] = NoRoles]
       /\ keys' = keys \ ({p} \X Users)
  /\ Finish(r) /\ UNCHANGED <<org, orgRole, named>>

\* A lead of the project and nobody else: the owner of the organisation has no
\* say in a project that it does not lead.
StartAddProjectMember(r, u, p, target, role) ==
  /\ teamRole[p][u] = "lead"
  /\ Permitted(r, [op |-> "readOrgMember", on |-> target, team |-> p, role |-> role])

ReadOrgMember(r) ==
  /\ request[r].op = "readOrgMember"
  /\ team[request[r].team] = "live" /\ orgRole[request[r].on] # "none"
  /\ Goes(r, [request[r] EXCEPT !.op = "addTeamMember"])

AddProjectMember(r) ==
  /\ request[r].op = "addTeamMember"
  /\ LET q == request[r] IN
       /\ team[q.team] = "live" /\ teamRole[q.team][q.on] = "none"
       /\ teamRole' = [teamRole EXCEPT ![q.team][q.on] = q.role]
  /\ Finish(r) /\ UNCHANGED <<org, orgRole, team, keys, named>>

\* A lead does not remove itself.
StartRemoveProjectMember(r, u, p, target) ==
  /\ teamRole[p][u] = "lead" /\ u # target
  /\ Permitted(r, [op |-> "removeTeamMember", on |-> target, team |-> p])

RemoveProjectMember(r) ==
  /\ request[r].op = "removeTeamMember"
  /\ teamRole' = [teamRole EXCEPT ![request[r].team][request[r].on] = "none"]
  /\ Finish(r) /\ UNCHANGED <<org, orgRole, team, keys, named>>

-----------------------------------------------------------------------------
(* Project-scoped keys. *)

StartCreateKey(r, u, p) ==
  /\ orgRole[u] # "none"
  /\ Permitted(r, [op |-> "readTeamMember", by |-> u, team |-> p])

ReadTeamMember(r) ==
  /\ request[r].op = "readTeamMember"
  /\ teamRole[request[r].team][request[r].by] # "none"
  /\ Goes(r, [request[r] EXCEPT !.op = "createKey"])

\* The foreign keys need the organisation and the project, nothing else.
CreateKey(r) ==
  /\ request[r].op = "createKey" /\ org = "live" /\ team[request[r].team] = "live"
  /\ Cardinality(keys) < MaxKeys
  /\ keys' = keys \cup {<<request[r].team, request[r].by>>}
  /\ Finish(r) /\ UNCHANGED <<org, orgRole, team, teamRole, named>>

RevokeKey(p, u) ==
  /\ <<p, u>> \in keys
  /\ keys' = keys \ {<<p, u>>}
  /\ UNCHANGED <<org, orgRole, team, teamRole, named, request>>

\* A key seals an envelope or anchors a job, and the row names it for ever.
UseKey(p, u, row) ==
  /\ <<p, u>> \in keys /\ named[p] # "job"
  /\ named' = [named EXCEPT ![p] = row]
  /\ UNCHANGED <<org, orgRole, team, teamRole, keys, request>>

\* The retention sweep has deleted the last of the envelopes.
ForgetEnvelopes(p) ==
  /\ named[p] = "envelope"
  /\ named' = [named EXCEPT ![p] = "nothing"]
  /\ UNCHANGED <<org, orgRole, team, teamRole, keys, request>>

-----------------------------------------------------------------------------
OrgStep(r) ==
  \/ \E u \in Users :
       \/ StartDeleteOrganization(r, u)
       \/ \E target \in Users, role \in OrgRoles \ {"owner"} : StartAddMember(r, u, target, role)
       \/ \E target \in Users : StartRemoveMember(r, u, target)
  \/ DeleteOrganization(r) \/ AddMember(r) \/ ReadTarget(r) \/ RemoveMember(r)

TeamStep(r) ==
  \/ \E u \in Users, p \in Teams :
       \/ StartCreateProject(r, u, p) \/ StartDeleteProject(r, u, p) \/ StartCreateKey(r, u, p)
       \/ \E target \in Users :
            \/ StartRemoveProjectMember(r, u, p, target)
            \/ \E role \in TeamRoles : StartAddProjectMember(r, u, p, target, role)
  \/ CreateProject(r) \/ DeleteProject(r)
  \/ ReadOrgMember(r) \/ AddProjectMember(r) \/ RemoveProjectMember(r)
  \/ ReadTeamMember(r) \/ CreateKey(r)

MembershipNext ==
  \/ \E u \in Founders : CreateOrganization(u)
  \/ \E p \in Teams, u \in Users :
       RevokeKey(p, u) \/ \E row \in {"envelope", "job"} : UseKey(p, u, row)
  \/ \E p \in Teams : ForgetEnvelopes(p)
  \/ \E r \in MemberRequests : OrgStep(r) \/ TeamStep(r) \/ AbandonRequest(r)

MembershipSpec == MembershipInit /\ [][MembershipNext]_membershipVars

-----------------------------------------------------------------------------
(* What membership promises. *)

Owners == {u \in Users : orgRole[u] = "owner"}

\* "The owner cannot leave or be removed": an organisation has exactly one
\* owner as long as it exists, though every removal decides on a role that it
\* has read earlier.
OwnerStays ==
  IF org = "live" THEN \E u \in Users : Owners = {u} ELSE orgRole = NoRoles

\* Nothing outlives what it belongs to: deletes cascade, and an insert that
\* was permitted before a delete does not come after it.  The key that an
\* envelope or a job names is there as long as they are.
NoOrphanRows ==
  /\ org # "live" => \A p \in Teams : team[p] # "live"
  /\ \A p \in Teams : team[p] # "live" =>
       teamRole[p] = NoRoles /\ keys \cap ({p} \X Users) = {} /\ named[p] = "nothing"

\* The strengthening: a removal has never been permitted of an owner, and
\* nothing is permitted before the organisation is there.
RemovalInv ==
  \A r \in MemberRequests :
    /\ request[r].op = "removeMember" => orgRole[request[r].on] # "owner"
    /\ org = "absent" => request[r] = Idle

MembershipInv == MembershipTypeOK /\ OwnerStays /\ NoOrphanRows /\ RemovalInv
=============================================================================
