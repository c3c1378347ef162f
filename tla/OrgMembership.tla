----------------------------- MODULE OrgMembership -----------------------------
(***************************************************************************)
(* The members of one organisation (server/store.ts, the routes of         *)
(* server.ts and requireOrgMembership of server/auth.ts): invitations,     *)
(* roles, suspension, removal, leaving and deletion, the repair of the     *)
(* creator's membership, and what a restart of the process brings back.    *)
(*                                                                         *)
(* One backend process keeps the organisation in maps and writes it to     *)
(* Firestore without waiting.  A new process accepts requests at once      *)
(* while initPersistence still reads Firestore, and a request of a user    *)
(* whom the maps do not know asks Firestore itself and is suspended.       *)
(*                                                                         *)
(* A user stands for an identity and its e-mail address and has no other   *)
(* organisation.  Invitations are stored in Firestore but never read from  *)
(* it, so only the map counts; one whose time has passed is EXPIRED.       *)
(* ENGINEER, SRE and the other roles count as MEMBER.                      *)
(***************************************************************************)
EXTENDS Naturals, FiniteSets

CONSTANTS
  Users, Creator,   \* the creator is org.ownerUserId
  MaxInvitations,   \* bound: invitations that are sent
  MaxCommands,      \* bound: commands of the users
  MaxRestarts,      \* bound: restarts of the process
  MaxFailures,      \* bound: writes and reads of Firestore that fail
  MaxWrites         \* bound: writes under way after which no command comes

ASSUME MembershipAssumption ==
  /\ Creator \in Users
  /\ MaxInvitations \in Nat /\ MaxCommands \in Nat /\ MaxRestarts \in Nat
  /\ MaxFailures \in Nat /\ MaxWrites \in Nat

VARIABLES
  org,          \* orgs has the organisation
  deleted,      \* deletedOrgIds has it
  members,      \* its list of members
  listed,       \* members has a list
  invitations,
  hyd,          \* initPersistence: where it is, and what it has read
  lookups,      \* requests that wait for getUserOrganizations
  writes,       \* writes to Firestore under way
  orgDoc,       \* Firestore has the organisation's document
  docs,         \* the memberships documents
  left          \* commands, restarts and failures that are still to come

process == <<org, deleted, members, listed, invitations, hyd, lookups>>
vars == <<process, writes, orgDoc, docs, left>>

Roles == {"OWNER", "ADMIN", "MEMBER"}
Statuses == {"ACTIVE", "SUSPENDED", "REMOVED"}

\* Someone who is not on the list has the entry None.
Entry == [role : Roles \cup {"none"}, status : Statuses]
None == [role |-> "none", status |-> "REMOVED"]

\* Mutant: the status is stored as the role and the role as the status.
OwnerSwapped == [role |-> "ACTIVE", status |-> "OWNER"]

Owner == [role |-> "OWNER", status |-> "ACTIVE"]
Nobody == [u \in Users |-> None]

Ids == 1 .. MaxInvitations
Invitation ==
  [to : Users, role : Roles,
   status : {"UNUSED", "PENDING", "EXPIRED", "ACCEPTED", "DECLINED", "REVOKED"}]
NoInvitation == [to |-> Creator, role |-> "MEMBER", status |-> "UNUSED"]

SetOrgMembers(m) == [op |-> "setOrgMembers", list |-> m, user |-> Creator]
RemoveOrgMember(u) == [op |-> "removeOrgMember", list |-> Nobody, user |-> u]
UpsertOrganization == [op |-> "upsertOrganization", list |-> Nobody, user |-> Creator]
DropOrganization == [op |-> "deleteOrganization", list |-> Nobody, user |-> Creator]
DropMemberships == [op |-> "deleteMemberships", list |-> Nobody, user |-> Creator]

Write ==
  {SetOrgMembers(m) : m \in [Users -> Entry]} \cup {RemoveOrgMember(u) : u \in Users}
    \cup {UpsertOrganization, DropOrganization, DropMemberships}

\* A lookup asks for the user's organisations, resumes when it "has" one, and
\* may go on to read and to set the "list" of the members.
Lookup == [user : Users, at : {"asks", "has", "list", "set"}, docs : [Users -> Entry]]

Hydration == [at : {"lists", "org", "members", "set", "done", "failed"}, org : BOOLEAN, docs : [Users -> Entry]]

Hydrating(where) == [at |-> where, org |-> FALSE, docs |-> Nobody]

Budget == [commands : 0 .. MaxCommands, restarts : 0 .. MaxRestarts, failures : 0 .. MaxFailures]

TypeOK ==
  /\ org \in BOOLEAN /\ deleted \in BOOLEAN /\ listed \in BOOLEAN /\ orgDoc \in BOOLEAN
  /\ members \in [Users -> Entry] /\ docs \in [Users -> Entry]
  /\ invitations \in [Ids -> Invitation]
  /\ hyd \in Hydration
  /\ lookups \subseteq Lookup
  /\ \A w \in writes : w \in Write
  /\ left \in Budget

\* createOrganization has returned.
Init ==
  /\ org = TRUE /\ deleted = FALSE /\ listed = TRUE
  /\ members = [Nobody EXCEPT ![Creator] = Owner]
  /\ invitations = [i \in Ids |-> NoInvitation]
  /\ hyd = Hydrating("done") /\ lookups = {}
  /\ writes = {UpsertOrganization, SetOrgMembers(members)}
  /\ orgDoc = FALSE /\ docs = Nobody
  /\ left = [commands |-> MaxCommands, restarts |-> MaxRestarts, failures |-> MaxFailures]

-----------------------------------------------------------------------------
(* What every request does first.                                          *)

\* getOrganizationsForUser lists the organisation for u.
Belongs(u) ==
  org /\ ~deleted /\ (u = Creator \/ members[u].status = "ACTIVE")

\* ... and on the way makes the creator an owner again, whose status it keeps.
WithCreator(m) ==
  [m EXCEPT ![Creator] = IF @ = None THEN Owner ELSE [@ EXCEPT !.role = "OWNER"]]

Healed(u) == IF u = Creator THEN WithCreator(members) ELSE members

\* The role requireOrgMembership finds; the creator is let in whatever the
\* membership's status is.
RoleOf(u) == IF u = Creator THEN "OWNER" ELSE members[u].role

\* requireRole(['OWNER', 'ADMIN'])
Manages(u) == Belongs(u) /\ RoleOf(u) \in {"OWNER", "ADMIN"}

\* getOrgMembers puts the creator on a list that has no owner.
WithOwner(m) ==
  IF (\E u \in Users : m[u].role = "OWNER" /\ m[u].status # "REMOVED") \/ m[Creator] # None
  THEN m
  ELSE [m EXCEPT ![Creator] = Owner]

Spend(what) == left[what] > 0 /\ left' = [left EXCEPT ![what] = @ - 1]

Command == Spend("commands") /\ Cardinality(writes) < MaxWrites

\* A request of the creator (getOrganizationsForUser).
CreatorAsks ==
  /\ Belongs(Creator) /\ Healed(Creator) # members
  /\ members' = Healed(Creator) /\ listed' = TRUE
  /\ UNCHANGED <<org, deleted, invitations, hyd, lookups, writes, orgDoc, docs, left>>

\* The process saves the list when adding the creator has changed it to m.
Saves(m) ==
  /\ members' = m
  /\ listed' = (listed \/ m # members)
  /\ writes' = IF m # members THEN writes \cup {SetOrgMembers(m)} ELSE writes

\* Whoever lists the members: a request, a notification, the log manager.
GetOrgMembers ==
  /\ org /\ WithOwner(members) # members
  /\ Saves(WithOwner(members))
  /\ UNCHANGED <<org, deleted, invitations, hyd, lookups, orgDoc, docs, left>>

\* GET /api/v1/orgs/:id by the creator: checkUserOrgAccess.
CheckUserOrgAccess ==
  /\ org /\ members[Creator] = None
  /\ Saves([members EXCEPT ![Creator] = Owner])
  /\ UNCHANGED <<org, deleted, invitations, hyd, lookups, orgDoc, docs, left>>

\* The steps of a lookup that change nothing but the lookups.
OnlyLookups ==
  UNCHANGED <<org, deleted, members, listed, invitations, hyd, writes, orgDoc, docs>>

\* A request of u outside the maps' knowledge asks Firestore.
RequestLooksUp(u) ==
  /\ ~Belongs(u)
  /\ \A l \in lookups : l.user # u
  /\ lookups' = lookups \cup {[user |-> u, at |-> "asks", docs |-> Nobody]}
  /\ OnlyLookups /\ UNCHANGED left

\* Mutant: a membership counts although its organisation's document is gone.
FoundByMembership(u) == docs[u] # None

\* getUserOrganizations: a membership of any status, and the organisation's document.
Found(u) == docs[u] # None /\ orgDoc

\* A request for which nothing is found is refused.
LookupReads(l) ==
  /\ l.at = "asks"
  /\ lookups' = (lookups \ {l}) \cup (IF Found(l.user) THEN {[l EXCEPT !.at = "has"]} ELSE {})
  /\ OnlyLookups /\ UNCHANGED left

LookupFails(l) ==
  /\ Spend("failures")
  /\ l.at \in {"asks", "list"}
  /\ lookups' = lookups \ {l}
  /\ OnlyLookups

\* hydrateOrganization, then getOrgMembers.  With the owner it adds, the list of
\* an organisation that is there is never empty: the stored members are read only
\* when the organisation has been deleted.  Otherwise getOrganizationsForUser heals
\* the list for a creator, without a write.
LookupResumes(l) ==
  /\ l.at = "has"
  /\ org' = (org \/ ~deleted)
  /\ LET m == IF org' THEN WithOwner(members) ELSE members
         empty == ~org' /\ \A u \in Users : m[u].status = "REMOVED" IN
       /\ lookups' = (lookups \ {l}) \cup (IF empty THEN {[l EXCEPT !.at = "list"]} ELSE {})
       /\ members' = IF l.user = Creator /\ ~deleted THEN WithCreator(m) ELSE m
       /\ listed' = (listed \/ members' # members)
       /\ writes' = IF m # members THEN writes \cup {SetOrgMembers(m)} ELSE writes
  /\ UNCHANGED <<deleted, invitations, hyd, orgDoc, docs, left>>

LookupReadsMembers(l) ==
  /\ l.at = "list"
  /\ lookups' = (lookups \ {l}) \cup (IF docs = Nobody THEN {} ELSE {[l EXCEPT !.at = "set", !.docs = docs]})
  /\ OnlyLookups /\ UNCHANGED left

\* setOrgMembers keeps the entries there are.
LookupSetsMembers(l) ==
  /\ l.at = "set"
  /\ members' = [u \in Users |-> IF members[u] # None THEN members[u] ELSE l.docs[u]]
  /\ listed' = TRUE
  /\ lookups' = lookups \ {l}
  /\ UNCHANGED <<org, deleted, invitations, hyd, writes, orgDoc, docs, left>>

-----------------------------------------------------------------------------
(* Invitations.                                                            *)

Pending(u) == {i \in Ids : invitations[i].to = u /\ invitations[i].status = "PENDING"}
Unused == {i \in Ids : invitations[i].status = "UNUSED"}
First(S) == CHOOSE i \in S : \A j \in S : i <= j

\* The commands on invitations leave the rest of the process alone.
OnlyInvitations ==
  UNCHANGED <<org, deleted, hyd, lookups, orgDoc, docs>>

\* canAddMember lists the members; inviteMember renews an invitation that is pending.
InviteMember(a, u, role) ==
  /\ Command /\ Manages(a)
  /\ role = "OWNER" => RoleOf(a) = "OWNER"
  /\ Healed(a)[u].status = "REMOVED"
  /\ LET S == IF Pending(u) # {} THEN Pending(u) ELSE Unused IN
       /\ S # {}
       /\ invitations' = [invitations EXCEPT ![First(S)] = [to |-> u, role |-> role, status |-> "PENDING"]]
  /\ LET m == WithOwner(Healed(a)) IN
       /\ members' = m
       /\ writes' = IF m # Healed(a) THEN writes \cup {SetOrgMembers(m)} ELSE writes
  /\ listed' = TRUE
  /\ OnlyInvitations

\* revokeInvitation and resendInvitation take an invitation in any status.
SetInvitation(a, i, status) ==
  /\ Command /\ Manages(a)
  /\ i \notin Unused
  /\ invitations' = [invitations EXCEPT ![i].status = status]
  /\ members' = Healed(a) /\ listed' = TRUE
  /\ OnlyInvitations /\ UNCHANGED writes

RevokeInvitation(a, i) == SetInvitation(a, i, "REVOKED")
ResendInvitation(a, i) == SetInvitation(a, i, "PENDING")

\* declineInvitationById, in any status, too.
DeclineInvitation(i) ==
  /\ Command
  /\ i \notin Unused
  /\ invitations' = [invitations EXCEPT ![i].status = "DECLINED"]
  /\ UNCHANGED <<members, listed, writes>>
  /\ OnlyInvitations

\* Seven days pass.
InvitationExpires(i) ==
  /\ invitations[i].status = "PENDING"
  /\ invitations' = [invitations EXCEPT ![i].status = "EXPIRED"]
  /\ UNCHANGED <<members, listed, writes, left>>
  /\ OnlyInvitations

\* acceptInvitation gives the role of the invitation to whatever entry there is.
AcceptInvitation(i) ==
  /\ Command
  /\ invitations[i].status = "PENDING" /\ org
  /\ members' = [members EXCEPT ![invitations[i].to] = [role |-> invitations[i].role, status |-> "ACTIVE"]]
  /\ listed' = TRUE
  /\ invitations' = [invitations EXCEPT ![i].status = "ACCEPTED"]
  /\ writes' = writes \cup {SetOrgMembers(members'), UpsertOrganization}
  /\ UNCHANGED <<org, deleted, hyd, lookups, orgDoc, docs>>

-----------------------------------------------------------------------------
(* Members.                                                                *)

\* Mutant: a suspended owner counts as well.
OwnersOfAnyStatus(m) == {u \in Users : m[u].role = "OWNER" /\ m[u].status # "REMOVED"}

ActiveOwners(m) == {u \in Users : m[u].role = "OWNER" /\ m[u].status = "ACTIVE"}

\* "final active owner protection"
FinalOwner(m, t) ==
  m[t].role = "OWNER" /\ ~ \E u, v \in ActiveOwners(m) : u # v

\* A manager a writes the entry of another member t.
Managed(a, t, entry, more) ==
  /\ Command /\ Manages(a) /\ a # t
  /\ Healed(a)[t] # None
  /\ members' = [Healed(a) EXCEPT ![t] = entry] /\ listed' = TRUE
  /\ writes' = writes \cup {SetOrgMembers(members')} \cup more
  /\ UNCHANGED <<org, deleted, invitations, hyd, lookups, orgDoc, docs>>

\* Mutant: whoever gets a role becomes active.
EntryWithRoleActive(e, role) == [role |-> role, status |-> "ACTIVE"]

EntryWithRole(e, role) == [e EXCEPT !.role = role]

UpdateMemberRole(a, t, role) ==
  /\ role = "OWNER" => RoleOf(a) = "OWNER"
  /\ role # "OWNER" => ~FinalOwner(Healed(a), t)
  /\ Managed(a, t, EntryWithRole(Healed(a)[t], role), {})

UpdateMemberStatus(a, t, status) ==
  /\ status # "ACTIVE" => ~FinalOwner(Healed(a), t)
  /\ Managed(a, t, [Healed(a)[t] EXCEPT !.status = status], {})

RemoveMember(a, t) ==
  /\ ~FinalOwner(Healed(a), t)
  /\ Managed(a, t, [Healed(a)[t] EXCEPT !.status = "REMOVED"], {RemoveOrgMember(t)})

\* leaveOrganization asks whether the user is the creator, not whether another
\* owner remains.
LeaveOrganization(u) ==
  /\ Command /\ org
  /\ u # Creator \/ deleted
  /\ members[u] # None
  /\ members' = [members EXCEPT ![u] = None]
  /\ writes' = writes \cup {RemoveOrgMember(u)}
  /\ UNCHANGED <<org, deleted, listed, invitations, hyd, lookups, orgDoc, docs>>

\* deleteOrganization by the creator, whose access the route checks first.
DeleteOrganization ==
  /\ Command /\ org /\ ~deleted
  /\ org' = FALSE /\ deleted' = TRUE /\ members' = Nobody /\ listed' = FALSE
  /\ invitations' = [i \in Ids |-> NoInvitation]
  /\ writes' = writes \cup {DropOrganization}
                 \cup (IF members[Creator] = None THEN {SetOrgMembers([members EXCEPT ![Creator] = Owner])} ELSE {})
  /\ UNCHANGED <<hyd, lookups, orgDoc, docs>>

-----------------------------------------------------------------------------
(* Firestore, and the end of a process.                                    *)

\* deleteOrganization goes on to the memberships, also when the first step failed.
After(w) == IF w.op = "deleteOrganization" THEN {DropMemberships} ELSE {}

Lands(w) ==
  /\ writes' = (writes \ {w}) \cup After(w)
  /\ orgDoc' = CASE w.op = "upsertOrganization" -> TRUE
                 [] w.op = "deleteOrganization" -> FALSE
                 [] OTHER -> orgDoc
  /\ docs' = CASE w.op = "setOrgMembers" -> [u \in Users |-> IF w.list[u] # None THEN w.list[u] ELSE docs[u]]
               [] w.op = "removeOrgMember" -> [docs EXCEPT ![w.user] = None]
               [] w.op = "deleteMemberships" -> Nobody
               [] OTHER -> docs
  /\ UNCHANGED <<process, left>>

\* The error is logged.
WriteFails(w) ==
  /\ Spend("failures")
  /\ writes' = (writes \ {w}) \cup After(w)
  /\ UNCHANGED <<process, orgDoc, docs>>

\* The container ends and another one starts with empty maps.
Restart ==
  /\ Spend("restarts")
  /\ org' = FALSE /\ deleted' = FALSE /\ members' = Nobody /\ listed' = FALSE
  /\ invitations' = [i \in Ids |-> NoInvitation]
  /\ lookups' = {} /\ writes' = {}
  /\ hyd' = Hydrating("lists")
  /\ UNCHANGED <<orgDoc, docs>>

HydrateReadsLists ==
  /\ hyd.at = "lists"
  /\ hyd' = [hyd EXCEPT !.at = "org", !.org = orgDoc]
  /\ UNCHANGED <<org, deleted, members, listed, invitations, lookups, writes, orgDoc, docs, left>>

\* orgs.set asks neither deletedOrgIds nor the map; the members are read only
\* when there is no list.
HydrateSetsOrganization ==
  /\ hyd.at = "org"
  /\ org' = (org \/ hyd.org)
  /\ hyd' = [hyd EXCEPT !.at = IF hyd.org /\ ~listed THEN "members" ELSE "done", !.org = FALSE]
  /\ UNCHANGED <<deleted, members, listed, invitations, lookups, writes, orgDoc, docs, left>>

HydrateReadsMembers ==
  /\ hyd.at = "members"
  /\ hyd' = [hyd EXCEPT !.at = "set", !.docs = docs]
  /\ UNCHANGED <<org, deleted, members, listed, invitations, lookups, writes, orgDoc, docs, left>>

HydrateSetsMembers ==
  /\ hyd.at = "set"
  /\ IF hyd.docs # Nobody
     THEN members' = hyd.docs /\ listed' = TRUE
     ELSE UNCHANGED <<members, listed>>
  /\ hyd' = Hydrating("done")
  /\ UNCHANGED <<org, deleted, invitations, lookups, writes, orgDoc, docs, left>>

\* A read fails: the process serves with what it has.  A list of members that
\* cannot be read does not end the hydration.
HydrateFails ==
  /\ Spend("failures")
  /\ hyd.at \in {"lists", "members"}
  /\ hyd' = Hydrating(IF hyd.at = "lists" THEN "failed" ELSE "done")
  /\ UNCHANGED <<org, deleted, members, listed, invitations, lookups, writes, orgDoc, docs>>

-----------------------------------------------------------------------------
Managers ==
  \E a, t \in Users :
    \/ \E role \in Roles : InviteMember(a, t, role) \/ UpdateMemberRole(a, t, role)
    \/ \E status \in Statuses : UpdateMemberStatus(a, t, status)
    \/ RemoveMember(a, t)
    \/ \E i \in Ids : RevokeInvitation(a, i) \/ ResendInvitation(a, i)

Next ==
  \/ \E u \in Users : RequestLooksUp(u) \/ LeaveOrganization(u)
  \/ \E l \in lookups :
       LookupReads(l) \/ LookupFails(l) \/ LookupResumes(l) \/ LookupReadsMembers(l) \/ LookupSetsMembers(l)
  \/ CreatorAsks \/ GetOrgMembers \/ CheckUserOrgAccess
  \/ Managers
  \/ \E i \in Ids : DeclineInvitation(i) \/ InvitationExpires(i) \/ AcceptInvitation(i)
  \/ DeleteOrganization
  \/ \E w \in writes : Lands(w) \/ WriteFails(w)
  \/ Restart
  \/ HydrateReadsLists \/ HydrateSetsOrganization
  \/ HydrateReadsMembers \/ HydrateSetsMembers \/ HydrateFails

Spec == Init /\ [][Next]_vars

-----------------------------------------------------------------------------
(* Properties.                                                             *)

HasActiveOwner == \E u \in Users : members[u] = Owner

\* "Cannot demote the final active owner", and the same for suspension and
\* removal: whatever roles were given and taken before, only an owner who
\* leaves or accepts an older invitation, the deletion of the organisation and a
\* restart end with a list that has no active owner.
OwnerIsKept ==
  [][HasActiveOwner /\ ~HasActiveOwner'
     => \/ \E u \in Users : LeaveOrganization(u)
        \/ \E i \in Ids : AcceptInvitation(i)
        \/ DeleteOrganization \/ Restart \/ HydrateSetsMembers]_vars

\* u is not an active member for the process, for Firestore, or in what is
\* under way between them.
Out(u) ==
  /\ members[u].status # "ACTIVE" /\ docs[u].status # "ACTIVE" /\ hyd.docs[u].status # "ACTIVE"
  /\ \A w \in writes : w.list[u].status # "ACTIVE"
  /\ \A l \in lookups : l.docs[u].status # "ACTIVE"

\* Whoever has been suspended or removed, or has left, with effect everywhere
\* comes back only by accepting an invitation or by a manager's change of the
\* status: not by a change of the role, a restart, or a write that lands late.
\* The creator is exempt: a list without an owner gets the creator back.
OutStaysOut ==
  [][\A u \in Users \ {Creator} :
       Out(u) => \/ Out(u)'
                 \/ \E i \in Ids : invitations[i].to = u /\ AcceptInvitation(i)
                 \/ \E a \in Users : UpdateMemberStatus(a, u, "ACTIVE")]_vars

\* The organisation is nowhere, and nothing under way brings it back.
Vanished ==
  /\ ~org /\ ~orgDoc /\ ~hyd.org
  /\ UpsertOrganization \notin writes
  /\ \A l \in lookups : l.at # "has" \/ deleted

\* An organisation whose deletion has taken effect everywhere does not come back
\* through a restart, through memberships that were not deleted or through a
\* request that waited meanwhile.
VanishedForGood == [][Vanished => Vanished']_vars

\* server/store.ts:212: "Firestore is authoritative in production. The in-memory
\* Maps in this class are only a process-local read cache".  Once initPersistence
\* has succeeded, the process knows every active member Firestore has.
HydrationKnowsMembers ==
  hyd.at = "done" /\ org /\ ~deleted /\ writes = {}
    => \A u \in Users : docs[u].status = "ACTIVE" => members[u] # None
=============================================================================
