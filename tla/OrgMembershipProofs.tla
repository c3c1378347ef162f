-------------------------- MODULE OrgMembershipProofs --------------------------
(***************************************************************************)
(* Theorems about OrgMembership: the types, the protection of the last     *)
(* active owner, that nobody who is out comes back by accident, and that   *)
(* an organisation that has vanished does not return.  Each of the three   *)
(* action properties holds step by step from the types alone.              *)
(***************************************************************************)
EXTENDS OrgMembership, TLAPS

LEMMA EntryTypes == None \in Entry /\ Owner \in Entry /\ None # Owner /\ Nobody \in [Users -> Entry]
BY DEF None, Owner, Nobody, Entry, Roles, Statuses

\* What is asked of Firestore is a write, and what a write carries.
LEMMA WriteTypes ==
  /\ \A m \in [Users -> Entry] : SetOrgMembers(m) \in Write
  /\ \A u \in Users : RemoveOrgMember(u) \in Write
  /\ UpsertOrganization \in Write /\ DropOrganization \in Write /\ DropMemberships \in Write
  /\ \A w \in Write : w.list \in [Users -> Entry] /\ w.user \in Users
  /\ \A w \in Write : w.op = "upsertOrganization" => w = UpsertOrganization
BY MembershipAssumption, EntryTypes
   DEF Write, SetOrgMembers, RemoveOrgMember, UpsertOrganization, DropOrganization, DropMemberships

\* The repair of the creator's entry leaves the others alone, and an active owner
\* stays one.
LEMMA WithCreatorKeeps ==
  ASSUME NEW m \in [Users -> Entry]
  PROVE  /\ WithCreator(m) \in [Users -> Entry]
         /\ \A u \in Users \ {Creator} : WithCreator(m)[u] = m[u]
         /\ \A u \in Users : m[u] = Owner => WithCreator(m)[u] = Owner
<1> DEFINE mended(e) == IF e = None THEN Owner ELSE [e EXCEPT !.role = "OWNER"]
<1>1. ASSUME NEW e \in Entry
      PROVE  /\ [e EXCEPT !.role = "OWNER"] \in Entry
             /\ e = Owner => [e EXCEPT !.role = "OWNER"] = Owner
  BY DEF Entry, Roles, Owner
<1>2. \A e \in Entry : mended(e) \in Entry /\ (e = Owner => mended(e) = Owner)
  BY <1>1, EntryTypes
<1>3. Creator \in Users /\ WithCreator(m) = [m EXCEPT ![Creator] = mended(m[Creator])]
  BY MembershipAssumption DEF WithCreator
<1> HIDE DEF mended
<1> QED BY <1>2, <1>3

LEMMA HealedKeeps ==
  ASSUME TypeOK, NEW a \in Users
  PROVE  /\ Healed(a) \in [Users -> Entry]
         /\ \A u \in Users \ {Creator} : Healed(a)[u] = members[u]
         /\ \A u \in Users : members[u] = Owner => Healed(a)[u] = Owner
BY WithCreatorKeeps DEF Healed, TypeOK

LEMMA WithOwnerKeeps ==
  ASSUME NEW m \in [Users -> Entry]
  PROVE  /\ WithOwner(m) \in [Users -> Entry]
         /\ \A u \in Users \ {Creator} : WithOwner(m)[u] = m[u]
         /\ \A u \in Users : m[u] = Owner => WithOwner(m)[u] = Owner
BY MembershipAssumption, EntryTypes DEF WithOwner

LEMMA SpendType ==
  ASSUME left \in Budget, NEW what \in {"commands", "restarts", "failures"}, Spend(what)
  PROVE  left' \in Budget
BY MembershipAssumption DEF Spend, Budget

-----------------------------------------------------------------------------
\* TypeOK is inductive.
LEMMA TypeStep == TypeOK /\ [Next]_vars => TypeOK'
<1> SUFFICES ASSUME TypeOK, [Next]_vars PROVE TypeOK'
  OBVIOUS
<1> USE MembershipAssumption, EntryTypes, WriteTypes
<1>1. ASSUME CreatorAsks PROVE TypeOK'
  BY <1>1, HealedKeeps DEF CreatorAsks, TypeOK
<1>2. ASSUME GetOrgMembers PROVE TypeOK'
  BY <1>2, WithOwnerKeeps DEF GetOrgMembers, Saves, TypeOK
<1>3. ASSUME CheckUserOrgAccess PROVE TypeOK'
  BY <1>3 DEF CheckUserOrgAccess, Saves, TypeOK
<1>4. ASSUME NEW u \in Users, RequestLooksUp(u) PROVE TypeOK'
  <2>1. [user |-> u, at |-> "asks", docs |-> Nobody] \in Lookup
    BY DEF Lookup
  <2> QED BY <1>4, <2>1 DEF RequestLooksUp, OnlyLookups, TypeOK
<1>5. ASSUME NEW u \in Users, LeaveOrganization(u) PROVE TypeOK'
  <2>1. left' \in Budget
    BY <1>5, SpendType DEF LeaveOrganization, Command, TypeOK
  <2> QED BY <1>5, <2>1 DEF LeaveOrganization, TypeOK
<1>6. ASSUME NEW l \in lookups, LookupReads(l) PROVE TypeOK'
  <2>1. [l EXCEPT !.at = "has"] \in Lookup
    BY DEF TypeOK, Lookup
  <2> QED BY <1>6, <2>1 DEF LookupReads, OnlyLookups, TypeOK
<1>7. ASSUME NEW l \in lookups, LookupFails(l) PROVE TypeOK'
  <2>1. left' \in Budget
    BY <1>7, SpendType DEF LookupFails, TypeOK
  <2> QED BY <1>7, <2>1 DEF LookupFails, OnlyLookups, TypeOK
<1>8. ASSUME NEW l \in lookups, LookupResumes(l) PROVE TypeOK'
  <2> DEFINE m == IF org' THEN WithOwner(members) ELSE members
  <2>1. m \in [Users -> Entry] /\ WithCreator(m) \in [Users -> Entry]
    BY WithOwnerKeeps, WithCreatorKeeps DEF TypeOK
  <2>2. [l EXCEPT !.at = "list"] \in Lookup
    BY DEF TypeOK, Lookup
  <2>3. members' \in [Users -> Entry]
    BY <1>8, <2>1 DEF LookupResumes
  <2>4. lookups' \subseteq Lookup
    BY <1>8, <2>2 DEF LookupResumes, TypeOK
  <2>5. \A w \in writes' : w \in Write
    BY <1>8, <2>1 DEF LookupResumes, TypeOK
  <2>6. org' \in BOOLEAN /\ listed' \in BOOLEAN
    BY <1>8 DEF LookupResumes, TypeOK
  <2> QED BY <1>8, <2>3, <2>4, <2>5, <2>6 DEF LookupResumes, TypeOK
<1>9. ASSUME NEW l \in lookups, LookupReadsMembers(l) PROVE TypeOK'
  <2>1. [l EXCEPT !.at = "set", !.docs = docs] \in Lookup
    BY DEF TypeOK, Lookup
  <2> QED BY <1>9, <2>1 DEF LookupReadsMembers, OnlyLookups, TypeOK
<1>10. ASSUME NEW l \in lookups, LookupSetsMembers(l) PROVE TypeOK'
  <2>1. l.docs \in [Users -> Entry]
    BY DEF TypeOK, Lookup
  <2> QED BY <1>10, <2>1 DEF LookupSetsMembers, TypeOK
<1>11. ASSUME NEW a \in Users, NEW t \in Users, NEW role \in Roles, InviteMember(a, t, role) PROVE TypeOK'
  <2>1. left' \in Budget
    BY <1>11, SpendType DEF InviteMember, Command, TypeOK
  <2>2. [to |-> t, role |-> role, status |-> "PENDING"] \in Invitation
    BY DEF Invitation
  <2>3. invitations' \in [Ids -> Invitation]
    BY <1>11, <2>2 DEF InviteMember, TypeOK
  <2>4. WithOwner(Healed(a)) \in [Users -> Entry]
    BY HealedKeeps, WithOwnerKeeps
  <2> QED BY <1>11, <2>1, <2>3, <2>4 DEF InviteMember, OnlyInvitations, TypeOK
<1>12. ASSUME NEW a \in Users, NEW t \in Users, NEW role \in Roles, UpdateMemberRole(a, t, role) PROVE TypeOK'
  <2>1. left' \in Budget
    BY <1>12, SpendType DEF UpdateMemberRole, Managed, Command, TypeOK
  <2>2. Healed(a) \in [Users -> Entry]
    BY HealedKeeps
  <2>3. EntryWithRole(Healed(a)[t], role) \in Entry
    BY <2>2 DEF Entry, Roles, Statuses, EntryWithRole
  <2>4. members' \in [Users -> Entry]
    BY <1>12, <2>2, <2>3 DEF UpdateMemberRole, Managed
  <2> QED BY <1>12, <2>1, <2>4 DEF UpdateMemberRole, Managed, TypeOK
<1>13. ASSUME NEW a \in Users, NEW t \in Users, NEW status \in Statuses, UpdateMemberStatus(a, t, status) PROVE TypeOK'
  <2>1. left' \in Budget
    BY <1>13, SpendType DEF UpdateMemberStatus, Managed, Command, TypeOK
  <2>2. Healed(a) \in [Users -> Entry]
    BY HealedKeeps
  <2>3. [Healed(a)[t] EXCEPT !.status = status] \in Entry
    BY <2>2 DEF Entry, Roles, Statuses, EntryWithRole
  <2>4. members' \in [Users -> Entry]
    BY <1>13, <2>2, <2>3 DEF UpdateMemberStatus, Managed
  <2> QED BY <1>13, <2>1, <2>4 DEF UpdateMemberStatus, Managed, TypeOK
<1>14. ASSUME NEW a \in Users, NEW t \in Users, RemoveMember(a, t) PROVE TypeOK'
  <2>1. left' \in Budget
    BY <1>14, SpendType DEF RemoveMember, Managed, Command, TypeOK
  <2>2. Healed(a) \in [Users -> Entry]
    BY HealedKeeps
  <2>3. [Healed(a)[t] EXCEPT !.status = "REMOVED"] \in Entry
    BY <2>2 DEF Entry, Roles, Statuses, EntryWithRole
  <2>4. members' \in [Users -> Entry]
    BY <1>14, <2>2, <2>3 DEF RemoveMember, Managed
  <2> QED BY <1>14, <2>1, <2>4 DEF RemoveMember, Managed, TypeOK
<1>15. ASSUME NEW a \in Users, NEW i \in Ids, NEW status \in {"REVOKED", "PENDING"}, SetInvitation(a, i, status) PROVE TypeOK'
  <2>1. left' \in Budget
    BY <1>15, SpendType DEF SetInvitation, Command, TypeOK
  <2>2. invitations' \in [Ids -> Invitation]
    BY <1>15 DEF SetInvitation, TypeOK, Invitation
  <2> QED BY <1>15, <2>1, <2>2, HealedKeeps DEF SetInvitation, OnlyInvitations, TypeOK
<1>16. ASSUME NEW i \in Ids, DeclineInvitation(i) PROVE TypeOK'
  <2>1. left' \in Budget
    BY <1>16, SpendType DEF DeclineInvitation, Command, TypeOK
  <2>2. invitations' \in [Ids -> Invitation]
    BY <1>16 DEF DeclineInvitation, TypeOK, Invitation
  <2> QED BY <1>16, <2>1, <2>2 DEF DeclineInvitation, OnlyInvitations, TypeOK
<1>17. ASSUME NEW i \in Ids, InvitationExpires(i) PROVE TypeOK'
  <2>1. invitations' \in [Ids -> Invitation]
    BY <1>17 DEF InvitationExpires, TypeOK, Invitation
  <2> QED BY <1>17, <2>1 DEF InvitationExpires, OnlyInvitations, TypeOK
<1>18. ASSUME NEW i \in Ids, AcceptInvitation(i) PROVE TypeOK'
  <2>1. left' \in Budget
    BY <1>18, SpendType DEF AcceptInvitation, Command, TypeOK
  <2>2. invitations' \in [Ids -> Invitation]
    BY <1>18 DEF AcceptInvitation, TypeOK, Invitation
  <2>3. [role |-> invitations[i].role, status |-> "ACTIVE"] \in Entry
    BY DEF TypeOK, Invitation, Entry, Statuses
  <2>4. members' \in [Users -> Entry]
    BY <1>18, <2>3 DEF AcceptInvitation, TypeOK
  <2> QED BY <1>18, <2>1, <2>2, <2>4 DEF AcceptInvitation, TypeOK
<1>19. ASSUME DeleteOrganization PROVE TypeOK'
  <2>1. left' \in Budget
    BY <1>19, SpendType DEF DeleteOrganization, Command, TypeOK
  <2>2. NoInvitation \in Invitation
    BY DEF NoInvitation, Invitation, Roles
  <2>3. [members EXCEPT ![Creator] = Owner] \in [Users -> Entry]
    BY DEF TypeOK
  <2> QED BY <1>19, <2>1, <2>2, <2>3 DEF DeleteOrganization, TypeOK
<1>20. ASSUME NEW w \in writes, Lands(w) PROVE TypeOK'
  <2>1. w.list \in [Users -> Entry]
    BY DEF TypeOK
  <2>2. docs' \in [Users -> Entry]
    BY <1>20, <2>1 DEF Lands, TypeOK
  <2>3. orgDoc' \in BOOLEAN
    BY <1>20 DEF Lands, TypeOK
  <2>4. \A v \in writes' : v \in Write
    BY <1>20 DEF Lands, After, TypeOK
  <2> QED BY <1>20, <2>2, <2>3, <2>4 DEF Lands, process, TypeOK
<1>21. ASSUME NEW w \in writes, WriteFails(w) PROVE TypeOK'
  <2>1. left' \in Budget
    BY <1>21, SpendType DEF WriteFails, TypeOK
  <2>2. \A v \in writes' : v \in Write
    BY <1>21 DEF WriteFails, After, TypeOK
  <2> QED BY <1>21, <2>1, <2>2 DEF WriteFails, process, TypeOK
<1>22. ASSUME Restart PROVE TypeOK'
  <2>1. left' \in Budget
    BY <1>22, SpendType DEF Restart, TypeOK
  <2>2. NoInvitation \in Invitation /\ Hydrating("lists") \in Hydration
    BY DEF NoInvitation, Invitation, Roles, Hydrating, Hydration
  <2> QED BY <1>22, <2>1, <2>2 DEF Restart, TypeOK
<1>23. ASSUME HydrateReadsLists PROVE TypeOK'
  <2>1. hyd' \in Hydration
    BY <1>23 DEF HydrateReadsLists, TypeOK, Hydration
  <2> QED BY <1>23, <2>1 DEF HydrateReadsLists, TypeOK, Hydration
<1>24. ASSUME HydrateSetsOrganization PROVE TypeOK'
  <2>1. hyd' \in Hydration
    BY <1>24 DEF HydrateSetsOrganization, TypeOK, Hydration
  <2> QED BY <1>24, <2>1 DEF HydrateSetsOrganization, TypeOK, Hydration
<1>25. ASSUME HydrateReadsMembers PROVE TypeOK'
  <2>1. hyd' \in Hydration
    BY <1>25 DEF HydrateReadsMembers, TypeOK, Hydration
  <2> QED BY <1>25, <2>1 DEF HydrateReadsMembers, TypeOK, Hydration
<1>26. ASSUME HydrateSetsMembers PROVE TypeOK'
  <2>1. hyd' \in Hydration
    BY <1>26 DEF HydrateSetsMembers, Hydrating, Hydration
  <2>2. hyd.docs \in [Users -> Entry]
    BY DEF TypeOK, Hydration
  <2> QED BY <1>26, <2>1, <2>2 DEF HydrateSetsMembers, TypeOK
<1>27. ASSUME HydrateFails PROVE TypeOK'
  <2>1. left' \in Budget
    BY <1>27, SpendType DEF HydrateFails, TypeOK
  <2>2. hyd' \in Hydration
    BY <1>27 DEF HydrateFails, Hydrating, Hydration
  <2> QED BY <1>27, <2>1, <2>2 DEF HydrateFails, TypeOK
<1>28. CASE UNCHANGED vars
  BY <1>28 DEF vars, process, TypeOK
<1> QED BY <1>1, <1>2, <1>3, <1>4, <1>5, <1>6, <1>7, <1>8, <1>9, <1>10, <1>11, <1>12, <1>13, <1>14, <1>15, <1>16, <1>17, <1>18, <1>19, <1>20, <1>21, <1>22, <1>23, <1>24, <1>25, <1>26, <1>27, <1>28 DEF Next, Managers, RevokeInvitation, ResendInvitation

\* The processes, the invitations, the writes and Firestore have their types.
THEOREM TypeCorrect == Spec => []TypeOK
<1>1. ASSUME Init PROVE TypeOK
  <2> USE MembershipAssumption, EntryTypes
  <2>1. members \in [Users -> Entry] /\ docs \in [Users -> Entry]
    BY <1>1 DEF Init
  <2>2. invitations \in [Ids -> Invitation]
    BY <1>1 DEF Init, NoInvitation, Invitation, Roles
  <2>3. hyd \in Hydration
    BY <1>1 DEF Init, Hydrating, Hydration
  <2>4. \A w \in writes : w \in Write
    BY <1>1, <2>1, WriteTypes DEF Init
  <2>5. left \in Budget
    BY <1>1 DEF Init, Budget
  <2> QED BY <1>1, <2>1, <2>2, <2>3, <2>4, <2>5 DEF Init, TypeOK
<1> QED BY <1>1, TypeStep, PTL DEF Spec

-----------------------------------------------------------------------------
\* No step brings back an organisation that has vanished.
LEMMA VanishedStep == TypeOK /\ Vanished /\ [Next]_vars => Vanished'
<1> SUFFICES ASSUME TypeOK, Vanished, [Next]_vars PROVE Vanished'
  OBVIOUS
<1> USE DEF Vanished
<1>1. ASSUME CreatorAsks PROVE Vanished'
  BY <1>1 DEF CreatorAsks, Belongs
<1>2. ASSUME GetOrgMembers PROVE Vanished'
  BY <1>2 DEF GetOrgMembers
<1>3. ASSUME CheckUserOrgAccess PROVE Vanished'
  BY <1>3 DEF CheckUserOrgAccess
<1>4. ASSUME NEW u \in Users, RequestLooksUp(u) PROVE Vanished'
  BY <1>4 DEF RequestLooksUp, OnlyLookups
<1>5. ASSUME NEW u \in Users, LeaveOrganization(u) PROVE Vanished'
  BY <1>5 DEF LeaveOrganization
<1>6. ASSUME NEW l \in lookups, LookupReads(l) PROVE Vanished'
  BY <1>6 DEF LookupReads, Found, OnlyLookups
<1>7. ASSUME NEW l \in lookups, LookupFails(l) PROVE Vanished'
  BY <1>7 DEF LookupFails, OnlyLookups
<1>8. ASSUME NEW l \in lookups, LookupResumes(l) PROVE Vanished'
  <2>1. deleted /\ org' = FALSE
    BY <1>8 DEF LookupResumes, TypeOK
  <2>2. \A m : SetOrgMembers(m) # UpsertOrganization
    BY DEF SetOrgMembers, UpsertOrganization
  <2>3. UpsertOrganization \notin writes'
    BY <1>8, <2>2 DEF LookupResumes
  <2>4. UNCHANGED <<deleted, hyd, orgDoc>>
    BY <1>8 DEF LookupResumes
  <2> QED BY <2>1, <2>3, <2>4
<1>9. ASSUME NEW l \in lookups, LookupReadsMembers(l) PROVE Vanished'
  <2>1. [l EXCEPT !.at = "set", !.docs = docs].at # "has"
    BY DEF TypeOK, Lookup
  <2> QED BY <1>9, <2>1 DEF LookupReadsMembers, OnlyLookups
<1>10. ASSUME NEW l \in lookups, LookupSetsMembers(l) PROVE Vanished'
  BY <1>10 DEF LookupSetsMembers
<1>11. ASSUME NEW a \in Users, NEW t \in Users, NEW role \in Roles, InviteMember(a, t, role) PROVE Vanished'
  BY <1>11 DEF InviteMember, Manages, Belongs
<1>12. ASSUME NEW a \in Users, NEW t \in Users, NEW role \in Roles, UpdateMemberRole(a, t, role) PROVE Vanished'
  BY <1>12 DEF UpdateMemberRole, Managed, Manages, Belongs
<1>13. ASSUME NEW a \in Users, NEW t \in Users, NEW status \in Statuses, UpdateMemberStatus(a, t, status) PROVE Vanished'
  BY <1>13 DEF UpdateMemberStatus, Managed, Manages, Belongs
<1>14. ASSUME NEW a \in Users, NEW t \in Users, RemoveMember(a, t) PROVE Vanished'
  BY <1>14 DEF RemoveMember, Managed, Manages, Belongs
<1>15. ASSUME NEW a \in Users, NEW i \in Ids, NEW status \in {"REVOKED", "PENDING"}, SetInvitation(a, i, status) PROVE Vanished'
  BY <1>15 DEF SetInvitation, Manages, Belongs
<1>16. ASSUME NEW i \in Ids, DeclineInvitation(i) PROVE Vanished'
  BY <1>16 DEF DeclineInvitation, OnlyInvitations
<1>17. ASSUME NEW i \in Ids, InvitationExpires(i) PROVE Vanished'
  BY <1>17 DEF InvitationExpires, OnlyInvitations
<1>18. ASSUME NEW i \in Ids, AcceptInvitation(i) PROVE Vanished'
  BY <1>18 DEF AcceptInvitation
<1>19. ASSUME DeleteOrganization PROVE Vanished'
  BY <1>19 DEF DeleteOrganization
<1>20. ASSUME NEW w \in writes, Lands(w) PROVE Vanished'
  <2>1. w.op # "upsertOrganization"
    BY WriteTypes DEF TypeOK
  <2>2. UpsertOrganization \notin writes'
    BY <1>20 DEF Lands, After, UpsertOrganization, DropMemberships
  <2> QED BY <1>20, <2>1, <2>2 DEF Lands, process
<1>21. ASSUME NEW w \in writes, WriteFails(w) PROVE Vanished'
  BY <1>21 DEF WriteFails, After, process, UpsertOrganization, DropMemberships
<1>22. ASSUME Restart PROVE Vanished'
  BY <1>22 DEF Restart, Hydrating
<1>23. ASSUME HydrateReadsLists PROVE Vanished'
  BY <1>23 DEF HydrateReadsLists, TypeOK, Hydration
<1>24. ASSUME HydrateSetsOrganization PROVE Vanished'
  BY <1>24 DEF HydrateSetsOrganization, TypeOK, Hydration
<1>25. ASSUME HydrateReadsMembers PROVE Vanished'
  BY <1>25 DEF HydrateReadsMembers, TypeOK, Hydration
<1>26. ASSUME HydrateSetsMembers PROVE Vanished'
  BY <1>26 DEF HydrateSetsMembers, Hydrating
<1>27. ASSUME HydrateFails PROVE Vanished'
  BY <1>27 DEF HydrateFails, Hydrating
<1>28. CASE UNCHANGED vars
  BY <1>28 DEF vars, process
<1> QED BY <1>1, <1>2, <1>3, <1>4, <1>5, <1>6, <1>7, <1>8, <1>9, <1>10, <1>11, <1>12, <1>13, <1>14, <1>15, <1>16, <1>17, <1>18, <1>19, <1>20, <1>21, <1>22, <1>23, <1>24, <1>25, <1>26, <1>27, <1>28 DEF Next, Managers, RevokeInvitation, ResendInvitation

\* A deleted organisation stays deleted, whatever a restart, a write that lands
\* late or a waiting request does.
THEOREM VanishedForGoodTheorem == Spec => VanishedForGood
<1>1. TypeOK /\ [Next]_vars => [Vanished => Vanished']_vars
  BY VanishedStep
<1> QED BY <1>1, TypeCorrect, PTL DEF Spec, VanishedForGood

-----------------------------------------------------------------------------
\* Someone who is out is not on an empty list, and a write of a list on which they
\* are out does not bring them back.
LEMMA NobodyIsOut == \A u \in Users : Nobody[u].status # "ACTIVE"
BY DEF Nobody, None

LEMMA SavedList == \A m : SetOrgMembers(m).list = m
BY DEF SetOrgMembers

\* A step leaves u out unless it is one of the two ways back.
LEMMA OutStep ==
  ASSUME TypeOK, NEW u \in Users \ {Creator}, Out(u), [Next]_vars
  PROVE  \/ Out(u)'
         \/ \E i \in Ids : invitations[i].to = u /\ AcceptInvitation(i)
         \/ \E a \in Users : UpdateMemberStatus(a, u, "ACTIVE")
<1> USE NobodyIsOut, SavedList
<1>1. ASSUME CreatorAsks PROVE Out(u)'
  BY <1>1, HealedKeeps, MembershipAssumption DEF CreatorAsks, Out
<1>2. ASSUME GetOrgMembers PROVE Out(u)'
  <2>1. WithOwner(members)[u] = members[u]
    BY WithOwnerKeeps DEF TypeOK
  <2> QED BY <1>2, <2>1 DEF GetOrgMembers, Saves, Out
<1>3. ASSUME CheckUserOrgAccess PROVE Out(u)'
  <2>1. [members EXCEPT ![Creator] = Owner][u] = members[u]
    BY DEF TypeOK
  <2> QED BY <1>3, <2>1 DEF CheckUserOrgAccess, Saves, Out
<1>4. ASSUME NEW x \in Users, RequestLooksUp(x) PROVE Out(u)'
  <2>1. [user |-> x, at |-> "asks", docs |-> Nobody].docs[u].status # "ACTIVE"
    OBVIOUS
  <2> QED BY <1>4, <2>1 DEF RequestLooksUp, OnlyLookups, Out
<1>5. ASSUME NEW x \in Users, LeaveOrganization(x) PROVE Out(u)'
  <2>1. members'[u].status # "ACTIVE"
    BY <1>5 DEF LeaveOrganization, Out, None, TypeOK
  <2> QED BY <1>5, <2>1 DEF LeaveOrganization, RemoveOrgMember, Out
<1>6. ASSUME NEW l \in lookups, LookupReads(l) PROVE Out(u)'
  <2>1. [l EXCEPT !.at = "has"].docs = l.docs
    BY DEF TypeOK, Lookup
  <2> QED BY <1>6, <2>1 DEF LookupReads, OnlyLookups, Out
<1>7. ASSUME NEW l \in lookups, LookupFails(l) PROVE Out(u)'
  BY <1>7 DEF LookupFails, OnlyLookups, Out
<1>8. ASSUME NEW l \in lookups, LookupResumes(l) PROVE Out(u)'
  <2> DEFINE m == IF org' THEN WithOwner(members) ELSE members
  <2>1. m \in [Users -> Entry] /\ m[u] = members[u]
    BY WithOwnerKeeps DEF TypeOK
  <2>2. WithCreator(m)[u] = m[u]
    BY <2>1, WithCreatorKeeps
  <2>3. [l EXCEPT !.at = "list"].docs = l.docs
    BY DEF TypeOK, Lookup
  <2>4. members'[u] = members[u]
    BY <1>8, <2>1, <2>2 DEF LookupResumes
  <2>5. \A k \in lookups' : k.docs[u].status # "ACTIVE"
    <3>1. lookups' \subseteq lookups \cup {[l EXCEPT !.at = "list"]}
      BY <1>8 DEF LookupResumes
    <3>2. \A k \in lookups' : k \in lookups \/ k.docs = l.docs
      BY <2>3, <3>1
    <3> QED BY <3>2 DEF Out
  <2>6. \A w \in writes' : w.list[u].status # "ACTIVE"
    BY <1>8, <2>1 DEF LookupResumes, Out
  <2>7. UNCHANGED <<docs, hyd>>
    BY <1>8 DEF LookupResumes
  <2> QED BY <2>4, <2>5, <2>6, <2>7 DEF Out
<1>9. ASSUME NEW l \in lookups, LookupReadsMembers(l) PROVE Out(u)'
  <2>1. [l EXCEPT !.at = "set", !.docs = docs].docs = docs
    BY DEF TypeOK, Lookup
  <2> QED BY <1>9, <2>1 DEF LookupReadsMembers, OnlyLookups, Out
<1>10. ASSUME NEW l \in lookups, LookupSetsMembers(l) PROVE Out(u)'
  BY <1>10 DEF LookupSetsMembers, Out
<1>11. ASSUME NEW a \in Users, NEW t \in Users, NEW role \in Roles, InviteMember(a, t, role) PROVE Out(u)'
  <2>1. WithOwner(Healed(a))[u] = members[u]
    BY HealedKeeps, WithOwnerKeeps
  <2>2. members'[u] = members[u] /\ UNCHANGED <<hyd, lookups, docs>>
    BY <1>11, <2>1 DEF InviteMember, OnlyInvitations
  <2>3. writes' \subseteq writes \cup {SetOrgMembers(WithOwner(Healed(a)))}
    BY <1>11 DEF InviteMember
  <2>4. \A w \in writes' : w.list[u].status # "ACTIVE"
    BY <2>1, <2>3 DEF Out
  <2> QED BY <2>2, <2>4 DEF Out
<1>12. ASSUME NEW a \in Users, NEW t \in Users, NEW role \in Roles, UpdateMemberRole(a, t, role) PROVE Out(u)'
  <2>1. Healed(a) \in [Users -> Entry] /\ Healed(a)[u] = members[u]
    BY HealedKeeps
  <2>2. members'[u].status # "ACTIVE"
    BY <1>12, <2>1 DEF UpdateMemberRole, Managed, Out, EntryWithRole, Entry
  <2>3. /\ \A x \in Users : RemoveOrgMember(x).list = Nobody
        /\ members' \in [Users -> Entry]
    BY <1>12, <2>1 DEF RemoveOrgMember, UpdateMemberRole, Managed, TypeOK, EntryWithRole, Entry, Roles, Statuses
  <2>4. writes' \subseteq writes \cup {SetOrgMembers(members')} \cup {RemoveOrgMember(x) : x \in Users}
    BY <1>12 DEF UpdateMemberRole, Managed
  <2>5. \A w \in writes' : w.list[u].status # "ACTIVE"
    BY <2>2, <2>3, <2>4 DEF Out
  <2>6. UNCHANGED <<hyd, lookups, docs>>
    BY <1>12 DEF UpdateMemberRole, Managed
  <2> QED BY <2>2, <2>5, <2>6 DEF Out
<1>13. ASSUME NEW a \in Users, NEW t \in Users, NEW status \in Statuses, UpdateMemberStatus(a, t, status)
      PROVE Out(u)' \/ \E b \in Users : UpdateMemberStatus(b, u, "ACTIVE")
  <2>1. CASE t = u /\ status = "ACTIVE"
    BY <1>13, <2>1
  <2>2. CASE t # u \/ status # "ACTIVE"
    <3>1. Healed(a) \in [Users -> Entry] /\ Healed(a)[u] = members[u]
      BY HealedKeeps
    <3>2. members'[u].status # "ACTIVE"
      BY <1>13, <2>2, <3>1 DEF UpdateMemberStatus, Managed, Out, Entry
    <3> QED BY <1>13, <3>2 DEF UpdateMemberStatus, Managed, Out
  <2> QED BY <2>1, <2>2
<1>14. ASSUME NEW a \in Users, NEW t \in Users, RemoveMember(a, t) PROVE Out(u)'
  <2>1. Healed(a) \in [Users -> Entry] /\ Healed(a)[u] = members[u]
    BY HealedKeeps
  <2>2. members'[u].status # "ACTIVE"
    BY <1>14, <2>1 DEF RemoveMember, Managed, Out, Entry
  <2>3. /\ \A x \in Users : RemoveOrgMember(x).list = Nobody
        /\ members' \in [Users -> Entry]
    BY <1>14, <2>1 DEF RemoveOrgMember, RemoveMember, Managed, TypeOK, EntryWithRole, Entry, Roles, Statuses
  <2>4. writes' \subseteq writes \cup {SetOrgMembers(members')} \cup {RemoveOrgMember(x) : x \in Users}
    BY <1>14 DEF RemoveMember, Managed
  <2>5. \A w \in writes' : w.list[u].status # "ACTIVE"
    BY <2>2, <2>3, <2>4 DEF Out
  <2>6. UNCHANGED <<hyd, lookups, docs>>
    BY <1>14 DEF RemoveMember, Managed
  <2> QED BY <2>2, <2>5, <2>6 DEF Out
<1>15. ASSUME NEW a \in Users, NEW i \in Ids, NEW status \in {"REVOKED", "PENDING"}, SetInvitation(a, i, status) PROVE Out(u)'
  BY <1>15, HealedKeeps DEF SetInvitation, OnlyInvitations, Out
<1>16. ASSUME NEW i \in Ids, DeclineInvitation(i) PROVE Out(u)'
  BY <1>16 DEF DeclineInvitation, OnlyInvitations, Out
<1>17. ASSUME NEW i \in Ids, InvitationExpires(i) PROVE Out(u)'
  BY <1>17 DEF InvitationExpires, OnlyInvitations, Out
<1>18. ASSUME NEW i \in Ids, AcceptInvitation(i)
      PROVE Out(u)' \/ \E j \in Ids : invitations[j].to = u /\ AcceptInvitation(j)
  <2>1. CASE invitations[i].to = u
    BY <1>18, <2>1
  <2>2. CASE invitations[i].to # u
    <3>1. members'[u] = members[u]
      BY <1>18, <2>2 DEF AcceptInvitation, TypeOK
    <3>2. UpsertOrganization.list = Nobody
      BY DEF UpsertOrganization
    <3>3. writes' = writes \cup {SetOrgMembers(members'), UpsertOrganization} /\ UNCHANGED <<hyd, lookups, docs>>
      BY <1>18 DEF AcceptInvitation
    <3>4. \A w \in writes' : w.list[u].status # "ACTIVE"
      BY <3>1, <3>2, <3>3 DEF Out
    <3> QED BY <3>1, <3>3, <3>4 DEF Out
  <2> QED BY <2>1, <2>2
<1>19. ASSUME DeleteOrganization PROVE Out(u)'
  <2>1. [members EXCEPT ![Creator] = Owner][u] = members[u]
    BY DEF TypeOK
  <2>2. DropOrganization.list = Nobody
    BY DEF DropOrganization
  <2>3. writes' \subseteq writes \cup {DropOrganization, SetOrgMembers([members EXCEPT ![Creator] = Owner])}
    BY <1>19 DEF DeleteOrganization
  <2>4. \A w \in writes' : w.list[u].status # "ACTIVE"
    BY <2>1, <2>2, <2>3 DEF Out
  <2>5. members' = Nobody /\ UNCHANGED <<hyd, lookups, docs>>
    BY <1>19 DEF DeleteOrganization
  <2> QED BY <2>4, <2>5 DEF Out
<1>20. ASSUME NEW w \in writes, Lands(w) PROVE Out(u)'
  <2>1. docs'[u].status # "ACTIVE"
    BY <1>20 DEF Lands, Out, None, TypeOK
  <2> QED BY <1>20, <2>1 DEF Lands, After, DropMemberships, process, Out
<1>21. ASSUME NEW w \in writes, WriteFails(w) PROVE Out(u)'
  BY <1>21 DEF WriteFails, After, DropMemberships, process, Out
<1>22. ASSUME Restart PROVE Out(u)'
  BY <1>22 DEF Restart, Hydrating, Out
<1>23. ASSUME HydrateReadsLists PROVE Out(u)'
  BY <1>23 DEF HydrateReadsLists, Out, TypeOK, Hydration
<1>24. ASSUME HydrateSetsOrganization PROVE Out(u)'
  BY <1>24 DEF HydrateSetsOrganization, Out, TypeOK, Hydration
<1>25. ASSUME HydrateReadsMembers PROVE Out(u)'
  BY <1>25 DEF HydrateReadsMembers, Out, TypeOK, Hydration
<1>26. ASSUME HydrateSetsMembers PROVE Out(u)'
  BY <1>26 DEF HydrateSetsMembers, Hydrating, Out
<1>27. ASSUME HydrateFails PROVE Out(u)'
  BY <1>27 DEF HydrateFails, Hydrating, Out
<1>28. CASE UNCHANGED vars
  BY <1>28 DEF vars, process, Out
<1> QED BY <1>1, <1>2, <1>3, <1>4, <1>5, <1>6, <1>7, <1>8, <1>9, <1>10, <1>11, <1>12, <1>13, <1>14, <1>15, <1>16, <1>17, <1>18, <1>19, <1>20, <1>21, <1>22, <1>23, <1>24, <1>25, <1>26, <1>27, <1>28 DEF Next, Managers, RevokeInvitation, ResendInvitation

\* Whoever is out comes back only by an invitation or by a manager's decision.
THEOREM OutStaysOutTheorem == Spec => OutStaysOut
<1> DEFINE Step(u) == \/ Out(u)'
                      \/ \E i \in Ids : invitations[i].to = u /\ AcceptInvitation(i)
                      \/ \E a \in Users : UpdateMemberStatus(a, u, "ACTIVE")
<1>1. TypeOK /\ [Next]_vars => [\A u \in Users \ {Creator} : Out(u) => Step(u)]_vars
  BY OutStep
<1> QED BY <1>1, TypeCorrect, PTL DEF Spec, OutStaysOut

-----------------------------------------------------------------------------
\* The protection of the final active owner leaves another owner, whose entry the
\* change of t's entry does not touch.
LEMMA AnotherOwner ==
  ASSUME NEW m \in [Users -> Entry], NEW t \in Users, m[t].role = "OWNER", ~FinalOwner(m, t)
  PROVE  \E u \in Users \ {t} : m[u] = Owner
<1>1. PICK u, v \in ActiveOwners(m) : u # v
  BY DEF FinalOwner
<1>2. \A x \in ActiveOwners(m) : x \in Users /\ m[x] = Owner
  BY DEF ActiveOwners, Owner, Entry
<1> QED BY <1>1, <1>2

LEMMA HealedOwner ==
  ASSUME TypeOK, HasActiveOwner, NEW a \in Users
  PROVE  \E u \in Users : Healed(a)[u] = Owner
BY HealedKeeps DEF HasActiveOwner

\* A manager's change of t's entry e keeps an active owner when t is protected
\* unless e is still an active owner.
LEMMA ManagedKeepsOwner ==
  ASSUME TypeOK, HasActiveOwner, NEW a \in Users, NEW t \in Users, NEW e,
         Healed(a)[t] = Owner => e = Owner \/ ~FinalOwner(Healed(a), t),
         members' = [Healed(a) EXCEPT ![t] = e]
  PROVE  HasActiveOwner'
<1>1. Healed(a) \in [Users -> Entry]
  BY HealedKeeps
<1>2. PICK u \in Users : Healed(a)[u] = Owner
  BY HealedOwner
<1>3. CASE u # t
  BY <1>1, <1>2, <1>3 DEF HasActiveOwner
<1>4. CASE u = t /\ e = Owner
  BY <1>1, <1>4 DEF HasActiveOwner
<1>5. CASE u = t /\ e # Owner
  <2>1. Healed(a)[t].role = "OWNER" /\ ~FinalOwner(Healed(a), t)
    BY <1>2, <1>5 DEF Owner
  <2>2. PICK v \in Users \ {t} : Healed(a)[v] = Owner
    BY <1>1, <2>1, AnotherOwner
  <2> QED BY <1>1, <2>2 DEF HasActiveOwner
<1> QED BY <1>3, <1>4, <1>5

\* Only these five steps end with a list that has no active owner.
LEMMA OwnerStep ==
  ASSUME TypeOK, HasActiveOwner, [Next]_vars, ~HasActiveOwner'
  PROVE  \/ \E u \in Users : LeaveOrganization(u)
         \/ \E i \in Ids : AcceptInvitation(i)
         \/ DeleteOrganization \/ Restart \/ HydrateSetsMembers
<1> USE EntryTypes, MembershipAssumption
<1>1. ASSUME CreatorAsks PROVE HasActiveOwner'
  BY <1>1, HealedOwner DEF CreatorAsks, HasActiveOwner
<1>2. ASSUME GetOrgMembers PROVE HasActiveOwner'
  BY <1>2, WithOwnerKeeps DEF GetOrgMembers, Saves, HasActiveOwner, TypeOK
<1>3. ASSUME CheckUserOrgAccess PROVE HasActiveOwner'
  BY <1>3 DEF CheckUserOrgAccess, Saves, HasActiveOwner, TypeOK
<1>4. ASSUME NEW u \in Users, RequestLooksUp(u) PROVE HasActiveOwner'
  BY <1>4 DEF RequestLooksUp, OnlyLookups, HasActiveOwner
<1>5. ASSUME NEW l \in lookups, LookupReads(l) PROVE HasActiveOwner'
  BY <1>5 DEF LookupReads, OnlyLookups, HasActiveOwner
<1>6. ASSUME NEW l \in lookups, LookupFails(l) PROVE HasActiveOwner'
  BY <1>6 DEF LookupFails, OnlyLookups, HasActiveOwner
<1>7. ASSUME NEW l \in lookups, LookupResumes(l) PROVE HasActiveOwner'
  <2> DEFINE m == IF org' THEN WithOwner(members) ELSE members
  <2>1. m \in [Users -> Entry] /\ \A u \in Users : members[u] = Owner => m[u] = Owner
    BY WithOwnerKeeps DEF TypeOK
  <2>2. \A u \in Users : m[u] = Owner => WithCreator(m)[u] = Owner
    BY <2>1, WithCreatorKeeps
  <2>3. \A u \in Users : members[u] = Owner => members'[u] = Owner
    BY <1>7, <2>1, <2>2 DEF LookupResumes
  <2> QED BY <2>3 DEF HasActiveOwner
<1>8. ASSUME NEW l \in lookups, LookupReadsMembers(l) PROVE HasActiveOwner'
  BY <1>8 DEF LookupReadsMembers, OnlyLookups, HasActiveOwner
<1>9. ASSUME NEW l \in lookups, LookupSetsMembers(l) PROVE HasActiveOwner'
  BY <1>9 DEF LookupSetsMembers, HasActiveOwner
<1>10. ASSUME NEW a \in Users, NEW t \in Users, NEW role \in Roles, InviteMember(a, t, role) PROVE HasActiveOwner'
  <2>1. PICK u \in Users : Healed(a)[u] = Owner
    BY HealedOwner
  <2>2. WithOwner(Healed(a))[u] = Owner
    BY <2>1, HealedKeeps, WithOwnerKeeps
  <2> QED BY <1>10, <2>2 DEF InviteMember, HasActiveOwner
<1>11. ASSUME NEW a \in Users, NEW t \in Users, NEW role \in Roles, UpdateMemberRole(a, t, role) PROVE HasActiveOwner'
  <2> DEFINE e == EntryWithRole(Healed(a)[t], role)
  <2>1. Healed(a)[t] \in Entry
    BY HealedKeeps
  <2>2. role = "OWNER" /\ Healed(a)[t] = Owner => e = Owner
    BY <2>1 DEF EntryWithRole, Entry, Owner
  <2>3. members' = [Healed(a) EXCEPT ![t] = e]
    BY <1>11 DEF UpdateMemberRole, Managed
  <2>4. role # "OWNER" => ~FinalOwner(Healed(a), t)
    BY <1>11 DEF UpdateMemberRole
  <2> HIDE DEF e
  <2> QED BY <2>2, <2>3, <2>4, ManagedKeepsOwner
<1>12. ASSUME NEW a \in Users, NEW t \in Users, NEW status \in Statuses, UpdateMemberStatus(a, t, status) PROVE HasActiveOwner'
  <2> DEFINE e == [Healed(a)[t] EXCEPT !.status = status]
  <2>1. Healed(a)[t] \in Entry
    BY HealedKeeps
  <2>2. status = "ACTIVE" /\ Healed(a)[t] = Owner => e = Owner
    BY <2>1 DEF Entry, Owner
  <2>3. members' = [Healed(a) EXCEPT ![t] = e]
    BY <1>12 DEF UpdateMemberStatus, Managed
  <2>4. status # "ACTIVE" => ~FinalOwner(Healed(a), t)
    BY <1>12 DEF UpdateMemberStatus
  <2> HIDE DEF e
  <2> QED BY <2>2, <2>3, <2>4, ManagedKeepsOwner
<1>13. ASSUME NEW a \in Users, NEW t \in Users, RemoveMember(a, t) PROVE HasActiveOwner'
  <2> DEFINE e == [Healed(a)[t] EXCEPT !.status = "REMOVED"]
  <2>1. members' = [Healed(a) EXCEPT ![t] = e] /\ ~FinalOwner(Healed(a), t)
    BY <1>13 DEF RemoveMember, Managed
  <2> HIDE DEF e
  <2> QED BY <2>1, ManagedKeepsOwner
<1>14. ASSUME NEW a \in Users, NEW i \in Ids, NEW status \in {"REVOKED", "PENDING"}, SetInvitation(a, i, status) PROVE HasActiveOwner'
  BY <1>14, HealedOwner DEF SetInvitation, HasActiveOwner
<1>15. ASSUME NEW i \in Ids, DeclineInvitation(i) PROVE HasActiveOwner'
  BY <1>15 DEF DeclineInvitation, HasActiveOwner
<1>16. ASSUME NEW i \in Ids, InvitationExpires(i) PROVE HasActiveOwner'
  BY <1>16 DEF InvitationExpires, HasActiveOwner
<1>17. ASSUME NEW w \in writes, Lands(w) PROVE HasActiveOwner'
  BY <1>17 DEF Lands, process, HasActiveOwner
<1>18. ASSUME NEW w \in writes, WriteFails(w) PROVE HasActiveOwner'
  BY <1>18 DEF WriteFails, process, HasActiveOwner
<1>19. ASSUME HydrateReadsLists PROVE HasActiveOwner'
  BY <1>19 DEF HydrateReadsLists, HasActiveOwner
<1>20. ASSUME HydrateSetsOrganization PROVE HasActiveOwner'
  BY <1>20 DEF HydrateSetsOrganization, HasActiveOwner
<1>21. ASSUME HydrateReadsMembers PROVE HasActiveOwner'
  BY <1>21 DEF HydrateReadsMembers, HasActiveOwner
<1>22. ASSUME HydrateFails PROVE HasActiveOwner'
  BY <1>22 DEF HydrateFails, HasActiveOwner
<1>23. CASE UNCHANGED vars
  BY <1>23 DEF vars, process, HasActiveOwner
<1> QED BY <1>1, <1>2, <1>3, <1>4, <1>5, <1>6, <1>7, <1>8, <1>9, <1>10, <1>11, <1>12, <1>13, <1>14, <1>15, <1>16, <1>17, <1>18, <1>19, <1>20, <1>21, <1>22, <1>23 DEF Next, Managers, RevokeInvitation, ResendInvitation

\* Roles, suspensions and removals never leave the organisation without an active
\* owner.
THEOREM OwnerIsKeptTheorem == Spec => OwnerIsKept
<1> DEFINE Excepted == \/ \E u \in Users : LeaveOrganization(u)
                       \/ \E i \in Ids : AcceptInvitation(i)
                       \/ DeleteOrganization \/ Restart \/ HydrateSetsMembers
<1>1. TypeOK /\ [Next]_vars => [HasActiveOwner /\ ~HasActiveOwner' => Excepted]_vars
  BY OwnerStep
<1> QED BY <1>1, TypeCorrect, PTL DEF Spec, OwnerIsKept

=============================================================================
