---------------------------- MODULE MembershipProofs ----------------------------
(***************************************************************************)
(* Proofs about Membership, for every value of the constants: the tables   *)
(* keep their types and foreign keys, a revoked or used invitation makes   *)
(* no account, an address has one invitation to use, and nobody's account  *)
(* goes with somebody else's.                                              *)
(***************************************************************************)
EXTENDS Membership, FiniteSetTheorems, TLAPS

\* What a request in flight remembers.
ServedOK(p) ==
    served[p] # NoOne =>
        /\ served[p].kind \in {"invite", "accept", "revoke", "leave"}
        /\ served[p].kind = "invite" =>
              /\ served[p].email \in Persons /\ served[p].farm \in Farms \cup {NoOne}
              /\ served[p].until \in Days \cup {Never}
        /\ served[p].kind = "accept" => served[p].invite \in Invitations

MembershipInv ==
    /\ member \in [Persons -> MemberRow \cup {NoOne}]
    /\ invites \in [Invitations -> InviteRow \cup {NoOne}]
    /\ farms \subseteq Farms
    /\ DOMAIN served = Persons /\ served = [p \in Persons |-> served[p]]
    /\ \A p \in Persons : ServedOK(p)
    /\ MembershipTypeOK

-----------------------------------------------------------------------------
(* Type correctness *)

\* An invitation's author and farm exist.
InviteOK(i) == invites[i] # NoOne =>
    /\ invites[i] \in InviteRow /\ InOrg(invites[i].by)
    /\ invites[i].farm \in farms \cup {NoOne}

\* A request that begins changes nothing but itself.
LEMMA BeginStep ==
    ASSUME MembershipInv, NEW p \in Persons, NEW request, Begin(p, request),
           UNCHANGED <<today, tenant, member, farms, grants, invites>>,
           ServedOK(p)'
    PROVE  MembershipInv'
<1>1. /\ served' = [served EXCEPT ![p] = request]
      /\ \A q \in Persons \ {p} : served'[q] = served[q]
  BY DEF MembershipInv, Begin
<1>2. \A q \in Persons : ServedOK(q)'
  BY <1>1 DEF MembershipInv, ServedOK
<1>3. MembershipTypeOK'
  BY DEF MembershipInv, MembershipTypeOK, HasAccount, InOrg
<1>4. DOMAIN served' = Persons /\ served' = [q \in Persons |-> served'[q]]
  BY <1>1 DEF MembershipInv
<1> QED
  BY <1>2, <1>3, <1>4 DEF MembershipInv

\* A request that is done is forgotten.
LEMMA DoneServed ==
    ASSUME MembershipInv, NEW p \in Persons, Done(p) \/ UNCHANGED served
    PROVE  /\ DOMAIN served' = Persons /\ served' = [q \in Persons |-> served'[q]]
           /\ \A q \in Persons : ServedOK(q)'
           /\ \A q \in Persons : served'[q] = served[q] \/ served'[q] = NoOne
<1>1. /\ DOMAIN served' = Persons /\ served' = [q \in Persons |-> served'[q]]
      /\ \A q \in Persons : served'[q] = served[q] \/ served'[q] = NoOne
  BY DEF MembershipInv, Done
<1> QED
  BY <1>1 DEF MembershipInv, ServedOK

LEMMA InvitationsAsked ==
    ASSUME MembershipInv, NEW a \in Persons, NEW p \in Persons,
           NEW farm \in Farms \cup {NoOne}, NEW until \in {1, Never},
           InviteRead(a, p, farm, until)
    PROVE  MembershipInv'
<1> DEFINE request == [kind |-> "invite", invite |-> NewId, email |-> p, farm |-> farm,
                       until |-> until, previous |-> Unrevoked(p)]
<1>1. Begin(a, request) /\ UNCHANGED <<today, tenant, member, farms, grants, invites>>
  BY DEF InviteRead
<1>2. served'[a] = request
  BY <1>1 DEF MembershipInv, Begin
<1>3. until \in Days \cup {Never}
  BY MembershipConstants DEF MembershipConstants, Days
<1>4. ServedOK(a)'
  BY <1>2, <1>3 DEF ServedOK
<1> HIDE DEF request
<1> QED
  BY <1>1, <1>4, BeginStep

LEMMA OthersAsked ==
    ASSUME MembershipInv, NEW p \in Persons,
           LeaveRead(p) \/ \E i \in Invitations : AcceptRead(p, i) \/ RevokeInviteRead(p, i)
    PROVE  MembershipInv'
<1>1. ASSUME NEW i \in Invitations, NEW kind \in {"accept", "revoke"},
             Begin(p, [kind |-> kind, invite |-> i]),
             UNCHANGED <<today, tenant, member, farms, grants, invites>>
      PROVE  MembershipInv'
  <2>1. served'[p] = [kind |-> kind, invite |-> i]
    BY <1>1 DEF MembershipInv, Begin
  <2>2. ServedOK(p)'
    BY <2>1 DEF ServedOK
  <2> QED
    BY <1>1, <2>2, BeginStep
<1>2. ASSUME NEW alone, Begin(p, [kind |-> "leave", invite |-> NoOne, alone |-> alone]),
             UNCHANGED <<today, tenant, member, farms, grants, invites>>
      PROVE  MembershipInv'
  <2>1. served'[p] = [kind |-> "leave", invite |-> NoOne, alone |-> alone]
    BY <1>2 DEF MembershipInv, Begin
  <2>2. ServedOK(p)'
    BY <2>1 DEF ServedOK
  <2> QED
    BY <1>2, <2>2, BeginStep
<1> QED
  BY <1>1, <1>2 DEF LeaveRead, AcceptRead, RevokeInviteRead

\* An invitation is added, and others are revoked.
LEMMA InvitationsMade ==
    ASSUME MembershipInv, NEW a \in Persons, InviteCommit(a) PROVE MembershipInv'
<1>1. /\ UNCHANGED <<today, tenant, member, farms, grants>> /\ Done(a)
      /\ served[a] # NoOne /\ served[a].kind = "invite"
  BY DEF InviteCommit
<1>2. PICK role \in {"manager", "viewer"} :
        invites' = IF /\ InOrg(a) /\ served[a].farm \in farms \cup {NoOne}
                      /\ \A i \in served[a].previous : invites[i] # NoOne
                   THEN [Revoked(invites, served[a].previous)
                         EXCEPT ![served[a].invite] = NewInvite(a, served[a], role)]
                   ELSE invites
  BY DEF InviteCommit
<1>3. InOrg(a) /\ served[a].farm \in farms \cup {NoOne}
        => /\ NewInvite(a, served[a], role) \in InviteRow
           /\ NewInvite(a, served[a], role).by = a
           /\ NewInvite(a, served[a], role).farm \in farms \cup {NoOne}
  BY <1>1, MembershipConstants
  DEF MembershipInv, ServedOK, NewInvite, InviteRow, MembershipConstants, Days
<1>4. ASSUME NEW i \in Invitations
      PROVE  \/ invites'[i] = invites[i]
             \/ invites[i] # NoOne /\ invites'[i] = [invites[i] EXCEPT !.revoked = TRUE]
             \/ /\ InOrg(a) /\ served[a].farm \in farms \cup {NoOne}
                /\ invites'[i] = NewInvite(a, served[a], role)
  BY <1>2 DEF MembershipInv, Revoked
<1>5. invites' = [i \in Invitations |-> invites'[i]]
  BY <1>2 DEF MembershipInv, Revoked
<1>6. ASSUME NEW i \in Invitations, invites[i] # NoOne
      PROVE  LET row == [invites[i] EXCEPT !.revoked = TRUE]
             IN  row \in InviteRow /\ row.by = invites[i].by /\ row.farm = invites[i].farm
  BY <1>6 DEF MembershipInv, InviteRow
<1>7. \A i \in Invitations : invites'[i] # NoOne =>
         /\ invites'[i] \in InviteRow /\ InOrg(invites'[i].by)
         /\ invites'[i].farm \in farms \cup {NoOne}
  BY <1>3, <1>4, <1>6 DEF MembershipInv, MembershipTypeOK
<1>8. invites' \in [Invitations -> InviteRow \cup {NoOne}]
  BY <1>5, <1>7
<1>9. MembershipTypeOK'
  BY <1>1, <1>7 DEF MembershipInv, MembershipTypeOK, HasAccount, InOrg
<1> QED
  BY <1>1, <1>8, <1>9, DoneServed DEF MembershipInv

LEMMA InvitationsRevoked ==
    ASSUME MembershipInv, NEW a \in Persons, RevokeInviteCommit(a) PROVE MembershipInv'
<1>1. /\ UNCHANGED <<today, tenant, member, farms, grants>> /\ Done(a)
  BY DEF RevokeInviteCommit
<1>2. invites' \in [Invitations -> InviteRow \cup {NoOne}]
  <2>1. \A row \in InviteRow : [row EXCEPT !.revoked = TRUE] \in InviteRow
    BY DEF InviteRow
  <2> QED
    BY <2>1 DEF RevokeInviteCommit, Revoked, MembershipInv
<1>3. \A i \in Invitations : invites'[i] # NoOne =>
         /\ invites[i] # NoOne /\ invites'[i] \in InviteRow
         /\ invites'[i].by = invites[i].by /\ invites'[i].farm = invites[i].farm
  BY <1>2 DEF RevokeInviteCommit, Revoked, MembershipInv, InviteRow
<1>4. MembershipTypeOK'
  BY <1>1, <1>3 DEF MembershipInv, MembershipTypeOK, HasAccount, InOrg
<1> QED
  BY <1>1, <1>2, <1>4, DoneServed DEF MembershipInv

\* The account an invitation makes is of an organization that still exists, with
\* a grant on a farm that does.
LEMMA InvitationsAccepted ==
    ASSUME MembershipInv, NEW p \in Persons, AcceptCommit(p) PROVE MembershipInv'
<1>1. /\ UNCHANGED <<today, tenant, farms>> /\ Done(p)
  BY DEF AcceptCommit
<1> PICK i \in Invitations : i = served[p].invite
  BY DEF AcceptCommit, MembershipInv, ServedOK
<1>2. CASE UNCHANGED <<member, grants, invites>>
  <2>1. MembershipTypeOK'
    BY <1>1, <1>2 DEF MembershipInv, MembershipTypeOK, HasAccount, InOrg
  <2> QED
    BY <1>1, <1>2, <2>1, DoneServed DEF MembershipInv
<1>3. CASE ~UNCHANGED <<member, grants, invites>>
  <2>1. invites[i] # NoOne /\ ~HasAccount(p)
    BY <1>3 DEF AcceptCommit
  <2>2. PICK invite \in InviteRow :
           /\ invite = invites[i] /\ InOrg(invite.by) /\ invite.farm \in farms \cup {NoOne}
    BY <2>1 DEF MembershipInv, MembershipTypeOK
  <2> DEFINE row == [org |-> TRUE, role |-> invite.role, active |-> TRUE,
                     wide |-> invite.farm = NoOne, until |-> invite.until]
             grant == [to |-> p, farm |-> invite.farm, by |-> invite.by,
                       until |-> invite.until, revoked |-> FALSE]
             used == [invite EXCEPT !.accepted = TRUE]
  <2>3. /\ member' = [member EXCEPT ![p] = row]
        /\ grants' = grants \cup (IF invite.farm = NoOne THEN {} ELSE {grant})
        /\ invites' = [invites EXCEPT ![i] = used]
    BY <1>3, <2>1, <2>2 DEF AcceptCommit
  <2>4. row \in MemberRow /\ row.org
    BY <2>2 DEF InviteRow, MemberRow, MemberRoles
  <2>5. invite.farm # NoOne => grant \in GrantRow /\ grant.farm \in farms
    BY <2>2 DEF InviteRow, GrantRow, MembershipInv
  <2>6. used \in InviteRow /\ used.by = invite.by /\ used.farm = invite.farm
    BY <2>2 DEF InviteRow
  <2>7. grant.to = p /\ grant.by = invite.by /\ invite.by \in Persons
    BY <2>2 DEF InviteRow
  <2> HIDE DEF row, grant, used
  <2>8. \A q \in Persons : q = p \/ InOrg(q) => InOrg(q)'
    BY <2>3, <2>4, NoOneIsNoMember DEF HasAccount, InOrg, MembershipInv, NoOneIsNoMember
  <2>9. \A q \in Persons : HasAccount(q)' => member'[q] \in MemberRow /\ (InOrg(q)' => tenant)
    <3>1. tenant
      BY <2>2, <2>7 DEF MembershipInv, MembershipTypeOK, InOrg
    <3> QED
      BY <2>3, <2>4, <3>1 DEF HasAccount, MembershipInv
  <2>10. /\ grants' \subseteq GrantRow
         /\ \A g \in grants' : g.farm \in farms /\ InOrg(g.to)' /\ InOrg(g.by)'
    <3>1. /\ grants \subseteq GrantRow
          /\ \A g \in grants : g.farm \in farms /\ InOrg(g.to)' /\ InOrg(g.by)'
      BY <2>8 DEF MembershipInv, MembershipTypeOK, GrantRow
    <3>2. InOrg(grant.to)' /\ InOrg(grant.by)'
      BY <2>2, <2>7, <2>8
    <3> QED
      BY <2>3, <2>5, <3>1, <3>2
  <2>11. \A j \in Invitations : InviteOK(j)'
    <3> TAKE j \in Invitations
    <3>1. CASE j = i
      <4>1. invites'[j] = used /\ InOrg(used.by)'
        BY <2>2, <2>3, <2>6, <2>7, <2>8, <3>1 DEF MembershipInv
      <4> QED
        BY <1>1, <2>2, <2>6, <4>1 DEF InviteOK, InOrg, HasAccount
    <3>2. CASE j # i
      <4>1. invites'[j] = invites[j] /\ InviteOK(j)
        BY <2>3, <3>2 DEF MembershipInv, MembershipTypeOK, InviteOK
      <4>2. invites[j] # NoOne => \E by \in Persons : by = invites[j].by /\ InOrg(by)'
        BY <2>8, <4>1 DEF InviteOK, InviteRow
      <4> QED
        BY <1>1, <4>1, <4>2 DEF InviteOK, InOrg, HasAccount
    <3> QED
      BY <3>1, <3>2
  <2>12. /\ member' \in [Persons -> MemberRow \cup {NoOne}]
         /\ invites' \in [Invitations -> InviteRow \cup {NoOne}]
    BY <2>3, <2>4, <2>6 DEF MembershipInv
  <2>13. MembershipTypeOK'
    BY <1>1, <2>9, <2>10, <2>11 DEF MembershipInv, MembershipTypeOK, InviteOK
  <2> QED
    BY <1>1, <2>12, <2>13, DoneServed DEF MembershipInv
<1> QED
  BY <1>2, <1>3

\* What goes with a set of users leaves no row that refers to them.
LEMMA CascadeOK ==
    ASSUME MembershipInv, NEW gone, Cascade(gone), UNCHANGED today,
           tenant' = tenant \/ \A q \in Persons : InOrg(q) => q \in gone
    PROVE  /\ member' \in [Persons -> MemberRow \cup {NoOne}]
           /\ invites' \in [Invitations -> InviteRow \cup {NoOne}]
           /\ farms' \subseteq Farms
           /\ MembershipTypeOK'
<1>1. /\ member' = [q \in Persons |-> IF q \in gone THEN NoOne ELSE member[q]]
      /\ farms' = IF Founder \in gone THEN {} ELSE farms
      /\ grants' = {g \in grants : g.to \notin gone /\ g.by \notin gone /\ g.farm \in farms'}
      /\ invites' = [i \in Invitations |->
            IF /\ invites[i] # NoOne
               /\ invites[i].by \in gone \/ invites[i].farm \notin farms' \cup {NoOne}
            THEN NoOne ELSE invites[i]]
  BY DEF Cascade
<1>2. \A q \in Persons : /\ InOrg(q)' => InOrg(q) /\ q \notin gone
                         /\ InOrg(q) /\ q \notin gone => InOrg(q)'
  BY <1>1 DEF InOrg, HasAccount
<1>3. \A q \in Persons : HasAccount(q)' => member'[q] \in MemberRow /\ (InOrg(q)' => tenant')
  BY <1>1, <1>2 DEF HasAccount, MembershipInv, MembershipTypeOK
<1>4. /\ grants' \subseteq GrantRow
      /\ \A g \in grants' : g.farm \in farms' /\ InOrg(g.to)' /\ InOrg(g.by)'
  BY <1>1, <1>2 DEF MembershipInv, MembershipTypeOK, GrantRow
<1>5. \A i \in Invitations : InviteOK(i)'
  <2> SUFFICES ASSUME NEW i \in Invitations, invites'[i] # NoOne
               PROVE  InviteOK(i)'
    BY DEF InviteOK
  <2>1. /\ invites'[i] = invites[i] /\ invites[i] # NoOne
        /\ invites[i].by \notin gone /\ invites[i].farm \in farms' \cup {NoOne}
    BY <1>1
  <2>2. PICK by \in Persons : by = invites[i].by /\ InOrg(by) /\ invites[i] \in InviteRow
    BY <2>1 DEF MembershipInv, MembershipTypeOK, InviteRow
  <2>3. InOrg(by)'
    BY <1>2, <2>1, <2>2
  <2> QED
    BY <2>1, <2>2, <2>3 DEF InviteOK, InOrg, HasAccount
<1>6. /\ member' \in [Persons -> MemberRow \cup {NoOne}]
      /\ invites' \in [Invitations -> InviteRow \cup {NoOne}]
  BY <1>1 DEF MembershipInv
<1>7. farms' \subseteq Farms /\ today' \in Days
  BY <1>1 DEF MembershipInv, MembershipTypeOK
<1> QED
  BY <1>3, <1>4, <1>5, <1>6, <1>7 DEF MembershipTypeOK, InviteOK

LEMMA AccountsDeleted ==
    ASSUME MembershipInv, NEW p \in Persons, LeaveCommit(p) PROVE MembershipInv'
<1>1. UNCHANGED today /\ Done(p)
  BY DEF LeaveCommit
<1>2. CASE served[p].alone
  BY <1>1, <1>2, CascadeOK, DoneServed DEF LeaveCommit, MembershipInv
<1>3. CASE ~served[p].alone
  BY <1>1, <1>3, CascadeOK, DoneServed DEF LeaveCommit, MembershipInv
<1> QED
  BY <1>2, <1>3

\* The requests in one step leave everybody where they are, and lose or change
\* rows without breaking a reference.
LEMMA SameMembers ==
    ASSUME MembershipInv, UNCHANGED <<tenant, served>>, today' \in Days,
           member' \in [Persons -> MemberRow \cup {NoOne}],
           \A q \in Persons : InOrg(q)' <=> InOrg(q),
           farms' \subseteq farms, grants' \subseteq GrantRow,
           \A g \in grants' : g.farm \in farms' /\ InOrg(g.to) /\ InOrg(g.by),
           invites' \in [Invitations -> InviteRow \cup {NoOne}],
           \A i \in Invitations : invites'[i] # NoOne =>
              invites'[i] = invites[i] /\ invites[i].farm \in farms' \cup {NoOne}
    PROVE  MembershipInv'
<1>1. \A i \in Invitations : InviteOK(i)'
  <2> SUFFICES ASSUME NEW i \in Invitations, invites'[i] # NoOne PROVE InviteOK(i)'
    BY DEF InviteOK
  <2>1. PICK by \in Persons : by = invites[i].by /\ InOrg(by) /\ invites[i] \in InviteRow
    BY DEF MembershipInv, MembershipTypeOK, InviteRow
  <2>2. InOrg(by)'
    BY <2>1
  <2> QED
    BY <2>1, <2>2 DEF InviteOK, InOrg, HasAccount
<1>2. \A g \in grants' : g.farm \in farms' /\ InOrg(g.to)' /\ InOrg(g.by)'
  BY DEF GrantRow
<1>3. \A q \in Persons : HasAccount(q)' => member'[q] \in MemberRow /\ (InOrg(q)' => tenant')
  <2>1. \A q \in Persons : InOrg(q) => tenant
    BY DEF MembershipInv, MembershipTypeOK, InOrg
  <2>2. \A q \in Persons : HasAccount(q)' => member'[q] \in MemberRow
    BY DEF HasAccount
  <2> QED
    BY <2>1, <2>2
<1>4. MembershipTypeOK'
  BY <1>1, <1>2, <1>3 DEF MembershipTypeOK, InviteOK
<1>5. \A q \in Persons : ServedOK(q)'
  BY DEF MembershipInv, ServedOK
<1> QED
  BY <1>4, <1>5 DEF MembershipInv

LEMMA AccountsChanged ==
    ASSUME MembershipInv, NEW p \in Persons, Register(p) \/ AdminUpdateUser(p)
    PROVE  MembershipInv' /\ \A q \in Persons : InOrg(q)' <=> InOrg(q)
<1>1. UNCHANGED <<today, tenant, farms, grants, invites, served>>
  BY DEF Register, AdminUpdateUser
<1>2. \E row \in MemberRow : /\ member' = [member EXCEPT ![p] = row]
                             /\ row.org <=> InOrg(p)
  <2>1. CASE Register(p)
    <3> DEFINE row == [org |-> FALSE, role |-> "owner", active |-> TRUE,
                       wide |-> TRUE, until |-> Never]
    <3>1. row \in MemberRow /\ ~row.org
      BY DEF MemberRow, MemberRoles
    <3> QED
      BY <2>1, <3>1 DEF Register, InOrg
  <2>2. CASE AdminUpdateUser(p)
    <3> DEFINE row == [member[p] EXCEPT !.active = ~@]
    <3>1. member[p] \in MemberRow /\ HasAccount(p)
      BY <2>2 DEF AdminUpdateUser, MembershipInv, HasAccount
    <3>2. row \in MemberRow /\ row.org = member[p].org
      BY <3>1 DEF MemberRow
    <3>3. member' = [member EXCEPT ![p] = row]
      BY <2>2 DEF AdminUpdateUser, MembershipInv
    <3> QED
      BY <3>1, <3>2, <3>3 DEF InOrg
  <2> QED
    BY <2>1, <2>2
<1>3. /\ member' \in [Persons -> MemberRow \cup {NoOne}]
      /\ \A q \in Persons : InOrg(q)' <=> InOrg(q)
  BY <1>2, NoOneIsNoMember DEF MembershipInv, InOrg, HasAccount, NoOneIsNoMember
<1> QED
  BY <1>1, <1>3, SameMembers DEF MembershipInv, MembershipTypeOK

LEMMA MembersUpdated ==
    ASSUME MembershipInv, NEW a \in Persons, NEW t \in Persons, NEW c \in Changes,
           UpdateMember(a, t, c)
    PROVE  MembershipInv' /\ \A q \in Persons : InOrg(q)' <=> InOrg(q)
<1> DEFINE until == Given(c.until, member[t].until)
           row == [member[t] EXCEPT !.role = Given(c.role, @), !.until = until,
                      !.wide = IF c.farms # NoOne THEN FALSE ELSE Given(c.wide, @)]
<1>1. /\ UNCHANGED <<today, tenant, farms, invites, served>>
      /\ InOrg(a) /\ InOrg(t) /\ member[t] \in MemberRow /\ c \in ChangeRow
      /\ c.farms # NoOne => \A f \in c.farms : f \in farms
  BY MembershipConstants
  DEF UpdateMember, MembershipInv, InOrg, HasAccount, Manager, can_access_location,
      MembershipConstants
<1>2. until \in Days \cup {Never}
  BY <1>1 DEF Given, MemberRow, ChangeRow
<1>3. row \in MemberRow /\ row.org
  <2>1. /\ Given(c.role, member[t].role) \in MemberRoles
        /\ Given(c.wide, member[t].wide) \in BOOLEAN
    BY <1>1 DEF Given, MemberRow, MemberRoles, ChangeRow
  <2> HIDE DEF until
  <2> QED
    BY <1>1, <1>2, <2>1 DEF MemberRow, InOrg
<1>4. member' = [member EXCEPT ![t] = row]
  BY DEF UpdateMember, MembershipInv
<1>5. /\ grants' \subseteq GrantRow
      /\ \A g \in grants' : g.farm \in farms /\ InOrg(g.to) /\ InOrg(g.by)
  <2> DEFINE kept == {g \in grants : g.to # t}
             new == {[to |-> t, farm |-> f, by |-> a, until |-> until,
                      revoked |-> FALSE] : f \in c.farms}
  <2>1. grants' = IF c.farms # NoOne THEN kept \cup new
                  ELSE IF c.wide = TRUE THEN kept ELSE grants
    BY DEF UpdateMember
  <2>2. /\ kept \subseteq grants /\ grants \subseteq GrantRow
        /\ \A g \in grants : g.farm \in farms /\ InOrg(g.to) /\ InOrg(g.by)
    BY DEF MembershipInv, MembershipTypeOK
  <2>3. c.farms # NoOne => /\ new \subseteq GrantRow
                           /\ \A g \in new : g.farm \in farms /\ InOrg(g.to) /\ InOrg(g.by)
    <3> SUFFICES ASSUME c.farms # NoOne, NEW f \in c.farms
                 PROVE  LET g == [to |-> t, farm |-> f, by |-> a, until |-> until,
                                  revoked |-> FALSE]
                        IN  g \in GrantRow /\ g.farm \in farms /\ InOrg(g.to) /\ InOrg(g.by)
      OBVIOUS
    <3> HIDE DEF until
    <3> QED
      BY <1>1, <1>2 DEF GrantRow, MembershipInv
  <2> HIDE DEF kept, new
  <2> QED
    BY <2>1, <2>2, <2>3
<1> HIDE DEF row
<1>6. /\ member' \in [Persons -> MemberRow \cup {NoOne}]
      /\ \A q \in Persons : InOrg(q)' <=> InOrg(q)
  BY <1>1, <1>3, <1>4, NoOneIsNoMember DEF MembershipInv, InOrg, HasAccount, NoOneIsNoMember
<1> QED
  BY <1>1, <1>5, <1>6, SameMembers DEF MembershipInv, MembershipTypeOK

LEMMA MembersRevoked ==
    ASSUME MembershipInv, NEW a \in Persons, NEW t \in Persons, RevokeMember(a, t)
    PROVE  MembershipInv' /\ \A q \in Persons : InOrg(q)' <=> InOrg(q)
<1> DEFINE row == [member[t] EXCEPT !.active = FALSE]
<1>1. /\ UNCHANGED <<today, tenant, farms, invites, served>>
      /\ InOrg(t) /\ member[t] \in MemberRow
      /\ member' = [member EXCEPT ![t] = row]
  BY DEF RevokeMember, MembershipInv, InOrg, HasAccount
<1>2. row \in MemberRow /\ row.org
  BY <1>1 DEF MemberRow, InOrg
<1> HIDE DEF row
<1>3. /\ grants' \subseteq GrantRow
      /\ \A g \in grants' : g.farm \in farms /\ InOrg(g.to) /\ InOrg(g.by)
  <2>1. \A g \in GrantRow : LET end == [g EXCEPT !.revoked = TRUE]
                            IN  /\ end \in GrantRow /\ end.farm = g.farm
                                /\ end.to = g.to /\ end.by = g.by
    BY DEF GrantRow
  <2>2. \A g \in grants' : \E old \in grants : g = old \/ g = [old EXCEPT !.revoked = TRUE]
    BY DEF RevokeMember
  <2>3. /\ grants \subseteq GrantRow
        /\ \A g \in grants : g.farm \in farms /\ InOrg(g.to) /\ InOrg(g.by)
    BY DEF MembershipInv, MembershipTypeOK
  <2> SUFFICES ASSUME NEW g \in grants'
               PROVE  g \in GrantRow /\ g.farm \in farms /\ InOrg(g.to) /\ InOrg(g.by)
    OBVIOUS
  <2>4. PICK old \in grants : g = old \/ g = [old EXCEPT !.revoked = TRUE]
    BY <2>2
  <2>5. CASE g = old
    BY <2>3, <2>5
  <2>6. CASE g = [old EXCEPT !.revoked = TRUE]
    <3>1. g \in GrantRow /\ g.farm = old.farm /\ g.to = old.to /\ g.by = old.by
      BY <2>1, <2>3, <2>6
    <3> QED
      BY <2>3, <3>1
  <2> QED
    BY <2>4, <2>5, <2>6
<1>4. /\ member' \in [Persons -> MemberRow \cup {NoOne}]
      /\ \A q \in Persons : InOrg(q)' <=> InOrg(q)
  BY <1>1, <1>2, NoOneIsNoMember DEF MembershipInv, InOrg, HasAccount, NoOneIsNoMember
<1> QED
  BY <1>1, <1>3, <1>4, SameMembers DEF MembershipInv, MembershipTypeOK

LEMMA FarmsDeleted ==
    ASSUME MembershipInv, NEW p \in Persons, NEW f \in Farms, DeleteFarm(p, f)
    PROVE  MembershipInv'
<1>1. /\ UNCHANGED <<today, tenant, member, served>>
      /\ farms' = {g \in farms : g # f /\ Parent[g] # f}
      /\ grants' = {g \in grants : g.farm \in farms'}
      /\ invites' = [i \in Invitations |->
            IF invites[i] # NoOne /\ invites[i].farm \notin farms' \cup {NoOne}
            THEN NoOne ELSE invites[i]]
  BY DEF DeleteFarm
<1>2. \A q \in Persons : InOrg(q)' <=> InOrg(q)
  BY <1>1 DEF InOrg, HasAccount
<1>3. invites' \in [Invitations -> InviteRow \cup {NoOne}]
  BY <1>1 DEF MembershipInv
<1> QED
  BY <1>1, <1>2, <1>3, SameMembers DEF MembershipInv, MembershipTypeOK

LEMMA MembershipStep ==
    ASSUME MembershipInv, [MembershipNext]_membershipVars PROVE MembershipInv'
<1>1. CASE DayPasses
  <2>1. MembershipTypeOK'
    BY <1>1, MembershipConstants
    DEF DayPasses, MembershipInv, MembershipTypeOK, MembershipConstants, Days, HasAccount, InOrg
  <2>2. UNCHANGED <<member, farms, invites, served>>
    BY <1>1 DEF DayPasses
  <2> QED
    BY <2>1, <2>2 DEF MembershipInv, ServedOK
<1>2. CASE UNCHANGED membershipVars
  <2>1. UNCHANGED <<today, requested, tenant, member, farms, grants, invites, served, crossed>>
    BY <1>2 DEF membershipVars
  <2>2. \A q \in Persons : InOrg(q)' <=> InOrg(q)
    BY <2>1 DEF InOrg, HasAccount
  <2> QED
    BY <2>1, <2>2, SameMembers DEF MembershipInv, MembershipTypeOK
<1> QED
  BY <1>1, <1>2, InvitationsAsked, OthersAsked, InvitationsMade, InvitationsRevoked,
     InvitationsAccepted, AccountsDeleted, AccountsChanged, MembersUpdated, MembersRevoked,
     FarmsDeleted DEF MembershipNext

LEMMA MembershipOpening == ASSUME MembershipInit PROVE MembershipInv
<1> DEFINE founder == [org |-> TRUE, role |-> "owner", active |-> TRUE, wide |-> TRUE,
                       until |-> Never]
<1>1. founder \in MemberRow /\ 0 \in Days /\ Founder \in Persons
  BY MembershipConstants DEF MemberRow, MemberRoles, MembershipConstants, Days
<1> HIDE DEF founder
<1>2. member = [p \in Persons |-> IF p = Founder THEN founder ELSE NoOne]
  BY DEF MembershipInit, founder
<1>3. member \in [Persons -> MemberRow \cup {NoOne}]
  BY <1>1, <1>2
<1>4. MembershipTypeOK
  BY <1>1, <1>3 DEF MembershipInit, MembershipTypeOK, HasAccount, InOrg
<1> QED
  BY <1>3, <1>4 DEF MembershipInit, MembershipInv, ServedOK

LEMMA MembershipInvariance == MembershipSpec => []MembershipInv
<1>1. MembershipInit => MembershipInv
  BY MembershipOpening
<1>2. MembershipInv /\ [MembershipNext]_membershipVars => MembershipInv'
  BY MembershipStep
<1> QED
  BY <1>1, <1>2, PTL DEF MembershipSpec

\* Members, grants and invitations keep their columns' types; a grant is on a
\* farm that exists, to and by members; an invitation's author and farm exist;
\* and nobody is in an organization that has gone, whichever requests cross.
THEOREM MembershipTypeCorrect == MembershipSpec => []MembershipTypeOK
<1>1. MembershipInv => MembershipTypeOK
  BY DEF MembershipInv
<1> QED
  BY <1>1, MembershipInvariance, PTL

-----------------------------------------------------------------------------
(* Invitations are used once *)

\* A request that accepts has its invitation to itself until it is done, and the
\* invitation stays as it found it, or goes with its author or its farm.
UsableWhileLocked ==
    /\ \A p, q \in Persons :
          /\ served[p] # NoOne /\ served[p].kind = "accept"
          /\ served[q] # NoOne /\ served[q].kind = "accept"
          /\ served[p].invite = served[q].invite
          => p = q
    /\ \A p \in Persons :
          LET i == served[p].invite IN
          served[p] # NoOne /\ served[p].kind = "accept" /\ invites[i] # NoOne
          => ~invites[i].accepted /\ ~invites[i].revoked

\* The steps, with what each leaves alone.
LEMMA OtherRequests ==
    ASSUME MembershipNext
    PROVE  \/ /\ UNCHANGED <<invites, served, crossed>>
              /\ \E p \in Persons : \/ Register(p) \/ AdminUpdateUser(p)
                                    \/ \E t \in Persons : RevokeMember(p, t)
                                    \/ \E t \in Persons, c \in Changes : UpdateMember(p, t, c)
           \/ UNCHANGED <<member, invites, served, crossed>>
           \/ \E p \in Persons :
                 \/ \E f \in Farms : DeleteFarm(p, f)
                 \/ InviteCommit(p) \/ AcceptCommit(p) \/ RevokeInviteCommit(p) \/ LeaveCommit(p)
                 \/ LeaveRead(p) /\ UNCHANGED <<member, invites>>
                 \/ \E email \in Persons, farm \in Farms \cup {NoOne}, until \in {1, Never} :
                       InviteRead(p, email, farm, until) /\ UNCHANGED <<member, invites>>
                 \/ \E i \in Invitations :
                       /\ AcceptRead(p, i) \/ RevokeInviteRead(p, i)
                       /\ UNCHANGED <<member, invites>>
<1>1. CASE DayPasses
  BY <1>1 DEF DayPasses
<1>2. ASSUME NEW p \in Persons, Register(p) \/ AdminUpdateUser(p)
      PROVE  UNCHANGED <<invites, served, crossed>>
  BY <1>2 DEF Register, AdminUpdateUser
<1>3. ASSUME NEW p \in Persons, NEW t \in Persons,
             RevokeMember(p, t) \/ \E c \in Changes : UpdateMember(p, t, c)
      PROVE  UNCHANGED <<invites, served, crossed>>
  BY <1>3 DEF RevokeMember, UpdateMember
<1>4. ASSUME NEW p \in Persons,
             \/ LeaveRead(p)
             \/ \E email \in Persons, farm \in Farms \cup {NoOne}, until \in {1, Never} :
                   InviteRead(p, email, farm, until)
             \/ \E i \in Invitations : AcceptRead(p, i) \/ RevokeInviteRead(p, i)
      PROVE  UNCHANGED <<member, invites>>
  BY <1>4 DEF LeaveRead, InviteRead, AcceptRead, RevokeInviteRead
<1> QED
  BY <1>1, <1>2, <1>3, <1>4 DEF MembershipNext

\* Nothing but the request that holds it touches a locked invitation.
LEMMA LockedStays ==
    ASSUME MembershipInv, MembershipNext, NEW p \in Persons, served[p] # NoOne,
           served[p].kind = "accept", served'[p] = served[p],
           UsableWhileLocked
    PROVE  LET i == served[p].invite IN
           \/ invites'[i] = NoOne
           \/ ~invites'[i].accepted /\ ~invites'[i].revoked
<1> PICK i \in Invitations : i = served[p].invite
  BY DEF MembershipInv, ServedOK
<1> SUFFICES ASSUME invites'[i] # NoOne PROVE ~invites'[i].accepted /\ ~invites'[i].revoked
  OBVIOUS
<1>1. /\ LockedInvite(i) /\ (invites[i] # NoOne => ~invites[i].accepted /\ ~invites[i].revoked)
      /\ \A q \in Persons \ {p} : served[q] # NoOne /\ served[q].kind = "accept"
                                  => served[q].invite # i
  BY DEF LockedInvite, UsableWhileLocked
<1>2. CASE UNCHANGED invites
  BY <1>1, <1>2
<1>3. ASSUME NEW a \in Persons, InviteCommit(a)
      PROVE  ~invites'[i].accepted /\ ~invites'[i].revoked
  <2>1. i \notin served[a].previous
    BY <1>1, <1>3 DEF InviteCommit
  <2>2. PICK role \in {"manager", "viewer"} :
          \/ UNCHANGED invites
          \/ invites' = [Revoked(invites, served[a].previous)
                         EXCEPT ![served[a].invite] = NewInvite(a, served[a], role)]
    BY <1>3 DEF InviteCommit
  <2>3. invites'[i] = invites[i] \/ invites'[i] = NewInvite(a, served[a], role)
    BY <2>1, <2>2 DEF Revoked
  <2> QED
    BY <1>1, <2>3 DEF NewInvite
<1>4. ASSUME NEW a \in Persons, RevokeInviteCommit(a)
      PROVE  ~invites'[i].accepted /\ ~invites'[i].revoked
  <2>1. i # served[a].invite
    BY <1>1, <1>4 DEF RevokeInviteCommit
  <2> QED
    BY <1>1, <1>4, <2>1 DEF RevokeInviteCommit, Revoked
<1>5. ASSUME NEW q \in Persons, AcceptCommit(q)
      PROVE  ~invites'[i].accepted /\ ~invites'[i].revoked
  <2>1. served'[q] = NoOne /\ served[q].kind = "accept" /\ served[q] # NoOne
    BY <1>5 DEF AcceptCommit, Done, MembershipInv, ServedOK
  <2>2. served[q].invite # i
    BY <1>1, <2>1
  <2> QED
    BY <1>1, <1>5, <2>2 DEF AcceptCommit, MembershipInv
<1>6. ASSUME NEW q \in Persons, LeaveCommit(q)
      PROVE  ~invites'[i].accepted /\ ~invites'[i].revoked
  BY <1>1, <1>6 DEF LeaveCommit, Cascade
<1>7. ASSUME NEW q \in Persons, NEW f \in Farms, DeleteFarm(q, f)
      PROVE  ~invites'[i].accepted /\ ~invites'[i].revoked
  BY <1>1, <1>7 DEF DeleteFarm
<1> QED
  BY <1>2, <1>3, <1>4, <1>5, <1>6, <1>7, OtherRequests

LEMMA UsableStep ==
    ASSUME MembershipInv, UsableWhileLocked, MembershipNext PROVE UsableWhileLocked'
<1>1. ASSUME NEW p \in Persons, NEW i \in Invitations, AcceptRead(p, i)
      PROVE  UsableWhileLocked'
  <2>1. /\ served' = [served EXCEPT ![p] = [kind |-> "accept", invite |-> i]]
        /\ UNCHANGED invites /\ ~LockedInvite(i) /\ ~invites[i].accepted /\ ~invites[i].revoked
    BY <1>1 DEF AcceptRead, Begin, invitation_usable
  <2>2. /\ served'[p].invite = i
        /\ \A q \in Persons \ {p} : served'[q] = served[q]
    BY <2>1 DEF MembershipInv
  <2> QED
    BY <2>1, <2>2 DEF UsableWhileLocked, LockedInvite
<1>2. ASSUME NEW p \in Persons, \A q \in Persons \ {p} : served'[q] = served[q],
             served'[p] = served[p] \/ served'[p] = NoOne \/ served'[p].kind # "accept"
      PROVE  UsableWhileLocked'
  <2>1. ASSUME NEW q \in Persons, served'[q] # NoOne, served'[q].kind = "accept"
        PROVE  served'[q] = served[q]
    BY <1>2, <2>1
  <2>2. \A q \in Persons :
           LET i == served'[q].invite IN
           served'[q] # NoOne /\ served'[q].kind = "accept" /\ invites'[i] # NoOne
           => ~invites'[i].accepted /\ ~invites'[i].revoked
    BY <2>1, LockedStays
  <2> QED
    BY <2>1, <2>2 DEF UsableWhileLocked
<1>3. ASSUME NEW p \in Persons, Done(p) \/ UNCHANGED served PROVE UsableWhileLocked'
  BY <1>2, <1>3 DEF Done, MembershipInv
<1>4. ASSUME NEW p \in Persons, NEW request, Begin(p, request), request.kind # "accept"
      PROVE  UsableWhileLocked'
  BY <1>2, <1>4 DEF Begin, MembershipInv
<1>5. ASSUME NEW p \in Persons,
             \/ LeaveRead(p)
             \/ \E email \in Persons, farm \in Farms \cup {NoOne}, until \in {1, Never} :
                   InviteRead(p, email, farm, until)
             \/ \E i \in Invitations : RevokeInviteRead(p, i)
      PROVE  UsableWhileLocked'
  <2>1. CASE LeaveRead(p)
    BY <1>4, <2>1 DEF LeaveRead
  <2>2. ASSUME NEW email \in Persons, NEW farm \in Farms \cup {NoOne}, NEW until \in {1, Never},
               InviteRead(p, email, farm, until)
        PROVE  UsableWhileLocked'
    BY <1>4, <2>2 DEF InviteRead
  <2>3. ASSUME NEW i \in Invitations, RevokeInviteRead(p, i) PROVE UsableWhileLocked'
    BY <1>4, <2>3 DEF RevokeInviteRead
  <2> QED
    BY <1>5, <2>1, <2>2, <2>3
<1>6. ASSUME NEW p \in Persons,
             \/ InviteCommit(p) \/ AcceptCommit(p) \/ RevokeInviteCommit(p) \/ LeaveCommit(p)
             \/ \E f \in Farms : DeleteFarm(p, f)
      PROVE  UsableWhileLocked'
  BY <1>3, <1>6 DEF InviteCommit, AcceptCommit, RevokeInviteCommit, LeaveCommit, DeleteFarm
<1>7. CASE UNCHANGED served
  <2>1. Founder \in Persons
    BY MembershipConstants DEF MembershipConstants
  <2> QED
    BY <1>3, <1>7, <2>1
<1> QED
  BY <1>1, <1>5, <1>6, <1>7, OtherRequests

\* Accounts of the organization are made by invitations only.
LEMMA JoiningIsAccepting ==
    ASSUME MembershipInv, MembershipNext, NEW p \in Persons, ~InOrg(p), InOrg(p)'
    PROVE  AcceptCommit(p) /\ ~UNCHANGED member
<1>1. CASE UNCHANGED member
  BY <1>1 DEF InOrg, HasAccount
<1>2. ASSUME NEW q \in Persons, AcceptCommit(q) PROVE AcceptCommit(p)
  <2>1. \A r \in Persons \ {q} : member'[r] = member[r]
    BY <1>2 DEF AcceptCommit, MembershipInv
  <2>2. q = p
    BY <2>1 DEF InOrg, HasAccount
  <2> QED
    BY <1>2, <2>2
<1>3. ASSUME NEW q \in Persons, LeaveCommit(q) PROVE FALSE
  <2>1. member'[p] = member[p] \/ member'[p] = NoOne
    BY <1>3 DEF LeaveCommit, Cascade
  <2> QED
    BY <2>1 DEF InOrg, HasAccount
<1>4. ASSUME NEW q \in Persons, \/ Register(q) \/ AdminUpdateUser(q)
                                \/ \E t \in Persons : RevokeMember(q, t)
                                \/ \E t \in Persons, c \in Changes : UpdateMember(q, t, c)
      PROVE  FALSE
  BY <1>4, AccountsChanged, MembersUpdated, MembersRevoked
<1>5. ASSUME NEW q \in Persons,
             \/ InviteCommit(q) \/ RevokeInviteCommit(q)
             \/ \E f \in Farms : DeleteFarm(q, f)
      PROVE  UNCHANGED member
  BY <1>5 DEF InviteCommit, RevokeInviteCommit, DeleteFarm
<1> QED
  BY <1>1, <1>2, <1>3, <1>4, <1>5, OtherRequests

\* Once a revocation is committed nobody joins by the invitation, and nobody
\* joins twice by any, although the one who revokes does not lock it: the one
\* who accepts does.
THEOREM RevocationsHold == MembershipSpec => RevocationIsFinal
<1>1. MembershipInit => UsableWhileLocked
  BY DEF MembershipInit, UsableWhileLocked
<1>2. MembershipInv /\ UsableWhileLocked /\ [MembershipNext]_membershipVars => UsableWhileLocked'
  <2>1. CASE UNCHANGED membershipVars
    BY <2>1 DEF membershipVars, UsableWhileLocked
  <2> QED
    BY <2>1, UsableStep
<1>3. ASSUME MembershipInv, UsableWhileLocked, [MembershipNext]_membershipVars
      PROVE  [\A i \in Invitations : \A p \in Persons :
                /\ ~HasAccount(p) /\ InOrg(p)' /\ invites[i] # NoOne
                /\ served[p] # NoOne /\ served[p].invite = i
                => ~invites[i].revoked /\ ~invites[i].accepted]_membershipVars
  <2> SUFFICES ASSUME MembershipNext, NEW i \in Invitations, NEW p \in Persons,
                      ~HasAccount(p), InOrg(p)', invites[i] # NoOne,
                      served[p] # NoOne, served[p].invite = i
               PROVE  ~invites[i].revoked /\ ~invites[i].accepted
    BY <1>3
  <2>1. AcceptCommit(p)
    BY JoiningIsAccepting, <1>3 DEF InOrg
  <2>2. served[p].kind = "accept"
    BY <1>3, <2>1 DEF AcceptCommit, MembershipInv, ServedOK
  <2> QED
    BY <1>3, <2>2 DEF UsableWhileLocked
<1> QED
  BY <1>1, <1>2, <1>3, MembershipInvariance, PTL DEF MembershipSpec, RevocationIsFinal

-----------------------------------------------------------------------------
(* Nobody's account goes with somebody else's *)

\* Whoever was alone when asking to leave still is, unless somebody joined since.
AloneStill ==
    \A p \in Persons :
        served[p] # NoOne /\ served[p].kind = "leave" /\ served[p].alone
        => "joining" \in crossed \/ \A q \in Persons : InOrg(q) => q = p

\* What crossed is remembered.
LEMMA CrossedGrows ==
    ASSUME MembershipNext PROVE crossed \subseteq crossed'
<1>1. \A p \in Persons : \A request : Begin(p, request) => crossed \subseteq crossed'
  BY DEF Begin
<1>2. \A p \in Persons : AcceptCommit(p) => crossed \subseteq crossed'
  BY DEF AcceptCommit
<1>3. \A p \in Persons : InviteCommit(p) \/ RevokeInviteCommit(p) \/ LeaveCommit(p)
                         \/ (\E f \in Farms : DeleteFarm(p, f)) => crossed' = crossed
  BY DEF InviteCommit, RevokeInviteCommit, LeaveCommit, DeleteFarm
<1>4. ASSUME NEW p \in Persons,
             \/ LeaveRead(p)
             \/ \E email \in Persons, farm \in Farms \cup {NoOne}, until \in {1, Never} :
                   InviteRead(p, email, farm, until)
             \/ \E i \in Invitations : AcceptRead(p, i) \/ RevokeInviteRead(p, i)
      PROVE  \E request : Begin(p, request)
  BY <1>4, Zenon DEF LeaveRead, InviteRead, AcceptRead, RevokeInviteRead
<1> QED
  BY <1>1, <1>2, <1>3, <1>4, OtherRequests

LEMMA AloneStep ==
    ASSUME MembershipInv, AloneStill, MembershipNext
    PROVE  AloneStill'
<1>1. crossed \subseteq crossed'
  BY CrossedGrows
<1>2. ASSUME NEW p \in Persons, served'[p] # NoOne, served'[p].kind = "leave", served'[p].alone,
             served'[p] # served[p]
      PROVE  \A q \in Persons : InOrg(q)' => q = p
  <2>1. LeaveRead(p)
    <3>1. ASSUME NEW q \in Persons, Done(q) \/ UNCHANGED served PROVE FALSE
      BY <1>2, <3>1 DEF Done, MembershipInv
    <3>2. ASSUME NEW q \in Persons, NEW request, Begin(q, request), request.kind # "leave"
          PROVE  FALSE
      BY <1>2, <3>2 DEF Begin, MembershipInv
    <3>3. ASSUME NEW q \in Persons,
                 \/ InviteCommit(q) \/ AcceptCommit(q) \/ RevokeInviteCommit(q) \/ LeaveCommit(q)
                 \/ \E f \in Farms : DeleteFarm(q, f)
          PROVE  FALSE
      BY <3>1, <3>3 DEF InviteCommit, AcceptCommit, RevokeInviteCommit, LeaveCommit, DeleteFarm
    <3>4. ASSUME NEW q \in Persons, NEW email \in Persons, NEW farm \in Farms \cup {NoOne},
                 NEW until \in {1, Never}, InviteRead(q, email, farm, until)
          PROVE  FALSE
      BY <3>2, <3>4 DEF InviteRead
    <3>5. ASSUME NEW q \in Persons, NEW i \in Invitations,
                 AcceptRead(q, i) \/ RevokeInviteRead(q, i)
          PROVE  FALSE
      BY <3>2, <3>5 DEF AcceptRead, RevokeInviteRead
    <3>6. ASSUME UNCHANGED served PROVE FALSE
      BY <1>2, <3>6
    <3>7. ASSUME NEW q \in Persons, LeaveRead(q) PROVE q = p
      BY <1>2, <3>7 DEF LeaveRead, Begin, MembershipInv
    <3> QED
      BY <3>3, <3>4, <3>5, <3>6, <3>7, OtherRequests
  <2>2. served'[p].alone = ({q \in Persons : InOrg(q)} = {p}) /\ UNCHANGED member
    BY <2>1 DEF LeaveRead, Begin, MembershipInv
  <2> QED
    BY <1>2, <2>2 DEF InOrg, HasAccount
<1>3. ASSUME NEW p \in Persons, served'[p] # NoOne, served'[p].kind = "leave", served'[p].alone,
             served'[p] = served[p]
      PROVE  "joining" \in crossed' \/ \A q \in Persons : InOrg(q)' => q = p
  <2>1. ASSUME NEW q \in Persons, ~InOrg(q), InOrg(q)' PROVE "joining" \in crossed'
    <3>1. AcceptCommit(q) /\ ~UNCHANGED member
      BY <2>1, JoiningIsAccepting
    <3> QED
      BY <1>3, <3>1 DEF AcceptCommit
  <2> QED
    BY <1>1, <1>3, <2>1 DEF AloneStill
<1> QED
  BY <1>1, <1>2, <1>3 DEF AloneStill

\* An account of the organization goes by a request to delete one.
LEMMA OnlyLeavingEnds ==
    ASSUME MembershipInv, MembershipNext, NEW p \in Persons, InOrg(p), ~InOrg(p)'
    PROVE  \E q \in Persons : LeaveCommit(q)
<1>1. ASSUME NEW a \in Persons, \/ Register(a) \/ AdminUpdateUser(a)
                                \/ \E t \in Persons : RevokeMember(a, t)
                                \/ \E t \in Persons, c \in Changes : UpdateMember(a, t, c)
      PROVE  FALSE
  BY <1>1, AccountsChanged, MembersUpdated, MembersRevoked
<1>2. ASSUME NEW q \in Persons, AcceptCommit(q) PROVE FALSE
  <2>1. \/ member'[p] = member[p]
        \/ ~HasAccount(p)
    BY <1>2 DEF AcceptCommit, MembershipInv
  <2> QED
    BY <2>1 DEF InOrg, HasAccount
<1>3. ASSUME UNCHANGED member PROVE FALSE
  BY <1>3 DEF InOrg, HasAccount
<1>4. ASSUME NEW q \in Persons,
             \/ InviteCommit(q) \/ RevokeInviteCommit(q)
             \/ \E f \in Farms : DeleteFarm(q, f)
      PROVE  UNCHANGED member
  BY <1>4 DEF InviteCommit, RevokeInviteCommit, DeleteFarm
<1> QED
  BY <1>1, <1>2, <1>3, <1>4, OtherRequests

\* Nobody's account goes but by their own request to delete it: the tenant goes
\* with its last member, and with nobody else unless somebody joined meanwhile.
THEOREM OnlyOneself == MembershipSpec => NobodyElseLeaves
<1>1. MembershipInit => AloneStill
  BY DEF MembershipInit, AloneStill
<1>2. MembershipInv /\ AloneStill /\ [MembershipNext]_membershipVars => AloneStill'
  <2>1. CASE UNCHANGED membershipVars
    BY <2>1 DEF membershipVars, AloneStill, InOrg, HasAccount
  <2> QED
    BY <2>1, AloneStep
<1>3. ASSUME MembershipInv, AloneStill, [MembershipNext]_membershipVars
      PROVE  [\A p \in Persons : InOrg(p) /\ member'[p] = NoOne =>
                (served[p] # NoOne /\ served[p].kind = "leave")
                \/ "joining" \in crossed]_membershipVars
  <2> SUFFICES ASSUME MembershipNext, NEW p \in Persons, InOrg(p), member'[p] = NoOne,
                      "joining" \notin crossed
               PROVE  served[p] # NoOne /\ served[p].kind = "leave"
    BY <1>3
  <2>1. member[p] \in MemberRow
    BY <1>3 DEF MembershipInv, InOrg, HasAccount
  <2>2. ASSUME NEW q \in Persons, LeaveCommit(q)
        PROVE  served[p] # NoOne /\ served[p].kind = "leave"
    <3>1. CASE served[q].alone
      BY <1>3, <2>2, <3>1 DEF LeaveCommit, AloneStill
    <3>2. CASE ~served[q].alone
      <4>1. p \in {q}
        BY <2>1, <2>2, <3>2, NoOneIsNoMember DEF LeaveCommit, Cascade, NoOneIsNoMember
      <4> QED
        BY <2>2, <4>1 DEF LeaveCommit
    <3> QED
      BY <3>1, <3>2
  <2>3. ~InOrg(p)'
    BY DEF InOrg, HasAccount
  <2> QED
    BY <1>3, <2>2, <2>3, OnlyLeavingEnds
<1> QED
  BY <1>1, <1>2, <1>3, MembershipInvariance, PTL DEF MembershipSpec, NobodyElseLeaves

-----------------------------------------------------------------------------
(* An address has one invitation to use *)

\* No two invitations are asked for at once, and the one that is will revoke all
\* that are still to use when it is committed.
OneToUse ==
    /\ \A p \in Persons : \A i, j \in Unrevoked(p) : i = j
    /\ \A a, b \in Persons : /\ served[a] # NoOne /\ served[a].kind = "invite"
                             /\ served[b] # NoOne /\ served[b].kind = "invite"
                             => a = b
    /\ \A a \in Persons : served[a] # NoOne /\ served[a].kind = "invite"
                          => Unrevoked(served[a].email) \subseteq served[a].previous

\* Only a committed invitation is one more to use.
LEMMA UnrevokedShrinks ==
    ASSUME MembershipInv, MembershipNext, NEW p \in Persons, NEW i \in Unrevoked(p)',
           i \notin Unrevoked(p)
    PROVE  \E a \in Persons : InviteCommit(a) /\ served[a].email = p
                              /\ i = served[a].invite /\ Unrevoked(p)' \ {i} \subseteq
                                     Unrevoked(p) \ served[a].previous
<1>1. ~UNCHANGED invites
  BY DEF Unrevoked
<1>2. i \in Invitations /\ invites'[i] # NoOne /\ invites'[i].email = p
      /\ ~invites'[i].accepted /\ ~invites'[i].revoked
  BY DEF Unrevoked
<1>3. invites'[i] # invites[i]
  BY <1>2 DEF Unrevoked
<1>4. ASSUME NEW q \in Persons,
             LeaveCommit(q) \/ \E f \in Farms : DeleteFarm(q, f)
      PROVE  FALSE
  BY <1>2, <1>3, <1>4 DEF LeaveCommit, DeleteFarm, Cascade
<1>5. ASSUME NEW q \in Persons, RevokeInviteCommit(q) PROVE FALSE
  BY <1>2, <1>3, <1>5 DEF RevokeInviteCommit, Revoked, MembershipInv, InviteRow
<1>6. ASSUME NEW q \in Persons, AcceptCommit(q) PROVE FALSE
  BY <1>2, <1>3, <1>6 DEF AcceptCommit, MembershipInv, InviteRow
<1>7. ASSUME NEW a \in Persons, InviteCommit(a)
      PROVE  /\ served[a].email = p /\ i = served[a].invite
             /\ Unrevoked(p)' \ {i} \subseteq Unrevoked(p) \ served[a].previous
  <2> DEFINE kept == Revoked(invites, served[a].previous)
  <2>1. PICK role \in {"manager", "viewer"} :
          invites' = [kept EXCEPT ![served[a].invite] = NewInvite(a, served[a], role)]
    BY <1>1, <1>7 DEF InviteCommit
  <2>2. ASSUME NEW j \in Invitations
        PROVE  /\ kept[j] # NoOne /\ ~kept[j].revoked
                    => kept[j] = invites[j] /\ j \notin served[a].previous
               /\ j # served[a].invite => invites'[j] = kept[j]
    BY <2>1 DEF Revoked, MembershipInv, InviteRow
  <2>3. i = served[a].invite
    BY <1>2, <1>3, <2>2
  <2>4. served[a].email = p
    BY <1>2, <2>1, <2>3 DEF Revoked, NewInvite
  <2>5. Unrevoked(p)' \ {i} \subseteq Unrevoked(p) \ served[a].previous
    BY <2>2, <2>3 DEF Unrevoked
  <2> QED
    BY <2>3, <2>4, <2>5
<1> QED
  BY <1>1, <1>4, <1>5, <1>6, <1>7, OtherRequests

LEMMA OneStep ==
    ASSUME MembershipInv, MembershipNext, "invite" \notin crossed', OneToUse
    PROVE  OneToUse'
<1>1. ASSUME NEW p \in Persons, NEW i \in Unrevoked(p)', NEW j \in Unrevoked(p)'
      PROVE  i = j
  <2>1. CASE i \in Unrevoked(p) /\ j \in Unrevoked(p)
    BY <2>1 DEF OneToUse
  <2>2. ASSUME NEW k \in Unrevoked(p)', k \notin Unrevoked(p)
        PROVE  Unrevoked(p)' \subseteq {k}
    BY <2>2, UnrevokedShrinks DEF OneToUse, InviteCommit
  <2> QED
    BY <2>1, <2>2
<1>2. ASSUME NEW a \in Persons, served'[a] # NoOne, served'[a].kind = "invite",
             served'[a] # served[a]
      PROVE  /\ \A b \in Persons \ {a} : ~(served'[b] # NoOne /\ served'[b].kind = "invite")
             /\ (Unrevoked(served[a].email) \subseteq served[a].previous)'
  <2>1. ASSUME NEW q \in Persons, Done(q) \/ UNCHANGED served PROVE FALSE
    BY <1>2, <2>1 DEF Done, MembershipInv
  <2>2. ASSUME NEW q \in Persons, NEW request, Begin(q, request), request.kind # "invite"
        PROVE  FALSE
    BY <1>2, <2>2 DEF Begin, MembershipInv
  <2>3. ASSUME NEW q \in Persons,
               \/ InviteCommit(q) \/ AcceptCommit(q) \/ RevokeInviteCommit(q) \/ LeaveCommit(q)
               \/ \E f \in Farms : DeleteFarm(q, f)
        PROVE  FALSE
    BY <2>1, <2>3 DEF InviteCommit, AcceptCommit, RevokeInviteCommit, LeaveCommit, DeleteFarm
  <2>4. ASSUME NEW q \in Persons, NEW i \in Invitations,
               AcceptRead(q, i) \/ RevokeInviteRead(q, i)
        PROVE  FALSE
    BY <2>2, <2>4 DEF AcceptRead, RevokeInviteRead
  <2>5. ASSUME NEW q \in Persons, LeaveRead(q) PROVE FALSE
    BY <2>2, <2>5 DEF LeaveRead
  <2>6. ASSUME UNCHANGED served PROVE FALSE
    BY <1>2, <2>6
  <2>7. PICK q \in Persons, email \in Persons, farm \in Farms \cup {NoOne}, until \in {1, Never} :
           InviteRead(q, email, farm, until)
    BY <2>3, <2>4, <2>5, <2>6, OtherRequests
  <2> DEFINE request == [kind |-> "invite", invite |-> NewId, email |-> email, farm |-> farm,
                         until |-> until, previous |-> Unrevoked(email)]
  <2>8. Begin(q, request) /\ UNCHANGED invites
    BY <2>7 DEF InviteRead
  <2>9. request.kind = "invite" /\ request.email = email /\ request.previous = Unrevoked(email)
    OBVIOUS
  <2> HIDE DEF request
  <2>10. q = a /\ served'[a] = request /\ \A b \in Persons \ {a} : served'[b] = served[b]
    BY <1>2, <2>8 DEF Begin, MembershipInv
  <2>11. \A b \in Persons \ {a} : ~(served'[b] # NoOne /\ served'[b].kind = "invite")
    BY <2>8, <2>9, <2>10 DEF Begin
  <2>12. Unrevoked(email)' = Unrevoked(email)
    BY <2>8 DEF Unrevoked
  <2>13. (Unrevoked(served[a].email) \subseteq served[a].previous)'
    BY <2>8, <2>9, <2>10 DEF Unrevoked
  <2> QED
    BY <2>11, <2>13
<1>3. ASSUME NEW a \in Persons, served'[a] # NoOne, served'[a].kind = "invite",
             served'[a] = served[a]
      PROVE  (Unrevoked(served[a].email) \subseteq served[a].previous)'
  <2>1. PICK p \in Persons : p = served[a].email
    BY <1>3 DEF MembershipInv, ServedOK
  <2>2. Unrevoked(p) \subseteq served[a].previous
    BY <1>3, <2>1 DEF OneToUse
  <2>3. Unrevoked(p)' \subseteq Unrevoked(p)
    <3> SUFFICES ASSUME NEW i \in Unrevoked(p)', i \notin Unrevoked(p) PROVE FALSE
      OBVIOUS
    <3>1. PICK b \in Persons : InviteCommit(b)
      BY UnrevokedShrinks
    <3>2. b = a /\ served'[b] = NoOne
      BY <1>3, <3>1 DEF InviteCommit, Done, OneToUse, MembershipInv
    <3> QED
      BY <1>3, <3>2
  <2> QED
    BY <1>3, <2>1, <2>2, <2>3 DEF Unrevoked
<1> QED
  BY <1>1, <1>2, <1>3 DEF OneToUse

\* An address has at most one invitation to use, unless two were asked for at
\* once: the one committed revokes what was still to use when it was asked for,
\* and nothing in between adds to that.
THEOREM OneInvitation == MembershipSpec => []OneUsableInvitation
<1> DEFINE Inv == "invite" \notin crossed => OneToUse
<1>1. MembershipInit => Inv
  BY DEF MembershipInit, OneToUse, Unrevoked
<1>2. MembershipInv /\ Inv /\ [MembershipNext]_membershipVars => Inv'
  <2>1. CASE UNCHANGED membershipVars
    BY <2>1 DEF membershipVars, OneToUse, Unrevoked
  <2> QED
    BY <2>1, OneStep, CrossedGrows
<1>3. Inv => OneUsableInvitation
  <2> SUFFICES ASSUME OneToUse, NEW p \in Persons PROVE Cardinality(Unrevoked(p)) <= 1
    BY DEF OneUsableInvitation
  <2>1. CASE Unrevoked(p) = {}
    BY <2>1, FS_EmptySet
  <2>2. CASE Unrevoked(p) # {}
    <3>1. PICK i : i \in Unrevoked(p)
      BY <2>2
    <3>2. Unrevoked(p) = {i}
      BY <3>1 DEF OneToUse
    <3>3. Cardinality({i}) = 1
      BY FS_Singleton
    <3> QED
      BY <3>2, <3>3
  <2> QED
    BY <2>1, <2>2
<1> HIDE DEF Inv
<1> QED
  BY <1>1, <1>2, <1>3, MembershipInvariance, PTL DEF MembershipSpec
=============================================================================
