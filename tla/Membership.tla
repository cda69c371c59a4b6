----------------------------- MODULE Membership -----------------------------
(***************************************************************************)
(* One organization (app/organizations, with app/users/service.py and the  *)
(* sign-up of app/auth/service.py): its members, their grants on single    *)
(* farms, and the invitations that make accounts.                          *)
(*                                                                         *)
(* A request that decides on what it has read, and commits later, is two   *)
(* steps.  An e-mail address is a person: an account's is unique.          *)
(***************************************************************************)
EXTENDS Naturals, FiniteSets

CONSTANTS
    Persons, Founder, Invitations, Farms,
    Parent,      \* the farm a plot is in, or NoOne
    Changes,     \* PATCH bodies a manager may send
    NoOne,       \* no row, SQL NULL, a field that is not given
    Never,       \* no end of access
    MaxDay, MaxRequested   \* bounds: clock, requests

Days == 0 .. MaxDay
MemberRoles == {"owner", "manager", "viewer"}

\* A PATCH body names a role other than owner, or none (MemberUpdateIn.has_change).
ChangeRow == [role : {"manager", "viewer", NoOne}, wide : BOOLEAN \cup {NoOne},
              farms : (SUBSET Farms) \cup {NoOne}, until : Days \cup {Never, NoOne}]

ASSUME MembershipConstants ==
    /\ Founder \in Persons /\ NoOne \notin Persons
    /\ MaxDay \in Nat \ {0} /\ MaxRequested \in Nat
    /\ Parent \in [Farms -> Farms \cup {NoOne}]
    /\ Changes \subseteq ChangeRow

VARIABLES
    today, requested,
    tenant,      \* does the organization exist?
    member,      \* users: [Persons -> row, or NoOne]
    farms,       \* locations that exist
    grants,      \* location_access_grants
    invites,     \* organization_invitations: [Invitations -> row, or NoOne]
    served,      \* [Persons -> the request of theirs being served, or NoOne]
    crossed      \* history: kinds of requests that were served at once

membershipVars == <<today, requested, tenant, member, farms, grants, invites, served, crossed>>

\* `org' tells the organization's users from those with a tenant of their own.
MemberRow == [org : BOOLEAN, role : MemberRoles, active : BOOLEAN, wide : BOOLEAN,
              until : Days \cup {Never}]
GrantRow == [to : Persons, farm : Farms, by : Persons, until : Days \cup {Never}, revoked : BOOLEAN]
InviteRow == [email : Persons, role : {"manager", "viewer"}, farm : Farms \cup {NoOne},
              expires : Days, until : Days \cup {Never}, by : Persons,
              accepted : BOOLEAN, revoked : BOOLEAN]

ASSUME NoOneIsNoMember == NoOne \notin MemberRow

HasAccount(p) == member[p] # NoOne
InOrg(p) == HasAccount(p) /\ member[p].org
Later(until) == until # Never => until > today

-----------------------------------------------------------------------------
(* Permissions *)

\* get_current_user: the account exists, is active, and has not run out.
Authenticated(p) == HasAccount(p) /\ member[p].active /\ Later(member[p].until)

can_manage_members(p) == member[p].role \in {"owner", "manager"}

\* A grant on a farm reaches its plots.
can_access_location(p, f) ==
    /\ f \in farms /\ InOrg(p) /\ Later(member[p].until)
    /\ \/ member[p].wide
       \/ \E g \in grants : /\ g.to = p /\ g.farm \in {f, Parent[f]}
                            /\ ~g.revoked /\ Later(g.until)

Manager(a) == InOrg(a) /\ Authenticated(a) /\ can_manage_members(a)

\* Mutant: a used or revoked invitation works again.
invitation_usable_UntilExpiry(i) == invites[i] # NoOne /\ invites[i].expires > today
invitation_usable(i) == /\ invites[i] # NoOne
                        /\ ~invites[i].accepted /\ ~invites[i].revoked
                        /\ invites[i].expires > today

-----------------------------------------------------------------------------
(* Requests in two steps *)

Asks(p) == requested > 0 /\ requested' = requested - 1 /\ served[p] = NoOne
Begin(p, request) ==
    /\ served' = [served EXCEPT ![p] = request]
    /\ crossed' = IF \E q \in Persons \ {p} : served[q] # NoOne /\ served[q].kind = request.kind
                  THEN crossed \cup {request.kind} ELSE crossed
Done(p) == served' = [served EXCEPT ![p] = NoOne]

\* SELECT ... FOR UPDATE: nobody else writes or locks the row.
LockedInvite(i) == \E p \in Persons : served[p] # NoOne /\ served[p].kind = "accept"
                                      /\ served[p].invite = i

Unrevoked(p) == {i \in Invitations : invites[i] # NoOne /\ invites[i].email = p
                                     /\ ~invites[i].accepted /\ ~invites[i].revoked}

UnusedIds == {i \in Invitations : /\ invites[i] = NoOne
                                  /\ \A p \in Persons : served[p] # NoOne => served[p].invite # i}
NewId == CHOOSE i \in UnusedIds : TRUE

\* create_invitation: earlier invitations of the address are looked up ...
InviteRead(a, p, farm, until) ==
    /\ Asks(a) /\ Manager(a) /\ ~InOrg(p)
    /\ UnusedIds # {}
    /\ IF farm = NoOne THEN member[a].wide ELSE can_access_location(a, farm)
    /\ Begin(a, [kind |-> "invite", invite |-> NewId, email |-> p, farm |-> farm, until |-> until,
                 previous |-> Unrevoked(p)])
    /\ UNCHANGED <<today, tenant, member, farms, grants, invites>>

NewInvite(a, r, role) == [email |-> r.email, role |-> role, farm |-> r.farm,
                          expires |-> MaxDay, until |-> r.until, by |-> a,
                          accepted |-> FALSE, revoked |-> FALSE]

Revoked(is, set) == [i \in Invitations |-> IF i \in set /\ is[i] # NoOne
                                           THEN [is[i] EXCEPT !.revoked = TRUE] ELSE is[i]]

\* Mutant: the earlier ones are left usable.
InviteCommit_KeepsEarlier(a) ==
    /\ served[a] # NoOne /\ served[a].kind = "invite"
    /\ \E role \in {"manager", "viewer"} :
         invites' = IF InOrg(a)
                    THEN [invites EXCEPT ![served[a].invite] = NewInvite(a, served[a], role)]
                    ELSE invites
    /\ Done(a)
    /\ UNCHANGED <<today, requested, tenant, member, farms, grants, crossed>>

\* ... and revoked with the INSERT, which fails when its author, its farm or one
\* of them has gone.
InviteCommit(a) ==
    /\ served[a] # NoOne /\ served[a].kind = "invite"
    /\ \A i \in served[a].previous : ~LockedInvite(i)
    /\ \E role \in {"manager", "viewer"} :
         invites' = IF /\ InOrg(a) /\ served[a].farm \in farms \cup {NoOne}
                       /\ \A i \in served[a].previous : invites[i] # NoOne
                    THEN [Revoked(invites, served[a].previous)
                          EXCEPT ![served[a].invite] = NewInvite(a, served[a], role)]
                    ELSE invites
    /\ Done(a)
    /\ UNCHANGED <<today, requested, tenant, member, farms, grants, crossed>>

\* Mutant: the row is read without FOR UPDATE.
AcceptRead_NoLock(p, i) ==
    /\ Asks(p) /\ invites[i] # NoOne /\ invites[i].email = p
    /\ invitation_usable(i) /\ ~HasAccount(p)
    /\ Begin(p, [kind |-> "unlocked", invite |-> i])
    /\ UNCHANGED <<today, tenant, member, farms, grants, invites>>

\* accept_invitation locks the invitation before it looks at it.
AcceptRead(p, i) ==
    /\ Asks(p) /\ invites[i] # NoOne /\ invites[i].email = p /\ ~LockedInvite(i)
    /\ invitation_usable(i) /\ ~HasAccount(p)
    /\ Begin(p, [kind |-> "accept", invite |-> i])
    /\ UNCHANGED <<today, tenant, member, farms, grants, invites>>

\* The account, its grant and the invitation's end; the address must be free.
AcceptCommit(p) ==
    /\ served[p] # NoOne /\ served[p].kind \in {"accept", "unlocked"}
    /\ LET i == served[p].invite IN
         IF HasAccount(p) \/ invites[i] = NoOne THEN UNCHANGED <<member, grants, invites, crossed>>
         ELSE /\ member' = [member EXCEPT ![p] =
                   [org |-> TRUE, role |-> invites[i].role, active |-> TRUE,
                    wide |-> invites[i].farm = NoOne, until |-> invites[i].until]]
              /\ grants' = grants \cup
                   (IF invites[i].farm = NoOne THEN {}
                    ELSE {[to |-> p, farm |-> invites[i].farm, by |-> invites[i].by,
                           until |-> invites[i].until, revoked |-> FALSE]})
              /\ invites' = [invites EXCEPT ![i].accepted = TRUE]
              /\ crossed' = IF \E q \in Persons : served[q] # NoOne /\ served[q].kind = "leave"
                            THEN crossed \cup {"joining"} ELSE crossed
    /\ Done(p)
    /\ UNCHANGED <<today, requested, tenant, farms>>

\* revoke_invitation: an accepted one is refused, but the row is not locked, so
\* one may end up accepted and then revoked.
RevokeInviteRead(a, i) ==
    /\ Asks(a) /\ Manager(a) /\ invites[i] # NoOne /\ ~invites[i].accepted
    /\ Begin(a, [kind |-> "revoke", invite |-> i])
    /\ UNCHANGED <<today, tenant, member, farms, grants, invites>>

RevokeInviteCommit(a) ==
    /\ served[a] # NoOne /\ served[a].kind = "revoke" /\ ~LockedInvite(served[a].invite)
    /\ invites' = IF InOrg(a) THEN Revoked(invites, {served[a].invite}) ELSE invites
    /\ Done(a)
    /\ UNCHANGED <<today, requested, tenant, member, farms, grants, crossed>>

\* delete_own_account: the others are counted ...
LeaveRead(p) ==
    /\ Asks(p) /\ InOrg(p) /\ Authenticated(p)
    /\ Begin(p, [kind |-> "leave", invite |-> NoOne,
                 alone |-> {q \in Persons : InOrg(q)} = {p}])
    /\ UNCHANGED <<today, tenant, member, farms, grants, invites>>

\* Mutant: the invitations they made stay.
Cascade_KeepsInvites(gone) ==
    LET left == IF Founder \in gone THEN {} ELSE farms IN
    /\ member' = [q \in Persons |-> IF q \in gone THEN NoOne ELSE member[q]]
    /\ farms' = left
    /\ grants' = {g \in grants : g.to \notin gone /\ g.by \notin gone /\ g.farm \in left}
    /\ UNCHANGED invites

\* What goes with a set of users: the farms they created (and their plots), the
\* grants to them, by them or on those farms, and the invitations likewise.  The
\* founder created every farm.
Cascade(gone) ==
    LET left == IF Founder \in gone THEN {} ELSE farms IN
    /\ member' = [q \in Persons |-> IF q \in gone THEN NoOne ELSE member[q]]
    /\ farms' = left
    /\ grants' = {g \in grants : g.to \notin gone /\ g.by \notin gone /\ g.farm \in left}
    /\ invites' = [i \in Invitations |->
            IF /\ invites[i] # NoOne
               /\ invites[i].by \in gone \/ invites[i].farm \notin left \cup {NoOne}
            THEN NoOne ELSE invites[i]]

\* Mutant: the tenant is deleted whoever is left.
LeaveCommit_TakesTenant(p) ==
    /\ served[p] # NoOne /\ served[p].kind = "leave"
    /\ Cascade({q \in Persons : InOrg(q)}) /\ tenant' = FALSE
    /\ Done(p)
    /\ UNCHANGED <<today, requested, crossed>>

\* ... and the last one takes the tenant along, with whoever is in it by then.
LeaveCommit(p) ==
    /\ served[p] # NoOne /\ served[p].kind = "leave"
    /\ \A i \in Invitations : ~LockedInvite(i)
    /\ IF served[p].alone
       THEN Cascade({q \in Persons : InOrg(q)}) /\ tenant' = FALSE
       ELSE Cascade({p}) /\ UNCHANGED tenant
    /\ Done(p)
    /\ UNCHANGED <<today, requested, crossed>>

-----------------------------------------------------------------------------
(* Requests in one step *)

\* register_user, and authenticate_google for an address it does not know.
Register(p) ==
    /\ Asks(p) /\ ~HasAccount(p)
    /\ member' = [member EXCEPT ![p] = [org |-> FALSE, role |-> "owner", active |-> TRUE,
                                        wide |-> TRUE, until |-> Never]]
    /\ UNCHANGED <<today, tenant, farms, grants, invites, served, crossed>>

Given(value, old) == IF value = NoOne THEN old ELSE value

\* update_member: role, reach and end of access; a list of farms replaces the
\* member's grants, and ends them when the access ends.
UpdateMember(a, t, c) ==
    /\ Asks(a) /\ Manager(a) /\ InOrg(t)
    /\ member[t].role # "owner" /\ t # a
    /\ c.wide = TRUE => member[a].wide
    /\ c.farms # NoOne => \A f \in c.farms : can_access_location(a, f)
    /\ LET until == Given(c.until, member[t].until)
           kept == {g \in grants : g.to # t}
       IN /\ member' = [member EXCEPT ![t].role = Given(c.role, @), ![t].until = until,
                          ![t].wide = IF c.farms # NoOne THEN FALSE ELSE Given(c.wide, @)]
          /\ grants' = IF c.farms # NoOne
                       THEN kept \cup {[to |-> t, farm |-> f, by |-> a, until |-> until,
                                        revoked |-> FALSE] : f \in c.farms}
                       ELSE IF c.wide = TRUE THEN kept ELSE grants
    /\ UNCHANGED <<today, tenant, farms, invites, served, crossed>>

RevokeMember(a, t) ==
    /\ Asks(a) /\ Manager(a) /\ InOrg(t)
    /\ member[t].role # "owner" /\ t # a
    /\ member' = [member EXCEPT ![t].active = FALSE]
    /\ grants' = {IF g.to = t THEN [g EXCEPT !.revoked = TRUE] ELSE g : g \in grants}
    /\ UNCHANGED <<today, tenant, farms, invites, served, crossed>>

\* The platform's administrator (admin update_user) switches accounts on and off.
AdminUpdateUser(t) ==
    /\ requested > 0 /\ requested' = requested - 1 /\ HasAccount(t)
    /\ member' = [member EXCEPT ![t].active = ~@]
    /\ UNCHANGED <<today, tenant, farms, grants, invites, served, crossed>>

\* A farm goes with its plots, grants and invitations.
DeleteFarm(p, f) ==
    /\ Asks(p) /\ Authenticated(p) /\ can_access_location(p, f)
    /\ \A i \in Invitations : LockedInvite(i) =>
         invites[i].farm \notin {f} \cup {g \in Farms : Parent[g] = f}
    /\ farms' = {g \in farms : g # f /\ Parent[g] # f}
    /\ grants' = {g \in grants : g.farm \in farms'}
    /\ invites' = [i \in Invitations |->
            IF invites[i] # NoOne /\ invites[i].farm \notin farms' \cup {NoOne}
            THEN NoOne ELSE invites[i]]
    /\ UNCHANGED <<today, tenant, member, served, crossed>>

DayPasses == /\ today < MaxDay /\ today' = today + 1
             /\ UNCHANGED <<requested, tenant, member, farms, grants, invites, served, crossed>>

-----------------------------------------------------------------------------
MembershipInit ==
    /\ today = 0 /\ requested = MaxRequested /\ tenant = TRUE
    /\ member = [p \in Persons |-> IF p = Founder
                    THEN [org |-> TRUE, role |-> "owner", active |-> TRUE, wide |-> TRUE,
                          until |-> Never]
                    ELSE NoOne]
    /\ farms = Farms /\ grants = {} /\ invites = [i \in Invitations |-> NoOne]
    /\ served = [p \in Persons |-> NoOne] /\ crossed = {}

MembershipNext ==
    \/ \E a, p \in Persons, farm \in Farms \cup {NoOne}, until \in {1, Never} :
         InviteRead(a, p, farm, until)
    \/ \E p \in Persons, i \in Invitations : AcceptRead(p, i) \/ RevokeInviteRead(p, i)
    \/ \E p \in Persons : \/ InviteCommit(p) \/ AcceptCommit(p) \/ RevokeInviteCommit(p)
                          \/ LeaveRead(p) \/ LeaveCommit(p) \/ Register(p) \/ AdminUpdateUser(p)
    \/ \E a, t \in Persons : RevokeMember(a, t) \/ \E c \in Changes : UpdateMember(a, t, c)
    \/ \E p \in Persons, f \in Farms : DeleteFarm(p, f)
    \/ DayPasses

MembershipSpec == MembershipInit /\ [][MembershipNext]_membershipVars

-----------------------------------------------------------------------------
(* Properties *)

\* The columns' types; grants and invitations refer to rows that exist.
MembershipTypeOK ==
    /\ today \in Days
    /\ \A p \in Persons : HasAccount(p) => member[p] \in MemberRow /\ (InOrg(p) => tenant)
    /\ grants \subseteq GrantRow
    /\ \A g \in grants : g.farm \in farms /\ InOrg(g.to) /\ InOrg(g.by)
    /\ \A i \in Invitations : invites[i] # NoOne =>
         /\ invites[i] \in InviteRow /\ InOrg(invites[i].by)
         /\ invites[i].farm \in farms \cup {NoOne}

\* Of an invitation that is both accepted and revoked, the acceptance came first:
\* once a revocation is committed, nobody joins by it, nor twice by any.
RevocationIsFinal ==
    [][\A i \in Invitations : \A p \in Persons :
         /\ ~HasAccount(p) /\ InOrg(p)' /\ invites[i] # NoOne
         /\ served[p] # NoOne /\ served[p].invite = i
         => ~invites[i].revoked /\ ~invites[i].accepted]_membershipVars

\* An address has one invitation to use, unless two were made for it at once.
OneUsableInvitation ==
    "invite" \notin crossed => \A p \in Persons : Cardinality(Unrevoked(p)) <= 1

\* An account goes only by its own deletion (`deleting it would take other users'
\* data down too'), unless it was made while the last member's was being deleted.
NobodyElseLeaves ==
    [][\A p \in Persons : InOrg(p) /\ member'[p] = NoOne =>
         (served[p] # NoOne /\ served[p].kind = "leave") \/ "joining" \in crossed]_membershipVars
=============================================================================
