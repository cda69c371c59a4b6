------------------------ MODULE NotificationDelivery ------------------------
(***************************************************************************)
(* Delivery of the built-in alerts (backend/workers/                       *)
(* notification_pipeline.py) and the push registrations it sends to        *)
(* (app/notifications).  A cycle is one transaction; what it has handed to *)
(* a push service or to the mail is out of its reach.                      *)
(*                                                                         *)
(* The cycles that create alerts are the environment here: each adds one   *)
(* notification per alert, pending or suppressed.                          *)
(***************************************************************************)
EXTENDS Naturals, FiniteSets

CONSTANTS
    Notifs, Users, Devices,
    TenantOf,      \* [Users -> tenant]; a sign-up makes a tenant of its own
    WebDevices,    \* browsers; the others are phones, reached through Expo
    WebConfigured, \* are the VAPID keys set?
    MaxTries,      \* _MAX_DELIVERY_ATTEMPTS
    RetryUnit,     \* 120 s, in ticks
    Mail,          \* the account's e-mail address, as a destination
    Gone, Unborn,  \* no row any more, or no account; no row yet
    MaxMinute, MaxAborts, MaxMoves   \* bounds: clock, cycles lost to a fault, registrations

ASSUME NotificationConstants ==
    /\ MaxTries \in Nat \ {0} /\ RetryUnit \in Nat \ {0}
    /\ MaxMinute \in Nat /\ MaxAborts \in Nat /\ MaxMoves \in Nat /\ WebConfigured \in BOOLEAN
    /\ WebDevices \subseteq Devices /\ Mail \notin Devices
    /\ Gone \notin Users /\ Gone # Unborn /\ DOMAIN TenantOf = Users

VARIABLES
    minute,     \* the wall clock
    aborts,     \* faults left
    accounts,   \* users that exist
    notifs,     \* [Notifs -> row, or Gone]; Unborn before its alert
    owner,      \* push_subscriptions: [Devices -> the user, or Gone]
    holder,     \* [Devices -> who was signed in when the device last registered]
    told,       \* <<notification, user>>: into whose hands it came
    moves,      \* registrations left
    run         \* the delivery cycle

notifVars == <<minute, aborts, accounts, notifs, owner, holder, told, moves, run>>

Minutes == 0 .. MaxMinute
NotifRow == [user : Users, status : {"pending", "suppressed", "sent", "failed"},
             attempts : 0 .. MaxTries, due : Nat]

ASSUME NoSuchRow == Gone \notin NotifRow /\ Unborn \notin NotifRow

IdleRun == [pc |-> "idle", todo |-> {}, note |-> Gone, subs |-> {},
            held |-> [d \in Devices |-> Gone],
            result |-> [n \in Notifs |-> Gone], dirty |-> {}, dead |-> {}, fresh |-> {}]

HasRow(n) == notifs[n] \notin {Gone, Unborn}

-----------------------------------------------------------------------------
(* The delivery cycle *)

\* 120 * (1 << (attempts - 1)) seconds.
RetryAfter(attempts) == RetryUnit * 2 ^ (attempts - 1)

ASSUME RetryAfterIsNat == \A attempts \in 1 .. MaxTries : RetryAfter(attempts) \in Nat

\* The last tick stands for any later time.
DueNow(n) == HasRow(n) /\ notifs[n].status = "pending"
             /\ (notifs[n].due <= minute \/ minute = MaxMinute)

StartDelivery ==
    /\ run.pc = "idle"
    /\ \E n \in Notifs : DueNow(n)
    /\ run' = [IdleRun EXCEPT !.pc = "next", !.todo = {n \in Notifs : DueNow(n)}]
    /\ UNCHANGED <<minute, aborts, accounts, notifs, owner, holder, told, moves>>

\* An UPDATE of a row that has gone raises StaleDataError, which loses the cycle.
RunFlushable == \A n \in run.dirty : HasRow(n)

\* The next notification's alert, registrations and user; the query flushes the
\* rows before it.
LoadNext(n) ==
    /\ run.pc = "next" /\ n \in run.todo
    /\ run' = IF RunFlushable /\ HasRow(n)
              THEN [run EXCEPT !.pc = "send", !.note = n, !.todo = @ \ {n},
                               !.dirty = {}, !.fresh = {},
                               !.held = holder,
                               !.subs = {d \in Devices \ run.dead : owner[d] = notifs[n].user}]
              ELSE IdleRun
    /\ UNCHANGED <<minute, aborts, accounts, notifs, owner, holder, told, moves>>

Reachable == IF WebConfigured THEN run.subs ELSE run.subs \ WebDevices

\* A device is told under the registration that was read, whoever holds it by now.
Accept(ok) == told' = told \cup
    {<<run.note, IF d = Mail THEN notifs[run.note].user ELSE run.held[d]>> : d \in ok}

\* Mutants: no registration to try counts as sent; failures are not counted.
Settle_NoDevicesIsSent(row, ok, subs) ==
    IF ok # {} \/ subs = {} THEN [row EXCEPT !.status = "sent"]
    ELSE IF row.attempts + 1 >= MaxTries
         THEN [row EXCEPT !.attempts = @ + 1, !.status = "failed"]
         ELSE [row EXCEPT !.attempts = @ + 1, !.due = minute + RetryAfter(row.attempts + 1)]
Settle_KeepsCount(row, ok, subs) ==
    IF ok # {} THEN [row EXCEPT !.status = "sent"]
    ELSE [row EXCEPT !.due = minute + RetryAfter(1)]

\* SENT when anyone took it; else retried with backoff, or failed for good.
Settle(row, ok, subs) ==
    IF ok # {} THEN [row EXCEPT !.status = "sent"]
    ELSE IF row.attempts + 1 >= MaxTries
         THEN [row EXCEPT !.attempts = @ + 1, !.status = "failed"]
         ELSE [row EXCEPT !.attempts = @ + 1, !.due = minute + RetryAfter(row.attempts + 1)]

\* Every registration and the e-mail are tried, whatever became of the others;
\* a registration its service no longer knows is deleted.
Deliver ==
    /\ run.pc = "send"
    /\ HasRow(run.note)
    /\ \E ok \in SUBSET (Reachable \cup {Mail}) :
         \E dead \in SUBSET (Reachable \ ok) :
           /\ Accept(ok)
           /\ run' = [run EXCEPT !.pc = "next", !.note = Gone, !.subs = {},
                        !.held = IdleRun.held, !.dirty = {run.note},
                        !.result[run.note] = Settle(notifs[run.note], ok, run.subs),
                        !.dead = @ \cup dead, !.fresh = dead]
    /\ UNCHANGED <<minute, aborts, accounts, notifs, owner, holder, moves>>

\* Its user and its alert were deleted after they were read: sent nevertheless,
\* and the flush fails.
DeliverToDeleted ==
    /\ run.pc = "send" /\ ~HasRow(run.note)
    /\ run' = IdleRun
    /\ UNCHANGED <<minute, aborts, accounts, notifs, owner, holder, told, moves>>

\* A push service that cannot be connected to (requests' exceptions are not
\* caught), a crash or the time limit: what was sent stays sent.
Aborted ==
    /\ run.pc # "idle" /\ aborts > 0
    /\ aborts' = aborts - 1
    /\ IF run.pc = "send" /\ HasRow(run.note)
       THEN \E ok \in SUBSET (Reachable \cup {Mail}) : Accept(ok)
       ELSE UNCHANGED told
    /\ run' = IdleRun
    /\ UNCHANGED <<minute, accounts, notifs, owner, holder, moves>>

\* One commit for the whole cycle.
CommitDelivery ==
    /\ run.pc = "next" /\ run.todo = {}
    /\ IF RunFlushable
       THEN /\ notifs' = [n \in Notifs |-> IF run.result[n] # Gone /\ HasRow(n)
                                           THEN run.result[n] ELSE notifs[n]]
            /\ owner' = [d \in Devices |-> IF d \in run.dead THEN Gone ELSE owner[d]]
       ELSE UNCHANGED <<notifs, owner>>
    /\ run' = IdleRun
    /\ UNCHANGED <<minute, aborts, accounts, holder, told, moves>>

-----------------------------------------------------------------------------
(* The rest of the program *)

\* An alert for a user, and its notification in the same transaction.
RaiseAlert(u, status) ==
    /\ u \in accounts /\ \E n \in Notifs : notifs[n] = Unborn
    /\ notifs' = [notifs EXCEPT ![CHOOSE n \in Notifs : notifs[n] = Unborn] =
                    [user |-> u, status |-> status, attempts |-> 0, due |-> 0]]
    /\ UNCHANGED <<minute, aborts, accounts, owner, holder, told, moves, run>>

\* What the cycle has written and not committed is locked.
LockedNotifs == {n \in Notifs : run.result[n] # Gone} \ run.dirty
LockedDevices == run.dead \ run.fresh

\* Row-level security: a request sees the registrations of its own tenant.
Visible(d, u) == owner[d] # Gone /\ TenantOf[owner[d]] = TenantOf[u]

\* Mutant: a registration that is there stays with its account.
UpsertSubscription_KeepsUser(d, u) ==
    /\ u \in accounts /\ owner[d] # u /\ d \notin LockedDevices
    /\ owner' = [owner EXCEPT ![d] = IF @ = Gone THEN u ELSE @]
    /\ holder' = [holder EXCEPT ![d] = u]
    /\ moves > 0 /\ moves' = moves - 1
    /\ UNCHANGED <<minute, aborts, accounts, notifs, told, run>>

\* upsert_subscription, upsert_expo_token: a registration that is found moves to
\* this account.  One of another tenant is not found, and the INSERT breaks the
\* unique key: it stays where it was.
UpsertSubscription(d, u) ==
    /\ u \in accounts /\ owner[d] # u /\ d \notin LockedDevices
    /\ owner' = [owner EXCEPT ![d] = IF @ = Gone \/ Visible(d, u) THEN u ELSE @]
    /\ holder' = [holder EXCEPT ![d] = u]
    /\ moves > 0 /\ moves' = moves - 1
    /\ UNCHANGED <<minute, aborts, accounts, notifs, told, run>>

\* delete_subscription, delete_expo_token: only the account's own.
DeleteSubscription(d, u) ==
    /\ u \in accounts /\ owner[d] = u /\ d \notin LockedDevices
    /\ owner' = [owner EXCEPT ![d] = Gone]
    /\ UNCHANGED <<minute, aborts, accounts, notifs, holder, told, moves, run>>

\* The user is deleted, and with it all that is theirs.
DeleteUser(u) ==
    /\ u \in accounts
    /\ \A n \in LockedNotifs : HasRow(n) => notifs[n].user # u
    /\ \A d \in LockedDevices : owner[d] # u
    /\ accounts' = accounts \ {u}
    /\ notifs' = [n \in Notifs |-> IF HasRow(n) /\ notifs[n].user = u THEN Gone ELSE notifs[n]]
    /\ owner' = [d \in Devices |-> IF owner[d] = u THEN Gone ELSE owner[d]]
    /\ UNCHANGED <<minute, aborts, holder, told, moves, run>>

MinutePasses ==
    /\ minute < MaxMinute /\ minute' = minute + 1
    /\ UNCHANGED <<aborts, accounts, notifs, owner, holder, told, moves, run>>

-----------------------------------------------------------------------------
NotifInit ==
    /\ minute = 0 /\ aborts = MaxAborts /\ accounts = Users
    /\ notifs = [n \in Notifs |-> Unborn]
    /\ owner = [d \in Devices |-> Gone] /\ holder = [d \in Devices |-> Gone]
    /\ told = {} /\ moves = MaxMoves /\ run = IdleRun

NotifCycle == \/ StartDelivery
              \/ \E n \in Notifs : LoadNext(n)
              \/ Deliver \/ DeliverToDeleted
              \/ CommitDelivery

NotifNext ==
    \/ NotifCycle \/ Aborted
    \/ \E u \in Users, status \in {"pending", "suppressed"} : RaiseAlert(u, status)
    \/ \E d \in Devices, u \in Users : UpsertSubscription(d, u) \/ DeleteSubscription(d, u)
    \/ \E u \in Users : DeleteUser(u)
    \/ MinutePasses

\* beat starts a cycle every minute, and a cycle that runs goes on.
NotifFairness == WF_notifVars(NotifCycle) /\ WF_notifVars(MinutePasses)

NotifSpec == NotifInit /\ [][NotifNext]_notifVars /\ NotifFairness

-----------------------------------------------------------------------------
(* Properties *)

\* The columns' types; rows go with their user.
NotifTypeOK ==
    /\ minute \in Minutes /\ aborts \in 0 .. MaxAborts
    /\ notifs \in [Notifs -> NotifRow \cup {Gone, Unborn}]
    /\ \A n \in Notifs : HasRow(n) => notifs[n].user \in accounts
    /\ owner \in [Devices -> accounts \cup {Gone}]
    /\ run.todo \subseteq Notifs /\ run.subs \subseteq Devices

\* What is recorded is what happened: a notification is sent only if some device
\* or the mail took it, and given up only after MaxTries refusals; one that is
\* suppressed has told nobody.
NoticeOutcomeIsTrue ==
    \A n \in Notifs : HasRow(n) =>
        /\ notifs[n].status = "sent" => \E x \in told : x[1] = n
        /\ notifs[n].status = "failed" <=> notifs[n].attempts = MaxTries
        /\ notifs[n].status = "suppressed" => ~\E x \in told : x[1] = n

\* The notifications as an Outbox (Outbox.tla): the hands are those of the users.
NoticeOutcome == [pending |-> "waiting", suppressed |-> "withheld",
                  sent |-> "taken", failed |-> "refused"]

NoticeStage == [n \in Notifs |-> IF HasRow(n) THEN NoticeOutcome[notifs[n].status]
                                 ELSE IF notifs[n] = Gone THEN "gone" ELSE "absent"]
ToldOf == [n \in Notifs |-> {u \in Users \cup {Gone} : <<n, u>> \in told}]
NoticeRefusals == [n \in Notifs |-> IF HasRow(n) THEN notifs[n].attempts ELSE 0]

NoticeOutbox == INSTANCE Outbox WITH
    Messages <- Notifs, Hands <- Users \cup {Gone}, MaxTries <- MaxTries,
    state <- NoticeStage, handed <- ToldOf, tries <- NoticeRefusals

\* Whatever a cycle aborts in, whoever is deleted under it and whichever devices
\* move: a notification reaches somebody only while it is pending, a suppressed one
\* never, and what is recorded of it, once, is what has happened to it.
NoticesKeepOutbox == NoticeOutbox!Spec

\* A device is told only what is for the account that last registered it, as far
\* as the accounts are of one tenant.
OnlyHoldersAreTold ==
    \A x \in told : HasRow(x[1]) /\ TenantOf[x[2]] = TenantOf[notifs[x[1]].user]
                     => x[2] = notifs[x[1]].user

\* `Register (or re-associate) a mobile device's Expo push token': a device is
\* registered for the account that registered it last, or for none.
DeviceFollowsItsHolder ==
    \A d \in Devices : owner[d] \in {holder[d], Gone}

\* However the services behave, the queue empties: no notification stays pending
\* for good, unless cycles are aborted without end.
NoticesSettle == []<>(\A n \in Notifs : HasRow(n) => notifs[n].status # "pending")
=============================================================================
