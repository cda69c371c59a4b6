---------------------------- MODULE WarningProofs ----------------------------
(***************************************************************************)
(* Proofs about NotificationDelivery and SatelliteWatches, for every value *)
(* of the constants: what is recorded of a notification is what happened   *)
(* to it, the notifications implement Outbox, and a device is told only    *)
(* what is for the account that last registered it, as far as the accounts *)
(* are of one tenant; the active watches are the systems of the newest     *)
(* image, whatever order systems and images come in, and who is told of a  *)
(* watch is told when it has gone.                                         *)
(***************************************************************************)
EXTENDS NotificationDelivery, SatelliteWatches, FiniteSetTheorems, WellFoundedInduction, TLAPS

(* Notifications *)

RunRow == [pc : {"idle", "next", "send"}, todo : SUBSET Notifs, note : Notifs \cup {Gone},
           subs : SUBSET Devices, held : [Devices -> Users \cup {Gone}],
           result : [Notifs -> NotifRow \cup {Gone}], dirty : SUBSET Notifs,
           dead : SUBSET Devices, fresh : SUBSET Devices]

Types ==
    /\ minute \in Minutes /\ aborts \in 0 .. MaxAborts /\ accounts \subseteq Users
    /\ notifs \in [Notifs -> NotifRow \cup {Gone, Unborn}]
    /\ \A n \in Notifs : HasRow(n) => notifs[n].user \in accounts
    /\ owner \in [Devices -> accounts \cup {Gone}]
    /\ holder \in [Devices -> Users \cup {Gone}]
    /\ told \subseteq Notifs \X (Users \cup {Gone})
    /\ run \in RunRow /\ (run.pc = "send" => run.note \in Notifs)

\* A row that a cycle has read is still pending, or has gone for good.
Pending(n) == notifs[n] # Unborn /\ (HasRow(n) => notifs[n].status = "pending")

\* What a row may say: the last refusal is the one that gives up.
Counted(row) == row.status = "failed" <=> row.attempts = MaxTries

\* What the cycle will write of a notification it has tried.
Settled(n) ==
    LET row == run.result[n] IN
    /\ notifs[n] # Unborn /\ Counted(row) /\ row.status # "suppressed"
    /\ row.status = "sent" => \E x \in told : x[1] = n
    /\ HasRow(n) => row.user = notifs[n].user

\* What the tables say of a notification.
Recorded(n) == HasRow(n) =>
    /\ Counted(notifs[n])
    /\ notifs[n].status = "sent" => \E x \in told : x[1] = n

NoticeInv ==
    /\ Types
    /\ \A n \in Notifs : Recorded(n)
    /\ \A x \in told : /\ notifs[x[1]] # Unborn
                       /\ HasRow(x[1]) => notifs[x[1]].status # "suppressed"
    /\ \A n \in run.todo : Pending(n)
    /\ run.pc = "send" => Pending(run.note)
    /\ \A n \in Notifs : run.result[n] # Gone => Settled(n)

-----------------------------------------------------------------------------
(* Rows *)

LEMMA RowOrNot == ASSUME Types, NEW n \in Notifs PROVE HasRow(n) <=> notifs[n] \in NotifRow
BY NoSuchRow DEF Types, HasRow, NoSuchRow

LEMMA IdleRunOK ==
    /\ IdleRun \in RunRow /\ IdleRun.pc = "idle" /\ IdleRun.todo = {} /\ IdleRun.subs = {}
    /\ IdleRun.held \in [Devices -> Users \cup {Gone}]
    /\ \A n \in Notifs : IdleRun.result[n] = Gone
BY DEF IdleRun, RunRow

\* A pending row has refusals left: after one more it is pending still, or failed.
LEMMA SettleOK ==
    ASSUME NEW row \in NotifRow, row.status = "pending", Counted(row), NEW ok, NEW subs,
           minute \in Minutes
    PROVE  LET new == Settle(row, ok, subs) IN
           /\ new \in NotifRow /\ Counted(new) /\ new.user = row.user
           /\ new.status # "suppressed" /\ (new.status = "sent" => ok # {})
<1>1. row.attempts \in 0 .. MaxTries /\ row.attempts # MaxTries /\ MaxTries \in Nat
  BY NotificationConstants DEF NotifRow, Counted, NotificationConstants
<1>2. minute + RetryAfter(row.attempts + 1) \in Nat
  BY <1>1, RetryAfterIsNat, NotificationConstants
  DEF RetryAfterIsNat, Minutes, NotificationConstants
<1> DEFINE later == minute + RetryAfter(row.attempts + 1)
<1> HIDE DEF later
<1>3. later \in Nat
  BY <1>2 DEF later
<1>4. Settle(row, ok, subs) =
        IF ok # {} THEN [row EXCEPT !.status = "sent"]
        ELSE IF row.attempts + 1 >= MaxTries
             THEN [row EXCEPT !.attempts = row.attempts + 1, !.status = "failed"]
             ELSE [row EXCEPT !.attempts = row.attempts + 1, !.due = later]
  BY DEF Settle, later
<1> DEFINE new == Settle(row, ok, subs)
           goal == /\ new \in NotifRow /\ Counted(new) /\ new.user = row.user
                   /\ new.status # "suppressed" /\ (new.status = "sent" => ok # {})
<1>5. ASSUME ok # {} PROVE goal
  <2>1. new = [row EXCEPT !.status = "sent"]
    BY <1>4, <1>5
  <2>2. /\ new \in NotifRow /\ new.status = "sent" /\ new.attempts = row.attempts
        /\ new.user = row.user
    BY <2>1 DEF NotifRow
  <2> HIDE DEF new
  <2> QED
    BY <1>1, <1>5, <2>2 DEF Counted
<1>6. ASSUME ok = {} /\ row.attempts + 1 >= MaxTries PROVE goal
  <2>1. row.attempts + 1 = MaxTries /\ MaxTries \in 0 .. MaxTries
    BY <1>1, <1>6
  <2>2. new = [row EXCEPT !.attempts = MaxTries, !.status = "failed"]
    BY <1>4, <1>6, <2>1
  <2>3. /\ new \in NotifRow /\ new.status = "failed" /\ new.attempts = MaxTries
        /\ new.user = row.user
    BY <2>1, <2>2 DEF NotifRow
  <2> HIDE DEF new
  <2> QED
    BY <2>3 DEF Counted
<1>7. ASSUME ok = {} /\ ~(row.attempts + 1 >= MaxTries) PROVE goal
  <2>1. new = [row EXCEPT !.attempts = row.attempts + 1, !.due = later]
    BY <1>4, <1>7
  <2>2. row.attempts + 1 \in 0 .. MaxTries /\ row.attempts + 1 # MaxTries
    BY <1>1, <1>7
  <2>3. /\ new \in NotifRow /\ new.status = "pending" /\ new.attempts = row.attempts + 1
        /\ new.user = row.user
    BY <1>3, <2>1, <2>2 DEF NotifRow
  <2> HIDE DEF new
  <2> QED
    BY <2>2, <2>3 DEF Counted
<1> HIDE DEF goal
<1>8. goal
  BY <1>5, <1>6, <1>7
<1> QED
  BY <1>8 DEF goal

-----------------------------------------------------------------------------
(* The cycle *)

\* A cycle that ends, or is lost, forgets what it was about; what it has told
\* before stays told.
LEMMA RunEnds ==
    ASSUME NoticeInv, run' = IdleRun, UNCHANGED <<minute, accounts, notifs, owner, holder>>,
           aborts' \in 0 .. MaxAborts, told \subseteq told',
           told' \subseteq Notifs \X (Users \cup {Gone}),
           \A x \in told' \ told : Pending(x[1])
    PROVE  NoticeInv'
<1>1. Types'
  BY IdleRunOK DEF NoticeInv, Types, HasRow
<1>2. \A n \in Notifs : Recorded(n)'
  BY DEF NoticeInv, Recorded, HasRow
<1>3. \A x \in told' : /\ notifs'[x[1]] # Unborn
                       /\ HasRow(x[1])' => notifs'[x[1]].status # "suppressed"
  BY DEF NoticeInv, Pending, HasRow
<1> QED
  BY <1>1, <1>2, <1>3, IdleRunOK DEF NoticeInv

LEMMA AcceptedNow ==
    ASSUME NoticeInv, NEW ok \in SUBSET (Reachable \cup {Mail}), Accept(ok),
           run.pc = "send", HasRow(run.note)
    PROVE  /\ told \subseteq told' /\ told' \subseteq Notifs \X (Users \cup {Gone})
           /\ \A x \in told' \ told : x[1] = run.note /\ Pending(x[1])
           /\ ok # {} => \E x \in told' : x[1] = run.note
<1>1. /\ run.note \in Notifs /\ Pending(run.note) /\ run \in RunRow
      /\ notifs[run.note].user \in Users
      /\ told \subseteq Notifs \X (Users \cup {Gone})
  BY DEF NoticeInv, Types
<1>2. \A d \in ok : d # Mail => run.held[d] \in Users \cup {Gone}
  BY <1>1 DEF Reachable, RunRow
<1>3. told' = told \cup {<<run.note, IF d = Mail THEN notifs[run.note].user
                                     ELSE run.held[d]>> : d \in ok}
  BY DEF Accept
<1>4. \A x \in told' \ told : /\ x[1] = run.note
                              /\ x \in Notifs \X (Users \cup {Gone})
  <2> SUFFICES ASSUME NEW x \in told' \ told
               PROVE  x[1] = run.note /\ x \in Notifs \X (Users \cup {Gone})
    OBVIOUS
  <2>1. PICK u : x = <<run.note, u>> /\ u \in Users \cup {Gone}
    <3>1. PICK d \in ok : x = <<run.note, IF d = Mail THEN notifs[run.note].user
                                          ELSE run.held[d]>>
      BY <1>3
    <3> QED
      BY <1>1, <1>2, <3>1
  <2> QED
    BY <1>1, <2>1
<1>5. ok # {} => \E x \in told' : x[1] = run.note
  <2> SUFFICES ASSUME NEW d \in ok PROVE \E x \in told' : x[1] = run.note
    OBVIOUS
  <2> DEFINE x == <<run.note, IF d = Mail THEN notifs[run.note].user ELSE run.held[d]>>
  <2>1. x \in told' /\ x[1] = run.note
    BY <1>3
  <2> QED
    BY <2>1
<1> QED
  BY <1>1, <1>3, <1>4, <1>5

LEMMA CycleStarts == ASSUME NoticeInv, StartDelivery PROVE NoticeInv'
<1>1. /\ run' = [IdleRun EXCEPT !.pc = "next", !.todo = {n \in Notifs : DueNow(n)}]
      /\ UNCHANGED <<minute, aborts, accounts, notifs, owner, holder, told>>
  BY DEF StartDelivery
<1>2. /\ run' \in RunRow /\ run'.pc = "next" /\ run'.todo = {n \in Notifs : DueNow(n)}
      /\ \A n \in Notifs : run'.result[n] = Gone
  BY <1>1 DEF IdleRun, RunRow
<1>3. \A n \in run'.todo : Pending(n)'
  BY <1>1, <1>2 DEF DueNow, Pending, HasRow
<1> QED
  BY <1>1, <1>2, <1>3 DEF NoticeInv, Types, Recorded, HasRow

LEMMA NoticeLoaded == ASSUME NoticeInv, NEW n \in Notifs, LoadNext(n) PROVE NoticeInv'
<1>1. /\ run.pc = "next" /\ n \in run.todo /\ run \in RunRow
      /\ UNCHANGED <<minute, aborts, accounts, notifs, owner, holder, told>>
  BY DEF LoadNext, NoticeInv, Types
<1>2. CASE run' = IdleRun
  BY <1>1, <1>2, RunEnds DEF NoticeInv, Types
<1>3. CASE run' # IdleRun
  <2> DEFINE subs == {d \in Devices \ run.dead : owner[d] = notifs[n].user}
  <2>1. run' = [run EXCEPT !.pc = "send", !.note = n, !.todo = @ \ {n},
                           !.dirty = {}, !.fresh = {}, !.held = holder, !.subs = subs]
    BY <1>3 DEF LoadNext
  <2>2. subs \subseteq Devices /\ holder \in [Devices -> Users \cup {Gone}]
    BY DEF NoticeInv, Types
  <2> HIDE DEF subs
  <2>3. /\ run' \in RunRow /\ run'.pc = "send" /\ run'.note = n /\ run'.todo \subseteq run.todo
        /\ run'.result = run.result
    BY <1>1, <2>1, <2>2 DEF RunRow
  <2>4. Pending(n)' /\ \A m \in run'.todo : Pending(m)'
    BY <1>1, <2>3 DEF NoticeInv, Pending, HasRow
  <2>5. \A m \in Notifs : run'.result[m] # Gone => Settled(m)'
    BY <1>1, <2>3 DEF NoticeInv, Settled, HasRow
  <2> QED
    BY <1>1, <2>3, <2>4, <2>5 DEF NoticeInv, Types, Recorded, HasRow, Pending
<1> QED
  BY <1>2, <1>3

LEMMA NoticeDelivered == ASSUME NoticeInv, Deliver PROVE NoticeInv'
<1>1. /\ run.pc = "send" /\ HasRow(run.note)
      /\ UNCHANGED <<minute, aborts, accounts, notifs, owner, holder>>
  BY DEF Deliver
<1> PICK n \in Notifs : n = run.note
  BY <1>1 DEF NoticeInv, Types
<1>2. PICK ok \in SUBSET (Reachable \cup {Mail}), dead \in SUBSET Reachable :
         /\ Accept(ok)
         /\ run' = [run EXCEPT !.pc = "next", !.note = Gone, !.subs = {},
                        !.held = IdleRun.held, !.dirty = {n},
                        !.result[n] = Settle(notifs[n], ok, run.subs),
                        !.dead = @ \cup dead, !.fresh = dead]
  BY DEF Deliver
<1>3. /\ told \subseteq told' /\ told' \subseteq Notifs \X (Users \cup {Gone})
      /\ \A x \in told' \ told : x[1] = n /\ Pending(x[1])
      /\ ok # {} => \E x \in told' : x[1] = n
  BY <1>1, <1>2, AcceptedNow
<1>4. /\ notifs[n] \in NotifRow /\ notifs[n].status = "pending" /\ Counted(notifs[n])
      /\ notifs[n] # Unborn /\ minute \in Minutes
  BY <1>1, RowOrNot DEF NoticeInv, Pending, Recorded, Types
<1> DEFINE new == Settle(notifs[n], ok, run.subs)
<1>5. /\ new \in NotifRow /\ Counted(new) /\ new.user = notifs[n].user
      /\ new.status # "suppressed" /\ (new.status = "sent" => ok # {})
  BY <1>4, SettleOK
<1>6. /\ run \in RunRow /\ dead \subseteq Devices /\ IdleRun.held \in [Devices -> Users \cup {Gone}]
  BY IdleRunOK DEF NoticeInv, Types, Reachable, RunRow
<1> HIDE DEF new
<1>7. run' = [run EXCEPT !.pc = "next", !.note = Gone, !.subs = {},
                 !.held = IdleRun.held, !.dirty = {n},
                 !.result = [run.result EXCEPT ![n] = new],
                 !.dead = @ \cup dead, !.fresh = dead]
  BY <1>2, <1>6 DEF new, RunRow
<1>8. /\ run' \in RunRow /\ run'.pc = "next" /\ run'.todo = run.todo
      /\ run'.result = [run.result EXCEPT ![n] = new]
  BY <1>5, <1>6, <1>7 DEF RunRow
<1>9. Types'
  BY <1>1, <1>3, <1>8 DEF NoticeInv, Types, HasRow
<1>10. \A m \in Notifs : Recorded(m)'
  BY <1>1, <1>3 DEF NoticeInv, Recorded, HasRow
<1>11. \A x \in told' : /\ notifs'[x[1]] # Unborn
                        /\ HasRow(x[1])' => notifs'[x[1]].status # "suppressed"
  BY <1>1, <1>3 DEF NoticeInv, Pending, HasRow
<1>12. \A m \in run'.todo : Pending(m)'
  BY <1>1, <1>8 DEF NoticeInv, Pending, HasRow
<1>13. ASSUME NEW m \in Notifs, run'.result[m] # Gone PROVE Settled(m)'
  <2>1. CASE m = n
    <3>1. run'.result[m] = new
      BY <1>6, <1>8, <2>1 DEF RunRow
    <3> QED
      BY <1>1, <1>3, <1>4, <1>5, <2>1, <3>1 DEF Settled
  <2>2. CASE m # n
    <3>1. run'.result[m] = run.result[m]
      BY <1>6, <1>8, <2>2 DEF RunRow
    <3> QED
      BY <1>1, <1>3, <1>13, <3>1 DEF NoticeInv, Settled, HasRow
  <2> QED
    BY <2>1, <2>2
<1> QED
  BY <1>8, <1>9, <1>10, <1>11, <1>12, <1>13 DEF NoticeInv

LEMMA DeliveryLost == ASSUME NoticeInv, DeliverToDeleted \/ Aborted PROVE NoticeInv'
<1>1. /\ run' = IdleRun /\ UNCHANGED <<minute, accounts, notifs, owner, holder>>
      /\ aborts' \in 0 .. MaxAborts
  BY NotificationConstants
  DEF DeliverToDeleted, Aborted, NoticeInv, Types, NotificationConstants
<1>2. \/ UNCHANGED told
      \/ /\ run.pc = "send" /\ HasRow(run.note)
         /\ \E ok \in SUBSET (Reachable \cup {Mail}) : Accept(ok)
  BY DEF DeliverToDeleted, Aborted
<1>3. /\ told \subseteq told' /\ told' \subseteq Notifs \X (Users \cup {Gone})
      /\ \A x \in told' \ told : Pending(x[1])
  BY <1>2, AcceptedNow DEF NoticeInv, Types
<1> QED
  BY <1>1, <1>3, RunEnds

LEMMA DeliveryCommitted == ASSUME NoticeInv, CommitDelivery PROVE NoticeInv'
<1>1. run' = IdleRun /\ UNCHANGED <<minute, aborts, accounts, holder, told>>
  BY DEF CommitDelivery
<1>2. CASE UNCHANGED <<notifs, owner>>
  BY <1>1, <1>2, RunEnds DEF NoticeInv, Types
<1>3. CASE ~UNCHANGED <<notifs, owner>>
  <2>1. /\ notifs' = [n \in Notifs |-> IF run.result[n] # Gone /\ HasRow(n)
                                       THEN run.result[n] ELSE notifs[n]]
        /\ owner' = [d \in Devices |-> IF d \in run.dead THEN Gone ELSE owner[d]]
    BY <1>3 DEF CommitDelivery
  <2>2. ASSUME NEW n \in Notifs
        PROVE  \/ notifs'[n] = notifs[n]
               \/ /\ HasRow(n) /\ Settled(n) /\ notifs'[n] = run.result[n]
                  /\ notifs'[n] \in NotifRow
    BY <2>1 DEF NoticeInv, Types, RunRow
  <2>3. ASSUME NEW n \in Notifs
        PROVE  /\ HasRow(n)' <=> HasRow(n)
               /\ HasRow(n) => notifs'[n].user = notifs[n].user
               /\ notifs'[n] = Unborn => notifs[n] = Unborn
               /\ notifs'[n] \in NotifRow \cup {Gone, Unborn}
               /\ Recorded(n)'
    <3>1. CASE notifs'[n] = notifs[n]
      BY <1>1, <3>1 DEF NoticeInv, Types, Recorded, HasRow
    <3>2. CASE HasRow(n) /\ Settled(n) /\ notifs'[n] = run.result[n] /\ notifs'[n] \in NotifRow
      BY <1>1, <3>2, NoSuchRow DEF Settled, Recorded, HasRow, NoSuchRow
    <3> QED
      BY <2>2, <3>1, <3>2
  <2>4. Types'
    <3>1. notifs' \in [Notifs -> NotifRow \cup {Gone, Unborn}]
      BY <2>1, <2>3
    <3>2. owner' \in [Devices -> accounts \cup {Gone}]
      BY <2>1 DEF NoticeInv, Types
    <3>3. \A n \in Notifs : HasRow(n)' => notifs'[n].user \in accounts'
      BY <1>1, <2>3 DEF NoticeInv, Types
    <3> QED
      BY <1>1, <3>1, <3>2, <3>3, IdleRunOK DEF NoticeInv, Types
  <2>5. ASSUME NEW x \in told'
        PROVE  /\ notifs'[x[1]] # Unborn
               /\ HasRow(x[1])' => notifs'[x[1]].status # "suppressed"
    <3>1. PICK n \in Notifs : n = x[1]
      BY <1>1, <2>5 DEF NoticeInv, Types
    <3>2. notifs[n] # Unborn /\ (HasRow(n) => notifs[n].status # "suppressed")
      BY <1>1, <3>1 DEF NoticeInv
    <3>3. HasRow(n)' => notifs'[n].status # "suppressed"
      BY <2>2, <2>3, <3>2 DEF Settled
    <3> QED
      BY <2>3, <3>1, <3>2, <3>3
  <2> QED
    BY <1>1, <2>3, <2>4, <2>5, IdleRunOK DEF NoticeInv
<1> QED
  BY <1>2, <1>3

-----------------------------------------------------------------------------
(* The rest of the program *)

\* Requests and other cycles: a row is born once, goes for good, and is
\* otherwise left to the delivery.
LEMMA RowsLeft ==
    ASSUME NoticeInv, UNCHANGED <<told, run>>, Types',
           \A n \in Notifs : \/ notifs'[n] = notifs[n]
                             \/ notifs'[n] = Gone
                             \/ /\ notifs[n] = Unborn /\ notifs'[n].attempts = 0
                                /\ notifs'[n].status \in {"pending", "suppressed"}
    PROVE  NoticeInv'
<1>1. \A x \in told : x[1] \in Notifs
  BY DEF NoticeInv, Types
<1>2. run.todo \subseteq Notifs /\ (run.pc = "send" => run.note \in Notifs)
  BY DEF NoticeInv, Types, RunRow
<1>3. MaxTries # 0 /\ Gone # Unborn
  BY NotificationConstants DEF NotificationConstants
<1>4. \A n \in Notifs : Recorded(n)'
  BY <1>3 DEF NoticeInv, Recorded, Counted, HasRow
<1>5. \A n \in Notifs : Pending(n) => Pending(n)'
  BY <1>3 DEF Pending, HasRow
<1>6. \A n \in Notifs : Settled(n) => Settled(n)'
  BY <1>3 DEF Settled, HasRow
<1>7. \A x \in told' : /\ notifs'[x[1]] # Unborn
                       /\ HasRow(x[1])' => notifs'[x[1]].status # "suppressed"
  BY <1>1, <1>3 DEF NoticeInv, HasRow
<1> QED
  BY <1>2, <1>4, <1>5, <1>6, <1>7 DEF NoticeInv

LEMMA AlertRaised ==
    ASSUME NoticeInv, NEW u \in Users, NEW status \in {"pending", "suppressed"},
           RaiseAlert(u, status)
    PROVE  NoticeInv'
<1> DEFINE new == [user |-> u, status |-> status, attempts |-> 0, due |-> 0]
<1>1. PICK n \in Notifs : notifs[n] = Unborn /\ notifs' = [notifs EXCEPT ![n] = new]
  BY DEF RaiseAlert
<1>2. u \in accounts /\ UNCHANGED <<minute, aborts, accounts, owner, holder, told, run>>
  BY DEF RaiseAlert
<1>3. new \in NotifRow /\ new.user = u /\ new.attempts = 0 /\ new.status = status
  BY NotificationConstants DEF NotifRow, NotificationConstants
<1> HIDE DEF new
<1>4. /\ notifs' \in [Notifs -> NotifRow \cup {Gone, Unborn}]
      /\ notifs'[n] = new /\ \A m \in Notifs \ {n} : notifs'[m] = notifs[m]
  BY <1>1, <1>3 DEF NoticeInv, Types
<1>5. Types'
  BY <1>2, <1>3, <1>4 DEF NoticeInv, Types, HasRow
<1> QED
  BY <1>1, <1>2, <1>3, <1>4, <1>5, RowsLeft

LEMMA DevicesMoved ==
    ASSUME NoticeInv, NEW d \in Devices, NEW u \in Users,
           UpsertSubscription(d, u) \/ DeleteSubscription(d, u)
    PROVE  NoticeInv'
<1>1. /\ UNCHANGED <<minute, aborts, accounts, notifs, told, run>>
      /\ owner' \in [Devices -> accounts \cup {Gone}]
      /\ holder' \in [Devices -> Users \cup {Gone}]
  BY DEF UpsertSubscription, DeleteSubscription, NoticeInv, Types
<1>2. Types'
  BY <1>1 DEF NoticeInv, Types, HasRow
<1> QED
  BY <1>1, <1>2, RowsLeft

LEMMA UserDeleted == ASSUME NoticeInv, NEW u \in Users, DeleteUser(u) PROVE NoticeInv'
<1>1. /\ accounts' = accounts \ {u} /\ UNCHANGED <<minute, aborts, holder, told, run>>
      /\ notifs' = [n \in Notifs |-> IF HasRow(n) /\ notifs[n].user = u THEN Gone ELSE notifs[n]]
      /\ owner' = [d \in Devices |-> IF owner[d] = u THEN Gone ELSE owner[d]]
  BY DEF DeleteUser
<1>2. /\ notifs' \in [Notifs -> NotifRow \cup {Gone, Unborn}]
      /\ owner' \in [Devices -> accounts' \cup {Gone}]
  BY <1>1 DEF NoticeInv, Types
<1>3. \A n \in Notifs : HasRow(n)' => notifs'[n].user \in accounts'
  BY <1>1 DEF NoticeInv, Types, HasRow
<1>4. Types'
  BY <1>1, <1>2, <1>3 DEF NoticeInv, Types
<1> QED
  BY <1>1, <1>4, RowsLeft

LEMMA NoticeStep == ASSUME NoticeInv, [NotifNext]_notifVars PROVE NoticeInv'
<1>1. CASE MinutePasses
  <2>1. /\ UNCHANGED <<aborts, accounts, notifs, owner, holder, told, run>>
        /\ minute' \in Minutes
    BY <1>1, NotificationConstants
    DEF MinutePasses, NoticeInv, Types, Minutes, NotificationConstants
  <2>2. Types'
    BY <2>1 DEF NoticeInv, Types, HasRow
  <2> QED
    BY <2>1, <2>2, RowsLeft
<1>2. CASE UNCHANGED notifVars
  <2>1. UNCHANGED <<minute, aborts, accounts, notifs, owner, holder, told, moves, run>>
    BY <1>2 DEF notifVars
  <2>2. Types'
    BY <2>1 DEF NoticeInv, Types, HasRow
  <2> QED
    BY <2>1, <2>2, RowsLeft
<1>3. CASE NotifCycle \/ Aborted
  BY <1>3, CycleStarts, NoticeLoaded, NoticeDelivered, DeliveryLost, DeliveryCommitted
  DEF NotifCycle
<1> QED
  BY <1>1, <1>2, <1>3, AlertRaised, DevicesMoved, UserDeleted DEF NotifNext

LEMMA NoticeInvariance == NotifSpec => []NoticeInv
<1>1. NotifInit => NoticeInv
  <2> SUFFICES ASSUME NotifInit PROVE NoticeInv
    OBVIOUS
  <2>1. Types
    BY IdleRunOK, NotificationConstants
    DEF NotifInit, Types, Minutes, HasRow, NotificationConstants
  <2> QED
    BY <2>1, IdleRunOK DEF NotifInit, NoticeInv, Recorded, HasRow
<1>2. NoticeInv /\ [NotifNext]_notifVars => NoticeInv'
  BY NoticeStep
<1> QED
  BY <1>1, <1>2, PTL DEF NotifSpec

\* The columns keep their types, and a notification or a registration belongs to
\* an account that exists, whatever is deleted under a cycle.
THEOREM NotifTypeCorrect == NotifSpec => []NotifTypeOK
<1>1. NoticeInv => NotifTypeOK
  BY DEF NoticeInv, Types, NotifTypeOK, RunRow
<1> QED
  BY NoticeInvariance, <1>1, PTL

\* What is recorded is what happened, though the record and the sending are not
\* one transaction: a sent notification was taken by some device or the mail,
\* one given up was refused MaxTries times, a suppressed one has told nobody.
THEOREM RecordsAreTrue == NotifSpec => []NoticeOutcomeIsTrue
<1>1. NoticeInv => NoticeOutcomeIsTrue
  BY DEF NoticeInv, Recorded, Counted, NoticeOutcomeIsTrue
<1> QED
  BY NoticeInvariance, <1>1, PTL

-----------------------------------------------------------------------------
(* Holders *)

\* A registration is its holder's, or the holder's tenant could not see it; so
\* it was when a cycle read it.
Held == \A d \in Devices : owner[d] # Gone =>
            holder[d] = owner[d] \/ TenantOf[holder[d]] # TenantOf[owner[d]]

ReadHeld == run.pc = "send" /\ HasRow(run.note) =>
                \A d \in run.subs : LET u == notifs[run.note].user IN
                   run.held[d] = u \/ TenantOf[run.held[d]] # TenantOf[u]

HolderInv == Held /\ ReadHeld /\ OnlyHoldersAreTold

\* Who a notification is for does not change.
LEMMA UserKept ==
    ASSUME NoticeInv, [NotifNext]_notifVars, NEW n \in Notifs, HasRow(n)', notifs[n] # Unborn
    PROVE  HasRow(n) /\ notifs'[n].user = notifs[n].user
<1>1. CASE UNCHANGED notifs
  BY <1>1 DEF HasRow
<1>2. CASE CommitDelivery
  <2>1. \/ notifs'[n] = notifs[n]
        \/ /\ HasRow(n) /\ run.result[n] # Gone
           /\ notifs'[n] = run.result[n]
    <3>1. ASSUME UNCHANGED <<notifs, owner>> PROVE notifs'[n] = notifs[n]
      BY <3>1
    <3>2. ASSUME ~UNCHANGED <<notifs, owner>>
          PROVE  \/ notifs'[n] = notifs[n]
                 \/ /\ HasRow(n) /\ run.result[n] # Gone
                    /\ notifs'[n] = run.result[n]
      <4>1. notifs' = [m \in Notifs |-> IF run.result[m] # Gone /\ HasRow(m)
                                        THEN run.result[m] ELSE notifs[m]]
        BY <1>2, <3>2 DEF CommitDelivery
      <4> QED
        BY <4>1
    <3> QED
      BY <3>1, <3>2
  <2>2. HasRow(n) /\ run.result[n] # Gone => run.result[n].user = notifs[n].user
    BY DEF NoticeInv, Settled
  <2> QED
    BY <2>1, <2>2 DEF HasRow
<1>3. ASSUME NEW u \in Users, NEW status \in {"pending", "suppressed"}, RaiseAlert(u, status)
      PROVE  notifs'[n] = notifs[n]
  BY <1>3 DEF RaiseAlert, NoticeInv, Types
<1>4. ASSUME NEW u \in Users, DeleteUser(u) PROVE notifs'[n] = notifs[n]
  BY <1>4 DEF DeleteUser, HasRow
<1>5. CASE Aborted \/ StartDelivery \/ Deliver \/ DeliverToDeleted \/ MinutePasses
  BY <1>1, <1>5 DEF Aborted, StartDelivery, Deliver, DeliverToDeleted, MinutePasses
<1>6. ASSUME NEW m \in Notifs, LoadNext(m) PROVE UNCHANGED notifs
  BY <1>6 DEF LoadNext
<1>7. ASSUME NEW d \in Devices, NEW u \in Users,
             UpsertSubscription(d, u) \/ DeleteSubscription(d, u)
      PROVE  UNCHANGED notifs
  BY <1>7 DEF UpsertSubscription, DeleteSubscription
<1> QED
  BY <1>1, <1>2, <1>3, <1>4, <1>5, <1>6, <1>7 DEF NotifNext, NotifCycle, HasRow, notifVars

\* What was told before was told to the right account, and stays so.
LEMMA ToldBefore ==
    ASSUME NoticeInv, HolderInv, [NotifNext]_notifVars, NEW x \in told, HasRow(x[1])',
           TenantOf[x[2]] = TenantOf[notifs'[x[1]].user]
    PROVE  x[2] = notifs'[x[1]].user
<1>1. x[1] \in Notifs /\ notifs[x[1]] # Unborn
  BY DEF NoticeInv, Types
<1>2. HasRow(x[1]) /\ notifs'[x[1]].user = notifs[x[1]].user
  BY <1>1, UserKept
<1> QED
  BY <1>2 DEF HolderInv, OnlyHoldersAreTold

\* What a delivery tells now, it tells the account or another tenant's.
LEMMA ToldNow ==
    ASSUME NoticeInv, HolderInv, run.pc = "send", HasRow(run.note),
           NEW ok \in SUBSET (Reachable \cup {Mail}), Accept(ok), NEW x \in told', x \notin told,
           TenantOf[x[2]] = TenantOf[notifs[x[1]].user]
    PROVE  x[2] = notifs[x[1]].user
<1>1. PICK d \in ok : x = <<run.note, IF d = Mail THEN notifs[run.note].user ELSE run.held[d]>>
  BY DEF Accept
<1>2. CASE d = Mail
  BY <1>1, <1>2
<1>3. CASE d # Mail
  <2>1. d \in run.subs /\ x = <<run.note, run.held[d]>>
    BY <1>1, <1>3 DEF Reachable
  <2> QED
    BY <2>1 DEF HolderInv, ReadHeld
<1> QED
  BY <1>2, <1>3

\* The registrations of a cycle that sends are as they were read.
LEMMA HolderStep == ASSUME NoticeInv, HolderInv, [NotifNext]_notifVars PROVE HolderInv'
<1>1. ASSUME UNCHANGED told PROVE OnlyHoldersAreTold'
  BY <1>1, ToldBefore DEF OnlyHoldersAreTold
<1>2. ASSUME NEW ok \in SUBSET (Reachable \cup {Mail}), Accept(ok), UNCHANGED notifs,
             run.pc = "send", HasRow(run.note)
      PROVE  OnlyHoldersAreTold'
  BY <1>2, ToldBefore, ToldNow DEF OnlyHoldersAreTold, HasRow
<1>3. ASSUME UNCHANGED <<run, told>>, Held' PROVE HolderInv'
  <2>1. ASSUME run.pc = "send", HasRow(run.note)'
        PROVE  HasRow(run.note) /\ notifs'[run.note].user = notifs[run.note].user
    <3>1. PICK n \in Notifs : n = run.note /\ notifs[n] # Unborn
      BY <2>1 DEF NoticeInv, Types, Pending
    <3>2. HasRow(n)'
      BY <1>3, <2>1, <3>1 DEF HasRow
    <3> QED
      BY <3>1, <3>2, UserKept
  <2>2. ReadHeld'
    BY <1>3, <2>1 DEF HolderInv, ReadHeld, HasRow
  <2> QED
    BY <1>1, <1>3, <2>2 DEF HolderInv
<1>4. ASSUME run'.pc # "send", OnlyHoldersAreTold', Held' PROVE HolderInv'
  BY <1>4 DEF HolderInv, ReadHeld
<1>5. ASSUME UNCHANGED <<owner, holder>> PROVE Held'
  BY <1>5 DEF HolderInv, Held
<1>6. CASE StartDelivery
  <2>1. run'.pc = "next" /\ UNCHANGED <<owner, holder, told>>
    BY <1>6 DEF StartDelivery, IdleRun
  <2> QED
    BY <1>1, <1>4, <1>5, <2>1
<1>7. ASSUME NEW n \in Notifs, LoadNext(n) PROVE HolderInv'
  <2>1. UNCHANGED <<notifs, owner, holder, told>> /\ run \in RunRow
    BY <1>7 DEF LoadNext, NoticeInv, Types
  <2>2. CASE run' = IdleRun
    BY <1>1, <1>4, <1>5, <2>1, <2>2, IdleRunOK
  <2>3. CASE run' # IdleRun
    <3> DEFINE subs == {d \in Devices \ run.dead : owner[d] = notifs[n].user}
    <3>1. /\ run' = [run EXCEPT !.pc = "send", !.note = n, !.todo = @ \ {n},
                               !.dirty = {}, !.fresh = {}, !.held = holder, !.subs = subs]
          /\ HasRow(n)
      BY <1>7, <2>3 DEF LoadNext
    <3>2. \A d \in subs : holder[d] = notifs[n].user
                         \/ TenantOf[holder[d]] # TenantOf[notifs[n].user]
      <4>1. notifs[n].user # Gone
        BY <3>1, NotificationConstants DEF NoticeInv, Types, NotificationConstants
      <4> QED
        BY <4>1 DEF HolderInv, Held
    <3> HIDE DEF subs
    <3>3. run'.note = n /\ run'.held = holder /\ run'.subs = subs
      BY <2>1, <3>1 DEF RunRow
    <3>4. ReadHeld'
      BY <2>1, <3>2, <3>3 DEF ReadHeld
    <3> QED
      BY <1>1, <1>5, <2>1, <3>4 DEF HolderInv
  <2> QED
    BY <2>2, <2>3
<1>8. CASE Deliver
  <2>1. /\ UNCHANGED <<notifs, owner, holder>> /\ run'.pc = "next"
        /\ run.pc = "send" /\ HasRow(run.note)
    BY <1>8 DEF Deliver, NoticeInv, Types, RunRow
  <2>2. \E ok \in SUBSET (Reachable \cup {Mail}) : Accept(ok)
    BY <1>8 DEF Deliver
  <2> QED
    BY <1>2, <1>4, <1>5, <2>1, <2>2
<1>9. CASE DeliverToDeleted \/ Aborted
  <2>1. /\ UNCHANGED <<notifs, owner, holder>> /\ run' = IdleRun
        /\ \/ UNCHANGED told
           \/ /\ run.pc = "send" /\ HasRow(run.note)
              /\ \E ok \in SUBSET (Reachable \cup {Mail}) : Accept(ok)
    BY <1>9 DEF DeliverToDeleted, Aborted
  <2> QED
    BY <1>1, <1>2, <1>4, <1>5, <2>1, IdleRunOK
<1>10. CASE CommitDelivery
  <2>1. /\ run' = IdleRun /\ UNCHANGED <<holder, told>>
        /\ \A d \in Devices : owner'[d] \in {owner[d], Gone}
    BY <1>10 DEF CommitDelivery
  <2>2. Held'
    BY <2>1 DEF HolderInv, Held
  <2> QED
    BY <1>1, <1>4, <2>1, <2>2, IdleRunOK
<1>11. ASSUME NEW d \in Devices, NEW u \in Users, UpsertSubscription(d, u) PROVE HolderInv'
  <2>1. /\ UNCHANGED <<run, told>>
        /\ owner' = [owner EXCEPT ![d] = IF @ = Gone \/ Visible(d, u) THEN u ELSE @]
        /\ holder' = [holder EXCEPT ![d] = u]
    BY <1>11 DEF UpsertSubscription
  <2>2. Held'
    BY <2>1 DEF HolderInv, Held, Visible, NoticeInv, Types
  <2> QED
    BY <1>3, <2>1, <2>2
<1>12. ASSUME NEW d \in Devices, NEW u \in Users, DeleteSubscription(d, u) PROVE HolderInv'
  <2>1. UNCHANGED <<holder, run, told>> /\ \A e \in Devices : owner'[e] \in {owner[e], Gone}
    BY <1>12 DEF DeleteSubscription, NoticeInv, Types
  <2>2. Held'
    BY <2>1 DEF HolderInv, Held
  <2> QED
    BY <1>3, <2>1, <2>2
<1>13. ASSUME NEW u \in Users, DeleteUser(u) PROVE HolderInv'
  <2>1. UNCHANGED <<holder, run, told>> /\ \A e \in Devices : owner'[e] \in {owner[e], Gone}
    BY <1>13 DEF DeleteUser
  <2>2. Held'
    BY <2>1 DEF HolderInv, Held
  <2> QED
    BY <1>3, <2>1, <2>2
<1>14. ASSUME UNCHANGED <<owner, holder, run, told>> PROVE HolderInv'
  BY <1>3, <1>5, <1>14
<1>15. ASSUME NEW u \in Users, NEW status \in {"pending", "suppressed"}, RaiseAlert(u, status)
       PROVE  HolderInv'
  BY <1>14, <1>15 DEF RaiseAlert
<1>16. CASE MinutePasses \/ UNCHANGED notifVars
  BY <1>14, <1>16 DEF MinutePasses, notifVars
<1> QED
  BY <1>6, <1>7, <1>8, <1>9, <1>10, <1>11, <1>12, <1>13, <1>15, <1>16 DEF NotifNext, NotifCycle

\* Whatever moves between accounts of a tenant while a cycle sends, a device is
\* told only what is for the account that last registered it.
THEOREM HoldersTold == NotifSpec => []OnlyHoldersAreTold
<1>1. NotifInit => HolderInv
  BY IdleRunOK DEF NotifInit, HolderInv, Held, ReadHeld, OnlyHoldersAreTold
<1>2. NoticeInv /\ HolderInv /\ [NotifNext]_notifVars => HolderInv'
  BY HolderStep
<1>3. HolderInv => OnlyHoldersAreTold
  BY DEF HolderInv
<1> QED
  BY <1>1, <1>2, <1>3, NoticeInvariance, PTL DEF NotifSpec

-----------------------------------------------------------------------------
(* Notifications implement Outbox *)

\* What the cycle will write of a notification follows on what is written of it.
Follows(n) == run.result[n] # Gone /\ HasRow(n) =>
    LET row == run.result[n] IN
    /\ notifs[n].status = "pending"
    /\ \/ row.status = "sent" /\ row.attempts = notifs[n].attempts
       \/ row.status \in {"failed", "pending"} /\ row.attempts = notifs[n].attempts + 1

FollowInv == \A n \in Notifs : Follows(n)

LEMMA SettleFollows ==
    ASSUME NEW row \in NotifRow, NEW ok, NEW subs, row.status = "pending"
    PROVE  LET new == Settle(row, ok, subs) IN
           \/ new.status = "sent" /\ new.attempts = row.attempts
           \/ new.status \in {"failed", "pending"} /\ new.attempts = row.attempts + 1
<1> DEFINE later == minute + RetryAfter(row.attempts + 1)
<1> HIDE DEF later
<1>1. Settle(row, ok, subs) =
        IF ok # {} THEN [row EXCEPT !.status = "sent"]
        ELSE IF row.attempts + 1 >= MaxTries
             THEN [row EXCEPT !.attempts = row.attempts + 1, !.status = "failed"]
             ELSE [row EXCEPT !.attempts = row.attempts + 1, !.due = later]
  BY DEF Settle, later
<1>2. /\ [row EXCEPT !.status = "sent"].status = "sent"
      /\ [row EXCEPT !.status = "sent"].attempts = row.attempts
  BY DEF NotifRow
<1>3. \A failed : failed = [row EXCEPT !.attempts = row.attempts + 1, !.status = "failed"]
        => failed.status = "failed" /\ failed.attempts = row.attempts + 1
  BY DEF NotifRow
<1>4. \A again : again = [row EXCEPT !.attempts = row.attempts + 1, !.due = later]
        => again.status = "pending" /\ again.attempts = row.attempts + 1
  BY DEF NotifRow
<1> QED
  BY <1>1, <1>2, <1>3, <1>4

\* Rows that stay as they are, or go, or are born, under a cycle that tries no more.
LEMMA FollowsKept ==
    ASSUME NoticeInv, FollowInv, run' = IdleRun \/ run'.result = run.result,
           \A n \in Notifs : \/ notifs'[n] \in {notifs[n], Gone}
                             \/ notifs[n] = Unborn
    PROVE  FollowInv'
<1> SUFFICES ASSUME NEW n \in Notifs, run'.result[n] # Gone, HasRow(n)' PROVE Follows(n)'
  BY DEF FollowInv, Follows
<1>1. run'.result[n] = run.result[n] /\ run.result[n] # Gone
  BY IdleRunOK
<1>2. notifs[n] # Unborn
  BY <1>1 DEF NoticeInv, Settled
<1>3. notifs'[n] = notifs[n] /\ HasRow(n)
  BY <1>2 DEF HasRow
<1> QED
  BY <1>1, <1>3 DEF FollowInv, Follows

LEMMA DeliveryFollows == ASSUME NoticeInv, FollowInv, Deliver PROVE FollowInv'
<1>1. run.pc = "send" /\ HasRow(run.note) /\ UNCHANGED notifs
  BY DEF Deliver
<1> PICK n \in Notifs : n = run.note
  BY <1>1 DEF NoticeInv, Types
<1>2. PICK ok, dead :
         run' = [run EXCEPT !.pc = "next", !.note = Gone, !.subs = {},
                        !.held = IdleRun.held, !.dirty = {n},
                        !.result[n] = Settle(notifs[n], ok, run.subs),
                        !.dead = @ \cup dead, !.fresh = dead]
  BY DEF Deliver
<1>3. notifs[n] \in NotifRow /\ notifs[n].status = "pending" /\ run \in RunRow
  BY <1>1, RowOrNot DEF NoticeInv, Pending, Types
<1> DEFINE new == Settle(notifs[n], ok, run.subs)
<1>4. \/ new.status = "sent" /\ new.attempts = notifs[n].attempts
      \/ new.status \in {"failed", "pending"} /\ new.attempts = notifs[n].attempts + 1
  BY <1>3, SettleFollows
<1> HIDE DEF new
<1>5. run'.result = [run.result EXCEPT ![n] = new]
  <2>1. run' = [run EXCEPT !.pc = "next", !.note = Gone, !.subs = {},
                 !.held = IdleRun.held, !.dirty = {n},
                 !.result = [run.result EXCEPT ![n] = new],
                 !.dead = @ \cup dead, !.fresh = dead]
    BY <1>2, <1>3 DEF new, RunRow
  <2> QED
    BY <1>3, <2>1 DEF RunRow
<1> SUFFICES ASSUME NEW m \in Notifs PROVE Follows(m)'
  BY DEF FollowInv
<1>6. CASE m = n
  BY <1>1, <1>3, <1>4, <1>5, <1>6 DEF Follows, RunRow
<1>7. CASE m # n
  <2>1. run'.result[m] = run.result[m]
    BY <1>3, <1>5, <1>7 DEF RunRow
  <2> QED
    BY <1>1, <2>1 DEF FollowInv, Follows, HasRow
<1> QED
  BY <1>6, <1>7

LEMMA FollowStep == ASSUME NoticeInv, FollowInv, [NotifNext]_notifVars PROVE FollowInv'
<1>1. CASE StartDelivery
  <2>1. run'.result = IdleRun.result
    BY <1>1 DEF StartDelivery, IdleRun
  <2> QED
    BY <2>1, IdleRunOK DEF FollowInv, Follows
<1>2. ASSUME NEW n \in Notifs, LoadNext(n) PROVE FollowInv'
  <2>1. run' = IdleRun \/ run'.result = run.result
    BY <1>2 DEF LoadNext, NoticeInv, Types, RunRow
  <2>2. UNCHANGED notifs
    BY <1>2 DEF LoadNext
  <2> QED
    BY <2>1, <2>2, FollowsKept
<1>3. CASE CommitDelivery
  <2>1. run' = IdleRun
    BY <1>3 DEF CommitDelivery
  <2> QED
    BY <2>1, IdleRunOK DEF FollowInv, Follows
<1>4. CASE DeliverToDeleted \/ Aborted
  <2>1. run' = IdleRun /\ UNCHANGED notifs
    BY <1>4 DEF DeliverToDeleted, Aborted
  <2> QED
    BY <2>1, FollowsKept
<1>5. ASSUME NEW u \in Users, NEW status \in {"pending", "suppressed"}, RaiseAlert(u, status)
      PROVE  FollowInv'
  <2>1. \A n \in Notifs : notifs'[n] = notifs[n] \/ notifs[n] = Unborn
    BY <1>5 DEF RaiseAlert, NoticeInv, Types
  <2>2. UNCHANGED run
    BY <1>5 DEF RaiseAlert
  <2> QED
    BY <2>1, <2>2, FollowsKept
<1>6. ASSUME NEW u \in Users, DeleteUser(u) PROVE FollowInv'
  <2>1. (\A n \in Notifs : notifs'[n] \in {notifs[n], Gone}) /\ UNCHANGED run
    BY <1>6 DEF DeleteUser
  <2> QED
    BY <2>1, FollowsKept
<1>7. ASSUME \/ MinutePasses \/ UNCHANGED notifVars
             \/ \E d \in Devices, u \in Users : UpsertSubscription(d, u) \/ DeleteSubscription(d, u)
      PROVE  FollowInv'
  <2>1. UNCHANGED <<notifs, run>>
    BY <1>7 DEF MinutePasses, notifVars, UpsertSubscription, DeleteSubscription
  <2> QED
    BY <2>1, FollowsKept
<1> QED
  BY <1>1, <1>2, <1>3, <1>4, <1>5, <1>6, <1>7, DeliveryFollows DEF NotifNext, NotifCycle

-----------------------------------------------------------------------------
NoticeOutboxTypes == /\ NoticeStage \in [Notifs -> NoticeOutbox!States]
                     /\ ToldOf \in [Notifs -> SUBSET (Users \cup {Gone})]
                     /\ NoticeRefusals \in [Notifs -> 0 .. MaxTries]

LEMMA NoticeOutboxTyped == NoticeInv' => NoticeOutboxTypes'
<1>1. ASSUME NoticeInv PROVE NoticeOutboxTypes
  <2>1. \A n \in Notifs : HasRow(n) => notifs[n] \in NotifRow
    BY <1>1, RowOrNot DEF NoticeInv
  <2>2. NoticeStage \in [Notifs -> NoticeOutbox!States]
    BY <2>1 DEF NoticeStage, NoticeOutcome, NoticeOutbox!States, NotifRow
  <2>3. ToldOf \in [Notifs -> SUBSET (Users \cup {Gone})]
    BY DEF ToldOf
  <2>4. NoticeRefusals \in [Notifs -> 0 .. MaxTries]
    BY <2>1, NotificationConstants DEF NoticeRefusals, NotifRow, NotificationConstants
  <2> QED
    BY <2>2, <2>3, <2>4 DEF NoticeOutboxTypes
<1>2. NoticeInv => NoticeOutboxTypes
  BY <1>1
<1> QED
  BY <1>2, PTL

LEMMA NoticesAtFirst == ASSUME NotifInit PROVE NoticeOutbox!Init
<1>1. Gone # Unborn
  BY NotificationConstants DEF NotificationConstants
<1>2. /\ NoticeStage = [n \in Notifs |-> "absent"]
      /\ NoticeRefusals = [n \in Notifs |-> 0]
  BY <1>1 DEF NotifInit, NoticeStage, NoticeRefusals, HasRow
<1>3. ToldOf = [n \in Notifs |-> {}]
  BY DEF NotifInit, ToldOf
<1> QED
  BY <1>2, <1>3 DEF NoticeOutbox!Init

LEMMA NoticesRest == ASSUME UNCHANGED <<notifs, told>> PROVE UNCHANGED NoticeOutbox!vars
BY DEF NoticeOutbox!vars, NoticeStage, ToldOf, NoticeRefusals, HasRow

\* Devices and the mail are told of a notification that is pending.
LEMMA NoticeLeaves ==
    ASSUME NoticeInv, NEW ok \in SUBSET (Reachable \cup {Mail}), Accept(ok),
           run.pc = "send", HasRow(run.note), UNCHANGED notifs
    PROVE  run.note \in Notifs /\ NoticeOutbox!Leave(run.note)
<1>1. run.note \in Notifs /\ notifs[run.note].status = "pending"
  BY DEF NoticeInv, Types, Pending
<1>2. told \subseteq told' /\ \A x \in told' \ told : x[1] = run.note
  BY AcceptedNow
<1>3. NoticeStage[run.note] = "waiting"
  BY <1>1 DEF NoticeStage, NoticeOutcome
<1>4. ToldOf[run.note] \subseteq ToldOf'[run.note]
  BY <1>1, <1>2 DEF ToldOf
<1>5. ASSUME NEW other \in Notifs \ {run.note} PROVE ToldOf'[other] = ToldOf[other]
  <2>1. \A u : <<other, u>> \in told' <=> <<other, u>> \in told
    BY <1>2, <1>5
  <2> QED
    BY <2>1 DEF ToldOf
<1>6. UNCHANGED <<NoticeStage, NoticeRefusals>>
  BY DEF NoticeStage, NoticeRefusals, HasRow
<1> QED
  BY <1>1, <1>3, <1>4, <1>5, <1>6 DEF NoticeOutbox!Leave

\* The commit writes what the cycle has settled.
LEMMA NoticesRecorded ==
    ASSUME NoticeInv, FollowInv, CommitDelivery
    PROVE  NoticeOutbox!Record
<1>1. UNCHANGED told /\ UNCHANGED ToldOf
  BY DEF CommitDelivery, ToldOf
<1> SUFFICES ASSUME NEW n \in Notifs
             PROVE  \/ NoticeOutbox!Same(n)
                    \/ /\ NoticeStage[n] = "waiting"
                       /\ \/ NoticeOutbox!Taken(n) \/ NoticeOutbox!Retried(n)
                          \/ NoticeOutbox!Refused(n)
  BY <1>1 DEF NoticeOutbox!Record
<1>2. CASE notifs'[n] = notifs[n]
  BY <1>2 DEF NoticeOutbox!Same, NoticeStage, NoticeRefusals, HasRow
<1>3. CASE notifs'[n] # notifs[n]
  <2> DEFINE row == run.result[n]
  <2>1. HasRow(n) /\ row # Gone /\ notifs'[n] = row
    BY <1>3 DEF CommitDelivery
  <2>2. /\ row \in NotifRow /\ notifs[n] \in NotifRow /\ Counted(row)
        /\ row.status = "sent" => \E x \in told : x[1] = n
        /\ told \subseteq Notifs \X (Users \cup {Gone})
    BY <2>1, RowOrNot DEF NoticeInv, Types, RunRow, Settled
  <2>3. /\ notifs[n].status = "pending"
        /\ \/ row.status = "sent" /\ row.attempts = notifs[n].attempts
           \/ row.status \in {"failed", "pending"} /\ row.attempts = notifs[n].attempts + 1
    BY <2>1 DEF FollowInv, Follows
  <2> HIDE DEF row
  <2>4. HasRow(n)'
    BY <2>1, <2>2, NoSuchRow DEF HasRow, NoSuchRow
  <2>5. /\ NoticeStage[n] = "waiting" /\ NoticeRefusals[n] = notifs[n].attempts
        /\ NoticeStage'[n] = NoticeOutcome[row.status] /\ NoticeRefusals'[n] = row.attempts
    BY <2>1, <2>3, <2>4 DEF NoticeStage, NoticeRefusals, NoticeOutcome
  <2>6. /\ row.attempts \in 0 .. MaxTries /\ notifs[n].attempts \in 0 .. MaxTries
        /\ MaxTries \in Nat
    BY <2>2, NotificationConstants DEF NotifRow, NotificationConstants
  <2>7. CASE row.status = "sent" /\ row.attempts = notifs[n].attempts
    <3>1. PICK x \in told : x[1] = n
      BY <2>2, <2>7
    <3>2. x = <<n, x[2]>> /\ x[2] \in Users \cup {Gone}
      BY <2>2, <3>1
    <3>3. ToldOf[n] # {}
      BY <3>1, <3>2 DEF ToldOf
    <3> QED
      BY <2>5, <2>7, <3>3 DEF NoticeOutbox!Taken, NoticeOutcome
  <2>8. CASE row.status = "failed" /\ row.attempts = notifs[n].attempts + 1
    BY <2>2, <2>5, <2>8 DEF NoticeOutbox!Refused, NoticeOutcome, Counted
  <2>9. CASE row.status = "pending" /\ row.attempts = notifs[n].attempts + 1
    <3>1. row.attempts < MaxTries
      BY <2>2, <2>6, <2>9 DEF Counted
    <3> QED
      BY <2>5, <2>9, <3>1 DEF NoticeOutbox!Retried, NoticeOutcome
  <2> QED
    BY <2>3, <2>5, <2>7, <2>8, <2>9
<1> QED
  BY <1>2, <1>3

LEMMA NoticePosted ==
    ASSUME NoticeInv, NEW u \in Users, NEW status \in {"pending", "suppressed"},
           RaiseAlert(u, status)
    PROVE  NoticeOutbox!Post
<1> DEFINE new == [user |-> u, status |-> status, attempts |-> 0, due |-> 0]
<1>1. PICK n \in Notifs : notifs[n] = Unborn /\ notifs' = [notifs EXCEPT ![n] = new]
  BY DEF RaiseAlert
<1>2. UNCHANGED ToldOf
  BY DEF RaiseAlert, ToldOf
<1>3. new \in NotifRow /\ new.attempts = 0 /\ new.status = status
  BY NotificationConstants DEF NotifRow, NotificationConstants, RaiseAlert, NoticeInv, Types
<1> HIDE DEF new
<1>4. /\ notifs'[n] = new /\ new \notin {Gone, Unborn}
      /\ \A m \in Notifs \ {n} : notifs'[m] = notifs[m]
  BY <1>1, <1>3, NoSuchRow DEF NoticeInv, Types, NoSuchRow
<1>5. Gone # Unborn
  BY NotificationConstants DEF NotificationConstants
<1>6. NoticeOutbox!Posted(n)
  <2>1. NoticeStage[n] = "absent"
    BY <1>1, <1>5 DEF NoticeStage, HasRow
  <2>2. NoticeStage'[n] = NoticeOutcome[status] /\ NoticeRefusals'[n] = 0
    BY <1>3, <1>4 DEF NoticeStage, NoticeRefusals, HasRow
  <2> QED
    BY <2>1, <2>2 DEF NoticeOutbox!Posted, NoticeOutcome
<1>7. \A m \in Notifs \ {n} : NoticeOutbox!Same(m)
  BY <1>4 DEF NoticeOutbox!Same, NoticeStage, NoticeRefusals, HasRow
<1> QED
  BY <1>2, <1>6, <1>7 DEF NoticeOutbox!Post

LEMMA NoticesRemoved ==
    ASSUME NoticeInv, NEW u \in Users, DeleteUser(u) PROVE NoticeOutbox!Remove
<1>1. /\ \A n \in Notifs : notifs'[n] \in {notifs[n], Gone}
      /\ UNCHANGED ToldOf
  BY DEF DeleteUser, ToldOf
<1>2. ASSUME NEW n \in Notifs, notifs'[n] = notifs[n] PROVE NoticeOutbox!Same(n)
  BY <1>2 DEF NoticeOutbox!Same, NoticeStage, NoticeRefusals, HasRow
<1>3. ASSUME NEW n \in Notifs, notifs'[n] = Gone
      PROVE  NoticeStage'[n] = "gone" /\ NoticeRefusals'[n] = 0
  BY <1>3 DEF NoticeStage, NoticeRefusals, HasRow
<1> QED
  BY <1>1, <1>2, <1>3 DEF NoticeOutbox!Remove

LEMMA NoticeOutboxStep ==
    ASSUME NoticeInv, FollowInv, NoticeInv', [NotifNext]_notifVars
    PROVE  [NoticeOutbox!Next]_NoticeOutbox!vars
<1>1. NoticeOutboxTypes'
  BY NoticeOutboxTyped
<1>2. ASSUME NEW ok \in SUBSET (Reachable \cup {Mail}), Accept(ok),
             run.pc = "send", HasRow(run.note), UNCHANGED notifs
      PROVE  NoticeOutbox!Next
  BY <1>1, <1>2, NoticeLeaves DEF NoticeOutbox!Next, NoticeOutboxTypes
<1>3. CASE Deliver
  BY <1>2, <1>3 DEF Deliver
<1>4. CASE Aborted
  BY <1>2, <1>4, NoticesRest DEF Aborted
<1>5. CASE CommitDelivery
  BY <1>1, <1>5, NoticesRecorded DEF NoticeOutbox!Next, NoticeOutboxTypes
<1>6. ASSUME NEW u \in Users, NEW status \in {"pending", "suppressed"}, RaiseAlert(u, status)
      PROVE  NoticeOutbox!Next
  BY <1>1, <1>6, NoticePosted DEF NoticeOutbox!Next, NoticeOutboxTypes
<1>7. ASSUME NEW u \in Users, DeleteUser(u) PROVE NoticeOutbox!Next
  BY <1>1, <1>7, NoticesRemoved DEF NoticeOutbox!Next, NoticeOutboxTypes
<1>8. ASSUME \/ StartDelivery \/ DeliverToDeleted \/ \E n \in Notifs : LoadNext(n)
             \/ \E d \in Devices, u \in Users : UpsertSubscription(d, u) \/ DeleteSubscription(d, u)
             \/ MinutePasses \/ UNCHANGED notifVars
      PROVE  UNCHANGED NoticeOutbox!vars
  BY <1>8, NoticesRest
  DEF StartDelivery, DeliverToDeleted, LoadNext, UpsertSubscription, DeleteSubscription,
      MinutePasses, notifVars
<1> QED
  BY <1>3, <1>4, <1>5, <1>6, <1>7, <1>8 DEF NotifNext, NotifCycle

\* The built-in alerts' queue is an outbox too (notification_pipeline, and what
\* creates and deletes its rows): nobody is told of a notification but while it is
\* pending, and never of one that quiet hours suppressed; its outcome is written
\* once, of what has happened, whatever cycles are aborted and users deleted.
THEOREM NoticesAreAnOutbox == NotifSpec => NoticesKeepOutbox
<1>1. NotifInit => NoticeOutbox!Init /\ FollowInv
  BY NoticesAtFirst, IdleRunOK DEF NotifInit, FollowInv, Follows
<1>2. NoticeInv /\ FollowInv /\ [NotifNext]_notifVars => FollowInv'
  BY FollowStep
<1>3. NoticeInv /\ FollowInv /\ NoticeInv' /\ [NotifNext]_notifVars
        => [NoticeOutbox!Next]_NoticeOutbox!vars
  BY NoticeOutboxStep
<1> QED
  BY <1>1, <1>2, <1>3, NoticeInvariance, PTL
  DEF NotifSpec, NoticesKeepOutbox, NoticeOutbox!Spec

-----------------------------------------------------------------------------
(* Satellite watches: what matching an image's systems returns *)

\* A set of numbers has a least one.
LEMMA Least ==
    ASSUME NEW T \in SUBSET Nat, T # {}
    PROVE  \E n \in T : \A m \in T : n <= m
<1> DEFINE R == {p \in Nat \X Nat : p[1] < p[2]}
<1>1. IsWellFoundedOn(R, Nat)
  BY NatLessThanWellFounded, Zenon DEF OpToRel
<1>2. \A x, y \in Nat : <<x, y>> \in R <=> x < y
  OBVIOUS
<1> HIDE DEF R
<1>3. PICK n \in T : \A m \in T : ~(<<m, n>> \in R)
  BY <1>1, WFMin, Zenon
<1>4. ASSUME NEW m \in T PROVE n <= m
  <2>1. m \in Nat /\ n \in Nat
    OBVIOUS
  <2>2. ~(m < n)
    BY <1>2, <1>3, <2>1
  <2> QED
    BY <2>1, <2>2
<1> QED
  BY <1>4

WatchRow == [active : BOOLEAN, gone : BOOLEAN, at : Places, seen : 1 .. hour]

\* Watches are numbered from 1, and a row that was pruned is not active.
Numbered(ws) == /\ \E n \in Nat : ws \in [1 .. n -> WatchRow]
                /\ \A w \in DOMAIN ws : ws[w].gone => ~ws[w].active

\* After i systems: as many watches are taken, each where its system is, and the
\* others are as they were.
AfterSystems(old, sky, i, acc) ==
    /\ Numbered(acc.rows) /\ DOMAIN old \subseteq DOMAIN acc.rows
    /\ acc.touched \subseteq DOMAIN acc.rows
    /\ IsFiniteSet(acc.touched) /\ Cardinality(acc.touched) = i
    /\ \A w \in acc.touched : /\ acc.rows[w].active
                              /\ \E j \in 1 .. i : acc.rows[w].at = sky[j]
    /\ \A j \in 1 .. i : \E w \in acc.touched : acc.rows[w].at = sky[j]
    /\ \A w \in DOMAIN acc.rows \ acc.touched : w \in DOMAIN old /\ acc.rows[w] = old[w]

\* There is a nearest one.
LEMMA NearestIsOne ==
    ASSUME NEW old, NEW ws, ws # {}, NEW place \in Nat, \A w \in ws : old[w].at \in Nat
    PROVE  Nearest(old, ws, place) \in ws
<1> DEFINE far(w) == Distance(place, old[w].at)
           T == {far(w) : w \in ws}
<1>1. \A w \in ws : far(w) \in Nat
  BY DEF Distance
<1> HIDE DEF far
<1>2. T \in SUBSET Nat /\ T # {}
  BY <1>1
<1>3. PICK n \in T : \A m \in T : n <= m
  BY <1>2, Least
<1>4. PICK w \in ws : n = far(w)
  BY <1>3
<1>5. \A v \in ws : far(w) <= far(v)
  BY <1>3, <1>4
<1>6. \E x \in ws : \A v \in ws : Distance(place, old[x].at) <= Distance(place, old[v].at)
  BY <1>5 DEF far
<1> QED
  BY <1>6 DEF Nearest

\* A number no row has.
LEMMA FreshIsNew ==
    ASSUME NEW ws, NEW n \in Nat, ws \in [1 .. n -> WatchRow]
    PROVE  Fresh(ws) = n + 1
<1>1. Cardinality(1 .. n) = n
  BY FS_Interval
<1>2. DOMAIN ws = 1 .. n
  OBVIOUS
<1> QED
  BY <1>1, <1>2 DEF Fresh

LEMMA OneMoreSystem ==
    ASSUME hour \in Nat, Places \subseteq Nat, NEW old, Numbered(old), NEW sky, NEW i \in Nat,
           sky[i + 1] \in Places, hour >= 1, NEW acc, AfterSystems(old, sky, i, acc)
    PROVE  AfterSystems(old, sky, i + 1, MatchOne(old, acc, sky[i + 1]))
<1> DEFINE place == sky[i + 1]
           near == Candidates(old, acc.touched, place)
           w == IF near = {} THEN Fresh(acc.rows) ELSE Nearest(old, near, place)
           rows == [v \in DOMAIN acc.rows \cup {w} |-> IF v = w THEN Seen(place) ELSE acc.rows[v]]
           next == MatchOne(old, acc, sky[i + 1])
<1>1. next.touched = acc.touched \cup {w} /\ next.rows = rows
  BY DEF MatchOne
<1>2. PICK n \in Nat : acc.rows \in [1 .. n -> WatchRow]
  BY DEF AfterSystems, Numbered
<1>3. \A v \in DOMAIN old : old[v].at \in Nat
  BY DEF Numbered, WatchRow
<1>4. near \subseteq DOMAIN old \ acc.touched
  BY DEF Candidates
<1> HIDE DEF near, next
<1>5. w \notin acc.touched /\ w \in 1 .. n + 1
  <2>1. CASE near = {}
    <3>1. w = n + 1
      BY <1>2, <2>1, FreshIsNew
    <3> QED
      BY <1>2, <3>1 DEF AfterSystems
  <2>2. CASE near # {}
    <3>1. w \in near
      BY <1>3, <1>4, <2>2, NearestIsOne
    <3> QED
      BY <1>2, <1>4, <3>1 DEF AfterSystems
  <2> QED
    BY <2>1, <2>2
<1>6. w \in 1 .. n \/ w = n + 1
  BY <1>5
<1>7. Seen(place) \in WatchRow /\ Seen(place).active /\ ~Seen(place).gone /\ Seen(place).at = place
  BY DEF Seen, WatchRow
<1> HIDE DEF w
<1>8. \E m \in Nat : rows \in [1 .. m -> WatchRow]
  <2>1. CASE w \in 1 .. n
    <3>1. rows \in [1 .. n -> WatchRow]
      BY <1>2, <1>7, <2>1
    <3> QED
      BY <3>1
  <2>2. CASE w = n + 1
    <3>1. 1 .. n \cup {n + 1} = 1 .. n + 1
      OBVIOUS
    <3>2. rows \in [1 .. n + 1 -> WatchRow]
      BY <1>2, <1>7, <2>2, <3>1
    <3> QED
      BY <3>2
  <2> QED
    BY <1>6, <2>1, <2>2
<1>9. /\ rows[w] = Seen(place) /\ DOMAIN rows = DOMAIN acc.rows \cup {w}
      /\ \A v \in DOMAIN acc.rows : v # w => rows[v] = acc.rows[v]
  OBVIOUS
<1> HIDE DEF rows, place
<1>10. Numbered(rows)
  <2>1. \A v \in DOMAIN acc.rows : acc.rows[v].gone => ~acc.rows[v].active
    BY DEF AfterSystems, Numbered
  <2>2. \A v \in DOMAIN rows : rows[v].gone => ~rows[v].active
    BY <1>7, <1>9, <2>1
  <2> QED
    BY <1>8, <2>2 DEF Numbered
<1>11. IsFiniteSet(next.touched) /\ Cardinality(next.touched) = i + 1
  <2>1. IsFiniteSet(acc.touched) /\ Cardinality(acc.touched) = i /\ w \notin acc.touched
    BY <1>5 DEF AfterSystems
  <2>2. /\ IsFiniteSet(acc.touched \cup {w})
        /\ Cardinality(acc.touched \cup {w}) = Cardinality(acc.touched) + 1
    BY <2>1, FS_AddElement
  <2> QED
    BY <1>1, <2>1, <2>2
<1>12. \A v \in next.touched : /\ rows[v].active
                               /\ \E j \in 1 .. i + 1 : rows[v].at = sky[j]
  <2> TAKE v \in next.touched
  <2>1. CASE v = w
    BY <1>7, <1>9, <2>1 DEF place
  <2>2. CASE v # w
    <3>1. v \in acc.touched /\ rows[v] = acc.rows[v]
      BY <1>1, <1>9, <2>2 DEF AfterSystems
    <3>2. PICK j \in 1 .. i : acc.rows[v].at = sky[j]
      BY <3>1 DEF AfterSystems
    <3> QED
      BY <3>1, <3>2 DEF AfterSystems
  <2> QED
    BY <2>1, <2>2
<1>13. \A j \in 1 .. i + 1 : \E v \in next.touched : rows[v].at = sky[j]
  <2> TAKE j \in 1 .. i + 1
  <2>1. CASE j = i + 1
    BY <1>1, <1>7, <1>9, <2>1 DEF place
  <2>2. CASE j # i + 1
    <3>1. j \in 1 .. i
      BY <2>2
    <3>2. PICK v \in acc.touched : acc.rows[v].at = sky[j]
      BY <3>1 DEF AfterSystems
    <3> QED
      BY <1>1, <1>5, <1>9, <3>2 DEF AfterSystems
  <2> QED
    BY <2>1, <2>2
<1>14. \A v \in DOMAIN rows \ next.touched : v \in DOMAIN old /\ rows[v] = old[v]
  BY <1>1, <1>9 DEF AfterSystems
<1>15. DOMAIN old \subseteq DOMAIN rows /\ next.touched \subseteq DOMAIN rows
  BY <1>1, <1>9 DEF AfterSystems
<1>16. AfterSystems(old, sky, i + 1, next)
  BY <1>1, <1>10, <1>11, <1>12, <1>13, <1>14, <1>15 DEF AfterSystems
<1> QED
  BY <1>16 DEF next

MatchStep(old, sky, acc, i) ==
    IF i = 0 THEN [touched |-> {}, rows |-> old] ELSE MatchOne(old, acc[i - 1], sky[i])

\* The recursion has a value up to every system.
LEMMA MatchingIsDefined ==
    ASSUME NEW old, NEW sky, NEW n \in Nat
    PROVE  \E acc : acc = [i \in 0 .. n |-> MatchStep(old, sky, acc, i)]
<1> DEFINE T == {k \in Nat : ~ \E acc : acc = [i \in 0 .. k |-> MatchStep(old, sky, acc, i)]}
<1> SUFFICES ASSUME T # {} PROVE FALSE
  OBVIOUS
<1>1. PICK k \in T : \A m \in T : k <= m
  BY Least
<1>2. k \in Nat /\ ~ \E acc : acc = [i \in 0 .. k |-> MatchStep(old, sky, acc, i)]
  OBVIOUS
<1>3. CASE k = 0
  <2> DEFINE f == [i \in 0 .. 0 |-> [touched |-> {}, rows |-> old]]
  <2>1. f = [i \in 0 .. 0 |-> MatchStep(old, sky, f, i)]
    BY DEF MatchStep
  <2> QED
    BY <1>2, <1>3, <2>1
<1>4. CASE k # 0
  <2>1. k - 1 \in Nat /\ k - 1 \notin T
    BY <1>1, <1>2, <1>4
  <2>2. PICK f : f = [i \in 0 .. k - 1 |-> MatchStep(old, sky, f, i)]
    BY <2>1
  <2> HIDE DEF T
  <2> DEFINE g == [i \in 0 .. k |-> IF i = k THEN MatchOne(old, f[k - 1], sky[k]) ELSE f[i]]
  <2>3. \A i \in 0 .. k : g[i] = MatchStep(old, sky, g, i)
    <3> TAKE i \in 0 .. k
    <3>1. CASE i = k
      <4>1. g[k - 1] = f[k - 1] /\ g[k] = MatchOne(old, f[k - 1], sky[k])
        BY <1>2, <1>4
      <4> QED
        BY <1>4, <3>1, <4>1 DEF MatchStep
    <3>2. CASE i # k
      <4>1. i \in 0 .. k - 1 /\ g[i] = f[i]
        BY <1>2, <3>2
      <4>2. i # 0 => i - 1 \in 0 .. k /\ i - 1 # k /\ g[i - 1] = f[i - 1]
        BY <1>2, <3>2
      <4>3. f[i] = MatchStep(old, sky, f, i)
        BY <2>2, <4>1
      <4> HIDE DEF g
      <4> QED
        BY <4>1, <4>2, <4>3 DEF MatchStep
    <3> QED
      BY <3>1, <3>2
  <2>4. g = [i \in 0 .. k |-> g[i]]
    OBVIOUS
  <2> HIDE DEF g
  <2>5. g = [i \in 0 .. k |-> MatchStep(old, sky, g, i)]
    BY <2>3, <2>4
  <2> QED
    BY <1>2, <2>5
<1> QED
  BY <1>3, <1>4

\* MatchAll takes a watch for each system of the image.
LEMMA AllMatched ==
    ASSUME hour \in Nat, hour >= 1, Places \subseteq Nat, NEW old, Numbered(old),
           NEW sky \in Seq(Places)
    PROVE  AfterSystems(old, sky, Len(sky), MatchAll(old, sky))
<1>1. PICK acc : /\ acc = [i \in 0 .. Len(sky) |-> MatchStep(old, sky, acc, i)]
                 /\ MatchAll(old, sky) = acc[Len(sky)]
  <2>1. Len(sky) \in Nat
    OBVIOUS
  <2>2. \E acc : acc = [i \in 0 .. Len(sky) |-> MatchStep(old, sky, acc, i)]
    BY <2>1, MatchingIsDefined
  <2> DEFINE all == CHOOSE acc : acc = [i \in 0 .. Len(sky) |-> MatchStep(old, sky, acc, i)]
  <2>3. all = [i \in 0 .. Len(sky) |-> MatchStep(old, sky, all, i)]
    BY <2>2
  <2>4. MatchAll(old, sky) = all[Len(sky)]
    BY DEF MatchAll, MatchStep
  <2> QED
    BY <2>3, <2>4
<1> DEFINE T == {i \in 0 .. Len(sky) : ~AfterSystems(old, sky, i, acc[i])}
<1>2. CASE T = {}
  BY <1>1, <1>2
<1>3. CASE T # {}
  <2>0. T \in SUBSET Nat
    OBVIOUS
  <2>1. PICK i \in T : \A j \in T : i <= j
    <3> HIDE DEF T
    <3> QED
      BY <1>3, <2>0, Least
  <2>2. i \in 0 .. Len(sky) /\ ~AfterSystems(old, sky, i, acc[i]) /\ Len(sky) \in Nat
    OBVIOUS
  <2>3. CASE i = 0
    <3>1. acc[0] = [touched |-> {}, rows |-> old]
      BY <1>1, <2>2, <2>3 DEF MatchStep
    <3>2. acc[0].touched = {} /\ acc[0].rows = old
      BY <3>1
    <3>3. AfterSystems(old, sky, 0, acc[0])
      BY <3>2, FS_EmptySet DEF AfterSystems
    <3> QED
      BY <2>2, <2>3, <3>3
  <2>4. CASE i # 0
    <3>1. i - 1 \in Nat /\ i - 1 \in 0 .. Len(sky) /\ i - 1 \notin T
      BY <2>1, <2>2, <2>4
    <3>2. AfterSystems(old, sky, i - 1, acc[i - 1])
      BY <3>1
    <3>3. acc[i] = MatchOne(old, acc[i - 1], sky[i])
      BY <1>1, <2>2, <2>4 DEF MatchStep
    <3>4. sky[i] \in Places /\ (i - 1) + 1 = i
      BY <2>2, <2>4
    <3> HIDE DEF T
    <3>5. AfterSystems(old, sky, (i - 1) + 1, MatchOne(old, acc[i - 1], sky[(i - 1) + 1]))
      BY <3>1, <3>2, <3>4, OneMoreSystem
    <3> QED
      BY <2>2, <3>3, <3>4, <3>5
  <2> QED
    BY <2>3, <2>4
<1> QED
  BY <1>2, <1>3

\* The active watches are then the systems of the image, one each; those taken by none
\* are dissipated.
LEMMA MatchedAreSystems ==
    ASSUME hour \in Nat, hour >= 1, Places \subseteq Nat, NEW old, Numbered(old),
           NEW sky \in Seq(Places), NEW m, m = Matched(old, sky)
    PROVE  /\ Numbered(m.rows) /\ DOMAIN old \subseteq DOMAIN m.rows
           /\ {w \in DOMAIN m.rows : m.rows[w].active} = m.touched
           /\ {m.rows[w].at : w \in m.touched} = ToSet(sky)
           /\ Cardinality(m.touched) = Len(sky)
           /\ m.dissipated = {w \in DOMAIN old : old[w].active} \ m.touched
<1> DEFINE all == MatchAll(old, sky)
           others == [w \in DOMAIN all.rows |->
                        IF w \in all.touched THEN all.rows[w]
                        ELSE [all.rows[w] EXCEPT !.active = FALSE]]
<1>1. /\ m.touched = all.touched /\ m.rows = others
      /\ m.dissipated = {w \in DOMAIN old : old[w].active} \ all.touched
  BY DEF Matched
<1>2. AfterSystems(old, sky, Len(sky), all)
  BY AllMatched
<1>3. Len(sky) \in Nat /\ DOMAIN sky = 1 .. Len(sky)
  OBVIOUS
<1> HIDE DEF all
<1>4. PICK n \in Nat : all.rows \in [1 .. n -> WatchRow]
  BY <1>2 DEF AfterSystems, Numbered
<1>5. \A w \in 1 .. n : /\ others[w] \in WatchRow
                        /\ w \in all.touched => others[w] = all.rows[w]
                        /\ w \notin all.touched => /\ ~others[w].active
  <2> TAKE w \in 1 .. n
  <2>1. all.rows[w] \in WatchRow
    BY <1>4
  <2>2. [all.rows[w] EXCEPT !.active = FALSE] \in WatchRow
    BY <2>1 DEF WatchRow
  <2>3. [all.rows[w] EXCEPT !.active = FALSE].active = FALSE
    BY <2>1 DEF WatchRow
  <2> QED
    BY <1>4, <2>1, <2>2, <2>3
<1>6. DOMAIN others = 1 .. n /\ others = [w \in 1 .. n |-> others[w]]
  BY <1>4
<1>7. all.touched \subseteq 1 .. n
  BY <1>2, <1>4 DEF AfterSystems
<1> HIDE DEF others
<1>8. others \in [1 .. n -> WatchRow]
  BY <1>5, <1>6
<1>9. \A w \in all.touched : others[w].active /\ ~others[w].gone
  BY <1>2, <1>5, <1>7 DEF AfterSystems, Numbered
<1>10. Numbered(others)
  BY <1>5, <1>6, <1>8, <1>9 DEF Numbered
<1>11. {w \in DOMAIN others : others[w].active} = all.touched
  BY <1>5, <1>6, <1>7, <1>9
<1>12. {others[w].at : w \in all.touched} = ToSet(sky)
  <2>1. \A w \in all.touched : others[w] = all.rows[w]
    BY <1>5, <1>7
  <2>2. /\ \A w \in all.touched : \E j \in 1 .. Len(sky) : all.rows[w].at = sky[j]
        /\ \A j \in 1 .. Len(sky) : \E w \in all.touched : all.rows[w].at = sky[j]
    BY <1>2 DEF AfterSystems
  <2>3. ASSUME NEW w \in all.touched PROVE others[w].at \in ToSet(sky)
    <3>1. PICK j \in 1 .. Len(sky) : all.rows[w].at = sky[j]
      BY <2>2
    <3> QED
      BY <1>3, <2>1, <3>1 DEF ToSet
  <2>4. ASSUME NEW x \in ToSet(sky) PROVE \E w \in all.touched : others[w].at = x
    <3>1. PICK j \in 1 .. Len(sky) : x = sky[j]
      BY <1>3 DEF ToSet
    <3>2. PICK w \in all.touched : all.rows[w].at = sky[j]
      BY <2>2
    <3> QED
      BY <2>1, <3>1, <3>2
  <2> QED
    BY <2>3, <2>4
<1>13. DOMAIN old \subseteq DOMAIN others /\ Cardinality(all.touched) = Len(sky)
  BY <1>2, <1>4, <1>6 DEF AfterSystems
<1> QED
  BY <1>1, <1>10, <1>11, <1>12, <1>13

\* Pruning marks inactive rows.
LEMMA PruningKeepsActives ==
    ASSUME NEW ws, Numbered(ws)
    PROVE  /\ Numbered(Pruned(ws)) /\ DOMAIN Pruned(ws) = DOMAIN ws
           /\ \A w \in DOMAIN ws : /\ Pruned(ws)[w].active = ws[w].active
                                   /\ Pruned(ws)[w].at = ws[w].at
<1>1. PICK n \in Nat : ws \in [1 .. n -> WatchRow]
  BY DEF Numbered
<1>2. DOMAIN Pruned(ws) = 1 .. n /\ DOMAIN ws = 1 .. n
  BY <1>1 DEF Pruned
<1>3. \A w \in 1 .. n : /\ Pruned(ws)[w] \in WatchRow
                        /\ Pruned(ws)[w].active = ws[w].active /\ Pruned(ws)[w].at = ws[w].at
                        /\ Pruned(ws)[w].gone => ~ws[w].active
  <2> TAKE w \in 1 .. n
  <2>1. ws[w] \in WatchRow /\ (ws[w].gone => ~ws[w].active)
    BY <1>1 DEF Numbered
  <2>2. CASE ~ws[w].active /\ ws[w].seen + MaxAge < hour
    <3>1. Pruned(ws)[w] = [ws[w] EXCEPT !.gone = TRUE]
      BY <1>1, <2>2 DEF Pruned
    <3> QED
      BY <2>1, <2>2, <3>1 DEF WatchRow
  <2>3. CASE ~(~ws[w].active /\ ws[w].seen + MaxAge < hour)
    <3>1. Pruned(ws)[w] = ws[w]
      BY <1>1, <2>3 DEF Pruned
    <3> QED
      BY <2>1, <3>1
  <2> QED
    BY <2>2, <2>3
<1>4. Pruned(ws) = [w \in 1 .. n |-> Pruned(ws)[w]]
  BY <1>1 DEF Pruned
<1>5. Pruned(ws) \in [1 .. n -> WatchRow]
  BY <1>3, <1>4
<1> QED
  BY <1>2, <1>3, <1>5 DEF Numbered

-----------------------------------------------------------------------------
(* Satellite watches: the steps *)

SatTypes ==
    /\ hour \in Nat /\ hour >= 1 /\ pauses \in 0 .. MaxPauses /\ enabled \subseteq Sites
    /\ Listed \subseteq 1 .. hour /\ catalogue \in [Listed -> Skies]
    /\ images \subseteq Listed /\ live \in Listed \cup {0}
    /\ Numbered(watches)
    /\ alerted \subseteq Sites \X (DOMAIN watches) \X {"detected", "dissipated"}

\* Until a location is switched off every one is told.
SatInv == /\ SatTypes /\ WatchesAreSystems /\ DissipationIsTold
          /\ pauses = MaxPauses => enabled = Sites

\* The newest frame of those asked for is the newest there is.
LEMMA LatestIsNewest ==
    ASSUME SatInv, NEW f \in Listed, Selected(f), IsLatest(f)
    PROVE  \A g \in Listed : g <= f
<1> SUFFICES ASSUME NEW g \in Listed, ~(g <= f) PROVE FALSE
  OBVIOUS
<1>1. Listed \subseteq Nat /\ IsFiniteSet(Listed)
  <2>1. Listed \subseteq 1 .. hour /\ hour \in Nat
    BY DEF SatInv, SatTypes
  <2>2. IsFiniteSet(1 .. hour)
    BY <2>1, FS_Interval
  <2> HIDE DEF Listed
  <2>3. IsFiniteSet(Listed)
    BY <2>1, <2>2, FS_Subset
  <2> QED
    BY <2>1, <2>3
<1>2. g > f /\ g \in Nat /\ f \in Nat
  BY <1>1
<1>3. g \notin Items
  BY <1>2 DEF IsLatest
<1> DEFINE after(x) == {h \in Listed : h > x}
<1>4. Cardinality(after(f)) < Playback /\ ~(Cardinality(after(g)) < Playback)
  BY <1>3 DEF Selected, Items
<1>5. after(g) \subseteq after(f)
  <2>1. ASSUME NEW h \in Listed, h > g PROVE h > f
    BY <1>1, <1>2, <2>1
  <2> QED
    BY <2>1
<1>6. IsFiniteSet(after(f)) /\ IsFiniteSet(after(g))
  BY <1>1, FS_Subset
<1> HIDE DEF after
<1>7. /\ Cardinality(after(g)) <= Cardinality(after(f))
      /\ Cardinality(after(g)) \in Nat /\ Cardinality(after(f)) \in Nat
  BY <1>5, <1>6, FS_Subset, FS_CardinalityType
<1> QED
  BY <1>4, <1>7, SatelliteConstants DEF SatelliteConstants

\* A frame that only fills the playback is older than the one that drove the watches.
LEMMA OlderFrame ==
    ASSUME SatInv, NEW f \in Listed, Selected(f), ~IsLatest(f)
    PROVE  f <= live
<1>1. Listed \subseteq Nat /\ live \in Nat
  <2>1. Listed \subseteq 1 .. hour /\ hour \in Nat /\ live \in Listed \cup {0}
    BY DEF SatInv, SatTypes
  <2> HIDE DEF Listed
  <2> QED
    BY <2>1
<1>2. Items \subseteq Listed
  BY DEF Items
<1>3. PICK g \in Items : ~(g <= f)
  BY DEF IsLatest
<1>4. g \in images
  BY <1>3 DEF Selected
<1>5. g <= live
  BY <1>4 DEF SatInv, WatchesAreSystems
<1> QED
  BY <1>1, <1>2, <1>3, <1>5

LEMMA SatInitially == SatInit => SatInv
<1> SUFFICES ASSUME SatInit PROVE SatInv
  OBVIOUS
<1>1. DOMAIN catalogue = {} /\ DOMAIN watches = {}
  BY DEF SatInit
<1>2. Numbered(watches)
  <2>1. watches \in [1 .. 0 -> WatchRow]
    BY <1>1 DEF SatInit
  <2> QED
    BY <1>1, <2>1 DEF Numbered
<1>3. SatTypes
  <2>1. catalogue \in [Listed -> Skies] /\ Listed = {}
    BY <1>1 DEF SatInit, Listed
  <2> QED
    BY <1>2, <2>1, SatelliteConstants DEF SatInit, SatTypes, SatelliteConstants
<1> QED
  BY <1>1, <1>3 DEF SatInit, SatInv, WatchesAreSystems, DissipationIsTold

\* Steps that leave the watches, what was told of them and the frame that drove them.
LEMMA WatchesKept ==
    ASSUME SatInv, SatTypes', UNCHANGED <<watches, alerted, live>>,
           \A g \in images' : g <= live, \A g \in Listed : catalogue'[g] = catalogue[g],
           UNCHANGED <<enabled, pauses>> \/ pauses' # MaxPauses
    PROVE  SatInv'
<1>1. live # 0 => catalogue'[live] = catalogue[live]
  BY DEF SatInv, SatTypes
<1>2. WatchesAreSystems'
  BY <1>1 DEF SatInv, WatchesAreSystems
<1>3. DissipationIsTold' /\ (pauses' = MaxPauses => enabled' = Sites)
  BY DEF SatInv, DissipationIsTold
<1> QED
  BY <1>2, <1>3 DEF SatInv

\* A row's type allows for a later hour.
LEMMA LaterRows ==
    ASSUME SatTypes, hour' \in Nat, hour <= hour', UNCHANGED watches
    PROVE  Numbered(watches)'
<1>1. PICK n \in Nat : watches \in [1 .. n -> WatchRow]
  BY DEF SatTypes, Numbered
<1>2. hour \in Nat
  BY DEF SatTypes
<1>3. ASSUME NEW w \in 1 .. n PROVE watches[w] \in WatchRow'
  <2>1. watches[w] \in WatchRow
    BY <1>1
  <2> QED
    BY <1>2, <2>1 DEF WatchRow
<1>4. watches' \in [1 .. n -> WatchRow']
  BY <1>1, <1>3
<1> QED
  BY <1>4 DEF SatTypes, Numbered

LEMMA WorldKept ==
    ASSUME SatInv,
           \/ \E f \in 1 .. hour, sky \in Skies : Publish(f, sky)
           \/ HourPasses
           \/ \E l \in Sites : SwitchSite(l)
           \/ UNCHANGED satVars
    PROVE  SatInv'
<1>0. SatTypes /\ live \in Nat /\ \A g \in images : g <= live
  <2>1. SatTypes
    BY DEF SatInv
  <2>2. live \in Nat
    BY <2>1 DEF SatTypes
  <2> QED
    BY <2>1, <2>2 DEF SatInv, WatchesAreSystems
<1>1. ASSUME NEW f \in 1 .. hour, NEW sky \in Skies, Publish(f, sky) PROVE SatInv'
  <2>1. /\ Listed' = Listed \cup {f} /\ catalogue' \in [Listed' -> Skies]
        /\ \A g \in Listed : catalogue'[g] = catalogue[g]
    <3>1. f \notin Listed
      BY <1>0, <1>1 DEF SatTypes, Publish
    <3>2. \A g \in Listed : catalogue[g] \in Skies
      BY <1>0 DEF SatTypes
    <3>3. catalogue' = [g \in Listed \cup {f} |-> IF g = f THEN sky ELSE catalogue[g]]
      BY <1>1 DEF Publish
    <3>4. Listed' = Listed \cup {f}
      BY <3>3 DEF Listed
    <3> QED
      BY <3>1, <3>2, <3>3, <3>4
  <2>2. UNCHANGED <<hour, images, watches, alerted, enabled, pauses, live>>
    BY <1>1 DEF Publish
  <2>3. SatTypes'
    BY <1>0, <2>1, <2>2, LaterRows DEF SatTypes
  <2> QED
    BY <1>0, <2>1, <2>2, <2>3, WatchesKept
<1>2. ASSUME HourPasses PROVE SatInv'
  <2>1. /\ hour' = hour + 1
        /\ UNCHANGED <<catalogue, images, watches, alerted, enabled, pauses, live>>
    BY <1>2 DEF HourPasses
  <2>2. UNCHANGED Listed
    BY <2>1 DEF Listed
  <2>3. hour' \in Nat /\ hour <= hour' /\ hour' >= 1 /\ Listed' \subseteq 1 .. hour'
    BY <1>0, <2>1, <2>2 DEF SatTypes
  <2>4. SatTypes'
    BY <1>0, <2>1, <2>2, <2>3, LaterRows DEF SatTypes
  <2> QED
    BY <1>0, <2>1, <2>4, WatchesKept
<1>3. ASSUME NEW l \in Sites, SwitchSite(l) PROVE SatInv'
  <2>1. /\ pauses > 0 /\ pauses' = pauses - 1 /\ enabled' \in SUBSET Sites
        /\ UNCHANGED <<hour, catalogue, images, watches, alerted, live>>
    BY <1>0, <1>3 DEF SatTypes, SwitchSite
  <2>2. UNCHANGED Listed
    BY <2>1 DEF Listed
  <2>3. pauses' \in 0 .. MaxPauses /\ pauses' # MaxPauses
    BY <1>0, <2>1, SatelliteConstants DEF SatTypes, SatelliteConstants
  <2>4. SatTypes'
    BY <1>0, <2>1, <2>2, <2>3, LaterRows DEF SatTypes
  <2> QED
    BY <1>0, <2>1, <2>3, <2>4, WatchesKept
<1>4. ASSUME UNCHANGED satVars PROVE SatInv'
  <2>1. UNCHANGED <<hour, catalogue, images, watches, alerted, enabled, pauses, live>>
    BY <1>4 DEF satVars
  <2>2. UNCHANGED Listed
    BY <2>1 DEF Listed
  <2>3. SatTypes'
    BY <1>0, <2>1, <2>2, LaterRows DEF SatTypes
  <2> QED
    BY <1>0, <2>1, <2>3, WatchesKept
<1> QED
  BY <1>1, <1>2, <1>3, <1>4

LEMMA BackfillKept ==
    ASSUME SatInv, NEW f \in Listed, Backfill(f)
    PROVE  SatInv'
<1>1. /\ images' = Persisted(f)
      /\ UNCHANGED <<hour, catalogue, watches, alerted, enabled, pauses, live>>
  BY DEF Backfill
<1>2. f <= live
  BY OlderFrame DEF Backfill
<1>3. \A g \in images' : g <= live
  BY <1>1, <1>2 DEF SatInv, WatchesAreSystems, Persisted
<1>4. images' \subseteq Listed /\ UNCHANGED Listed
  BY <1>1 DEF SatInv, SatTypes, Persisted, Listed
<1>5. SatTypes'
  BY <1>1, <1>4, LaterRows DEF SatInv, SatTypes
<1> QED
  BY <1>1, <1>3, <1>5, WatchesKept

LEMMA DetectKept ==
    ASSUME SatInv, NEW f \in Listed, Detect(f)
    PROVE  SatInv'
<1> DEFINE m == Matched(watches, catalogue[f])
           actives == {w \in DOMAIN watches' : watches'[w].active}
<1>1. /\ images' = Persisted(f) /\ watches' = Pruned(m.rows) /\ live' = f
      /\ alerted' = alerted \cup Alerts(m)
      /\ UNCHANGED <<hour, catalogue, enabled, pauses>>
  BY DEF Detect
<1>2. SatTypes
  BY DEF SatInv
<1>3. /\ hour \in Nat /\ hour >= 1 /\ Places \subseteq Nat /\ Numbered(watches)
      /\ catalogue[f] \in Seq(Places)
  BY <1>2, SatelliteConstants DEF SatTypes, SatelliteConstants
<1>4. /\ Numbered(m.rows) /\ DOMAIN watches \subseteq DOMAIN m.rows
      /\ {w \in DOMAIN m.rows : m.rows[w].active} = m.touched
      /\ {m.rows[w].at : w \in m.touched} = ToSet(catalogue[f])
      /\ Cardinality(m.touched) = Len(catalogue[f])
      /\ m.dissipated = {w \in DOMAIN watches : watches[w].active} \ m.touched
  BY <1>3, MatchedAreSystems
<1> HIDE DEF m
<1>5. /\ Numbered(watches') /\ DOMAIN watches' = DOMAIN m.rows
      /\ \A w \in DOMAIN m.rows : /\ watches'[w].active = m.rows[w].active
                                  /\ watches'[w].at = m.rows[w].at
  BY <1>1, <1>4, PruningKeepsActives
<1>6. Numbered(watches)'
  BY <1>1, <1>5 DEF Numbered, WatchRow
<1>7. actives = m.touched /\ {watches'[w].at : w \in actives} = ToSet(catalogue[f])
  <2>1. actives = m.touched
    BY <1>4, <1>5
  <2>2. m.touched \subseteq DOMAIN m.rows
    BY <1>4
  <2>3. \A w \in m.touched : watches'[w].at = m.rows[w].at
    BY <1>5, <2>2
  <2>4. {watches'[w].at : w \in m.touched} = {m.rows[w].at : w \in m.touched}
    BY <2>3
  <2> QED
    BY <1>4, <2>1, <2>4
<1>8. images' \subseteq Listed /\ UNCHANGED Listed /\ \A g \in images' : g <= f
  <2>1. images' \subseteq Listed /\ UNCHANGED Listed
    BY <1>1, <1>2 DEF SatTypes, Persisted, Listed
  <2>2. \A g \in Listed : g <= f
    BY LatestIsNewest DEF Detect
  <2> QED
    BY <2>1, <2>2
<1>9. WatchesAreSystems'
  <2>1. f # 0
    BY <1>2 DEF SatTypes
  <2> QED
    BY <1>1, <1>4, <1>7, <1>8, <2>1 DEF WatchesAreSystems
<1>10. Alerts(m) \subseteq Sites \X (DOMAIN watches') \X {"detected", "dissipated"}
  <2>1. m.touched \subseteq DOMAIN watches' /\ m.dissipated \subseteq DOMAIN watches'
    BY <1>4, <1>5
  <2>2. enabled \subseteq Sites
    BY <1>2 DEF SatTypes
  <2> QED
    BY <2>1, <2>2 DEF Alerts
<1>11. SatTypes'
  <2>1. alerted \subseteq Sites \X (DOMAIN watches') \X {"detected", "dissipated"}
    BY <1>2, <1>4, <1>5 DEF SatTypes
  <2> QED
    BY <1>1, <1>2, <1>6, <1>8, <1>10, <2>1 DEF SatTypes
<1>12. DissipationIsTold'
  <2> SUFFICES ASSUME pauses = MaxPauses, NEW a \in alerted', ~watches'[a[2]].active
               PROVE  <<a[1], a[2], "dissipated">> \in alerted'
    BY <1>1 DEF DissipationIsTold
  <2>1. enabled = Sites
    BY DEF SatInv
  <2>2. /\ a[1] \in Sites /\ a[2] \in DOMAIN watches' /\ a[3] \in {"detected", "dissipated"}
        /\ a = <<a[1], a[2], a[3]>>
    BY <1>11 DEF SatTypes
  <2>3. CASE a[3] = "dissipated"
    BY <2>2, <2>3
  <2>4. CASE a[3] = "detected" /\ a \in alerted
    <3>1. a[2] \in DOMAIN watches
      BY <1>2, <2>4 DEF SatTypes
    <3>2. CASE ~watches[a[2]].active
      BY <1>1, <2>4, <3>2 DEF SatInv, DissipationIsTold
    <3>3. CASE watches[a[2]].active
      <4>1. a[2] \notin m.touched
        BY <1>7
      <4>2. a[2] \in m.dissipated
        BY <1>4, <3>1, <3>3, <4>1
      <4>3. <<a[1], a[2], "detected">> \in alerted
        BY <2>2, <2>4
      <4> DEFINE notice == <<a[1], a[2], "dissipated">>
      <4>4. /\ notice \in enabled \X m.dissipated \X {"dissipated"}
            /\ notice[1] = a[1] /\ notice[2] = a[2]
        BY <2>1, <2>2, <4>2
      <4> HIDE DEF notice
      <4>5. notice \in Alerts(m)
        BY <4>3, <4>4 DEF Alerts
      <4> QED
        BY <1>1, <4>5 DEF notice
    <3> QED
      BY <3>2, <3>3
  <2>5. CASE a[3] = "detected" /\ a \notin alerted
    <3>1. a \in Alerts(m)
      BY <1>1, <2>5
    <3>2. a[2] \in m.touched
      BY <2>5, <3>1 DEF Alerts
    <3> QED
      BY <1>7, <3>2
  <2> QED
    BY <2>2, <2>3, <2>4, <2>5
<1>13. pauses' = MaxPauses => enabled' = Sites
  BY <1>1 DEF SatInv
<1> QED
  BY <1>9, <1>11, <1>12, <1>13 DEF SatInv

LEMMA SatStep == ASSUME SatInv, [SatNext]_satVars PROVE SatInv'
BY BackfillKept, DetectKept, WorldKept DEF SatNext

LEMMA SatInvariance == SatSpec => []SatInv
<1>1. SatInv /\ [SatNext]_satVars => SatInv'
  BY SatStep
<1> QED
  BY <1>1, SatInitially, PTL DEF SatSpec

\* Watches are where systems may be, since an hour that has been; stored frames are of
\* the catalogue; alerts are about watches there have been.
THEOREM SatTypeCorrect == SatSpec => []SatTypeOK
<1>1. SatInv => SatTypeOK
  <2> SUFFICES ASSUME SatInv PROVE SatTypeOK
    OBVIOUS
  <2>1. \A w \in DOMAIN watches : watches[w] \in WatchRow /\ (watches[w].gone => ~watches[w].active)
    BY DEF SatInv, SatTypes, Numbered
  <2> QED
    BY <2>1 DEF SatInv, SatTypes, SatTypeOK, WatchRow
<1> QED
  BY <1>1, SatInvariance, PTL

\* The active watches are the systems of the newest frame that was processed, one each,
\* whatever frames come late or are missed, and however systems lie to one another.
THEOREM WatchesSystems == SatSpec => []WatchesAreSystems
<1>1. SatInv => WatchesAreSystems
  BY DEF SatInv
<1> QED
  BY <1>1, SatInvariance, PTL

\* A location told of a watch is told when it has gone.
THEOREM DissipationsTold == SatSpec => []DissipationIsTold
<1>1. SatInv => DissipationIsTold
  BY DEF SatInv
<1> QED
  BY <1>1, SatInvariance, PTL

\* A frame older than the one that drove the watches never drives them.
THEOREM LiveNeverRewinds == SatSpec => [][live <= live']_satVars
<1>1. SatInv /\ [SatNext]_satVars => [live <= live']_satVars
  <2> SUFFICES ASSUME SatInv, SatNext PROVE live <= live'
    OBVIOUS
  <2>1. live \in Nat /\ live \in Listed \cup {0} /\ \A g \in Listed : g \in Nat
    BY DEF SatInv, SatTypes
  <2>2. ASSUME NEW f \in Listed, Detect(f) PROVE live <= live'
    <3>1. live' = f /\ \A g \in Listed : g <= f
      BY <2>2, LatestIsNewest DEF Detect
    <3> QED
      BY <2>1, <3>1
  <2>3. CASE UNCHANGED live
    BY <2>1, <2>3
  <2> QED
    BY <2>2, <2>3 DEF SatNext, Backfill, Publish, HourPasses, SwitchSite
<1> QED
  BY <1>1, SatInvariance, PTL DEF SatSpec
=============================================================================
