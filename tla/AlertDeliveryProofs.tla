------------------------ MODULE AlertDeliveryProofs ------------------------
(***************************************************************************)
(* Proofs about AlertDelivery, for every value of the constants.           *)
(*                                                                         *)
(* However cycles overlap: a delivery that is recorded as sent was taken   *)
(* by its channel, one that is settled never waits again, and no message   *)
(* tells an older notice than its delivery's.                              *)
(*                                                                         *)
(* When beat's next execution of the task does not start before the last   *)
(* one has ended (~Overlap): the outcome recorded is true and final; a     *)
(* message leaves again only for a cycle that was lost; no backoff is      *)
(* skipped; and the queue implements Outbox.  A cycle writes what it       *)
(* computed from the rows it loaded.  That these are still the rows when   *)
(* it commits is what Unmoved says: nobody else touches a delivery but to  *)
(* delete it with its recipient.                                           *)
(***************************************************************************)
EXTENDS AlertDelivery, FiniteSetTheorems, TLAPS

WorkRow == [pc : {"idle", "run"}, at : Time, loaded : [Ids -> DeliveryRow \cup {None}],
            todo : SUBSET Ids, result : [Ids -> {"sent", "failed", None}],
            alert : [Events -> Notices \cup {None}]]

RowExists(id) == rows[id] # None

CyclesOK == work \in [Workers -> WorkRow]

LEMMA RetryDelayDoubles ==
    /\ RetryDelay(1) = RetryBase
    /\ \A attempts \in 1 .. MaxAttempts :
          /\ 2 ^ (attempts - 1) \in Nat /\ RetryDelay(attempts) \in Nat
          /\ RetryDelay(attempts + 1) = 2 * RetryDelay(attempts)
<1>1. RetryBase \in Nat /\ MaxAttempts \in Nat
  BY ConstantsAssumption DEF ConstantsAssumption
<1>2. RetryDelay(1) = RetryBase * 2 ^ 0
  BY <1>1 DEF RetryDelay
<1>3. RetryDelay(1) = RetryBase
  BY <1>1, <1>2, PowersOfTwo DEF PowersOfTwo
<1>4. ASSUME NEW attempts \in 1 .. MaxAttempts
      PROVE  /\ 2 ^ (attempts - 1) \in Nat /\ RetryDelay(attempts) \in Nat
             /\ RetryDelay(attempts + 1) = 2 * RetryDelay(attempts)
  <2> DEFINE k == attempts - 1
             power == 2 ^ k
  <2>1. k \in 0 .. MaxAttempts /\ attempts + 1 - 1 = k + 1
    BY <1>1
  <2>2. /\ RetryDelay(attempts) = RetryBase * power
        /\ RetryDelay(attempts + 1) = RetryBase * 2 ^ (k + 1)
    BY <2>1 DEF RetryDelay
  <2> HIDE DEF k
  <2>3. power \in Nat /\ 2 ^ (k + 1) = 2 * power
    BY <2>1, PowersOfTwo DEF PowersOfTwo
  <2> HIDE DEF power
  <2>4. RetryBase * power \in Nat /\ RetryBase * (2 * power) = 2 * (RetryBase * power)
    BY <1>1, <2>3
  <2> QED
    BY <2>2, <2>3, <2>4 DEF power, k
<1> QED
  BY <1>3, <1>4

LEMMA IdleWorkerOK ==
    IdleWorker \in WorkRow /\ IdleWorker.pc = "idle" /\ IdleWorker.todo = {}
BY ConstantsAssumption DEF IdleWorker, WorkRow, Time, ConstantsAssumption

-----------------------------------------------------------------------------
(* However cycles overlap *)

\* An event opens with its first notice, and a delivery's kind is that of its
\* notice: an escalation step that finds none of the kind it has read creates a
\* row where there was none, however late.
KindsInOrder ==
    /\ \A e \in Events : events[e] # None =>
          (events[e].notice = "open" <=> events[e].nth = 1)
    /\ \A id \in Ids : RowExists(id) => rows[id].kind = NoticeAt(id[1], id[3])

\* The order an event's notices come in.
Since(k, l) == k = "open" \/ l = "closed" \/ k = l

\* A loaded row was pending; while its recipient exists it is still there, with
\* the same notice_kind, and what the session knows of the event is no older.
Carried ==
    \A w \in Workers, id \in Ids : work[w].loaded[id] # None =>
        LET row == work[w].loaded[id] IN
        /\ row.status = "pending" /\ row.attempts < MaxAttempts
        /\ id[2] \in recipients => RowExists(id) /\ rows[id].kind = row.kind
        /\ events[id[1]] # None /\ Since(row.kind, events[id[1]].notice)
        /\ work[w].alert[id[1]] # None => Since(row.kind, work[w].alert[id[1]])

\* Only loaded rows are tried, and `sent' is what a channel has said.
Tried ==
    \A w \in Workers, id \in Ids :
        /\ id \in work[w].todo \/ work[w].result[id] # None =>
              work[w].pc = "run" /\ work[w].loaded[id] # None
        /\ work[w].result[id] = "sent" => accepted[id].copies > 0

\* Sent is what a channel has taken; pending has an attempt left.
Honest(id) == RowExists(id) =>
    /\ rows[id].status = "sent" => accepted[id].copies > 0
    /\ rows[id].status = "pending" => rows[id].attempts < MaxAttempts

\* What was told of a delivery is its notice or a later one.
ToldSince(id) ==
    IF RowExists(id)
    THEN /\ events[id[1]] # None /\ Since(rows[id].kind, events[id[1]].notice)
         /\ \A k \in accepted[id].told : /\ Since(rows[id].kind, k)
                                         /\ KindOf[id[2]] = "webhook" => k = rows[id].kind
    ELSE id[2] \in recipients => accepted[id].told = {}

AnyInv == /\ TypeOK
          /\ CyclesOK
          /\ Carried
          /\ Tried
          /\ KindsInOrder
          /\ \A id \in Ids : Honest(id) /\ ToldSince(id)

LEMMA SinceInOrder ==
    /\ \A k, l, m \in Notices : Since(k, l) /\ Since(l, m) => Since(k, m)
    /\ \A k \in Notices : Since(k, k)
BY DEF Since, Notices

LEMMA AnyAtFirst == ASSUME Init PROVE AnyInv
<1> USE DEF Init
<1>1. TypeOK
  BY ConstantsAssumption DEF TypeOK, Time, ConstantsAssumption, Nothing
<1>2. CyclesOK
  BY ConstantsAssumption DEF CyclesOK, WorkRow, IdleWorker, Time, ConstantsAssumption
<1>3. Carried /\ Tried
  BY NoneIsNoRow DEF Carried, Tried, IdleWorker, NoneIsNoRow
<1>4. KindsInOrder /\ \A id \in Ids : Honest(id) /\ ToldSince(id)
  BY DEF KindsInOrder, Honest, ToldSince, RowExists, Nothing
<1> QED
  BY <1>1, <1>2, <1>3, <1>4 DEF AnyInv

\* A step of a cycle that leaves the tables alone.
LEMMA TablesUnchanged ==
    ASSUME AnyInv, UNCHANGED <<now, events, recipients, rows, accepted>>,
           faults' \in 0 .. MaxFaults
    PROVE  TypeOK' /\ KindsInOrder' /\ \A id \in Ids : (Honest(id) /\ ToldSince(id))'
BY DEF AnyInv, TypeOK, KindsInOrder, Honest, ToldSince, RowExists, Ordinal, NoticeAt

LEMMA CycleStarts == ASSUME AnyInv, NEW w \in Workers, CycleStart(w) PROVE AnyInv'
<1>1. TypeOK' /\ KindsInOrder' /\ \A id \in Ids : (Honest(id) /\ ToldSince(id))'
  BY TablesUnchanged DEF CycleStart, AnyInv, TypeOK
<1>2. /\ work' = [work EXCEPT ![w] = work'[w]]
      /\ work'[w] = [pc |-> "run", at |-> now, todo |-> {id \in Ids : IsDue(id, now)},
                     loaded |-> [id \in Ids |-> IF IsDue(id, now) THEN rows[id] ELSE None],
                     result |-> [id \in Ids |-> None], alert |-> [e \in Events |-> None]]
      /\ UNCHANGED <<events, rows, recipients, accepted>>
  BY DEF CycleStart, AnyInv, CyclesOK, IdleWorker
<1>3. CyclesOK'
  <2>1. rows \in [Ids -> DeliveryRow \cup {None}] /\ now \in Time
    BY DEF AnyInv, TypeOK
  <2>2. work'[w] \in WorkRow
    BY <1>2, <2>1 DEF WorkRow
  <2> QED
    BY <1>2, <2>2 DEF AnyInv, CyclesOK
<1>4. \A v \in Workers \ {w} : work'[v] = work[v]
  BY <1>2 DEF AnyInv, CyclesOK
<1>5. \A id \in Ids :
         work'[w].loaded[id] # None => /\ work'[w].loaded[id] = rows[id]
                                       /\ RowExists(id) /\ rows[id].status = "pending"
  BY <1>2 DEF IsDue, RowExists
<1>6. \A id \in Ids : work'[w].alert[id[1]] = None /\ work'[w].result[id] = None
  BY <1>2 DEF Ids
<1>7. Carried'
  BY <1>2, <1>4, <1>5, <1>6 DEF AnyInv, Carried, Honest, ToldSince, RowExists
<1>8. Tried'
  <2>1. \A id \in Ids : id \in work'[w].todo => work'[w].loaded[id] # None
    BY <1>2 DEF IsDue
  <2> QED
    BY <1>2, <1>4, <1>6, <2>1, NoneIsNoRow DEF AnyInv, Tried, NoneIsNoRow
<1> QED
  BY <1>1, <1>3, <1>7, <1>8 DEF AnyInv

LEMMA CycleEnds == ASSUME AnyInv, NEW w \in Workers, CycleLost(w) \/ CommitFails(w) PROVE AnyInv'
<1>1. TypeOK' /\ KindsInOrder' /\ \A id \in Ids : (Honest(id) /\ ToldSince(id))'
  BY ConstantsAssumption, TablesUnchanged
  DEF CycleLost, CommitFails, AnyInv, TypeOK, ConstantsAssumption
<1>2. /\ work' = [work EXCEPT ![w] = IdleWorker]
      /\ UNCHANGED <<events, rows, recipients, accepted>>
  BY DEF CycleLost, CommitFails
<1>3. CyclesOK' /\ \A v \in Workers \ {w} : work'[v] = work[v]
  BY <1>2, IdleWorkerOK DEF AnyInv, CyclesOK
<1>4. work'[w] = IdleWorker
  BY <1>2 DEF AnyInv, CyclesOK
<1>5. Carried' /\ Tried'
  BY <1>2, <1>3, <1>4, NoneIsNoRow
  DEF AnyInv, Carried, Tried, RowExists, IdleWorker, NoneIsNoRow
<1> QED
  BY <1>1, <1>3, <1>5 DEF AnyInv

\* What an attempt tells is of its delivery's notice, or a later one.
LEMMA ContentSince ==
    ASSUME AnyInv, NEW w \in Workers, NEW id \in work[w].todo, rows[id] # None
    PROVE  /\ Content(w, id) \in Notices /\ Since(rows[id].kind, Content(w, id))
           /\ KindOf[id[2]] = "webhook" => Content(w, id) = rows[id].kind
<1>1. id \in Ids /\ work[w] \in WorkRow /\ id[1] \in Events
  <2>1. work[w] \in WorkRow
    BY DEF AnyInv, CyclesOK
  <2>2. id \in Ids
    BY <2>1 DEF WorkRow
  <2> QED
    BY <2>1, <2>2 DEF Ids
<1> DEFINE row == work[w].loaded[id]
<1>2. row \in DeliveryRow /\ rows[id].kind = row.kind
  BY <1>1 DEF AnyInv, TypeOK, Tried, Carried, WorkRow
<1>3. events[id[1]] \in EventRow /\ Since(row.kind, events[id[1]].notice)
  BY <1>1 DEF AnyInv, TypeOK, Tried, Carried
<1>4. /\ work[w].alert[id[1]] \in Notices \cup {None}
      /\ work[w].alert[id[1]] # None => Since(row.kind, work[w].alert[id[1]])
  BY <1>1 DEF AnyInv, Tried, Carried, WorkRow
<1> QED
  BY <1>2, <1>3, <1>4, SinceInOrder DEF Content, DeliveryRow, EventRow

LEMMA Attempts ==
    ASSUME AnyInv, NEW w \in Workers, NEW id \in Ids, NEW ok \in BOOLEAN, Attempt(w, id, ok)
    PROVE  AnyInv'
<1> DEFINE said == IF ok THEN "sent" ELSE "failed"
           told == Content(w, id)
<1>1. /\ id \in work[w].todo /\ work[w] \in WorkRow
      /\ work' = [work EXCEPT ![w] = work'[w]]
      /\ work'[w] = [work[w] EXCEPT !.todo = @ \ {id}, !.result[id] = said,
                                    !.alert = Loaded(w, id)]
      /\ UNCHANGED <<now, faults, events, recipients, rows>>
  BY DEF Attempt, AnyInv, CyclesOK
<1>2. accepted' = IF ok THEN [accepted EXCEPT ![id] =
                        [copies |-> @.copies + 1, told |-> @.told \cup {told}]]
                  ELSE accepted
  BY DEF Attempt
<1>3. ok => /\ RowExists(id) /\ told \in Notices /\ Since(rows[id].kind, told)
            /\ KindOf[id[2]] = "webhook" => told = rows[id].kind
  BY <1>1, ContentSince DEF Attempt, RowExists
<1> HIDE DEF said, told
<1>4. said \in {"sent", "failed"} /\ (said = "sent" => ok)
  BY DEF said
<1>5. /\ id[1] \in Events /\ work[w].pc = "run" /\ work[w].loaded[id] \in DeliveryRow
      /\ events \in [Events -> EventRow \cup {None}]
      /\ accepted \in [Ids -> [copies : Nat, told : SUBSET Notices]]
  BY <1>1 DEF Ids, AnyInv, Tried, WorkRow, TypeOK
<1>6. \A i \in Ids : /\ accepted'[i].copies >= accepted[i].copies /\ accepted'[i].copies \in Nat
                     /\ \/ accepted'[i].told = accepted[i].told
                        \/ /\ i = id /\ ok
                           /\ accepted'[i].told = accepted[i].told \cup {told}
  <2> TAKE i \in Ids
  <2>1. accepted[i].copies \in Nat /\ accepted[i].told \subseteq Notices
    BY <1>5
  <2>2. CASE i = id /\ ok
    BY <1>2, <1>5, <2>1, <2>2
  <2>3. CASE ~(i = id /\ ok)
    <3>1. accepted'[i] = accepted[i]
      BY <1>2, <1>5, <2>3
    <3>2. accepted'[i].copies = accepted[i].copies /\ accepted'[i].told = accepted[i].told
      BY <3>1
    <3>3. accepted'[i].copies >= accepted[i].copies /\ accepted'[i].copies \in Nat
      BY <2>1, <3>2
    <3> QED
      BY <3>2, <3>3
  <2> QED
    BY <2>2, <2>3
<1>7. accepted' \in [Ids -> [copies : Nat, told : SUBSET Notices]]
  BY <1>2, <1>3, <1>5
<1>8. ok => accepted'[id].copies > 0
  <2> SUFFICES ASSUME ok PROVE accepted'[id].copies > 0
    OBVIOUS
  <2>1. accepted'[id].copies = accepted[id].copies + 1 /\ accepted[id].copies \in Nat
    BY <1>2, <1>5
  <2> QED
    BY <2>1
<1>9. TypeOK' /\ KindsInOrder'
  BY <1>1, <1>7 DEF AnyInv, TypeOK, KindsInOrder, RowExists, Ordinal, NoticeAt
<1>10. /\ Loaded(w, id) \in [Events -> Notices \cup {None}]
       /\ \A e \in Events : \/ Loaded(w, id)[e] = work[w].alert[e]
                            \/ events[e] # None /\ Loaded(w, id)[e] = events[e].notice
  <2>1. work[w].alert \in [Events -> Notices \cup {None}]
    BY <1>1 DEF WorkRow
  <2>2. events[id[1]] # None => events[id[1]].notice \in Notices
    BY <1>5 DEF EventRow
  <2> QED
    BY <1>5, <2>1, <2>2 DEF Loaded
<1>11. /\ work'[w].pc = "run" /\ work'[w].at = work[w].at
       /\ work'[w].loaded = work[w].loaded /\ work'[w].todo = work[w].todo \ {id}
       /\ work'[w].result = [work[w].result EXCEPT ![id] = said]
       /\ work'[w].alert = Loaded(w, id)
       /\ \A v \in Workers \ {w} : work'[v] = work[v]
  BY <1>1, <1>5 DEF WorkRow, AnyInv, CyclesOK
<1>12. CyclesOK'
  <2>1. work'[w].result \in [Ids -> {"sent", "failed", None}] /\ work'[w].todo \subseteq Ids
    BY <1>1, <1>4, <1>11 DEF WorkRow
  <2>2. work'[w] \in WorkRow
    BY <1>1, <1>10, <1>11, <2>1 DEF WorkRow
  <2> QED
    BY <1>1, <2>2 DEF AnyInv, CyclesOK
<1>13. Carried'
  <2> SUFFICES ASSUME NEW v \in Workers, NEW i \in Ids, work[v].loaded[i] # None,
                      work'[v].alert[i[1]] # None
               PROVE  Since(work[v].loaded[i].kind, work'[v].alert[i[1]])
    <3>1. \A v \in Workers : work'[v].loaded = work[v].loaded
      BY <1>11
    <3> QED
      BY <1>1, <3>1 DEF AnyInv, Carried, RowExists
  <2>1. i[1] \in Events
    BY DEF Ids
  <2> QED
    BY <1>10, <1>11, <2>1 DEF AnyInv, Carried
<1>14. Tried'
  <2>1. \A i \in Ids : work'[w].result[i] = IF i = id THEN said ELSE work[w].result[i]
    BY <1>1, <1>11 DEF WorkRow
  <2>2. \A i \in Ids : accepted[i].copies \in Nat
    BY <1>5
  <2> SUFFICES ASSUME NEW v \in Workers, NEW i \in Ids
               PROVE  /\ i \in work'[v].todo \/ work'[v].result[i] # None =>
                            work'[v].pc = "run" /\ work'[v].loaded[i] # None
                      /\ work'[v].result[i] = "sent" => accepted'[i].copies > 0
    BY DEF Tried
  <2>3. CASE v = w
    <3>1. work'[w].loaded[i] = work[w].loaded[i] /\ work'[w].todo \subseteq work[w].todo
      BY <1>11
    <3>2. i \in work'[w].todo \/ work'[w].result[i] # None => work'[w].loaded[i] # None
      BY <1>1, <2>1, <3>1 DEF AnyInv, Tried
    <3>3. work'[w].result[i] = "sent" => accepted'[i].copies > 0
      <4>1. i # id /\ work[w].result[i] = "sent" => accepted[i].copies > 0
        BY DEF AnyInv, Tried
      <4> QED
        BY <1>4, <1>6, <1>8, <2>1, <2>2, <4>1
    <3> QED
      BY <1>11, <2>3, <3>2, <3>3
  <2>4. CASE v # w
    BY <1>6, <1>11, <2>2, <2>4 DEF AnyInv, Tried
  <2> QED
    BY <2>3, <2>4
<1>15. \A i \in Ids : Honest(i)' /\ ToldSince(i)'
  <2> SUFFICES ASSUME NEW i \in Ids PROVE Honest(i)' /\ ToldSince(i)'
    OBVIOUS
  <2>1. accepted[i].copies \in Nat
    BY <1>5
  <2>2. Honest(i)'
    BY <1>1, <1>6, <2>1 DEF AnyInv, Honest, RowExists
  <2>3. ToldSince(i)'
    BY <1>1, <1>3, <1>6 DEF AnyInv, ToldSince, RowExists
  <2> QED
    BY <2>2, <2>3
<1> QED
  BY <1>9, <1>12, <1>13, <1>14, <1>15 DEF AnyInv

\* What Commit writes of the rows a cycle tried, whoever has written them since.
LEMMA WrittenRow ==
    ASSUME AnyInv, NEW w \in Workers, Commit(w), NEW id \in Written(w)
    PROVE  /\ id \in Ids /\ RowExists(id) /\ rows[id] \in DeliveryRow
           /\ Settled(w, id) \in DeliveryRow
           /\ Settled(w, id).kind = rows[id].kind
           /\ Settled(w, id).status = "sent" => accepted[id].copies > 0 \/ rows[id].status = "sent"
           /\ Settled(w, id).status = "pending" =>
                 Settled(w, id).attempts < MaxAttempts /\ rows[id].status = "pending"
<1>1. work[w].pc = "run" /\ work[w] \in WorkRow /\ id \in Ids /\ rows[id] # None
  BY DEF Commit, Finished, CanCommit, Written, AnyInv, CyclesOK
<1>2. rows[id] \in DeliveryRow /\ id[2] \in recipients
  BY <1>1 DEF AnyInv, TypeOK
<1>3. work[w].loaded[id] \in DeliveryRow /\ work[w].loaded[id].attempts < MaxAttempts
  BY <1>1 DEF Written, AnyInv, Tried, Carried, WorkRow
<1> DEFINE attempts == work[w].loaded[id].attempts + 1
<1>4. /\ attempts \in Nat /\ attempts \in 1 .. MaxAttempts
      /\ MaxAttempts \in Nat /\ work[w].at \in Time
  BY <1>1, <1>3, ConstantsAssumption DEF WorkRow, DeliveryRow, ConstantsAssumption
<1> HIDE DEF attempts
<1>5. CASE work[w].result[id] = "sent"
  <2>1. Settled(w, id) = [rows[id] EXCEPT !.status = "sent", !.updatedAt = work[w].at]
    BY <1>5 DEF Settled
  <2>2. accepted[id].copies > 0
    BY <1>1, <1>5 DEF AnyInv, Tried
  <2> QED
    BY <1>1, <1>2, <1>4, <2>1, <2>2 DEF DeliveryRow, RowExists
<1>6. CASE work[w].result[id] # "sent" /\ attempts >= MaxAttempts
  <2>1. Settled(w, id) = [rows[id] EXCEPT !.status = "failed", !.attempts = attempts,
                                          !.updatedAt = work[w].at]
    BY <1>6 DEF Settled, attempts
  <2> QED
    BY <1>1, <1>2, <1>4, <2>1 DEF DeliveryRow, RowExists
<1>7. CASE work[w].result[id] # "sent" /\ ~(attempts >= MaxAttempts)
  <2>1. Settled(w, id) = [rows[id] EXCEPT !.attempts = attempts, !.updatedAt = work[w].at,
                                          !.nextRetryAt = work[w].at + RetryDelay(attempts)]
    BY <1>7 DEF Settled, attempts
  <2>2. work[w].at + RetryDelay(attempts) \in Int
    BY <1>4, RetryDelayDoubles, ConstantsAssumption DEF Time, ConstantsAssumption
  <2> DEFINE later == work[w].at + RetryDelay(attempts)
  <2> HIDE DEF later
  <2>3. Settled(w, id) = [rows[id] EXCEPT !.attempts = attempts, !.updatedAt = work[w].at,
                                          !.nextRetryAt = later]
    BY <2>1 DEF later
  <2>4. later \in Int /\ attempts < MaxAttempts
    BY <1>4, <1>7, <2>2 DEF later
  <2>5. /\ Settled(w, id).status = rows[id].status /\ Settled(w, id).attempts = attempts
        /\ Settled(w, id).kind = rows[id].kind /\ Settled(w, id) \in DeliveryRow
    BY <1>2, <1>4, <2>3, <2>4 DEF DeliveryRow
  <2> QED
    BY <1>1, <1>2, <2>4, <2>5 DEF RowExists
<1> QED
  BY <1>5, <1>6, <1>7

LEMMA Commits == ASSUME AnyInv, NEW w \in Workers, Commit(w) PROVE AnyInv'
<1>1. /\ rows' = [id \in Ids |-> IF id \in Written(w) THEN Settled(w, id) ELSE rows[id]]
      /\ work' = [work EXCEPT ![w] = IdleWorker]
      /\ UNCHANGED <<now, faults, events, recipients, accepted>>
  BY DEF Commit
<1>2. work'[w] = IdleWorker /\ \A v \in Workers \ {w} : work'[v] = work[v]
  BY <1>1 DEF AnyInv, CyclesOK
<1>3. \A id \in Ids :
         /\ rows'[id] \in DeliveryRow \cup {None} /\ (RowExists(id)' <=> RowExists(id))
         /\ RowExists(id) => rows'[id].kind = rows[id].kind
         /\ Honest(id)'
  <2> SUFFICES ASSUME NEW id \in Ids
               PROVE  /\ rows'[id] \in DeliveryRow \cup {None} /\ (RowExists(id)' <=> RowExists(id))
                      /\ RowExists(id) => rows'[id].kind = rows[id].kind
                      /\ Honest(id)'
    OBVIOUS
  <2>1. CASE id \in Written(w)
    <3>1. rows'[id] = Settled(w, id)
      BY <1>1, <2>1
    <3>2. /\ accepted' = accepted
          /\ rows[id].status = "sent" /\ RowExists(id) => accepted[id].copies > 0
      BY <1>1 DEF AnyInv, Honest
    <3> HIDE DEF Settled
    <3> QED
      BY <2>1, <3>1, <3>2, WrittenRow, NoneIsNoRow DEF Honest, RowExists, NoneIsNoRow
  <2>2. CASE id \notin Written(w)
    <3>1. rows'[id] = rows[id] /\ accepted' = accepted
      BY <1>1, <2>2
    <3> QED
      BY <3>1 DEF AnyInv, TypeOK, Honest, RowExists
  <2> QED
    BY <2>1, <2>2
<1>4. TypeOK'
  <2>1. rows' \in [Ids -> DeliveryRow \cup {None}]
    BY <1>1, <1>3
  <2> QED
    BY <1>1, <1>3, <2>1 DEF AnyInv, TypeOK, Ordinal, RowExists
<1>5. CyclesOK'
  BY <1>1, IdleWorkerOK DEF AnyInv, CyclesOK
<1>6. Carried'
  <2>1. \A id \in Ids : work'[w].loaded[id] = None
    BY <1>2 DEF IdleWorker
  <2> QED
    BY <1>1, <1>2, <1>3, <2>1 DEF AnyInv, Carried
<1>7. Tried'
  BY <1>1, <1>2, NoneIsNoRow DEF AnyInv, Tried, IdleWorker, NoneIsNoRow
<1>8. KindsInOrder' /\ \A id \in Ids : ToldSince(id)'
  BY <1>1, <1>3 DEF AnyInv, KindsInOrder, ToldSince, Ordinal, NoticeAt, RowExists
<1> QED
  BY <1>3, <1>4, <1>5, <1>6, <1>7, <1>8 DEF AnyInv

\* The nth notice of an event, if not told already: rows appear only where there
\* was none, pending; the event has gone on if it has changed, and what it was at
\* an earlier notice it has been.
Opens(e, nth, kind, new) ==
    /\ new \subseteq Ids
    /\ \A id \in new : /\ id[1] = e /\ id[2] \in recipients /\ rows[id] = None
                       /\ id[3] = nth
    /\ nth \in 1 .. Ordinal(e)' /\ kind = NoticeAt(e, nth)'
    /\ events'[e] \in EventRow /\ (events'[e].notice = "open" <=> events'[e].nth = 1)
    /\ events' = [events EXCEPT ![e] = events'[e]]
    /\ events[e] # None => Since(events[e].notice, events'[e].notice)
    /\ Ordinal(e) <= Ordinal(e)'
    /\ \A n \in 1 .. Ordinal(e) : NoticeAt(e, n)' = NoticeAt(e, n)
    /\ rows' = [id \in Ids |-> IF id \in new THEN NewDelivery(kind) ELSE rows[id]]
    /\ UNCHANGED <<now, faults, recipients, accepted, work>>

LEMMA Appear ==
    ASSUME AnyInv, NEW e \in Events, NEW nth, NEW kind \in Notices, NEW new,
           Opens(e, nth, kind, new)
    PROVE  AnyInv'
<1> USE DEF Opens
<1>1. NewDelivery(kind) \in DeliveryRow
  BY DEF NewDelivery, DeliveryRow, AnyInv, TypeOK, NoTime
<1>2. /\ rows \in [Ids -> DeliveryRow \cup {None}]
      /\ events \in [Events -> EventRow \cup {None}]
      /\ events' \in [Events -> EventRow \cup {None}]
  BY DEF AnyInv, TypeOK
<1>3. \A f \in Events : Ordinal(f) \in Nat /\ Ordinal(f)' \in Nat
  BY <1>2 DEF Ordinal, EventRow
<1>4. \A f \in Events : f # e => events'[f] = events[f] /\ Ordinal(f)' = Ordinal(f)
  BY <1>2 DEF Ordinal
<1>5. \A id \in Ids : id[1] \in Events /\ id[3] \in Nat
  BY ConstantsAssumption DEF Ids, ConstantsAssumption
<1>6. TypeOK'
  <2>1. rows' \in [Ids -> DeliveryRow \cup {None}]
    BY <1>1, <1>2
  <2>2. ASSUME NEW id \in Ids, rows'[id] # None
        PROVE  id[2] \in recipients' /\ id[3] <= Ordinal(id[1])'
    <3>1. CASE id \in new
      BY <1>3, <3>1
    <3>2. CASE id \notin new
      BY <1>3, <1>4, <1>5, <2>2, <3>2 DEF AnyInv, TypeOK
    <3> QED
      BY <3>1, <3>2
  <2> QED
    BY <1>2, <2>1, <2>2 DEF AnyInv, TypeOK
<1>7. \A k \in Notices, f \in Events :
         events[f] # None /\ Since(k, events[f].notice) =>
             events'[f] # None /\ Since(k, events'[f].notice)
  <2> SUFFICES ASSUME NEW k \in Notices, NEW f \in Events, events[f] # None,
                      Since(k, events[f].notice)
               PROVE  events'[f] # None /\ Since(k, events'[f].notice)
    OBVIOUS
  <2>1. CASE f = e
    BY <1>2, <2>1, NoneIsNoRow, SinceInOrder DEF EventRow, NoneIsNoRow
  <2>2. CASE f # e
    BY <1>4, <2>2
  <2> QED
    BY <2>1, <2>2
<1>8. \A id \in Ids : RowExists(id) => RowExists(id)' /\ rows'[id] = rows[id]
  BY DEF RowExists
<1>9. CyclesOK' /\ Tried'
  BY DEF AnyInv, CyclesOK, Tried
<1>10. Carried'
  <2> SUFFICES ASSUME NEW w \in Workers, NEW id \in Ids, work[w].loaded[id] # None
               PROVE  events'[id[1]] # None
                      /\ Since(work[w].loaded[id].kind, events'[id[1]].notice)
    BY <1>8 DEF AnyInv, Carried
  <2>1. work[w].loaded[id].kind \in Notices
    BY DEF AnyInv, CyclesOK, WorkRow, DeliveryRow
  <2> QED
    BY <1>5, <1>7, <2>1 DEF AnyInv, Carried
<1>11. KindsInOrder'
  <2>1. ASSUME NEW id \in Ids, rows'[id] # None
        PROVE  rows'[id].kind = NoticeAt(id[1], id[3])'
    <3>1. CASE id \in new
      BY <3>1 DEF NewDelivery
    <3>2. CASE id \notin new
      <4>1. rows'[id] = rows[id] /\ rows[id].kind = NoticeAt(id[1], id[3])
        BY <2>1, <3>2 DEF AnyInv, KindsInOrder, RowExists
      <4>2. id[3] <= Ordinal(id[1]) /\ id[3] >= 1
        BY <2>1, <4>1, ConstantsAssumption DEF AnyInv, TypeOK, Ids, ConstantsAssumption
      <4>3. NoticeAt(id[1], id[3])' = NoticeAt(id[1], id[3])
        BY <1>3, <1>4, <1>5, <4>2 DEF NoticeAt
      <4> QED
        BY <4>1, <4>3
    <3> QED
      BY <3>1, <3>2
  <2>2. \A f \in Events : events'[f] # None =>
           (events'[f].notice = "open" <=> events'[f].nth = 1)
    BY <1>4 DEF AnyInv, KindsInOrder
  <2> QED
    BY <2>1, <2>2 DEF KindsInOrder, RowExists
<1>12. \A id \in Ids : Honest(id)' /\ ToldSince(id)'
  <2> SUFFICES ASSUME NEW id \in Ids PROVE Honest(id)' /\ ToldSince(id)'
    OBVIOUS
  <2>1. CASE id \in new
    <3>1. rows'[id] = NewDelivery(kind) /\ accepted'[id].told = {}
      BY <2>1 DEF AnyInv, ToldSince, RowExists
    <3>2. Honest(id)'
      BY <3>1, ConstantsAssumption DEF Honest, NewDelivery, ConstantsAssumption
    <3>3. Since(kind, events'[id[1]].notice) /\ events'[id[1]] # None
      <4>1. id[1] = e /\ events'[e] # None /\ Ordinal(e)' = events'[e].nth
        BY <2>1, NoneIsNoRow DEF NoneIsNoRow, Ordinal
      <4>2. /\ nth <= events'[e].nth /\ nth \in Nat /\ nth >= 1
            /\ events'[e].nth \in Nat /\ events'[e].notice \in Notices
        BY <4>1, ConstantsAssumption DEF EventRow, ConstantsAssumption
      <4>3. kind = IF nth = events'[e].nth THEN events'[e].notice
                   ELSE IF nth = 1 THEN "open" ELSE "updated"
        BY DEF NoticeAt
      <4> QED
        BY <4>1, <4>2, <4>3 DEF Since, Notices
    <3>4. RowExists(id)' /\ rows'[id].kind = kind
      BY <1>1, <3>1, NoneIsNoRow DEF RowExists, NewDelivery, NoneIsNoRow
    <3> QED
      BY <3>1, <3>2, <3>3, <3>4 DEF ToldSince
  <2>2. CASE id \notin new
    <3>1. rows'[id] = rows[id] /\ (RowExists(id)' <=> RowExists(id))
      BY <2>2 DEF RowExists
    <3>2. Honest(id)'
      BY <3>1 DEF AnyInv, Honest
    <3>3. RowExists(id) => rows[id].kind \in Notices
      BY <1>2 DEF RowExists, DeliveryRow
    <3> QED
      BY <1>5, <1>7, <3>1, <3>2, <3>3 DEF AnyInv, ToldSince
  <2> QED
    BY <2>1, <2>2
<1> QED
  BY <1>6, <1>9, <1>10, <1>11, <1>12 DEF AnyInv

LEMMA TransitionOpens ==
    ASSUME AnyInv, NEW e \in Events, NEW kind \in Notices, Transition(e, kind)
    PROVE  \E nth, new : Opens(e, nth, kind, new)
<1> PICK nth : nth = Ordinal(e) + 1
  OBVIOUS
<1> DEFINE new == {<<e, p, nth>> : p \in Notified \cap recipients}
           row == [notice |-> kind, nth |-> nth]
<1>1. /\ nth <= MaxNotices /\ FollowsOn(e, kind)
      /\ events' = [events EXCEPT ![e] = row]
      /\ rows' = [id \in Ids |-> IF id \in new THEN NewDelivery(kind) ELSE rows[id]]
      /\ UNCHANGED <<now, faults, recipients, accepted, work>>
  BY DEF Transition
<1>2. Ordinal(e) \in Nat /\ MaxNotices \in Nat
  BY ConstantsAssumption DEF AnyInv, TypeOK, Ordinal, EventRow, ConstantsAssumption
<1>3. events'[e] = row /\ row \in EventRow /\ row.notice = kind /\ row.nth = nth
  BY <1>1, <1>2 DEF AnyInv, TypeOK, EventRow
<1>4. Ordinal(e)' = nth
  BY <1>3, NoneIsNoRow DEF Ordinal, NoneIsNoRow
<1>5. new \subseteq Ids /\ \A id \in new : id[1] = e /\ id[2] \in recipients /\ id[3] = nth
  BY <1>1, <1>2 DEF Ids, AnyInv, TypeOK
<1> HIDE DEF new, row
<1>6. \A id \in new : rows[id] = None
  BY <1>2, <1>5 DEF AnyInv, TypeOK
<1>7. events[e] # None => Since(events[e].notice, kind)
  BY <1>1 DEF FollowsOn, Since, AnyInv, TypeOK, EventRow, Notices
<1>8. /\ Ordinal(e) <= Ordinal(e)' /\ nth \in 1 .. Ordinal(e)'
      /\ kind = NoticeAt(e, nth)' /\ (kind = "open" <=> nth = 1)
  <2>1. Ordinal(e) <= Ordinal(e)' /\ nth \in 1 .. Ordinal(e)'
    BY <1>2, <1>4
  <2>2. kind = NoticeAt(e, nth)'
    BY <1>3 DEF NoticeAt
  <2>3. kind = "open" <=> nth = 1
    BY <1>1, <1>2 DEF FollowsOn, Ordinal, AnyInv, TypeOK, EventRow
  <2> QED
    BY <2>1, <2>2, <2>3
<1>9. ASSUME NEW n \in 1 .. Ordinal(e) PROVE NoticeAt(e, n)' = NoticeAt(e, n)
  <2>1. events[e] \in EventRow /\ Ordinal(e) = events[e].nth
    BY <1>2, <1>9 DEF Ordinal, AnyInv, TypeOK
  <2>2. n # nth /\ events[e].notice # "closed"
    BY <1>1, <1>2, <1>9, <2>1, NoneIsNoRow DEF FollowsOn, NoneIsNoRow
  <2>3. n = events[e].nth => events[e].notice = IF n = 1 THEN "open" ELSE "updated"
    BY <2>1, <2>2, NoneIsNoRow
    DEF AnyInv, KindsInOrder, EventRow, Notices, NoneIsNoRow
  <2> QED
    BY <1>3, <2>2, <2>3 DEF NoticeAt
<1>10. Opens(e, nth, kind, new)
  BY <1>1, <1>3, <1>5, <1>6, <1>7, <1>8, <1>9 DEF Opens
<1> QED
  BY <1>10

LEMMA EscalateOpens ==
    ASSUME AnyInv, NEW e \in Events, NEW p \in Recipients, NEW n \in 1 .. MaxNotices,
           Escalate(e, p, n)
    PROVE  NoticeAt(e, n) \in Notices /\ Opens(e, n, NoticeAt(e, n), {<<e, p, n>>})
<1> DEFINE id == <<e, p, n>>
           new == {id}
           kind == NoticeAt(e, n)
<1>1. /\ events[e] # None /\ n <= events[e].nth /\ p \in recipients
      /\ \A m \in 1 .. n : rows[<<e, p, m>>] # None => rows[<<e, p, m>>].kind # kind
      /\ rows' = [rows EXCEPT ![id] = NewDelivery(kind)]
      /\ UNCHANGED <<now, faults, events, recipients, accepted, work>>
  BY DEF Escalate
<1>2. events[e] \in EventRow /\ Ordinal(e) = events[e].nth
  BY <1>1 DEF AnyInv, TypeOK, Ordinal
<1>3. id \in Ids /\ n \in 1 .. n /\ kind \in Notices
  BY <1>2, ConstantsAssumption DEF Ids, EventRow, NoticeAt, Notices, ConstantsAssumption
<1>4. rows[id] = None
  BY <1>1, <1>3 DEF AnyInv, KindsInOrder, RowExists
<1>5. rows' = [i \in Ids |-> IF i \in new THEN NewDelivery(kind) ELSE rows[i]]
  BY <1>1, <1>3 DEF AnyInv, TypeOK
<1>6. Ordinal(e)' = Ordinal(e) /\ Ordinal(e) \in Nat /\ n \in 1 .. Ordinal(e)'
  BY <1>1, <1>2 DEF Ordinal, EventRow
<1>7. new \subseteq Ids
  BY <1>3
<1>8. \A i \in new : i[1] = e /\ i[2] \in recipients /\ rows[i] = None /\ i[3] = n
  BY <1>1, <1>4
<1>9. /\ events'[e] \in EventRow /\ (events'[e].notice = "open" <=> events'[e].nth = 1)
      /\ events' = [events EXCEPT ![e] = events'[e]]
      /\ Ordinal(e) <= Ordinal(e)' /\ Since(events[e].notice, events'[e].notice)
  BY <1>1, <1>2, <1>6 DEF AnyInv, TypeOK, KindsInOrder, Since
<1>10. \A m : NoticeAt(e, m)' = NoticeAt(e, m)
  BY <1>1 DEF NoticeAt
<1> HIDE DEF new, kind
<1>11. kind = NoticeAt(e, n)' /\ \A m \in 1 .. Ordinal(e) : NoticeAt(e, m)' = NoticeAt(e, m)
  BY <1>10 DEF kind
<1>12. Opens(e, n, kind, new)
  BY <1>1, <1>5, <1>6, <1>7, <1>8, <1>9, <1>11 DEF Opens
<1> QED
  BY <1>3, <1>12 DEF kind, new

LEMMA RecipientGone == ASSUME AnyInv, NEW p \in Recipients, DeleteRecipient(p) PROVE AnyInv'
<1>1. /\ recipients' = recipients \ {p}
      /\ rows' = [id \in Ids |-> IF id[2] = p THEN None ELSE rows[id]]
      /\ UNCHANGED <<now, faults, events, accepted, work>>
  BY DEF DeleteRecipient
<1>2. TypeOK' /\ CyclesOK' /\ KindsInOrder'
  BY <1>1 DEF AnyInv, TypeOK, CyclesOK, KindsInOrder, RowExists, Ordinal, NoticeAt
<1>3. Carried' /\ Tried'
  BY <1>1 DEF AnyInv, Carried, Tried, RowExists
<1>4. \A id \in Ids : Honest(id)' /\ ToldSince(id)'
  BY <1>1 DEF AnyInv, Honest, ToldSince, RowExists
<1> QED
  BY <1>2, <1>3, <1>4 DEF AnyInv

LEMMA TimePasses == ASSUME AnyInv, Tick \/ UNCHANGED vars PROVE AnyInv'
<1>1. now' \in Time /\ UNCHANGED <<faults, events, recipients, rows, accepted, work>>
  BY ConstantsAssumption DEF Tick, vars, AnyInv, TypeOK, Time, ConstantsAssumption
<1>2. TypeOK' /\ CyclesOK' /\ KindsInOrder'
  BY <1>1 DEF AnyInv, TypeOK, CyclesOK, KindsInOrder, RowExists, Ordinal, NoticeAt
<1>3. Carried' /\ Tried'
  BY <1>1 DEF AnyInv, Carried, Tried, RowExists
<1>4. \A id \in Ids : Honest(id)' /\ ToldSince(id)'
  BY <1>1 DEF AnyInv, Honest, ToldSince, RowExists
<1> QED
  BY <1>2, <1>3, <1>4 DEF AnyInv

LEMMA AnyStep == ASSUME AnyInv, [Next]_vars PROVE AnyInv'
<1>1. ASSUME NEW w \in Workers, Cycle(w) PROVE AnyInv'
  BY <1>1, CycleStarts, Attempts, CycleEnds, Commits DEF Cycle
<1>2. CASE Environment
  BY <1>2, TransitionOpens, EscalateOpens, Appear, RecipientGone DEF Environment
<1>3. CASE Tick \/ UNCHANGED vars
  BY <1>3, TimePasses
<1> QED
  BY <1>1, <1>2, <1>3 DEF Next

\* No step makes a delivery pending that has been settled.
LEMMA NotPendingAgain ==
    ASSUME AnyInv, [Next]_vars, NEW id \in Ids, rows[id] # None, rows[id].status # "pending",
           rows'[id] # None
    PROVE  rows'[id].status # "pending"
<1>1. ASSUME NEW w \in Workers, Cycle(w) PROVE rows'[id].status # "pending"
  <2>1. CASE Commit(w)
    BY <2>1, WrittenRow DEF Commit
  <2>2. CASE ~Commit(w)
    BY <1>1, <2>2 DEF Cycle, CycleStart, Attempt, CycleLost, CommitFails
  <2> QED
    BY <2>1, <2>2
<1>2. ASSUME NEW e \in Events, NEW nth, NEW kind \in Notices, NEW new,
             Opens(e, nth, kind, new)
      PROVE  rows'[id].status # "pending"
  BY <1>2 DEF Opens
<1>3. ASSUME NEW p \in Recipients, DeleteRecipient(p) PROVE rows'[id].status # "pending"
  BY <1>3 DEF DeleteRecipient
<1>4. CASE Tick \/ UNCHANGED vars
  BY <1>4 DEF Tick, vars
<1> QED
  BY <1>1, <1>2, <1>3, <1>4, TransitionOpens, EscalateOpens DEF Next, Environment

-----------------------------------------------------------------------------
(* One cycle at a time *)

Serial == /\ \A v, w \in Workers : ~Idle(v) /\ ~Idle(w) => v = w
          /\ \A w \in Workers : Idle(w) => work[w].todo = {}

\* A row the cycle has loaded is pending, and unchanged unless deleted.
Unmoved ==
    \A w \in Workers, id \in Ids : work[w].pc = "run" /\ work[w].loaded[id] # None =>
        /\ work[w].loaded[id].status = "pending"
        /\ id[2] \in recipients => rows[id] = work[w].loaded[id]

\* The cycles write what they computed from the rows as they are.
IInv == AnyInv /\ Serial /\ Unmoved /\ OutcomeIsTrue

LEMMA Opening == ASSUME Init PROVE IInv
<1>1. Serial /\ Unmoved /\ OutcomeIsTrue
  BY DEF Init, Serial, Unmoved, OutcomeIsTrue, Idle, IdleWorker
<1> QED
  BY <1>1, AnyAtFirst DEF IInv

LEMMA CycleStartStep ==
    ASSUME ~Overlap, IInv, NEW w \in Workers, CycleStart(w) PROVE IInv'
<1>1. AnyInv'
  BY CycleStarts DEF IInv
<1>2. /\ \A v \in Workers : Idle(v)
      /\ work' = [work EXCEPT ![w] = work'[w]]
      /\ work'[w].pc = "run"
      /\ work'[w].loaded = [id \in Ids |-> IF IsDue(id, now) THEN rows[id] ELSE None]
      /\ UNCHANGED <<rows, recipients, accepted>>
  BY DEF CycleStart, IInv, AnyInv, CyclesOK, IdleWorker
<1>3. \A v \in Workers \ {w} : work'[v] = work[v] /\ work'[v].pc = "idle"
  BY <1>2 DEF Idle, IInv, AnyInv, CyclesOK
<1>4. Serial'
  BY <1>2, <1>3 DEF IInv, Serial, Idle
<1>5. Unmoved'
  BY <1>2, <1>3 DEF Unmoved, IsDue
<1>6. OutcomeIsTrue'
  BY <1>2 DEF IInv, OutcomeIsTrue
<1> QED
  BY <1>1, <1>4, <1>5, <1>6 DEF IInv

LEMMA CycleAborted ==
    ASSUME IInv, NEW w \in Workers, CycleLost(w) \/ CommitFails(w) PROVE IInv'
<1>1. AnyInv'
  BY CycleEnds DEF IInv
<1>2. work' = [work EXCEPT ![w] = IdleWorker] /\ UNCHANGED <<rows, recipients, accepted>>
  BY DEF CycleLost, CommitFails
<1>3. /\ work'[w].pc = "idle" /\ work'[w].todo = {}
      /\ \A v \in Workers \ {w} : work'[v] = work[v]
  BY <1>2, IdleWorkerOK DEF IInv, AnyInv, CyclesOK
<1>4. Serial' /\ Unmoved' /\ OutcomeIsTrue'
  BY <1>2, <1>3 DEF IInv, Serial, Idle, Unmoved, OutcomeIsTrue
<1> QED
  BY <1>1, <1>4 DEF IInv

LEMMA AttemptStep ==
    ASSUME IInv, NEW w \in Workers, NEW id \in Ids, NEW ok \in BOOLEAN, Attempt(w, id, ok)
    PROVE  IInv'
<1>1. AnyInv'
  BY Attempts DEF IInv
<1>2. /\ work[w].pc = "run" /\ work[w] \in WorkRow
      /\ UNCHANGED <<now, faults, events, recipients, rows>>
  BY DEF Attempt, IInv, AnyInv, CyclesOK, Tried
<1>3. /\ work'[w].pc = work[w].pc /\ work'[w].loaded = work[w].loaded
      /\ \A v \in Workers \ {w} : work'[v] = work[v]
  BY <1>2 DEF Attempt, WorkRow, IInv, AnyInv, CyclesOK
<1>4. Serial' /\ Unmoved'
  <2>1. Serial'
    BY <1>2, <1>3 DEF IInv, Serial, Idle
  <2>2. \A v \in Workers : work'[v].pc = work[v].pc /\ work'[v].loaded = work[v].loaded
    BY <1>3
  <2>3. Unmoved'
    BY <1>2, <2>2 DEF IInv, Unmoved
  <2> QED
    BY <2>1, <2>3
<1>5. OutcomeIsTrue'
  BY <1>1, <1>2 DEF IInv, AnyInv, Honest, RowExists, OutcomeIsTrue
<1> QED
  BY <1>1, <1>4, <1>5 DEF IInv

\* What Commit makes of the rows a cycle tried.
LEMMA SettledRow ==
    ASSUME IInv, NEW w \in Workers, Commit(w), NEW id \in Written(w)
    PROVE  /\ rows[id] = work[w].loaded[id] /\ rows[id].status = "pending"
           /\ Settled(w, id) \in DeliveryRow
           /\ Settled(w, id).kind = rows[id].kind
           /\ Settled(w, id).status = "sent" => accepted[id].copies > 0
           /\ Settled(w, id).status = "failed" <=> Settled(w, id).attempts >= MaxAttempts
<1>1. work[w].pc = "run" /\ work[w] \in WorkRow /\ id \in Ids /\ rows[id] # None
  BY DEF Commit, Finished, CanCommit, Written, IInv, AnyInv, CyclesOK
<1>2. rows[id] \in DeliveryRow /\ id[2] \in recipients
  BY <1>1 DEF IInv, AnyInv, TypeOK
<1>3. work[w].loaded[id] # None
  BY <1>1 DEF Written, IInv, AnyInv, Tried
<1>4. rows[id] = work[w].loaded[id] /\ rows[id].status = "pending"
  BY <1>1, <1>2, <1>3 DEF IInv, Unmoved
<1>5. rows[id].attempts \in Nat /\ ~(rows[id].attempts >= MaxAttempts) /\ MaxAttempts \in Nat
  BY <1>1, <1>2, <1>4, ConstantsAssumption
  DEF IInv, OutcomeIsTrue, DeliveryRow, ConstantsAssumption
<1> DEFINE attempts == rows[id].attempts + 1
<1>6. attempts \in Nat /\ work[w].at \in Time
  BY <1>1, <1>5 DEF WorkRow
<1>7. CASE work[w].result[id] = "sent"
  <2>1. Settled(w, id) = [rows[id] EXCEPT !.status = "sent", !.updatedAt = work[w].at]
    BY <1>7 DEF Settled
  <2>2. accepted[id].copies > 0
    BY <1>1, <1>7 DEF IInv, AnyInv, Tried
  <2> QED
    BY <1>2, <1>4, <1>5, <1>6, <2>1, <2>2 DEF DeliveryRow
<1>8. CASE work[w].result[id] # "sent" /\ attempts >= MaxAttempts
  <2>1. Settled(w, id) = [rows[id] EXCEPT !.status = "failed", !.attempts = attempts,
                                          !.updatedAt = work[w].at]
    BY <1>4, <1>8 DEF Settled
  <2> QED
    BY <1>2, <1>4, <1>6, <1>8, <2>1 DEF DeliveryRow
<1>9. CASE work[w].result[id] # "sent" /\ ~(attempts >= MaxAttempts)
  <2>1. Settled(w, id) = [rows[id] EXCEPT !.attempts = attempts, !.updatedAt = work[w].at,
                                          !.nextRetryAt = work[w].at + RetryDelay(attempts)]
    BY <1>4, <1>9 DEF Settled
  <2>2. work[w].at + RetryDelay(attempts) \in Int
    <3>1. RetryDelay(attempts) \in Nat
      BY <1>5, <1>6, <1>9, RetryDelayDoubles
    <3> QED
      BY <1>6, <3>1, ConstantsAssumption DEF Time, ConstantsAssumption
  <2> QED
    BY <1>2, <1>4, <1>6, <1>9, <2>1, <2>2 DEF DeliveryRow
<1> QED
  BY <1>4, <1>7, <1>8, <1>9

LEMMA CommitStep == ASSUME IInv, NEW w \in Workers, Commit(w) PROVE IInv'
<1>1. AnyInv'
  BY Commits DEF IInv
<1>2. /\ rows' = [id \in Ids |-> IF id \in Written(w) THEN Settled(w, id) ELSE rows[id]]
      /\ work' = [work EXCEPT ![w] = IdleWorker]
      /\ UNCHANGED <<now, faults, events, recipients, accepted>>
  BY DEF Commit
<1>3. work[w].pc = "run" /\ Written(w) \subseteq Ids
  BY DEF Commit, Finished, Written
<1>4. /\ work'[w].pc = "idle" /\ work'[w].todo = {}
      /\ \A v \in Workers \ {w} : work'[v] = work[v] /\ work[v].pc = "idle"
  BY <1>2, <1>3, IdleWorkerOK DEF IInv, AnyInv, CyclesOK, Serial, Idle
<1>5. Serial' /\ Unmoved'
  BY <1>4 DEF IInv, Serial, Idle, Unmoved
<1>6. OutcomeIsTrue'
  <2> SUFFICES ASSUME NEW id \in Ids, rows'[id] # None
               PROVE  /\ rows'[id].status = "sent" => accepted[id].copies > 0
                      /\ rows'[id].status = "failed" <=> rows'[id].attempts >= MaxAttempts
    BY <1>2 DEF OutcomeIsTrue
  <2>1. CASE id \in Written(w)
    BY <1>2, <2>1, SettledRow
  <2>2. CASE id \notin Written(w)
    BY <1>2, <2>2 DEF IInv, OutcomeIsTrue
  <2> QED
    BY <2>1, <2>2
<1> QED
  BY <1>1, <1>5, <1>6 DEF IInv

\* New rows are pending, and disturb nothing a cycle has loaded.
LEMMA OpensStep ==
    ASSUME IInv, NEW e \in Events, NEW nth, NEW kind \in Notices, NEW new,
           Opens(e, nth, kind, new)
    PROVE  IInv'
<1>1. AnyInv'
  BY Appear DEF IInv
<1>2. Serial'
  BY DEF IInv, Opens, Serial, Idle
<1>3. Unmoved'
  BY DEF IInv, Opens, Unmoved
<1>4. OutcomeIsTrue'
  BY ConstantsAssumption DEF IInv, Opens, OutcomeIsTrue, NewDelivery, ConstantsAssumption
<1> QED
  BY <1>1, <1>2, <1>3, <1>4 DEF IInv

LEMMA DeleteRecipientStep ==
    ASSUME IInv, NEW p \in Recipients, DeleteRecipient(p) PROVE IInv'
<1>1. AnyInv'
  BY RecipientGone DEF IInv
<1>2. Serial' /\ Unmoved' /\ OutcomeIsTrue'
  BY DEF DeleteRecipient, IInv, Serial, Idle, Unmoved, OutcomeIsTrue
<1> QED
  BY <1>1, <1>2 DEF IInv

LEMMA TickStep == ASSUME IInv, Tick \/ UNCHANGED vars PROVE IInv'
<1>1. AnyInv'
  BY TimePasses DEF IInv
<1>2. Serial' /\ Unmoved' /\ OutcomeIsTrue'
  BY DEF Tick, vars, IInv, Serial, Idle, Unmoved, OutcomeIsTrue
<1> QED
  BY <1>1, <1>2 DEF IInv

LEMMA EveryStep == ASSUME ~Overlap, IInv, [Next]_vars PROVE IInv'
<1>1. ASSUME NEW w \in Workers, Cycle(w) PROVE IInv'
  BY <1>1, CycleStartStep, AttemptStep, CycleAborted, CommitStep DEF Cycle
<1>2. CASE Environment
  BY <1>2, TransitionOpens, EscalateOpens, OpensStep, DeleteRecipientStep
  DEF Environment, IInv
<1>3. CASE Tick \/ UNCHANGED vars
  BY <1>3, TickStep
<1> QED
  BY <1>1, <1>2, <1>3 DEF Next

\* Which steps may change a settled row: none, but for its deletion.
LEMMA SettledRowsStay ==
    ASSUME IInv, [Next]_vars, NEW id \in Ids, rows[id] # None, rows[id].status # "pending"
    PROVE  rows'[id] \in {rows[id], None}
<1>1. ASSUME NEW w \in Workers, Cycle(w) PROVE rows'[id] \in {rows[id], None}
  <2>1. CASE Commit(w)
    BY <2>1, SettledRow DEF Commit
  <2>2. CASE ~Commit(w)
    BY <1>1, <2>2 DEF Cycle, CycleStart, Attempt, CycleLost, CommitFails
  <2> QED
    BY <2>1, <2>2
<1>2. ASSUME NEW e \in Events, NEW kind \in Notices, Transition(e, kind)
      PROVE  rows'[id] \in {rows[id], None}
  <2>1. id[1] = e => id[3] <= Ordinal(e)
    BY DEF IInv, AnyInv, TypeOK
  <2>2. Ordinal(e) \in Nat /\ id[3] \in Nat
    BY ConstantsAssumption DEF IInv, AnyInv, TypeOK, Ordinal, EventRow, Ids, ConstantsAssumption
  <2>3. \A p : id # <<e, p, Ordinal(e) + 1>>
    BY <2>1, <2>2 DEF Ids
  <2> QED
    BY <1>2, <2>3 DEF Transition
<1>3. ASSUME NEW e \in Events, NEW p \in Recipients, NEW n \in 1 .. MaxNotices,
             Escalate(e, p, n)
      PROVE  rows'[id] \in {rows[id], None}
  <2> DEFINE kind == NoticeAt(e, n)
             new == {<<e, p, n>>}
  <2>1. Opens(e, n, kind, new)
    BY <1>3, EscalateOpens DEF IInv
  <2> HIDE DEF kind, new
  <2> QED
    BY <2>1 DEF Opens
<1>4. ASSUME NEW p \in Recipients, DeleteRecipient(p) PROVE rows'[id] \in {rows[id], None}
  BY <1>4 DEF DeleteRecipient
<1>5. CASE Tick \/ UNCHANGED vars
  BY <1>5 DEF Tick, vars
<1> QED
  BY <1>1, <1>2, <1>3, <1>4, <1>5 DEF Next, Environment

-----------------------------------------------------------------------------
(* Copies *)

\* What may have cost a message its record: a cycle that was lost, or a recipient
\* that was deleted.
Lost == (MaxFaults - faults) + Cardinality(Recipients \ recipients)

\* A cycle in flight has had the delivery taken, or works on a row that has gone.
Taken(id) == \E w \in Workers : ~Idle(w) /\ work[w].result[id] = "sent"
Vanished == \E w \in Workers, id \in Ids :
                ~Idle(w) /\ work[w].loaded[id] # None /\ rows[id] = None

\* What a cycle has still to try, it has not tried.
TriedOnce ==
    \A w \in Workers, id \in Ids : id \in work[w].todo => work[w].result[id] = None

Waiting(id) == rows[id] # None /\ rows[id].status = "pending"

\* A delivery that waits has cost no more copies than were lost, up to the copy of
\* the cycle in flight; if that cycle cannot commit, its loss is one already.
Accounted(id) ==
    /\ accepted[id].copies <= 1 + Lost
    /\ rows[id] = None /\ id[2] \in recipients => accepted[id].copies = 0
    /\ Waiting(id) => /\ ~Taken(id) \/ Vanished => accepted[id].copies <= Lost
                      /\ ~Taken(id) /\ Vanished => accepted[id].copies < Lost

CopyInv == /\ \A id \in Ids : Accounted(id)
           /\ Vanished => Lost > 0

LEMMA LostIsNat == ASSUME IInv PROVE Lost \in Nat
<1>1. IsFiniteSet(Recipients \ recipients)
  BY ConstantsAssumption, FS_Subset DEF ConstantsAssumption
<1>2. Cardinality(Recipients \ recipients) \in Nat
  BY <1>1, FS_CardinalityType
<1> QED
  BY <1>2, ConstantsAssumption DEF Lost, IInv, AnyInv, TypeOK, ConstantsAssumption

LEMMA CopiesAtFirst == ASSUME Init PROVE CopyInv
<1>1. Recipients \ recipients = {} /\ MaxFaults \in Nat
  BY ConstantsAssumption DEF Init, ConstantsAssumption
<1>2. Lost = 0
  BY <1>1, FS_EmptySet DEF Init, Lost
<1> QED
  BY <1>2 DEF Init, CopyInv, Accounted, Waiting, Vanished, Idle, IdleWorker, Nothing

\* A step that sends nothing, brings back no row and forgets nothing of the cycles
\* in flight.
LEMMA CopiesStay ==
    ASSUME IInv, CopyInv, UNCHANGED accepted, recipients' \subseteq recipients,
           Lost' \in Nat, Lost' >= Lost,
           \A id \in Ids : rows'[id] # None \/ id[2] \notin recipients' \/ rows'[id] = rows[id],
           \A id \in Ids : Waiting(id)' => \/ Waiting(id) /\ (~Taken(id)' => ~Taken(id))
                                           \/ rows[id] = None /\ id[2] \in recipients,
           Vanished' => Vanished
    PROVE  CopyInv'
<1>1. Lost \in Nat /\ \A id \in Ids : accepted[id].copies \in Nat
  BY LostIsNat DEF IInv, AnyInv, TypeOK
<1>2. ASSUME NEW id \in Ids
      PROVE  Accounted(id)'
  <2>1. Accounted(id)
    BY DEF CopyInv
  <2>2. accepted'[id].copies <= 1 + Lost'
    BY <1>1, <2>1 DEF Accounted
  <2>3. rows'[id] = None /\ id[2] \in recipients' => accepted'[id].copies = 0
    BY <2>1 DEF Accounted
  <2>4. Waiting(id)' =>
           /\ ~Taken(id)' \/ Vanished' => accepted'[id].copies <= Lost'
           /\ ~Taken(id)' /\ Vanished' => accepted'[id].copies < Lost'
    BY <1>1, <2>1 DEF Accounted, CopyInv
  <2> QED
    BY <2>2, <2>3, <2>4 DEF Accounted
<1> QED
  BY <1>1, <1>2 DEF CopyInv

\* A cycle that is gone without a trace: what it had taken counts as lost.
LEMMA CopiesOfLostCycle ==
    ASSUME IInv, CopyInv, UNCHANGED <<rows, recipients, accepted>>, Lost' \in Nat,
           \A w \in Workers : Idle(w)',
           Lost' > Lost \/ (Lost' = Lost /\ Vanished)
    PROVE  CopyInv'
<1>1. Lost \in Nat /\ \A id \in Ids : accepted[id].copies \in Nat
  BY LostIsNat DEF IInv, AnyInv, TypeOK
<1>2. ~Vanished' /\ \A id \in Ids : ~Taken(id)'
  BY DEF Vanished, Taken
<1>3. ASSUME NEW id \in Ids
      PROVE  Accounted(id)'
  <2>1. Accounted(id) /\ (Waiting(id)' => Waiting(id))
    BY DEF CopyInv, Waiting
  <2>2. accepted'[id].copies <= 1 + Lost'
    BY <1>1, <2>1 DEF Accounted
  <2>3. Waiting(id)' => accepted'[id].copies <= Lost'
    BY <1>1, <2>1 DEF Accounted
  <2> QED
    BY <1>2, <2>1, <2>2, <2>3 DEF Accounted
<1> QED
  BY <1>2, <1>3 DEF CopyInv

LEMMA CopiesAtStart ==
    ASSUME ~Overlap, IInv, CopyInv, NEW w \in Workers, CycleStart(w) PROVE CopyInv'
<1>1. /\ \A v \in Workers : Idle(v)
      /\ work'[w].loaded = [id \in Ids |-> IF IsDue(id, now) THEN rows[id] ELSE None]
      /\ work'[w].result = [id \in Ids |-> None]
      /\ \A v \in Workers \ {w} : work'[v] = work[v]
      /\ UNCHANGED <<faults, recipients, rows, accepted>>
  BY DEF CycleStart, IInv, AnyInv, CyclesOK, IdleWorker
<1>2. \A v \in Workers \ {w} : Idle(v)'
  BY <1>1 DEF Idle
<1>3. \A id \in Ids : work'[w].loaded[id] # None => rows'[id] # None
  BY <1>1
<1>4. ~Vanished'
  BY <1>2, <1>3 DEF Vanished
<1>5. \A id \in Ids : ~Taken(id) /\ (Waiting(id)' => Waiting(id))
  BY <1>1 DEF Taken, Waiting
<1>6. Lost' = Lost
  BY <1>1 DEF Lost
<1> QED
  BY <1>1, <1>4, <1>5, <1>6, CopiesStay, LostIsNat

LEMMA CopiesOfLost ==
    ASSUME IInv, CopyInv, NEW w \in Workers, CycleLost(w) \/ CommitFails(w) PROVE CopyInv'
<1>1. ~Idle(w) /\ work' = [work EXCEPT ![w] = IdleWorker]
      /\ UNCHANGED <<rows, recipients, accepted>>
  BY DEF CycleLost, CommitFails, Finished, Idle
<1>2. \A v \in Workers : Idle(v)'
  BY <1>1, IdleWorkerOK DEF IInv, AnyInv, Serial, CyclesOK, Idle
<1>3. CASE CycleLost(w)
  <2>1. faults' = faults - 1 /\ faults \in 0 .. MaxFaults /\ faults > 0 /\ MaxFaults \in Nat
    BY <1>3, ConstantsAssumption DEF CycleLost, IInv, AnyInv, TypeOK, ConstantsAssumption
  <2>2. Cardinality(Recipients \ recipients) \in Nat
    BY ConstantsAssumption, FS_Subset, FS_CardinalityType DEF ConstantsAssumption
  <2>3. Lost' = Lost + 1 /\ Lost \in Nat
    BY <1>1, <2>1, <2>2, LostIsNat DEF Lost
  <2> QED
    BY <1>1, <1>2, <2>3, CopiesOfLostCycle
<1>4. CASE CommitFails(w)
  <2>1. PICK id \in Written(w) : rows[id] = None
    BY <1>4 DEF CommitFails, CanCommit
  <2>2. work[w].loaded[id] # None /\ id \in Ids
    BY <1>4, <2>1 DEF CommitFails, Finished, Written, IInv, AnyInv, Tried
  <2>3. Vanished
    BY <1>1, <2>1, <2>2 DEF Vanished
  <2>4. Lost' = Lost
    BY <1>4 DEF CommitFails, Lost
  <2> QED
    BY <1>1, <1>2, <2>3, <2>4, CopiesOfLostCycle, LostIsNat
<1> QED
  BY <1>3, <1>4

\* The channel takes one more copy, of a delivery that was not taken yet.
LEMMA CopiesOfAttempt ==
    ASSUME IInv, CopyInv, NEW w \in Workers, NEW id \in Ids, NEW ok \in BOOLEAN,
           Attempt(w, id, ok), TriedOnce
    PROVE  CopyInv'
<1> DEFINE said == IF ok THEN "sent" ELSE "failed"
<1>1. /\ id \in work[w].todo /\ work[w] \in WorkRow
      /\ work'[w] = [work[w] EXCEPT !.todo = @ \ {id}, !.result[id] = said,
                                    !.alert = Loaded(w, id)]
      /\ \A v \in Workers \ {w} : work'[v] = work[v]
      /\ UNCHANGED <<now, faults, events, recipients, rows>>
  BY DEF Attempt, IInv, AnyInv, CyclesOK
<1> HIDE DEF said
<1>2. /\ work'[w].pc = work[w].pc /\ work'[w].loaded = work[w].loaded
      /\ work'[w].result = [work[w].result EXCEPT ![id] = said]
      /\ ~Idle(w)
  BY <1>1 DEF WorkRow, IInv, Serial
<1>3. \A v \in Workers : Idle(v)' = Idle(v)
  BY <1>1, <1>2 DEF Idle
<1>4. \A v \in Workers : work'[v].loaded = work[v].loaded
  BY <1>1, <1>2
<1>5. (Vanished' <=> Vanished) /\ Lost' = Lost /\ Lost \in Nat
  BY <1>1, <1>3, <1>4, LostIsNat DEF Vanished, Lost
<1>6. \A i \in Ids \ {id} : Taken(i)' <=> Taken(i)
  <2>1. \A i \in Ids \ {id} : work'[w].result[i] = work[w].result[i]
    BY <1>1, <1>2 DEF WorkRow
  <2>2. \A v \in Workers, i \in Ids \ {id} : work'[v].result[i] = work[v].result[i]
    BY <1>1, <2>1
  <2> QED
    BY <1>3, <2>2 DEF Taken
<1>7. ~Taken(id) /\ (ok => Taken(id)')
  <2>1. \A v \in Workers \ {w} : Idle(v)
    BY <1>2 DEF IInv, Serial
  <2>2. work[w].result[id] = None
    BY <1>1, <1>2 DEF TriedOnce
  <2>3. ~Taken(id)
    BY <2>1, <2>2, NoneIsNoRow DEF Taken, NoneIsNoRow
  <2>4. work'[w].result[id] = said
    BY <1>1, <1>2 DEF WorkRow
  <2> QED
    BY <1>2, <1>3, <2>3, <2>4 DEF Taken, said
<1>8. \A i \in Ids : accepted[i].copies \in Nat
  BY DEF IInv, AnyInv, TypeOK
<1>9. \A i \in Ids \ {id} : accepted'[i] = accepted[i]
  BY DEF Attempt, IInv, AnyInv, TypeOK
<1>10. ok => Waiting(id) /\ accepted'[id].copies = accepted[id].copies + 1
  <2> SUFFICES ASSUME ok PROVE Waiting(id) /\ accepted'[id].copies = accepted[id].copies + 1
    OBVIOUS
  <2>1. work[w].pc = "run" /\ work[w].loaded[id] # None
    BY <1>1, <1>2 DEF IInv, AnyInv, Tried, Idle, WorkRow
  <2>2. rows[id] # None /\ id[2] \in recipients
    BY DEF Attempt, IInv, AnyInv, TypeOK
  <2>3. Waiting(id)
    BY <2>1, <2>2 DEF IInv, Unmoved, Waiting
  <2>4. accepted' = [accepted EXCEPT ![id] =
                        [copies |-> @.copies + 1, told |-> @.told \cup {Content(w, id)}]]
    BY DEF Attempt
  <2> HIDE DEF Content
  <2>5. accepted'[id].copies = accepted[id].copies + 1
    BY <2>4 DEF IInv, AnyInv, TypeOK
  <2> QED
    BY <2>3, <2>5
<1>11. ~ok => accepted' = accepted
  BY DEF Attempt
<1>12. \A i \in Ids : Waiting(i)' = Waiting(i)
  BY <1>1 DEF Waiting
<1>13. ASSUME NEW i \in Ids
       PROVE  Accounted(i)'
  <2>1. Accounted(i)
    BY DEF CopyInv
  <2>2. CASE i # id
    BY <1>1, <1>5, <1>6, <1>9, <1>12, <2>1, <2>2 DEF Accounted
  <2>3. CASE i = id /\ ~ok
    BY <1>1, <1>5, <1>7, <1>8, <1>11, <1>12, <2>1, <2>3 DEF Accounted
  <2>4. CASE i = id /\ ok
    BY <1>1, <1>5, <1>7, <1>8, <1>10, <1>12, <2>1, <2>4 DEF Accounted, Waiting
  <2> QED
    BY <2>2, <2>3, <2>4
<1> QED
  BY <1>5, <1>13 DEF CopyInv

\* What a committed cycle leaves waiting, it has not had taken.
LEMMA CopiesOfCommit ==
    ASSUME IInv, CopyInv, NEW w \in Workers, Commit(w) PROVE CopyInv'
<1>1. /\ rows' = [id \in Ids |-> IF id \in Written(w) THEN Settled(w, id) ELSE rows[id]]
      /\ work' = [work EXCEPT ![w] = IdleWorker] /\ ~Idle(w)
      /\ UNCHANGED <<faults, recipients, accepted>>
  BY DEF Commit, Finished, Idle
<1>2. \A v \in Workers : Idle(v)'
  BY <1>1, IdleWorkerOK DEF IInv, AnyInv, Serial, CyclesOK, Idle
<1>3. ~Vanished' /\ (\A id \in Ids : ~Taken(id)') /\ Lost' = Lost /\ Lost \in Nat
  BY <1>1, <1>2, LostIsNat DEF Vanished, Taken, Lost
<1>4. ASSUME NEW id \in Ids
      PROVE  Accounted(id)'
  <2>1. Accounted(id) /\ accepted[id].copies \in Nat
    BY DEF CopyInv, IInv, AnyInv, TypeOK
  <2>2. CASE id \notin Written(w)
    <3>1. Waiting(id)' => ~Taken(id)
      <4>1. work[w].result[id] # "sent"
        BY <2>2, NoneIsNoRow DEF Written, NoneIsNoRow
      <4> QED
        BY <1>1, <4>1 DEF Taken, IInv, Serial
    <3> QED
      BY <1>1, <1>3, <2>1, <2>2, <3>1 DEF Accounted, Waiting
  <2>3. CASE id \in Written(w)
    <3>1. rows[id] \in DeliveryRow /\ rows[id].status = "pending" /\ rows[id] # None
          /\ Settled(w, id) \in DeliveryRow
      BY <2>3, SettledRow DEF Commit, CanCommit, IInv, AnyInv, TypeOK
    <3>2. rows'[id] = Settled(w, id) /\ rows'[id] # None
      BY <1>1, <2>3, <3>1, NoneIsNoRow DEF NoneIsNoRow
    <3>3. Waiting(id)' => ~Taken(id)
      <4>1. Settled(w, id).status = "pending" => work[w].result[id] # "sent"
        BY <3>1 DEF Settled, DeliveryRow
      <4> QED
        BY <1>1, <3>2, <4>1 DEF Taken, IInv, Serial, Waiting
    <3> QED
      BY <1>1, <1>3, <2>1, <3>1, <3>2, <3>3 DEF Accounted, Waiting
  <2> QED
    BY <2>2, <2>3
<1> QED
  BY <1>3, <1>4 DEF CopyInv

LEMMA CopiesOfNewRows ==
    ASSUME IInv, CopyInv, UNCHANGED <<faults, recipients, accepted, work>>,
           \A id \in Ids : rows'[id] = rows[id]
                           \/ (rows[id] = None /\ id[2] \in recipients /\ rows'[id] # None)
    PROVE  CopyInv'
<1>1. Vanished' => Vanished
  BY DEF Vanished, Idle
<1>2. \A id \in Ids : Taken(id)' = Taken(id)
  BY DEF Taken, Idle
<1>3. Lost' = Lost
  BY DEF Lost
<1>4. \A id \in Ids : Waiting(id)' => Waiting(id) \/ (rows[id] = None /\ id[2] \in recipients)
  BY DEF Waiting
<1> QED
  BY <1>1, <1>2, <1>3, <1>4, CopiesStay, LostIsNat

LEMMA CopiesOfDeleted ==
    ASSUME IInv, CopyInv, NEW p \in Recipients, DeleteRecipient(p) PROVE CopyInv'
<1>1. /\ p \in recipients /\ recipients' = recipients \ {p}
      /\ rows' = [id \in Ids |-> IF id[2] = p THEN None ELSE rows[id]]
      /\ UNCHANGED <<faults, accepted, work>>
  BY DEF DeleteRecipient
<1>2. /\ Recipients \ recipients' = (Recipients \ recipients) \cup {p}
      /\ p \notin Recipients \ recipients
  BY <1>1
<1>3. IsFiniteSet(Recipients \ recipients)
  BY ConstantsAssumption, FS_Subset DEF ConstantsAssumption
<1>4. /\ Cardinality(Recipients \ recipients') = Cardinality(Recipients \ recipients) + 1
      /\ Cardinality(Recipients \ recipients) \in Nat
  BY <1>2, <1>3, FS_AddElement, FS_CardinalityType
<1>5. faults \in 0 .. MaxFaults /\ MaxFaults \in Nat
  BY ConstantsAssumption DEF IInv, AnyInv, TypeOK, ConstantsAssumption
<1>6. Lost' = Lost + 1 /\ Lost \in Nat
  BY <1>1, <1>4, <1>5, LostIsNat DEF Lost
<1>7. \A id \in Ids : accepted[id].copies \in Nat /\ Taken(id)' = Taken(id)
  BY <1>1 DEF IInv, AnyInv, TypeOK, Taken, Idle
<1>8. ASSUME NEW id \in Ids
      PROVE  Accounted(id)'
  <2>1. Accounted(id) /\ (Waiting(id)' => Waiting(id))
        /\ (rows'[id] = None /\ id[2] \in recipients' => rows[id] = None /\ id[2] \in recipients)
    BY <1>1 DEF CopyInv, Waiting
  <2> QED
    BY <1>1, <1>6, <1>7, <2>1 DEF Accounted
<1> QED
  BY <1>6, <1>8 DEF CopyInv

LEMMA TriedOnceStep == ASSUME IInv, TriedOnce, [Next]_vars PROVE TriedOnce'
<1>1. ASSUME NEW w \in Workers, work' = [work EXCEPT ![w] = work'[w]],
             \A id \in Ids : id \in work'[w].todo => work'[w].result[id] = None
      PROVE  TriedOnce'
  BY <1>1 DEF TriedOnce, IInv, AnyInv, CyclesOK
<1>2. ASSUME NEW w \in Workers, Cycle(w) PROVE TriedOnce'
  <2>1. CASE CycleStart(w)
    <3>1. /\ work' = [work EXCEPT ![w] = work'[w]]
          /\ work'[w] = [pc |-> "run", at |-> now, todo |-> {id \in Ids : IsDue(id, now)},
                         loaded |-> [id \in Ids |-> IF IsDue(id, now) THEN rows[id] ELSE None],
                         result |-> [id \in Ids |-> None], alert |-> [e \in Events |-> None]]
      BY <2>1 DEF CycleStart, IInv, AnyInv, CyclesOK, IdleWorker
    <3>2. \A id \in Ids : work'[w].result[id] = None
      BY <3>1
    <3>3. work' = [work EXCEPT ![w] = work'[w]]
      BY <3>1
    <3> QED
      BY <1>1, <3>2, <3>3
  <2>2. CASE CycleLost(w) \/ Commit(w) \/ CommitFails(w)
    <3>1. work' = [work EXCEPT ![w] = IdleWorker]
      BY <2>2 DEF CycleLost, Commit, CommitFails
    <3>2. work'[w].todo = {} /\ work' = [work EXCEPT ![w] = work'[w]]
      BY <3>1, IdleWorkerOK DEF IInv, AnyInv, CyclesOK
    <3> QED
      BY <1>1, <3>2
  <2>3. ASSUME NEW id \in Ids, NEW ok \in BOOLEAN, Attempt(w, id, ok) PROVE TriedOnce'
    <3> DEFINE said == IF ok THEN "sent" ELSE "failed"
    <3>1. /\ work[w] \in WorkRow /\ \A v \in Workers \ {w} : work'[v] = work[v]
          /\ work'[w] = [work[w] EXCEPT !.todo = @ \ {id}, !.result[id] = said,
                                        !.alert = Loaded(w, id)]
      BY <2>3 DEF Attempt, IInv, AnyInv, CyclesOK
    <3> HIDE DEF said
    <3>2. /\ work'[w].todo = work[w].todo \ {id}
          /\ work'[w].result = [work[w].result EXCEPT ![id] = said]
      BY <3>1 DEF WorkRow
    <3>3. \A i \in Ids : i \in work'[w].todo =>
             i \in work[w].todo /\ work'[w].result[i] = work[w].result[i]
      BY <3>1, <3>2 DEF WorkRow
    <3>4. ASSUME NEW v \in Workers, NEW i \in Ids, i \in work'[v].todo
          PROVE  work'[v].result[i] = None
      <4>1. i \in work[v].todo /\ work'[v].result[i] = work[v].result[i]
        BY <3>1, <3>3, <3>4
      <4> QED
        BY <4>1 DEF TriedOnce
    <3> QED
      BY <3>4 DEF TriedOnce
  <2> QED
    BY <1>2, <2>1, <2>2, <2>3 DEF Cycle
<1>3. CASE Environment \/ Tick \/ UNCHANGED vars
  <2>1. UNCHANGED work
    BY <1>3 DEF Environment, Transition, Escalate, DeleteRecipient, Tick, vars
  <2> QED
    BY <2>1 DEF TriedOnce
<1> QED
  BY <1>2, <1>3 DEF Next

\* Only where there was no row, does one appear.
LEMMA NewRowsOnly ==
    ASSUME IInv, NEW e \in Events,
           \/ \E kind \in Notices : Transition(e, kind)
           \/ \E p \in Recipients, n \in 1 .. MaxNotices : Escalate(e, p, n)
    PROVE  /\ UNCHANGED <<faults, recipients, accepted, work>>
           /\ \A id \in Ids : \/ rows'[id] = rows[id]
                              \/ rows[id] = None /\ id[2] \in recipients /\ rows'[id] # None
<1>1. \A k \in Notices : NewDelivery(k) # None
  BY NoneIsNoRow DEF NoneIsNoRow, NewDelivery, DeliveryRow, IInv, AnyInv, TypeOK, NoTime
<1>2. ASSUME NEW kind \in Notices, Transition(e, kind), NEW id \in Ids
      PROVE  \/ rows'[id] = rows[id]
             \/ rows[id] = None /\ id[2] \in recipients /\ rows'[id] # None
  <2>1. CASE id \in {<<e, p, Ordinal(e) + 1>> : p \in Notified \cap recipients}
    <3>1. id[1] = e /\ id[2] \in recipients /\ id[3] = Ordinal(e) + 1
      BY <2>1
    <3>2. Ordinal(e) \in Nat
      BY ConstantsAssumption DEF IInv, AnyInv, TypeOK, Ordinal, EventRow, ConstantsAssumption
    <3>3. rows[id] = None
      BY <3>1, <3>2 DEF IInv, AnyInv, TypeOK
    <3>4. rows'[id] = NewDelivery(kind)
      BY <1>2, <2>1 DEF Transition
    <3> QED
      BY <1>1, <3>1, <3>3, <3>4
  <2> QED
    BY <1>2, <2>1 DEF Transition
<1>3. ASSUME NEW p \in Recipients, NEW n \in 1 .. MaxNotices, Escalate(e, p, n), NEW id \in Ids
      PROVE  \/ rows'[id] = rows[id]
             \/ rows[id] = None /\ id[2] \in recipients /\ rows'[id] # None
  <2> DEFINE kind == NoticeAt(e, n)
             new == {<<e, p, n>>}
  <2>1. kind \in Notices /\ Opens(e, n, kind, new)
    BY <1>3, EscalateOpens DEF IInv
  <2> HIDE DEF kind, new
  <2> QED
    BY <1>1, <2>1 DEF Opens
<1>4. UNCHANGED <<faults, recipients, accepted, work>>
  BY DEF Transition, Escalate
<1> QED
  BY <1>2, <1>3, <1>4

LEMMA CopiesStep == ASSUME ~Overlap, IInv, TriedOnce, CopyInv, [Next]_vars PROVE CopyInv'
<1>1. ASSUME NEW w \in Workers, Cycle(w) PROVE CopyInv'
  BY <1>1, CopiesAtStart, CopiesOfAttempt, CopiesOfLost, CopiesOfCommit DEF Cycle
<1>2. CASE Environment
  <2>1. ASSUME NEW e \in Events, \/ \E kind \in Notices : Transition(e, kind)
                                 \/ \E p \in Recipients, n \in 1 .. MaxNotices : Escalate(e, p, n)
        PROVE  CopyInv'
    BY <2>1, NewRowsOnly, CopiesOfNewRows
  <2> QED
    BY <1>2, <2>1, CopiesOfDeleted DEF Environment
<1>3. CASE Tick \/ UNCHANGED vars
  BY <1>3, CopiesOfNewRows DEF Tick, vars
<1> QED
  BY <1>1, <1>2, <1>3 DEF Next

-----------------------------------------------------------------------------
(* Backoff *)

\* A delivery that was tried has waited for all the delays before its last try, and
\* waits for the next; Due says when a cycle may load it.
Backed(row) ==
    row.attempts > 0 =>
        /\ row.attempts <= MaxAttempts
        /\ row.updatedAt < MaxTime =>
              row.updatedAt - row.createdAt >= RetryDelay(row.attempts) - RetryBase
        /\ row.status = "pending" => row.nextRetryAt = row.updatedAt + RetryDelay(row.attempts)

Due(row, t) == /\ row.createdAt <= t
               /\ row.nextRetryAt \in {NoTime} \/ row.nextRetryAt <= t \/ t = MaxTime

BackoffInv ==
    /\ \A id \in Ids : rows[id] # None => Backed(rows[id]) /\ rows[id].createdAt <= now
    /\ \A w \in Workers, id \in Ids : work[w].pc = "run" /\ work[w].loaded[id] # None =>
          Due(work[w].loaded[id], work[w].at)

LEMMA BackoffAtFirst == ASSUME Init PROVE BackoffInv
BY DEF Init, BackoffInv, IdleWorker

\* One more try, at a time the delivery was due.
LEMMA SettledIsBacked ==
    ASSUME IInv, BackoffInv, NEW w \in Workers, Commit(w), NEW id \in Written(w)
    PROVE  Backed(Settled(w, id)) /\ Settled(w, id).createdAt = rows[id].createdAt
<1> DEFINE row == rows[id]
           at == work[w].at
<1>1. work[w].pc = "run" /\ work[w] \in WorkRow /\ id \in Ids /\ rows[id] # None
  BY DEF Commit, Finished, CanCommit, Written, IInv, AnyInv, CyclesOK
<1>2. row = work[w].loaded[id] /\ row.status = "pending" /\ row \in DeliveryRow
  BY <1>1, SettledRow DEF IInv, AnyInv, TypeOK
<1>3. Backed(row) /\ Due(row, at)
  BY <1>1, <1>2 DEF BackoffInv
<1>4. /\ row.attempts \in Nat /\ ~(row.attempts >= MaxAttempts) /\ MaxAttempts \in Nat
      /\ MaxTime \in Nat /\ at \in 0 .. MaxTime /\ RetryBase \in Nat
  BY <1>1, <1>2, ConstantsAssumption
  DEF IInv, OutcomeIsTrue, DeliveryRow, ConstantsAssumption, WorkRow, Time
<1>5. /\ row.createdAt \in 0 .. MaxTime /\ row.updatedAt \in 0 .. MaxTime
      /\ row.nextRetryAt \in Int
  BY <1>2 DEF DeliveryRow, Time
<1> HIDE DEF row, at
\* The tries so far, and the next, have been waited for.
<1>6. at < MaxTime /\ row.attempts > 0 => at - row.createdAt >= RetryDelay(row.attempts) - RetryBase
  <2> SUFFICES ASSUME at < MaxTime, row.attempts > 0
               PROVE  at - row.createdAt >= RetryDelay(row.attempts) - RetryBase
    OBVIOUS
  <2>1. RetryDelay(row.attempts) \in Nat
    BY <1>4, RetryDelayDoubles
  <2>2. row.nextRetryAt = row.updatedAt + RetryDelay(row.attempts)
    BY <1>2, <1>3 DEF Backed
  <2> HIDE DEF RetryDelay
  <2>3. row.nextRetryAt <= at
    BY <1>3, <1>4, <1>5, <2>1, <2>2 DEF Due, NoTime
  <2>4. row.updatedAt < MaxTime
    BY <1>4, <1>5, <2>1, <2>2, <2>3
  <2>5. row.updatedAt - row.createdAt >= RetryDelay(row.attempts) - RetryBase
    BY <1>3, <2>4 DEF Backed
  <2> QED
    BY <1>4, <1>5, <2>1, <2>2, <2>3, <2>5
<1>7. at < MaxTime => at - row.createdAt >= RetryDelay(row.attempts + 1) - RetryBase
  <2> SUFFICES ASSUME at < MaxTime
               PROVE  at - row.createdAt >= RetryDelay(row.attempts + 1) - RetryBase
    OBVIOUS
  <2>1. CASE row.attempts = 0
    <3>1. RetryDelay(row.attempts + 1) = RetryBase
      BY <2>1, RetryDelayDoubles
    <3> QED
      BY <1>3, <1>4, <1>5, <3>1 DEF Due
  <2>2. CASE row.attempts > 0
    <3>1. /\ RetryDelay(row.attempts) \in Nat
          /\ RetryDelay(row.attempts + 1) = 2 * RetryDelay(row.attempts)
      BY <1>4, <2>2, RetryDelayDoubles
    <3>2. row.nextRetryAt = row.updatedAt + RetryDelay(row.attempts)
      BY <1>2, <1>3, <2>2 DEF Backed
    <3> HIDE DEF RetryDelay
    <3>3. row.nextRetryAt <= at
      BY <1>3, <1>4, <1>5, <3>1, <3>2 DEF Due, NoTime
    <3>4. row.updatedAt < MaxTime
      BY <1>4, <1>5, <3>1, <3>2, <3>3
    <3>5. row.updatedAt - row.createdAt >= RetryDelay(row.attempts) - RetryBase
      BY <1>3, <2>2, <3>4 DEF Backed
    <3> QED
      BY <1>4, <1>5, <3>1, <3>2, <3>3, <3>5
  <2> QED
    BY <1>4, <2>1, <2>2
<1> DEFINE new == Settled(w, id)
<1>8. /\ new.createdAt = row.createdAt /\ new.updatedAt = at
      /\ \/ new.attempts = row.attempts /\ new.status = "sent"
         \/ new.attempts = row.attempts + 1 /\ new.status = "failed"
         \/ /\ new.attempts = row.attempts + 1 /\ new.status = "pending"
            /\ new.nextRetryAt = at + RetryDelay(new.attempts)
  <2> HIDE DEF RetryDelay
  <2> QED
    BY <1>2 DEF Settled, DeliveryRow, row, at
<1> HIDE DEF new
<1>9. Backed(new)
  <2> HIDE DEF RetryDelay
  <2> QED
    BY <1>4, <1>6, <1>7, <1>8 DEF Backed
<1> QED
  BY <1>8, <1>9 DEF new, row

\* What a step may do to a row: nothing, delete it, create it, settle it.
LEMMA RowsChange ==
    ASSUME IInv, [Next]_vars, NEW id \in Ids, rows'[id] # None, rows'[id] # rows[id]
    PROVE  \/ \E kind \in Notices : rows'[id] = NewDelivery(kind)
           \/ \E w \in Workers : Commit(w) /\ id \in Written(w)
<1>1. ASSUME NEW w \in Workers, Cycle(w) PROVE Commit(w) /\ id \in Written(w)
  BY <1>1 DEF Cycle, CycleStart, Attempt, CycleLost, Commit, CommitFails
<1>2. ASSUME NEW e \in Events, NEW kind \in Notices, Transition(e, kind)
      PROVE  rows'[id] = NewDelivery(kind)
  BY <1>2 DEF Transition
<1>3. ASSUME NEW e \in Events, NEW p \in Recipients, NEW n \in 1 .. MaxNotices,
             Escalate(e, p, n)
      PROVE  \E kind \in Notices : rows'[id] = NewDelivery(kind)
  <2> DEFINE said == NoticeAt(e, n)
             new == {<<e, p, n>>}
  <2>1. said \in Notices /\ Opens(e, n, said, new)
    BY <1>3, EscalateOpens DEF IInv
  <2> HIDE DEF said, new
  <2> QED
    BY <2>1 DEF Opens
<1>4. ASSUME NEW p \in Recipients, DeleteRecipient(p) PROVE FALSE
  BY <1>4 DEF DeleteRecipient
<1>5. ~(Tick \/ UNCHANGED vars)
  BY DEF Tick, vars
<1> QED
  BY <1>1, <1>2, <1>3, <1>4, <1>5 DEF Next, Environment

\* What a cycle works on, it has loaded when it began.
LEMMA CyclesChange ==
    ASSUME IInv, [Next]_vars, NEW w \in Workers, work'[w].pc = "run"
    PROVE  \/ CycleStart(w)
           \/ /\ work[w].pc = "run" /\ work'[w].loaded = work[w].loaded
              /\ work'[w].at = work[w].at
<1>1. ASSUME NEW v \in Workers, Cycle(v)
      PROVE  \/ CycleStart(w)
             \/ /\ work[w].pc = "run" /\ work'[w].loaded = work[w].loaded
                /\ work'[w].at = work[w].at
  <2>1. CASE v # w
    <3>1. work'[w] = work[w]
      BY <1>1, <2>1
      DEF Cycle, CycleStart, Attempt, CycleLost, Commit, CommitFails, IInv, AnyInv, CyclesOK
    <3> QED
      BY <3>1
  <2>2. CASE v = w
    <3>1. ASSUME NEW id \in Ids, NEW ok \in BOOLEAN, Attempt(w, id, ok)
          PROVE  /\ work[w].pc = "run" /\ work'[w].loaded = work[w].loaded
                 /\ work'[w].at = work[w].at
      <4> DEFINE said == IF ok THEN "sent" ELSE "failed"
      <4>1. work'[w] = [work[w] EXCEPT !.todo = @ \ {id}, !.result[id] = said,
                                       !.alert = Loaded(w, id)]
        BY <3>1 DEF Attempt, IInv, AnyInv, CyclesOK
      <4> HIDE DEF said
      <4>2. work[w] \in WorkRow
        BY DEF IInv, AnyInv, CyclesOK
      <4> QED
        BY <4>1, <4>2 DEF WorkRow
    <3>2. CASE CycleLost(w) \/ Commit(w) \/ CommitFails(w)
      <4>1. work' = [work EXCEPT ![w] = IdleWorker]
        BY <3>2 DEF CycleLost, Commit, CommitFails
      <4> QED
        BY <4>1, IdleWorkerOK DEF IInv, AnyInv, CyclesOK
    <3> QED
      BY <1>1, <2>2, <3>1, <3>2 DEF Cycle
  <2> QED
    BY <2>1, <2>2
<1>2. CASE Environment \/ Tick \/ UNCHANGED vars
  <2>1. UNCHANGED work
    BY <1>2 DEF Environment, Transition, Escalate, DeleteRecipient, Tick, vars
  <2> QED
    BY <2>1
<1> QED
  BY <1>1, <1>2 DEF Next

LEMMA BackoffStep == ASSUME IInv, BackoffInv, [Next]_vars PROVE BackoffInv'
<1>1. ASSUME NEW id \in Ids, rows'[id] # None
      PROVE  Backed(rows'[id]) /\ rows'[id].createdAt <= now'
  <2>1. now \in Nat /\ now' \in Nat /\ now <= now'
    <3>1. now' \in {now, now + 1}
      <4>1. ASSUME NEW w \in Workers, Cycle(w) PROVE now' = now
        BY <4>1 DEF Cycle, CycleStart, Attempt, CycleLost, Commit, CommitFails
      <4>2. CASE Environment
        BY <4>2 DEF Environment, Transition, Escalate, DeleteRecipient
      <4> QED
        BY <4>1, <4>2 DEF Next, Tick, vars
    <3>2. now \in Nat
      BY ConstantsAssumption DEF IInv, AnyInv, TypeOK, Time, ConstantsAssumption
    <3> QED
      BY <3>1, <3>2
  <2>2. CASE rows'[id] = rows[id]
    <3>1. rows[id].createdAt \in Nat
      BY <1>1, <2>2, ConstantsAssumption
      DEF IInv, AnyInv, TypeOK, DeliveryRow, Time, ConstantsAssumption
    <3> QED
      BY <1>1, <2>1, <2>2, <3>1 DEF BackoffInv
  <2>3. ASSUME NEW kind \in Notices, rows'[id] = NewDelivery(kind)
        PROVE  Backed(rows'[id]) /\ rows'[id].createdAt <= now'
    BY <2>1, <2>3 DEF NewDelivery, Backed
  <2>4. ASSUME NEW w \in Workers, Commit(w), id \in Written(w)
        PROVE  Backed(rows'[id]) /\ rows'[id].createdAt <= now'
    <3>1. rows'[id] = Settled(w, id) /\ rows[id] # None
      BY <2>4 DEF Commit, CanCommit
    <3>2. rows[id].createdAt \in Nat /\ rows[id].createdAt <= now
      BY <3>1, ConstantsAssumption
      DEF IInv, AnyInv, TypeOK, DeliveryRow, Time, ConstantsAssumption, BackoffInv
    <3> QED
      BY <2>1, <2>4, <3>1, <3>2, SettledIsBacked
  <2> QED
    BY <1>1, <2>2, <2>3, <2>4, RowsChange
<1>2. ASSUME NEW w \in Workers, NEW id \in Ids, work'[w].pc = "run", work'[w].loaded[id] # None
      PROVE  Due(work'[w].loaded[id], work'[w].at)
  <2>1. CASE /\ work[w].pc = "run" /\ work'[w].loaded = work[w].loaded
             /\ work'[w].at = work[w].at
    BY <1>2, <2>1 DEF BackoffInv
  <2>2. CASE CycleStart(w)
    <3>1. /\ work'[w].at = now
          /\ work'[w].loaded = [i \in Ids |-> IF IsDue(i, now) THEN rows[i] ELSE None]
      BY <2>2 DEF CycleStart, IInv, AnyInv, CyclesOK, IdleWorker
    <3>2. IsDue(id, now) /\ work'[w].loaded[id] = rows[id]
      BY <1>2, <3>1
    <3> QED
      BY <3>1, <3>2 DEF IsDue, Due, BackoffInv
  <2> QED
    BY <1>2, <2>1, <2>2, CyclesChange
<1> QED
  BY <1>1, <1>2 DEF BackoffInv

-----------------------------------------------------------------------------
(* The theorems *)

LEMMA AnyInvariance == Spec => []AnyInv
BY AnyAtFirst, AnyStep, PTL DEF Spec

\* However cycles overlap: the columns' types; a delivery belongs to an event and a
\* recipient that exist.
THEOREM TypeCorrect == Spec => []TypeOK
<1>1. AnyInv => TypeOK
  BY DEF AnyInv
<1> QED
  BY <1>1, AnyInvariance, PTL

\* However cycles overlap, and whichever of them are lost, a delivery that is
\* recorded as sent was taken by its channel.
THEOREM SentWasTaken ==
    Spec => [](\A id \in Ids : rows[id] # None /\ rows[id].status = "sent"
                                   => accepted[id].copies > 0)
<1>1. AnyInv => \A id \in Ids : rows[id] # None /\ rows[id].status = "sent"
                                    => accepted[id].copies > 0
  BY DEF AnyInv, Honest, RowExists
<1> QED
  BY <1>1, AnyInvariance, PTL

\* However cycles overlap, what a delivery's message told is its own notice, or a
\* later one of its event (the Alert push and e-mail read may have moved on): an
\* all-clear never says anything else, and a webhook always its delivery's notice.
THEOREM NoOlderNotice ==
    Spec => [](\A id \in Ids : rows[id] # None =>
                  \A k \in accepted[id].told :
                      /\ k = rows[id].kind \/ rows[id].kind = "open" \/ k = "closed"
                      /\ KindOf[id[2]] = "webhook" => k = rows[id].kind)
<1> DEFINE NoOlder == \A id \in Ids : rows[id] # None =>
                  \A k \in accepted[id].told :
                      /\ k = rows[id].kind \/ rows[id].kind = "open" \/ k = "closed"
                      /\ KindOf[id[2]] = "webhook" => k = rows[id].kind
<1>1. AnyInv => NoOlder
  BY DEF AnyInv, ToldSince, RowExists, Since
<1> QED
  BY <1>1, AnyInvariance, PTL

\* However cycles overlap, a delivery that was settled is never pending again: the
\* queue never takes it up anew.
THEOREM NeverPendingAgain ==
    Spec => [][\A id \in Ids : rows[id] # None /\ rows[id].status # "pending" /\ rows'[id] # None
                                   => rows'[id].status # "pending"]_vars
<1>1. AnyInv /\ [Next]_vars =>
        [\A id \in Ids : rows[id] # None /\ rows[id].status # "pending" /\ rows'[id] # None
                             => rows'[id].status # "pending"]_vars
  BY NotPendingAgain
<1> QED
  BY <1>1, AnyInvariance, PTL DEF Spec

\* Without overlapping executions, IInv holds throughout.
THEOREM Invariance == ASSUME ~Overlap PROVE Spec => []IInv
<1>1. Init => IInv
  BY Opening
<1>2. IInv /\ [Next]_vars => IInv'
  BY EveryStep
<1> QED
  BY <1>1, <1>2, PTL DEF Spec

\* `sent' means a channel took it, `failed' that the attempts are used up.
THEOREM OutcomesAreTrue == ASSUME ~Overlap PROVE Spec => []OutcomeIsTrue
<1>1. IInv => OutcomeIsTrue
  BY DEF IInv
<1> QED
  BY <1>1, Invariance, PTL

\* No step of a cycle, a rule, an escalation or a request changes the row of a
\* delivery that is sent or given up, except to delete it.
THEOREM OutcomesAreFinal == ASSUME ~Overlap PROVE Spec => SettledIsFinal
<1>1. IInv /\ [Next]_vars =>
        [\A id \in Ids : rows[id] # None /\ rows[id].status # "pending"
                            => rows'[id] \in {rows[id], None}]_vars
  BY SettledRowsStay
<1> QED
  BY <1>1, Invariance, PTL DEF Spec, SettledIsFinal

\* A message leaves once more only for a cycle that was lost with what it had sent
\* (run_alert_delivery_cycle), or that could not commit for a recipient deleted
\* under it; no other step of the program repeats one.
THEOREM CopiesAreAccounted == ASSUME ~Overlap PROVE Spec => []CopiesNeedLostCycles
<1>1. Init => TriedOnce /\ CopyInv
  BY CopiesAtFirst DEF Init, TriedOnce, IdleWorker
<1>2. IInv /\ TriedOnce /\ CopyInv /\ [Next]_vars => TriedOnce' /\ CopyInv'
  BY TriedOnceStep, CopiesStep
<1>3. IInv /\ CopyInv => CopiesNeedLostCycles
  <2> SUFFICES ASSUME IInv, CopyInv, NEW id \in Ids
               PROVE  accepted[id].copies <=
                        1 + (MaxFaults - faults) + Cardinality(Recipients \ recipients)
    BY DEF CopiesNeedLostCycles
  <2>1. accepted[id].copies <= 1 + Lost
    BY DEF CopyInv, Accounted
  <2>2. 1 + Lost = 1 + (MaxFaults - faults) + Cardinality(Recipients \ recipients)
    <3>1. MaxFaults \in Nat /\ faults \in Nat
      BY ConstantsAssumption DEF IInv, AnyInv, TypeOK, ConstantsAssumption
    <3>2. Cardinality(Recipients \ recipients) \in Nat
      BY ConstantsAssumption, FS_Subset, FS_CardinalityType DEF ConstantsAssumption
    <3> QED
      BY <3>1, <3>2 DEF Lost
  <2> QED
    BY <2>1, <2>2
<1> QED
  BY <1>1, <1>2, <1>3, Invariance, PTL DEF Spec

\* The series of delays: the k-th try is RetryBase * (2^(k-1) - 1) after the delivery
\* was created, or later (_BACKOFF_BASE_SECONDS).
THEOREM BackoffIsWaited == ASSUME ~Overlap PROVE Spec => []BackoffElapsed
<1>1. IInv /\ BackoffInv => BackoffElapsed
  <2> SUFFICES ASSUME IInv, BackoffInv, NEW id \in Ids, rows[id] # None, rows[id].attempts > 0,
                      rows[id].updatedAt < MaxTime
               PROVE  rows[id].updatedAt - rows[id].createdAt >=
                        RetryBase * (2 ^ (rows[id].attempts - 1) - 1)
    BY DEF BackoffElapsed
  <2>1. rows[id].updatedAt - rows[id].createdAt >= RetryDelay(rows[id].attempts) - RetryBase
    BY DEF BackoffInv, Backed
  <2> DEFINE power == 2 ^ (rows[id].attempts - 1)
  <2>2. rows[id] \in DeliveryRow /\ rows[id].attempts \in 1 .. MaxAttempts
    BY ConstantsAssumption
    DEF IInv, AnyInv, TypeOK, DeliveryRow, ConstantsAssumption, BackoffInv, Backed
  <2>3. RetryDelay(rows[id].attempts) = RetryBase * power /\ power \in Nat /\ RetryBase \in Nat
    BY <2>2, RetryDelayDoubles, ConstantsAssumption DEF RetryDelay, ConstantsAssumption
  <2> HIDE DEF power
  <2>4. RetryBase * power - RetryBase = RetryBase * (power - 1)
    BY <2>3
  <2> QED
    BY <2>1, <2>3, <2>4 DEF power
<1> QED
  BY <1>1, BackoffAtFirst, BackoffStep, Invariance, PTL DEF Spec

-----------------------------------------------------------------------------
(* The tables implement Outbox *)

LEMMA OutboxAtFirst == ASSUME Init PROVE DeliveryOutbox!Init
<1>1. 1 .. 0 = {}
  OBVIOUS
<1>2. /\ Stage = [id \in Ids |-> "absent"]
      /\ Copies = [id \in Ids |-> {}]
      /\ Refusals = [id \in Ids |-> 0]
  BY <1>1 DEF Init, Stage, Copies, Refusals, Nothing, Ids
<1> QED
  BY <1>2 DEF DeliveryOutbox!Init

\* Tries are never more than MaxAttempts; the mapping has the types of an outbox.
OutboxTypes == /\ Stage \in [Ids -> DeliveryOutbox!States]
               /\ Copies \in [Ids -> SUBSET Nat]
               /\ Refusals \in [Ids -> 0 .. MaxAttempts]

LEMMA OutboxTyped == ASSUME IInv, BackoffInv PROVE OutboxTypes
<1>1. \A id \in Ids : rows[id] # None =>
         /\ rows[id].status \in {"pending", "sent", "failed"}
         /\ rows[id].attempts \in 0 .. MaxAttempts
  <2> SUFFICES ASSUME NEW id \in Ids, rows[id] # None
               PROVE  /\ rows[id].status \in {"pending", "sent", "failed"}
                      /\ rows[id].attempts \in 0 .. MaxAttempts
    OBVIOUS
  <2>1. rows[id] \in DeliveryRow
    BY DEF IInv, AnyInv, TypeOK
  <2> QED
    BY <2>1, ConstantsAssumption DEF DeliveryRow, BackoffInv, Backed, ConstantsAssumption
<1>2. Stage \in [Ids -> DeliveryOutbox!States]
  BY <1>1 DEF Stage, Outcome, DeliveryOutbox!States
<1>3. Copies \in [Ids -> SUBSET Nat]
  BY DEF Copies
<1>4. Refusals \in [Ids -> 0 .. MaxAttempts]
  BY <1>1, ConstantsAssumption DEF Refusals, ConstantsAssumption
<1> QED
  BY <1>2, <1>3, <1>4 DEF OutboxTypes

LEMMA OutboxTypedNext == IInv' /\ BackoffInv' => OutboxTypes'
<1>1. IInv /\ BackoffInv => OutboxTypes
  BY OutboxTyped
<1> QED
  BY <1>1, PTL

LEMMA OutboxRests ==
    ASSUME UNCHANGED <<recipients, rows, accepted>> PROVE UNCHANGED DeliveryOutbox!vars
BY DEF DeliveryOutbox!vars, Stage, Copies, Refusals

\* Only a delivery that waits is handed to its channel.
LEMMA AttemptLeaves ==
    ASSUME IInv, NEW w \in Workers, NEW id \in Ids, Attempt(w, id, TRUE)
    PROVE  DeliveryOutbox!Leave(id)
<1>1. /\ id \in work[w].todo /\ rows[id] # None
      /\ UNCHANGED <<recipients, rows>>
      /\ accepted' = [accepted EXCEPT ![id] = [copies |-> accepted[id].copies + 1,
                                               told |-> accepted[id].told \cup {Content(w, id)}]]
  BY DEF Attempt
<1>2. ~Idle(w) /\ work[w].pc = "run"
  BY <1>1 DEF IInv, AnyInv, Serial, Idle, CyclesOK, WorkRow
<1>3. work[w].loaded[id] # None /\ id[2] \in recipients
  BY <1>1, <1>2 DEF IInv, AnyInv, Tried, TypeOK
<1>4. rows[id].status = "pending"
  BY <1>2, <1>3 DEF IInv, Unmoved
<1>5. Stage[id] = "waiting"
  BY <1>1, <1>4 DEF Stage, Outcome
<1>6. Stage' = Stage /\ Refusals' = Refusals
  BY <1>1 DEF Stage, Refusals
<1>7. accepted \in [Ids -> [copies : Nat, told : SUBSET Notices]]
  BY DEF IInv, AnyInv, TypeOK
<1>8. /\ accepted'[id].copies = accepted[id].copies + 1 /\ accepted[id].copies \in Nat
      /\ \A other \in Ids \ {id} : accepted'[other] = accepted[other]
  BY <1>1, <1>7
<1>9. /\ Copies[id] \subseteq Copies'[id]
      /\ \A other \in Ids \ {id} : Copies'[other] = Copies[other]
  BY <1>8 DEF Copies
<1> QED
  BY <1>5, <1>6, <1>9 DEF DeliveryOutbox!Leave

\* What a commit makes of a delivery it tried: taken, refused or waiting once more.
LEMMA CommitRecords ==
    ASSUME IInv, BackoffInv', NEW w \in Workers, Commit(w)
    PROVE  DeliveryOutbox!Record
<1>1. /\ rows' = [id \in Ids |-> IF id \in Written(w) THEN Settled(w, id) ELSE rows[id]]
      /\ UNCHANGED <<recipients, accepted>>
  BY DEF Commit
<1>2. UNCHANGED Copies
  BY <1>1 DEF Copies
<1> SUFFICES ASSUME NEW id \in Ids
             PROVE  \/ DeliveryOutbox!Same(id)
                    \/ /\ Stage[id] = "waiting"
                       /\ \/ DeliveryOutbox!Taken(id) \/ DeliveryOutbox!Retried(id)
                          \/ DeliveryOutbox!Refused(id)
  BY <1>2 DEF DeliveryOutbox!Record
<1>3. CASE id \notin Written(w)
  BY <1>1, <1>3 DEF DeliveryOutbox!Same, Stage, Refusals
<1>4. CASE id \in Written(w)
  <2> DEFINE row == rows[id]
             new == rows'[id]
  <2>1. /\ row = work[w].loaded[id] /\ row.status = "pending" /\ new = Settled(w, id)
        /\ row # None /\ new \in DeliveryRow /\ row \in DeliveryRow
        /\ new.status = "sent" => accepted[id].copies > 0
    <3>1. new = Settled(w, id)
      BY <1>1, <1>4
    <3>2. row # None /\ row \in DeliveryRow
      BY <1>4 DEF Commit, CanCommit, IInv, AnyInv, TypeOK
    <3> HIDE DEF row, new
    <3>3. /\ row = work[w].loaded[id] /\ row.status = "pending"
          /\ Settled(w, id) \in DeliveryRow
          /\ Settled(w, id).status = "sent" => accepted[id].copies > 0
      BY <1>4, SettledRow DEF row
    <3> QED
      BY <3>1, <3>2, <3>3
  <2>2. new # None /\ row.attempts \in Nat
    BY <2>1, NoneIsNoRow DEF NoneIsNoRow, DeliveryRow
  <2>3. /\ Stage[id] = "waiting" /\ Refusals[id] = row.attempts
        /\ Stage'[id] = Outcome[new.status] /\ Refusals'[id] = new.attempts
    BY <2>1, <2>2 DEF Stage, Refusals, Outcome
  <2>4. \/ new.status = "sent" /\ new.attempts = row.attempts
        \/ /\ new.status = "failed" /\ new.attempts = row.attempts + 1
           /\ new.attempts >= MaxAttempts
        \/ /\ new.status = "pending" /\ new.attempts = row.attempts + 1
           /\ ~(new.attempts >= MaxAttempts)
    <3> DEFINE attempts == work[w].loaded[id].attempts + 1
    <3>1. CASE work[w].result[id] = "sent"
      <4>1. new = [row EXCEPT !.status = "sent", !.updatedAt = work[w].at]
        BY <2>1, <3>1 DEF Settled
      <4> QED
        BY <2>1, <4>1 DEF DeliveryRow
    <3>2. CASE work[w].result[id] # "sent" /\ attempts >= MaxAttempts
      <4>1. new = [row EXCEPT !.status = "failed", !.attempts = attempts,
                              !.updatedAt = work[w].at]
        BY <2>1, <3>2 DEF Settled
      <4> QED
        BY <2>1, <3>2, <4>1 DEF DeliveryRow
    <3>3. CASE work[w].result[id] # "sent" /\ ~(attempts >= MaxAttempts)
      <4>1. new = [row EXCEPT !.attempts = attempts, !.updatedAt = work[w].at,
                              !.nextRetryAt = work[w].at + RetryDelay(attempts)]
        BY <2>1, <3>3 DEF Settled
      <4> QED
        BY <2>1, <3>3, <4>1 DEF DeliveryRow
    <3> QED
      BY <3>1, <3>2, <3>3
  <2>5. new.attempts > 0 => new.attempts <= MaxAttempts
    BY <2>2 DEF BackoffInv, Backed
  <2>6. MaxAttempts \in Nat /\ accepted[id].copies \in Nat
    BY ConstantsAssumption DEF ConstantsAssumption, IInv, AnyInv, TypeOK
  <2>7. CASE new.status = "sent" /\ new.attempts = row.attempts
    <3>1. 1 \in Copies[id]
      BY <2>1, <2>6, <2>7 DEF Copies
    <3> QED
      BY <2>3, <2>7, <3>1 DEF DeliveryOutbox!Taken, Outcome
  <2>8. CASE /\ new.status = "failed" /\ new.attempts = row.attempts + 1
             /\ new.attempts >= MaxAttempts
    BY <2>2, <2>3, <2>5, <2>6, <2>8 DEF DeliveryOutbox!Refused, Outcome
  <2>9. CASE /\ new.status = "pending" /\ new.attempts = row.attempts + 1
             /\ ~(new.attempts >= MaxAttempts)
    BY <2>2, <2>3, <2>6, <2>9 DEF DeliveryOutbox!Retried, Outcome
  <2> QED
    BY <2>3, <2>4, <2>7, <2>8, <2>9
<1> QED
  BY <1>3, <1>4

\* A rule cycle and an escalation step post, at a notice that had no delivery for the
\* recipient yet.
LEMMA NewRowsArePosted ==
    ASSUME IInv, NEW e \in Events,
           \/ \E kind \in Notices : Transition(e, kind)
           \/ \E p \in Recipients, n \in 1 .. MaxNotices : Escalate(e, p, n)
    PROVE  DeliveryOutbox!Post
<1>1. /\ UNCHANGED <<recipients, accepted>>
      /\ \A id \in Ids : \/ rows'[id] = rows[id]
                         \/ rows[id] = None /\ id[2] \in recipients /\ rows'[id] # None
  BY NewRowsOnly
<1>2. UNCHANGED Copies
  BY <1>1 DEF Copies
<1>3. ASSUME NEW id \in Ids, rows'[id] = rows[id] PROVE DeliveryOutbox!Same(id)
  BY <1>1, <1>3 DEF DeliveryOutbox!Same, Stage, Refusals
<1>4. ASSUME NEW id \in Ids, rows'[id] # rows[id] PROVE DeliveryOutbox!Posted(id)
  <2>1. \E kind : rows'[id] = NewDelivery(kind)
    BY <1>4 DEF Transition, Escalate, IInv, AnyInv, TypeOK
  <2>2. rows'[id].status = "pending" /\ rows'[id].attempts = 0
    BY <2>1 DEF NewDelivery
  <2>3. rows[id] = None /\ id[2] \in recipients /\ rows'[id] # None
    BY <1>1, <1>4
  <2>4. Stage[id] = "absent" /\ Stage'[id] = "waiting" /\ Refusals'[id] = 0
    BY <2>2, <2>3 DEF Stage, Refusals, Outcome
  <2> QED
    BY <2>4 DEF DeliveryOutbox!Posted
<1> QED
  BY <1>2, <1>3, <1>4 DEF DeliveryOutbox!Post

LEMMA DeletedAreRemoved ==
    ASSUME IInv, NEW p \in Recipients, DeleteRecipient(p) PROVE DeliveryOutbox!Remove
<1>1. /\ recipients' = recipients \ {p} /\ UNCHANGED accepted
      /\ \A id \in Ids : rows'[id] = IF id[2] = p THEN None ELSE rows[id]
  BY DEF DeleteRecipient
<1>2. UNCHANGED Copies
  BY <1>1 DEF Copies
<1>3. ASSUME NEW id \in Ids, id[2] = p
      PROVE  Stage'[id] = "gone" /\ Refusals'[id] = 0
  BY <1>1, <1>3 DEF Stage, Refusals
<1>4. ASSUME NEW id \in Ids, id[2] # p PROVE DeliveryOutbox!Same(id)
  BY <1>1, <1>4 DEF DeliveryOutbox!Same, Stage, Refusals
<1> QED
  BY <1>2, <1>3, <1>4 DEF DeliveryOutbox!Remove

LEMMA OutboxStep ==
    ASSUME IInv, BackoffInv, IInv', BackoffInv', [Next]_vars
    PROVE  [DeliveryOutbox!Next]_DeliveryOutbox!vars
<1>1. OutboxTypes'
  BY OutboxTypedNext
<1>2. ASSUME NEW w \in Workers, Cycle(w) PROVE [DeliveryOutbox!Next]_DeliveryOutbox!vars
  <2>1. ASSUME NEW id \in Ids, Attempt(w, id, TRUE) PROVE DeliveryOutbox!Next
    BY <1>1, <2>1, AttemptLeaves DEF DeliveryOutbox!Next, OutboxTypes
  <2>2. ASSUME NEW id \in Ids, Attempt(w, id, FALSE)
        PROVE  UNCHANGED <<recipients, rows, accepted>>
    BY <2>2 DEF Attempt
  <2>3. CASE Commit(w)
    BY <1>1, <2>3, CommitRecords DEF DeliveryOutbox!Next, OutboxTypes
  <2>4. CASE CycleStart(w) \/ CycleLost(w) \/ CommitFails(w)
    BY <2>4, OutboxRests DEF CycleStart, CycleLost, CommitFails
  <2> QED
    BY <1>2, <2>1, <2>2, <2>3, <2>4, OutboxRests DEF Cycle
<1>3. CASE Environment
  BY <1>1, <1>3, NewRowsArePosted, DeletedAreRemoved
  DEF Environment, DeliveryOutbox!Next, OutboxTypes
<1>4. CASE Tick \/ UNCHANGED vars
  BY <1>4, OutboxRests DEF Tick, vars
<1> QED
  BY <1>2, <1>3, <1>4 DEF Next

\* The delivery queue of custom alert rules is an outbox (run_alert_delivery_cycle
\* and the cycles and requests that write alert_deliveries): a message goes to a
\* channel only while its delivery waits, `sent' is written of one that has left,
\* `failed' with the last of MaxAttempts refusals, and neither is touched again.
THEOREM DeliveriesAreAnOutbox == ASSUME ~Overlap PROVE Spec => DeliveriesKeepOutbox
<1>1. Init => DeliveryOutbox!Init
  BY OutboxAtFirst
<1>2. IInv /\ BackoffInv /\ IInv' /\ BackoffInv' /\ [Next]_vars
        => [DeliveryOutbox!Next]_DeliveryOutbox!vars
  BY OutboxStep
<1> QED
  BY <1>1, <1>2, BackoffAtFirst, BackoffStep, Invariance, PTL
  DEF Spec, DeliveriesKeepOutbox, DeliveryOutbox!Spec
=============================================================================
