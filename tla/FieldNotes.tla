----------------------------- MODULE FieldNotes -----------------------------
(***************************************************************************)
(* The field notebook: notes written on a phone that may be offline, its   *)
(* queue of operations and their replay, and the API that stores them      *)
(* (mobile/src/fieldnotes, app/fieldnotes).                                *)
(*                                                                         *)
(* One phone, one location.  A request is sent, processed and answered in  *)
(* three steps; the phone may give up on it at any time, and it may still  *)
(* be processed afterwards ("stray").                                      *)
(***************************************************************************)
EXTENDS Naturals, FiniteSets, SequencesExt

CONSTANTS Notes,        \* identities the phone generates
          Occurrences, Inspections, FieldTasks,
          RefersTo,     \* the occurrence an inspection is tied to, or Nothing
          MaxFaults, MaxRevocations,
          Nothing

ASSUME NotesHaveKinds ==
    /\ Notes = Occurrences \cup Inspections \cup FieldTasks
    /\ Occurrences \cap Inspections = {} /\ Occurrences \cap FieldTasks = {}
    /\ Inspections \cap FieldTasks = {}
    /\ RefersTo \in [Notes -> Occurrences \cup {Nothing}]
    /\ \A n \in Notes \ Inspections : RefersTo[n] = Nothing
    /\ MaxFaults \in Nat /\ MaxRevocations \in Nat
    /\ Nothing \notin Notes

VARIABLES
    stored,      \* the tables: the notes that have a row
    allowed,     \* the location exists and the user may write to it
    revocations, \* changes of `allowed' left
    stage,       \* [Notes -> how far the phone is with writing the note]
    pending,     \* pending_operations, in the order of created_at
    flush,       \* flushPendingOperations: [pc, todo]
    online,
    sent,        \* requests on their way: [note, via]
    answered,    \* answers on their way: [note, via, code]
    faults       \* failures of the network and the app left

phoneVars == <<stage, pending, flush, online, sent, answered, faults>>
fieldVars == <<stored, allowed, revocations, phoneVars>>

IdleFlush == [pc |-> "idle", todo |-> <<>>]

-----------------------------------------------------------------------------
(* The API: create *)

\* Mutant: a replay is not recognised by its id.
CreateOccurrence_Duplicates(n) ==
    IF ~allowed \/ n \in stored THEN "refused" ELSE "created"

\* POST field-occurrences: a replay returns the row that is there.
CreateOccurrence(n) == IF ~allowed THEN "refused" ELSE "created"

\* POST field-inspections: the occurrence it refers to must be there.
CreateInspection(n) ==
    IF ~allowed THEN "refused"
    ELSE IF n \notin stored /\ RefersTo[n] # Nothing /\ RefersTo[n] \notin stored
         THEN "dangling"
    ELSE "created"

\* POST field-tasks; the phone names no occurrence.
CreateTask(n) == IF ~allowed THEN "refused" ELSE "created"

Outcome(n) == CASE n \in Occurrences -> CreateOccurrence(n)
                [] n \in Inspections -> CreateInspection(n)
                [] n \in FieldTasks -> CreateTask(n)

ServeRequest(m) ==
    /\ m \in sent
    /\ stored' = IF Outcome(m.note) = "created" THEN stored \cup {m.note} ELSE stored
    /\ sent' = sent \ {m}
    /\ answered' = IF m.via = "stray" THEN answered
                   ELSE answered \cup {[note |-> m.note, via |-> m.via,
                                        code |-> Outcome(m.note)]}
    /\ UNCHANGED <<allowed, revocations, stage, pending, flush, online, faults>>

\* Access is lost (the session ends, a grant is revoked or runs out) or given back.
ChangeAccess ==
    /\ revocations > 0
    /\ revocations' = revocations - 1
    /\ allowed' = ~allowed
    /\ UNCHANGED <<stored, phoneVars>>

-----------------------------------------------------------------------------
(* The phone: writing a note *)

Fault == faults > 0 /\ faults' = faults - 1

\* A note refers to an occurrence the screen shows: stored, or saved offline.
OnScreen(n) == n \in stored \/ stage[n] = "saved"

\* createOccurrence, createInspection, createTask: the API is tried first.
WriteNote(n) ==
    /\ stage[n] = "unwritten"
    /\ RefersTo[n] # Nothing => OnScreen(RefersTo[n])
    /\ IF online
       THEN /\ stage' = [stage EXCEPT ![n] = "asking"]
            /\ sent' = sent \cup {[note |-> n, via |-> "direct"]}
       ELSE /\ stage' = [stage EXCEPT ![n] = "failed"]
            /\ UNCHANGED sent
    /\ UNCHANGED <<stored, allowed, revocations, pending, flush, online, answered, faults>>

\* Any answer but success is caught, and the note will be queued.
DirectAnswered(n) ==
    \E a \in answered :
        /\ a.note = n /\ a.via = "direct"
        /\ answered' = answered \ {a}
        /\ stage' = [stage EXCEPT ![n] = IF a.code = "created" THEN "saved" ELSE "failed"]
        /\ UNCHANGED <<stored, allowed, revocations, pending, flush, online, sent, faults>>

\* What becomes of a request nobody waits for: it is lost, or served later.
Abandoned(via) ==
    LET unserved == {m \in sent : m.via = via} IN
    \/ sent' = sent \ unserved
    \/ /\ unserved # {}
       /\ sent' = (sent \ unserved) \cup {[m EXCEPT !.via = "stray"] : m \in unserved}

\* The network fails under a direct request, or its answer is lost.
DirectFails(n) ==
    /\ Fault /\ stage[n] = "asking"
    /\ \/ /\ [note |-> n, via |-> "direct"] \in sent
          /\ \/ sent' = sent \ {[note |-> n, via |-> "direct"]}
             \/ sent' = (sent \ {[note |-> n, via |-> "direct"]})
                        \cup {[note |-> n, via |-> "stray"]}
          /\ UNCHANGED answered
       \/ \E a \in answered : /\ a.note = n /\ a.via = "direct"
                              /\ answered' = answered \ {a}
                              /\ UNCHANGED sent
    /\ stage' = [stage EXCEPT ![n] = "failed"]
    /\ UNCHANGED <<stored, allowed, revocations, pending, flush, online>>

\* enqueueOperation, after which the screen shows the note as pending.
Enqueue(n) ==
    /\ stage[n] = "failed"
    /\ pending' = Append(pending, n)
    /\ stage' = [stage EXCEPT ![n] = "saved"]
    /\ UNCHANGED <<stored, allowed, revocations, flush, online, sent, answered, faults>>

-----------------------------------------------------------------------------
(* The phone: replaying the queue *)

FlushUnchanged == UNCHANGED <<stored, allowed, revocations, stage, online>>

\* flushPendingOperations, unless one is running; it works on a snapshot.
StartFlush == IF flush.pc # "idle" \/ pending = <<>> THEN UNCHANGED flush
              ELSE flush' = [pc |-> "next", todo |-> pending]

\* The button "Sincronizar".
SyncNow ==
    /\ flush.pc = "idle" /\ pending # <<>>
    /\ StartFlush
    /\ FlushUnchanged /\ UNCHANGED <<pending, sent, answered, faults>>

\* One request per operation, in order; without a network it fails at once.
FlushSend ==
    /\ flush.pc = "next"
    /\ IF online
       THEN /\ sent' = sent \cup {[note |-> Head(flush.todo), via |-> "flush"]}
            /\ flush' = [flush EXCEPT !.pc = "wait"]
       ELSE /\ flush' = [flush EXCEPT !.pc = "mark"]
            /\ UNCHANGED sent
    /\ FlushUnchanged /\ UNCHANGED <<pending, answered, faults>>

\* Mutant: every answer below 500 counts as delivered.
FlushAnswered_Drops ==
    \E a \in answered :
        /\ a.via = "flush"
        /\ answered' = answered \ {a}
        /\ flush' = [flush EXCEPT !.pc = "remove"]
        /\ FlushUnchanged /\ UNCHANGED <<pending, sent, faults>>

\* No create is answered 409; any other refusal is an error like the network's.
FlushAnswered ==
    \E a \in answered :
        /\ a.via = "flush"
        /\ answered' = answered \ {a}
        /\ flush' = [flush EXCEPT !.pc = IF a.code = "created" THEN "remove" ELSE "mark"]
        /\ FlushUnchanged /\ UNCHANGED <<pending, sent, faults>>

FlushFails ==
    /\ Fault /\ flush.pc = "wait"
    /\ Abandoned("flush")
    /\ answered' = {a \in answered : a.via # "flush"}
    /\ flush' = [flush EXCEPT !.pc = "mark"]
    /\ FlushUnchanged /\ UNCHANGED pending

AfterHead == IF Tail(flush.todo) = <<>> THEN IdleFlush
             ELSE [pc |-> "next", todo |-> Tail(flush.todo)]

\* The queue without an operation, which is in it at most once.
Without(queue, n) ==
    IF n \notin ToSet(queue) THEN queue
    ELSE LET i == CHOOSE k \in DOMAIN queue : queue[k] = n IN
         [k \in 1 .. (Len(queue) - 1) |-> IF k < i THEN queue[k] ELSE queue[k + 1]]

\* removeOperation, and on to the next.
RemoveOperation ==
    /\ flush.pc = "remove"
    /\ pending' = Without(pending, Head(flush.todo))
    /\ flush' = AfterHead
    /\ FlushUnchanged /\ UNCHANGED <<sent, answered, faults>>

\* Mutant: the flush goes on to the next operation.
MarkError_GoesOn ==
    /\ flush.pc = "mark"
    /\ flush' = AfterHead
    /\ FlushUnchanged /\ UNCHANGED <<pending, sent, answered, faults>>

\* markOperationError: the flush ends, so that nothing overtakes the operation.
MarkError ==
    /\ flush.pc = "mark"
    /\ flush' = IdleFlush
    /\ FlushUnchanged /\ UNCHANGED <<pending, sent, answered, faults>>

\* startAutoSync: the queue is replayed when the network returns, if the app
\* saw it leave.
Disconnect ==
    /\ Fault /\ online
    /\ online' = FALSE
    /\ UNCHANGED <<stored, allowed, revocations, stage, pending, flush, sent, answered>>

Reconnect ==
    /\ ~online
    /\ online' = TRUE
    /\ StartFlush
    /\ UNCHANGED <<stored, allowed, revocations, stage, pending, sent, answered, faults>>

\* The app is killed and started again: only the queue survives.
KillApp ==
    /\ Fault
    /\ stage' = [n \in Notes |-> IF stage[n] \in {"asking", "failed"} THEN "lost" ELSE stage[n]]
    /\ sent' = {[m EXCEPT !.via = "stray"] : m \in sent}
    /\ answered' = {}
    /\ flush' = IdleFlush
    /\ UNCHANGED <<stored, allowed, revocations, pending, online>>

-----------------------------------------------------------------------------
FieldInit ==
    /\ stored = {}
    /\ allowed = TRUE /\ revocations = MaxRevocations
    /\ stage = [n \in Notes |-> "unwritten"]
    /\ pending = <<>> /\ flush = IdleFlush /\ online = TRUE
    /\ sent = {} /\ answered = {} /\ faults = MaxFaults

FlushStep == FlushSend \/ FlushAnswered \/ RemoveOperation \/ MarkError

FieldNext ==
    \/ \E m \in sent : ServeRequest(m)
    \/ ChangeAccess
    \/ \E n \in Notes : WriteNote(n) \/ DirectAnswered(n) \/ DirectFails(n) \/ Enqueue(n)
    \/ SyncNow \/ FlushStep \/ FlushFails
    \/ Disconnect \/ Reconnect \/ KillApp

\* A flush that has begun takes its next step, and a request is served.
FieldFairness == /\ WF_fieldVars(FlushStep)
                 /\ \A n \in Notes : WF_fieldVars(ServeRequest([note |-> n, via |-> "flush"]))

FieldSpec == FieldInit /\ [][FieldNext]_fieldVars /\ FieldFairness

-----------------------------------------------------------------------------
(* Properties *)

\* The types; the queue holds each note once.
FieldTypeOK ==
    /\ stored \subseteq Notes
    /\ stage \in [Notes -> {"unwritten", "asking", "failed", "saved", "lost"}]
    /\ ToSet(pending) \subseteq Notes /\ Len(pending) = Cardinality(ToSet(pending))
    /\ flush.pc \in {"idle", "next", "wait", "mark", "remove"}
    /\ \A m \in sent : m.note \in Notes /\ m.via \in {"direct", "flush", "stray"}
    /\ \A a \in answered : a.note \in Notes /\ a.code \in {"created", "refused", "dangling"}

\* A note the phone has shown as saved is in the tables or in the queue,
\* whatever was lost, repeated or served late (mobile/src/fieldnotes/actions.ts).
NoNoteLost == \A n \in Notes : stage[n] = "saved" => n \in stored \cup ToSet(pending)

\* The queue is replayed in order, and an operation that failed holds back
\* those after it: none arrives before the occurrence it refers to (sync.ts).
NothingDangles == \A a \in answered : a.via = "flush" => a.code # "dangling"

\* Once the network stays up and access is not taken away, replays that go on
\* happening empty the queue, whatever they repeat.
QueueDrains ==
    ([]<>(flush.pc # "idle") /\ <>[](online /\ allowed)) =>
        []<>(pending = <<>>)
=============================================================================
