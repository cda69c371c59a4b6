-------------------------- MODULE FieldNotesProofs --------------------------
(***************************************************************************)
(* The field notebook.  For all notes, and however often the network, the  *)
(* app and the access to the location fail: a note that was shown as saved *)
(* is stored or queued, is queued once, and the replay asks for none       *)
(* before what it refers to.  For all records, editors and numbers of      *)
(* edits: an edit that did not overlap another of its record stays in it,  *)
(* as long as no overlapping edit has set the record's version back.       *)
(***************************************************************************)
EXTENDS FieldNotes, FieldEdits, FiniteSetTheorems, TLAPS

(* Notes: the phone's queue and the API *)

Stages == {"unwritten", "asking", "failed", "saved", "lost"}
FlushStates == {"idle", "next", "wait", "mark", "remove"}
Vias == {"direct", "flush", "stray"}
Codes == {"created", "refused", "dangling"}

Types ==
    /\ stored \subseteq Notes /\ stage \in [Notes -> Stages] /\ pending \in Seq(Notes)
    /\ flush \in [pc : FlushStates, todo : Seq(Notes)]
    /\ sent \subseteq [note : Notes, via : Vias]
    /\ answered \subseteq [note : Notes, via : Vias, code : Codes]

\* A flush that runs has an operation at hand.
FlushHasWork == flush.pc # "idle" => flush.todo # <<>>

\* What was answered `created' is there.
AnswersAreTrue == \A a \in answered : a.code = "created" => a.note \in stored

\* The flush waits for one request at a time, about the operation at hand.
FlushAsksOnce ==
    /\ \A m \in sent : m.via = "flush" => flush.pc = "wait" /\ m.note = Head(flush.todo)
    /\ \A a \in answered : a.via = "flush" => flush.pc = "wait" /\ a.note = Head(flush.todo)
    /\ \A m \in sent, a \in answered : ~(m.via = "flush" /\ a.via = "flush")
    /\ \A a, b \in answered : a.via = "flush" /\ b.via = "flush" => a = b

\* What the flush removes from the queue is there.
RemovedIsStored == flush.pc = "remove" => Head(flush.todo) \in stored

NoteInv == /\ Types /\ FlushHasWork /\ AnswersAreTrue /\ FlushAsksOnce /\ RemovedIsStored
           /\ NoNoteLost

-----------------------------------------------------------------------------
\* What is in a queue: of what was appended, and without what was removed.
LEMMA InAppended ==
    ASSUME NEW S, NEW q \in Seq(S), NEW n \in S
    PROVE  ToSet(Append(q, n)) = ToSet(q) \cup {n}
<1> DEFINE longer == Append(q, n)
<1>1. /\ Len(q) \in Nat /\ DOMAIN q = 1 .. Len(q) /\ DOMAIN longer = 1 .. (Len(q) + 1)
      /\ longer[Len(q) + 1] = n
      /\ \A k \in 1 .. Len(q) : longer[k] = q[k]
  OBVIOUS
<1> HIDE DEF longer
<1>2. \A k \in DOMAIN longer : longer[k] \in ToSet(q) \cup {n}
  <2> TAKE k \in DOMAIN longer
  <2>1. k = Len(q) + 1 \/ k \in 1 .. Len(q)
    BY <1>1
  <2> QED
    BY <1>1, <2>1 DEF ToSet
<1>3. \A x \in ToSet(q) : x \in ToSet(longer)
  <2> TAKE x \in ToSet(q)
  <2>1. PICK k \in DOMAIN q : q[k] = x
    BY DEF ToSet
  <2>2. k \in DOMAIN longer /\ longer[k] = x
    BY <1>1, <2>1
  <2> QED
    BY <2>2 DEF ToSet
<1>4. n \in ToSet(longer)
  <2>1. Len(q) + 1 \in DOMAIN longer
    BY <1>1
  <2> QED
    BY <1>1, <2>1 DEF ToSet
<1>5. ToSet(longer) \subseteq ToSet(q) \cup {n}
  BY <1>2 DEF ToSet
<1>6. ToSet(longer) = ToSet(q) \cup {n}
  BY <1>3, <1>4, <1>5
<1> QED
  BY <1>6 DEF longer

LEMMA InRest ==
    ASSUME NEW S, NEW q \in Seq(S), NEW n \in S
    PROVE  /\ Without(q, n) \in Seq(S)
           /\ \A x \in ToSet(q) : x # n => x \in ToSet(Without(q, n))
<1>1. CASE n \notin ToSet(q)
  BY <1>1 DEF Without
<1>2. CASE n \in ToSet(q)
  <2> DEFINE i == CHOOSE k \in DOMAIN q : q[k] = n
             rest == [k \in 1 .. (Len(q) - 1) |-> IF k < i THEN q[k] ELSE q[k + 1]]
  <2>1. i \in DOMAIN q /\ q[i] = n
    BY <1>2 DEF ToSet
  <2>2. Without(q, n) = rest
    BY <1>2 DEF Without
  <2>3. Len(q) \in Nat /\ DOMAIN q = 1 .. Len(q) /\ i \in Nat
    BY <2>1
  <2> HIDE DEF i
  <2>4. \A k \in 1 .. (Len(q) - 1) : rest[k] \in S
    BY <2>3
  <2>5. rest \in Seq(S) /\ DOMAIN rest = 1 .. (Len(q) - 1)
    BY <2>1, <2>3, <2>4
  <2>6. ASSUME NEW x \in ToSet(q), x # n
        PROVE  x \in ToSet(rest)
    <3>1. PICK k \in DOMAIN q : q[k] = x
      BY DEF ToSet
    <3>2. CASE k < i
      <4>1. k \in DOMAIN rest /\ rest[k] = x
        BY <2>1, <2>3, <2>5, <3>1, <3>2
      <4> QED
        BY <4>1 DEF ToSet
    <3>3. CASE k > i
      <4>1. (k - 1) \in DOMAIN rest /\ rest[k - 1] = x
        BY <2>1, <2>3, <2>5, <3>1, <3>3
      <4> QED
        BY <4>1 DEF ToSet
    <3> QED
      BY <2>1, <2>3, <2>6, <3>1, <3>2, <3>3
  <2> QED
    BY <2>2, <2>5, <2>6
<1> QED
  BY <1>1, <1>2

-----------------------------------------------------------------------------
LEMMA NotesInit == FieldInit => NoteInv
BY DEF FieldInit, NoteInv, Types, FlushHasWork, AnswersAreTrue, FlushAsksOnce, RemovedIsStored,
    NoNoteLost, IdleFlush, Stages, FlushStates, ToSet

\* Whatever a handler answers, and it answers `created' only when the row is there.
LEMMA ServeKeeps ==
    ASSUME NoteInv, NEW m \in sent, ServeRequest(m)
    PROVE  NoteInv'
<1> USE DEF NoteInv
<1>1. m \in [note : Notes, via : Vias]
  BY DEF Types
<1>2. Outcome(m.note) \in Codes
  BY <1>1, NotesHaveKinds DEF Outcome, CreateOccurrence, CreateInspection, CreateTask, Codes
<1>3. stored \subseteq stored' /\ (Outcome(m.note) = "created" => m.note \in stored')
  BY DEF ServeRequest
<1> DEFINE answer == [note |-> m.note, via |-> m.via, code |-> Outcome(m.note)]
<1>4. answer \in [note : Notes, via : Vias, code : Codes]
  BY <1>1, <1>2
<1>5. /\ answered' \subseteq answered \cup {answer} /\ sent' = sent \ {m}
      /\ (m.via = "stray" => answered' = answered)
      /\ UNCHANGED <<stage, pending, flush>> /\ stored' \subseteq stored \cup {m.note}
  BY DEF ServeRequest
<1>6. answer.note = m.note /\ answer.via = m.via /\ answer.code = Outcome(m.note)
  OBVIOUS
<1> HIDE DEF answer
<1>7. Types'
  BY <1>1, <1>4, <1>5 DEF Types
<1>8. AnswersAreTrue' /\ RemovedIsStored' /\ NoNoteLost' /\ FlushHasWork'
  BY <1>3, <1>5, <1>6 DEF AnswersAreTrue, RemovedIsStored, NoNoteLost, FlushHasWork
<1>9. FlushAsksOnce'
  <2>1. CASE m.via # "flush"
    BY <1>5, <1>6, <2>1 DEF FlushAsksOnce
  <2>2. CASE m.via = "flush"
    <3>1. \A l \in sent' : l.via # "flush"
      <4> SUFFICES ASSUME NEW l \in sent', l.via = "flush" PROVE FALSE
        OBVIOUS
      <4>1. l.note = m.note /\ l \in [note : Notes, via : Vias]
        BY <1>5, <2>2 DEF FlushAsksOnce, Types
      <4> QED
        BY <1>1, <1>5, <2>2, <4>1
    <3>2. \A a \in answered : a.via # "flush"
      BY <2>2 DEF FlushAsksOnce
    <3> QED
      BY <1>5, <1>6, <2>2, <3>1, <3>2 DEF FlushAsksOnce
  <2> QED
    BY <2>1, <2>2
<1> QED
  BY <1>7, <1>8, <1>9

LEMMA WriteKeeps ==
    ASSUME NoteInv, NEW n \in Notes, WriteNote(n)
    PROVE  NoteInv'
<1> USE DEF NoteInv
<1>1. stage' \in [Notes -> Stages] /\ \A x \in Notes : stage'[x] = "saved" => stage[x] = "saved"
  BY DEF WriteNote, Types, Stages
<1>2. /\ sent' \subseteq sent \cup {[note |-> n, via |-> "direct"]}
      /\ UNCHANGED <<stored, pending, flush, answered>>
  BY DEF WriteNote
<1>3. Types'
  BY <1>1, <1>2 DEF Types, Vias
<1>4. FlushAsksOnce'
  BY <1>2 DEF FlushAsksOnce
<1> QED
  BY <1>1, <1>2, <1>3, <1>4 DEF FlushHasWork, AnswersAreTrue, RemovedIsStored, NoNoteLost

\* The screen says `saved' of what the API has created.
LEMMA DirectAnsweredKeeps ==
    ASSUME NoteInv, NEW n \in Notes, DirectAnswered(n)
    PROVE  NoteInv'
<1> USE DEF NoteInv
<1>1. PICK a \in answered :
        /\ a.note = n /\ a.via = "direct" /\ answered' = answered \ {a}
        /\ stage' = [stage EXCEPT ![n] = IF a.code = "created" THEN "saved" ELSE "failed"]
        /\ UNCHANGED <<stored, pending, flush, sent>>
  BY DEF DirectAnswered
<1>2. Types'
  BY <1>1 DEF Types, Stages
<1>3. FlushAsksOnce' /\ AnswersAreTrue' /\ FlushHasWork' /\ RemovedIsStored'
  BY <1>1 DEF FlushAsksOnce, AnswersAreTrue, FlushHasWork, RemovedIsStored
<1>4. NoNoteLost'
  BY <1>1 DEF NoNoteLost, AnswersAreTrue, Types
<1> QED
  BY <1>2, <1>3, <1>4

LEMMA DirectFailsKeeps ==
    ASSUME NoteInv, NEW n \in Notes, DirectFails(n)
    PROVE  NoteInv'
<1> USE DEF NoteInv
<1>1. stage' \in [Notes -> Stages] /\ \A x \in Notes : stage'[x] = "saved" => stage[x] = "saved"
  BY DEF DirectFails, Types, Stages
<1>2. /\ sent' \subseteq sent \cup {[note |-> n, via |-> "stray"]} /\ answered' \subseteq answered
      /\ UNCHANGED <<stored, pending, flush>>
  BY DEF DirectFails
<1>3. Types'
  BY <1>1, <1>2 DEF Types, Vias
<1>4. FlushAsksOnce'
  BY <1>2 DEF FlushAsksOnce
<1> QED
  BY <1>1, <1>2, <1>3, <1>4 DEF FlushHasWork, AnswersAreTrue, RemovedIsStored, NoNoteLost

\* And of what is in the queue.
LEMMA EnqueueKeeps ==
    ASSUME NoteInv, NEW n \in Notes, Enqueue(n)
    PROVE  NoteInv'
<1> USE DEF NoteInv
<1>1. UNCHANGED <<stored, flush, sent, answered>> /\ pending' = Append(pending, n)
  BY DEF Enqueue
<1>2. ToSet(pending') = ToSet(pending) \cup {n}
  BY <1>1, InAppended DEF Types
<1>3. /\ stage' \in [Notes -> Stages] /\ pending' \in Seq(Notes)
      /\ \A x \in Notes \ {n} : stage'[x] = stage[x]
  BY <1>1 DEF Enqueue, Types, Stages
<1> QED
  BY <1>1, <1>2, <1>3 DEF Types, FlushHasWork, AnswersAreTrue, FlushAsksOnce, RemovedIsStored,
      NoNoteLost

-----------------------------------------------------------------------------
\* Nobody waits for an answer when a flush begins.
LEMMA StartKeeps ==
    ASSUME NoteInv, StartFlush, UNCHANGED <<stored, stage, pending, sent, answered>>
    PROVE  NoteInv'
<1> USE DEF NoteInv
<1>1. CASE UNCHANGED flush
  BY <1>1 DEF Types, FlushHasWork, AnswersAreTrue, FlushAsksOnce, RemovedIsStored, NoNoteLost
<1>2. CASE ~UNCHANGED flush
  <2>1. flush.pc = "idle" /\ pending # <<>> /\ flush' = [pc |-> "next", todo |-> pending]
    BY <1>2 DEF StartFlush
  <2>2. Types' /\ FlushHasWork' /\ RemovedIsStored'
    BY <2>1 DEF Types, FlushHasWork, RemovedIsStored, FlushStates
  <2> QED
    BY <2>1, <2>2 DEF AnswersAreTrue, FlushAsksOnce, NoNoteLost
<1> QED
  BY <1>1, <1>2

LEMMA SendKeeps ==
    ASSUME NoteInv, FlushSend
    PROVE  NoteInv'
<1> USE DEF NoteInv
<1>1. flush.pc = "next" /\ UNCHANGED <<stored, stage, pending, answered>>
  BY DEF FlushSend, FlushUnchanged
<1>2. Head(flush.todo) \in Notes
  BY <1>1 DEF Types, FlushHasWork
<1>3. /\ flush' \in [pc : {"wait", "mark"}, todo : Seq(Notes)] /\ flush'.todo = flush.todo
      /\ \/ sent' = sent
         \/ sent' = sent \cup {[note |-> Head(flush.todo), via |-> "flush"]} /\ flush'.pc = "wait"
  BY <1>1 DEF FlushSend, Types
<1>4. Types'
  BY <1>1, <1>2, <1>3 DEF Types, FlushStates, Vias
<1>5. /\ \A m \in sent : m.via # "flush"
      /\ \A a \in answered : a.via # "flush"
  BY <1>1 DEF FlushAsksOnce
<1>6. FlushAsksOnce'
  BY <1>1, <1>3, <1>5 DEF FlushAsksOnce
<1> QED
  BY <1>1, <1>3, <1>4, <1>6 DEF FlushHasWork, AnswersAreTrue, RemovedIsStored, NoNoteLost

LEMMA FlushAnsweredKeeps ==
    ASSUME NoteInv, FlushAnswered
    PROVE  NoteInv'
<1> USE DEF NoteInv
<1>1. PICK a \in answered :
        /\ a.via = "flush" /\ answered' = answered \ {a}
        /\ flush' = [flush EXCEPT !.pc = IF a.code = "created" THEN "remove" ELSE "mark"]
        /\ UNCHANGED <<stored, stage, pending, sent>>
  BY DEF FlushAnswered, FlushUnchanged
<1>2. /\ flush'.todo = flush.todo /\ flush'.pc = IF a.code = "created" THEN "remove" ELSE "mark"
      /\ flush' \in [pc : FlushStates, todo : Seq(Notes)]
  BY <1>1 DEF Types, FlushStates
<1>3. Types'
  BY <1>1, <1>2 DEF Types
<1>4. FlushAsksOnce'
  BY <1>1 DEF FlushAsksOnce
<1>5. RemovedIsStored' /\ FlushHasWork'
  BY <1>1, <1>2 DEF RemovedIsStored, FlushHasWork, FlushAsksOnce, AnswersAreTrue
<1> QED
  BY <1>1, <1>3, <1>4, <1>5 DEF AnswersAreTrue, NoNoteLost

LEMMA FlushFailsKeeps ==
    ASSUME NoteInv, FlushFails
    PROVE  NoteInv'
<1> USE DEF NoteInv
<1> DEFINE unserved == {m \in sent : m.via = "flush"}
<1>1. /\ flush.pc = "wait" /\ flush' = [flush EXCEPT !.pc = "mark"]
      /\ answered' = {a \in answered : a.via # "flush"} /\ UNCHANGED <<stored, stage, pending>>
  BY DEF FlushFails, FlushUnchanged
<1>2. sent' \subseteq (sent \ unserved) \cup {[m EXCEPT !.via = "stray"] : m \in unserved}
  BY DEF FlushFails, Abandoned
<1>3. \A m \in sent' : m \in [note : Notes, via : Vias] /\ m.via # "flush"
  <2> SUFFICES ASSUME NEW m \in sent'
               PROVE  m \in [note : Notes, via : Vias] /\ m.via # "flush"
    OBVIOUS
  <2>1. CASE m \in sent \ unserved
    BY <2>1 DEF Types
  <2>2. CASE m \in {[l EXCEPT !.via = "stray"] : l \in unserved}
    <3>1. PICK l \in sent : m = [l EXCEPT !.via = "stray"]
      BY <2>2
    <3> QED
      BY <3>1 DEF Types, Vias
  <2> QED
    BY <1>2, <2>1, <2>2
<1>4. /\ flush' \in [pc : FlushStates, todo : Seq(Notes)] /\ flush'.todo = flush.todo
      /\ flush'.pc = "mark"
  BY <1>1 DEF Types, FlushStates
<1>5. Types' /\ FlushAsksOnce'
  BY <1>1, <1>3, <1>4 DEF Types, FlushAsksOnce
<1> QED
  BY <1>1, <1>4, <1>5 DEF FlushHasWork, AnswersAreTrue, RemovedIsStored, NoNoteLost

\* What leaves the queue is stored; the rest of the queue stays.
LEMMA RemoveKeeps ==
    ASSUME NoteInv, RemoveOperation
    PROVE  NoteInv'
<1> USE DEF NoteInv
<1>1. /\ flush.pc = "remove" /\ pending' = Without(pending, Head(flush.todo))
      /\ flush' = AfterHead /\ UNCHANGED <<stored, stage, sent, answered>>
  BY DEF RemoveOperation, FlushUnchanged
<1>2. Head(flush.todo) \in Notes /\ flush.todo \in Seq(Notes) /\ flush.todo # <<>>
  BY <1>1 DEF Types, FlushHasWork
<1>3. /\ pending' \in Seq(Notes)
      /\ \A x \in ToSet(pending) : x # Head(flush.todo) => x \in ToSet(pending')
  BY <1>1, <1>2, InRest DEF Types
<1>4. Tail(flush.todo) \in Seq(Notes)
  BY <1>2
<1>5. /\ flush' \in [pc : FlushStates, todo : Seq(Notes)] /\ FlushHasWork'
      /\ flush'.pc # "remove"
  BY <1>1, <1>4 DEF AfterHead, IdleFlush, FlushHasWork, FlushStates
<1>6. Types' /\ FlushAsksOnce'
  BY <1>1, <1>3, <1>5 DEF Types, FlushAsksOnce
<1>7. NoNoteLost'
  BY <1>1, <1>3 DEF NoNoteLost, RemovedIsStored
<1> QED
  BY <1>1, <1>5, <1>6, <1>7 DEF AnswersAreTrue, RemovedIsStored

LEMMA MarkKeeps ==
    ASSUME NoteInv, MarkError
    PROVE  NoteInv'
<1> USE DEF NoteInv
<1>1. /\ flush.pc = "mark" /\ flush' = IdleFlush
      /\ UNCHANGED <<stored, stage, pending, sent, answered>>
  BY DEF MarkError, FlushUnchanged
<1>2. flush' \in [pc : FlushStates, todo : Seq(Notes)] /\ flush'.pc = "idle"
  BY <1>1 DEF IdleFlush, FlushStates
<1> QED
  BY <1>1, <1>2 DEF Types, FlushHasWork, AnswersAreTrue, FlushAsksOnce, RemovedIsStored, NoNoteLost

\* Only the queue survives the app, and what the screen showed before.
LEMMA KillKeeps ==
    ASSUME NoteInv, KillApp
    PROVE  NoteInv'
<1> USE DEF NoteInv
<1>1. /\ sent' = {[m EXCEPT !.via = "stray"] : m \in sent} /\ answered' = {}
      /\ flush' = IdleFlush /\ UNCHANGED <<stored, pending>>
  BY DEF KillApp
<1>2. stage' \in [Notes -> Stages] /\ \A x \in Notes : stage'[x] = "saved" => stage[x] = "saved"
  BY DEF KillApp, Types, Stages
<1>3. \A m \in sent' : m \in [note : Notes, via : Vias] /\ m.via = "stray"
  <2> SUFFICES ASSUME NEW l \in sent
               PROVE  [l EXCEPT !.via = "stray"] \in [note : Notes, via : Vias]
    BY <1>1 DEF Types
  <2> QED
    BY DEF Types, Vias
<1>4. flush' \in [pc : FlushStates, todo : Seq(Notes)] /\ flush'.pc = "idle"
  BY <1>1 DEF IdleFlush, FlushStates
<1>5. Types' /\ FlushAsksOnce'
  BY <1>1, <1>2, <1>3, <1>4 DEF Types, FlushAsksOnce
<1> QED
  BY <1>1, <1>2, <1>4, <1>5 DEF FlushHasWork, AnswersAreTrue, RemovedIsStored, NoNoteLost

-----------------------------------------------------------------------------
\* The invariant of every behaviour of the phone and the API.
LEMMA NoteInvHolds == FieldSpec => []NoteInv
<1>1. NoteInv /\ [FieldNext]_fieldVars => NoteInv'
  <2> SUFFICES ASSUME NoteInv, [FieldNext]_fieldVars
               PROVE  NoteInv'
    OBVIOUS
  <2>1. ASSUME NEW m \in sent, ServeRequest(m)
        PROVE  NoteInv'
    BY <2>1, ServeKeeps
  <2>2. ASSUME NEW n \in Notes, WriteNote(n) \/ DirectAnswered(n) \/ DirectFails(n) \/ Enqueue(n)
        PROVE  NoteInv'
    BY <2>2, WriteKeeps, DirectAnsweredKeeps, DirectFailsKeeps, EnqueueKeeps
  <2>3. CASE SyncNow
    BY <2>3, StartKeeps DEF SyncNow, FlushUnchanged
  <2>4. CASE FlushStep
    BY <2>4, SendKeeps, FlushAnsweredKeeps, RemoveKeeps, MarkKeeps DEF FlushStep
  <2>5. CASE FlushFails
    BY <2>5, FlushFailsKeeps
  <2>6. CASE Reconnect
    BY <2>6, StartKeeps DEF Reconnect
  <2>7. CASE KillApp
    BY <2>7, KillKeeps
  <2>8. CASE ChangeAccess \/ Disconnect \/ UNCHANGED fieldVars
    <3>1. UNCHANGED <<stored, stage, pending, flush, sent, answered>>
      BY <2>8 DEF ChangeAccess, Disconnect, fieldVars, phoneVars
    <3> QED
      BY <3>1 DEF NoteInv, Types, FlushHasWork, AnswersAreTrue, FlushAsksOnce, RemovedIsStored,
          NoNoteLost
  <2> QED
    BY <2>1, <2>2, <2>3, <2>4, <2>5, <2>6, <2>7, <2>8 DEF FieldNext
<1> QED
  BY NotesInit, <1>1, PTL DEF FieldSpec

\* No note is lost (mobile/src/fieldnotes/actions.ts, sync.ts; app/fieldnotes): what
\* the screen has shown as saved is in the tables or in the queue.
THEOREM NotesAreKept == FieldSpec => []NoNoteLost
BY NoteInvHolds, PTL DEF NoteInv

-----------------------------------------------------------------------------
(* Order *)

\* What a note refers to is there; in a queue, it is there or comes before.
Ready(n, there) == RefersTo[n] # Nothing => RefersTo[n] \in there

Ordered(q, there) ==
    \A k \in DOMAIN q : \/ Ready(q[k], there)
                        \/ \E j \in DOMAIN q : j < k /\ q[j] = RefersTo[q[k]]

LEMMA HeadIsReady ==
    ASSUME NEW q \in Seq(Notes), q # <<>>, NEW there, Ordered(q, there)
    PROVE  Ready(Head(q), there)
<1>1. 1 \in DOMAIN q /\ q[1] = Head(q) /\ \A j \in DOMAIN q : ~(j < 1)
  OBVIOUS
<1> QED
  BY <1>1 DEF Ordered

LEMMA TailIsOrdered ==
    ASSUME NEW q \in Seq(Notes), q # <<>>, NEW there, Ordered(q, there), Head(q) \in there
    PROVE  Ordered(Tail(q), there)
<1> DEFINE rest == Tail(q)
<1>1. /\ Len(q) \in Nat /\ DOMAIN q = 1 .. Len(q) /\ DOMAIN rest = 1 .. (Len(q) - 1)
      /\ q[1] = Head(q) /\ \A k \in DOMAIN rest : rest[k] = q[k + 1]
  OBVIOUS
<1> HIDE DEF rest
<1> SUFFICES ASSUME NEW k \in DOMAIN rest, ~Ready(rest[k], there)
             PROVE  \E j \in DOMAIN rest : j < k /\ rest[j] = RefersTo[rest[k]]
  BY DEF Ordered, rest
<1>2. k + 1 \in DOMAIN q /\ q[k + 1] = rest[k]
  BY <1>1
<1>3. PICK j \in DOMAIN q : j < k + 1 /\ q[j] = RefersTo[rest[k]]
  BY <1>2 DEF Ordered
<1>4. j # 1
  BY <1>1, <1>3 DEF Ready
<1>5. (j - 1) \in DOMAIN rest /\ j - 1 < k /\ rest[j - 1] = q[j]
  BY <1>1, <1>3, <1>4
<1> QED
  BY <1>3, <1>5

LEMMA AppendedIsOrdered ==
    ASSUME NEW q \in Seq(Notes), NEW n \in Notes, NEW there, Ordered(q, there),
           Ready(n, there \cup ToSet(q))
    PROVE  Ordered(Append(q, n), there)
<1> DEFINE longer == Append(q, n)
<1>1. /\ Len(q) \in Nat /\ DOMAIN q = 1 .. Len(q) /\ DOMAIN longer = 1 .. (Len(q) + 1)
      /\ longer[Len(q) + 1] = n
      /\ \A k \in 1 .. Len(q) : longer[k] = q[k]
  OBVIOUS
<1> HIDE DEF longer
<1> SUFFICES ASSUME NEW k \in DOMAIN longer, ~Ready(longer[k], there)
             PROVE  \E j \in DOMAIN longer : j < k /\ longer[j] = RefersTo[longer[k]]
  BY DEF Ordered, longer
<1>2. PICK j \in DOMAIN q : j < k /\ q[j] = RefersTo[longer[k]]
  <2>1. CASE k \in DOMAIN q
    BY <1>1, <2>1 DEF Ordered
  <2>2. CASE k = Len(q) + 1
    <3>1. RefersTo[n] \in ToSet(q)
      BY <1>1, <2>2 DEF Ready
    <3> QED
      BY <1>1, <2>2, <3>1 DEF ToSet
  <2> QED
    BY <1>1, <2>1, <2>2
<1>3. j \in DOMAIN longer /\ longer[j] = q[j]
  BY <1>1
<1> QED
  BY <1>2, <1>3

LEMMA RestIsOrdered ==
    ASSUME NEW q \in Seq(Notes), NEW n \in Notes, NEW there, Ordered(q, there), n \in there
    PROVE  Ordered(Without(q, n), there)
<1>1. CASE n \notin ToSet(q)
  BY <1>1 DEF Without
<1>2. CASE n \in ToSet(q)
  <2> DEFINE i == CHOOSE k \in DOMAIN q : q[k] = n
             rest == [k \in 1 .. (Len(q) - 1) |-> IF k < i THEN q[k] ELSE q[k + 1]]
  <2>1. i \in DOMAIN q /\ q[i] = n
    BY <1>2 DEF ToSet
  <2>2. Without(q, n) = rest
    BY <1>2 DEF Without
  <2>3. Len(q) \in Nat /\ DOMAIN q = 1 .. Len(q) /\ DOMAIN rest = 1 .. (Len(q) - 1) /\ i \in Nat
    BY <2>1
  <2>4. \A k \in DOMAIN rest : rest[k] = IF k < i THEN q[k] ELSE q[k + 1]
    OBVIOUS
  <2> HIDE DEF i, rest
  <2>5. ASSUME NEW k \in DOMAIN rest, ~Ready(rest[k], there)
        PROVE  \E j \in DOMAIN rest : j < k /\ rest[j] = RefersTo[rest[k]]
    <3>1. PICK at \in DOMAIN q : /\ q[at] = rest[k]
                                 /\ at = IF k < i THEN k ELSE k + 1
      BY <2>3, <2>4
    <3>2. PICK j \in DOMAIN q : j < at /\ q[j] = RefersTo[rest[k]]
      BY <2>5, <3>1 DEF Ordered
    <3>3. j # i
      BY <2>1, <2>5, <3>2 DEF Ready
    <3>4. CASE j < i
      <4>1. j \in DOMAIN rest /\ j < k /\ rest[j] = q[j]
        BY <2>1, <2>3, <2>4, <3>1, <3>2, <3>4
      <4> QED
        BY <3>2, <4>1
    <3>5. CASE j > i
      <4>1. (j - 1) \in DOMAIN rest /\ j - 1 < k /\ rest[j - 1] = q[j]
        BY <2>1, <2>3, <2>4, <3>1, <3>2, <3>5
      <4> QED
        BY <3>2, <4>1
    <3> QED
      BY <2>3, <3>3, <3>4, <3>5
  <2> QED
    BY <2>2, <2>5 DEF Ordered
<1> QED
  BY <1>1, <1>2

LEMMA MoreIsThere ==
    ASSUME NEW q, NEW there, NEW more, there \subseteq more, Ordered(q, there)
    PROVE  Ordered(q, more)
BY DEF Ordered, Ready

\* The queue and the replay keep the order in which the notes were written; a note
\* still to be queued, and one that is asked for, refers to what is stored or queued;
\* a replayed request is about a note that nothing is missing for.
OrderInv ==
    /\ Ordered(pending, stored) /\ Ordered(flush.todo, stored)
    /\ \A n \in Notes : stage[n] \in {"asking", "failed"} => Ready(n, stored \cup ToSet(pending))
    /\ \A m \in sent \cup answered : m.via = "direct" => Ready(m.note, stored \cup ToSet(pending))
    /\ \A m \in sent : m.via = "flush" => Ready(m.note, stored)
    /\ NothingDangles

LEMMA OrderInit == FieldInit => OrderInv
BY DEF FieldInit, OrderInv, Ordered, NothingDangles, IdleFlush

\* What grows only makes notes readier.
LEMMA OrderStays ==
    ASSUME OrderInv, stored \subseteq stored', UNCHANGED <<pending, flush>>,
           \A n \in Notes : stage'[n] \in {"asking", "failed"} => stage[n] \in {"asking", "failed"},
           \A m \in sent' : m.via # "stray" => m \in sent,
           \A a \in answered' : a.via = "direct" =>
               \E m \in sent \cup answered : m.via = "direct" /\ m.note = a.note,
           \A a \in answered' : a.via = "flush" /\ a.code = "dangling" => a \in answered
    PROVE  OrderInv'
<1>1. Ordered(pending, stored') /\ Ordered(flush.todo, stored')
  BY MoreIsThere DEF OrderInv
<1> QED
  BY <1>1 DEF OrderInv, Ready, NothingDangles

LEMMA ServedInOrder ==
    ASSUME NoteInv, OrderInv, NEW m \in sent, ServeRequest(m)
    PROVE  OrderInv'
<1> DEFINE answer == [note |-> m.note, via |-> m.via, code |-> Outcome(m.note)]
<1>1. /\ stored \subseteq stored' /\ UNCHANGED <<pending, flush, stage>>
      /\ sent' \subseteq sent /\ answered' \subseteq answered \cup {answer}
  BY DEF ServeRequest
<1>2. m.note \in Notes
  BY DEF NoteInv, Types
<1>3. m.via = "flush" => Outcome(m.note) # "dangling"
  <2> SUFFICES ASSUME m.via = "flush" PROVE Outcome(m.note) # "dangling"
    OBVIOUS
  <2>1. Ready(m.note, stored)
    BY DEF OrderInv
  <2> QED
    BY <1>2, <2>1, NotesHaveKinds
    DEF Ready, Outcome, CreateOccurrence, CreateInspection, CreateTask
<1>4. answer.note = m.note /\ answer.via = m.via /\ answer.code = Outcome(m.note)
  OBVIOUS
<1> HIDE DEF answer
<1>5. \A a \in answered' :
         /\ a.via = "flush" /\ a.code = "dangling" => a \in answered
         /\ a.via = "direct" => \E l \in sent \cup answered : l.via = "direct" /\ l.note = a.note
  BY <1>1, <1>3, <1>4
<1> QED
  BY <1>1, <1>5, OrderStays

\* A note refers to what the screen shows, which is not lost.
LEMMA WrittenInOrder ==
    ASSUME NoteInv, OrderInv, NEW n \in Notes, WriteNote(n)
    PROVE  OrderInv'
<1>1. Ready(n, stored \cup ToSet(pending))
  BY NotesHaveKinds DEF WriteNote, OnScreen, Ready, NoteInv, NoNoteLost
<1>2. /\ \A x \in Notes \ {n} : stage'[x] = stage[x]
      /\ sent' \subseteq sent \cup {[note |-> n, via |-> "direct"]}
      /\ UNCHANGED <<stored, pending, flush, answered>>
  BY DEF WriteNote, NoteInv, Types
<1>3. \A m \in sent' : \/ m \in sent
                       \/ m.via = "direct" /\ m.note = n
  BY <1>2
<1>4. /\ \A m \in sent' : m.via = "direct" => Ready(m.note, stored \cup ToSet(pending))
      /\ \A m \in sent' : m.via = "flush" => Ready(m.note, stored)
  BY <1>1, <1>3 DEF OrderInv
<1> QED
  BY <1>1, <1>2, <1>4 DEF OrderInv, NothingDangles

LEMMA QueuedInOrder ==
    ASSUME NoteInv, OrderInv, NEW n \in Notes, Enqueue(n)
    PROVE  OrderInv'
<1>1. /\ stage[n] = "failed" /\ pending' = Append(pending, n)
      /\ stage' = [stage EXCEPT ![n] = "saved"] /\ UNCHANGED <<stored, flush, sent, answered>>
  BY DEF Enqueue
<1>2. Ordered(pending', stored)
  BY <1>1, AppendedIsOrdered DEF OrderInv, NoteInv, Types
<1>3. ToSet(pending) \subseteq ToSet(pending')
  BY <1>1, InAppended DEF NoteInv, Types
<1>4. \A x \in Notes : stage'[x] \in {"asking", "failed"} => Ready(x, stored \cup ToSet(pending'))
  BY <1>1, <1>3 DEF OrderInv, NoteInv, Types, Ready
<1>5. \A m \in sent \cup answered : m.via = "direct" => Ready(m.note, stored \cup ToSet(pending'))
  BY <1>3 DEF OrderInv, Ready
<1> QED
  BY <1>1, <1>2, <1>4, <1>5 DEF OrderInv, NothingDangles

\* A replay takes the queue as it is.
LEMMA ReplayedInOrder ==
    ASSUME OrderInv, StartFlush, UNCHANGED <<stored, stage, pending, sent, answered>>
    PROVE  OrderInv'
<1>1. flush' = flush \/ flush'.todo = pending
  BY DEF StartFlush
<1> QED
  BY <1>1 DEF OrderInv, NothingDangles

\* Nothing is missing for the operation at the head of the replay.
LEMMA SentInOrder ==
    ASSUME NoteInv, OrderInv, FlushSend
    PROVE  OrderInv'
<1>1. /\ flush.todo \in Seq(Notes) /\ flush.todo # <<>> /\ flush'.todo = flush.todo
      /\ sent' \subseteq sent \cup {[note |-> Head(flush.todo), via |-> "flush"]}
      /\ UNCHANGED <<stored, stage, pending, answered>>
  BY DEF FlushSend, FlushUnchanged, NoteInv, Types, FlushHasWork
<1>2. Ready(Head(flush.todo), stored)
  BY <1>1, HeadIsReady DEF OrderInv
<1>3. \A m \in sent' : \/ m \in sent
                       \/ m.via = "flush" /\ m.note = Head(flush.todo)
  BY <1>1
<1>4. /\ \A m \in sent' : m.via = "direct" => Ready(m.note, stored \cup ToSet(pending))
      /\ \A m \in sent' : m.via = "flush" => Ready(m.note, stored)
  BY <1>2, <1>3 DEF OrderInv
<1> QED
  BY <1>1, <1>4 DEF OrderInv, NothingDangles

LEMMA RemovedInOrder ==
    ASSUME NoteInv, OrderInv, RemoveOperation
    PROVE  OrderInv'
<1> DEFINE n == Head(flush.todo)
<1>1. /\ pending' = Without(pending, n) /\ flush' = AfterHead
      /\ UNCHANGED <<stored, stage, sent, answered>>
  BY DEF RemoveOperation, FlushUnchanged
<1>2. flush.todo \in Seq(Notes) /\ flush.todo # <<>> /\ n \in stored /\ pending \in Seq(Notes)
  BY DEF RemoveOperation, NoteInv, Types, FlushHasWork, RemovedIsStored
<1>3. n \in Notes
  BY <1>2
<1> HIDE DEF n
<1>4. Ordered(pending', stored)
  BY <1>1, <1>2, <1>3, RestIsOrdered DEF OrderInv
<1>5. Ordered(Tail(flush.todo), stored)
  BY <1>2, TailIsOrdered DEF OrderInv, n
<1>6. Ordered(flush'.todo, stored)
  <2>1. CASE Tail(flush.todo) = <<>>
    BY <1>1, <2>1 DEF AfterHead, IdleFlush, Ordered
  <2>2. CASE Tail(flush.todo) # <<>>
    <3>1. flush'.todo = Tail(flush.todo)
      BY <1>1, <2>2 DEF AfterHead
    <3> QED
      BY <1>5, <3>1
  <2> QED
    BY <2>1, <2>2
<1>7. /\ \A x \in Notes : stage[x] \in {"asking", "failed"} =>
                              Ready(x, stored \cup ToSet(pending'))
      /\ \A m \in sent \cup answered : m.via = "direct" =>
                                      Ready(m.note, stored \cup ToSet(pending'))
  <2>1. ToSet(pending) \subseteq ToSet(pending') \cup {n}
    BY <1>1, <1>2, <1>3, InRest
  <2> QED
    BY <1>2, <2>1 DEF OrderInv, Ready
<1> QED
  BY <1>1, <1>4, <1>6, <1>7 DEF OrderInv, NothingDangles

\* A replay that ends, and an app that is killed, leave no request to be waited for.
LEMMA EndedInOrder ==
    ASSUME OrderInv, flush' = IdleFlush, UNCHANGED <<stored, pending>>,
           \A n \in Notes : stage'[n] \in {"asking", "failed"} => stage[n] \in {"asking", "failed"},
           \A m \in sent' : m.via # "stray" => m \in sent, answered' \subseteq answered
    PROVE  OrderInv'
<1>1. Ordered(flush'.todo, stored)
  BY DEF IdleFlush, Ordered
<1>2. \A m \in sent' \cup answered' : m.via = "direct" => m \in sent \cup answered
  OBVIOUS
<1> QED
  BY <1>1, <1>2 DEF OrderInv, NothingDangles

LEMMA FailedInOrder ==
    ASSUME NoteInv, OrderInv, FlushAnswered \/ FlushFails
    PROVE  OrderInv'
<1>1. /\ flush'.todo = flush.todo /\ answered' \subseteq answered
      /\ UNCHANGED <<stored, stage, pending>>
  BY DEF FlushAnswered, FlushFails, FlushUnchanged, NoteInv, Types
<1>2. \A m \in sent' : m.via # "stray" => m \in sent
  BY DEF FlushAnswered, FlushFails, Abandoned, NoteInv, Types
<1> QED
  BY <1>1, <1>2 DEF OrderInv, NothingDangles

\* A note that was asked for is still to be queued, if it was not created.
LEMMA AnsweredInOrder ==
    ASSUME NoteInv, OrderInv, NEW n \in Notes, DirectAnswered(n) \/ DirectFails(n)
    PROVE  OrderInv'
<1>1. /\ \A x \in Notes \ {n} : stage'[x] = stage[x]
      /\ \A m \in sent' : m.via # "stray" => m \in sent
      /\ answered' \subseteq answered /\ UNCHANGED <<stored, pending, flush>>
  BY DEF DirectAnswered, DirectFails, NoteInv, Types
<1>2. Ready(n, stored \cup ToSet(pending))
  BY DEF DirectAnswered, DirectFails, OrderInv
<1> QED
  BY <1>1, <1>2 DEF OrderInv, NothingDangles

LEMMA OrderStep ==
    ASSUME NoteInv, OrderInv, [FieldNext]_fieldVars
    PROVE  OrderInv'
<1>1. ASSUME NEW n \in Notes, WriteNote(n) \/ DirectAnswered(n) \/ DirectFails(n) \/ Enqueue(n)
      PROVE  OrderInv'
  <2>1. CASE DirectAnswered(n) \/ DirectFails(n)
    BY <2>1, AnsweredInOrder
  <2> QED
    BY <1>1, <2>1, WrittenInOrder, QueuedInOrder
<1>2. CASE SyncNow \/ Reconnect
  BY <1>2, ReplayedInOrder DEF SyncNow, Reconnect, FlushUnchanged
<1>3. CASE FlushStep \/ FlushFails
  <2>1. CASE MarkError
    BY <2>1, EndedInOrder DEF MarkError, FlushUnchanged
  <2> QED
    BY <1>3, <2>1, SentInOrder, FailedInOrder, RemovedInOrder DEF FlushStep
<1>4. CASE KillApp
  <2>1. \A n \in Notes : stage'[n] \in {"asking", "failed"} => stage[n] \in {"asking", "failed"}
    BY <1>4 DEF KillApp
  <2>2. \A m \in sent' : m.via = "stray"
    BY <1>4 DEF KillApp, NoteInv, Types
  <2> QED
    BY <1>4, <2>1, <2>2, EndedInOrder DEF KillApp
<1>5. CASE ChangeAccess \/ Disconnect \/ UNCHANGED fieldVars
  BY <1>5, OrderStays DEF ChangeAccess, Disconnect, fieldVars, phoneVars
<1> QED
  BY <1>1, <1>2, <1>3, <1>4, <1>5, ServedInOrder DEF FieldNext

\* Nothing dangles (mobile/src/fieldnotes/sync.ts): whatever the network loses or
\* serves late, however often the app is killed and access is lost, the replay asks
\* for no note before what it refers to.
THEOREM RepliesDoNotDangle == FieldSpec => []NothingDangles
<1>1. OrderInv => NothingDangles
  BY DEF OrderInv
<1> QED
  BY OrderInit, NoteInvHolds, OrderStep, <1>1, PTL DEF FieldSpec

-----------------------------------------------------------------------------
(* Each note once in the queue *)

\* The phone asks once for a note directly, while it waits for the answer.
DirectAsksOnce ==
    /\ \A m \in sent : m.via = "direct" => stage[m.note] = "asking"
    /\ \A a \in answered : a.via = "direct" => stage[a.note] = "asking"
    /\ \A m \in sent, a \in answered : m.via = "direct" /\ a.via = "direct" => m.note # a.note
    /\ \A a, b \in answered : a.via = "direct" /\ b.via = "direct" /\ a.note = b.note => a = b

\* What is queued is shown as saved, so that it is not queued again.
QueuedOnce == IsInjective(pending) /\ \A n \in ToSet(pending) : stage[n] = "saved"

\* A queue that holds each element once is as long as the set of its elements.
LEMMA OnceIsCounted ==
    ASSUME NEW S, NEW q \in Seq(S), IsInjective(q)
    PROVE  Len(q) = Cardinality(ToSet(q))
<1>1. Len(q) \in Nat /\ DOMAIN q = 1 .. Len(q) /\ q \in [1 .. Len(q) -> S]
  OBVIOUS
<1>2. q \in [1 .. Len(q) -> ToSet(q)]
  BY <1>1 DEF ToSet
<1>3. \A x \in ToSet(q) : \E i \in 1 .. Len(q) : q[i] = x
  BY <1>1 DEF ToSet
<1>4. q \in Bijection(1 .. Len(q), ToSet(q))
  BY <1>1, <1>2, <1>3 DEF IsInjective, Bijection, Injection, Surjection
<1>5. ExistsBijection(1 .. Len(q), ToSet(q))
  BY <1>4 DEF ExistsBijection
<1> QED
  BY <1>1, <1>5, FS_CountingElements

\* The queue stays one without repetitions when a new note is appended.
LEMMA AppendedOnce ==
    ASSUME NEW S, NEW q \in Seq(S), NEW n \in S \ ToSet(q), IsInjective(q)
    PROVE  IsInjective(Append(q, n))
<1> DEFINE longer == Append(q, n)
<1>1. /\ Len(q) \in Nat /\ DOMAIN q = 1 .. Len(q) /\ DOMAIN longer = 1 .. (Len(q) + 1)
      /\ longer[Len(q) + 1] = n
      /\ \A k \in 1 .. Len(q) : longer[k] = q[k]
  OBVIOUS
<1>2. \A k \in 1 .. Len(q) : q[k] # n
  BY <1>1 DEF ToSet
<1> HIDE DEF longer
<1>3. IsInjective(longer)
  BY <1>1, <1>2 DEF IsInjective
<1> QED
  BY <1>3 DEF longer

\* And when one is removed; nothing enters it then.
LEMMA RestOnce ==
    ASSUME NEW S, NEW q \in Seq(S), NEW n \in S, IsInjective(q)
    PROVE  IsInjective(Without(q, n)) /\ ToSet(Without(q, n)) \subseteq ToSet(q)
<1>1. CASE n \notin ToSet(q)
  BY <1>1 DEF Without
<1>2. CASE n \in ToSet(q)
  <2> DEFINE i == CHOOSE k \in DOMAIN q : q[k] = n
             rest == [k \in 1 .. (Len(q) - 1) |-> IF k < i THEN q[k] ELSE q[k + 1]]
  <2>1. i \in DOMAIN q
    BY <1>2 DEF ToSet
  <2>2. Without(q, n) = rest
    BY <1>2 DEF Without
  <2>3. Len(q) \in Nat /\ DOMAIN q = 1 .. Len(q) /\ i \in Nat
    BY <2>1
  <2> HIDE DEF i
  <2>4. DOMAIN rest = 1 .. (Len(q) - 1)
    OBVIOUS
  <2>5. \A k \in DOMAIN rest : rest[k] = IF k < i THEN q[k] ELSE q[k + 1]
    OBVIOUS
  <2> HIDE DEF rest
  <2>6. \A k \in DOMAIN rest :
          \E j \in DOMAIN q : j = (IF k < i THEN k ELSE k + 1) /\ rest[k] = q[j]
    BY <2>3, <2>4, <2>5
  <2>7. IsInjective(rest)
    <3> SUFFICES ASSUME NEW a \in DOMAIN rest, NEW b \in DOMAIN rest, rest[a] = rest[b]
                 PROVE  a = b
      BY DEF IsInjective
    <3>1. PICK j \in DOMAIN q : j = (IF a < i THEN a ELSE a + 1) /\ rest[a] = q[j]
      BY <2>6
    <3>2. PICK l \in DOMAIN q : l = (IF b < i THEN b ELSE b + 1) /\ rest[b] = q[l]
      BY <2>6
    <3>3. j = l
      BY <3>1, <3>2 DEF IsInjective
    <3> QED
      BY <2>3, <2>4, <3>1, <3>2, <3>3
  <2>8. ToSet(rest) \subseteq ToSet(q)
    BY <2>6 DEF ToSet
  <2> QED
    BY <2>2, <2>7, <2>8
<1> QED
  BY <1>1, <1>2

OnceInv == DirectAsksOnce /\ QueuedOnce

LEMMA OnceInit == FieldInit => OnceInv
BY DEF FieldInit, OnceInv, DirectAsksOnce, QueuedOnce, IsInjective, ToSet

\* The answer takes the place of the request.
LEMMA ServedOnce ==
    ASSUME NoteInv, OnceInv, NEW m \in sent, ServeRequest(m)
    PROVE  OnceInv'
<1> DEFINE answer == [note |-> m.note, via |-> m.via, code |-> Outcome(m.note)]
<1>1. /\ answered' \subseteq answered \cup {answer} /\ sent' = sent \ {m}
      /\ UNCHANGED <<stage, pending>>
  BY DEF ServeRequest
<1>2. answer.note = m.note /\ answer.via = m.via
  OBVIOUS
<1> HIDE DEF answer
<1>3. \A l \in sent' : l.via = "direct" /\ m.via = "direct" => l.note # m.note
  <2> SUFFICES ASSUME NEW l \in sent', l.via = "direct", m.via = "direct", l.note = m.note
               PROVE  FALSE
    OBVIOUS
  <2>1. l \in [note : Notes, via : Vias] /\ m \in [note : Notes, via : Vias] /\ l # m
    BY <1>1 DEF NoteInv, Types
  <2> QED
    BY <2>1
<1>4. DirectAsksOnce'
  BY <1>1, <1>2, <1>3 DEF OnceInv, DirectAsksOnce
<1> QED
  BY <1>1, <1>4 DEF OnceInv, QueuedOnce

\* A note that is written is not asked for yet.
LEMMA WrittenOnce ==
    ASSUME NoteInv, OnceInv, NEW n \in Notes, WriteNote(n)
    PROVE  OnceInv'
<1> DEFINE ask == [note |-> n, via |-> "direct"]
<1>1. stage[n] = "unwritten" /\ UNCHANGED <<pending, answered>>
  BY DEF WriteNote
<1>2. /\ \A x \in Notes \ {n} : stage'[x] = stage[x]
      /\ sent' = sent \/ (sent' = sent \cup {ask} /\ stage'[n] = "asking")
  BY DEF WriteNote, NoteInv, Types
<1>3. /\ \A m \in sent : m.note \in Notes /\ (m.via = "direct" => m.note # n)
      /\ \A a \in answered : a.note \in Notes /\ (a.via = "direct" => a.note # n)
      /\ \A x \in ToSet(pending) : x \in Notes /\ x # n
  BY <1>1 DEF NoteInv, Types, OnceInv, DirectAsksOnce, QueuedOnce, ToSet
<1>4. ask.note = n /\ ask.via = "direct"
  OBVIOUS
<1> HIDE DEF ask
<1>5. DirectAsksOnce'
  BY <1>1, <1>2, <1>3, <1>4 DEF OnceInv, DirectAsksOnce
<1> QED
  BY <1>1, <1>2, <1>3, <1>5 DEF OnceInv, QueuedOnce

\* Nothing is asked any more for a note whose request was answered or failed.
LEMMA SettledOnce ==
    ASSUME NoteInv, OnceInv, NEW n \in Notes, stage[n] = "asking",
           UNCHANGED pending, \A x \in Notes \ {n} : stage'[x] = stage[x],
           answered' \subseteq answered,
           \A a \in answered' : ~(a.note = n /\ a.via = "direct"),
           \A m \in sent' : m \in sent \/ m.via # "direct",
           \A m \in sent' : ~(m.note = n /\ m.via = "direct")
    PROVE  OnceInv'
<1>1. /\ \A m \in sent : m.note \in Notes
      /\ \A a \in answered : a.note \in Notes
      /\ \A x \in ToSet(pending) : x \in Notes /\ x # n
  BY DEF NoteInv, Types, OnceInv, QueuedOnce, ToSet
<1>2. DirectAsksOnce'
  BY <1>1 DEF OnceInv, DirectAsksOnce
<1> QED
  BY <1>1, <1>2 DEF OnceInv, QueuedOnce

LEMMA AnsweredOnce ==
    ASSUME NoteInv, OnceInv, NEW n \in Notes, DirectAnswered(n)
    PROVE  OnceInv'
<1>1. PICK a \in answered :
        /\ a.note = n /\ a.via = "direct" /\ answered' = answered \ {a}
        /\ stage' = [stage EXCEPT ![n] = IF a.code = "created" THEN "saved" ELSE "failed"]
        /\ UNCHANGED <<pending, sent>>
  BY DEF DirectAnswered
<1>2. stage[n] = "asking" /\ \A x \in Notes \ {n} : stage'[x] = stage[x]
  BY <1>1 DEF OnceInv, DirectAsksOnce, NoteInv, Types
<1>3. /\ \A b \in answered' : ~(b.note = n /\ b.via = "direct")
      /\ \A m \in sent' : ~(m.note = n /\ m.via = "direct")
  BY <1>1 DEF OnceInv, DirectAsksOnce
<1> QED
  BY <1>1, <1>2, <1>3, SettledOnce

LEMMA FailedOnce ==
    ASSUME NoteInv, OnceInv, NEW n \in Notes, DirectFails(n)
    PROVE  OnceInv'
<1> DEFINE ask == [note |-> n, via |-> "direct"]
           stray == [note |-> n, via |-> "stray"]
<1>1. stage[n] = "asking" /\ UNCHANGED pending /\ stage' = [stage EXCEPT ![n] = "failed"]
  BY DEF DirectFails
<1>2. \A x \in Notes \ {n} : stage'[x] = stage[x]
  BY <1>1 DEF NoteInv, Types
<1>3. ask.note = n /\ ask.via = "direct" /\ stray.via = "stray"
  OBVIOUS
<1>4. \A m \in sent : m.note = n /\ m.via = "direct" => m = ask
  BY DEF NoteInv, Types
<1>5. \/ ask \in sent /\ sent' \subseteq (sent \ {ask}) \cup {stray} /\ UNCHANGED answered
      \/ \E a \in answered : /\ a.note = n /\ a.via = "direct" /\ answered' = answered \ {a}
                             /\ UNCHANGED sent
  BY DEF DirectFails
<1> HIDE DEF ask, stray
<1>6. CASE ask \in sent /\ sent' \subseteq (sent \ {ask}) \cup {stray} /\ UNCHANGED answered
  <2>1. \A a \in answered' : ~(a.note = n /\ a.via = "direct")
    BY <1>3, <1>6 DEF OnceInv, DirectAsksOnce
  <2>2. \A m \in sent' : (m \in sent \/ m.via # "direct") /\ ~(m.note = n /\ m.via = "direct")
    BY <1>3, <1>4, <1>6
  <2> QED
    BY <1>1, <1>2, <1>6, <2>1, <2>2, SettledOnce
<1>7. CASE \E a \in answered : /\ a.note = n /\ a.via = "direct" /\ answered' = answered \ {a}
                               /\ UNCHANGED sent
  <2>1. /\ \A a \in answered' : ~(a.note = n /\ a.via = "direct")
        /\ \A m \in sent' : ~(m.note = n /\ m.via = "direct")
        /\ answered' \subseteq answered /\ UNCHANGED sent
    BY <1>7 DEF OnceInv, DirectAsksOnce
  <2> QED
    BY <1>1, <1>2, <2>1, SettledOnce
<1> QED
  BY <1>5, <1>6, <1>7

\* What has failed is not in the queue yet.
LEMMA EnqueuedOnce ==
    ASSUME NoteInv, OnceInv, NEW n \in Notes, Enqueue(n)
    PROVE  OnceInv'
<1>1. /\ stage[n] = "failed" /\ pending' = Append(pending, n)
      /\ stage' = [stage EXCEPT ![n] = "saved"] /\ UNCHANGED <<sent, answered>>
  BY DEF Enqueue
<1>2. pending \in Seq(Notes) /\ n \notin ToSet(pending) /\ IsInjective(pending)
  BY <1>1 DEF NoteInv, Types, OnceInv, QueuedOnce
<1>3. IsInjective(pending') /\ ToSet(pending') = ToSet(pending) \cup {n}
  BY <1>1, <1>2, AppendedOnce, InAppended
<1>4. stage'[n] = "saved" /\ \A x \in Notes \ {n} : stage'[x] = stage[x]
  BY <1>1 DEF NoteInv, Types
<1>5. /\ \A m \in sent : m.note \in Notes /\ (m.via = "direct" => m.note # n)
      /\ \A a \in answered : a.note \in Notes /\ (a.via = "direct" => a.note # n)
      /\ \A x \in ToSet(pending) : x \in Notes
  BY <1>1 DEF NoteInv, Types, OnceInv, DirectAsksOnce, ToSet
<1>6. DirectAsksOnce'
  BY <1>1, <1>4, <1>5 DEF OnceInv, DirectAsksOnce
<1>7. QueuedOnce'
  BY <1>3, <1>4, <1>5 DEF OnceInv, QueuedOnce
<1> QED
  BY <1>6, <1>7 DEF OnceInv

\* The replay sends, fails and ends; none of it is direct, and nothing is queued.
LEMMA ReplayedOnce ==
    ASSUME OnceInv, UNCHANGED <<stage, pending>>, answered' \subseteq answered,
           \A m \in sent' : m \in sent \/ m.via # "direct"
    PROVE  OnceInv'
<1>1. DirectAsksOnce'
  BY DEF OnceInv, DirectAsksOnce
<1> QED
  BY <1>1 DEF OnceInv, QueuedOnce

LEMMA RemovedOnce ==
    ASSUME NoteInv, OnceInv, RemoveOperation
    PROVE  OnceInv'
<1>1. /\ flush.pc = "remove" /\ pending' = Without(pending, Head(flush.todo))
      /\ UNCHANGED <<stage, sent, answered>>
  BY DEF RemoveOperation, FlushUnchanged
<1>2. Head(flush.todo) \in Notes /\ pending \in Seq(Notes) /\ IsInjective(pending)
  BY <1>1 DEF NoteInv, Types, FlushHasWork, OnceInv, QueuedOnce
<1>3. IsInjective(pending') /\ ToSet(pending') \subseteq ToSet(pending)
  BY <1>1, <1>2, RestOnce
<1>4. QueuedOnce'
  BY <1>1, <1>3 DEF OnceInv, QueuedOnce
<1> QED
  BY <1>1, <1>4 DEF OnceInv, DirectAsksOnce

\* The requests become strays; what was saved stays saved.
LEMMA KilledOnce ==
    ASSUME NoteInv, OnceInv, KillApp
    PROVE  OnceInv'
<1>1. /\ sent' = {[m EXCEPT !.via = "stray"] : m \in sent} /\ answered' = {} /\ UNCHANGED pending
      /\ stage' = [n \in Notes |-> IF stage[n] \in {"asking", "failed"} THEN "lost" ELSE stage[n]]
  BY DEF KillApp
<1>2. \A m \in sent : [m EXCEPT !.via = "stray"].via = "stray"
  BY DEF NoteInv, Types
<1>3. \A m \in sent' : m.via # "direct"
  BY <1>1, <1>2
<1>4. \A x \in ToSet(pending) : x \in Notes /\ stage'[x] = "saved"
  BY <1>1 DEF NoteInv, Types, OnceInv, QueuedOnce, ToSet
<1>5. QueuedOnce'
  BY <1>1, <1>4 DEF OnceInv, QueuedOnce
<1> QED
  BY <1>1, <1>3, <1>5 DEF OnceInv, DirectAsksOnce

LEMMA OnceStep ==
    ASSUME NoteInv, OnceInv, [FieldNext]_fieldVars
    PROVE  OnceInv'
<1>1. ASSUME NEW m \in sent, ServeRequest(m)
      PROVE  OnceInv'
  BY <1>1, ServedOnce
<1>2. ASSUME NEW n \in Notes, WriteNote(n) \/ DirectAnswered(n) \/ DirectFails(n) \/ Enqueue(n)
      PROVE  OnceInv'
  BY <1>2, WrittenOnce, AnsweredOnce, FailedOnce, EnqueuedOnce
<1>3. CASE FlushSend
  <2>1. \A m \in sent' : m \in sent \/ m.via = "flush"
    BY <1>3 DEF FlushSend
  <2> QED
    BY <1>3, <2>1, ReplayedOnce DEF FlushSend, FlushUnchanged
<1>4. CASE FlushFails
  <2> DEFINE unserved == {m \in sent : m.via = "flush"}
  <2>1. /\ sent' \subseteq sent \cup {[m EXCEPT !.via = "stray"] : m \in unserved}
        /\ answered' \subseteq answered /\ UNCHANGED <<stage, pending>>
    BY <1>4 DEF FlushFails, Abandoned, FlushUnchanged
  <2>2. \A m \in unserved : [m EXCEPT !.via = "stray"].via = "stray"
    BY DEF NoteInv, Types
  <2>3. \A m \in sent' : m \in sent \/ m.via # "direct"
    BY <2>1, <2>2
  <2> QED
    BY <2>1, <2>3, ReplayedOnce
<1>5. CASE RemoveOperation
  BY <1>5, RemovedOnce
<1>6. CASE KillApp
  BY <1>6, KilledOnce
<1>7. CASE FlushAnswered \/ MarkError \/ SyncNow \/ Reconnect
  <2>1. UNCHANGED <<stage, pending, sent>> /\ answered' \subseteq answered
    BY <1>7 DEF FlushAnswered, MarkError, SyncNow, Reconnect, FlushUnchanged
  <2> QED
    BY <2>1, ReplayedOnce
<1>8. CASE ChangeAccess \/ Disconnect \/ UNCHANGED fieldVars
  <2>1. UNCHANGED <<stage, pending, sent, answered>>
    BY <1>8 DEF ChangeAccess, Disconnect, fieldVars, phoneVars
  <2> QED
    BY <2>1, ReplayedOnce
<1> QED
  BY <1>1, <1>2, <1>3, <1>4, <1>5, <1>6, <1>7, <1>8 DEF FieldNext, FlushStep

\* The types of the phone and the tables; and the queue (queue.ts) holds each note once,
\* which removeOperation relies on.
THEOREM NotesTypeCorrect == FieldSpec => []FieldTypeOK
<1>1. NoteInv /\ OnceInv => FieldTypeOK
  <2> SUFFICES ASSUME NoteInv, OnceInv PROVE FieldTypeOK
    OBVIOUS
  <2>1. pending \in Seq(Notes) /\ Len(pending) = Cardinality(ToSet(pending))
    BY OnceIsCounted DEF NoteInv, Types, OnceInv, QueuedOnce
  <2>2. ToSet(pending) \subseteq Notes
    BY <2>1 DEF ToSet
  <2> QED
    BY <2>1, <2>2 DEF NoteInv, Types, FieldTypeOK, Stages, FlushStates, Vias, Codes
<1>2. NoteInv /\ OnceInv /\ [FieldNext]_fieldVars => OnceInv'
  BY OnceStep
<1> QED
  BY OnceInit, NoteInvHolds, <1>1, <1>2, PTL DEF FieldSpec

-----------------------------------------------------------------------------
(* Edits: PATCH with a base version *)

InFlight(e) == edit[e] # Nobody
Kept(a) == a[2] \notin overlapped /\ a[1] \notin setBack /\ Stored(a[1])

\* A text has only edits that were accepted, and of a PATCH its own.
TextsAreAccepted ==
    /\ \A n \in Records : Stored(n) => \A k \in rows[n].text : <<n, k>> \in accepted
    /\ \A e \in Editors : seen[e] # Nobody =>
         \A k \in seen[e].text : <<seen[e].note, k>> \in accepted
    /\ \A e \in Editors : InFlight(e) =>
         \A k \in edit[e].wanted.text : k = edit[e].mark \/ <<edit[e].note, k>> \in accepted

\* What a PATCH will write differs from what it loaded.
PatchesChange ==
    \A e \in Editors : InFlight(e) =>
        /\ edit[e].mark \in edit[e].wanted.text /\ edit[e].mark \notin edit[e].loaded.text
        /\ edit[e].wanted.version = edit[e].loaded.version + 1

\* Two PATCHes of a record at once are both marked.
OverlapsAreNoted ==
    \A e, d \in Editors : /\ e # d /\ InFlight(e) /\ InFlight(d)
                          /\ edit[e].note = edit[d].note
                          => edit[e].mark \in overlapped /\ edit[d].mark \in overlapped

\* One that is alone has loaded the row as it still is.
AloneIsUnmoved ==
    \A e \in Editors : /\ InFlight(e) /\ edit[e].mark \notin overlapped
                       /\ Stored(edit[e].note)
                       => rows[edit[e].note] = edit[e].loaded

\* A copy is not newer than the row, unless the row was set back.
CopiesAreNotAhead ==
    \A e \in Editors : /\ seen[e] # Nobody /\ Stored(seen[e].note)
                       /\ seen[e].note \notin setBack
                       => seen[e].version <= rows[seen[e].note].version

\* An edit that must be kept is in its record, in every copy that would match it,
\* and in what every PATCH of it will write.
InRow(a) == a[2] \in rows[a[1]].text
InCopies(a) == \A e \in Editors :
    (seen[e] # Nobody /\ seen[e].note = a[1] /\ seen[e].version = rows[a[1]].version)
        => a[2] \in seen[e].text
InPatches(a) == \A e \in Editors :
    (InFlight(e) /\ edit[e].note = a[1]) => a[2] \in edit[e].wanted.text

KeptEverywhere ==
    \A a \in accepted : Kept(a) => InRow(a) /\ InCopies(a) /\ InPatches(a)

EditInv == /\ EditTypeOK /\ TextsAreAccepted /\ PatchesChange /\ OverlapsAreNoted
           /\ AloneIsUnmoved /\ CopiesAreNotAhead /\ KeptEverywhere

-----------------------------------------------------------------------------
\* The rows are as the models make them.
LEMMA InitHolds == EditInit => EditInv
BY EditConstants DEF EditInit, EditInv, EditTypeOK, EditRow, CopyRow, PatchRow, NewRow, Statuses,
    Edits, TextsAreAccepted, PatchesChange, OverlapsAreNoted, AloneIsUnmoved, CopiesAreNotAhead,
    KeptEverywhere, InFlight, Stored

\* FreshMark names an edit that is in no text and no request.
LEMMA FreshMarkIsFresh ==
    ASSUME EditTypeOK, UsedMarks # Edits
    PROVE  FreshMark \in Edits /\ FreshMark \notin UsedMarks
<1>1. UsedMarks \subseteq Edits
  BY DEF UsedMarks, EditTypeOK, PatchRow
<1>2. \E k \in Edits : k \notin UsedMarks
  BY <1>1
<1> QED
  BY <1>2 DEF FreshMark

\* What a handler sets: a row, with the text it is given and the next version.
LEMMA UpdateSets ==
    ASSUME NEW n \in Records, NEW row \in EditRow, NEW text \in SUBSET Edits,
           NEW status \in Statuses \cup {Nobody}, NEW e \in Editors
    PROVE  /\ Update(n, row, text, status, e) \in EditRow
           /\ Update(n, row, text, status, e).text = text
           /\ Update(n, row, text, status, e).version = row.version + 1
<1> DEFINE row2 == Update(n, row, text, status, e)
           given == IF status = Nobody THEN row.status ELSE status
<1>0. /\ row = [version |-> row.version, text |-> row.text, status |-> row.status,
                doneBy |-> row.doneBy]
      /\ row.version \in Nat /\ row.status \in Statuses
      /\ row.doneBy \in Editors \cup {Nobody} /\ given \in Statuses
  BY DEF EditRow
<1>1. KindOf[n] \in {"occurrence", "inspection", "task"}
  BY EditConstants
<1>2. CASE KindOf[n] = "occurrence"
  <2>1. row2 = [version |-> row.version + 1, text |-> text, status |-> given,
                doneBy |-> row.doneBy]
    BY <1>0, <1>2 DEF Update, UpdateOccurrence
  <2> QED
    BY <1>0, <2>1 DEF EditRow
<1>3. CASE KindOf[n] = "inspection"
  <2>1. row2 = [version |-> row.version + 1, text |-> text, status |-> row.status,
                doneBy |-> row.doneBy]
    BY <1>0, <1>3 DEF Update, UpdateInspection
  <2> QED
    BY <1>0, <2>1 DEF EditRow
<1>4. CASE KindOf[n] = "task"
  <2>1. row2 = [version |-> row.version + 1, text |-> text, status |-> given,
                doneBy |-> IF status = "done" THEN e ELSE row.doneBy]
    BY <1>0, <1>4 DEF Update, UpdateTask
  <2> QED
    BY <1>0, <2>1 DEF EditRow
<1> QED
  BY <1>1, <1>2, <1>3, <1>4

\* What the UPDATE leaves: a row; with the text and version of the PATCH if these
\* differ from what it loaded.
LEMMA WrittenIs ==
    ASSUME NEW row \in EditRow, NEW loaded \in EditRow, NEW wanted \in EditRow,
           wanted.text # loaded.text, wanted.version # loaded.version
    PROVE  /\ Written(row, loaded, wanted) \in EditRow
           /\ Written(row, loaded, wanted).text = wanted.text
           /\ Written(row, loaded, wanted).version = wanted.version
BY DEF Written, EditRow

-----------------------------------------------------------------------------
LEMMA FetchKeeps ==
    ASSUME EditInv, NEW e \in Editors, NEW n \in Records, FetchNote(e, n)
    PROVE  EditInv'
<1> USE DEF FetchNote, EditInv
<1>0. rows[n] \in EditRow
  BY DEF EditTypeOK, Stored
<1>1. seen'[e] = [note |-> n, version |-> rows[n].version, text |-> rows[n].text]
  BY DEF EditTypeOK
<1>2. \A d \in Editors : d # e => seen'[d] = seen[d]
  BY DEF EditTypeOK
<1>3. EditTypeOK'
  BY <1>0 DEF EditTypeOK, CopyRow, EditRow
<1>4. TextsAreAccepted'
  BY <1>1, <1>2 DEF TextsAreAccepted, InFlight, Stored
<1>5. PatchesChange' /\ OverlapsAreNoted' /\ AloneIsUnmoved'
  BY DEF PatchesChange, OverlapsAreNoted, AloneIsUnmoved, InFlight, Stored
<1>6. CopiesAreNotAhead'
  BY <1>0, <1>1, <1>2 DEF CopiesAreNotAhead, Stored, EditRow
<1>7. KeptEverywhere'
  BY <1>1, <1>2 DEF KeptEverywhere, InRow, InCopies, InPatches, Kept, InFlight, Stored
<1> QED
  BY <1>3, <1>4, <1>5, <1>6, <1>7

\* A PATCH that is refused only costs the client its copy.
LEMMA RefusedKeeps ==
    ASSUME EditInv, NEW e \in Editors, seen' = [seen EXCEPT ![e] = Nobody],
           UNCHANGED <<rows, edit, accepted, overlapped, setBack>>
    PROVE  EditInv'
<1> USE DEF EditInv
<1>1. seen'[e] = Nobody /\ \A d \in Editors : d # e => seen'[d] = seen[d]
  BY DEF EditTypeOK
<1>2. EditTypeOK'
  BY DEF EditTypeOK
<1>3. TextsAreAccepted'
  BY <1>1 DEF TextsAreAccepted, InFlight, Stored
<1>4. PatchesChange' /\ OverlapsAreNoted' /\ AloneIsUnmoved'
  BY DEF PatchesChange, OverlapsAreNoted, AloneIsUnmoved, InFlight, Stored
<1>5. CopiesAreNotAhead' /\ KeptEverywhere'
  BY <1>1 DEF CopiesAreNotAhead, KeptEverywhere, InRow, InCopies, InPatches, Kept, InFlight, Stored
<1> QED
  BY <1>2, <1>3, <1>4, <1>5

\* One that is served has a copy with every edit to keep, and adds its own.
LEMMA ReadKeeps ==
    ASSUME EditInv, NEW e \in Editors, PatchRead(e)
    PROVE  EditInv'
<1> DEFINE n == seen[e].note
<1>1. CASE Conflicts(e)
  BY <1>1, RefusedKeeps DEF PatchRead
<1>2. CASE ~Conflicts(e)
  <2>1. PICK status \in Statuses \cup {Nobody} :
          edit' = [edit EXCEPT ![e] =
                     [note |-> n, mark |-> FreshMark, loaded |-> rows[n],
                      wanted |-> Update(n, rows[n], seen[e].text \cup {FreshMark}, status, e)]]
    BY <1>2 DEF PatchRead
  <2> DEFINE wanted == Update(n, rows[n], seen[e].text \cup {FreshMark}, status, e)
  <2>2. /\ seen[e] \in CopyRow /\ n \in Records /\ rows[n] \in EditRow
        /\ seen[e].text \subseteq Edits
    BY DEF EditInv, EditTypeOK, PatchRead, Stored, CopyRow
  <2>3. FreshMark \in Edits /\ FreshMark \notin UsedMarks
    BY FreshMarkIsFresh DEF EditInv, PatchRead
  <2>4. /\ wanted \in EditRow /\ wanted.text = seen[e].text \cup {FreshMark}
        /\ wanted.version = rows[n].version + 1
    BY <2>2, <2>3, UpdateSets
  <2>5. /\ edit'[e] = [note |-> n, mark |-> FreshMark, loaded |-> rows[n], wanted |-> wanted]
        /\ \A d \in Editors : d # e => edit'[d] = edit[d]
    BY <2>1 DEF EditInv, EditTypeOK
  <2>6. seen'[e] = Nobody /\ \A d \in Editors : d # e => seen'[d] = seen[d]
    BY DEF PatchRead, EditInv, EditTypeOK
  <2> HIDE DEF n, wanted
  <2>7. edit[e] = Nobody /\ Stored(n) /\ seen[e] # Nobody /\ UNCHANGED <<rows, accepted, setBack>>
    BY DEF PatchRead, n
  <2>8. overlapped' = overlapped \cup
          (IF EditsOf(n) = {} THEN {} ELSE {FreshMark} \cup {edit[d].mark : d \in EditsOf(n)})
    BY <1>2 DEF PatchRead, n
  <2>9. seen[e].version = rows[n].version
    BY <1>2 DEF Conflicts, n
  <2>10. EditTypeOK'
    <3>1. seen' \in [Editors -> CopyRow \cup {Nobody}]
      BY DEF EditInv, EditTypeOK, PatchRead
    <3>2. edit' \in [Editors -> PatchRow \cup {Nobody}]
      BY <2>1, <2>2, <2>3, <2>4 DEF EditInv, EditTypeOK, PatchRow, n, wanted
    <3>3. overlapped' \subseteq Edits
      BY <2>3, <2>8 DEF EditInv, EditTypeOK, EditsOf, PatchRow
    <3> QED
      BY <2>7, <3>1, <3>2, <3>3 DEF EditInv, EditTypeOK
  <2>11. TextsAreAccepted'
    <3>1. \A k \in wanted.text : k = FreshMark \/ <<n, k>> \in accepted
      BY <2>4, <2>7 DEF EditInv, TextsAreAccepted, n
    <3>2. \A d \in Editors : InFlight(d)' =>
            \A k \in edit'[d].wanted.text : k = edit'[d].mark \/ <<edit'[d].note, k>> \in accepted
      BY <2>5, <3>1 DEF EditInv, TextsAreAccepted, InFlight
    <3> QED
      BY <2>6, <2>7, <3>2 DEF EditInv, TextsAreAccepted, Stored
  <2>12. PatchesChange'
    <3>1. \A k : <<n, k>> \in accepted => k \in UsedMarks
      <4> TAKE k
      <4> HAVE <<n, k>> \in accepted
      <4>1. <<n, k>>[2] = k
        OBVIOUS
      <4> QED
        BY <4>1 DEF UsedMarks
    <3>2. FreshMark \notin rows[n].text
      BY <2>2, <2>3, <2>7, <3>1 DEF EditInv, TextsAreAccepted
    <3>3. /\ edit'[e].mark = FreshMark /\ edit'[e].wanted = wanted /\ edit'[e].loaded = rows[n]
      BY <2>5
    <3> QED
      BY <2>4, <2>5, <3>2, <3>3 DEF EditInv, PatchesChange, InFlight
  <2>13. OverlapsAreNoted'
    <3> SUFFICES ASSUME NEW c \in Editors, NEW d \in Editors, c # d, InFlight(c)', InFlight(d)',
                        edit'[c].note = edit'[d].note
                 PROVE  edit'[c].mark \in overlapped' /\ edit'[d].mark \in overlapped'
      BY DEF OverlapsAreNoted
    <3>1. CASE c # e /\ d # e
      BY <2>5, <2>8, <3>1 DEF EditInv, OverlapsAreNoted, InFlight
    <3>2. CASE c = e
      <4>1. d \in EditsOf(n)
        BY <2>5, <3>2 DEF EditsOf, InFlight
      <4> QED
        BY <2>5, <2>8, <3>2, <4>1
    <3>3. CASE d = e
      <4>1. c \in EditsOf(n)
        BY <2>5, <3>3 DEF EditsOf, InFlight
      <4> QED
        BY <2>5, <2>8, <3>3, <4>1
    <3> QED
      BY <3>1, <3>2, <3>3
  <2>14. AloneIsUnmoved'
    BY <2>5, <2>7, <2>8 DEF EditInv, AloneIsUnmoved, InFlight, Stored
  <2>15. CopiesAreNotAhead'
    BY <2>6, <2>7 DEF EditInv, CopiesAreNotAhead, Stored
  <2>16. KeptEverywhere'
    <3> SUFFICES ASSUME NEW a \in accepted, Kept(a)'
                 PROVE  InRow(a)' /\ InCopies(a)' /\ InPatches(a)'
      BY <2>7 DEF KeptEverywhere
    <3>1. Kept(a)
      BY <2>7, <2>8 DEF Kept, Stored
    <3>2. InRow(a) /\ InCopies(a) /\ InPatches(a)
      BY <3>1 DEF EditInv, KeptEverywhere
    <3>3. InRow(a)' /\ InCopies(a)'
      BY <2>6, <2>7, <3>2 DEF InRow, InCopies
    <3>4. a[1] = n => a[2] \in seen[e].text
      BY <2>7, <2>9, <3>2 DEF InCopies, n
    <3>5. ASSUME NEW d \in Editors, InFlight(d)', edit'[d].note = a[1]
          PROVE  a[2] \in edit'[d].wanted.text
      <4>1. CASE d = e
        BY <2>4, <2>5, <3>4, <3>5, <4>1
      <4>2. CASE d # e
        BY <2>5, <3>2, <3>5, <4>2 DEF InPatches, InFlight
      <4> QED
        BY <4>1, <4>2
    <3> QED
      BY <3>3, <3>5 DEF InPatches
  <2> QED
    BY <2>10, <2>11, <2>12, <2>13, <2>14, <2>15, <2>16 DEF EditInv
<1> QED
  BY <1>1, <1>2

\* A commit to a row that is there.  The row takes the text and the version of the
\* PATCH: a copy that matches it then matched it before, unless it was set back; and
\* a PATCH that was alone raises the version.
LEMMA CommittedKeeps ==
    ASSUME EditInv, NEW e \in Editors, PatchCommit(e), Stored(edit[e].note)
    PROVE  EditInv'
<1> DEFINE n == edit[e].note
           row == Written(rows[n], edit[e].loaded, edit[e].wanted)
<1>1. /\ edit[e] \in PatchRow /\ n \in Records /\ edit[e].mark \in Edits
      /\ edit[e].loaded \in EditRow /\ edit[e].wanted \in EditRow /\ rows[n] \in EditRow
  BY DEF EditInv, EditTypeOK, PatchCommit, PatchRow, Stored
<1>2. /\ edit[e].mark \in edit[e].wanted.text
      /\ edit[e].wanted.text # edit[e].loaded.text
      /\ edit[e].wanted.version = edit[e].loaded.version + 1
  BY DEF EditInv, PatchesChange, InFlight, PatchCommit
<1>3. edit[e].loaded.version \in Nat /\ rows[n].version \in Nat
  BY <1>1 DEF EditRow
<1>4. /\ row \in EditRow /\ row.text = edit[e].wanted.text
      /\ row.version = edit[e].loaded.version + 1
  <2>1. edit[e].wanted.version # edit[e].loaded.version
    BY <1>2, <1>3
  <2> HIDE DEF n
  <2> QED
    BY <1>1, <1>2, <2>1, WrittenIs DEF n
<1>5. /\ rows' = [rows EXCEPT ![n] = row] /\ accepted' = accepted \cup {<<n, edit[e].mark>>}
      /\ setBack' = IF row.version < rows[n].version THEN setBack \cup {n} ELSE setBack
      /\ edit' = [edit EXCEPT ![e] = Nobody] /\ UNCHANGED <<seen, overlapped>>
      /\ edit[e] # Nobody
  BY DEF PatchCommit
<1>6. rows'[n] = row /\ \A m \in Records : m # n => rows'[m] = rows[m]
  BY <1>1, <1>5 DEF EditInv, EditTypeOK
<1>7. edit'[e] = Nobody /\ \A d \in Editors : d # e => edit'[d] = edit[d]
  BY <1>5 DEF EditInv, EditTypeOK
<1> HIDE DEF n, row
<1>8. EditTypeOK'
  BY <1>1, <1>4, <1>5 DEF EditInv, EditTypeOK
<1>9. TextsAreAccepted'
  BY <1>1, <1>4, <1>5, <1>6, <1>7 DEF EditInv, TextsAreAccepted, EditTypeOK, PatchRow,
      InFlight, Stored, n
<1>10. PatchesChange' /\ OverlapsAreNoted'
  BY <1>5, <1>7 DEF EditInv, PatchesChange, OverlapsAreNoted, InFlight
<1>11. AloneIsUnmoved'
  BY <1>1, <1>5, <1>6, <1>7 DEF EditInv, EditTypeOK, PatchRow, AloneIsUnmoved, OverlapsAreNoted,
      InFlight, Stored, n
<1>12. CopiesAreNotAhead'
  <2> SUFFICES ASSUME NEW d \in Editors, seen[d] # Nobody, Stored(seen[d].note)',
                      seen[d].note \notin setBack'
               PROVE  seen[d].version <= rows'[seen[d].note].version
    BY <1>5 DEF CopiesAreNotAhead
  <2>1. seen[d].note \in Records /\ seen[d].version \in Nat /\ seen[d].note \notin setBack
    BY <1>5 DEF EditInv, EditTypeOK, CopyRow
  <2>2. CASE seen[d].note = n
    BY <1>3, <1>4, <1>5, <1>6, <2>1, <2>2 DEF EditInv, CopiesAreNotAhead, n
  <2>3. CASE seen[d].note # n
    <3>1. rows'[seen[d].note] = rows[seen[d].note]
      BY <1>6, <2>1, <2>3
    <3> QED
      BY <1>5, <2>1, <3>1 DEF EditInv, CopiesAreNotAhead, Stored
  <2> QED
    BY <2>2, <2>3
<1>13. KeptEverywhere'
  <2> SUFFICES ASSUME NEW a \in accepted', Kept(a)'
               PROVE  InRow(a)' /\ InCopies(a)' /\ InPatches(a)'
    BY <1>5 DEF KeptEverywhere
  <2>0. a[1] \in Records /\ a[2] \notin overlapped /\ a[1] \notin setBack
    BY <1>5, <1>8 DEF Kept, EditTypeOK
  <2>1. CASE a[1] # n
    <3>1. a \in accepted /\ rows'[a[1]] = rows[a[1]] /\ Kept(a)
      BY <1>5, <1>6, <2>0, <2>1 DEF Kept, Stored
    <3> QED
      BY <1>5, <1>7, <3>1 DEF EditInv, KeptEverywhere, InFlight, InRow, InCopies, InPatches
  <2>2. CASE a[1] = n /\ a \in accepted
    <3>1. Kept(a)
      BY <2>0, <2>2 DEF Kept, n
    <3>2. row.version >= rows[n].version
      BY <1>3, <1>4, <1>5, <2>2 DEF Kept
    <3>3. a[2] \in row.text
      BY <1>4, <1>5, <2>2, <3>1 DEF EditInv, KeptEverywhere, InPatches, InFlight, n
    <3>4. ASSUME NEW d \in Editors, seen[d] # Nobody, seen[d].note = n,
                 seen[d].version = row.version
          PROVE  a[2] \in seen[d].text
      <4>1. seen[d].version <= rows[n].version
        BY <2>0, <2>2, <3>4 DEF EditInv, CopiesAreNotAhead, n
      <4>2. seen[d].version = rows[n].version
        BY <1>3, <1>4, <3>2, <3>4, <4>1
      <4> QED
        BY <2>2, <3>1, <3>4, <4>2 DEF EditInv, KeptEverywhere, InCopies
    <3>5. InRow(a)' /\ InCopies(a)'
      BY <1>5, <1>6, <2>2, <3>3, <3>4, <2>0 DEF InRow, InCopies
    <3>6. InPatches(a)'
      BY <1>7, <2>2, <3>1 DEF EditInv, KeptEverywhere, InFlight, InPatches
    <3> QED
      BY <3>5, <3>6
  <2>3. CASE a = <<n, edit[e].mark>>
    <3>1. rows[n] = edit[e].loaded
      BY <1>5, <2>0, <2>3 DEF EditInv, AloneIsUnmoved, InFlight, n
    <3>2. \A d \in Editors : InFlight(d)' => edit'[d].note # n
      BY <1>5, <1>7, <2>0, <2>3 DEF EditInv, OverlapsAreNoted, InFlight, n
    <3>3. \A d \in Editors : seen[d] # Nobody /\ seen[d].note = n => seen[d].version # row.version
      <4> SUFFICES ASSUME NEW d \in Editors, seen[d] # Nobody, seen[d].note = n
                   PROVE  seen[d].version # row.version
        OBVIOUS
      <4>1. seen[d].version <= rows[n].version /\ seen[d].version \in Nat
        BY <2>0, <2>3 DEF EditInv, EditTypeOK, CopyRow, CopiesAreNotAhead, n
      <4> QED
        BY <1>3, <1>4, <3>1, <4>1
    <3>4. InRow(a)'
      BY <1>2, <1>4, <1>6, <2>3, <2>0 DEF InRow
    <3>5. InCopies(a)'
      BY <1>5, <1>6, <2>0, <2>3, <3>3 DEF InCopies
    <3>6. InPatches(a)'
      BY <2>3, <3>2 DEF InPatches
    <3> QED
      BY <3>4, <3>5, <3>6
  <2> QED
    BY <1>5, <2>1, <2>2, <2>3
<1> QED
  BY <1>8, <1>9, <1>10, <1>11, <1>12, <1>13 DEF EditInv

\* A commit that finds the row gone leaves nothing.
LEMMA CommitKeeps ==
    ASSUME EditInv, NEW e \in Editors, PatchCommit(e)
    PROVE  EditInv'
<1>1. CASE Stored(edit[e].note)
  BY <1>1, CommittedKeeps
<1>2. CASE ~Stored(edit[e].note)
  <2> USE DEF EditInv
  <2>1. /\ UNCHANGED <<rows, accepted, setBack, seen, overlapped>>
        /\ edit' = [edit EXCEPT ![e] = Nobody]
    BY <1>2 DEF PatchCommit
  <2>2. edit'[e] = Nobody /\ \A d \in Editors : d # e => edit'[d] = edit[d]
    BY <2>1 DEF EditTypeOK
  <2>3. EditTypeOK'
    BY <2>1 DEF EditTypeOK
  <2>4. TextsAreAccepted' /\ PatchesChange' /\ OverlapsAreNoted' /\ AloneIsUnmoved'
    BY <2>1, <2>2 DEF TextsAreAccepted, PatchesChange, OverlapsAreNoted, AloneIsUnmoved,
        InFlight, Stored
  <2>5. CopiesAreNotAhead' /\ KeptEverywhere'
    BY <2>1, <2>2 DEF CopiesAreNotAhead, KeptEverywhere, InRow, InCopies, InPatches, Kept,
        InFlight, Stored
  <2> QED
    BY <2>3, <2>4, <2>5
<1> QED
  BY <1>1, <1>2

LEMMA DeleteKeeps ==
    ASSUME EditInv, DeleteNotes
    PROVE  EditInv'
<1>1. \A n \in Records : ~Stored(n)'
  BY DEF DeleteNotes, Stored
<1>2. EditTypeOK'
  BY DEF DeleteNotes, EditInv, EditTypeOK
<1>3. TextsAreAccepted' /\ PatchesChange' /\ OverlapsAreNoted'
  BY <1>1 DEF DeleteNotes, EditInv, TextsAreAccepted, PatchesChange, OverlapsAreNoted, InFlight
<1>4. AloneIsUnmoved'
  BY <1>1, <1>2 DEF AloneIsUnmoved, EditTypeOK, PatchRow, InFlight
<1>5. CopiesAreNotAhead'
  BY <1>1, <1>2 DEF CopiesAreNotAhead, EditTypeOK, CopyRow
<1>6. KeptEverywhere'
  BY <1>1, <1>2 DEF KeptEverywhere, Kept, EditTypeOK
<1> QED
  BY <1>2, <1>3, <1>4, <1>5, <1>6 DEF EditInv

-----------------------------------------------------------------------------
\* The invariant of every behaviour (app/fieldnotes/router.py).
LEMMA EditInvHolds == EditSpec => []EditInv
<1>1. EditInv /\ [EditNext]_editVars => EditInv'
  <2> SUFFICES ASSUME EditInv, [EditNext]_editVars
               PROVE  EditInv'
    OBVIOUS
  <2>1. ASSUME NEW e \in Editors, NEW n \in Records, FetchNote(e, n)
        PROVE  EditInv'
    BY <2>1, FetchKeeps
  <2>2. ASSUME NEW e \in Editors, PatchRead(e)
        PROVE  EditInv'
    BY <2>2, ReadKeeps
  <2>3. ASSUME NEW e \in Editors, PatchCommit(e)
        PROVE  EditInv'
    BY <2>3, CommitKeeps
  <2>4. CASE DeleteNotes
    BY <2>4, DeleteKeeps
  <2>5. CASE UNCHANGED editVars
    BY <2>5 DEF editVars, EditInv, EditTypeOK, TextsAreAccepted, PatchesChange, OverlapsAreNoted,
        AloneIsUnmoved, CopiesAreNotAhead, KeptEverywhere, InRow, InCopies, InPatches, Kept,
        InFlight, Stored
  <2> QED
    BY <2>1, <2>2, <2>3, <2>4, <2>5 DEF EditNext
<1> QED
  BY InitHolds, <1>1, PTL DEF EditSpec

\* The rows, copies and requests have their types, whatever the constants.
THEOREM EditsTypeCorrect == EditSpec => []EditTypeOK
BY EditInvHolds, PTL DEF EditInv

\* Conflict detection by base_version (app/fieldnotes/router.py, the three PATCH
\* handlers): only edits served at once, or a version they set back, lose an
\* edit that was answered 200.
THEOREM OnlyOverlapLoses == EditSpec => []LostOnlyToOverlap
<1>1. EditInv => LostOnlyToOverlap
  BY DEF EditInv, KeptEverywhere, InRow, InCopies, InPatches, Kept, LostOnlyToOverlap
<1> QED
  BY EditInvHolds, <1>1, PTL
=============================================================================
