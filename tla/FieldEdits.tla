----------------------------- MODULE FieldEdits -----------------------------
(***************************************************************************)
(* Edits of the field notebook's records: PATCH with the version the       *)
(* client last saw (app/fieldnotes/router.py).  The comparison of versions *)
(* and the commit are two steps, with other requests between them.         *)
(***************************************************************************)
EXTENDS Naturals, FiniteSets

CONSTANTS Records, KindOf, Editors, MaxEdits, Nobody

ASSUME EditConstants ==
    /\ KindOf \in [Records -> {"occurrence", "inspection", "task"}]
    /\ MaxEdits \in Nat /\ Nobody \notin Editors

VARIABLES
    rows,        \* [Records -> row, or Nobody once deleted]
    seen,        \* [Editors -> what the client last fetched, or Nobody]
    edit,        \* [Editors -> the PATCH being served, or Nobody]
    accepted,    \* history: the edits that were answered 200
    overlapped,  \* history: edits served while another edit of the record was
    setBack      \* history: records whose version an edit has lowered

editVars == <<rows, seen, edit, accepted, overlapped, setBack>>

Edits == 1 .. MaxEdits
Statuses == {"pending", "done"}

\* The three tables in one: inspections have no status, and only tasks are signed
\* when done.  A text is the set of the edits that can be read in it.
NewRow == [version |-> 1, text |-> {}, status |-> "pending", doneBy |-> Nobody]

Stored(n) == rows[n] # Nobody

\* A client fetches a note: what its next edit is based on.
FetchNote(e, n) ==
    /\ edit[e] = Nobody /\ Stored(n)
    /\ seen[e] # Nobody => seen[e].note # n \/ seen[e].version # rows[n].version
    /\ seen' = [seen EXCEPT ![e] = [note |-> n, version |-> rows[n].version,
                                    text |-> rows[n].text]]
    /\ UNCHANGED <<rows, edit, accepted, overlapped, setBack>>

UsedMarks == {a[2] : a \in accepted} \cup {edit[e].mark : e \in {d \in Editors : edit[d] # Nobody}}
FreshMark == CHOOSE k \in Edits : k \notin UsedMarks

\* What the handlers set: the text the client has extended, and the status if the
\* request has one; a task that it says is done is signed.
UpdateInspection(row, text, status, e) == [row EXCEPT !.text = text, !.version = @ + 1]

UpdateOccurrence(row, text, status, e) ==
    [row EXCEPT !.text = text, !.version = @ + 1,
                !.status = IF status = Nobody THEN @ ELSE status]

UpdateTask(row, text, status, e) ==
    [row EXCEPT !.text = text, !.version = @ + 1,
                !.status = IF status = Nobody THEN @ ELSE status,
                !.doneBy = IF status = "done" THEN e ELSE @]

Update(n, row, text, status, e) ==
    CASE KindOf[n] = "occurrence" -> UpdateOccurrence(row, text, status, e)
      [] KindOf[n] = "inspection" -> UpdateInspection(row, text, status, e)
      [] KindOf[n] = "task" -> UpdateTask(row, text, status, e)

\* Mutant: the version is not compared.
Conflicts_Never(e) == FALSE

\* The base_version is not the row's: 409.
Conflicts(e) == seen[e].version # rows[seen[e].note].version

EditsOf(n) == {e \in Editors : edit[e] # Nobody /\ edit[e].note = n}

\* The PATCH reads the row and compares versions.  On 409 the client must
\* fetch again; otherwise the row it loaded is what it will write.
PatchRead(e) ==
    /\ edit[e] = Nobody /\ seen[e] # Nobody /\ UsedMarks # Edits
    /\ Stored(seen[e].note)
    /\ IF Conflicts(e)
       THEN UNCHANGED <<edit, overlapped>>
       ELSE /\ \E status \in Statuses \cup {Nobody} :
                 edit' = [edit EXCEPT ![e] =
                    [note |-> seen[e].note, mark |-> FreshMark, loaded |-> rows[seen[e].note],
                     wanted |-> Update(seen[e].note, rows[seen[e].note],
                                       seen[e].text \cup {FreshMark}, status, e)]]
            /\ overlapped' = overlapped \cup
                 (IF EditsOf(seen[e].note) = {} THEN {}
                  ELSE {FreshMark} \cup {edit[d].mark : d \in EditsOf(seen[e].note)})
    /\ seen' = [seen EXCEPT ![e] = Nobody]
    /\ UNCHANGED <<rows, accepted, setBack>>

\* The UPDATE writes the columns that changed; nothing compares versions again.
\* The version is the loaded one plus one, whatever it has become meanwhile.
Written(row, loaded, wanted) ==
    [c \in DOMAIN row |-> IF wanted[c] # loaded[c] THEN wanted[c] ELSE row[c]]

\* A row that has gone in the meantime fails the commit (500).
PatchCommit(e) ==
    /\ edit[e] # Nobody
    /\ LET n == edit[e].note
           row == Written(rows[n], edit[e].loaded, edit[e].wanted)
       IN IF Stored(n)
          THEN /\ rows' = [rows EXCEPT ![n] = row]
               /\ accepted' = accepted \cup {<<n, edit[e].mark>>}
               /\ setBack' = IF row.version < rows[n].version THEN setBack \cup {n} ELSE setBack
          ELSE UNCHANGED <<rows, accepted, setBack>>
    /\ edit' = [edit EXCEPT ![e] = Nobody]
    /\ UNCHANGED <<seen, overlapped>>

\* The location is deleted, and its notes with it.
DeleteNotes ==
    /\ \E n \in Records : Stored(n)
    /\ rows' = [n \in Records |-> Nobody]
    /\ UNCHANGED <<seen, edit, accepted, overlapped, setBack>>

-----------------------------------------------------------------------------
EditInit ==
    /\ rows = [n \in Records |-> NewRow]
    /\ seen = [e \in Editors |-> Nobody] /\ edit = [e \in Editors |-> Nobody]
    /\ accepted = {} /\ overlapped = {} /\ setBack = {}

EditNext ==
    \/ \E e \in Editors : \/ \E n \in Records : FetchNote(e, n)
                          \/ PatchRead(e)
                          \/ PatchCommit(e)
    \/ DeleteNotes

EditSpec == EditInit /\ [][EditNext]_editVars

-----------------------------------------------------------------------------
(* Properties *)

EditRow == [version : Nat, text : SUBSET Edits, status : Statuses, doneBy : Editors \cup {Nobody}]
CopyRow == [note : Records, version : Nat, text : SUBSET Edits]
PatchRow == [note : Records, mark : Edits, loaded : EditRow, wanted : EditRow]

\* The columns' types.
EditTypeOK ==
    /\ rows \in [Records -> EditRow \cup {Nobody}]
    /\ seen \in [Editors -> CopyRow \cup {Nobody}]
    /\ edit \in [Editors -> PatchRow \cup {Nobody}]
    /\ accepted \subseteq Records \X Edits /\ overlapped \subseteq Edits
    /\ setBack \subseteq Records

\* An edit that was answered 200 is in the record, unless it was served while
\* another edit of that record was, or such an edit has set the version back, so
\* that a client's stale copy may match it again: `never a last-write-wins merge'
\* (app/fieldnotes/models.py) holds up to edits that overlap.
LostOnlyToOverlap ==
    \A a \in accepted :
        Stored(a[1]) => \/ a[2] \in rows[a[1]].text \cup overlapped
                        \/ a[1] \in setBack
=============================================================================
