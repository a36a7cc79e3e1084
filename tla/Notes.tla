------------------------------- MODULE Notes -------------------------------
(* The learner's PDFs and their study scopes (backend/content: uploads.py,    *)
(* notes.py, views.py; config/storage.py), and the edits Manage notes sends.  *)
(*                                                                            *)
(* An upload, a removal, a change of scope and a move are requests whose      *)
(* steps interleave with those of the other gunicorn workers: storage is no   *)
(* part of a transaction, and scopes are read and written without a lock.     *)
(*                                                                            *)
(* A PDF is its content hash.  selected, include_quiz and include_reels are   *)
(* one set of kinds, empty while the PDF isn't selected.                      *)
EXTENDS Integers, FiniteSets

CONSTANTS
    Docs,       \* bound: PDFs
    PageCount,  \* their pages
    Stored,     \* the PDFs that are stored when the behaviour starts
    Workers,    \* bound: requests served at once
    Kinds,      \* Kind: what is made from a PDF
    MaxEdits    \* bound: requests the learner makes

ASSUME NotesAssumption ==
    /\ IsFiniteSet(Docs) /\ Stored \subseteq Docs /\ Docs \subseteq Nat \ {0}
    /\ PageCount \in [Docs -> Nat \ {0}]
    /\ MaxEdits \in Nat

VARIABLES
    docs,       \* documents: when the row was created (0: no row), and whether it is available
    files,      \* the PDFs that are in storage
    scopes,     \* note_scopes; "to" is 0 for "through the last page"
    job,        \* the request each worker serves
    crossed,    \* history: the PDFs an upload and a removal of which overlapped
    edits       \* how much of the bound is used

notesVars == <<docs, files, scopes, job, crossed, edits>>

NoJob        == [pc |-> "idle"]
DefaultScope == [kinds |-> Kinds, from |-> 1, to |-> 0, prio |-> 0]

Known     == {d \in Docs : docs[d].born # 0}
Available == {d \in Known : docs[d].available}

NotesInit ==
    /\ docs = [d \in Docs |-> [born |-> IF d \in Stored THEN Cardinality({x \in Stored : x <= d}) ELSE 0,
                             available |-> d \in Stored]]
    /\ files = Stored
    /\ scopes = [d \in Docs |-> DefaultScope]
    /\ job = [w \in Workers |-> NoJob]
    /\ crossed = {} /\ edits = 0

On(w, pc) == job[w].pc = pc
Go(w, r)  == job' = [job EXCEPT ![w] = r]
Ask(w)    == On(w, "idle") /\ edits < MaxEdits /\ edits' = edits + 1

LastPage(d, scope) == IF scope.to = 0 THEN PageCount[d] ELSE scope.to

\* list_order: priority, then newest first.
Above(x, y) == \/ scopes[x].prio < scopes[y].prio
               \/ scopes[x].prio = scopes[y].prio /\ docs[x].born > docs[y].born

\* Where a PDF sits among some of them.
Index(d, among) == Cardinality({x \in among : Above(x, d)})

-----------------------------------------------------------------------------
(* PUT /notes/upload.                                                         *)

\* A removal that has not deleted its file yet, or an upload between its file and its row.
Deleting(d)  == \E w \in Workers : On(w, "delete") /\ job[w].doc = d
Uploading(d) == \E w \in Workers : job[w].pc \in {"store", "record"} /\ job[w].doc = d

\* An upload of a PDF that is there already changes nothing.  One that finds no other
\* request at the PDF under way starts afresh.
Stage(w, d) ==
    /\ Ask(w)
    /\ d \notin Available
    /\ Go(w, [pc |-> "store", doc |-> d])
    /\ crossed' = IF Deleting(d) THEN crossed \union {d} ELSE IF Uploading(d) THEN crossed ELSE crossed \ {d}
    /\ UNCHANGED <<docs, files, scopes>>

\* Mutant: a PDF that is known is taken to be stored.
Store_OnlyNew(w) ==
    /\ On(w, "store")
    /\ files' = IF job[w].doc \in Known THEN files ELSE files \union {job[w].doc}
    /\ Go(w, [job[w] EXCEPT !.pc = "record"])
    /\ UNCHANGED <<docs, scopes, crossed, edits>>

Store(w) ==
    /\ On(w, "store")
    /\ files' = files \union {job[w].doc}
    /\ Go(w, [job[w] EXCEPT !.pc = "record"])
    /\ UNCHANGED <<docs, scopes, crossed, edits>>

\* _on_top
OnTop == IF Known = {} THEN 0
         ELSE (CHOOSE p \in {scopes[d].prio : d \in Known} : \A d \in Known : p <= scopes[d].prio) - 1

\* Added, or restored with the scope it had.
Record(w) ==
    LET d == job[w].doc
    IN  /\ On(w, "record")
        /\ docs' = [docs EXCEPT ![d] = [born |-> IF d \in Known THEN @.born ELSE Cardinality(Known) + 1,
                                        available |-> TRUE]]
        /\ scopes' = IF d \in Known THEN scopes ELSE [scopes EXCEPT ![d] = [DefaultScope EXCEPT !.prio = OnTop]]
        /\ Go(w, NoJob)
        /\ UNCHANGED <<files, crossed, edits>>

-----------------------------------------------------------------------------
(* DELETE /notes/<id>/file: the file goes when the row has been committed.    *)

MarkRemoved(w, d) ==
    /\ Ask(w)
    /\ d \in Available
    /\ crossed' = IF Uploading(d) THEN crossed \union {d} ELSE crossed
    /\ docs' = [docs EXCEPT ![d].available = FALSE]
    /\ Go(w, [pc |-> "delete", doc |-> d])
    /\ UNCHANGED <<files, scopes>>

\* A file that can't be deleted is left where it is.
DeleteFile(w) ==
    /\ On(w, "delete")
    /\ files' \in {files, files \ {job[w].doc}}
    /\ Go(w, NoJob)
    /\ UNCHANGED <<docs, scopes, crossed, edits>>

-----------------------------------------------------------------------------
(* PATCH /notes/<id>.                                                         *)

\* The fields a request may name: the card's checkboxes, or one or both ends of
\* its page range.  The others keep their values.
Patches(d) == [{"kinds"} -> SUBSET Kinds]
                  \union UNION {[ends -> 1..PageCount[d]] : ends \in (SUBSET {"from", "to"}) \ {{}}}

Patched(scope, patch) == [field \in DOMAIN scope |-> IF field \in DOMAIN patch THEN patch[field] ELSE scope[field]]

\* A range that is out of order is refused; "to the end" is stored as none.
ValidRange(d, scope) == 1 <= scope.from /\ scope.from <= LastPage(d, scope) /\ LastPage(d, scope) <= PageCount[d]

Normalized(d, scope) == IF scope.to = PageCount[d] THEN [scope EXCEPT !.to = 0] ELSE scope

LoadScope(w, d) ==
    /\ Ask(w)
    /\ d \in Known
    /\ \E patch \in Patches(d) :
          LET scope == Patched(scopes[d], patch)
          IN  /\ ValidRange(d, scope) /\ scope # scopes[d]
              /\ Go(w, [pc |-> "save scope", doc |-> d, fields |-> DOMAIN patch, scope |-> Normalized(d, scope)])
    /\ UNCHANGED <<docs, files, scopes, crossed>>

\* Mutant: only the fields of the request are written (update_fields).
SaveScope_OnlyNamed(w) ==
    LET r == job[w]
    IN  /\ On(w, "save scope")
        /\ scopes' = [scopes EXCEPT ![r.doc] = [field \in DOMAIN @ |-> IF field \in r.fields THEN r.scope[field] ELSE @[field]]]
        /\ Go(w, NoJob)
        /\ UNCHANGED <<docs, files, crossed, edits>>

\* Every column is written, with the values that were loaded.
SaveScope(w) ==
    /\ On(w, "save scope")
    /\ scopes' = [scopes EXCEPT ![job[w].doc] = job[w].scope]
    /\ Go(w, NoJob)
    /\ UNCHANGED <<docs, files, crossed, edits>>

-----------------------------------------------------------------------------
(* PUT /notes/<id>/position.                                                  *)

\* Mutant: a position past the end is taken as it is.
MovedTo_Unclamped(d, position) ==
    LET rest == Available \ {d}
    IN  [x \in Available |->
            IF x = d THEN position ELSE Index(x, rest) + (IF Index(x, rest) >= position THEN 1 ELSE 0)]

\* The stored PDFs in order, with d taken out and put in at a position.
MovedTo(d, position) ==
    LET rest == Available \ {d}
        at   == IF position < Cardinality(rest) THEN position ELSE Cardinality(rest)
    IN  [x \in Available |->
            IF x = d THEN at ELSE Index(x, rest) + (IF Index(x, rest) >= at THEN 1 ELSE 0)]

LoadOrder(w, d) ==
    /\ Ask(w)
    /\ d \in Available
    /\ \E position \in 0..(Cardinality(Docs) - 1) :
          /\ position # Index(d, Available)
          /\ Go(w, [pc |-> "renumber", order |-> MovedTo(d, position)])
    /\ UNCHANGED <<docs, files, scopes, crossed>>

Renumber(w) ==
    LET order == job[w].order
    IN  /\ On(w, "renumber")
        /\ scopes' = [d \in Docs |-> IF d \in DOMAIN order THEN [scopes[d] EXCEPT !.prio = order[d]] ELSE scopes[d]]
        /\ Go(w, NoJob)
        /\ UNCHANGED <<docs, files, crossed, edits>>

-----------------------------------------------------------------------------

\* A worker is killed between two commits.
Kill(w) == ~On(w, "idle") /\ Go(w, NoJob) /\ UNCHANGED <<docs, files, scopes, crossed, edits>>

Serve(w) == Store(w) \/ Record(w) \/ DeleteFile(w) \/ SaveScope(w) \/ Renumber(w)

Edit(w) == \E d \in Docs : Stage(w, d) \/ MarkRemoved(w, d) \/ LoadScope(w, d) \/ LoadOrder(w, d)

NotesNext == \E w \in Workers : Serve(w) \/ Edit(w) \/ Kill(w)

NotesSpec == NotesInit /\ [][NotesNext]_notesVars

-----------------------------------------------------------------------------
(* Properties.                                                                *)

Pages  == UNION {1..PageCount[d] : d \in Docs}
Scopes == [kinds : SUBSET Kinds, from : Pages, to : Pages \union {0}, prio : Int]
Jobs ==
    {NoJob}
        \union [pc : {"store", "record", "delete"}, doc : Docs]
        \union [pc : {"save scope"}, doc : Docs, fields : SUBSET {"kinds", "from", "to"}, scope : Scopes]
        \union [pc : {"renumber"}, order : UNION {[some -> 0..(Cardinality(some) - 1)] : some \in SUBSET Docs}]

NotesTypeOK ==
    /\ docs \in [Docs -> [born : Nat, available : BOOLEAN]]
    /\ files \subseteq Docs
    /\ scopes \in [Docs -> Scopes]
    /\ job \in [Workers -> Jobs]
    /\ crossed \subseteq Docs
    /\ edits \in 0..MaxEdits

\* A PDF that is offered to the pipeline is in storage (models.py: available is
\* true while the PDF is stored), whichever steps of uploads and removals fail
\* or are killed.  The one exception is a PDF that was removed while an upload of
\* it was under way, or uploaded while its file was being deleted.
AvailableIsStored == Available \ crossed \subseteq files

\* Two requests that change one end of the range each never leave a range that
\* neither would have been allowed to save (update_scope).
RangesStayValid == \A d \in Docs : ValidRange(d, scopes[d])
=============================================================================
