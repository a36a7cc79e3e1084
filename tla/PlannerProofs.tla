---------------------------- MODULE PlannerProofs ----------------------------
(* The PDFs, their scopes and the choice of a runner's next task, for any       *)
(* number of PDFs, pages, requests and claims.                                  *)
EXTENDS Planner, FiniteSetTheorems, WellFoundedInduction, TLAPS

-----------------------------------------------------------------------------
(* Requests in flight.                                                          *)

FileJobs == [pc : {"store", "record", "delete"}, doc : Docs]

\* A scope with any priority.
IsScope(s) == s \in [kinds : SUBSET Kinds, from : Nat, to : Nat, prio : {s.prio}]

Fits(r) ==
    /\ r.pc \in {"store", "record", "delete"} => r \in FileJobs
    /\ r.pc = "save scope" => r.doc \in Docs /\ IsScope(r.scope) /\ ValidRange(r.doc, r.scope)

Rows == /\ docs \in [Docs -> [born : Nat, available : BOOLEAN]]
        /\ \A d \in Docs : IsScope(scopes[d]) /\ ValidRange(d, scopes[d])
        /\ scopes = [d \in Docs |-> scopes[d]]
        /\ job = [w \in Workers |-> job[w]]
        /\ \A w \in Workers : Fits(job[w])

LEMMA GoOne ==
  ASSUME job = [w \in Workers |-> job[w]], NEW w \in Workers, NEW r, Go(w, r)
  PROVE  /\ job'[w] = r /\ \A o \in Workers \ {w} : job'[o] = job[o]
         /\ job' = [o \in Workers |-> job'[o]]
  BY DEF Go

LEMMA GoRows ==
  ASSUME Rows, NEW w \in Workers, NEW r, Fits(r), Go(w, r)
  PROVE  job' = [o \in Workers |-> job'[o]] /\ \A o \in Workers : Fits(job'[o])
<1>1. /\ job'[w] = r /\ \A o \in Workers \ {w} : job'[o] = job[o]
      /\ job' = [o \in Workers |-> job'[o]]
  BY GoOne DEF Rows
<1> QED
  BY <1>1 DEF Rows

LEMMA NoJobFits == Fits(NoJob)
  BY DEF NoJob, Fits

LEMMA DefaultIsValid ==
  ASSUME NEW d \in Docs, NEW prio, NEW s, s = [DefaultScope EXCEPT !.prio = prio]
  PROVE  IsScope(s) /\ ValidRange(d, s)
<1>1. s = [kinds |-> Kinds, from |-> 1, to |-> 0, prio |-> prio]
  BY DEF DefaultScope
<1>2. PageCount[d] \in Nat /\ PageCount[d] # 0
  BY NotesAssumption
<1>3. IsScope(s)
  <2>1. Kinds \in SUBSET Kinds /\ 1 \in Nat /\ 0 \in Nat /\ s.prio = prio
    BY <1>1
  <2>2. \A kinds \in SUBSET Kinds, from, to \in Nat :
           [kinds |-> kinds, from |-> from, to |-> to, prio |-> prio]
              \in [kinds : SUBSET Kinds, from : Nat, to : Nat, prio : {prio}]
    OBVIOUS
  <2>3. s \in [kinds : SUBSET Kinds, from : Nat, to : Nat, prio : {prio}]
    <3>1. [kinds |-> Kinds, from |-> 1, to |-> 0, prio |-> prio]
            \in [kinds : SUBSET Kinds, from : Nat, to : Nat, prio : {prio}]
      BY <2>1, <2>2
    <3> QED
      BY <1>1, <3>1
  <2> QED
    BY <2>1, <2>3, Zenon DEF IsScope
<1>4. s.from = 1 /\ s.to = 0
  BY <1>1
<1>5. LastPage(d, s) = PageCount[d]
  BY <1>4 DEF LastPage
<1> QED
  BY <1>2, <1>3, <1>4, <1>5 DEF ValidRange

LEMMA SameRangeIsValid ==
  ASSUME NEW d \in Docs, NEW s, IsScope(s), ValidRange(d, s), NEW prio, NEW u, u = [s EXCEPT !.prio = prio]
  PROVE  IsScope(u) /\ ValidRange(d, u)
<1>1. u = [kinds |-> s.kinds, from |-> s.from, to |-> s.to, prio |-> prio]
  BY DEF IsScope
<1>2. s.kinds \in SUBSET Kinds /\ s.from \in Nat /\ s.to \in Nat
  BY DEF IsScope
<1> QED
  BY <1>1, <1>2 DEF IsScope, ValidRange, LastPage

\* update_scope: what is saved is what was found valid, "through the end" as none.
LEMMA PatchedIsValid ==
  ASSUME NEW d \in Docs, NEW s, IsScope(s), NEW patch \in Patches(d),
         ValidRange(d, Patched(s, patch)), NEW u, u = Normalized(d, Patched(s, patch))
  PROVE  IsScope(u) /\ ValidRange(d, u)
<1> DEFINE p == Patched(s, patch)
<1>1. PageCount[d] \in Nat \ {0}
  BY NotesAssumption
<1>2. IsScope(p)
  <2>1. DOMAIN s = {"kinds", "from", "to", "prio"}
    BY DEF IsScope
  <2>2. p = [field \in {"kinds", "from", "to", "prio"} |->
               IF field \in DOMAIN patch THEN patch[field] ELSE s[field]]
    BY <2>1 DEF Patched
  <2> HIDE DEF p
  <2>3. p = [kinds |-> p.kinds, from |-> p.from, to |-> p.to, prio |-> p.prio]
    BY <2>2
  <2>4. /\ "kinds" \in DOMAIN patch => patch["kinds"] \in SUBSET Kinds
        /\ "from" \in DOMAIN patch => patch["from"] \in 1..PageCount[d]
        /\ "to" \in DOMAIN patch => patch["to"] \in 1..PageCount[d]
    <3>1. CASE patch \in [{"kinds"} -> SUBSET Kinds]
      BY <3>1
    <3>2. CASE \E ends \in (SUBSET {"from", "to"}) \ {{}} : patch \in [ends -> 1..PageCount[d]]
      BY <3>2
    <3> QED
      BY <3>1, <3>2 DEF Patches
  <2>5. /\ p["kinds"] = (IF "kinds" \in DOMAIN patch THEN patch["kinds"] ELSE s["kinds"])
        /\ p["from"] = (IF "from" \in DOMAIN patch THEN patch["from"] ELSE s["from"])
        /\ p["to"] = (IF "to" \in DOMAIN patch THEN patch["to"] ELSE s["to"])
    BY <2>2
  <2>6. s["kinds"] \in SUBSET Kinds /\ s["from"] \in Nat /\ s["to"] \in Nat
    BY DEF IsScope
  <2>7. p["kinds"] \in SUBSET Kinds /\ p["from"] \in Nat /\ p["to"] \in Nat
    BY <1>1, <2>4, <2>5, <2>6
  <2> QED
    BY <2>3, <2>7 DEF IsScope
<1>3. u = [kinds |-> p.kinds, from |-> p.from, to |-> IF p.to = PageCount[d] THEN 0 ELSE p.to, prio |-> p.prio]
  BY <1>2 DEF IsScope, Normalized
<1> QED
  BY <1>1, <1>2, <1>3 DEF IsScope, ValidRange, LastPage

LEMMA RowsParts ==
  ASSUME Rows
  PROVE  /\ \A w \in Workers : job[w].pc \in {"store", "record", "delete"} => job[w] \in FileJobs
         /\ \A w \in Workers : job[w].pc = "save scope"
               => job[w].doc \in Docs /\ IsScope(job[w].scope) /\ ValidRange(job[w].doc, job[w].scope)
  BY DEF Rows, Fits

\* A request goes on and the rows stay as they are.
LEMMA GoKeeps ==
  ASSUME Rows, NEW w \in Workers, NEW r, Fits(r), Go(w, r), UNCHANGED <<docs, scopes>>
  PROVE  Rows'
  BY GoRows DEF Rows

LEMMA RecordRows ==
  ASSUME Rows, NEW w \in Workers, Record(w) PROVE Rows'
<1> DEFINE d == job[w].doc
<1>1. /\ On(w, "record") /\ Go(w, NoJob)
      /\ docs' = [docs EXCEPT ![d] = [born |-> IF d \in Known THEN @.born ELSE Cardinality(Known) + 1,
                                      available |-> TRUE]]
      /\ scopes' = IF d \in Known THEN scopes ELSE [scopes EXCEPT ![d] = [DefaultScope EXCEPT !.prio = OnTop]]
  BY DEF Record
<1>2. d \in Docs
  BY <1>1, RowsParts DEF On, FileJobs
<1>3. Cardinality(Known) \in Nat
  BY NotesAssumption, FS_Subset, FS_CardinalityType DEF Known
<1>4. docs \in [Docs -> [born : Nat, available : BOOLEAN]]
  BY DEF Rows
<1> HIDE DEF d
<1>5. docs' \in [Docs -> [born : Nat, available : BOOLEAN]]
  BY <1>1, <1>2, <1>3, <1>4
<1>6. \A e \in Docs : scopes'[e] = scopes[e] \/ scopes'[e] = [DefaultScope EXCEPT !.prio = OnTop]
  BY <1>1, <1>2 DEF Rows
<1>7. \A e \in Docs : IsScope(scopes'[e]) /\ ValidRange(e, scopes'[e])
  BY <1>6, DefaultIsValid DEF Rows
<1>8. scopes' = [e \in Docs |-> scopes'[e]]
  BY <1>1, <1>2 DEF Rows
<1> QED
  BY <1>1, <1>5, <1>7, <1>8, GoRows, NoJobFits DEF Rows

LEMMA NotesRows ==
  ASSUME Rows, NotesNext PROVE Rows'
<1>1. ASSUME NEW w \in Workers, NEW r, Go(w, r), r \in FileJobs, UNCHANGED <<docs, scopes>> PROVE Rows'
  <2>1. Fits(r)
    BY <1>1 DEF FileJobs, Fits
  <2> QED
    BY <1>1, <2>1, GoKeeps
<1>2. ASSUME NEW w \in Workers, NEW d \in Docs, Stage(w, d) PROVE Rows'
  BY <1>1, <1>2 DEF Stage, FileJobs
<1>3. ASSUME NEW w \in Workers, Store(w) PROVE Rows'
  <2>1. /\ job[w] \in FileJobs /\ Go(w, [job[w] EXCEPT !.pc = "record"]) /\ UNCHANGED <<docs, scopes>>
    BY <1>3, RowsParts DEF Store, On
  <2>2. [job[w] EXCEPT !.pc = "record"] \in FileJobs
    BY <2>1 DEF FileJobs
  <2> QED
    BY <1>1, <2>1, <2>2
<1>4. ASSUME NEW w \in Workers, Record(w) PROVE Rows'
  BY <1>4, RecordRows
<1>5. ASSUME NEW w \in Workers, NEW d \in Docs, MarkRemoved(w, d) PROVE Rows'
  <2>1. /\ docs' = [docs EXCEPT ![d].available = FALSE] /\ UNCHANGED scopes
        /\ Go(w, [pc |-> "delete", doc |-> d])
    BY <1>5 DEF MarkRemoved
  <2>2. docs' \in [Docs -> [born : Nat, available : BOOLEAN]]
    BY <2>1 DEF Rows
  <2>3. Fits([pc |-> "delete", doc |-> d])
    BY DEF Fits, FileJobs
  <2> QED
    BY <2>1, <2>2, <2>3, GoRows DEF Rows
<1>6. ASSUME NEW w \in Workers, DeleteFile(w) \/ Kill(w) PROVE Rows'
  BY <1>6, GoKeeps, NoJobFits DEF DeleteFile, Kill
<1>7. ASSUME NEW w \in Workers, NEW d \in Docs, LoadScope(w, d) PROVE Rows'
  <2>1. PICK patch \in Patches(d) :
          /\ ValidRange(d, Patched(scopes[d], patch))
          /\ Go(w, [pc |-> "save scope", doc |-> d, fields |-> DOMAIN patch,
                    scope |-> Normalized(d, Patched(scopes[d], patch))])
    BY <1>7 DEF LoadScope
  <2> DEFINE u == Normalized(d, Patched(scopes[d], patch))
             r == [pc |-> "save scope", doc |-> d, fields |-> DOMAIN patch, scope |-> u]
  <2>2. IsScope(u) /\ ValidRange(d, u)
    BY <2>1, PatchedIsValid DEF Rows
  <2> HIDE DEF u
  <2>3. Fits(r)
    BY <2>2 DEF Fits
  <2>4. Go(w, r) /\ UNCHANGED <<docs, scopes>>
    BY <1>7, <2>1 DEF LoadScope, u
  <2> QED
    BY <2>3, <2>4, GoKeeps
<1>8. ASSUME NEW w \in Workers, SaveScope(w) PROVE Rows'
  <2>1. /\ scopes' = [scopes EXCEPT ![job[w].doc] = job[w].scope] /\ Go(w, NoJob) /\ UNCHANGED docs
        /\ IsScope(job[w].scope) /\ ValidRange(job[w].doc, job[w].scope) /\ job[w].doc \in Docs
    BY <1>8, RowsParts DEF SaveScope, On
  <2>2. \A e \in Docs : scopes'[e] = scopes[e] \/ (e = job[w].doc /\ scopes'[e] = job[w].scope)
    BY <2>1 DEF Rows
  <2>3. scopes' = [e \in Docs |-> scopes'[e]]
    BY <2>1 DEF Rows
  <2> QED
    BY <2>1, <2>2, <2>3, GoRows, NoJobFits DEF Rows
<1>9. ASSUME NEW w \in Workers, NEW d \in Docs, LoadOrder(w, d) PROVE Rows'
  <2>1. PICK position \in 0..(Cardinality(Docs) - 1) : Go(w, [pc |-> "renumber", order |-> MovedTo(d, position)])
    BY <1>9 DEF LoadOrder
  <2>2. Fits([pc |-> "renumber", order |-> MovedTo(d, position)])
    BY DEF Fits
  <2> QED
    BY <1>9, <2>1, <2>2, GoKeeps DEF LoadOrder
<1>10. ASSUME NEW w \in Workers, Renumber(w) PROVE Rows'
  <2> DEFINE order == job[w].order
  <2>1. /\ scopes' = [d \in Docs |-> IF d \in DOMAIN order THEN [scopes[d] EXCEPT !.prio = order[d]] ELSE scopes[d]]
        /\ Go(w, NoJob) /\ UNCHANGED docs
    BY <1>10 DEF Renumber
  <2> HIDE DEF order
  <2>2. \A e \in Docs : IsScope(scopes'[e]) /\ ValidRange(e, scopes'[e])
    BY <2>1, SameRangeIsValid DEF Rows
  <2>3. scopes' = [e \in Docs |-> scopes'[e]]
    BY <2>1
  <2> QED
    BY <2>1, <2>2, <2>3, GoRows, NoJobFits DEF Rows
<1> QED
  BY <1>2, <1>3, <1>4, <1>5, <1>6, <1>7, <1>8, <1>9, <1>10 DEF NotesNext, Serve, Edit

LEMMA RowsInvariant == Spec => []Rows
<1>1. Init => Rows
  <2> SUFFICES ASSUME Init PROVE Rows
    OBVIOUS
  <2>1. docs \in [Docs -> [born : Nat, available : BOOLEAN]]
    <3>1. \A d \in Docs : Cardinality({x \in Stored : x <= d}) \in Nat
      BY NotesAssumption, FS_Subset, FS_CardinalityType
    <3> QED
      BY <3>1 DEF Init, NotesInit
  <2>2. \A d \in Docs : IsScope(DefaultScope) /\ ValidRange(d, DefaultScope)
    <3>1. DefaultScope = [DefaultScope EXCEPT !.prio = 0]
      BY DEF DefaultScope
    <3> QED
      BY <3>1, DefaultIsValid
  <2> QED
    BY <2>1, <2>2, NoJobFits DEF Init, NotesInit, Rows
<1>2. Rows /\ [Next]_vars => Rows'
  <2> SUFFICES ASSUME Rows, [Next]_vars PROVE Rows'
    OBVIOUS
  <2>1. CASE NotesStep
    BY <2>1, NotesRows DEF NotesStep
  <2>2. CASE UNCHANGED notesVars
    BY <2>2 DEF notesVars, Rows
  <2> QED
    BY <2>1, <2>2 DEF Next, Claiming, LoadDocs, PickWaiting, PickChunk, PickWindow, GiveReason, Serialize, Take,
         Create, Killed, Work, ReadPages, Complete, Fail, Lapse, Retry, SetTask, vars
<1> QED
  BY <1>1, <1>2, PTL DEF Spec

\* No interleaving of changes of scope leaves a page range that could not have been
\* saved (update_scope): each request writes every column it has checked.
THEOREM RangesAreKept == Spec => []RangesStayValid
<1>1. Rows => RangesStayValid
  BY DEF Rows, RangesStayValid
<1> QED
  BY <1>1, RowsInvariant, PTL

-----------------------------------------------------------------------------
(* Storage.  A removal commits its row before it deletes the file, an upload    *)
(* stores its file before it commits its row; neither order alone is enough     *)
(* when they overlap on one PDF, which is crossed then.                         *)

Apart ==
    \A v, w \in Workers :
        On(v, "delete") /\ job[w].pc \in {"store", "record"} /\ job[v].doc = job[w].doc => job[v].doc \in crossed

StoredFirst == \A w \in Workers : On(w, "record") => job[w].doc \in files \union crossed

RemovedFirst == \A w \in Workers : On(w, "delete") => job[w].doc \notin Available \ crossed

Storage == AvailableIsStored /\ Apart /\ StoredFirst /\ RemovedFirst

LEMMA StorageStep ==
  ASSUME Rows, Storage, NotesNext PROVE Storage'
<1> USE DEF Storage, AvailableIsStored, Apart, StoredFirst, RemovedFirst, On
<1>0. Available \subseteq Docs
  BY DEF Available, Known
<1>1. ASSUME NEW w \in Workers, NEW r, Go(w, r) PROVE job'[w] = r /\ \A o \in Workers \ {w} : job'[o] = job[o]
  BY <1>1, GoOne DEF Rows
<1>2. UNCHANGED docs => Available' = Available
  BY DEF Available, Known
<1>3. ASSUME NEW w \in Workers, NEW d \in Docs, Stage(w, d) PROVE Storage'
  <2>1. /\ job'[w] = [pc |-> "store", doc |-> d] /\ \A o \in Workers \ {w} : job'[o] = job[o]
        /\ UNCHANGED files /\ Available' = Available /\ d \notin Available
        /\ crossed' = IF Deleting(d) THEN crossed \union {d} ELSE IF Uploading(d) THEN crossed ELSE crossed \ {d}
    BY <1>1, <1>2, <1>3 DEF Stage
  <2>2. \A e \in crossed : e \in crossed' \/ (e = d /\ ~Deleting(d) /\ ~Uploading(d))
    BY <2>1
  <2>3. AvailableIsStored' /\ RemovedFirst' /\ Apart'
    BY <2>1, <2>2 DEF Deleting
  <2>4. StoredFirst'
    BY <2>1, <2>2 DEF Uploading
  <2> QED
    BY <2>3, <2>4
<1>4. ASSUME NEW w \in Workers, Store(w) PROVE Storage'
  <2>1. /\ job'[w] = [job[w] EXCEPT !.pc = "record"] /\ \A o \in Workers \ {w} : job'[o] = job[o]
        /\ UNCHANGED <<docs, crossed>> /\ files' = files \union {job[w].doc} /\ job[w] \in FileJobs /\ job[w].pc = "store"
    BY <1>1, <1>4, RowsParts DEF Store
  <2>2. job'[w].pc = "record" /\ job'[w].doc = job[w].doc
    BY <2>1 DEF FileJobs
  <2>3. \A o \in Workers : /\ job'[o].pc = "delete" => o # w
                           /\ job'[o].pc \in {"store", "record"} => job[o].pc \in {"store", "record"}
                           /\ job'[o].doc = job[o].doc
    BY <2>1, <2>2
  <2>4. Apart' /\ RemovedFirst'
    BY <1>2, <2>1, <2>3
  <2>5. AvailableIsStored' /\ StoredFirst'
    BY <1>2, <2>1, <2>2
  <2> QED
    BY <2>4, <2>5
<1>5. ASSUME NEW w \in Workers, Record(w) PROVE Storage'
  <2>1. /\ job'[w] = NoJob /\ \A o \in Workers \ {w} : job'[o] = job[o]
        /\ UNCHANGED <<files, crossed>> /\ On(w, "record") /\ job[w] \in FileJobs
    BY <1>1, <1>5, RowsParts DEF Record
  <2>2. Available' \subseteq Available \union {job[w].doc}
    <3>1. \A d \in Docs \ {job[w].doc} : docs'[d] = docs[d]
      BY <1>5 DEF Record, Rows
    <3> QED
      BY <3>1 DEF Available, Known
  <2>3. NoJob.pc = "idle"
    BY DEF NoJob
  <2> QED
    BY <2>1, <2>2, <2>3
<1>6. ASSUME NEW w \in Workers, NEW d \in Docs, MarkRemoved(w, d) PROVE Storage'
  <2>1. /\ job'[w] = [pc |-> "delete", doc |-> d] /\ \A o \in Workers \ {w} : job'[o] = job[o]
        /\ UNCHANGED files /\ docs' = [docs EXCEPT ![d].available = FALSE]
        /\ crossed' = IF Uploading(d) THEN crossed \union {d} ELSE crossed
    BY <1>1, <1>6 DEF MarkRemoved
  <2>2. Available' = Available \ {d}
    <3>1. docs \in [Docs -> [born : Nat, available : BOOLEAN]]
      BY DEF Rows
    <3>2. /\ \A e \in Docs \ {d} : docs'[e] = docs[e]
          /\ docs'[d].available = FALSE
      BY <2>1, <3>1
    <3> QED
      BY <3>2 DEF Available, Known
  <2>3. AvailableIsStored' /\ StoredFirst' /\ RemovedFirst'
    BY <2>1, <2>2
  <2>4. Apart'
    <3> SUFFICES ASSUME NEW v \in Workers, NEW u \in Workers, job'[v].pc = "delete",
                        job'[u].pc \in {"store", "record"}, job'[v].doc = job'[u].doc
                 PROVE  job'[v].doc \in crossed'
      OBVIOUS
    <3>1. u # w /\ job'[u] = job[u]
      BY <2>1
    <3>2. CASE v = w
      BY <2>1, <3>1, <3>2 DEF Uploading
    <3>3. CASE v # w
      BY <2>1, <3>1, <3>3
    <3> QED
      BY <3>2, <3>3
  <2> QED
    BY <2>3, <2>4
<1>7. ASSUME NEW w \in Workers, DeleteFile(w) PROVE Storage'
  <2>1. /\ job'[w] = NoJob /\ \A o \in Workers \ {w} : job'[o] = job[o]
        /\ UNCHANGED <<docs, crossed>> /\ files \ {job[w].doc} \subseteq files' /\ On(w, "delete")
    BY <1>1, <1>7 DEF DeleteFile
  <2>2. NoJob.pc = "idle"
    BY DEF NoJob
  <2> QED
    BY <1>2, <2>1, <2>2
<1>8. ASSUME NEW w \in Workers, NEW r, Go(w, r), r.pc \notin {"store", "record", "delete"}, UNCHANGED <<docs, files, crossed>>
      PROVE  Storage'
  BY <1>1, <1>2, <1>8
<1>9. ASSUME NEW w \in Workers, Kill(w) \/ SaveScope(w) \/ Renumber(w) PROVE Storage'
  BY <1>8, <1>9 DEF Kill, SaveScope, Renumber, NoJob
<1>10. ASSUME NEW w \in Workers, NEW d \in Docs, LoadScope(w, d) \/ LoadOrder(w, d) PROVE Storage'
  BY <1>8, <1>10 DEF LoadScope, LoadOrder
<1> QED
  BY <1>3, <1>4, <1>5, <1>6, <1>7, <1>9, <1>10 DEF NotesNext, Serve, Edit

\* A PDF offered to the pipeline is in storage (uploads.py), through kills and files
\* that can't be deleted, unless a removal has overlapped an upload of it.
THEOREM AvailableMeansStored == Spec => []AvailableIsStored
<1>1. Init => Storage
  BY DEF Init, NotesInit, Storage, AvailableIsStored, Available, Known, Apart, StoredFirst, RemovedFirst, On, NoJob
<1>2. Rows /\ Storage /\ [Next]_vars => Storage'
  <2> SUFFICES ASSUME Rows, Storage, [Next]_vars PROVE Storage'
    OBVIOUS
  <2>1. CASE NotesStep
    BY <2>1, StorageStep DEF NotesStep
  <2>2. CASE UNCHANGED notesVars
    BY <2>2 DEF notesVars, Storage, AvailableIsStored, Available, Known, Apart, StoredFirst, RemovedFirst, On
  <2> QED
    BY <2>1, <2>2 DEF Next, Claiming, LoadDocs, PickWaiting, PickChunk, PickWindow, GiveReason, Serialize, Take,
         Create, Killed, Work, ReadPages, Complete, Fail, Lapse, Retry, SetTask, vars
<1>3. Storage => AvailableIsStored
  BY DEF Storage
<1> QED
  BY <1>1, <1>2, <1>3, RowsInvariant, PTL DEF Spec

-----------------------------------------------------------------------------
(* Claims.  What keeps a task for the claim that has chosen it is the lock on   *)
(* its row, and skip_locked keeps the locked rows of two claims apart.          *)

IsClaim(c) == c \in [pc : {c.pc}, snap : {c.snap}, held : {c.held}, serial : {c.serial}, plan : {c.plan}]

Shapes == /\ claim = [r \in Claimers |-> claim[r]]
          /\ \A r \in Claimers : IsClaim(claim[r])
          /\ \A t \in DOMAIN tasks : t = <<t[1], t[2]>> /\ t[1] \in DOMAIN chunks

Locks == /\ \A r \in Claimers : claim[r].held \subseteq DOMAIN tasks
         /\ \A r, o \in Claimers : r # o => claim[r].held \cap claim[o].held = {}

Chosen == \A r \in Claimers : OnStep(r, "take") =>
              <<claim[r].plan[2], KindOf[r]>> \in claim[r].held /\ Waiting(<<claim[r].plan[2], KindOf[r]>>)

Planned == \A r \in Claimers : OnStep(r, "create") => claim[r].plan[1] = "window" \/ claim[r].plan[2] \in DOMAIN chunks

Claims == Shapes /\ Locks /\ Chosen /\ Planned

LEMMA NoClaimFacts == IsClaim(NoClaim) /\ NoClaim.pc = "idle" /\ NoClaim.held = {}
  BY DEF NoClaim, IsClaim

LEMMA SetOne ==
  ASSUME Shapes, NEW r \in Claimers, NEW c, Set(r, c)
  PROVE  /\ claim'[r] = c /\ \A o \in Claimers \ {r} : claim'[o] = claim[o]
         /\ claim' = [o \in Claimers |-> claim'[o]]
  BY DEF Shapes, Set

\* A claim goes on, holding what it held or what nobody else holds.
LEMMA ClaimGoes ==
  ASSUME Claims, NEW r \in Claimers, NEW c, IsClaim(c), Set(r, c), UNCHANGED workVars,
         c.held \subseteq DOMAIN tasks, c.held \cap LockedByOthers(r) = {},
         c.pc = "take" => <<c.plan[2], KindOf[r]>> \in c.held /\ Waiting(<<c.plan[2], KindOf[r]>>),
         c.pc = "create" => c.plan[1] = "window" \/ c.plan[2] \in DOMAIN chunks
  PROVE  Claims'
<1>1. /\ claim'[r] = c /\ \A o \in Claimers \ {r} : claim'[o] = claim[o]
      /\ claim' = [o \in Claimers |-> claim'[o]] /\ UNCHANGED <<chunks, tasks>>
  BY SetOne DEF Claims, workVars
<1>2. Shapes'
  BY <1>1 DEF Claims, Shapes
<1>3. Locks'
  <2>1. \A o \in Claimers \ {r} : c.held \cap claim[o].held = {}
    BY DEF LockedByOthers
  <2> QED
    BY <1>1, <2>1 DEF Claims, Locks
<1>4. Chosen'
  BY <1>1 DEF Claims, Chosen, OnStep, Waiting
<1>5. Planned'
  BY <1>1 DEF Claims, Planned, OnStep
<1> QED
  BY <1>2, <1>3, <1>4, <1>5 DEF Claims

LEMMA OwnLocks ==
  ASSUME Claims, NEW r \in Claimers
  PROVE  claim[r].held \subseteq DOMAIN tasks /\ claim[r].held \cap LockedByOthers(r) = {}
  BY DEF Claims, Locks, LockedByOthers

\* It goes on with the rows it holds.
LEMMA ClaimMoves ==
  ASSUME Claims, NEW r \in Claimers, NEW c, IsClaim(c), Set(r, c), UNCHANGED workVars,
         c.held \in {{}, claim[r].held}, c.pc # "take",
         c.pc = "create" => c.plan[1] = "window" \/ c.plan[2] \in DOMAIN chunks
  PROVE  Claims'
<1>1. c.held \subseteq DOMAIN tasks /\ c.held \cap LockedByOthers(r) = {}
  BY OwnLocks
<1> QED
  BY <1>1, ClaimGoes

LEMMA WaitingPicked ==
  ASSUME Claims, NEW r \in Claimers, PickWaiting(r) PROVE Claims'
<1> DEFINE rows   == {t \in DOMAIN tasks \ LockedByOthers(r) :
                         t[2] = KindOf[r] /\ Waiting(t) /\ t[1].doc \in DOMAIN Snap(r)}
           usable == {t[1] : t \in {x \in rows : InRange(r, x[1])}}
           locked == [claim[r] EXCEPT !.held = @ \union rows]
<1>1. /\ \/ usable = {} /\ Set(r, [locked EXCEPT !.pc = "chunks"])
         \/ \E c \in FirstOf(r, usable) : Set(r, [locked EXCEPT !.pc = "take", !.plan = <<"task", c>>])
      /\ UNCHANGED workVars
  BY DEF PickWaiting
<1>2. rows \subseteq DOMAIN tasks /\ rows \cap LockedByOthers(r) = {}
  OBVIOUS
<1>3. \A c \in usable : <<c, KindOf[r]>> \in rows /\ Waiting(<<c, KindOf[r]>>)
  <2> SUFFICES ASSUME NEW c \in usable PROVE <<c, KindOf[r]>> \in rows /\ Waiting(<<c, KindOf[r]>>)
    OBVIOUS
  <2>1. PICK x \in rows : c = x[1]
    OBVIOUS
  <2>2. x = <<x[1], x[2]>> /\ x[2] = KindOf[r] /\ Waiting(x)
    BY DEF Claims, Shapes
  <2> QED
    BY <2>1, <2>2
<1>4. FirstOf(r, usable) \subseteq usable
  BY DEF FirstOf
<1>5. IsClaim(claim[r]) /\ claim[r].held \subseteq DOMAIN tasks /\ claim[r].held \cap LockedByOthers(r) = {}
  BY OwnLocks DEF Claims, Shapes
<1>6. (claim[r].held \union rows) \subseteq DOMAIN tasks /\ (claim[r].held \union rows) \cap LockedByOthers(r) = {}
  BY <1>2, <1>5
<1> HIDE DEF rows, usable
<1>7. CASE Set(r, [locked EXCEPT !.pc = "chunks"])
  <2> DEFINE c == [locked EXCEPT !.pc = "chunks"]
  <2>1. IsClaim(c) /\ c.pc = "chunks" /\ c.held = claim[r].held \union rows
    BY <1>5 DEF IsClaim
  <2> HIDE DEF c
  <2>2. Set(r, c)
    BY <1>7 DEF c
  <2> QED
    BY <1>1, <1>6, <2>1, <2>2, ClaimGoes
<1>8. ASSUME NEW chunk \in FirstOf(r, usable), Set(r, [locked EXCEPT !.pc = "take", !.plan = <<"task", chunk>>])
      PROVE  Claims'
  <2> DEFINE c == [locked EXCEPT !.pc = "take", !.plan = <<"task", chunk>>]
  <2>1. IsClaim(c) /\ c.pc = "take" /\ c.held = claim[r].held \union rows /\ c.plan[2] = chunk
    BY <1>5 DEF IsClaim
  <2> HIDE DEF c
  <2>2. Set(r, c)
    BY <1>8 DEF c
  <2>3. <<c.plan[2], KindOf[r]>> \in c.held /\ Waiting(<<c.plan[2], KindOf[r]>>)
    BY <1>3, <1>4, <2>1
  <2> QED
    BY <1>1, <1>6, <2>1, <2>2, <2>3, ClaimGoes
<1> QED
  BY <1>1, <1>7, <1>8

LEMMA OtherPicks ==
  ASSUME Claims, NEW r \in Claimers,
         LoadDocs(r) \/ PickChunk(r) \/ PickWindow(r) \/ GiveReason(r) \/ Serialize(r) \/ Killed(r)
  PROVE  Claims'
<1>1. IsClaim(claim[r])
  BY DEF Claims, Shapes
<1>2. UNCHANGED workVars
  BY DEF LoadDocs, PickChunk, PickWindow, GiveReason, Serialize, Killed
<1>3. CASE Set(r, NoClaim)
  BY <1>2, <1>3, NoClaimFacts, ClaimMoves
<1>4. CASE LoadDocs(r)
  <2> DEFINE snap == [d \in Eligible(KindOf[r]) |->
                        [from |-> scopes[d].from, last |-> LastPage(d, scopes[d]), place |-> Index(d, Available)]]
             c    == [claim[r] EXCEPT !.pc = "waiting", !.snap = snap]
  <2>1. Set(r, NoClaim) \/ Set(r, c)
    BY <1>4 DEF LoadDocs
  <2> HIDE DEF snap
  <2>2. IsClaim(c) /\ c.pc = "waiting" /\ c.held = claim[r].held
    BY <1>1 DEF IsClaim
  <2> HIDE DEF c
  <2> QED
    BY <1>2, <1>3, <2>1, <2>2, ClaimMoves
<1>5. ASSUME NEW pc \in {"chunks", "windows", "reason", "docs"}, NEW serial,
             Set(r, [claim[r] EXCEPT !.pc = pc, !.serial = serial])
      PROVE  Claims'
  <2> DEFINE c == [claim[r] EXCEPT !.pc = pc, !.serial = serial]
  <2>1. IsClaim(c) /\ c.pc = pc /\ c.held = claim[r].held
    BY <1>1 DEF IsClaim
  <2> HIDE DEF c
  <2>2. Set(r, c)
    BY <1>5 DEF c
  <2> QED
    BY <1>2, <2>1, <2>2, ClaimMoves
<1>6. ASSUME NEW pc \in {"windows", "reason"}, Set(r, [claim[r] EXCEPT !.pc = pc]) PROVE Claims'
  <2>1. [claim[r] EXCEPT !.pc = pc] = [claim[r] EXCEPT !.pc = pc, !.serial = claim[r].serial]
    BY <1>1 DEF IsClaim
  <2> QED
    BY <1>5, <1>6, <2>1
<1>7. ASSUME NEW what \in {"chunk", "window"}, NEW chunk, what = "window" \/ chunk \in DOMAIN chunks,
             Set(r, Plan(r, what, chunk))
      PROVE  Claims'
  <2> DEFINE pc == IF claim[r].serial THEN "create" ELSE "lock"
             c  == [claim[r] EXCEPT !.pc = pc, !.plan = <<what, chunk>>]
  <2>0. pc \in {"create", "lock"}
    OBVIOUS
  <2> HIDE DEF pc
  <2>1. IsClaim(c) /\ c.pc = pc /\ c.held = claim[r].held /\ c.plan[1] = what /\ c.plan[2] = chunk
    BY <1>1 DEF IsClaim
  <2> HIDE DEF c
  <2>2. Set(r, c)
    BY <1>7 DEF c, pc, Plan
  <2>3. c.pc = "create" => c.plan[1] = "window" \/ c.plan[2] \in DOMAIN chunks
    BY <1>7, <2>1
  <2> QED
    BY <1>2, <2>0, <2>1, <2>2, <2>3, ClaimMoves
<1>8. CASE PickChunk(r)
  <2> DEFINE open == {c \in DOMAIN chunks : /\ chunks[c] # "unreadable" /\ InRange(r, c)
                                            /\ <<c, KindOf[r]>> \notin DOMAIN tasks /\ ~BeingRead(c)}
  <2>1. Set(r, [claim[r] EXCEPT !.pc = "windows"]) \/ \E c \in FirstOf(r, open) : Set(r, Plan(r, "chunk", c))
    BY <1>8 DEF PickChunk
  <2>2. FirstOf(r, open) \subseteq DOMAIN chunks
    BY DEF FirstOf
  <2> HIDE DEF open
  <2> QED
    BY <1>6, <1>7, <2>1, <2>2
<1>9. CASE PickWindow(r)
  <2>1. Set(r, [claim[r] EXCEPT !.pc = "reason"]) \/ \E c : Set(r, Plan(r, "window", c))
    BY <1>9 DEF PickWindow
  <2> QED
    BY <1>6, <1>7, <2>1
<1>10. CASE Serialize(r)
  BY <1>5, <1>10 DEF Serialize
<1> QED
  BY <1>3, <1>4, <1>8, <1>9, <1>10 DEF GiveReason, Killed

\* A task that no other claim has chosen changes, or a new one is made.
LEMMA TasksChange ==
  ASSUME Claims, NEW t, t = <<t[1], t[2]>>, t[1] \in DOMAIN chunks', DOMAIN chunks \subseteq DOMAIN chunks',
         DOMAIN tasks' = DOMAIN tasks \union {t}, \A u \in DOMAIN tasks \ {t} : tasks'[u] = tasks[u],
         \A o \in Claimers : claim'[o] = claim[o] \/ claim'[o] = NoClaim,
         claim' = [o \in Claimers |-> claim'[o]],
         \A o \in Claimers : OnStep(o, "take") /\ claim'[o] = claim[o] => t # <<claim[o].plan[2], KindOf[o]>>
  PROVE  Claims'
<1>1. Shapes'
  BY NoClaimFacts DEF Claims, Shapes
<1>2. Locks'
  BY NoClaimFacts DEF Claims, Locks
<1>3. Chosen'
  <2> SUFFICES ASSUME NEW o \in Claimers, OnStep(o, "take")'
               PROVE  (<<claim[o].plan[2], KindOf[o]>> \in claim[o].held /\ Waiting(<<claim[o].plan[2], KindOf[o]>>))'
    BY DEF Chosen
  <2>1. claim'[o] = claim[o]
    BY NoClaimFacts DEF OnStep
  <2>2. /\ <<claim[o].plan[2], KindOf[o]>> \in claim[o].held
        /\ Waiting(<<claim[o].plan[2], KindOf[o]>>)
        /\ <<claim[o].plan[2], KindOf[o]>> \in DOMAIN tasks \ {t}
    BY <2>1 DEF Claims, Chosen, OnStep, Locks
  <2> QED
    BY <2>1, <2>2 DEF Waiting
<1>4. Planned'
  BY NoClaimFacts DEF Claims, Planned, OnStep
<1> QED
  BY <1>1, <1>2, <1>3, <1>4 DEF Claims

LEMMA TaskTaken ==
  ASSUME Claims, NEW r \in Claimers, Take(r) PROVE Claims'
<1> DEFINE t == <<claim[r].plan[2], KindOf[r]>>
<1>1. OnStep(r, "take") /\ tasks' = With(tasks, t, "claimed") /\ Set(r, NoClaim) /\ UNCHANGED chunks
  BY DEF Take
<1>2. t \in claim[r].held /\ t \in DOMAIN tasks /\ t[1] \in DOMAIN chunks /\ t = <<t[1], t[2]>>
  BY <1>1 DEF Claims, Chosen, Locks, Shapes
<1>3. /\ claim'[r] = NoClaim /\ \A o \in Claimers \ {r} : claim'[o] = claim[o]
      /\ claim' = [o \in Claimers |-> claim'[o]]
  BY <1>1, SetOne DEF Claims
<1>4. \A o \in Claimers : OnStep(o, "take") /\ claim'[o] = claim[o] => t # <<claim[o].plan[2], KindOf[o]>>
  <2>1. \A o \in Claimers : claim'[o] = claim[o] /\ OnStep(o, "take") => o # r
    BY <1>3, NoClaimFacts DEF OnStep
  <2> QED
    BY <1>2, <2>1 DEF Claims, Chosen, Locks
<1> HIDE DEF t
<1>5. DOMAIN tasks' = DOMAIN tasks \union {t} /\ \A u \in DOMAIN tasks \ {t} : tasks'[u] = tasks[u]
  BY <1>1 DEF With
<1> QED
  BY <1>1, <1>2, <1>3, <1>4, <1>5, TasksChange

LEMMA TaskCreated ==
  ASSUME Claims, NEW r \in Claimers, Create(r) PROVE Claims'
<1> DEFINE what == claim[r].plan[1]
           c    == claim[r].plan[2]
           t    == <<c, KindOf[r]>>
<1>1. CASE InTheWay(r, what, c)
  <2>1. Set(r, [NoClaim EXCEPT !.pc = "docs"]) /\ UNCHANGED workVars
    BY <1>1 DEF Create
  <2>2. /\ IsClaim([NoClaim EXCEPT !.pc = "docs"]) /\ [NoClaim EXCEPT !.pc = "docs"].pc = "docs"
        /\ [NoClaim EXCEPT !.pc = "docs"].held = {}
    BY DEF NoClaim, IsClaim
  <2> QED
    BY <2>1, <2>2, ClaimMoves
<1>2. CASE ~InTheWay(r, what, c)
  <2>1. /\ OnStep(r, "create") /\ tasks' = With(tasks, t, "claimed") /\ Set(r, NoClaim)
        /\ chunks' = IF what = "window" THEN With(chunks, c, "unread") ELSE chunks
    BY <1>2 DEF Create
  <2>2. t \notin DOMAIN tasks
    <3>1. CASE what = "window"
      <4>1. c \notin DOMAIN chunks
        BY <1>2, <3>1 DEF InTheWay
      <4>2. t[1] = c
        OBVIOUS
      <4> QED
        BY <4>1, <4>2 DEF Claims, Shapes
    <3>2. CASE what # "window"
      BY <1>2, <3>2 DEF InTheWay
    <3> QED
      BY <3>1, <3>2
  <2>3. c \in DOMAIN chunks' /\ DOMAIN chunks \subseteq DOMAIN chunks'
    BY <2>1 DEF With, Claims, Planned
  <2>4. /\ claim'[r] = NoClaim /\ \A o \in Claimers \ {r} : claim'[o] = claim[o]
        /\ claim' = [o \in Claimers |-> claim'[o]]
    BY <2>1, SetOne DEF Claims
  <2>5. \A o \in Claimers : OnStep(o, "take") => t # <<claim[o].plan[2], KindOf[o]>>
    BY <2>2 DEF Claims, Chosen, Locks
  <2>6. t = <<t[1], t[2]>> /\ t[1] = c
    OBVIOUS
  <2> HIDE DEF t, c, what
  <2>7. DOMAIN tasks' = DOMAIN tasks \union {t} /\ \A u \in DOMAIN tasks \ {t} : tasks'[u] = tasks[u]
    BY <2>1 DEF With
  <2> QED
    BY <2>3, <2>4, <2>5, <2>6, <2>7, TasksChange
<1> QED
  BY <1>1, <1>2

\* What happens to a task in somebody's hands, or ended, is nothing a claim has chosen.
LEMMA TaskWorked ==
  ASSUME Claims, NEW t \in DOMAIN tasks, NEW status, SetTask(t, status), DOMAIN chunks' = DOMAIN chunks,
         ~Waiting(t) \/ \A r \in Claimers : t \notin claim[r].held
  PROVE  Claims'
<1>1. tasks' = [tasks EXCEPT ![t] = status] /\ UNCHANGED claim
  BY DEF SetTask
<1>2. t = <<t[1], t[2]>> /\ t[1] \in DOMAIN chunks /\ claim' = [o \in Claimers |-> claim'[o]]
  BY <1>1 DEF Claims, Shapes
<1>3. \A o \in Claimers : OnStep(o, "take") => t # <<claim[o].plan[2], KindOf[o]>>
  BY DEF Claims, Chosen
<1>4. DOMAIN tasks' = DOMAIN tasks \union {t} /\ \A u \in DOMAIN tasks \ {t} : tasks'[u] = tasks[u]
  BY <1>1
<1> QED
  BY <1>1, <1>2, <1>3, <1>4, TasksChange

LEMMA ClaimsInvariant == Spec => []Claims
<1>1. Init => Claims
  BY NoClaimFacts DEF Init, Claims, Shapes, Locks, Chosen, Planned, OnStep
<1>2. Claims /\ [Next]_vars => Claims'
  <2> SUFFICES ASSUME Claims, [Next]_vars PROVE Claims'
    OBVIOUS
  <2>1. CASE UNCHANGED <<chunks, tasks, claim>>
    BY <2>1 DEF Claims, Shapes, Locks, Chosen, Planned, OnStep, Waiting
  <2>2. ASSUME NEW r \in Claimers, Claiming(r) \/ Killed(r) PROVE Claims'
    BY <2>2, WaitingPicked, OtherPicks, TaskTaken, TaskCreated DEF Claiming
  <2>3. ASSUME NEW t \in DOMAIN tasks, Work(t) \/ Fail(t) PROVE Claims'
    <3>1. /\ \A r \in Claimers : t \notin claim[r].held
          /\ \E status : SetTask(t, status)
          /\ DOMAIN chunks' = DOMAIN chunks
      BY <2>3 DEF Work, ReadPages, Complete, Fail, Mishap, Held
    <3> QED
      BY <3>1, TaskWorked
  <2>4. ASSUME NEW t \in DOMAIN tasks, Lapse(t) \/ Retry(t) PROVE Claims'
    <3>1. ~Waiting(t) /\ (\E status : SetTask(t, status)) /\ DOMAIN chunks' = DOMAIN chunks
      BY <2>4 DEF Lapse, Retry, Mishap, Waiting
    <3> QED
      BY <3>1, TaskWorked
  <2> QED
    BY <2>1, <2>2, <2>3, <2>4 DEF Next, NotesStep, vars, workVars
<1> QED
  BY <1>1, <1>2, PTL DEF Spec

\* A task is taken only while it waits, although a statement before it was only
\* chosen (planner.claim): for any number of claims at once, lapses and retries.
THEOREM WaitingIsTaken == Spec => []TakesWaiting
<1>1. Claims => TakesWaiting
  BY DEF Claims, Chosen, TakesWaiting
<1> QED
  BY <1>1, ClaimsInvariant, PTL
-----------------------------------------------------------------------------
(* Induction over numbers: sets of numbers stand for the properties, which the  *)
(* library's induction theorems would take as operators.                        *)

LEMMA LeastNumber ==
  ASSUME NEW T, T \subseteq Nat, T # {}
  PROVE  \E x \in T : \A y \in T : x <= y
<1> DEFINE R == {p \in Nat \X Nat : p[1] < p[2]}
<1>1. IsWellFoundedOn(R, Nat)
  BY NatLessThanWellFounded DEF OpToRel
<1>2. PICK x \in T : \A y \in T : ~(<<y, x>> \in R)
  BY <1>1, WFMin
<1>3. \A y \in T : ~(y < x)
  BY <1>2
<1> QED
  BY <1>3

LEMMA Induction ==
  ASSUME NEW S, 0 \in S, \A n \in Nat : n \in S => n + 1 \in S
  PROVE  Nat \subseteq S
<1> SUFFICES ASSUME Nat \ S # {} PROVE FALSE
  OBVIOUS
<1>1. PICK x \in Nat \ S : \A y \in Nat \ S : x <= y
  BY LeastNumber
<1>2. x # 0 /\ x - 1 \in Nat
  BY <1>1
<1> QED
  BY <1>1, <1>2

-----------------------------------------------------------------------------
(* uncovered_windows: what the loop keeps from page to page, and that the       *)
(* tiling it ends with is the only one.                                         *)

\* One round of the loop, and the function that applies it page after page.
ScanStep(old, covered, first, last, page) ==
  LET free  == page <= last /\ page \notin covered
      start == IF free /\ old.start = 0 THEN page ELSE old.start
  IN  IF Closes(free, page, start)
      THEN [windows |-> old.windows \union {<<start, page - 1>>},
            start |-> IF free THEN page ELSE 0]
      ELSE [old EXCEPT !.start = start]

IsScan(g, covered, first, last, end) ==
  g = [page \in (first - 1)..end |->
        IF page < first THEN [windows |-> {}, start |-> 0] ELSE ScanStep(g[page - 1], covered, first, last, page)]

LEMMA Unfold ==
  ASSUME NEW covered, NEW first \in Nat, NEW last \in Nat
  PROVE  Windows(covered, first, last) = (CHOOSE g : IsScan(g, covered, first, last, last + 1))[last + 1].windows
BY DEF Windows, IsScan, ScanStep

LEMMA ScanExists ==
  ASSUME NEW covered, NEW first \in Nat \ {0}, NEW last \in Nat, NEW end \in Nat
  PROVE  \E g : IsScan(g, covered, first, last, end)
<1> DEFINE S == {n \in Nat : \E g : IsScan(g, covered, first, last, n)}
<1>1. 0 \in S
  <2>1. IsScan([page \in (first - 1)..0 |-> [windows |-> {}, start |-> 0]], covered, first, last, 0)
    BY DEF IsScan
  <2> QED
    BY <2>1
<1>2. ASSUME NEW n \in Nat, n \in S PROVE n + 1 \in S
  <2>1. PICK g : IsScan(g, covered, first, last, n)
    BY <1>2
  <2> DEFINE new == IF n + 1 < first THEN [windows |-> {}, start |-> 0]
                    ELSE ScanStep(g[n], covered, first, last, n + 1)
             h   == [page \in (first - 1)..(n + 1) |-> IF page = n + 1 THEN new ELSE g[page]]
  <2>2. \A page \in (first - 1)..n :
           g[page] = IF page < first THEN [windows |-> {}, start |-> 0]
                     ELSE ScanStep(g[page - 1], covered, first, last, page)
    BY <2>1 DEF IsScan
  <2>3. ASSUME NEW page \in (first - 1)..(n + 1)
        PROVE  h[page] = IF page < first THEN [windows |-> {}, start |-> 0]
                         ELSE ScanStep(h[page - 1], covered, first, last, page)
    <3>1. CASE page = n + 1
      <4>1. h[page] = new
        BY <3>1
      <4>2. ~(page < first) => h[page - 1] = g[n]
        BY <3>1
      <4> QED
        BY <3>1, <4>1, <4>2
    <3>2. CASE page # n + 1
      <4>1. page \in (first - 1)..n /\ h[page] = g[page]
        BY <3>2
      <4>2. ~(page < first) => h[page - 1] = g[page - 1]
        BY <4>1
      <4> HIDE DEF h
      <4> QED
        BY <2>2, <4>1, <4>2
    <3> QED
      BY <3>1, <3>2
  <2>4. h = [page \in (first - 1)..(n + 1) |-> h[page]]
    OBVIOUS
  <2> HIDE DEF h
  <2>5. IsScan(h, covered, first, last, n + 1)
    BY <2>3, <2>4 DEF IsScan
  <2> QED
    BY <2>5
<1> HIDE DEF S
<1>3. Nat \subseteq S
  BY <1>1, <1>2, Induction
<1> QED
  BY <1>3 DEF S

\* What the loop has done when page p has been seen: the pages up to p are in closed
\* windows or in the one that is open.
ScanOK(s, free, p) ==
    /\ s \in [windows : SUBSET (Nat \X Nat), start : Nat]
    /\ s.start # 0 => s.start <= p /\ s.start..p \subseteq free /\ p - s.start + 1 <= Size
    /\ \A w \in s.windows :
          /\ w[1] <= w[2] /\ w[2] <= p /\ (s.start # 0 => w[2] < s.start)
          /\ w[1]..w[2] \subseteq free
          /\ w[2] - w[1] < Size /\ (w[2] - w[1] + 1 < Size => w[2] + 1 \notin free)
    /\ \A v, w \in s.windows : v # w => v[2] < w[1] \/ w[2] < v[1]
    /\ \A x \in free : x <= p => (\E w \in s.windows : x \in w[1]..w[2]) \/ (s.start # 0 /\ s.start <= x)

LEMMA StepKeeps ==
  ASSUME NEW covered, NEW first \in Nat \ {0}, NEW last \in Nat, NEW page \in first..(last + 1),
         NEW free, free = {x \in first..last : x \notin covered}, NEW old, ScanOK(old, free, page - 1)
  PROVE  ScanOK(ScanStep(old, covered, first, last, page), free, page)
<1> DEFINE new == ScanStep(old, covered, first, last, page)
<1>0. Size \in Nat \ {0} /\ page \in Nat \ {0} /\ free \subseteq Nat \ {0}
      /\ old.windows \in SUBSET (Nat \X Nat) /\ old.start \in Nat
      /\ (page <= last /\ page \notin covered <=> page \in free)
  BY PlannerAssumption DEF ScanOK
<1>1. CASE page \in free /\ old.start = 0
  <2>1. new = [old EXCEPT !.start = page]
    BY <1>0, <1>1 DEF ScanStep, Closes
  <2>2. new.windows = old.windows /\ new.start = page /\ new \in [windows : SUBSET (Nat \X Nat), start : Nat]
    BY <1>0, <2>1 DEF ScanOK
  <2> HIDE DEF new
  <2>3. ScanOK(new, free, page)
    BY <1>0, <1>1, <2>2 DEF ScanOK
  <2> QED
    BY <2>3 DEF new
<1>2. CASE page \in free /\ old.start # 0 /\ page - old.start + 1 <= Size
  <2>1. new = [old EXCEPT !.start = old.start]
    BY <1>0, <1>2 DEF ScanStep, Closes
  <2>2. new = old
    BY <2>1 DEF ScanOK
  <2> HIDE DEF new
  <2>3. ScanOK(new, free, page)
    BY <1>0, <1>2, <2>2 DEF ScanOK
  <2> QED
    BY <2>3 DEF new
<1>3. CASE old.start = 0 /\ page \notin free
  <2>1. new = [old EXCEPT !.start = old.start]
    BY <1>0, <1>3 DEF ScanStep, Closes
  <2>2. new = old
    BY <2>1 DEF ScanOK
  <2> HIDE DEF new
  <2>3. ScanOK(new, free, page)
    BY <1>0, <1>3, <2>2 DEF ScanOK
  <2> QED
    BY <2>3 DEF new
<1>4. ASSUME old.start # 0, NEW start \in {0, page}, page \in free => start = page,
             page \in free => page - old.start + 1 > Size, page \notin free => start = 0,
             new = [windows |-> old.windows \union {<<old.start, page - 1>>}, start |-> start]
      PROVE  ScanOK(new, free, page)
  <2> DEFINE v == <<old.start, page - 1>>
  <2>1. new.windows = old.windows \union {v} /\ new.start = start /\ start \in Nat
    BY <1>0, <1>4
  <2>2. v[1] = old.start /\ v[2] = page - 1 /\ v \in Nat \X Nat /\ v[1] <= v[2]
    BY <1>0, <1>4 DEF ScanOK
  <2> HIDE DEF v
  <2>3. new \in [windows : SUBSET (Nat \X Nat), start : Nat]
    BY <1>0, <1>4, <2>1, <2>2 DEF v
  <2> HIDE DEF new
  <2>4. /\ v[1]..v[2] \subseteq free /\ v[2] - v[1] < Size /\ (v[2] - v[1] + 1 < Size => v[2] + 1 \notin free)
    BY <1>0, <1>4, <2>2 DEF ScanOK
  <2>5. \A w \in old.windows : w[2] < v[1] /\ w \in Nat \X Nat
    BY <1>0, <1>4, <2>2 DEF ScanOK
  <2>6. ASSUME NEW w \in new.windows
        PROVE  /\ w[1] <= w[2] /\ w[2] <= page /\ (new.start # 0 => w[2] < new.start)
               /\ w[1]..w[2] \subseteq free
               /\ w[2] - w[1] < Size /\ (w[2] - w[1] + 1 < Size => w[2] + 1 \notin free)
    <3>1. CASE w = v
      BY <1>0, <1>4, <2>1, <2>2, <2>4, <3>1
    <3>2. CASE w \in old.windows
      BY <1>0, <1>4, <2>1, <2>2, <2>5, <3>2 DEF ScanOK
    <3> QED
      BY <2>1, <3>1, <3>2
  <2>7. \A u, w \in new.windows : u # w => u[2] < w[1] \/ w[2] < u[1]
    BY <2>1, <2>5 DEF ScanOK
  <2>8. ASSUME NEW x \in free, x <= page
        PROVE  (\E w \in new.windows : x \in w[1]..w[2]) \/ (new.start # 0 /\ new.start <= x)
    <3>1. CASE x = page
      BY <1>0, <1>4, <2>1, <3>1
    <3>2. CASE x # page
      <4>1. x <= page - 1 /\ x \in Nat
        BY <1>0, <2>8, <3>2
      <4>2. (\E w \in old.windows : x \in w[1]..w[2]) \/ old.start <= x
        BY <4>1 DEF ScanOK
      <4> QED
        BY <1>0, <2>1, <2>2, <4>1, <4>2
    <3> QED
      BY <3>1, <3>2
  <2>9. new.start # 0 => new.start <= page /\ new.start..page \subseteq free /\ page - new.start + 1 <= Size
    BY <1>0, <1>4, <2>1
  <2> QED
    BY <2>3, <2>6, <2>7, <2>8, <2>9 DEF ScanOK
<1>5. CASE page \in free /\ old.start # 0 /\ ~(page - old.start + 1 <= Size)
  <2>1. new = [windows |-> old.windows \union {<<old.start, page - 1>>}, start |-> page]
    BY <1>0, <1>5 DEF ScanStep, Closes
  <2> QED
    BY <1>0, <1>4, <1>5, <2>1
<1>6. CASE page \notin free /\ old.start # 0
  <2>1. new = [windows |-> old.windows \union {<<old.start, page - 1>>}, start |-> 0]
    BY <1>0, <1>6 DEF ScanStep, Closes
  <2> QED
    BY <1>0, <1>4, <1>6, <2>1
<1> QED
  BY <1>1, <1>2, <1>3, <1>5, <1>6

FreePages(covered, first, last) == {x \in first..last : x \notin covered}

\* Windows that are a tiling of free pages, none cut short.
Tiles(windows, free) ==
    /\ windows \subseteq Nat \X Nat
    /\ \A w \in windows : /\ w[1] <= w[2] /\ w[1]..w[2] \subseteq free
                          /\ w[2] - w[1] < Size /\ (w[2] - w[1] + 1 < Size => w[2] + 1 \notin free)
    /\ \A v, w \in windows : v # w => v[2] < w[1] \/ w[2] < v[1]
    /\ \A x \in free : \E w \in windows : x \in w[1]..w[2]

\* For every range of pages, whatever is covered, the scan returns windows that hold
\* exactly the free pages, each once, at most a chunk long and cut short only where a
\* page that is not free follows (planner.uncovered_windows).
THEOREM AnyRangeIsTiled ==
  ASSUME NEW covered, NEW first \in Nat \ {0}, NEW last \in Nat, first <= last + 1
  PROVE  Tiles(Windows(covered, first, last), FreePages(covered, first, last))
<1> DEFINE end  == last + 1
           g    == CHOOSE f : IsScan(f, covered, first, last, end)
           free == FreePages(covered, first, last)
           S    == {n \in Nat : n \in (first - 1)..end => ScanOK(g[n], free, n)}
<1>1. IsScan(g, covered, first, last, end)
  BY ScanExists
<1>2. free = {x \in first..last : x \notin covered} /\ free \subseteq first..last
  BY DEF FreePages
<1> HIDE DEF g, free
<1>3. \A n \in (first - 1)..end :
         g[n] = IF n < first THEN [windows |-> {}, start |-> 0] ELSE ScanStep(g[n - 1], covered, first, last, n)
  BY <1>1 DEF IsScan
<1>4. ScanOK(g[first - 1], free, first - 1)
  <2>1. g[first - 1] = [windows |-> {}, start |-> 0]
    BY <1>3
  <2>2. g[first - 1].windows = {} /\ g[first - 1].start = 0
        /\ g[first - 1] \in [windows : SUBSET (Nat \X Nat), start : Nat]
    BY <2>1
  <2> QED
    BY <1>2, <2>2 DEF ScanOK
<1>5. 0 \in S
  BY <1>4
<1>6. ASSUME NEW n \in Nat, n \in S PROVE n + 1 \in S
  <2>1. CASE n + 1 = first - 1
    BY <1>4, <2>1
  <2>2. CASE n + 1 \in first..end
    <3>1. ScanOK(g[n], free, (n + 1) - 1) /\ g[n + 1] = ScanStep(g[n], covered, first, last, n + 1)
      BY <1>3, <1>6, <2>2
    <3>2. ScanOK(ScanStep(g[n], covered, first, last, n + 1), free, n + 1)
      BY <1>2, <2>2, <3>1, StepKeeps
    <3> QED
      BY <3>1, <3>2
  <2> QED
    BY <2>1, <2>2
<1>7. end \in Nat /\ end \in (first - 1)..end
  OBVIOUS
<1>8. ScanOK(g[end], free, end)
  <2> HIDE DEF S
  <2>1. Nat \subseteq S
    BY <1>5, <1>6, Induction
  <2> QED
    BY <1>7, <2>1 DEF S
<1>9. g[end].start = 0
  BY <1>2, <1>8 DEF ScanOK
<1>10. Tiles(g[end].windows, free)
  <2>1. \A x \in free : x <= end
    BY <1>2
  <2> QED
    BY <1>8, <1>9, <2>1 DEF ScanOK, Tiles
<1> QED
  BY <1>10, Unfold DEF g, free

LEMMA TilesParts ==
  ASSUME NEW V, NEW F, Tiles(V, F), NEW w \in V
  PROVE  /\ w \in Nat \X Nat /\ w[1] \in Nat /\ w[2] \in Nat /\ w = <<w[1], w[2]>>
         /\ w[1] <= w[2] /\ w[1]..w[2] \subseteq F
         /\ w[2] - w[1] < Size /\ (w[2] - w[1] + 1 < Size => w[2] + 1 \notin F)
         /\ \A v \in V : v # w => v[2] < w[1] \/ w[2] < v[1]
  BY DEF Tiles

\* The first window that one tiling has and another has not.
LEMMA NoFirstDifference ==
  ASSUME NEW V, NEW W, NEW F, Tiles(V, F), Tiles(W, F), NEW w \in V \ W,
         \A x \in (V \ W) \union (W \ V) : w[1] <= x[1]
  PROVE  FALSE
<1>0. Size \in Nat
  BY PlannerAssumption
<1>1. /\ w[1] \in Nat /\ w[2] \in Nat /\ w = <<w[1], w[2]>> /\ w[1] <= w[2] /\ w[1]..w[2] \subseteq F
      /\ w[2] - w[1] < Size /\ (w[2] - w[1] + 1 < Size => w[2] + 1 \notin F)
      /\ \A v \in V : v # w => v[2] < w[1] \/ w[2] < v[1]
  BY TilesParts
<1>2. PICK u \in W : w[1] \in u[1]..u[2]
  BY <1>1 DEF Tiles
<1>3. /\ u[1] \in Nat /\ u[2] \in Nat /\ u = <<u[1], u[2]>> /\ u[1] <= u[2] /\ u[1]..u[2] \subseteq F
      /\ u[2] - u[1] < Size /\ (u[2] - u[1] + 1 < Size => u[2] + 1 \notin F)
  BY TilesParts
<1>4. u[1] = w[1]
  BY <1>1, <1>2, <1>3
<1>5. ~(w[2] < u[2])
  BY <1>0, <1>1, <1>3, <1>4
<1>6. ~(u[2] < w[2])
  BY <1>0, <1>1, <1>3, <1>4
<1>7. u = w
  BY <1>1, <1>3, <1>4, <1>5, <1>6
<1> QED
  BY <1>7

\* There is one way to tile the free pages.
LEMMA OneTiling ==
  ASSUME NEW V, NEW W, NEW F, Tiles(V, F), Tiles(W, F)
  PROVE  V = W
<1> DEFINE both == (V \ W) \union (W \ V)
           T    == {w[1] : w \in both}
<1> SUFFICES ASSUME both # {} PROVE FALSE
  OBVIOUS
<1>1. T \subseteq Nat
  BY TilesParts
<1>2. T # {}
  OBVIOUS
<1> HIDE DEF T
<1>3. PICK x \in T : \A y \in T : x <= y
  BY <1>1, <1>2, LeastNumber
<1>4. PICK w \in both : x = w[1]
  BY <1>3 DEF T
<1>5. \A y \in both : w[1] <= y[1]
  BY <1>3, <1>4 DEF T
<1> QED
  BY <1>4, <1>5, NoFirstDifference

LEMMA TilesWithout ==
  ASSUME NEW V, NEW F, Tiles(V, F), NEW w \in V
  PROVE  Tiles(V \ {w}, F \ (w[1]..w[2]))
<1>1. /\ w[1] \in Nat /\ w[2] \in Nat /\ \A v \in V : v # w => v[2] < w[1] \/ w[2] < v[1]
  BY TilesParts
<1>2. ASSUME NEW v \in V \ {w}
      PROVE  /\ v[1] <= v[2] /\ v[1]..v[2] \subseteq F \ (w[1]..w[2])
             /\ v[2] - v[1] < Size /\ (v[2] - v[1] + 1 < Size => v[2] + 1 \notin F \ (w[1]..w[2]))
  <2>1. /\ v[1] \in Nat /\ v[2] \in Nat
        /\ v[1] <= v[2] /\ v[1]..v[2] \subseteq F
        /\ v[2] - v[1] < Size /\ (v[2] - v[1] + 1 < Size => v[2] + 1 \notin F)
    BY TilesParts
  <2> QED
    BY <1>1, <2>1
<1>3. \A x \in F \ (w[1]..w[2]) : \E v \in V \ {w} : x \in v[1]..v[2]
  BY DEF Tiles
<1> QED
  BY <1>2, <1>3 DEF Tiles

\* A window whose pages become covered is gone, and the others are as they were.
LEMMA OtherPagesCovered ==
  ASSUME NEW covered, NEW first \in Nat \ {0}, NEW last \in Nat, first <= last + 1,
         NEW a \in Nat, NEW b \in Nat, <<a, b>> \in Windows(covered, first, last)
  PROVE  Windows(covered \union (a..b), first, last) = Windows(covered, first, last) \ {<<a, b>>}
<1> DEFINE V == Windows(covered, first, last)
           F == FreePages(covered, first, last)
           W == Windows(covered \union (a..b), first, last)
           G == FreePages(covered \union (a..b), first, last)
           w == <<a, b>>
<1>1. Tiles(V, F) /\ Tiles(W, G)
  BY AnyRangeIsTiled
<1>2. G = F \ (w[1]..w[2])
  BY DEF FreePages
<1>3. w \in V
  OBVIOUS
<1> HIDE DEF V, F, W, G, w
<1>4. Tiles(V \ {w}, F \ (w[1]..w[2]))
  BY <1>1, <1>3, TilesWithout
<1>5. W = V \ {w}
  BY <1>1, <1>2, <1>4, OneTiling
<1> QED
  BY <1>5 DEF V, W, w

-----------------------------------------------------------------------------
(* Chunks.  While claims are being served the ranges they have seen are the     *)
(* ranges of now, so a window a claim plans to create is one of those that are  *)
(* open until somebody creates it: creating another one leaves it as it is.     *)

\* What a claim has seen of the page ranges.
Fresh(snap) ==
    \A d \in DOMAIN snap : /\ d \in Docs
                           /\ snap[d].from = scopes[d].from /\ snap[d].last = LastPage(d, scopes[d])

OpenWindows(d) == Windows(Covered(d), scopes[d].from, LastPage(d, scopes[d]))

\* A chunk somebody has made, or a window of the pages that are free.
Uncut(c) == c \in [doc : Docs, from : Nat, to : Nat] /\ (c \in DOMAIN chunks \/ <<c.from, c.to>> \in OpenWindows(c.doc))

Cut ==
    /\ DOMAIN chunks \subseteq [doc : Docs, from : Nat, to : Nat]
    /\ ChunksDisjoint
    /\ \A r \in Claimers : ~OnStep(r, "idle") => Fresh(Snap(r))
    /\ \A r \in Claimers : OnStep(r, "create") /\ claim[r].plan[1] = "window" => Uncut(claim[r].plan[2])

LEMMA ScopeBounds ==
  ASSUME Rows, NEW d \in Docs
  PROVE  /\ scopes[d].from \in Nat \ {0} /\ LastPage(d, scopes[d]) \in Nat
         /\ scopes[d].from <= LastPage(d, scopes[d]) /\ LastPage(d, scopes[d]) <= PageCount[d]
<1>1. PageCount[d] \in Nat /\ IsScope(scopes[d]) /\ ValidRange(d, scopes[d])
  BY NotesAssumption DEF Rows
<1>2. scopes[d].from \in Nat /\ scopes[d].to \in Nat
  BY <1>1 DEF IsScope
<1> QED
  BY <1>1, <1>2 DEF ValidRange, LastPage

LEMMA OpenWindowsTile ==
  ASSUME Rows, NEW d \in Docs
  PROVE  Tiles(OpenWindows(d), FreePages(Covered(d), scopes[d].from, LastPage(d, scopes[d])))
  BY ScopeBounds, AnyRangeIsTiled DEF OpenWindows

\* The scope a claim has seen keeps its range, and nothing is cut.
LEMMA SameCut ==
  ASSUME DOMAIN chunks' = DOMAIN chunks,
         \A d \in Docs : scopes'[d].from = scopes[d].from /\ scopes'[d].to = scopes[d].to
  PROVE  /\ ChunksDisjoint' = ChunksDisjoint
         /\ \A snap : Fresh(snap) => Fresh(snap)'
         /\ \A c : Uncut(c) => Uncut(c)'
<1>1. \A d : Covered(d)' = Covered(d)
  BY DEF Covered
<1>2. \A d \in Docs : LastPage(d, scopes[d])' = LastPage(d, scopes[d])
  BY DEF LastPage
<1>3. \A d \in Docs : OpenWindows(d)' = OpenWindows(d)
  <2> SUFFICES ASSUME NEW d \in Docs PROVE OpenWindows(d)' = OpenWindows(d)
    OBVIOUS
  <2> DEFINE C == Covered(d)
             f == scopes[d].from
             l == LastPage(d, scopes[d])
  <2>1. C' = C /\ f' = f /\ l' = l
    BY <1>1, <1>2
  <2>2. OpenWindows(d)' = Windows(C', f', l') /\ OpenWindows(d) = Windows(C, f, l)
    BY DEF OpenWindows
  <2> HIDE DEF C, f, l
  <2> QED
    BY <2>1, <2>2
<1> QED
  BY <1>2, <1>3 DEF Fresh, Uncut, ChunksDisjoint

LEMMA CutMoves ==
  ASSUME Cut, Shapes, NEW r \in Claimers, NEW c, Set(r, c), UNCHANGED <<chunks, scopes>>,
         c.pc # "idle" => Fresh(c.snap),
         c.pc = "create" /\ c.plan[1] = "window" => Uncut(c.plan[2])
  PROVE  Cut'
<1>1. claim'[r] = c /\ \A o \in Claimers \ {r} : claim'[o] = claim[o]
  BY SetOne
<1>2. /\ ChunksDisjoint' = ChunksDisjoint
      /\ \A snap : Fresh(snap) => Fresh(snap)'
      /\ \A e : Uncut(e) => Uncut(e)'
  BY SameCut
<1>3. DOMAIN chunks \subseteq [doc : Docs, from : Nat, to : Nat] /\ ChunksDisjoint
  BY DEF Cut
<1>4. ASSUME NEW o \in Claimers, claim'[o].pc # "idle" PROVE Fresh(claim'[o].snap)
  BY <1>1, <1>4 DEF Cut, OnStep, Snap
<1>5. ASSUME NEW o \in Claimers, claim'[o].pc = "create", claim'[o].plan[1] = "window"
      PROVE  Uncut(claim'[o].plan[2])
  BY <1>1, <1>5 DEF Cut, OnStep, Snap
<1> QED
  BY <1>2, <1>3, <1>4, <1>5 DEF Cut, OnStep, Snap

\* A claim that neither looks at the scopes nor plans to create something.
LEMMA CutGoesOn ==
  ASSUME Cut, Shapes, NEW r \in Claimers, ~OnStep(r, "idle"), NEW c, Set(r, c), UNCHANGED <<chunks, scopes>>,
         c.snap = Snap(r), c.pc # "create" \/ c.plan[1] # "window"
  PROVE  Cut'
<1>1. Fresh(c.snap)
  BY DEF Cut
<1> QED
  BY <1>1, CutMoves

LEMMA CutPicks ==
  ASSUME Cut, Claims, NEW r \in Claimers,
         PickWaiting(r) \/ PickChunk(r) \/ GiveReason(r) \/ Serialize(r) \/ Killed(r) \/ Take(r)
  PROVE  Cut'
<1>1. IsClaim(claim[r]) /\ Shapes
  BY DEF Claims, Shapes
<1>2. UNCHANGED <<chunks, scopes>>
  BY DEF PickWaiting, PickChunk, GiveReason, Serialize, Killed, Take, workVars, notesVars
<1>3. CASE Set(r, NoClaim)
  BY <1>1, <1>2, <1>3, NoClaimFacts, CutMoves
<1>4. ~OnStep(r, "idle")
  BY DEF PickWaiting, PickChunk, GiveReason, Serialize, Killed, Take, OnStep
<1>5. ASSUME NEW pc, NEW held, NEW serial, NEW plan, pc # "create" \/ plan[1] # "window", NEW c,
             c = [claim[r] EXCEPT !.pc = pc, !.held = held, !.serial = serial, !.plan = plan], Set(r, c)
      PROVE  Cut'
  <2>1. c.pc = pc /\ c.snap = Snap(r) /\ c.plan = plan
    BY <1>1, <1>5 DEF IsClaim, Snap
  <2> QED
    BY <1>1, <1>2, <1>4, <1>5, <2>1, CutGoesOn
<1>6. CASE PickWaiting(r)
  <2>1. \E pc \in {"chunks", "take"} : \E held, plan :
          Set(r, [claim[r] EXCEPT !.pc = pc, !.held = held, !.serial = claim[r].serial, !.plan = plan])
    <3>1. ASSUME NEW held, Set(r, [[claim[r] EXCEPT !.held = @ \union held] EXCEPT !.pc = "chunks"])
          PROVE  Set(r, [claim[r] EXCEPT !.pc = "chunks", !.held = @ \union held, !.serial = @, !.plan = @])
      BY <1>1, <3>1 DEF IsClaim
    <3>2. ASSUME NEW held, NEW c, Set(r, [[claim[r] EXCEPT !.held = @ \union held] EXCEPT !.pc = "take", !.plan = <<"task", c>>])
          PROVE  Set(r, [claim[r] EXCEPT !.pc = "take", !.held = @ \union held, !.serial = @, !.plan = <<"task", c>>])
      BY <1>1, <3>2 DEF IsClaim
    <3> QED
      BY <1>6, <3>1, <3>2 DEF PickWaiting
  <2> QED
    BY <1>5, <2>1
<1>7. ASSUME NEW pc \in {"windows", "docs"}, NEW serial, NEW c, Set(r, c),
             c = [claim[r] EXCEPT !.pc = pc, !.serial = serial] \/ c = [claim[r] EXCEPT !.pc = pc]
      PROVE  Cut'
  <2>1. c.pc = pc /\ c.snap = Snap(r)
    BY <1>1, <1>7 DEF IsClaim, Snap
  <2> QED
    BY <1>1, <1>2, <1>4, <1>7, <2>1, CutGoesOn
<1>8. ASSUME NEW pc, NEW chunk, NEW c, Set(r, c), c = [claim[r] EXCEPT !.pc = pc, !.plan = <<"chunk", chunk>>]
      PROVE  Cut'
  <2>1. c.plan[1] = "chunk" /\ c.snap = Snap(r)
    BY <1>1, <1>8 DEF IsClaim, Snap
  <2> QED
    BY <1>1, <1>2, <1>4, <1>8, <2>1, CutGoesOn
<1>9. CASE PickChunk(r)
  <2>1. Set(r, [claim[r] EXCEPT !.pc = "windows"]) \/ \E c : Set(r, Plan(r, "chunk", c))
    BY <1>9 DEF PickChunk
  <2>2. ASSUME NEW c, Set(r, Plan(r, "chunk", c)) PROVE Cut'
    BY <1>8, <2>2 DEF Plan
  <2> QED
    BY <1>7, <2>1, <2>2
<1>10. CASE Serialize(r)
  BY <1>7, <1>10 DEF Serialize
<1> QED
  BY <1>3, <1>6, <1>9, <1>10 DEF GiveReason, Killed, Take

LEMMA CutLoads ==
  ASSUME Cut, Claims, NEW r \in Claimers, LoadDocs(r) PROVE Cut'
<1> DEFINE snap == [d \in Eligible(KindOf[r]) |->
                      [from |-> scopes[d].from, last |-> LastPage(d, scopes[d]), place |-> Index(d, Available)]]
           c    == [claim[r] EXCEPT !.pc = "waiting", !.snap = snap]
<1>1. (Set(r, NoClaim) \/ Set(r, c)) /\ UNCHANGED <<chunks, scopes>>
  BY DEF LoadDocs, workVars, notesVars
<1>2. IsClaim(claim[r]) /\ Shapes
  BY DEF Claims, Shapes
<1>3. Fresh(snap)
  BY DEF Fresh, Eligible, Available, Known
<1> HIDE DEF snap
<1>4. c.pc = "waiting" /\ c.snap = snap
  BY <1>2 DEF IsClaim
<1> HIDE DEF c
<1> QED
  BY <1>1, <1>2, <1>3, <1>4, NoClaimFacts, CutMoves

LEMMA CutPlans ==
  ASSUME Cut, Claims, Rows, NEW r \in Claimers, PickWindow(r) PROVE Cut'
<1> DEFINE new == UNION {{[doc |-> d, from |-> w[1], to |-> w[2]] : w \in Windows(Covered(d), Snap(r)[d].from, Snap(r)[d].last)}
                         : d \in DOMAIN Snap(r)}
<1>1. /\ OnStep(r, "windows")
      /\ \/ Set(r, [claim[r] EXCEPT !.pc = "reason"])
         \/ \E c \in FirstOf(r, new) : Set(r, Plan(r, "window", c))
      /\ UNCHANGED <<chunks, scopes>>
  BY DEF PickWindow, workVars, notesVars
<1>2. IsClaim(claim[r]) /\ Shapes /\ Fresh(Snap(r)) /\ ~OnStep(r, "idle")
  BY <1>1 DEF Claims, Shapes, Cut, OnStep
<1>3. \A c \in new : Uncut(c)
  <2> SUFFICES ASSUME NEW d \in DOMAIN Snap(r), NEW w \in Windows(Covered(d), Snap(r)[d].from, Snap(r)[d].last)
               PROVE  Uncut([doc |-> d, from |-> w[1], to |-> w[2]])
    OBVIOUS
  <2>1. d \in Docs /\ w \in OpenWindows(d)
    BY <1>2 DEF Fresh, OpenWindows
  <2>2. w[1] \in Nat /\ w[2] \in Nat /\ w = <<w[1], w[2]>>
    BY <2>1, OpenWindowsTile, TilesParts
  <2> QED
    BY <2>1, <2>2 DEF Uncut
<1>4. FirstOf(r, new) \subseteq new
  BY DEF FirstOf
<1> HIDE DEF new
<1>5. CASE Set(r, [claim[r] EXCEPT !.pc = "reason"])
  <2> DEFINE c == [claim[r] EXCEPT !.pc = "reason"]
  <2>1. c.pc = "reason" /\ c.snap = Snap(r)
    BY <1>2 DEF IsClaim, Snap
  <2> HIDE DEF c
  <2>2. Set(r, c)
    BY <1>5 DEF c
  <2> QED
    BY <1>1, <1>2, <2>1, <2>2, CutGoesOn
<1>6. ASSUME NEW chunk \in FirstOf(r, new), Set(r, Plan(r, "window", chunk)) PROVE Cut'
  <2> DEFINE pc == IF claim[r].serial THEN "create" ELSE "lock"
             c  == [claim[r] EXCEPT !.pc = pc, !.plan = <<"window", chunk>>]
  <2> HIDE DEF pc
  <2>1. c.snap = Snap(r) /\ c.plan[2] = chunk
    BY <1>2 DEF IsClaim, Snap
  <2> HIDE DEF c
  <2>2. Set(r, c)
    BY <1>6 DEF c, pc, Plan
  <2>3. Uncut(c.plan[2])
    BY <1>3, <1>4, <2>1
  <2> QED
    BY <1>1, <1>2, <2>1, <2>2, <2>3, CutMoves
<1> QED
  BY <1>1, <1>5, <1>6

\* A window that is free becomes a chunk.  What another claim is about to create is
\* that chunk, and its insert will be undone, or a window that stays free.
LEMMA ChunkIsCut ==
  ASSUME Cut, Rows, UNCHANGED scopes, NEW c, Uncut(c), c \notin DOMAIN chunks, DOMAIN chunks' = DOMAIN chunks \union {c}
  PROVE  /\ ChunksDisjoint'
         /\ \A e : Uncut(e) => Uncut(e)'
<1> DEFINE f == scopes[c.doc].from
           l == LastPage(c.doc, scopes[c.doc])
           w == <<c.from, c.to>>
           C == Covered(c.doc)
<1>1. c.doc \in Docs /\ c.from \in Nat /\ c.to \in Nat /\ w \in OpenWindows(c.doc) /\ w[1] = c.from /\ w[2] = c.to
  BY DEF Uncut
<1>2. f \in Nat \ {0} /\ l \in Nat /\ f <= l + 1 /\ OpenWindows(c.doc) = Windows(C, f, l)
  BY <1>1, ScopeBounds DEF OpenWindows
<1>3. PagesOf(c) \subseteq FreePages(C, f, l)
  BY <1>1, OpenWindowsTile, TilesParts DEF PagesOf
<1>4. PagesOf(c) \cap C = {}
  BY <1>3 DEF FreePages
<1>5. ChunksDisjoint'
  <2>1. \A x \in DOMAIN chunks : x.doc = c.doc => PagesOf(x) \cap PagesOf(c) = {}
    BY <1>4 DEF Covered
  <2> QED
    BY <2>1 DEF Cut, ChunksDisjoint
<1>6. Covered(c.doc)' = C \union PagesOf(c) /\ \A d : d # c.doc => Covered(d)' = Covered(d)
  BY DEF Covered
<1>7. f' = f /\ l' = l /\ \A d : LastPage(d, scopes[d])' = LastPage(d, scopes[d])
  BY DEF LastPage
<1>8. ASSUME NEW d, d # c.doc PROVE OpenWindows(d)' = OpenWindows(d)
  <2> DEFINE D == Covered(d)
             g == scopes[d].from
             m == LastPage(d, scopes[d])
  <2>1. D' = D /\ g' = g /\ m' = m
    BY <1>6, <1>7, <1>8
  <2>2. OpenWindows(d)' = Windows(D', g', m') /\ OpenWindows(d) = Windows(D, g, m)
    BY DEF OpenWindows
  <2> HIDE DEF D, g, m
  <2> QED
    BY <2>1, <2>2
<1>9. OpenWindows(c.doc)' = OpenWindows(c.doc) \ {w}
  <2>1. OpenWindows(c.doc)' = Windows(Covered(c.doc)', f', l')
    BY DEF OpenWindows
  <2>2. PagesOf(c) = c.from..c.to
    BY DEF PagesOf
  <2> HIDE DEF f, l, C
  <2>3. Windows(C \union (c.from..c.to), f, l) = Windows(C, f, l) \ {w}
    <3>1. w \in Windows(C, f, l)
      BY <1>1, <1>2
    <3> QED
      BY <1>1, <1>2, <3>1, OtherPagesCovered
  <2> QED
    BY <1>2, <1>6, <1>7, <2>1, <2>2, <2>3
<1>10. ASSUME NEW e, Uncut(e) PROVE Uncut(e)'
  <2>1. e \in [doc : Docs, from : Nat, to : Nat] /\ (e \in DOMAIN chunks \/ <<e.from, e.to>> \in OpenWindows(e.doc))
    BY <1>10 DEF Uncut
  <2>2. CASE e \in DOMAIN chunks \/ e = c
    BY <2>1, <2>2 DEF Uncut
  <2>3. CASE <<e.from, e.to>> \in OpenWindows(e.doc) /\ e # c
    <3>1. e.doc = c.doc => <<e.from, e.to>> # w
      <4>1. c \in [doc : Docs, from : Nat, to : Nat]
        BY DEF Uncut
      <4> QED
        BY <2>1, <2>3, <4>1
    <3>2. <<e.from, e.to>> \in OpenWindows(e.doc)'
      BY <1>8, <1>9, <2>3, <3>1
    <3> QED
      BY <2>1, <3>2 DEF Uncut
  <2> QED
    BY <2>1, <2>2, <2>3
<1> QED
  BY <1>5, <1>10

LEMMA CutCreates ==
  ASSUME Cut, Claims, Rows, NEW r \in Claimers, Create(r) PROVE Cut'
<1> DEFINE what == claim[r].plan[1]
           c    == claim[r].plan[2]
<1>0. Shapes /\ OnStep(r, "create") /\ UNCHANGED scopes
  BY DEF Claims, Create, notesVars
<1>1. CASE UNCHANGED chunks
  <2> DEFINE again == [NoClaim EXCEPT !.pc = "docs"]
  <2>1. again.snap = << >> /\ again.pc = "docs" /\ NoClaim.pc = "idle"
    BY DEF NoClaim
  <2>2. Set(r, again) \/ Set(r, NoClaim)
    BY DEF Create
  <2> HIDE DEF again
  <2>3. Fresh(again.snap)
    BY <2>1 DEF Fresh
  <2> QED
    BY <1>0, <1>1, <2>1, <2>2, <2>3, CutMoves
<1>2. CASE ~InTheWay(r, what, c) /\ what = "window"
  <2>1. chunks' = With(chunks, c, "unread") /\ Set(r, NoClaim) /\ c \notin DOMAIN chunks
    BY <1>2 DEF Create, InTheWay
  <2>2. claim'[r] = NoClaim /\ \A o \in Claimers \ {r} : claim'[o] = claim[o]
    BY <1>0, <2>1, SetOne
  <2>3. Uncut(c)
    BY <1>0, <1>2 DEF Cut
  <2> HIDE DEF c
  <2>4. DOMAIN chunks' = DOMAIN chunks \union {c}
    BY <2>1 DEF With
  <2>5. ChunksDisjoint' /\ \A e : Uncut(e) => Uncut(e)'
    BY <1>0, <2>1, <2>3, <2>4, ChunkIsCut
  <2>6. DOMAIN chunks' \subseteq [doc : Docs, from : Nat, to : Nat]
    BY <2>3, <2>4 DEF Cut, Uncut
  <2>7. \A snap : Fresh(snap) => Fresh(snap)'
    BY <1>0 DEF Fresh, LastPage
  <2> QED
    BY <2>2, <2>5, <2>6, <2>7, NoClaimFacts DEF Cut, OnStep, Snap
<1>3. CASE ~InTheWay(r, what, c) /\ what # "window"
  BY <1>1, <1>3 DEF Create
<1>4. CASE InTheWay(r, what, c)
  BY <1>1, <1>4 DEF Create, workVars
<1> QED
  BY <1>2, <1>3, <1>4

LEMMA CutStays ==
  ASSUME Cut, DOMAIN chunks' = DOMAIN chunks, UNCHANGED claim,
         \/ \A r \in Claimers : OnStep(r, "idle")
         \/ \A d \in Docs : scopes'[d].from = scopes[d].from /\ scopes'[d].to = scopes[d].to
  PROVE  Cut'
<1>1. CASE \A r \in Claimers : OnStep(r, "idle")
  BY <1>1 DEF Cut, OnStep, ChunksDisjoint
<1>2. CASE \A d \in Docs : scopes'[d].from = scopes[d].from /\ scopes'[d].to = scopes[d].to
  <2>1. /\ ChunksDisjoint' = ChunksDisjoint
        /\ \A snap : Fresh(snap) => Fresh(snap)'
        /\ \A c : Uncut(c) => Uncut(c)'
    BY <1>2, SameCut
  <2> QED
    BY <2>1 DEF Cut, OnStep, Snap
<1> QED
  BY <1>1, <1>2

LEMMA CutStep ==
  ASSUME "range" \notin Racing, Cut, Claims, Rows, [Next]_vars PROVE Cut'
<1>1. ASSUME DOMAIN chunks' = DOMAIN chunks, UNCHANGED <<claim, scopes>> PROVE Cut'
  BY <1>1, CutStays
<1>2. CASE NotesStep
  BY <1>2, CutStays DEF NotesStep, workVars
<1>3. ASSUME NEW r \in Claimers, Claiming(r) \/ Killed(r) PROVE Cut'
  BY <1>3, CutPicks, CutLoads, CutPlans, CutCreates DEF Claiming
<1>4. ASSUME NEW t \in DOMAIN tasks, Work(t) \/ Fail(t) \/ Lapse(t) \/ Retry(t) PROVE Cut'
  <2>1. DOMAIN chunks' = DOMAIN chunks /\ UNCHANGED <<claim, scopes>>
    BY <1>4 DEF Work, ReadPages, Complete, Fail, Lapse, Retry, Mishap, SetTask, notesVars
  <2> QED
    BY <1>1, <2>1
<1>5. CASE UNCHANGED vars
  BY <1>1, <1>5 DEF vars, workVars, notesVars
<1> QED
  BY <1>2, <1>3, <1>4, <1>5 DEF Next

\* No page is in two chunks: what two claims plan at once from the windows they both
\* saw is either the same chunk, which one of them fails to insert, or disjoint ones
\* (planner.claim, the unique constraint).  It takes that no page range changes under
\* a claim: windows cut from two ranges may overlap.
THEOREM NoPageTwice == "range" \notin Racing /\ Spec => []ChunksDisjoint
<1>1. Init => Cut
  BY NoClaimFacts DEF Init, Cut, ChunksDisjoint, OnStep
<1>2. Cut => ChunksDisjoint
  BY DEF Cut
<1> SUFFICES ASSUME "range" \notin Racing PROVE Spec => []ChunksDisjoint
  OBVIOUS
<1>3. Rows /\ Claims /\ Cut /\ [Next]_vars => Cut'
  BY CutStep
<1> QED
  BY <1>1, <1>2, <1>3, RowsInvariant, ClaimsInvariant, PTL DEF Spec

\* Windows that a claim asks for hold each free page once, none is longer than the
\* chunk size, and none is shorter than the free pages allow (uncovered_windows), in
\* any state and for the ranges the property looks at.
THEOREM WindowsAreTiled == Spec => []WindowsTile
<1>1. WindowsTile
  <2> SUFFICES ASSUME NEW d \in Docs, NEW first \in 1..5, NEW last \in first..5
               PROVE  LET windows == Windows(Covered(d), first, last)
                          free    == (first..last) \ Covered(d)
                      IN  /\ UNION {w[1]..w[2] : w \in windows} = free
                          /\ \A v, w \in windows : v # w => (v[1]..v[2]) \cap (w[1]..w[2]) = {}
                          /\ \A w \in windows : /\ w[2] - w[1] < Size
                                                /\ w[2] - w[1] + 1 < Size => w[2] + 1 \notin free
    BY DEF WindowsTile
  <2> DEFINE V == Windows(Covered(d), first, last)
             F == (first..last) \ Covered(d)
  <2>1. Tiles(V, F)
    <3>1. F = FreePages(Covered(d), first, last)
      BY DEF FreePages
    <3> HIDE DEF F
    <3> QED
      BY <3>1, AnyRangeIsTiled
  <2> HIDE DEF V, F
  <2>2. UNION {w[1]..w[2] : w \in V} = F
    BY <2>1 DEF Tiles
  <2>3. \A v, w \in V : v # w => (v[1]..v[2]) \cap (w[1]..w[2]) = {}
    <3> SUFFICES ASSUME NEW v \in V, NEW w \in V, v # w PROVE (v[1]..v[2]) \cap (w[1]..w[2]) = {}
      OBVIOUS
    <3>1. v[1] \in Nat /\ v[2] \in Nat /\ w[1] \in Nat /\ w[2] \in Nat /\ (v[2] < w[1] \/ w[2] < v[1])
      BY <2>1, TilesParts
    <3> QED
      BY <3>1
  <2>4. \A w \in V : w[2] - w[1] < Size /\ (w[2] - w[1] + 1 < Size => w[2] + 1 \notin F)
    BY <2>1 DEF Tiles
  <2> QED
    BY <2>2, <2>3, <2>4 DEF V, F
<1> QED
  BY <1>1, PTL

-----------------------------------------------------------------------------
(* Types of the PDFs and scopes.                                                *)

LEMMA LeastValue ==
  ASSUME NEW D, IsFiniteSet(D), D # {}, NEW f \in [D -> Int]
  PROVE  \E x \in D : \A y \in D : f[x] <= f[y]
<1> DEFINE S == {n \in Nat : \A U \in SUBSET D :
                    IsFiniteSet(U) /\ Cardinality(U) = n /\ U # {} => \E x \in U : \A y \in U : f[x] <= f[y]}
<1>1. 0 \in S
  BY FS_EmptySet
<1>2. ASSUME NEW n \in Nat, n \in S PROVE n + 1 \in S
  <2> SUFFICES ASSUME NEW U \in SUBSET D, IsFiniteSet(U), Cardinality(U) = n + 1, U # {}
               PROVE  \E x \in U : \A y \in U : f[x] <= f[y]
    OBVIOUS
  <2>1. PICK t \in U : TRUE
    OBVIOUS
  <2>2. IsFiniteSet(U \ {t}) /\ Cardinality(U \ {t}) = n
    <3> HIDE DEF S
    <3>1. IsFiniteSet(U \ {t}) /\ Cardinality(U \ {t}) = Cardinality(U) - 1
      BY FS_RemoveElement
    <3> QED
      BY <3>1
  <2>3. CASE U \ {t} = {}
    BY <2>3
  <2>4. CASE U \ {t} # {}
    <3>1. PICK x \in U \ {t} : \A y \in U \ {t} : f[x] <= f[y]
      BY <1>2, <2>2, <2>4
    <3> QED
      BY <3>1
  <2> QED
    BY <2>3, <2>4
<1> HIDE DEF S
<1>3. Nat \subseteq S
  BY <1>1, <1>2, Induction
<1>4. Cardinality(D) \in S
  BY <1>3, FS_CardinalityType
<1> QED
  BY <1>4 DEF S

LEMMA OnTopIsInt ==
  ASSUME \A d \in Docs : scopes[d].prio \in Int PROVE OnTop \in Int
<1>1. CASE Known = {}
  BY <1>1 DEF OnTop
<1>2. CASE Known # {}
  <2> DEFINE T == {scopes[d].prio : d \in Known}
             f == [d \in Known |-> scopes[d].prio]
             p == CHOOSE q \in T : \A d \in Known : q <= scopes[d].prio
  <2>1. Known \subseteq Docs /\ IsFiniteSet(Known)
    BY NotesAssumption, FS_Subset DEF Known
  <2>2. f \in [Known -> Int]
    BY <2>1
  <2>3. PICK x \in Known : \A y \in Known : f[x] <= f[y]
    <3> HIDE DEF f
    <3> QED
      BY <1>2, <2>1, <2>2, LeastValue
  <2>4. \E q \in T : \A d \in Known : q <= scopes[d].prio
    BY <2>3
  <2>5. p \in T
    BY <2>4
  <2>6. p \in Int
    BY <2>1, <2>5
  <2>7. OnTop = p - 1
    BY <1>2 DEF OnTop
  <2> QED
    BY <2>6, <2>7
<1> QED
  BY <1>1, <1>2

\* Moving a PDF numbers the stored ones from 0.
LEMMA MovedOrder ==
  ASSUME \A d \in Docs : scopes[d].prio \in Int, docs \in [Docs -> [born : Nat, available : BOOLEAN]],
         NEW d \in Available, NEW position \in Nat
  PROVE  MovedTo(d, position) \in [Available -> 0..(Cardinality(Available) - 1)]
<1> DEFINE rest == Available \ {d}
           at   == IF position < Cardinality(rest) THEN position ELSE Cardinality(rest)
<1>1. Available \subseteq Docs /\ IsFiniteSet(Available)
  BY NotesAssumption, FS_Subset DEF Available, Known
<1>2. IsFiniteSet(rest) /\ Cardinality(rest) = Cardinality(Available) - 1 /\ Cardinality(rest) \in Nat
  BY <1>1, FS_RemoveElement, FS_CardinalityType
<1>3. at \in 0..Cardinality(rest)
  BY <1>2
<1>4. ASSUME NEW x \in rest PROVE Index(x, rest) \in Nat /\ Index(x, rest) + 1 <= Cardinality(rest)
  <2> DEFINE above == {y \in rest : Above(y, x)}
  <2>1. x \notin above
    <3>1. scopes[x].prio \in Int /\ docs[x].born \in Nat
      BY <1>1
    <3> QED
      BY <3>1 DEF Above
  <2>2. IsFiniteSet(rest \ {x}) /\ Cardinality(rest \ {x}) = Cardinality(rest) - 1
    BY <1>2, FS_RemoveElement
  <2>3. above \subseteq rest \ {x}
    BY <2>1
  <2>4. Cardinality(above) \in Nat /\ Cardinality(above) <= Cardinality(rest \ {x})
    <3> HIDE DEF above
    <3> QED
      BY <2>2, <2>3, FS_Subset, FS_CardinalityType
  <2> HIDE DEF rest
  <2>5. Index(x, rest) = Cardinality(above)
    BY DEF Index
  <2> HIDE DEF above
  <2> QED
    BY <1>2, <2>2, <2>4, <2>5
<1> DEFINE value(x) == IF x = d THEN at ELSE Index(x, rest) + (IF Index(x, rest) >= at THEN 1 ELSE 0)
<1>5. MovedTo(d, position) = [x \in Available |-> value(x)]
  BY DEF MovedTo
<1>6. \A x \in Available : x = d \/ x \in rest
  OBVIOUS
<1> HIDE DEF at, rest
<1>7. ASSUME NEW x \in Available PROVE value(x) \in 0..(Cardinality(Available) - 1)
  <2>1. CASE x = d
    BY <1>2, <1>3, <2>1
  <2>2. CASE x # d
    <3>1. Index(x, rest) \in Nat /\ Index(x, rest) + 1 <= Cardinality(rest)
      BY <1>4, <1>6, <2>2
    <3>2. at \in Int /\ Cardinality(rest) \in Int /\ Cardinality(Available) - 1 = Cardinality(rest)
      BY <1>2, <1>3
    <3> QED
      BY <2>2, <3>1, <3>2
  <2> QED
    BY <2>1, <2>2
<1> HIDE DEF value
<1> QED
  BY <1>5, <1>7

LEMMA ScopeTyped ==
  ASSUME NEW d \in Docs, NEW s, IsScope(s), ValidRange(d, s), s.prio \in Int PROVE s \in Scopes
<1>1. PageCount[d] \in Nat
  BY NotesAssumption
<1>2. s \in [kinds : SUBSET Kinds, from : Nat, to : Nat, prio : {s.prio}]
  BY DEF IsScope
<1>3. s.from \in 1..PageCount[d] /\ s.to \in (1..PageCount[d]) \union {0}
  BY <1>1, <1>2 DEF ValidRange, LastPage
<1>4. s.from \in Pages /\ s.to \in Pages \union {0}
  BY <1>3 DEF Pages
<1> QED
  BY <1>2, <1>4 DEF Scopes

OrderJobs == [pc : {"renumber"}, order : UNION {[some -> 0..(Cardinality(some) - 1)] : some \in SUBSET Docs}]
ScopeJobs == [pc : {"save scope"}, doc : Docs, fields : SUBSET {"kinds", "from", "to"}, scope : Scopes]

LEMMA JobKinds ==
  /\ Jobs = {NoJob} \union FileJobs \union ScopeJobs \union OrderJobs
  /\ \A r \in Jobs : /\ r.pc = "save scope" => r \in ScopeJobs
                     /\ r.pc = "renumber" => r \in OrderJobs
                     /\ r.pc \in {"store", "record", "delete"} => r \in FileJobs
<1>1. Jobs = {NoJob} \union FileJobs \union ScopeJobs \union OrderJobs
  BY DEF Jobs, FileJobs, ScopeJobs, OrderJobs
<1>2. /\ \A r \in FileJobs : r.pc \in {"store", "record", "delete"}
      /\ \A r \in ScopeJobs : r.pc = "save scope"
      /\ \A r \in OrderJobs : r.pc = "renumber"
      /\ NoJob.pc = "idle"
  BY DEF FileJobs, ScopeJobs, OrderJobs, NoJob
<1> QED
  BY <1>1, <1>2

\* A request goes on.
LEMMA NotesGo ==
  ASSUME NotesTypeOK, NEW w \in Workers, NEW r \in Jobs, Go(w, r),
         docs' \in [Docs -> [born : Nat, available : BOOLEAN]], files' \subseteq Docs,
         scopes' \in [Docs -> Scopes], crossed' \subseteq Docs, edits' \in 0..MaxEdits
  PROVE  NotesTypeOK'
<1>1. job' = [job EXCEPT ![w] = r]
  BY DEF Go
<1>2. job' \in [Workers -> Jobs]
  BY <1>1 DEF NotesTypeOK
<1>3. Jobs' = Jobs /\ Scopes' = Scopes
  BY DEF Jobs, Scopes, Pages, NoJob
<1> QED
  BY <1>2, <1>3 DEF NotesTypeOK

LEMMA PatchNames ==
  ASSUME NEW d \in Docs, NEW patch \in Patches(d)
  PROVE  DOMAIN patch \in SUBSET {"kinds", "from", "to"}
  BY DEF Patches

\* What update_scope saves has the priority that was loaded.
LEMMA PatchKeepsPriority ==
  ASSUME NEW d \in Docs, NEW s \in Scopes, NEW patch \in Patches(d)
  PROVE  Normalized(d, Patched(s, patch)).prio = s.prio
<1>1. DOMAIN patch \in SUBSET {"kinds", "from", "to"}
  BY PatchNames
<1>2. DOMAIN s = {"kinds", "from", "to", "prio"}
  BY DEF Scopes
<1> DEFINE p == Patched(s, patch)
<1>3. p = [field \in {"kinds", "from", "to", "prio"} |-> IF field \in DOMAIN patch THEN patch[field] ELSE s[field]]
  BY <1>2 DEF Patched
<1>4. p["prio"] = s["prio"]
  BY <1>1, <1>3
<1>5. [p EXCEPT !.to = 0]["prio"] = s["prio"]
  BY <1>3, <1>4
<1> HIDE DEF p
<1> QED
  BY <1>4, <1>5 DEF Normalized, p

LEMMA RecordTypes ==
  ASSUME NotesTypeOK, Rows, NEW w \in Workers, Record(w) PROVE NotesTypeOK'
<1>1. job[w].doc \in Docs
  BY RowsParts DEF Record, On, FileJobs
<1>2. Rows'
  BY RecordRows
<1>3. \A d \in Docs : scopes[d].prio \in Int
  BY DEF NotesTypeOK, Scopes
<1>4. ASSUME NEW d \in Docs PROVE scopes'[d] \in Scopes
  <2>1. scopes'[d] = scopes[d] \/ scopes'[d] = [DefaultScope EXCEPT !.prio = OnTop]
    BY <1>1 DEF Record, Rows
  <2>2. CASE scopes'[d] = scopes[d]
    BY <2>2 DEF NotesTypeOK
  <2>3. CASE scopes'[d] = [DefaultScope EXCEPT !.prio = OnTop]
    <3>1. scopes'[d].prio = OnTop
      BY <2>3 DEF DefaultScope
    <3>2. IsScope(scopes'[d]) /\ ValidRange(d, scopes'[d])
      BY <2>3, DefaultIsValid
    <3>3. OnTop \in Int
      BY <1>3, OnTopIsInt
    <3> QED
      BY <3>1, <3>2, <3>3, ScopeTyped
  <2> QED
    BY <2>1, <2>2, <2>3
<1>5. scopes' \in [Docs -> Scopes]
  BY <1>2, <1>4 DEF Rows
<1>6. docs' \in [Docs -> [born : Nat, available : BOOLEAN]]
  BY <1>2 DEF Rows
<1>7. NoJob \in Jobs /\ Go(w, NoJob) /\ files' \subseteq Docs /\ crossed' \subseteq Docs /\ edits' \in 0..MaxEdits
  BY JobKinds DEF Record, NotesTypeOK
<1> QED
  BY <1>5, <1>6, <1>7, NotesGo

LEMMA RenumberTypes ==
  ASSUME NotesTypeOK, NEW w \in Workers, Renumber(w) PROVE NotesTypeOK'
<1> DEFINE order == job[w].order
<1>1. job[w] \in OrderJobs
  BY JobKinds DEF Renumber, On, NotesTypeOK
<1>2. PICK some \in SUBSET Docs : order \in [some -> 0..(Cardinality(some) - 1)]
  BY <1>1 DEF OrderJobs
<1>3. \A d \in DOMAIN order : order[d] \in Int
  BY <1>2
<1>4. /\ scopes' = [d \in Docs |-> IF d \in DOMAIN order THEN [scopes[d] EXCEPT !.prio = order[d]] ELSE scopes[d]]
      /\ Go(w, NoJob) /\ UNCHANGED <<docs, files, crossed, edits>>
  BY DEF Renumber
<1> HIDE DEF order
<1>5. \A d \in Docs : scopes[d] \in Scopes
  BY DEF NotesTypeOK
<1>6. \A s \in Scopes, n \in Int : [s EXCEPT !.prio = n] \in Scopes
  BY DEF Scopes
<1>7. scopes' \in [Docs -> Scopes]
  BY <1>3, <1>4, <1>5, <1>6
<1>8. NoJob \in Jobs
  BY JobKinds
<1> QED
  BY <1>4, <1>7, <1>8, NotesGo DEF NotesTypeOK

LEMMA NotesTypes ==
  ASSUME NotesTypeOK, Rows, NotesNext PROVE NotesTypeOK'
<1>0. Rows' /\ NoJob \in Jobs /\ FileJobs \subseteq Jobs /\ ScopeJobs \subseteq Jobs /\ OrderJobs \subseteq Jobs
  BY NotesRows, JobKinds
<1>1. ASSUME NEW w \in Workers, NEW r \in Jobs, Go(w, r), files' \subseteq Docs, crossed' \subseteq Docs,
             UNCHANGED scopes, edits' = edits \/ (edits < MaxEdits /\ edits' = edits + 1)
      PROVE  NotesTypeOK'
  <2>1. edits' \in 0..MaxEdits
    BY <1>1, NotesAssumption DEF NotesTypeOK
  <2>2. scopes' \in [Docs -> Scopes]
    BY <1>1 DEF NotesTypeOK
  <2>3. docs' \in [Docs -> [born : Nat, available : BOOLEAN]]
    BY <1>0 DEF Rows
  <2> QED
    BY <1>1, <2>1, <2>2, <2>3, NotesGo
<1>2. files \subseteq Docs /\ crossed \subseteq Docs /\ job \in [Workers -> Jobs]
  BY DEF NotesTypeOK
<1>3. ASSUME NEW w \in Workers, NEW d \in Docs, Stage(w, d) \/ MarkRemoved(w, d) PROVE NotesTypeOK'
  <2>1. \A pc \in {"store", "delete"} : [pc |-> pc, doc |-> d] \in FileJobs
    BY DEF FileJobs
  <2> QED
    BY <1>0, <1>1, <1>2, <1>3, <2>1 DEF Stage, MarkRemoved, Ask
<1>4. ASSUME NEW w \in Workers, Store(w) PROVE NotesTypeOK'
  <2>1. /\ job[w] \in FileJobs /\ Go(w, [job[w] EXCEPT !.pc = "record"]) /\ UNCHANGED <<scopes, crossed, edits>>
        /\ files' = files \union {job[w].doc}
    BY <1>4, RowsParts DEF Store, On
  <2>2. [job[w] EXCEPT !.pc = "record"] \in FileJobs /\ job[w].doc \in Docs
    BY <2>1 DEF FileJobs
  <2> QED
    BY <1>0, <1>1, <1>2, <2>1, <2>2
<1>5. ASSUME NEW w \in Workers, Record(w) PROVE NotesTypeOK'
  BY <1>5, RecordTypes
<1>6. ASSUME NEW w \in Workers, DeleteFile(w) \/ Kill(w) PROVE NotesTypeOK'
  BY <1>0, <1>1, <1>2, <1>6 DEF DeleteFile, Kill
<1>7. ASSUME NEW w \in Workers, NEW d \in Docs, LoadScope(w, d) PROVE NotesTypeOK'
  <2>1. PICK patch \in Patches(d) :
          /\ ValidRange(d, Patched(scopes[d], patch))
          /\ Go(w, [pc |-> "save scope", doc |-> d, fields |-> DOMAIN patch,
                    scope |-> Normalized(d, Patched(scopes[d], patch))])
    BY <1>7 DEF LoadScope
  <2> DEFINE u == Normalized(d, Patched(scopes[d], patch))
             r == [pc |-> "save scope", doc |-> d, fields |-> DOMAIN patch, scope |-> u]
  <2>2. IsScope(u) /\ ValidRange(d, u)
    BY <2>1, PatchedIsValid DEF Rows
  <2>3. scopes[d] \in Scopes /\ scopes[d].prio \in Int
    BY DEF NotesTypeOK, Scopes
  <2>4. u.prio = scopes[d].prio
    BY <2>3, PatchKeepsPriority
  <2>5. DOMAIN patch \in SUBSET {"kinds", "from", "to"}
    BY PatchNames
  <2> HIDE DEF u
  <2>6. u \in Scopes
    BY <2>2, <2>3, <2>4, ScopeTyped
  <2>7. r \in ScopeJobs
    BY <2>5, <2>6 DEF ScopeJobs
  <2>8. Go(w, r) /\ UNCHANGED <<files, scopes, crossed>> /\ edits < MaxEdits /\ edits' = edits + 1
    BY <1>7, <2>1 DEF LoadScope, Ask, u
  <2> QED
    BY <1>0, <1>1, <1>2, <2>7, <2>8
<1>8. ASSUME NEW w \in Workers, SaveScope(w) PROVE NotesTypeOK'
  <2>1. /\ scopes' = [scopes EXCEPT ![job[w].doc] = job[w].scope] /\ Go(w, NoJob) /\ UNCHANGED <<docs, files, crossed, edits>>
        /\ job[w] \in ScopeJobs
    BY <1>2, <1>8, JobKinds DEF SaveScope, On
  <2>2. scopes' \in [Docs -> Scopes]
    BY <2>1 DEF ScopeJobs, NotesTypeOK
  <2> QED
    BY <1>0, <2>1, <2>2, NotesGo DEF NotesTypeOK
<1>9. ASSUME NEW w \in Workers, NEW d \in Docs, LoadOrder(w, d) PROVE NotesTypeOK'
  <2>1. PICK position \in 0..(Cardinality(Docs) - 1) : Go(w, [pc |-> "renumber", order |-> MovedTo(d, position)])
    BY <1>9 DEF LoadOrder
  <2>2. position \in Nat
    BY NotesAssumption, FS_CardinalityType
  <2>3. MovedTo(d, position) \in [Available -> 0..(Cardinality(Available) - 1)]
    <3>1. \A x \in Docs : scopes[x].prio \in Int
      BY DEF NotesTypeOK, Scopes
    <3>2. d \in Available
      BY <1>9 DEF LoadOrder
    <3> QED
      BY <2>2, <3>1, <3>2, MovedOrder DEF Rows
  <2>4. Available \in SUBSET Docs
    BY DEF Available, Known
  <2>5. [pc |-> "renumber", order |-> MovedTo(d, position)] \in OrderJobs
    BY <2>3, <2>4 DEF OrderJobs
  <2> QED
    BY <1>0, <1>1, <1>2, <1>9, <2>1, <2>5 DEF LoadOrder, Ask
<1>10. ASSUME NEW w \in Workers, Renumber(w) PROVE NotesTypeOK'
  BY <1>10, RenumberTypes
<1> QED
  BY <1>3, <1>4, <1>5, <1>6, <1>7, <1>8, <1>9, <1>10 DEF NotesNext, Serve, Edit

-----------------------------------------------------------------------------
(* Types of the work.                                                           *)

WorkTypes ==
    /\ DOMAIN chunks \subseteq Chunks
    /\ \A c \in DOMAIN chunks : chunks[c] \in {"unread", "read", "unreadable"}
    /\ DOMAIN tasks \subseteq (DOMAIN chunks) \X Kinds
    /\ \A t \in DOMAIN tasks : tasks[t] \in Statuses

\* A claim has seen ranges of pages that are there, and plans to create chunks of them.
TypedClaim(c) ==
    /\ c.pc \in {"idle", "docs", "waiting", "chunks", "windows", "reason", "lock", "take", "create"}
    /\ \A d \in DOMAIN c.snap : /\ d \in Docs /\ c.snap[d].from \in Nat \ {0} /\ c.snap[d].last \in Nat
                                /\ c.snap[d].from <= c.snap[d].last /\ c.snap[d].last <= PageCount[d]
    /\ c.serial \in BOOLEAN
    /\ c.pc = "create" /\ c.plan[1] = "window" => c.plan[2] \in Chunks

Typed == NotesTypeOK /\ WorkTypes /\ (\A r \in Claimers : TypedClaim(claim[r])) /\ mishaps \in 0..MaxMishaps

LEMMA SameTypes ==
  /\ UNCHANGED notesVars => NotesTypeOK' = NotesTypeOK
  /\ UNCHANGED workVars => WorkTypes' = WorkTypes
  /\ Chunks' = Chunks
<1>1. Jobs' = Jobs /\ Scopes' = Scopes /\ Chunks' = Chunks
  BY DEF Jobs, Scopes, Pages, NoJob, Chunks
<1> QED
  BY <1>1 DEF notesVars, workVars, NotesTypeOK, WorkTypes, Statuses

\* A claim goes on.
LEMMA TypedMove ==
  ASSUME Typed, Claims, NEW r \in Claimers, NEW c, Set(r, c), TypedClaim(c), UNCHANGED notesVars,
         WorkTypes', mishaps' \in 0..MaxMishaps
  PROVE  Typed'
<1>1. claim'[r] = c /\ \A o \in Claimers \ {r} : claim'[o] = claim[o]
  BY SetOne DEF Claims
<1>2. \A e : TypedClaim(e)' = TypedClaim(e)
  BY SameTypes DEF TypedClaim
<1>3. ASSUME NEW o \in Claimers PROVE TypedClaim(claim'[o])
  BY <1>1 DEF Typed
<1>4. NotesTypeOK'
  BY SameTypes DEF Typed
<1> QED
  BY <1>3, <1>4, SameTypes DEF Typed, TypedClaim

LEMMA NoClaimTyped == TypedClaim(NoClaim) /\ TypedClaim([NoClaim EXCEPT !.pc = "docs"])
  BY DEF TypedClaim, NoClaim

LEMMA WindowIsChunk ==
  ASSUME NEW d \in Docs, NEW covered, NEW first \in Nat \ {0}, NEW last \in Nat, first <= last, last <= PageCount[d],
         NEW w \in Windows(covered, first, last)
  PROVE  [doc |-> d, from |-> w[1], to |-> w[2]] \in Chunks
<1>1. Tiles(Windows(covered, first, last), FreePages(covered, first, last))
  BY AnyRangeIsTiled
<1>2. /\ w[1] \in Nat /\ w[2] \in Nat /\ w[1] <= w[2] /\ w[1]..w[2] \subseteq FreePages(covered, first, last)
  BY <1>1, TilesParts
<1>3. w[1] \in first..last /\ w[2] \in first..last
  BY <1>2 DEF FreePages
<1>4. w[1] \in 1..PageCount[d] /\ w[2] \in 1..PageCount[d]
  BY <1>3, NotesAssumption
<1> QED
  BY <1>4 DEF Chunks, Pages

LEMMA TypedPicks ==
  ASSUME Typed, Claims, Rows, NEW r \in Claimers, Claiming(r) \/ Killed(r), UNCHANGED workVars PROVE Typed'
<1>1. UNCHANGED notesVars /\ WorkTypes' /\ mishaps' \in 0..MaxMishaps
  <2>1. UNCHANGED notesVars /\ WorkTypes'
    BY SameTypes DEF Typed, Claiming, LoadDocs, PickWaiting, PickChunk, PickWindow, GiveReason, Serialize, Take, Create, Killed
  <2>2. mishaps' = mishaps \/ (mishaps < MaxMishaps /\ mishaps' = mishaps + 1)
    BY DEF Claiming, LoadDocs, PickWaiting, PickChunk, PickWindow, GiveReason, Serialize, Take, Create, Killed
  <2> QED
    BY <2>1, <2>2, PlannerAssumption DEF Typed
<1>2. IsClaim(claim[r]) /\ TypedClaim(claim[r])
  BY DEF Claims, Shapes, Typed
<1>3. ASSUME NEW c, Set(r, c), TypedClaim(c) PROVE Typed'
  BY <1>1, <1>3, TypedMove
<1>4. CASE Set(r, NoClaim)
  BY <1>3, <1>4, NoClaimTyped
<1>5. ASSUME NEW pc \in {"waiting", "chunks", "windows", "reason", "take", "docs", "lock"}, NEW held, NEW plan, NEW serial \in BOOLEAN,
             NEW c, c = [claim[r] EXCEPT !.pc = pc, !.held = held, !.serial = serial, !.plan = plan], Set(r, c)
      PROVE  Typed'
  <2>1. c.pc = pc /\ c.snap = claim[r].snap /\ c.serial = serial
    BY <1>2, <1>5 DEF IsClaim
  <2>2. TypedClaim(c)
    BY <1>2, <2>1 DEF TypedClaim
  <2> QED
    BY <1>3, <1>5, <2>2
<1>6. CASE LoadDocs(r)
  <2> DEFINE snap == [d \in Eligible(KindOf[r]) |->
                        [from |-> scopes[d].from, last |-> LastPage(d, scopes[d]), place |-> Index(d, Available)]]
             c    == [claim[r] EXCEPT !.pc = "waiting", !.snap = snap]
  <2>1. Set(r, NoClaim) \/ Set(r, c)
    BY <1>6 DEF LoadDocs
  <2>2. \A d \in DOMAIN snap : /\ d \in Docs /\ snap[d].from \in Nat \ {0} /\ snap[d].last \in Nat
                               /\ snap[d].from <= snap[d].last /\ snap[d].last <= PageCount[d]
    <3>1. \A d \in DOMAIN snap : d \in Docs /\ snap[d].from = scopes[d].from /\ snap[d].last = LastPage(d, scopes[d])
      BY DEF Eligible, Available, Known
    <3> HIDE DEF snap
    <3> QED
      BY <3>1, ScopeBounds
  <2> HIDE DEF snap
  <2>3. c.pc = "waiting" /\ c.snap = snap /\ c.serial = claim[r].serial
    BY <1>2 DEF IsClaim
  <2> HIDE DEF c
  <2>4. TypedClaim(c)
    BY <1>2, <2>2, <2>3 DEF TypedClaim
  <2> QED
    BY <1>3, <1>4, <2>1, <2>4
<1>7. CASE PickWaiting(r)
  <2>1. \E pc \in {"chunks", "take"} : \E held, plan :
          Set(r, [claim[r] EXCEPT !.pc = pc, !.held = held, !.serial = claim[r].serial, !.plan = plan])
    <3>1. ASSUME NEW held, Set(r, [[claim[r] EXCEPT !.held = @ \union held] EXCEPT !.pc = "chunks"])
          PROVE  Set(r, [claim[r] EXCEPT !.pc = "chunks", !.held = @ \union held, !.serial = @, !.plan = @])
      BY <1>2, <3>1 DEF IsClaim
    <3>2. ASSUME NEW held, NEW c, Set(r, [[claim[r] EXCEPT !.held = @ \union held] EXCEPT !.pc = "take", !.plan = <<"task", c>>])
          PROVE  Set(r, [claim[r] EXCEPT !.pc = "take", !.held = @ \union held, !.serial = @, !.plan = <<"task", c>>])
      BY <1>2, <3>2 DEF IsClaim
    <3> QED
      BY <1>7, <3>1, <3>2 DEF PickWaiting
  <2>2. claim[r].serial \in BOOLEAN
    BY <1>2 DEF TypedClaim
  <2> QED
    BY <1>5, <2>1, <2>2
<1>8. ASSUME NEW pc \in {"windows", "reason", "docs"}, NEW serial \in BOOLEAN, NEW c, Set(r, c),
             c = [claim[r] EXCEPT !.pc = pc, !.serial = serial] \/ c = [claim[r] EXCEPT !.pc = pc]
      PROVE  Typed'
  <2>1. c.pc = pc /\ c.snap = claim[r].snap /\ (c.serial = serial \/ c.serial = claim[r].serial)
    BY <1>2, <1>8 DEF IsClaim
  <2>2. TypedClaim(c)
    BY <1>2, <2>1 DEF TypedClaim
  <2> QED
    BY <1>3, <1>8, <2>2
<1>9. ASSUME NEW what \in {"chunk", "window"}, NEW chunk, what = "window" => chunk \in Chunks, Set(r, Plan(r, what, chunk))
      PROVE  Typed'
  <2> DEFINE pc == IF claim[r].serial THEN "create" ELSE "lock"
             c  == [claim[r] EXCEPT !.pc = pc, !.plan = <<what, chunk>>]
  <2>0. pc \in {"create", "lock"}
    OBVIOUS
  <2> HIDE DEF pc
  <2>1. c.pc = pc /\ c.snap = claim[r].snap /\ c.serial = claim[r].serial /\ c.plan[1] = what /\ c.plan[2] = chunk
    BY <1>2 DEF IsClaim
  <2> HIDE DEF c
  <2>2. Set(r, c)
    BY <1>9 DEF c, pc, Plan
  <2>3. TypedClaim(c)
    BY <1>2, <1>9, <2>0, <2>1 DEF TypedClaim
  <2> QED
    BY <1>3, <2>2, <2>3
<1>10. CASE PickChunk(r)
  <2>1. Set(r, [claim[r] EXCEPT !.pc = "windows"]) \/ \E c : Set(r, Plan(r, "chunk", c))
    BY <1>10 DEF PickChunk
  <2> QED
    BY <1>8, <1>9, <2>1
<1>11. CASE PickWindow(r)
  <2> DEFINE new == UNION {{[doc |-> d, from |-> w[1], to |-> w[2]] : w \in Windows(Covered(d), Snap(r)[d].from, Snap(r)[d].last)}
                           : d \in DOMAIN Snap(r)}
  <2>1. \/ Set(r, [claim[r] EXCEPT !.pc = "reason"])
        \/ \E c \in FirstOf(r, new) : Set(r, Plan(r, "window", c))
    BY <1>11 DEF PickWindow
  <2>2. new \subseteq Chunks
    BY <1>2, WindowIsChunk DEF TypedClaim, Snap
  <2>3. FirstOf(r, new) \subseteq new
    BY DEF FirstOf
  <2> HIDE DEF new
  <2> QED
    BY <1>8, <1>9, <2>1, <2>2, <2>3
<1>12. CASE Serialize(r)
  BY <1>8, <1>12 DEF Serialize
<1>13. CASE Create(r)
  BY <1>3, <1>4, <1>13, NoClaimTyped DEF Create
<1> QED
  BY <1>4, <1>6, <1>7, <1>10, <1>11, <1>12, <1>13 DEF Claiming, GiveReason, Take, Killed

\* A task is made or claimed, of a chunk that is there.
LEMMA TaskTyped ==
  ASSUME WorkTypes, NEW c, NEW kind \in Kinds, tasks' = With(tasks, <<c, kind>>, "claimed"),
         DOMAIN chunks' = DOMAIN chunks \union {c}, DOMAIN chunks' \subseteq Chunks,
         \A x \in DOMAIN chunks' : chunks'[x] \in {"unread", "read", "unreadable"}
  PROVE  WorkTypes'
<1> DEFINE t == <<c, kind>>
<1>1. t \in (DOMAIN chunks') \X Kinds
  OBVIOUS
<1> HIDE DEF t
<1>2. DOMAIN tasks' = DOMAIN tasks \union {t} /\ \A u \in DOMAIN tasks' : tasks'[u] = tasks[u] \/ tasks'[u] = "claimed"
  BY DEF With, t
<1>3. \A u \in DOMAIN tasks' : tasks'[u] \in Statuses
  <2>1. \A u \in DOMAIN tasks' : u # t => u \in DOMAIN tasks
    BY <1>2
  <2>2. tasks'[t] = "claimed"
    BY DEF With, t
  <2>3. "claimed" \in Statuses
    BY DEF Statuses
  <2> QED
    BY <1>2, <2>1, <2>2, <2>3 DEF WorkTypes
<1>4. DOMAIN tasks' \subseteq (DOMAIN chunks') \X Kinds
  BY <1>1, <1>2 DEF WorkTypes
<1> QED
  BY <1>3, <1>4, SameTypes DEF WorkTypes, Statuses

LEMMA TypedWork ==
  ASSUME Typed, NEW t \in DOMAIN tasks, Work(t) \/ Fail(t) \/ Lapse(t) \/ Retry(t) PROVE Typed'
<1>1. /\ UNCHANGED notesVars /\ UNCHANGED claim /\ DOMAIN chunks' = DOMAIN chunks /\ DOMAIN tasks' = DOMAIN tasks
      /\ \A x \in DOMAIN chunks : chunks'[x] \in {chunks[x], "unreadable", "read"}
  BY DEF Work, ReadPages, Complete, Fail, Lapse, Retry, Mishap, SetTask
<1>2. \A u \in DOMAIN tasks : tasks'[u] \in {tasks[u], "claimed", "skipped", "done", "pending", "failed", "lapsed"}
  BY DEF Work, ReadPages, Complete, Fail, Lapse, Retry, SetTask
<1>3. WorkTypes'
  <2>1. \A u \in DOMAIN tasks' : tasks'[u] \in Statuses
    BY <1>1, <1>2 DEF Typed, WorkTypes, Statuses
  <2>2. \A x \in DOMAIN chunks' : chunks'[x] \in {"unread", "read", "unreadable"}
    BY <1>1 DEF Typed, WorkTypes
  <2> QED
    BY <1>1, <2>1, <2>2, SameTypes DEF Typed, WorkTypes, Statuses
<1>4. mishaps' \in 0..MaxMishaps
  <2>1. mishaps' = mishaps \/ (mishaps < MaxMishaps /\ mishaps' = mishaps + 1)
    BY DEF Work, ReadPages, Complete, Fail, Lapse, Retry, Mishap
  <2> QED
    BY <2>1, PlannerAssumption DEF Typed
<1> QED
  BY <1>1, <1>3, <1>4, SameTypes DEF Typed, TypedClaim

LEMMA TypedMakes ==
  ASSUME Typed, Claims, NEW r \in Claimers, Take(r) \/ Create(r), ~UNCHANGED workVars PROVE Typed'
<1> DEFINE c == claim[r].plan[2]
<1>1. /\ UNCHANGED notesVars /\ mishaps' \in 0..MaxMishaps /\ Set(r, NoClaim) /\ KindOf[r] \in Kinds
      /\ tasks' = With(tasks, <<c, KindOf[r]>>, "claimed")
  BY PlannerAssumption DEF Take, Create, Typed
<1>2. CASE Take(r)
  <2>1. c \in DOMAIN chunks /\ UNCHANGED chunks
    BY <1>2 DEF Take, Claims, Chosen, Locks, Shapes
  <2> HIDE DEF c
  <2>2. WorkTypes'
    BY <1>1, <2>1, TaskTyped DEF Typed, WorkTypes
  <2> QED
    BY <1>1, <2>2, NoClaimTyped, TypedMove
<1>3. CASE Create(r) /\ claim[r].plan[1] = "window"
  <2>1. chunks' = With(chunks, c, "unread") /\ c \in Chunks
    BY <1>3 DEF Create, Typed, TypedClaim, OnStep
  <2> HIDE DEF c
  <2>2. DOMAIN chunks' = DOMAIN chunks \union {c}
        /\ \A x \in DOMAIN chunks' : chunks'[x] \in {"unread", "read", "unreadable"}
    BY <2>1 DEF With, Typed, WorkTypes
  <2>3. DOMAIN chunks' \subseteq Chunks
    BY <2>1, <2>2 DEF Typed, WorkTypes
  <2>4. WorkTypes'
    BY <1>1, <2>2, <2>3, TaskTyped DEF Typed
  <2> QED
    BY <1>1, <2>4, NoClaimTyped, TypedMove
<1>4. CASE Create(r) /\ claim[r].plan[1] # "window"
  <2>1. c \in DOMAIN chunks /\ UNCHANGED chunks
    BY <1>4 DEF Create, Claims, Planned, workVars
  <2> HIDE DEF c
  <2>2. WorkTypes'
    BY <1>1, <2>1, TaskTyped DEF Typed, WorkTypes
  <2> QED
    BY <1>1, <2>2, NoClaimTyped, TypedMove
<1> QED
  BY <1>2, <1>3, <1>4

LEMMA TypedStep ==
  ASSUME Typed, Claims, Rows, [Next]_vars PROVE Typed'
<1>1. CASE NotesStep
  <2>1. NotesTypeOK' /\ UNCHANGED <<workVars, claim, mishaps>>
    BY <1>1, NotesTypes DEF NotesStep, Typed
  <2> QED
    BY <2>1, SameTypes DEF Typed, TypedClaim
<1>2. ASSUME NEW r \in Claimers, Claiming(r) \/ Killed(r) PROVE Typed'
  <2>1. CASE UNCHANGED workVars
    BY <1>2, <2>1, TypedPicks
  <2>2. CASE ~UNCHANGED workVars
    <3>1. Take(r) \/ Create(r)
      BY <1>2, <2>2 DEF Claiming, LoadDocs, PickWaiting, PickChunk, PickWindow, GiveReason, Serialize, Killed
    <3> QED
      BY <2>2, <3>1, TypedMakes
  <2> QED
    BY <2>1, <2>2
<1>3. ASSUME NEW t \in DOMAIN tasks, Work(t) \/ Fail(t) \/ Lapse(t) \/ Retry(t) PROVE Typed'
  BY <1>3, TypedWork
<1>4. CASE UNCHANGED vars
  BY <1>4, SameTypes DEF vars, Typed, TypedClaim
<1> QED
  BY <1>1, <1>2, <1>3, <1>4 DEF Next

LEMMA TypedInit == Init => Typed
<1> SUFFICES ASSUME Init PROVE Typed
  OBVIOUS
<1>1. docs \in [Docs -> [born : Nat, available : BOOLEAN]]
  <2>1. \A d \in Docs : Cardinality({x \in Stored : x <= d}) \in Nat
    BY NotesAssumption, FS_Subset, FS_CardinalityType
  <2> QED
    BY <2>1 DEF Init, NotesInit
<1>2. \A d \in Docs : DefaultScope \in Scopes
  <2> TAKE d \in Docs
  <2>1. DefaultScope = [DefaultScope EXCEPT !.prio = 0] /\ DefaultScope.prio = 0
    BY DEF DefaultScope
  <2>2. IsScope(DefaultScope) /\ ValidRange(d, DefaultScope)
    BY <2>1, DefaultIsValid
  <2> QED
    BY <2>1, <2>2, ScopeTyped
<1>3. scopes \in [Docs -> Scopes]
  BY <1>2 DEF Init, NotesInit
<1>4. job \in [Workers -> Jobs]
  BY JobKinds DEF Init, NotesInit
<1>5. NotesTypeOK
  BY <1>1, <1>3, <1>4, NotesAssumption DEF Init, NotesInit, NotesTypeOK
<1>6. WorkTypes
  BY DEF Init, WorkTypes
<1>7. \A r \in Claimers : TypedClaim(claim[r])
  BY NoClaimTyped DEF Init
<1>8. mishaps \in 0..MaxMishaps
  BY PlannerAssumption DEF Init
<1> QED
  BY <1>5, <1>6, <1>7, <1>8 DEF Typed

\* Whatever requests and claims interleave, chunks are of pages the PDFs have, tasks
\* are of chunks there are, scopes and moves are in range, and the locks of claims
\* are on tasks (models.py, planner.py, notes.py).
THEOREM PlannerTypes == Spec => []TypeOK
<1>1. Init => Typed
  BY TypedInit
<1>2. Rows /\ Claims /\ Typed /\ [Next]_vars => Typed'
  BY TypedStep
<1>3. Typed /\ Claims => TypeOK
  BY DEF Typed, WorkTypes, TypedClaim, Claims, Locks, TypeOK, Snap
<1> QED
  BY <1>1, <1>2, <1>3, RowsInvariant, ClaimsInvariant, PTL DEF Spec
=============================================================================
