------------------------------ MODULE QuizProofs ------------------------------
(* The daily quiz and the activity tracker, for every pool, number of days and  *)
(* requests, whichever of them overlap.                                         *)
EXTENDS QuizSession, FiniteSetTheorems, WellFoundedInduction, TLAPS

-----------------------------------------------------------------------------
(* What the requests in flight carry, and what building a set does.             *)

LEMMA IdleIsRequest == Idle \in Requests
  BY DEF Requests

LEMMA RequestFields ==
  ASSUME NEW r \in Requests
  PROVE  /\ r.pc = "release" => r.day \in 1..Days /\ r.stale \in SUBSET Nat
         /\ r.pc = "rebuild" => r.day \in 1..Days /\ r.scope \in Scopes /\ r.current \in SUBSET Nat
         /\ r.pc \in {"build", "refresh"} => r.day \in 1..Days
         /\ r.pc = "insert row" => r.day \in 1..Days /\ r.row \in Row /\ r.watch \in {0, 1}
         /\ r.pc = "insert attempt" => r.set \in Nat /\ r.asked \in SUBSET Questions /\ r.passed \in BOOLEAN
         /\ r.pc = "save settings" => r.old \in Prefs /\ r.goal \in Goals /\ r.refreshes \in BOOLEAN
<1>1. CASE r = Idle
  BY <1>1 DEF Idle
<1>2. CASE r # Idle
  BY <1>2 DEF Requests
<1> QED
  BY <1>1, <1>2

LEMMA ReleaseRequest ==
  ASSUME NEW r \in Requests, r.pc = "release"
  PROVE  r \in [pc : {"release"}, day : 1..Days, stale : SUBSET Nat]
<1>1. r # Idle
  BY DEF Idle
<1>2. /\ r \notin [pc : {"rebuild"}, day : 1..Days, scope : Scopes, current : SUBSET Nat]
      /\ r \notin [pc : {"build", "refresh"}, day : 1..Days]
      /\ r \notin [pc : {"insert row"}, day : 1..Days, row : Row, watch : {0, 1}]
      /\ r \notin [pc : {"insert attempt"}, set : Nat, asked : SUBSET Questions, passed : BOOLEAN]
      /\ r \notin [pc : {"save settings"}, old : Prefs, goal : Goals, refreshes : BOOLEAN]
  OBVIOUS
<1> QED
  BY <1>1, <1>2, Zenon DEF Requests

LEMMA Sums == (\A m, n \in Nat : m + n \in Nat /\ (m + 1)..n \subseteq Nat) /\ {0, 1} \subseteq Nat
  OBVIOUS

SetsOK(some, last) ==
    some \subseteq [id : 1..last, on : 1..Days, cycle : Nat \ {0}, asks : SUBSET Questions]

AttemptsOK(some, last) ==
    some \subseteq [set : 1..last, at : 1..Days, asked : SUBSET Questions, passed : BOOLEAN]

LEMMA GrowSets ==
  ASSUME NEW some, NEW tries, NEW last \in Nat, NEW more \in Nat, SetsOK(some, last), AttemptsOK(tries, last),
         last <= more
  PROVE  SetsOK(some, more) /\ AttemptsOK(tries, more)
<1>1. 1..last \subseteq 1..more
  OBVIOUS
<1>2. SetsOK(some, more)
  BY <1>1 DEF SetsOK
<1>3. AttemptsOK(tries, more)
  BY <1>1 DEF AttemptsOK
<1> QED
  BY <1>2, <1>3

\* build_set keeps what remains, and may add a set: of the day, of the settings' cycle
\* or the next, which asks nothing that the cycle has asked already.
LEMMA BuildAdds ==
  ASSUME NEW remaining, NEW inScope, NEW d, made \in Nat, prefs \in Prefs,
         BuildSet(remaining, inScope, d), ~(sets' = remaining /\ UNCHANGED <<made, prefs>>)
  PROVE  \E new : /\ sets' = remaining \union {new} /\ made' = made + 1
                  /\ prefs' = [prefs EXCEPT !.cycle = new.cycle]
                  /\ new = [id |-> made', on |-> d, cycle |-> new.cycle, asks |-> new.asks]
                  /\ new.asks \subseteq inScope
                  /\ \/ new.cycle = prefs.cycle + 1
                     \/ new.cycle = prefs.cycle /\ new.asks \cap Used(remaining, prefs.cycle) = {}
<1> DEFINE new   == NextSet(remaining, inScope, d)
           fresh == inScope \ Used(remaining, prefs.cycle)
<1>1. sets' = remaining \union {new} /\ made' = new.id /\ prefs' = [prefs EXCEPT !.cycle = new.cycle]
  BY DEF BuildSet
<1>2. /\ new.id = made + 1 /\ new.on = d
      /\ new.cycle = (IF fresh = {} THEN prefs.cycle + 1 ELSE prefs.cycle)
      /\ new.asks = Oldest(IF fresh = {} THEN inScope ELSE fresh)
      /\ new = [id |-> new.id, on |-> new.on, cycle |-> new.cycle, asks |-> new.asks]
  BY DEF NextSet
<1>3. new.asks \subseteq inScope /\ (fresh # {} => new.asks \subseteq fresh)
  BY <1>2 DEF Oldest
<1>4. new.cycle = prefs.cycle + 1 \/ (new.cycle = prefs.cycle /\ new.asks \cap Used(remaining, prefs.cycle) = {})
  BY <1>2, <1>3
<1>5. made' = made + 1 /\ new = [id |-> made', on |-> d, cycle |-> new.cycle, asks |-> new.asks]
  BY <1>1, <1>2
<1> HIDE DEF new, fresh
<1> QED
  BY <1>1, <1>3, <1>4, <1>5

-----------------------------------------------------------------------------
(* Types.                                                                       *)

SetsPart == /\ SetsOK(sets, made) /\ made \in Nat /\ prefs \in Prefs /\ AttemptsOK(recorded, made)
            /\ attempts \subseteq recorded /\ settled \subseteq recorded /\ rewound \subseteq Nat

DaysPart == /\ today \in 1..Days /\ scope \in Scopes
            /\ watches \in [1..Days -> Nat] /\ rows \in [1..Days -> Row]
            /\ missed \subseteq 1..Days /\ kills \in Nat

ReqPart == req \in [Workers -> Requests]

LEMMA QuizParts == Typed <=> SetsPart /\ DaysPart /\ ReqPart /\ served \in Nat
  BY DEF Typed, SetsPart, SetsOK, AttemptsOK, DaysPart, ReqPart

LEMMA GoKeepsTypes ==
  ASSUME ReqPart, NEW w \in Workers, NEW r \in Requests, Go(w, r)
  PROVE  ReqPart'
  BY DEF ReqPart, Go

LEMMA QuietSets ==
  ASSUME SetsPart, UNCHANGED <<sets, made, attempts, prefs, history>> PROVE SetsPart'
  BY DEF SetsPart, history

\* Fewer sets and attempts, and the rest as it was.
LEMMA FewerSets ==
  ASSUME SetsPart, sets' \subseteq sets, attempts' \subseteq attempts, UNCHANGED <<made, prefs, history>>
  PROVE  SetsPart'
  BY DEF SetsPart, SetsOK, history

LEMMA BuiltSets ==
  ASSUME SetsPart, NEW remaining, remaining \subseteq sets, NEW inScope \in Scopes, NEW d \in 1..Days,
         BuildSet(remaining, inScope, d), attempts' \subseteq attempts, UNCHANGED history
  PROVE  SetsPart'
<1>1. CASE sets' = remaining /\ UNCHANGED <<made, prefs>>
  BY <1>1, FewerSets
<1>2. CASE ~(sets' = remaining /\ UNCHANGED <<made, prefs>>)
  <2>0. made \in Nat /\ prefs \in Prefs /\ prefs.cycle \in Nat \ {0} /\ inScope \in SUBSET Questions
    BY QuizAssumption DEF SetsPart, Prefs
  <2>1. PICK new : /\ sets' = remaining \union {new} /\ made' = made + 1
                   /\ prefs' = [prefs EXCEPT !.cycle = new.cycle]
                   /\ new = [id |-> made', on |-> d, cycle |-> new.cycle, asks |-> new.asks]
                   /\ new.asks \subseteq inScope
                   /\ new.cycle = prefs.cycle + 1 \/ new.cycle = prefs.cycle
    BY <1>2, <2>0, BuildAdds
  <2>2. new.cycle \in Nat \ {0} /\ made' \in Nat /\ made <= made' /\ made' \in 1..made'
    BY <2>0, <2>1
  <2>3. new \in [id : 1..made', on : 1..Days, cycle : Nat \ {0}, asks : SUBSET Questions]
    BY <2>0, <2>1, <2>2
  <2>4. SetsOK(sets, made') /\ AttemptsOK(recorded, made')
    BY <2>0, <2>2, GrowSets DEF SetsPart
  <2>5. SetsOK(sets', made')
    BY <2>1, <2>3, <2>4 DEF SetsOK
  <2>6. prefs' \in Prefs
    BY <2>0, <2>1, <2>2 DEF Prefs
  <2> QED
    BY <2>2, <2>4, <2>5, <2>6 DEF SetsPart, history
<1> QED
  BY <1>1, <1>2

LEMMA CountsType ==
  ASSUME SetsPart, DaysPart, NEW d \in 1..Days
  PROVE  /\ Answered(d) \in SUBSET Questions /\ Cardinality(Answered(d)) \in Nat
         /\ Counts(d) \in [answered : Nat, watched : Nat]
         /\ \A counts \in [answered : Nat, watched : Nat] : RowFor(d, counts) \in Row
<1>1. Answered(d) \in SUBSET Questions
  BY DEF Answered, SetsPart, AttemptsOK
<1>2. IsFiniteSet(Answered(d)) /\ Cardinality(Answered(d)) \in Nat
  BY <1>1, QuizAssumption, FS_Subset, FS_CardinalityType
<1>3. Counts(d) \in [answered : Nat, watched : Nat]
  BY <1>2 DEF Counts, DaysPart
<1>4. ASSUME NEW counts \in [answered : Nat, watched : Nat] PROVE RowFor(d, counts) \in Row
  <2>1. prefs.goal \in Goals \union {0} /\ rows[d].goal \in Goals \union {0}
    BY DEF SetsPart, DaysPart, Prefs, Row
  <2>2. GoalFor(d) \in Goals \union {0}
    BY <2>1 DEF GoalFor
  <2> QED
    BY <2>2 DEF RowFor, Row
<1> QED
  BY <1>1, <1>2, <1>3, <1>4

LEMMA ReleasedTypes ==
  ASSUME SetsPart, DaysPart, NEW gone, Released(gone)
  PROVE  attempts' \subseteq attempts /\ missed' \subseteq 1..Days
  BY DEF Released, SetsPart, AttemptsOK, DaysPart

LEMMA MissTypes ==
  ASSUME NEW d, Miss(d)
  PROVE  missed \subseteq missed' /\ missed' \subseteq missed \union {d}
  BY DEF Miss

LEMMA ServeTypes ==
  ASSUME SetsPart, DaysPart, ReqPart, NEW w \in Workers, Serve(w), UNCHANGED served
  PROVE  SetsPart' /\ DaysPart' /\ ReqPart'
<1> USE IdleIsRequest, RequestFields
<1>0. req[w] \in Requests
  BY DEF ReqPart
<1>1. CASE ReleaseStale(w)
  <2>1. PICK id \in req[w].stale :
          /\ sets' = Without({id}) /\ Released({id})
          /\ Go(w, [req[w] EXCEPT !.stale = @ \ {id}])
    BY <1>1 DEF ReleaseStale
  <2>2. At(w, "release") /\ UNCHANGED <<today, scope, made, prefs, watches, rows, history, kills>>
    BY <1>1 DEF ReleaseStale
  <2>3. [req[w] EXCEPT !.stale = @ \ {id}] \in Requests
    <3>1. req[w] \in [pc : {"release"}, day : 1..Days, stale : SUBSET Nat]
      BY <1>0, <2>2, ReleaseRequest DEF At
    <3>2. [req[w] EXCEPT !.stale = @ \ {id}] \in [pc : {"release"}, day : 1..Days, stale : SUBSET Nat]
      BY <3>1
    <3> QED
      BY <3>2 DEF Requests
  <2>4. sets' \subseteq sets /\ attempts' \subseteq attempts /\ missed' \subseteq 1..Days
    BY <2>1, ReleasedTypes DEF Without
  <2> QED
    BY <2>1, <2>2, <2>3, <2>4, GoKeepsTypes, FewerSets DEF DaysPart
<1>2. CASE ReadCurrent(w)
  <2>1. At(w, "release") /\ UNCHANGED <<today, scope, quizVars, prefs, dayVars, history, kills>>
    BY <1>2 DEF ReadCurrent
  <2>2. [pc |-> "build", day |-> req[w].day] \in Requests
    BY <1>0, <2>1 DEF At, Requests
  <2>3. ReqPart'
    BY <1>2, <2>2, GoKeepsTypes DEF ReadCurrent, Done
  <2> QED
    BY <2>1, <2>3, QuietSets DEF dayVars, quizVars, DaysPart
<1>3. CASE BuildToday(w)
  <2>1. /\ At(w, "build") /\ UNCHANGED <<today, scope, attempts, dayVars, history, kills>> /\ Done(w)
        /\ BuildSet(sets, scope, req[w].day) \/ UNCHANGED <<sets, made, prefs>>
    BY <1>3 DEF BuildToday
  <2>2. SetsPart'
    BY <1>0, <2>1, BuiltSets, QuietSets DEF At, DaysPart
  <2> QED
    BY <2>1, <2>2, GoKeepsTypes DEF Done, dayVars, DaysPart
<1>4. CASE Rebuild(w)
  <2>1. At(w, "rebuild") /\ UNCHANGED <<today, watches, rows, history, kills>> /\ Done(w)
    BY <1>4 DEF Rebuild
  <2>2. \/ UNCHANGED <<scope, quizVars, prefs, missed>>
        \/ BuildSet(Without(req[w].current), req[w].scope, req[w].day) /\ Released(req[w].current) /\ scope' = req[w].scope
    BY <1>4 DEF Rebuild
  <2>3. Without(req[w].current) \subseteq sets /\ req[w].scope \in Scopes /\ req[w].day \in 1..Days
    BY <1>0, <2>1 DEF Without, At
  <2>4. Released(req[w].current) => attempts' \subseteq attempts /\ missed' \subseteq 1..Days
    BY ReleasedTypes
  <2>5. SetsPart' /\ scope' \in Scopes /\ missed' \subseteq 1..Days
    BY <2>1, <2>2, <2>3, <2>4, BuiltSets, QuietSets DEF quizVars, DaysPart
  <2> QED
    BY <2>1, <2>5, GoKeepsTypes DEF Done, DaysPart
<1>5. CASE InsertAttempt(w)
  <2> DEFINE new == [set |-> req[w].set, at |-> today, asked |-> req[w].asked, passed |-> req[w].passed]
  <2>1. At(w, "insert attempt") /\ UNCHANGED <<today, scope, sets, made, prefs, dayVars, rewound, kills>>
    BY <1>5 DEF InsertAttempt
  <2>2. [pc |-> "refresh", day |-> today] \in Requests
    BY DEF DaysPart, Requests
  <2>3. ReqPart'
    BY <1>5, <2>2, GoKeepsTypes DEF InsertAttempt, Done
  <2>4. CASE \E s \in sets : s.id = req[w].set
    <3>1. /\ attempts' = attempts \union {new} /\ recorded' = recorded \union {new}
          /\ settled' = settled \/ settled' = settled \union {new}
      BY <1>5, <2>4 DEF InsertAttempt
    <3>2. req[w].set \in 1..made
      BY <2>4 DEF SetsPart, SetsOK
    <3>3. req[w].asked \in SUBSET Questions /\ req[w].passed \in BOOLEAN /\ today \in 1..Days
      BY <1>0, <2>1 DEF At, DaysPart
    <3>4. new \in [set : 1..made, at : 1..Days, asked : SUBSET Questions, passed : BOOLEAN]
      BY <3>2, <3>3
    <3> HIDE DEF new
    <3>5. AttemptsOK(recorded', made')
      BY <2>1, <3>1, <3>4 DEF SetsPart, AttemptsOK
    <3>6. attempts' \subseteq recorded' /\ settled' \subseteq recorded'
      BY <3>1 DEF SetsPart
    <3> QED
      BY <2>1, <2>3, <3>5, <3>6 DEF dayVars, DaysPart, SetsPart
  <2>5. CASE ~\E s \in sets : s.id = req[w].set
    <3>1. UNCHANGED <<attempts, recorded, settled>>
      BY <1>5, <2>5 DEF InsertAttempt
    <3> QED
      BY <2>1, <2>3, <3>1, QuietSets DEF history, dayVars, DaysPart
  <2> QED
    BY <2>4, <2>5
<1>6. CASE SaveSettings(w)
  <2>1. /\ At(w, "save settings") /\ UNCHANGED <<today, scope, quizVars, dayVars, recorded, settled, kills>>
        /\ prefs' = [req[w].old EXCEPT !.goal = req[w].goal]
        /\ rewound' = rewound \union ((req[w].old.cycle + 1)..prefs.cycle)
    BY <1>6 DEF SaveSettings
  <2>2. [pc |-> "refresh", day |-> today] \in Requests
    BY DEF DaysPart, Requests
  <2>3. ReqPart'
    BY <1>6, <2>2, GoKeepsTypes DEF SaveSettings, Done
  <2>4. req[w].goal \in Goals /\ req[w].old \in Prefs
    BY <1>0, <2>1 DEF At
  <2>5. prefs' \in Prefs
    BY <2>1, <2>4 DEF Prefs
  <2>6. rewound' \subseteq Nat
    <3>1. req[w].old.cycle \in Nat /\ prefs.cycle \in Nat /\ rewound \subseteq Nat
      BY <2>4 DEF SetsPart, Prefs
    <3>2. (req[w].old.cycle + 1)..prefs.cycle \subseteq Nat
      BY <3>1, Sums
    <3> QED
      BY <2>1, <3>1, <3>2
  <2> QED
    BY <2>1, <2>3, <2>5, <2>6 DEF dayVars, quizVars, DaysPart, SetsPart
<1>7. CASE Refresh(w)
  <2>1. /\ At(w, "refresh") /\ Done(w) /\ UNCHANGED <<today, scope, quizVars, prefs, watches, history, kills>>
        /\ rows' = [rows EXCEPT ![req[w].day] = RowFor(req[w].day, Counts(req[w].day))]
        /\ missed' = missed \ {req[w].day}
    BY <1>7 DEF Refresh
  <2>2. req[w].day \in 1..Days
    BY <1>0, <2>1 DEF At
  <2>3. RowFor(req[w].day, Counts(req[w].day)) \in Row
    BY <2>2, CountsType
  <2> QED
    BY <2>1, <2>2, <2>3, GoKeepsTypes, QuietSets DEF Done, quizVars, DaysPart
<1>8. CASE ReadNoRow(w)
  <2>1. /\ At(w, "refresh") /\ UNCHANGED <<today, scope, quizVars, prefs, dayVars, history, kills>>
        /\ Go(w, [pc |-> "insert row", day |-> req[w].day, row |-> RowFor(req[w].day, Counts(req[w].day)), watch |-> 0])
    BY <1>8 DEF ReadNoRow
  <2>2. req[w].day \in 1..Days
    BY <1>0, <2>1 DEF At
  <2>3. RowFor(req[w].day, Counts(req[w].day)) \in Row
    BY <2>2, CountsType
  <2>4. [pc |-> "insert row", day |-> req[w].day, row |-> RowFor(req[w].day, Counts(req[w].day)), watch |-> 0] \in Requests
    BY <2>2, <2>3 DEF Requests
  <2> QED
    BY <2>1, <2>4, GoKeepsTypes, QuietSets DEF quizVars, dayVars, DaysPart
<1>9. CASE InsertRow(w)
  <2>1. At(w, "insert row") /\ Done(w) /\ UNCHANGED <<today, scope, quizVars, prefs, history, kills>>
    BY <1>9 DEF InsertRow
  <2>2. req[w].day \in 1..Days /\ req[w].row \in Row /\ req[w].watch \in {0, 1}
    BY <1>0, <2>1 DEF At
  <2>3. watches \in [1..Days -> Nat] /\ rows \in [1..Days -> Row] /\ missed \subseteq 1..Days
    BY DEF DaysPart
  <2>4. watches' \in [1..Days -> Nat] /\ rows' \in [1..Days -> Row] /\ missed' \subseteq 1..Days
    <3>1. CASE rows[req[w].day].there
      <4>1. UNCHANGED <<rows, watches>> /\ (missed' = missed \/ Miss(req[w].day))
        BY <1>9, <3>1 DEF InsertRow
      <4> QED
        BY <2>2, <2>3, <4>1, MissTypes
    <3>2. CASE ~rows[req[w].day].there
      <4>1. /\ rows' = [rows EXCEPT ![req[w].day] = req[w].row] /\ missed' \subseteq missed
            /\ watches' = [watches EXCEPT ![req[w].day] = @ + req[w].watch]
        BY <1>9, <3>2 DEF InsertRow
      <4>2. watches[req[w].day] + req[w].watch \in Nat
        <5>1. watches[req[w].day] \in Nat
          BY <2>2, <2>3, Zenon
        <5>2. req[w].watch \in Nat
          BY <2>2, Sums, Zenon
        <5> QED
          BY <5>1, <5>2, Sums, Zenon
      <4>3. rows' \in [1..Days -> Row]
        BY <2>2, <2>3, <4>1
      <4>4. watches' \in [1..Days -> Nat]
        BY <2>2, <2>3, <4>1, <4>2
      <4> QED
        BY <2>3, <4>1, <4>3, <4>4
    <3> QED
      BY <3>1, <3>2
  <2> QED
    BY <2>1, <2>4, GoKeepsTypes, QuietSets DEF Done, quizVars, DaysPart
<1> QED
  BY <1>1, <1>2, <1>3, <1>4, <1>5, <1>6, <1>7, <1>8, <1>9 DEF Serve

\* A request comes in.
Loads(w) ==
    \/ LoadStale(w) \/ Watch(w) \/ LoadSettings(w)
    \/ \E new \in Scopes : CheckCurrent(w, new)
    \/ \E s \in sets : LoadSet(w, s)
    \/ \E d \in 1..Days : RebuildDay(w, d)

LEMMA LoadTypes ==
  ASSUME SetsPart, DaysPart, ReqPart, NEW w \in Workers, Loads(w)
  PROVE  SetsPart' /\ DaysPart' /\ ReqPart'
<1>1. CASE LoadStale(w)
  <2> DEFINE old == {s.id : s \in {x \in sets : x.on < today /\ ~Attempted(x)}}
  <2>1. /\ Go(w, [pc |-> "release", day |-> today, stale |-> old])
        /\ UNCHANGED <<today, scope, quizVars, prefs, dayVars, history, kills>>
    BY <1>1 DEF LoadStale
  <2>2. old \in SUBSET Nat
    BY DEF SetsPart, SetsOK
  <2> HIDE DEF old
  <2>3. [pc |-> "release", day |-> today, stale |-> old] \in Requests
    BY <2>2 DEF DaysPart, Requests
  <2> QED
    BY <2>1, <2>3, GoKeepsTypes, QuietSets DEF quizVars, dayVars, DaysPart
<1>2. ASSUME NEW new \in Scopes, CheckCurrent(w, new) PROVE SetsPart' /\ DaysPart' /\ ReqPart'
  <2> DEFINE current == {s.id : s \in On(today)}
  <2>1. /\ UNCHANGED <<today, quizVars, prefs, dayVars, history, kills>>
        /\ \/ scope' = new /\ UNCHANGED req
           \/ Go(w, [pc |-> "rebuild", day |-> today, scope |-> new, current |-> current]) /\ UNCHANGED scope
    BY <1>2 DEF CheckCurrent
  <2>2. current \in SUBSET Nat
    BY DEF SetsPart, SetsOK, On
  <2> HIDE DEF current
  <2>3. [pc |-> "rebuild", day |-> today, scope |-> new, current |-> current] \in Requests
    BY <2>2 DEF DaysPart, Requests
  <2>4. ReqPart' /\ scope' \in Scopes
    BY <2>1, <2>3, GoKeepsTypes DEF ReqPart, DaysPart
  <2> QED
    BY <2>1, <2>4, QuietSets DEF quizVars, dayVars, DaysPart
<1>3. ASSUME NEW s \in sets, LoadSet(w, s) PROVE SetsPart' /\ DaysPart' /\ ReqPart'
  <2> DEFINE passed == Passes(Cardinality(s.asks \ Hard), Cardinality(s.asks))
  <2>1. /\ Go(w, [pc |-> "insert attempt", set |-> s.id, asked |-> s.asks, passed |-> passed])
        /\ UNCHANGED <<today, scope, quizVars, prefs, dayVars, history, kills>>
    BY <1>3 DEF LoadSet
  <2>2. passed \in BOOLEAN /\ s.id \in Nat /\ s.asks \in SUBSET Questions
    BY DEF Passes, SetsPart, SetsOK
  <2> HIDE DEF passed
  <2>3. [pc |-> "insert attempt", set |-> s.id, asked |-> s.asks, passed |-> passed] \in Requests
    BY <2>2 DEF Requests
  <2> QED
    BY <2>1, <2>3, GoKeepsTypes, QuietSets DEF quizVars, dayVars, DaysPart
<1>4. CASE Watch(w)
  <2> DEFINE counts == [Counts(today) EXCEPT !.watched = @ + 1]
             row    == RowFor(today, counts)
  <2>0. today \in 1..Days
    BY DEF DaysPart
  <2>1. row \in Row
    <3>1. counts \in [answered : Nat, watched : Nat]
      BY <2>0, CountsType
    <3> QED
      BY <2>0, <3>1, CountsType
  <2>2. UNCHANGED <<today, scope, quizVars, prefs, history, kills>>
    BY <1>4 DEF Watch
  <2>3. CASE rows[today].there
    <3>1. /\ watches' = [watches EXCEPT ![today] = @ + 1] /\ rows' = [rows EXCEPT ![today] = row]
          /\ missed' = missed \ {today} /\ UNCHANGED req
      BY <1>4, <2>3 DEF Watch
    <3> HIDE DEF row
    <3>2. watches' \in [1..Days -> Nat]
      BY <2>0, <3>1 DEF DaysPart
    <3>3. rows' \in [1..Days -> Row]
      BY <2>0, <2>1, <3>1 DEF DaysPart
    <3> QED
      BY <2>2, <3>1, <3>2, <3>3, QuietSets DEF quizVars, DaysPart, ReqPart
  <2>4. CASE ~rows[today].there
    <3>1. /\ Go(w, [pc |-> "insert row", day |-> today, row |-> row, watch |-> 1])
          /\ UNCHANGED <<watches, rows, missed>>
      BY <1>4, <2>4 DEF Watch
    <3> HIDE DEF row
    <3>2. [pc |-> "insert row", day |-> today, row |-> row, watch |-> 1] \in Requests
      BY <2>0, <2>1 DEF Requests
    <3> QED
      BY <2>2, <3>1, <3>2, GoKeepsTypes, QuietSets DEF quizVars, DaysPart
  <2> QED
    BY <2>3, <2>4
<1>5. CASE LoadSettings(w)
  <2>1. PICK goal \in Goals, refreshes \in BOOLEAN :
          Go(w, [pc |-> "save settings", old |-> prefs, goal |-> goal, refreshes |-> refreshes])
    BY <1>5 DEF LoadSettings
  <2>2. [pc |-> "save settings", old |-> prefs, goal |-> goal, refreshes |-> refreshes] \in Requests
    BY DEF SetsPart, Requests
  <2>3. ReqPart'
    BY <2>1, <2>2, GoKeepsTypes
  <2> QED
    BY <1>5, <2>3, QuietSets DEF LoadSettings, quizVars, dayVars, DaysPart
<1>6. ASSUME NEW d \in 1..Days, RebuildDay(w, d) PROVE SetsPart' /\ DaysPart' /\ ReqPart'
  <2>1. [pc |-> "refresh", day |-> d] \in Requests
    BY DEF Requests
  <2> QED
    BY <1>6, <2>1, GoKeepsTypes, QuietSets DEF RebuildDay, quizVars, dayVars, DaysPart
<1> QED
  BY <1>1, <1>2, <1>3, <1>4, <1>5, <1>6 DEF Loads

\* What the server does in a step, whoever asked for it.
Moves ==
    \/ \E w \in Workers : (Serve(w) /\ UNCHANGED served) \/ Loads(w) \/ Kill(w)
    \/ Midnight
    \/ UNCHANGED <<today, scope, quizVars, prefs, dayVars, history, req, kills>>

LEMMA NextMoves == [Next]_vars /\ served \in Nat => Moves /\ served' \in Nat
<1>1. \A w : Ask(w) => Loads(w)
  BY DEF Ask, Loads
<1>2. CASE UNCHANGED vars
  BY <1>2 DEF Moves, vars
<1>3. CASE Next
  <2>1. served' = served \/ served' = served + 1
    BY <1>3 DEF Next
  <2> QED
    BY <1>1, <1>3, <2>1 DEF Next, Moves
<1> QED
  BY <1>2, <1>3

LEMMA MovesKeepTypes ==
  ASSUME Typed, Moves, served' \in Nat
  PROVE  Typed'
<1> SUFFICES ASSUME SetsPart, DaysPart, ReqPart
             PROVE  SetsPart' /\ DaysPart' /\ ReqPart'
  <2>1. Typed' <=> SetsPart' /\ DaysPart' /\ ReqPart' /\ served' \in Nat
    BY DEF Typed, SetsPart, SetsOK, AttemptsOK, DaysPart, ReqPart
  <2> QED
    BY <2>1, QuizParts
<1>1. ASSUME NEW w \in Workers, Serve(w), UNCHANGED served PROVE SetsPart' /\ DaysPart' /\ ReqPart'
  BY <1>1, ServeTypes
<1>2. ASSUME NEW w \in Workers, Loads(w) PROVE SetsPart' /\ DaysPart' /\ ReqPart'
  BY <1>2, LoadTypes
<1>3. ASSUME NEW w \in Workers, Kill(w) PROVE SetsPart' /\ DaysPart' /\ ReqPart'
  <2>1. req[w] \in Requests /\ UNCHANGED <<today, scope, quizVars, prefs, watches, rows, history>> /\ Done(w)
    BY <1>3 DEF Kill, ReqPart
  <2>3. kills' \in Nat
    <3>1. kills' = kills + 1
      BY <1>3 DEF Kill
    <3>2. kills \in Nat
      BY DEF DaysPart
    <3> QED
      BY <3>1, <3>2
  <2>2. missed' \subseteq 1..Days
    BY <1>3, <2>1, RequestFields, MissTypes DEF Kill, At, DaysPart
  <2> QED
    BY <2>1, <2>2, <2>3, IdleIsRequest, GoKeepsTypes, QuietSets DEF Done, quizVars, DaysPart
<1>4. ASSUME Midnight PROVE SetsPart' /\ DaysPart' /\ ReqPart'
  <2>1. today' \in 1..Days
    <3>1. today' = today + 1 /\ today < Days
      BY <1>4 DEF Midnight
    <3>2. today \in 1..Days /\ Days \in Nat
      BY QuizAssumption DEF DaysPart
    <3> QED
      BY <3>1, <3>2
  <2>2. UNCHANGED <<scope, sets, made, attempts, prefs, watches, rows, missed, history, req, kills>>
    BY <1>4 DEF Midnight, quizVars, dayVars
  <2>3. DaysPart' /\ ReqPart'
    BY <2>1, <2>2 DEF DaysPart, ReqPart
  <2> QED
    BY <2>2, <2>3, QuietSets
<1>5. CASE UNCHANGED <<today, scope, quizVars, prefs, dayVars, history, req, kills>>
  BY <1>5, QuietSets DEF quizVars, dayVars, DaysPart, ReqPart
<1> QED
  BY <1>1, <1>2, <1>3, <1>4, <1>5 DEF Moves

LEMMA TypesStep == Typed /\ [Next]_vars => Typed'
  BY NextMoves, MovesKeepTypes DEF Typed

LEMMA TypesInitial == Init => Typed
<1> SUFFICES ASSUME Init PROVE SetsPart /\ DaysPart /\ ReqPart /\ served \in Nat
  BY QuizParts
<1> USE QuizAssumption
<1>1. SetsPart
  BY DEF Init, SetsPart, SetsOK, AttemptsOK, Prefs
<1>2. NoRow \in Row
  BY DEF NoRow, Row
<1>3. DaysPart
  BY <1>2 DEF Init, DaysPart
<1> QED
  BY <1>1, <1>3, IdleIsRequest DEF Init, ReqPart

LEMMA TypesInvariant == Spec => []Typed
  BY TypesInitial, TypesStep, PTL DEF Spec

-----------------------------------------------------------------------------
(* Cycles.  A set's cycle is never ahead of the settings', which is what makes a *)
(* cycle that is begun a new one; unless a save of settings has taken it back.   *)

CycleInv == CycleOnce /\ Reached

LEMMA CycleTypes ==
  ASSUME SetsPart
  PROVE  prefs.cycle \in Nat /\ \A s \in sets : s.cycle \in Nat
  BY DEF SetsPart, SetsOK, Prefs

LEMMA FewerCycles ==
  ASSUME CycleInv, sets' \subseteq sets, prefs'.cycle = prefs.cycle, rewound' = rewound
  PROVE  CycleInv'
  BY DEF CycleInv, CycleOnce, Reached

LEMMA BuiltCycles ==
  ASSUME SetsPart, CycleInv, NEW remaining, remaining \subseteq sets, NEW inScope, NEW d,
         BuildSet(remaining, inScope, d), UNCHANGED rewound
  PROVE  CycleInv'
<1>1. CASE sets' = remaining /\ UNCHANGED <<made, prefs>>
  BY <1>1, FewerCycles
<1>2. CASE ~(sets' = remaining /\ UNCHANGED <<made, prefs>>)
  <2>0. made \in Nat /\ prefs \in Prefs /\ prefs.cycle \in Nat /\ \A s \in remaining : s.cycle \in Nat
    BY CycleTypes DEF SetsPart
  <2>1. PICK new : /\ sets' = remaining \union {new}
                   /\ prefs' = [prefs EXCEPT !.cycle = new.cycle]
                   /\ \/ new.cycle = prefs.cycle + 1
                      \/ new.cycle = prefs.cycle /\ new.asks \cap Used(remaining, prefs.cycle) = {}
    BY <1>2, <2>0, BuildAdds
  <2>2. prefs'.cycle = new.cycle /\ new.cycle \in Nat /\ prefs.cycle <= new.cycle
    BY <2>0, <2>1 DEF Prefs
  <2>3. \A s \in remaining : s.cycle <= prefs.cycle \/ s.cycle \in rewound
    BY DEF CycleInv, Reached
  <2>4. Reached'
    BY <2>0, <2>1, <2>2, <2>3 DEF Reached
  <2>5. ASSUME NEW s \in remaining, s.cycle = new.cycle, s.cycle \notin rewound
        PROVE  s.asks \cap new.asks = {}
    <3>1. new.cycle = prefs.cycle
      BY <2>0, <2>1, <2>3, <2>5
    <3>2. s.asks \subseteq Used(remaining, prefs.cycle)
      BY <2>5, <3>1 DEF Used
    <3> QED
      BY <2>0, <2>1, <3>1, <3>2
  <2>6. CycleOnce'
    BY <2>1, <2>5 DEF CycleInv, CycleOnce
  <2> QED
    BY <2>4, <2>6 DEF CycleInv
<1> QED
  BY <1>1, <1>2

LEMMA CyclesStep == Typed /\ CycleInv /\ [Next]_vars => CycleInv'
<1> SUFFICES ASSUME Typed, CycleInv, Moves PROVE CycleInv'
  BY NextMoves DEF Typed
<1>0. SetsPart /\ ReqPart
  BY QuizParts
<1>1. ASSUME UNCHANGED <<sets, prefs, rewound>> PROVE CycleInv'
  BY <1>1, FewerCycles
<1>2. ASSUME NEW w \in Workers, ReleaseStale(w) PROVE CycleInv'
  BY <1>2, FewerCycles DEF ReleaseStale, Without, history
<1>3. ASSUME NEW w \in Workers, BuildToday(w) PROVE CycleInv'
  BY <1>0, <1>1, <1>3, BuiltCycles DEF BuildToday, history
<1>4. ASSUME NEW w \in Workers, Rebuild(w) PROVE CycleInv'
  BY <1>0, <1>1, <1>4, BuiltCycles DEF Rebuild, Without, quizVars, history
<1>5. ASSUME NEW w \in Workers, SaveSettings(w) PROVE CycleInv'
  <2>1. /\ At(w, "save settings") /\ UNCHANGED sets
        /\ prefs' = [req[w].old EXCEPT !.goal = req[w].goal]
        /\ rewound' = rewound \union ((req[w].old.cycle + 1)..prefs.cycle)
    BY <1>5 DEF SaveSettings, quizVars
  <2>2. req[w].old \in Prefs
    BY <1>0, <2>1, RequestFields DEF ReqPart, At
  <2>3. prefs'.cycle = req[w].old.cycle /\ prefs'.cycle \in Nat
    BY <2>1, <2>2 DEF Prefs
  <2>4. CycleOnce'
    BY <2>1 DEF CycleInv, CycleOnce
  <2>5. ASSUME NEW s \in sets PROVE s.cycle <= prefs'.cycle \/ s.cycle \in rewound'
    <3>1. s.cycle \in Nat /\ prefs.cycle \in Nat
      BY <1>0, CycleTypes
    <3>2. s.cycle <= prefs.cycle \/ s.cycle \in rewound
      BY DEF CycleInv, Reached
    <3>3. s.cycle <= prefs'.cycle \/ s.cycle \in (prefs'.cycle + 1)..prefs.cycle \/ s.cycle \in rewound
      BY <2>3, <3>1, <3>2
    <3> QED
      BY <2>1, <2>3, <3>3
  <2> QED
    BY <2>1, <2>4, <2>5 DEF CycleInv, Reached
<1>6. ASSUME NEW w \in Workers,
             \/ ReadCurrent(w) \/ InsertAttempt(w) \/ Refresh(w) \/ ReadNoRow(w) \/ InsertRow(w)
             \/ Loads(w) \/ Kill(w)
      PROVE  UNCHANGED <<sets, prefs, rewound>>
  BY <1>6 DEF ReadCurrent, InsertAttempt, Refresh, ReadNoRow, InsertRow, Loads, LoadStale, CheckCurrent,
     LoadSet, Watch, LoadSettings, RebuildDay, Kill, quizVars, history
<1>7. ASSUME NEW w \in Workers, Serve(w) PROVE CycleInv'
  BY <1>1, <1>2, <1>3, <1>4, <1>5, <1>6, <1>7 DEF Serve
<1>8. Midnight => UNCHANGED <<sets, prefs, rewound>>
  BY DEF Midnight, quizVars, history
<1> QED
  BY <1>1, <1>6, <1>7, <1>8 DEF Moves, quizVars, history

LEMMA CyclesInvariant == Spec => []CycleInv
<1>1. Init => CycleInv
  BY DEF Init, CycleInv, CycleOnce, Reached
<1> QED
  BY <1>1, TypesInvariant, CyclesStep, PTL DEF Spec

\* Sets, attempts, rows and requests keep their types, whatever requests interleave or
\* are killed, and question_cycle keeps up with the sets (build_set saves it with the
\* set), but where a save of settings has taken it back.
THEOREM QuizTypes == Spec => []TypeOK
<1>1. Typed /\ CycleInv => TypeOK
  BY DEF TypeOK, CycleInv
<1> QED
  BY <1>1, TypesInvariant, CyclesInvariant, PTL

\* A question is asked once per cycle (build_set), through rebuilds, releases, changes
\* of scope and sets built at once, but in the cycles that a save of settings took back.
THEOREM OncePerCycle == Spec => []CycleOnce
<1>1. CycleInv => CycleOnce
  BY DEF CycleInv
<1> QED
  BY <1>1, CyclesInvariant, PTL

-----------------------------------------------------------------------------
(* What is recorded stays.  A request that deletes sets chose them while they   *)
(* had no attempt, and none has been settled since.                             *)

Spares(r, a) == (r.pc = "release" => a.set \notin r.stale) /\ (r.pc = "rebuild" => a.set \notin r.current)

Untouched == \A w \in Workers : \A a \in settled : Spares(req[w], a)

LEMMA NotDoomed ==
  ASSUME NEW id, id \notin Doomed, NEW w \in Workers
  PROVE  (At(w, "release") => id \notin req[w].stale) /\ (At(w, "rebuild") => id \notin req[w].current)
  BY DEF Doomed, At

LEMMA GoSpares ==
  ASSUME ReqPart, Untouched, NEW w \in Workers, NEW r, Go(w, r), UNCHANGED settled,
         \A a \in settled : Spares(r, a)
  PROVE  Untouched'
<1> SUFFICES ASSUME NEW o \in Workers, NEW a \in settled PROVE Spares(req'[o], a)
  BY DEF Untouched, Spares
<1>1. req'[o] = r \/ req'[o] = req[o]
  BY DEF Go, ReqPart
<1> QED
  BY <1>1 DEF Untouched

LEMMA KeptServe ==
  ASSUME ReqPart, AttemptsStay, Untouched, NEW w \in Workers, Serve(w)
  PROVE  AttemptsStay' /\ Untouched'
<1>1. CASE ReleaseStale(w)
  <2>1. PICK id \in req[w].stale :
          /\ sets' = Without({id}) /\ Released({id})
          /\ Go(w, [req[w] EXCEPT !.stale = @ \ {id}])
    BY <1>1 DEF ReleaseStale
  <2>2. At(w, "release") /\ req[w] \in Requests /\ UNCHANGED settled
    BY <1>1 DEF ReleaseStale, ReqPart, history
  <2>3. \A a \in settled : a.set \notin req[w].stale
    BY <2>2 DEF Untouched, Spares, At
  <2>4. AttemptsStay'
    BY <2>1, <2>2, <2>3 DEF AttemptsStay, Released, Without
  <2>5. \A a \in settled : Spares([req[w] EXCEPT !.stale = @ \ {id}], a)
    <3>1. req[w] \in [pc : {"release"}, day : 1..Days, stale : SUBSET Nat]
      BY <2>2, ReleaseRequest DEF At
    <3> QED
      BY <2>3, <3>1 DEF Spares
  <2> QED
    BY <2>1, <2>2, <2>4, <2>5, GoSpares
<1>2. CASE Rebuild(w)
  <2>1. At(w, "rebuild") /\ Go(w, Idle) /\ UNCHANGED settled
    BY <1>2 DEF Rebuild, Done, history
  <2>2. \A a \in settled : a.set \notin req[w].current
    BY <2>1 DEF Untouched, Spares, At
  <2>3. CASE UNCHANGED quizVars
    BY <2>1, <2>3, GoSpares DEF quizVars, AttemptsStay, Spares, Idle
  <2>4. CASE BuildSet(Without(req[w].current), req[w].scope, req[w].day) /\ Released(req[w].current)
    <3>1. \A a \in settled : a \in attempts'
      BY <2>2, <2>4 DEF AttemptsStay, Released
    <3>2. Without(req[w].current) \subseteq sets'
      BY <2>4 DEF BuildSet
    <3>3. AttemptsStay'
      BY <2>1, <2>2, <3>1, <3>2 DEF AttemptsStay, Without
    <3> QED
      BY <2>1, <3>3, GoSpares DEF Spares, Idle
  <2> QED
    BY <1>2, <2>3, <2>4 DEF Rebuild
<1>3. CASE InsertAttempt(w) /\ \E s \in sets : s.id = req[w].set
  <2> DEFINE new == [set |-> req[w].set, at |-> today, asked |-> req[w].asked, passed |-> req[w].passed]
             r   == [pc |-> "refresh", day |-> today]
  <2>1. /\ At(w, "insert attempt") /\ UNCHANGED sets /\ Go(w, r)
        /\ attempts' = attempts \union {new}
        /\ settled' = IF req[w].set \in Doomed THEN settled ELSE settled \union {new}
    BY <1>3 DEF InsertAttempt
  <2>2. new.set = req[w].set
    OBVIOUS
  <2>3. AttemptsStay'
    BY <1>3, <2>1, <2>2 DEF AttemptsStay
  <2>4. Untouched'
    <3> SUFFICES ASSUME NEW o \in Workers, NEW a \in settled' PROVE Spares(req'[o], a)
      BY DEF Untouched, Spares
    <3>1. CASE o = w
      BY <2>1, <3>1 DEF Go, ReqPart, Spares
    <3>2. CASE o # w
      <4>1. req'[o] = req[o]
        BY <2>1, <3>2 DEF Go, ReqPart
      <4>2. CASE a \in settled
        BY <4>1, <4>2 DEF Untouched
      <4>3. CASE a \notin settled
        <5>1. a = new /\ req[w].set \notin Doomed
          BY <2>1, <4>3
        <5> QED
          BY <2>2, <4>1, <5>1, NotDoomed DEF Spares, At
      <4> QED
        BY <4>2, <4>3
    <3> QED
      BY <3>1, <3>2
  <2> QED
    BY <2>3, <2>4
<1>4. CASE InsertAttempt(w) /\ ~\E s \in sets : s.id = req[w].set
  <2>1. UNCHANGED <<sets, attempts, settled>> /\ Go(w, Idle)
    BY <1>4 DEF InsertAttempt, Done
  <2> QED
    BY <2>1, GoSpares DEF AttemptsStay, Spares, Idle
<1>5. CASE BuildToday(w)
  <2>1. sets \subseteq sets' /\ UNCHANGED <<attempts, settled>> /\ Go(w, Idle)
    BY <1>5 DEF BuildToday, BuildSet, Done, history
  <2> QED
    BY <2>1, GoSpares DEF AttemptsStay, Spares, Idle
<1>6. ASSUME ReadCurrent(w) \/ SaveSettings(w) \/ Refresh(w) \/ ReadNoRow(w) \/ InsertRow(w)
      PROVE  AttemptsStay' /\ Untouched'
  <2>1. UNCHANGED <<sets, attempts, settled>>
    BY <1>6 DEF ReadCurrent, SaveSettings, Refresh, ReadNoRow, InsertRow, quizVars, history
  <2>2. ASSUME NEW r, Go(w, r), r.pc \in {"idle", "build", "refresh", "insert row"} PROVE Untouched'
    BY <2>1, <2>2, GoSpares DEF Spares
  <2>3. CASE ReadCurrent(w)
    <3>1. Go(w, Idle) \/ Go(w, [pc |-> "build", day |-> req[w].day])
      BY <2>3 DEF ReadCurrent, Done
    <3> QED
      BY <2>1, <2>2, <3>1 DEF AttemptsStay, Idle
  <2>4. CASE SaveSettings(w)
    <3>1. Go(w, Idle) \/ Go(w, [pc |-> "refresh", day |-> today])
      BY <2>4 DEF SaveSettings, Done
    <3> QED
      BY <2>1, <2>2, <3>1 DEF AttemptsStay, Idle
  <2>5. CASE Refresh(w) \/ InsertRow(w)
    <3>1. Go(w, Idle)
      BY <2>5 DEF Refresh, InsertRow, Done
    <3> QED
      BY <2>1, <2>2, <3>1 DEF AttemptsStay, Idle
  <2>6. CASE ReadNoRow(w)
    <3>1. Go(w, [pc |-> "insert row", day |-> req[w].day, row |-> RowFor(req[w].day, Counts(req[w].day)), watch |-> 0])
      BY <2>6 DEF ReadNoRow
    <3> QED
      BY <2>1, <2>2, <3>1 DEF AttemptsStay
  <2> QED
    BY <1>6, <2>3, <2>4, <2>5, <2>6
<1> QED
  BY <1>1, <1>2, <1>3, <1>4, <1>5, <1>6 DEF Serve

LEMMA KeptLoad ==
  ASSUME ReqPart, AttemptsStay, Untouched, NEW w \in Workers, Loads(w)
  PROVE  AttemptsStay' /\ Untouched'
<1>1. UNCHANGED <<sets, attempts, settled>>
  BY DEF Loads, LoadStale, CheckCurrent, LoadSet, Watch, LoadSettings, RebuildDay, quizVars, history
<1>2. AttemptsStay'
  BY <1>1 DEF AttemptsStay
<1>3. CASE UNCHANGED req
  BY <1>1, <1>2, <1>3 DEF Untouched, Spares
<1>4. CASE LoadStale(w)
  <2> DEFINE old == {s.id : s \in {x \in sets : x.on < today /\ ~Attempted(x)}}
  <2>1. Go(w, [pc |-> "release", day |-> today, stale |-> old])
    BY <1>4 DEF LoadStale
  <2>2. \A a \in settled : a.set \notin old
    BY DEF AttemptsStay, Attempted
  <2> HIDE DEF old
  <2>3. \A a \in settled : Spares([pc |-> "release", day |-> today, stale |-> old], a)
    BY <2>2 DEF Spares
  <2> QED
    BY <1>1, <1>2, <2>1, <2>3, GoSpares
<1>5. ASSUME NEW new \in Scopes, CheckCurrent(w, new), ~UNCHANGED req PROVE Untouched'
  <2> DEFINE current == {s.id : s \in On(today)}
  <2>1. /\ Go(w, [pc |-> "rebuild", day |-> today, scope |-> new, current |-> current])
        /\ ~\E s \in On(today) : Attempted(s)
    BY <1>5 DEF CheckCurrent
  <2>2. \A a \in settled : a.set \notin current
    BY <2>1 DEF AttemptsStay, Attempted
  <2> HIDE DEF current
  <2>3. \A a \in settled : Spares([pc |-> "rebuild", day |-> today, scope |-> new, current |-> current], a)
    BY <2>2 DEF Spares
  <2> QED
    BY <1>1, <2>1, <2>3, GoSpares
<1>6. ASSUME NEW r, Go(w, r), r.pc \in {"insert attempt", "insert row", "save settings", "refresh"}
      PROVE  Untouched'
  BY <1>1, <1>6, GoSpares DEF Spares
<1>7. ASSUME NEW s \in sets, LoadSet(w, s) PROVE Untouched'
  BY <1>6, <1>7 DEF LoadSet
<1>8. CASE Watch(w)
  BY <1>1, <1>2, <1>3, <1>6, <1>8 DEF Watch
<1>9. CASE LoadSettings(w)
  BY <1>1, <1>2, <1>6, <1>9 DEF LoadSettings
<1>10. ASSUME NEW d \in 1..Days, RebuildDay(w, d) PROVE Untouched'
  BY <1>6, <1>10 DEF RebuildDay
<1> QED
  BY <1>1, <1>2, <1>3, <1>4, <1>5, <1>7, <1>8, <1>9, <1>10 DEF Loads

LEMMA KeptStep ==
  ASSUME ReqPart, AttemptsStay, Untouched, Moves
  PROVE  AttemptsStay' /\ Untouched'
<1>1. ASSUME NEW w \in Workers, Kill(w) PROVE AttemptsStay' /\ Untouched'
  <2>1. UNCHANGED <<sets, attempts, settled>> /\ Go(w, Idle)
    BY <1>1 DEF Kill, Done, quizVars, history
  <2> QED
    BY <2>1, GoSpares DEF AttemptsStay, Spares, Idle
<1>2. ASSUME UNCHANGED <<sets, attempts, settled, req>> PROVE AttemptsStay' /\ Untouched'
  BY <1>2 DEF AttemptsStay, Untouched, Spares
<1> QED
  BY <1>1, <1>2, KeptServe, KeptLoad DEF Moves, Midnight, quizVars, history

\* An attempt is never lost, nor the set it answers, to whatever rebuilds and releases
\* go on (rebuild_todays_set, _release), but one that was recorded at a set which a
\* request had just found unattempted and was about to delete.
THEOREM AttemptsAreKept == Spec => []AttemptsStay
<1>1. Init => AttemptsStay /\ Untouched
  BY DEF Init, AttemptsStay, Untouched
<1>2. Typed /\ AttemptsStay /\ Untouched /\ [Next]_vars => AttemptsStay' /\ Untouched'
  BY QuizParts, NextMoves, KeptStep
<1> QED
  BY <1>1, <1>2, TypesInvariant, PTL DEF Spec

-----------------------------------------------------------------------------
(* The tracker.  While a day's row counts other answers than there were, a       *)
(* request that will recount the day is on its way, or one was lost, or an       *)
(* attempt was.  The hard case is the row that isn't there yet: counts are read, *)
(* and inserted a moment later.  The lemmas are about values of the variables    *)
(* (tries, rs, q, lost stand for attempts, rows, req, missed), so that they      *)
(* speak of any step.                                                            *)

Told(tries, d) == Cardinality(UNION {a.asked : a \in {x \in tries : x.at = d}})

Agrees(row, tries, d) == row.answered = Told(tries, d)

Recounts(r, d) == (r.pc = "refresh" \/ (r.pc = "insert row" /\ r.watch = 0)) /\ r.day = d

Excused(d, some, q, lost) == d \in lost \/ \E w \in some : Recounts(q[w], d)

\* The row a request is about to insert tells what happened.
Fits(r, tries) == Agrees(r.row, tries, r.day)

HasRow(row) == row.there

Inserted(w, tries, rs, q, lost) ==
    q[w].pc = "insert row" =>
        /\ HasRow(q[w].row)
        /\ \/ HasRow(rs[q[w].day])
           \/ Fits(q[w], tries)
           \/ Excused(q[w].day, Workers \ {w}, q, lost)

Tracks(tries, rs, q, lost) ==
    /\ \A d \in 1..Days : Agrees(rs[d], tries, d) \/ Excused(d, Workers, q, lost)
    /\ \A w \in Workers : Inserted(w, tries, rs, q, lost)

Tracked == Tracks(attempts, rows, req, missed)

LEMMA StillExcused ==
  ASSUME NEW d, NEW some, NEW q, NEW q2, NEW lost, NEW lost2, Excused(d, some, q, lost),
         d \in lost => d \in lost2, \A o \in some : Recounts(q[o], d) => Recounts(q2[o], d) \/ d \in lost2
  PROVE  Excused(d, some, q2, lost2)
  BY DEF Excused

\* A request goes on, to insert a row that fits or none.  The day of an attempt that
\* is gone is missed; what it would have recounted is still recounted, or missed.
LEMMA GoTracks ==
  ASSUME NEW tries, NEW tries2, NEW rs, NEW q, NEW q2, NEW lost, NEW lost2, NEW w \in Workers,
         Tracks(tries, rs, q, lost), \A o \in Workers \ {w} : q2[o] = q[o], lost \subseteq lost2,
         \A e : e \in lost2 \/ Told(tries2, e) = Told(tries, e),
         q2[w].pc = "insert row" => HasRow(q2[w].row) /\ Fits(q2[w], tries2),
         \A d : Recounts(q[w], d) => Recounts(q2[w], d) \/ d \in lost2
  PROVE  Tracks(tries2, rs, q2, lost2)
<1>1. \A d, some : some \subseteq Workers /\ Excused(d, some, q, lost) => Excused(d, some, q2, lost2)
  <2> SUFFICES ASSUME NEW d, NEW some, some \subseteq Workers, Excused(d, some, q, lost)
               PROVE  Excused(d, some, q2, lost2)
    OBVIOUS
  <2>1. \A o \in some : Recounts(q[o], d) => Recounts(q2[o], d) \/ d \in lost2
    OBVIOUS
  <2> QED
    BY <2>1, StillExcused
<1>2. \A d, some : Excused(d, some, q2, lost2) \/ Told(tries2, d) = Told(tries, d)
  BY DEF Excused
<1>3. ASSUME NEW o \in Workers PROVE Inserted(o, tries2, rs, q2, lost2)
  <2>1. CASE o = w
    BY <2>1 DEF Inserted
  <2>2. CASE o # w
    <3>1. q2[o] = q[o] /\ Inserted(o, tries, rs, q, lost)
      BY <2>2 DEF Tracks
    <3> QED
      BY <1>1, <1>2, <3>1 DEF Inserted, Fits, Agrees
  <2> QED
    BY <2>1, <2>2
<1>4. ASSUME NEW d \in 1..Days PROVE Agrees(rs[d], tries2, d) \/ Excused(d, Workers, q2, lost2)
  BY <1>1, <1>2 DEF Tracks, Agrees
<1> QED
  BY <1>3, <1>4 DEF Tracks

\* The day d has a row after the step: it agrees, or is excused by another request.
GetsRow(w, d, tries, rs, rs2, q, q2, lost, lost2) ==
    /\ \A o \in Workers \ {w} : q2[o] = q[o]
    /\ \A e \in 1..Days \ {d} : rs2[e] = rs[e] /\ ~Recounts(q[w], e)
    /\ q \in [Workers -> Requests] /\ q2[w].pc # "insert row" /\ lost \ {d} \subseteq lost2
    /\ HasRow(rs2[d])
    /\ Agrees(rs2[d], tries, d) \/ Excused(d, Workers \ {w}, q2, lost2)

LEMMA RowTracks ==
  ASSUME NEW tries, NEW rs, NEW rs2, NEW q, NEW q2, NEW lost, NEW lost2,
         NEW w \in Workers, NEW d \in 1..Days, Tracks(tries, rs, q, lost),
         GetsRow(w, d, tries, rs, rs2, q, q2, lost, lost2)
  PROVE  Tracks(tries, rs2, q2, lost2)
<1> USE DEF GetsRow
<1>1. ASSUME NEW e \in 1..Days \ {d}, NEW some, some \subseteq Workers, Excused(e, some, q, lost)
      PROVE  Excused(e, some, q2, lost2)
  <2>1. \A o \in some : Recounts(q[o], e) => Recounts(q2[o], e) \/ e \in lost2
    BY <1>1
  <2> QED
    BY <1>1, <2>1, StillExcused
<1>2. ASSUME NEW e \in 1..Days PROVE Agrees(rs2[e], tries, e) \/ Excused(e, Workers, q2, lost2)
  <2>1. CASE e = d
    BY <2>1 DEF Excused
  <2>2. CASE e # d
    BY <1>1, <2>2 DEF Tracks, Agrees
  <2> QED
    BY <2>1, <2>2
<1>3. ASSUME NEW o \in Workers PROVE Inserted(o, tries, rs2, q2, lost2)
  <2> SUFFICES ASSUME q2[o].pc = "insert row" PROVE Inserted(o, tries, rs2, q2, lost2)
    BY DEF Inserted
  <2>1. o # w /\ q2[o] = q[o] /\ q[o] \in Requests
    OBVIOUS
  <2>2. q[o].day \in 1..Days
    BY <2>1, RequestFields
  <2>3. Inserted(o, tries, rs, q, lost)
    BY DEF Tracks
  <2>4. CASE q[o].day = d
    BY <2>1, <2>3, <2>4 DEF Inserted
  <2>5. CASE q[o].day # d
    <3>1. Excused(q[o].day, Workers \ {o}, q, lost) => Excused(q[o].day, Workers \ {o}, q2, lost2)
      BY <1>1, <2>2, <2>5
    <3>2. rs2[q[o].day] = rs[q[o].day]
      BY <2>2, <2>5
    <3> QED
      BY <2>1, <2>3, <3>1, <3>2 DEF Inserted, Fits
  <2> QED
    BY <2>4, <2>5
<1> QED
  BY <1>2, <1>3 DEF Tracks

\* A new attempt of the day d, which its request recounts next.
LEMMA AttemptTracks ==
  ASSUME NEW tries, NEW tries2, NEW rs, NEW q, NEW q2, NEW lost, NEW w \in Workers, NEW d \in 1..Days,
         Tracks(tries, rs, q, lost), \A o \in Workers \ {w} : q2[o] = q[o],
         q2[w].pc = "refresh", q2[w].day = d, \A e : ~Recounts(q[w], e),
         \A e : e # d => {a \in tries2 : a.at = e} = {a \in tries : a.at = e}
  PROVE  Tracks(tries2, rs, q2, lost)
<1>1. \A e, some : some \subseteq Workers /\ Excused(e, some, q, lost) => Excused(e, some, q2, lost)
  <2> SUFFICES ASSUME NEW e, NEW some, some \subseteq Workers, Excused(e, some, q, lost)
               PROVE  Excused(e, some, q2, lost)
    OBVIOUS
  <2>1. \A o \in some : Recounts(q[o], e) => Recounts(q2[o], e) \/ e \in lost
    OBVIOUS
  <2> QED
    BY <2>1, StillExcused
<1>2. Recounts(q2[w], d)
  BY DEF Recounts
<1>3. \A e : e # d => Told(tries2, e) = Told(tries, e)
  BY DEF Told
<1>4. ASSUME NEW o \in Workers PROVE Inserted(o, tries2, rs, q2, lost)
  <2> SUFFICES ASSUME q2[o].pc = "insert row" PROVE Inserted(o, tries2, rs, q2, lost)
    BY DEF Inserted
  <2>1. o # w /\ q2[o] = q[o]
    OBVIOUS
  <2>2. Inserted(o, tries, rs, q, lost)
    BY DEF Tracks
  <2>3. CASE q[o].day = d
    BY <1>2, <2>1, <2>2, <2>3 DEF Inserted, Excused
  <2>4. CASE q[o].day # d
    BY <1>1, <1>3, <2>1, <2>2, <2>4 DEF Inserted, Fits, Agrees
  <2> QED
    BY <2>3, <2>4
<1>5. ASSUME NEW e \in 1..Days PROVE Agrees(rs[e], tries2, e) \/ Excused(e, Workers, q2, lost)
  <2>1. CASE e = d
    BY <1>2, <2>1 DEF Excused
  <2>2. CASE e # d
    BY <1>1, <1>3, <2>2 DEF Tracks, Agrees
  <2> QED
    BY <2>1, <2>2
<1> QED
  BY <1>4, <1>5 DEF Tracks

LEMMA NothingTold ==
  ASSUME attempts = {}, NEW d PROVE Told(attempts, d) = 0
<1>1. UNION {a.asked : a \in {x \in attempts : x.at = d}} = {} /\ Cardinality({}) = 0
  BY FS_EmptySet
<1> QED
  BY <1>1 DEF Told

LEMMA TrackedInit == Init => Tracked
<1> SUFFICES ASSUME Init PROVE Tracked
  OBVIOUS
<1>1. \A d \in 1..Days : Told(attempts, d) = 0 /\ rows[d] = NoRow
  BY NothingTold DEF Init
<1> QED
  BY <1>1 DEF Init, Tracked, Tracks, Inserted, Agrees, NoRow, Idle

LEMMA AnsweredTold == \A d : Cardinality(Answered(d)) = Told(attempts, d)
  BY DEF Answered, Told

LEMMA GoOne ==
  ASSUME ReqPart, NEW w \in Workers, NEW r, Go(w, r)
  PROVE  req'[w] = r /\ \A o \in Workers \ {w} : req'[o] = req[o]
  BY DEF ReqPart, Go

\* Days whose attempts are released are missed.
LEMMA ReleasedTold ==
  ASSUME NEW gone, Released(gone), NEW d PROVE d \in missed' \/ Told(attempts', d) = Told(attempts, d)
<1> SUFFICES ASSUME d \notin missed' PROVE Told(attempts', d) = Told(attempts, d)
  OBVIOUS
<1>1. attempts' \subseteq attempts /\ \A a \in attempts : a.at = d => a \in attempts'
  BY DEF Released
<1>2. {a \in attempts' : a.at = d} = {a \in attempts : a.at = d}
  BY <1>1
<1> QED
  BY <1>2 DEF Told

\* The steps that touch no row, and no attempt but released ones.
LEMMA QuietTracked ==
  ASSUME ReqPart, Tracked, NEW w \in Workers, NEW r, Go(w, r), UNCHANGED rows,
         UNCHANGED attempts \/ \E gone : Released(gone),
         missed \subseteq missed', r.pc # "insert row",
         \A d : Recounts(req[w], d) => Recounts(r, d) \/ d \in missed'
  PROVE  Tracked'
<1>1. req'[w] = r /\ \A o \in Workers \ {w} : req'[o] = req[o]
  BY GoOne
<1>2. Tracks(attempts, rows, req, missed)
  BY DEF Tracked
<1>3. \A e : e \in missed' \/ Told(attempts', e) = Told(attempts, e)
  BY ReleasedTold
<1>4. Tracks(attempts', rows, req', missed')
  BY <1>1, <1>2, <1>3, GoTracks
<1> QED
  BY <1>4 DEF Tracked

LEMMA RefreshTracked ==
  ASSUME DaysPart, ReqPart, Tracked, NEW w \in Workers, Refresh(w) PROVE Tracked'
<1> DEFINE d == req[w].day
<1>1. /\ At(w, "refresh") /\ Go(w, Idle) /\ UNCHANGED attempts
      /\ rows' = [rows EXCEPT ![d] = RowFor(d, Counts(d))] /\ missed' = missed \ {d}
  BY DEF Refresh, Done, quizVars
<1>2. d \in 1..Days
  BY <1>1, RequestFields DEF ReqPart, At
<1>3. /\ rows'[d] = RowFor(d, Counts(d)) /\ \A e \in 1..Days \ {d} : rows'[e] = rows[e]
  BY <1>1, <1>2 DEF DaysPart
<1>4. HasRow(rows'[d]) /\ Agrees(rows'[d], attempts, d)
  BY <1>3, AnsweredTold DEF RowFor, Counts, Agrees, HasRow
<1>5. \A e \in 1..Days \ {d} : ~Recounts(req[w], e)
  BY DEF Recounts
<1>6. req'[w] = Idle /\ \A o \in Workers \ {w} : req'[o] = req[o]
  BY <1>1, GoOne
<1>7. Idle.pc # "insert row"
  BY DEF Idle
<1>8. Tracks(attempts, rows, req, missed) /\ req \in [Workers -> Requests]
  BY DEF Tracked, ReqPart
<1>9. missed \ {d} \subseteq missed' /\ req'[w].pc # "insert row"
  BY <1>1, <1>6, <1>7
<1> HIDE DEF d
<1>10. Tracks(attempts, rows', req', missed')
  <2>1. GetsRow(w, d, attempts, rows, rows', req, req', missed, missed')
    BY <1>3, <1>4, <1>5, <1>6, <1>8, <1>9 DEF GetsRow
  <2> QED
    BY <1>2, <1>8, <2>1, RowTracks
<1> QED
  BY <1>1, <1>10 DEF Tracked

LEMMA ReadTracked ==
  ASSUME ReqPart, Tracked, NEW w \in Workers, ReadNoRow(w) PROVE Tracked'
<1> DEFINE d == req[w].day
           r == [pc |-> "insert row", day |-> d, row |-> RowFor(d, Counts(d)), watch |-> 0]
<1>1. At(w, "refresh") /\ Go(w, r) /\ UNCHANGED <<attempts, rows, missed>>
  BY DEF ReadNoRow, quizVars, dayVars
<1>2. HasRow(r.row) /\ Fits(r, attempts)
  BY AnsweredTold DEF RowFor, Counts, HasRow, Fits, Agrees
<1>3. \A e : Recounts(req[w], e) => Recounts(r, e)
  BY DEF Recounts
<1> HIDE DEF d, r
<1>4. req'[w] = r /\ \A o \in Workers \ {w} : req'[o] = req[o]
  BY <1>1, GoOne
<1>5. Tracks(attempts, rows, req, missed)
  BY DEF Tracked
<1>6. Tracks(attempts, rows, req', missed)
  BY <1>2, <1>3, <1>4, <1>5, GoTracks
<1> QED
  BY <1>1, <1>6 DEF Tracked

\* A recount of a day that is not made misses the day, unless its row is right.
LEMMA MissTracked ==
  ASSUME ReqPart, Tracked, NEW w \in Workers, Go(w, Idle), UNCHANGED <<attempts, rows>>,
         req[w].pc \in {"refresh", "insert row"}, Miss(req[w].day)
  PROVE  Tracked'
<1> DEFINE d == req[w].day
<1>1. Idle.pc # "insert row" /\ \A e : ~Recounts(Idle, e)
  BY DEF Idle, Recounts
<1>2. \A e : Recounts(req[w], e) => e = d
  BY DEF Recounts
<1>3. CASE rows[d].there /\ rows[d].answered = Counts(d).answered
  <2>1. UNCHANGED missed /\ HasRow(rows[d]) /\ Agrees(rows[d], attempts, d)
    BY <1>3, AnsweredTold DEF Miss, HasRow, Agrees, Counts
  <2>2. d \in 1..Days /\ req \in [Workers -> Requests]
    BY RequestFields DEF ReqPart
  <2>3. req'[w] = Idle /\ \A o \in Workers \ {w} : req'[o] = req[o]
    BY GoOne
  <2>4. Tracks(attempts, rows, req, missed)
    BY DEF Tracked
  <2> HIDE DEF d
  <2>5. GetsRow(w, d, attempts, rows, rows, req, req', missed, missed)
    BY <1>1, <1>2, <2>1, <2>2, <2>3 DEF GetsRow
  <2>6. Tracks(attempts, rows, req', missed)
    BY <2>2, <2>4, <2>5, RowTracks
  <2> QED
    BY <2>1, <2>6 DEF Tracked
<1>4. CASE ~(rows[d].there /\ rows[d].answered = Counts(d).answered)
  <2>1. missed' = missed \union {d}
    BY <1>4 DEF Miss
  <2> QED
    BY <1>1, <1>2, <2>1, QuietTracked
<1> QED
  BY <1>3, <1>4

\* An insert that no longer fits leaves the day to the request that will recount it.
LEMMA InsertTracked ==
  ASSUME DaysPart, ReqPart, Tracked, NEW w \in Workers, InsertRow(w) PROVE Tracked'
<1> DEFINE d == req[w].day
<1>1. /\ At(w, "insert row") /\ Go(w, Idle) /\ UNCHANGED attempts
      /\ d \in 1..Days /\ req[w].watch \in {0, 1}
  BY RequestFields DEF InsertRow, Done, quizVars, ReqPart, At
<1>2. Idle.pc # "insert row" /\ \A e : ~Recounts(Idle, e)
  BY DEF Idle, Recounts
<1>3. CASE rows[d].there /\ req[w].watch = 0
  <2>1. Miss(d) /\ UNCHANGED rows
    BY <1>3 DEF InsertRow
  <2> QED
    BY <1>1, <2>1, MissTracked DEF At
<1>4. CASE rows[d].there /\ req[w].watch # 0
  <2>1. UNCHANGED <<rows, missed>> /\ \A e : ~Recounts(req[w], e)
    BY <1>1, <1>4 DEF InsertRow, Recounts, At
  <2> QED
    BY <1>1, <1>2, <2>1, QuietTracked
<1>5. CASE ~rows[d].there
  <2>1. /\ rows' = [rows EXCEPT ![d] = req[w].row]
        /\ missed' = IF req[w].row.answered = Counts(d).answered THEN missed \ {d} ELSE missed
    BY <1>5 DEF InsertRow
  <2>2. rows'[d] = req[w].row /\ \A e \in 1..Days \ {d} : rows'[e] = rows[e]
    BY <1>1, <2>1 DEF DaysPart
  <2>3. req'[w] = Idle /\ \A o \in Workers \ {w} : req'[o] = req[o]
    BY <1>1, GoOne
  <2>4. Inserted(w, attempts, rows, req, missed) /\ Tracks(attempts, rows, req, missed)
    BY DEF Tracked, Tracks
  <2>5. HasRow(req[w].row) /\ (Fits(req[w], attempts) \/ Excused(d, Workers \ {w}, req, missed))
    BY <1>1, <1>5, <2>4 DEF Inserted, HasRow, At
  <2>6. missed \ {d} \subseteq missed' /\ (Agrees(rows'[d], attempts, d) \/ Excused(d, Workers \ {w}, req', missed'))
    <3>1. CASE req[w].row.answered = Counts(d).answered
      BY <2>1, <2>2, <3>1, AnsweredTold DEF Counts, Agrees
    <3>2. CASE req[w].row.answered # Counts(d).answered
      <4>1. UNCHANGED missed /\ ~Fits(req[w], attempts)
        BY <2>1, <3>2, AnsweredTold DEF Counts, Fits, Agrees
      <4> QED
        BY <2>3, <2>5, <4>1 DEF Excused
    <3> QED
      BY <3>1, <3>2
  <2>7. \A e \in 1..Days \ {d} : ~Recounts(req[w], e)
    BY DEF Recounts
  <2>8. d \in 1..Days /\ req \in [Workers -> Requests]
    BY <1>1 DEF ReqPart
  <2> HIDE DEF d
  <2>9. GetsRow(w, d, attempts, rows, rows', req, req', missed, missed')
    BY <1>2, <2>2, <2>3, <2>5, <2>6, <2>7, <2>8 DEF GetsRow
  <2>10. Tracks(attempts, rows', req', missed')
    BY <2>4, <2>8, <2>9, RowTracks
  <2> QED
    BY <1>1, <2>10 DEF Tracked
<1> QED
  BY <1>3, <1>4, <1>5

LEMMA WatchTracked ==
  ASSUME DaysPart, ReqPart, Tracked, NEW w \in Workers, Watch(w) PROVE Tracked'
<1> DEFINE counts == [Counts(today) EXCEPT !.watched = @ + 1]
           row    == RowFor(today, counts)
<1>1. At(w, "idle") /\ UNCHANGED attempts /\ today \in 1..Days
  BY DEF Watch, quizVars, DaysPart
<1>2. HasRow(row) /\ Agrees(row, attempts, today)
  BY AnsweredTold DEF RowFor, Counts, HasRow, Agrees
<1>3. Tracks(attempts, rows, req, missed) /\ \A e : ~Recounts(req[w], e)
  BY <1>1 DEF Tracked, Recounts, At
<1>4. CASE rows[today].there
  <2>1. rows' = [rows EXCEPT ![today] = row] /\ missed' = missed \ {today} /\ UNCHANGED req
    BY <1>4 DEF Watch
  <2> HIDE DEF row
  <2>2. rows'[today] = row /\ \A e \in 1..Days \ {today} : rows'[e] = rows[e]
    BY <1>1, <2>1 DEF DaysPart
  <2>3. GetsRow(w, today, attempts, rows, rows', req, req', missed, missed')
    BY <1>1, <1>2, <1>3, <2>1, <2>2 DEF GetsRow, ReqPart, At
  <2>4. Tracks(attempts, rows', req', missed')
    BY <1>1, <1>3, <2>3, RowTracks
  <2> QED
    BY <1>1, <2>4 DEF Tracked
<1>5. CASE ~rows[today].there
  <2> DEFINE r == [pc |-> "insert row", day |-> today, row |-> row, watch |-> 1]
  <2>1. Go(w, r) /\ UNCHANGED <<rows, missed>>
    BY <1>5 DEF Watch
  <2>2. r.row = row /\ r.day = today
    OBVIOUS
  <2> HIDE DEF row, r
  <2>3. Fits(r, attempts) /\ HasRow(r.row)
    BY <1>2, <2>2 DEF Fits
  <2>4. req'[w] = r /\ \A o \in Workers \ {w} : req'[o] = req[o]
    BY <2>1, GoOne
  <2>5. Tracks(attempts, rows, req', missed)
    BY <1>3, <2>3, <2>4, GoTracks
  <2> QED
    BY <1>1, <2>1, <2>5 DEF Tracked
<1> QED
  BY <1>4, <1>5

LEMMA AttemptTracked ==
  ASSUME DaysPart, ReqPart, Tracked, NEW w \in Workers, InsertAttempt(w), \E s \in sets : s.id = req[w].set
  PROVE  Tracked'
<1> DEFINE new == [set |-> req[w].set, at |-> today, asked |-> req[w].asked, passed |-> req[w].passed]
<1>1. /\ At(w, "insert attempt") /\ attempts' = attempts \union {new}
      /\ Go(w, [pc |-> "refresh", day |-> today]) /\ UNCHANGED <<rows, missed>>
  BY DEF InsertAttempt, dayVars
<1>2. new.at = today /\ today \in 1..Days
  BY DEF DaysPart
<1> HIDE DEF new
<1>3. req'[w] = [pc |-> "refresh", day |-> today] /\ \A o \in Workers \ {w} : req'[o] = req[o]
  BY <1>1, GoOne
<1>4. \A e : e # today => {a \in attempts' : a.at = e} = {a \in attempts : a.at = e}
  BY <1>1, <1>2
<1>5. Tracks(attempts, rows, req, missed) /\ \A e : ~Recounts(req[w], e)
  BY <1>1 DEF Tracked, Recounts, At
<1>6. req'[w].pc = "refresh" /\ req'[w].day = today
  BY <1>3
<1>7. Tracks(attempts', rows, req', missed)
  BY <1>2, <1>3, <1>4, <1>5, <1>6, AttemptTracks
<1> QED
  BY <1>1, <1>7 DEF Tracked

LEMMA TrackedServe ==
  ASSUME DaysPart, ReqPart, Tracked, NEW w \in Workers, Serve(w) PROVE Tracked'
<1>1. CASE Refresh(w) \/ ReadNoRow(w) \/ InsertRow(w)
  BY <1>1, RefreshTracked, ReadTracked, InsertTracked
<1>2. CASE InsertAttempt(w) /\ \E s \in sets : s.id = req[w].set
  BY <1>2, AttemptTracked
<1>3. ASSUME NEW r, Go(w, r), r.pc # "insert row", UNCHANGED rows, req[w].pc \notin {"refresh", "insert row"},
             UNCHANGED <<attempts, missed>> \/ \E gone : Released(gone)
      PROVE  Tracked'
  <2>1. (\A d : ~Recounts(req[w], d)) /\ missed \subseteq missed'
    BY <1>3 DEF Recounts, Released
  <2> QED
    BY <1>3, <2>1, QuietTracked
<1>4. CASE InsertAttempt(w) /\ ~\E s \in sets : s.id = req[w].set
  BY <1>3, <1>4 DEF InsertAttempt, At, Done, Idle, dayVars
<1>5. CASE ReleaseStale(w)
  <2>1. PICK id \in req[w].stale : Released({id}) /\ Go(w, [req[w] EXCEPT !.stale = @ \ {id}])
    BY <1>5 DEF ReleaseStale
  <2>2. req[w] \in [pc : {"release"}, day : 1..Days, stale : SUBSET Nat]
    BY <1>5, ReleaseRequest DEF ReleaseStale, ReqPart, At
  <2>3. [req[w] EXCEPT !.stale = @ \ {id}].pc = "release" /\ req[w].pc = "release"
    BY <2>2
  <2> QED
    BY <1>3, <1>5, <2>1, <2>3 DEF ReleaseStale
<1>6. CASE Rebuild(w)
  <2>1. /\ req[w].pc = "rebuild" /\ Go(w, Idle) /\ Idle.pc # "insert row" /\ UNCHANGED rows
        /\ UNCHANGED <<attempts, missed>> \/ Released(req[w].current)
    BY <1>6 DEF Rebuild, At, Done, Idle, quizVars
  <2> QED
    BY <1>3, <2>1
<1>7. CASE ReadCurrent(w) \/ BuildToday(w) \/ SaveSettings(w)
  <2>1. UNCHANGED <<attempts, rows, missed>> /\ req[w].pc \notin {"refresh", "insert row"}
    BY <1>7 DEF ReadCurrent, BuildToday, SaveSettings, At, quizVars, dayVars
  <2>2. \/ Go(w, Idle) \/ Go(w, [pc |-> "build", day |-> req[w].day]) \/ Go(w, [pc |-> "refresh", day |-> today])
    BY <1>7 DEF ReadCurrent, BuildToday, SaveSettings, Done
  <2> QED
    BY <1>3, <2>1, <2>2 DEF Idle
<1> QED
  BY <1>1, <1>2, <1>4, <1>5, <1>6, <1>7 DEF Serve

LEMMA TrackedLoads ==
  ASSUME DaysPart, ReqPart, Tracked, NEW w \in Workers, Loads(w) PROVE Tracked'
<1>1. CASE Watch(w)
  BY <1>1, WatchTracked
<1>2. ASSUME NEW r, Go(w, r), r.pc # "insert row", At(w, "idle"), UNCHANGED <<attempts, rows, missed>>
      PROVE  Tracked'
  <2>1. \A d : ~Recounts(req[w], d)
    BY <1>2 DEF Recounts, At
  <2> QED
    BY <1>2, <2>1, QuietTracked
<1>3. CASE LoadStale(w)
  BY <1>2, <1>3 DEF LoadStale, quizVars, dayVars
<1>4. ASSUME NEW new \in Scopes, CheckCurrent(w, new) PROVE Tracked'
  BY <1>2, <1>4 DEF CheckCurrent, quizVars, dayVars, Tracked
<1>5. ASSUME NEW s \in sets, LoadSet(w, s) PROVE Tracked'
  BY <1>2, <1>5 DEF LoadSet, quizVars, dayVars
<1>6. CASE LoadSettings(w)
  BY <1>2, <1>6 DEF LoadSettings, quizVars, dayVars
<1>7. ASSUME NEW d \in 1..Days, RebuildDay(w, d) PROVE Tracked'
  BY <1>2, <1>7 DEF RebuildDay, quizVars, dayVars
<1> QED
  BY <1>1, <1>3, <1>4, <1>5, <1>6, <1>7 DEF Loads

LEMMA TrackedStep == Typed /\ Tracked /\ [Next]_vars => Tracked'
<1> SUFFICES ASSUME Typed, Tracked, Moves PROVE Tracked'
  BY NextMoves DEF Typed
<1>0. DaysPart /\ ReqPart
  BY QuizParts
<1>1. ASSUME NEW w \in Workers, Kill(w) PROVE Tracked'
  <2>1. Go(w, Idle) /\ UNCHANGED <<attempts, rows>> /\ Idle.pc # "insert row"
    BY <1>1 DEF Kill, Done, Idle, quizVars
  <2>2. CASE At(w, "refresh") \/ (At(w, "insert row") /\ req[w].watch = 0)
    BY <1>0, <1>1, <2>1, <2>2, MissTracked DEF Kill, At
  <2>3. CASE ~(At(w, "refresh") \/ (At(w, "insert row") /\ req[w].watch = 0))
    <3>1. UNCHANGED missed /\ \A d : ~Recounts(req[w], d)
      BY <1>1, <2>3 DEF Kill, At, Recounts
    <3> QED
      BY <1>0, <2>1, <3>1, QuietTracked
  <2> QED
    BY <2>2, <2>3
<1>2. CASE UNCHANGED <<attempts, rows, req, missed>>
  BY <1>2 DEF Tracked
<1> QED
  BY <1>0, <1>1, <1>2, TrackedServe, TrackedLoads DEF Moves, Midnight, quizVars, dayVars

\* Watches are counted with the view, in one transaction: the row is exact, and what is
\* about to be inserted is, unless it will be refused.
Exact ==
    /\ \A d \in 1..Days : rows[d].watched = watches[d]
    /\ \A w \in Workers : req[w].pc = "insert row" =>
          /\ HasRow(req[w].row)
          /\ HasRow(rows[req[w].day]) \/ req[w].row.watched = watches[req[w].day] + req[w].watch

\* The day e gets a row that is exact, and no other row to be inserted comes up.
LEMMA ExactRow ==
  ASSUME DaysPart, ReqPart, Exact, NEW w \in Workers, NEW e \in 1..Days,
         \A o \in Workers \ {w} : req'[o] = req[o], req'[w].pc # "insert row",
         \A d \in 1..Days \ {e} : rows'[d] = rows[d] /\ watches'[d] = watches[d],
         rows'[e].watched = watches'[e], HasRow(rows'[e])
  PROVE  Exact'
<1>1. \A d \in 1..Days : rows'[d].watched = watches'[d]
  BY DEF Exact
<1>2. ASSUME NEW o \in Workers, req'[o].pc = "insert row"
      PROVE  /\ HasRow(req'[o].row)
             /\ HasRow(rows'[req'[o].day]) \/ req'[o].row.watched = watches'[req'[o].day] + req'[o].watch
  <2>1. req'[o] = req[o] /\ req[o].pc = "insert row"
    BY <1>2
  <2>2. req[o].day \in 1..Days
    BY <2>1, RequestFields DEF ReqPart
  <2> QED
    BY <2>1, <2>2 DEF Exact
<1> QED
  BY <1>1, <1>2 DEF Exact

\* No row and no watch changes; what the request is about to insert is exact.
LEMMA ExactGo ==
  ASSUME ReqPart, Exact, UNCHANGED <<rows, watches>>, NEW w \in Workers, NEW r, Go(w, r),
         r.pc = "insert row" => HasRow(r.row) /\ r.row.watched = watches[r.day] + r.watch
  PROVE  Exact'
<1>1. req'[w] = r /\ \A o \in Workers \ {w} : req'[o] = req[o]
  BY GoOne
<1> QED
  BY <1>1 DEF Exact

LEMMA ExactStep == Typed /\ Exact /\ [Next]_vars => Exact'
<1> SUFFICES ASSUME Typed, Exact, Moves PROVE Exact'
  BY NextMoves DEF Typed
<1>0. DaysPart /\ ReqPart
  BY QuizParts
<1>1. ASSUME UNCHANGED <<rows, watches, req>> PROVE Exact'
  BY <1>1 DEF Exact
<1>2. ASSUME NEW w \in Workers, UNCHANGED <<rows, watches>>, NEW r, Go(w, r), r.pc # "insert row" PROVE Exact'
  BY <1>0, <1>2, ExactGo
<1>i. Idle.pc # "insert row"
  BY DEF Idle
<1>3. ASSUME NEW w \in Workers, Refresh(w) PROVE Exact'
  <2> DEFINE d == req[w].day
  <2>1. /\ At(w, "refresh") /\ Go(w, Idle) /\ UNCHANGED watches /\ d \in 1..Days
        /\ rows' = [rows EXCEPT ![d] = RowFor(d, Counts(d))]
    BY <1>0, <1>3, RequestFields DEF Refresh, Done, ReqPart, At
  <2>2. /\ HasRow(rows'[d]) /\ rows'[d].watched = watches'[d]
        /\ \A e \in 1..Days \ {d} : rows'[e] = rows[e]
    BY <1>0, <2>1 DEF DaysPart, RowFor, Counts, HasRow
  <2>3. req'[w] = Idle /\ \A o \in Workers \ {w} : req'[o] = req[o]
    BY <1>0, <2>1, GoOne
  <2> HIDE DEF d
  <2> QED
    BY <1>0, <1>i, <2>1, <2>2, <2>3, ExactRow
<1>4. ASSUME NEW w \in Workers, ReadNoRow(w) PROVE Exact'
  <2> DEFINE d == req[w].day
             r == [pc |-> "insert row", day |-> d, row |-> RowFor(d, Counts(d)), watch |-> 0]
  <2>1. Go(w, r) /\ UNCHANGED <<rows, watches>> /\ d \in 1..Days
    BY <1>0, <1>4, RequestFields DEF ReadNoRow, ReqPart, At, dayVars
  <2>2. /\ HasRow(r.row) /\ r.row.watched = watches[d] /\ r.watch = 0 /\ r.day = d
        /\ watches[d] \in Nat
    BY <1>0, <2>1 DEF RowFor, Counts, DaysPart, HasRow
  <2> HIDE DEF d, r
  <2>3. watches[d] + 0 = watches[d]
    BY <2>2
  <2> QED
    BY <1>0, <2>1, <2>2, <2>3, ExactGo
<1>5. ASSUME NEW w \in Workers, InsertRow(w) PROVE Exact'
  <2> DEFINE d == req[w].day
  <2>1. Go(w, Idle) /\ req[w].pc = "insert row" /\ d \in 1..Days
    BY <1>0, <1>5, RequestFields DEF InsertRow, Done, ReqPart, At
  <2>2. CASE rows[d].there
    BY <1>2, <1>5, <1>i, <2>1, <2>2 DEF InsertRow
  <2>3. CASE ~rows[d].there
    <3>1. rows' = [rows EXCEPT ![d] = req[w].row] /\ watches' = [watches EXCEPT ![d] = @ + req[w].watch]
      BY <1>5, <2>3 DEF InsertRow
    <3>2. /\ rows'[d] = req[w].row /\ watches'[d] = watches[d] + req[w].watch
          /\ \A e \in 1..Days \ {d} : rows'[e] = rows[e] /\ watches'[e] = watches[e]
      BY <1>0, <2>1, <3>1 DEF DaysPart
    <3>3. req[w].row.watched = watches[d] + req[w].watch
      BY <2>1, <2>3 DEF Exact, HasRow
    <3>4. req'[w] = Idle /\ \A o \in Workers \ {w} : req'[o] = req[o]
      BY <1>0, <2>1, GoOne
    <3>5. HasRow(req[w].row)
      BY <2>1 DEF Exact, HasRow
    <3> HIDE DEF d
    <3> QED
      BY <1>0, <1>i, <2>1, <3>2, <3>3, <3>4, <3>5, ExactRow
  <2> QED
    BY <2>2, <2>3
<1>6. ASSUME NEW w \in Workers, Watch(w) PROVE Exact'
  <2> DEFINE row == RowFor(today, [Counts(today) EXCEPT !.watched = @ + 1])
             r   == [pc |-> "insert row", day |-> today, row |-> row, watch |-> 1]
  <2>1. At(w, "idle") /\ today \in 1..Days
    BY <1>0, <1>6 DEF Watch, DaysPart
  <2>2. HasRow(row) /\ row.watched = watches[today] + 1 /\ r.row = row /\ r.day = today /\ r.watch = 1
    BY DEF RowFor, Counts, HasRow
  <2>3. CASE rows[today].there
    <3>1. rows' = [rows EXCEPT ![today] = row] /\ watches' = [watches EXCEPT ![today] = @ + 1] /\ UNCHANGED req
      BY <1>6, <2>3 DEF Watch
    <3> HIDE DEF row, r
    <3>2. /\ rows'[today] = row /\ watches'[today] = watches[today] + 1
          /\ \A e \in 1..Days \ {today} : rows'[e] = rows[e] /\ watches'[e] = watches[e]
      BY <1>0, <2>1, <3>1 DEF DaysPart
    <3> QED
      BY <1>0, <2>1, <2>2, <3>1, <3>2, ExactRow DEF At
  <2>4. CASE ~rows[today].there
    <3>1. Go(w, r) /\ UNCHANGED <<rows, watches>>
      BY <1>6, <2>4 DEF Watch
    <3> HIDE DEF row, r
    <3> QED
      BY <1>0, <2>2, <3>1, ExactGo
  <2> QED
    BY <2>3, <2>4
<1>7. ASSUME NEW w \in Workers, Serve(w), ~Refresh(w), ~ReadNoRow(w), ~InsertRow(w) PROVE Exact'
  <2>1. UNCHANGED <<rows, watches>>
    BY <1>7 DEF Serve, ReleaseStale, ReadCurrent, BuildToday, Rebuild, InsertAttempt, SaveSettings, dayVars
  <2>2. CASE ReleaseStale(w)
    <3>1. PICK id \in req[w].stale : Go(w, [req[w] EXCEPT !.stale = @ \ {id}])
      BY <2>2 DEF ReleaseStale
    <3>2. req[w] \in [pc : {"release"}, day : 1..Days, stale : SUBSET Nat]
      BY <1>0, <2>2, ReleaseRequest DEF ReleaseStale, ReqPart, At
    <3>3. [req[w] EXCEPT !.stale = @ \ {id}].pc = "release"
      BY <3>2
    <3> QED
      BY <1>2, <2>1, <3>1, <3>3
  <2>3. CASE ~ReleaseStale(w)
    <3>1. \/ Go(w, Idle) \/ Go(w, [pc |-> "build", day |-> req[w].day]) \/ Go(w, [pc |-> "refresh", day |-> today])
      BY <1>7, <2>3 DEF Serve, ReadCurrent, BuildToday, Rebuild, InsertAttempt, SaveSettings, Done
    <3> QED
      BY <1>2, <1>i, <2>1, <3>1
  <2> QED
    BY <2>2, <2>3
<1>8. ASSUME NEW w \in Workers, Loads(w), ~Watch(w) PROVE Exact'
  <2>1. UNCHANGED <<rows, watches>>
    BY <1>8 DEF Loads, LoadStale, CheckCurrent, LoadSet, LoadSettings, RebuildDay, dayVars
  <2>2. ASSUME NEW new, CheckCurrent(w, new) PROVE Exact'
    BY <1>1, <1>2, <2>1, <2>2 DEF CheckCurrent
  <2>3. ASSUME NEW s, LoadSet(w, s) PROVE Exact'
    BY <1>2, <2>1, <2>3 DEF LoadSet
  <2>4. ASSUME NEW d, RebuildDay(w, d) PROVE Exact'
    BY <1>2, <2>1, <2>4 DEF RebuildDay
  <2>5. CASE LoadStale(w)
    BY <1>2, <2>1, <2>5 DEF LoadStale
  <2>6. CASE LoadSettings(w)
    BY <1>2, <2>1, <2>6 DEF LoadSettings
  <2> QED
    BY <1>8, <2>2, <2>3, <2>4, <2>5, <2>6 DEF Loads
<1>9. ASSUME NEW w \in Workers, Kill(w) PROVE Exact'
  BY <1>2, <1>9, <1>i DEF Kill, Done
<1> QED
  BY <1>1, <1>3, <1>4, <1>5, <1>6, <1>7, <1>8, <1>9 DEF Moves, Midnight, dayVars

\* A day's row counts the day's watches, always; and the questions answered, unless a
\* recount is under way (activity.refresh) or one of the named losses left the row wrong:
\* through two first rows of a day at once, rows recounted later and goals that change.
THEOREM ActivityIsTracked == Spec => []ActivityAgrees
<1>1. Init => Exact
  <2>1. NoRow.watched = 0 /\ Idle.pc # "insert row"
    BY DEF NoRow, Idle
  <2>2. Init => /\ \A d \in 1..Days : rows[d] = NoRow /\ watches[d] = 0
                /\ \A w \in Workers : req[w] = Idle
    BY DEF Init
  <2> QED
    BY <2>1, <2>2 DEF Exact
<1>2. Tracked /\ Exact => ActivityAgrees
  <2> SUFFICES ASSUME Tracked, NEW d \in 1..Days, rows[d].answered # Cardinality(Answered(d))
               PROVE  d \in missed \/ \E w \in Workers : req[w].pc \in {"refresh", "insert row"} /\ req[w].day = d
    BY DEF ActivityAgrees, Exact
  <2>1. Excused(d, Workers, req, missed)
    BY AnsweredTold DEF Tracked, Tracks, Agrees
  <2> QED
    BY <2>1 DEF Excused, Recounts
<1> QED
  BY <1>1, <1>2, TrackedInit, TrackedStep, ExactStep, TypesInvariant, PTL DEF Spec

-----------------------------------------------------------------------------
(* The streak.  A recursive function is whatever satisfies its equation, so      *)
(* that one that does has to be shown to exist, day by day.                      *)

\* A set of numbers that has 0 and each next one is Nat: the least number left out
\* would follow one that is in it.
LEMMA Induction ==
  ASSUME NEW S, 0 \in S, \A n \in Nat : n \in S => n + 1 \in S
  PROVE  Nat \subseteq S
<1> SUFFICES ASSUME Nat \ S # {} PROVE FALSE
  OBVIOUS
<1> DEFINE R == {p \in Nat \X Nat : p[1] < p[2]}
<1>1. IsWellFoundedOn(R, Nat)
  BY NatLessThanWellFounded DEF OpToRel
<1>2. PICK x \in Nat \ S : \A y \in Nat \ S : ~(<<y, x>> \in R)
  BY <1>1, WFMin
<1>3. x # 0 /\ x - 1 \in Nat /\ <<x - 1, x>> \in R
  BY <1>2
<1>4. x - 1 \in S
  BY <1>2, <1>3
<1> QED
  BY <1>2, <1>3, <1>4

\* f counts, for every day up to n, the days in a row up to it that are good.
IsRun(f, good, n) == f = [d \in 0..n |-> IF d = 0 \/ d \notin good THEN 0 ELSE 1 + f[d - 1]]

LEMMA RunExists ==
  ASSUME NEW good, NEW n \in Nat PROVE \E f : IsRun(f, good, n)
<1> DEFINE S == {m \in Nat : \E f : IsRun(f, good, m)}
<1>1. 0 \in S
  <2>1. IsRun([d \in 0..0 |-> 0], good, 0)
    BY DEF IsRun
  <2> QED
    BY <2>1
<1>2. ASSUME NEW m \in Nat, m \in S PROVE m + 1 \in S
  <2>1. PICK f : IsRun(f, good, m)
    BY <1>2
  <2> DEFINE new == IF m + 1 \notin good THEN 0 ELSE 1 + f[m]
             h   == [d \in 0..(m + 1) |-> IF d = m + 1 THEN new ELSE f[d]]
  <2>2. \A d \in 0..m : f[d] = IF d = 0 \/ d \notin good THEN 0 ELSE 1 + f[d - 1]
    BY <2>1 DEF IsRun
  <2>3. ASSUME NEW d \in 0..(m + 1) PROVE h[d] = IF d = 0 \/ d \notin good THEN 0 ELSE 1 + h[d - 1]
    <3>1. CASE d = m + 1
      <4>1. h[d] = new /\ d # 0 /\ h[d - 1] = f[m]
        BY <3>1
      <4> HIDE DEF h
      <4> QED
        BY <3>1, <4>1
    <3>2. CASE d # m + 1
      <4>1. d \in 0..m /\ h[d] = f[d] /\ (d # 0 => h[d - 1] = f[d - 1])
        BY <3>2
      <4> HIDE DEF h
      <4> QED
        BY <2>2, <4>1
    <3> QED
      BY <3>1, <3>2
  <2>4. h = [d \in 0..(m + 1) |-> h[d]]
    OBVIOUS
  <2> HIDE DEF h
  <2>5. IsRun(h, good, m + 1)
    BY <2>3, <2>4 DEF IsRun
  <2> QED
    BY <2>5
<1> HIDE DEF S
<1>3. Nat \subseteq S
  BY <1>1, <1>2, Induction
<1> QED
  BY <1>3 DEF S

\* More good days make no run shorter.
LEMMA RunsGrow ==
  ASSUME NEW good, NEW better, NEW n \in Nat, NEW f, NEW g, IsRun(f, good, n), IsRun(g, better, n),
         NEW last \in 0..n, \A d \in 1..last : d \in good => d \in better
  PROVE  f[last] \in Nat /\ g[last] \in Nat /\ f[last] <= g[last]
<1> DEFINE S == {m \in Nat : m <= last => f[m] \in Nat /\ g[m] \in Nat /\ f[m] <= g[m]}
<1>0. /\ \A d \in 0..n : f[d] = IF d = 0 \/ d \notin good THEN 0 ELSE 1 + f[d - 1]
      /\ \A d \in 0..n : g[d] = IF d = 0 \/ d \notin better THEN 0 ELSE 1 + g[d - 1]
  BY DEF IsRun
<1>1. 0 \in S
  BY <1>0
<1>2. ASSUME NEW m \in Nat, m \in S, m + 1 <= last
      PROVE  f[m + 1] \in Nat /\ g[m + 1] \in Nat /\ f[m + 1] <= g[m + 1]
  <2>1. m + 1 \in 0..n /\ m + 1 \in 1..last /\ m + 1 # 0 /\ (m + 1) - 1 = m
    BY <1>2
  <2>2. f[m] \in Nat /\ g[m] \in Nat /\ f[m] <= g[m]
    BY <1>2
  <2>3. /\ f[m + 1] = IF m + 1 \notin good THEN 0 ELSE 1 + f[m]
        /\ g[m + 1] = IF m + 1 \notin better THEN 0 ELSE 1 + g[m]
    BY <1>0, <2>1
  <2>4. m + 1 \in good => m + 1 \in better
    BY <2>1
  <2> QED
    BY <2>2, <2>3, <2>4
<1>3. \A m \in Nat : m \in S => m + 1 \in S
  BY <1>2
<1>4. last \in Nat /\ last <= last
  OBVIOUS
<1> HIDE DEF S
<1>5. Nat \subseteq S
  BY <1>1, <1>3, Induction
<1>6. last \in S
  BY <1>4, <1>5
<1> QED
  BY <1>4, <1>6 DEF S

MetDays == {d \in 1..Days : Met(d)}

LEMMA RunIsRun == IsRun(Run, MetDays, Days)
<1>1. Days \in Nat
  BY QuizAssumption
<1>2. PICK f : IsRun(f, MetDays, Days)
  BY <1>1, RunExists
<1>3. \A d \in 0..Days : d = 0 \/ (d \notin MetDays <=> ~Met(d))
  BY <1>1 DEF MetDays
<1>4. \A h : IsRun(h, MetDays, Days)
              <=> h = [d \in 0..Days |-> IF d = 0 \/ ~Met(d) THEN 0 ELSE 1 + h[d - 1]]
  BY <1>3 DEF IsRun
<1>5. Run = (CHOOSE h : h = [d \in 0..Days |-> IF d = 0 \/ ~Met(d) THEN 0 ELSE 1 + h[d - 1]])
  BY DEF Run
<1> QED
  BY <1>2, <1>4, <1>5

\* No row, there or about to be, has more answers than were ever given that day.
Within ==
    /\ \A d \in 1..Days : HasRow(rows[d]) => rows[d].answered <= Told(recorded, d)
    /\ \A w \in Workers : req[w].pc = "insert row" =>
          HasRow(req[w].row) /\ req[w].row.answered <= Told(recorded, req[w].day)

LEMMA MoreTold ==
  ASSUME NEW tries, NEW more, NEW last, tries \subseteq more, AttemptsOK(more, last), NEW d
  PROVE  Told(tries, d) \in Nat /\ Told(more, d) \in Nat /\ Told(tries, d) <= Told(more, d)
<1> DEFINE A == UNION {a.asked : a \in {x \in tries : x.at = d}}
           B == UNION {a.asked : a \in {x \in more : x.at = d}}
<1>1. A \subseteq B /\ B \subseteq Questions
  BY DEF AttemptsOK
<1>2. IsFiniteSet(A) /\ IsFiniteSet(B) /\ Cardinality(A) <= Cardinality(B)
  BY <1>1, QuizAssumption, FS_Subset
<1>3. Cardinality(A) \in Nat /\ Cardinality(B) \in Nat
  BY <1>2, FS_CardinalityType
<1>4. Told(tries, d) = Cardinality(A) /\ Told(more, d) = Cardinality(B)
  BY DEF Told
<1> HIDE DEF A, B
<1> QED
  BY <1>2, <1>3, <1>4

LEMMA StillWithin ==
  ASSUME NEW tries, NEW more, NEW last, tries \subseteq more, AttemptsOK(more, last), NEW d,
         NEW n \in Nat, n <= Told(tries, d)
  PROVE  n <= Told(more, d)
<1>1. Told(tries, d) \in Nat /\ Told(more, d) \in Nat /\ Told(tries, d) <= Told(more, d)
  BY MoreTold
<1>2. \A k, m \in Nat : n <= k /\ k <= m => n <= m
  OBVIOUS
<1> QED
  BY <1>1, <1>2

LEMMA ToldTypes ==
  ASSUME SetsPart, NEW d
  PROVE  Told(attempts, d) \in Nat /\ Told(recorded, d) \in Nat /\ Told(attempts, d) <= Told(recorded, d)
  BY MoreTold DEF SetsPart

\* A day that has lost no attempt tells all that was recorded.
LEMMA NothingLost ==
  ASSUME SetsPart, NEW d, ~\E a \in Lost : a.at = d PROVE Told(attempts, d) = Told(recorded, d)
<1>1. {x \in attempts : x.at = d} = {x \in recorded : x.at = d}
  BY DEF Lost, SetsPart
<1> QED
  BY <1>1 DEF Told

\* A step in which the day e gets the row it has now, and the others keep theirs.
NewRow(e) ==
    /\ \A d \in 1..Days \ {e} : rows'[d] = rows[d]
    /\ HasRow(rows'[e]) /\ rows'[e].answered <= Told(recorded, e)
    /\ UNCHANGED <<today, recorded>>
    /\ HasRow(rows[e]) => /\ rows'[e].answered = Told(attempts, e)
                          /\ e # today => rows'[e].goal = rows[e].goal

LEMMA WithinStays ==
  ASSUME SetsPart, SetsPart', DaysPart, ReqPart, Within, recorded \subseteq recorded',
         UNCHANGED rows \/ \E e \in 1..Days : NewRow(e),
         \A v \in Workers : \/ req'[v] = req[v] \/ req'[v].pc # "insert row"
                           \/ /\ HasRow(req'[v].row) /\ UNCHANGED recorded
                              /\ req'[v].row.answered <= Told(recorded, req'[v].day)
  PROVE  Within'
<1>0. \A d : \A n \in Nat : n <= Told(recorded, d) => n <= Told(recorded', d)
  BY StillWithin DEF SetsPart
<1>1. ASSUME NEW d \in 1..Days, HasRow(rows'[d]) PROVE rows'[d].answered <= Told(recorded', d)
  <2>2. rows[d].answered \in Nat
    BY DEF DaysPart, Row
  <2>3. CASE rows'[d] = rows[d]
    BY <1>0, <1>1, <2>2, <2>3 DEF Within
  <2>4. CASE rows'[d] # rows[d]
    <3>1. UNCHANGED recorded /\ rows'[d].answered <= Told(recorded, d)
      BY <2>4 DEF NewRow
    <3> QED
      BY <3>1
  <2> QED
    BY <2>3, <2>4
<1>2. ASSUME NEW v \in Workers, req'[v].pc = "insert row"
      PROVE  HasRow(req'[v].row) /\ req'[v].row.answered <= Told(recorded', req'[v].day)
  <2>1. CASE req'[v] = req[v]
    <3>1. req[v] \in Requests /\ req[v].pc = "insert row"
      BY <1>2, <2>1 DEF ReqPart
    <3>2. req[v].row.answered \in Nat
      BY <3>1, RequestFields DEF Row
    <3>3. HasRow(req[v].row) /\ req[v].row.answered <= Told(recorded, req[v].day)
      BY <3>1 DEF Within
    <3>4. req[v].row.answered <= Told(recorded', req[v].day)
      BY <1>0, <3>2, <3>3
    <3> QED
      BY <2>1, <3>3, <3>4
  <2>2. CASE req'[v] # req[v]
    BY <1>2, <2>2
  <2> QED
    BY <2>1, <2>2
<1> QED
  BY <1>1, <1>2 DEF Within

\* What a request may leave for its next step.
Carries(r) == r.pc # "insert row" \/ (HasRow(r.row) /\ r.row.answered <= Told(recorded, r.day))

LEMMA RowStep ==
  ASSUME Typed, Within, NEW w \in Workers, Serve(w) \/ Loads(w)
  PROVE  /\ UNCHANGED rows \/ \E e \in 1..Days : NewRow(e)
         /\ \A v \in Workers : req'[v] = req[v] \/ req'[v].pc # "insert row"
                               \/ (UNCHANGED recorded /\ Carries(req'[v]))
         /\ UNCHANGED today
<1> DEFINE Rows == UNCHANGED rows \/ \E e \in 1..Days : NewRow(e)
           Reqs == \A v \in Workers : req'[v] = req[v] \/ req'[v].pc # "insert row"
                                      \/ (UNCHANGED recorded /\ Carries(req'[v]))
<1>0. SetsPart /\ DaysPart /\ ReqPart
  BY QuizParts
<1>t. UNCHANGED today
  BY DEF Serve, Loads, ReleaseStale, ReadCurrent, BuildToday, Rebuild, InsertAttempt, SaveSettings, Refresh,
         ReadNoRow, InsertRow, LoadStale, CheckCurrent, LoadSet, Watch, LoadSettings, RebuildDay
<1>a. ASSUME NEW r, Go(w, r), r.pc # "insert row" \/ (UNCHANGED recorded /\ Carries(r)) PROVE Reqs
  BY <1>0, <1>a, GoOne
<1>b. Idle.pc # "insert row"
  BY DEF Idle
<1>c. ASSUME NEW r, Go(w, r), r.pc \in {"release", "rebuild", "insert attempt", "save settings", "refresh"} PROVE Reqs
  BY <1>a, <1>c
<1>1. CASE ReleaseStale(w)
  <2>1. PICK id \in req[w].stale : Go(w, [req[w] EXCEPT !.stale = @ \ {id}])
    BY <1>1 DEF ReleaseStale
  <2>2. req[w] \in Requests /\ req[w].pc = "release"
    BY <1>0, <1>1 DEF ReleaseStale, ReqPart, At
  <2>3. [req[w] EXCEPT !.stale = @ \ {id}].pc # "insert row"
    BY <2>2, ReleaseRequest
  <2>4. Reqs
    BY <1>a, <2>1, <2>3
  <2> QED
    BY <1>t, <1>1, <2>4 DEF ReleaseStale, dayVars
<1>2. CASE ReadCurrent(w) \/ BuildToday(w) \/ Rebuild(w) \/ InsertAttempt(w) \/ SaveSettings(w)
  <2>1. UNCHANGED rows
    BY <1>2 DEF ReadCurrent, BuildToday, Rebuild, InsertAttempt, SaveSettings, dayVars
  <2>2. Go(w, Idle) \/ \E d : Go(w, [pc |-> "build", day |-> d]) \/ Go(w, [pc |-> "refresh", day |-> d])
    BY <1>2 DEF ReadCurrent, BuildToday, Rebuild, InsertAttempt, SaveSettings, Done
  <2>3. Reqs
    BY <1>a, <1>b, <2>2
  <2> QED
    BY <1>t, <2>1, <2>3
<1>3. CASE Refresh(w)
  <2> DEFINE d == req[w].day
  <2>1. /\ Go(w, Idle) /\ UNCHANGED recorded /\ d \in 1..Days
        /\ rows' = [rows EXCEPT ![d] = RowFor(d, Counts(d))]
    BY <1>0, <1>3, RequestFields DEF Refresh, Done, history, ReqPart, At
  <2>2. rows'[d] = RowFor(d, Counts(d)) /\ \A e \in 1..Days \ {d} : rows'[e] = rows[e]
    BY <1>0, <2>1 DEF DaysPart
  <2>3. /\ HasRow(rows'[d]) /\ rows'[d].answered = Told(attempts, d)
        /\ HasRow(rows[d]) /\ d # today => rows'[d].goal = rows[d].goal
    BY <2>2, AnsweredTold DEF RowFor, Counts, GoalFor, HasRow
  <2>4. rows'[d].answered <= Told(recorded, d)
    BY <1>0, <2>3, ToldTypes
  <2> HIDE DEF d
  <2>5. NewRow(d)
    BY <1>t, <2>1, <2>2, <2>3, <2>4 DEF NewRow
  <2>6. Reqs
    BY <1>a, <1>b, <2>1
  <2> QED
    BY <1>t, <2>1, <2>5, <2>6
<1>4. CASE ReadNoRow(w)
  <2> DEFINE d == req[w].day
             r == [pc |-> "insert row", day |-> d, row |-> RowFor(d, Counts(d)), watch |-> 0]
  <2>1. Go(w, r) /\ UNCHANGED <<rows, recorded>> /\ d \in 1..Days
    BY <1>0, <1>4, RequestFields DEF ReadNoRow, history, dayVars, ReqPart, At
  <2>2. HasRow(r.row) /\ r.row.answered = Told(attempts, d) /\ r.day = d
    BY AnsweredTold DEF RowFor, Counts, HasRow
  <2>3. Told(attempts, d) <= Told(recorded, d)
    BY <1>0, ToldTypes
  <2> HIDE DEF d, r
  <2>4. Carries(r)
    BY <2>2, <2>3 DEF Carries
  <2>5. Reqs
    BY <1>a, <2>1, <2>4
  <2> QED
    BY <1>t, <2>1, <2>5
<1>5. CASE InsertRow(w)
  <2> DEFINE d == req[w].day
  <2>1. /\ Go(w, Idle) /\ UNCHANGED recorded /\ d \in 1..Days /\ req[w].pc = "insert row"
        /\ UNCHANGED rows \/ (~HasRow(rows[d]) /\ rows' = [rows EXCEPT ![d] = req[w].row])
    BY <1>0, <1>5, RequestFields DEF InsertRow, Done, history, ReqPart, At, HasRow
  <2>2. HasRow(req[w].row) /\ req[w].row.answered <= Told(recorded, d)
    BY <2>1 DEF Within
  <2>3. Reqs
    BY <1>a, <1>b, <2>1
  <2>4. CASE UNCHANGED rows
    BY <1>t, <2>3, <2>4
  <2>5. CASE ~UNCHANGED rows
    <3>1. rows'[d] = req[w].row /\ ~HasRow(rows[d]) /\ \A e \in 1..Days \ {d} : rows'[e] = rows[e]
      BY <1>0, <2>1, <2>5 DEF DaysPart
    <3> HIDE DEF d
    <3>2. NewRow(d)
      BY <1>t, <2>1, <2>2, <3>1 DEF NewRow
    <3> QED
      BY <1>t, <2>1, <2>3, <3>2
  <2> QED
    BY <2>4, <2>5
<1>6. CASE Watch(w)
  <2> DEFINE row == RowFor(today, [Counts(today) EXCEPT !.watched = @ + 1])
             r   == [pc |-> "insert row", day |-> today, row |-> row, watch |-> 1]
  <2>1. /\ UNCHANGED recorded /\ today \in 1..Days
        /\ \/ rows' = [rows EXCEPT ![today] = row] /\ UNCHANGED req
           \/ Go(w, r) /\ UNCHANGED rows
    BY <1>0, <1>6 DEF Watch, history, DaysPart
  <2>2. HasRow(row) /\ row.answered = Told(attempts, today)
    BY AnsweredTold DEF RowFor, Counts, HasRow
  <2>3. Told(attempts, today) <= Told(recorded, today)
    BY <1>0, ToldTypes
  <2>4. r.row = row /\ r.day = today
    OBVIOUS
  <2> HIDE DEF row, r
  <2>5. Carries(r)
    BY <2>2, <2>3, <2>4 DEF Carries
  <2>6. CASE rows' = [rows EXCEPT ![today] = row] /\ UNCHANGED req
    <3>1. rows'[today] = row /\ \A e \in 1..Days \ {today} : rows'[e] = rows[e]
      BY <1>0, <2>1, <2>6 DEF DaysPart
    <3>2. NewRow(today)
      BY <1>t, <2>1, <2>2, <2>3, <3>1 DEF NewRow
    <3> QED
      BY <1>t, <2>1, <2>6, <3>2
  <2>7. CASE Go(w, r) /\ UNCHANGED rows
    <3>1. Reqs
      BY <1>a, <2>1, <2>5, <2>7
    <3> QED
      BY <1>t, <2>7, <3>1
  <2> QED
    BY <2>1, <2>6, <2>7
<1>7. CASE Loads(w) /\ ~Watch(w)
  <2>1. UNCHANGED rows
    BY <1>7 DEF Loads, LoadStale, CheckCurrent, LoadSet, LoadSettings, RebuildDay, dayVars
  <2>2. ASSUME LoadStale(w) PROVE Reqs
    BY <1>c, <2>2 DEF LoadStale
  <2>3. ASSUME NEW new \in Scopes, CheckCurrent(w, new) PROVE Reqs
    BY <1>c, <2>3 DEF CheckCurrent
  <2>4. ASSUME NEW s \in sets, LoadSet(w, s) PROVE Reqs
    BY <1>c, <2>4 DEF LoadSet
  <2>5. ASSUME LoadSettings(w) PROVE Reqs
    BY <1>c, <2>5 DEF LoadSettings
  <2>6. ASSUME NEW d \in 1..Days, RebuildDay(w, d) PROVE Reqs
    BY <1>c, <2>6 DEF RebuildDay
  <2> QED
    BY <1>7, <1>t, <2>1, <2>2, <2>3, <2>4, <2>5, <2>6 DEF Loads
<1> QED
  BY <1>1, <1>2, <1>3, <1>4, <1>5, <1>6, <1>7 DEF Serve

LEMMA RecordedGrows ==
  ASSUME Moves PROVE recorded \subseteq recorded'
<1>1. \A w \in Workers : InsertAttempt(w) => recorded \subseteq recorded'
  BY DEF InsertAttempt
<1>2. \A w \in Workers : (Serve(w) /\ ~InsertAttempt(w)) \/ Loads(w) \/ Kill(w) => UNCHANGED recorded
  BY DEF Serve, Loads, Kill, ReleaseStale, ReadCurrent, BuildToday, Rebuild, SaveSettings, Refresh, ReadNoRow,
     InsertRow, LoadStale, CheckCurrent, LoadSet, Watch, LoadSettings, RebuildDay, history
<1> QED
  BY <1>1, <1>2 DEF Moves, Midnight, history

LEMMA WithinStep == Typed /\ Within /\ [Next]_vars => Within'
<1> SUFFICES ASSUME Typed, Typed', Within, Moves PROVE Within'
  BY TypesStep, NextMoves DEF Typed
<1>0. SetsPart /\ DaysPart /\ ReqPart /\ SetsPart'
  BY QuizParts DEF Typed, SetsPart, SetsOK, AttemptsOK
<1>1. recorded \subseteq recorded'
  BY RecordedGrows
<1>2. ASSUME NEW w \in Workers, Serve(w) \/ Loads(w) PROVE Within'
  BY <1>0, <1>1, <1>2, RowStep, WithinStays DEF Carries
<1>3. ASSUME NEW w \in Workers, Kill(w) PROVE Within'
  <2>1. UNCHANGED rows /\ Go(w, Idle) /\ Idle.pc # "insert row"
    BY <1>3 DEF Kill, Done, Idle
  <2> QED
    BY <1>0, <1>1, <2>1, GoOne, WithinStays
<1>4. CASE UNCHANGED <<rows, req>>
  BY <1>0, <1>1, <1>4, WithinStays
<1> QED
  BY <1>2, <1>3, <1>4 DEF Moves, Midnight, dayVars

\* What a step does to the days met: none is unmet, but today by a higher goal, or one
\* that has lost an attempt; and midnight changes no row.
LEMMA MetStays ==
  ASSUME Typed, Typed', Within, Moves
  PROVE  \/ today' = today + 1 /\ UNCHANGED rows
         \/ /\ today' = today
            /\ \A d \in 1..Days : Met(d) => \/ Met(d)' \/ (d = today /\ rows'[d].goal > rows[d].goal)
                                            \/ \E a \in Lost : a.at = d
<1>0. DaysPart /\ SetsPart
  BY QuizParts
<1>5. \A d \in 1..Days : rows[d].goal \in Nat /\ rows'[d].goal \in Nat
  <2>1. Goals \union {0} \subseteq Nat
    BY QuizAssumption
  <2>2. \A d \in 1..Days : rows[d].goal \in Goals \union {0} /\ rows'[d].goal \in Goals \union {0}
    BY DEF Typed, Row
  <2> QED
    BY <2>1, <2>2
<1>1. CASE Midnight
  BY <1>1 DEF Midnight, dayVars
<1>2. CASE UNCHANGED <<today, rows>>
  BY <1>2 DEF Met
<1>3. ASSUME NEW e \in 1..Days, NewRow(e), NEW d \in 1..Days, Met(d), ~\E a \in Lost : a.at = d
      PROVE  Met(d)' \/ (d = today /\ rows'[d].goal > rows[d].goal)
  <2>1. CASE d # e
    BY <1>3, <2>1 DEF NewRow, Met
  <2>2. CASE d = e
    <3>1. HasRow(rows[d]) /\ rows[d].answered >= rows[d].goal
      BY <1>3 DEF Met, HasRow
    <3>2. /\ HasRow(rows'[d]) /\ rows'[d].answered = Told(attempts, d)
          /\ d # today => rows'[d].goal = rows[d].goal
      BY <1>3, <2>2, <3>1 DEF NewRow
    <3>3. rows[d].answered <= Told(attempts, d)
      BY <1>0, <1>3, <3>1, NothingLost DEF Within
    <3>4. Told(attempts, d) \in Nat /\ rows[d].answered \in Nat
      BY <1>0, ToldTypes DEF DaysPart, Row
    <3>5. rows[d].goal \in Nat /\ rows'[d].goal \in Nat
      BY <1>5
    <3>7. CASE rows'[d].goal > rows[d].goal
      <4>1. d = today
        BY <3>2, <3>5, <3>7
      <4> QED
        BY <3>7, <4>1
    <3>8. CASE ~(rows'[d].goal > rows[d].goal)
      <4>1. rows'[d].answered >= rows'[d].goal
        BY <3>1, <3>2, <3>3, <3>4, <3>5, <3>8
      <4> QED
        BY <3>2, <4>1 DEF Met, HasRow
    <3> QED
      BY <3>7, <3>8
  <2> QED
    BY <2>1, <2>2
<1>4. ASSUME NEW w \in Workers, Serve(w) \/ Loads(w)
      PROVE  /\ today' = today
             /\ \A d \in 1..Days : Met(d) => \/ Met(d)' \/ (d = today /\ rows'[d].goal > rows[d].goal)
                                             \/ \E a \in Lost : a.at = d
  <2>1. UNCHANGED today /\ (UNCHANGED rows \/ \E e \in 1..Days : NewRow(e))
    BY <1>4, RowStep
  <2>2. CASE UNCHANGED rows
    BY <2>1, <2>2 DEF Met
  <2>3. CASE \E e \in 1..Days : NewRow(e)
    BY <1>3, <2>1, <2>3
  <2> QED
    BY <2>1, <2>2, <2>3
<1> QED
  BY <1>1, <1>2, <1>4 DEF Moves, Kill, dayVars

LEMMA StreakStep ==
  ASSUME Typed, Typed', Within, Moves, IsRun(Run, MetDays, Days), IsRun(Run, MetDays, Days)',
         ~(today' # today /\ ~Met(today)), ~(rows'[today].goal > rows[today].goal),
         ~\E a \in Lost : Met(a.at) /\ ~Met(a.at)'
  PROVE  ~(Streak' < Streak)
<1> DEFINE f == Run
           g == Run'
           before == MetDays
           after  == MetDays'
<1>0. /\ today \in 1..Days /\ today' \in 1..Days /\ Days \in Nat
      /\ today \in 0..Days /\ today - 1 \in 0..Days
  BY QuizAssumption DEF Typed
<1>1. IsRun(f, before, Days) /\ IsRun(g, after, Days)
  BY DEF IsRun
<1>2. /\ \A d \in 1..Days : f[d] = IF d \notin before THEN 0 ELSE 1 + f[d - 1]
      /\ \A d \in 1..Days : g[d] = IF d \notin after THEN 0 ELSE 1 + g[d - 1]
  BY <1>0, <1>1 DEF IsRun
<1>3. /\ \A d \in 1..Days : d \in before <=> Met(d)
      /\ \A d \in 1..Days : d \in after <=> Met(d)'
  BY DEF MetDays
<1>4. /\ Streak = IF today \in before THEN f[today] ELSE f[today - 1]
      /\ Streak' = IF today' \in after THEN g[today'] ELSE g[today' - 1]
  BY <1>0 DEF Streak, MetDays
<1>5. \A last \in 0..Days : (\A d \in 1..last : d \in before => d \in after)
          => f[last] \in Nat /\ g[last] \in Nat /\ f[last] <= g[last]
  <2> HIDE DEF f, g, before, after
  <2> QED
    BY <1>0, <1>1, RunsGrow
<1>6. \A d \in 1..Days : d \in before => d \in after
  <2>1. \A d \in 1..Days : (\E a \in Lost : a.at = d) => (Met(d) => Met(d)')
    BY DEF Met
  <2> QED
    BY <1>3, <2>1, MetStays DEF Met
<1> HIDE DEF f, g, before, after
<1>7. \A last \in 0..Days : f[last] \in Nat /\ g[last] \in Nat /\ f[last] <= g[last]
  BY <1>0, <1>5, <1>6
<1>8. CASE today' = today
  BY <1>0, <1>2, <1>4, <1>6, <1>7, <1>8
<1>9. CASE today' # today
  <2>1. today' = today + 1 /\ today \in before
    BY <1>0, <1>3, <1>9, MetStays
  <2>2. today' - 1 = today
    BY <1>0, <2>1
  <2> QED
    BY <1>0, <1>2, <1>4, <1>7, <2>1, <2>2
<1> QED
  BY <1>8, <1>9

\* The streak is only shortened by the end of a day without its goal, by a higher goal
\* for today, or by the recount of a day that has lost an attempt: by no other recount,
\* whichever request is late (activity.refresh keeps a past day's goals).
THEOREM StreakIsKept == Spec => StreakHolds
<1>1. Init => Within
  <2> SUFFICES ASSUME Init PROVE Within
    OBVIOUS
  <2>1. ~HasRow(NoRow) /\ Idle.pc # "insert row"
    BY DEF NoRow, HasRow, Idle
  <2>2. (\A d \in 1..Days : rows[d] = NoRow) /\ \A w \in Workers : req[w] = Idle
    BY DEF Init
  <2> QED
    BY <2>1, <2>2 DEF Within
<1>2. /\ Typed /\ Typed' /\ Within /\ [Next]_vars
      /\ IsRun(Run, MetDays, Days) /\ IsRun(Run, MetDays, Days)'
      => [Streak' < Streak => \/ today' # today /\ ~Met(today)
                              \/ rows'[today].goal > rows[today].goal
                              \/ \E a \in Lost : Met(a.at) /\ ~Met(a.at)']_vars
  BY NextMoves, StreakStep DEF Typed
<1> QED
  BY <1>1, <1>2, WithinStep, RunIsRun, TypesInvariant, PTL DEF Spec, StreakHolds

-----------------------------------------------------------------------------
(* The quiz pages.  While the play page waits, its worker carries an attempt at  *)
(* the set on the page, or has recorded it and is on its way to the day's row,   *)
(* unless an attempt at the set has gone with it.                                *)

\* What was lost does not come back: the set is gone, and a set's number is given out once.
NoReturn == \A a \in Lost, s \in sets : s.id # a.set

Grows == recorded \subseteq recorded' /\ Lost \subseteq Lost'

LEMMA LostServe ==
  ASSUME SetsPart, NoReturn, NEW w \in Workers, Serve(w) PROVE NoReturn' /\ Grows
<1> DEFINE Quiet1 == sets' \subseteq sets /\ UNCHANGED <<attempts, recorded>>
<1>1. ASSUME Quiet1 PROVE NoReturn' /\ Grows
  BY <1>1 DEF NoReturn, Grows, Lost
<1>2. ASSUME NEW gone, Released(gone), UNCHANGED recorded, Without(gone) \subseteq sets',
             \A s \in sets' : s \in Without(gone) \/ s.id = made + 1
      PROVE  NoReturn' /\ Grows
  <2>1. Lost \subseteq Lost' /\ \A a \in Lost' : a \in Lost \/ a.set \in gone
    BY <1>2 DEF Lost, Released
  <2>2. made \in Nat /\ \A a \in recorded : a.set \in 1..made
    BY DEF SetsPart, AttemptsOK
  <2>3. \A a \in Lost' : a.set # made + 1
    <3>1. \A n \in 1..made : n # made + 1
      BY <2>2
    <3> QED
      BY <1>2, <2>2, <3>1 DEF Lost
  <2> QED
    BY <1>2, <2>1, <2>3 DEF NoReturn, Grows, Without
<1>3. ASSUME NEW remaining, NEW inScope, NEW d, BuildSet(remaining, inScope, d)
      PROVE  remaining \subseteq sets' /\ \A s \in sets' : s \in remaining \/ s.id = made + 1
  <2>1. made \in Nat /\ prefs \in Prefs
    BY DEF SetsPart
  <2> QED
    BY <1>3, <2>1 DEF BuildSet, NextSet
<1>4. CASE ReleaseStale(w)
  BY <1>2, <1>4 DEF ReleaseStale, history
<1>5. CASE Rebuild(w)
  BY <1>1, <1>2, <1>3, <1>5 DEF Rebuild, quizVars, history
<1>6. CASE BuildToday(w)
  <2>1. UNCHANGED <<attempts, recorded>>
    BY <1>6 DEF BuildToday, history
  <2>2. CASE UNCHANGED sets
    BY <1>1, <2>1, <2>2
  <2>3. CASE BuildSet(sets, scope, req[w].day)
    <3>1. \A s \in sets' : s \in sets \/ s.id = made + 1
      BY <1>3, <2>3
    <3>2. made \in Nat /\ \A a \in recorded : a.set \in 1..made
      BY DEF SetsPart, AttemptsOK
    <3>3. \A a \in recorded : a.set # made + 1
      <4>1. \A n \in 1..made : n # made + 1
        BY <3>2
      <4> QED
        BY <3>2, <4>1
    <3> QED
      BY <2>1, <3>1, <3>3 DEF NoReturn, Grows, Lost
  <2> QED
    BY <1>6, <2>2, <2>3 DEF BuildToday
<1>7. CASE InsertAttempt(w)
  <2>1. UNCHANGED sets
    BY <1>7 DEF InsertAttempt
  <2>2. CASE \E s \in sets : s.id = req[w].set
    <3>1. PICK new : /\ new.set = req[w].set
                     /\ attempts' = attempts \union {new} /\ recorded' = recorded \union {new}
      BY <1>7, <2>2 DEF InsertAttempt
    <3>2. new \notin Lost
      BY <2>2, <3>1 DEF NoReturn
    <3> QED
      BY <2>1, <3>1, <3>2 DEF NoReturn, Grows, Lost
  <2>3. CASE ~\E s \in sets : s.id = req[w].set
    BY <1>1, <1>7, <2>1, <2>3 DEF InsertAttempt
  <2> QED
    BY <2>2, <2>3
<1>8. CASE ReadCurrent(w) \/ SaveSettings(w) \/ Refresh(w) \/ ReadNoRow(w) \/ InsertRow(w)
  BY <1>1, <1>8 DEF ReadCurrent, SaveSettings, Refresh, ReadNoRow, InsertRow, quizVars, history
<1> QED
  BY <1>4, <1>5, <1>6, <1>7, <1>8 DEF Serve

LEMMA LostStep ==
  ASSUME SetsPart, NoReturn, Moves PROVE NoReturn' /\ Grows
<1>1. ASSUME UNCHANGED <<sets, attempts, recorded>> PROVE NoReturn' /\ Grows
  BY <1>1 DEF NoReturn, Grows, Lost
<1>2. ASSUME NEW w \in Workers, Loads(w) \/ Kill(w) PROVE UNCHANGED <<sets, attempts, recorded>>
  BY <1>2 DEF Loads, Kill, LoadStale, CheckCurrent, LoadSet, Watch, LoadSettings, RebuildDay, quizVars, history
<1> QED
  BY <1>1, <1>2, LostServe DEF Moves, Midnight, quizVars, history

Credits(r, id, all, lost) ==
    \/ r.pc = "insert attempt" /\ r.set = id
    \/ r.pc = "refresh" /\ \E a \in all : a.set = id /\ a.at = r.day
    \/ r.pc = "insert row" /\ \/ \E a \in lost : a.set = id
                              \/ \E a \in all : /\ a.set = id /\ a.at = r.day
                                                /\ r.row.answered >= Cardinality(a.asked)

Seeks(r) == r.pc \in {"release", "build"}
Tries(r) == r.pc \in {"insert attempt", "refresh", "insert row"}

Fetching ==
    /\ fetch = [by |-> fetch.by, tries |-> fetch.tries]
    /\ fetch.by # NoWorker => fetch.by \in Workers /\ Seeks(req[fetch.by])

Sending ==
    sending # NoSend => /\ page = "play" /\ sending.by \in Workers
                        /\ Credits(req[sending.by], shown.id, recorded, Lost)

Leaving == left \subseteq Workers /\ sending.by \notin left /\ \A w \in left : Tries(req[w])

PageInv == Fetching /\ Sending /\ Leaving

\* The page shows the result of what its worker has sent.
Result(w) == w = sending.by /\ Answered200(w) /\ Succeed

LEMMA KeepsCredit ==
  ASSUME NEW r, NEW id, NEW all, NEW all2, NEW lost, NEW lost2,
         Credits(r, id, all, lost), all \subseteq all2, lost \subseteq lost2
  PROVE  Credits(r, id, all2, lost2)
  BY DEF Credits

\* The worker w makes a step, or none, and the page makes of it what it may.
FetchMoves(w) ==
    /\ fetch' = [by |-> fetch'.by, tries |-> fetch'.tries]
    /\ \/ fetch'.by = NoWorker
       \/ fetch'.by = w /\ w \in Workers /\ Seeks(req'[w])
       \/ fetch'.by = fetch.by /\ fetch.by # w

SendMoves(w) ==
    \/ sending' = NoSend
    \/ /\ sending'.by = w /\ w \in Workers /\ page' = "play"
       /\ Credits(req'[w], shown'.id, recorded', Lost')
    \/ sending' = sending /\ sending.by # w /\ page' = page /\ shown'.id = shown.id

LeftMoves(w) ==
    /\ left' \subseteq left \union ({sending.by} \ {NoWorker}) /\ sending'.by \notin left'
    /\ w \in left' => w \in Workers /\ Tries(req'[w])

LEMMA CreditTries == \A r, id, all, lost : Credits(r, id, all, lost) => Tries(r)
  BY DEF Credits, Tries

\* The workers of the page are different ones, and none of them is idle.
LEMMA PageWorkers ==
  ASSUME PageInv
  PROVE  /\ fetch.by # NoWorker => fetch.by \in Workers /\ Seeks(req[fetch.by])
         /\ sending = NoSend \/ (sending.by \in Workers /\ Tries(req[sending.by]))
         /\ left \subseteq Workers /\ \A w \in left : Tries(req[w])
         /\ \A w : At(w, "idle") => ~Seeks(req[w]) /\ ~Tries(req[w])
         /\ \A w : ~(Seeks(req[w]) /\ Tries(req[w]))
         /\ NoSend.by = NoWorker /\ NoWorker \notin Workers
<1>1. sending # NoSend => sending.by \in Workers /\ Tries(req[sending.by])
  BY CreditTries DEF PageInv, Sending
<1>2. \A w : /\ At(w, "idle") => ~Seeks(req[w]) /\ ~Tries(req[w])
             /\ ~(Seeks(req[w]) /\ Tries(req[w]))
  BY DEF Seeks, Tries, At
<1>3. NoSend.by = NoWorker /\ NoWorker \notin Workers
  BY SessionAssumption DEF NoSend
<1>4. fetch.by # NoWorker => fetch.by \in Workers /\ Seeks(req[fetch.by])
  BY DEF PageInv, Fetching
<1>5. left \subseteq Workers /\ \A w \in left : Tries(req[w])
  BY DEF PageInv, Leaving
<1> QED
  BY <1>1, <1>2, <1>3, <1>4, <1>5

LEMMA PageMoves ==
  ASSUME PageInv, Grows, NEW w, \A o \in Workers \ {w} : req'[o] = req[o],
         FetchMoves(w), SendMoves(w), LeftMoves(w)
  PROVE  PageInv'
<1>1. Fetching'
  BY DEF PageInv, Fetching, FetchMoves
<1>2. Sending'
  <2> SUFFICES ASSUME sending' # NoSend
               PROVE  /\ page' = "play" /\ sending'.by \in Workers
                      /\ Credits(req'[sending'.by], shown'.id, recorded', Lost')
    BY DEF Sending
  <2>1. CASE sending'.by = w /\ w \in Workers /\ page' = "play" /\ Credits(req'[w], shown'.id, recorded', Lost')
    BY <2>1
  <2>2. CASE sending' = sending /\ sending.by # w /\ page' = page /\ shown'.id = shown.id
    <3>1. /\ page = "play" /\ sending.by \in Workers
          /\ Credits(req[sending.by], shown.id, recorded, Lost)
      BY <2>2 DEF PageInv, Sending
    <3>2. req'[sending.by] = req[sending.by]
      BY <2>2, <3>1
    <3>3. Credits(req[sending.by], shown.id, recorded', Lost')
      BY <3>1, KeepsCredit DEF Grows
    <3> QED
      BY <2>2, <3>1, <3>2, <3>3
  <2> QED
    BY <2>1, <2>2 DEF SendMoves
<1>3. Leaving'
  <2>1. ASSUME NEW o \in left' PROVE o \in Workers /\ Tries(req'[o])
    <3>1. CASE o = w
      BY <2>1, <3>1 DEF LeftMoves
    <3>2. CASE o # w
      <4>1. o \in Workers /\ Tries(req[o])
        BY <2>1, PageWorkers DEF LeftMoves
      <4> QED
        BY <3>2, <4>1
    <3> QED
      BY <3>1, <3>2
  <2> QED
    BY <2>1 DEF Leaving, LeftMoves
<1> QED
  BY <1>1, <1>2, <1>3 DEF PageInv

\* A fetch ends, or waits for its turn.
LEMMA FetchEnds ==
  ASSUME fetch' \in {Quiet, Wanted, [fetch EXCEPT !.by = NoWorker]}, PageInv, NEW w PROVE FetchMoves(w)
<1>1. fetch = [by |-> fetch.by, tries |-> fetch.tries]
  BY DEF PageInv, Fetching
<1>2. fetch' = [by |-> fetch'.by, tries |-> fetch'.tries] /\ fetch'.by = NoWorker
  BY <1>1 DEF Quiet, Wanted
<1> QED
  BY <1>2 DEF FetchMoves

LEMMA FetchStays ==
  ASSUME fetch' = fetch, PageInv, NEW w, w # fetch.by \/ (w \in Workers /\ Seeks(req'[w])) PROVE FetchMoves(w)
  BY DEF FetchMoves, PageInv, Fetching

\* A play page that goes leaves its worker behind.
LEMMA UnmountMoves ==
  ASSUME PageInv, Unmount, NEW w, w \notin {sending.by} \union left \/ w = NoWorker
  PROVE  SendMoves(w) /\ LeftMoves(w)
<1>1. sending' = NoSend /\ sending'.by = NoWorker
  BY PageWorkers DEF Unmount
<1>2. left' \subseteq left \union ({sending.by} \ {NoWorker})
  BY PageWorkers DEF Unmount
<1>3. NoWorker \notin left' /\ w \notin left'
  BY <1>2, PageWorkers
<1> QED
  BY <1>1, <1>2, <1>3 DEF SendMoves, LeftMoves

LEMMA SendsStay ==
  ASSUME PageInv, UNCHANGED <<sending, left, page>>, page # "play" \/ shown'.id = shown.id,
         NEW w, w \notin {sending.by} \union left \/ w = NoWorker
  PROVE  SendMoves(w) /\ LeftMoves(w)
<1>1. page = "play" \/ sending = NoSend
  BY DEF PageInv, Sending
<1>2. sending.by # w \/ sending = NoSend
  BY PageWorkers
<1>3. w \notin left /\ sending.by \notin left
  BY PageWorkers DEF PageInv, Leaving
<1> QED
  BY <1>1, <1>2, <1>3 DEF SendMoves, LeftMoves

\* The page takes no notice.
LEMMA PageIdle ==
  ASSUME PageInv, Grows, NEW w, \A o \in Workers \ {w} : req'[o] = req[o],
         UNCHANGED <<fetch, sending, left, page>>, page # "play" \/ shown'.id = shown.id,
         w \notin {sending.by} \union left \/ w = NoWorker,
         w # fetch.by \/ (w \in Workers /\ Seeks(req'[w])) \/ w = NoWorker
  PROVE  PageInv'
<1>1. FetchMoves(w)
  <2>1. CASE w = NoWorker /\ fetch.by = NoWorker
    BY <2>1 DEF FetchMoves, PageInv, Fetching
  <2> QED
    BY <2>1, FetchStays
<1> QED
  BY <1>1, SendsStay, PageMoves

\* A step that ends a fetch may take a play page back to the start.
LEMMA ShowMoves ==
  ASSUME PageInv, Grows, NEW w, \A o \in Workers \ {w} : req'[o] = req[o],
         w \notin {sending.by} \union left, NEW found, Show(found) \/ FetchFails
  PROVE  PageInv' /\ (page' = page \/ page' \in {"today", "play"})
<1>1. fetch' \in {Quiet, Wanted, [fetch EXCEPT !.by = NoWorker]}
  BY DEF Show, FetchFails
<1>2. \/ UNCHANGED <<sending, left, page>> /\ (page # "play" \/ shown'.id = shown.id)
      \/ Unmount /\ (page' = page \/ page' \in {"today", "play"})
  BY DEF Show, FetchFails, sends
<1>3. SendMoves(w) /\ LeftMoves(w)
  BY <1>2, SendsStay, UnmountMoves
<1> QED
  BY <1>1, <1>2, <1>3, FetchEnds, PageMoves

\* The page hears that its attempt was answered or lost.
LEMMA SendEnds ==
  ASSUME PageInv, Grows, NEW w \in Workers, \A o \in Workers \ {w} : req'[o] = req[o],
         w = sending.by, sending' = NoSend, left' = left, fetch' \in {fetch, Wanted}
  PROVE  PageInv'
<1>1. w # fetch.by
  BY PageWorkers
<1>2. FetchMoves(w)
  BY <1>1, FetchEnds, FetchStays
<1>3. SendMoves(w)
  BY DEF SendMoves
<1>4. LeftMoves(w)
  BY PageWorkers DEF LeftMoves, PageInv, Leaving
<1> QED
  BY <1>2, <1>3, <1>4, PageMoves

\* Nobody hears of the end of an attempt whose page is gone.
LEMMA LeftEnds ==
  ASSUME PageInv, Grows, NEW w \in Workers, \A o \in Workers \ {w} : req'[o] = req[o],
         w \in left, Forget(w), fetch' \in {fetch, Wanted}
  PROVE  PageInv'
<1>1. w # fetch.by /\ w # sending.by
  BY PageWorkers DEF PageInv, Leaving
<1>2. FetchMoves(w)
  BY <1>1, FetchEnds, FetchStays
<1>3. SendMoves(w)
  BY <1>1 DEF SendMoves, Forget
<1>4. LeftMoves(w)
  BY DEF LeftMoves, PageInv, Leaving, Forget
<1> QED
  BY <1>2, <1>3, <1>4, PageMoves

\* An attempt goes on, and so does who waits for it.
LEMMA TriesOn ==
  ASSUME PageInv, Grows, NEW w \in Workers, \A o \in Workers \ {w} : req'[o] = req[o],
         w \in {sending.by} \union left, UNCHANGED <<fetch, sending, left, page, shown>>, Tries(req'[w]),
         w = sending.by => Credits(req'[w], shown.id, recorded', Lost')
  PROVE  PageInv'
<1>1. w # fetch.by /\ (w = sending.by => sending # NoSend /\ page = "play")
  BY PageWorkers DEF PageInv, Sending
<1>2. FetchMoves(w)
  BY <1>1, FetchStays
<1>3. SendMoves(w)
  BY <1>1 DEF SendMoves
<1>4. LeftMoves(w)
  BY DEF LeftMoves, PageInv, Leaving
<1> QED
  BY <1>2, <1>3, <1>4, PageMoves

\* An idle worker takes a request in.
LEMMA LoadsOne ==
  ASSUME ReqPart, NEW w \in Workers, Loads(w)
  PROVE  At(w, "idle") /\ \A o \in Workers \ {w} : req'[o] = req[o]
<1>1. At(w, "idle")
  BY DEF Loads, LoadStale, CheckCurrent, LoadSet, Watch, LoadSettings, RebuildDay
<1>2. UNCHANGED req \/ \E r : Go(w, r)
  BY DEF Loads, LoadStale, CheckCurrent, LoadSet, Watch, LoadSettings, RebuildDay
<1> QED
  BY <1>1, <1>2, GoOne

LEMMA LoadedSet ==
  ASSUME NEW w, NEW s, LoadSet(w, s)
  PROVE  \E r : Go(w, r) /\ r.pc = "insert attempt" /\ r.set = s.id
<1>1. PICK id, asked, passed : Go(w, [pc |-> "insert attempt", set |-> id, asked |-> asked, passed |-> passed]) /\ id = s.id
  BY DEF LoadSet
<1>2. PICK r : r = [pc |-> "insert attempt", set |-> id, asked |-> asked, passed |-> passed]
  OBVIOUS
<1>3. r.pc = "insert attempt" /\ r.set = id
  BY <1>2
<1> QED
  BY <1>1, <1>2, <1>3

LEMMA ServesOne ==
  ASSUME ReqPart, NEW w \in Workers, Serve(w) \/ Kill(w)
  PROVE  \A o \in Workers \ {w} : req'[o] = req[o]
<1>1. \E r : Go(w, r)
  BY DEF Serve, Kill, ReleaseStale, ReadCurrent, BuildToday, Rebuild, InsertAttempt, SaveSettings, Refresh,
         ReadNoRow, InsertRow, Done
<1> QED
  BY <1>1, GoOne

LEMMA StepServes == ASSUME NEW w, Step(w) PROVE Serve(w) /\ UNCHANGED served
<1>1. Attempt(w) => Serve(w)
  BY DEF Attempt, Answered200, Answered500, Serve
<1>2. Fetched(w) \/ ReleaseStale(w) => Serve(w)
  BY DEF Fetched, Serve
<1> QED
  BY <1>1, <1>2 DEF Step

LEMMA SessionMoves ==
  ASSUME [SessionNext]_sessionVars, served \in Nat PROVE Moves /\ served' \in Nat
<1> USE DEF Moves
<1>1. CASE UNCHANGED sessionVars
  BY <1>1 DEF sessionVars, vars
<1>2. CASE Start \/ TryAgain \/ Choose
  BY <1>2 DEF Start, TryAgain, Choose, vars
<1>3. CASE Leave \/ Retry
  BY <1>3 DEF Leave, Retry, Idly
<1>4. ASSUME NEW w \in Workers, Fetch(w) PROVE Moves /\ served' \in Nat
  BY <1>4 DEF Fetch, Loads
<1>5. ASSUME NEW w \in Workers, Submit(w) PROVE Moves /\ served' \in Nat
  <2>1. CASE StillThere /\ LoadSet(w, Current)
    <3>1. Current \in sets
      BY <2>1 DEF StillThere, Current
    <3> QED
      BY <1>5, <2>1, <3>1 DEF Submit, Loads
  <2>2. CASE UNCHANGED vars
    BY <2>2 DEF vars
  <2> QED
    BY <1>5, <2>1, <2>2 DEF Submit
<1>6. ASSUME NEW w \in Workers, Step(w) PROVE Moves /\ served' \in Nat
  BY <1>6, StepServes
<1>7. ASSUME NEW w \in Workers, Killed(w) PROVE Moves /\ served' \in Nat
  BY <1>7 DEF Killed
<1>8. CASE Midnight /\ UNCHANGED served
  BY <1>8
<1>9. ASSUME NEW w \in Workers, Ask(w), Idly PROVE Moves /\ served' \in Nat
  BY <1>9 DEF Ask, Loads, Idly
<1> QED
  BY <1>1, <1>2, <1>3, <1>4, <1>5, <1>6, <1>7, <1>8, <1>9 DEF SessionNext, Learner

\* What the page learns: the attempt is in the day's row, or gone with its set.
Counted(id, all, rs, lost) ==
    (\E a \in all : a.set = id /\ rs[a.at].answered >= Cardinality(a.asked)) \/ \E a \in lost : a.set = id

\* A day's count has every question of an attempt of that day.
LEMMA CountsAttempt ==
  ASSUME SetsPart, DaysPart, NEW d \in 1..Days, NEW a \in attempts, a.at = d
  PROVE  Cardinality(Answered(d)) >= Cardinality(a.asked)
<1>1. a.asked \subseteq Answered(d) /\ Answered(d) \in SUBSET Questions
  BY CountsType DEF Answered
<1> QED
  BY <1>1, QuizAssumption, FS_Subset, FS_CardinalityType

\* The row that answers the page's attempt counts it.
LEMMA ResultCounts ==
  ASSUME SetsPart, DaysPart, ReqPart, PageInv, NEW w \in Workers, Result(w)
  PROVE  Counted(shown.id, attempts', rows', Lost')
<1> DEFINE d == req[w].day
<1>1. Credits(req[w], shown.id, recorded, Lost)
  BY PageWorkers DEF PageInv, Sending, Result
<1>2. CASE Refresh(w)
  <2>1. /\ At(w, "refresh") /\ UNCHANGED <<attempts, recorded>> /\ rows' = [rows EXCEPT ![d] = RowFor(d, Counts(d))]
    BY <1>2 DEF Refresh, quizVars, history
  <2>2. d \in 1..Days
    BY <2>1, RequestFields DEF ReqPart, At
  <2>3. PICK a \in recorded : a.set = shown.id /\ a.at = d
    BY <1>1, <2>1 DEF Credits, At
  <2>4. rows'[d].answered = Cardinality(Answered(d))
    BY <2>1, <2>2 DEF DaysPart, RowFor, Counts
  <2>5. CASE a \in attempts
    BY <2>1, <2>2, <2>3, <2>4, <2>5, CountsAttempt DEF Counted
  <2>6. CASE a \notin attempts
    BY <2>1, <2>3, <2>6 DEF Counted, Lost
  <2> QED
    BY <2>5, <2>6
<1>3. CASE InsertRow(w) /\ ~rows[d].there
  <2>1. /\ At(w, "insert row") /\ UNCHANGED <<attempts, recorded>> /\ rows' = [rows EXCEPT ![d] = req[w].row]
    BY <1>3 DEF InsertRow, quizVars, history
  <2>2. d \in 1..Days
    BY <2>1, RequestFields DEF ReqPart, At
  <2>3. rows'[d] = req[w].row
    BY <2>1, <2>2 DEF DaysPart
  <2>4. CASE \E a \in Lost : a.set = shown.id
    BY <2>1, <2>4 DEF Counted, Lost
  <2>5. CASE \E a \in recorded : a.set = shown.id /\ a.at = d /\ req[w].row.answered >= Cardinality(a.asked)
    BY <2>1, <2>3, <2>5 DEF Counted, Lost
  <2> QED
    BY <1>1, <2>1, <2>4, <2>5 DEF Credits, At
<1> QED
  BY <1>2, <1>3 DEF Result, Answered200

\* The page's worker has recorded its attempt, or read what the day's row will count.
LEMMA CreditGoes ==
  ASSUME SetsPart, DaysPart, ReqPart, NEW w \in Workers, ReadNoRow(w) \/ (InsertAttempt(w) /\ req'[w] # Idle)
  PROVE  /\ Tries(req'[w])
         /\ \A id : Credits(req[w], id, recorded, Lost) => Credits(req'[w], id, recorded', Lost')
<1>1. CASE ReadNoRow(w)
  <2> DEFINE d == req[w].day
             r == [pc |-> "insert row", day |-> d, row |-> RowFor(d, Counts(d)), watch |-> 0]
  <2>1. At(w, "refresh") /\ Go(w, r) /\ UNCHANGED <<attempts, recorded>>
    BY <1>1 DEF ReadNoRow, quizVars, history
  <2>2. d \in 1..Days
    BY <2>1, RequestFields DEF ReqPart, At
  <2>3. r.row.answered = Cardinality(Answered(d)) /\ r.pc = "insert row" /\ r.day = d
    BY DEF RowFor, Counts
  <2>4. req'[w] = r
    BY <2>1, GoOne
  <2> HIDE DEF r, d
  <2>5. ASSUME NEW id, Credits(req[w], id, recorded, Lost) PROVE Credits(r, id, recorded', Lost')
    <3>1. PICK a \in recorded : a.set = id /\ a.at = d
      BY <2>1, <2>5 DEF Credits, At, d
    <3>2. CASE a \in attempts
      BY <2>1, <2>2, <2>3, <3>1, <3>2, CountsAttempt DEF Credits
    <3>3. CASE a \notin attempts
      BY <2>1, <2>3, <3>1, <3>3 DEF Credits, Lost
    <3> QED
      BY <3>2, <3>3
  <2> QED
    BY <2>3, <2>4, <2>5 DEF Tries
<1>2. CASE InsertAttempt(w) /\ req'[w] # Idle
  <2> DEFINE new == [set |-> req[w].set, at |-> today, asked |-> req[w].asked, passed |-> req[w].passed]
  <2>1. At(w, "insert attempt") /\ ~Go(w, Idle)
    BY <1>2, GoOne DEF InsertAttempt
  <2>2. Go(w, [pc |-> "refresh", day |-> today]) /\ recorded' = recorded \union {new}
    BY <1>2, <2>1 DEF InsertAttempt, Done
  <2>3. req'[w].pc = "refresh" /\ req'[w].day = today
    BY <2>2, GoOne
  <2>4. new \in recorded' /\ new.set = req[w].set /\ new.at = today
    BY <2>2
  <2> HIDE DEF new
  <2> QED
    BY <2>1, <2>3, <2>4 DEF Credits, Tries, At
<1> QED
  BY <1>1, <1>2

LEMMA StepPage ==
  ASSUME SetsPart, DaysPart, ReqPart, PageInv, Grows, NEW w \in Workers, Step(w)
  PROVE  PageInv' /\ (page' = page \/ page' \in {"today", "play"} \/ Result(w))
<1> DEFINE Good == PageInv' /\ (page' = page \/ page' \in {"today", "play"} \/ Result(w))
<1>0. \A o \in Workers \ {w} : req'[o] = req[o]
  BY StepServes, ServesOne
<1>1. CASE w \notin {fetch.by, sending.by} \union left /\ Nothing
  BY <1>0, <1>1, PageIdle DEF Nothing, session, query, sends
<1>2. CASE w = fetch.by /\ ReleaseStale(w) /\ Nothing
  <2>1. w \notin {sending.by} \union left
    BY <1>2, PageWorkers
  <2>2. PICK id \in req[w].stale : Go(w, [req[w] EXCEPT !.stale = @ \ {id}])
    BY <1>2 DEF ReleaseStale
  <2>3. req[w] \in Requests /\ req[w].pc = "release"
    BY <1>2 DEF ReleaseStale, ReqPart, At
  <2>4. [req[w] EXCEPT !.stale = @ \ {id}].pc = "release"
    BY <2>3, ReleaseRequest
  <2>5. Seeks(req'[w])
    BY <2>2, <2>4, GoOne DEF Seeks
  <2> QED
    BY <1>0, <1>2, <2>1, <2>5, PageIdle DEF Nothing, session, query, sends
<1>3. CASE Fetched(w)
  <2>1. w = fetch.by /\ w \notin {sending.by} \union left
    BY <1>3, PageWorkers DEF Fetched
  <2>2. CASE \E found : Show(found) \/ FetchFails
    BY <1>0, <2>1, <2>2, ShowMoves
  <2>3. CASE ReadCurrent(w) /\ On(req[w].day) = {} /\ Nothing
    <3>1. Go(w, [pc |-> "build", day |-> req[w].day])
      BY <2>3 DEF ReadCurrent
    <3>2. Seeks(req'[w])
      BY <3>1, GoOne DEF Seeks
    <3> QED
      BY <1>0, <2>1, <2>3, <3>2, PageIdle DEF Nothing, session, query, sends
  <2> QED
    BY <1>3, <2>2, <2>3 DEF Fetched
<1>4. CASE w \in {sending.by} \union left /\ Attempt(w)
  <2>1. ASSUME Answered200(w), w = sending.by, Succeed PROVE Good
    <3>1. Result(w)
      BY <2>1 DEF Result
    <3> QED
      BY <1>0, <2>1, <3>1, SendEnds DEF Succeed, Invalidate
  <2>2. ASSUME w = sending.by, Reject PROVE Good
    BY <1>0, <2>2, SendEnds DEF Reject, query
  <2>3. ASSUME w # sending.by, Forget(w), Invalidate \/ UNCHANGED query PROVE Good
    BY <1>0, <1>4, <2>3, LeftEnds DEF Forget, Invalidate, query
  <2>4. ASSUME ReadNoRow(w) \/ (InsertAttempt(w) /\ req'[w] # Idle), Nothing PROVE Good
    <3>1. w = sending.by => Credits(req[w], shown.id, recorded, Lost)
      BY PageWorkers DEF PageInv, Sending
    <3>2. Tries(req'[w]) /\ (w = sending.by => Credits(req'[w], shown.id, recorded', Lost'))
      BY <2>4, <3>1, CreditGoes
    <3> QED
      BY <1>0, <1>4, <2>4, <3>2, TriesOn DEF Nothing, session, query, sends
  <2> QED
    BY <1>4, <2>1, <2>2, <2>3, <2>4 DEF Attempt
<1> QED
  BY <1>1, <1>2, <1>3, <1>4 DEF Step

LEMMA KilledPage ==
  ASSUME ReqPart, PageInv, Grows, NEW w \in Workers, Killed(w) PROVE PageInv' /\ page' = page
<1>0. \A o \in Workers \ {w} : req'[o] = req[o]
  BY ServesOne DEF Killed
<1>1. CASE w = fetch.by /\ FetchFails
  <2>1. w \notin {sending.by} \union left
    BY <1>1, PageWorkers
  <2>2. PICK found : found = {}
    OBVIOUS
  <2> QED
    BY <1>0, <1>1, <2>1, ShowMoves DEF FetchFails
<1>2. CASE w = sending.by /\ Reject
  BY <1>0, <1>2, SendEnds DEF Reject, query
<1>3. CASE w \in left /\ Forget(w) /\ UNCHANGED query
  BY <1>0, <1>3, LeftEnds DEF Forget, query
<1>4. CASE w \notin {fetch.by, sending.by} \union left /\ Nothing
  BY <1>0, <1>4, PageIdle DEF Nothing, session, query, sends
<1> QED
  BY <1>1, <1>2, <1>3, <1>4 DEF Killed

\* A page is mounted, or fetches once more, and no request moves.
LEMMA MountMoves ==
  ASSUME PageInv, Grows, UNCHANGED req, fetch' \in {fetch, Wanted},
         Unmount \/ (UNCHANGED <<sending, left, page>> /\ shown' = shown)
  PROVE  PageInv'
<1>1. FetchMoves(NoWorker)
  <2>1. CASE fetch' = fetch /\ fetch.by = NoWorker
    BY <2>1 DEF FetchMoves, PageInv, Fetching
  <2> QED
    BY <2>1, FetchStays, FetchEnds
<1>2. SendMoves(NoWorker) /\ LeftMoves(NoWorker)
  BY UnmountMoves, SendsStay
<1> QED
  BY <1>1, <1>2, PageMoves

LEMMA PageStep ==
  ASSUME SetsPart, DaysPart, ReqPart, PageInv, Grows, [SessionNext]_sessionVars
  PROVE  PageInv' /\ (page' \notin {"passed", "failed"} \/ page' = page \/ \E w \in Workers : Result(w))
<1> DEFINE Good == PageInv' /\ (page' \notin {"passed", "failed"} \/ page' = page \/ \E w \in Workers : Result(w))
<1>1. CASE UNCHANGED sessionVars \/ Choose \/ (Midnight /\ Nothing)
  <2>1. UNCHANGED <<req, fetch, sending, left, page, shown>>
    BY <1>1 DEF sessionVars, session, vars, query, sends, Choose, Midnight, Nothing
  <2> QED
    BY <2>1, MountMoves
<1>2. CASE Start \/ TryAgain \/ Leave
  <2>1. /\ UNCHANGED req /\ Unmount /\ fetch' \in {fetch, Wanted}
        /\ page' \in {"play", "today"}
    BY <1>2 DEF Start, TryAgain, Leave, Mount, vars
  <2> QED
    BY <2>1, MountMoves
<1>3. CASE Retry
  BY <1>3, MountMoves DEF Retry, sends
<1>4. ASSUME NEW w \in Workers, Fetch(w) PROVE Good
  <2>1. /\ Loads(w) /\ fetch' = [by |-> w, tries |-> fetch.tries - 1]
        /\ UNCHANGED <<page, shown, sending, left>>
        /\ Go(w, [pc |-> "release", day |-> today, stale |-> {s.id : s \in {x \in sets : x.on < today /\ ~Attempted(x)}}])
    BY <1>4 DEF Fetch, LoadStale, Loads, sends
  <2>2. At(w, "idle") /\ \A o \in Workers \ {w} : req'[o] = req[o]
    BY <2>1, LoadsOne
  <2>3. Seeks(req'[w])
    BY <2>1 DEF Go, ReqPart, Seeks
  <2>4. w \notin {sending.by} \union left
    BY <2>2, PageWorkers
  <2>5. FetchMoves(w)
    BY <2>1, <2>3 DEF FetchMoves
  <2>6. SendMoves(w) /\ LeftMoves(w)
    BY <2>1, <2>4, SendsStay
  <2> QED
    BY <2>1, <2>2, <2>5, <2>6, PageMoves
<1>5. ASSUME NEW w \in Workers, Submit(w) PROVE Good
  <2>1. page = "play" /\ sending = NoSend /\ UNCHANGED <<page, shown, left, fetch>>
    BY <1>5 DEF Submit, Finished, Playing, query
  <2>2. CASE ~StillThere
    BY <1>5, <2>1, <2>2, MountMoves DEF Submit, vars
  <2>3. CASE StillThere
    <3>1. LoadSet(w, Current) /\ sending' = [by |-> w, passed |-> req'[w].passed]
      BY <1>5, <2>3 DEF Submit
    <3>2. Current \in sets /\ Current.id = shown.id
      BY <2>3 DEF StillThere, Current
    <3>3. At(w, "idle") /\ (\A o \in Workers \ {w} : req'[o] = req[o])
      BY <3>1, <3>2, LoadsOne DEF Loads
    <3>4. PICK r : Go(w, r) /\ r.pc = "insert attempt" /\ r.set = shown.id
      BY <3>1, <3>2, LoadedSet
    <3>5. req'[w] = r
      BY <3>4, GoOne
    <3>6. w # fetch.by /\ w \notin left
      BY <3>3, PageWorkers
    <3>7. FetchMoves(w)
      BY <2>1, <3>6, FetchStays
    <3>8. SendMoves(w)
      BY <2>1, <3>1, <3>4, <3>5 DEF SendMoves, Credits
    <3>9. LeftMoves(w)
      BY <2>1, <3>1, <3>6 DEF LeftMoves
    <3> QED
      BY <2>1, <3>3, <3>7, <3>8, <3>9, PageMoves
  <2> QED
    BY <2>2, <2>3
<1>6. ASSUME NEW w \in Workers, Step(w) PROVE Good
  BY <1>6, StepPage
<1>7. ASSUME NEW w \in Workers, Killed(w) PROVE Good
  BY <1>7, KilledPage
<1>8. ASSUME NEW w \in Workers, Ask(w), Nothing PROVE Good
  <2>1. At(w, "idle") /\ \A o \in Workers \ {w} : req'[o] = req[o]
    <3>1. Loads(w)
      BY <1>8 DEF Ask, Loads
    <3> QED
      BY <3>1, LoadsOne
  <2>2. w \notin {sending.by, fetch.by} \union left
    BY <2>1, PageWorkers
  <2> QED
    BY <1>8, <2>1, <2>2, PageIdle DEF Nothing, session, query, sends
<1> QED
  BY <1>1, <1>2, <1>3, <1>4, <1>5, <1>6, <1>7, <1>8 DEF SessionNext, Learner

\* A result is only shown of an attempt that is on record and that the day's row
\* counts, or that was lost with its set because it was recorded while the set was
\* being released: record_attempt answers after it has refreshed the day, whatever the
\* learner, other requests, midnight and killed workers do between the two.
THEOREM ResultsAreCredited == SessionSpec => ResultIsCredited
<1> DEFINE Inv == Typed /\ AttemptsStay /\ Untouched /\ NoReturn /\ PageInv
           Shown == /\ page = "play" /\ page' \in {"passed", "failed"}
                    => \/ \E a \in attempts' : a.set = shown.id /\ rows'[a.at].answered >= Cardinality(a.asked)
                       \/ \E a \in Lost' \ settled' : a.set = shown.id
<1>1. SessionInit => Inv
  <2> SUFFICES ASSUME SessionInit PROVE Inv
    OBVIOUS
  <2>1. Typed /\ recorded = {} /\ settled = {}
    BY TypesInitial DEF SessionInit, Init
  <2>2. PageInv
    BY DEF SessionInit, PageInv, Fetching, Sending, Leaving, NoSend, Wanted
  <2> QED
    BY <2>1, <2>2 DEF AttemptsStay, Untouched, NoReturn, Lost
<1>2. Inv /\ [SessionNext]_sessionVars => Inv' /\ Shown
  <2> SUFFICES ASSUME Inv, [SessionNext]_sessionVars PROVE Inv' /\ Shown
    OBVIOUS
  <2>1. Moves /\ served' \in Nat
    BY SessionMoves, QuizParts
  <2>2. Typed' /\ SetsPart /\ DaysPart /\ ReqPart
    BY <2>1, MovesKeepTypes, QuizParts
  <2>3. AttemptsStay' /\ Untouched'
    BY <2>1, <2>2, KeptStep
  <2>4. NoReturn' /\ Grows
    BY <2>1, <2>2, LostStep
  <2>5. PageInv' /\ (page' \notin {"passed", "failed"} \/ page' = page \/ \E w \in Workers : Result(w))
    BY <2>2, <2>4, PageStep
  <2>6. Shown
    <3> SUFFICES ASSUME page = "play", page' \in {"passed", "failed"}
                 PROVE  \/ \E a \in attempts' : a.set = shown.id /\ rows'[a.at].answered >= Cardinality(a.asked)
                        \/ \E a \in Lost' \ settled' : a.set = shown.id
      OBVIOUS
    <3>1. Counted(shown.id, attempts', rows', Lost')
      BY <2>2, <2>5, ResultCounts
    <3>2. \A a \in Lost' : a \notin settled'
      BY <2>3 DEF Lost, AttemptsStay
    <3> QED
      BY <3>1, <3>2 DEF Counted
  <2> QED
    BY <2>2, <2>3, <2>4, <2>5, <2>6
<1>3. Shown => [page = "play" /\ page' \in {"passed", "failed"}
                 => \/ \E a \in attempts' : a.set = shown.id /\ rows'[a.at].answered >= Cardinality(a.asked)
                    \/ \E a \in Lost' \ settled' : a.set = shown.id]_sessionVars
  OBVIOUS
<1> QED
  BY <1>1, <1>2, <1>3, PTL DEF SessionSpec, ResultIsCredited
=============================================================================
