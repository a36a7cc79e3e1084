--------------------------- MODULE FollowingProofs ---------------------------
(* The Following feed and its sweeps, for every number of accounts, videos,    *)
(* sweeps and changes.                                                         *)
EXTENDS Following, WellFoundedInduction, TLAPS

LEMMA LeastNatural ==
  ASSUME NEW S, S \subseteq Nat, S # {}
  PROVE  \E m \in S : \A n \in S : m <= n
<1> DEFINE R == {ss \in Nat \X Nat : ss[1] < ss[2]}
<1>1. IsWellFoundedOn(R, Nat)
  BY NatLessThanWellFounded DEF OpToRel
<1> HIDE DEF R
<1>2. PICK m \in S : \A n \in S : ~ (<<n, m>> \in R)
  BY <1>1, WFMin
<1>3. ASSUME NEW n \in S PROVE m <= n
  <2>1. <<n, m>> \in Nat \X Nat /\ ~ (<<n, m>> \in R)
    BY <1>2
  <2> QED
    BY <2>1 DEF R
<1> QED
  BY <1>3

-----------------------------------------------------------------------------
(* A sweep knows accounts by the rows they had when it listed them, and a row  *)
(* is never given out twice: that is why a late report cannot bring the videos *)
(* of a removed account back.                                                  *)

FollowInv == TypeOK /\ OnlyFollowedHaveVideos

LEMMA RowsAreGiven == 0 \notin Rows
  BY DEF Rows

LEMMA CurrentIsListed ==
  ASSUME TypeOK, NEW s \in Sweepers, sweep[s].pc # "idle"
  PROVE  /\ Current(s) \in sweep[s].todo /\ Current(s) \in DOMAIN sweep[s].rows
         /\ Current(s) \in Accounts
<1>1. /\ sweep[s].todo # {} /\ sweep[s].todo \subseteq Accounts
      /\ sweep[s].todo \subseteq DOMAIN sweep[s].rows
  BY DEF TypeOK, Sweeps
<1>2. \E a \in sweep[s].todo : \A b \in sweep[s].todo : a <= b
  BY <1>1, LeastNatural, FollowingAssumption
<1>3. Current(s) \in sweep[s].todo
  BY <1>2 DEF Current
<1> QED
  BY <1>1, <1>3

LEMMA RowMap ==
  ASSUME NEW f \in Maps(Accounts, Rows)
  PROVE  DOMAIN f \subseteq Accounts /\ \A a \in DOMAIN f : f[a] \in Rows
  BY DEF Maps

\* What a sweep turns into keeps the invariant, when nothing but the videos changes with it.
LEMMA SweepTurns ==
  ASSUME FollowInv, NEW s \in Sweepers, NEW r \in Sweeps,
         r.todo \subseteq DOMAIN r.rows, r.pc # "idle" => r.todo # {},
         sweep' = [sweep EXCEPT ![s] = r], UNCHANGED <<accounts, posted, edits, posts>>,
         mishaps' \in 0..MaxMishaps, owner' \in Maps(Videos, Accounts), OnlyFollowedHaveVideos'
  PROVE  FollowInv'
<1>1. sweep' \in [Sweepers -> Sweeps] /\ sweep'[s] = r /\ \A o \in Sweepers \ {s} : sweep'[o] = sweep[o]
  BY DEF FollowInv, TypeOK
<1>2. TypeOK'
  BY <1>1 DEF FollowInv, TypeOK
<1> QED
  BY <1>2 DEF FollowInv

LEMMA OnwardSweeps ==
  ASSUME FollowInv, NEW s \in Sweepers
  PROVE  /\ Onward(s) \in Sweeps /\ NoSweep \in Sweeps
         /\ Onward(s).todo \subseteq DOMAIN Onward(s).rows /\ NoSweep.todo \subseteq DOMAIN NoSweep.rows
         /\ Onward(s).pc # "idle" => Onward(s).todo # {}
         /\ NoSweep.pc = "idle"
<1>1. << >> \in Maps(Accounts, Rows) /\ DOMAIN << >> = {}
  <2>1. << >> \in [{} -> Nat]
    OBVIOUS
  <2> QED
    BY <2>1 DEF Maps
<1>2. /\ NoSweep \in Sweeps /\ NoSweep.todo = {} /\ NoSweep.rows = << >> /\ NoSweep.pc = "idle"
  BY <1>1 DEF NoSweep, Sweeps
<1>3. CASE Onward(s) = NoSweep
  BY <1>1, <1>2, <1>3
<1>4. CASE Onward(s) # NoSweep
  <2> DEFINE left == sweep[s].todo \ {Current(s)}
  <2>1. left # {} /\ Onward(s) = [sweep[s] EXCEPT !.pc = "scrape", !.todo = left, !.refs = {}]
    BY <1>4 DEF Onward
  <2>2. sweep[s] \in Sweeps /\ left \subseteq DOMAIN sweep[s].rows /\ left \in SUBSET Accounts
    BY DEF FollowInv, TypeOK, Sweeps
  <2> HIDE DEF left
  <2>3. /\ Onward(s).pc = "scrape" /\ Onward(s).todo = left /\ Onward(s).rows = sweep[s].rows
        /\ Onward(s) \in Sweeps
    BY <2>1, <2>2 DEF Sweeps
  <2> QED
    BY <1>1, <1>2, <2>1, <2>2, <2>3
<1> QED
  BY <1>3, <1>4

LEMMA SweepStep ==
  ASSUME FollowInv, NEW s \in Sweepers, Sweep(s) \/ Killed(s)
  PROVE  FollowInv'
<1> USE FollowingAssumption
<1>1. TypeOK /\ mishaps \in 0..MaxMishaps /\ owner \in Maps(Videos, Accounts) /\ sweep[s] \in Sweeps
  BY DEF FollowInv, TypeOK
<1>2. UNCHANGED <<accounts, owner>> => OnlyFollowedHaveVideos'
  BY DEF FollowInv, OnlyFollowedHaveVideos, Followed
<1>3. CASE ListAccounts(s)
  <2> DEFINE r == [NoSweep EXCEPT !.pc = "scrape", !.todo = Active, !.rows = [a \in Active |-> accounts[a].row]]
  <2>1. /\ Active # {} /\ UNCHANGED <<accounts, posted, edits, posts, owner, mishaps>>
        /\ sweep' = [sweep EXCEPT ![s] = r]
    BY <1>3 DEF ListAccounts, Set
  <2>2. Active \in SUBSET Accounts /\ \A a \in Active : accounts[a].row \in Rows
    BY <1>1 DEF TypeOK, Active, Followed
  <2>3. [a \in Active |-> accounts[a].row] \in Maps(Accounts, Rows)
    BY <2>2 DEF Maps
  <2>4. /\ r \in Sweeps /\ r.todo = Active /\ r.rows = [a \in Active |-> accounts[a].row]
    <3>1. NoSweep \in Sweeps
      BY OnwardSweeps
    <3> QED
      BY <2>2, <2>3, <3>1 DEF Sweeps
  <2> HIDE DEF r
  <2>5. r.todo \subseteq DOMAIN r.rows /\ r.todo # {}
    BY <2>1, <2>2, <2>4
  <2> QED
    BY <1>1, <1>2, <2>1, <2>4, <2>5, SweepTurns
<1>4. CASE Scrape(s)
  <2> DEFINE r == [sweep[s] EXCEPT !.pc = "report", !.refs = Latest(Current(s))]
  <2>1. /\ sweep[s].pc = "scrape" /\ UNCHANGED <<accounts, posted, edits, posts, owner, mishaps>>
        /\ sweep' = [sweep EXCEPT ![s] = r]
    BY <1>4 DEF Scrape, Set
  <2>2. Latest(Current(s)) \in SUBSET Videos
    <3>1. posted[Current(s)] \in Seq(Videos)
      BY <1>1, <2>1, CurrentIsListed DEF TypeOK
    <3> QED
      BY <3>1 DEF Latest
  <2>3. r \in Sweeps /\ r.todo = sweep[s].todo /\ r.rows = sweep[s].rows
    BY <1>1, <2>2 DEF Sweeps
  <2> HIDE DEF r
  <2>4. r.todo \subseteq DOMAIN r.rows /\ r.todo # {}
    BY <2>1, <2>3 DEF FollowInv, TypeOK
  <2> QED
    BY <1>1, <1>2, <2>1, <2>3, <2>4, SweepTurns
<1>5. CASE ScrapeFails(s)
  <2>1. /\ UNCHANGED <<accounts, posted, edits, posts, owner>> /\ mishaps' \in 0..MaxMishaps
        /\ sweep' = [sweep EXCEPT ![s] = Onward(s)]
    BY <1>1, <1>5 DEF ScrapeFails, Set
  <2> QED
    BY <1>1, <1>2, <2>1, OnwardSweeps, SweepTurns
<1>6. CASE Report(s) /\ Found(s)
  <2>1. /\ sweep[s].pc = "report" /\ UNCHANGED <<accounts, posted, edits, posts, mishaps>>
        /\ owner' = [v \in DOMAIN owner \union sweep[s].refs |->
                        IF v \in sweep[s].refs THEN Current(s) ELSE owner[v]]
        /\ sweep' = [sweep EXCEPT ![s] = Onward(s)]
    BY <1>6 DEF Report, Set
  <2>2. Current(s) \in Accounts /\ Current(s) \in Followed
    <3>1. Current(s) \in DOMAIN sweep[s].rows /\ Current(s) \in Accounts
      BY <1>1, <2>1, CurrentIsListed
    <3> QED
      BY <1>1, <1>6, <3>1, RowMap, RowsAreGiven DEF Sweeps, Found, Followed
  <2>3. DOMAIN owner \subseteq Videos /\ \A v \in DOMAIN owner : owner[v] \in Accounts /\ owner[v] \in Followed
    BY <1>1 DEF Maps, FollowInv, OnlyFollowedHaveVideos
  <2>4. DOMAIN owner \union sweep[s].refs \in SUBSET Videos
    BY <1>1, <2>3 DEF Sweeps
  <2>5. \A v \in DOMAIN owner' : owner'[v] \in Accounts /\ owner'[v] \in Followed
    BY <2>1, <2>2, <2>3
  <2>6. owner' \in Maps(Videos, Accounts)
    <3>1. owner' \in [DOMAIN owner \union sweep[s].refs -> Accounts]
      BY <2>1, <2>5
    <3> QED
      BY <2>4, <3>1 DEF Maps
  <2>7. OnlyFollowedHaveVideos'
    BY <2>1, <2>5 DEF OnlyFollowedHaveVideos, Followed
  <2> QED
    BY <1>1, <2>1, <2>6, <2>7, OnwardSweeps, SweepTurns
<1>7. CASE (Report(s) /\ ~Found(s)) \/ Killed(s)
  <2>1. /\ UNCHANGED <<accounts, posted, edits, posts, owner>> /\ mishaps' \in 0..MaxMishaps
        /\ sweep' = [sweep EXCEPT ![s] = NoSweep]
    BY <1>1, <1>7 DEF Report, Killed, Set
  <2> QED
    BY <1>1, <1>2, <2>1, OnwardSweeps, SweepTurns
<1> QED
  BY <1>3, <1>4, <1>5, <1>6, <1>7 DEF Sweep

LEMMA FollowStep == FollowInv /\ [Next]_vars => FollowInv'
<1> SUFFICES ASSUME FollowInv, [Next]_vars PROVE FollowInv'
  OBVIOUS
<1> USE FollowingAssumption
<1>1. CASE \E s \in Sweepers : Sweep(s) \/ Killed(s)
  BY <1>1, SweepStep
<1>2. CASE UNCHANGED vars
  BY <1>2 DEF vars, FollowInv, TypeOK, OnlyFollowedHaveVideos, Followed
<1>3. ASSUME NEW a \in Accounts, NEW v \in Videos, Publish(a, v) PROVE FollowInv'
  <2>1. posted' \in [Accounts -> Seq(Videos)] /\ posts' \in 0..MaxPosts
    BY <1>3 DEF Publish, FollowInv, TypeOK
  <2> QED
    BY <1>3, <2>1 DEF Publish, FollowInv, TypeOK, OnlyFollowedHaveVideos, Followed
<1>4. ASSUME NEW a \in Accounts, Follow(a) \/ SetActive(a) PROVE FollowInv'
  <2>1. /\ accounts' \in [Accounts -> [row : Rows \union {0}, active : BOOLEAN]]
        /\ \A b \in Accounts : accounts[b].row # 0 => accounts'[b].row # 0
    <3>1. Follow(a) => edits + 2 \in Rows /\ edits + 2 # 0
      BY DEF Follow, Edit, FollowInv, TypeOK, Rows
    <3>2. accounts \in [Accounts -> [row : Rows \union {0}, active : BOOLEAN]]
      BY DEF FollowInv, TypeOK
    <3>3. CASE Follow(a)
      BY <3>1, <3>2, <3>3 DEF Follow
    <3>4. CASE SetActive(a)
      <4>1. accounts' = [accounts EXCEPT ![a].active = ~@] /\ accounts[a].active \in BOOLEAN
        BY <3>2, <3>4 DEF SetActive
      <4> QED
        BY <3>2, <4>1
    <3> QED
      BY <1>4, <3>3, <3>4
  <2>2. UNCHANGED <<posted, sweep, posts, mishaps, owner>> /\ edits' \in 0..MaxEdits
    BY <1>4 DEF Follow, SetActive, Edit, FollowInv, TypeOK
  <2>3. TypeOK'
    BY <2>1, <2>2 DEF FollowInv, TypeOK
  <2>5. OnlyFollowedHaveVideos'
    BY <2>1, <2>2 DEF FollowInv, OnlyFollowedHaveVideos, Followed
  <2> QED
    BY <2>3, <2>5 DEF FollowInv
<1>5. ASSUME NEW a \in Accounts, Remove(a) PROVE FollowInv'
  <2>1. /\ accounts' = [accounts EXCEPT ![a] = Unknown]
        /\ owner' = [v \in {x \in DOMAIN owner : owner[x] # a} |-> owner[v]]
        /\ UNCHANGED <<posted, sweep, posts, mishaps>> /\ edits' \in 0..MaxEdits
    BY <1>5 DEF Remove, Edit, FollowInv, TypeOK
  <2>2. accounts' \in [Accounts -> [row : Rows \union {0}, active : BOOLEAN]]
    BY <2>1 DEF Unknown, FollowInv, TypeOK
  <2>3. /\ DOMAIN owner' \in SUBSET Videos
        /\ \A v \in DOMAIN owner' : v \in DOMAIN owner /\ owner'[v] = owner[v] /\ owner[v] # a /\ owner[v] \in Accounts
    BY <2>1 DEF FollowInv, TypeOK, Maps
  <2>4. owner' \in Maps(Videos, Accounts)
    <3>1. owner' \in [DOMAIN owner' -> Accounts]
      BY <2>1, <2>3
    <3> QED
      BY <2>3, <3>1 DEF Maps
  <2>5. TypeOK'
    BY <2>1, <2>2, <2>4 DEF FollowInv, TypeOK
  <2>6. OnlyFollowedHaveVideos'
    BY <2>1, <2>3 DEF FollowInv, TypeOK, OnlyFollowedHaveVideos, Followed
  <2> QED
    BY <2>5, <2>6 DEF FollowInv
<1> QED
  BY <1>1, <1>2, <1>3, <1>4, <1>5 DEF Next

LEMMA FollowInitial == Init => FollowInv
<1> SUFFICES ASSUME Init PROVE FollowInv
  OBVIOUS
<1>1. << >> \in Maps(Accounts, Rows) /\ << >> \in Maps(Videos, Accounts) /\ DOMAIN << >> = {}
  <2>1. << >> \in [{} -> Nat] /\ << >> \in [{} -> Accounts]
    OBVIOUS
  <2> QED
    BY <2>1 DEF Maps
<1>2. NoSweep \in Sweeps /\ NoSweep.todo = {} /\ NoSweep.pc = "idle" /\ NoSweep.rows = << >>
  BY <1>1 DEF NoSweep, Sweeps
<1>3. TypeOK
  <2>1. 1 \in Rows
    BY FollowingAssumption DEF Rows
  <2>2. accounts \in [Accounts -> [row : Rows \union {0}, active : BOOLEAN]]
    BY <2>1 DEF Init
  <2>3. posted \in [Accounts -> Seq(Videos)] /\ owner \in Maps(Videos, Accounts)
    BY <1>1 DEF Init
  <2>4. /\ sweep \in [Sweepers -> Sweeps]
        /\ \A s \in Sweepers : sweep[s].todo = {} /\ sweep[s].pc = "idle"
    BY <1>2 DEF Init
  <2>5. edits \in 0..MaxEdits /\ posts \in 0..MaxPosts /\ mishaps \in 0..MaxMishaps
    BY FollowingAssumption DEF Init
  <2> QED
    BY <2>2, <2>3, <2>4, <2>5 DEF TypeOK
<1> QED
  BY <1>1, <1>2, <1>3 DEF Init, FollowInv, OnlyFollowedHaveVideos

LEMMA FollowInvariant == Spec => []FollowInv
  BY FollowInitial, FollowStep, PTL DEF Spec

\* Accounts, videos and sweeps keep their types.
THEOREM FollowingTypes == Spec => []TypeOK
<1>1. FollowInv => TypeOK
  BY DEF FollowInv
<1> QED
  BY <1>1, FollowInvariant, PTL

\* No video outlives the account it is from: a sweep's report names the row it listed,
\* and that row is gone when the account is (report_videos).
THEOREM NoOrphanVideos == Spec => []OnlyFollowedHaveVideos
<1>1. FollowInv => OnlyFollowedHaveVideos
  BY DEF FollowInv
<1> QED
  BY <1>1, FollowInvariant, PTL
=============================================================================
