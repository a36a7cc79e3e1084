----------------------------- MODULE FeedProofs -----------------------------
(* The reel feed and the counting of watches, for every value of their         *)
(* constants: what the server promises about watches by itself, and what it    *)
(* and the app promise together about the feed.                                *)
EXTENDS ReelFeed, FiniteSetTheorems, TLAPS

-----------------------------------------------------------------------------
(* Watches.  The lock is what the argument rests on: the decision a request    *)
(* took is still true when it writes, since nobody else was let in meanwhile.  *)

OneAtATime == \A s, o \in Senders, i \in Items : Holds(s, i) /\ Holds(o, i) => s = o

DecisionStands == \A s \in Senders : post[s].pc = "create" => Counts(post[s].item)

ViewInv == ViewTypeOK /\ OneAtATime /\ DecisionStands /\ WatchesApart

LEMMA OnItsWay ==
  ASSUME ViewTypeOK, NEW s \in Senders, post[s].pc # "idle"
  PROVE  post[s] \in [pc : {"sent", "locked", "create"}, item : Items]
  BY DEF ViewTypeOK, Posts, NoPost

LEMMA ViewInitial == ViewInit => ViewInv
<1> SUFFICES ASSUME ViewInit PROVE ViewInv
  OBVIOUS
<1> USE ViewCountAssumption
<1>1. ViewTypeOK
  <2>1. << >> \in Seq(0..MaxTime) /\ <<0>> \in Seq(0..MaxTime)
    OBVIOUS
  <2>2. views \in [Items -> Seq(0..MaxTime)]
    BY <2>1 DEF ViewInit
  <2> QED
    BY <2>2 DEF ViewInit, ViewTypeOK, Posts
<1>2. OneAtATime /\ DecisionStands
  BY DEF ViewInit, OneAtATime, DecisionStands, Holds, NoPost
<1>3. WatchesApart
  <2> SUFFICES ASSUME NEW i \in Items, NEW j \in DOMAIN views[i], NEW k \in DOMAIN views[i], j < k
               PROVE  FALSE
    BY DEF WatchesApart
  <2>1. views[i] = << >> \/ views[i] = <<0>>
    BY DEF ViewInit
  <2> QED
    BY <2>1
<1> QED
  BY <1>1, <1>2, <1>3 DEF ViewInv

LEMMA ViewStep == ViewInv /\ [ViewNext]_viewVars => ViewInv'
<1> SUFFICES ASSUME ViewInv, [ViewNext]_viewVars PROVE ViewInv'
  OBVIOUS
<1> USE ViewCountAssumption DEF ViewInv, ViewTypeOK
<1>1. ASSUME NEW s \in Senders, NEW i \in Items, Post(s, i) PROVE ViewInv'
  <2>1. post' = [post EXCEPT ![s] = [pc |-> "sent", item |-> i]] /\ UNCHANGED <<views, now>>
    BY <1>1 DEF Post
  <2>2. ViewTypeOK'
    BY <1>1, <2>1 DEF Post, Posts
  <2>3. OneAtATime' /\ DecisionStands' /\ WatchesApart'
    BY <2>1 DEF OneAtATime, Holds, DecisionStands, Counts, Last, WatchesApart
  <2> QED
    BY <2>2, <2>3
<1>2. ASSUME NEW s \in Senders, Lock(s) PROVE ViewInv'
  <2>1. /\ post[s].pc = "sent" /\ UNCHANGED <<views, now, posts>>
        /\ \A o \in Senders : ~Holds(o, post[s].item)
        /\ post' = [post EXCEPT ![s].pc = "locked"]
    BY <1>2 DEF Lock
  <2>2. ViewTypeOK'
    <3>1. post[s] \in [pc : {"sent", "locked", "create"}, item : Items]
      BY <2>1 DEF Posts, NoPost
    <3> QED
      BY <2>1, <3>1 DEF Posts
  <2>3. OneAtATime'
    BY <2>1 DEF OneAtATime, Holds, Posts, NoPost
  <2>4. DecisionStands' /\ WatchesApart'
    BY <2>1 DEF DecisionStands, Counts, Last, WatchesApart, Posts, NoPost
  <2> QED
    BY <2>2, <2>3, <2>4
<1>3. ASSUME NEW s \in Senders, Look(s) PROVE ViewInv'
  <2>1. /\ post[s].pc = "locked" /\ UNCHANGED <<views, now, posts>>
        /\ post' = [post EXCEPT ![s] = IF Counts(post[s].item) THEN [post[s] EXCEPT !.pc = "create"] ELSE NoPost]
    BY <1>3 DEF Look
  <2>2. post[s] \in [pc : {"sent", "locked", "create"}, item : Items]
    BY <2>1 DEF Posts, NoPost
  <2>3. ViewTypeOK'
    BY <2>1, <2>2 DEF Posts
  <2>4. OneAtATime'
    BY <2>1, <2>2 DEF OneAtATime, Holds, NoPost
  <2>5. DecisionStands' /\ WatchesApart'
    BY <2>1, <2>2 DEF DecisionStands, Counts, Last, WatchesApart, NoPost
  <2> QED
    BY <2>3, <2>4, <2>5
<1>4. ASSUME NEW s \in Senders, Create(s) PROVE ViewInv'
  <2> DEFINE i == post[s].item
  <2>1. /\ post[s].pc = "create" /\ UNCHANGED <<now, posts>>
        /\ views' = [views EXCEPT ![i] = Append(@, now)]
        /\ post' = [post EXCEPT ![s] = NoPost]
    BY <1>4 DEF Create
  <2>2. i \in Items /\ Counts(i)
    BY <2>1 DEF Posts, NoPost, DecisionStands
  <2>3. views[i] \in Seq(0..MaxTime) /\ now \in 0..MaxTime
    BY <2>2
  <2>4. views'[i] = Append(views[i], now) /\ \A x \in Items \ {i} : views'[x] = views[x]
    BY <2>1, <2>2
  <2>5. ViewTypeOK'
    BY <2>1, <2>2, <2>3 DEF Posts
  <2>6. OneAtATime'
    BY <2>1 DEF OneAtATime, Holds, NoPost
  <2>7. DecisionStands'
    <3> SUFFICES ASSUME NEW o \in Senders, post'[o].pc = "create" PROVE Counts(post[o].item)'
      BY <2>1 DEF DecisionStands
    <3>1. o # s /\ post'[o] = post[o]
      BY <2>1 DEF NoPost
    <3>2. Counts(post[o].item)
      BY <3>1 DEF DecisionStands
    <3>3. post[o].item \in Items
      BY <2>1, <3>1, OnItsWay
    <3>4. post[o].item # i
      BY <2>1, <2>2, <3>1 DEF OneAtATime, Holds
    <3> QED
      BY <2>1, <2>4, <3>1, <3>2, <3>3, <3>4 DEF Counts, Last
  <2>8. WatchesApart'
    <3> SUFFICES ASSUME NEW x \in Items, NEW j \in DOMAIN views'[x], NEW k \in DOMAIN views'[x], j < k
                 PROVE  views'[x][k] - views'[x][j] >= Debounce
      BY DEF WatchesApart
    <3>1. CASE x # i
      BY <2>4, <3>1 DEF WatchesApart
    <3>2. CASE x = i /\ k <= Len(views[i])
      <4>1. /\ j \in DOMAIN views[i] /\ k \in DOMAIN views[i]
            /\ views'[i][j] = views[i][j] /\ views'[i][k] = views[i][k]
        BY <2>3, <2>4, <3>2
      <4> QED
        BY <2>2, <3>2, <4>1 DEF WatchesApart
    <3>3. CASE x = i /\ k > Len(views[i])
      <4>1. /\ k = Len(views[i]) + 1 /\ j \in DOMAIN views[i]
            /\ views'[i][j] = views[i][j] /\ views'[i][k] = now
            /\ views[i] # << >> /\ Len(views[i]) \in DOMAIN views[i]
        <5>1. views'[i] = Append(views[i], now) /\ j \in DOMAIN views'[i] /\ k \in DOMAIN views'[i]
          BY <2>4, <3>3
        <5> HIDE DEF i
        <5> QED
          BY <2>3, <3>3, <5>1
      <4>2. now - Last(i) >= Debounce
        BY <2>2, <4>1 DEF Counts
      <4>3. CASE j = Len(views[i])
        BY <3>3, <4>1, <4>2, <4>3 DEF Last
      <4>4. CASE j < Len(views[i])
        <5>1. Last(i) - views[i][j] >= Debounce
          BY <2>2, <4>1, <4>4 DEF WatchesApart, Last
        <5>2. Last(i) \in Int /\ views[i][j] \in Int
          BY <2>3, <4>1 DEF Last
        <5> QED
          BY <2>3, <3>3, <4>1, <4>2, <5>1, <5>2
      <4> QED
        BY <2>3, <4>1, <4>3, <4>4
    <3> QED
      BY <2>3, <2>4, <3>1, <3>2, <3>3
  <2> QED
    BY <2>5, <2>6, <2>7, <2>8
<1>5. ASSUME NEW s \in Senders, Drop(s) PROVE ViewInv'
  <2>1. post' = [post EXCEPT ![s] = NoPost] /\ UNCHANGED <<views, now, posts>>
    BY <1>5 DEF Drop
  <2>2. ViewTypeOK'
    BY <2>1 DEF Posts
  <2>3. OneAtATime' /\ DecisionStands' /\ WatchesApart'
    BY <2>1 DEF NoPost, OneAtATime, Holds, DecisionStands, Counts, Last, WatchesApart
  <2> QED
    BY <2>2, <2>3
<1>6. ASSUME Tick PROVE ViewInv'
  <2>1. now' = now + 1 /\ now' \in 0..MaxTime /\ UNCHANGED <<views, post, posts>>
    BY <1>6 DEF Tick
  <2>2. ViewTypeOK' /\ OneAtATime' /\ WatchesApart'
    BY <2>1 DEF OneAtATime, Holds, WatchesApart
  <2>3. DecisionStands'
    <3> SUFFICES ASSUME NEW s \in Senders, post[s].pc = "create" PROVE Counts(post[s].item)'
      BY <2>1 DEF DecisionStands
    <3>1. post[s].item \in Items /\ Counts(post[s].item)
      BY OnItsWay DEF DecisionStands
    <3>2. views[post[s].item] \in Seq(0..MaxTime)
      BY <3>1
    <3>3. views[post[s].item] = << >> \/ Last(post[s].item) \in 0..MaxTime
      BY <3>2 DEF Last
    <3> QED
      BY <2>1, <3>1, <3>3 DEF Counts, Last
  <2> QED
    BY <2>2, <2>3
<1>7. CASE UNCHANGED viewVars
  BY <1>7 DEF viewVars, OneAtATime, Holds, DecisionStands, Counts, Last, WatchesApart
<1> QED
  BY <1>1, <1>2, <1>3, <1>4, <1>5, <1>6, <1>7 DEF ViewNext, Count

\* Under the lock on its row no item's watches come closer than the debounce,
\* whatever requests are repeated, lost or delayed (reel_view, video_view).
THEOREM WatchesStayApart == ViewSpec => []WatchesApart
<1>1. ViewInv => WatchesApart
  BY DEF ViewInv
<1> QED
  BY <1>1, ViewInitial, ViewStep, PTL DEF ViewSpec

-----------------------------------------------------------------------------
(* The feed's types, and that it does nothing to the watches that ViewCount    *)
(* does not know of.                                                           *)

LEMMA LastOfSeq ==
  ASSUME NEW S, NEW s \in Seq(S), s # << >>
  PROVE  s[Len(s)] \in S
  OBVIOUS

Fetches == [pc : {"idle", "asked", "answered"}, page : Seq(Items), after : Keys, more : BOOLEAN]

LEMMA FetchShapes == Idle \in Fetches /\ [Idle EXCEPT !.pc = "asked"] \in Fetches
<1>1. << >> \in Keys /\ << >> \in Seq(Items)
  BY DEF Keys
<1>2. Idle \in Fetches
  BY <1>1 DEF Idle, Fetches
<1> QED
  BY <1>2 DEF Fetches

Marks == Nat \X (Nat \union {-1}) \X Int

LEMMA MarkOrder ==
  ASSUME NEW k \in Marks, NEW l \in Marks, NEW m \in Marks
  PROVE  /\ Precedes(k, l) /\ Precedes(l, m) => Precedes(k, m)
         /\ ~Precedes(k, k)
         /\ Precedes(k, l) => k[1] <= l[1]
         /\ k[1] < l[1] => Precedes(k, l)
<1>1. /\ k[1] \in Int /\ k[2] \in Int /\ k[3] \in Int
      /\ l[1] \in Int /\ l[2] \in Int /\ l[3] \in Int
      /\ m[1] \in Int /\ m[2] \in Int /\ m[3] \in Int
  BY DEF Marks
<1> QED
  BY <1>1 DEF Precedes

LEMMA WatchesMark ==
  ASSUME NEW seen \in Seq(0..MaxTime), NEW r \in Items
  PROVE  /\ <<Len(seen), IF seen = << >> THEN -1 ELSE seen[Len(seen)], -r>> \in Marks
         /\ Len(seen) \in Nat
<1>1. -r \in Int /\ Len(seen) \in Nat
  BY ViewCountAssumption
<1>2. (IF seen = << >> THEN -1 ELSE seen[Len(seen)]) \in Nat \union {-1}
  <2>1. seen # << >> => seen[Len(seen)] \in 0..MaxTime
    BY LastOfSeq
  <2> QED
    BY <2>1, ViewCountAssumption
<1> QED
  BY <1>1, <1>2 DEF Marks

LEMMA KeyIsMark ==
  ASSUME ViewTypeOK, NEW r \in Items
  PROVE  Key(r) \in Marks
  BY WatchesMark DEF ViewTypeOK, Key, Last

LEMMA PageIsSeq ==
  ASSUME NEW some, NEW page \in Pages(some)
  PROVE  page \in Seq(some) /\ Len(page) \in Nat /\ DOMAIN page = 1..Len(page)
<1>1. PICK n \in 0..PageSize : page \in [1..n -> some]
  BY DEF Pages
<1>2. n \in Nat
  BY ReelFeedAssumption
<1> QED
  BY <1>1, <1>2

LEMMA FeedInitial == Init => TypeOK
<1> SUFFICES ASSUME Init PROVE TypeOK
  OBVIOUS
<1>1. ViewTypeOK
  BY ViewInitial DEF Init, ViewInv
<1>2. scope \subseteq Items /\ DOMAIN base \subseteq scope
  BY DEF Init
<1>3. \A r \in DOMAIN base : base[r] \in Nat
  <2> SUFFICES ASSUME NEW r \in DOMAIN base PROVE base[r] \in Nat
    OBVIOUS
  <2>1. r \in Items /\ base[r] = Len(views[r])
    BY DEF Init
  <2> QED
    BY <1>1, <2>1 DEF ViewTypeOK
<1>4. /\ feed \in Seq(Items) /\ after \in Keys /\ more \in BOOLEAN
      /\ fetch \in [pc : {"idle", "asked", "answered"}, page : Seq(Items), after : Keys, more : BOOLEAN]
  BY FetchShapes DEF Init, Fetches, Keys
<1>5. cur = 1 /\ mishaps \in 0..MaxMishaps
  BY ReelFeedAssumption DEF Init
<1> QED
  BY <1>1, <1>2, <1>3, <1>4, <1>5 DEF TypeOK

LEMMA FeedMoves == TypeOK /\ [Next]_vars => [ViewNext]_viewVars
<1> SUFFICES ASSUME TypeOK, [Next]_vars PROVE [ViewNext]_viewVars
  OBVIOUS
<1>1. ASSUME NEW s \in Senders, Watch(s) PROVE ViewNext
  <2>1. feed[cur] \in Items /\ Post(s, feed[cur])
    BY <1>1 DEF Watch, TypeOK
  <2> QED
    BY <2>1 DEF ViewNext
<1>2. CASE (Tick \/ \E s \in Senders : Count(s)) /\ UNCHANGED feedVars
  BY <1>2 DEF ViewNext
<1>3. CASE ServePage \/ Arrive \/ FetchFails \/ TryAgain
  BY <1>3 DEF ServePage, Arrive, FetchFails, TryAgain
<1>4. CASE Forward \/ Back \/ \E r \in Items : ComeAndGo(r)
  BY <1>4 DEF Forward, Back, Swipe, ComeAndGo
<1>5. CASE UNCHANGED vars
  BY <1>5 DEF vars
<1> QED
  BY <1>1, <1>2, <1>3, <1>4, <1>5 DEF Next

LEMMA FeedTypes == TypeOK /\ ViewTypeOK' /\ [Next]_vars => TypeOK'
<1> SUFFICES ASSUME TypeOK, ViewTypeOK', [Next]_vars PROVE TypeOK'
  OBVIOUS
<1> USE ReelFeedAssumption
<1>1. CASE UNCHANGED feedVars
  BY <1>1 DEF TypeOK, feedVars
<1>2. CASE ServePage
  <2>1. PICK page \in Pages(Rest) :
          LET left == \E r \in Rest : \A k \in DOMAIN page : page[k] # r
          IN  /\ IsPage(page, Rest)
              /\ fetch' = [pc |-> "answered", page |-> page, more |-> left,
                           after |-> IF left THEN Key(page[Len(page)]) ELSE << >>]
    BY <1>2 DEF ServePage
  <2> DEFINE left == \E r \in Rest : \A k \in DOMAIN page : page[k] # r
  <2>2. Rest \subseteq Items
    BY DEF Rest, TypeOK
  <2>3. page \in Seq(Items) /\ Len(page) \in Nat
    BY <2>2, PageIsSeq
  <2>4. (IF left THEN Key(page[Len(page)]) ELSE << >>) \in Keys
    <3>1. CASE left
      <4>1. page[Len(page)] \in Items
        BY <2>1, <2>3, <3>1 DEF IsPage
      <4> QED
        BY <3>1, <4>1, KeyIsMark DEF TypeOK, Keys, Marks
    <3> QED
      BY <3>1 DEF Keys
  <2>5. fetch' \in [pc : {"idle", "asked", "answered"}, page : Seq(Items), after : Keys, more : BOOLEAN]
    BY <2>1, <2>3, <2>4
  <2> QED
    BY <1>2, <2>5 DEF ServePage, TypeOK
<1>3. CASE Arrive
  <2>1. feed' \in Seq(Items) /\ Len(feed') = Len(feed) + Len(fetch.page) /\ Len(fetch.page) \in Nat
    BY <1>3 DEF Arrive, TypeOK
  <2>2. cur' \in Nat /\ 1 <= cur' /\ (cur' <= Len(feed') \/ cur' = 1)
    BY <1>3, <2>1 DEF Arrive, TypeOK
  <2>3. fetch' \in [pc : {"idle", "asked", "answered"}, page : Seq(Items), after : Keys, more : BOOLEAN]
    BY <1>3, FetchShapes DEF Arrive, Fetches
  <2> QED
    BY <1>3, <2>1, <2>2, <2>3 DEF Arrive, TypeOK
<1>4. CASE FetchFails \/ TryAgain
  <2>1. fetch' \in [pc : {"idle", "asked", "answered"}, page : Seq(Items), after : Keys, more : BOOLEAN]
    BY <1>4, FetchShapes DEF FetchFails, TryAgain, Fetches
  <2>2. mishaps' \in 0..MaxMishaps
    BY <1>4 DEF FetchFails, TryAgain, Mishap, TypeOK
  <2> QED
    BY <1>4, <2>1, <2>2 DEF FetchFails, TryAgain, TypeOK
<1>5. ASSUME NEW by \in {1, -1}, Swipe(by) PROVE TypeOK'
  <2>1. cur' \in Nat /\ 1 <= cur' /\ (cur' <= Len(feed') \/ cur' = 1)
    BY <1>5 DEF Swipe, Target, TypeOK
  <2>2. fetch' \in [pc : {"idle", "asked", "answered"}, page : Seq(Items), after : Keys, more : BOOLEAN]
    BY <1>5, FetchShapes DEF Swipe, Fetches, TypeOK
  <2> QED
    BY <1>5, <2>1, <2>2 DEF Swipe, TypeOK
<1>6. ASSUME NEW r \in Items, ComeAndGo(r) PROVE TypeOK'
  <2>1. scope' \subseteq Items /\ DOMAIN base' \subseteq scope' /\ mishaps' \in 0..MaxMishaps
    BY <1>6 DEF ComeAndGo, Mishap, TypeOK
  <2>2. \A x \in DOMAIN base' : base'[x] \in Nat
    BY <1>6 DEF ComeAndGo, TypeOK
  <2> QED
    BY <1>6, <2>1, <2>2 DEF ComeAndGo, TypeOK
<1> QED
  BY <1>1, <1>2, <1>3, <1>4, <1>5, <1>6 DEF Next, Watch, Forward, Back, vars

Sound == ViewInv /\ TypeOK

LEMMA SoundInvariant == Spec => []Sound
<1>1. Init => Sound
  BY FeedInitial, ViewInitial DEF Init, Sound
<1>2. Sound /\ [Next]_vars => Sound'
  BY FeedMoves, ViewStep, FeedTypes DEF Sound, ViewInv
<1> QED
  BY <1>1, <1>2, PTL DEF Spec

\* Every value the feed's pages, cursors and screens take is of its type.
THEOREM FeedTypeCorrect == Spec => []TypeOK
<1>1. Sound => TypeOK
  BY DEF Sound
<1> QED
  BY <1>1, SoundInvariant, PTL

\* Scrolling, page loads and failures leave the counting of watches what it is
\* without them.
THEOREM FeedKeepsViewCount == Spec => ViewSpec
<1>1. Init => ViewInit
  BY DEF Init
<1>2. Sound /\ [Next]_vars => [ViewNext]_viewVars
  BY FeedMoves DEF Sound
<1> QED
  BY <1>1, <1>2, SoundInvariant, PTL DEF Spec, ViewSpec

-----------------------------------------------------------------------------
(* What the cursor is good for.  A reel that has been in scope all along is on *)
(* the feed or still to come past the cursor, although watches move reels in   *)
(* the order: they only ever move them towards its end.  And it is on the feed *)
(* once more than it has been watched only when it is not still to come.       *)

In(r, f)       == \E k \in DOMAIN f : f[k] = r
Places(r, f)   == {k \in DOMAIN f : f[k] = r}
ToCome(r, a, m) == m /\ (a = << >> \/ Precedes(a, Key(r)))

Sure(r, f, a, m) ==
    /\ In(r, f) \/ ToCome(r, a, m)
    /\ Cardinality(Places(r, f)) <= Len(views[r]) - base[r] + (IF ToCome(r, a, m) THEN 0 ELSE 1)

FeedInv ==
    /\ fetch.pc # "idle" => more
    /\ \A r \in DOMAIN base :
          /\ Sure(r, feed, after, more)
          /\ fetch.pc = "answered" => Sure(r, feed \o fetch.page, fetch.after, fetch.more)

LEMMA PlacesCount ==
  ASSUME NEW f \in Seq(Items), NEW r
  PROVE  IsFiniteSet(Places(r, f)) /\ Cardinality(Places(r, f)) \in Nat
<1>1. IsFiniteSet(1..Len(f))
  BY FS_Interval
<1>2. Places(r, f) \in SUBSET (1..Len(f))
  BY DEF Places
<1> QED
  BY <1>1, <1>2, FS_Subset, FS_CardinalityType

\* A reel gains at most one place from a page that shows it at most once.
LEMMA PlacesOnPage ==
  ASSUME NEW f \in Seq(Items), NEW g \in Seq(Items), NEW r,
         \A j, k \in DOMAIN g : g[j] = r /\ g[k] = r => j = k
  PROVE  /\ In(r, f \o g) <=> In(r, f) \/ In(r, g)
         /\ Cardinality(Places(r, f \o g)) <= Cardinality(Places(r, f)) + (IF In(r, g) THEN 1 ELSE 0)
<1>1. /\ Len(f) \in Nat /\ Len(g) \in Nat /\ DOMAIN f = 1..Len(f) /\ DOMAIN g = 1..Len(g)
      /\ DOMAIN (f \o g) = 1..(Len(f) + Len(g))
      /\ \A k \in 1..Len(f) : (f \o g)[k] = f[k]
      /\ \A k \in 1..Len(g) : (f \o g)[Len(f) + k] = g[k]
  OBVIOUS
<1>2. \A k \in DOMAIN (f \o g) : k \in DOMAIN f \/ (k - Len(f) \in DOMAIN g /\ k = Len(f) + (k - Len(f)))
  BY <1>1
<1>3. In(r, f \o g) <=> In(r, f) \/ In(r, g)
  <2>1. ASSUME In(r, f \o g) PROVE In(r, f) \/ In(r, g)
    BY <1>1, <1>2, <2>1 DEF In
  <2>2. ASSUME In(r, f) PROVE In(r, f \o g)
    BY <1>1, <2>2 DEF In
  <2>3. ASSUME In(r, g) PROVE In(r, f \o g)
    <3>1. PICK k \in 1..Len(g) : g[k] = r
      BY <1>1, <2>3 DEF In
    <3>2. Len(f) + k \in DOMAIN (f \o g) /\ (f \o g)[Len(f) + k] = r
      BY <1>1, <3>1
    <3> QED
      BY <3>2 DEF In
  <2> QED
    BY <2>1, <2>2, <2>3
<1>4. IsFiniteSet(Places(r, f)) /\ Cardinality(Places(r, f)) \in Nat
  BY PlacesCount
<1>5. CASE ~In(r, g)
  <2>1. Places(r, f \o g) \in SUBSET Places(r, f)
    <3> SUFFICES ASSUME NEW k \in DOMAIN (f \o g), (f \o g)[k] = r PROVE k \in DOMAIN f /\ f[k] = r
      BY DEF Places
    <3> QED
      BY <1>1, <1>2, <1>5 DEF In
  <2>2. Cardinality(Places(r, f \o g)) <= Cardinality(Places(r, f))
    BY <1>4, <2>1, FS_Subset
  <2>3. Cardinality(Places(r, f \o g)) \in Nat
    BY <1>4, <2>1, FS_Subset, FS_CardinalityType
  <2> QED
    BY <1>3, <1>4, <1>5, <2>2, <2>3
<1>6. CASE In(r, g)
  <2>1. PICK j \in DOMAIN g : g[j] = r
    BY <1>6 DEF In
  <2> DEFINE more1 == Places(r, f) \union {Len(f) + j}
  <2>2. Places(r, f \o g) \in SUBSET more1
    <3> SUFFICES ASSUME NEW k \in DOMAIN (f \o g), (f \o g)[k] = r PROVE k \in more1
      BY DEF Places
    <3>1. CASE k \in DOMAIN f
      BY <1>1, <3>1 DEF Places
    <3>2. CASE k - Len(f) \in DOMAIN g /\ k = Len(f) + (k - Len(f))
      <4>1. g[k - Len(f)] = r
        BY <1>1, <3>2
      <4>2. k - Len(f) = j
        BY <2>1, <3>2, <4>1
      <4> QED
        BY <3>2, <4>2
    <3> QED
      BY <1>2, <3>1, <3>2
  <2>3. /\ IsFiniteSet(more1)
        /\ Cardinality(more1) = Cardinality(Places(r, f)) \/ Cardinality(more1) = Cardinality(Places(r, f)) + 1
    BY <1>4, FS_AddElement
  <2>4. Cardinality(Places(r, f \o g)) <= Cardinality(more1) /\ Cardinality(Places(r, f \o g)) \in Nat
    BY <2>2, <2>3, FS_Subset, FS_CardinalityType
  <2> QED
    BY <1>3, <1>4, <1>6, <2>3, <2>4
<1> QED
  BY <1>5, <1>6

\* A watch moves a reel towards the end of the order.
LEMMA WatchesKeepSure ==
  ASSUME TypeOK, ViewTypeOK', NEW r \in DOMAIN base, base' = base,
         NEW f \in Seq(Items), NEW a \in Keys, NEW m \in BOOLEAN,
         views'[r] = views[r] \/ Len(views'[r]) = Len(views[r]) + 1,
         Sure(r, f, a, m)
  PROVE  Sure(r, f, a, m)'
<1>1. r \in Items /\ base[r] \in Nat /\ Len(views[r]) \in Nat
  <2>1. r \in Items /\ base[r] \in Nat
    BY DEF TypeOK
  <2> QED
    BY <2>1 DEF TypeOK, ViewTypeOK
<1>2. Cardinality(Places(r, f)) \in Nat
  BY PlacesCount
<1>3. CASE views'[r] = views[r]
  BY <1>3 DEF Sure, ToCome, Key, Last
<1>4. CASE Len(views'[r]) = Len(views[r]) + 1
  <2>1. ToCome(r, a, m) => ToCome(r, a, m)'
    <3> SUFFICES ASSUME a # << >>, Precedes(a, Key(r)) PROVE Precedes(a, Key(r)')
      BY DEF ToCome
    <3>1. a \in Marks /\ Key(r) \in Marks /\ Key(r)' \in Marks
      <4>1. Key(r)' \in Marks
        BY <1>1, WatchesMark DEF ViewTypeOK, Key, Last
      <4> QED
        BY <1>1, <4>1, KeyIsMark DEF Keys, Marks, TypeOK
    <3>2. Key(r)[1] = Len(views[r]) /\ Key(r)'[1] = Len(views'[r])
      BY DEF Key
    <3>3. a[1] <= Key(r)[1] /\ a[1] \in Int
      BY <3>1, MarkOrder DEF Marks
    <3>4. a[1] < Key(r)'[1]
      BY <1>1, <1>4, <3>2, <3>3
    <3> QED
      BY <3>1, <3>4, MarkOrder
  <2> QED
    BY <1>1, <1>2, <1>4, <2>1 DEF Sure
<1> QED
  BY <1>3, <1>4

\* The page the server cuts takes in the first reels past the cursor, and its own
\* cursor is the last of them.
LEMMA PageKeepsSure ==
  ASSUME TypeOK, NEW r \in DOMAIN base, NEW page \in Pages(Rest), IsPage(page, Rest),
         NEW left, left = (\E x \in Rest : \A k \in DOMAIN page : page[k] # x),
         Sure(r, feed, after, TRUE)
  PROVE  Sure(r, feed \o page, IF left THEN Key(page[Len(page)]) ELSE << >>, left)
<1> DEFINE last == IF left THEN Key(page[Len(page)]) ELSE << >>
<1>1. r \in Items /\ r \in scope /\ base[r] \in Nat /\ Len(views[r]) \in Nat
  <2>1. r \in Items /\ r \in scope /\ base[r] \in Nat
    BY DEF TypeOK
  <2> QED
    BY <2>1 DEF TypeOK, ViewTypeOK
<1>2. Rest \subseteq Items
  BY DEF Rest, TypeOK
<1>3. page \in Seq(Items) /\ Len(page) \in Nat /\ DOMAIN page = 1..Len(page) /\ \A k \in 1..Len(page) : page[k] \in Rest
  BY <1>2, PageIsSeq
<1>4. \A x \in Items : Key(x) \in Marks
  BY KeyIsMark DEF TypeOK
<1>5. \A j, k \in DOMAIN page : page[j] = r /\ page[k] = r => j = k
  <2> SUFFICES ASSUME NEW j \in DOMAIN page, NEW k \in DOMAIN page, page[j] = r, page[k] = r, j < k
               PROVE  FALSE
    BY <1>3
  <2>1. Precedes(Key(page[j]), Key(page[k]))
    BY DEF IsPage
  <2> QED
    BY <1>1, <1>4, <2>1, MarkOrder
<1>6. feed \in Seq(Items) /\ Cardinality(Places(r, feed)) \in Nat
  BY PlacesCount DEF TypeOK
<1>7. /\ In(r, feed \o page) <=> In(r, feed) \/ In(r, page)
      /\ Cardinality(Places(r, feed \o page)) <= Cardinality(Places(r, feed)) + (IF In(r, page) THEN 1 ELSE 0)
  BY <1>3, <1>5, <1>6, PlacesOnPage
<1>8. Cardinality(Places(r, feed \o page)) \in Nat
  <2>1. feed \o page \in Seq(Items)
    BY <1>3, <1>6
  <2> QED
    BY <2>1, PlacesCount
<1>9. left => /\ Len(page) \in DOMAIN page /\ page[Len(page)] \in Rest /\ page[Len(page)] \in Items
              /\ last = Key(page[Len(page)]) /\ last # << >>
  <2> SUFFICES ASSUME left
               PROVE  /\ Len(page) \in DOMAIN page /\ page[Len(page)] \in Rest
                      /\ page[Len(page)] \in Items /\ last # << >>
    OBVIOUS
  <2>1. Len(page) = PageSize
    BY DEF IsPage
  <2>2. Len(page) >= 1 /\ page[Len(page)] \in Items
    BY <1>2, <1>3, <2>1, ReelFeedAssumption
  <2>3. Len(page) \in 1..Len(page)
    BY <1>3, <2>2
  <2> QED
    BY <1>3, <2>2, <2>3 DEF Key
<1> HIDE DEF last
<1>10. r \in Rest <=> ToCome(r, after, TRUE)
  BY <1>1 DEF Rest, ToCome
<1>11. In(r, page) => r \in Rest
  BY <1>3 DEF In
<1>12. r \in Rest /\ ~In(r, page) => ToCome(r, last, left)
  <2> SUFFICES ASSUME r \in Rest, ~In(r, page) PROVE ToCome(r, last, left)
    OBVIOUS
  <2>1. left
    BY DEF In
  <2>2. \A k \in DOMAIN page : Precedes(Key(page[k]), Key(r))
    BY DEF IsPage, In
  <2> QED
    BY <1>9, <2>1, <2>2 DEF ToCome
<1>13. r \notin Rest \/ In(r, page) => ~ToCome(r, last, left)
  <2> SUFFICES ASSUME left, Precedes(Key(page[Len(page)]), Key(r)), r \notin Rest \/ In(r, page) PROVE FALSE
    BY <1>9 DEF ToCome
  <2>1. page[Len(page)] \in Rest /\ Len(page) \in DOMAIN page
    BY <1>9
  <2>2. CASE In(r, page)
    <3>1. PICK k \in DOMAIN page : page[k] = r
      BY <2>2 DEF In
    <3>2. CASE k = Len(page)
      BY <1>1, <1>4, <3>1, <3>2, MarkOrder
    <3>3. CASE k # Len(page)
      <4>1. k < Len(page)
        BY <1>3, <3>3
      <4>2. Precedes(Key(r), Key(page[Len(page)]))
        BY <2>1, <3>1, <4>1 DEF IsPage
      <4>3. Precedes(Key(r), Key(r))
        BY <1>1, <1>4, <1>9, <4>2, MarkOrder
      <4> QED
        BY <1>1, <1>4, <4>3, MarkOrder
    <3> QED
      BY <3>2, <3>3
  <2>3. CASE r \notin Rest
    <3>1. after # << >> /\ ~Precedes(after, Key(r)) /\ after \in Marks
      BY <1>1, <2>3 DEF Rest, TypeOK, Keys, Marks
    <3>2. Precedes(after, Key(page[Len(page)]))
      BY <2>1, <3>1 DEF Rest
    <3> QED
      BY <1>1, <1>4, <1>9, <3>1, <3>2, MarkOrder
  <2> QED
    BY <2>2, <2>3
<1>14. In(r, feed) \/ ToCome(r, after, TRUE)
  BY DEF Sure
<1>15. Cardinality(Places(r, feed)) <= Len(views[r]) - base[r] + (IF ToCome(r, after, TRUE) THEN 0 ELSE 1)
  BY DEF Sure
<1>16. Sure(r, feed \o page, last, left)
  <2> DEFINE n    == Cardinality(Places(r, feed))
             both == Cardinality(Places(r, feed \o page))
             seen == Len(views[r]) - base[r]
  <2>1. n \in Int /\ both \in Int /\ seen \in Int
    BY <1>1, <1>6, <1>8
  <2>2. both <= n + (IF In(r, page) THEN 1 ELSE 0)
    BY <1>7
  <2>3. n <= seen + (IF r \in Rest THEN 0 ELSE 1)
    BY <1>10, <1>15
  <2>4. In(r, feed \o page) \/ ToCome(r, last, left)
    BY <1>7, <1>10, <1>12, <1>14
  <2> HIDE DEF n, both, seen
  <2>5. both <= seen + (IF ToCome(r, last, left) THEN 0 ELSE 1)
    <3>1. CASE r \in Rest /\ ~In(r, page)
      <4>1. both <= n + 0
        BY <2>2, <3>1
      <4>2. n <= seen + 0
        BY <2>3, <3>1
      <4>3. both <= seen + 0 /\ both <= seen + 1
        BY <2>1, <4>1, <4>2
      <4> QED
        BY <4>3
    <3>2. CASE In(r, page)
      BY <1>11, <1>13, <2>1, <2>2, <2>3, <3>2
    <3>3. CASE r \notin Rest
      BY <1>11, <1>13, <2>1, <2>2, <2>3, <3>3
    <3> QED
      BY <3>1, <3>2, <3>3
  <2> QED
    BY <2>4, <2>5 DEF Sure, n, both, seen, last
<1> QED
  BY <1>16 DEF last

LEMMA FeedInvInitial == Init => FeedInv
<1> SUFFICES ASSUME Init, NEW r \in DOMAIN base PROVE Sure(r, feed, after, more)
  BY DEF Init, FeedInv, Idle
<1>1. r \in Items /\ base[r] = Len(views[r]) /\ Len(views[r]) \in Nat
  BY ViewInitial DEF Init, ViewInv, ViewTypeOK
<1>2. feed = << >> /\ after = << >> /\ more
  BY DEF Init
<1>3. Places(r, feed) = {}
  BY <1>2 DEF Places
<1>4. ToCome(r, after, more)
  BY <1>2 DEF ToCome
<1>5. Cardinality(Places(r, feed)) = 0
  BY <1>3, FS_EmptySet
<1> QED
  BY <1>1, <1>4, <1>5 DEF Sure

LEMMA FeedInvStep == Sound /\ Sound' /\ FeedInv /\ [Next]_vars => FeedInv'
<1> SUFFICES ASSUME Sound, Sound', FeedInv, [Next]_vars PROVE FeedInv'
  OBVIOUS
<1>0. TypeOK /\ TypeOK' /\ ViewTypeOK'
  BY DEF Sound, ViewInv
<1>1. ASSUME UNCHANGED views,
             fetch'.pc # "idle" => more', DOMAIN base' \subseteq DOMAIN base, \A r \in DOMAIN base' : base'[r] = base[r],
             NEW r \in DOMAIN base', NEW f, NEW a, NEW m, Sure(r, f, a, m)
      PROVE  Sure(r, f, a, m)'
  BY <1>1 DEF Sure, ToCome, Key, Last
<1>2. CASE UNCHANGED feedVars
  <2>1. \A r \in Items : views'[r] = views[r] \/ Len(views'[r]) = Len(views[r]) + 1
    <3> SUFFICES ASSUME NEW r \in Items PROVE views'[r] = views[r] \/ Len(views'[r]) = Len(views[r]) + 1
      OBVIOUS
    <3>1. CASE UNCHANGED views
      BY <3>1
    <3>2. ASSUME NEW s \in Senders, Create(s) PROVE views'[r] = views[r] \/ Len(views'[r]) = Len(views[r]) + 1
      BY <1>0, <3>2 DEF Create, TypeOK, ViewTypeOK
    <3> QED
      BY <1>0, <3>1, <3>2, FeedMoves DEF ViewNext, viewVars, Tick, Count, Lock, Look, Drop, Post
  <2>2. \A r \in DOMAIN base : r \in Items
    BY <1>0 DEF TypeOK
  <2>3. ASSUME NEW r \in DOMAIN base PROVE Sure(r, feed, after, more)'
    <3>1. Sure(r, feed, after, more)
      BY DEF FeedInv
    <3>2. feed \in Seq(Items) /\ after \in Keys /\ more \in BOOLEAN
      BY <1>0 DEF TypeOK
    <3> HIDE DEF Sound, FeedInv
    <3>3. base' = base /\ feed' = feed /\ after' = after /\ more' = more
      BY <1>2 DEF feedVars
    <3> QED
      BY <1>0, <2>1, <2>2, <3>1, <3>2, <3>3, WatchesKeepSure DEF Sure, ToCome
  <2>4. ASSUME NEW r \in DOMAIN base, fetch.pc = "answered"
        PROVE  Sure(r, feed \o fetch.page, fetch.after, fetch.more)'
    <3>1. Sure(r, feed \o fetch.page, fetch.after, fetch.more)
      BY <2>4 DEF FeedInv
    <3>2. feed \o fetch.page \in Seq(Items) /\ fetch.after \in Keys /\ fetch.more \in BOOLEAN
      BY <1>0 DEF TypeOK
    <3>3. base' = base /\ feed' = feed /\ fetch' = fetch
      BY <1>2 DEF feedVars
    <3> QED
      BY <1>0, <2>1, <2>2, <3>1, <3>2, <3>3, WatchesKeepSure DEF Sure, ToCome
  <2> QED
    BY <1>2, <2>3, <2>4 DEF feedVars, FeedInv
<1>3. CASE ServePage
  <2>1. PICK page \in Pages(Rest) :
          LET left == \E r \in Rest : \A k \in DOMAIN page : page[k] # r
          IN  /\ IsPage(page, Rest)
              /\ fetch' = [pc |-> "answered", page |-> page, more |-> left,
                           after |-> IF left THEN Key(page[Len(page)]) ELSE << >>]
    BY <1>3 DEF ServePage
  <2> DEFINE left == \E r \in Rest : \A k \in DOMAIN page : page[k] # r
  <2>2. more /\ UNCHANGED <<views, base, feed, after, more>>
    BY <1>3 DEF ServePage, FeedInv, viewVars
  <2>3. ASSUME NEW r \in DOMAIN base
        PROVE  Sure(r, feed, after, more)' /\ Sure(r, feed \o fetch.page, fetch.after, fetch.more)'
    <3>1. Sure(r, feed, after, more) /\ more = TRUE
      BY <1>0, <2>2 DEF FeedInv, TypeOK
    <3>2. Sure(r, feed \o page, IF left THEN Key(page[Len(page)]) ELSE << >>, left)
      BY <1>0, <2>1, <3>1, PageKeepsSure
    <3> QED
      BY <2>1, <2>2, <3>1, <3>2 DEF Sure, ToCome, Key, Last
  <2> QED
    BY <2>2, <2>3 DEF FeedInv
<1>4. CASE Arrive
  <2>1. /\ fetch.pc = "answered" /\ UNCHANGED <<views, base>>
        /\ feed' = feed \o fetch.page /\ after' = fetch.after /\ more' = fetch.more /\ fetch'.pc = "idle"
    BY <1>4 DEF Arrive, Idle, viewVars
  <2> QED
    BY <2>1 DEF FeedInv, Sure, ToCome, Key, Last
<1>5. CASE FetchFails \/ TryAgain \/ Forward \/ Back
  <2>1. UNCHANGED <<views, base, feed, after, more>>
    BY <1>5 DEF FetchFails, TryAgain, Forward, Back, Swipe, viewVars
  <2>2. /\ fetch'.pc # "idle" => more
        /\ fetch'.pc = "answered" => fetch' = fetch
    BY <1>5 DEF FetchFails, TryAgain, Forward, Back, Swipe, Idle, FeedInv
  <2> QED
    BY <2>1, <2>2 DEF FeedInv, Sure, ToCome, Key, Last
<1>6. ASSUME NEW x \in Items, ComeAndGo(x) PROVE FeedInv'
  <2>1. /\ UNCHANGED <<views, feed, after, more, fetch>>
        /\ DOMAIN base' \subseteq DOMAIN base /\ \A r \in DOMAIN base' : base'[r] = base[r]
    BY <1>6 DEF ComeAndGo, viewVars
  <2> QED
    BY <2>1 DEF FeedInv, Sure, ToCome, Key, Last
<1> QED
  BY <1>2, <1>3, <1>4, <1>5, <1>6 DEF Next, Watch, vars

LEMMA FeedInvariant == Spec => []FeedInv
  BY SoundInvariant, FeedInvInitial, FeedInvStep, PTL DEF Spec

\* A feed that says it is complete shows every reel that was in scope all along: the
\* cursor is a place in an order that is only ever left towards its end (reels).
THEOREM NothingIsSkipped == Spec => []NothingSkipped
<1>1. FeedInv => NothingSkipped
  BY DEF FeedInv, NothingSkipped, Sure, In, ToCome, Listed
<1> QED
  BY <1>1, FeedInvariant, PTL

\* No reel is on the feed again without having been watched in between.
THEOREM RepeatsAreWatched == Spec => []RepeatsOnlyWatched
<1>1. Sound /\ FeedInv => RepeatsOnlyWatched
  <2> SUFFICES ASSUME Sound, FeedInv, NEW r \in DOMAIN base
               PROVE  Cardinality(Places(r, feed)) <= 1 + Len(views[r]) - base[r]
    BY DEF RepeatsOnlyWatched, Places
  <2>1. Cardinality(Places(r, feed)) <= Len(views[r]) - base[r] + (IF ToCome(r, after, more) THEN 0 ELSE 1)
    BY DEF FeedInv, Sure
  <2>2. r \in Items /\ base[r] \in Nat /\ feed \in Seq(Items)
    BY DEF Sound, TypeOK
  <2>3. Len(views[r]) \in Nat /\ Cardinality(Places(r, feed)) \in Nat
    BY <2>2, PlacesCount DEF Sound, ViewInv, ViewTypeOK
  <2> QED
    BY <2>1, <2>2, <2>3
<1> QED
  BY <1>1, SoundInvariant, FeedInvariant, PTL
=============================================================================
