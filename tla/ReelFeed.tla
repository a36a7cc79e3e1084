------------------------------ MODULE ReelFeed ------------------------------
(* The My Notes reel feed: the pages the server cuts from its watch order     *)
(* (backend/content/views.py reels), the deck the learner swipes through and  *)
(* the pages it loads ahead (ui: ReelsPage, SwipeDeck, useReels), and the     *)
(* watches that change the order meanwhile (ViewCount).                       *)
(*                                                                            *)
(* One visit to the tab.  A reel is its id; a later id was made later.        *)
EXTENDS ViewCount, FiniteSets

CONSTANTS
    PageSize,   \* REEL_PAGE
    Ahead,      \* PRELOAD_AHEAD
    MaxMishaps  \* bound: pages that fail to load, reels that come or go

ASSUME ReelFeedAssumption == PageSize \in Nat \ {0} /\ Ahead \in Nat /\ MaxMishaps \in Nat

VARIABLES
    scope,      \* the reels that are in scope
    base,       \* history: the reels in scope since the visit began, with their counts then
    feed,       \* the reels of every page loaded so far
    after,      \* the cursor of the next page; << >> before the first
    more,       \* hasNextPage
    fetch,      \* the page that is being loaded
    cur,        \* the screen in view
    mishaps     \* how much of the bound is used

feedVars == <<scope, base, feed, after, more, fetch, cur, mishaps>>
vars     == <<viewVars, feedVars>>

Idle == [pc |-> "idle", page |-> << >>, after |-> << >>, more |-> FALSE]

\* The first page is asked for at once.
Init ==
    /\ ViewInit
    /\ \E some \in {Items, Items \ {CHOOSE i \in Items : \A j \in Items : j <= i}} :
          /\ scope = some
          /\ base = [r \in some |-> Len(views[r])]
    /\ feed = << >> /\ after = << >> /\ more = TRUE
    /\ fetch = [Idle EXCEPT !.pc = "asked"]
    /\ cur = 1 /\ mishaps = 0

Listed(r) == \E k \in DOMAIN feed : feed[k] = r

-----------------------------------------------------------------------------
(* The watch order and its pages.                                             *)

\* _watch_order: unwatched reels first, newest first; then the fewest watches,
\* the least recently watched first.
Key(r) == <<Len(views[r]), IF views[r] = << >> THEN -1 ELSE Last(r), -r>>

\* Mutant: the reel at the cursor is on both pages.
Precedes_OrIs(k, l) ==
    \/ k[1] < l[1]
    \/ k[1] = l[1] /\ k[2] < l[2]
    \/ k[1] = l[1] /\ k[2] = l[2] /\ k[3] <= l[3]

Precedes(k, l) ==
    \/ k[1] < l[1]
    \/ k[1] = l[1] /\ k[2] < l[2]
    \/ k[1] = l[1] /\ k[2] = l[2] /\ k[3] < l[3]

\* Mutant: the cursor marks a reel, wherever it is by now.
Rest_PastReel == {r \in scope : after = << >> \/ Precedes(Key(-after[3]), Key(r))}

\* The reels past the cursor, which marks a position in the order.
Rest == {r \in scope : after = << >> \/ Precedes(after, Key(r))}

\* The first reels of some, in order.
IsPage(page, some) ==
    /\ Len(page) <= PageSize
    /\ \A j, k \in DOMAIN page : j < k => Precedes(Key(page[j]), Key(page[k]))
    /\ \A r \in some : \/ \E k \in DOMAIN page : page[k] = r
                       \/ Len(page) = PageSize /\ \A k \in DOMAIN page : Precedes(Key(page[k]), Key(r))

Pages(some) == UNION {[1..n -> some] : n \in 0..PageSize}

ServePage ==
    /\ fetch.pc = "asked"
    /\ \E page \in Pages(Rest) :
          LET left == \E r \in Rest : \A k \in DOMAIN page : page[k] # r
          IN  /\ IsPage(page, Rest)
              /\ fetch' = [pc |-> "answered", page |-> page, more |-> left,
                           after |-> IF left THEN Key(page[Len(page)]) ELSE << >>]
    /\ UNCHANGED <<viewVars, scope, base, feed, after, more, cur, mishaps>>

-----------------------------------------------------------------------------
(* The app.                                                                   *)

\* The page lands behind the ones loaded before it.
Arrive ==
    /\ fetch.pc = "answered"
    /\ feed' = feed \o fetch.page
    /\ after' = fetch.after /\ more' = fetch.more
    /\ fetch' = Idle
    /\ UNCHANGED <<viewVars, scope, base, cur, mishaps>>

Mishap == mishaps < MaxMishaps /\ mishaps' = mishaps + 1

\* Neither the request nor its one retry got an answer.
FetchFails ==
    /\ fetch.pc # "idle" /\ Mishap
    /\ fetch' = Idle
    /\ UNCHANGED <<viewVars, scope, base, feed, after, more, cur>>

\* "Try again", where nothing has been loaded yet.
TryAgain ==
    /\ feed = << >> /\ more /\ fetch.pc = "idle"
    /\ fetch' = [Idle EXCEPT !.pc = "asked"]
    /\ UNCHANGED <<viewVars, scope, base, feed, after, more, cur, mishaps>>

\* Mutant: the index must pass, not reach, and the length is taken for the last index.
NearEnd_Late(i) == i > Len(feed) + 1 - Ahead

NearEnd(i) == i >= Len(feed) - Ahead

\* Mutant: the deck scrolls past its last screen.
Target_Unclamped(by) == cur + by

\* go: one screen up or down, on the deck.
Target(by) == IF cur + by < 1 \/ cur + by > Len(feed) THEN cur ELSE cur + by

\* A change of the screen in view is what loads the next page.
Swipe(by) ==
    LET to == Target(by)
    IN  /\ feed # << >>
        /\ to # cur /\ cur' = to
        /\ fetch' = IF NearEnd(to) /\ more /\ fetch.pc = "idle" THEN [Idle EXCEPT !.pc = "asked"] ELSE fetch
        /\ UNCHANGED <<viewVars, scope, base, feed, after, more, mishaps>>

\* A play-through of the reel in view has counted as a watch.
Watch(s) == feed # << >> /\ Post(s, feed[cur]) /\ UNCHANGED feedVars

-----------------------------------------------------------------------------

\* The pipeline or Manage notes brings a reel in, or takes one out.
ComeAndGo(r) ==
    /\ Mishap
    /\ scope' = IF r \in scope THEN scope \ {r} ELSE scope \union {r}
    /\ base' = [x \in DOMAIN base \ {r} |-> base[x]]
    /\ UNCHANGED <<viewVars, feed, after, more, fetch, cur>>

Forward == Swipe(1)
Back    == Swipe(-1)

Next ==
    \/ (Tick \/ \E s \in Senders : Count(s)) /\ UNCHANGED feedVars
    \/ \E s \in Senders : Watch(s)
    \/ ServePage \/ Arrive \/ FetchFails \/ TryAgain \/ Forward \/ Back
    \/ \E r \in Items : ComeAndGo(r)

Spec == Init /\ [][Next]_vars

\* Requests are served, and the learner who comes to a screen again and again at
\* last swipes on from it; at the end of a feed that says there is more, back.
FairSpec ==
    /\ Spec
    /\ WF_vars(ServePage) /\ WF_vars(Arrive) /\ WF_vars(TryAgain)
    /\ \A k \in 1..(Cardinality(Items) + MaxPosts + MaxMishaps) : SF_vars(Forward /\ cur = k)
    /\ WF_vars(Back /\ cur = Len(feed) /\ more /\ fetch.pc = "idle")

-----------------------------------------------------------------------------
(* Properties.                                                                *)

Keys == (Nat \X (Nat \union {-1}) \X Int) \union {<< >>}

TypeOK ==
    /\ ViewTypeOK
    /\ scope \subseteq Items /\ DOMAIN base \subseteq scope
    /\ \A r \in DOMAIN base : base[r] \in Nat
    /\ feed \in Seq(Items) /\ after \in Keys /\ more \in BOOLEAN
    /\ fetch \in [pc : {"idle", "asked", "answered"}, page : Seq(Items), after : Keys, more : BOOLEAN]
    /\ cur \in Nat /\ 1 <= cur /\ (cur <= Len(feed) \/ cur = 1)
    /\ mishaps \in 0..MaxMishaps

\* When the feed says it is complete, every reel that was in scope all along is
\* on it, whatever was watched, made, hidden or retried while its pages loaded.
NothingSkipped == ~more => \A r \in DOMAIN base : Listed(r)

\* The feed does not repeat itself: a reel comes round again only when it has been
\* watched since, on this screen or on another.
RepeatsOnlyWatched ==
    \A r \in DOMAIN base : Cardinality({k \in DOMAIN feed : feed[k] = r}) <= 1 + Len(views[r]) - base[r]

\* The learner who keeps swiping gets to see every reel: the feed never stops short
\* of one, although nothing but a change of the screen in view loads the next page.
EveryReelComesUp ==
    \A r \in Items : <>(r \notin DOMAIN base \/ (feed # << >> /\ feed[cur] = r))
=============================================================================
