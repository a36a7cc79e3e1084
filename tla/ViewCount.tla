----------------------------- MODULE ViewCount -----------------------------
(* Counting watches (backend/content/views.py reel_view; video_view of        *)
(* backend/social/views.py is the same code for the Following feed).          *)
(*                                                                            *)
(* The app sends a watch when most of a play-through has been seen.  A        *)
(* request can be sent twice, be lost on its way, or be killed before it      *)
(* commits; requests for one item are served under a lock on its row.         *)
EXTENDS Integers, Sequences

CONSTANTS
    Items,      \* the reels
    Senders,    \* bound: watches on their way at once
    Debounce,   \* VIEW_DEBOUNCE
    MaxTime,    \* bound: the clock
    MaxPosts    \* bound: watches sent

ASSUME ViewCountAssumption ==
    Items \subseteq Nat \ {0} /\ Debounce \in Nat /\ MaxTime \in Nat /\ MaxPosts \in Nat

VARIABLES
    views,      \* reel_views: when each counted watch of an item was created
    post,       \* the request each sender has on its way
    now,        \* the clock
    posts       \* how much of the bound is used

viewVars == <<views, post, now, posts>>

NoPost  == [pc |-> "idle", item |-> 0]
Posts   == {NoPost} \union [pc : {"sent", "locked", "create"}, item : Items]
Last(i) == views[i][Len(views[i])]

\* Each item has been watched before, or not yet.
ViewInit ==
    /\ views \in [Items -> {<< >>, <<0>>}]
    /\ post = [s \in Senders |-> NoPost]
    /\ now = 0 /\ posts = 0

Post(s, i) ==
    /\ post[s].pc = "idle"
    /\ posts < MaxPosts /\ posts' = posts + 1
    /\ post' = [post EXCEPT ![s] = [pc |-> "sent", item |-> i]]
    /\ UNCHANGED <<views, now>>

Holds(s, i) == post[s].item = i /\ post[s].pc \in {"locked", "create"}

\* Mutant: requests for one item are not served one after another.
Lock_Shared(s) ==
    /\ post[s].pc = "sent"
    /\ post' = [post EXCEPT ![s].pc = "locked"]
    /\ UNCHANGED <<views, now, posts>>

\* select_for_update on the item's row.
Lock(s) ==
    /\ post[s].pc = "sent"
    /\ \A o \in Senders : ~Holds(o, post[s].item)
    /\ post' = [post EXCEPT ![s].pc = "locked"]
    /\ UNCHANGED <<views, now, posts>>

Counts(i) == views[i] = << >> \/ now - Last(i) >= Debounce

\* The decision, and the answer when the watch is one that was counted already.
Look(s) ==
    /\ post[s].pc = "locked"
    /\ post' = [post EXCEPT ![s] = IF Counts(post[s].item) THEN [post[s] EXCEPT !.pc = "create"] ELSE NoPost]
    /\ UNCHANGED <<views, now, posts>>

Create(s) ==
    /\ post[s].pc = "create"
    /\ views' = [views EXCEPT ![post[s].item] = Append(@, now)]
    /\ post' = [post EXCEPT ![s] = NoPost]
    /\ UNCHANGED <<now, posts>>

\* Lost on the way, or its worker is killed.
Drop(s) ==
    /\ post[s].pc # "idle"
    /\ post' = [post EXCEPT ![s] = NoPost]
    /\ UNCHANGED <<views, now, posts>>

Tick == now < MaxTime /\ now' = now + 1 /\ UNCHANGED <<views, post, posts>>

Count(s) == Lock(s) \/ Look(s) \/ Create(s) \/ Drop(s)

ViewNext == Tick \/ \E s \in Senders : Count(s) \/ \E i \in Items : Post(s, i)

ViewSpec == ViewInit /\ [][ViewNext]_viewVars

-----------------------------------------------------------------------------
(* Properties.                                                                *)

ViewTypeOK ==
    /\ views \in [Items -> Seq(0..MaxTime)]
    /\ post \in [Senders -> Posts]
    /\ now \in 0..MaxTime
    /\ posts \in 0..MaxPosts

\* However requests are repeated, delayed and interleaved, one watch is counted
\* once: two counted watches of an item are at least Debounce apart.
WatchesApart ==
    \A i \in Items : \A j, k \in DOMAIN views[i] : j < k => views[i][k] - views[i][j] >= Debounce
=============================================================================
