----------------------------- MODULE Following -----------------------------
(* The Following feed: the accounts the learner follows (backend/social), and *)
(* the sweep that finds what they put out (pipeline/kl/social).               *)
(*                                                                            *)
(* A sweep lists the active accounts once, then scrapes and reports them one  *)
(* by one, while the learner follows, pauses and removes accounts.  launchd   *)
(* starts one every few hours; another may be started by hand meanwhile.      *)
EXTENDS Integers, Sequences, FiniteSets

CONSTANTS
    Accounts,   \* handles, in the order they are listed
    Videos,     \* bound: what they put out; a collaboration is on two profiles
    Limit,      \* --limit: the most recent posts that are looked at
    Broken,     \* accounts whose profile can never be scraped
    Sweepers,   \* bound: sweeps at once
    MaxEdits,   \* bound: changes to the accounts
    MaxPosts,   \* bound: posts
    MaxMishaps  \* bound: scrapes that fail, sweeps that are killed

ASSUME FollowingAssumption ==
    /\ Accounts \subseteq Nat /\ IsFiniteSet(Accounts) /\ Broken \subseteq Accounts
    /\ Limit \in Nat \ {0} /\ MaxEdits \in Nat /\ MaxPosts \in Nat /\ MaxMishaps \in Nat

VARIABLES
    accounts,   \* followed_accounts: the row of each account (0: none), and whether it is active
    posted,     \* what each account has put out, newest first
    owner,      \* social_videos: the account each known video is from
    sweep,      \* how far each sweep has got
    edits, posts, mishaps   \* how much of the bounds is used

vars == <<accounts, posted, owner, sweep, edits, posts, mishaps>>

Unknown  == [row |-> 0, active |-> FALSE]
NoSweep  == [pc |-> "idle", todo |-> {}, rows |-> << >>, refs |-> {}]

Init ==
    /\ accounts = [a \in Accounts |-> [row |-> 1, active |-> TRUE]]
    /\ posted = [a \in Accounts |-> << >>]
    /\ owner = << >>
    /\ sweep = [s \in Sweepers |-> NoSweep]
    /\ edits = 0 /\ posts = 0 /\ mishaps = 0

Followed == {a \in Accounts : accounts[a].row # 0}
Active   == {a \in Followed : accounts[a].active}

\* The feed: videos from active accounts.
Feed == {v \in DOMAIN owner : owner[v] \in Active}

-----------------------------------------------------------------------------
(* The learner, in Settings, and the accounts.                                *)

Edit == edits < MaxEdits /\ edits' = edits + 1 /\ UNCHANGED <<posted, sweep, posts, mishaps>>

\* Following an account again makes a new row; one that is followed stays as it is.
Follow(a) ==
    /\ a \notin Followed
    /\ accounts' = [accounts EXCEPT ![a] = [row |-> edits + 2, active |-> TRUE]]
    /\ Edit /\ UNCHANGED owner

SetActive(a) ==
    /\ a \in Followed
    /\ accounts' = [accounts EXCEPT ![a].active = ~@]
    /\ Edit /\ UNCHANGED owner

Remove(a) ==
    /\ a \in Followed
    /\ accounts' = [accounts EXCEPT ![a] = Unknown]
    /\ owner' = [v \in {x \in DOMAIN owner : owner[x] # a} |-> owner[v]]
    /\ Edit

Publish(a, v) ==
    /\ posts < MaxPosts /\ posts' = posts + 1
    /\ \A k \in DOMAIN posted[a] : posted[a][k] # v
    /\ posted' = [posted EXCEPT ![a] = <<v>> \o @]
    /\ UNCHANGED <<accounts, owner, sweep, edits, mishaps>>

-----------------------------------------------------------------------------
(* kl social discover.                                                        *)

Set(s, r) == sweep' = [sweep EXCEPT ![s] = r] /\ UNCHANGED <<accounts, posted, edits, posts>>

\* The accounts that are active now, with their rows.
ListAccounts(s) ==
    /\ sweep[s].pc = "idle" /\ Active # {}
    /\ Set(s, [NoSweep EXCEPT !.pc = "scrape", !.todo = Active, !.rows = [a \in Active |-> accounts[a].row]])
    /\ UNCHANGED <<owner, mishaps>>

Current(s) == CHOOSE a \in sweep[s].todo : \A b \in sweep[s].todo : a <= b

Latest(a) == {posted[a][k] : k \in {n \in DOMAIN posted[a] : n <= Limit}}

\* Mutant: the sweep does not see that it has come to its end.
Onward_Endless(s) == [sweep[s] EXCEPT !.pc = "scrape", !.todo = sweep[s].todo \ {Current(s)}, !.refs = {}]

\* On with the next account, or done.
Onward(s) ==
    LET left == sweep[s].todo \ {Current(s)}
    IN  IF left = {} THEN NoSweep ELSE [sweep[s] EXCEPT !.pc = "scrape", !.todo = left, !.refs = {}]

Scrape(s) ==
    /\ sweep[s].pc = "scrape" /\ Current(s) \notin Broken
    /\ Set(s, [sweep[s] EXCEPT !.pc = "report", !.refs = Latest(Current(s))])
    /\ UNCHANGED <<owner, mishaps>>

\* Mutant: a profile that can't be scraped ends the sweep.
ScrapeFails_Stops(s) ==
    /\ sweep[s].pc = "scrape"
    /\ \/ Current(s) \in Broken /\ UNCHANGED mishaps
       \/ mishaps < MaxMishaps /\ mishaps' = mishaps + 1
    /\ Set(s, NoSweep)
    /\ UNCHANGED owner

\* A failure on one account doesn't stop the sweep.
ScrapeFails(s) ==
    /\ sweep[s].pc = "scrape"
    /\ \/ Current(s) \in Broken /\ UNCHANGED mishaps
       \/ mishaps < MaxMishaps /\ mishaps' = mishaps + 1
    /\ Set(s, Onward(s))
    /\ UNCHANGED owner

\* Mutant: the account is looked up by its handle, and need not be there.
Found_Always(s) == TRUE

\* The account of the report, by its row.
Found(s) == accounts[Current(s)].row = sweep[s].rows[Current(s)]

\* report_videos: each video is added, or taken over from the account it was from.
\* An account that is gone refuses the report, and that does stop the sweep.
Report(s) ==
    /\ sweep[s].pc = "report"
    /\ IF Found(s)
       THEN /\ owner' = [v \in DOMAIN owner \union sweep[s].refs |->
                            IF v \in sweep[s].refs THEN Current(s) ELSE owner[v]]
            /\ Set(s, Onward(s))
       ELSE Set(s, NoSweep) /\ UNCHANGED owner
    /\ UNCHANGED mishaps

Killed(s) ==
    /\ sweep[s].pc # "idle" /\ mishaps < MaxMishaps /\ mishaps' = mishaps + 1
    /\ Set(s, NoSweep) /\ UNCHANGED owner

Sweep(s) == ListAccounts(s) \/ Scrape(s) \/ ScrapeFails(s) \/ Report(s)

Next ==
    \/ \E a \in Accounts : Follow(a) \/ SetActive(a) \/ Remove(a) \/ \E v \in Videos : Publish(a, v)
    \/ \E s \in Sweepers : Sweep(s) \/ Killed(s)

Spec == Init /\ [][Next]_vars

\* One of the sweeps is launchd's: it starts again and again, and goes on when it is
\* not killed.  The other one may stop anywhere.
FairSpec == Spec /\ \E s \in Sweepers : WF_vars(Sweep(s))

-----------------------------------------------------------------------------
(* Properties.                                                                *)

Maps(some, values) == UNION {[part -> values] : part \in SUBSET some}

Rows == 1..(MaxEdits + 1)

Sweeps == [pc : {"idle", "scrape", "report"}, todo : SUBSET Accounts, rows : Maps(Accounts, Rows), refs : SUBSET Videos]

TypeOK ==
    /\ accounts \in [Accounts -> [row : Rows \union {0}, active : BOOLEAN]]
    /\ posted \in [Accounts -> Seq(Videos)]
    /\ owner \in Maps(Videos, Accounts)
    /\ sweep \in [Sweepers -> Sweeps]
    /\ \A s \in Sweepers : /\ sweep[s].todo \subseteq DOMAIN sweep[s].rows
                           /\ sweep[s].pc # "idle" => sweep[s].todo # {}
    /\ edits \in 0..MaxEdits /\ posts \in 0..MaxPosts /\ mishaps \in 0..MaxMishaps

\* A removed account leaves nothing behind, and no sweep that was under way brings
\* its videos back (report_videos, SocialVideo.account).
OnlyFollowedHaveVideos == \A v \in DOMAIN owner : owner[v] \in Followed

\* Once the learner leaves the accounts alone, the feed shows the latest posts of
\* every active account and keeps showing them, although another profile can never
\* be scraped (discover.py), sweeps were cut short, and two accounts share a video.
FeedCatchesUp == <>[](\A a \in Active \ Broken : Latest(a) \subseteq Feed)
=============================================================================
