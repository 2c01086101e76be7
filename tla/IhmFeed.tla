------------------------------- MODULE IhmFeed -------------------------------
(***************************************************************************)
(* What the IHM side of the master promises, without its thread, its list  *)
(* or its locks: the values of the frames it is handed are posted to the   *)
(* IHM one by one, in the order the frames arrived and, inside a frame, in *)
(* the order of its data; nothing is posted twice and nothing that is due  *)
(* is passed over.  A frame no plugin can decode to its end stops the feed.*)
(***************************************************************************)
EXTENDS Naturals, Sequences, Functions

CONSTANTS
    MaxValues,   \* the largest number of values one frame carries
    Blocks       \* the outcome of a frame whose decoding never returns

Outcome == (0..MaxValues) \cup {Blocks}

VARIABLES
    arrivals,    \* what each frame handed over is worth: its number of posts
    posted       \* the posts made, oldest first: <<frame, value>>

feedVars == <<arrivals, posted>>

\* Post x is due earlier than post y.
Before(x, y) == x[1] < y[1] \/ (x[1] = y[1] /\ x[2] < y[2])

\* Frame a can be reached: no frame up to and including it stops the feed.
Reachable(a) == \A b \in 1..a : arrivals[b] # Blocks

Posted == Range(posted)

\* The posts that are still owed.
Pending ==
    {x \in (DOMAIN arrivals) \X (1..MaxValues) :
        Reachable(x[1]) /\ x[2] <= arrivals[x[1]]} \ Posted

FeedInit == arrivals = <<>> /\ posted = <<>>

Arrive == \E o \in Outcome :
            arrivals' = Append(arrivals, o) /\ UNCHANGED posted

Post == \E x \in Pending :
            /\ \A y \in Pending : y = x \/ Before(x, y)
            /\ posted' = Append(posted, x)
            /\ UNCHANGED arrivals

FeedNext == Arrive \/ Post

FeedSafety == FeedInit /\ [][FeedNext]_feedVars

FeedSpec == FeedSafety /\ WF_feedVars(Post)
=============================================================================
