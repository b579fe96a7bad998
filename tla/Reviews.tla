------------------------------ MODULE Reviews ------------------------------
(***************************************************************************)
(* The reviews of a product, their moderation, and the strip of chosen     *)
(* ones on the home page (reviews/views.py, reviews/models.py).            *)
(*                                                                         *)
(* Each handler reads the review, decides, and saves in a later statement: *)
(* the author's edit saves the whole row, the switches of staff save the   *)
(* columns they change.                                                    *)
(***************************************************************************)
EXTENDS Integers, FiniteSets, Sequences, SequencesExt

CONSTANTS
  Authors,        (* Customers, by the age of their reviews: 1 the newest. *)
  Buyers,         (* Those who have bought the product.                    *)
  Hands,          (* Requests in flight.                                   *)
  Ratings,        (* Stars.                                                *)
  MaxFeatured     (* MAX_FEATURED_REVIEWS.                                 *)

ASSUME ReviewsAssumption ==
  /\ Authors \subseteq Nat \ {0} /\ IsFiniteSet(Authors) /\ Buyers \subseteq Authors
  /\ 0 \notin Ratings /\ Ratings \subseteq Nat /\ MaxFeatured \in Nat

VARIABLES
  review,   (* The rows of Review: one per author, or NoReview.            *)
  hand,     (* What each request has read and is about to save.            *)
  banned    (* History: whose review staff took down last, and not shown.  *)

reviews == <<review, hand, banned>>

NoReview == [rating |-> 0, hidden |-> FALSE, featured |-> FALSE]
Review   == [rating : Ratings, hidden : BOOLEAN, featured : BOOLEAN]
Empty    == [does |-> "nothing", author |-> 0, row |-> NoReview, to |-> FALSE]

Posted  == {u \in Authors : review[u] # NoReview}
Visible == {u \in Posted : ~review[u].hidden}
Picked  == {u \in Posted : review[u].featured}

Saves(h, u, row) ==
  /\ review' = [review EXCEPT ![u] = row]
  /\ hand' = [hand EXCEPT ![h] = Empty]

Read(h, does, u, row, to) ==
  /\ hand[h] = Empty
  /\ u \in Posted
  /\ hand' = [hand EXCEPT ![h] = [does |-> does, author |-> u, row |-> row, to |-> to]]
  /\ UNCHANGED <<review, banned>>

(* One review each, of something bought.  Requests that hold a deleted one *)
(* fail, at the latest when there is another.                              *)
PostReview(u, stars) ==
  /\ u \in Buyers \ Posted
  /\ \A h \in Hands : hand[h].author # u
  /\ review' = [review EXCEPT ![u] =
       [rating |-> stars, hidden |-> FALSE, featured |-> FALSE]]
  /\ UNCHANGED <<hand, banned>>

OpenEdit(h, u, stars) == Read(h, "edit", u, [review[u] EXCEPT !.rating = stars], FALSE)

(* The whole row is written back: what staff did meanwhile is undone.      *)
SaveEdit(h) ==
  /\ hand[h].does = "edit"
  /\ LET u == hand[h].author
     IN /\ Saves(h, u, hand[h].row)
        /\ banned' = IF hand[h].row.hidden THEN banned ELSE banned \ {u}

OpenHide(h, u, to) == Read(h, "hide", u, review[u], to)

(* Hiding gives up the place on the home page, if it was seen to have one. *)
SetHidden(h) ==
  /\ hand[h].does = "hide"
  /\ LET u == hand[h].author
         retire == hand[h].to /\ hand[h].row.featured
     IN /\ u \in Posted
        /\ Saves(h, u, [review[u] EXCEPT !.hidden = hand[h].to,
                                         !.featured = @ /\ ~retire])
        /\ banned' = IF hand[h].to THEN banned \cup {u} ELSE banned \ {u}

OpenPick(h, u, to) ==
  /\ to => ~review[u].hidden
  /\ Read(h, "pick", u, review[u], to)

(* Whether another place is asked for, and all are taken.                  *)
OverCap(h) ==
  hand[h].to /\ ~hand[h].row.featured /\ Cardinality(Picked) >= MaxFeatured

(* Counted first, and saved in the next statement: select_for_update locks *)
(* no row in a query that only counts.                                     *)
CountPlaces(h) ==
  /\ hand[h].does = "pick"
  /\ ~OverCap(h)
  /\ hand' = [hand EXCEPT ![h].does = "place"]
  /\ UNCHANGED <<review, banned>>

SetFeatured(h) ==
  /\ hand[h].does = "place"
  /\ hand[h].author \in Posted
  /\ Saves(h, hand[h].author, [review[hand[h].author] EXCEPT !.featured = hand[h].to])
  /\ UNCHANGED banned

GiveUp(h) ==
  /\ hand[h] # Empty
  /\ hand' = [hand EXCEPT ![h] = Empty]
  /\ UNCHANGED <<review, banned>>

DeleteReview(u) ==
  /\ u \in Posted
  /\ review' = [review EXCEPT ![u] = NoReview]
  /\ banned' = banned \ {u}
  /\ UNCHANGED hand

(***************************************************************************)
(* The strip on the home page                                              *)
(***************************************************************************)
(* The sequence of a set's members by an order given as a set of pairs.    *)
InOrder(S, before) ==
  CHOOSE s \in [1 .. Cardinality(S) -> S] :
    \A i, j \in DOMAIN s : i < j => <<s[i], s[j]>> \in before

Newest(S) == InOrder(S, {p \in S \X S : p[1] < p[2]})
Best(S)   == InOrder(S, {p \in S \X S :
               \/ review[p[1]].rating > review[p[2]].rating
               \/ review[p[1]].rating = review[p[2]].rating /\ p[1] < p[2]})

First(s, n) == SubSeq(s, 1, IF n < Len(s) THEN n ELSE Len(s))

(* As a bug would have it: hidden ones are shown.                          *)
StripAll ==
  LET chosen == First(Newest(Picked), MaxFeatured)
  IN chosen \o First(Best(Visible \ ToSet(chosen)), MaxFeatured - Len(chosen))

Strip ==
  LET chosen  == First(Newest(Visible \cap Picked), MaxFeatured)
      fillers == First(Best(Visible \ ToSet(chosen)), MaxFeatured)
  IN chosen \o First(fillers, MaxFeatured - Len(chosen))

ReviewInit ==
  /\ review = [u \in Authors |-> NoReview]
  /\ hand = [h \in Hands |-> Empty]
  /\ banned = {}

(***************************************************************************)
(* Properties                                                              *)
(***************************************************************************)
ReviewTypeOK ==
  /\ review \in [Authors -> Review \cup {NoReview}]
  /\ \A h \in Hands : hand[h].does \in {"nothing", "edit", "hide", "pick", "place"}
  /\ banned \subseteq Posted

(* reviews/views.py:143 "the strip is never sparse or empty": it has as    *)
(* many reviews as there are visible ones, up to its length, no review     *)
(* twice, and the picked ones first.                                       *)
StripFull ==
  LET n == Cardinality(Visible)
      k == Cardinality(Visible \cap Picked)
  IN /\ Len(Strip) = (IF n < MaxFeatured THEN n ELSE MaxFeatured)
     /\ IsInjective(Strip)
     /\ \A i \in 1 .. Len(Strip) : Strip[i] \in Picked <=> i <= k

(* reviews/models.py:37 "A hidden review is never rendered even if         *)
(* flagged, so moderation always wins over placement": what staff took     *)
(* down is not on the strip until they show it again, or its author saves  *)
(* an edit opened before.                                                  *)
BannedStaysOff == ToSet(Strip) \cap banned = {}

(* The home page shows as many reviews as it has room for, and none that   *)
(* was taken down.                                                         *)
StripSound == ReviewTypeOK /\ StripFull /\ BannedStaysOff

=============================================================================
