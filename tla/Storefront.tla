----------------------------- MODULE Storefront -----------------------------
(***************************************************************************)
(* What shoppers see: the list of products, cached with its stars, over    *)
(* Listings and Reviews (products/views.py, products/cache.py, the signals *)
(* of products and reviews).                                               *)
(*                                                                         *)
(* A shopper's request that misses the cache computes the page and stores  *)
(* it in a later step.  A change made in autocommit is seen at once and    *)
(* the signal drops the page afterwards; one made in a transaction has the *)
(* page dropped first and is seen when it commits, so that a page computed *)
(* in between shows what was.                                              *)
(***************************************************************************)
EXTENDS Listings, Reviews

CONSTANT MaxServed   (* BOUND: how many requests of staff, authors, jobs.  *)

VARIABLES
  page,       (* The cached page, or NoPage.                               *)
  shopper,    (* The page a shopper's request has computed, or NoPage.     *)
  dropping,   (* Signals that have yet to drop the page.                   *)
  excused,    (* History: the cached page met a change on its way.         *)
  served      (* How many requests began.                                  *)

cache == <<page, shopper, dropping, excused>>
vars  == <<listings, reviews, cache, served>>

(* What a page shows: the products on the shop, and the visible stars.     *)
Listed == {p \in Products : product[p].active}
Stars  == {<<u, review[u].rating>> : u \in Visible}
Truth  == [listed |-> {<<p, product[p].slug>> : p \in Listed}, stars |-> Stars]
NoPage == [listed |-> {}, stars |-> {<<0, 0>>}]

(***************************************************************************)
(* The cache                                                               *)
(***************************************************************************)
Compute ==
  /\ page = NoPage /\ shopper = NoPage
  /\ shopper' = Truth
  /\ UNCHANGED <<listings, reviews, page, dropping, excused, served>>

Store ==
  /\ shopper # NoPage
  /\ page' = shopper
  /\ shopper' = NoPage
  /\ excused' = (shopper # Truth)
  /\ UNCHANGED <<listings, reviews, dropping, served>>

Expire ==
  /\ page # NoPage
  /\ page' = NoPage /\ excused' = FALSE
  /\ UNCHANGED <<listings, reviews, shopper, dropping, served>>

Drop ==
  /\ dropping > 0
  /\ dropping' = dropping - 1
  /\ page' = NoPage /\ excused' = FALSE
  /\ UNCHANGED <<listings, reviews, shopper, served>>

(* The worker dies, or the cache is away, between the change and the drop. *)
DropFails ==
  /\ dropping > 0
  /\ dropping' = dropping - 1
  /\ excused' = (page # NoPage)
  /\ UNCHANGED <<listings, reviews, page, shopper, served>>

(* As a bug would have it: no signal.                                      *)
Silently == UNCHANGED <<page, shopper, dropping, excused>>

(* A change in autocommit, and one in a transaction.                       *)
Autocommit ==
  /\ dropping' = dropping + 1
  /\ UNCHANGED <<page, shopper, excused>>

Transaction ==
  /\ \/ page' = NoPage /\ excused' = FALSE
     \/ page' = Truth /\ excused' = TRUE
  /\ UNCHANGED <<shopper, dropping>>

(***************************************************************************)
(* The system                                                              *)
(***************************************************************************)
Serves == served < MaxServed /\ served' = served + 1

EditListings ==
  \/ /\ Serves
     /\ \/ \E p \in Products : BinProduct(p) \/ \E s \in Slugs : CreateProduct(p, s)
        \/ \E t \in Slugs : SwitchSize(t) \/ \E p \in Products : AddSize(p, t)
     /\ Autocommit
  \/ /\ Serves
     /\ PurgeStarts \/ \E e \in Editors : OpenForm(e)
     /\ UNCHANGED cache
  \/ /\ \E e \in Editors : SaveForm(e) /\ form[e].read.slug = form[e].row.slug
     /\ Autocommit
     /\ UNCHANGED served
  \/ /\ \/ \E e \in Editors : SaveForm(e)
        \/ \E p \in Products, ordered \in BOOLEAN : PurgeProduct(p, ordered)
     /\ Transaction
     /\ UNCHANGED served
  \/ /\ \/ PurgeDies
        \/ \E p \in Products : Matures(p)
        \/ \E e \in Editors : AbandonForm(e)
     /\ UNCHANGED <<cache, served>>

EditReviews ==
  \/ /\ Serves
     /\ \E u \in Authors, stars \in Ratings : PostReview(u, stars)
     /\ Autocommit
  \/ /\ Serves
     /\ \E u \in Authors : DeleteReview(u)
     /\ Transaction
  \/ /\ Serves
     /\ \E h \in Hands, u \in Authors :
          \/ \E stars \in Ratings : OpenEdit(h, u, stars)
          \/ \E to \in BOOLEAN : OpenHide(h, u, to) \/ OpenPick(h, u, to)
     /\ UNCHANGED cache
  \/ /\ \E h \in Hands : SaveEdit(h) \/ SetHidden(h)
     /\ Autocommit
     /\ UNCHANGED served
  \/ /\ \E h \in Hands : SetFeatured(h)
     /\ Transaction
     /\ UNCHANGED served
  \/ /\ \E h \in Hands : CountPlaces(h) \/ GiveUp(h)
     /\ UNCHANGED <<cache, served>>

Init ==
  /\ ListingInit /\ ReviewInit
  /\ page = NoPage /\ shopper = NoPage
  /\ dropping = 0 /\ excused = FALSE /\ served = 0

Next ==
  \/ Compute \/ Store \/ Expire \/ Drop \/ DropFails
  \/ EditListings /\ UNCHANGED reviews
  \/ EditReviews /\ UNCHANGED listings

Spec == Init /\ [][Next]_vars

(***************************************************************************)
(* Properties                                                              *)
(***************************************************************************)
(* reviews/signals.py:3 tells of stars left "stale for up to five minutes" *)
(* until a signal dropped the page.  None of the handlers here leaves such *)
(* a page behind: one that is no longer true is about to be dropped, or it *)
(* was computed before, or read inside, what changed it, or its drop       *)
(* failed.                                                                 *)
PageTrue == page \notin {NoPage, Truth} => dropping > 0 \/ excused

=============================================================================
