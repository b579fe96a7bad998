------------------------------ MODULE Listings ------------------------------
(***************************************************************************)
(* The products of the shop as pages: the slug each is reached at, the     *)
(* slugs of its sizes (ProductVariant), the slugs it was reached at before *)
(* (ProductSlugAlias), the Recycle Bin and the job that empties it         *)
(* (products/models.py, products/views.py,                                 *)
(* admin_panel/management/commands/purge_recycle_bin.py).                  *)
(*                                                                         *)
(* A form is opened on a copy of the row and saves the whole of it later.  *)
(* The panel's form cannot change the slug, the form of the Django admin   *)
(* can.  Who last saved wins: `overwritten` remembers the products where   *)
(* that undid something.                                                   *)
(***************************************************************************)
EXTENDS Integers, FiniteSets

CONSTANTS
  Products,   (* Products that may exist.                                  *)
  Slugs,      (* Slugs in use by anybody at any time.                      *)
  Editors,    (* Staff with a form open.                                   *)
  Nobody      (* No product.                                               *)

ASSUME NobodyAssumption == Nobody \notin Products \cup Slugs

VARIABLES
  product,      (* The rows of Product.                                    *)
  alias,        (* The rows of ProductSlugAlias: the product of a slug.    *)
  sizeAt,       (* The rows of ProductVariant: the product of a slug.      *)
  retired,      (* Slugs of sizes that are switched off.                   *)
  form,         (* What each editor has read and means to save.            *)
  purging,      (* Products the nightly job has read and not yet deleted.  *)
  holder,       (* History: which product last had the slug as its own,    *)
                (* or Nobody: none, or a stale form took the link from it. *)
  away,         (* History: how long the product has been off the shop.    *)
  overwritten   (* History: products where a form undid a change.          *)

listings == <<product, alias, sizeAt, retired, form, purging, holder, away, overwritten>>

(* How long ago something was: a stamp is "due" after the retention days.  *)
Ages == {"none", "fresh", "due"}

Gone   == [active |-> FALSE, stamp |-> "none", slug |-> Nobody]
Row    == [active : BOOLEAN, stamp : Ages, slug : Slugs]
Closed == [product |-> Nobody, read |-> Gone, row |-> Gone]

There(p) == product[p] # Gone
Taken(s) == \E p \in Products : product[p].slug = s

(***************************************************************************)
(* Saving a product                                                        *)
(***************************************************************************)
(* An active row carries no stamp.                                         *)
Cleared(row) == IF row.active THEN [row EXCEPT !.stamp = "none"] ELSE row

(* The save of p, whose slug was old and is new.  As a bug would have it:  *)
(* an alias that exists is left as it is.                                  *)
AliasedOnce(p, old, new) ==
  [s \in Slugs |-> IF s = old /\ old # new /\ alias[s] = Nobody THEN p
                  ELSE IF s = new /\ old # new THEN Nobody ELSE alias[s]]

Aliased(p, old, new) ==
  [s \in Slugs |-> CASE old # new /\ s = old -> p
                     [] old # new /\ s = new -> Nobody
                     [] OTHER                -> alias[s]]

Kept(p, row) ==
  /\ product' = [product EXCEPT ![p] = Cleared(row)]
  /\ away' = [away EXCEPT ![p] = IF row.active THEN "none"
                                 ELSE IF product[p].active THEN "fresh" ELSE @]

(* A product that is saved without a size is given one, at the slug made   *)
(* of its name and weight: no other size has it, a product may.            *)
Sized(p, t) ==
  /\ sizeAt' = IF \E s \in Slugs : sizeAt[s] = p THEN sizeAt ELSE [sizeAt EXCEPT ![t] = p]
  /\ sizeAt[t] = Nobody \/ sizeAt' = sizeAt
  /\ UNCHANGED retired

CreateProduct(p, s) ==
  /\ ~There(p) /\ ~Taken(s)
  /\ \A e \in Editors : form[e].product # p
  /\ Kept(p, [active |-> TRUE, stamp |-> "none", slug |-> s])
  /\ \E t \in Slugs : Sized(p, t)
  /\ holder' = [holder EXCEPT ![s] = p]
  /\ UNCHANGED <<alias, form, purging, overwritten>>

(* Another size is put on sale; a size is switched off, or on again.  It   *)
(* is never deleted for itself, and its slug never changes.                *)
AddSize(p, t) ==
  /\ There(p) /\ sizeAt[t] = Nobody
  /\ sizeAt' = [sizeAt EXCEPT ![t] = p]
  /\ UNCHANGED <<product, alias, retired, form, purging, holder, away, overwritten>>

SwitchSize(t) ==
  /\ sizeAt[t] # Nobody
  /\ retired' = IF t \in retired THEN retired \ {t} ELSE retired \cup {t}
  /\ UNCHANGED <<product, alias, sizeAt, form, purging, holder, away, overwritten>>

(* DELETE in the panel: into the bin, stamped; only these two are written. *)
BinProduct(p) ==
  /\ There(p)
  /\ Kept(p, [product[p] EXCEPT !.active = FALSE, !.stamp = "fresh"])
  /\ UNCHANGED <<alias, sizeAt, retired, form, purging, holder, overwritten>>

OpenForm(e) ==
  /\ form[e] = Closed
  /\ \E p \in Products, active \in BOOLEAN, slug \in Slugs :
       /\ There(p)
       /\ form' = [form EXCEPT ![e] =
            [product |-> p, read |-> product[p],
             row |-> [product[p] EXCEPT !.active = active, !.slug = slug]]]
  /\ UNCHANGED <<product, alias, sizeAt, retired, purging, holder, away, overwritten>>

(* Refused when another product has the slug.  A row deleted meanwhile is  *)
(* inserted again.  The alias is written for the slug the form has read,   *)
(* which may have gone to another product, and from that one, since.       *)
SaveForm(e) ==
  LET f     == form[e]
      stale == product[f.product] # f.read
  IN /\ f # Closed
     /\ \A q \in Products \ {f.product} : product[q].slug # f.row.slug
     /\ Kept(f.product, f.row)
     /\ \E t \in Slugs : Sized(f.product, t)
     /\ alias' = Aliased(f.product, f.read.slug, f.row.slug)
     /\ holder' = [s \in Slugs |->
          IF s = f.row.slug THEN f.product
          ELSE IF stale /\ s = f.read.slug /\ ~Taken(s) THEN Nobody
          ELSE holder[s]]
     /\ overwritten' = IF stale THEN overwritten \cup {f.product} ELSE overwritten
     /\ form' = [form EXCEPT ![e] = Closed]
     /\ UNCHANGED purging

AbandonForm(e) ==
  /\ form[e] # Closed
  /\ form' = [form EXCEPT ![e] = Closed]
  /\ UNCHANGED <<product, alias, sizeAt, retired, purging, holder, away, overwritten>>

(***************************************************************************)
(* The Recycle Bin                                                         *)
(***************************************************************************)
(* The retention days go by for a product that is off the shop.            *)
Aged(row) == [row EXCEPT !.stamp = IF @ = "fresh" THEN "due" ELSE @]

Matures(p) ==
  /\ away[p] = "fresh"
  /\ away' = [away EXCEPT ![p] = "due"]
  /\ product' = [product EXCEPT ![p] = Aged(@)]
  /\ form' = [e \in Editors |->
       IF form[e].product # p THEN form[e]
       ELSE [form[e] EXCEPT !.read = Aged(@), !.row = Aged(@)]]
  /\ UNCHANGED <<alias, sizeAt, retired, purging, holder, overwritten>>

(* What the job's query selects.                                           *)
Purgeable ==
  {p \in Products : ~product[p].active /\ product[p].stamp = "due"}

PurgeStarts ==
  /\ purging = {} /\ Purgeable # {}
  /\ purging' = Purgeable
  /\ UNCHANGED <<product, alias, sizeAt, retired, form, holder, away, overwritten>>

(* What the job read it deletes, unless an order still refers to it, and   *)
(* whether it was restored meanwhile or not.  The aliases and the sizes go *)
(* with the product.                                                       *)
Without(rows, p) == [s \in Slugs |-> IF rows[s] = p THEN Nobody ELSE rows[s]]

PurgeProduct(p, ordered) ==
  /\ p \in purging
  /\ purging' = purging \ {p}
  /\ IF ordered THEN UNCHANGED <<product, alias, sizeAt, retired, holder, away, overwritten>>
     ELSE /\ product' = [product EXCEPT ![p] = Gone]
          /\ alias' = Without(alias, p)
          /\ sizeAt' = Without(sizeAt, p)
          /\ retired' = {s \in retired : sizeAt[s] # p}
          /\ holder' = Without(holder, p)
          /\ away' = [away EXCEPT ![p] = "none"]
          /\ overwritten' = overwritten \ {p}
  /\ UNCHANGED form

PurgeDies ==
  /\ purging # {}
  /\ purging' = {}
  /\ UNCHANGED <<product, alias, sizeAt, retired, form, holder, away, overwritten>>

(***************************************************************************)
(* A page is asked for by slug.                                            *)
(***************************************************************************)
(* The product at a slug, and the product of a size on sale there.         *)
OwnerOf(s) == IF Taken(s) THEN CHOOSE p \in Products : product[p].slug = s ELSE Nobody
SizeOf(s)  == IF s \in retired THEN Nobody ELSE sizeAt[s]

(* Staff are shown every row, shoppers what is on the shop.                *)
Shown(p, staff) ==
  IF p # Nobody /\ There(p) /\ (staff \/ product[p].active) THEN p ELSE Nobody

(* The product at the slug, or else of a size, or else the one that left   *)
(* its alias there: the first that who asks is shown.                      *)
Resolve(s, staff) ==
  LET own   == Shown(OwnerOf(s), staff)
      sized == Shown(SizeOf(s), staff)
  IN IF own # Nobody THEN own
     ELSE IF sized # Nobody THEN sized
     ELSE Shown(alias[s], staff)

ListingInit ==
  /\ product = [p \in Products |-> Gone]
  /\ alias = [s \in Slugs |-> Nobody]
  /\ sizeAt = [s \in Slugs |-> Nobody]
  /\ retired = {}
  /\ form = [e \in Editors |-> Closed]
  /\ purging = {}
  /\ holder = [s \in Slugs |-> Nobody]
  /\ away = [p \in Products |-> "none"]
  /\ overwritten = {}

(***************************************************************************)
(* Properties                                                              *)
(***************************************************************************)
(* Types; a slug is the own slug of one product; and an active row carries *)
(* no stamp (products/models.py:24).                                       *)
ListingTypeOK ==
  /\ product \in [Products -> Row \cup {Gone}]
  /\ {alias, sizeAt} \subseteq [Slugs -> Products \cup {Nobody}]
  /\ retired \subseteq Slugs
  /\ \A e \in Editors : form[e] = Closed \/ form[e].product \in Products
  /\ purging \subseteq Products
  /\ \A p, q \in Products : There(p) /\ product[p].slug = product[q].slug => p = q
  /\ \A p \in Products : product[p].active => product[p].stamp = "none"

(* products/models.py:463 "old links keep resolving to the right product   *)
(* instead of dying": whatever was renamed to what, and back, and whoever  *)
(* took over a slug, a link leads to the product that had it last, and to  *)
(* none while that one is kept from who asks.  Two things come between: a  *)
(* size on sale at a slug that product has left, or is not shown at; and   *)
(* the alias that stays beside a product made under a retired slug, which  *)
(* shows the earlier product once the later one is in the bin.             *)
LinksLead ==
  \A s \in Slugs, staff \in BOOLEAN :
    LET last == holder[s]
        got  == Resolve(s, staff)
    IN last \notin overwritten \cup {Nobody} =>
         \/ got = Shown(last, staff)
         \/ got = SizeOf(s) /\ got # Nobody
            /\ (product[last].slug = s => Shown(last, staff) = Nobody)
         \/ got = alias[s] /\ Taken(s) /\ Shown(last, staff) = Nobody

(* purge_recycle_bin.py:9 "Each item is purged permanently once it has sat *)
(* in the bin longer": what the job's query selects has been off the shop  *)
(* for the retention days, however often it was binned and restored.  It   *)
(* says nothing of what is restored after the job has read it.             *)
BinClock == \A p \in Purgeable : away[p] = "due" \/ p \in overwritten

(* A product keeps its links and its days in the bin, whatever it is       *)
(* renamed to and however often it is binned.                              *)
ListingsHold == ListingTypeOK /\ LinksLead /\ BinClock

=============================================================================
