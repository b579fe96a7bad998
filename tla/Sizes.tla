------------------------------- MODULE Sizes -------------------------------
(***************************************************************************)
(* The sizes of one product (ProductVariant) and what the product shows of *)
(* them: which size is the default one, and the legacy price columns of    *)
(* the Product row, which every save of a size copies from the default     *)
(* size (products/models.py, products/signals.py, the size endpoints of    *)
(* products/views.py, products/bulk_views.py).                             *)
(*                                                                         *)
(* A form is read in one statement and saved later: the whole row is       *)
(* written from the copy that was read.  ProductVariant.save is one        *)
(* transaction, and the signal runs inside it: it looks for the default,   *)
(* promotes the smallest active size when there is none, and copies its    *)
(* price to the product.  The transaction reads what others committed and  *)
(* what it wrote itself, and holds the rows it wrote until it commits.     *)
(*                                                                         *)
(* A size is the number of its place in the order of weights.  A row keeps *)
(* its price, which stands for all that an edit mirrors, and its two       *)
(* flags.  The draw of a checkout writes no size through save, and moves   *)
(* the mirrored stock itself: it is not modelled here.                     *)
(***************************************************************************)
EXTENDS Integers, FiniteSets

CONSTANTS
  Sizes,       (* The sizes that may come to exist, by weight.             *)
  Prices,      (* Prices a size may have.                                  *)
  Requests,    (* Staff requests that may be in flight.                    *)
  MaxBegun     (* BOUND: how many requests are begun.                      *)

NoSize  == 0   (* None: no size is found.                                  *)
NoPrice == 0

ASSUME SizesAssumption  == IsFiniteSet(Sizes) /\ Sizes \subseteq Nat \ {NoSize}
ASSUME PricesAssumption == NoPrice \notin Prices
ASSUME BoundAssumption  == MaxBegun \in Nat

VARIABLES
  size,      (* The committed rows of ProductVariant.                      *)
  card,      (* The legacy price on the Product row.                       *)
  req,       (* What each request has read, and written but not committed. *)
  begun,     (* How many requests were begun.                              *)
  alone,     (* History: whether nothing else ran since a request began.   *)
  settled    (* History: the last thing done was a save of a size, alone.  *)

sizeVars == <<size, card, req, begun, alone, settled>>

SizeRow == [price : Prices, default : BOOLEAN, active : BOOLEAN]
NoRow   == [price |-> NoPrice, default |-> FALSE, active |-> FALSE]

Exists(rows, v) == rows[v] # NoRow
Actives(rows)   == {v \in Sizes : rows[v].active}
Flagged(rows)   == {v \in Sizes : rows[v].default}

Smallest(S) == IF S = {} THEN NoSize ELSE CHOOSE v \in S : \A w \in S : v <= w

(* default_variant_for: the size a product means when none is named.       *)
DefaultOf(rows) ==
  LET flagged == Actives(rows) \cap Flagged(rows)
  IN Smallest(IF flagged = {} THEN Actives(rows) ELSE flagged)

Idle == [at |-> "idle", kind |-> "none", size |-> NoSize, row |-> NoRow, wrote |-> {},
         rows |-> [v \in Sizes |-> NoRow], chosen |-> NoSize, price |-> NoPrice,
         default |-> NoSize]

Quiet == \A r \in Requests : req[r].at = "idle"

(***************************************************************************)
(* Requests and their transactions                                         *)
(***************************************************************************)
Begin(r, kind, v, row, at) ==
  /\ req[r].at = "idle"
  /\ begun < MaxBegun
  /\ begun' = begun + 1
  /\ req' = [req EXCEPT ![r] = [Idle EXCEPT
               !.at = at, !.kind = kind, !.size = v, !.row = row,
               !.default = Smallest(Actives(size) \cap Flagged(size))]]
  /\ alone' = [q \in Requests |-> q = r /\ Quiet]
  /\ settled' = FALSE
  /\ UNCHANGED <<size, card>>

Step(r, change) ==
  /\ req' = [req EXCEPT ![r] = change]
  /\ UNCHANGED <<begun, alone, settled>>

Ends(r) == Step(r, Idle)

(* What a transaction sees, and the rows the others keep it from writing.  *)
View(r) == [v \in Sizes |-> IF v \in req[r].wrote THEN req[r].rows[v] ELSE size[v]]

HeldByOthers(r) == UNION {req[q].wrote : q \in Requests \ {r}}

(* The partial unique index: a row that takes the flag waits for any other *)
(* transaction that has taken it for this product.                         *)
FlagFree(r) ==
  \A q \in Requests \ {r} : \A v \in req[q].wrote : ~req[q].rows[v].default

Writes(r, rows, touched, at) ==
  /\ touched \cap HeldByOthers(r) = {}
  /\ (\E v \in touched : rows[v].default) => FlagFree(r)
  /\ Step(r, [req[r] EXCEPT
       !.at = at, !.wrote = @ \cup touched,
       !.rows = [v \in Sizes |-> IF v \in touched THEN rows[v] ELSE @[v]]])
  /\ UNCHANGED <<size, card>>

Unflagged(rows, S) == [v \in Sizes |-> [rows[v] EXCEPT !.default = @ /\ v \notin S]]

(***************************************************************************)
(* The size endpoint: PATCH, POST, DELETE; and bulk edits                  *)
(***************************************************************************)
Edited(row) ==
  {[row EXCEPT !.price = p] : p \in Prices}
    \cup {[row EXCEPT !.default = d] : d \in BOOLEAN}
    \cup {[row EXCEPT !.active = a] : a \in BOOLEAN}

(* A form that names is_default has the others unset before it is saved.   *)
OpenSizeForm(r) ==
  \E v \in Sizes : \E row \in Edited(size[v]), claims \in BOOLEAN :
    /\ Exists(size, v)
    /\ claims => row.default /\ ~size[v].default
    /\ Begin(r, "form", v, row, IF claims THEN "unset" ELSE "save")

Unborn == {v \in Sizes : ~Exists(size, v) /\ \A q \in Requests : req[q].size # v}

NewSize(r) ==
  \E v \in Unborn, row \in SizeRow :
    /\ row.active
    /\ Begin(r, "form", v, row, IF row.default THEN "unset" ELSE "save")

UnsetOthers(r) ==
  /\ req[r].at = "unset"
  /\ LET others == Flagged(size) \ {req[r].size}
     IN /\ others \cap HeldByOthers(r) = {}
        /\ size' = Unflagged(size, others)
  /\ Step(r, [req[r] EXCEPT !.at = "save"])
  /\ UNCHANGED card

(* DELETE retires a size, but not the last active one.  It also refuses    *)
(* one that a combo on sale is built of: there may be any combos.          *)
Retire(r) ==
  \E v \in Actives(size) :
    /\ Actives(size) \ {v} # {}
    /\ Begin(r, "retire", v, NoRow, "save")

(* A bulk edit locks the row and writes only the columns it names.         *)
BulkEdit(r) ==
  \E v \in Sizes, p \in Prices :
    /\ Exists(size, v)
    /\ Begin(r, "bulk", v, [NoRow EXCEPT !.price = p], "save")

(* A sheet is resolved when it is previewed, to active sizes only: the one *)
(* a row names, or the default, or the first on show; it is applied later. *)
ImportSheet(r) ==
  \E p \in Prices, named \in BOOLEAN :
    LET default == Actives(size) \cap Flagged(size)
    IN \E v \in (IF named \/ default = {} THEN Actives(size) ELSE default) :
         Begin(r, "bulk", v, [NoRow EXCEPT !.price = p], "save")

NewRow(r) ==
  LET q == req[r]
  IN CASE q.kind = "retire" -> [size[q.size] EXCEPT !.active = FALSE, !.default = FALSE]
       [] q.kind = "bulk"   -> [size[q.size] EXCEPT !.price = q.row.price]
       [] OTHER             -> q.row

(* As a bug would have it: every save demotes the others.                  *)
SaveDemoting(r) ==
  /\ req[r].at = "save"
  /\ LET v == req[r].size
     IN Writes(r, [Unflagged(size, Sizes) EXCEPT ![v] = NewRow(r)],
               (Flagged(size) \ {v}) \cup {v}, "repair")

(* ProductVariant.save: who claims the flag demotes who has it, in one     *)
(* transaction with the row.                                               *)
SaveSize(r) ==
  /\ req[r].at = "save"
  /\ LET v      == req[r].size
         others == IF NewRow(r).default THEN Flagged(size) \ {v} ELSE {}
     IN Writes(r, [Unflagged(size, others) EXCEPT ![v] = NewRow(r)],
               others \cup {v}, "repair")

(***************************************************************************)
(* The signal, inside the transaction                                      *)
(***************************************************************************)
(* As a bug would have it: a retired size that has the flag is a default.  *)
ChooseUnlessFlagged(r) ==
  /\ req[r].at = "repair"
  /\ LET chosen == Smallest(Actives(View(r)))
     IN Step(r, IF Flagged(View(r)) = {} /\ chosen # NoSize
                THEN [req[r] EXCEPT !.at = "promote", !.chosen = chosen]
                ELSE [req[r] EXCEPT !.at = "mirror"])
  /\ UNCHANGED <<size, card>>

(* _ensure_default_variant reads first and writes what it chose.           *)
ChooseDefault(r) ==
  /\ req[r].at = "repair"
  /\ LET rows   == View(r)
         lost   == Actives(rows) \cap Flagged(rows) = {}
         chosen == Smallest(Actives(rows))
     IN Step(r, IF lost /\ chosen # NoSize
                THEN [req[r] EXCEPT !.at = "promote", !.chosen = chosen]
                ELSE [req[r] EXCEPT !.at = "mirror"])
  /\ UNCHANGED <<size, card>>

Promote(r) ==
  /\ req[r].at = "promote"
  /\ LET v      == req[r].chosen
         others == Flagged(View(r)) \ {v}
     IN Writes(r, [Unflagged(View(r), others) EXCEPT ![v].default = TRUE],
               others \cup {v}, "mirror")

ReadDefault(r) ==
  /\ req[r].at = "mirror"
  /\ LET v == DefaultOf(View(r))
     IN Step(r, [req[r] EXCEPT
          !.at = "commit",
          !.price = IF v = NoSize THEN NoPrice ELSE View(r)[v].price])
  /\ UNCHANGED <<size, card>>

Commit(r) ==
  /\ req[r].at = "commit"
  /\ size' = View(r)
  /\ card' = IF req[r].price = NoPrice THEN card ELSE req[r].price
  /\ req' = [req EXCEPT ![r] = Idle]
  /\ settled' = alone[r]
  /\ UNCHANGED <<begun, alone>>

(***************************************************************************)
(* The product: its form, or a bulk edit that names no size, writes the    *)
(* legacy columns, from its own copy or anew; its signal mints a size when *)
(* there is none at all.                                                   *)
(***************************************************************************)
OpenProduct(r) ==
  \E p \in Prices : Begin(r, "product", NoSize, [NoRow EXCEPT !.price = p], "product")

SaveProduct(r) ==
  /\ req[r].at = "product"
  /\ card' = req[r].row.price
  /\ Step(r, [req[r] EXCEPT !.at = "sizes"])
  /\ UNCHANGED size

(* Any size counts, a retired one too: it is not replaced.                 *)
NeedsSize == \A v \in Sizes : ~Exists(size, v)

MintSize(r) ==
  /\ req[r].at = "sizes" /\ NeedsSize
  /\ \E v \in Unborn :
       Step(r, [req[r] EXCEPT !.at = "save", !.size = v,
                              !.row = [@ EXCEPT !.default = TRUE, !.active = TRUE]])
  /\ UNCHANGED <<size, card>>

HasSize(r) ==
  /\ req[r].at = "sizes" /\ ~NeedsSize
  /\ Ends(r)
  /\ UNCHANGED <<size, card>>

(* A request fails, or its worker dies: what it had not committed is gone. *)
RequestFails(r) ==
  /\ req[r].at # "idle"
  /\ Ends(r)
  /\ UNCHANGED <<size, card>>

(***************************************************************************)
(* The specification.  It starts from any product as an undisturbed save   *)
(* leaves it, or from one whose row is written and whose size is not.      *)
(***************************************************************************)
OneDefault       == Actives(size) # {} => Cardinality(Actives(size) \cap Flagged(size)) = 1
CardShowsDefault == Actives(size) # {} => card = size[DefaultOf(size)].price

SizesInit ==
  /\ size \in [Sizes -> SizeRow \cup {NoRow}]
  /\ Cardinality(Flagged(size)) <= 1
  /\ card \in Prices
  /\ OneDefault /\ CardShowsDefault
  /\ req = [r \in Requests |-> Idle]
  /\ begun = 0
  /\ alone = [r \in Requests |-> FALSE]
  /\ settled = FALSE

SizeRequest(r) ==
  \/ OpenSizeForm(r) \/ NewSize(r) \/ UnsetOthers(r) \/ Retire(r) \/ BulkEdit(r)
  \/ ImportSheet(r) \/ SaveSize(r) \/ ChooseDefault(r) \/ Promote(r) \/ ReadDefault(r) \/ Commit(r)

ProductRequest(r) ==
  OpenProduct(r) \/ SaveProduct(r) \/ MintSize(r) \/ HasSize(r)

SizesNext ==
  \E r \in Requests : SizeRequest(r) \/ ProductRequest(r) \/ RequestFails(r)

SizesSpec == SizesInit /\ [][SizesNext]_sizeVars

(***************************************************************************)
(* Properties                                                              *)
(***************************************************************************)
(* Types; and the flag is never on two committed sizes.                    *)
TypeOK ==
  /\ size \in [Sizes -> SizeRow \cup {NoRow}]
  /\ Cardinality(Flagged(size)) <= 1
  /\ card \in Prices
  /\ \A r \in Requests :
       /\ req[r].at \in {"idle", "unset", "save", "repair", "promote", "mirror", "commit",
                         "product", "sizes"}
       /\ req[r].wrote \subseteq Sizes
       /\ req[r].rows \in [Sizes -> SizeRow \cup {NoRow}]
  /\ begun \in 0 .. MaxBegun
  /\ alone \in [Requests -> BOOLEAN] /\ settled \in BOOLEAN

(* products/signals.py:78 "A product must always have exactly one active   *)
(* default size": whatever overlapping saves, stale forms, a form of the   *)
(* product or a worker that died left behind, the next save of any size    *)
(* that runs alone leaves one default among the active sizes and its price *)
(* on the product.                                                         *)
SettledExact == settled => OneDefault /\ CardShowsDefault

(* Which size that is: the one that claims it; else the one that was the   *)
(* default and still may be; else the smallest active size.                *)
Due(r, rows) ==
  LET v == req[r].size
      d == req[r].default
      row == NewRow(r)
      stays == ~row.default /\ d \notin {NoSize, v}
  IN IF row.default /\ row.active THEN v
     ELSE IF stays THEN d
     ELSE Smallest(Actives(rows))

DefaultFollows ==
  [][\A r \in Requests :
       Commit(r) /\ alone[r] /\ Actives(View(r)) # {}
         => Actives(size') \cap Flagged(size') = {Due(r, View(r))}]_sizeVars

(* Sizes and their mirror are well formed and settle.                      *)
SizesSettle == TypeOK /\ SettledExact

=============================================================================
