------------------------------ MODULE Catalog ------------------------------
(***************************************************************************)
(* A merchant's catalogue: CatalogService over ProductRepository in memory, *)
(* one list of rows for all merchants.  A row is found for reading by the   *)
(* merchant, the sku and being active, and found for writing by the         *)
(* merchant and the sku alone, so a sku that was retired and listed again   *)
(* is read at one row and written at another.                               *)
(*                                                                         *)
(* Every method runs without suspending: one action per call.               *)
(***************************************************************************)
EXTENDS Integers, SequencesExt

CONSTANTS
  Merchants,    \* merchants, who share the list
  Skus,         \* skus, free to be used by every merchant
  Families,     \* groups of variants
  FamilyOfSku,  \* FamilyOfSku[s]: sku s up to its last separator
  Prices,       \* prices a merchant writes, valid or not
  Stocks,       \* quantities on hand a merchant writes
  MaxPrice,     \* MAX_UNIT_PRICE_PAISE
  Seed,         \* _MEMORY_PRODUCTS as a behaviour starts with it
  MaxEdits,     \* bound: catalogue writes in one behaviour
  None          \* nothing declared, nothing found

VARIABLES
  products,     \* _MEMORY_PRODUCTS, oldest first
  edits,        \* catalogue writes so far (see MaxEdits)
  listed        \* history: every row a read could return, at some time

catalogVars == <<products, edits, listed>>

Product == [merchant : Merchants, sku : Skus, price : Prices, stock : Stocks,
            active : BOOLEAN, family : Families \union {None}]

ASSUME CatalogAssumption ==
  /\ FamilyOfSku \in [Skus -> Families]
  /\ Prices \subseteq Int /\ Stocks \subseteq Int /\ MaxPrice \in Nat
  /\ MaxEdits \in Nat
  /\ None \notin Families \union Product
  /\ Seed \in Seq(Product)

-----------------------------------------------------------------------------
(* Where the rows list_products returns are in the list, its order.         *)
Listing(rows, m) == {i \in DOMAIN rows : rows[i].merchant = m /\ rows[i].active}

(* Variant of Found: the sku alone finds the row.                           *)
FoundAnywhere(rows, m, s) ==
  LET hits == {i \in DOMAIN rows : rows[i].sku = s /\ rows[i].active}
  IN IF hits = {} THEN None ELSE rows[Min(hits)]

(* get_by_sku: the first row of the merchant's listing with that sku.       *)
Found(rows, m, s) ==
  LET hits == {i \in Listing(rows, m) : rows[i].sku = s}
  IN IF hits = {} THEN None ELSE rows[Min(hits)]

(* attributes.family when declared, else read off the sku.                  *)
FamilyOf(row) == IF row.family = None THEN FamilyOfSku[row.sku] ELSE row.family

ValidPrice(p) == 0 <= p /\ p <= MaxPrice

Listable(rows) == {r \in Range(rows) : r.active}

CatalogInit ==
  /\ products = Seed
  /\ edits = 0
  /\ listed = Listable(Seed)

Write(rows) ==
  /\ edits' = edits + 1
  /\ products' = rows
  /\ listed' = listed \union Listable(rows)

(* create_product: the sku must not be in the merchant's listing; an        *)
(* inactive row of the same sku does not show there.                        *)
CreateProduct(row) ==
  /\ Found(products, row.merchant, row.sku) = None
  /\ ValidPrice(row.price) /\ row.stock >= 0
  /\ Write(Append(products, row))

(* update_product: the product must be in the listing, and the row patched  *)
(* is the first with that merchant and sku, active or not.  Fields the      *)
(* request leaves out keep the value they have in that row.                 *)
UpdateProduct(m, s, price, stock, active, family) ==
  /\ Found(products, m, s) # None
  /\ ValidPrice(price) /\ stock >= 0
  /\ LET i == SelectInSeq(products, LAMBDA r : r.merchant = m /\ r.sku = s)
     IN Write([products EXCEPT ![i] = [@ EXCEPT !.price = price, !.stock = stock,
                                                !.active = active, !.family = family]])

CatalogNext ==
  /\ edits < MaxEdits
  /\ \/ \E row \in Product : CreateProduct(row)
     \/ \E m \in Merchants, s \in Skus, p \in Prices, q \in Stocks, a \in BOOLEAN,
           f \in Families \union {None} : UpdateProduct(m, s, p, q, a, f)

CatalogTypeOK ==
  /\ products \in Seq(Product)
  /\ edits \in 0..MaxEdits
  /\ listed \subseteq Product
=============================================================================
