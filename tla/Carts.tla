------------------------------- MODULE Carts -------------------------------
(***************************************************************************)
(* PurchaseFlow: carts of one merchant filled from its catalogue and turned *)
(* into orders.  A line keeps the price it was added at, stock is compared  *)
(* and never taken, and totals are recomputed on every read: a cart whose   *)
(* totals are refused is refused by every call that reads it first, which   *)
(* is all of them.                                                          *)
(*                                                                         *)
(* The catalogue and the carts are dictionaries and lists in memory, so a   *)
(* call runs without suspending and is one action.  A call that raises      *)
(* after it wrote has written.                                              *)
(***************************************************************************)
EXTENDS Catalog

CONSTANTS
  CartIds,      \* carts a behaviour opens
  Quantities,   \* quantities a shopper asks for, valid or not
  Discounts,    \* discount_paise of a checkout, valid or not
  MaxQuantity,  \* MAX_LINE_QUANTITY
  MaxLines,     \* MAX_CART_LINES
  MaxTotal      \* MAX_ORDER_TOTAL_PAISE

ASSUME CartAssumption ==
  /\ Quantities \subseteq Int /\ Discounts \subseteq Int
  /\ MaxQuantity \in Nat /\ MaxLines \in Nat /\ MaxTotal \in Nat

VARIABLES
  cart,         \* cart[c]: the record in _CARTS, or None
  orders        \* history: orders answered by checkout, which stores none

cartVars == <<cart, orders>>

Line == [sku : Skus, price : Prices, quantity : Nat]
Cart == [merchant : Merchants, status : {"open", "checked_out"}, items : Seq(Line)]
CartOrder == [cart : CartIds, merchant : Merchants, items : Seq(Line),
              subtotal : Nat, discount : Nat, total : Nat]

-----------------------------------------------------------------------------
LineTotal(l) == l.price * l.quantity

Subtotal(items) == FoldSeq(LAMBDA l, sum : LineTotal(l) + sum, 0, items)

ValidQuantity(q) == 1 <= q /\ q <= MaxQuantity

(* final_total_paise: neither negative nor more than what is discounted.    *)
ValidDiscount(d, subtotal) == 0 <= d /\ d <= subtotal

(* The product is listed, and assert_in_stock passes.                       *)
InStock(product, q) == product # None /\ q <= product.stock

(* cart_subtotal_paise returns: every line valid, and no sum over the cap.  *)
Totals(items) ==
  /\ Len(items) <= MaxLines
  /\ \A i \in DOMAIN items : ValidPrice(items[i].price) /\ ValidQuantity(items[i].quantity)
  /\ Subtotal(items) <= MaxTotal

(* PurchaseFlow.get_cart: the cart is this merchant's, and its totals are   *)
(* not refused.                                                             *)
GetCart(c, m) ==
  /\ cart[c] # None
  /\ cart[c].merchant = m
  /\ Totals(cart[c].items)

(* The line of sku s, or 0.                                                 *)
IndexOf(items, s) == SelectInSeq(items, LAMBDA l : l.sku = s)

Held(items, s) == LET i == IndexOf(items, s) IN IF i = 0 THEN 0 ELSE items[i].quantity

(* CartRepository.add_item: a sku already there grows and keeps its price.  *)
WithItem(items, s, price, q) ==
  LET i == IndexOf(items, s)
  IN IF i = 0 THEN Append(items, [sku |-> s, price |-> price, quantity |-> q])
     ELSE [items EXCEPT ![i].quantity = @ + q]

-----------------------------------------------------------------------------
CartsInit ==
  /\ CatalogInit
  /\ cart = [c \in CartIds |-> None]
  /\ orders = <<>>

CreateCart(c, m) ==
  /\ cart[c] = None
  /\ cart' = [cart EXCEPT ![c] = [merchant |-> m, status |-> "open", items |-> <<>>]]
  /\ UNCHANGED orders

(* add_item: the price comes from the catalogue; the totals of the new cart *)
(* are looked at only after it is written.                                  *)
AddItem(c, m, s, q) ==
  LET product == Found(products, m, s)
  IN /\ GetCart(c, m) /\ cart[c].status = "open"
     /\ ValidQuantity(q)
     /\ InStock(product, Held(cart[c].items, s) + q)
     /\ cart' = [cart EXCEPT ![c].items = WithItem(@, s, product.price, q)]
     /\ UNCHANGED orders

RemoveItem(c, m, i) ==
  /\ GetCart(c, m) /\ cart[c].status = "open"
  /\ i \in DOMAIN cart[c].items
  /\ cart' = [cart EXCEPT ![c].items = RemoveAt(@, i)]
  /\ UNCHANGED orders

(* clear_cart asks for no status: a cart that was checked out is emptied    *)
(* too, and its order keeps the list it was made with.                      *)
ClearCart(c, m) ==
  /\ GetCart(c, m)
  /\ cart' = [cart EXCEPT ![c].items = <<>>]
  /\ UNCHANGED orders

(* mark_checked_out.                                                        *)
CloseCart(c) == cart' = [cart EXCEPT ![c].status = "checked_out"]

(* checkout: stock of every line is compared again, prices are not read     *)
(* again.                                                                   *)
Checkout(c, m, discount) ==
  LET items == cart[c].items
      subtotal == Subtotal(items)
  IN /\ GetCart(c, m) /\ cart[c].status = "open"
     /\ items # <<>>
     /\ \A i \in DOMAIN items :
          InStock(Found(products, m, items[i].sku), items[i].quantity)
     /\ ValidDiscount(discount, subtotal)
     /\ CloseCart(c)
     /\ orders' = Append(orders, [cart |-> c, merchant |-> m, items |-> items,
          subtotal |-> subtotal, discount |-> discount, total |-> subtotal - discount])

CartsNext ==
  \/ CatalogNext /\ UNCHANGED cartVars
  \/ /\ UNCHANGED catalogVars
     /\ \E c \in CartIds, m \in Merchants :
          \/ CreateCart(c, m)
          \/ \E s \in Skus, q \in Quantities : AddItem(c, m, s, q)
          \/ \E i \in 1..MaxLines : RemoveItem(c, m, i)
          \/ ClearCart(c, m)
          \/ \E d \in Discounts : Checkout(c, m, d)

CartsSpec == CartsInit /\ [][CartsNext]_<<catalogVars, cartVars>>

-----------------------------------------------------------------------------
CartsTypeOK ==
  /\ CatalogTypeOK
  /\ cart \in [CartIds -> Cart \union {None}]
  /\ orders \in Seq(CartOrder)

(* What carts hold and what orders bill, with the merchant it is sold by.   *)
Billed ==
  UNION ({ {<<cart[c].merchant, l>> : l \in Range(cart[c].items)} :
             c \in {d \in CartIds : cart[d] # None} }
         \union { {<<o.merchant, l>> : l \in Range(o.items)} : o \in Range(orders) })

(* "The client names what and how many; the price is looked up", and        *)
(* "adding 3 twice to a stock of 5 must fail on the second call": whatever  *)
(* the order of edits and calls, a line has a price and no more than a      *)
(* quantity its own merchant listed for that sku at some time.              *)
LinesWereOnSale ==
  \A b \in Billed :
    LET rows == {r \in listed : r.merchant = b[1] /\ r.sku = b[2].sku}
    IN /\ \E r \in rows : r.price = b[2].price
       /\ \E r \in rows : b[2].quantity <= r.stock

=============================================================================
