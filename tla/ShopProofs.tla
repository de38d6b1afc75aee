----------------------------- MODULE ShopProofs -----------------------------
(* Proofs about modules Carts, AgentRun and Opportunities, for any number   *)
(* of merchants, products, carts and attempts, of any prices and            *)
(* quantities, and for any hints and limits.                                *)
EXTENDS AgentRun, Opportunities, FiniteSetTheorems, SequenceTheorems, WellFoundedInduction, TLAPS

(* Line l of a cart of merchant m has a price and no more than a quantity   *)
(* the merchant listed for its sku.                                         *)
OnSale(m, l) ==
  LET rows == {r \in listed : r.merchant = m /\ r.sku = l.sku}
  IN /\ \E r \in rows : r.price = l.price
     /\ \E r \in rows : l.quantity <= r.stock

(* A read returns what is on the record as listed.                          *)
ListedInv == Listable(products) \subseteq listed

CartTypeOK == CatalogTypeOK /\ cart \in [CartIds -> Cart \union {None}]

CartLinesInv ==
  \A c \in CartIds : cart[c] # None =>
    \A i \in DOMAIN cart[c].items : OnSale(cart[c].merchant, cart[c].items[i])

OrderLinesInv ==
  /\ \E S : orders \in Seq(S)
  /\ \A k \in DOMAIN orders : \A i \in DOMAIN orders[k].items :
       OnSale(orders[k].merchant, orders[k].items[i])

CartsInv == CartTypeOK /\ ListedInv /\ CartLinesInv /\ OrderLinesInv

-----------------------------------------------------------------------------
(* Some number of a set of numbers is the least.                            *)
LEMMA LeastOf ==
  ASSUME NEW T, T \subseteq Nat, T # {}
  PROVE  Min(T) \in T /\ \A y \in T : Min(T) <= y
<1> DEFINE Below == {ss \in Nat \X Nat : ss[1] < ss[2]}
<1>1. IsWellFoundedOn(Below, Nat)
  BY NatLessThanWellFounded, Zenon DEF OpToRel
<1> HIDE DEF Below
<1>2. PICK x \in T : \A y \in T : ~(<<y, x>> \in Below)
  BY <1>1, WFMin, Zenon
<1>3. \A y \in T : x <= y
  <2> SUFFICES ASSUME NEW y \in T PROVE x <= y
    OBVIOUS
  <2>1. x \in Nat /\ y \in Nat /\ ~(<<y, x>> \in Below)
    BY <1>2
  <2>2. <<y, x>> \in Below <=> y < x
    <3>1. <<y, x>> \in Nat \X Nat /\ <<y, x>>[1] = y /\ <<y, x>>[2] = x
      BY <2>1
    <3> QED
      BY <3>1, Zenon DEF Below
  <2> QED
    BY <2>1, <2>2
<1> QED
  BY <1>3 DEF Min

(* A row that is found is listed, and is of the merchant and sku.           *)
LEMMA FoundRow ==
  ASSUME CartsInv, NEW m, NEW s, Found(products, m, s) # None
  PROVE  LET row == Found(products, m, s)
         IN row \in listed /\ row \in Product /\ row.merchant = m /\ row.sku = s
<1> DEFINE hits == {i \in DOMAIN products :
                      products[i].merchant = m /\ products[i].sku = s /\ products[i].active}
           n == Min(hits)
<1>1. hits # {} /\ Found(products, m, s) = products[n]
  <2>1. hits = {i \in Listing(products, m) : products[i].sku = s}
    BY DEF Listing
  <2> QED
    BY <2>1, Zenon DEF Found
<1>2. products \in Seq(Product) /\ hits \subseteq Nat
  BY DEF CartsInv, CartTypeOK, CatalogTypeOK
<1>3. n \in hits
  BY <1>1, <1>2, LeastOf
<1>4. products[n] \in Listable(products)
  BY <1>3, Zenon DEF Listable, Range
<1>5. products[n].merchant = m /\ products[n].sku = s /\ n \in DOMAIN products
  BY <1>3
<1> HIDE DEF hits
<1>6. products[n] \in Product
  BY <1>2, <1>5
<1> QED
  BY <1>1, <1>4, <1>5, <1>6 DEF CartsInv, ListedInv

(* The line that is looked for, when there is one.                          *)
LEMMA IndexFound ==
  ASSUME NEW items \in Seq(Line), NEW s
  PROVE  LET i == IndexOf(items, s)
         IN /\ i = 0 \/ (i \in DOMAIN items /\ items[i].sku = s)
            /\ Held(items, s) = IF i = 0 THEN 0 ELSE items[i].quantity
<1> DEFINE hits == {i \in 1..Len(items) : items[i].sku = s}
<1>1. IndexOf(items, s) = IF hits # {} THEN Min(hits) ELSE 0
  BY DEF IndexOf, SelectInSeq
<1>2. hits # {} => Min(hits) \in hits
  <2>1. hits \subseteq Nat
    OBVIOUS
  <2> HIDE DEF hits
  <2> QED
    BY <2>1, LeastOf
<1>3. DOMAIN items = 1..Len(items)
  OBVIOUS
<1> QED
  BY <1>1, <1>2, <1>3 DEF Held

(* What was on sale stays on the record.                                    *)
LEMMA StaysOnSale ==
  ASSUME NEW m, NEW l, OnSale(m, l), listed \subseteq listed'
  PROVE  OnSale(m, l)'
BY DEF OnSale

-----------------------------------------------------------------------------
LEMMA CartsInitInv == CartsInit => CartsInv
<1> SUFFICES ASSUME CartsInit PROVE CartsInv
  OBVIOUS
<1> USE DEF CartsInit, CatalogInit
<1>1. CartTypeOK
  <2>1. Listable(Seed) \subseteq Product
    <3> SUFFICES ASSUME NEW i \in DOMAIN Seed PROVE Seed[i] \in Product
      BY DEF Listable, Range
    <3> QED
      BY CatalogAssumption
  <2> QED
    BY <2>1, CatalogAssumption DEF CartTypeOK, CatalogTypeOK
<1>2. ListedInv /\ CartLinesInv
  BY DEF ListedInv, CartLinesInv
<1>3. OrderLinesInv
  <2>1. <<>> \in Seq({})
    OBVIOUS
  <2> QED
    BY <2>1 DEF OrderLinesInv
<1> QED
  BY <1>1, <1>2, <1>3 DEF CartsInv

LEMMA WriteInv ==
  ASSUME CartsInv, edits < MaxEdits, NEW rows \in Seq(Product), Write(rows), UNCHANGED cartVars
  PROVE  CartsInv'
<1>1. /\ edits' = edits + 1 /\ edits < MaxEdits /\ products' = rows
      /\ listed' = listed \union Listable(rows) /\ cart' = cart /\ orders' = orders
  BY DEF Write, cartVars
<1>2. Listable(rows) \subseteq Product
  <2> SUFFICES ASSUME NEW i \in DOMAIN rows PROVE rows[i] \in Product
    BY DEF Listable, Range
  <2> QED
    OBVIOUS
<1>3. CartTypeOK'
  BY <1>1, <1>2, CatalogAssumption DEF CartsInv, CartTypeOK, CatalogTypeOK
<1>4. ListedInv'
  BY <1>1 DEF ListedInv, Listable
<1>5. CartLinesInv'
  BY <1>1, StaysOnSale DEF CartsInv, CartLinesInv
<1>6. OrderLinesInv'
  BY <1>1, StaysOnSale DEF CartsInv, OrderLinesInv
<1> QED
  BY <1>3, <1>4, <1>5, <1>6 DEF CartsInv

LEMMA CatalogInv ==
  ASSUME CartsInv, CatalogNext, UNCHANGED cartVars
  PROVE  CartsInv'
<1>1. products \in Seq(Product) /\ edits < MaxEdits
  BY DEF CartsInv, CartTypeOK, CatalogTypeOK, CatalogNext
<1>2. ASSUME NEW row \in Product, CreateProduct(row) PROVE CartsInv'
  <2>1. Append(products, row) \in Seq(Product)
    BY <1>1
  <2> QED
    BY <2>1, <1>1, <1>2, WriteInv DEF CreateProduct
<1>3. ASSUME NEW m \in Merchants, NEW s \in Skus, NEW p \in Prices, NEW q \in Stocks,
             NEW a \in BOOLEAN, NEW f \in Families \union {None}, UpdateProduct(m, s, p, q, a, f)
      PROVE  CartsInv'
  <2> DEFINE i == SelectInSeq(products, LAMBDA r : r.merchant = m /\ r.sku = s)
             row == [products[i] EXCEPT !.price = p, !.stock = q, !.active = a, !.family = f]
             rows == [products EXCEPT ![i] = row]
  <2>1. Write(rows)
    BY <1>3 DEF UpdateProduct
  <2> HIDE DEF i
  <2>2. i \in DOMAIN products => row \in Product
    <3> SUFFICES ASSUME i \in DOMAIN products PROVE row \in Product
      OBVIOUS
    <3>1. products[i] \in Product
      BY <1>1
    <3> QED
      BY <3>1 DEF Product
  <2> HIDE DEF row
  <2>3. rows \in Seq(Product)
    <3>1. CASE i \in DOMAIN products
      BY <3>1, <1>1, <2>2
    <3>2. CASE i \notin DOMAIN products
      <4>1. rows = products
        BY <3>2, <1>1
      <4> QED
        BY <4>1, <1>1
    <3> QED
      BY <3>1, <3>2
  <2> HIDE DEF rows
  <2> QED
    BY <2>1, <2>3, <1>1, WriteInv
<1> QED
  BY <1>2, <1>3 DEF CatalogNext

-----------------------------------------------------------------------------
(* A cart is filled anew with lines that were on sale.                      *)
LEMMA FilledInv ==
  ASSUME CartsInv, NEW c \in CartIds, NEW full \in Cart, UNCHANGED <<catalogVars, orders>>,
         cart' = [cart EXCEPT ![c] = full],
         \A i \in DOMAIN full.items : OnSale(full.merchant, full.items[i])
  PROVE  CartsInv'
<1>1. UNCHANGED <<products, edits, listed, orders>>
  BY DEF catalogVars
<1>2. CartTypeOK'
  BY <1>1 DEF CartsInv, CartTypeOK, CatalogTypeOK
<1>3. ListedInv'
  BY <1>1 DEF CartsInv, ListedInv
<1>4. cart'[c] = full /\ \A d \in CartIds \ {c} : cart'[d] = cart[d]
  BY DEF CartsInv, CartTypeOK
<1>5. CartLinesInv'
  <2> SUFFICES ASSUME NEW d \in CartIds, cart'[d] # None, NEW i \in DOMAIN cart'[d].items
               PROVE  OnSale(cart'[d].merchant, cart'[d].items[i])
    BY <1>1 DEF CartLinesInv, OnSale
  <2>1. CASE d = c
    BY <2>1, <1>4
  <2>2. CASE d # c
    BY <2>2, <1>4 DEF CartsInv, CartLinesInv
  <2> QED
    BY <2>1, <2>2
<1>6. OrderLinesInv'
  BY <1>1, StaysOnSale DEF CartsInv, OrderLinesInv
<1> QED
  BY <1>2, <1>3, <1>5, <1>6 DEF CartsInv

(* The cart a call of its merchant reads.                                   *)
LEMMA ReadCart ==
  ASSUME CartsInv, NEW c \in CartIds, NEW m, GetCart(c, m)
  PROVE  /\ cart[c] \in Cart /\ cart[c].merchant = m /\ cart[c].items \in Seq(Line)
         /\ \A i \in DOMAIN cart[c].items : OnSale(m, cart[c].items[i])
<1>1. cart[c] \in Cart /\ cart[c].merchant = m
  BY DEF CartsInv, CartTypeOK, GetCart
<1> QED
  BY <1>1 DEF CartsInv, CartLinesInv, GetCart, Cart

LEMMA CreateCartInv ==
  ASSUME CartsInv, NEW c \in CartIds, NEW m \in Merchants, CreateCart(c, m), UNCHANGED catalogVars
  PROVE  CartsInv'
<1> DEFINE full == [merchant |-> m, status |-> "open", items |-> <<>>]
<1>1. full \in Cart /\ full.items = <<>> /\ DOMAIN full.items = {}
  BY DEF Cart
<1>2. cart' = [cart EXCEPT ![c] = full] /\ UNCHANGED orders
  BY DEF CreateCart
<1> HIDE DEF full
<1> QED
  BY <1>1, <1>2, FilledInv

(* The lines of a cart after one more is added.                             *)
LEMMA AddedLine ==
  ASSUME CartsInv, NEW m, NEW s \in Skus, NEW q \in Nat, NEW items \in Seq(Line),
         \A i \in DOMAIN items : OnSale(m, items[i]),
         NEW row \in listed, row \in Product, row.merchant = m, row.sku = s,
         Held(items, s) + q <= row.stock
  PROVE  LET after == WithItem(items, s, row.price, q)
         IN /\ after \in Seq(Line)
            /\ \A i \in DOMAIN after : OnSale(m, after[i])
<1> DEFINE n == IndexOf(items, s)
           after == WithItem(items, s, row.price, q)
<1>1. /\ n = 0 \/ (n \in DOMAIN items /\ items[n].sku = s)
      /\ Held(items, s) = IF n = 0 THEN 0 ELSE items[n].quantity
  BY IndexFound
<1>2. row.price \in Prices
  BY DEF Product
<1>3. CASE n = 0
  <2> DEFINE line == [sku |-> s, price |-> row.price, quantity |-> q]
  <2>1. line \in Line /\ line.sku = s /\ line.price = row.price /\ line.quantity = q
    BY <1>2 DEF Line
  <2>2. after = Append(items, line)
    BY <1>3 DEF WithItem
  <2> HIDE DEF line, after, n
  <2>3. q <= row.stock
    <3>1. Held(items, s) = 0
      BY <1>1, <1>3
    <3> QED
      BY <3>1
  <2>4. OnSale(m, line)
    BY <2>1, <2>3 DEF OnSale
  <2>5. /\ after \in Seq(Line) /\ DOMAIN after = 1..(Len(items) + 1) /\ DOMAIN items = 1..Len(items)
        /\ Len(items) \in Nat /\ after[Len(items) + 1] = line
        /\ \A i \in 1..Len(items) : after[i] = items[i]
    BY <2>1, <2>2
  <2>6. \A i \in DOMAIN after : OnSale(m, after[i])
    BY <2>4, <2>5
  <2> QED
    BY <2>5, <2>6 DEF after
<1>4. CASE n # 0
  <2> DEFINE line == [items[n] EXCEPT !.quantity = @ + q]
  <2>1. items[n] \in Line /\ n \in DOMAIN items
    BY <1>1, <1>4
  <2>2. /\ line \in Line /\ line.sku = items[n].sku /\ line.price = items[n].price
        /\ line.quantity = items[n].quantity + q
    <3> DEFINE old == items[n]
    <3>1. old \in [sku : Skus, price : Prices, quantity : Nat]
      BY <2>1 DEF Line
    <3> HIDE DEF old, n
    <3>2. old.quantity + q \in Nat
      BY <3>1
    <3>3. [old EXCEPT !.quantity = old.quantity + q] \in [sku : Skus, price : Prices, quantity : Nat]
      BY <3>1, <3>2
    <3> QED
      BY <3>1, <3>3 DEF line, old, Line
  <2>3. after = [items EXCEPT ![n] = line]
    BY <1>4 DEF WithItem
  <2> HIDE DEF line, after, n
  <2>4. OnSale(m, line)
    <3>1. OnSale(m, items[n]) /\ items[n].sku = s
      BY <1>1, <1>4
    <3>2. line.quantity <= row.stock /\ line.sku = s
      BY <2>2, <3>1, <1>1, <1>4
    <3>3. \E r \in {r \in listed : r.merchant = m /\ r.sku = line.sku} : r.price = line.price
      BY <3>1, <2>2 DEF OnSale
    <3>4. row \in {r \in listed : r.merchant = m /\ r.sku = line.sku}
      BY <3>2
    <3> QED
      BY <3>2, <3>3, <3>4 DEF OnSale
  <2>5. /\ after \in Seq(Line) /\ DOMAIN after = DOMAIN items
        /\ \A i \in DOMAIN items : after[i] = IF i = n THEN line ELSE items[i]
    BY <2>1, <2>2, <2>3
  <2>6. \A i \in DOMAIN after : OnSale(m, after[i])
    BY <2>4, <2>5
  <2> QED
    BY <2>5, <2>6 DEF after
<1> QED
  BY <1>3, <1>4

LEMMA AddItemInv ==
  ASSUME CartsInv, NEW c \in CartIds, NEW m \in Merchants, NEW s \in Skus, NEW q \in Int,
         AddItem(c, m, s, q), UNCHANGED catalogVars
  PROVE  CartsInv'
<1> DEFINE row == Found(products, m, s)
           items == cart[c].items
           full == [cart[c] EXCEPT !.items = WithItem(items, s, row.price, q)]
<1>1. /\ cart[c] \in Cart /\ cart[c].merchant = m /\ items \in Seq(Line)
      /\ \A i \in DOMAIN items : OnSale(m, items[i])
  BY ReadCart DEF AddItem
<1>2. row # None /\ Held(items, s) + q <= row.stock /\ q \in Nat
  BY CartAssumption DEF AddItem, InStock, ValidQuantity
<1>3. row \in listed /\ row \in Product /\ row.merchant = m /\ row.sku = s
  BY <1>2, FoundRow
<1>4. cart' = [cart EXCEPT ![c] = full] /\ UNCHANGED orders
  BY DEF AddItem
<1> DEFINE after == WithItem(items, s, row.price, q)
<1> HIDE DEF row, items
<1>5. after \in Seq(Line) /\ \A i \in DOMAIN after : OnSale(m, after[i])
  BY <1>1, <1>2, <1>3, AddedLine
<1> HIDE DEF after
<1>6. full \in Cart /\ full.merchant = m /\ full.items = after
  BY <1>1, <1>5 DEF Cart, after
<1> HIDE DEF full
<1> QED
  BY <1>4, <1>5, <1>6, FilledInv

LEMMA RemoveItemInv ==
  ASSUME CartsInv, NEW c \in CartIds, NEW m \in Merchants, NEW n \in Nat,
         RemoveItem(c, m, n), UNCHANGED catalogVars
  PROVE  CartsInv'
<1> DEFINE items == cart[c].items
           after == RemoveAt(items, n)
           full == [cart[c] EXCEPT !.items = after]
           first == SubSeq(items, 1, n - 1)
           rest == SubSeq(items, n + 1, Len(items))
<1>1. /\ cart[c] \in Cart /\ cart[c].merchant = m /\ items \in Seq(Line)
      /\ \A i \in DOMAIN items : OnSale(m, items[i])
  BY ReadCart DEF RemoveItem
<1>2. n \in 1..Len(items) /\ cart' = [cart EXCEPT ![c] = full] /\ UNCHANGED orders
  BY <1>1 DEF RemoveItem
<1>3. after = first \o rest
  BY DEF RemoveAt
<1> HIDE DEF items, after, full
<1>4. /\ first \in Seq(Line) /\ Len(first) = n - 1
      /\ \A i \in 1..(n - 1) : first[i] = items[i]
  <2>1. \A i \in 1..(n - 1) : items[i] \in Line
    BY <1>1, <1>2
  <2>2. /\ first \in Seq(Line) /\ Len(first) = IF 1 <= n - 1 THEN n - 1 - 1 + 1 ELSE 0
        /\ \A i \in 1..(n - 1 - 1 + 1) : first[i] = items[1 + i - 1]
    BY <2>1, <1>2, SubSeqProperties
  <2> QED
    BY <2>2, <1>2
<1>5. /\ rest \in Seq(Line) /\ Len(rest) = Len(items) - n
      /\ \A i \in 1..(Len(items) - n) : rest[i] = items[n + i]
  <2>1. \A i \in (n + 1)..Len(items) : items[i] \in Line
    BY <1>1, <1>2
  <2>2. /\ rest \in Seq(Line)
        /\ Len(rest) = IF n + 1 <= Len(items) THEN Len(items) - (n + 1) + 1 ELSE 0
        /\ \A i \in 1..(Len(items) - (n + 1) + 1) : rest[i] = items[(n + 1) + i - 1]
    BY <2>1, <1>1, <1>2, SubSeqProperties
  <2> QED
    BY <2>2, <1>1, <1>2
<1> HIDE DEF first, rest
<1> DEFINE L == Len(items)
<1>6. /\ after \in Seq(Line) /\ L \in Nat /\ DOMAIN items = 1..L /\ DOMAIN after = 1..(L - 1)
      /\ \A i \in 1..(L - 1) : after[i] = IF i <= n - 1 THEN first[i] ELSE rest[i - (n - 1)]
  <2>1. /\ after \in Seq(Line) /\ Len(after) = Len(first) + Len(rest)
        /\ \A i \in 1..(Len(first) + Len(rest)) :
             after[i] = IF i <= Len(first) THEN first[i] ELSE rest[i - Len(first)]
    BY <1>3, <1>4, <1>5, ConcatProperties
  <2>2. L \in Nat /\ DOMAIN items = 1..L /\ Len(first) + Len(rest) = L - 1
    BY <1>1, <1>2, <1>4, <1>5
  <2>3. Len(after) = L - 1
    BY <2>1, <2>2
  <2>4. DOMAIN after = 1..(L - 1)
    BY <2>1, <2>3
  <2> HIDE DEF L
  <2>5. \A i \in 1..(L - 1) : after[i] = IF i <= n - 1 THEN first[i] ELSE rest[i - (n - 1)]
    BY <2>1, <2>2, <1>4
  <2> QED
    BY <2>1, <2>2, <2>4, <2>5
<1>7. \A i \in DOMAIN after : OnSale(m, after[i])
  <2> SUFFICES ASSUME NEW i \in 1..(L - 1) PROVE OnSale(m, after[i])
    BY <1>6
  <2>1. CASE i <= n - 1
    <3>1. i \in 1..(n - 1) /\ i \in DOMAIN items
      BY <2>1, <1>2, <1>6
    <3>2. after[i] = items[i]
      BY <3>1, <2>1, <1>4, <1>6
    <3> QED
      BY <3>1, <3>2, <1>1
  <2>2. CASE ~(i <= n - 1)
    <3>1. i - (n - 1) \in 1..(L - n) /\ i + 1 \in DOMAIN items /\ n + (i - (n - 1)) = i + 1
      BY <2>2, <1>2, <1>6
    <3>2. after[i] = items[i + 1]
      BY <3>1, <2>2, <1>5, <1>6
    <3> QED
      BY <3>1, <3>2, <1>1
  <2> QED
    BY <2>1, <2>2
<1>8. full \in Cart /\ full.merchant = m /\ full.items = after
  BY <1>1, <1>6 DEF Cart, full
<1> QED
  BY <1>2, <1>7, <1>8, FilledInv

LEMMA ClearCartInv ==
  ASSUME CartsInv, NEW c \in CartIds, NEW m \in Merchants, ClearCart(c, m), UNCHANGED catalogVars
  PROVE  CartsInv'
<1> DEFINE full == [cart[c] EXCEPT !.items = <<>>]
<1>1. cart[c] \in Cart
  BY ReadCart DEF ClearCart
<1>2. full \in Cart /\ full.items = <<>> /\ DOMAIN full.items = {}
  <2> DEFINE none == <<>>
  <2>1. none \in Seq(Line) /\ DOMAIN none = {}
    OBVIOUS
  <2>2. full = [cart[c] EXCEPT !.items = none]
    OBVIOUS
  <2> HIDE DEF none, full
  <2>3. full \in Cart /\ full.items = none
    BY <2>1, <2>2, <1>1 DEF Cart
  <2> QED
    BY <2>1, <2>3 DEF none
<1>3. cart' = [cart EXCEPT ![c] = full] /\ UNCHANGED orders
  BY DEF ClearCart
<1> HIDE DEF full
<1> QED
  BY <1>2, <1>3, FilledInv

LEMMA CheckoutInv ==
  ASSUME CartsInv, NEW c \in CartIds, NEW m \in Merchants, NEW d, Checkout(c, m, d), UNCHANGED catalogVars
  PROVE  CartsInv'
<1> DEFINE items == cart[c].items
           full == [cart[c] EXCEPT !.status = "checked_out"]
           subtotal == Subtotal(items)
           order == [cart |-> c, merchant |-> m, items |-> items,
                     subtotal |-> subtotal, discount |-> d, total |-> subtotal - d]
<1>1. /\ cart[c] \in Cart /\ cart[c].merchant = m /\ items \in Seq(Line)
      /\ \A i \in DOMAIN items : OnSale(m, items[i])
  BY ReadCart DEF Checkout
<1>2. cart' = [cart EXCEPT ![c] = full] /\ orders' = Append(orders, order)
  BY DEF Checkout, CloseCart
<1>3. order.merchant = m /\ order.items = items
  OBVIOUS
<1> HIDE DEF order
<1>4. full \in Cart /\ full.merchant = m /\ full.items = items
  BY <1>1 DEF Cart
<1> HIDE DEF items, full
<1>5. UNCHANGED <<products, edits, listed>>
  BY DEF catalogVars
<1>6. CartTypeOK' /\ ListedInv'
  BY <1>2, <1>4, <1>5 DEF CartsInv, CartTypeOK, CatalogTypeOK, ListedInv
<1>7. cart'[c] = full /\ \A e \in CartIds \ {c} : cart'[e] = cart[e]
  BY <1>2 DEF CartsInv, CartTypeOK
<1>8. CartLinesInv'
  <2> SUFFICES ASSUME NEW e \in CartIds, cart'[e] # None, NEW i \in DOMAIN cart'[e].items
               PROVE  OnSale(cart'[e].merchant, cart'[e].items[i])
    BY <1>5 DEF CartLinesInv, OnSale
  <2>1. CASE e = c
    BY <2>1, <1>1, <1>4, <1>7
  <2>2. CASE e # c
    BY <2>2, <1>7 DEF CartsInv, CartLinesInv
  <2> QED
    BY <2>1, <2>2
<1>9. OrderLinesInv'
  <2>1. PICK S : orders \in Seq(S)
    BY DEF CartsInv, OrderLinesInv
  <2> DEFINE T == S \union {order}
  <2>2. orders \in Seq(T) /\ order \in T
    BY <2>1
  <2> HIDE DEF T
  <2>3. /\ orders' \in Seq(T) /\ DOMAIN orders' = 1..(Len(orders) + 1) /\ DOMAIN orders = 1..Len(orders)
        /\ Len(orders) \in Nat /\ orders'[Len(orders) + 1] = order
        /\ \A k \in 1..Len(orders) : orders'[k] = orders[k]
    BY <2>2, <1>2
  <2>4. ASSUME NEW k \in DOMAIN orders', NEW i \in DOMAIN orders'[k].items
        PROVE  OnSale(orders'[k].merchant, orders'[k].items[i])
    <3>1. CASE k = Len(orders) + 1
      BY <3>1, <2>3, <1>1, <1>3
    <3>2. CASE k \in 1..Len(orders)
      BY <3>2, <2>3 DEF CartsInv, OrderLinesInv
    <3> QED
      BY <3>1, <3>2, <2>3
  <2> QED
    BY <2>3, <2>4, <1>5 DEF OrderLinesInv, OnSale
<1> QED
  BY <1>6, <1>8, <1>9 DEF CartsInv

LEMMA CartsUnchanged ==
  ASSUME CartsInv, UNCHANGED <<catalogVars, cartVars>>
  PROVE  CartsInv'
BY StaysOnSale DEF catalogVars, cartVars, CartsInv, CartTypeOK, CatalogTypeOK, ListedInv, CartLinesInv,
   OrderLinesInv

LEMMA CartsNextInv ==
  ASSUME CartsInv, CartsNext
  PROVE  CartsInv'
<1>1. CASE CatalogNext /\ UNCHANGED cartVars
  BY <1>1, CatalogInv
<1>2. ASSUME UNCHANGED catalogVars, NEW c \in CartIds, NEW m \in Merchants,
             CreateCart(c, m) \/ ClearCart(c, m) \/ \E d \in Discounts : Checkout(c, m, d)
      PROVE  CartsInv'
  BY <1>2, CreateCartInv, ClearCartInv, CheckoutInv
<1>3. ASSUME UNCHANGED catalogVars, NEW c \in CartIds, NEW m \in Merchants,
             \/ \E s \in Skus, q \in Quantities : AddItem(c, m, s, q)
             \/ \E i \in 1..MaxLines : RemoveItem(c, m, i)
      PROVE  CartsInv'
  BY <1>3, AddItemInv, RemoveItemInv, CartAssumption
<1> QED
  BY <1>1, <1>2, <1>3 DEF CartsNext

LEMMA CartsInvariant == CartsSpec => []CartsInv
<1>1. CartsInv /\ [CartsNext]_<<catalogVars, cartVars>> => CartsInv'
  BY CartsNextInv, CartsUnchanged
<1> QED
  BY <1>1, CartsInitInv, PTL DEF CartsSpec

-----------------------------------------------------------------------------
(* Lines on the record of what was listed are all that is billed.           *)
LEMMA OnSaleBilled == CartsInv => LinesWereOnSale
<1> SUFFICES ASSUME CartsInv, NEW b \in Billed PROVE OnSale(b[1], b[2])
  BY DEF LinesWereOnSale, OnSale
<1>1. \/ \E c \in CartIds : cart[c] # None /\
            \E i \in DOMAIN cart[c].items : b = <<cart[c].merchant, cart[c].items[i]>>
      \/ \E k \in DOMAIN orders :
            \E i \in DOMAIN orders[k].items : b = <<orders[k].merchant, orders[k].items[i]>>
  <2>1. PICK X \in { {<<cart[c].merchant, l>> : l \in Range(cart[c].items)} :
                       c \in {d \in CartIds : cart[d] # None} }
                   \union { {<<o.merchant, l>> : l \in Range(o.items)} : o \in Range(orders) } :
                 b \in X
    BY DEF Billed
  <2>2. CASE \E c \in CartIds : cart[c] # None
                /\ X = {<<cart[c].merchant, l>> : l \in Range(cart[c].items)}
    <3>1. PICK c \in CartIds : cart[c] # None
                               /\ X = {<<cart[c].merchant, l>> : l \in Range(cart[c].items)}
      BY <2>2
    <3>2. PICK i \in DOMAIN cart[c].items : b = <<cart[c].merchant, cart[c].items[i]>>
      BY <2>1, <3>1, Zenon DEF Range
    <3> QED
      BY <3>1, <3>2
  <2>3. CASE \E o \in Range(orders) : X = {<<o.merchant, l>> : l \in Range(o.items)}
    <3>1. PICK o \in Range(orders) : X = {<<o.merchant, l>> : l \in Range(o.items)}
      BY <2>3
    <3>2. PICK k \in DOMAIN orders : o = orders[k]
      BY Zenon DEF Range
    <3>3. PICK i \in DOMAIN o.items : b = <<o.merchant, o.items[i]>>
      BY <2>1, <3>1, Zenon DEF Range
    <3> QED
      BY <3>2, <3>3
  <2> QED
    BY <2>1, <2>2, <2>3
<1>2. ASSUME NEW c \in CartIds, cart[c] # None, NEW i \in DOMAIN cart[c].items,
             b = <<cart[c].merchant, cart[c].items[i]>>
      PROVE  OnSale(b[1], b[2])
  BY <1>2 DEF CartsInv, CartLinesInv
<1>3. ASSUME NEW k \in DOMAIN orders, NEW i \in DOMAIN orders[k].items,
             b = <<orders[k].merchant, orders[k].items[i]>>
      PROVE  OnSale(b[1], b[2])
  BY <1>3 DEF CartsInv, OrderLinesInv
<1> QED
  BY <1>1, <1>2, <1>3

(* However catalogue edits and carts interleave, PurchaseFlow bills a line  *)
(* only at a price, and for no more than a quantity, its own merchant       *)
(* listed for that sku.                                                     *)
THEOREM BilledWasOnSale == CartsSpec => []LinesWereOnSale
BY OnSaleBilled, CartsInvariant, PTL

-----------------------------------------------------------------------------
(* A subtotal is a fold over the lines of a cart in no order in particular: *)
(* what is left of a set of lines once one of them is taken out, and the    *)
(* equation the fold solves.                                                *)
First(s) == CHOOSE i \in s : TRUE

Unfold(items, it) ==
  [s \in SUBSET (DOMAIN items) |->
     IF s = {} THEN 0 ELSE LineTotal(items[First(s)]) + it[s \ {First(s)}]]

(* it sums up every set of at most n lines.                                 *)
SumsUpTo(items, it, n) ==
  \A s \in SUBSET (DOMAIN items) : Cardinality(s) <= n => it[s] = Unfold(items, it)[s]

LEMMA TakeFirst ==
  ASSUME NEW s, IsFiniteSet(s), s # {}
  PROVE  /\ First(s) \in s /\ IsFiniteSet(s \ {First(s)})
         /\ Cardinality(s) \in Nat /\ Cardinality(s) > 0
         /\ Cardinality(s \ {First(s)}) = Cardinality(s) - 1
<1>1. First(s) \in s
  BY Zenon DEF First
<1>2. Cardinality(s) \in Nat /\ Cardinality(s) # 0
  BY FS_CardinalityType, FS_EmptySet
<1> QED
  BY <1>1, <1>2, FS_RemoveElement

(* However many lines there are, some function sums up that many.           *)
LEMMA SumsExist ==
  ASSUME NEW items, IsFiniteSet(DOMAIN items),
         \A i \in DOMAIN items : LineTotal(items[i]) \in Nat, NEW n \in Nat
  PROVE  \E it \in [SUBSET (DOMAIN items) -> Nat] : SumsUpTo(items, it, n)
<1> DEFINE Sets == SUBSET (DOMAIN items)
           P(m) == \E it \in [Sets -> Nat] : SumsUpTo(items, it, m)
           bad == {m \in Nat : ~P(m)}
<1>1. \A s \in Sets : IsFiniteSet(s) /\ Cardinality(s) \in Nat /\ (Cardinality(s) = 0 <=> s = {})
  BY FS_Subset, FS_CardinalityType, FS_EmptySet
<1>2. P(0)
  <2> DEFINE it == [s \in Sets |-> 0]
  <2>1. it \in [Sets -> Nat]
    OBVIOUS
  <2>2. SumsUpTo(items, it, 0)
    BY <1>1 DEF SumsUpTo, Unfold
  <2> QED
    BY <2>1, <2>2
<1>3. ASSUME NEW m \in Nat, P(m) PROVE P(m + 1)
  <2>1. PICK it \in [Sets -> Nat] : SumsUpTo(items, it, m)
    BY <1>3
  <2> DEFINE next == [s \in Sets |-> IF Cardinality(s) <= m THEN it[s] ELSE Unfold(items, it)[s]]
  <2>2. \A s \in Sets : Unfold(items, it)[s] \in Nat
    <3> SUFFICES ASSUME NEW s \in Sets PROVE Unfold(items, it)[s] \in Nat
      OBVIOUS
    <3>1. CASE s = {}
      BY <3>1 DEF Unfold
    <3>2. CASE s # {}
      <4>1. First(s) \in DOMAIN items /\ s \ {First(s)} \in Sets
        BY <3>2, <1>1, TakeFirst
      <4>2. LineTotal(items[First(s)]) \in Nat /\ it[s \ {First(s)}] \in Nat
        BY <4>1, <2>1
      <4>3. Unfold(items, it)[s] = LineTotal(items[First(s)]) + it[s \ {First(s)}]
        BY <3>2 DEF Unfold
      <4> QED
        BY <4>2, <4>3
    <3> QED
      BY <3>1, <3>2
  <2>3. next \in [Sets -> Nat]
    BY <2>1, <2>2
  <2>4. ASSUME NEW s \in Sets, Cardinality(s) <= m + 1
        PROVE  next[s] = Unfold(items, next)[s]
    <3>1. next[s] = Unfold(items, it)[s]
      BY <2>1, <1>1 DEF SumsUpTo
    <3>2. CASE s = {}
      BY <3>1, <3>2 DEF Unfold
    <3>3. CASE s # {}
      <4> DEFINE rest == s \ {First(s)}
      <4>1. rest \in Sets /\ Cardinality(rest) <= m
        BY <3>3, <2>4, <1>1, TakeFirst
      <4>2. next[rest] = it[rest]
        BY <4>1
      <4> QED
        BY <3>1, <3>3, <4>2 DEF Unfold
    <3> QED
      BY <3>2, <3>3
  <2> QED
    BY <2>3, <2>4 DEF SumsUpTo
<1> HIDE DEF P
<1>4. bad = {}
  <2> SUFFICES ASSUME bad # {} PROVE FALSE
    OBVIOUS
  <2>1. Min(bad) \in bad /\ \A m \in bad : Min(bad) <= m
    BY LeastOf
  <2> DEFINE least == Min(bad)
  <2>2. least \in Nat /\ ~P(least) /\ \A m \in Nat : m < least => P(m)
    BY <2>1
  <2> HIDE DEF least
  <2>3. least # 0
    BY <2>2, <1>2
  <2>4. PICK m \in Nat : m + 1 = least /\ P(m)
    <3>1. least - 1 \in Nat /\ least - 1 < least /\ (least - 1) + 1 = least
      BY <2>2, <2>3
    <3> QED
      BY <3>1, <2>2
  <2>5. P(m + 1)
    BY <2>4, <1>3, Zenon
  <2> QED
    BY <2>2, <2>4, <2>5
<1> QED
  BY <1>4 DEF P

(* The subtotal of lines that cost something or nothing does, too.          *)
LEMMA SubtotalIsNat ==
  ASSUME NEW items, IsFiniteSet(DOMAIN items),
         \A i \in DOMAIN items : LineTotal(items[i]) \in Nat
  PROVE  Subtotal(items) \in Nat
<1> DEFINE Sets == SUBSET (DOMAIN items)
           iter == CHOOSE it : it = Unfold(items, it)
<1>1. Subtotal(items) = iter[DOMAIN items]
  BY Zenon DEF Subtotal, FoldSeq, FoldFunction, FoldFunctionOnSet, MapThenFoldSet, Unfold, First
<1>2. \A s \in Sets : IsFiniteSet(s) /\ Cardinality(s) \in Nat /\ Cardinality(s) <= Cardinality(DOMAIN items)
  BY FS_Subset, FS_CardinalityType
<1>3. PICK it \in [Sets -> Nat] : SumsUpTo(items, it, Cardinality(DOMAIN items))
  BY SumsExist, FS_CardinalityType
<1>4. it = Unfold(items, it)
  BY <1>2, <1>3 DEF SumsUpTo, Unfold
<1>5. iter = Unfold(items, iter)
  BY <1>4, Zenon
<1> HIDE DEF iter
<1> DEFINE sizes == {Cardinality(s) : s \in {t \in Sets : iter[t] \notin Nat}}
<1>6. sizes = {}
  <2> SUFFICES ASSUME sizes # {} PROVE FALSE
    OBVIOUS
  <2>1. sizes \subseteq Nat
    BY <1>2
  <2>2. Min(sizes) \in sizes /\ \A m \in sizes : Min(sizes) <= m
    BY <2>1, LeastOf
  <2>3. PICK s \in Sets : iter[s] \notin Nat /\ Cardinality(s) = Min(sizes)
    BY <2>2
  <2>4. s # {}
    BY <2>3, <1>5 DEF Unfold
  <2> DEFINE rest == s \ {First(s)}
  <2>5. /\ First(s) \in DOMAIN items /\ rest \in Sets /\ Cardinality(rest) = Cardinality(s) - 1
        /\ Cardinality(s) \in Nat
    BY <2>3, <2>4, <1>2, TakeFirst
  <2>6. iter[s] = LineTotal(items[First(s)]) + iter[rest]
    BY <2>4, <1>5 DEF Unfold
  <2> HIDE DEF rest
  <2>7. iter[rest] \notin Nat
    BY <2>3, <2>5, <2>6
  <2>8. Cardinality(rest) \in sizes
    BY <2>5, <2>7
  <2> HIDE DEF sizes
  <2> QED
    BY <2>2, <2>3, <2>5, <2>8
<1>7. iter[DOMAIN items] \in Nat
  BY <1>6
<1> QED
  BY <1>1, <1>7

(* An order bills its cart what the lines come to, less the discount.       *)
LEMMA OrderTyped ==
  ASSUME CartsInv, orders \in Seq(CartOrder), NEW c \in CartIds, NEW m \in Merchants,
         NEW d \in Int, Checkout(c, m, d)
  PROVE  orders' \in Seq(CartOrder)
<1> DEFINE items == cart[c].items
           subtotal == Subtotal(items)
<1>1. items \in Seq(Line) /\ GetCart(c, m) /\ ValidDiscount(d, subtotal)
  BY ReadCart DEF Checkout
<1>2. orders' = Append(orders, [cart |-> c, merchant |-> m, items |-> items,
                  subtotal |-> subtotal, discount |-> d, total |-> subtotal - d])
  BY DEF Checkout
<1>3. \A i \in DOMAIN items : LineTotal(items[i]) \in Nat
  <2> SUFFICES ASSUME NEW i \in DOMAIN items PROVE items[i].price * items[i].quantity \in Nat
    BY DEF LineTotal
  <2>1. items[i] \in Line /\ ValidPrice(items[i].price)
    BY <1>1 DEF GetCart, Totals
  <2> DEFINE p == items[i].price
             q == items[i].quantity
  <2>2. p \in Prices /\ q \in Nat /\ 0 <= p
    BY <2>1 DEF Line, ValidPrice
  <2> HIDE DEF p, q
  <2>3. p \in Nat
    BY <2>2, CatalogAssumption
  <2>4. p * q \in Nat
    BY <2>2, <2>3
  <2> QED
    BY <2>4 DEF p, q
<1>4. IsFiniteSet(DOMAIN items)
  <2>1. Len(items) \in Nat /\ DOMAIN items = 1..Len(items)
    BY <1>1
  <2> QED
    BY <2>1, FS_Interval
<1>5. subtotal \in Nat
  BY <1>3, <1>4, SubtotalIsNat
<1> HIDE DEF items, subtotal
<1>6. d \in Nat /\ subtotal - d \in Nat
  BY <1>1, <1>5 DEF ValidDiscount
<1> DEFINE order == [cart |-> c, merchant |-> m, items |-> items,
                     subtotal |-> subtotal, discount |-> d, total |-> subtotal - d]
<1>7. order \in CartOrder
  BY <1>1, <1>5, <1>6 DEF CartOrder
<1> HIDE DEF order
<1>8. orders' = Append(orders, order)
  BY <1>2 DEF order
<1> QED
  BY <1>7, <1>8

LEMMA CartStepTyped ==
  ASSUME CartsInv, orders \in Seq(CartOrder), CartsNext
  PROVE  orders' \in Seq(CartOrder)
<1>1. \/ UNCHANGED orders
      \/ \E c \in CartIds, m \in Merchants, d \in Discounts : Checkout(c, m, d)
  BY DEF CartsNext, cartVars, CreateCart, AddItem, RemoveItem, ClearCart
<1> QED
  BY <1>1, OrderTyped, CartAssumption

(* Every row, cart and order of PurchaseFlow has the form of one, and an    *)
(* order bills no less than nothing.                                        *)
THEOREM CartsTypeCorrect == CartsSpec => []CartsTypeOK
<1> DEFINE Inv == CartsInv /\ orders \in Seq(CartOrder)
<1>1. CartsInit => Inv
  BY CartsInitInv DEF CartsInit
<1>2. Inv /\ [CartsNext]_<<catalogVars, cartVars>> => Inv'
  BY CartsNextInv, CartStepTyped, CartsUnchanged DEF cartVars
<1>3. Inv => CartsTypeOK
  BY DEF CartsInv, CartTypeOK, CartsTypeOK
<1> QED
  BY <1>1, <1>2, <1>3, PTL DEF CartsSpec

-----------------------------------------------------------------------------
(* The one line of items is what run r recommended.                         *)
OneLine(items, r) ==
  /\ Len(items) = 1
  /\ items[1].sku = r.pick.sku /\ items[1].quantity = r.quantity

(* A record with the fields of an attempt.                                  *)
IsAttempt(r) == DOMAIN r = DOMAIN Fresh /\ r.quantity \in Int

(* Every record has its fields, and the histories are sequences.            *)
ShapeInv ==
  /\ DOMAIN run = Attempts 
  /\ \A a \in Attempts : IsAttempt(run[a])
  /\ \E S : orders \in Seq(S)
  /\ \E S : asked \in Seq(S)

(* What an attempt opened exists and is its own; before create_cart it has  *)
(* opened nothing, and up to the report only the cart it works on.          *)
OpenedInv ==
  /\ \A a \in Attempts : \A c \in run[a].opened : c \in CartIds /\ cart[c] # None
  /\ \A a, b \in Attempts : a # b => run[a].opened \intersect run[b].opened = {}
  /\ \A a \in Attempts :
       /\ run[a].stage \in Stages
       /\ run[a].stage \in {"idle", "discover", "create_cart"} => run[a].opened = {}
       /\ run[a].stage \in {"add_to_cart", "checkout", "authorize"} => run[a].opened = {run[a].cart}
       /\ \A c, d \in run[a].opened : c = d

(* The cart is empty until the line is added, and then holds that line.     *)
LineInv ==
  \A a \in Attempts :
    /\ run[a].stage = "add_to_cart" => cart[run[a].cart].items = <<>>
    /\ run[a].stage = "checkout" => OneLine(cart[run[a].cart].items, run[a])

(* An ordered cart is closed and ordered once, with the line its attempt    *)
(* recommended.                                                             *)
OrderedInv ==
  /\ \A i \in DOMAIN orders :
       /\ orders[i].cart \in CartIds /\ cart[orders[i].cart] # None
       /\ cart[orders[i].cart].status = "checked_out"
  /\ \A i, j \in DOMAIN orders : orders[i].cart = orders[j].cart => i = j
  /\ \A i \in DOMAIN orders : \A a \in Attempts :
       orders[i].cart \in run[a].opened => OneLine(orders[i].items, run[a])

(* What attempt a knows of the order it is about to ask for.                *)
Priced(a) ==
  \E i \in DOMAIN orders : orders[i].cart = run[a].cart /\ orders[i].total = run[a].total

(* A request ends its attempt, and asks for what the attempt ordered.       *)
AskedInv ==
  /\ \A a \in Attempts : run[a].stage = "authorize" => Priced(a)
  /\ \A q \in DOMAIN asked :
       /\ asked[q].by \in Attempts /\ run[asked[q].by].stage = "report"
       /\ \E i \in DOMAIN orders :
            /\ orders[i].cart \in run[asked[q].by].opened
            /\ asked[q].cart = orders[i].cart /\ asked[q].amount = orders[i].total
       /\ ~ (RequestCeiling # 0 /\ asked[q].amount > RequestCeiling)
  /\ \A p, q \in DOMAIN asked : asked[p].by = asked[q].by => p = q

AgentInv == CartsInv /\ ShapeInv /\ OpenedInv /\ LineInv /\ OrderedInv /\ AskedInv

-----------------------------------------------------------------------------
(* A set all of whose elements are the same has at most one.                *)
LEMMA OnlyOne ==
  ASSUME NEW S, \A x, y \in S : x = y
  PROVE  Cardinality(S) <= 1
<1>1. CASE S = {}
  BY <1>1, FS_EmptySet
<1>2. CASE S # {}
  <2>1. PICK x : S = {x}
    BY <1>2
  <2> QED
    BY <2>1, FS_Singleton
<1> QED
  BY <1>1, <1>2

(* Another element at the end of a sequence.                                *)
LEMMA Extended ==
  ASSUME NEW s, \E S : s \in Seq(S), NEW e
  PROVE  /\ \E S : Append(s, e) \in Seq(S)
         /\ Len(s) \in Nat /\ DOMAIN s = 1..Len(s) /\ DOMAIN Append(s, e) = 1..(Len(s) + 1)
         /\ Append(s, e)[Len(s) + 1] = e
         /\ \A i \in DOMAIN s : Append(s, e)[i] = s[i]
         /\ Last(Append(s, e)) = e
<1>1. PICK S : s \in Seq(S)
  OBVIOUS
<1> DEFINE T == S \union {e}
           after == Append(s, e)
<1>2. s \in Seq(T) /\ e \in T
  BY <1>1
<1> HIDE DEF T
<1>3. /\ after \in Seq(T) /\ Len(after) = Len(s) + 1
      /\ Len(s) \in Nat /\ DOMAIN s = 1..Len(s) /\ DOMAIN after = 1..(Len(s) + 1)
      /\ after[Len(s) + 1] = e
      /\ \A i \in DOMAIN s : after[i] = s[i]
  BY <1>2
<1>4. Last(after) = e
  BY <1>3 DEF Last
<1> QED
  BY <1>3, <1>4

(* The attempt that took a step, and the others, which are where they were. *)
LEMMA OneMoved ==
  ASSUME ShapeInv, NEW a \in Attempts, NEW state, run' = [run EXCEPT ![a] = state]
  PROVE  run'[a] = state /\ DOMAIN run' = Attempts /\ \A b \in Attempts \ {a} : run'[b] = run[b]
BY DEF ShapeInv

-----------------------------------------------------------------------------
LEMMA AgentInitInv == CartsInit /\ AgentInit => AgentInv
<1> SUFFICES ASSUME CartsInit, AgentInit PROVE AgentInv
  OBVIOUS
<1>1. /\ run = [a \in Attempts |-> Fresh] /\ asked = <<>> /\ orders = <<>>
      /\ cart = [c \in CartIds |-> None]
  BY DEF CartsInit, AgentInit
<1>2. /\ DOMAIN run = Attempts /\ DOMAIN cart = CartIds /\ \A c \in CartIds : cart[c] = None
      /\ \A a \in Attempts : run[a] = Fresh
      /\ DOMAIN orders = {} /\ DOMAIN asked = {} /\ orders \in Seq({}) /\ asked \in Seq({})
  BY <1>1
<1>3. \A a \in Attempts : run[a].stage = "idle" /\ run[a].opened = {}
  BY <1>2 DEF Fresh, IsAttempt
<1>4. CartsInv /\ ShapeInv
  <2>1. IsAttempt(Fresh)
    BY DEF Fresh, IsAttempt
  <2> QED
    BY <2>1, <1>2, CartsInitInv DEF ShapeInv
<1>5. OpenedInv /\ LineInv
  BY <1>2, <1>3 DEF OpenedInv, LineInv, Stages
<1>6. OrderedInv /\ AskedInv
  BY <1>2, <1>3 DEF OrderedInv, AskedInv
<1> QED
  BY <1>4, <1>5, <1>6 DEF AgentInv

(* An attempt goes on without touching carts, orders or requests.           *)
LEMMA GoesOn ==
  ASSUME AgentInv, NEW a \in Attempts, NEW state, UNCHANGED <<catalogVars, cartVars, asked>>,
         run' = [run EXCEPT ![a] = state], IsAttempt(state),
         state.opened = run[a].opened, run[a].stage # "report",
         \/ state.stage = "report" /\ state.pick = run[a].pick /\ state.quantity = run[a].quantity
         \/ state.stage \in {"discover", "create_cart", "report"} /\ run[a].opened = {}
  PROVE  AgentInv'
<1>1. /\ run'[a] = state /\ DOMAIN run' = Attempts /\ \A b \in Attempts \ {a} : run'[b] = run[b]
      /\ cart' = cart /\ orders' = orders /\ asked' = asked
  BY OneMoved DEF AgentInv, cartVars
<1>2. \A b \in Attempts : run'[b].opened = run[b].opened
  BY <1>1
<1>3. CartsInv' /\ ShapeInv'
  BY <1>1, CartsUnchanged DEF AgentInv, ShapeInv
<1>4. OpenedInv'
  <2>1. /\ \A b \in Attempts : \A c \in run'[b].opened : c \in CartIds /\ cart'[c] # None
        /\ \A b, d \in Attempts : b # d => run'[b].opened \intersect run'[d].opened = {}
    BY <1>1, <1>2 DEF AgentInv, OpenedInv
  <2>2. ASSUME NEW b \in Attempts
        PROVE  /\ run'[b].stage \in Stages
               /\ run'[b].stage \in {"idle", "discover", "create_cart"} => run'[b].opened = {}
               /\ run'[b].stage \in {"add_to_cart", "checkout", "authorize"} =>
                    run'[b].opened = {run'[b].cart}
               /\ \A c, d \in run'[b].opened : c = d
    <3>1. CASE b = a
      <4>1. run'[b] = state /\ run'[b].opened = run[b].opened
        BY <3>1, <1>1, <1>2
      <4>2. \A c, d \in run[b].opened : c = d
        BY DEF AgentInv, OpenedInv
      <4>3. \/ state.stage = "report"
            \/ state.stage \in {"discover", "create_cart", "report"} /\ run[b].opened = {}
        BY <3>1
      <4> QED
        BY <4>1, <4>2, <4>3 DEF Stages
    <3>2. CASE b # a
      BY <3>2, <1>1 DEF AgentInv, OpenedInv
    <3> QED
      BY <3>1, <3>2
  <2> QED
    BY <2>1, <2>2 DEF OpenedInv
<1>5. LineInv'
  BY <1>1 DEF AgentInv, LineInv, OneLine
<1>6. OrderedInv'
  <2>1. ASSUME NEW i \in DOMAIN orders, NEW b \in Attempts, orders[i].cart \in run[b].opened
        PROVE  OneLine(orders[i].items, run'[b])
    BY <2>1, <1>1 DEF AgentInv, OrderedInv, OneLine
  <2> QED
    BY <2>1, <1>1, <1>2 DEF AgentInv, OrderedInv
<1>7. AskedInv'
  <2>1. \A b \in Attempts : run'[b].stage = "authorize" => Priced(b)'
    BY <1>1 DEF AgentInv, AskedInv, Priced
  <2>2. \A b \in Attempts : run[b].stage = "report" => run'[b].stage = "report"
    BY <1>1
  <2>3. ASSUME NEW q \in DOMAIN asked
        PROVE  /\ asked[q].by \in Attempts /\ run'[asked[q].by].stage = "report"
               /\ \E i \in DOMAIN orders :
                    /\ orders[i].cart \in run'[asked[q].by].opened
                    /\ asked[q].cart = orders[i].cart /\ asked[q].amount = orders[i].total
               /\ ~ (RequestCeiling # 0 /\ asked[q].amount > RequestCeiling)
    <3>1. asked[q].by \in Attempts /\ run[asked[q].by].stage = "report"
      BY DEF AgentInv, AskedInv
    <3>2. run'[asked[q].by].opened = run[asked[q].by].opened /\ run'[asked[q].by].stage = "report"
      BY <2>2, <3>1, <1>2
    <3> QED
      BY <3>1, <3>2, Zenon DEF AgentInv, AskedInv
  <2>4. \A p, q \in DOMAIN asked : asked[p].by = asked[q].by => p = q
    BY DEF AgentInv, AskedInv
  <2> QED
    BY <2>1, <2>3, <2>4, <1>1 DEF AskedInv
<1> QED
  BY <1>3, <1>4, <1>5, <1>6, <1>7 DEF AgentInv

LEMMA StartInv ==
  ASSUME AgentInv, NEW a \in Attempts, NEW goal, NEW wants, NEW budget, NEW q \in Int,
         Start(a, goal, wants, budget, q), UNCHANGED catalogVars
  PROVE  AgentInv'
<1> DEFINE state == [Fresh EXCEPT
       !.stage = IF goal = "unsupported" THEN "report" ELSE "discover",
       !.goal = goal, !.wants = wants, !.budget = budget, !.quantity = q]
<1>1. run[a].stage = "idle" /\ run' = [run EXCEPT ![a] = state] /\ UNCHANGED <<cartVars, asked>>
  BY DEF Start
<1>2. IsAttempt(state) /\ state.opened = {} /\ state.stage \in {"report", "discover"}
  BY DEF Fresh, IsAttempt
<1>3. run[a].opened = {}
  BY <1>1 DEF AgentInv, OpenedInv
<1> HIDE DEF state
<1> QED
  BY <1>1, <1>2, <1>3, GoesOn

LEMMA DiscoverInv ==
  ASSUME AgentInv, NEW a \in Attempts, Discover(a), UNCHANGED catalogVars
  PROVE  AgentInv'
<1>1. PICK pick, stage :
        /\ stage \in {"report", "create_cart"}
        /\ run' = [run EXCEPT ![a].pick = pick, ![a].stage = stage]
        /\ run[a].stage = "discover" /\ UNCHANGED <<cartVars, asked>>
  BY DEF Discover
<1> DEFINE state == [run[a] EXCEPT !.pick = pick, !.stage = stage]
<1>2. DOMAIN run = Attempts /\ IsAttempt(run[a]) /\ run[a].opened = {}
  BY <1>1 DEF AgentInv, ShapeInv, OpenedInv
<1>3. IsAttempt(state) /\ state.opened = run[a].opened /\ state.stage = stage
  BY <1>2 DEF Fresh, IsAttempt
<1>4. run' = [run EXCEPT ![a] = state]
  BY <1>1, <1>2
<1> HIDE DEF state
<1> QED
  BY <1>1, <1>2, <1>3, <1>4, GoesOn

LEMMA FailsInv ==
  ASSUME AgentInv, NEW a \in Attempts, Fails(a), UNCHANGED catalogVars
  PROVE  AgentInv'
<1> DEFINE state == [run[a] EXCEPT !.stage = "report"]
<1>1. run' = [run EXCEPT ![a] = state] /\ UNCHANGED <<cartVars, asked>> /\ run[a].stage # "report"
  BY DEF Fails, AgentInv, ShapeInv
<1>2. IsAttempt(run[a])
  BY DEF AgentInv, ShapeInv
<1>3. /\ IsAttempt(state) /\ state.opened = run[a].opened /\ state.stage = "report"
      /\ state.pick = run[a].pick /\ state.quantity = run[a].quantity
  BY <1>2 DEF Fresh, IsAttempt
<1> HIDE DEF state
<1> QED
  BY <1>1, <1>3, GoesOn

(* What reading an answer, or losing it, makes of an attempt.               *)
LEMMA AnsweredState ==
  ASSUME ShapeInv, NEW a \in Attempts, NEW state, Answered(a, state), IsAttempt(state),
         state.pick = run[a].pick, state.quantity = run[a].quantity
  PROVE  /\ DOMAIN run' = Attempts /\ \A b \in Attempts \ {a} : run'[b] = run[b]
         /\ IsAttempt(run'[a]) /\ run'[a].opened = state.opened
         /\ run'[a].pick = run[a].pick /\ run'[a].quantity = run[a].quantity
         /\ run'[a] = state \/ run'[a].stage = "report"
<1> DEFINE lost == [run[a] EXCEPT !.stage = "report", !.opened = state.opened]
<1>1. DOMAIN run = Attempts /\ IsAttempt(run[a])
  BY DEF ShapeInv
<1>2. /\ IsAttempt(lost) /\ lost.opened = state.opened /\ lost.stage = "report"
      /\ lost.pick = run[a].pick /\ lost.quantity = run[a].quantity
  BY <1>1 DEF Fresh, IsAttempt
<1>3. run' = [run EXCEPT ![a] = state] \/ run' = [run EXCEPT ![a] = lost]
  BY <1>1, Zenon DEF Answered
<1> HIDE DEF lost
<1> QED
  BY <1>1, <1>2, <1>3

LEMMA OpenCartInv ==
  ASSUME AgentInv, NEW a \in Attempts, NEW c \in CartIds, OpenCart(a, c), UNCHANGED catalogVars
  PROVE  AgentInv'
<1> DEFINE state == [run[a] EXCEPT !.stage = "add_to_cart", !.cart = c, !.opened = @ \union {c}]
           new == [merchant |-> Shop, status |-> "open", items |-> <<>>]
<1>0. CartsInv'
  BY AgentAssumption, CreateCartInv DEF AgentInv, OpenCart
<1>1. /\ run[a].stage = "create_cart" /\ cart[c] = None /\ cart' = [cart EXCEPT ![c] = new]
      /\ Answered(a, state) /\ orders' = orders /\ asked' = asked
  BY DEF OpenCart, CreateCart
<1>2. ShapeInv /\ DOMAIN run = Attempts /\ IsAttempt(run[a]) /\ run[a].opened = {}
  BY <1>1 DEF AgentInv, ShapeInv, OpenedInv
<1>3. /\ IsAttempt(state) /\ state.opened = {c} /\ state.stage = "add_to_cart"
      /\ state.cart = c /\ state.pick = run[a].pick /\ state.quantity = run[a].quantity
  BY <1>2 DEF Fresh, IsAttempt
<1>4. new.items = <<>> /\ new # None
  <2>1. <<>> \in Seq(Line)
    OBVIOUS
  <2>2. new \in Cart
    BY <2>1, AgentAssumption DEF Cart
  <2> QED
    BY <2>2, AgentAssumption
<1> HIDE DEF state, new
<1>5. /\ DOMAIN run' = Attempts /\ \A b \in Attempts \ {a} : run'[b] = run[b]
      /\ IsAttempt(run'[a]) /\ run'[a].opened = {c}
      /\ run'[a].pick = run[a].pick /\ run'[a].quantity = run[a].quantity
      /\ run'[a] = state \/ run'[a].stage = "report"
  BY <1>1, <1>2, <1>3, AnsweredState
<1>6. cart'[c] = new /\ \A d \in CartIds \ {c} : cart'[d] = cart[d]
  BY <1>1 DEF AgentInv, CartsInv, CartTypeOK
<1>7. /\ \A b \in Attempts : c \notin run[b].opened
      /\ \A b \in Attempts \ {a} : run'[b] = run[b] /\ run'[b].opened = run[b].opened
      /\ \A i \in DOMAIN orders : orders[i].cart # c
  BY <1>1, <1>5 DEF AgentInv, OpenedInv, OrderedInv
<1>8. ShapeInv'
  BY <1>1, <1>2, <1>5 DEF ShapeInv
<1>9. OpenedInv'
  <2>1. ASSUME NEW b \in Attempts, NEW d \in run'[b].opened
        PROVE  d \in CartIds /\ cart'[d] # None
    BY <1>4, <1>5, <1>6, <1>7 DEF AgentInv, OpenedInv
  <2>2. ASSUME NEW b \in Attempts, NEW e \in Attempts, b # e
        PROVE  run'[b].opened \intersect run'[e].opened = {}
    BY <2>2, <1>5, <1>7 DEF AgentInv, OpenedInv
  <2>3. ASSUME NEW b \in Attempts
        PROVE  /\ run'[b].stage \in Stages
               /\ run'[b].stage \in {"idle", "discover", "create_cart"} => run'[b].opened = {}
               /\ run'[b].stage \in {"add_to_cart", "checkout", "authorize"} =>
                    run'[b].opened = {run'[b].cart}
               /\ \A d, e \in run'[b].opened : d = e
    <3>1. CASE b = a
      <4>1. run'[b].opened = {c} /\ (run'[b] = state \/ run'[b].stage = "report")
        BY <3>1, <1>5
      <4>2. /\ run'[b].stage \in {"add_to_cart", "report"}
            /\ run'[b].stage = "add_to_cart" => run'[b].cart = c
        BY <4>1, <1>3
      <4> QED
        BY <4>1, <4>2 DEF Stages
    <3>2. CASE b # a
      BY <3>2, <1>7 DEF AgentInv, OpenedInv
    <3> QED
      BY <3>1, <3>2
  <2> QED
    BY <2>1, <2>2, <2>3 DEF OpenedInv
<1>10. LineInv'
  <2>1. ASSUME NEW b \in Attempts \ {a}, run[b].stage \in {"add_to_cart", "checkout"}
        PROVE  cart'[run[b].cart] = cart[run[b].cart]
    BY <2>1, <1>6, <1>7 DEF AgentInv, OpenedInv
  <2> QED
    BY <2>1, <1>3, <1>4, <1>5, <1>6, <1>7 DEF AgentInv, LineInv, OneLine
<1>11. OrderedInv'
  BY <1>1, <1>5, <1>6, <1>7 DEF AgentInv, OrderedInv
<1>12. AskedInv'
  <2>1. ASSUME NEW b \in Attempts, run'[b].stage = "authorize" PROVE Priced(b)'
    <3>1. b # a
      BY <2>1, <1>3, <1>5
    <3> QED
      BY <2>1, <3>1, <1>1, <1>7 DEF AgentInv, AskedInv, Priced
  <2>2. \A q \in DOMAIN asked : asked[q].by # a
    BY <1>1 DEF AgentInv, AskedInv
  <2> QED
    BY <2>1, <2>2, <1>1, <1>7 DEF AgentInv, AskedInv
<1> QED
  BY <1>0, <1>8, <1>9, <1>10, <1>11, <1>12 DEF AgentInv

(* An attempt that goes on with its cart keeps what everybody opened.       *)
LEMMA KeepsItsCart ==
  ASSUME AgentInv, NEW a \in Attempts, NEW c, run[a].opened = {c},
         \A b \in Attempts \ {a} : run'[b] = run[b], run'[a].opened = {c},
         run'[a].stage \in {"checkout", "authorize", "report"},
         run'[a].stage # "report" => run'[a].cart = c,
         \A d \in CartIds : cart[d] # None => cart'[d] # None
  PROVE  OpenedInv'
<1>1. \A b \in Attempts : run'[b].opened = run[b].opened
  OBVIOUS
<1>2. /\ \A b \in Attempts : \A d \in run'[b].opened : d \in CartIds /\ cart'[d] # None
      /\ \A b, d \in Attempts : b # d => run'[b].opened \intersect run'[d].opened = {}
  BY <1>1 DEF AgentInv, OpenedInv
<1>3. ASSUME NEW b \in Attempts
      PROVE  /\ run'[b].stage \in Stages
             /\ run'[b].stage \in {"idle", "discover", "create_cart"} => run'[b].opened = {}
             /\ run'[b].stage \in {"add_to_cart", "checkout", "authorize"} =>
                  run'[b].opened = {run'[b].cart}
             /\ \A d, e \in run'[b].opened : d = e
  <2>1. CASE b = a
    BY <2>1 DEF Stages
  <2>2. CASE b # a
    BY <2>2 DEF AgentInv, OpenedInv
  <2> QED
    BY <2>1, <2>2
<1> QED
  BY <1>2, <1>3 DEF OpenedInv

LEMMA AddLineInv ==
  ASSUME AgentInv, NEW a \in Attempts, AddLine(a), UNCHANGED catalogVars
  PROVE  AgentInv'
<1> DEFINE c == run[a].cart
           s == run[a].pick.sku
           q == run[a].quantity
           line == [sku |-> s, price |-> Found(products, Shop, s).price, quantity |-> q]
           stage == IF Totals((cart')[c].items) THEN "checkout" ELSE "report"
           state == [run[a] EXCEPT !.stage = stage]
           full == [cart[c] EXCEPT !.items = <<line>>]
<1>0. CartsInv' /\ full \in Cart /\ full # None
  <2>1. /\ run[a].stage = "add_to_cart" /\ AddItem(c, Shop, s, q)
        /\ cart[c] # None /\ Found(products, Shop, s) # None /\ ValidQuantity(q)
    BY DEF AddLine, AddItem, GetCart, InStock
  <2>2. c \in CartIds /\ q \in Int /\ CartsInv
    BY <2>1 DEF AgentInv, OpenedInv, ShapeInv, IsAttempt
  <2> HIDE DEF c, s, q
  <2>3. Found(products, Shop, s) \in Product /\ Found(products, Shop, s).sku = s
    BY <2>1, <2>2, FoundRow
  <2>4. s \in Skus /\ Found(products, Shop, s).price \in Prices /\ q \in Nat
    BY <2>1, <2>2, <2>3 DEF Product, ValidQuantity
  <2>5. CartsInv'
    BY <2>1, <2>2, <2>4, AgentAssumption, AddItemInv
  <2>6. line \in Line /\ cart[c] \in Cart
    BY <2>1, <2>2, <2>4 DEF Line, CartsInv, CartTypeOK
  <2> HIDE DEF line
  <2>7. <<line>> \in Seq(Line)
    BY <2>6
  <2>8. full \in Cart
    BY <2>6, <2>7 DEF Cart
  <2> QED
    BY <2>5, <2>8, AgentAssumption
<1>1. /\ run[a].stage = "add_to_cart" /\ cart[c] # None /\ cart[c].status = "open"
      /\ cart' = [cart EXCEPT ![c].items = WithItem(@, s, Found(products, Shop, s).price, q)]
      /\ Answered(a, state) /\ orders' = orders /\ asked' = asked
  BY DEF AddLine, AddItem, GetCart
<1>2. /\ ShapeInv /\ DOMAIN run = Attempts /\ IsAttempt(run[a]) /\ run[a].opened = {c}
      /\ c \in CartIds /\ DOMAIN cart = CartIds /\ cart[c] \in Cart /\ cart[c].items = <<>>
  BY <1>1 DEF AgentInv, ShapeInv, OpenedInv, LineInv, CartsInv, CartTypeOK
<1>3. /\ IsAttempt(state) /\ state.opened = {c} /\ state.stage = stage
      /\ state.cart = c /\ state.pick = run[a].pick /\ state.quantity = q
  BY <1>2 DEF Fresh, IsAttempt
<1>4. stage \in {"checkout", "report"}
  OBVIOUS
<1>5. WithItem(<<>>, s, Found(products, Shop, s).price, q) = <<line>>
  <2>1. IndexOf(<<>>, s) = 0
    BY DEF IndexOf, SelectInSeq
  <2> QED
    BY <2>1 DEF WithItem
<1>6. cart' = [cart EXCEPT ![c] = full]
  BY <1>1, <1>2, <1>5
<1>7. OneLine(<<line>>, run[a])
  BY DEF OneLine
<1> HIDE DEF state, line, full, q, s
<1>8. /\ DOMAIN run' = Attempts /\ \A b \in Attempts \ {a} : run'[b] = run[b]
      /\ IsAttempt(run'[a]) /\ run'[a].opened = {c}
      /\ run'[a].pick = run[a].pick /\ run'[a].quantity = run[a].quantity
      /\ run'[a] = state \/ run'[a].stage = "report"
  BY <1>1, <1>2, <1>3, AnsweredState DEF q
<1> HIDE DEF stage
<1>9. /\ cart'[c] = full /\ full.items = <<line>> /\ full.status = "open"
      /\ \A d \in CartIds \ {c} : cart'[d] = cart[d]
  BY <1>1, <1>2, <1>6 DEF full, Cart
<1> HIDE DEF c
<1>10. /\ run'[a].stage \in {"checkout", "report"}
       /\ run'[a].stage # "report" => run'[a].cart = c
  BY <1>3, <1>4, <1>8
<1>11. /\ \A b \in Attempts \ {a} : c \notin run[b].opened
       /\ \A b \in Attempts : run'[b].opened = run[b].opened
       /\ \A i \in DOMAIN orders : orders[i].cart # c
  BY <1>1, <1>2, <1>8, Zenon DEF AgentInv, OpenedInv, OrderedInv
<1>12. ShapeInv'
  BY <1>1, <1>2, <1>8 DEF ShapeInv
<1>13. OpenedInv'
  BY <1>0, <1>2, <1>8, <1>9, <1>10, KeepsItsCart
<1>14. LineInv'
  <2>1. ASSUME NEW b \in Attempts \ {a}, run[b].stage \in {"add_to_cart", "checkout"}
        PROVE  cart'[run[b].cart] = cart[run[b].cart]
    BY <2>1, <1>9, <1>11 DEF AgentInv, OpenedInv
  <2>2. ASSUME NEW b \in Attempts
        PROVE  /\ run'[b].stage = "add_to_cart" => cart'[run'[b].cart].items = <<>>
               /\ run'[b].stage = "checkout" => OneLine(cart'[run'[b].cart].items, run'[b])
    <3>1. CASE b = a
      BY <3>1, <1>7, <1>8, <1>9, <1>10 DEF OneLine, q
    <3>2. CASE b # a
      BY <3>2, <2>1, <1>8 DEF AgentInv, LineInv
    <3> QED
      BY <3>1, <3>2
  <2> QED
    BY <2>2 DEF LineInv, OneLine
<1>15. OrderedInv'
  BY <1>1, <1>2, <1>8, <1>9, <1>11 DEF AgentInv, OrderedInv, OneLine
<1>16. AskedInv'
  <2>1. ASSUME NEW b \in Attempts, run'[b].stage = "authorize" PROVE Priced(b)'
    <3>1. b # a
      BY <2>1, <1>10
    <3> QED
      BY <2>1, <3>1, <1>1, <1>8 DEF AgentInv, AskedInv, Priced
  <2>2. \A r \in DOMAIN asked : asked[r].by # a
    BY <1>1 DEF AgentInv, AskedInv
  <2> QED
    BY <2>1, <2>2, <1>1, <1>8 DEF AgentInv, AskedInv
<1> QED
  BY <1>0, <1>12, <1>13, <1>14, <1>15, <1>16 DEF AgentInv

LEMMA PlaceOrderInv ==
  ASSUME AgentInv, NEW a \in Attempts, PlaceOrder(a), UNCHANGED catalogVars
  PROVE  AgentInv'
<1> DEFINE c == run[a].cart
           subtotal == Subtotal(cart[c].items)
           order == [cart |-> c, merchant |-> Shop, items |-> cart[c].items,
                     subtotal |-> subtotal, discount |-> 0, total |-> subtotal - 0]
           stage == IF order.total <= 0 THEN "report" ELSE "authorize"
           state == [run[a] EXCEPT !.total = order.total, !.stage = stage]
           full == [cart[c] EXCEPT !.status = "checked_out"]
           n == Len(orders) + 1
<1>0. CartsInv' /\ cart[c] \in Cart
  <2>1. c \in CartIds /\ Checkout(c, Shop, 0) /\ cart[c] # None
    BY DEF PlaceOrder, Checkout, GetCart, AgentInv, OpenedInv
  <2> HIDE DEF c
  <2> QED
    BY <2>1, AgentAssumption, CheckoutInv DEF AgentInv, CartsInv, CartTypeOK
<1>1. /\ run[a].stage = "checkout" /\ cart[c].status = "open" /\ cart[c] # None
      /\ cart' = [cart EXCEPT ![c] = full] /\ orders' = Append(orders, order) /\ asked' = asked
  BY DEF PlaceOrder, Checkout, CloseCart, GetCart
<1>2. /\ ShapeInv /\ DOMAIN run = Attempts /\ IsAttempt(run[a]) /\ run[a].opened = {c}
      /\ c \in CartIds /\ DOMAIN cart = CartIds
      /\ OneLine(cart[c].items, run[a]) /\ \E S : orders \in Seq(S)
  BY <1>1 DEF AgentInv, ShapeInv, OpenedInv, LineInv, CartsInv, CartTypeOK
<1>3. /\ IsAttempt(state) /\ state.opened = {c} /\ state.stage = stage /\ state.cart = c
      /\ state.total = order.total /\ state.pick = run[a].pick /\ state.quantity = run[a].quantity
  BY <1>2 DEF Fresh, IsAttempt
<1>4. stage \in {"authorize", "report"} /\ order.cart = c /\ order.items = cart[c].items
  OBVIOUS
<1> HIDE DEF order
<1>5. /\ \E S : orders' \in Seq(S)
      /\ DOMAIN orders' = 1..n /\ DOMAIN orders = 1..(n - 1) /\ n \in Nat \ {0}
      /\ orders'[n] = order /\ Last(orders') = order
      /\ \A i \in DOMAIN orders : orders'[i] = orders[i]
  <2>1. /\ \E S : orders' \in Seq(S)
        /\ DOMAIN orders' = 1..(Len(orders) + 1) /\ DOMAIN orders = 1..Len(orders)
        /\ orders'[Len(orders) + 1] = order /\ Last(orders') = order
        /\ \A i \in DOMAIN orders : orders'[i] = orders[i]
        /\ Len(orders) \in Nat
    <3> DEFINE after == Append(orders, order)
    <3>1. /\ \E S : after \in Seq(S)
          /\ DOMAIN after = 1..(Len(orders) + 1) /\ DOMAIN orders = 1..Len(orders)
          /\ after[Len(orders) + 1] = order /\ Last(after) = order
          /\ \A i \in DOMAIN orders : after[i] = orders[i]
          /\ Len(orders) \in Nat
      <4>1. \E S : orders \in Seq(S)
        BY <1>2
      <4> QED
        BY <4>1, Extended, Zenon
    <3>2. orders' = after
      BY <1>1
    <3> HIDE DEF after
    <3> QED
      BY <3>1, <3>2
  <2>2. n - 1 = Len(orders)
    BY <2>1
  <2> QED
    BY <2>1, <2>2
<1>6. Answered(a, state)
  <2>1. Answered(a, [run[a] EXCEPT !.total = Last(orders').total,
                       !.stage = IF Last(orders').total <= 0 THEN "report" ELSE "authorize"])
    BY Zenon DEF PlaceOrder
  <2> QED
    BY <2>1, <1>5, Zenon
<1> HIDE DEF state, full
<1>7. /\ DOMAIN run' = Attempts /\ \A b \in Attempts \ {a} : run'[b] = run[b]
      /\ IsAttempt(run'[a]) /\ run'[a].opened = {c}
      /\ run'[a].pick = run[a].pick /\ run'[a].quantity = run[a].quantity
      /\ run'[a] = state \/ run'[a].stage = "report"
  BY <1>6, <1>2, <1>3, AnsweredState
<1> HIDE DEF stage, n
<1>8. /\ cart'[c] = full /\ full.items = cart[c].items /\ full.status = "checked_out" /\ full # None
      /\ \A d \in CartIds \ {c} : cart'[d] = cart[d]
  <2>1. full \in Cart /\ full.items = cart[c].items /\ full.status = "checked_out"
    BY <1>0 DEF full, Cart
  <2> QED
    BY <1>1, <1>2, <2>1, AgentAssumption
<1> HIDE DEF c
<1>9. /\ run'[a].stage \in {"authorize", "report"}
      /\ run'[a].stage # "report" => run'[a].cart = c /\ run'[a].total = order.total
  BY <1>3, <1>4, <1>7 DEF stage
<1>10. /\ \A b \in Attempts \ {a} : c \notin run[b].opened
       /\ \A b \in Attempts : run'[b].opened = run[b].opened
       /\ \A i \in DOMAIN orders : orders[i].cart # c
  BY <1>1, <1>2, <1>7, Zenon DEF AgentInv, OpenedInv, OrderedInv
<1>11. ShapeInv'
  BY <1>1, <1>2, <1>5, <1>7 DEF AgentInv, ShapeInv
<1>12. OpenedInv'
  BY <1>2, <1>7, <1>8, <1>9, KeepsItsCart
<1>13. LineInv'
  <2>1. ASSUME NEW b \in Attempts \ {a}, run[b].stage \in {"add_to_cart", "checkout"}
        PROVE  cart'[run[b].cart] = cart[run[b].cart]
    BY <2>1, <1>8, <1>10 DEF AgentInv, OpenedInv
  <2> QED
    BY <2>1, <1>7, <1>9 DEF AgentInv, LineInv
<1>14. \A i \in 1..n : i = n \/ i \in DOMAIN orders
  BY <1>5
<1>15. OrderedInv'
  <2>1. ASSUME NEW i \in 1..n
        PROVE  /\ orders'[i].cart \in CartIds /\ cart'[orders'[i].cart] # None
               /\ cart'[orders'[i].cart].status = "checked_out"
               /\ \A b \in Attempts : orders'[i].cart \in run'[b].opened => OneLine(orders'[i].items, run'[b])
    <3>1. CASE i = n
      BY <3>1, <1>2, <1>4, <1>5, <1>7, <1>8, <1>10 DEF OneLine
    <3>2. CASE i \in DOMAIN orders
      <4>1. orders'[i] = orders[i] /\ orders[i].cart # c
        BY <3>2, <1>5, <1>10
      <4> QED
        BY <3>2, <4>1, <1>7, <1>8, <1>10 DEF AgentInv, OrderedInv, OneLine
    <3> QED
      BY <3>1, <3>2, <1>14
  <2>2. ASSUME NEW i \in 1..n, NEW j \in 1..n, orders'[i].cart = orders'[j].cart
        PROVE  i = j
    BY <2>2, <1>4, <1>5, <1>10, <1>14 DEF AgentInv, OrderedInv
  <2> QED
    BY <2>1, <2>2, <1>5 DEF OrderedInv
<1>16. AskedInv'
  <2>1. ASSUME NEW b \in Attempts, run'[b].stage = "authorize" PROVE Priced(b)'
    <3>1. CASE b = a
      <4>1. n \in 1..n /\ orders'[n].cart = run'[a].cart /\ orders'[n].total = run'[a].total
        BY <2>1, <3>1, <1>4, <1>5, <1>9
      <4> QED
        BY <3>1, <4>1, <1>5 DEF Priced
    <3>2. CASE b # a
      <4>1. PICK i \in DOMAIN orders : orders[i].cart = run[b].cart /\ orders[i].total = run[b].total
        BY <2>1, <3>2, <1>7 DEF AgentInv, AskedInv, Priced
      <4>2. i \in 1..n /\ orders'[i] = orders[i] /\ run'[b] = run[b]
        BY <3>2, <1>5, <1>7
      <4> QED
        BY <4>1, <4>2, <1>5 DEF Priced
    <3> QED
      BY <3>1, <3>2
  <2>2. \A i \in DOMAIN orders : i \in DOMAIN orders' /\ orders'[i] = orders[i]
    BY <1>5
  <2>3. \A r \in DOMAIN asked : asked[r].by # a
    BY <1>1 DEF AgentInv, AskedInv
  <2>4. ASSUME NEW r \in DOMAIN asked
        PROVE  /\ asked[r].by \in Attempts /\ run'[asked[r].by].stage = "report"
               /\ \E i \in DOMAIN orders' :
                    /\ orders'[i].cart \in run'[asked[r].by].opened
                    /\ asked[r].cart = orders'[i].cart /\ asked[r].amount = orders'[i].total
               /\ ~ (RequestCeiling # 0 /\ asked[r].amount > RequestCeiling)
    <3>1. asked[r].by \in Attempts /\ run'[asked[r].by] = run[asked[r].by]
      BY <2>3, <1>7 DEF AgentInv, AskedInv
    <3>2. PICK i \in DOMAIN orders :
            /\ orders[i].cart \in run[asked[r].by].opened
            /\ asked[r].cart = orders[i].cart /\ asked[r].amount = orders[i].total
      BY Zenon DEF AgentInv, AskedInv
    <3>3. /\ i \in DOMAIN orders' /\ orders'[i].cart \in run'[asked[r].by].opened
          /\ asked[r].cart = orders'[i].cart /\ asked[r].amount = orders'[i].total
      BY <3>1, <3>2, <2>2
    <3>4. /\ run'[asked[r].by].stage = "report"
          /\ ~ (RequestCeiling # 0 /\ asked[r].amount > RequestCeiling)
      BY <3>1 DEF AgentInv, AskedInv
    <3> QED
      BY <3>1, <3>3, <3>4, Zenon
  <2>5. \A p, r \in DOMAIN asked : asked[p].by = asked[r].by => p = r
    BY DEF AgentInv, AskedInv
  <2> QED
    BY <2>1, <2>4, <2>5, <1>1 DEF AskedInv
<1> QED
  BY <1>0, <1>11, <1>12, <1>13, <1>15, <1>16 DEF AgentInv

LEMMA AuthorizeInv ==
  ASSUME AgentInv, NEW a \in Attempts, Authorize(a), UNCHANGED catalogVars
  PROVE  AgentInv'
<1> DEFINE over == RequestCeiling # 0 /\ run[a].total > RequestCeiling
           done == [run[a] EXCEPT !.stage = "report"]
           request == [by |-> a, cart |-> run[a].cart, amount |-> run[a].total]
           n == Len(asked) + 1
<1>1. run[a].stage = "authorize" /\ cart' = cart /\ orders' = orders /\ UNCHANGED <<catalogVars, cartVars>>
  BY DEF Authorize, cartVars
<1>2. /\ ShapeInv /\ DOMAIN run = Attempts /\ IsAttempt(run[a])
      /\ run[a].opened = {run[a].cart} /\ \E S : asked \in Seq(S)
  BY <1>1 DEF AgentInv, ShapeInv, OpenedInv
<1>3. /\ IsAttempt(done) /\ done.opened = run[a].opened /\ done.stage = "report"
      /\ done.pick = run[a].pick /\ done.quantity = run[a].quantity
  BY <1>2 DEF Fresh, IsAttempt
<1>4. CASE over
  <2>1. run' = [run EXCEPT ![a] = done] /\ asked' = asked
    BY <1>4, <1>2 DEF Authorize
  <2> HIDE DEF done
  <2> QED
    BY <2>1, <1>1, <1>3, GoesOn
<1>5. CASE ~over
  <2>1. asked' = Append(asked, request) /\ Answered(a, done)
    BY <1>5 DEF Authorize, AmountAsked
  <2>2. request.by = a /\ request.cart = run[a].cart /\ request.amount = run[a].total
    OBVIOUS
  <2> HIDE DEF done, request
  <2>3. /\ DOMAIN run' = Attempts /\ \A b \in Attempts \ {a} : run'[b] = run[b]
        /\ IsAttempt(run'[a]) /\ run'[a].opened = run[a].opened
        /\ run'[a].pick = run[a].pick /\ run'[a].quantity = run[a].quantity
        /\ run'[a].stage = "report"
    BY <2>1, <1>2, <1>3, AnsweredState
  <2>4. \A b \in Attempts : run'[b].opened = run[b].opened
    BY <2>3
  <2>5. /\ \E S : asked' \in Seq(S)
        /\ DOMAIN asked' = 1..n /\ DOMAIN asked = 1..(n - 1) /\ n \in Nat \ {0}
        /\ asked'[n] = request
        /\ \A i \in DOMAIN asked : asked'[i] = asked[i]
    <3>1. /\ \E S : asked' \in Seq(S)
          /\ DOMAIN asked' = 1..(Len(asked) + 1) /\ DOMAIN asked = 1..Len(asked)
          /\ asked'[Len(asked) + 1] = request
          /\ \A i \in DOMAIN asked : asked'[i] = asked[i]
          /\ Len(asked) \in Nat
      BY <2>1, <1>2, Extended
    <3>2. n - 1 = Len(asked)
      BY <3>1
    <3> QED
      BY <3>1, <3>2
  <2> HIDE DEF n
  <2>6. \A i \in 1..n : i = n \/ i \in DOMAIN asked
    BY <2>5
  <2>7. CartsInv' /\ ShapeInv'
    BY <1>1, <2>3, <2>5, CartsUnchanged DEF AgentInv, ShapeInv
  <2>8. OpenedInv'
    BY <1>1, <1>2, <2>3, KeepsItsCart
  <2>9. LineInv'
    BY <1>1, <2>3 DEF AgentInv, LineInv
  <2>10. OrderedInv'
    <3>1. ASSUME NEW i \in DOMAIN orders, NEW b \in Attempts, orders[i].cart \in run'[b].opened
          PROVE  OneLine(orders[i].items, run'[b])
      BY <3>1, <2>3, <2>4 DEF AgentInv, OrderedInv, OneLine
    <3> QED
      BY <3>1, <1>1 DEF AgentInv, OrderedInv
  <2>11. AskedInv'
    <3>1. ASSUME NEW b \in Attempts, run'[b].stage = "authorize" PROVE Priced(b)'
      BY <3>1, <1>1, <2>3 DEF AgentInv, AskedInv, Priced
    <3>2. \A r \in DOMAIN asked : asked[r].by # a
      BY <1>1 DEF AgentInv, AskedInv
    <3>3. PICK k \in DOMAIN orders : orders[k].cart = run[a].cart /\ orders[k].total = run[a].total
      BY <1>1 DEF AgentInv, AskedInv, Priced
    <3>4. ASSUME NEW r \in 1..n
          PROVE  /\ asked'[r].by \in Attempts /\ run'[asked'[r].by].stage = "report"
                 /\ \E i \in DOMAIN orders :
                      /\ orders[i].cart \in run'[asked'[r].by].opened
                      /\ asked'[r].cart = orders[i].cart /\ asked'[r].amount = orders[i].total
                 /\ ~ (RequestCeiling # 0 /\ asked'[r].amount > RequestCeiling)
      <4>1. CASE r = n
        <5>1. asked'[r] = request /\ asked'[r].by = a
          BY <4>1, <2>2, <2>5
        <5>2. /\ orders[k].cart \in run'[a].opened
              /\ asked'[r].cart = orders[k].cart /\ asked'[r].amount = orders[k].total
          BY <5>1, <3>3, <2>2, <2>3, <1>2
        <5>3. ~ (RequestCeiling # 0 /\ asked'[r].amount > RequestCeiling)
          BY <5>1, <2>2, <1>5
        <5> QED
          BY <5>1, <5>2, <5>3, <2>3, Zenon
      <4>2. CASE r \in DOMAIN asked
        <5>1. asked'[r] = asked[r] /\ asked[r].by \in Attempts /\ asked[r].by # a
          BY <4>2, <2>5, <3>2 DEF AgentInv, AskedInv
        <5>2. run'[asked[r].by] = run[asked[r].by]
          BY <5>1, <2>3
        <5> QED
          BY <4>2, <5>1, <5>2, Zenon DEF AgentInv, AskedInv
      <4> QED
        BY <4>1, <4>2, <2>6
    <3>5. ASSUME NEW p \in 1..n, NEW r \in 1..n, asked'[p].by = asked'[r].by PROVE p = r
      BY <3>5, <3>2, <2>2, <2>5, <2>6 DEF AgentInv, AskedInv
    <3> QED
      BY <3>1, <3>4, <3>5, <1>1, <2>5 DEF AskedInv
  <2> QED
    BY <2>7, <2>8, <2>9, <2>10, <2>11 DEF AgentInv
<1> QED
  BY <1>4, <1>5

(* Merchants edit the catalogue between two calls.                          *)
LEMMA EditedInv ==
  ASSUME AgentInv, CatalogNext, UNCHANGED <<agentVars, cartVars>>
  PROVE  AgentInv'
<1>1. CartsInv'
  BY CatalogInv DEF AgentInv
<1>2. UNCHANGED <<run, asked, cart, orders>>
  BY DEF agentVars, cartVars
<1> QED
  BY <1>1, <1>2 DEF AgentInv, ShapeInv, OpenedInv, LineInv, OrderedInv, AskedInv, OneLine, Priced, IsAttempt

LEMMA AgentInvariant == AgentSpec => []AgentInv
<1>1. AgentInv /\ [AgentNext]_<<catalogVars, cartVars, agentVars>> => AgentInv'
  <2> SUFFICES ASSUME AgentInv, [AgentNext]_<<catalogVars, cartVars, agentVars>> PROVE AgentInv'
    OBVIOUS
  <2>1. CASE CatalogNext /\ UNCHANGED <<agentVars, cartVars>>
    BY <2>1, EditedInv
  <2>2. ASSUME NEW a \in Attempts, AgentStep(a), UNCHANGED catalogVars PROVE AgentInv'
    <3>1. CASE \E goal \in Goals, wants \in SUBSET Skus, b \in Budgets, q \in Asks :
                 Start(a, goal, wants, b, q)
      BY <3>1, <2>2, StartInv, AgentAssumption
    <3>2. CASE \E c \in CartIds : OpenCart(a, c)
      BY <3>2, <2>2, OpenCartInv
    <3>3. CASE Discover(a) \/ Fails(a)
      BY <3>3, <2>2, DiscoverInv, FailsInv
    <3>4. CASE AddLine(a) \/ PlaceOrder(a) \/ Authorize(a)
      BY <3>4, <2>2, AddLineInv, PlaceOrderInv, AuthorizeInv
    <3> QED
      BY <2>2, <3>1, <3>2, <3>3, <3>4 DEF AgentStep
  <2>3. CASE UNCHANGED <<catalogVars, cartVars, agentVars>>
    <3>1. CartsInv' /\ UNCHANGED <<run, asked, cart, orders>>
      BY <2>3, CartsUnchanged DEF AgentInv, agentVars, cartVars
    <3> QED
      BY <3>1 DEF AgentInv, ShapeInv, OpenedInv, LineInv, OrderedInv, AskedInv, OneLine, Priced, IsAttempt
  <2> QED
    BY <2>1, <2>2, <2>3 DEF AgentNext
<1> QED
  BY <1>1, AgentInitInv, PTL DEF AgentSpec

-----------------------------------------------------------------------------
(* Whatever answers are lost and prices change, an attempt of the runtime   *)
(* opens one cart, orders the one line it recommended, and asks once, for   *)
(* exactly what the order costs and no more than its ceiling                *)
(* (AgentRunner.run, the tools).                                            *)
THEOREM AgentAsksForItsOrder == AgentSpec => []AsksForWhatItOrdered
<1>1. AgentInv => AsksForWhatItOrdered
  <2> SUFFICES ASSUME AgentInv, NEW a \in Attempts
               PROVE  LET made == {i \in DOMAIN orders : orders[i].cart \in run[a].opened}
                          requests == {q \in DOMAIN asked : asked[q].by = a}
                      IN /\ \A S \in {run[a].opened, made, requests} : Cardinality(S) <= 1
                         /\ \A i \in made :
                              /\ Len(orders[i].items) = 1
                              /\ orders[i].items[1].sku = run[a].pick.sku
                              /\ orders[i].items[1].quantity = run[a].quantity
                         /\ \A q \in requests :
                              /\ \E i \in made : /\ asked[q].cart = orders[i].cart
                                                 /\ asked[q].amount = orders[i].total
                              /\ ~ (RequestCeiling # 0 /\ asked[q].amount > RequestCeiling)
    BY Zenon DEF AsksForWhatItOrdered
  <2> DEFINE made == {i \in DOMAIN orders : orders[i].cart \in run[a].opened}
             requests == {q \in DOMAIN asked : asked[q].by = a}
  <2>1. \A i, j \in made : i = j
    BY DEF AgentInv, OpenedInv, OrderedInv
  <2>2. \A p, q \in requests : p = q
    BY DEF AgentInv, AskedInv
  <2>3. \A c, d \in run[a].opened : c = d
    BY DEF AgentInv, OpenedInv
  <2>4. \A i \in made : OneLine(orders[i].items, run[a])
    BY DEF AgentInv, OrderedInv
  <2>5. ASSUME NEW q \in requests
        PROVE  /\ \E i \in made : asked[q].cart = orders[i].cart /\ asked[q].amount = orders[i].total
               /\ ~ (RequestCeiling # 0 /\ asked[q].amount > RequestCeiling)
    BY DEF AgentInv, AskedInv
  <2>6. Cardinality(made) <= 1 /\ Cardinality(requests) <= 1 /\ Cardinality(run[a].opened) <= 1
    <3> HIDE DEF made, requests
    <3> QED
      BY <2>1, <2>2, <2>3, OnlyOne
  <2> QED
    BY <2>4, <2>5, <2>6 DEF OneLine
<1> QED
  BY <1>1, AgentInvariant, PTL

(* What the runtime buys is billed like any shopper's: at a price, and for  *)
(* no more than a quantity, the merchant listed.                            *)
THEOREM AgentBuysWhatWasOnSale == AgentSpec => []LinesWereOnSale
<1>1. AgentInv => LinesWereOnSale
  BY OnSaleBilled DEF AgentInv
<1> QED
  BY <1>1, AgentInvariant, PTL

(* Of the calls an attempt makes only its checkout makes an order.          *)
LEMMA AgentStepTyped ==
  ASSUME AgentInv, orders \in Seq(CartOrder), NEW a \in Attempts, AgentStep(a)
  PROVE  orders' \in Seq(CartOrder)
<1>1. CASE PlaceOrder(a)
  <2>1. run[a].stage = "checkout" /\ Checkout(run[a].cart, Shop, 0)
    BY <1>1 DEF PlaceOrder
  <2>2. run[a].cart \in CartIds /\ CartsInv
    BY <2>1 DEF AgentInv, OpenedInv
  <2> QED
    BY <2>1, <2>2, OrderTyped, AgentAssumption
<1>2. CASE ~PlaceOrder(a)
  BY <1>2 DEF AgentStep, Start, Discover, OpenCart, CreateCart, AddLine, AddItem, Authorize, Fails, cartVars
<1> QED
  BY <1>1, <1>2

(* An attempt is at a stage there is, opens carts there are, and what the   *)
(* control plane is asked names an attempt and a cart.                      *)
THEOREM AgentTypeCorrect == AgentSpec => []AgentTypeOK
<1> DEFINE Typed == orders \in Seq(CartOrder)
<1>1. CartsInit => Typed
  BY DEF CartsInit
<1>2. AgentInv /\ Typed /\ [AgentNext]_<<catalogVars, cartVars, agentVars>> => Typed'
  BY AgentStepTyped DEF AgentNext, cartVars
<1>3. AgentInv /\ Typed => AgentTypeOK
  <2> SUFFICES ASSUME AgentInv, Typed PROVE AgentTypeOK
    OBVIOUS
  <2>1. CartsTypeOK
    BY DEF AgentInv, CartsInv, CartTypeOK, CartsTypeOK
  <2>2. \A a \in Attempts : run[a].stage \in Stages /\ run[a].opened \subseteq CartIds
    BY DEF AgentInv, OpenedInv
  <2>3. ASSUME NEW i \in DOMAIN asked PROVE asked[i].by \in Attempts /\ asked[i].cart \in CartIds
    <3>1. /\ asked[i].by \in Attempts
          /\ \E k \in DOMAIN orders : /\ orders[k].cart \in run[asked[i].by].opened
                                      /\ asked[i].cart = orders[k].cart
      BY DEF AgentInv, AskedInv
    <3> QED
      BY <2>2, <3>1
  <2> QED
    BY <2>1, <2>2, <2>3 DEF AgentTypeOK
<1> QED
  BY <1>1, <1>2, <1>3, AgentInvariant, PTL DEF AgentSpec

-----------------------------------------------------------------------------
(* What is suggested around: no two at one place.                           *)
Anchor == [sku : Skus, price : Prices, family : Families, at : Nat]

Anchored(anchors) ==
  /\ IsFiniteSet(anchors) /\ anchors \subseteq Anchor
  /\ \A a, b \in anchors : a.at = b.at => a = b

(* Suggestions that may be ranked together: one of a kind for a sku.        *)
Scored(x) == x.kind \in Kinds /\ x.sku \in Nat /\ x.score \in Int

Rankable(suggestions) ==
  /\ IsFiniteSet(suggestions)
  /\ \A x \in suggestions : Scored(x)
  /\ \A x, y \in suggestions : x.kind = y.kind /\ x.sku = y.sku => x = y

-----------------------------------------------------------------------------
(* A finite set has an element no other comes before.                       *)
LEMMA FirstExists ==
  ASSUME NEW S, IsFiniteSet(S), S # {}, NEW R,
         \A x, y, z \in S : <<x, y>> \in R /\ <<y, z>> \in R => <<x, z>> \in R,
         \A x \in S : <<x, x>> \notin R
  PROVE  \E x \in S : \A y \in S : <<y, x>> \notin R
<1> DEFINE Before(x) == {y \in S : <<y, x>> \in R}
           sizes == {Cardinality(Before(x)) : x \in S}
<1>1. ASSUME NEW x \in S
      PROVE  IsFiniteSet(Before(x)) /\ Cardinality(Before(x)) \in Nat
  <2>1. Before(x) \in SUBSET S
    OBVIOUS
  <2> HIDE DEF Before
  <2> QED
    BY <2>1, FS_Subset, FS_CardinalityType
<1>2. ASSUME NEW x \in S, NEW y \in S, <<y, x>> \in R
      PROVE  Before(y) \subseteq Before(x) /\ y \in Before(x) /\ y \notin Before(y)
  BY <1>2
<1> HIDE DEF Before
<1>3. sizes \subseteq Nat /\ sizes # {}
  BY <1>1
<1>4. PICK x \in S : Cardinality(Before(x)) = Min(sizes)
  <2>1. Min(sizes) \in sizes
    <3> HIDE DEF sizes
    <3> QED
      BY <1>3, LeastOf
  <2> QED
    BY <2>1
<1>5. \A z \in S : Cardinality(Before(x)) <= Cardinality(Before(z))
  <2>1. \A n \in sizes : Min(sizes) <= n
    <3> HIDE DEF sizes
    <3> QED
      BY <1>3, LeastOf
  <2> QED
    BY <2>1, <1>4
<1>6. ASSUME NEW y \in S, <<y, x>> \in R PROVE FALSE
  <2>1. Before(y) \in SUBSET Before(x) /\ Before(y) # Before(x)
    BY <1>2, <1>6
  <2>2. /\ Cardinality(Before(y)) <= Cardinality(Before(x))
        /\ Cardinality(Before(y)) # Cardinality(Before(x))
    BY <2>1, <1>1, FS_Subset
  <2> QED
    BY <2>2, <1>1, <1>5
<1> QED
  BY <1>6

(* What a function makes of a finite set is finite.                         *)
LEMMA FiniteImage ==
  ASSUME NEW S, IsFiniteSet(S), NEW f, f = [x \in S |-> f[x]]
  PROVE  IsFiniteSet({f[x] : x \in S})
<1> DEFINE T == {f[x] : x \in S}
<1>1. f \in Surjection(S, T)
  BY DEF Surjection
<1> QED
  BY <1>1, FS_Surjection

-----------------------------------------------------------------------------
(* A share of the whole, in ten-thousandths.                                *)
Share(x, d) == RoundHalfEven(10000 * x, d)

Scores == 0..10000

LEMMA ShareRounded ==
  ASSUME NEW x \in Nat, NEW d \in Nat \ {0}, x <= d
  PROVE  Share(x, d) \in Scores
<1> DEFINE n == 10000 * x
           q == n \div d
           m == n % d
<1>1. q \in Nat /\ m \in Nat /\ m < d /\ n = d * q + m /\ n <= d * 10000
  OBVIOUS
<1> HIDE DEF q, m, n
<1>2. RoundHalfEven(n, d) = IF 2 * m < d \/ (2 * m = d /\ q % 2 = 0) THEN q ELSE q + 1
  BY Zenon DEF RoundHalfEven, q, m
<1>3. d * q <= d * 10000 /\ (q = 10000 => m = 0)
  <2>1. d * q \in Nat /\ d * 10000 \in Nat
    BY <1>1
  <2>2. d * q <= d * 10000
    BY <2>1, <1>1
  <2>3. ASSUME q = 10000 PROVE m = 0
    <3>1. d * q = d * 10000
      BY <2>3
    <3> QED
      BY <3>1, <2>1, <1>1
  <2> QED
    BY <2>2, <2>3
<1>4. q <= 10000
  <2> SUFFICES ASSUME q >= 10001 PROVE FALSE
    BY <1>1
  <2>1. PICK k \in Nat : q = 10001 + k
    <3>1. q - 10001 \in Nat /\ q = 10001 + (q - 10001)
      BY <1>1
    <3> QED
      BY <3>1
  <2>2. d * q = d * 10000 + d + d * k /\ d * k \in Nat
    BY <2>1
  <2> QED
    BY <2>2, <1>3
<1>5. RoundHalfEven(n, d) \in Scores
  <2> DEFINE r == RoundHalfEven(n, d)
  <2>1. r = q \/ (r = q + 1 /\ ~ (2 * m < d))
    BY <1>2, Zenon
  <2> HIDE DEF r
  <2>2. q \in Nat /\ m \in Nat /\ d > 0 /\ q <= 10000 /\ (q = 10000 => m = 0)
    BY <1>1, <1>3, <1>4
  <2>3. r \in Scores
    <3>1. CASE r = q
      BY <3>1, <2>2 DEF Scores
    <3>2. CASE r = q + 1 /\ ~ (2 * m < d)
      <4>1. q # 10000
        BY <3>2, <2>2
      <4> QED
        BY <4>1, <3>2, <2>2 DEF Scores
    <3> QED
      BY <2>1, <3>1, <3>2
  <2> QED
    BY <2>3, Zenon DEF r
<1>6. Share(x, d) = RoundHalfEven(n, d)
  BY Zenon DEF Share, n
<1> QED
  BY <1>5, <1>6, Zenon

(* Only what can be sold scores, never the anchor itself, and at most one.  *)
LEMMA ScoreBounds ==
  ASSUME NEW kind, NEW a \in Anchor, NEW row \in Product
  PROVE  /\ Score(kind, a, row) \in Scores
         /\ Score(kind, a, row) > 0 => row.stock > 0 /\ row.sku # a.sku
<1>1. /\ a.price \in Int /\ row.price \in Int
  BY CatalogAssumption DEF Anchor, Product
<1>2. CASE ~Sellable(row) \/ a.price <= 0 \/ row.sku = a.sku
  <2>1. Score(kind, a, row) = 0
    BY <1>2, Zenon DEF Score
  <2> QED
    BY <2>1 DEF Scores
<1>3. CASE ~(~Sellable(row) \/ a.price <= 0 \/ row.sku = a.sku)
  <2>1. row.stock > 0 /\ row.sku # a.sku /\ a.price \in Nat \ {0}
    BY <1>1, <1>3 DEF Sellable
  <2>2. UpsellScore(a, row) \in Scores
    <3> DEFINE steps == /\ FamilyOf(row) = a.family
                        /\ a.price < row.price /\ row.price <= 3 * a.price
    <3>1. CASE steps
      <4>1. row.price \in Nat \ {0} /\ a.price <= row.price
        BY <3>1, <2>1, <1>1
      <4>2. Share(a.price, row.price) \in Scores
        <5>1. a.price \in Nat
          BY <2>1
        <5> QED
          BY <4>1, <5>1, ShareRounded, Zenon
      <4>3. UpsellScore(a, row) = Share(a.price, row.price)
        BY <3>1 DEF UpsellScore, Share
      <4> QED
        BY <4>2, <4>3, Zenon
    <3>2. CASE ~steps
      <4>1. UpsellScore(a, row) = 0
        BY <3>2 DEF UpsellScore
      <4> QED
        BY <4>1 DEF Scores
    <3> QED
      BY <3>1, <3>2
  <2>3. CrossSellScore(a, row) \in Scores
    <3> DEFINE whole == 3 * a.price
               off == Distance(10 * row.price, whole)
    <3>1. whole \in Nat \ {0} /\ off \in Nat
      BY <2>1, <1>1 DEF Distance
    <3> HIDE DEF whole, off
    <3>2. CASE FamilyOf(row) # a.family /\ off < whole
      <4>1. whole - off \in Nat /\ whole - off <= whole
        BY <3>1, <3>2
      <4> DEFINE part == whole - off
      <4> HIDE DEF part
      <4>2. Share(part, whole) \in Scores
        <5>1. part \in Nat /\ part <= whole
          BY <4>1 DEF part
        <5> QED
          BY <5>1, <3>1, ShareRounded, Zenon
      <4>3. CrossSellScore(a, row) = Share(part, whole)
        BY <3>2 DEF CrossSellScore, whole, off, part, Share
      <4> QED
        BY <4>2, <4>3, Zenon
    <3>3. CASE ~(FamilyOf(row) # a.family /\ off < whole)
      <4>1. CrossSellScore(a, row) = 0
        BY <3>3 DEF CrossSellScore, whole, off
      <4> QED
        BY <4>1 DEF Scores
    <3> QED
      BY <3>2, <3>3
  <2>4. Score(kind, a, row) = UpsellScore(a, row) \/ Score(kind, a, row) = CrossSellScore(a, row)
    BY <1>3, Zenon DEF Score
  <2> QED
    BY <2>1, <2>2, <2>3, <2>4, Zenon
<1> QED
  BY <1>2, <1>3

-----------------------------------------------------------------------------
(* Anchors are in one order, the dearest first.                             *)
LEMMA DearerOrder ==
  ASSUME NEW a \in Anchor, NEW b \in Anchor, NEW c \in Anchor
  PROVE  /\ ~DearerFirst(a, a)
         /\ DearerFirst(a, b) /\ DearerFirst(b, c) => DearerFirst(a, c)
         /\ a.at # b.at => DearerFirst(a, b) \/ DearerFirst(b, a)
<1>1. \A x \in {a, b, c} : x.price \in Int /\ x.sku \in Nat /\ x.at \in Nat
  BY CatalogAssumption, OpportunityAssumption DEF Anchor
<1> QED
  BY <1>1 DEF DearerFirst

(* What is scored: an anchor and a listed row.                              *)
LEMMA PairScore ==
  ASSUME CatalogTypeOK, NEW kind, NEW anchors, anchors \subseteq Anchor,
         NEW rows, rows \subseteq DOMAIN products, NEW p \in anchors \X rows
  PROVE  /\ p[1] \in anchors /\ p[1] \in Anchor /\ p[2] \in rows /\ p[2] \in Nat
         /\ p = <<p[1], p[2]>> /\ products[p[2]] \in Product
         /\ ScoreOf(kind, p) \in Scores /\ ScoreOf(kind, p) \in Nat
         /\ ScoreOf(kind, p) > 0 => products[p[2]].stock > 0 /\ products[p[2]].sku # p[1].sku
<1>1. p[1] \in anchors /\ p[2] \in rows /\ p = <<p[1], p[2]>>
  OBVIOUS
<1>2. products \in Seq(Product)
  BY DEF CatalogTypeOK
<1>3. p[2] \in DOMAIN products /\ p[1] \in Anchor
  BY <1>1
<1>4. p[2] \in Nat /\ products[p[2]] \in Product
  BY <1>2, <1>3
<1> DEFINE v == ScoreOf(kind, p)
<1>5. v \in Scores /\ (v > 0 => products[p[2]].stock > 0 /\ products[p[2]].sku # p[1].sku)
  BY <1>3, <1>4, ScoreBounds, Zenon DEF ScoreOf
<1> HIDE DEF v
<1>6. v \in Nat
  BY <1>5 DEF Scores
<1> QED
  BY <1>1, <1>3, <1>4, <1>5, <1>6, Zenon DEF v

(* The pairs are in one order, the one that is kept first.                  *)
LEMMA KeptOrder ==
  ASSUME CatalogTypeOK, NEW kind, NEW anchors, Anchored(anchors),
         NEW rows, rows \subseteq DOMAIN products,
         NEW p \in anchors \X rows, NEW q \in anchors \X rows, NEW r \in anchors \X rows
  PROVE  /\ ~KeptBefore(kind, p, p)
         /\ KeptBefore(kind, p, q) /\ KeptBefore(kind, q, r) => KeptBefore(kind, p, r)
         /\ p # q => KeptBefore(kind, p, q) \/ KeptBefore(kind, q, p)
<1>1. anchors \subseteq Anchor /\ \A a, b \in anchors : a.at = b.at => a = b
  BY DEF Anchored
<1> DEFINE sp == ScoreOf(kind, p)
           sq == ScoreOf(kind, q)
           sr == ScoreOf(kind, r)
<1>2. /\ p[1] \in anchors /\ p[1] \in Anchor /\ p[2] \in Nat /\ p = <<p[1], p[2]>> /\ sp \in Nat
      /\ q[1] \in anchors /\ q[1] \in Anchor /\ q[2] \in Nat /\ q = <<q[1], q[2]>> /\ sq \in Nat
      /\ r[1] \in anchors /\ r[1] \in Anchor /\ r[2] \in Nat /\ r = <<r[1], r[2]>> /\ sr \in Nat
  BY <1>1, PairScore
<1>3. /\ KeptBefore(kind, p, p) <=> (DearerFirst(p[1], p[1]) \/ p[2] < p[2])
      /\ KeptBefore(kind, p, q) <=>
           (sp > sq \/ (sp = sq /\ (DearerFirst(p[1], q[1]) \/ (p[1] = q[1] /\ p[2] < q[2]))))
      /\ KeptBefore(kind, q, p) <=>
           (sq > sp \/ (sq = sp /\ (DearerFirst(q[1], p[1]) \/ (q[1] = p[1] /\ q[2] < p[2]))))
      /\ KeptBefore(kind, q, r) <=>
           (sq > sr \/ (sq = sr /\ (DearerFirst(q[1], r[1]) \/ (q[1] = r[1] /\ q[2] < r[2]))))
      /\ KeptBefore(kind, p, r) <=>
           (sp > sr \/ (sp = sr /\ (DearerFirst(p[1], r[1]) \/ (p[1] = r[1] /\ p[2] < r[2]))))
  <2>1. ~(sp > sp)
    BY <1>2
  <2> QED
    BY <2>1, Zenon DEF KeptBefore
<1> HIDE DEF sp, sq, sr
<1>4. /\ ~DearerFirst(p[1], p[1])
      /\ DearerFirst(p[1], q[1]) /\ DearerFirst(q[1], r[1]) => DearerFirst(p[1], r[1])
      /\ p[1].at # q[1].at => DearerFirst(p[1], q[1]) \/ DearerFirst(q[1], p[1])
  BY <1>2, DearerOrder
<1>5. p # q => p[1].at # q[1].at \/ p[2] # q[2]
  BY <1>1, <1>2
<1>6. p[1].at = q[1].at => p[1] = q[1]
  BY <1>1, <1>2
<1>7. ~KeptBefore(kind, p, p)
  BY <1>2, <1>3, <1>4
<1>8. KeptBefore(kind, p, q) /\ KeptBefore(kind, q, r) => KeptBefore(kind, p, r)
  BY <1>2, <1>3, <1>4
<1>9. p # q => KeptBefore(kind, p, q) \/ KeptBefore(kind, q, p)
  BY <1>2, <1>3, <1>4, <1>5, <1>6
<1> QED
  BY <1>7, <1>8, <1>9

-----------------------------------------------------------------------------
(* The pairs that qualify for a sku, and the suggestion a pair makes.       *)
Hits(kind, s, rows, anchors) ==
  {p \in anchors \X rows : products[p[2]].sku = s /\ ScoreOf(kind, p) > 0}

Made(kind, s, p) ==
  [kind |-> kind, sku |-> s, price |-> products[p[2]].price,
   score |-> ScoreOf(kind, p), anchor |-> p[1].sku]

(* What is kept of a sku is one suggestion, made of the pair that scored    *)
(* most, and there is one when some pair qualifies.                         *)
LEMMA BestOne ==
  ASSUME CatalogTypeOK, NEW kind, NEW s, NEW anchors, Anchored(anchors),
         NEW rows, rows \subseteq DOMAIN products, IsFiniteSet(rows)
  PROVE  LET hits == Hits(kind, s, rows, anchors)
         IN \/ hits = {} /\ Best(kind, s, rows, anchors) = {}
            \/ \E p \in hits :
                 /\ Best(kind, s, rows, anchors) = {Made(kind, s, p)}
                 /\ \A q \in hits : ScoreOf(kind, q) <= ScoreOf(kind, p)
<1> DEFINE hits == Hits(kind, s, rows, anchors)
           first(p) == \A q \in hits \ {p} : KeptBefore(kind, p, q)
           R == {pq \in hits \X hits : KeptBefore(kind, pq[1], pq[2])}
<1>1. CASE hits = {}
  BY <1>1, Zenon DEF Best, Hits
<1>2. CASE hits # {}
  <2>1. IsFiniteSet(hits)
    <3>1. IsFiniteSet(anchors \X rows)
      BY FS_Product DEF Anchored
    <3> QED
      BY <3>1, FS_Subset DEF Hits
  <2>2. hits \subseteq anchors \X rows
    BY DEF Hits
  <2>3. \A p \in hits : ScoreOf(kind, p) \in Nat
    BY <2>2, PairScore DEF Anchored
  <2> HIDE DEF hits
  <2>4. \A p, q \in hits : <<p, q>> \in R <=> KeptBefore(kind, p, q)
    OBVIOUS
  <2> HIDE DEF R
  <2>5. \A p, q, r \in hits : <<p, q>> \in R /\ <<q, r>> \in R => <<p, r>> \in R
    BY <2>2, <2>4, KeptOrder
  <2>6. \A p \in hits : <<p, p>> \notin R
    BY <2>2, <2>4, KeptOrder
  <2>7. PICK p \in hits : \A q \in hits : <<q, p>> \notin R
    BY <1>2, <2>1, <2>5, <2>6, FirstExists, Zenon
  <2>8. first(p)
    BY <2>2, <2>4, <2>7, KeptOrder
  <2> DEFINE top == CHOOSE t \in hits : first(t)
  <2>9. top \in hits /\ first(top)
    BY <2>7, <2>8, Zenon
  <2> HIDE DEF top
  <2>10. \A q \in hits : ScoreOf(kind, q) <= ScoreOf(kind, top)
    <3> SUFFICES ASSUME NEW q \in hits PROVE ScoreOf(kind, q) <= ScoreOf(kind, top)
      OBVIOUS
    <3>1. CASE q = top
      BY <3>1, <2>3
    <3>2. CASE q # top
      <4>1. KeptBefore(kind, top, q)
        BY <3>2, <2>9
      <4>2. ScoreOf(kind, top) > ScoreOf(kind, q) \/ ScoreOf(kind, top) = ScoreOf(kind, q)
        BY <4>1, Zenon DEF KeptBefore
      <4> QED
        BY <4>2, <2>3, <2>9
    <3> QED
      BY <3>1, <3>2
  <2>11. Best(kind, s, rows, anchors) = {Made(kind, s, top)}
    BY <1>2, Zenon DEF Best, Hits, Made, hits, top
  <2> QED
    BY <2>9, <2>10, <2>11, Zenon DEF hits
<1> QED
  BY <1>1, <1>2

-----------------------------------------------------------------------------
(* The rows of a scan are rows of the list that are on sale there.          *)
LEMMA ScannedRows ==
  ASSUME CatalogTypeOK, NEW m
  PROVE  /\ Scanned(m) \subseteq DOMAIN products /\ IsFiniteSet(Scanned(m))
         /\ \A i \in Scanned(m) : products[i].merchant = m /\ products[i].active
<1>1. products \in Seq(Product)
  BY DEF CatalogTypeOK
<1>2. DOMAIN products = 1..Len(products) /\ Len(products) \in Nat
  BY <1>1
<1>3. /\ Scanned(m) \subseteq DOMAIN products
      /\ \A i \in Scanned(m) : products[i].merchant = m /\ products[i].active
  BY Zenon DEF Scanned, Listing
<1>4. IsFiniteSet(DOMAIN products)
  BY <1>2, FS_Interval
<1> QED
  BY <1>3, <1>4, FS_Subset

LEMMA CartAnchored ==
  ASSUME NEW items \in Seq(Line)
  PROVE  Anchored(AnchorsFromCart(items))
<1> DEFINE f == [i \in DOMAIN items |->
                   [sku |-> items[i].sku, price |-> items[i].price,
                    family |-> FamilyOfSku[items[i].sku], at |-> i]]
<1>1. AnchorsFromCart(items) = {f[i] : i \in DOMAIN items}
  BY DEF AnchorsFromCart
<1>2. IsFiniteSet(DOMAIN items)
  <2>1. DOMAIN items = 1..Len(items) /\ Len(items) \in Nat
    OBVIOUS
  <2> QED
    BY <2>1, FS_Interval
<1>3. ASSUME NEW i \in DOMAIN items PROVE f[i] \in Anchor /\ f[i].at = i
  <2>1. items[i] \in Line /\ i \in Nat
    OBVIOUS
  <2>2. items[i].sku \in Skus /\ items[i].price \in Prices
    BY <2>1 DEF Line
  <2>3. FamilyOfSku[items[i].sku] \in Families
    BY <2>2, CatalogAssumption
  <2> QED
    BY <2>1, <2>2, <2>3 DEF Anchor
<1>4. f = [i \in DOMAIN items |-> f[i]]
  OBVIOUS
<1> HIDE DEF f
<1>5. IsFiniteSet(AnchorsFromCart(items))
  <2> DEFINE D == DOMAIN items
  <2>1. IsFiniteSet(D) /\ f = [i \in D |-> f[i]]
    BY <1>2, <1>4
  <2> HIDE DEF D
  <2>2. IsFiniteSet({f[i] : i \in D})
    BY <2>1, FiniteImage
  <2> QED
    BY <1>1, <2>2 DEF D
<1> QED
  BY <1>1, <1>3, <1>5 DEF Anchored

LEMMA CatalogAnchored ==
  ASSUME CatalogTypeOK, NEW rows, rows \subseteq DOMAIN products, IsFiniteSet(rows)
  PROVE  Anchored(AnchorsFromCatalog(rows))
<1> DEFINE f == [i \in DOMAIN products |->
                   [sku |-> products[i].sku, price |-> products[i].price,
                    family |-> FamilyOf(products[i]), at |-> i]]
           some == {j \in rows : Sellable(products[j])}
           all == {f[i] : i \in some}
<1>1. AnchorsFromCatalog(rows) \subseteq all
  BY DEF AnchorsFromCatalog
<1>2. IsFiniteSet(some) /\ some \subseteq DOMAIN products
  BY FS_Subset
<1>3. ASSUME NEW i \in DOMAIN products PROVE f[i] \in Anchor /\ f[i].at = i
  <2>1. products[i] \in Product /\ i \in Nat
    BY DEF CatalogTypeOK
  <2>2. products[i].sku \in Skus /\ products[i].price \in Prices
        /\ products[i].family \in Families \union {None}
    BY <2>1 DEF Product
  <2>3. FamilyOf(products[i]) \in Families
    BY <2>2, CatalogAssumption DEF FamilyOf
  <2> QED
    BY <2>1, <2>2, <2>3 DEF Anchor
<1> DEFINE g == [i \in some |-> f[i]]
<1>4. all = {g[i] : i \in some} /\ g = [i \in some |-> g[i]]
  OBVIOUS
<1> HIDE DEF f, some, g
<1>5. IsFiniteSet(all)
  <2>1. IsFiniteSet({g[i] : i \in some})
    BY <1>2, <1>4, FiniteImage
  <2> QED
    BY <2>1, <1>4
<1>6. IsFiniteSet(AnchorsFromCatalog(rows))
  BY <1>1, <1>5, FS_Subset
<1> QED
  BY <1>1, <1>2, <1>3, <1>6 DEF Anchored

-----------------------------------------------------------------------------
(* What merchant m had on sale, scored around another of its skus.          *)
Fair(m, s, suggestion) ==
  /\ \E r \in listed : r.merchant = m /\ r.sku = s /\ r.stock > 0 /\ r.price = suggestion.price
  /\ suggestion.anchor # s /\ suggestion.score \in SomeScore

LEMMA BestFact ==
  ASSUME CatalogTypeOK, NEW kind, NEW s, NEW anchors, Anchored(anchors),
         NEW rows, rows \subseteq DOMAIN products, IsFiniteSet(rows),
         NEW x \in Best(kind, s, rows, anchors)
  PROVE  /\ x.kind = kind /\ x.sku = s /\ x.anchor # s
         /\ x.score \in Scores /\ x.score \in Nat /\ x.score > 0
         /\ \E i \in rows : products[i].sku = s /\ products[i].stock > 0 /\ products[i].price = x.price
<1> DEFINE hits == Hits(kind, s, rows, anchors)
<1>1. PICK p \in hits : Best(kind, s, rows, anchors) = {Made(kind, s, p)}
  <2>1. \/ hits = {} /\ Best(kind, s, rows, anchors) = {}
        \/ \E p \in hits : Best(kind, s, rows, anchors) = {Made(kind, s, p)}
    BY BestOne, Zenon
  <2> QED
    BY <2>1
<1>2. p \in anchors \X rows /\ products[p[2]].sku = s /\ ScoreOf(kind, p) > 0
  BY DEF Hits
<1>3. /\ p[2] \in rows /\ ScoreOf(kind, p) \in Scores /\ ScoreOf(kind, p) \in Nat
      /\ products[p[2]].stock > 0 /\ products[p[2]].sku # p[1].sku
  BY <1>2, PairScore DEF Anchored
<1>4. x = Made(kind, s, p)
  BY <1>1
<1>5. /\ x.kind = kind /\ x.sku = s /\ x.score = ScoreOf(kind, p) /\ x.anchor = p[1].sku
      /\ x.price = products[p[2]].price
  BY <1>4 DEF Made
<1> QED
  BY <1>2, <1>3, <1>5

(* Whom a request suggests things around.                                   *)
AnchorsOf(m, subject) ==
  IF subject = "catalog" THEN AnchorsFromCatalog(Scanned(m)) ELSE AnchorsFromCart(cart[subject].items)

LEMMA AnchorsOfAnchored ==
  ASSUME CartsInv, NEW m, NEW subject \in Subjects, subject # "catalog" => GetCart(subject, m)
  PROVE  Anchored(AnchorsOf(m, subject))
<1>1. CatalogTypeOK
  BY DEF CartsInv, CartTypeOK
<1>2. CASE subject = "catalog"
  BY <1>1, <1>2, ScannedRows, CatalogAnchored DEF AnchorsOf
<1>3. CASE subject # "catalog"
  <2>1. cart[subject].items \in Seq(Line)
    BY <1>3, ReadCart DEF Subjects
  <2> QED
    BY <1>3, <2>1, CartAnchored DEF AnchorsOf
<1> QED
  BY <1>2, <1>3

(* All that would be suggested if there were no limit.                      *)
Candidates(rows, anchors, kinds) ==
  UNION {Best(k, products[i].sku, rows, anchors) : k \in kinds, i \in rows}

LEMMA SuggestedRanked ==
  ASSUME NEW rows, NEW anchors, NEW kinds, NEW limit
  PROVE  Suggested(rows, anchors, kinds, limit) = Ranked(Candidates(rows, anchors, kinds), limit)
BY DEF Suggested, Candidates

LEMMA RankedSome ==
  ASSUME NEW S, NEW limit, NEW x \in Ranked(S, limit)
  PROVE  x \in S
BY Zenon DEF Ranked

(* Whatever would be stored is fair.                                        *)
LEMMA MergedFair ==
  ASSUME CartsInv, NEW m, NEW subject \in Subjects, subject # "catalog" => GetCart(subject, m),
         NEW kinds, NEW limit, NEW hints, NEW x \in Merged(m, subject, kinds, limit, hints)
  PROVE  Fair(m, x.sku, x)
<1> DEFINE rows == Scanned(m)
           anchors == AnchorsOf(m, subject)
           suggested == Suggested(rows, anchors, kinds, limit)
<1>1. CatalogTypeOK
  BY DEF CartsInv, CartTypeOK
<1>2. /\ rows \subseteq DOMAIN products /\ IsFiniteSet(rows)
      /\ \A i \in rows : products[i].merchant = m /\ products[i].active
  BY <1>1, ScannedRows
<1>3. Anchored(anchors)
  BY AnchorsOfAnchored
<1>4. Merged(m, subject, kinds, limit, hints) =
        Ranked(suggested \union Promoted(hints, rows, anchors, kinds, suggested), limit)
  BY Zenon DEF Merged, AnchorsOf
<1>5. x \in suggested \/ x \in Promoted(hints, rows, anchors, kinds, suggested)
  BY <1>4, Zenon DEF Ranked
<1> HIDE DEF rows, anchors
<1>6. ASSUME NEW k, NEW s, NEW some, some \subseteq rows, x \in Best(k, s, some, anchors)
      PROVE  Fair(m, x.sku, x)
  <2>1. some \subseteq DOMAIN products /\ IsFiniteSet(some)
    BY <1>2, <1>6, FS_Subset
  <2>2. /\ x.sku = s /\ x.score \in Scores /\ x.score > 0 /\ x.anchor # s
        /\ \E i \in some : products[i].sku = s /\ products[i].stock > 0 /\ products[i].price = x.price
    BY <1>1, <1>3, <1>6, <2>1, BestFact
  <2>3. PICK i \in some : products[i].sku = s /\ products[i].stock > 0 /\ products[i].price = x.price
    BY <2>2
  <2>4. products[i] \in Listable(products) /\ products[i].merchant = m
    BY <1>2, <1>6, Zenon DEF Listable, Range
  <2>5. products[i] \in listed
    BY <2>4 DEF CartsInv, ListedInv
  <2>6. x.score \in SomeScore
    <3>1. x.score \in Scores /\ x.score > 0
      BY <2>2, Zenon
    <3> QED
      BY <3>1 DEF Scores, SomeScore
  <2> QED
    BY <2>2, <2>3, <2>4, <2>5, <2>6 DEF Fair
<1>7. CASE x \in suggested
  <2>1. PICK k \in kinds, i \in rows : x \in Best(k, products[i].sku, rows, anchors)
    <3>1. x \in Candidates(rows, anchors, kinds)
      BY <1>7, SuggestedRanked, RankedSome, Zenon
    <3> QED
      BY <3>1 DEF Candidates
  <2> QED
    BY <1>6, <2>1
<1>8. CASE x \in Promoted(hints, rows, anchors, kinds, suggested)
  <2> HIDE DEF suggested
  <2>1. \E h \in hints : \E some \in SUBSET rows : x \in Best(h.kind, h.sku, some, anchors)
    BY <1>8 DEF Promoted
  <2> QED
    BY <1>6, <2>1
<1> QED
  BY <1>5, <1>7, <1>8

-----------------------------------------------------------------------------
(* What is stored stays fair, and a row keeps what it was stored with.      *)
StoredInv == \A i \in DOMAIN stored : Fair(i.merchant, i.sku, stored[i])

SuggestedInv == CartsInv /\ StoredInv

LEMMA StaysFair ==
  ASSUME StoredInv, UNCHANGED stored, listed \subseteq listed'
  PROVE  StoredInv'
<1> SUFFICES ASSUME NEW i \in DOMAIN stored' PROVE Fair(i.merchant, i.sku, stored[i])'
  BY DEF StoredInv
<1>1. stored' = stored /\ Fair(i.merchant, i.sku, stored[i])
  BY DEF StoredInv
<1>2. /\ \E r \in listed : /\ r.merchant = i.merchant /\ r.sku = i.sku
                         /\ r.stock > 0 /\ r.price = stored[i].price
      /\ stored[i].anchor # i.sku /\ stored[i].score \in SomeScore
  BY <1>1, Zenon DEF Fair
<1>3. /\ \E r \in listed' : /\ r.merchant = i.merchant /\ r.sku = i.sku
                          /\ r.stock > 0 /\ r.price = stored'[i].price
      /\ stored'[i].anchor # i.sku /\ stored'[i].score \in SomeScore
  BY <1>1, <1>2
<1> QED
  BY <1>3, Zenon DEF Fair

LEMMA GenerateInv ==
  ASSUME SuggestedInv, NEW m \in Merchants, NEW subject \in Subjects, NEW kinds, NEW limit,
         NEW hints, Generate(m, subject, kinds, limit, hints)
  PROVE  SuggestedInv'
<1> DEFINE merged == Merged(m, subject, kinds, limit, hints)
           IdOf(s) == [merchant |-> m, kind |-> s.kind, subject |-> subject, sku |-> s.sku]
<1>1. /\ subject # "catalog" => GetCart(subject, m)
      /\ stored' = [i \in DOMAIN stored \union {IdOf(s) : s \in merged} |->
                     IF i \in DOMAIN stored THEN stored[i] ELSE CHOOSE s \in merged : IdOf(s) = i]
      /\ UNCHANGED <<catalogVars, cartVars>>
  BY Zenon DEF Generate
<1>2. UNCHANGED <<products, edits, listed, cart, orders>>
  BY <1>1 DEF catalogVars, cartVars
<1>3. CartsInv'
  BY <1>1, CartsUnchanged DEF SuggestedInv
<1>4. \A s \in merged : Fair(m, s.sku, s)
  BY <1>1, MergedFair DEF SuggestedInv
<1> HIDE DEF merged
<1>5. ASSUME NEW i \in DOMAIN stored' PROVE Fair(i.merchant, i.sku, stored'[i])
  <2>1. CASE i \in DOMAIN stored
    <3>1. stored'[i] = stored[i]
      BY <1>1, <2>1
    <3> QED
      BY <2>1, <3>1 DEF SuggestedInv, StoredInv
  <2>2. CASE i \notin DOMAIN stored
    <3>1. \E s \in merged : IdOf(s) = i
      BY <1>1, <2>2
    <3> DEFINE s == CHOOSE s \in merged : IdOf(s) = i
    <3>2. s \in merged /\ IdOf(s) = i
      BY <3>1
    <3>3. stored'[i] = s
      BY <1>1, <2>2
    <3> HIDE DEF s
    <3>4. i.merchant = m /\ i.sku = s.sku
      BY <3>2
    <3> QED
      BY <1>4, <3>2, <3>3, <3>4
  <2> QED
    BY <2>1, <2>2
<1>6. StoredInv'
  <2> SUFFICES ASSUME NEW i \in DOMAIN stored' PROVE Fair(i.merchant, i.sku, stored[i])'
    BY DEF StoredInv
  <2>1. listed' = listed
    BY <1>2
  <2>2. /\ \E r \in listed : /\ r.merchant = i.merchant /\ r.sku = i.sku
                          /\ r.stock > 0 /\ r.price = stored'[i].price
        /\ stored'[i].anchor # i.sku /\ stored'[i].score \in SomeScore
    BY <1>5, Zenon DEF Fair
  <2>3. /\ \E r \in listed' : /\ r.merchant = i.merchant /\ r.sku = i.sku
                            /\ r.stock > 0 /\ r.price = stored'[i].price
        /\ stored'[i].anchor # i.sku /\ stored'[i].score \in SomeScore
    BY <2>1, <2>2
  <2> QED
    BY <2>3, Zenon DEF Fair
<1> QED
  BY <1>3, <1>6 DEF SuggestedInv

(* Only rows are added to the record of what was listed.                    *)
LEMMA ListedGrows ==
  ASSUME CartsNext
  PROVE  listed \subseteq listed'
<1>1. CASE CatalogNext
  <2>1. \E rows : Write(rows)
    BY <1>1, Zenon DEF CatalogNext, CreateProduct, UpdateProduct
  <2> QED
    BY <2>1 DEF Write
<1>2. CASE UNCHANGED catalogVars
  BY <1>2 DEF catalogVars
<1> QED
  BY <1>1, <1>2 DEF CartsNext

LEMMA SuggestedInvariant == OpportunitiesSpec => []SuggestedInv
<1>1. OpportunitiesInit => SuggestedInv
  <2> SUFFICES ASSUME OpportunitiesInit PROVE SuggestedInv
    OBVIOUS
  <2>1. DOMAIN stored = {}
    BY DEF OpportunitiesInit
  <2> QED
    BY <2>1, CartsInitInv DEF OpportunitiesInit, SuggestedInv, StoredInv
<1>2. SuggestedInv /\ [OpportunitiesNext]_<<catalogVars, cartVars, stored>> => SuggestedInv'
  <2> SUFFICES ASSUME SuggestedInv, [OpportunitiesNext]_<<catalogVars, cartVars, stored>>
               PROVE  SuggestedInv'
    OBVIOUS
  <2>1. CASE CartsNext /\ UNCHANGED stored
    BY <2>1, CartsNextInv, ListedGrows, StaysFair DEF SuggestedInv
  <2>2. ASSUME NEW m \in Merchants, NEW subject \in Subjects, NEW kinds, NEW limit, NEW hints,
               Generate(m, subject, kinds, limit, hints)
        PROVE  SuggestedInv'
    BY <2>2, GenerateInv
  <2>3. CASE UNCHANGED <<catalogVars, cartVars, stored>>
    <3>1. listed' = listed
      BY <2>3 DEF catalogVars
    <3> QED
      BY <2>3, <3>1, CartsUnchanged, StaysFair DEF SuggestedInv
  <2> QED
    BY <2>1, <2>2, <2>3 DEF OpportunitiesNext
<1> QED
  BY <1>1, <1>2, PTL DEF OpportunitiesSpec

(* Whatever is suggested to a merchant, to go with whatever and with any    *)
(* hints, it had on sale itself at the price shown; it is never the anchor  *)
(* again, and its score is a positive share of one (generate,               *)
(* _apply_hints, insert_missing).                                           *)
THEOREM SuggestsWhatWasOnSale == OpportunitiesSpec => []SuggestionWasSellable
<1>1. StoredInv => SuggestionWasSellable
  <2> SUFFICES ASSUME StoredInv, NEW i \in DOMAIN stored
               PROVE  /\ \E r \in listed : r.merchant = i.merchant /\ r.sku = i.sku
                                             /\ r.stock > 0 /\ r.price = stored[i].price
                      /\ stored[i].anchor # i.sku /\ stored[i].score \in SomeScore
    BY Zenon DEF SuggestionWasSellable
  <2>1. Fair(i.merchant, i.sku, stored[i])
    BY Zenon DEF StoredInv
  <2> QED
    BY <2>1, Zenon DEF Fair
<1>2. SuggestedInv => StoredInv
  BY DEF SuggestedInv
<1> QED
  BY <1>1, <1>2, SuggestedInvariant, PTL

-----------------------------------------------------------------------------
(* The answer is in one order.                                              *)
LEMMA RankOrder ==
  ASSUME NEW x, NEW y, NEW z, Scored(x), Scored(y), Scored(z)
  PROVE  /\ ~RanksBefore(x, x)
         /\ RanksBefore(x, y) /\ RanksBefore(y, z) => RanksBefore(x, z)
<1>1. \A v \in {x, y, z} : v.kind \in {"upsell", "cross_sell"} /\ v.sku \in Nat /\ v.score \in Int
  BY Zenon DEF Scored, Kinds
<1> QED
  BY <1>1 DEF RanksBefore

(* What was no better than one of a kind and sku comes after all that comes *)
(* before that one.                                                         *)
LEMMA RankNoBetter ==
  ASSUME NEW p, NEW b, NEW y, Scored(p), Scored(b), Scored(y),
         b.kind = p.kind, b.sku = p.sku, p.score <= b.score
  PROVE  /\ RanksBefore(y, b) => RanksBefore(y, p)
         /\ RanksBefore(p, y) => RanksBefore(b, y)
<1>1. \A v \in {p, b, y} : v.sku \in Nat /\ v.score \in Int
  BY Zenon DEF Scored
<1> QED
  BY <1>1 DEF RanksBefore

(* As many as were asked for come before one that is left out.              *)
LEMMA TopHolds ==
  ASSUME NEW C, Rankable(C), NEW limit \in Nat, NEW b \in C, b \notin Ranked(C, limit)
  PROVE  LET above == {y \in Ranked(C, limit) : RanksBefore(y, b)}
         IN IsFiniteSet(above) /\ Cardinality(above) \in Nat /\ Cardinality(above) >= limit
<1> DEFINE top == Ranked(C, limit)
           above == {y \in top : RanksBefore(y, b)}
           out == {y \in C : y \notin top /\ (y = b \/ RanksBefore(y, b))}
           R == {xy \in C \X C : RanksBefore(xy[1], xy[2])}
           before(z) == {t \in C : RanksBefore(t, z)}
<1>1. IsFiniteSet(C) /\ \A x \in C : Scored(x)
  BY DEF Rankable
<1>2. top \subseteq C /\ b \notin top /\ \A x \in C : x \in top <=> Cardinality(before(x)) < limit
  BY Zenon DEF Ranked
<1> HIDE DEF top
<1>3. above \subseteq C /\ out \subseteq C /\ b \in out
  BY <1>2
<1>4. IsFiniteSet(out) /\ IsFiniteSet(above) /\ Cardinality(above) \in Nat
  BY <1>1, <1>3, FS_Subset, FS_CardinalityType
<1>5. \A x, y \in C : <<x, y>> \in R <=> RanksBefore(x, y)
  OBVIOUS
<1> HIDE DEF R
<1>6. /\ \A x, y, z \in C : <<x, y>> \in R /\ <<y, z>> \in R => <<x, z>> \in R
      /\ \A x \in C : <<x, x>> \notin R
  BY <1>1, <1>5, RankOrder
<1>7. PICK z \in out : \A y \in out : <<y, z>> \notin R
  <2>1. out # {}
    BY <1>3
  <2>2. /\ \A x, y, v \in out : <<x, y>> \in R /\ <<y, v>> \in R => <<x, v>> \in R
        /\ \A x \in out : <<x, x>> \notin R
    BY <1>3, <1>6
  <2> HIDE DEF out
  <2> QED
    BY <2>1, <2>2, <1>4, FirstExists, Zenon
<1>8. z \in C /\ z \notin top /\ (z = b \/ RanksBefore(z, b))
  OBVIOUS
<1>9. before(z) \subseteq above
  <2> SUFFICES ASSUME NEW t \in C, RanksBefore(t, z) PROVE t \in top /\ RanksBefore(t, b)
    OBVIOUS
  <2>1. RanksBefore(t, b)
    BY <1>1, <1>8, RankOrder
  <2>2. t \in top
    BY <1>5, <1>7, <1>8, <2>1
  <2> QED
    BY <2>1, <2>2
<1> HIDE DEF above
<1>10. /\ Cardinality(before(z)) <= Cardinality(above)
       /\ Cardinality(before(z)) \in Nat /\ ~(Cardinality(before(z)) < limit)
  <2>1. before(z) \in SUBSET above
    BY <1>9
  <2> HIDE DEF before
  <2>2. IsFiniteSet(before(z)) /\ Cardinality(before(z)) <= Cardinality(above)
    BY <2>1, <1>4, FS_Subset
  <2>3. Cardinality(before(z)) \in Nat
    BY <2>2, FS_CardinalityType
  <2> QED
    BY <2>2, <2>3, <1>2, <1>8
<1>11. Cardinality(above) >= limit
  <2> HIDE DEF before
  <2> QED
    BY <1>4, <1>10
<1> QED
  BY <1>4, <1>11 DEF above, top

(* None of P is better than what is in C for its kind and sku, and that is  *)
(* not in top.                                                              *)
NoBetter(P, C, top) ==
  \A p \in P :
    /\ Scored(p)
    /\ \E b \in C : b \notin top /\ b.kind = p.kind /\ b.sku = p.sku /\ p.score <= b.score

(* What is no better than something left out changes nothing.               *)
LEMMA LeftOut ==
  ASSUME NEW C, Rankable(C), NEW limit \in Nat, NEW P, IsFiniteSet(P),
         NoBetter(P, C, Ranked(C, limit))
  PROVE  Ranked(Ranked(C, limit) \union P, limit) = Ranked(C, limit)
<1> DEFINE top == Ranked(C, limit)
           both == top \union P
           before(S, z) == {t \in S : RanksBefore(t, z)}
<1>1. IsFiniteSet(C) /\ \A x \in C : Scored(x)
  BY DEF Rankable
<1>2. top \subseteq C /\ \A x \in C : x \in top <=> Cardinality(before(C, x)) < limit
  BY Zenon DEF Ranked
<1>3. ASSUME NEW p \in P
      PROVE  \E b \in C : /\ b.kind = p.kind /\ b.sku = p.sku /\ p.score <= b.score
                          /\ IsFiniteSet(before(top, b)) /\ Cardinality(before(top, b)) \in Nat
                          /\ Cardinality(before(top, b)) >= limit
  BY TopHolds, Zenon DEF NoBetter
<1>4. \A p \in P : Scored(p)
  BY Zenon DEF NoBetter
<1>5. Ranked(both, limit) = {x \in both : Cardinality(before(both, x)) < limit}
  BY Zenon DEF Ranked
<1> HIDE DEF top
<1>6. /\ IsFiniteSet(top) /\ IsFiniteSet(both)
      /\ \A x \in both : Scored(x)
  <2>1. top \in SUBSET C
    BY <1>2
  <2>2. IsFiniteSet(top)
    BY <2>1, <1>1, FS_Subset
  <2> QED
    BY <2>1, <2>2, <1>1, <1>4, FS_Union
<1>7. ASSUME NEW x, NEW S, IsFiniteSet(S), NEW T \in SUBSET before(S, x)
      PROVE  /\ Cardinality(T) <= Cardinality(before(S, x))
             /\ Cardinality(T) \in Nat /\ Cardinality(before(S, x)) \in Nat
  <2>1. before(S, x) \in SUBSET S
    OBVIOUS
  <2> HIDE DEF before
  <2> QED
    BY <1>7, <2>1, FS_Subset, FS_CardinalityType
<1>8. ASSUME NEW p \in P
      PROVE  ~(Cardinality(before(both, p)) < limit)
  <2>1. PICK b \in C : /\ b.kind = p.kind /\ b.sku = p.sku /\ p.score <= b.score
                       /\ Cardinality(before(top, b)) \in Nat
                       /\ Cardinality(before(top, b)) >= limit
    BY <1>3
  <2>2. before(top, b) \subseteq before(both, p)
    <3> SUFFICES ASSUME NEW t \in top, RanksBefore(t, b) PROVE t \in both /\ RanksBefore(t, p)
      OBVIOUS
    <3>1. Scored(t) /\ Scored(b) /\ Scored(p)
      BY <1>1, <1>2, <1>4
    <3> QED
      BY <3>1, <2>1, RankNoBetter
  <2> HIDE DEF before, both
  <2>3. /\ Cardinality(before(top, b)) <= Cardinality(before(both, p))
        /\ Cardinality(before(both, p)) \in Nat
    BY <2>2, <1>6, <1>7
  <2> QED
    BY <2>1, <2>3
<1>9. ASSUME NEW x \in top
      PROVE  Cardinality(before(both, x)) < limit
  <2>1. Cardinality(before(C, x)) < limit /\ x \in C /\ Scored(x)
    BY <1>1, <1>2
  <2>2. ASSUME NEW p \in P, RanksBefore(p, x) PROVE FALSE
    <3>1. PICK b \in C : /\ b.kind = p.kind /\ b.sku = p.sku /\ p.score <= b.score
                         /\ Cardinality(before(top, b)) \in Nat
                         /\ Cardinality(before(top, b)) >= limit
      BY <1>3
    <3>2. Scored(p) /\ Scored(b)
      BY <1>1, <1>4
    <3>3. RanksBefore(b, x)
      BY <2>1, <2>2, <3>1, <3>2, RankNoBetter
    <3>4. before(top, b) \subseteq before(C, x)
      <4> SUFFICES ASSUME NEW t \in top, RanksBefore(t, b) PROVE t \in C /\ RanksBefore(t, x)
        OBVIOUS
      <4>1. t \in C /\ Scored(t)
        BY <1>1, <1>2
      <4> QED
        BY <4>1, <2>1, <3>2, <3>3, RankOrder
    <3> HIDE DEF before
    <3>5. /\ Cardinality(before(top, b)) <= Cardinality(before(C, x))
          /\ Cardinality(before(C, x)) \in Nat
      BY <3>4, <1>1, <1>7
    <3> QED
      BY <3>1, <3>5, <2>1
  <2>3. before(both, x) \subseteq before(C, x)
    BY <2>2, <1>2
  <2> HIDE DEF before, both
  <2>4. /\ Cardinality(before(both, x)) <= Cardinality(before(C, x))
        /\ Cardinality(before(both, x)) \in Nat /\ Cardinality(before(C, x)) \in Nat
    BY <2>3, <1>1, <1>7
  <2> QED
    BY <2>1, <2>4
<1>10. Ranked(both, limit) = top
  <2> HIDE DEF before
  <2> QED
    BY <1>5, <1>8, <1>9
<1> QED
  BY <1>10 DEF top

-----------------------------------------------------------------------------
LEMMA BestFinite ==
  ASSUME CatalogTypeOK, NEW kind, NEW s, NEW anchors, Anchored(anchors),
         NEW rows, rows \subseteq DOMAIN products, IsFiniteSet(rows)
  PROVE  /\ IsFiniteSet(Best(kind, s, rows, anchors))
         /\ \A x, y \in Best(kind, s, rows, anchors) : x = y
<1>1. \/ Best(kind, s, rows, anchors) = {}
      \/ \E p \in Hits(kind, s, rows, anchors) : Best(kind, s, rows, anchors) = {Made(kind, s, p)}
  BY BestOne, Zenon
<1> QED
  BY <1>1, FS_EmptySet, FS_Singleton

(* A row that qualifies for a sku among some rows is no better than the one *)
(* that is kept among all of them.                                          *)
LEMMA BestGrows ==
  ASSUME CatalogTypeOK, NEW kind, NEW s, NEW anchors, Anchored(anchors),
         NEW rows, rows \subseteq DOMAIN products, IsFiniteSet(rows),
         NEW some \in SUBSET rows, NEW x \in Best(kind, s, some, anchors)
  PROVE  /\ \E i \in rows : products[i].sku = s
         /\ \E b \in Best(kind, s, rows, anchors) :
              b.kind = kind /\ b.sku = s /\ x.score <= b.score
<1>1. some \subseteq DOMAIN products /\ IsFiniteSet(some)
  BY FS_Subset
<1>2. PICK p \in Hits(kind, s, some, anchors) : Best(kind, s, some, anchors) = {Made(kind, s, p)}
  <2>1. \/ Hits(kind, s, some, anchors) = {} /\ Best(kind, s, some, anchors) = {}
        \/ \E p \in Hits(kind, s, some, anchors) : Best(kind, s, some, anchors) = {Made(kind, s, p)}
    BY <1>1, BestOne, Zenon
  <2> QED
    BY <2>1
<1>3. p \in Hits(kind, s, rows, anchors) /\ p[2] \in rows /\ products[p[2]].sku = s
  BY DEF Hits
<1>4. x = Made(kind, s, p)
  BY <1>2
<1>5. x.score = ScoreOf(kind, p)
  BY <1>4 DEF Made
<1>6. PICK q \in Hits(kind, s, rows, anchors) :
        /\ Best(kind, s, rows, anchors) = {Made(kind, s, q)}
        /\ \A r \in Hits(kind, s, rows, anchors) : ScoreOf(kind, r) <= ScoreOf(kind, q)
  <2>1. \/ Hits(kind, s, rows, anchors) = {}
        \/ \E q \in Hits(kind, s, rows, anchors) :
             /\ Best(kind, s, rows, anchors) = {Made(kind, s, q)}
             /\ \A r \in Hits(kind, s, rows, anchors) : ScoreOf(kind, r) <= ScoreOf(kind, q)
    BY BestOne, Zenon
  <2> QED
    BY <2>1, <1>3
<1>7. /\ Made(kind, s, q).kind = kind /\ Made(kind, s, q).sku = s
      /\ Made(kind, s, q).score = ScoreOf(kind, q)
  BY DEF Made
<1> QED
  BY <1>3, <1>5, <1>6, <1>7

(* One suggestion at most of a kind for a sku.                              *)
LEMMA CandidatesRankable ==
  ASSUME CatalogTypeOK, NEW anchors, Anchored(anchors),
         NEW rows, rows \subseteq DOMAIN products, IsFiniteSet(rows), NEW kinds \in SUBSET Kinds
  PROVE  Rankable(Candidates(rows, anchors, kinds))
<1> DEFINE C == Candidates(rows, anchors, kinds)
           pairs == kinds \X rows
           f == [ki \in pairs |-> Best(ki[1], products[ki[2]].sku, rows, anchors)]
           family == {f[ki] : ki \in pairs}
<1>1. ASSUME NEW i \in rows PROVE products[i].sku \in Nat
  <2>1. products[i] \in Product
    BY DEF CatalogTypeOK
  <2> QED
    BY <2>1, OpportunityAssumption DEF Product
<1>2. ASSUME NEW x \in C
      PROVE  \E k \in kinds, i \in rows : x \in Best(k, products[i].sku, rows, anchors)
  BY DEF Candidates
<1>3. ASSUME NEW x \in C
      PROVE  Scored(x) /\ x \in Best(x.kind, x.sku, rows, anchors)
  <2>1. PICK k \in kinds, i \in rows : x \in Best(k, products[i].sku, rows, anchors)
    BY <1>2
  <2>2. x.kind = k /\ x.sku = products[i].sku /\ x.score \in Nat
    BY <2>1, BestFact
  <2> QED
    BY <1>1, <2>1, <2>2 DEF Scored
<1>4. ASSUME NEW x \in C, NEW y \in C, x.kind = y.kind, x.sku = y.sku
      PROVE  x = y
  <2>1. x \in Best(x.kind, x.sku, rows, anchors) /\ y \in Best(x.kind, x.sku, rows, anchors)
    BY <1>3, <1>4
  <2> QED
    BY <2>1, BestFinite
<1>5. IsFiniteSet(C)
  <2>1. IsFiniteSet(kinds)
    <3>1. IsFiniteSet({"upsell"})
      BY FS_Singleton
    <3>2. IsFiniteSet({"upsell"} \union {"cross_sell"})
      BY <3>1, FS_AddElement
    <3>3. Kinds = {"upsell"} \union {"cross_sell"}
      BY DEF Kinds
    <3> QED
      BY <3>2, <3>3, FS_Subset
  <2>2. IsFiniteSet(pairs)
    BY <2>1, FS_Product
  <2>3. C = UNION family
    <3>1. ASSUME NEW x
          PROVE  x \in C <=> \E k \in kinds, i \in rows : x \in Best(k, products[i].sku, rows, anchors)
      BY DEF Candidates
    <3>2. ASSUME NEW k \in kinds, NEW i \in rows
          PROVE  <<k, i>> \in pairs /\ f[<<k, i>>] = Best(k, products[i].sku, rows, anchors)
      OBVIOUS
    <3>3. \A ki \in pairs : ki[1] \in kinds /\ ki[2] \in rows /\ ki = <<ki[1], ki[2]>>
      OBVIOUS
    <3> HIDE DEF C, f, pairs
    <3>4. ASSUME NEW x \in C PROVE x \in UNION family
      BY <3>1, <3>2
    <3>5. ASSUME NEW x \in UNION family PROVE x \in C
      <4>1. PICK ki \in pairs : x \in f[ki]
        OBVIOUS
      <4>2. f[<<ki[1], ki[2]>>] = Best(ki[1], products[ki[2]].sku, rows, anchors)
        BY <3>2, <3>3
      <4> QED
        BY <3>1, <3>3, <4>1, <4>2
    <3> QED
      BY <3>4, <3>5
  <2>4. \A T \in family : IsFiniteSet(T)
    BY BestFinite
  <2>5. f = [ki \in pairs |-> f[ki]]
    OBVIOUS
  <2> HIDE DEF C, f, pairs
  <2>6. IsFiniteSet(family)
    BY <2>2, <2>5, FiniteImage
  <2> QED
    BY <2>3, <2>4, <2>6, FS_UNION
<1> HIDE DEF C
<1>6. Rankable(C)
  BY <1>3, <1>4, <1>5 DEF Rankable
<1> QED
  BY <1>6 DEF C

(* What a hint adds is no better than something that was left out.          *)
LEMMA PromotedLeftOut ==
  ASSUME CatalogTypeOK, NEW anchors, Anchored(anchors),
         NEW rows, rows \subseteq DOMAIN products, IsFiniteSet(rows), NEW kinds \in SUBSET Kinds,
         NEW hints, IsFiniteSet(hints), \A h \in hints : h.sku \in Nat, NEW top
  PROVE  /\ IsFiniteSet(Promoted(hints, rows, anchors, kinds, top))
         /\ NoBetter(Promoted(hints, rows, anchors, kinds, top), Candidates(rows, anchors, kinds), top)
<1> DEFINE news == {h \in hints : h.kind \in kinds
                      /\ \A s \in top : s.kind # h.kind \/ s.sku # h.sku}
           LastOf(s) == {i \in rows : products[i].sku = s
                           /\ \A j \in rows : products[j].sku = s => j <= i}
           f == [h \in news |-> Best(h.kind, h.sku, LastOf(h.sku), anchors)]
           family == {f[h] : h \in news}
           P == Promoted(hints, rows, anchors, kinds, top)
<1>1. P = UNION family
  BY DEF Promoted
<1>2. IsFiniteSet(news)
  BY FS_Subset
<1>3. ASSUME NEW s
      PROVE  LastOf(s) \in SUBSET rows /\ LastOf(s) \subseteq DOMAIN products /\ IsFiniteSet(LastOf(s))
  <2>1. LastOf(s) \in SUBSET rows
    OBVIOUS
  <2> HIDE DEF LastOf
  <2> QED
    BY <2>1, FS_Subset
<1>4. \A h \in news : f[h] = Best(h.kind, h.sku, LastOf(h.sku), anchors)
  OBVIOUS
<1>5. f = [h \in news |-> f[h]]
  OBVIOUS
<1>6. ASSUME NEW h \in news
      PROVE  h.kind \in kinds /\ h.kind \in Kinds /\ h.sku \in Nat
             /\ \A s \in top : s.kind # h.kind \/ s.sku # h.sku
  OBVIOUS
<1> HIDE DEF LastOf, f, news, P
<1>7. IsFiniteSet(P)
  <2>1. \A T \in family : IsFiniteSet(T)
    BY <1>3, <1>4, BestFinite
  <2>2. IsFiniteSet(family)
    BY <1>2, <1>5, FiniteImage
  <2> QED
    BY <1>1, <2>1, <2>2, FS_UNION
<1>8. ASSUME NEW p \in P
      PROVE  /\ Scored(p)
             /\ \E b \in Candidates(rows, anchors, kinds) :
                  b \notin top /\ b.kind = p.kind /\ b.sku = p.sku /\ p.score <= b.score
  <2>1. PICK h \in news : p \in Best(h.kind, h.sku, LastOf(h.sku), anchors)
    BY <1>1, <1>4
  <2>2. p.kind = h.kind /\ p.sku = h.sku /\ p.score \in Nat
    BY <1>3, <2>1, BestFact
  <2>3. Scored(p)
    BY <2>2, <1>6 DEF Scored
  <2>4. /\ \E i \in rows : products[i].sku = h.sku
        /\ \E b \in Best(h.kind, h.sku, rows, anchors) :
             b.kind = h.kind /\ b.sku = h.sku /\ p.score <= b.score
    BY <1>3, <2>1, BestGrows
  <2>5. PICK i \in rows : products[i].sku = h.sku
    BY <2>4
  <2>6. PICK b \in Best(h.kind, h.sku, rows, anchors) :
          b.kind = h.kind /\ b.sku = h.sku /\ p.score <= b.score
    BY <2>4
  <2>7. b \in Candidates(rows, anchors, kinds)
    BY <1>6, <2>5, <2>6 DEF Candidates
  <2>8. b \notin top
    BY <1>6, <2>6
  <2> QED
    BY <2>2, <2>3, <2>6, <2>7, <2>8
<1> QED
  BY <1>7, <1>8 DEF P, NoBetter

(* Whatever the hints, what would be stored is what the rules suggest.      *)
LEMMA MergedIsSuggested ==
  ASSUME CartsInv, NEW m, NEW subject \in Subjects, subject # "catalog" => GetCart(subject, m),
         NEW kinds \in SUBSET Kinds, NEW limit \in Nat,
         NEW hints, IsFiniteSet(hints), \A h \in hints : h.sku \in Nat
  PROVE  Merged(m, subject, kinds, limit, hints) =
           Suggested(Scanned(m), AnchorsOf(m, subject), kinds, limit)
<1> DEFINE rows == Scanned(m)
           anchors == AnchorsOf(m, subject)
           C == Candidates(rows, anchors, kinds)
           top == Suggested(rows, anchors, kinds, limit)
           P == Promoted(hints, rows, anchors, kinds, top)
<1>1. CatalogTypeOK
  BY DEF CartsInv, CartTypeOK
<1>2. rows \subseteq DOMAIN products /\ IsFiniteSet(rows)
  BY <1>1, ScannedRows
<1>3. Anchored(anchors)
  BY AnchorsOfAnchored
<1>4. Merged(m, subject, kinds, limit, hints) = Ranked(top \union P, limit)
  BY Zenon DEF Merged, AnchorsOf
<1> HIDE DEF rows, anchors
<1>5. top = Ranked(C, limit) /\ Rankable(C)
  BY <1>1, <1>2, <1>3, SuggestedRanked, CandidatesRankable
<1>6. /\ IsFiniteSet(P)
      /\ NoBetter(P, C, top)
  <2> HIDE DEF top
  <2> QED
    BY <1>1, <1>2, <1>3, PromotedLeftOut
<1> HIDE DEF C, top, P
<1>7. Ranked(Ranked(C, limit) \union P, limit) = Ranked(C, limit)
  <2>1. NoBetter(P, C, Ranked(C, limit))
    BY <1>5, <1>6
  <2> QED
    BY <1>5, <1>6, <2>1, LeftOut, Zenon
<1>8. Merged(m, subject, kinds, limit, hints) = top
  BY <1>4, <1>5, <1>7
<1> QED
  BY <1>8 DEF top, rows, anchors

(* Whatever the catalogue, the carts and the hints of the model, hints      *)
(* change nothing a call would store (_apply_hints, generate).              *)
THEOREM HintsChangeNothing == OpportunitiesSpec => []HintsMoveNothing
<1>1. CartsInv => HintsMoveNothing
  <2> SUFFICES ASSUME CartsInv, NEW m \in Merchants, NEW subject \in Subjects,
                      NEW kinds \in SUBSET Kinds \ {{}}, NEW limit \in Limits, NEW hints \in HintSets,
                      subject # "catalog" => GetCart(subject, m)
               PROVE  Merged(m, subject, kinds, limit, hints) = Merged(m, subject, kinds, limit, {})
    BY Zenon DEF HintsMoveNothing
  <2>1. kinds \in SUBSET Kinds /\ limit \in Nat
    BY OpportunityAssumption
  <2>2. IsFiniteSet(hints) /\ \A h \in hints : h.sku \in Nat
    BY OpportunityAssumption
  <2>3. IsFiniteSet({})
    BY FS_EmptySet
  <2>4. Merged(m, subject, kinds, limit, hints) = Suggested(Scanned(m), AnchorsOf(m, subject), kinds, limit)
    BY <2>1, <2>2, MergedIsSuggested, Zenon
  <2>5. Merged(m, subject, kinds, limit, {}) = Suggested(Scanned(m), AnchorsOf(m, subject), kinds, limit)
    BY <2>1, <2>3, MergedIsSuggested, Zenon
  <2> QED
    BY <2>4, <2>5, Zenon
<1> QED
  BY <1>1, SuggestedInvariant, PTL DEF SuggestedInv

-----------------------------------------------------------------------------
(* Whatever is made of a pair has the form of a suggestion.                 *)
LEMMA BestTyped ==
  ASSUME CatalogTypeOK, NEW kind \in Kinds, NEW s, NEW anchors, Anchored(anchors),
         NEW rows, rows \subseteq DOMAIN products, IsFiniteSet(rows),
         NEW x \in Best(kind, s, rows, anchors)
  PROVE  x \in Suggestion
<1>1. PICK p \in Hits(kind, s, rows, anchors) : x = Made(kind, s, p)
  BY BestOne
<1>2. /\ p[1] \in Anchor /\ p[2] \in rows /\ products[p[2]] \in Product /\ products[p[2]].sku = s
      /\ x = [kind |-> kind, sku |-> s, price |-> products[p[2]].price,
              score |-> ScoreOf(kind, p), anchor |-> p[1].sku]
  BY <1>1 DEF Hits, Made, Anchored, CatalogTypeOK
<1>3. x.score = ScoreOf(kind, p) /\ x.score \in SomeScore
  <2>1. x.score = ScoreOf(kind, p)
    BY <1>2
  <2>2. x.score \in Scores /\ x.score > 0
    BY BestFact
  <2> QED
    BY <2>1, <2>2 DEF Scores, SomeScore
<1>4. s \in Skus /\ products[p[2]].price \in Prices /\ p[1].sku \in Skus
  BY <1>2 DEF Product, Anchor
<1> HIDE DEF Kinds
<1> QED
  BY <1>2, <1>3, <1>4 DEF Suggestion

LEMMA MergedTyped ==
  ASSUME CartsInv, NEW m, NEW subject \in Subjects, subject # "catalog" => GetCart(subject, m),
         NEW kinds \in SUBSET Kinds, NEW limit, NEW hints,
         NEW x \in Merged(m, subject, kinds, limit, hints)
  PROVE  x \in Suggestion
<1> DEFINE rows == Scanned(m)
           anchors == AnchorsOf(m, subject)
           suggested == Suggested(rows, anchors, kinds, limit)
<1>1. CatalogTypeOK
  BY DEF CartsInv, CartTypeOK
<1>2. rows \subseteq DOMAIN products /\ IsFiniteSet(rows)
  BY <1>1, ScannedRows
<1>3. Anchored(anchors)
  BY AnchorsOfAnchored
<1>4. x \in suggested \/ x \in Promoted(hints, rows, anchors, kinds, suggested)
  BY Zenon DEF Merged, AnchorsOf, Ranked
<1> HIDE DEF rows, anchors
<1>5. ASSUME NEW k \in kinds, NEW s, NEW some \in SUBSET rows, x \in Best(k, s, some, anchors)
      PROVE  x \in Suggestion
  <2>1. some \subseteq DOMAIN products /\ IsFiniteSet(some)
    BY <1>2, FS_Subset
  <2> QED
    BY <1>1, <1>3, <1>5, <2>1, BestTyped
<1>6. CASE x \in suggested
  <2>1. x \in Candidates(rows, anchors, kinds)
    BY <1>6, SuggestedRanked, RankedSome, Zenon
  <2> QED
    BY <1>5, <2>1 DEF Candidates
<1>7. CASE x \in Promoted(hints, rows, anchors, kinds, suggested)
  <2> HIDE DEF suggested
  <2>1. \E h \in hints : h.kind \in kinds /\ \E some \in SUBSET rows : x \in Best(h.kind, h.sku, some, anchors)
    BY <1>7 DEF Promoted
  <2> QED
    BY <1>5, <2>1
<1> QED
  BY <1>4, <1>6, <1>7

(* The rows of _OPPORTUNITIES.                                              *)
StoredTyped == DOMAIN stored \subseteq Id /\ \A i \in DOMAIN stored : stored[i] \in Suggestion

LEMMA GenerateTyped ==
  ASSUME CartsInv, StoredTyped, NEW m \in Merchants, NEW subject \in Subjects,
         NEW kinds \in SUBSET Kinds, NEW limit, NEW hints, Generate(m, subject, kinds, limit, hints)
  PROVE  StoredTyped'
<1> DEFINE merged == Merged(m, subject, kinds, limit, hints)
           IdOf(s) == [merchant |-> m, kind |-> s.kind, subject |-> subject, sku |-> s.sku]
<1>1. /\ subject # "catalog" => GetCart(subject, m)
      /\ stored' = [i \in DOMAIN stored \union {IdOf(s) : s \in merged} |->
                     IF i \in DOMAIN stored THEN stored[i] ELSE CHOOSE s \in merged : IdOf(s) = i]
  BY Zenon DEF Generate
<1>2. \A s \in merged : s \in Suggestion
  BY <1>1, MergedTyped
<1> HIDE DEF merged
<1>3. \A s \in merged : IdOf(s) \in Id
  BY <1>2 DEF Id, Suggestion
<1>4. \A i \in DOMAIN stored' : i \in Id /\ stored'[i] \in Suggestion
  <2> SUFFICES ASSUME NEW i \in DOMAIN stored' PROVE i \in Id /\ stored'[i] \in Suggestion
    OBVIOUS
  <2>1. CASE i \in DOMAIN stored
    BY <1>1, <2>1 DEF StoredTyped
  <2>2. CASE i \notin DOMAIN stored
    <3>1. \E s \in merged : IdOf(s) = i
      BY <1>1, <2>2
    <3> DEFINE s == CHOOSE s \in merged : IdOf(s) = i
    <3>2. s \in merged /\ IdOf(s) = i
      BY <3>1
    <3>3. stored'[i] = s
      BY <1>1, <2>2
    <3> HIDE DEF s, IdOf
    <3> QED
      BY <1>2, <1>3, <3>2, <3>3
  <2> QED
    BY <2>1, <2>2
<1> QED
  BY <1>4 DEF StoredTyped

(* Every suggestion that is kept has the form of one, under an id of its    *)
(* own merchant, kind, subject and sku (generate, insert_missing).          *)
THEOREM OpportunitiesTypeCorrect == OpportunitiesSpec => []OpportunitiesTypeOK
<1> DEFINE Typed == StoredTyped /\ orders \in Seq(CartOrder)
<1>1. OpportunitiesInit => Typed
  BY DEF OpportunitiesInit, CartsInit, StoredTyped
<1>2. SuggestedInv /\ Typed /\ [OpportunitiesNext]_<<catalogVars, cartVars, stored>> => Typed'
  <2> SUFFICES ASSUME SuggestedInv, Typed, [OpportunitiesNext]_<<catalogVars, cartVars, stored>>
               PROVE  Typed'
    OBVIOUS
  <2>1. CASE CartsNext /\ UNCHANGED stored
    BY <2>1, CartStepTyped DEF SuggestedInv, StoredTyped
  <2>2. ASSUME NEW m \in Merchants, NEW subject \in Subjects, NEW kinds \in SUBSET Kinds,
               NEW limit, NEW hints, Generate(m, subject, kinds, limit, hints)
        PROVE  Typed'
    <3>1. orders' = orders
      BY <2>2 DEF Generate, cartVars
    <3> QED
      BY <2>2, <3>1, GenerateTyped DEF SuggestedInv
  <2>3. CASE UNCHANGED <<catalogVars, cartVars, stored>>
    BY <2>3 DEF StoredTyped, cartVars
  <2> QED
    BY <2>1, <2>2, <2>3 DEF OpportunitiesNext
<1>3. SuggestedInv /\ Typed => OpportunitiesTypeOK
  BY DEF SuggestedInv, CartsInv, CartTypeOK, CartsTypeOK, StoredTyped, OpportunitiesTypeOK
<1> QED
  BY <1>1, <1>2, <1>3, SuggestedInvariant, PTL DEF OpportunitiesSpec
=============================================================================
