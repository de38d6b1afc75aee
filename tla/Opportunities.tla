--------------------------- MODULE Opportunities ---------------------------
(***************************************************************************)
(* Growth suggestions: rules score a merchant's catalogue against the lines *)
(* of a cart, or against its dearest products, and the store keeps one row  *)
(* per merchant, kind, subject and sku, the first one written.  The AI      *)
(* runtime may send hints; the same rules score them.                       *)
(*                                                                         *)
(* Scores are ten-thousandths, rounded half to even as _quantise does; 0    *)
(* stands for "does not qualify", which no stored score is.                 *)
(***************************************************************************)
EXTENDS Carts, Money

CONSTANTS
  HintSets,     \* sets of hints the runtime sends with a request
  Limits,       \* max_suggestions of a request
  AnchorCount,  \* DEFAULT_ANCHOR_COUNT
  ScanLimit     \* CATALOG_SCAN_LIMIT

Kinds == {"upsell", "cross_sell"}

ASSUME OpportunityAssumption ==
  /\ Skus \subseteq Nat   \* skus sort as strings; here as numbers
  /\ \A hints \in HintSets : IsFiniteSet(hints) /\ hints \subseteq [kind : Kinds, sku : Skus]
  /\ Limits \subseteq Nat \ {0} /\ AnchorCount \in Nat \ {0} /\ ScanLimit \in Nat \ {0}
  /\ "catalog" \notin CartIds

VARIABLE stored \* _OPPORTUNITIES: id (what is suggested to whom) -> row

Subjects == CartIds \union {"catalog"}
Id == [merchant : Merchants, kind : Kinds, subject : Subjects, sku : Skus]

(* Shares of one, kept to four places; none at all is no suggestion.        *)
SomeScore == 1..10000

Suggestion == [kind : Kinds, sku : Skus, price : Prices, score : SomeScore, anchor : Skus]

-----------------------------------------------------------------------------
(* Variant of Sellable: stock is not looked at.                             *)
SellableActive(row) == row.active

Sellable(row) == row.active /\ row.stock > 0

(* 1 / (1 + uplift), for an uplift over 0 and up to MAX_UPLIFT_RATIO.       *)
UpsellScore(anchor, row) ==
  IF /\ FamilyOf(row) = anchor.family
     /\ anchor.price < row.price /\ row.price <= 3 * anchor.price
  THEN RoundHalfEven(10000 * anchor.price, row.price)
  ELSE 0

(* 1 - the distance of the price ratio from 0.30, in units of 0.30.         *)
CrossSellScore(anchor, row) ==
  LET whole == 3 * anchor.price
      off == Distance(10 * row.price, whole)
  IN IF FamilyOf(row) # anchor.family /\ off < whole
     THEN RoundHalfEven(10000 * (whole - off), whole)
     ELSE 0

(* score_candidate.                                                         *)
Score(kind, anchor, row) ==
  IF ~Sellable(row) \/ anchor.price <= 0 \/ row.sku = anchor.sku THEN 0
  ELSE IF kind = "upsell" THEN UpsellScore(anchor, row)
  ELSE CrossSellScore(anchor, row)

-----------------------------------------------------------------------------
(* The rows one request looks at: the first of the listing.                 *)
Scanned(m) ==
  LET all == Listing(products, m)
  IN {i \in all : Cardinality({j \in all : j < i}) < ScanLimit}

(* The order of the anchors: sorted() keeps equals as they were.            *)
DearerFirst(a, b) ==
  \/ a.price > b.price
  \/ a.price = b.price /\ a.sku < b.sku
  \/ a.price = b.price /\ a.sku = b.sku /\ a.at < b.at

(* anchors_from_cart: a line has no attributes, so its family is read off   *)
(* the sku whatever the catalogue declares.                                 *)
AnchorsFromCart(items) ==
  {[sku |-> items[i].sku, price |-> items[i].price, family |-> FamilyOfSku[items[i].sku],
    at |-> i] : i \in DOMAIN items}

AnchorsFromCatalog(rows) ==
  LET all == {[sku |-> products[i].sku, price |-> products[i].price,
               family |-> FamilyOf(products[i]), at |-> i] :
                i \in {j \in rows : Sellable(products[j])}}
  IN {a \in all : Cardinality({b \in all : DearerFirst(b, a)}) < AnchorCount}

(* The score of a row for an anchor, p being the two.                       *)
ScoreOf(kind, p) == Score(kind, p[1], products[p[2]])

(* The pair that is kept: the higher score, and of equal ones the first     *)
(* anchor's, and of these the first row's.                                  *)
KeptBefore(kind, p, q) ==
  \/ ScoreOf(kind, p) > ScoreOf(kind, q)
  \/ /\ ScoreOf(kind, p) = ScoreOf(kind, q)
     /\ DearerFirst(p[1], q[1]) \/ (p[1] = q[1] /\ p[2] < q[2])

(* The best of some rows for one sku, when one qualifies.                   *)
Best(kind, s, rows, anchors) ==
  LET hits == {p \in anchors \X rows : products[p[2]].sku = s /\ ScoreOf(kind, p) > 0}
      top == CHOOSE p \in hits : \A q \in hits \ {p} : KeptBefore(kind, p, q)
  IN IF hits = {} THEN {}
     ELSE {[kind |-> kind, sku |-> s, price |-> products[top[2]].price,
            score |-> ScoreOf(kind, top), anchor |-> top[1].sku]}

(* Suggestion.sort_key: a total order, "cross_sell" before "upsell".        *)
RanksBefore(a, b) ==
  \/ a.score > b.score
  \/ a.score = b.score /\ a.kind = "cross_sell" /\ b.kind = "upsell"
  \/ a.score = b.score /\ a.kind = b.kind /\ a.sku < b.sku

(* The best of some suggestions; RanksBefore is the order of the answer.    *)
Ranked(suggestions, limit) ==
  {s \in suggestions : Cardinality({t \in suggestions : RanksBefore(t, s)}) < limit}

(* rules.generate.                                                          *)
Suggested(rows, anchors, kinds, limit) ==
  Ranked(UNION {Best(k, products[i].sku, rows, anchors) : k \in kinds, i \in rows}, limit)

(* Variant of Promoted: a hint scores what the model would like it to.      *)
PromotedAsAsked(hints, rows, anchors, kinds, existing) ==
  {[kind |-> h.kind, sku |-> h.sku, price |-> products[i].price, score |-> 10000, anchor |-> h.sku] :
     h \in {x \in hints : x.kind \in kinds}, i \in {j \in rows : Sellable(products[j])}}

(* _apply_hints: what a hint adds, scored on the last row of its sku.       *)
Promoted(hints, rows, anchors, kinds, existing) ==
  LET news == {h \in hints : h.kind \in kinds
                 /\ \A s \in existing : s.kind # h.kind \/ s.sku # h.sku}
      LastOf(s) == {i \in rows : products[i].sku = s
                      /\ \A j \in rows : products[j].sku = s => j <= i}
  IN UNION {Best(h.kind, h.sku, LastOf(h.sku), anchors) : h \in news}

(* What one call of generate would store.                                   *)
Merged(m, subject, kinds, limit, hints) ==
  LET rows == Scanned(m)
      anchors == IF subject = "catalog" THEN AnchorsFromCatalog(rows)
                 ELSE AnchorsFromCart(cart[subject].items)
      suggested == Suggested(rows, anchors, kinds, limit)
  IN Ranked(suggested \union Promoted(hints, rows, anchors, kinds, suggested), limit)

-----------------------------------------------------------------------------
OpportunitiesInit == CartsInit /\ stored = [i \in {} |-> {}]

(* generate, with insert_missing: a row already there is kept as it is.     *)
Generate(m, subject, kinds, limit, hints) ==
  /\ subject # "catalog" => GetCart(subject, m)
  /\ LET merged == Merged(m, subject, kinds, limit, hints)
         IdOf(s) == [merchant |-> m, kind |-> s.kind, subject |-> subject, sku |-> s.sku]
     IN stored' = [i \in DOMAIN stored \union {IdOf(s) : s \in merged} |->
                     IF i \in DOMAIN stored THEN stored[i] ELSE CHOOSE s \in merged : IdOf(s) = i]
  /\ UNCHANGED <<catalogVars, cartVars>>

OpportunitiesNext ==
  \/ CartsNext /\ UNCHANGED stored
  \/ \E m \in Merchants, subject \in Subjects, kinds \in SUBSET Kinds \ {{}},
        limit \in Limits, hints \in HintSets : Generate(m, subject, kinds, limit, hints)

OpportunitiesSpec ==
  OpportunitiesInit /\ [][OpportunitiesNext]_<<catalogVars, cartVars, stored>>

-----------------------------------------------------------------------------
OpportunitiesTypeOK ==
  /\ CartsTypeOK
  /\ DOMAIN stored \subseteq Id
  /\ \A i \in DOMAIN stored : stored[i] \in Suggestion

(* "Scoring is deterministic and confined to [0, 1]", and only what the     *)
(* merchant itself had on sale is ever suggested to it, at the listed       *)
(* price and never around the same sku, hints or no hints.                  *)
SuggestionWasSellable ==
  \A i \in DOMAIN stored :
    /\ \E r \in listed : r.merchant = i.merchant /\ r.sku = i.sku
                           /\ r.stock > 0 /\ r.price = stored[i].price
    /\ stored[i].anchor # i.sku /\ stored[i].score \in SomeScore

(* "The model widens the search, the Control Plane decides the answer":     *)
(* whatever the catalogue and the carts, hints change nothing a call would  *)
(* store, nor so the order it is answered in.                               *)
HintsMoveNothing ==
  \A m \in Merchants, subject \in Subjects, kinds \in SUBSET Kinds \ {{}},
     limit \in Limits, hints \in HintSets :
    (subject # "catalog" => GetCart(subject, m)) =>
      Merged(m, subject, kinds, limit, hints) = Merged(m, subject, kinds, limit, {})
=============================================================================
