SPECIFICATION OffersSpec
CONSTANTS
  OfferedProducts <- Dear
  OfferQuantities = {1, 4, 6}
  OnHand = {9}
  Texts <- PlainTexts
  MaxDiscountPct = 15
  SkuDiscountPct <- NoSkuCaps
  MaxAbsoluteDiscount = 500
  MinMarginPct = 20
  MaxLineQty = 10
  MaxOrderQty = 10
  MaxRounds = 3
  BlockScore = 85
  MaxMessages = 4
  NoOffer = NoOffer
INVARIANT DiscountWithinAbsoluteCap
CHECK_DEADLOCK FALSE
