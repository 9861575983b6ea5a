----------------------------- MODULE OrderPricing -----------------------------
(***************************************************************************)
(* What an order costs: the amounts computed from the live catalogue when  *)
(* an order is placed and when its lines are edited, and the shortcut that *)
(* only replaces the delivery fee (app/services/order_service.py, create   *)
(* and update; order_profitability_service.py; delivery_fee_service.py;    *)
(* package_pricing_service.py; collection_packaging_fee.py;                *)
(* collection_selection_validator.py).                                     *)
(*                                                                         *)
(* One order, with a line of loose cookies and a line of packs of one      *)
(* cookie.  Amounts are whole cents: every one is rounded to a cent where  *)
(* it is computed.  Quantities are whole numbers.                          *)
(***************************************************************************)
EXTENDS Integers

CONSTANTS
    Catalogues,    \* what the cookie and the packaging may cost: price, pack, catering
    Areas,         \* delivery areas, [fee, pickup]
    TaxRates,      \* tax charges, [percent, fixed]
    Offers,        \* discount grants, [percentage, value]
    NoOffer,
    MaxCookies,    \* bounds the cookies of the product line
    MaxPacks,      \* bounds the packs
    MinPack,       \* cookies in a pack, at least
    MaxPack,       \* and at most
    CookieCost,    \* cost of a cookie from its recipe
    PackCost       \* packaging materials of a pack

(* A packaging fee is for the package or for every cookie in it. *)
PackagingFees == [amount : Nat, perCookie : BOOLEAN]

ASSUME PricingAssumption ==
    /\ Catalogues \subseteq [price : Nat, pack : PackagingFees, catering : PackagingFees]
    /\ Areas \subseteq [fee : Nat, pickup : BOOLEAN]
    /\ TaxRates \subseteq [percent : Nat, fixed : Nat]
    /\ Offers \subseteq [percentage : BOOLEAN, value : Nat]
    /\ NoOffer \notin Offers
    /\ {MaxCookies, MaxPacks, MinPack, MaxPack, CookieCost, PackCost} \subseteq Nat

VARIABLES
    catalogue, \* the price of a cookie, the fee of a pack and that of loose cookies
    taxes,     \* active tax charges
    lines,     \* of the order: cookies, packs, and the cookies chosen for them
    area,      \* the delivery area of the order, with the fee it was charged
    bill,      \* the amounts of the order
    charged,   \* history: the catalogue, the taxes and the offer its lines were charged by
    named      \* history: the last request named the packs

pricingVars == <<catalogue, taxes, lines, area, bill, charged, named>>

-----------------------------------------------------------------------------
(* Definitions *)

Least(a, b) == IF a <= b THEN a ELSE b

(* Hundredths of a cent to cents, half to even. *)
Money(n) ==
    LET q == n \div 100
        r == n % 100
    IN  IF r > 50 \/ (r = 50 /\ q % 2 = 1) THEN q + 1 ELSE q

(* _calculate_order_taxes *)
TaxOn(amount, rates) == Money(amount * rates.percent) + rates.fixed

DiscountOn(subtotal, offer) ==
    CASE offer = NoOffer   -> 0
      [] offer # NoOffer /\ offer.percentage  -> Least(Money(subtotal * offer.value), subtotal)
      [] offer # NoOffer /\ ~offer.percentage -> Least(offer.value, subtotal)

(* resolve_delivery_cost *)
DeliveryCost(a) == IF a.pickup THEN 0 ELSE a.fee

(* resolve_packaging_fee_from_settings, for k cookies. *)
PackagingFee(fee, k) == IF fee.perCookie THEN fee.amount * k ELSE fee.amount

(* Loose cookies carry a fee of their own. *)
CateringFee(prices, c) == IF c > 0 THEN PackagingFee(prices.catering, c) ELSE 0

(* calculate_package_selling_price, of a pack of k cookies. *)
PackPrice(prices, k) == k * prices.price + PackagingFee(prices.pack, k)

(* The materials count only when a fee is charged for them. *)
MaterialsCost(prices, n, k) == IF PackagingFee(prices.pack, k) > 0 THEN n * PackCost ELSE 0

(* validate: what is saved for the line is what was chosen, for every pack. *)
ChosenOnce(packs, k) == k      \* mutant: the choice is saved once

Chosen(packs, k) == packs * k

(* build_order_snapshots for c cookies, n packs of k cookies each. *)
Bill(prices, rates, c, n, k, a, offer) ==
    LET products    == c * prices.price + CateringFee(prices, c)
        collections == n * PackPrice(prices, k)
        subtotal    == products + collections
        reduction   == DiscountOn(subtotal, offer)
        tax         == TaxOn(subtotal - reduction, rates)
        materials   == MaterialsCost(prices, n, k)
        revenue     == subtotal - reduction + a.fee + tax
        cost        == (c + n * k) * CookieCost + DeliveryCost(a) + materials
    IN  [products |-> products, collections |-> collections, discount |-> reduction,
         tax |-> tax, gross |-> subtotal + a.fee + TaxOn(subtotal, rates),
         fee |-> a.fee, deliveryCost |-> DeliveryCost(a), materials |-> materials,
         revenue |-> revenue, cost |-> cost, profit |-> revenue - cost]

(* apply_delivery_fee_snapshot, from the amounts of the order alone. *)
FeeAdded(b, a) ==      \* mutant: the old delivery cost stays in the cost
    [b EXCEPT !.fee = a.fee, !.deliveryCost = DeliveryCost(a),
              !.revenue = b.products + b.collections - b.discount + a.fee + b.tax,
              !.gross = b.gross - b.fee + a.fee,
              !.cost = b.cost + DeliveryCost(a),
              !.profit = b.products + b.collections - b.discount + a.fee + b.tax
                            - b.cost - DeliveryCost(a)]

GrossOnNet(b, a) ==    \* mutant: the gross is taxed as the discounted amounts were
    [b EXCEPT !.fee = a.fee, !.deliveryCost = DeliveryCost(a),
              !.revenue = b.revenue - b.fee + a.fee,
              !.cost = b.cost - b.deliveryCost + DeliveryCost(a),
              !.profit = b.revenue - b.fee + a.fee - (b.cost - b.deliveryCost + DeliveryCost(a)),
              !.gross = b.products + b.collections + a.fee + b.tax]

FeeReplaced(b, a) ==
    LET cookies == b.cost - (b.deliveryCost + b.materials)
        cost    == cookies + DeliveryCost(a) + b.materials
        revenue == b.products + b.collections - b.discount + a.fee + b.tax
        onGross == b.gross - (b.products + b.collections) - b.fee
    IN  [b EXCEPT !.fee = a.fee, !.deliveryCost = DeliveryCost(a),
                  !.revenue = revenue, !.cost = cost, !.profit = revenue - cost,
                  !.gross = b.products + b.collections + a.fee + onGross]

-----------------------------------------------------------------------------
(* Actions *)

NoLines == [cookies |-> 0, packs |-> 0, chosen |-> 0]

NoBill == [products |-> 0, collections |-> 0, discount |-> 0, tax |-> 0, gross |-> 0, fee |-> 0,
           deliveryCost |-> 0, materials |-> 0, revenue |-> 0, cost |-> 0, profit |-> 0]

Ordered == lines # NoLines

(* The lines are replaced and everything is charged anew. *)
Charge(c, n, k, a, offer) ==
    /\ c > 0 \/ n > 0
    /\ n > 0 => k \in MinPack..MaxPack
    /\ lines' = [cookies |-> c, packs |-> n, chosen |-> Chosen(n, k)]
    /\ area' = a
    /\ bill' = Bill(catalogue, taxes, c, n, k, a, offer)
    /\ charged' = [catalogue |-> catalogue, taxes |-> taxes, offer |-> offer]
    /\ UNCHANGED <<catalogue, taxes>>

(* create, by an administrator (no offer) or at checkout. *)
PlaceOrder(c, n, k, a, offer) ==
    /\ ~Ordered
    /\ Charge(c, n, k, a, offer)
    /\ named' = TRUE

(* update with another delivery area and no lines. *)
ChangeArea(a) ==
    /\ Ordered
    /\ area' = a
    /\ bill' = FeeReplaced(bill, a)
    /\ named' = FALSE
    /\ UNCHANGED <<catalogue, taxes, lines, charged>>

(* update with the packs and perhaps the cookies, in the same area or in    *)
(* another one.  No offer is passed on.                                     *)
EditLines(c, n, k, a) ==
    /\ Ordered
    /\ Charge(c, n, k, a, NoOffer)
    /\ named' = TRUE

(* update with product lines only: the saved selections are given to the    *)
(* validator as the choice for one pack.                                    *)
EditProducts(c, a) ==
    /\ Ordered
    /\ Charge(c, lines.packs, lines.chosen, a, NoOffer)
    /\ named' = FALSE

SetCatalogue(prices) ==
    /\ catalogue' = prices
    /\ UNCHANGED <<taxes, lines, area, bill, charged, named>>

SetTaxes(rates) ==
    /\ taxes' = rates
    /\ UNCHANGED <<catalogue, lines, area, bill, charged, named>>

PricingInit ==
    /\ catalogue \in Catalogues
    /\ taxes \in TaxRates
    /\ lines = NoLines
    /\ area = [fee |-> 0, pickup |-> FALSE]
    /\ bill = NoBill
    /\ charged = [catalogue |-> catalogue, taxes |-> taxes, offer |-> NoOffer]
    /\ named = FALSE

PricingNext ==
    \/ \E c \in 0..MaxCookies, n \in 0..MaxPacks, k \in MinPack..MaxPack, a \in Areas :
          \/ \E offer \in Offers \cup {NoOffer} : PlaceOrder(c, n, k, a, offer)
          \/ EditLines(c, n, k, a)
    \/ \E a \in Areas : ChangeArea(a) \/ \E c \in 0..MaxCookies : EditProducts(c, a)
    \/ \E prices \in Catalogues : SetCatalogue(prices)
    \/ \E rates \in TaxRates : SetTaxes(rates)

PricingSpec == PricingInit /\ [][PricingNext]_pricingVars

-----------------------------------------------------------------------------
(* Properties *)

BillType == [products : Int, collections : Int, discount : Int, tax : Int, gross : Int,
             fee : Int, deliveryCost : Int, materials : Int, revenue : Int, cost : Int,
             profit : Int]

PricingTypeOK ==
    /\ catalogue \in Catalogues
    /\ taxes \in TaxRates
    /\ lines \in [cookies : Nat, packs : Nat, chosen : Nat]
    /\ area \in [fee : Nat, pickup : BOOLEAN]
    /\ bill \in BillType
    /\ charged \in [catalogue : Catalogues, taxes : TaxRates, offer : Offers \cup {NoOffer}]
    /\ named \in BOOLEAN

(* However lines, delivery areas, prices and taxes are changed one after    *)
(* another, the totals of an order are the sums of its parts and its cost   *)
(* is that of the cookies saved with it.                                    *)
BillAddsUp ==
    /\ bill.revenue = bill.products + bill.collections - bill.discount + bill.fee + bill.tax
    /\ bill.cost = (lines.cookies + lines.chosen) * CookieCost
                      + bill.deliveryCost + bill.materials
    /\ bill.profit = bill.revenue - bill.cost
    /\ bill.fee = area.fee /\ bill.deliveryCost = DeliveryCost(area)
    /\ bill.discount \in 0..(bill.products + bill.collections)

(* The shortcut that replaces a delivery fee arrives, over any number of    *)
(* edits, where a full calculation would: every amount of an order, the     *)
(* gross with its own tax included, is what charging the saved lines in the *)
(* present area gives by the prices, the taxes and the discount of the last *)
(* full calculation, although the shortcut sees none of these.              *)
AmountsAsAnew ==
    Ordered =>
       \E k \in 0..MaxPack :
          /\ lines.chosen = lines.packs * k
          /\ bill = Bill(charged.catalogue, charged.taxes, lines.cookies, lines.packs, k,
                         area, charged.offer)

(* "Immutable cookie selections within an order collection line": an edit    *)
(* that does not name the packs leaves what was chosen for them.            *)
SelectionsKept == [][~named' => lines'.chosen = lines.chosen]_pricingVars
=============================================================================
