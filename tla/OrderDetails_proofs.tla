-------------------------- MODULE OrderDetails_proofs --------------------------
(***************************************************************************)
(* What holds of the delivery date and of the amounts of an order, for     *)
(* every day, weekday setting, price, tax rate, discount and quantity, of  *)
(* the discount grants it uses and of the purchase plan it is part of, for *)
(* every set of grants, orders and overlapping requests: the row lock of a *)
(* checkout keeps the grant active until the checkout commits, so that     *)
(* what a checkout uses nobody has used; and the delivered orders of a     *)
(* plan are among those it was made for, so that they use no more, but for *)
(* half a unit that each review may round up.                              *)
(***************************************************************************)
EXTENDS DeliverySchedule, OrderPricing, DiscountGrants, PurchasePlanning, PlannedConsumption,
        SumFacts

-----------------------------------------------------------------------------
(* Delivery dates *)

LEMMA Weekday ==
    ASSUME NEW t \in Int
    PROVE  /\ t % 7 \in Weekdays
           /\ (t + 7) % 7 = t % 7
           /\ (t + 1) % 7 = IF t % 7 = 6 THEN 0 ELSE (t % 7) + 1
BY DEF Weekdays

(* At a later hour and a day later nobody is given an earlier date. *)
LEMMA WebsiteDateRises ==
    ASSUME NEW t \in Int, NEW c \in Weekdays, NEW d \in Weekdays
    PROVE  /\ WebsiteDate(t, "early", c, d) = WebsiteDate(t, "day", c, d)
           /\ WebsiteDate(t, "day", c, d) <= WebsiteDate(t, "late", c, d)
           /\ WebsiteDate(t, "late", c, d) <= WebsiteDate(t + 1, "early", c, d)
<1>1. t + 1 \in Int
    OBVIOUS
<1>2. (t + 1 + 7) % 7 = (t + 1) % 7
    BY <1>1, Weekday
<1> QED BY <1>2, Weekday DEF WebsiteDate, BeforeCutoff, WeekDelivery, Weekdays

LEMMA WebsiteDateNear ==
    ASSUME NEW t \in Int, NEW p \in {"early", "day", "late"},
           NEW c \in Weekdays, NEW d \in Weekdays
    PROVE  WebsiteDate(t, p, c, d) \in t..(t + 13)
BY Weekday DEF WebsiteDate, BeforeCutoff, WeekDelivery, Weekdays

(* The cutoff day counts as past: the date depends on the weekday alone. *)
LEMMA AdminDateIs ==
    ASSUME NEW t \in Int, NEW c \in Weekdays, NEW d \in Weekdays, c <= d
    PROVE  AdminDate(t, c, d) = IF t % 7 < c THEN t - (t % 7) + d ELSE t - (t % 7) + 7 + d
<1>1. (d - c) % 7 = d - c
    BY DEF Weekdays
<1>2. (d - (t % 7)) % 7 = IF t % 7 <= d THEN d - (t % 7) ELSE d - (t % 7) + 7
    BY Weekday DEF Weekdays
<1> QED BY <1>1, <1>2, Weekday DEF AdminDate, Weekdays

LEMMA AdminDateNext ==
    ASSUME NEW t \in Int, NEW c \in Weekdays, NEW d \in Weekdays, c <= d
    PROVE  /\ AdminDate(t, c, d) <= AdminDate(t + 1, c, d)
           /\ AdminDate(t, c, d) \in (t + 1)..(t + 13)
<1>1. t + 1 \in Int
    OBVIOUS
<1>2. AdminDate(t + 1, c, d) = IF (t + 1) % 7 < c THEN t + 1 - ((t + 1) % 7) + d
                               ELSE t + 1 - ((t + 1) % 7) + 7 + d
    BY <1>1, AdminDateIs
<1>3. AdminDate(t, c, d) = IF t % 7 < c THEN t - (t % 7) + d ELSE t - (t % 7) + 7 + d
    BY AdminDateIs
<1>4. t % 7 \in 0..6 /\ (t + 1) % 7 = IF t % 7 = 6 THEN 0 ELSE (t % 7) + 1
    BY Weekday DEF Weekdays
<1> QED BY <1>2, <1>3, <1>4 DEF Weekdays

LEMMA AdminDateNear ==
    ASSUME NEW t \in Int, NEW c \in Weekdays, NEW d \in Weekdays
    PROVE  AdminDate(t, c, d) \in t..(t + 13)
<1>1. (d - (t % 7)) % 7 \in 0..6
    BY DEF Weekdays
<1> QED BY <1>1 DEF AdminDate

(* The dates are the first open batches; m is the Monday of the week. *)
LEMMA DatesPromised ==
    ASSUME today \in Int, clock \in {"early", "day", "late"},
           cutoff \in Weekdays, delivery \in Weekdays, cutoff <= delivery
    PROVE  FirstOpen(OnlineDate, {"early", "day"}) /\ FirstOpen(HandDate, {"early"})
<1> DEFINE r == today % 7
           m == today - r
           d == delivery
           c == cutoff
<1>1. (today + 7) % 7 = r /\ r \in 0..6 /\ m \in Int /\ today = m + r
    BY DEF Weekdays
<1>2. /\ (m + d) % 7 = d /\ (m + d - 7) % 7 = d /\ (m + 7 + d) % 7 = d
      /\ today + 7 - r + d = m + 7 + d
    BY DEF Weekdays
<1>3. OnlineDate = IF r < c \/ (r = c /\ clock # "late") THEN m + d ELSE m + 7 + d
    BY <1>1, <1>2 DEF OnlineDate, WebsiteDate, BeforeCutoff, WeekDelivery, Weekdays
<1>4. HandDate = IF r < c \/ (r = c /\ clock = "early") THEN m + d ELSE m + 7 + d
    <2>1. CASE clock # "early"
        BY <2>1, AdminDateIs DEF HandDate, ServerDate
    <2>2. CASE clock = "early"
        <3> DEFINE y == today - 1
        <3>1. y \in Int /\ HandDate = AdminDate(y, c, d)
            BY <2>2 DEF HandDate, ServerDate
        <3>2. y % 7 = IF r = 0 THEN 6 ELSE r - 1
            OBVIOUS
        <3>3. AdminDate(y, c, d) = IF y % 7 < c THEN y - (y % 7) + d ELSE y - (y % 7) + 7 + d
            BY <3>1, AdminDateIs
        <3>4. c \in 0..6 /\ d \in 0..6
            BY DEF Weekdays
        <3> HIDE DEF r
        <3> QED BY <1>1, <2>2, <3>1, <3>2, <3>3, <3>4
    <2> QED BY <2>1, <2>2
<1>5. c \in 0..6 /\ d \in 0..6
    BY DEF Weekdays
<1> HIDE DEF m, r
<1>6. FirstOpen(OnlineDate, {"early", "day"})
    BY <1>1, <1>2, <1>3, <1>5 DEF FirstOpen, Open
<1>7. FirstOpen(HandDate, {"early"})
    BY <1>1, <1>2, <1>4, <1>5 DEF FirstOpen, Open
<1> QED BY <1>6, <1>7

(* The type invariant, with what is already booked no later than what would *)
(* be booked now.                                                           *)
ScheduleInv ==
    /\ ScheduleTypeOK
    /\ clock = "early" => today # 0
    /\ booked # NoDate => booked <= OnlineDate
    /\ entered # NoDate /\ cutoff <= delivery => entered <= HandDate

LEMMA DatesNow ==
    ASSUME ScheduleTypeOK
    PROVE  /\ today \in Nat /\ ServerDate \in {today - 1, today}
           /\ OnlineDate \in today..(today + 13)
           /\ HandDate \in (today - 1)..(today + 13)
           /\ cutoff <= delivery \/ clock # "early" => HandDate \in today..(today + 13)
<1>1. today \in Nat /\ ServerDate \in {today - 1, today}
    BY ScheduleAssumption DEF ScheduleTypeOK, ServerDate
<1>2. OnlineDate \in today..(today + 13)
    BY <1>1, WebsiteDateNear DEF ScheduleTypeOK, OnlineDate
<1>3. ServerDate \in Int /\ HandDate \in ServerDate..(ServerDate + 13)
    BY <1>1, AdminDateNear DEF ScheduleTypeOK, HandDate
<1>4. cutoff <= delivery => HandDate \in (ServerDate + 1)..(ServerDate + 13)
    BY <1>3, AdminDateNext DEF ScheduleTypeOK, HandDate
<1>5. clock # "early" => ServerDate = today
    BY DEF ServerDate
<1> QED BY <1>1, <1>2, <1>3, <1>4, <1>5

LEMMA ScheduleInitInv == ScheduleInit => ScheduleInv
BY ScheduleAssumption DEF ScheduleInit, ScheduleInv, ScheduleTypeOK

LEMMA ScheduleNextInv == ScheduleInv /\ [ScheduleNext]_scheduleVars => ScheduleInv'
<1> SUFFICES ASSUME ScheduleInv, [ScheduleNext]_scheduleVars PROVE ScheduleInv'
    OBVIOUS
<1> USE DEF ScheduleInv
<1>0. /\ today \in Int /\ today >= 0 /\ cutoff \in Weekdays /\ delivery \in Weekdays
      /\ Horizon \in Nat /\ NoDate \notin Nat
      /\ OnlineDate \in Int /\ HandDate \in Int
    BY ScheduleAssumption, DatesNow DEF ScheduleTypeOK
<1>1. CASE Tick
    <2>1. ScheduleTypeOK'
        BY <1>0, <1>1 DEF Tick, ScheduleTypeOK
    <2>2. OnlineDate' \in Int /\ HandDate' \in Int
        <3>1. today' \in Int /\ cutoff' = cutoff /\ delivery' = delivery
              /\ ServerDate' \in {today' - 1, today'} /\ clock' \in {"early", "day", "late"}
            BY <1>0, <1>1 DEF Tick, ServerDate
        <3>2. WebsiteDate(today', clock', cutoff, delivery) \in Int
            BY <1>0, <3>1, WebsiteDateNear
        <3>3. AdminDate(ServerDate', cutoff, delivery) \in Int
            BY <1>0, <3>1, AdminDateNear
        <3> QED BY <3>1, <3>2, <3>3 DEF OnlineDate, HandDate
    <2>3. OnlineDate <= OnlineDate'
        BY <1>0, <1>1, <2>2, WebsiteDateRises DEF Tick, OnlineDate
    <2>4. cutoff <= delivery => HandDate <= HandDate'
        <3>1. \/ ServerDate' = ServerDate
              \/ ServerDate' = ServerDate + 1
            BY <1>0, <1>1 DEF Tick, ServerDate
        <3>2. ServerDate \in Int /\ cutoff' = cutoff /\ delivery' = delivery
            BY <1>0, <1>1 DEF Tick, ServerDate
        <3>3. cutoff <= delivery =>
                  AdminDate(ServerDate, cutoff, delivery) <= AdminDate(ServerDate + 1, cutoff, delivery)
            BY <1>0, <3>2, AdminDateNext
        <3> QED BY <1>0, <3>1, <3>2, <3>3 DEF HandDate
    <2>5. UNCHANGED <<booked, entered, cutoff, delivery>>
        BY <1>1 DEF Tick
    <2>6. booked # NoDate => booked \in Int
        BY DEF ScheduleTypeOK
    <2>7. entered # NoDate => entered \in Int
        BY DEF ScheduleTypeOK
    <2>8. clock' = "early" => today' # 0
        BY <1>0, <1>1 DEF Tick
    <2> QED BY <1>0, <2>1, <2>2, <2>3, <2>4, <2>5, <2>6, <2>7, <2>8
<1>2. ASSUME NEW c \in Weekdays, NEW d \in Weekdays, SetSchedule(c, d) PROVE ScheduleInv'
    BY <1>0, <1>2 DEF SetSchedule, ScheduleTypeOK
<1>3. CASE OrderOnline \/ OrderByHand
    <2>1. UNCHANGED <<today, clock, cutoff, delivery>>
        BY <1>3 DEF OrderOnline, OrderByHand
    <2>2. OnlineDate' = OnlineDate /\ HandDate' = HandDate
        BY <2>1 DEF OnlineDate, HandDate, ServerDate
    <2>3. booked' \in {booked, OnlineDate} /\ entered' \in {entered, HandDate}
        BY <1>3 DEF OrderOnline, OrderByHand
    <2>4. OnlineDate \in Nat
        BY <1>0, DatesNow
    <2>5. HandDate \in Nat
        BY <1>0, DatesNow
    <2> QED BY <1>0, <2>1, <2>2, <2>3, <2>4, <2>5 DEF ScheduleTypeOK
<1>4. CASE UNCHANGED scheduleVars
    BY <1>4 DEF scheduleVars, ScheduleTypeOK, OnlineDate, HandDate, ServerDate
<1> QED BY <1>1, <1>2, <1>3, <1>4 DEF ScheduleNext

LEMMA ScheduleInvSafe == ScheduleInv => PromisedBatch /\ NeverOvertaken
<1> SUFFICES ASSUME ScheduleInv PROVE PromisedBatch /\ NeverOvertaken
    OBVIOUS
<1>1. today \in Int /\ cutoff \in Weekdays /\ delivery \in Weekdays
    BY ScheduleAssumption DEF ScheduleInv, ScheduleTypeOK
<1>2. PromisedBatch
    BY <1>1, DatesPromised DEF PromisedBatch, ScheduleInv, ScheduleTypeOK
<1>3. NeverOvertaken
    BY DatesNow DEF NeverOvertaken, ScheduleInv
<1> QED BY <1>2, <1>3

(* With the cutoff no later in the week than the delivery, whichever        *)
(* weekdays they are and whenever in the day an order is placed, it joins   *)
(* the batch promised.  And under any weekdays no order overtakes an        *)
(* earlier one of the website, or is given a day that is past or two weeks  *)
(* away, but for the orders by hand that NeverOvertaken leaves out          *)
(* (calculate_weekly_delivery_date, calculate_delivery_date).               *)
THEOREM DatesKept == ScheduleSpec => [](ScheduleTypeOK /\ PromisedBatch /\ NeverOvertaken)
<1>1. ScheduleInv => ScheduleTypeOK
    BY DEF ScheduleInv
<1> QED BY <1>1, ScheduleInitInv, ScheduleNextInv, ScheduleInvSafe, PTL DEF ScheduleSpec

-----------------------------------------------------------------------------
(* Amounts *)

LEMMA AmountsAreNat ==
    ASSUME NEW prices \in Catalogues, NEW rates \in TaxRates
    PROVE  /\ prices.price \in Nat
           /\ prices.pack \in PackagingFees /\ prices.catering \in PackagingFees
           /\ rates.percent \in Nat /\ rates.fixed \in Nat
<1>1. /\ prices \in [price : Nat, pack : PackagingFees, catering : PackagingFees]
      /\ rates \in [percent : Nat, fixed : Nat]
    BY PricingAssumption
<1> QED BY <1>1

LEMMA MoneyNat ==
    ASSUME NEW n \in Nat
    PROVE  Money(n) \in Nat
<1>1. n \div 100 \in Nat
    OBVIOUS
<1> QED BY <1>1 DEF Money

LEMMA ProductNat ==
    ASSUME NEW m \in Nat, NEW n \in Nat
    PROVE  m * n \in Nat
OBVIOUS

LEMMA TaxNat ==
    ASSUME NEW rates, rates.percent \in Nat, rates.fixed \in Nat, NEW n \in Nat
    PROVE  TaxOn(n, rates) \in Nat
<1>1. Money(n * rates.percent) \in Nat
    BY ProductNat, MoneyNat
<1> QED BY <1>1 DEF TaxOn

LEMMA PackagingFeeNat ==
    ASSUME NEW fee \in PackagingFees, NEW k \in Nat
    PROVE  PackagingFee(fee, k) \in Nat
<1>1. fee.amount \in Nat
    BY DEF PackagingFees
<1>2. fee.amount * k \in Nat
    BY <1>1, ProductNat
<1> QED BY <1>1, <1>2 DEF PackagingFee

(* A discount is never more than what it discounts. *)
LEMMA DiscountInRange ==
    ASSUME NEW n \in Nat, NEW offer \in Offers \cup {NoOffer}
    PROVE  DiscountOn(n, offer) \in 0..n
<1>1. CASE offer = NoOffer
    BY <1>1 DEF DiscountOn
<1>2. CASE offer # NoOffer
    <2>1. offer \in [percentage : BOOLEAN, value : Nat]
        BY <1>2, PricingAssumption
    <2>2. Money(n * offer.value) \in Nat
        BY <2>1, ProductNat, MoneyNat
    <2>3. CASE offer.percentage
        <3>1. DiscountOn(n, offer) = Least(Money(n * offer.value), n)
            BY <1>2, <2>3 DEF DiscountOn
        <3> QED BY <2>2, <3>1 DEF Least
    <2>4. CASE ~offer.percentage
        <3>1. DiscountOn(n, offer) = Least(offer.value, n)
            BY <1>2, <2>4 DEF DiscountOn
        <3> QED BY <2>1, <3>1 DEF Least
    <2> QED BY <2>3, <2>4
<1> QED BY <1>1, <1>2

LEMMA DeliveryCostNat ==
    ASSUME NEW a, a.fee \in Nat
    PROVE  DeliveryCost(a) \in Nat
BY DEF DeliveryCost

LEMMA MaterialsNat ==
    ASSUME NEW prices, NEW n \in Nat, NEW k
    PROVE  MaterialsCost(prices, n, k) \in Nat
<1>1. PackCost \in Nat
    BY PricingAssumption
<1>2. n * PackCost \in Nat
    BY <1>1, ProductNat
<1> QED BY <1>2 DEF MaterialsCost

(* The amounts a full calculation gives, and how they add up: whole, with    *)
(* the discount within what it discounts.  The gross exceeds the amounts it  *)
(* is made of by a tax that no delivery area changes.                       *)
LEMMA BillFacts ==
    ASSUME NEW prices \in Catalogues, NEW rates \in TaxRates, NEW c \in Nat, NEW n \in Nat,
           NEW k \in Nat, NEW a, a.fee \in Nat, NEW offer \in Offers \cup {NoOffer}
    PROVE  LET b == Bill(prices, rates, c, n, k, a, offer)
           IN  /\ b \in BillType
               /\ b.revenue = b.products + b.collections - b.discount + b.fee + b.tax
               /\ b.cost = (c + n * k) * CookieCost + b.deliveryCost + b.materials
               /\ b.profit = b.revenue - b.cost
               /\ b.fee = a.fee /\ b.deliveryCost = DeliveryCost(a)
               /\ b.discount \in 0..(b.products + b.collections)
<1> DEFINE made == c * prices.price + CateringFee(prices, c)
           packed == n * PackPrice(prices, k)
           off == DiscountOn(made + packed, offer)
           tax == TaxOn((made + packed) - off, rates)
           onAll == TaxOn(made + packed, rates)
           cookies == (c + n * k) * CookieCost
           materials == MaterialsCost(prices, n, k)
           revenue == (made + packed) - off + a.fee + tax
           cost == cookies + DeliveryCost(a) + materials
           b == Bill(prices, rates, c, n, k, a, offer)
<1>1. /\ k * prices.price \in Nat /\ c * prices.price \in Nat /\ n * k \in Nat
      /\ CateringFee(prices, c) \in Nat /\ PackagingFee(prices.pack, k) \in Nat
    BY AmountsAreNat, ProductNat, PackagingFeeNat DEF CateringFee
<1>2. made \in Nat
    BY <1>1
<1>3. packed \in Nat
    <2>1. PackPrice(prices, k) \in Nat
        BY <1>1 DEF PackPrice
    <2> QED BY <2>1, ProductNat
<1>4. off \in 0..(made + packed)
    BY <1>2, <1>3, DiscountInRange
<1>5. tax \in Nat /\ onAll \in Nat
    <2>1. made + packed \in Nat /\ (made + packed) - off \in Nat
        BY <1>2, <1>3, <1>4
    <2> QED BY <2>1, AmountsAreNat, TaxNat
<1>6. cookies \in Nat
    <2>1. c + n * k \in Nat /\ CookieCost \in Nat
        BY <1>1, PricingAssumption
    <2> QED BY <2>1, ProductNat
<1>7. DeliveryCost(a) \in Nat /\ materials \in Nat
    BY DeliveryCostNat, MaterialsNat
<1>8. b = [products |-> made, collections |-> packed, discount |-> off,
           tax |-> tax, gross |-> made + packed + a.fee + onAll, fee |-> a.fee,
           deliveryCost |-> DeliveryCost(a), materials |-> materials,
           revenue |-> revenue, cost |-> cost, profit |-> revenue - cost]
    BY DEF Bill
<1> HIDE DEF made, packed, off, tax, onAll, cookies, materials, b
<1>9. b \in BillType
    BY <1>2, <1>3, <1>4, <1>5, <1>6, <1>7, <1>8 DEF BillType
<1>10. /\ b.revenue = b.products + b.collections - b.discount + b.fee + b.tax
       /\ b.cost = cookies + b.deliveryCost + b.materials
       /\ b.profit = b.revenue - b.cost
       /\ b.fee = a.fee /\ b.deliveryCost = DeliveryCost(a)
       /\ b.discount \in 0..(b.products + b.collections)
    BY <1>2, <1>3, <1>4, <1>5, <1>8
<1> QED BY <1>9, <1>10 DEF cookies, b

(* The lines as they are saved, with the bill a full calculation gives. *)
AsAnew(k) ==
    /\ lines.chosen = lines.packs * k
    /\ bill = Bill(charged.catalogue, charged.taxes, lines.cookies, lines.packs, k, area,
                   charged.offer)

PricingInv == PricingTypeOK /\ BillAddsUp /\ AmountsAsAnew

LEMMA PricingInitInv == PricingInit => PricingInv
<1> SUFFICES ASSUME PricingInit PROVE PricingInv
    OBVIOUS
<1> USE DEF PricingInit, NoLines, NoBill
<1>1. PricingTypeOK
    <2>1. bill \in BillType
        BY DEF BillType
    <2>2. /\ lines \in [cookies : Nat, packs : Nat, chosen : Nat]
          /\ area \in [fee : Nat, pickup : BOOLEAN] /\ named \in BOOLEAN
        OBVIOUS
    <2>3. charged \in [catalogue : Catalogues, taxes : TaxRates, offer : Offers \cup {NoOffer}]
        OBVIOUS
    <2> QED BY <2>1, <2>2, <2>3 DEF PricingTypeOK
<1>2. DeliveryCost(area) = 0 /\ 0 * CookieCost = 0
    BY PricingAssumption DEF DeliveryCost
<1>3. BillAddsUp
    BY <1>2 DEF BillAddsUp
<1> QED BY <1>1, <1>3 DEF PricingInv, AmountsAsAnew, Ordered

(* Charging every line anew. *)
LEMMA ChargeInv ==
    ASSUME PricingInv, NEW c \in Nat, NEW n \in Nat, NEW k \in Nat,
           NEW a \in Areas, NEW offer \in Offers \cup {NoOffer},
           Charge(c, n, k, a, offer), named' \in BOOLEAN, k \in 0..MaxPack \/ n = 0
    PROVE  PricingInv'
<1> USE DEF PricingInv
<1> DEFINE b == Bill(catalogue, taxes, c, n, k, a, offer)
<1>1. a \in [fee : Nat, pickup : BOOLEAN] /\ a.fee \in Nat
    BY PricingAssumption
<1>2. catalogue \in Catalogues /\ taxes \in TaxRates
    BY DEF PricingTypeOK
<1>3. n * k \in Nat
    BY ProductNat
<1>4. /\ lines' = [cookies |-> c, packs |-> n, chosen |-> n * k]
      /\ area' = a /\ catalogue' = catalogue /\ taxes' = taxes
      /\ charged' = [catalogue |-> catalogue, taxes |-> taxes, offer |-> offer]
      /\ bill' = b
    BY DEF Charge, Chosen
<1>5. /\ b \in BillType
      /\ b.revenue = b.products + b.collections - b.discount + b.fee + b.tax
      /\ b.cost = (c + n * k) * CookieCost + b.deliveryCost + b.materials
      /\ b.profit = b.revenue - b.cost
      /\ b.fee = a.fee /\ b.deliveryCost = DeliveryCost(a)
      /\ b.discount \in 0..(b.products + b.collections)
    BY <1>1, <1>2, BillFacts
<1> HIDE DEF b
<1>6. PricingTypeOK'
    <2>1. lines' \in [cookies : Nat, packs : Nat, chosen : Nat]
        BY <1>3, <1>4
    <2>2. charged' \in [catalogue : Catalogues, taxes : TaxRates, offer : Offers \cup {NoOffer}]
        BY <1>2, <1>4
    <2> QED BY <1>1, <1>2, <1>4, <1>5, <2>1, <2>2 DEF PricingTypeOK
<1>7. BillAddsUp'
    <2>1. DeliveryCost(area)' = DeliveryCost(a)
        BY <1>4 DEF DeliveryCost
    <2>2. lines'.cookies + lines'.chosen = c + n * k
        BY <1>4
    <2> QED BY <1>4, <1>5, <2>1, <2>2 DEF BillAddsUp
<1>8. AmountsAsAnew'
    <2>1. charged'.catalogue = catalogue /\ charged'.taxes = taxes /\ charged'.offer = offer
        BY <1>4
    <2>2. lines'.cookies = c /\ lines'.packs = n /\ lines'.chosen = n * k
        BY <1>4
    <2>3. CASE k \in 0..MaxPack
        <3>1. bill' = Bill(charged'.catalogue, charged'.taxes, lines'.cookies, lines'.packs, k,
                           area', charged'.offer)
            BY <1>4, <2>1, <2>2 DEF b
        <3> QED BY <2>2, <2>3, <3>1 DEF AmountsAsAnew
    <2>4. CASE n = 0
        <3>1. /\ k * catalogue.price \in Nat /\ 0 * catalogue.price \in Nat
              /\ PackagingFee(catalogue.pack, k) \in Nat /\ PackagingFee(catalogue.pack, 0) \in Nat
              /\ PackCost \in Nat /\ MaxPack \in Nat
            BY <1>2, AmountsAreNat, ProductNat, PackagingFeeNat, PricingAssumption
        <3>2. PackPrice(catalogue, k) \in Nat /\ PackPrice(catalogue, 0) \in Nat
            BY <3>1 DEF PackPrice
        <3>3. 0 * PackPrice(catalogue, k) = 0 * PackPrice(catalogue, 0) /\ 0 * k = 0 * 0
            BY <3>2
        <3>4. MaterialsCost(catalogue, 0, k) = MaterialsCost(catalogue, 0, 0)
            BY <3>1 DEF MaterialsCost
        <3>5. Bill(catalogue, taxes, c, 0, k, a, offer) = Bill(catalogue, taxes, c, 0, 0, a, offer)
            BY <3>3, <3>4, Zenon DEF Bill
        <3>6. bill' = Bill(charged'.catalogue, charged'.taxes, lines'.cookies, lines'.packs, 0,
                           area', charged'.offer)
            BY <1>4, <2>1, <2>2, <2>4, <3>5 DEF b
        <3>7. lines'.chosen = lines'.packs * 0
            BY <2>2, <2>4
        <3> QED BY <3>1, <3>6, <3>7 DEF AmountsAsAnew
    <2> QED BY <2>3, <2>4
<1> QED BY <1>6, <1>7, <1>8

(* Replacing the delivery fee of a calculated bill is calculating it in the  *)
(* new area.                                                                *)
LEMMA FeeReplacedAsAnew ==
    ASSUME NEW prices \in Catalogues, NEW rates \in TaxRates, NEW c \in Nat, NEW n \in Nat,
           NEW k \in Nat, NEW a, a.fee \in Nat, NEW d, d.fee \in Nat,
           NEW offer \in Offers \cup {NoOffer}
    PROVE  FeeReplaced(Bill(prices, rates, c, n, k, d, offer), a)
              = Bill(prices, rates, c, n, k, a, offer)
<1> DEFINE made == c * prices.price + CateringFee(prices, c)
           packed == n * PackPrice(prices, k)
           off == DiscountOn(made + packed, offer)
           tax == TaxOn((made + packed) - off, rates)
           onAll == TaxOn(made + packed, rates)
           cookies == (c + n * k) * CookieCost
           materials == MaterialsCost(prices, n, k)
           in(z) == [products |-> made, collections |-> packed, discount |-> off,
                     tax |-> tax, gross |-> made + packed + z.fee + onAll, fee |-> z.fee,
                     deliveryCost |-> DeliveryCost(z), materials |-> materials,
                     revenue |-> (made + packed) - off + z.fee + tax,
                     cost |-> cookies + DeliveryCost(z) + materials,
                     profit |-> ((made + packed) - off + z.fee + tax)
                                   - (cookies + DeliveryCost(z) + materials)]
<1>1. /\ Bill(prices, rates, c, n, k, a, offer) = in(a)
      /\ Bill(prices, rates, c, n, k, d, offer) = in(d)
    BY DEF Bill
<1>2. made \in Nat /\ packed \in Nat
    <2>1. /\ k * prices.price \in Nat /\ c * prices.price \in Nat
          /\ CateringFee(prices, c) \in Nat /\ PackagingFee(prices.pack, k) \in Nat
        BY AmountsAreNat, ProductNat, PackagingFeeNat DEF CateringFee
    <2>2. PackPrice(prices, k) \in Nat
        BY <2>1 DEF PackPrice
    <2> QED BY <2>1, <2>2, ProductNat
<1>3. off \in 0..(made + packed)
    BY <1>2, DiscountInRange
<1>4. tax \in Nat /\ onAll \in Nat
    <2>1. made + packed \in Nat /\ (made + packed) - off \in Nat
        BY <1>2, <1>3
    <2> QED BY <2>1, AmountsAreNat, TaxNat
<1>5. cookies \in Nat /\ materials \in Nat
    <2>1. c + n * k \in Nat /\ CookieCost \in Nat
        BY ProductNat, PricingAssumption
    <2> QED BY <2>1, ProductNat, MaterialsNat
<1>6. DeliveryCost(a) \in Nat /\ DeliveryCost(d) \in Nat
    BY DeliveryCostNat
<1> HIDE DEF made, packed, off, tax, onAll, cookies, materials
<1> DEFINE b     == in(d)
           spent == b.cost - (b.deliveryCost + b.materials) + DeliveryCost(a) + b.materials
           paid  == b.products + b.collections - b.discount + a.fee + b.tax
           full  == b.products + b.collections + a.fee
                       + (b.gross - (b.products + b.collections) - b.fee)
<1>7. /\ b.products = made /\ b.collections = packed /\ b.discount = off /\ b.tax = tax
      /\ b.gross = made + packed + d.fee + onAll /\ b.fee = d.fee
      /\ b.deliveryCost = DeliveryCost(d) /\ b.materials = materials
      /\ b.cost = cookies + DeliveryCost(d) + materials
    OBVIOUS
<1>8. /\ spent = cookies + DeliveryCost(a) + materials
      /\ paid = (made + packed) - off + a.fee + tax
      /\ full = made + packed + a.fee + onAll
    <2> HIDE DEF b
    <2> QED BY <1>2, <1>3, <1>4, <1>5, <1>6, <1>7
<1>9. FeeReplaced(b, a) = [b EXCEPT !.fee = a.fee, !.deliveryCost = DeliveryCost(a),
                                    !.revenue = paid, !.cost = spent, !.profit = paid - spent,
                                    !.gross = full]
    <2> HIDE DEF b
    <2> QED BY DEF FeeReplaced
<1> HIDE DEF spent, paid, full
<1>10. FeeReplaced(b, a) = in(a)
    <2> DEFINE gross == made + packed + d.fee + onAll
               revenue == (made + packed) - off + d.fee + tax
               cost == cookies + DeliveryCost(d) + materials
               profit == revenue - cost
    <2>1. b = [products |-> made, collections |-> packed, discount |-> off, tax |-> tax,
               gross |-> gross, fee |-> d.fee, deliveryCost |-> DeliveryCost(d),
               materials |-> materials, revenue |-> revenue, cost |-> cost, profit |-> profit]
        OBVIOUS
    <2> HIDE DEF b, gross, revenue, cost, profit
    <2>2. FeeReplaced(b, a) =
              [products |-> made, collections |-> packed, discount |-> off, tax |-> tax,
               gross |-> full, fee |-> a.fee, deliveryCost |-> DeliveryCost(a),
               materials |-> materials, revenue |-> paid, cost |-> spent,
               profit |-> paid - spent]
        BY <1>9, <2>1
    <2> QED BY <1>8, <2>2
<1> QED BY <1>1, <1>10

LEMMA ChangeAreaInv ==
    ASSUME PricingInv, NEW a \in Areas, ChangeArea(a)
    PROVE  PricingInv'
<1> USE DEF PricingInv
<1>1. a \in [fee : Nat, pickup : BOOLEAN] /\ a.fee \in Nat /\ area.fee \in Nat
    BY PricingAssumption DEF PricingTypeOK
<1>2. /\ charged.catalogue \in Catalogues /\ charged.taxes \in TaxRates
      /\ charged.offer \in Offers \cup {NoOffer}
      /\ lines.cookies \in Nat /\ lines.packs \in Nat
    BY DEF PricingTypeOK
<1>3. /\ Ordered /\ bill' = FeeReplaced(bill, a) /\ area' = a
      /\ UNCHANGED <<catalogue, taxes, lines, charged>> /\ named' \in BOOLEAN
    BY DEF ChangeArea
<1>4. PICK k \in 0..MaxPack : AsAnew(k)
    BY <1>3 DEF AmountsAsAnew, AsAnew
<1>5. k \in Nat
    BY PricingAssumption
<1> DEFINE b == Bill(charged.catalogue, charged.taxes, lines.cookies, lines.packs, k, a,
                     charged.offer)
<1>6. bill' = b
    BY <1>1, <1>2, <1>3, <1>4, <1>5, FeeReplacedAsAnew DEF AsAnew
<1>7. /\ b \in BillType
      /\ b.revenue = b.products + b.collections - b.discount + b.fee + b.tax
      /\ b.cost = (lines.cookies + lines.packs * k) * CookieCost + b.deliveryCost + b.materials
      /\ b.profit = b.revenue - b.cost
      /\ b.fee = a.fee /\ b.deliveryCost = DeliveryCost(a)
      /\ b.discount \in 0..(b.products + b.collections)
    BY <1>1, <1>2, <1>5, BillFacts
<1>8. AmountsAsAnew'
    BY <1>3, <1>4, <1>6 DEF AmountsAsAnew, AsAnew
<1> HIDE DEF b
<1>9. PricingTypeOK'
    BY <1>1, <1>3, <1>6, <1>7 DEF PricingTypeOK
<1>10. BillAddsUp'
    <2>1. DeliveryCost(area)' = DeliveryCost(a)
        BY <1>3 DEF DeliveryCost
    <2>2. lines'.cookies + lines'.chosen = lines.cookies + lines.packs * k
        BY <1>3, <1>4 DEF AsAnew
    <2> QED BY <1>3, <1>6, <1>7, <2>1, <2>2 DEF BillAddsUp
<1> QED BY <1>8, <1>9, <1>10

LEMMA PricingNextInv == PricingInv /\ [PricingNext]_pricingVars => PricingInv'
<1> SUFFICES ASSUME PricingInv, [PricingNext]_pricingVars PROVE PricingInv'
    OBVIOUS
<1>0. PricingTypeOK /\ MaxCookies \in Nat /\ MaxPacks \in Nat /\ MinPack \in Nat /\ MaxPack \in Nat
    BY PricingAssumption DEF PricingInv
<1>1. ASSUME NEW c \in 0..MaxCookies, NEW n \in 0..MaxPacks, NEW k \in MinPack..MaxPack,
             NEW a \in Areas, NEW offer \in Offers \cup {NoOffer}, PlaceOrder(c, n, k, a, offer)
      PROVE  PricingInv'
    <2>1. c \in Nat /\ n \in Nat /\ k \in Nat /\ k \in 0..MaxPack
        BY <1>0
    <2> QED BY <1>1, <2>1, ChargeInv DEF PlaceOrder
<1>2. ASSUME NEW c \in 0..MaxCookies, NEW n \in 0..MaxPacks, NEW k \in MinPack..MaxPack,
             NEW a \in Areas, EditLines(c, n, k, a)
      PROVE  PricingInv'
    <2>1. c \in Nat /\ n \in Nat /\ k \in Nat /\ k \in 0..MaxPack
        BY <1>0
    <2> QED BY <1>2, <2>1, ChargeInv DEF EditLines
<1>3. ASSUME NEW a \in Areas, NEW c \in 0..MaxCookies, EditProducts(c, a) PROVE PricingInv'
    <2>1. c \in Nat /\ lines.packs \in Nat /\ lines.chosen \in Nat
        BY <1>0 DEF PricingTypeOK
    <2>2. lines.chosen \in 0..MaxPack \/ lines.packs = 0
        BY <1>0, <1>3, <2>1 DEF EditProducts, Charge
    <2> QED BY <1>3, <2>1, <2>2, ChargeInv DEF EditProducts
<1>4. ASSUME UNCHANGED <<lines, area, bill, charged, named>>, catalogue' \in Catalogues,
             taxes' \in TaxRates
      PROVE  PricingInv'
    <2>1. PricingTypeOK'
        BY <1>4 DEF PricingInv, PricingTypeOK
    <2>2. BillAddsUp'
        BY <1>4 DEF PricingInv, BillAddsUp, DeliveryCost
    <2>3. AmountsAsAnew'
        BY <1>4 DEF PricingInv, AmountsAsAnew, Ordered, Bill, DeliveryCost
    <2> QED BY <2>1, <2>2, <2>3 DEF PricingInv
<1>5. ASSUME NEW prices \in Catalogues, SetCatalogue(prices) PROVE PricingInv'
    BY <1>0, <1>4, <1>5 DEF SetCatalogue, PricingTypeOK
<1>6. ASSUME NEW rates \in TaxRates, SetTaxes(rates) PROVE PricingInv'
    BY <1>0, <1>4, <1>6 DEF SetTaxes, PricingTypeOK
<1>7. CASE UNCHANGED pricingVars
    BY <1>0, <1>4, <1>7 DEF pricingVars, PricingTypeOK
<1> QED BY <1>1, <1>2, <1>3, <1>5, <1>6, <1>7, ChangeAreaInv DEF PricingNext

(* Whatever the catalogue costs and however lines, areas, prices and taxes   *)
(* change, the totals of an order are the sums of its parts, and the         *)
(* shortcut for a delivery fee gives every amount, the gross included, that  *)
(* a full calculation would give.                                           *)
THEOREM AmountsRight == PricingSpec => [](PricingTypeOK /\ BillAddsUp /\ AmountsAsAnew)
<1>1. PricingInv => PricingTypeOK /\ BillAddsUp /\ AmountsAsAnew
    BY DEF PricingInv
<1> QED BY <1>1, PricingInitInv, PricingNextInv, PTL DEF PricingSpec

-----------------------------------------------------------------------------
(* Discount grants *)

(* What a checkout or preview has resolved stays active and locked by it.  *)
HeldLocked ==
    \A w \in DWorkers : d_step[w] \in {"checkout", "expiring"} /\ d_grant[w] # NoGrant =>
        /\ grant[d_grant[w]] = "active"
        /\ holder[d_grant[w]] = w

(* A grant that nobody used names no order and no order names it. *)
Unused ==
    \A g \in Grants : grant[g] \in {"none", "active", "expired"} =>
        /\ used_on[g] = NoDOrder
        /\ \A o \in DOrders : discount[o] # g

(* An order that is not placed yet has no discount. *)
UnplacedPlain == \A o \in DOrders : d_order[o] = "none" => discount[o] = NoGrant

GrantInv ==
    /\ GrantTypeOK
    /\ HeldLocked
    /\ Unused
    /\ UnplacedPlain
    /\ DiscountsSettled
   

-----------------------------------------------------------------------------

LEMMA GrantInitInv == GrantInit => GrantInv
<1> SUFFICES ASSUME GrantInit PROVE GrantInv
    OBVIOUS
<1> USE GrantAssumption DEF GrantInit
<1>1. GrantTypeOK
    BY DEF GrantTypeOK
<1>2. HeldLocked /\ Unused /\ UnplacedPlain
    BY DEF HeldLocked, Unused, UnplacedPlain
<1>3. DiscountsSettled
    BY DEF DiscountsSettled
<1> QED BY <1>1, <1>2, <1>3 DEF GrantInv

LEMMA FreshOrderNew ==
    ASSUME NEW o \in FreshOrder
    PROVE  o \in DOrders /\ d_order[o] = "none"
BY DEF FreshOrder, OneOf

LEMMA FreshGrantNew ==
    ASSUME NEW g \in FreshGrant
    PROVE  g \in Grants /\ grant[g] = "none"
BY DEF FreshGrant, OneOf

(* What DGoto leaves of the other requests. *)
LEMMA DGotoOthers ==
    ASSUME GrantTypeOK, NEW w \in DWorkers, NEW g \in Grants \cup {NoGrant},
           NEW s \in {"idle", "checkout", "expiring", "placed", "issuing", "revoking", "denying"},
           DGoto(w, s, g)
    PROVE  /\ d_step' \in [DWorkers -> {"idle", "checkout", "expiring", "placed",
                                         "issuing", "revoking", "denying"}]
           /\ d_grant' \in [DWorkers -> Grants \cup {NoGrant}]
           /\ d_step'[w] = s /\ d_grant'[w] = g
           /\ \A v \in DWorkers : v # w => d_step'[v] = d_step[v] /\ d_grant'[v] = d_grant[v]
BY DEF DGoto, GrantTypeOK

(* Steps that change neither grants nor orders, and leave a request with    *)
(* a grant to use only when it holds the active grant's row.                *)
LEMMA RowsKept ==
    ASSUME GrantInv, GrantTypeOK', HeldLocked',
           UNCHANGED <<grant, used_on, d_order, discount>>
    PROVE  GrantInv'
<1> USE DEF GrantInv
<1>1. Unused' /\ UnplacedPlain'
    BY DEF Unused, UnplacedPlain
<1>2. DiscountsSettled'
    BY DEF DiscountsSettled
<1> QED BY <1>1, <1>2

-----------------------------------------------------------------------------
(* One lemma per group of actions *)

LEMMA ResolveInv ==
    ASSUME GrantInv, NEW w \in DWorkers, Resolve(w)
    PROVE  GrantInv'
<1> USE DEF GrantInv
<1>1. CASE UNCHANGED holder /\ DGoto(w, "checkout", NoGrant)
    <2>1. GrantTypeOK'
        BY <1>1, DGotoOthers DEF GrantTypeOK, Resolve
    <2>2. HeldLocked'
        BY <1>1, DGotoOthers DEF HeldLocked, Resolve
    <2> QED BY <2>1, <2>2, RowsKept DEF Resolve
<1>2. ASSUME NEW g \in Unlocked, holder' = [holder EXCEPT ![g] = w],
             DGoto(w, IF g \in lapsed THEN "expiring" ELSE "checkout", g)
      PROVE  GrantInv'
    <2>1. g \in Grants /\ grant[g] = "active" /\ holder[g] = NoHolder
        BY DEF Unlocked, ActiveGrants
    <2>2. PICK s \in {"checkout", "expiring"} : DGoto(w, s, g)
        BY <1>2
    <2>3. GrantTypeOK'
        BY <1>2, <2>1, <2>2, DGotoOthers DEF GrantTypeOK, Resolve
    <2>4. HeldLocked'
        BY <1>2, <2>1, <2>2, DGotoOthers, GrantAssumption DEF HeldLocked, Resolve, GrantTypeOK
    <2> QED BY <2>3, <2>4, RowsKept DEF Resolve
<1> QED BY <1>1, <1>2 DEF Resolve

LEMMA PlaceInv ==
    ASSUME GrantInv, NEW w \in DWorkers, NEW o \in DOrders, Place(w, o)
    PROVE  GrantInv'
<1> USE DEF GrantInv
<1> DEFINE g == d_grant[w]
<1>1. d_order[o] = "none" /\ discount[o] = NoGrant
    BY FreshOrderNew DEF Place, UnplacedPlain
<1>2. /\ DGoto(w, "placed", NoGrant) /\ holder' = Released(w)
      /\ UNCHANGED <<lapsed, switched>>
      /\ d_order' = [d_order EXCEPT ![o] = "open"]
      /\ d_step[w] \in {"checkout", "expiring"}
    BY DEF Place
<1>3. /\ holder' \in [Grants -> DWorkers \cup {NoHolder}]
      /\ \A h \in Grants : holder[h] # w => holder'[h] = holder[h]
    BY <1>2 DEF Released, GrantTypeOK
<1>4. CASE g = NoGrant
    <2>1. UNCHANGED <<grant, used_on, discount>>
        BY <1>4 DEF Place
    <2>2. GrantTypeOK'
        BY <1>2, <1>3, <2>1, DGotoOthers DEF GrantTypeOK
    <2>3. HeldLocked'
        BY <1>2, <1>3, <2>1, DGotoOthers DEF HeldLocked, GrantTypeOK
    <2>4. Unused' /\ UnplacedPlain'
        BY <1>2, <2>1 DEF Unused, UnplacedPlain, GrantTypeOK
    <2>5. DiscountsSettled'
        BY <1>1, <1>2, <2>1 DEF DiscountsSettled, GrantTypeOK
    <2> QED BY <2>2, <2>3, <2>4, <2>5
<1>5. CASE g # NoGrant
    <2>1. /\ g \in Grants /\ grant[g] = "active" /\ holder[g] = w
          /\ used_on[g] = NoDOrder /\ \A p \in DOrders : discount[p] # g
        BY <1>2, <1>5 DEF HeldLocked, GrantTypeOK, Unused
    <2>2. PICK st \in {"used", "expired"} :
             /\ grant' = [grant EXCEPT ![g] = st]
             /\ st = "used" => /\ used_on' = [used_on EXCEPT ![g] = o]
                               /\ discount' = [discount EXCEPT ![o] = g]
             /\ st = "expired" => UNCHANGED <<used_on, discount>>
        BY <1>5 DEF Place, AfterCheckout
    <2>3. GrantTypeOK'
        <3>1. /\ grant' \in [Grants -> {"none", "active", "used", "expired", "revoked"}]
              /\ used_on' \in [Grants -> DOrders \cup {NoDOrder}]
              /\ discount' \in [DOrders -> Grants \cup {NoGrant}]
            BY <2>1, <2>2 DEF GrantTypeOK
        <3>2. d_order' \in [DOrders -> {"none", "open", "counting", "gone"}]
            BY <1>2 DEF GrantTypeOK
        <3>3. lapsed' \subseteq Grants /\ switched' \in BOOLEAN
            BY <1>2 DEF GrantTypeOK
        <3> QED BY <1>2, <1>3, <3>1, <3>2, <3>3, DGotoOthers DEF GrantTypeOK
    <2>4. HeldLocked'
        <3> SUFFICES ASSUME NEW v \in DWorkers, d_step'[v] \in {"checkout", "expiring"},
                            d_grant'[v] # NoGrant
                     PROVE  grant'[d_grant'[v]] = "active" /\ holder'[d_grant'[v]] = v
            BY DEF HeldLocked
        <3>1. v # w /\ d_step[v] = d_step'[v] /\ d_grant[v] = d_grant'[v]
            BY <1>2, DGotoOthers
        <3>2. d_grant[v] \in Grants /\ grant[d_grant[v]] = "active" /\ holder[d_grant[v]] = v
            BY <3>1 DEF HeldLocked, GrantTypeOK
        <3>3. d_grant[v] # g
            BY <2>1, <3>1, <3>2
        <3> QED BY <1>3, <2>2, <3>1, <3>2, <3>3 DEF GrantTypeOK
    <2>5. Unused' /\ UnplacedPlain'
        BY <1>1, <1>2, <2>1, <2>2, GrantAssumption
        DEF Unused, UnplacedPlain, GrantTypeOK
    <2>6. DiscountsSettled'
        BY <1>1, <1>2, <2>1, <2>2, GrantAssumption DEF DiscountsSettled, GrantTypeOK
    <2> QED BY <2>3, <2>4, <2>5, <2>6
<1> QED BY <1>4, <1>5

LEMMA RollBackInv ==
    ASSUME GrantInv, NEW w \in DWorkers, RollBack(w)
    PROVE  GrantInv'
<1> USE DEF GrantInv
<1>1. DGoto(w, "idle", NoGrant) /\ holder' = Released(w)
    BY DEF RollBack, DDone
<1>2. /\ holder' \in [Grants -> DWorkers \cup {NoHolder}]
      /\ \A h \in Grants : holder[h] # w => holder'[h] = holder[h]
    BY <1>1 DEF Released, GrantTypeOK
<1>3. GrantTypeOK'
    BY <1>1, <1>2, DGotoOthers DEF GrantTypeOK, RollBack
<1>4. HeldLocked'
    BY <1>1, <1>2, DGotoOthers DEF HeldLocked, GrantTypeOK, RollBack
<1> QED BY <1>3, <1>4, RowsKept DEF RollBack

(* A request begins or ends without a change of grants or orders. *)
LEMMA RequestOnlyInv ==
    ASSUME GrantInv, NEW w \in DWorkers,
           \/ EvaluateRules(w) \/ StartManualGrant(w) \/ RefuseGrant(w) \/ StartDeny(w)
           \/ \E g \in Grants : StartRevoke(w, g)
    PROVE  GrantInv'
<1> USE DEF GrantInv
<1>1. UNCHANGED <<grant, used_on, lapsed, holder, switched, d_order, discount>>
    BY DEF EvaluateRules, StartManualGrant, RefuseGrant, StartDeny, StartRevoke
<1>2. PICK s \in {"idle", "issuing", "revoking", "denying"}, g \in Grants \cup {NoGrant} :
          DGoto(w, s, g)
    BY DEF EvaluateRules, StartManualGrant, RefuseGrant, StartDeny, StartRevoke, DDone, ActiveGrants
<1>3. GrantTypeOK'
    BY <1>1, <1>2, DGotoOthers DEF GrantTypeOK
<1>4. HeldLocked'
    BY <1>1, <1>2, DGotoOthers DEF HeldLocked
<1> QED BY <1>1, <1>3, <1>4, RowsKept

LEMMA OrdersInv ==
    ASSUME GrantInv, NEW w \in DWorkers, NEW o \in DOrders, NEW s \in {"open", "counting"},
           PlaceByHand(w, o, s) \/ SetOrderStatus(w, o, s)
    PROVE  GrantInv'
<1> USE DEF GrantInv
<1>1. /\ UNCHANGED <<grant, used_on, lapsed, holder, switched, discount>>
      /\ d_order' = [d_order EXCEPT ![o] = s]
      /\ d_order[o] # "gone"
    BY FreshOrderNew DEF PlaceByHand, SetOrderStatus
<1>2. DGoto(w, "placed", NoGrant) \/ UNCHANGED d_reqVars
    BY DEF PlaceByHand, SetOrderStatus
<1>3. GrantTypeOK'
    BY <1>1, <1>2, DGotoOthers DEF GrantTypeOK, d_reqVars
<1>4. HeldLocked'
    BY <1>1, <1>2, DGotoOthers DEF HeldLocked, d_reqVars
<1>5. Unused' /\ UnplacedPlain'
    BY <1>1 DEF Unused, UnplacedPlain, GrantTypeOK
<1>6. DiscountsSettled'
    BY <1>1 DEF DiscountsSettled, GrantTypeOK
<1> QED BY <1>3, <1>4, <1>5, <1>6

LEMMA RemoveOrderInv ==
    ASSUME GrantInv, NEW o \in DOrders, RemoveOrder(o)
    PROVE  GrantInv'
<1> USE DEF GrantInv, RemoveOrder, d_reqVars
<1>1. GrantTypeOK'
    BY DEF GrantTypeOK
<1>2. HeldLocked'
    BY DEF HeldLocked
<1>3. Unused' /\ UnplacedPlain'
    BY DEF Unused, UnplacedPlain, GrantTypeOK
<1>4. DiscountsSettled'
    BY GrantAssumption DEF DiscountsSettled, GrantTypeOK
<1> QED BY <1>1, <1>2, <1>3, <1>4

LEMMA IssueInv ==
    ASSUME GrantInv, NEW w \in DWorkers, NEW g \in Grants, IssueGrant(w, g)
    PROVE  GrantInv'
<1> USE DEF GrantInv
<1>1. /\ grant[g] = "none" /\ \A h \in Grants : grant[h] # "active"
      /\ grant' = [grant EXCEPT ![g] = "active"]
      /\ DGoto(w, "idle", NoGrant)
      /\ UNCHANGED <<used_on, lapsed, holder, switched, d_order, discount>>
    BY FreshGrantNew DEF IssueGrant, IndexFree, ActiveGrants, DDone
<1>2. GrantTypeOK'
    BY <1>1, DGotoOthers DEF GrantTypeOK
<1>3. HeldLocked'
    BY <1>1, DGotoOthers DEF HeldLocked, GrantTypeOK
<1>4. Unused' /\ UnplacedPlain'
    BY <1>1 DEF Unused, UnplacedPlain, GrantTypeOK
<1>5. DiscountsSettled'
    BY <1>1 DEF DiscountsSettled, GrantTypeOK
<1> QED BY <1>2, <1>3, <1>4, <1>5

(* The row's lock is what keeps a grant in use from being taken back. *)
LEMMA TakeBackInv ==
    ASSUME GrantInv, NEW w \in DWorkers, TakeBack(w)
    PROVE  GrantInv'
<1> USE DEF GrantInv
<1>1. /\ DGoto(w, "idle", NoGrant)
      /\ d_grant[w] # NoGrant => holder[d_grant[w]] = NoHolder
      /\ grant' = [g \in Grants |-> IF g = d_grant[w] THEN "revoked" ELSE grant[g]]
      /\ UNCHANGED <<used_on, lapsed, holder, d_order, discount>>
    BY DEF TakeBack, DDone
<1>2. switched' \in BOOLEAN
    BY DEF TakeBack
<1>3. GrantTypeOK'
    BY <1>1, <1>2, DGotoOthers DEF GrantTypeOK
<1>4. HeldLocked'
    BY <1>1, DGotoOthers, GrantAssumption DEF HeldLocked, GrantTypeOK
<1>5. Unused' /\ UnplacedPlain'
    BY <1>1 DEF Unused, UnplacedPlain, GrantTypeOK
<1>6. DiscountsSettled'
    BY <1>1 DEF DiscountsSettled, GrantTypeOK
<1> QED BY <1>3, <1>4, <1>5, <1>6

LEMMA GrantNextInv == GrantInv /\ [GrantNext]_grantVars => GrantInv'
<1> SUFFICES ASSUME GrantInv, [GrantNext]_grantVars PROVE GrantInv'
    OBVIOUS
<1>1. ASSUME NEW w \in DWorkers, GrantStart(w) PROVE GrantInv'
    BY <1>1, ResolveInv, OrdersInv, RequestOnlyInv DEF GrantStart
<1>2. ASSUME NEW w \in DWorkers, GrantProceed(w) PROVE GrantInv'
    BY <1>2, PlaceInv, RollBackInv, RequestOnlyInv, IssueInv DEF GrantProceed
<1>3. ASSUME NEW b \in BOOLEAN, Switch(b) PROVE GrantInv'
    <2>1. GrantTypeOK' /\ HeldLocked'
        BY <1>3 DEF GrantInv, Switch, GrantTypeOK, HeldLocked, d_reqVars
    <2> QED BY <1>3, <2>1, RowsKept DEF Switch
<1>4. ASSUME NEW g \in Grants, Lapse(g) PROVE GrantInv'
    <2>1. GrantTypeOK' /\ HeldLocked'
        BY <1>4 DEF GrantInv, Lapse, GrantTypeOK, HeldLocked, d_reqVars
    <2> QED BY <1>4, <2>1, RowsKept DEF Lapse
<1>5. ASSUME UNCHANGED grantVars PROVE GrantInv'
    <2>1. GrantTypeOK' /\ HeldLocked'
        BY <1>5 DEF GrantInv, grantVars, GrantTypeOK, HeldLocked, d_reqVars
    <2> QED BY <1>5, <2>1, RowsKept DEF grantVars
<1> QED BY <1>1, <1>2, <1>3, <1>4, <1>5, TakeBackInv, RollBackInv, RemoveOrderInv DEF GrantNext

(* However checkouts, previews, evaluations, revocations and removals of    *)
(* orders overlap, a grant discounts one order ever, and the grant that a   *)
(* checkout works with stays active, and its own, until it ends             *)
(* (resolve_grant_for_customer, mark_grant_used).                           *)
THEOREM GrantsSettled == GrantSpec => [](GrantTypeOK /\ DiscountsSettled /\ HeldActive)
<1>1. GrantInv => GrantTypeOK /\ DiscountsSettled /\ HeldActive
    BY DEF GrantInv, HeldLocked, HeldActive
<1> QED BY <1>1, GrantInitInv, GrantNextInv, PTL DEF GrantSpec

-----------------------------------------------------------------------------
(* Purchase plans *)

(* Until a status is saved an item has the one its row is made with.  What a *)
(* request read is still there, was absent, or somebody saved one meanwhile.*)
StatusRead ==
    /\ \A i \in PlanItems : asked[i] = {} => planned[i] \in {"none", "not_planned"}
    /\ \A w \in PWorkers : p_step[w] = "save" =>
          /\ p_item[w] \in PlanItems
          /\ \/ p_seen[w] = planned[p_item[w]]
             \/ p_seen[w] = "none"
             \/ asked[p_item[w]] # {}

PlanningInv ==
    /\ PlanningTypeOK
    /\ StatusRead
    /\ StatusKept

LEMMA PlanningInitInv == PlanningInit => PlanningInv
<1> SUFFICES ASSUME PlanningInit PROVE PlanningInv
    OBVIOUS
<1> USE DEF PlanningInit
<1>1. Missing = PlanItems
    BY DEF Missing
<1>2. PlanningTypeOK
    BY <1>1 DEF PlanningTypeOK, OrderStatuses, PlanStatuses
<1>3. StatusRead /\ StatusKept
    BY DEF StatusRead, StatusKept
<1> QED BY <1>2, <1>3 DEF PlanningInv

PSteps == {"idle", "plan", "upsert", "save"}

(* What a request leaves of the others, whether or not it goes on. *)
LEMMA PGotoOthers ==
    ASSUME PlanningTypeOK, NEW w \in PWorkers, NEW s \in PSteps, NEW b \in BOOLEAN,
           NEW R \in SUBSET PlanItems, PGoto(w, s, b, R)
    PROVE  /\ p_step' \in [PWorkers -> PSteps] /\ p_batch' \in [PWorkers -> BOOLEAN]
           /\ p_rows' \in [PWorkers -> SUBSET PlanItems]
           /\ p_step'[w] = s
           /\ \A v \in PWorkers : v # w => p_step'[v] = p_step[v]
<1>1. p_batch' \in [PWorkers -> BOOLEAN]
    BY Zenon DEF PGoto, PlanningTypeOK
<1> QED BY <1>1 DEF PGoto, PlanningTypeOK, PSteps

LEMMA SavingOthers ==
    ASSUME PlanningTypeOK, NEW w \in PWorkers, NEW i \in PlanItems \cup {NoItem},
           NEW seen \in PlanStatuses \cup {"none"}, Saving(w, i, seen)
    PROVE  /\ p_item' \in [PWorkers -> PlanItems \cup {NoItem}]
           /\ p_seen' \in [PWorkers -> PlanStatuses \cup {"none"}]
           /\ p_item'[w] = i /\ p_seen'[w] = seen
           /\ \A v \in PWorkers : v # w => p_item'[v] = p_item[v] /\ p_seen'[v] = p_seen[v]
BY DEF Saving, PlanningTypeOK

(* The fields of a request that ends, opens the plan, or saves. *)
LEMMA RequestOthers ==
    ASSUME PlanningTypeOK, NEW w \in PWorkers,
           \/ PDone(w)
           \/ \E s \in {"plan", "upsert"}, b \in BOOLEAN, R \in SUBSET PlanItems :
                 /\ PGoto(w, s, b, R)
                 /\ Saving(w, NoItem, "none") \/ UNCHANGED <<p_item, p_seen>>
    PROVE  /\ p_step' \in [PWorkers -> PSteps] /\ p_batch' \in [PWorkers -> BOOLEAN]
           /\ p_rows' \in [PWorkers -> SUBSET PlanItems]
           /\ p_item' \in [PWorkers -> PlanItems \cup {NoItem}]
           /\ p_seen' \in [PWorkers -> PlanStatuses \cup {"none"}]
           /\ p_step'[w] # "save"
           /\ \A v \in PWorkers : v # w => /\ p_step'[v] = p_step[v] /\ p_item'[v] = p_item[v]
                                           /\ p_seen'[v] = p_seen[v]
<1>1. PICK s \in {"idle", "plan", "upsert"}, b \in BOOLEAN, R \in SUBSET PlanItems :
          /\ PGoto(w, s, b, R)
          /\ Saving(w, NoItem, "none") \/ UNCHANGED <<p_item, p_seen>>
    <2>1. /\ {"plan", "upsert"} \subseteq {"idle", "plan", "upsert"}
          /\ "idle" \in {"idle", "plan", "upsert"} /\ {} \in SUBSET PlanItems
        OBVIOUS
    <2>2. FALSE \in BOOLEAN
        OBVIOUS
    <2>3. CASE PDone(w)
        BY <2>1, <2>2, <2>3, Zenon DEF PDone
    <2>4. CASE ~PDone(w)
        BY <2>1, <2>4, Zenon
    <2> QED BY <2>3, <2>4
<1>2. s \in PSteps /\ s # "save"
    <2>1. s \in {"idle", "plan", "upsert"}
        BY <1>1
    <2> QED BY <2>1 DEF PSteps
<1>3. CASE Saving(w, NoItem, "none")
    BY <1>1, <1>2, <1>3, PGotoOthers, SavingOthers
<1>4. CASE UNCHANGED <<p_item, p_seen>>
    BY <1>1, <1>2, <1>4, PGotoOthers DEF PlanningTypeOK
<1> QED BY <1>1, <1>3, <1>4

(* Steps that save nothing and add no row. *)
LEMMA StatusUntouched ==
    ASSUME PlanningInv, UNCHANGED <<planned, asked>>,
           \A w \in PWorkers : p_step'[w] = "save" =>
              \/ p_step[w] = "save" /\ p_item'[w] = p_item[w] /\ p_seen'[w] = p_seen[w]
              \/ p_item'[w] \in PlanItems /\ p_seen'[w] = planned[p_item'[w]]
    PROVE  StatusRead' /\ StatusKept'
<1>1. StatusRead'
    BY DEF PlanningInv, StatusRead
<1> QED BY <1>1 DEF PlanningInv, StatusKept

LEMMA OpenPlanInv ==
    ASSUME PlanningInv, NEW w \in PWorkers, StartPlan(w) \/ ReadRows(w)
    PROVE  PlanningInv'
<1>0. PlanningTypeOK
    BY DEF PlanningInv
<1>1. UNCHANGED <<scheduled, recipe, batch, planned, asked>>
    BY DEF StartPlan, ReadRows
<1>2. \/ PDone(w)
      \/ \E s \in {"plan", "upsert"}, b \in BOOLEAN, R \in SUBSET PlanItems :
            PGoto(w, s, b, R) /\ UNCHANGED <<p_item, p_seen>>
    <2>1. batch \in BOOLEAN /\ p_batch[w] \in BOOLEAN
        BY Zenon, <1>0 DEF PlanningTypeOK
    <2>2. {} \in SUBSET PlanItems /\ Needed \cap Missing \in SUBSET PlanItems
        BY DEF Needed
    <2>3. CASE StartPlan(w)
        BY <2>1, <2>2, <2>3 DEF StartPlan
    <2>4. CASE ReadRows(w)
        BY <2>1, <2>2, <2>4 DEF ReadRows
    <2> QED BY <2>3, <2>4
<1>3. /\ p_step' \in [PWorkers -> PSteps] /\ p_batch' \in [PWorkers -> BOOLEAN]
      /\ p_rows' \in [PWorkers -> SUBSET PlanItems]
      /\ p_item' \in [PWorkers -> PlanItems \cup {NoItem}]
      /\ p_seen' \in [PWorkers -> PlanStatuses \cup {"none"}]
      /\ p_step'[w] # "save"
      /\ \A v \in PWorkers : v # w => /\ p_step'[v] = p_step[v] /\ p_item'[v] = p_item[v]
                                      /\ p_seen'[v] = p_seen[v]
    BY <1>0, <1>2, RequestOthers
<1>4. PlanningTypeOK'
    BY <1>0, <1>1, <1>3 DEF PlanningTypeOK, Missing, PSteps
<1>5. StatusRead' /\ StatusKept'
    BY <1>1, <1>3, StatusUntouched
<1> QED BY <1>4, <1>5 DEF PlanningInv

LEMMA WriteRowsInv ==
    ASSUME PlanningInv, NEW w \in PWorkers, WriteRows(w)
    PROVE  PlanningInv'
<1>0. PlanningTypeOK
    BY DEF PlanningInv
<1>1. PDone(w) /\ UNCHANGED <<scheduled, recipe, asked>>
    BY DEF WriteRows
<1>2. /\ p_step' \in [PWorkers -> PSteps] /\ p_batch' \in [PWorkers -> BOOLEAN]
      /\ p_rows' \in [PWorkers -> SUBSET PlanItems]
      /\ p_item' \in [PWorkers -> PlanItems \cup {NoItem}]
      /\ p_seen' \in [PWorkers -> PlanStatuses \cup {"none"}]
      /\ p_step'[w] # "save"
      /\ \A v \in PWorkers : v # w => /\ p_step'[v] = p_step[v] /\ p_item'[v] = p_item[v]
                                      /\ p_seen'[v] = p_seen[v]
    BY <1>0, <1>1, RequestOthers
<1>3. CASE UNCHANGED <<batch, planned>>
    <2>1. PlanningTypeOK'
        BY <1>0, <1>1, <1>2, <1>3 DEF PlanningTypeOK, Missing, PSteps
    <2>2. StatusRead' /\ StatusKept'
        BY <1>1, <1>2, <1>3, StatusUntouched
    <2> QED BY <2>1, <2>2 DEF PlanningInv
<1>4. ASSUME ~Refused(w), batch' = TRUE,
             planned' = [i \in PlanItems |-> IF i \in p_rows[w] THEN "not_planned" ELSE planned[i]]
      PROVE  PlanningInv'
    <2>1. \A i \in PlanItems : \/ planned'[i] = planned[i]
                               \/ planned[i] = "none" /\ planned'[i] = "not_planned"
        <3>1. \A i \in p_rows[w] : i \in Missing
            BY <1>4 DEF Refused
        <3>2. \A i \in p_rows[w] : planned[i] = "none"
            BY <3>1 DEF Missing
        <3>3. ASSUME NEW i \in PlanItems
              PROVE  planned'[i] = IF i \in p_rows[w] THEN "not_planned" ELSE planned[i]
            BY <1>4
        <3> QED BY <3>2, <3>3
    <2>2. planned' \in [PlanItems -> PlanStatuses \cup {"none"}]
        BY <1>0, <1>4 DEF PlanningTypeOK, PlanStatuses
    <2>3. PlanningTypeOK'
        BY <1>0, <1>1, <1>2, <1>4, <2>2 DEF PlanningTypeOK, PSteps
    <2>4. \A i \in PlanItems : planned[i] = "none" => asked[i] = {}
        BY <1>0 DEF PlanningInv, StatusKept, PlanningTypeOK, PlanStatuses
    <2>5. StatusRead'
        BY <1>1, <1>2, <2>1, <2>4 DEF PlanningInv, StatusRead
    <2>6. StatusKept'
        BY <1>1, <2>1, <2>4 DEF PlanningInv, StatusKept
    <2> QED BY <2>3, <2>5, <2>6 DEF PlanningInv
<1> QED BY <1>3, <1>4 DEF WriteRows

LEMMA StartSaveInv ==
    ASSUME PlanningInv, NEW w \in PWorkers, NEW i \in PlanItems, StartSave(w, i)
    PROVE  PlanningInv'
<1>0. PlanningTypeOK
    BY DEF PlanningInv
<1>1. /\ PGoto(w, "save", batch, {i} \cap Missing) /\ Saving(w, i, planned[i])
      /\ UNCHANGED <<scheduled, recipe, batch, planned, asked>>
    BY DEF StartSave
<1>2. /\ p_step' \in [PWorkers -> PSteps] /\ p_batch' \in [PWorkers -> BOOLEAN]
      /\ p_rows' \in [PWorkers -> SUBSET PlanItems]
      /\ \A v \in PWorkers : v # w => p_step'[v] = p_step[v]
    <2>1. batch \in BOOLEAN /\ "save" \in PSteps /\ {i} \cap Missing \in SUBSET PlanItems
        BY <1>0 DEF PlanningTypeOK, PSteps
    <2> QED BY <1>0, <1>1, <2>1, PGotoOthers
<1>3. /\ p_item' \in [PWorkers -> PlanItems \cup {NoItem}]
      /\ p_seen' \in [PWorkers -> PlanStatuses \cup {"none"}]
      /\ p_item'[w] = i /\ p_seen'[w] = planned[i]
      /\ \A v \in PWorkers : v # w => p_item'[v] = p_item[v] /\ p_seen'[v] = p_seen[v]
    <2>1. planned[i] \in PlanStatuses \cup {"none"}
        BY <1>0 DEF PlanningTypeOK
    <2> QED BY <1>0, <1>1, <2>1, SavingOthers
<1>4. PlanningTypeOK'
    BY <1>0, <1>1, <1>2, <1>3 DEF PlanningTypeOK, Missing, PSteps
<1>5. StatusRead' /\ StatusKept'
    BY <1>1, <1>2, <1>3, StatusUntouched
<1> QED BY <1>4, <1>5 DEF PlanningInv

(* A status equal to the one read is in the row, or somebody saved another.  *)
LEMMA SaveInv ==
    ASSUME PlanningInv, NEW w \in PWorkers, NEW s \in PlanStatuses, Save(w, s)
    PROVE  PlanningInv'
<1> DEFINE i == p_item[w]
<1>0. PlanningTypeOK /\ i \in PlanItems /\ UNCHANGED <<scheduled, recipe>>
    BY DEF PlanningInv, Save, StatusRead
<1>1. /\ p_step' \in [PWorkers -> PSteps] /\ p_batch' \in [PWorkers -> BOOLEAN]
      /\ p_rows' \in [PWorkers -> SUBSET PlanItems]
      /\ p_item' \in [PWorkers -> PlanItems \cup {NoItem}]
      /\ p_seen' \in [PWorkers -> PlanStatuses \cup {"none"}]
      /\ p_step'[w] # "save"
      /\ \A v \in PWorkers : v # w => /\ p_step'[v] = p_step[v] /\ p_item'[v] = p_item[v]
                                      /\ p_seen'[v] = p_seen[v]
    <2>1. \/ PDone(w)
          \/ PGoto(w, "plan", TRUE, {}) /\ Saving(w, NoItem, "none")
        BY DEF Save
    <2>2. {} \in SUBSET PlanItems /\ TRUE \in BOOLEAN
        OBVIOUS
    <2> QED BY <1>0, <2>1, <2>2, RequestOthers
<1>2. CASE UNCHANGED <<batch, planned, asked>>
    <2>1. PlanningTypeOK'
        BY <1>0, <1>1, <1>2 DEF PlanningTypeOK, Missing, PSteps
    <2>2. StatusRead' /\ StatusKept'
        BY <1>1, <1>2, StatusUntouched
    <2> QED BY <2>1, <2>2 DEF PlanningInv
<1>3. ASSUME batch' = TRUE,
             planned' = [planned EXCEPT ![i] = IF s = p_seen[w] THEN @ ELSE s],
             asked' = [asked EXCEPT ![i] = @ \cup {s}]
      PROVE  PlanningInv'
    <2>1. /\ planned' \in [PlanItems -> PlanStatuses \cup {"none"}]
          /\ asked' \in [PlanItems -> SUBSET PlanStatuses]
          /\ asked'[i] = asked[i] \cup {s}
          /\ planned'[i] = IF s = p_seen[w] THEN planned[i] ELSE s
          /\ \A j \in PlanItems : j # i => planned'[j] = planned[j] /\ asked'[j] = asked[j]
        BY <1>0, <1>3 DEF PlanningTypeOK
    <2>2. PlanningTypeOK'
        BY <1>0, <1>1, <1>3, <2>1 DEF PlanningTypeOK, PSteps
    <2>3. s # "none" /\ p_step[w] = "save"
        BY DEF PlanStatuses, Save
    <2>4. planned'[i] \in asked'[i]
        BY <1>0, <2>1, <2>3 DEF PlanningInv, StatusRead, StatusKept
    <2>5. StatusKept'
        BY <2>1, <2>4 DEF PlanningInv, StatusKept
    <2>6. StatusRead'
        BY <1>0, <1>1, <2>1 DEF PlanningInv, StatusRead
    <2> QED BY <2>2, <2>5, <2>6 DEF PlanningInv
<1> QED BY <1>2, <1>3 DEF Save

LEMMA PlanningNextInv == PlanningInv /\ [PlanningNext]_planningVars => PlanningInv'
<1> SUFFICES ASSUME PlanningInv, [PlanningNext]_planningVars PROVE PlanningInv'
    OBVIOUS
<1>0. PlanningTypeOK
    BY DEF PlanningInv
<1>1. ASSUME UNCHANGED <<planned, asked, p_reqs>>, batch' \in {batch, TRUE},
             recipe' \in Recipes, scheduled' \in [POrders -> OrderStatuses]
      PROVE  PlanningInv'
    <2>1. UNCHANGED <<p_step, p_batch, p_rows, p_item, p_seen>>
        BY <1>1 DEF p_reqs
    <2>2. batch' \in BOOLEAN /\ (batch => batch')
        <3>1. batch' = batch \/ batch' = TRUE
            BY <1>1, Zenon
        <3>2. batch \in BOOLEAN
            BY <1>0, Zenon DEF PlanningTypeOK
        <3>3. CASE batch' = batch
            BY <3>2, <3>3, Zenon
        <3>4. CASE batch' = TRUE
            <4>1. batch' \in BOOLEAN
                BY <3>4
            <4>2. batch'
                BY <3>4
            <4> QED BY <4>1, <4>2
        <3> QED BY <3>1, <3>3, <3>4
    <2>3. PlanningTypeOK'
        <3>1. Missing' = Missing
            BY <1>1 DEF Missing
        <3>2. Missing' # PlanItems => batch'
            BY <1>0, <2>2, <3>1 DEF PlanningTypeOK
        <3> QED BY <1>0, <1>1, <2>1, <2>2, <3>2 DEF PlanningTypeOK
    <2>4. StatusRead' /\ StatusKept'
        BY <1>1, <2>1, StatusUntouched
    <2> QED BY <2>3, <2>4 DEF PlanningInv
<1>2. CASE CreateBatch
    BY <1>0, <1>1, <1>2 DEF CreateBatch, PlanningTypeOK
<1>3. ASSUME NEW o \in POrders, NEW s \in OrderStatuses, SetScheduled(o, s) PROVE PlanningInv'
    BY <1>0, <1>1, <1>3 DEF SetScheduled, PlanningTypeOK
<1>4. ASSUME NEW r \in Recipes, EditRecipe(r) PROVE PlanningInv'
    BY <1>0, <1>1, <1>4 DEF EditRecipe, PlanningTypeOK
<1>5. CASE UNCHANGED planningVars
    BY <1>0, <1>1, <1>5 DEF planningVars, PlanningTypeOK
<1> QED BY <1>2, <1>3, <1>4, <1>5, OpenPlanInv, WriteRowsInv, StartSaveInv, SaveInv
        DEF PlanningNext

(* Whatever plans are opened and statuses saved at the same time, a status   *)
(* an administrator saved is not lost.                                      *)
THEOREM PlanKept == PlanningSpec => [](PlanningTypeOK /\ StatusKept)
<1>1. PlanningInv => PlanningTypeOK /\ StatusKept
    BY DEF PlanningInv
<1> QED BY <1>1, PlanningInitInv, PlanningNextInv, PTL DEF PlanningSpec

-----------------------------------------------------------------------------
(* Consumption of what was planned *)

(* Rounding half to even is off by half a unit at most. *)
LEMMA QuantizeNear ==
    ASSUME NEW n \in Nat, NEW d \in Nat \ {0}
    PROVE  LET q == QuantizeQty(n, d)
           IN  q \in Nat /\ 2 * (d * q) <= 2 * n + d /\ 2 * n <= 2 * (d * q) + d
<1> DEFINE p == n \div d
           a == n % d
           q == QuantizeQty(n, d)
<1>1. p \in Nat /\ a \in 0 .. d - 1 /\ n = d * p + a
    OBVIOUS
<1>2. q = IF 2 * a > d \/ (2 * a = d /\ p % 2 = 1) THEN p + 1 ELSE p
    BY DEF QuantizeQty
<1> HIDE DEF p, a, q
<1>3. d * p \in Nat /\ d * (p + 1) = d * p + d
    BY <1>1
<1>4. \/ q = p /\ d * q = d * p /\ 2 * a <= d
      \/ q = p + 1 /\ d * q = d * p + d /\ 2 * a >= d
    BY <1>1, <1>2, <1>3
<1> QED BY <1>1, <1>3, <1>4 DEF q

(* A factor above 0 can be taken away. *)
LEMMA FactorAway ==
    ASSUME NEW y \in Nat \ {0}, NEW i \in Int, NEW j \in Int, y * i <= y * j
    PROVE  i <= j
<1> SUFFICES ASSUME i >= j + 1 PROVE FALSE
    OBVIOUS
<1>1. y * i >= y * (j + 1)
    OBVIOUS
<1>2. y * (j + 1) = y * j + y /\ y * j \in Int
    OBVIOUS
<1> QED BY <1>1, <1>2

(* What fewer orders contain is no more. *)
LEMMA ContentsMonotone ==
    ASSUME NEW P \in SUBSET POrders, NEW D \in SUBSET P
    PROVE  /\ Cookies(D) \in Nat /\ Cookies(P) \in Nat /\ Cookies(D) <= Cookies(P)
           /\ BoxesFor(D) \in Nat /\ BoxesFor(P) \in Nat /\ BoxesFor(D) <= BoxesFor(P)
<1> DEFINE F == [o \in POrders |-> Contents[o].cookies]
           G == [o \in POrders |-> Contents[o].packs]
<1>1. \A o \in POrders : F[o] \in Nat /\ G[o] \in Nat
    BY DemandAssumption DEF DemandAssumption
<1>2. IsFiniteSet(P)
    BY DemandAssumption, FS_Subset DEF DemandAssumption
<1>3. /\ Cookies(D) = SumFunctionOnSet(F, D) /\ Cookies(P) = SumFunctionOnSet(F, P)
      /\ BoxesFor(D) = SumFunctionOnSet(G, D) /\ BoxesFor(P) = SumFunctionOnSet(G, P)
    BY DEF Cookies, BoxesFor
<1> HIDE DEF F, G
<1>4. /\ Integral(F, P) /\ \A o \in P : F[o] >= 0
      /\ Integral(G, P) /\ \A o \in P : G[o] >= 0
    BY <1>1 DEF Integral
<1>5. P \in SUBSET P
    OBVIOUS
<1>6. /\ SumFunctionOnSet(F, D) \in Nat /\ SumFunctionOnSet(F, P) \in Nat
      /\ SumFunctionOnSet(F, D) <= SumFunctionOnSet(F, P)
    BY <1>2, <1>4, <1>5, SumMonotone
<1>7. /\ SumFunctionOnSet(G, D) \in Nat /\ SumFunctionOnSet(G, P) \in Nat
      /\ SumFunctionOnSet(G, D) <= SumFunctionOnSet(G, P)
    BY <1>2, <1>4, <1>5, SumMonotone
<1> QED BY <1>3, <1>6, <1>7

(* What different orders contain adds up. *)
LEMMA ContentsAdd ==
    ASSUME NEW C \in SUBSET POrders, NEW D \in SUBSET POrders, C \cap D = {}
    PROVE  /\ Cookies(C \cup D) = Cookies(C) + Cookies(D)
           /\ BoxesFor(C \cup D) = BoxesFor(C) + BoxesFor(D)
<1> DEFINE F == [o \in POrders |-> Contents[o].cookies]
           G == [o \in POrders |-> Contents[o].packs]
<1>1. \A o \in POrders : F[o] \in Int /\ G[o] \in Int
    BY DemandAssumption DEF DemandAssumption
<1>2. IsFiniteSet(C) /\ IsFiniteSet(D)
    BY DemandAssumption, FS_Subset DEF DemandAssumption
<1>3. \A O : /\ Cookies(O) = SumFunctionOnSet(F, O)
             /\ BoxesFor(O) = SumFunctionOnSet(G, O)
    BY DEF Cookies, BoxesFor
<1> HIDE DEF F, G
<1>4. Integral(F, C \cup D) /\ Integral(G, C \cup D)
    BY <1>1 DEF Integral
<1>5. SumFunctionOnSet(F, C \cup D) = SumFunctionOnSet(F, C) + SumFunctionOnSet(F, D)
    BY <1>2, <1>4, SumOfUnion
<1>6. SumFunctionOnSet(G, C \cup D) = SumFunctionOnSet(G, C) + SumFunctionOnSet(G, D)
    BY <1>2, <1>4, SumOfUnion
<1> QED BY <1>3, <1>5, <1>6

LEMMA ChargedBoxesAdd ==
    ASSUME NEW C \in SUBSET POrders, NEW D \in SUBSET POrders, C \cap D = {}
    PROVE  ChargedBoxes(C \cup D) = ChargedBoxes(C) + ChargedBoxes(D)
<1> DEFINE E(O) == {o \in O : Contents[o].charged}
<1>1. E(C \cup D) = E(C) \cup E(D) /\ E(C) \cap E(D) = {}
    OBVIOUS
<1>2. E(C) \in SUBSET POrders /\ E(D) \in SUBSET POrders
    OBVIOUS
<1>3. \A O : ChargedBoxes(O) = BoxesFor(E(O))
    BY DEF ChargedBoxes
<1> HIDE DEF E
<1> QED BY <1>1, <1>2, <1>3, ContentsAdd

LEMMA ChargedBoxesNat ==
    ASSUME NEW O \in SUBSET POrders
    PROVE  ChargedBoxes(O) \in Nat /\ ChargedBoxes(O) <= BoxesFor(O)
BY ContentsMonotone DEF ChargedBoxes

(* What a set of orders needs, in whole units and before it is rounded.      *)
LEMMA FlourNear ==
    ASSUME NEW O \in SUBSET POrders, NEW r \in Recipes
    PROVE  /\ Cookies(O) * r \in Nat /\ FlourFor(O, r) \in Nat
           /\ 2 * (Yield * FlourFor(O, r)) <= 2 * (Cookies(O) * r) + Yield
           /\ 2 * (Cookies(O) * r) <= 2 * (Yield * FlourFor(O, r)) + Yield
<1>1. Cookies(O) \in Nat /\ r \in Nat /\ Yield \in Nat \ {0}
    BY ContentsMonotone, DemandAssumption DEF DemandAssumption
<1>2. Cookies(O) * r \in Nat
    BY <1>1
<1> QED BY <1>1, <1>2, QuantizeNear DEF FlourFor

(* While the recipe is left alone, a review proposes what its orders need,   *)
(* and what was used is what the consumed orders need but for half a unit    *)
(* for each review.                                                         *)
ProposedRight ==
    review # NoReview =>
        /\ review.boxes = ChargedBoxes(review.orders)
        /\ ~edited => review.flour = FlourFor(review.orders, formula)

UsedRight ==
    /\ used.boxes = ChargedBoxes(consumed)
    /\ approvals = 0 => used.flour = 0
    /\ ~edited => 2 * (Yield * used.flour) <= 2 * (Cookies(consumed) * formula) + Yield * approvals

UseInv == UseTypeOK /\ ProposedRight /\ UsedRight

LEMMA UseInitInv == UseInit => UseInv
<1> SUFFICES ASSUME UseInit PROVE UseInv
    OBVIOUS
<1> USE DEF UseInit
<1>1. UseTypeOK
    BY DEF UseTypeOK, OrderStatuses
<1>2. {} \in SUBSET POrders /\ Yield \in Nat /\ formula \in Nat
    BY DemandAssumption DEF DemandAssumption
<1>3. Cookies({}) * formula \in Nat
    BY <1>2, ContentsMonotone
<1>4. ChargedBoxes({}) = 0
    <2>1. {} \cup {} = {} /\ {} \cap {} = {}
        OBVIOUS
    <2>2. ChargedBoxes({}) = ChargedBoxes({}) + ChargedBoxes({})
        BY <1>2, <2>1, ChargedBoxesAdd
    <2> QED BY <1>2, <2>2, ChargedBoxesNat
<1>5. UsedRight
    BY <1>2, <1>3, <1>4 DEF UsedRight
<1>6. ProposedRight
    BY DEF ProposedRight
<1> QED BY <1>1, <1>5, <1>6 DEF UseInv

LEMMA ReviewFields ==
    ASSUME UseTypeOK, review # NoReview
    PROVE  /\ review.orders \in SUBSET POrders /\ review.flour \in Nat /\ review.boxes \in Nat
           /\ Held = review.orders
BY DEF UseTypeOK, Held

(* A review is left, dismissed, or made anew of orders not consumed. *)
LEMMA ReviewAnew ==
    ASSUME UseInv, UNCHANGED <<formula, consumed, used, approvals, edited>>,
           progress' \in [POrders -> OrderStatuses],
           \/ review' \in {review, NoReview}
           \/ \E O \in SUBSET POrders : O \cap consumed = {} /\ review' = Proposal(O)
    PROVE  UseInv'
<1> USE DEF UseInv
<1>1. CASE review' = review
    <2>1. Held' = Held
        BY <1>1 DEF Held
    <2>2. UseTypeOK'
        BY <1>1, <2>1 DEF UseTypeOK
    <2>3. ProposedRight' /\ UsedRight'
        BY <1>1 DEF ProposedRight, UsedRight
    <2> QED BY <2>2, <2>3
<1>2. CASE review' = NoReview
    <2>1. Held' = {}
        BY <1>2 DEF Held
    <2>2. UseTypeOK'
        BY <1>2, <2>1 DEF UseTypeOK
    <2>3. ProposedRight' /\ UsedRight'
        BY <1>2 DEF ProposedRight, UsedRight
    <2> QED BY <2>2, <2>3
<1>3. ASSUME NEW O \in SUBSET POrders, O \cap consumed = {}, review' = Proposal(O)
      PROVE  UseInv'
    <2>1. formula \in Recipes
        BY DEF UseTypeOK
    <2>2. FlourFor(O, formula) \in Nat /\ ChargedBoxes(O) \in Nat
        BY <2>1, FlourNear, ChargedBoxesNat
    <2>3. /\ review' = [orders |-> O, flour |-> FlourFor(O, formula), boxes |-> ChargedBoxes(O)]
          /\ review' \in [orders : SUBSET POrders, flour : Nat, boxes : Nat]
        BY <1>3, <2>2 DEF Proposal
    <2>4. review' # NoReview /\ review'.orders = O
        BY <2>3, NoReviewAssumption DEF NoReviewAssumption
    <2>5. Held' = O
        BY <2>4 DEF Held
    <2>6. UseTypeOK'
        BY <1>3, <2>3, <2>5 DEF UseTypeOK
    <2>7. review'.boxes = ChargedBoxes(O) /\ review'.flour = FlourFor(O, formula)
        BY <2>3
    <2>8. ProposedRight'
        BY <2>4, <2>7 DEF ProposedRight
    <2>9. UsedRight'
        BY DEF UsedRight
    <2> QED BY <2>6, <2>8, <2>9
<1> QED BY <1>1, <1>2, <1>3

LEMMA ApproveInv ==
    ASSUME UseInv, Approve
    PROVE  UseInv'
<1> USE DEF UseInv
<1> DEFINE O == review.orders
           C == consumed
<1>1. /\ O \in SUBSET POrders /\ review.flour \in Nat /\ review.boxes \in Nat
      /\ C \in SUBSET POrders /\ C \cap O = {}
      /\ used.flour \in Nat /\ used.boxes \in Nat /\ approvals \in Nat
      /\ formula \in Recipes /\ edited \in BOOLEAN
    BY ReviewFields DEF Approve, UseTypeOK
<1>2. /\ consumed' = C \cup O /\ approvals' = approvals + 1
      /\ used' = [flour |-> used.flour + review.flour, boxes |-> used.boxes + review.boxes]
      /\ review' = NoReview /\ UNCHANGED <<progress, formula, edited>> /\ review # NoReview
    BY DEF Approve
<1>3. /\ used'.flour = used.flour + review.flour
      /\ used'.boxes = used.boxes + review.boxes
      /\ used' \in [flour : Nat, boxes : Nat]
    BY <1>1, <1>2
<1>4. UseTypeOK'
    <2>1. Held' = {}
        BY <1>2 DEF Held
    <2> QED BY <1>1, <1>2, <1>3, <2>1 DEF UseTypeOK
<1>5. used'.boxes = ChargedBoxes(consumed')
    <2>1. ChargedBoxes(C \cup O) = ChargedBoxes(C) + ChargedBoxes(O)
        BY <1>1, ChargedBoxesAdd
    <2>2. used.boxes = ChargedBoxes(C) /\ review.boxes = ChargedBoxes(O)
        BY <1>2 DEF UsedRight, ProposedRight
    <2> QED BY <1>2, <1>3, <2>1, <2>2
<1>6. ASSUME ~edited
      PROVE  2 * (Yield * used'.flour)
                <= 2 * (Cookies(consumed') * formula) + Yield * approvals'
    <2> DEFINE m == Cookies(C) * formula
               n == Cookies(O) * formula
               u == Yield * used.flour
               f == Yield * review.flour
               k == Yield * approvals
    <2>1. Yield \in Nat /\ formula \in Nat /\ Cookies(C) \in Nat /\ Cookies(O) \in Nat
        BY <1>1, DemandAssumption, ContentsMonotone DEF DemandAssumption
    <2>2. m \in Nat /\ n \in Nat /\ u \in Nat /\ f \in Nat /\ k \in Nat
        BY <1>1, <2>1
    <2>3. Cookies(consumed') * formula = m + n
        <3>1. Cookies(consumed') = Cookies(C) + Cookies(O)
            BY <1>1, <1>2, ContentsAdd
        <3> QED BY <2>1, <3>1
    <2>4. Yield * used'.flour = u + f /\ Yield * approvals' = k + Yield
        BY <1>1, <1>2, <1>3, <2>1
    <2>5. 2 * u <= 2 * m + k
        BY <1>6 DEF UsedRight
    <2>6. 2 * f <= 2 * n + Yield
        <3>1. review.flour = FlourFor(O, formula)
            BY <1>2, <1>6 DEF ProposedRight
        <3> QED BY <1>1, <3>1, FlourNear
    <2> HIDE DEF m, n, u, f, k
    <2> QED BY <2>1, <2>2, <2>3, <2>4, <2>5, <2>6
<1>7. UsedRight'
    BY <1>1, <1>2, <1>5, <1>6 DEF UsedRight
<1>8. ProposedRight'
    BY <1>2 DEF ProposedRight
<1> QED BY <1>4, <1>7, <1>8

LEMMA EditFormulaInv ==
    ASSUME UseInv, NEW r \in Recipes, EditFormula(r)
    PROVE  UseInv'
<1> USE DEF UseInv
<1>1. /\ formula' = r /\ UNCHANGED <<progress, review, consumed, used, approvals>>
      /\ edited' = (edited \/ review # NoReview \/ approvals > 0)
    BY DEF EditFormula
<1>2. UseTypeOK'
    <2>1. Held' = Held
        BY <1>1 DEF Held
    <2>2. edited' \in BOOLEAN
        BY <1>1, Zenon
    <2> QED BY <1>1, <2>1, <2>2 DEF UseTypeOK
<1>3. ProposedRight'
    BY <1>1 DEF ProposedRight
<1>4. UsedRight'
    <2>1. ASSUME ~edited'
          PROVE  2 * (Yield * used'.flour)
                    <= 2 * (Cookies(consumed') * formula') + Yield * approvals'
        <3>0. ~(approvals > 0)
            BY <1>1, <2>1, Zenon
        <3>1. approvals = 0 /\ used.flour = 0
            BY <3>0 DEF UsedRight, UseTypeOK
        <3>2. Yield \in Nat /\ r \in Nat /\ Cookies(consumed) \in Nat
            BY DemandAssumption, ContentsMonotone DEF DemandAssumption, UseTypeOK
        <3>3. Cookies(consumed) * r \in Nat /\ Yield * 0 = 0
            BY <3>2
        <3> QED BY <1>1, <3>1, <3>3
    <2> QED BY <1>1, <2>1 DEF UsedRight
<1> QED BY <1>2, <1>3, <1>4

LEMMA UseNextInv == UseInv /\ [UseNext]_useVars => UseInv'
<1> SUFFICES ASSUME UseInv, [UseNext]_useVars PROVE UseInv'
    OBVIOUS
<1>0. UseTypeOK /\ progress \in [POrders -> OrderStatuses]
    BY DEF UseInv, UseTypeOK
<1>1. ASSUME NEW O \in SUBSET POrders, Generate(O) PROVE UseInv'
    <2>1. O \cap consumed = {}
        BY <1>1 DEF Generate, Eligible
    <2> QED BY <1>0, <1>1, <2>1, ReviewAnew DEF Generate
<1>2. CASE Dismiss
    BY <1>0, <1>2, ReviewAnew DEF Dismiss
<1>3. ASSUME NEW o \in POrders, NEW s \in OrderStatuses, SetProgress(o, s) PROVE UseInv'
    <2> DEFINE O == Eligible(progress')
    <2>1. O \in SUBSET POrders /\ O \cap consumed = {}
        BY DEF Eligible
    <2>2. review' = review \/ review' = Refreshed(O)
        BY <1>3 DEF SetProgress
    <2>3. Refreshed(O) = NoReview \/ Refreshed(O) = review \/ Refreshed(O) = Proposal(O)
        <3> HIDE DEF O
        <3> QED BY DEF Refreshed
    <2>4. progress' \in [POrders -> OrderStatuses]
        BY <1>0, <1>3 DEF SetProgress
    <2> HIDE DEF O
    <2> QED BY <1>3, <2>1, <2>2, <2>3, <2>4, ReviewAnew DEF SetProgress
<1>4. ASSUME NEW o \in POrders, NEW s \in OrderStatuses, Reschedule(o, s) PROVE UseInv'
    <2>1. progress' \in [POrders -> OrderStatuses]
        BY <1>0, <1>4 DEF Reschedule
    <2> QED BY <1>4, <2>1, ReviewAnew DEF Reschedule
<1>5. CASE UNCHANGED useVars
    BY <1>0, <1>5, ReviewAnew DEF useVars
<1> QED BY <1>1, <1>2, <1>3, <1>4, <1>5, ApproveInv, EditFormulaInv DEF UseNext

LEMMA UseCovered == UseInv => CoveredByPlan
<1> SUFFICES ASSUME UseInv, ~edited, \A o \in consumed : progress[o] # "excluded"
             PROVE  /\ used.boxes <= BoxesFor(Production(progress))
                    /\ 2 * (used.flour - FlourFor(Production(progress), formula))
                          <= approvals + 1
    BY DEF CoveredByPlan
<1> DEFINE P == Production(progress)
           C == consumed
           u == used.flour
           q == FlourFor(P, formula)
           m == Cookies(C) * formula
           n == Cookies(P) * formula
<1>1. P \in SUBSET POrders /\ C \in SUBSET P /\ C \in SUBSET POrders
    BY DEF Production, UseInv, UseTypeOK
<1>2. /\ u \in Nat /\ used.boxes \in Nat /\ approvals \in Nat /\ formula \in Recipes
    BY DEF UseInv, UseTypeOK
<1>3. used.boxes <= BoxesFor(P)
    <2>1. used.boxes = ChargedBoxes(C)
        BY DEF UseInv, UsedRight
    <2>2. /\ ChargedBoxes(C) \in Nat /\ ChargedBoxes(C) <= BoxesFor(C)
          /\ BoxesFor(C) \in Nat /\ BoxesFor(P) \in Nat /\ BoxesFor(C) <= BoxesFor(P)
        BY <1>1, ChargedBoxesNat, ContentsMonotone
    <2> HIDE DEF P, C
    <2> QED BY <2>1, <2>2
<1>4. /\ Yield \in Nat \ {0} /\ formula \in Nat
      /\ Cookies(C) \in Nat /\ Cookies(P) \in Nat /\ Cookies(C) <= Cookies(P)
    BY <1>1, <1>2, DemandAssumption, ContentsMonotone DEF DemandAssumption
<1>5. m \in Nat /\ n \in Nat /\ m <= n
    <2> HIDE DEF P, C
    <2> QED BY <1>4
<1>6. q \in Nat /\ 2 * n <= 2 * (Yield * q) + Yield
    BY <1>1, <1>2, FlourNear
<1>7. 2 * (Yield * u) <= 2 * m + Yield * approvals
    BY DEF UseInv, UsedRight
<1> HIDE DEF P, C, u, q, m, n
<1>8. Yield * (2 * (u - q)) <= Yield * (approvals + 1)
    <2>1. /\ Yield * u \in Nat /\ Yield * q \in Nat /\ Yield * approvals \in Nat
        BY <1>2, <1>4, <1>6
    <2>2. /\ Yield * (2 * (u - q)) = 2 * (Yield * u) - 2 * (Yield * q)
          /\ Yield * (approvals + 1) = Yield * approvals + Yield
        BY <1>2, <1>4, <1>6
    <2> QED BY <1>4, <1>5, <1>6, <1>7, <2>1, <2>2
<1>9. 2 * (u - q) <= approvals + 1
    <2>1. 2 * (u - q) \in Int /\ approvals + 1 \in Int
        BY <1>2, <1>6
    <2> QED BY <1>4, <1>8, <2>1, FactorAway
<1> QED BY <1>3, <1>9 DEF P, u, q

(* For any orders and recipe, and in however many reviews the orders are     *)
(* consumed, they consume what the date's plan told to buy, but for half a   *)
(* unit of rounding for each review and one for the plan, unless the recipe  *)
(* is edited or a consumed order leaves the plan.                           *)
THEOREM PlanCovers == UseSpec => [](UseTypeOK /\ CoveredByPlan)
<1>1. UseInv => UseTypeOK /\ CoveredByPlan
    BY UseCovered DEF UseInv
<1> QED BY <1>1, UseInitInv, UseNextInv, PTL DEF UseSpec
=============================================================================
