--------------------------- MODULE DeliverySchedule ---------------------------
(***************************************************************************)
(* The weekly delivery batch an order is put in (app/services/             *)
(* customer_delivery_date_service.py for website orders,                   *)
(* delivery_schedule_service.py for orders entered by an administrator),   *)
(* from the cutoff and delivery weekdays of the business settings.  Days   *)
(* are numbered from a Monday, day 0.  A day in Sri Lanka has three parts: *)
(* the server runs on UTC, and for it the early hours, until 5:30, are     *)
(* still the day before; late is what follows the cutoff time, the last    *)
(* second of the day.                                                      *)
(***************************************************************************)
EXTENDS Integers

CONSTANTS
    Horizon,     \* bounds the days that pass
    NoDate

ASSUME ScheduleAssumption == Horizon \in Nat /\ NoDate \notin Nat

VARIABLES
    today,       \* the date in Sri Lanka
    clock,       \* the part of it
    cutoff,      \* weekday order_cutoff_day, Monday = 0
    delivery,    \* weekday delivery_day
    booked,      \* date of the last website order since the settings changed
    entered      \* date of the last administrator's order since then

scheduleVars == <<today, clock, cutoff, delivery, booked, entered>>

-----------------------------------------------------------------------------
(* Definitions *)

Weekdays == 0..6

(* week_delivery_day: the delivery day of the week, Monday to Sunday, of t. *)
WeekDelivery(t, d) == t - (t % 7) + d

(* is_before_weekly_cutoff, in part p of day t *)
BeforeStrict(t, p, c) == t % 7 < c      \* mutant: the cutoff day is too late

BeforeCutoff(t, p, c) == t % 7 < c \/ (t % 7 = c /\ p # "late")

(* calculate_weekly_delivery_date *)
NoRollover(t, p, c, d) ==      \* mutant: a delivery day already past
    IF BeforeCutoff(t, p, c) THEN WeekDelivery(t, d) ELSE WeekDelivery(t + 7, d)

WebsiteDate(t, p, c, d) ==
    IF BeforeCutoff(t, p, c) /\ t <= WeekDelivery(t, d)
    THEN WeekDelivery(t, d)
    ELSE WeekDelivery(t + 7, d)

(* calculate_delivery_date *)
AdminDate(t, c, d) ==
    LET ahead == (d - (t % 7)) % 7 IN
    IF t % 7 >= c /\ ahead <= (d - c) % 7 THEN t + ahead + 7 ELSE t + ahead

(* What an order gets that is placed now: on the website, and entered by    *)
(* hand, for which date.today() is the date of the server.                 *)
OnlineDate == WebsiteDate(today, clock, cutoff, delivery)

ServerDate == IF clock = "early" THEN today - 1 ELSE today

HandDate == AdminDate(ServerDate, cutoff, delivery)

(* The batch the customer is promised ("Orders placed on or before Thursday *)
(* evening are included in the upcoming Saturday delivery batch"): the first *)
(* delivery day D whose cutoff day has not come, or has come to one of the   *)
(* parts in which it still takes orders.                                    *)
Open(D, parts) ==
    LET last == D - (delivery - cutoff) IN
    D % 7 = delivery /\ (today < last \/ (today = last /\ clock \in parts))

FirstOpen(D, parts) == Open(D, parts) /\ ~Open(D - 7, parts)

-----------------------------------------------------------------------------
(* Actions *)

Tick ==
    \/ /\ clock = "early"
       /\ clock' = "day"
       /\ UNCHANGED <<today, cutoff, delivery, booked, entered>>
    \/ /\ clock = "day"
       /\ clock' = "late"
       /\ UNCHANGED <<today, cutoff, delivery, booked, entered>>
    \/ /\ clock = "late"
       /\ today < Horizon
       /\ today' = today + 1
       /\ clock' = "early"
       /\ UNCHANGED <<cutoff, delivery, booked, entered>>

(* update_settings accepts any two weekdays. *)
SetSchedule(c, d) ==
    /\ <<c, d>> # <<cutoff, delivery>>
    /\ cutoff' = c
    /\ delivery' = d
    /\ booked' = NoDate
    /\ entered' = NoDate
    /\ UNCHANGED <<today, clock>>

(* A website order of the weekly kind. *)
OrderOnline ==
    /\ booked' = OnlineDate
    /\ UNCHANGED <<today, clock, cutoff, delivery, entered>>

OrderByHand ==
    /\ entered' = HandDate
    /\ UNCHANGED <<today, clock, cutoff, delivery, booked>>

ScheduleInit ==
    /\ today = 0
    /\ clock = "day"
    /\ cutoff \in Weekdays
    /\ delivery \in Weekdays
    /\ booked = NoDate
    /\ entered = NoDate

ScheduleNext ==
    \/ Tick
    \/ \E c, d \in Weekdays : SetSchedule(c, d)
    \/ OrderOnline
    \/ OrderByHand

ScheduleSpec == ScheduleInit /\ [][ScheduleNext]_scheduleVars

-----------------------------------------------------------------------------
(* Properties *)

ScheduleTypeOK ==
    /\ today \in 0..Horizon
    /\ clock \in {"early", "day", "late"}
    /\ cutoff \in Weekdays /\ delivery \in Weekdays
    /\ booked \in Nat \cup {NoDate} /\ entered \in Nat \cup {NoDate}

(* With the cutoff no later in the week than the delivery, a website order  *)
(* joins the batch the customer is promised.  An order entered by hand does *)
(* too, at any hour, but for it the batch closes at 5:30 on the cutoff day. *)
PromisedBatch ==
    cutoff <= delivery =>
       /\ FirstOpen(OnlineDate, {"early", "day"})
       /\ FirstOpen(HandDate, {"early"})

(* Under the same settings a later order never overtakes an earlier one of  *)
(* its kind, and nobody is given a day that is past or two weeks away.  For  *)
(* orders entered by hand the first needs the cutoff no later in the week    *)
(* than the delivery, and so does the second in the early hours, when        *)
(* another choice of days can give such an order the day before.            *)
NeverOvertaken ==
    /\ booked # NoDate => booked <= OnlineDate
    /\ entered # NoDate /\ cutoff <= delivery => entered <= HandDate
    /\ OnlineDate \in today..(today + 13)
    /\ cutoff <= delivery \/ clock # "early" => HandDate \in today..(today + 13)
=============================================================================
