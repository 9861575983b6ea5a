-------------------------------- MODULE Services --------------------------------
(***************************************************************************)
(* The services beside stock and payment.  They share no row that both     *)
(* write, and each module changes the orders and recipes it reads itself,  *)
(* so a behaviour of the program restricted to one of them is a behaviour  *)
(* of its module, and one run can explore them one at a time: part says    *)
(* which service is exercised, the others rest.                            *)
(***************************************************************************)
EXTENDS DiscountGrants, SessionTokens, ReceiptAttachments, DeliverySchedule,
        OrderPricing, PurchasePlanning, PlannedConsumption, CustomerProfiles, AddressBook

VARIABLE part

servicesVars == <<part, grantVars, tokenVars, attachmentVars, scheduleVars,
                  pricingVars, planningVars, useVars, profileVars, addressVars>>

Parts == {"grants", "tokens", "attachments", "schedule", "pricing", "planning",
          "consumption", "profiles", "addresses"}

(* A service at rest starts from one of its initial states: the attachments *)
(* from a new receipt, the schedule from the default settings, Thursday and *)
(* Saturday.                                                                *)
ServicesInit ==
    /\ part \in Parts
    /\ GrantInit /\ TokenInit /\ AttachmentInit
    /\ ScheduleInit /\ PricingInit /\ PlanningInit /\ UseInit
    /\ ProfileInit /\ AddressInit
    /\ part # "attachments" => legacy_bill = NoAsset
    /\ part # "schedule" => <<cutoff, delivery>> = <<3, 5>>
    /\ part # "pricing" => /\ catalogue = CHOOSE c \in Catalogues : TRUE
                           /\ taxes = CHOOSE t \in TaxRates : TRUE
    /\ part # "planning" => recipe = CHOOSE r \in Recipes : TRUE
    /\ part # "consumption" => formula = CHOOSE r \in Recipes : TRUE

GrantPart ==
    /\ part = "grants"
    /\ GrantNext
    /\ UNCHANGED <<part, tokenVars, attachmentVars, scheduleVars, pricingVars, planningVars,
                   useVars, profileVars, addressVars>>

TokenPart ==
    /\ part = "tokens"
    /\ TokenNext
    /\ UNCHANGED <<part, grantVars, attachmentVars, scheduleVars, pricingVars, planningVars,
                   useVars, profileVars, addressVars>>

AttachmentPart ==
    /\ part = "attachments"
    /\ AttachmentNext
    /\ UNCHANGED <<part, grantVars, tokenVars, scheduleVars, pricingVars, planningVars,
                   useVars, profileVars, addressVars>>

SchedulePart ==
    /\ part = "schedule"
    /\ ScheduleNext
    /\ UNCHANGED <<part, grantVars, tokenVars, attachmentVars, pricingVars, planningVars,
                   useVars, profileVars, addressVars>>

PricingPart ==
    /\ part = "pricing"
    /\ PricingNext
    /\ UNCHANGED <<part, grantVars, tokenVars, attachmentVars, scheduleVars, planningVars,
                   useVars, profileVars, addressVars>>

PlanningPart ==
    /\ part = "planning"
    /\ PlanningNext
    /\ UNCHANGED <<part, grantVars, tokenVars, attachmentVars, scheduleVars, pricingVars,
                   useVars, profileVars, addressVars>>

ConsumptionPart ==
    /\ part = "consumption"
    /\ UseNext
    /\ UNCHANGED <<part, grantVars, tokenVars, attachmentVars, scheduleVars, pricingVars,
                   planningVars, profileVars, addressVars>>

ProfilePart ==
    /\ part = "profiles"
    /\ ProfileNext
    /\ UNCHANGED <<part, grantVars, tokenVars, attachmentVars, scheduleVars, pricingVars,
                   planningVars, useVars, addressVars>>

AddressPart ==
    /\ part = "addresses"
    /\ AddressNext
    /\ UNCHANGED <<part, grantVars, tokenVars, attachmentVars, scheduleVars, pricingVars,
                   planningVars, useVars, profileVars>>

ServicesNext ==
    \/ GrantPart
    \/ TokenPart
    \/ AttachmentPart
    \/ SchedulePart
    \/ PricingPart
    \/ PlanningPart
    \/ ConsumptionPart
    \/ ProfilePart
    \/ AddressPart

ServicesSpec == ServicesInit /\ [][ServicesNext]_servicesVars /\ GrantFairness

-----------------------------------------------------------------------------

(* The type invariants of the services, together. *)
ServicesTypeOK ==
    /\ part \in Parts
    /\ GrantTypeOK /\ TokenTypeOK /\ AttachmentTypeOK
    /\ ScheduleTypeOK /\ PricingTypeOK /\ PlanningTypeOK /\ UseTypeOK
    /\ ProfileTypeOK /\ AddressTypeOK
=============================================================================
