--------------------------- MODULE PaymentLifecycle ---------------------------
(***************************************************************************)
(* What the life of a payment session promises (models/payment_session.py, *)
(* core/enums.py): initiated, then redirected, then one of four ends, none *)
(* of which is ever left.                                                  *)
(***************************************************************************)

CONSTANT Orders

VARIABLE life   \* status of the session of each order, "none" for no session

Ends == {"completed", "failed", "expired", "tampered"}

Init == life = [o \in Orders |-> "none"]

Begin(o) ==
    /\ life[o] = "none"
    /\ life' = [life EXCEPT ![o] = "initiated"]

Redirect(o) ==
    /\ life[o] = "initiated"
    /\ life' = [life EXCEPT ![o] = "redirected"]

End(o, e) ==
    /\ life[o] = "redirected"
    /\ life' = [life EXCEPT ![o] = e]

Next == \E o \in Orders : Begin(o) \/ Redirect(o) \/ \E e \in Ends : End(o, e)

Spec == Init /\ [][Next]_life
=============================================================================
