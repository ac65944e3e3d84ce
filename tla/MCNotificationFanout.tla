------------------------ MODULE MCNotificationFanout ------------------------
(* Model-checking instances of NotificationFanout.  Jobs share no state, so *)
(* one job shows what each of them does.                                    *)
EXTENDS NotificationFanout

(* A contact with an account, a phone and an address.                       *)
OneContact == << "in_app", "sms", "email" >>

(* One with an account and a phone, then one with an account and an address. *)
TwoContacts == << "in_app", "sms", "in_app", "email" >>
=============================================================================
