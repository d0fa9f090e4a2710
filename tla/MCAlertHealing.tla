--------------------------- MODULE MCAlertHealing ---------------------------
(* One alert row whose fingerprint fires again and again, under an         *)
(* automatic policy that needs no approval.                                *)
EXTENDS AlertHealing

FourFirings == {[webhooks |-> 4, views |-> 0, faults |-> 0]}
=============================================================================
