----------------------------- MODULE MCDelivery -----------------------------
(* Instances of Delivery for TLC: the statuses the server may answer with. *)
EXTENDS Delivery, TLC

PlainReplies == {202, 401, 503}
FewReplies == {202, 503}
RedirectingReplies == {202, 307}

=============================================================================
