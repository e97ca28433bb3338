--------------------------- MODULE MCLegacyTools ---------------------------
(* Two calls, each free to ask for anything below.                         *)
EXTENDS LegacyTools

Asked(name, id, amount, variant) ==
  [tool |-> name, id |-> id, amount |-> amount, variant |-> variant]

MCAsks ==
  {Asked("mark_invoice_paid", "due", 0, "none"),
   Asked("mark_invoice_paid", "due", 1, "none"),
   Asked("capture_payment", "due", 0, "none"),
   Asked("capture_payment", "due", 0, "force"),
   Asked("record_refund", "paid", 1, "gateway"),
   Asked("record_refund", "paid", 2, "gateway"),
   Asked("record_refund", "due", 1, "applied"),
   Asked("add_credit", "ann", 1, "none"),
   Asked("create_client", "ann", 0, "reuse"),
   Asked("create_invoice", "ann", 1, "none"),
   Asked("apply_credit", "due", 1, "none"),
   Asked("accept_order", "order", 0, "none"),
   Asked("update_client", "ann", 0, "none"),
   Asked("register_domain", "shop", 0, "nameservers"),
   Asked("renew_domain", "shop", 0, "none"),
   Asked("transfer_domain", "shop", 0, "none"),
   Asked("create_ticket", "ann", 0, "none"),
   Asked("reply_ticket", "ticket", 0, "note")}

MCLookAlikes ==
  [id \in {q.id : q \in Asks} |-> IF id = "ann" THEN {"joann"} \cap {q.id : q \in Asks} ELSE {}]
=============================================================================
