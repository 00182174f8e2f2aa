---------------------------- MODULE OrderStatus ----------------------------
(***************************************************************************)
(* The two status vocabularies of an order and the table between them.     *)
(* LocalStatus is the enum the engine stores in its orders table;          *)
(* RawStatus is what the exchange reports, "OTHER" standing for every      *)
(* string the table does not list (EXPIRED_IN_MATCH, PENDING_CANCEL, ...). *)
(***************************************************************************)

LocalStatus == {"PENDING", "SUBMITTED", "ACCEPTED", "PARTIALLY_FILLED",
                "FILLED", "CANCELLED", "REJECTED", "EXPIRED", "UNKNOWN",
                "PENDING_RECONCILIATION"}

RawStatus == {"NEW", "PARTIALLY_FILLED", "FILLED", "CANCELED", "REJECTED",
              "EXPIRED", "OTHER"}

NoRow    == "no_row"       \* the orders table has no row for the client id
NoOrder  == "no_order"     \* the exchange (or its answer) has no such order
NoStatus == "no_status"    \* Python's None

\* The statuses get_open_orders selects: the rows reconciliation looks at.
OpenStatus == {"PENDING", "SUBMITTED", "ACCEPTED", "PARTIALLY_FILLED",
               "UNKNOWN", "PENDING_RECONCILIATION"}

\* The statuses that still block trading when reconciliation has ended.
UnresolvedStatus == {"UNKNOWN", "PENDING_RECONCILIATION"}

MapStatus(raw) ==
  CASE raw = "NEW"              -> "ACCEPTED"
    [] raw = "PARTIALLY_FILLED" -> "PARTIALLY_FILLED"
    [] raw = "FILLED"           -> "FILLED"
    [] raw = "CANCELED"         -> "CANCELLED"
    [] raw = "REJECTED"         -> "REJECTED"
    [] raw = "EXPIRED"          -> "EXPIRED"
    [] OTHER                    -> NoStatus

\* Mutant: .get(raw) without the default.
StoredStatus_NoDefault(raw) == MapStatus(raw)

\* A raw status outside the table is stored as UNKNOWN, both when an order is
\* imported and when it is the answer to a submission.
StoredStatus(raw) ==
  IF MapStatus(raw) = NoStatus THEN "UNKNOWN" ELSE MapStatus(raw)
=============================================================================
