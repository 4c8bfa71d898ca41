----------------------------- MODULE Lifecycle -----------------------------
(***************************************************************************)
(* The booking state machine as data: the statuses, the events and the     *)
(* table that says which event moves which status where.  Reservations and *)
(* transitions both rest on it, and so does the overlap constraint, which  *)
(* only looks at rows whose status is active.                              *)
(***************************************************************************)

Status == {"pending", "confirmed", "in_progress", "completed",
           "cancelled_by_customer", "cancelled_by_provider", "no_show"}

Event == {"confirm", "start", "complete", "no_show",
          "cancel_by_customer", "cancel_by_provider"}

\* The table: triples <<from, event, to>>.
transitions ==
  { <<"pending",     "confirm",            "confirmed">>,
    <<"pending",     "cancel_by_customer", "cancelled_by_customer">>,
    <<"pending",     "cancel_by_provider", "cancelled_by_provider">>,
    <<"confirmed",   "start",              "in_progress">>,
    <<"confirmed",   "no_show",            "no_show">>,
    <<"confirmed",   "cancel_by_customer", "cancelled_by_customer">>,
    <<"confirmed",   "cancel_by_provider", "cancelled_by_provider">>,
    <<"in_progress", "complete",           "completed">>,
    <<"in_progress", "cancel_by_provider", "cancelled_by_provider">> }

\* The statuses that occupy a resource; the constraint bookings_no_overlap
\* carries the same list in its WHERE clause.
activeStatuses == {"pending", "confirmed", "in_progress"}

IsActive(status) == status \in activeStatuses

\* Next(from, event) of the code: the set of statuses the event leads to,
\* empty when the code answers INVALID_TRANSITION.
NextStatus(from, event) ==
  { to \in Status : <<from, event, to>> \in transitions }

\* Who is recorded as having cancelled a booking that reached this status;
\* "nobody" stands for NULL.
CancelledBy(status) ==
  CASE status = "cancelled_by_customer" -> "customer"
    [] status = "cancelled_by_provider" -> "provider"
    [] OTHER                            -> "nobody"
=============================================================================
