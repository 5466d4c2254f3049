-------------------------- MODULE RepairStatusSeed --------------------------
(* The statuses and the matrix of transitions the database is seeded with:   *)
(* prisma/seed/repair-statuses.ts.                                           *)

(* Statuses flagged isTerminal. *)
SeedTerminal == {"CLOSED", "UNREPAIRABLE", "QUOTE_REFUSED", "CANCELLED"}

SeedStatus == SeedTerminal \cup
    {"ORDER_CREATED", "AWAITING_SHIPMENT", "RECEIVED", "DIAGNOSING",
     "AWAITING_CLIENT_VALIDATION", "AWAITING_PART", "IN_REPAIR", "QUALITY_CHECK",
     "REPAIR_DONE", "PREPARING_RETURN", "SHIPPED", "DELIVERED",
     "CLIENT_UNREACHABLE", "WARRANTY_RETURN"}

(* Transitions flagged isSystemProtected. *)
ProtectedTransition ==
    {<<"ORDER_CREATED", "AWAITING_SHIPMENT">>, <<"ORDER_CREATED", "CANCELLED">>,
     <<"AWAITING_SHIPMENT", "RECEIVED">>, <<"AWAITING_SHIPMENT", "CANCELLED">>,
     <<"DIAGNOSING", "UNREPAIRABLE">>,
     <<"AWAITING_CLIENT_VALIDATION", "QUOTE_REFUSED">>,
     <<"PREPARING_RETURN", "SHIPPED">>, <<"SHIPPED", "DELIVERED">>,
     <<"DELIVERED", "CLOSED">>}

OtherTransition ==
    {<<"AWAITING_SHIPMENT", "CLIENT_UNREACHABLE">>,
     <<"RECEIVED", "DIAGNOSING">>,
     <<"DIAGNOSING", "AWAITING_CLIENT_VALIDATION">>, <<"DIAGNOSING", "IN_REPAIR">>,
     <<"AWAITING_CLIENT_VALIDATION", "IN_REPAIR">>,
     <<"AWAITING_CLIENT_VALIDATION", "CLIENT_UNREACHABLE">>,
     <<"IN_REPAIR", "AWAITING_PART">>, <<"AWAITING_PART", "IN_REPAIR">>,
     <<"IN_REPAIR", "QUALITY_CHECK">>,
     <<"QUALITY_CHECK", "IN_REPAIR">>, <<"QUALITY_CHECK", "REPAIR_DONE">>,
     <<"REPAIR_DONE", "PREPARING_RETURN">>,
     <<"CLOSED", "WARRANTY_RETURN">>, <<"WARRANTY_RETURN", "DIAGNOSING">>}

(* Mutant: a repair may be declared done without the quality tests. *)
SeedTransitionWithShortcut ==
    ProtectedTransition \cup OtherTransition \cup {<<"IN_REPAIR", "REPAIR_DONE">>}

(* SEED_REPAIR_TRANSITIONS *)
SeedTransition == ProtectedTransition \cup OtherTransition
=============================================================================
