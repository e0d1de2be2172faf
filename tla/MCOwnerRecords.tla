--------------------------- MODULE MCOwnerRecords ---------------------------
(* The calls of the routes and calls of each other kind on one asset. *)
EXTENDS OwnerRecords, TLC

Ask(new, event, actor, validation, thesis) ==
    [new |-> new, event |-> event, actor |-> actor, validation |-> validation,
     thesis |-> thesis]

Asked ==
    {Ask("accepted", "owner_accepted", "owner", NULL, NULL),
     Ask("rejected", "owner_rejected", "owner", NULL, NULL),
     Ask("accepted", "owner_accepted", "system", NULL, NULL),
     Ask("accepted", "validation_started", "system", "started", NULL),
     Ask("accepted", "validation_failed", "system", "needs_revision", NULL),
     Ask("accepted", "thesis_updated", "system", NULL, "empty"),
     Ask("accepted", "thesis_updated", "system", "passed", "given"),
     Ask("internally_validated", "validation_passed", "system", "passed", "given"),
     Ask("internally_validated", "validation_passed", "owner", "passed", "empty"),
     Ask("internally_validated", "validation_passed", "owner", NULL, "given"),
     Ask("archived", "archived", "system", NULL, NULL),
     Ask("archived", "archived", "owner", "failed", "empty"),
     Ask("archived", "archived", "other", NULL, NULL),
     Ask("archived", "validation_failed", "owner", "failed", NULL)}

Symmetry == Permutations(Callers) \cup Permutations(Assets)
=============================================================================
