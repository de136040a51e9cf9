--------------------------- MODULE MCWebhookDelivery ---------------------------
(* Small instances of WebhookDelivery. *)
EXTENDS WebhookDelivery, TLC

CONSTANTS i1, i2, l1, e1, e2, e3, d1, d2

\* i1 was provisioned with its location; i2 without.
MCAccountOf == [i \in Ids |-> IF i = i1 THEN l1 ELSE None]

\* Both were provisioned with one location.
MCSharedAccount == [i \in Ids |-> l1]

\* e3 carries no locationId.
MCLocationOf == [e \in Events |-> IF e = e3 THEN None ELSE l1]

MCSomewhere == ControlPoints \ {"idle", "answered"}
MCBeforeRecord == {"received", "resolve_account", "resolve_config", "record"}

Symmetry == Permutations(Deliveries)
===============================================================================
