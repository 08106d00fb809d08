---------------------------- MODULE MCAutomatic ----------------------------
(* Profiles, settings and readings for checking Automatic.                 *)
EXTENDS Automatic, TLC

CONSTANTS a, b

Profile(enabled, business, priority) ==
    [enabled |-> enabled, business |-> business, priority |-> priority]

(* A personal account and a business one, which may be disabled.           *)
MCProfiles ==
    {a :> Profile(TRUE, FALSE, 0) @@ b :> Profile(enabled, TRUE, 1) :
        enabled \in BOOLEAN}

Setting(auto, only, first, highest) ==
    [auto |-> auto, only |-> only, first |-> first, highest |-> highest]

MCSettings == {Setting(TRUE, FALSE, TRUE, FALSE), Setting(TRUE, FALSE, FALSE, TRUE),
               Setting(FALSE, TRUE, FALSE, FALSE)}

Reading(primary, weekly, credits, reset, error) ==
    [primary |-> primary, weekly |-> weekly, credits |-> credits,
     reset |-> reset, error |-> error]

(* The threshold is 1: usable; without a weekly quota but with a credit;   *)
(* at the threshold; refused by the service.                               *)
MCReadings == {Reading(2, 2, 0, 1, "none"), Reading(3, 1, 1, 1, "none"),
               Reading(1, 2, 0, 1, "none"), Reading(2, 2, 0, 2, "limit")}

=============================================================================
