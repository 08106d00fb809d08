----------------------------- MODULE Operations -----------------------------
(***************************************************************************)
(* Direct switches and account distributions together.  Both move the same *)
(* files under the same recovery operation lock, and each knows only one   *)
(* of the two journals: a distribution first reconciles the intent of a    *)
(* switch and then asks the gate of its own journal, a switch reconciles   *)
(* its intent and never looks at the journal of a distribution.  So an     *)
(* operation starts from whatever a crash of the other left.               *)
(*                                                                         *)
(* Whether a switch may restart Desktop is left to DirectSwitch: a refusal *)
(* adds nothing here.  Quotas are polled until somebody logs in elsewhere, *)
(* which bounds the combinations of both and no operation.                 *)
(***************************************************************************)
EXTENDS SharedAuth

CONSTANTS Race, HandoffRace     \* as in DirectSwitch and Distribution

VARIABLES
    journal, spc, sop,      \* the switch, or the reconciliation of its intent
    dist, closed, dpc, dop, \* the distribution
    outside                 \* history: somebody logged in or out elsewhere

Switch == INSTANCE DirectSwitch WITH pc <- spc, op <- sop
Distribution == INSTANCE Distribution WITH pc <- dpc, op <- dop

ASSUME RacesAssumption == {Race, HandoffRace} \subseteq BOOLEAN
ASSUME NoJournalsAssumption ==
    None \notin Switch!Intents \union Distribution!Journals

switchVars == <<journal, spc, sop>>
distributionVars == <<dist, closed, dpc, dop>>
vars == <<sharedVars, switchVars, distributionVars, outside>>

Init == Switch!Init /\ Distribution!Init /\ outside = FALSE

LockFree == spc = "idle" /\ dpc = "idle"

Diverged == auth # None /\ Registered(auth.acct) /\ active # auth.acct

(* Whoever opens Desktop: it is no longer one that was closed and left.    *)
ClosedAfter == closed' = (closed /\ desktop' # "on")

-----------------------------------------------------------------------------
(* The operations                                                          *)

SwitchRequest ==
    /\ LockFree
    /\ \E t \in Accounts : Switch!Start(t, TRUE)
    /\ UNCHANGED <<distributionVars, outside>>

SwitchStep ==
    /\ dpc = "idle"
    /\ Switch!SwitchStep \/ Switch!Crash
    /\ ClosedAfter
    /\ UNCHANGED <<dist, dpc, dop, outside>>

(* DistributionCoordinator::execute: the intent of a switch comes first.   *)
DistributionRequest ==
    /\ LockFree
    /\ Switch!Start(None, FALSE)
    /\ dpc' = "reconcile"
    /\ UNCHANGED <<dist, closed, dop, outside>>

(* An intent that remains ends the distribution.                           *)
ReconcileFirst ==
    /\ dpc = "reconcile"
    /\ Switch!Reconcile
    /\ IF spc' # "idle" THEN UNCHANGED <<dpc, dop>>
       ELSE \/ /\ journal' = None
               /\ dpc' = "gate"
               /\ \E t \in Accounts : dop' = [Distribution!IdleOp EXCEPT !.target = t]
            \/ journal # None /\ Distribution!Return
    /\ UNCHANGED <<dist, closed, outside>>

DistributionStep ==
    /\ dpc # "reconcile"
    /\ Distribution!DistributionStep \/ Distribution!Crash
    /\ UNCHANGED <<switchVars, outside>>

ReconcileCrash ==
    /\ dpc = "reconcile"
    /\ Switch!Crash
    /\ Distribution!Return
    /\ UNCHANGED <<dist, closed, outside>>

-----------------------------------------------------------------------------
(* Everybody else, between any two steps of either operation               *)

OtherWriters ==
    /\ \/ DaemonSync \/ \E a \in Accounts : Remove(a) \/ (QuotaPoll(a) /\ ~outside)
       \/ LockFree /\ (InferBinding \/ \E a \in Accounts : Relogin(a))
    /\ UNCHANGED <<switchVars, distributionVars, outside>>

Unhindered == Switch!Unhindered /\ Distribution!Unhindered

Tokens ==
    /\ \/ Unhindered /\ Rotate /\ UNCHANGED outside
       \/ Unhindered /\ Logout /\ outside' = TRUE
       \/ /\ Unhindered /\ (Race \/ ~Switch!FirstSwitch)
          /\ \E a \in Accounts : Login(a)
          /\ outside' = TRUE
    /\ UNCHANGED <<switchVars, distributionVars>>

Processes ==
    /\ \/ /\ Unhindered /\ UserLaunch
          /\ closed' = FALSE
          /\ UNCHANGED <<sop, dop>>
       \/ /\ DesktopQuit
          /\ sop' = [sop EXCEPT !.mine = FALSE]
          /\ dop' = [dop EXCEPT !.mine = FALSE]
          /\ UNCHANGED closed
       \/ WriterQuit /\ UNCHANGED <<closed, sop, dop>>
    /\ UNCHANGED <<journal, spc, dist, dpc, outside>>

Next == \/ SwitchRequest \/ SwitchStep
        \/ DistributionRequest \/ ReconcileFirst \/ DistributionStep \/ ReconcileCrash
        \/ OtherWriters \/ Tokens \/ Processes

Spec == Init /\ [][Next]_vars

-----------------------------------------------------------------------------
(* Properties                                                              *)

(* auth.json and the registry name different saved accounts only while one *)
(* of the two journals keeps the next distribution from going on from      *)
(* there, whichever operation crashed in whose leftovers, unless somebody  *)
(* logged in elsewhere.                                                    *)
DivergenceExplained ==
    ~outside /\ Diverged => journal # None \/ Distribution!Uncertain

(* A Desktop that a distribution told to quit has been opened again, by    *)
(* whatever operation or by the user, or the distribution journal says so: *)
(* a switch in between neither closes it for good nor hides that it is.    *)
ClosedDesktopRecorded == closed => Distribution!Uncertain

(* Unless somebody logged in elsewhere, the marker, which the next         *)
(* distribution and the task recovery trust, names the account that the    *)
(* live Desktop has loaded.                                                *)
SessionTruth == ~outside => MarkerTruth

=============================================================================
