--------------------------- MODULE MCDeviceSeats ---------------------------
(* The seats under both policies that keep a registry.  Enforced, which is the *)
(* module extended: three devices and activations contend for two seats; the   *)
(* licence is lost; and two devices move seats and refresh.  Only observed, an *)
(* instance with a state of its own: tokens from before the registry race for  *)
(* the seats.                                                                  *)
EXTENDS TLC, DeviceLicense

VARIABLES part, oclock, orows, otokens, oact, opoll, oclaim, olicense, olosing

observedVars == <<oclock, orows, otokens, oact, opoll, oclaim, olicense, olosing>>
Observed == INSTANCE DeviceLicense WITH Migrated <- Devices, Mode <- "observe", Waits <- TRUE,
    Lossy <- FALSE, MaxBusy <- 2, MaxRows <- 4, MaxTokens <- 4, clock <- oclock, rows <- orows,
    tokens <- otokens, act <- oact, poll <- opoll, claim <- oclaim, license <- olicense, losing <- olosing

\* Bounds of the enforced parts.
Kept == losing = {}
Two == /\ Busy <= 1
       /\ Cardinality({act[a].device : a \in Activations} \ {None}) <= 2
       /\ Cardinality({a \in Activations : act[a].device # None}) <= 2
SeatsInit ==
    /\ part \in {"contending", "losing", "moving", "observed"}
    /\ Init
    /\ IF part = "observed" THEN Observed!Init
       ELSE /\ oclock = clock /\ orows = rows /\ otokens = tokens /\ oact = act
            /\ opoll = poll /\ oclaim = claim /\ olicense = license /\ olosing = losing
SeatsNext ==
    /\ \/ /\ Next /\ UNCHANGED observedVars
          /\ \/ part = "contending" /\ Kept' /\ Len(tokens') <= 1
             \/ part = "losing" /\ Two' /\ Len(rows') <= 2
             \/ part = "moving" /\ Two' /\ Kept'
       \/ part = "observed" /\ Observed!Next /\ UNCHANGED vars
    /\ UNCHANGED part
SeatsSpec == SeatsInit /\ [][SeatsNext]_<<part, vars, observedVars>>

\* The enforced properties are the module's TypeOK and SeatsHold; while the policy
\* only observes a device still has one seat, and none comes back by a credential
\* (account.ts, devices).
ObservedSeatsHold == [](part = "observed" => Observed!TypeOK) /\ Observed!SeatsHold
Symmetry == Permutations(Devices) \cup Permutations(Activations)
=============================================================================
