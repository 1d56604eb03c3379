------------------------------ MODULE Lifetime ------------------------------
(***************************************************************************)
(* The hours the monitor has been in service (app_time.c), counted in RAM  *)
(* and saved to flash every sixth hour and before a reset that was asked   *)
(* for.  The sector is erased first and written then; power may fail, or   *)
(* the system exception reset the monitor, at any moment.                  *)
(***************************************************************************)
EXTENDS Integers

CONSTANT MaxHours      \* bound on the counter

ASSUME LifetimeAssumption == MaxHours \in Nat

VARIABLES
    counter,       \* lifetime.counter
    flash,         \* the counter in flash, {} while there is no valid record
    phase          \* "running", "saving", or "closing" before a reset

lifetimeVars == <<counter, flash, phase>>

LifetimeInit == counter = 0 /\ flash = {} /\ phase = "saving"

\* the counter is saved once a day
FaultySaveHours == {n \in 0..MaxHours : n % 24 = 0 \/ n = 1}

(* The hours at which app_lifetimeCb saves.                                *)
SaveHours == {n \in 0..MaxHours : n % 6 = 0 \/ n = 1}

(* lifetime_save, up to the erased sector.                                 *)
Erased(after) == flash' = {} /\ phase' = after

(* app_lifetimeCb.                                                         *)
app_lifetimeCb ==
    /\ phase = "running" /\ counter < MaxHours
    /\ counter' = counter + 1
    /\ IF counter' \in SaveHours THEN Erased("saving") ELSE UNCHANGED <<flash, phase>>

(* Six clicks, or the end of an update over the air.                       *)
Close ==
    /\ phase = "running" /\ Erased("closing")
    /\ UNCHANGED counter

(* lifetime_save, the rest.                                                *)
Written ==
    /\ phase \in {"saving", "closing"} /\ flash = {}
    /\ flash' = {counter}
    /\ phase' = IF phase = "saving" THEN "running" ELSE phase
    /\ UNCHANGED counter

(* A reset and lifetime_restore: without a record the counter starts anew. *)
Boot ==
    /\ \/ flash = {} /\ counter' = 0 /\ phase' = "saving"
       \/ counter' \in flash /\ phase' = "running"
    /\ UNCHANGED flash

LifetimeNext == app_lifetimeCb \/ Close \/ Written \/ Boot

LifetimeSpec == LifetimeInit /\ [][LifetimeNext]_lifetimeVars

-----------------------------------------------------------------------------
(* Property *)

(* However often and whenever the monitor is reset, at most five hours are *)
(* forgotten, and all of them only if the reset comes between the erasure  *)
(* and the write.                                                          *)
LifetimeKept ==
    [][counter' < counter => counter - counter' <= 5 \/ flash = {}]_lifetimeVars
=============================================================================
