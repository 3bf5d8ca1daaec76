--------------------------- MODULE ResponseClock ---------------------------
(***************************************************************************)
(* The response-time promise of README requirement 4: a stopwatch started  *)
(* when the ticket is created, which runs while the ticket waits for the   *)
(* desk and stands still while it waits for the customer or is done.       *)
(***************************************************************************)
EXTENDS Integers

VARIABLES
    clock,      \* wall-clock time since the ticket was created
    elapsed,    \* what the stopwatch reads
    running

Init ==
    /\ clock = 0
    /\ elapsed = 0
    /\ running = TRUE

Pass ==
    /\ clock' \in Nat
    /\ clock' > clock
    /\ elapsed' = IF running THEN elapsed + (clock' - clock) ELSE elapsed
    /\ UNCHANGED running

StartOrStop ==
    /\ running' = ~ running
    /\ UNCHANGED <<clock, elapsed>>

Next == Pass \/ StartOrStop

Spec == Init /\ [][Next]_<<clock, elapsed, running>>
=============================================================================
