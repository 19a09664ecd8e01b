------------------------------ MODULE StartLimiter ------------------------------
(***************************************************************************)
(* What the SEC dispatch gate promises the SEC: requests of all processes  *)
(* start at least Spacing apart, a cooldown that was asked for is never    *)
(* shortened, and once it has been in force for as long as a reservation   *)
(* may be used (Life), nothing starts until it is over.                    *)
(***************************************************************************)
EXTENDS Integers

CONSTANTS Spacing, Life, Cooldowns

VARIABLES
    since,     \* time since the last start, as far as Spacing
    cooldown,  \* what is left of the cooldown
    age        \* how long it has been in force, as far as Life

limiterVars == <<since, cooldown, age>>

Least(a, b) == IF a < b THEN a ELSE b
Most(a, b) == IF a > b THEN a ELSE b

Init == since = Spacing /\ cooldown = 0 /\ age = 0

Start ==
    /\ since = Spacing
    /\ cooldown = 0 \/ age < Life
    /\ since' = 0
    /\ UNCHANGED <<cooldown, age>>

Cool ==
    /\ \E c \in Cooldowns : cooldown' = Most(cooldown, c)
    /\ UNCHANGED <<since, age>>

Tick ==
    /\ since' = Least(since + 1, Spacing)
    /\ cooldown' = Most(cooldown - 1, 0)
    /\ age' = IF cooldown <= 1 THEN 0 ELSE Least(age + 1, Life)

Next == Start \/ Cool \/ Tick

Spec == Init /\ [][Next]_limiterVars
=============================================================================
