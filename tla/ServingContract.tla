--------------------------- MODULE ServingContract ---------------------------
(***************************************************************************)
(* What the process promises of the resources of its profiles: it serves   *)
(* with all of them or not at all, opens none again, and when it is over   *)
(* by its own doing it has closed every one it opened.                     *)
(***************************************************************************)
CONSTANT Resources

VARIABLES stage, open

vars == <<stage, open>>

Init == stage = "starting" /\ open = {}

Open(r) == /\ stage = "starting" /\ r \notin open
           /\ open' = open \cup {r}
           /\ UNCHANGED stage

Serve == /\ stage = "starting" /\ open = Resources
         /\ stage' = "serving"
         /\ UNCHANGED open

\* The start fails, or the serving ends.
End == /\ stage \in {"starting", "serving"}
       /\ stage' = "ending"
       /\ UNCHANGED open

Close(r) == /\ stage = "ending" /\ r \in open
            /\ open' = open \ {r}
            /\ UNCHANGED stage

Finish == /\ stage = "ending" /\ open = {}
          /\ stage' = "over"
          /\ UNCHANGED open

\* The process is killed: the operating system takes everything back.
Die == /\ stage \in {"starting", "ending"}
       /\ stage' = "over"
       /\ open' = {}

Next == \/ Serve \/ End \/ Finish \/ Die
        \/ \E r \in Resources : Open(r) \/ Close(r)

Spec == Init /\ [][Next]_vars
=============================================================================
