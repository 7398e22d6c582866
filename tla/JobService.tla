------------------------------ MODULE JobService ------------------------------
(* What the logic layer promises to the event loop: whatever was submitted is  *)
(* done once, in any order, and after the service was told to stop it ends     *)
(* only with everything done.  (servercore::LogicProcessor, v3/logic/logic.cpp) *)
EXTENDS Naturals

CONSTANT MaxJobs

VARIABLES
  todo,  \* jobs submitted and not done
  done,  \* jobs done
  state  \* "open", "stopping", "ended"

vars == <<todo, done, state>>

Init == todo = {} /\ done = {} /\ state = "open"

Submit(j) == /\ state = "open"
             /\ j \notin todo \cup done
             /\ todo' = todo \cup {j}
             /\ UNCHANGED <<done, state>>

Do(j) == /\ state # "ended"
         /\ j \in todo
         /\ todo' = todo \ {j}
         /\ done' = done \cup {j}
         /\ UNCHANGED state

Stop == state = "open" /\ state' = "stopping" /\ UNCHANGED <<todo, done>>

End == state = "stopping" /\ todo = {} /\ state' = "ended" /\ UNCHANGED <<todo, done>>

Next == Stop \/ End \/ \E j \in 1..MaxJobs : Submit(j) \/ Do(j)

SafeSpec == Init /\ [][Next]_vars

Spec == /\ SafeSpec
        /\ WF_vars(End)
        /\ \A j \in 1..MaxJobs : WF_vars(Do(j))
==============================================================================
