--------------------------- MODULE TrackLifecycle ---------------------------
(***************************************************************************)
(* What ITracker promises to its clients (the rules, which keep memory per *)
(* track id, and the user): an identity is given once, in increasing       *)
(* order, always denotes an object of one class, is shown without          *)
(* interruption from its confirmation on, and never comes back once it is  *)
(* gone - until everything is forgotten.                                   *)
(***************************************************************************)
EXTENDS Naturals

CONSTANT Classes

VARIABLES given,    \* the largest identity given so far
          subject,  \* the class of the object of every live identity
          shown     \* the identities the clients see

lifecycleVars == <<given, subject, shown>>

Live == DOMAIN subject

Init == /\ given = 0
        /\ subject = [id \in {} |-> 0]
        /\ shown = {}

\* New identities follow the given ones and are live.  Live ones stay of
\* their class or go; a shown one that stays is still shown.
Frame == /\ given' \in Nat
         /\ given <= given'
         /\ DOMAIN subject' \subseteq Live \cup (given + 1)..given'
         /\ (given + 1)..given' \subseteq DOMAIN subject'
         /\ \A id \in DOMAIN subject' : subject'[id] \in Classes
         /\ \A id \in Live \cap DOMAIN subject' : subject'[id] = subject[id]
         /\ shown \cap DOMAIN subject' \subseteq shown'
         /\ shown' \subseteq DOMAIN subject'

Forget == /\ given' = 0
          /\ subject' = [id \in {} |-> 0]
          /\ shown' = {}

Next == Frame \/ Forget

Spec == Init /\ [][Next]_lifecycleVars
==============================================================================
