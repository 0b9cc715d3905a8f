---------------------------- MODULE FileOutcome ----------------------------
(***************************************************************************)
(* What the file queue promises of an uploaded file: once it was handed to *)
(* the queue it stays pending until it is decided, ready or failed, and    *)
(* then keeps that outcome.  A file may be decided without ever being      *)
(* queued, and its owner may delete it at any time.                        *)
(*                                                                         *)
(* The promise ends when someone is overtaken: a process so slow that its  *)
(* lease or its embedding timed out while it still worked, or an uploader  *)
(* that took a queued message for a refused one.  From then on a file may  *)
(* be decided again, and a pending one need not be decided any more.       *)
(***************************************************************************)
CONSTANT File

VARIABLES
    outcome,        \* of each file
    trusted         \* nobody was overtaken so far

vars == <<outcome, trusted>>

Decided == {"ready", "failed"}

TypeOK ==
    /\ outcome \in [File -> {"none", "pending", "deleted"} \cup Decided]
    /\ trusted \in BOOLEAN

Init ==
    /\ outcome = [f \in File |-> "none"]
    /\ trusted = TRUE

Becomes(f, o) == outcome' = [outcome EXCEPT ![f] = o]

Accept(f) ==
    /\ outcome[f] = "none"
    /\ Becomes(f, "pending")
    /\ UNCHANGED trusted

Decide(f) ==
    /\ outcome[f] \in {"none", "pending"}
    /\ \E o \in Decided : Becomes(f, o)
    /\ UNCHANGED trusted

Delete(f) ==
    /\ outcome[f] # "deleted"
    /\ Becomes(f, "deleted")
    /\ UNCHANGED trusted

\* Somebody is overtaken, perhaps as it decides a file.
Overtake ==
    /\ trusted' = FALSE
    /\ \/ UNCHANGED outcome
       \/ \E f \in File, o \in Decided : outcome[f] = "pending" /\ Becomes(f, o)

DecideAgain(f) ==
    /\ ~trusted
    /\ outcome[f] \in Decided
    /\ \E o \in {"none", "pending"} \cup Decided : Becomes(f, o)
    /\ UNCHANGED trusted

Next ==
    \/ Overtake
    \/ \E f \in File : Accept(f) \/ Decide(f) \/ Delete(f) \/ DecideAgain(f)

Safe == Init /\ [][Next]_vars

Fair == \A f \in File : WF_vars(trusted /\ outcome[f] = "pending" /\ Decide(f))

Spec == Safe /\ Fair

=============================================================================
