----------------------------- MODULE Activations -----------------------------
(***************************************************************************)
(* What method calls promise, with no stack, registers or addresses: an    *)
(* activation has fields of its own, the first of which are the arguments  *)
(* it was called with, and nobody else changes them; when it returns, the  *)
(* caller goes on with its fields as they were, but for the one that the   *)
(* result is stored in.                                                    *)
(***************************************************************************)
EXTENDS Integers, Sequences

VARIABLES
  activations,   \* the fields of each activation, the running one last
  phase,         \* "entering", "running", "returned" or "ended"
  passed,        \* the arguments of the call being made
  answer         \* where a returning method's result goes, and the result

vars == <<activations, phase, passed, answer>>

Depth == Len(activations)
Running == activations[Depth]

\* The runtime calls main.
Init == activations = <<>> /\ phase = "entering" /\ passed = <<>>

Call ==
  /\ phase = "running" /\ phase' = "entering"
  /\ UNCHANGED activations

\* Fields that are no arguments may hold anything at first.
Enter ==
  /\ phase = "entering" /\ phase' = "running"
  /\ Len(activations') = Depth + 1
  /\ SubSeq(activations', 1, Depth) = activations
  /\ SubSeq(activations'[Depth + 1], 1, Len(passed)) = passed

Assign ==
  /\ phase = "running" /\ phase' = "running"
  /\ Len(activations') = Depth
  /\ \E f \in 1 .. Len(Running) :
       activations' = [activations EXCEPT ![Depth][f] = activations'[Depth][f]]

Return ==
  /\ phase = "running" /\ phase' = "returned"
  /\ Depth > 1
  /\ activations' = [SubSeq(activations, 1, Depth - 1) EXCEPT
                       ![Depth - 1][answer'.destination] = answer'.result]

Resume ==
  /\ phase = "returned" /\ phase' = "running"
  /\ UNCHANGED activations

ReturnFromMain ==
  /\ phase = "running" /\ phase' = "ended"
  /\ Depth = 1 /\ activations' = <<>>

Next == Call \/ Enter \/ Assign \/ Return \/ Resume \/ ReturnFromMain

Spec == Init /\ [][Next]_vars
=============================================================================
