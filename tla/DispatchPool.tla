---------------------------- MODULE DispatchPool ----------------------------
(***************************************************************************)
(* What the scheduler promises about its nodes, without queue, tree, units *)
(* or tasks: a node is queued, then active in one of the slots, may park   *)
(* and be queued again any number of times, and ends once.  Nodes may end  *)
(* many at a time, but they start one at a time, each in a step of its own.*)
(***************************************************************************)
EXTENDS Integers, FiniteSets

CONSTANTS Node, Slots

VARIABLE phase

Phases == {"absent", "queued", "active", "parked", "over"}

Moves ==
    { <<"absent", "queued">>, <<"queued", "active">>, <<"active", "parked">>,
      <<"parked", "queued">>, <<"queued", "over">>, <<"active", "over">>,
      <<"parked", "over">> }

Active(f) == { n \in Node : f[n] = "active" }

Init == phase = [n \in Node |-> "absent"]

Start(n) ==
    /\ phase[n] = "queued"
    /\ Cardinality(Active(phase)) < Slots
    /\ phase' = [phase EXCEPT ![n] = "active"]

Shift ==
    /\ phase' \in [Node -> Phases]
    /\ \A n \in Node : /\ phase'[n] # phase[n] => <<phase[n], phase'[n]>> \in Moves
                       /\ phase'[n] = "active" => phase[n] = "active"

Next == Shift \/ \E n \in Node : Start(n)

Spec == Init /\ [][Next]_phase
=============================================================================
