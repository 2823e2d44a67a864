------------------------------ MODULE MC_Turns ------------------------------
(***************************************************************************)
(* What must end: the launch of an owned process, the observation of a     *)
(* child, a turn of the sharing server and a question on the screen, each  *)
(* under the fairness of its own scheduling. A behaviour is one            *)
(* component's; the others stay in their first state.                      *)
(***************************************************************************)
EXTENDS Processes, Sharing, DecisionCard

VARIABLE part     \* the component this behaviour is of

\* The components this behaviour is not of stay in their first state.
OthersStay ==
    /\ part # "launch" => UNCHANGED ownedVars
    /\ part # "observation" => UNCHANGED observeVars
    /\ part # "sharing" => UNCHANGED sharingVars
    /\ part # "card" => UNCHANGED cardVars

SumInit ==
    /\ part \in {"launch", "observation", "sharing", "card"}
    /\ part # "launch" => OwnedInit /\ parent.pidfd
    /\ part # "observation" => ObserveInit /\ kind = "phase"
    /\ part # "sharing" => SharingInit
    /\ part # "card" => CardInit /\ inLoop
    /\ part = "launch" => OwnedInit
    /\ part = "observation" => ObserveInit
    /\ part = "sharing" => SharingInit
    /\ part = "card" => CardInit

SumNext ==
    \/ part = "launch" /\ OwnedNext /\ OthersStay /\ UNCHANGED part
    \/ part = "observation" /\ ObserveNext /\ OthersStay /\ UNCHANGED part
    \/ part = "sharing" /\ SharingNext /\ OthersStay /\ UNCHANGED part
    \/ part = "card" /\ CardNext /\ OthersStay /\ UNCHANGED part

sumVars == <<part, ownedVars, observeVars, sharingVars, cardVars>>

\* Each component's own fairness, in its own behaviours.
SumFairness ==
    /\ WF_ownedVars(part = "launch" /\ WaiterFails)
    /\ WF_ownedVars(part = "launch" /\ WaiterReaps)
    /\ WF_ownedVars(part = "launch" /\ InitNext)
    /\ WF_ownedVars(part = "launch" /\ ParentRead)
    /\ WF_ownedVars(part = "launch" /\ ParentAct)
    /\ WF_ownedVars(part = "launch" /\ Tick)
    /\ WF_ownedVars(part = "launch" /\ DeathSignal)
    /\ WF_ownedVars(part = "launch" /\ NamespaceDies)
    /\ WF_observeVars(part = "observation" /\ ObserverStep)
    /\ WF_observeVars(part = "observation" /\ DeadlineTick)
    /\ WF_sharingVars(part = "sharing" /\ TurnStep)
    /\ WF_sharingVars(part = "sharing" /\ RequestStep)
    /\ WF_cardVars(part = "card" /\ LoopStep)
    /\ WF_cardVars(part = "card" /\ SendThreadStep)

SumSpec == SumInit /\ [][SumNext]_sumVars /\ SumFairness

\* What waits on a process, a peer or a person ends: a launch returns and leaves nothing
\* behind, an observation ends, a request is served and the window of a send closes.
EverythingEnds ==
    /\ part = "launch" => LaunchEnds
    /\ NothingSurvives
    /\ part = "observation" => ObservationEnds
    /\ RequestsAreServed
    /\ WindowCloses

=============================================================================
