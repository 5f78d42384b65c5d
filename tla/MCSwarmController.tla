-------------------------- MODULE MCSwarmController --------------------------
(***************************************************************************)
(* Small instances of SwarmController.                                     *)
(***************************************************************************)
EXTENDS SwarmController, TLC

CONSTANTS r1, r2, r3, r4, b1

Stages(agents, maxConcurrent) == [agents |-> agents, maxConcurrent |-> maxConcurrent]
TwoWaves == <<Stages(2, 1), Stages(1, 1)>>
OneAgent == <<Stages(1, 1)>>

SameBase == [r \in Requests |-> "wf"]

(* Two plans that may ask for the same name, the first with a pool of one  *)
(* and a second wave.                                                      *)
SmallPlans == [r \in Requests |-> CASE r = r1 -> TwoWaves [] r = r2 -> OneAgent
                                    [] OTHER -> <<>>]

(* A stop and a resume.                                                    *)
Verbs == [r \in Requests |-> CASE r = r3 -> "stop" [] r = r4 -> "resume"
                               [] OTHER -> "submit"]

(* What they name: the first workflow, or, for the stop, the first sandbox *)
StopsWorkflow == [r \in Requests |-> <<"wf", 1>>]
StopsAgent    == [r \in Requests |-> IF r = r3 THEN b1 ELSE <<"wf", 1>>]
=============================================================================
