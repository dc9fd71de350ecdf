-------------------------- MODULE InstructionScan --------------------------
(***************************************************************************)
(* get_first_instruction and get_last_instruction of a list, loop by loop  *)
(* (helper.h of the pass).                                                 *)
(***************************************************************************)
EXTENDS InstructionOrder

CONSTANT Inputs            \* calls: a graph, a direction and a list

ASSUME OrderAssumption ==
  \A c \in Inputs :
    /\ c.graph.entry \in Nodes(c.graph) /\ c.graph.exit \in Nodes(c.graph)
    /\ c.graph.succ \in [Nodes(c.graph) -> SUBSET Nodes(c.graph)]
    /\ nullptr \notin Nodes(c.graph) /\ Proper(c.graph)
    /\ c.direction \in {"first", "last"}
    /\ c.inst_list \in Seq(Nodes(c.graph))

VARIABLES call, analysis,      \* the arguments and the function's trees
          at,                  \* "scan", "recheck" or "return"
          it,                  \* index of the element the loop is at
          current_instruction, is_viable

\* A constant, which TLC evaluates once.
AnalysisOf == [g \in {c.graph : c \in Inputs} |-> Analysis(g)]

scanVars == <<call, analysis, at, it, current_instruction, is_viable>>

inst_list == call.inst_list
direction == call.direction

ScanInit ==
  /\ call \in Inputs
  /\ analysis = AnalysisOf[call.graph]
  /\ it = 2 /\ is_viable = TRUE
  /\ IF inst_list = <<>>
     THEN at = "return" /\ current_instruction = nullptr
     ELSE at = "scan" /\ current_instruction = inst_list[1]

Scan ==
  /\ at = "scan" /\ it <= Len(inst_list)
  /\ is_viable' = (is_viable
       /\ get_first_of_two(analysis, current_instruction, inst_list[it]) # nullptr)
  /\ current_instruction' =
       IF Replaces(analysis, direction, current_instruction, inst_list[it])
       THEN inst_list[it] ELSE current_instruction
  /\ it' = it + 1
  /\ UNCHANGED <<call, analysis, at>>

\* Seeded fault: the second loop goes on where the first one ended.
ScanEnds_NoReset ==
  /\ at = "scan" /\ it > Len(inst_list)
  /\ at' = IF is_viable THEN "return" ELSE "recheck"
  /\ UNCHANGED <<call, analysis, it, current_instruction, is_viable>>

\* Seeded fault: the second loop counts from 0.
ScanEnds_FromZero ==
  /\ at = "scan" /\ it > Len(inst_list)
  /\ at' = IF is_viable THEN "return" ELSE "recheck"
  /\ it' = 0
  /\ UNCHANGED <<call, analysis, current_instruction, is_viable>>

ScanEnds ==
  /\ at = "scan" /\ it > Len(inst_list)
  /\ at' = IF is_viable THEN "return" ELSE "recheck"
  /\ it' = 1
  /\ UNCHANGED <<call, analysis, current_instruction, is_viable>>

Recheck ==
  /\ at = "recheck" /\ it <= Len(inst_list)
  /\ IF FailsRecheck(analysis, direction, current_instruction, inst_list[it])
     THEN at' = "return" /\ current_instruction' = nullptr /\ UNCHANGED it
     ELSE it' = it + 1 /\ UNCHANGED <<at, current_instruction>>
  /\ UNCHANGED <<call, analysis, is_viable>>

RecheckEnds ==
  /\ at = "recheck" /\ it > Len(inst_list)
  /\ at' = "return"
  /\ UNCHANGED <<call, analysis, it, current_instruction, is_viable>>

ScanReturned == at = "return" /\ UNCHANGED scanVars

ScanNext == Scan \/ ScanEnds \/ Recheck \/ RecheckEnds \/ ScanReturned

ScanSpec == ScanInit /\ [][ScanNext]_scanVars
-----------------------------------------------------------------------------
OrderTypeOK ==
  /\ call \in Inputs /\ analysis = AnalysisOf[call.graph]
  /\ at \in {"scan", "recheck", "return"}
  /\ it \in 1 .. Len(inst_list) + 2
  /\ current_instruction \in Nodes(call.graph) \cup {nullptr}
  /\ is_viable \in BOOLEAN

\* a can be executed and b after it.
Before(a, b) == Follows(call.graph, a, b)

(* In a function without loops an instruction that is proven before another *)
(* one is never executed after it, and the answer does not depend on which *)
(* of the two is asked about first ("in every path if A and B are present  *)
(* A must come before B").                                                 *)
ProvenOrderHolds ==
  Acyclic(call.graph) =>
    \A a, b \in Nodes(call.graph) :
      get_first_of_two(analysis, a, b) = a /\ a # b =>
        ~Before(b, a) /\ get_first_of_two(analysis, b, a) = a

(* In a function without loops, as long as every comparison found an order *)
(* no element looked at so far can be executed before the candidate for    *)
(* the first one (after the candidate for the last one), although most of  *)
(* them were compared with other candidates and the order is not known to  *)
(* be transitive.                                                          *)
ViableCandidateIsExtreme ==
  Acyclic(call.graph) /\ is_viable /\ at # "recheck" =>
    \A k \in DOMAIN inst_list : k < it \/ at = "return" =>
      IF direction = "first" THEN ~Before(inst_list[k], current_instruction)
                             ELSE ~Before(current_instruction, inst_list[k])

(* The loops compute what the callers are modelled with.                   *)
ScanMeetsExtremeOf ==
  at = "return" => current_instruction = ExtremeOf(analysis, direction, inst_list)
=============================================================================
