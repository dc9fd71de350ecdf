-------------------------- MODULE InstructionOrder --------------------------
(***************************************************************************)
(* Which of two instructions of a function comes first, and the first and  *)
(* the last instruction of a list (helper.h of the pass): the order every  *)
(* decision of the pass rests on.  an is the Analysis of the function.     *)
(***************************************************************************)
EXTENDS FlowGraph

-----------------------------------------------------------------------------
(* Two instructions.                                                       *)

\* Seeded fault: the post-dominator tree is asked the other way round.
get_first_of_two_Swapped(an, a, b) ==
  IF a \in an.pdomtree[b] \/ b \in an.domtree[a] THEN a
  ELSE IF a \in an.pdomtree[b] \/ a \in an.domtree[b] THEN b
  ELSE nullptr

\* get_first_instruction(A, B)
get_first_of_two(an, a, b) ==
  IF a \in an.pdomtree[b] \/ b \in an.domtree[a] THEN a
  ELSE IF b \in an.pdomtree[a] \/ a \in an.domtree[b] THEN b
  ELSE nullptr

\* The elements of a list that are in S.
Only(list, S) ==
  LET only[i \in 0 .. Len(list)] ==
        IF i = 0 THEN <<>>
        ELSE IF list[i] \in S THEN Append(only[i - 1], list[i]) ELSE only[i - 1]
  IN  only[Len(list)]

-----------------------------------------------------------------------------
(* A list of instructions: get_first_instruction and get_last_instruction  *)
(* differ in which of two instructions they keep, and in the test of the   *)
(* second loop.  dir is "first" or "last".                                 *)

\* Seeded fault: the last one is looked for like the first one.
Replaces_AlwaysFirst(an, dir, c, x) ==
  LET r == get_first_of_two(an, c, x)
  IN  r # nullptr /\ r = x

\* Instruction x replaces the candidate c.
Replaces(an, dir, c, x) ==
  LET r == get_first_of_two(an, c, x)
  IN  /\ r # nullptr
      /\ r = IF dir = "first" THEN x ELSE c

\* x makes the second loop give up the candidate c.
FailsRecheck(an, dir, c, x) ==
  x # c /\ get_first_of_two(an, c, x) = IF dir = "first" THEN c ELSE x

\* The candidate after each element, as the first loop goes through the list.
Candidates(an, dir, list) ==
  LET c[k \in 1 .. Len(list)] ==
        IF k = 1 THEN list[1]
        ELSE IF Replaces(an, dir, c[k - 1], list[k]) THEN list[k] ELSE c[k - 1]
  IN  c

(* What the two functions return, for the modules that call them.          *)
ExtremeOf(an, dir, list) ==
  LET c      == Candidates(an, dir, list)
      viable == \A k \in 2 .. Len(list) : get_first_of_two(an, c[k - 1], list[k]) # nullptr
      found  == c[Len(list)]
  IN  IF list = <<>> THEN nullptr
      ELSE IF ~viable /\ \E k \in DOMAIN list : FailsRecheck(an, dir, found, list[k])
      THEN nullptr
      ELSE found

get_first_instruction(an, list) == ExtremeOf(an, "first", list)
get_last_instruction(an, list)  == ExtremeOf(an, "last", list)
=============================================================================
