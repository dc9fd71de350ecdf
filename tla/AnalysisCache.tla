--------------------------- MODULE AnalysisCache ---------------------------
(***************************************************************************)
(* RequiredAnalysisResults: what the pass knows of LLVM's analyses, one    *)
(* result of each kind with the function it was asked for                  *)
(* (analysis_results.cpp of the pass).                                     *)
(*                                                                         *)
(* A module pass shares one pass manager for functions.  Asking it for an  *)
(* analysis of a function runs all of them on that function, and forgets   *)
(* what they said of the one before: loops and trees are members of their  *)
(* passes, so that a pointer to them now shows the new function, but       *)
(* scalar evolution is a new object, and the old one is freed.             *)
(***************************************************************************)
EXTENDS Integers, Sequences

NoFunction == <<>>

Kinds == {"LI", "SE", "DT", "PDT"}

\* ran: the function the analyses ran on last; current: the function each
\* kind was asked for; alive: current["SE"] has not been freed; stale: the
\* kinds that gave answers about another function, or from freed memory.
NewResults ==
  [ran |-> NoFunction, current |-> [kind \in Kinds |-> NoFunction], alive |-> FALSE, stale |-> {}]

\* getAnalysis of the pass manager.
Run(results, f) == [results EXCEPT !.ran = f, !.alive = FALSE]

\* Always from the pass manager.
getAAResults(results, f) == Run(results, f)

\* Seeded fault: what was asked for once is not asked for again.
getAnalysis_Once(results, kind, f) ==
  IF results.current[kind] # NoFunction THEN results
  ELSE [Run(results, f) EXCEPT !.current[kind] = f, !.alive = kind = "SE"]

\* getLoopInfo, getSE, getDomTree and getPostDomTree.
getAnalysis(results, kind, f) ==
  IF results.current[kind] = f THEN results
  ELSE [Run(results, f) EXCEPT !.current[kind] = f, !.alive = kind = "SE"]

\* What is wrong with an answer about f.
WrongAnswer(results, kind, f) ==
  IF kind = "SE" THEN ~results.alive ELSE results.ran # f

(* A question about function q[2]: "AA" and the four kinds fetch the       *)
(* results before they are used; "SCEV" reads an expression that scalar    *)
(* evolution built.                                                        *)
AfterQuestion(results, q) ==
  CASE q[1] = "AA" -> getAAResults(results, q[2])
    [] q[1] = "SCEV" ->
         [results EXCEPT !.stale = IF results.alive THEN @ ELSE @ \cup {"SCEV"}]
    [] OTHER ->
         LET fetched == getAnalysis(results, q[1], q[2])
         IN  [fetched EXCEPT !.stale = IF WrongAnswer(fetched, q[1], q[2]) THEN @ \cup {q[1]} ELSE @]

AfterQuestions(results, questions) ==
  LET after[i \in 0 .. Len(questions)] ==
        IF i = 0 THEN results ELSE AfterQuestion(after[i - 1], questions[i])
  IN  after[Len(questions)]
=============================================================================
