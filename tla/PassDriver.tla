----------------------------- MODULE PassDriver -----------------------------
(***************************************************************************)
(* One run of the pass over a module: the sends in the order they are      *)
(* handled, what handle_fork_call asks of each parallel region, how the    *)
(* region and its fork call are rewritten, once for each send, and the     *)
(* analyses that are asked on the way (mpi_communication_partition_pass.cpp,*)
(* sending_partitioning.cpp, insert_changes.cpp, Microtask.cpp).           *)
(*                                                                         *)
(* m.sends are the calls of send functions in the order of LLVM's lists:   *)
(* the function called, the one the call is in, the region that modified   *)
(* the buffer last, nullptr when none did, and the analyses that are asked *)
(* to find that out.  m.regions are the parallel regions: the function     *)
(* that forks them; readonly; parallel_for, when there is a pair of        *)
(* __kmpc_for_static_init_4 and _fini; calls with a pointer, by whether it *)
(* may alias the buffer; stores to the buffer, by whether they come after  *)
(* the loop, and by address; whether addresses are affine; and the         *)
(* questions asked while the values of its addresses are built in the      *)
(* caller, in their order: "SCEV" when an expression is read, the trees of *)
(* the caller when the value of a firstprivate variable is looked for, or  *)
(* the last of several operands.                                           *)
(***************************************************************************)
EXTENDS AnalysisCache

nullptr == 0

CONSTANT Modules           \* families of modules

_send_functions ==
  <<"MPI_Send", "MPI_Bsend", "MPI_Ssend", "MPI_Rsend", "MPI_Isend", "MPI_Ibsend",
    "MPI_Irsend", "MPI_Issend", "MPI_Sendrecv">>

(* The modules the pass is given.  A region was found by looking at the    *)
(* uses of the buffer, and the first thing that is asked of a use is       *)
(* whether it is in a loop.                                                *)
Function == {0} \X Nat

Sent(n) ==
  [name : {_send_functions[i] : i \in DOMAIN _send_functions}, function : Function,
   region : 0 .. n, asked : Seq({"LI", "DT", "PDT"})]

Region ==
  [function : Function, readonly : BOOLEAN, parallel_for : BOOLEAN,
   calls : Seq({"other", "aliasing"}), affine : BOOLEAN, asked : Seq({"SCEV", "PDT", "DT"}),
   stores : Seq([after_loop : BOOLEAN, base : STRING, offset : Int])]

IsModule(x) ==
  /\ x.regions \in Seq(Region)
  /\ x.sends \in Seq(Sent(Len(x.regions)))
  /\ \A i \in DOMAIN x.sends :
       x.sends[i].region # nullptr
         => \E k \in DOMAIN x.sends[i].asked : x.sends[i].asked[k] = "LI"

ASSUME ModulesAssumption == \A i \in DOMAIN Modules : \A x \in Modules[i] : IsModule(x)

VARIABLES m,
          handled,         \* how many of the sends have been handled
          step,            \* "send", "fork", "insert" or "aborted"
          results,         \* what the analyses say
          forked,          \* for each region: the function that is forked,
                           \* with the requests it signs off, and the fork
                           \* call, with the requests it passes
          decision         \* for each send handled: what became of it

vars == <<m, handled, step, results, forked, decision>>

-----------------------------------------------------------------------------
(* The sends.                                                              *)

CallsOf(function) ==
  LET calls[a \in 0 .. Len(m.sends)] ==
        IF a = 0 THEN <<>>
        ELSE IF m.sends[a].name = function THEN Append(calls[a - 1], a) ELSE calls[a - 1]
  IN  calls[Len(m.sends)]

\* runOnModule: by function, and collected before the first one is handled.
senders ==
  LET from[i \in 0 .. Len(_send_functions)] ==
        IF i = 0 THEN <<>> ELSE from[i - 1] \o CallsOf(_send_functions[i])
  IN  from[Len(_send_functions)]

s == senders[handled + 1]
send == m.sends[s]
r == send.region
region == m.regions[r]

\* The function that is forked now, a new one for each send; those of the
\* source are <<0, 0>>, main, and others.
parallel_function == <<r, Len(forked[r].args)>>

-----------------------------------------------------------------------------
(* The region: handle_fork_call.                                           *)

\* Seeded fault: the calls the pass itself has inserted count.
pointer_calls_WithSignoffs ==
  region.calls \o [i \in DOMAIN forked[r].signoffs |-> "aliasing"]

\* Calls of functions other than the runtime's and the pass's own.
pointer_calls == region.calls

AliasingCall == \E i \in DOMAIN pointer_calls : pointer_calls[i] = "aliasing"

\* The calls that are looked at: none behind the first that aliases.
CallsAsked ==
  {i \in DOMAIN pointer_calls : \A j \in 1 .. i - 1 : pointer_calls[j] # "aliasing"}

StoreAfterLoop == \E i \in DOMAIN region.stores : region.stores[i].after_loop

\* Addresses are compared when they have the same base.
isKnownLE(a, b) == a.base = b.base /\ a.offset <= b.offset

\* Seeded fault: when two addresses cannot be compared, the loop goes on.
AccessRange_GoesOn(stores) ==
  LET range[i \in 1 .. Len(stores)] ==
        IF i = 1 THEN [known |-> TRUE, min |-> stores[1], max |-> stores[1]]
        ELSE [range[i - 1] EXCEPT !.min = IF isKnownLE(stores[i], @) THEN stores[i] ELSE @]
  IN  range[Len(stores)]

(* The smallest and the greatest address, if each store is known to be     *)
(* both: the greatest one is never changed.                                *)
AccessRange(stores) ==
  LET range[i \in 1 .. Len(stores)] ==
        IF i = 1 THEN [known |-> TRUE, min |-> stores[1], max |-> stores[1]]
        ELSE [range[i - 1] EXCEPT
                !.known = @ /\ isKnownLE(stores[i], range[i - 1].min)
                            /\ isKnownLE(range[i - 1].max, stores[i]),
                !.min = stores[i]]
  IN  range[Len(stores)]

Decision ==
  CASE region.readonly          -> "readonly"
    [] ~region.parallel_for     -> "no_loop"
    [] AliasingCall             -> "call"
    [] StoreAfterLoop           -> "store_after_loop"
    [] region.stores = <<>>     -> "aborted"
    [] ~AccessRange(region.stores).known -> "no_range"
    [] ~region.affine           -> "not_affine"
    [] OTHER                    -> "partitioned"

Looked == {"store_after_loop", "aborted", "no_range", "not_affine", "partitioned"}
Compared == {"no_range", "not_affine", "partitioned"}

QuestionsAboutRegion ==
  LET ask(kinds) == [i \in DOMAIN kinds |-> <<kinds[i], parallel_function>>]
  IN  IF Decision = "readonly" THEN <<>>
      ELSE <<<<"AA", region.function>>>>
           \o (IF Decision = "no_loop" THEN <<>> ELSE ask([i \in CallsAsked |-> "AA"]))
           \o (IF Decision \in Looked THEN ask(<<"LI", "DT", "PDT">>) ELSE <<>>)
           \o (IF Decision \in Compared THEN ask(<<"SE", "SCEV", "LI">>) ELSE <<>>)

-----------------------------------------------------------------------------
(* insert_partitioning.                                                    *)

\* Seeded fault: the function of the source is duplicated, not the one forked.
new_parallel_function_OfSource == [params |-> 1, signoffs |-> <<1>>]

\* A copy with one more parameter, which it signs off as well.
new_parallel_function ==
  [params   |-> Len(forked[r].args) + 1,
   signoffs |-> Append(forked[r].signoffs, Len(forked[r].args) + 1)]

\* Seeded fault: the analyses of the caller are fetched first.
QuestionsOfInsertion_CallerFirst ==
  <<<<"PDT", region.function>>, <<"SE", parallel_function>>, <<"SCEV", parallel_function>>,
    <<"LI", region.function>>, <<"PDT", region.function>>, <<"DT", region.function>>>>

\* While the values of the addresses are built, an expression is one of the
\* region, and a tree is one of the caller.
QuestionsAboutValues ==
  [i \in DOMAIN region.asked |->
     <<region.asked[i], IF region.asked[i] = "SCEV" THEN parallel_function ELSE region.function>>]

QuestionsOfInsertion ==
  <<<<"SE", parallel_function>>, <<"SCEV", parallel_function>>>>
  \o QuestionsAboutValues
  \o <<<<"LI", region.function>>, <<"PDT", region.function>>, <<"DT", region.function>>>>

-----------------------------------------------------------------------------
Init ==
  /\ \E i \in DOMAIN Modules : m \in Modules[i]
  /\ handled = 0 /\ step = "send"
  /\ results = NewResults
  /\ forked = [q \in DOMAIN m.regions |-> [signoffs |-> <<>>, args |-> <<>>]]
  /\ decision = <<>>

Stale(kinds) == results'.stale \cap kinds # {}

Decided(d) == handled' = handled + 1 /\ decision' = Append(decision, [send |-> s, is |-> d])

\* Only two of the send functions are expected.
UnexpectedSend ==
  /\ step = "send" /\ handled < Len(senders) /\ send.name \notin {"MPI_Send", "MPI_Isend"}
  /\ step' = "aborted"
  /\ UNCHANGED <<m, handled, results, forked, decision>>

\* handle_modification_location changes nothing.  Where an answer is about
\* another function, either may be found.
FindModification(found) ==
  /\ step = "send" /\ handled < Len(senders) /\ send.name \in {"MPI_Send", "MPI_Isend"}
  /\ results' = AfterQuestions(results, [i \in DOMAIN send.asked |-> <<send.asked[i], send.function>>])
  /\ found = r \/ (found = nullptr /\ Stale({"LI", "DT", "PDT"}))
  /\ IF found = nullptr THEN Decided("no_region") /\ step' = "send"
     ELSE step' = "fork" /\ UNCHANGED <<handled, decision>>
  /\ UNCHANGED <<m, forked>>

HandleForkCall ==
  /\ step = "fork"
  /\ results' = AfterQuestions(results, QuestionsAboutRegion)
  /\ CASE Decision = "partitioned" -> step' = "insert" /\ UNCHANGED <<handled, decision>>
       [] Decision = "aborted"     -> step' = "aborted" /\ UNCHANGED <<handled, decision>>
       [] OTHER                    -> step' = "send" /\ Decided(Decision)
  /\ UNCHANGED <<m, forked>>

InsertPartitioning ==
  /\ step = "insert"
  /\ results' = AfterQuestions(results, QuestionsOfInsertion)
  /\ forked' = [forked EXCEPT ![r] = [signoffs |-> new_parallel_function.signoffs,
                                      args |-> Append(forked[r].args, s)]]
  /\ Decided("partitioned") /\ step' = "send"
  /\ UNCHANGED m

\* An answer from freed memory may be one that the pass cannot use.
ReadFreedMemory ==
  /\ step \in {"fork", "insert"}
  /\ results' = AfterQuestions(results,
                  IF step = "fork" THEN QuestionsAboutRegion ELSE QuestionsOfInsertion)
  /\ Stale({"SE", "SCEV"})
  /\ step' = "aborted"
  /\ UNCHANGED <<m, handled, forked, decision>>

Returned == (step = "aborted" \/ (step = "send" /\ handled = Len(senders))) /\ UNCHANGED vars

Next ==
  \/ UnexpectedSend
  \/ \E found \in {nullptr} \cup DOMAIN m.regions : FindModification(found)
  \/ HandleForkCall
  \/ InsertPartitioning
  \/ ReadFreedMemory

Spec == Init /\ [][Next \/ Returned]_vars

-----------------------------------------------------------------------------
(* What is promised.                                                       *)

Became(d) == {decision[i].send : i \in {j \in DOMAIN decision : decision[j].is = d}}

Done == step = "send" /\ handled = Len(senders)

InOneFunction ==
  /\ \A a, b \in DOMAIN m.sends : m.sends[a].function = m.sends[b].function
  /\ \A a \in DOMAIN m.sends :
       m.sends[a].region # nullptr => m.regions[m.sends[a].region].function = m.sends[a].function

(* An answer about loops and dominance is about the function it was asked  *)
(* of, as long as all sends and the regions that fill their buffers are in *)
(* one function, and no region was given up because of a call: alias       *)
(* analysis is asked of the region last then.                              *)
TreesAreCurrent ==
  Became("call") = {} /\ InOneFunction => results.stale \cap {"LI", "DT", "PDT"} = {}

(* Scalar evolution is not used after the pass manager freed it, except in *)
(* two cases: two sends look at the same region in vain, or trees of the   *)
(* caller are asked for, to find the value of a firstprivate variable or   *)
(* the last of several operands, before the last expression is read.       *)
LookedAtAgain(q) ==
  /\ \E a \in Became("no_range") \cup Became("not_affine") : m.sends[a].region = q
  /\ \E a, b \in DOMAIN m.sends : a # b /\ m.sends[a].region = q /\ m.sends[b].region = q

ReadsExpressionsFirst(q) ==
  LET asked == m.regions[q].asked
  IN  \A i, j \in DOMAIN asked : i < j /\ asked[j] = "SCEV" => asked[i] = "SCEV"

ScevsAreAlive ==
  (\A q \in DOMAIN m.regions : ~LookedAtAgain(q) /\ ReadsExpressionsFirst(q))
    => results.stale \cap {"SE", "SCEV"} = {}

(* The addresses a partitioned send is computed from bound those of all    *)
(* stores to the buffer, although the comparison never raises the greatest.*)
RangeCoversStores ==
  \A a \in Became("partitioned") :
    LET stores == m.regions[m.sends[a].region].stores
        range == AccessRange(stores)
    IN  \A i \in DOMAIN stores : isKnownLE(range.min, stores[i]) /\ isKnownLE(stores[i], range.max)

(* What becomes of a send does not depend on the sends handled before it,  *)
(* which have rewritten its region and inserted calls there.               *)
PartitionedAlone(q) ==
  /\ q.parallel_for /\ ~q.readonly
  /\ \A i \in DOMAIN q.calls : q.calls[i] # "aliasing"
  /\ q.affine /\ q.stores # <<>> /\ AccessRange(q.stores).known
  /\ \A i \in DOMAIN q.stores : ~q.stores[i].after_loop

EarlierSendsDoNotMatter ==
  Done /\ results.stale = {} =>
    Became("partitioned") =
      {a \in DOMAIN m.sends : m.sends[a].region # nullptr /\ PartitionedAlone(m.regions[m.sends[a].region])}

(* However many sends share a region, each of those partitioned passes its *)
(* request to the region, and the region signs each of them off once.      *)
EachRequestIsSignedOff ==
  \A q \in DOMAIN m.regions :
    LET signed == [i \in DOMAIN forked[q].signoffs |-> forked[q].args[forked[q].signoffs[i]]]
        sends == {a \in Became("partitioned") : m.sends[a].region = q}
    IN  /\ \A i, j \in DOMAIN signed : i # j => signed[i] # signed[j]
        /\ {signed[i] : i \in DOMAIN signed} = sends
=============================================================================
