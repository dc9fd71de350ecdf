-------------------------- MODULE OverlapAnalysis --------------------------
(***************************************************************************)
(* Where a communication call is complete, and which calls overlap with it *)
(* (mpi_analysis.cpp of the pass).                                         *)
(*                                                                         *)
(* f.call[n] says which MPI function instruction n calls.  The request of  *)
(* a non-blocking call and of MPI_Wait is a record: f.call[n].request has  *)
(* the variable it is in and its index there, scalar for a variable that   *)
(* is no array, unknown for a pointer that cannot be followed.             *)
(* MPI_Waitall has an array, the index of its first request, begin, and    *)
(* their number, count, unknown when it is not a constant.                 *)
(* f.calls lists the calls in any order.                                   *)
(***************************************************************************)
EXTENDS InstructionOrder

Abort == -1                \* an assertion of the pass fails

scalar == -1
unknown == -2

_nonblocking_functions == {"MPI_Isend", "MPI_Irecv"}

\* The functions that take part in overlaps; with another one the pass aborts.
_send_recv_functions ==
  {"MPI_Send", "MPI_Ssend", "MPI_Isend", "MPI_Sendrecv", "MPI_Recv", "MPI_Irecv"}

CallsOf(f, names) == Only(f.calls, {n \in DOMAIN f.call : f.call[n].name \in names})

-----------------------------------------------------------------------------
(* The waits of a request.                                                 *)

\* Seeded fault: the last request of the call is not counted.
is_waitall_matching_OffByOne(begin_index, match_index, count) ==
  count # unknown /\ begin_index + count - 1 > match_index /\ match_index >= begin_index

is_waitall_matching(begin_index, match_index, count) ==
  count # unknown /\ begin_index + count > match_index /\ match_index >= begin_index

\* The waits for an element of an array of requests.
get_matching_waitall(f, request) ==
  Only(f.calls, {n \in DOMAIN f.call :
    \/ f.call[n].name = "MPI_Wait" /\ f.call[n].request = request
    \/ /\ f.call[n].name = "MPI_Waitall" /\ f.call[n].array = request.variable
       /\ is_waitall_matching(f.call[n].begin, request.index, f.call[n].count)})

\* All MPI_Waits for the variable, those of earlier operations too; the call
\* itself when there are none; and MPI_Finalize.
get_corresponding_wait(f, k, n) ==
  LET request == f.call[n].request
      scope == CASE request.index = scalar ->
                      Only(f.calls, {w \in DOMAIN f.call : /\ f.call[w].name = "MPI_Wait"
                                                            /\ f.call[w].request = request})
                 [] request.index = unknown -> <<>>
                 [] OTHER -> get_matching_waitall(f, request)
  IN  (IF scope = <<>> THEN <<n>> ELSE scope)
      \o Only(CallsOf(f, {"MPI_Finalize"}), k.reach[n])

get_local_completion_point(f, k, n) ==
  CASE f.call[n].name \in _nonblocking_functions ->
         get_first_instruction(k.trees, get_corresponding_wait(f, k, n))
    [] f.call[n].name \in {"MPI_Send", "MPI_Recv"} -> n
    [] OTHER -> Abort

-----------------------------------------------------------------------------
(* Overlaps.  A call that is not complete anywhere makes the comparison    *)
(* abort, and the call is compared with itself, too.                       *)

\* Seeded fault: any order of the calls makes them overlap.
Overlap_EitherOrder(k, n, completion_point, m, other_completion_point) ==
  \/ get_first_of_two(k.trees, other_completion_point, n) # nullptr
  \/ get_first_of_two(k.trees, completion_point, m) # nullptr

Overlap(k, n, completion_point, m, other_completion_point) ==
  LET other == get_first_of_two(k.trees, other_completion_point, n)
      this  == get_first_of_two(k.trees, completion_point, m)
  IN  /\ other # other_completion_point /\ this # completion_point
      /\ other # nullptr \/ this # nullptr

find_overlapping_operations(f, k, n) ==
  LET calls == CallsOf(f, _send_recv_functions)
      completion_point == [m \in {calls[i] : i \in DOMAIN calls} |->
                             get_local_completion_point(f, k, m)]
  IN  IF \E m \in DOMAIN completion_point : completion_point[m] \in {nullptr, Abort}
      THEN {Abort}
      ELSE {m \in DOMAIN completion_point :
              Overlap(k, n, completion_point[n], m, completion_point[m])}
=============================================================================
