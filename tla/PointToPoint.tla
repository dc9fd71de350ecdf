---------------------------- MODULE PointToPoint ----------------------------
(***************************************************************************)
(* MPI's point-to-point communication, as the programs in src/ rely on it  *)
(* (external).  posted[r] holds the operations rank r has started and that *)
(* are not matched yet, in the order they were started; received[r] what   *)
(* r has got so far, in the order of the matches.  A send may be buffered: *)
(* then it is complete for its sender before it is matched.                *)
(***************************************************************************)
EXTENDS Integers, Sequences, SequencesExt

CONSTANTS Ranks, MPI_PROC_NULL

VARIABLES posted, received

Tags == {"TAG", "reduce"}

Post(r, operation) ==
  /\ posted' = IF operation.peer = MPI_PROC_NULL THEN posted
               ELSE [posted EXCEPT ![r] = Append(@, operation)]
  /\ UNCHANGED received

\* A request can be waited for when its operation is complete, or none runs.
Pending(r, req) ==
  \E i \in DOMAIN posted[r] : posted[r][i].req = req /\ ~posted[r][i].buffered

BufferSend(r) ==
  \E i \in DOMAIN posted[r] :
    /\ posted[r][i].kind = "send" /\ ~posted[r][i].buffered
    /\ posted' = [posted EXCEPT ![r][i].buffered = TRUE]
    /\ UNCHANGED received

\* The first operation that another one can be matched with.
FirstPosted(operations, kind, peer, tag) ==
  SelectInSeq(operations, LAMBDA o : o.kind = kind /\ o.peer = peer /\ o.tag = tag)

\* Messages of one sender, receiver and tag do not overtake each other.
Match(s, d) ==
  \E tag \in Tags :
    LET i    == FirstPosted(posted[s], "send", d, tag)
        rest == [posted EXCEPT ![s] = RemoveAt(@, i)]
        j    == FirstPosted(rest[d], "recv", s, tag)
    IN  /\ i # 0 /\ j # 0
        /\ posted' = [rest EXCEPT ![d] = RemoveAt(@, j)]
        /\ received' = [received EXCEPT ![d] =
             Append(@, [from |-> s, tag |-> tag, msg |-> posted[s][i].msg])]
=============================================================================
