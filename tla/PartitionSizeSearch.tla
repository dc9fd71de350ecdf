------------------------ MODULE PartitionSizeSearch ------------------------
(***************************************************************************)
(* find_valid_partition_size_bytes, statement by statement: the search for *)
(* a partition size, in datatype members, that divides the message and is  *)
(* close to what one chunk of the loop writes.                             *)
(***************************************************************************)
EXTENDS PartitionLayout

CONSTANTS Counts,        \* members of the message
          Extents,       \* bytes of a member
          Requests       \* requested partition sizes, in bytes

ASSUME SearchAssumption ==
  /\ Counts \subseteq Nat \ {0}
  /\ Extents \subseteq Nat \ {0}
  /\ Requests \subseteq Nat

VARIABLES count, extent, requested,       \* the arguments
          X_start, candidate,             \* candidate: partition_size_canidate
          sign, offset, loop_count,
          pc, result

inputs == <<count, extent, requested>>
vars   == <<count, extent, requested, X_start, candidate, sign, offset,
            loop_count, pc, result>>

sending_size_byte == count * extent

Init ==
  /\ count \in Counts /\ extent \in Extents /\ requested \in Requests
  /\ X_start = 0 /\ candidate = 0 /\ sign = 1 /\ offset = 1 /\ loop_count = 0
  /\ result = 0
  /\ pc = "request"

Return(size) ==
  /\ pc' = "done"
  /\ result' = size
  /\ UNCHANGED inputs

RequestExceedsMessage ==
  /\ pc = "request" /\ requested > sending_size_byte
  /\ Return(sending_size_byte)
  /\ UNCHANGED <<X_start, candidate, sign, offset, loop_count>>

\* The request itself is the first candidate: the loop starts from it.
TakeRequest ==
  /\ pc = "request" /\ requested <= sending_size_byte
  /\ candidate' = RequestedMembers(extent, requested)
  /\ X_start' = candidate'
  /\ pc' = "first"
  /\ UNCHANGED <<inputs, sign, offset, loop_count, result>>

RequestDivides ==
  /\ pc = "first" /\ candidate # 0 /\ Rem(count, candidate) = 0
  /\ Return(candidate * extent)
  /\ UNCHANGED <<X_start, candidate, sign, offset, loop_count>>

EnterLoop ==
  /\ pc = "first" /\ candidate # 0 /\ Rem(count, candidate) # 0
  /\ pc' = "loop"
  /\ UNCHANGED <<inputs, X_start, candidate, sign, offset, loop_count, result>>

\* Seeded fault: sign is decremented where it should be negated.
TryCandidate_Decrements ==
  /\ pc = "loop"
  /\ candidate' = X_start + sign * offset
  /\ sign' = sign - 1
  /\ offset' = IF sign > 0 THEN offset ELSE offset + 1
  /\ loop_count' = loop_count + 1
  /\ pc' = "test"
  /\ UNCHANGED <<inputs, X_start, result>>

\* Seeded fault: sign never changes, and only the other branch counts.
TryCandidate_OneSided ==
  /\ pc = "loop"
  /\ candidate' = X_start + sign * offset
  /\ offset' = IF sign > 0 THEN offset ELSE offset + 1
  /\ loop_count' = IF sign > 0 THEN loop_count ELSE loop_count + 1
  /\ pc' = "test"
  /\ UNCHANGED <<inputs, sign, X_start, result>>

\* One turn of the do-while body: X+1, X-1, X+2, X-2, ...
TryCandidate ==
  /\ pc = "loop"
  /\ candidate' = X_start + sign * offset
  /\ sign' = sign * (-1)
  /\ offset' = IF sign > 0 THEN offset ELSE offset + 1
  /\ loop_count' = loop_count + 1
  /\ pc' = "test"
  /\ UNCHANGED <<inputs, X_start, result>>

\* Seeded fault: the halves of the condition joined with &&.
KeepSearching_Both == Rem(count, candidate) # 0 /\ loop_count < MAXIMUM_ITERATIONS

\* The while condition joins its two halves with || and not with &&.
KeepSearching == Rem(count, candidate) # 0 \/ loop_count < MAXIMUM_ITERATIONS

TestCandidate ==
  /\ pc = "test" /\ candidate # 0
  /\ pc' = IF KeepSearching THEN "loop" ELSE "found"
  /\ UNCHANGED <<inputs, X_start, candidate, sign, offset, loop_count, result>>

\* count % 0: the process dies with SIGFPE.
DivideByZero ==
  /\ pc \in {"first", "test"} /\ candidate = 0
  /\ pc' = "trap"
  /\ UNCHANGED <<inputs, X_start, candidate, sign, offset, loop_count, result>>

\* Seeded fault, or rather the repair: a size that divides is used.
SizeAfterSearch_Divides(size) ==
  IF Rem(count, size) = 0 THEN size * extent ELSE sending_size_byte

SizeAfterSearch(size) ==
  IF Rem(count, size) # 0 THEN size * extent ELSE sending_size_byte

ReturnCandidate ==
  /\ pc = "found"
  /\ Return(SizeAfterSearch(candidate))
  /\ UNCHANGED <<X_start, candidate, sign, offset, loop_count>>

Stopped == pc \in {"done", "trap"}

Next ==
  \/ RequestExceedsMessage
  \/ TakeRequest
  \/ RequestDivides
  \/ EnterLoop
  \/ TryCandidate
  \/ TestCandidate
  \/ DivideByZero
  \/ ReturnCandidate
  \/ Stopped /\ UNCHANGED vars

Spec == Init /\ [][Next]_vars

\* The search is sequential code: it takes its next step.
FairSpec == Spec /\ WF_vars(Next)

-----------------------------------------------------------------------------
TypeOK ==
  /\ count \in Counts /\ extent \in Extents /\ requested \in Requests
  /\ X_start \in Nat /\ candidate \in Int /\ sign \in {-1, 1}
  /\ offset \in Nat \ {0} /\ loop_count \in Nat
  /\ pc \in {"request", "first", "loop", "test", "found", "done", "trap"}
  /\ result \in Nat

(* The search ends the way partition_sending_op's model in PartitionLayout *)
(* says: the request when it divides the message, the whole message        *)
(* otherwise, and a division by zero when the request is at most five      *)
(* members and does not divide (find_valid_partition_size_bytes).          *)
SearchMeetsClosedForm ==
  Stopped =>
    FindValidPartitionSizeBytes(count, extent, requested)
      = IF pc = "trap" THEN Trap ELSE result

(* What partition_sending_op asserts of the returned size: it is a whole   *)
(* number of members, and that number divides the message.                 *)
SizeDividesMessage ==
  pc = "done" => /\ Rem(result, extent) = 0
                 /\ result # 0
                 /\ Rem(count, Quot(result, extent)) = 0

(* Every search comes to an end, with a size or with a division by zero:   *)
(* no count makes the two-sided search run forever.                        *)
SearchStops == <>Stopped
=============================================================================
