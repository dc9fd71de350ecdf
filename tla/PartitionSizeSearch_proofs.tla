--------------------- MODULE PartitionSizeSearch_proofs ---------------------
(* The search ends as PartitionLayout says, for every message and request, *)
(* and the layouts that follow from its result are sound.                  *)
EXTENDS PartitionSizeSearch, SendingLayout, PartitionLayout_proofs

(* Where the search stands after loop_count candidates: it alternates      *)
(* above and below X_start, and its next candidate below is not negative.  *)
(* From six members on it meets candidate 1, which divides every message,  *)
(* before it would meet 0.                                                 *)
Alternates ==
  pc \in {"loop", "test", "found"} =>
    /\ X_start # 0 /\ Rem(count, X_start) # 0
    /\ sign = 1  => loop_count = 2 * (offset - 1)
    /\ sign = -1 => loop_count = 2 * offset - 1

NextBelow ==
  pc = "loop" => /\ offset <= X_start
                 /\ X_start > 5 => offset < X_start

LastTried ==
  pc = "test" =>
    /\ sign = -1 => /\ candidate = X_start + offset
                    /\ offset <= X_start
                    /\ X_start > 5 => offset < X_start
    /\ sign = 1  => /\ candidate = X_start - (offset - 1)
                    /\ candidate >= 0
                    /\ X_start > 5 => candidate > 0

Arguments ==
  pc \in {"first", "loop", "test", "found"} =>
    /\ requested <= count * extent
    /\ X_start = RequestedMembers(extent, requested)

Fresh ==
  pc \in {"request", "first"} => sign = 1 /\ offset = 1 /\ loop_count = 0

FirstCandidate == pc = "first" => candidate = X_start

Found == pc = "found" => X_start > 5 /\ Rem(count, candidate) = 0

Returned == pc = "done" => result # 0

SearchInv ==
  /\ TypeOK /\ Arguments /\ Fresh /\ FirstCandidate /\ Alternates
  /\ NextBelow /\ LastTried /\ Found /\ Returned
  /\ SearchMeetsClosedForm

-----------------------------------------------------------------------------
(* Partitions of one member always fit: 1 divides every message.           *)
LEMMA OneDivides ==
  ASSUME NEW n \in Nat
  PROVE  Rem(n, 1) = 0
  BY SMT DEF Rem, Quot

LEMMA SearchInit == Init => SearchInv
  BY SearchAssumption DEF Init, SearchInv, TypeOK, Arguments, Fresh,
     FirstCandidate, Alternates, NextBelow, LastTried, Found, Returned,
     SearchMeetsClosedForm, Stopped

LEMMA SearchStep == SearchInv /\ [Next]_vars => SearchInv'
<1> SUFFICES ASSUME SearchInv, [Next]_vars
             PROVE  SearchInv'
  OBVIOUS
<1> USE SearchAssumption DEF SearchInv, TypeOK, Arguments, Fresh,
     FirstCandidate, Alternates, NextBelow, LastTried, Found, Returned, inputs
<1>t. /\ count \in Nat \ {0} /\ extent \in Nat \ {0} /\ requested \in Nat
      /\ count * extent \in Nat \ {0}
  BY FactorBound
<1>m. RequestedMembers(extent, requested) \in Nat
  BY <1>t, MembersNat
<1>1. CASE RequestExceedsMessage
  BY <1>1, <1>t DEF RequestExceedsMessage, Return, sending_size_byte,
     SearchMeetsClosedForm, Stopped, FindValidPartitionSizeBytes
<1>2. CASE TakeRequest
  BY <1>2, <1>t, <1>m DEF TakeRequest, sending_size_byte,
     SearchMeetsClosedForm, Stopped
<1>3. CASE RequestDivides
  <2>1. candidate * extent \in Nat \ {0}
    BY <1>3, <1>t, <1>m, FactorBound DEF RequestDivides
  <2>2. QED
    BY <1>3, <1>t, <2>1 DEF RequestDivides, Return, SearchMeetsClosedForm,
       Stopped, FindValidPartitionSizeBytes
<1>4. CASE EnterLoop
  BY <1>4, <1>t, <1>m DEF EnterLoop, SearchMeetsClosedForm, Stopped
<1>5. CASE TryCandidate
  <2>1. X_start \in Nat \ {0}
    BY <1>5 DEF TryCandidate
  <2>2. CASE sign = 1
    BY <1>5, <2>1, <2>2 DEF TryCandidate, SearchMeetsClosedForm, Stopped
  <2>3. CASE sign = -1
    <3>1. candidate' = X_start - offset
      BY <1>5, <2>1, <2>3 DEF TryCandidate
    <3>2. sign' = 1
      BY <1>5, <2>3 DEF TryCandidate
    <3>3. offset' = offset + 1
      BY <1>5, <2>3 DEF TryCandidate
    <3>4. loop_count' = loop_count + 1
      BY <1>5 DEF TryCandidate
    <3>5. pc = "loop" /\ pc' = "test" /\ UNCHANGED <<inputs, X_start, result>>
      BY <1>5 DEF TryCandidate
    <3>6. QED
      BY <2>1, <2>3, <3>1, <3>2, <3>3, <3>4, <3>5 DEF SearchMeetsClosedForm, Stopped
  <2>4. QED
    BY <2>2, <2>3
<1>6. CASE TestCandidate
  <2>1. CASE KeepSearching
    <3>1. X_start > 5 /\ sign = 1 => offset < X_start
      <4>1. ASSUME X_start > 5, sign = 1, candidate = 1
            PROVE  FALSE
        <5>1. loop_count >= 10
          BY <1>6, <4>1 DEF TestCandidate
        <5>2. Rem(count, candidate) = 0
          BY <1>t, <4>1, OneDivides
        <5>3. QED
          BY <2>1, <5>1, <5>2 DEF KeepSearching, MAXIMUM_ITERATIONS
      <4>2. QED
        BY <1>6, <4>1 DEF TestCandidate
    <3>2. offset <= X_start
      BY <1>6 DEF TestCandidate
    <3>3. QED
      BY <1>6, <2>1, <3>1, <3>2 DEF TestCandidate, SearchMeetsClosedForm, Stopped
  <2>2. CASE ~KeepSearching
    <3>1. Rem(count, candidate) = 0 /\ loop_count >= 10
      BY <2>2 DEF KeepSearching, MAXIMUM_ITERATIONS
    <3>2. X_start > 5
      BY <1>6, <3>1 DEF TestCandidate
    <3>3. QED
      BY <1>6, <2>2, <3>1, <3>2 DEF TestCandidate, SearchMeetsClosedForm, Stopped
  <2>3. QED
    BY <2>1, <2>2
<1>7. CASE DivideByZero
  <2>1. X_start <= 5
    BY <1>7 DEF DivideByZero
  <2>2. requested <= count * extent /\ X_start = RequestedMembers(extent, requested)
    BY <1>7 DEF DivideByZero
  <2>3. ~(X_start # 0 /\ Rem(count, X_start) = 0)
    BY <1>7 DEF DivideByZero
  <2>4. FindValidPartitionSizeBytes(count, extent, requested) = Trap
    BY <1>t, <1>m, <2>1, <2>2, <2>3
       DEF FindValidPartitionSizeBytes, SearchOutcome, MAXIMUM_ITERATIONS
  <2>5. QED
    BY <1>7, <2>4 DEF DivideByZero, SearchMeetsClosedForm, Stopped
<1>8. CASE ReturnCandidate
  <2>1. SizeAfterSearch(candidate) = count * extent
    BY <1>8 DEF ReturnCandidate, SizeAfterSearch, sending_size_byte
  <2>2. FindValidPartitionSizeBytes(count, extent, requested) = count * extent
    <3>1. /\ requested <= count * extent
          /\ X_start = RequestedMembers(extent, requested)
          /\ X_start > 5 /\ Rem(count, X_start) # 0
      BY <1>8 DEF ReturnCandidate
    <3>2. FindValidPartitionSizeBytes(count, extent, requested)
            = SearchOutcome(count, extent, X_start)
      BY <1>t, <3>1 DEF FindValidPartitionSizeBytes
    <3>3. QED
      BY <1>t, <1>m, <3>1, <3>2 DEF SearchOutcome, MAXIMUM_ITERATIONS
  <2>3. QED
    BY <1>8, <1>t, <2>1, <2>2 DEF ReturnCandidate, Return,
       SearchMeetsClosedForm, Stopped
<1>9. CASE UNCHANGED vars
  BY <1>9 DEF vars, SearchMeetsClosedForm, Stopped
<1>10. QED
  BY <1>1, <1>2, <1>3, <1>4, <1>5, <1>6, <1>7, <1>8, <1>9 DEF Next

(* Type correctness of the search (find_valid_partition_size_bytes): its   *)
(* result is a natural number, and offset and loop_count never underflow.  *)
THEOREM SearchTypeOK == Spec => []TypeOK
<1>1. SearchInv => TypeOK
  BY DEF SearchInv
<1>2. QED
  BY SearchInit, SearchStep, <1>1, PTL DEF Spec

(* The search ends as the closed form in PartitionLayout says, for every   *)
(* message, member size and request (find_valid_partition_size_bytes).     *)
THEOREM SearchIsClosedForm == Spec => []SearchMeetsClosedForm
<1>1. SearchInv => SearchMeetsClosedForm
  BY DEF SearchInv
<1>2. QED
  BY SearchInit, SearchStep, <1>1, PTL DEF Spec
(* What partition_sending_op asserts of the size it gets, compiled out by  *)
(* NDEBUG, holds on every input: whole members, and no rest.               *)
THEOREM SizesDivide == Spec => []SizeDividesMessage
<1>1. ASSUME SearchInv, pc = "done"
      PROVE  /\ Rem(result, extent) = 0 /\ result # 0
             /\ Rem(count, Quot(result, extent)) = 0
  <2>1. /\ count \in Nat \ {0} /\ extent \in Nat \ {0} /\ requested \in Nat
        /\ result # 0
    BY <1>1, SearchAssumption DEF SearchInv, TypeOK, Returned
  <2>2. FindValidPartitionSizeBytes(count, extent, requested) = result
    BY <1>1 DEF SearchInv, SearchMeetsClosedForm, Stopped
  <2>3. PICK k \in 1 .. count : result = extent * k /\ Rem(count, k) = 0
    BY <2>1, <2>2, SizeIsDivisor DEF Trap
  <2>4. Quot(result, extent) = k /\ Rem(result, extent) = 0
    <3>1. k \in Int
      BY <2>1
    <3>2. QED
      BY <2>1, <2>3, <3>1, QuotOfMultiple, Zenon
  <2>5. QED
    BY <2>1, <2>3, <2>4
<1>2. SearchInv => SizeDividesMessage
  BY <1>1 DEF SizeDividesMessage
<1>3. QED
  BY SearchInit, SearchStep, <1>2, PTL DEF Spec

(* The request, rounded up, is not more than the message.                  *)
LEMMA MembersAtMost ==
  ASSUME NEW n \in Nat \ {0}, NEW e \in Nat \ {0}, NEW r \in Nat, r <= n * e
  PROVE  RequestedMembers(e, r) <= n
<1> DEFINE q == Quot(r, e)
<1>1. q \in Nat /\ (n <= q <=> n * e <= r) /\ (n + 1 <= q <=> (n + 1) * e <= r)
  <2>1. n \in Int /\ n + 1 \in Int
    OBVIOUS
  <2>2. QED
    BY <2>1, QuotNat, Zenon
<1>2. (n + 1) * e = n * e + e /\ n * e \in Nat
  OBVIOUS
<1>3. q <= n
  BY <1>1, <1>2
<1>4. q = n => Rem(r, e) = 0
  <2> SUFFICES ASSUME q = n PROVE Rem(r, e) = 0
    OBVIOUS
  <2>1. r = e * n /\ n \in Int
    BY <1>1, <1>2
  <2>2. QED
    BY <2>1, QuotOfMultiple, Zenon
<1> HIDE DEF q
<1>5. QED
  BY <1>1, <1>3, <1>4 DEF RequestedMembers, q

(* The do-while loop, whose condition names no bound of its own, tries at  *)
(* most two candidates for each member of the message.                     *)
CandidatesAreBounded == pc \in {"loop", "test"} => loop_count <= 2 * count

THEOREM SearchIsBounded == Spec => []CandidatesAreBounded
<1>1. ASSUME SearchInv, pc \in {"loop", "test"}
      PROVE  loop_count <= 2 * count
  <2>1. /\ count \in Nat \ {0} /\ extent \in Nat \ {0} /\ requested \in Nat
        /\ X_start \in Nat /\ X_start <= count
    BY <1>1, SearchAssumption, MembersAtMost DEF SearchInv, TypeOK, Arguments
  <2>2. loop_count <= 2 * X_start
    BY <1>1 DEF SearchInv, TypeOK, Alternates, NextBelow, LastTried
  <2>3. QED
    BY <1>1, <2>1, <2>2 DEF SearchInv, TypeOK
<1>2. SearchInv => CandidatesAreBounded
  BY <1>1 DEF CandidatesAreBounded
<1>3. QED
  BY SearchInit, SearchStep, <1>2, PTL DEF Spec

-----------------------------------------------------------------------------
(* The layout of a call of partition_sending_op.                           *)

InScope == g \in Geometries

(* The call never changes.                                                 *)
LEMMA ScopeInv == LayoutSpec => []InScope
<1>1. LayoutInit => InScope
  BY DEF LayoutInit, InScope
<1>2. InScope /\ [LayoutNext]_g => InScope'
  BY DEF LayoutNext, InScope
<1>3. QED
  BY <1>1, <1>2, PTL DEF LayoutSpec

(* The two computations of partition_sending_op and of                     *)
(* signoff_partitions_after_loop_iter agree on every well-aligned loop.    *)
THEOREM LayoutsAreSound == LayoutSpec => []LayoutIsSound
<1>1. InScope => LayoutIsSound
  BY GeometriesAssumption, WellAlignedIsSound DEF LayoutIsSound, InScope
<1>2. QED
  BY <1>1, ScopeInv, PTL

(* partition_sending_op cuts every message into partitions without a rest, *)
(* unless its search divides by zero.                                      *)
THEOREM MessageIsCovered == LayoutSpec => []PartitionsCoverMessage
<1>1. InScope => PartitionsCoverMessage
  BY GeometriesAssumption, PartitionsTile DEF PartitionsCoverMessage, InScope
<1>2. QED
  BY <1>1, ScopeInv, PTL
=============================================================================
