------------------------ MODULE RankPrograms_proofs ------------------------
(***************************************************************************)
(* What the report filter says of a program is what happened, for every    *)
(* number of ranks, threads, partitions and calls; that partitions are     *)
(* marked between the start and the wait of their request; and that each   *)
(* rank receives what the others send, in order, where the programs' texts *)
(* say so.                                                                 *)
(*                                                                         *)
(* The first argument: memcheck's taint (noaccess) and what is really lent *)
(* to MPI (lent) are set together, and lifted one call apart: the taint in *)
(* MPIX_Wait, the loan in the MPI_Wait behind it.  No thread runs between  *)
(* the two, so that a thread's access is seen exactly when it is wrong,    *)
(* and the block memcheck names is the buffer of the request that lent it. *)
(*                                                                         *)
(* The last one: what a rank has posted comes from calls of its text, in   *)
(* order, and on each channel (a kind, a peer and a tag) those that are    *)
(* left are the ones behind as many as have arrived.  A match takes the    *)
(* first one left at both ends.                                            *)
(***************************************************************************)
EXTENDS RankPrograms, FiniteSetTheorems, WellFoundedInduction, TLAPS

RequestRecord ==
  [kind : {"none", "send", "recv"}, peer : Peers, dest : Peers \cup {0},
   partition_count : Nat, partitions_ready : Nat, is_active : {0, 1},
   block : {"none", SEND_BLOCK, RECV_BLOCK}, msg : STRING \cup {"none"}]

\* memcheck names the buffer after what the request was initialised as.
BlockTellsKind(request) ==
  /\ request.block = SEND_BLOCK <=> request.kind = "send"
  /\ request.block = RECV_BLOCK <=> request.kind = "recv"

Cases == [kind : {"InvalidRead", "InvalidWrite"}, block : {"none", SEND_BLOCK, RECV_BLOCK}]

TypeInv ==
  /\ \A r \in Ranks : IsProgram(Code(r)) /\ pc[r] <= Len(Code(r)) + 1
  /\ pc \in [Ranks -> Nat \ {0}]
  /\ tpc \in [Ranks -> Seq(Nat \ {0})]
  /\ requests \in [Ranks -> [Requests -> RequestRecord]]
  /\ noaccess \in [Ranks -> SUBSET (Requests \X Nat)]
  /\ lent \in [Ranks -> SUBSET (Requests \X Nat)]
  /\ report \in [Ranks -> SUBSET Cases]
  /\ raced \in [Ranks -> BOOLEAN]

\* What the calls of the main threads need of that.
TextTypes ==
  /\ \A r \in Ranks : IsProgram(Code(r)) /\ pc[r] <= Len(Code(r)) + 1
  /\ pc \in [Ranks -> Nat \ {0}]
  /\ requests \in [Ranks -> [Requests -> RequestRecord]]

\* Between MPIX_Wait and its MPI_Wait more is lent than is tainted.
BehindWait(r, q) == pc[r] > 1 /\ Code(r)[pc[r] - 1].op = "mpix_wait" /\ Code(r)[pc[r] - 1].req = q

InRegion(r) == pc[r] > 1 /\ Code(r)[pc[r] - 1].op = "fork"

RankInv(r) ==
  /\ InRegion(r) => Len(tpc[r]) = Len(Threads(r))
  /\ \A q \in Requests : BlockTellsKind(requests[r][q])
  /\ noaccess[r] \subseteq lent[r]
  /\ \A l \in lent[r] : l \notin noaccess[r] => BehindWait(r, l[1])
  /\ \A l \in noaccess[r] : MayMark(r, l[1], l[2])
  /\ raced[r] <=> errors_introduced(r) # {}

IInv == TypeInv /\ \A r \in Ranks : RankInv(r)

-----------------------------------------------------------------------------
(* Programs.                                                               *)

LEMMA CallFields ==
  ASSUME NEW c \in MainCall
  PROVE  /\ c.op = "wait" => c.reqs \in SUBSET STRING
         /\ c.op = "psend_init" => /\ c.req \in Requests /\ c.peer \in Peers
                                   /\ c.partitions \in Nat /\ c.msg \in STRING
         /\ c.op = "precv_init" => c.req \in Requests /\ c.peer \in Peers /\ c.partitions \in Nat
         /\ c.op \in {"start", "mpix_wait", "free"} => c.req \in Requests
         /\ c.op = "pready" => c.req \in Requests /\ c.partition \in Nat
         /\ c.op = "fork" => c.threads \in Seq(Seq(ThreadStep))
BY DEF MainCall

LEMMA TypesOfText == TypeInv => TextTypes
BY DEF TypeInv, TextTypes

LEMMA CallsAreTyped ==
  ASSUME TextTypes, NEW r \in Ranks, NEW op, Calls(r, op)
  PROVE  /\ Call(r) \in MainCall /\ Call(r).op = op
         /\ pc' = [pc EXCEPT ![r] = pc[r] + 1] /\ pc[r] \in 1 .. Len(Code(r))
         /\ Joined(r)
BY DEF TextTypes, Calls, Call, IsProgram

LEMMA NoRequestIsTyped == NoRequest \in RequestRecord /\ BlockTellsKind(NoRequest)
<1>1. NoRequest \in RequestRecord
  <2>1. /\ "none" \in {"none", "send", "recv"} /\ "none" \in {"none", SEND_BLOCK, RECV_BLOCK}
        /\ MPI_PROC_NULL \in Peers /\ 0 \in Peers \cup {0}
    BY DEF Peers
  <2>2. 0 \in Nat /\ 0 \in {0, 1} /\ "none" \in STRING \cup {"none"}
    OBVIOUS
  <2> QED  BY <2>1, <2>2, Zenon DEF NoRequest, RequestRecord
<1>2. BlockTellsKind(NoRequest)
  BY DEF NoRequest, BlockTellsKind, SEND_BLOCK, RECV_BLOCK
<1> QED  BY <1>1, <1>2

\* A request whose counters change keeps what the marks are judged by.
LEMMA FieldsAreKept ==
  ASSUME TextTypes, NEW r \in Ranks, NEW q \in Requests, NEW active \in {0, 1}, NEW ready \in Nat,
         requests' = [requests EXCEPT ![r][q] = [requests[r][q] EXCEPT !.is_active = active,
                                                                        !.partitions_ready = ready]]
  PROVE  /\ requests' \in [Ranks -> [Requests -> RequestRecord]]
         /\ \A x \in Ranks : x # r => requests'[x] = requests[x]
         /\ \A k \in Requests : /\ requests'[r][k].block = requests[r][k].block
                                /\ requests'[r][k].kind = requests[r][k].kind
                                /\ requests'[r][k].partition_count = requests[r][k].partition_count
<1> DEFINE new == [requests[r][q] EXCEPT !.is_active = active, !.partitions_ready = ready]
<1>1. requests[r][q] \in RequestRecord
  BY DEF TextTypes
<1>2. /\ new \in RequestRecord
      /\ new.block = requests[r][q].block /\ new.kind = requests[r][q].kind
      /\ new.partition_count = requests[r][q].partition_count
  BY <1>1 DEF RequestRecord
<1>3. requests' = [requests EXCEPT ![r][q] = new]
  OBVIOUS
<1> HIDE DEF new
<1> QED
  BY <1>2, <1>3 DEF TextTypes

\* A thread's step is a step of the program, and the call before it a fork.
LEMMA StepsAreTyped ==
  ASSUME TypeInv, NEW r \in Ranks, RankInv(r), NEW t \in DOMAIN Threads(r),
         tpc[r][t] <= Len(Threads(r)[t])
  PROVE  /\ StepOf(r, t) \in ThreadStep /\ StepOf(r, t) \in ToSet(Threads(r)[t])
         /\ InRegion(r) /\ pc[r] - 1 \in 1 .. Len(Code(r))
         /\ Threads(r) = Code(r)[pc[r] - 1].threads
         /\ t \in DOMAIN tpc[r] /\ tpc[r][t] \in Nat \ {0}
<1>1. InRegion(r) /\ Threads(r) = Code(r)[pc[r] - 1].threads /\ pc[r] - 1 \in 1 .. Len(Code(r))
  BY DEF Threads, InRegion, TypeInv
<1>2. /\ Code(r)[pc[r] - 1] \in MainCall
      /\ Len(tpc[r]) = Len(Threads(r)) /\ tpc[r] \in Seq(Nat \ {0})
  BY <1>1 DEF TypeInv, IsProgram, InRegion, RankInv
<1>3. Threads(r) \in Seq(Seq(ThreadStep))
  BY <1>1, <1>2, CallFields DEF InRegion
<1>4. t \in DOMAIN tpc[r] /\ tpc[r][t] \in Nat \ {0}
  BY <1>2, <1>3
<1>5. StepOf(r, t) \in ThreadStep /\ StepOf(r, t) \in ToSet(Threads(r)[t])
  <2>1. Threads(r)[t] \in Seq(ThreadStep) /\ tpc[r][t] \in DOMAIN Threads(r)[t]
    BY <1>3, <1>4
  <2> QED  BY <2>1 DEF StepOf, ToSet
<1> QED
  BY <1>1, <1>4, <1>5

LEMMA ThreadsAreTyped ==
  ASSUME TypeInv, NEW r \in Ranks, RankInv(r), NEW t \in DOMAIN Threads(r), NEW op, Does(r, t, op)
  PROVE  /\ StepOf(r, t) \in ThreadStep /\ StepOf(r, t).op = op
         /\ InRegion(r)
         /\ t \in DOMAIN tpc[r] /\ tpc[r][t] \in Nat \ {0}
         /\ tpc' = [tpc EXCEPT ![r][t] = tpc[r][t] + 1]
BY StepsAreTyped DEF Does

-----------------------------------------------------------------------------
(* Ranks.                                                                  *)

\* What other ranks do is none of a rank's business.
LEMMA OtherRanks ==
  ASSUME NEW r \in Ranks, RankInv(r), UNCHANGED scenario,
         pc'[r] = pc[r], tpc'[r] = tpc[r], requests'[r] = requests[r],
         noaccess'[r] = noaccess[r], report'[r] = report[r],
         lent'[r] = lent[r], raced'[r] = raced[r]
  PROVE  RankInv(r)'
BY DEF RankInv, InRegion, BehindWait, Threads, Code, MayMark, errors_introduced

\* Only the MPI_Wait behind MPIX_Wait finds lent what is not tainted.
LEMMA TaintIsLoan ==
  ASSUME TypeInv, NEW r \in Ranks, RankInv(r),
         InRegion(r) \/ \E op : op # "wait" /\ Calls(r, op)
  PROVE  noaccess[r] = lent[r]
<1>1. ASSUME NEW q, BehindWait(r, q)
      PROVE  FALSE
  <2>1. CASE InRegion(r)
    BY <2>1, <1>1 DEF InRegion, BehindWait
  <2>2. ASSUME NEW op, op # "wait", Calls(r, op)
        PROVE  FALSE
    <3>1. Call(r).op = op /\ pc[r] \in 1 .. Len(Code(r))
      BY <2>2, TypesOfText, CallsAreTyped
    <3>2. pc[r] - 1 \in DOMAIN Code(r) /\ IsProgram(Code(r))
      BY <3>1, <1>1 DEF BehindWait, TypeInv, IsProgram
    <3>3. Code(r)[pc[r] - 1 + 1].op = "wait"
      BY <3>2, <1>1 DEF BehindWait, IsProgram
    <3> QED  BY <3>1, <3>3, <2>2 DEF Call
  <2> QED  BY <2>1, <2>2
<1> QED
  BY <1>1 DEF RankInv

\* A call moves its rank past itself.
LEMMA CallsMove ==
  ASSUME TextTypes, NEW r \in Ranks, NEW op, Calls(r, op), UNCHANGED scenario
  PROVE  /\ \A x \in Ranks : x # r => pc'[x] = pc[x]
         /\ pc'[r] = pc[r] + 1 /\ pc' \in [Ranks -> Nat \ {0}]
         /\ \A x \in Ranks : IsProgram(Code(x))' /\ pc'[x] <= Len(Code(x)') + 1
         /\ InRegion(r)' <=> op = "fork"
         /\ \A q : BehindWait(r, q)' <=> op = "mpix_wait" /\ Call(r).req = q
         /\ op = "fork" => Threads(r)' = Call(r).threads
<1>1. /\ Call(r).op = op /\ pc' = [pc EXCEPT ![r] = pc[r] + 1]
      /\ pc[r] \in 1 .. Len(Code(r))
  BY CallsAreTyped
<1>2. /\ pc'[r] = pc[r] + 1 /\ pc' \in [Ranks -> Nat \ {0}]
      /\ \A x \in Ranks : x # r => pc'[x] = pc[x]
  BY <1>1 DEF TextTypes
<1>3. \A x \in Ranks : Code(x)' = Code(x)
  BY DEF Code
<1>4. Code(r)'[pc'[r] - 1] = Call(r) /\ pc'[r] > 1
  BY <1>1, <1>2, <1>3 DEF Call
<1>5. \A x \in Ranks : pc'[x] <= Len(Code(x)') + 1
  BY <1>1, <1>2, <1>3 DEF TextTypes
<1>6. \A x \in Ranks : IsProgram(Code(x))'
  BY <1>3 DEF TextTypes, IsProgram
<1> QED
  BY <1>1, <1>2, <1>4, <1>5, <1>6 DEF InRegion, BehindWait, Threads

-----------------------------------------------------------------------------
(* The calls of the main thread.                                           *)

\* The calls that touch neither requests nor marks: MPI_Isend, MPI_Irecv and
\* the parallel regions.
LEMMA PlainCalls ==
  ASSUME IInv, NEW r \in Ranks, Communicate(r) \/ Fork(r) \/ Compute(r)
  PROVE  IInv'
<1>1. PICK op \in {"post", "fork", "region"} : Calls(r, op)
  BY DEF Communicate, Fork, Compute
<1>2. /\ UNCHANGED <<scenario, requests, noaccess, report, lent, raced>>
      /\ op = "fork" => tpc' = [tpc EXCEPT ![r] = [t \in DOMAIN Call(r).threads |-> 1]]
      /\ op # "fork" => tpc' = tpc
  <2>1. Call(r).op = op
    BY <1>1 DEF Calls
  <2>2. CASE Communicate(r)
    BY <2>1, <2>2 DEF Communicate, Calls, memcheck, history
  <2>3. CASE Fork(r)
    BY <2>1, <2>3 DEF Fork, Calls, memcheck, history
  <2>4. CASE Compute(r)
    BY <2>1, <2>4 DEF Compute, Calls, memcheck, history
  <2> QED  BY <2>2, <2>3, <2>4
<1>3. /\ \A x \in Ranks : x # r => pc'[x] = pc[x]
      /\ pc' \in [Ranks -> Nat \ {0}]
      /\ \A x \in Ranks : IsProgram(Code(x))' /\ pc'[x] <= Len(Code(x)') + 1
      /\ InRegion(r)' <=> op = "fork"
      /\ op = "fork" => Threads(r)' = Call(r).threads
  BY <1>1, <1>2, TypesOfText, CallsMove DEF IInv
<1>4. op = "fork" => Call(r).threads \in Seq(Seq(ThreadStep))
  BY <1>1, TypesOfText, CallsAreTyped, CallFields DEF IInv
<1>5. tpc' \in [Ranks -> Seq(Nat \ {0})] /\ \A x \in Ranks : x # r => tpc'[x] = tpc[x]
  <2>1. ASSUME op = "fork"
        PROVE  [t \in DOMAIN Call(r).threads |-> 1] \in Seq(Nat \ {0})
    <3>1. PICK n \in Nat : DOMAIN Call(r).threads = 1 .. n
      BY <1>4, <2>1
    <3> QED  BY <3>1
  <2> QED  BY <1>2, <2>1 DEF IInv, TypeInv
<1>6. TypeInv'
  BY <1>2, <1>3, <1>5 DEF IInv, TypeInv
<1>7. noaccess[r] = lent[r]
  BY <1>1, TaintIsLoan DEF IInv
<1>8. InRegion(r)' => Len(tpc'[r]) = Len(Threads(r)')
  BY <1>2, <1>3, <1>4 DEF IInv, TypeInv
<1>9. RankInv(r)'
  BY <1>2, <1>7, <1>8 DEF IInv, RankInv, MayMark, errors_introduced
<1> QED
  BY <1>2, <1>3, <1>5, <1>6, <1>9, OtherRanks DEF IInv

\* MPI_Wait: what MPIX_Wait left lent comes back, and nothing that is tainted.
LEMMA WaitKeeps ==
  ASSUME IInv, MarksUntilWait, NEW r \in Ranks, Wait(r)
  PROVE  IInv'
<1> DEFINE reqs == Call(r).reqs
<1>1. /\ Calls(r, "wait") /\ lent' = [lent EXCEPT ![r] = {l \in lent[r] : l[1] \notin reqs}]
      /\ UNCHANGED <<scenario, tpc, requests, noaccess, report, raced>>
  BY DEF Wait, memcheck
<1>2. /\ \A x \in Ranks : x # r => pc'[x] = pc[x]
      /\ pc' \in [Ranks -> Nat \ {0}]
      /\ \A x \in Ranks : IsProgram(Code(x))' /\ pc'[x] <= Len(Code(x)') + 1
      /\ ~InRegion(r)'
  BY <1>1, TypesOfText, CallsMove DEF IInv
<1>3. \A l \in noaccess[r] : l[1] \notin reqs
  BY <1>1, TypesOfText, CallsAreTyped DEF IInv, MarksUntilWait, Marked
<1>4. \A l \in lent[r] : l[1] \notin reqs => l \in noaccess[r]
  <2> SUFFICES ASSUME NEW l \in lent[r], l \notin noaccess[r]
               PROVE  l[1] \in reqs
    OBVIOUS
  <2>1. BehindWait(r, l[1])
    BY DEF IInv, RankInv
  <2>2. pc[r] - 1 \in DOMAIN Code(r) /\ pc[r] \in 1 .. Len(Code(r)) /\ IsProgram(Code(r))
    BY <1>1, <2>1, TypesOfText, CallsAreTyped DEF IInv, TypeInv, BehindWait, IsProgram
  <2>3. Code(r)[pc[r] - 1].req \in Code(r)[pc[r] - 1 + 1].reqs
    BY <2>1, <2>2 DEF BehindWait, IsProgram
  <2> QED  BY <2>1, <2>2, <2>3 DEF BehindWait, Call
<1>5. lent'[r] = noaccess[r] /\ lent' \in [Ranks -> SUBSET (Requests \X Nat)]
  BY <1>1, <1>3, <1>4 DEF IInv, TypeInv, RankInv
<1>6. TypeInv'
  BY <1>1, <1>2, <1>5 DEF IInv, TypeInv
<1>7. RankInv(r)'
  BY <1>1, <1>2, <1>5 DEF IInv, RankInv, MayMark, errors_introduced
<1>8. \A x \in Ranks : x # r => lent'[x] = lent[x]
  BY <1>1 DEF IInv, TypeInv
<1> QED
  BY <1>1, <1>2, <1>6, <1>7, <1>8, OtherRanks DEF IInv

LEMMA RequestsAreRenewed ==
  ASSUME TextTypes, NEW r \in Ranks,
         MPIX_Psend_init(r) \/ MPIX_Precv_init(r) \/ MPIX_Request_free(r)
  PROVE  \E new \in RequestRecord :
           /\ BlockTellsKind(new)
           /\ requests' = [requests EXCEPT ![r][Call(r).req] = new]
<1> DEFINE c == Call(r)
<1>1. c \in MainCall
  BY CallsAreTyped DEF MPIX_Psend_init, MPIX_Precv_init, MPIX_Request_free
<1>2. NoRequest \in RequestRecord /\ BlockTellsKind(NoRequest)
  BY NoRequestIsTyped
<1>3. CASE MPIX_Psend_init(r)
  <2>1. c.op = "psend_init" /\ c.peer \in Peers /\ c.partitions \in Nat /\ c.msg \in STRING
    BY <1>1, <1>3, CallFields DEF MPIX_Psend_init, Calls
  <2> DEFINE made == [NoRequest EXCEPT !.kind = "send", !.peer = c.peer, !.dest = c.peer,
                        !.partition_count = c.partitions, !.block = SEND_BLOCK, !.msg = c.msg]
  <2>2. made \in RequestRecord
    BY <2>1 DEF NoRequest, RequestRecord
  <2>3. BlockTellsKind(made)
    BY DEF NoRequest, BlockTellsKind, SEND_BLOCK, RECV_BLOCK
  <2>4. requests' = [requests EXCEPT ![r][c.req] = made]
    BY <1>3 DEF MPIX_Psend_init
  <2> QED  BY <2>2, <2>3, <2>4
<1>4. CASE MPIX_Precv_init(r)
  <2>1. c.op = "precv_init" /\ c.peer \in Peers /\ c.partitions \in Nat
    BY <1>1, <1>4, CallFields DEF MPIX_Precv_init, Calls
  <2> DEFINE made == [NoRequest EXCEPT !.kind = "recv", !.peer = c.peer,
                        !.partition_count = c.partitions, !.block = RECV_BLOCK]
  <2>2. made \in RequestRecord
    BY <1>2, <2>1 DEF NoRequest, RequestRecord
  <2>3. BlockTellsKind(made)
    BY DEF NoRequest, BlockTellsKind, SEND_BLOCK, RECV_BLOCK
  <2>4. requests' = [requests EXCEPT ![r][c.req] = made]
    BY <1>4 DEF MPIX_Precv_init
  <2> QED  BY <2>2, <2>3, <2>4
<1>5. CASE MPIX_Request_free(r)
  BY <1>2, <1>5 DEF MPIX_Request_free
<1> QED  BY <1>3, <1>4, <1>5

\* MPIX_Psend_init, MPIX_Precv_init and MPIX_Request_free: the request has no
\* mark that the new state would misname.
LEMMA RequestCalls ==
  ASSUME IInv, MarksUntilWait, NEW r \in Ranks,
         MPIX_Psend_init(r) \/ MPIX_Precv_init(r) \/ MPIX_Request_free(r)
  PROVE  IInv'
<1> DEFINE c == Call(r)
<1>1. PICK op \in {"psend_init", "precv_init", "free"} : Calls(r, op)
  BY DEF MPIX_Psend_init, MPIX_Precv_init, MPIX_Request_free
<1>2. c \in MainCall /\ c.op = op /\ c.req \in Requests
  BY <1>1, TypesOfText, CallsAreTyped, CallFields DEF IInv
<1>3. UNCHANGED <<scenario, tpc, noaccess, report, lent, raced>>
  BY DEF MPIX_Psend_init, MPIX_Precv_init, MPIX_Request_free, memcheck, history
<1>4. PICK new \in RequestRecord : /\ BlockTellsKind(new)
                                   /\ requests' = [requests EXCEPT ![r][c.req] = new]
  BY TypesOfText, RequestsAreRenewed DEF IInv
<1>5. /\ \A x \in Ranks : x # r => pc'[x] = pc[x]
      /\ pc' \in [Ranks -> Nat \ {0}]
      /\ \A x \in Ranks : IsProgram(Code(x))' /\ pc'[x] <= Len(Code(x)') + 1
      /\ ~InRegion(r)'
  BY <1>1, <1>3, TypesOfText, CallsMove DEF IInv
<1>6. /\ requests' \in [Ranks -> [Requests -> RequestRecord]]
      /\ \A x \in Ranks : x # r => requests'[x] = requests[x]
      /\ \A q \in Requests : q # c.req => requests'[r][q] = requests[r][q]
      /\ requests'[r][c.req] = new
  BY <1>2, <1>4 DEF IInv, TypeInv
<1>7. TypeInv'
  BY <1>3, <1>5, <1>6 DEF IInv, TypeInv
<1>8. noaccess[r] = lent[r]
  BY <1>1, TaintIsLoan DEF IInv
<1>9. \A l \in noaccess[r] : MayMark(r, l[1], l[2])'
  <2>1. \A l \in noaccess[r] : l[1] # c.req /\ l[1] \in Requests
    BY <1>1, <1>2, TypesOfText, CallsAreTyped DEF IInv, TypeInv, MarksUntilWait, Marked
  <2> QED  BY <1>6, <2>1 DEF IInv, RankInv, MayMark
<1>10. \A q \in Requests : BlockTellsKind(requests'[r][q])
  BY <1>4, <1>6 DEF IInv, RankInv
<1>11. RankInv(r)'
  BY <1>3, <1>5, <1>8, <1>9, <1>10 DEF IInv, RankInv, errors_introduced
<1> QED
  BY <1>3, <1>5, <1>6, <1>7, <1>11, OtherRanks DEF IInv

\* MPIX_Start.
LEMMA StartKeeps ==
  ASSUME IInv, NEW r \in Ranks, MPIX_Start(r)
  PROVE  IInv'
<1> DEFINE q == Call(r).req
<1>1. /\ Calls(r, "start") /\ requests' = [requests EXCEPT ![r][q].is_active = 1]
      /\ UNCHANGED <<scenario, tpc, noaccess, report, lent, raced>>
  BY DEF MPIX_Start, memcheck, history
<1>2. q \in Requests
  BY <1>1, TypesOfText, CallsAreTyped, CallFields DEF IInv
<1>3. /\ \A x \in Ranks : x # r => pc'[x] = pc[x]
      /\ pc' \in [Ranks -> Nat \ {0}]
      /\ \A x \in Ranks : IsProgram(Code(x))' /\ pc'[x] <= Len(Code(x)') + 1
      /\ ~InRegion(r)'
  BY <1>1, TypesOfText, CallsMove DEF IInv
<1>4. /\ requests' \in [Ranks -> [Requests -> RequestRecord]]
      /\ \A x \in Ranks : x # r => requests'[x] = requests[x]
      /\ \A p \in Requests : /\ requests'[r][p].block = requests[r][p].block
                             /\ requests'[r][p].kind = requests[r][p].kind
                             /\ requests'[r][p].partition_count = requests[r][p].partition_count
  <2> HIDE DEF q
  <2> DEFINE ready == requests[r][q].partitions_ready
  <2>1. requests[r][q] \in RequestRecord
    BY <1>2 DEF IInv, TypeInv
  <2>2. ready \in Nat
    BY <2>1 DEF RequestRecord
  <2>3. requests' = [requests EXCEPT ![r][q] = [requests[r][q] EXCEPT !.is_active = 1,
                                                                       !.partitions_ready = ready]]
    BY <1>1, <2>1 DEF RequestRecord
  <2> HIDE DEF ready
  <2> QED  BY <1>2, <2>2, <2>3, TypesOfText, FieldsAreKept DEF IInv
<1>5. TypeInv'
  BY <1>1, <1>3, <1>4 DEF IInv, TypeInv
<1>6. noaccess[r] = lent[r]
  BY <1>1, TaintIsLoan DEF IInv
<1>7. \A l \in noaccess[r] : MayMark(r, l[1], l[2])'
  <2>1. \A l \in noaccess[r] : l[1] \in Requests
    BY DEF IInv, TypeInv
  <2> QED  BY <1>4, <2>1 DEF IInv, RankInv, MayMark
<1>8. RankInv(r)'
  BY <1>1, <1>3, <1>4, <1>6, <1>7 DEF IInv, RankInv, BlockTellsKind, errors_introduced
<1> QED
  BY <1>1, <1>3, <1>4, <1>5, <1>8, OtherRanks DEF IInv

\* MPIX_Wait takes all its request's marks away, and leaves the loan.
LEMMA MPIX_WaitKeeps ==
  ASSUME IInv, NEW r \in Ranks, MPIX_Wait(r)
  PROVE  IInv'
<1>1. PICK q \in Requests : q = Call(r).req
  BY TypesOfText, CallsAreTyped, CallFields DEF IInv, MPIX_Wait
<1> DEFINE marks == {<<q, p>> : p \in 0 .. requests[r][q].partition_count - 1}
<1>2. /\ Calls(r, "mpix_wait")
      /\ noaccess' = [noaccess EXCEPT ![r] = noaccess[r] \ marks]
      /\ requests' = [requests EXCEPT ![r][q].is_active = 0, ![r][q].partitions_ready = 0]
      /\ UNCHANGED <<scenario, tpc, report, lent, raced>>
  BY <1>1 DEF MPIX_Wait, history
<1>3. /\ \A x \in Ranks : x # r => pc'[x] = pc[x]
      /\ pc' \in [Ranks -> Nat \ {0}]
      /\ \A x \in Ranks : IsProgram(Code(x))' /\ pc'[x] <= Len(Code(x)') + 1
      /\ ~InRegion(r)' /\ BehindWait(r, q)'
  BY <1>1, <1>2, TypesOfText, CallsMove DEF IInv
<1>4. /\ requests' \in [Ranks -> [Requests -> RequestRecord]]
      /\ \A x \in Ranks : x # r => requests'[x] = requests[x]
      /\ \A p \in Requests : /\ requests'[r][p].block = requests[r][p].block
                             /\ requests'[r][p].kind = requests[r][p].kind
                             /\ requests'[r][p].partition_count = requests[r][p].partition_count
  <2>1. requests' = [requests EXCEPT ![r][q] = [requests[r][q] EXCEPT !.is_active = 0,
                                                                       !.partitions_ready = 0]]
    BY <1>1, <1>2 DEF IInv, TypeInv
  <2> QED  BY <2>1, TypesOfText, FieldsAreKept DEF IInv
<1>5. /\ noaccess' \in [Ranks -> SUBSET (Requests \X Nat)]
      /\ \A x \in Ranks : x # r => noaccess'[x] = noaccess[x]
      /\ noaccess'[r] = noaccess[r] \ marks
  BY <1>2 DEF IInv, TypeInv
<1>6. TypeInv'
  BY <1>2, <1>3, <1>4, <1>5 DEF IInv, TypeInv
<1>7. noaccess[r] = lent[r] /\ \A l \in noaccess[r] : l \in Requests \X Nat
  BY <1>2, TaintIsLoan DEF IInv, TypeInv
<1>8. \A l \in noaccess'[r] : MayMark(r, l[1], l[2])'
  BY <1>4, <1>5, <1>7 DEF IInv, RankInv, MayMark
<1>9. \A l \in lent[r] : l \notin noaccess'[r] => l[1] = q
  BY <1>5, <1>7
<1>10. \A l \in lent'[r] : l \notin noaccess'[r] => BehindWait(r, l[1])'
  BY <1>2, <1>3, <1>9
<1>11. \A k \in Requests : BlockTellsKind(requests'[r][k])
  BY <1>4 DEF IInv, RankInv, BlockTellsKind
<1>12. RankInv(r)'
  BY <1>2, <1>3, <1>5, <1>7, <1>8, <1>10, <1>11 DEF IInv, RankInv, errors_introduced
<1> QED
  BY <1>2, <1>3, <1>4, <1>5, <1>6, <1>12, OtherRanks DEF IInv

-----------------------------------------------------------------------------
(* Marks, and the threads.                                                 *)

\* A mark of a request that may be marked adds to the taint and to the loan.
LEMMA MarkKeeps ==
  ASSUME TypeInv, NEW r \in Ranks, RankInv(r), noaccess[r] = lent[r],
         NEW q \in Requests, NEW p \in Nat, MayMark(r, q, p), MarkReady(r, q, p)
  PROVE  /\ requests' \in [Ranks -> [Requests -> RequestRecord]]
         /\ noaccess' \in [Ranks -> SUBSET (Requests \X Nat)]
         /\ lent' \in [Ranks -> SUBSET (Requests \X Nat)]
         /\ \A x \in Ranks : x # r => /\ requests'[x] = requests[x]
                                      /\ noaccess'[x] = noaccess[x] /\ lent'[x] = lent[x]
         /\ noaccess'[r] = lent'[r]
         /\ \A l \in noaccess'[r] : MayMark(r, l[1], l[2])'
         /\ \A k \in Requests : BlockTellsKind(requests'[r][k])
<1>1. /\ requests' = [requests EXCEPT ![r][q].partitions_ready = requests[r][q].partitions_ready + 1]
      /\ noaccess' = [noaccess EXCEPT ![r] = noaccess[r] \cup {<<q, p>>}]
      /\ lent' = [lent EXCEPT ![r] = lent[r] \cup {<<q, p>>}]
  BY DEF MarkReady
<1>2. /\ requests' \in [Ranks -> [Requests -> RequestRecord]]
      /\ \A x \in Ranks : x # r => requests'[x] = requests[x]
      /\ \A k \in Requests : /\ requests'[r][k].block = requests[r][k].block
                             /\ requests'[r][k].kind = requests[r][k].kind
                             /\ requests'[r][k].partition_count = requests[r][k].partition_count
  <2> DEFINE ready == requests[r][q].partitions_ready + 1
  <2>1. requests[r][q] \in RequestRecord
    BY DEF TypeInv
  <2>2. ready \in Nat /\ requests[r][q].is_active \in {0, 1}
    BY <2>1 DEF RequestRecord
  <2>3. requests' = [requests EXCEPT ![r][q] = [requests[r][q] EXCEPT
                       !.is_active = requests[r][q].is_active, !.partitions_ready = ready]]
    BY <1>1, <2>1 DEF RequestRecord
  <2> HIDE DEF ready
  <2> QED  BY <2>2, <2>3, TypesOfText, FieldsAreKept
<1>3. /\ noaccess' \in [Ranks -> SUBSET (Requests \X Nat)]
      /\ lent' \in [Ranks -> SUBSET (Requests \X Nat)]
      /\ \A x \in Ranks : x # r => noaccess'[x] = noaccess[x] /\ lent'[x] = lent[x]
      /\ noaccess'[r] = noaccess[r] \cup {<<q, p>>} /\ lent'[r] = noaccess'[r]
  BY <1>1 DEF TypeInv
<1>4. \A l \in noaccess[r] : l[1] \in Requests /\ MayMark(r, l[1], l[2])
  BY DEF TypeInv, RankInv
<1>5. \A l \in noaccess'[r] : MayMark(r, l[1], l[2])'
  <2>1. \A l \in noaccess'[r] : l[1] \in Requests /\ MayMark(r, l[1], l[2])
    BY <1>3, <1>4
  <2> QED  BY <1>2, <2>1 DEF MayMark
<1>6. \A k \in Requests : BlockTellsKind(requests'[r][k])
  BY <1>2 DEF RankInv, BlockTellsKind
<1> QED
  BY <1>2, <1>3, <1>5, <1>6

\* MPIX_Pready of the main thread.
LEMMA PreadyKeeps ==
  ASSUME IInv, MarksUntilWait, NEW r \in Ranks, MPIX_Pready(r)
  PROVE  IInv'
<1> DEFINE q == Call(r).req
           p == Call(r).partition
<1>1. /\ Calls(r, "pready") /\ MarkReady(r, q, p)
      /\ UNCHANGED <<scenario, tpc, report, raced>>
  BY DEF MPIX_Pready
<1>2. q \in Requests /\ p \in Nat /\ MayMark(r, q, p)
  BY <1>1, TypesOfText, CallsAreTyped, CallFields DEF IInv, MarksUntilWait
<1>3. /\ \A x \in Ranks : x # r => pc'[x] = pc[x]
      /\ pc' \in [Ranks -> Nat \ {0}]
      /\ \A x \in Ranks : IsProgram(Code(x))' /\ pc'[x] <= Len(Code(x)') + 1
      /\ ~InRegion(r)'
  BY <1>1, TypesOfText, CallsMove DEF IInv
<1>4. noaccess[r] = lent[r]
  BY <1>1, TaintIsLoan DEF IInv
<1> HIDE DEF q, p
<1>5. /\ requests' \in [Ranks -> [Requests -> RequestRecord]]
      /\ noaccess' \in [Ranks -> SUBSET (Requests \X Nat)]
      /\ lent' \in [Ranks -> SUBSET (Requests \X Nat)]
      /\ \A x \in Ranks : x # r => /\ requests'[x] = requests[x]
                                   /\ noaccess'[x] = noaccess[x] /\ lent'[x] = lent[x]
      /\ noaccess'[r] = lent'[r]
      /\ \A l \in noaccess'[r] : MayMark(r, l[1], l[2])'
      /\ \A k \in Requests : BlockTellsKind(requests'[r][k])
  BY <1>1, <1>2, <1>4, MarkKeeps DEF IInv
<1>6. TypeInv'
  BY <1>1, <1>3, <1>5 DEF IInv, TypeInv
<1>7. RankInv(r)'
  BY <1>1, <1>3, <1>5 DEF IInv, RankInv, errors_introduced
<1> QED
  BY <1>1, <1>3, <1>5, <1>6, <1>7, OtherRanks DEF IInv

\* What a region's threads may do: their rank's program stays where it is, and
\* what is lent is what is tainted.
LEMMA ThreadsMove ==
  ASSUME IInv, NEW r \in Ranks, NEW t \in DOMAIN Threads(r), NEW op, Does(r, t, op),
         UNCHANGED <<scenario, pc>>
  PROVE  /\ noaccess[r] = lent[r]
         /\ tpc' \in [Ranks -> Seq(Nat \ {0})] /\ \A x \in Ranks : x # r => tpc'[x] = tpc[x]
         /\ Len(tpc'[r]) = Len(Threads(r)')
         /\ \A x \in Ranks : IsProgram(Code(x))' /\ pc'[x] <= Len(Code(x)') + 1
<1>1. /\ InRegion(r) /\ t \in DOMAIN tpc[r] /\ tpc[r][t] \in Nat \ {0}
      /\ tpc' = [tpc EXCEPT ![r][t] = tpc[r][t] + 1]
  BY ThreadsAreTyped DEF IInv
<1>2. noaccess[r] = lent[r]
  BY <1>1, TaintIsLoan DEF IInv
<1>3. tpc' \in [Ranks -> Seq(Nat \ {0})] /\ Len(tpc'[r]) = Len(tpc[r])
      /\ \A x \in Ranks : x # r => tpc'[x] = tpc[x]
  BY <1>1 DEF IInv, TypeInv
<1>4. Threads(r)' = Threads(r) /\ Len(tpc[r]) = Len(Threads(r))
  BY <1>1 DEF IInv, RankInv, Threads, Code
<1>5. \A x \in Ranks : IsProgram(Code(x))' /\ pc'[x] <= Len(Code(x)') + 1
  BY DEF IInv, TypeInv, IsProgram, Code
<1> QED
  BY <1>2, <1>3, <1>4, <1>5

\* Loads and stores: memcheck reports the access as one that counts exactly
\* when it is wrong.
LEMMA AccessKeeps ==
  ASSUME IInv, NEW r \in Ranks, NEW t \in DOMAIN Threads(r),
         NEW op \in {"load", "store"}, NEW kind,
         kind = IF op = "load" THEN "InvalidRead" ELSE "InvalidWrite",
         Access(r, t, op, kind)
  PROVE  IInv'
<1> DEFINE s == StepOf(r, t)
           location == <<s.req, s.partition>>
           case == [kind |-> kind, block |-> requests[r][s.req].block]
           wrong == location \in lent[r] /\ (op = "store" \/ requests[r][s.req].kind = "recv")
<1>1. /\ Does(r, t, op)
      /\ report' = IF location \in noaccess[r]
                   THEN [report EXCEPT ![r] = report[r] \cup {case}] ELSE report
      /\ raced' = [raced EXCEPT ![r] = raced[r] \/ wrong]
      /\ UNCHANGED <<scenario, pc, requests, noaccess, lent>>
  BY DEF Access
<1>2. s \in ThreadStep
  BY <1>1, ThreadsAreTyped DEF IInv
<1>3. s.req \in Requests /\ case \in Cases
  BY <1>2 DEF ThreadStep, Cases, IInv, TypeInv, RequestRecord
<1>4. /\ noaccess[r] = lent[r]
      /\ tpc' \in [Ranks -> Seq(Nat \ {0})] /\ \A x \in Ranks : x # r => tpc'[x] = tpc[x]
      /\ Len(tpc'[r]) = Len(Threads(r)')
      /\ \A x \in Ranks : IsProgram(Code(x))' /\ pc'[x] <= Len(Code(x)') + 1
  BY <1>1, ThreadsMove
<1>5. location \in lent[r] => (originates_from_communication_partition(case) <=> wrong)
  <2> SUFFICES ASSUME location \in lent[r]
               PROVE  originates_from_communication_partition(case) <=> wrong
    OBVIOUS
  <2>1. requests[r][s.req].block \in {SEND_BLOCK, RECV_BLOCK}
    <3>1. MayMark(r, location[1], location[2])
      BY <1>4 DEF IInv, RankInv
    <3> QED  BY <1>3, <3>1 DEF MayMark, IInv, TypeInv, RequestRecord
  <2>2. BlockTellsKind(requests[r][s.req])
    BY <1>3 DEF IInv, RankInv
  <2> QED
    BY <2>1, <2>2 DEF originates_from_communication_partition, BlockTellsKind, SEND_BLOCK, RECV_BLOCK
<1> HIDE DEF s, case, location, wrong
<1>6. /\ report' \in [Ranks -> SUBSET Cases]
      /\ \A x \in Ranks : x # r => report'[x] = report[x]
      /\ report'[r] = IF location \in noaccess[r] THEN report[r] \cup {case} ELSE report[r]
  BY <1>1, <1>3 DEF IInv, TypeInv
<1>7. /\ raced' \in [Ranks -> BOOLEAN]
      /\ \A x \in Ranks : x # r => raced'[x] = raced[x]
      /\ raced'[r] <=> raced[r] \/ wrong
  <2>1. (raced[r] \/ wrong) \in BOOLEAN
    OBVIOUS
  <2> QED  BY <1>1, <2>1 DEF IInv, TypeInv
<1>8. TypeInv'
  BY <1>1, <1>4, <1>6, <1>7 DEF IInv, TypeInv
<1>9. raced'[r] <=> errors_introduced(r)' # {}
  <2>1. wrong => location \in lent[r]
    BY DEF wrong
  <2>2. raced[r] <=> \E c \in report[r] : originates_from_communication_partition(c)
    BY DEF IInv, RankInv, errors_introduced
  <2>3. raced'[r] <=> \E c \in report'[r] : originates_from_communication_partition(c)
    BY <1>4, <1>5, <1>6, <1>7, <2>1, <2>2
  <2> QED  BY <2>3 DEF errors_introduced
<1>10. RankInv(r)'
  BY <1>1, <1>4, <1>9 DEF IInv, RankInv, MayMark
<1> QED
  BY <1>1, <1>4, <1>6, <1>7, <1>8, <1>10, OtherRanks DEF IInv

\* MPIX_Pready of a thread.
LEMMA SignOffKeeps ==
  ASSUME IInv, MarksUntilWait, NEW r \in Ranks, NEW t \in DOMAIN Threads(r), SignOff(r, t)
  PROVE  IInv'
<1> DEFINE q == StepOf(r, t).req
           p == StepOf(r, t).partition
<1>1. /\ Does(r, t, "pready") /\ MarkReady(r, q, p)
      /\ UNCHANGED <<scenario, pc, report, raced>>
  BY DEF SignOff
<1>2. q \in Requests /\ p \in Nat
  BY <1>1, ThreadsAreTyped DEF IInv, ThreadStep
<1>3. MayMark(r, q, p)
  BY <1>1 DEF Does, MarksUntilWait
<1>4. /\ noaccess[r] = lent[r]
      /\ tpc' \in [Ranks -> Seq(Nat \ {0})] /\ \A x \in Ranks : x # r => tpc'[x] = tpc[x]
      /\ Len(tpc'[r]) = Len(Threads(r)')
      /\ \A x \in Ranks : IsProgram(Code(x))' /\ pc'[x] <= Len(Code(x)') + 1
  BY <1>1, ThreadsMove
<1> HIDE DEF q, p
<1>5. /\ requests' \in [Ranks -> [Requests -> RequestRecord]]
      /\ noaccess' \in [Ranks -> SUBSET (Requests \X Nat)]
      /\ lent' \in [Ranks -> SUBSET (Requests \X Nat)]
      /\ \A x \in Ranks : x # r => /\ requests'[x] = requests[x]
                                   /\ noaccess'[x] = noaccess[x] /\ lent'[x] = lent[x]
      /\ noaccess'[r] = lent'[r]
      /\ \A l \in noaccess'[r] : MayMark(r, l[1], l[2])'
      /\ \A k \in Requests : BlockTellsKind(requests'[r][k])
  BY <1>1, <1>2, <1>3, <1>4, MarkKeeps DEF IInv
<1>6. TypeInv'
  BY <1>1, <1>4, <1>5 DEF IInv, TypeInv
<1>7. RankInv(r)'
  BY <1>1, <1>4, <1>5 DEF IInv, RankInv, errors_introduced
<1> QED
  BY <1>1, <1>4, <1>5, <1>6, <1>7, OtherRanks DEF IInv

-----------------------------------------------------------------------------
(* The theorem.                                                            *)

LEMMA InitImpliesIInv == Init => IInv
<1> SUFFICES ASSUME Init PROVE IInv
  OBVIOUS
<1>1. \A r \in Ranks : IsProgram(Code(r))
  <2>1. PICK i \in DOMAIN Scenarios : scenario = Scenarios[i]
    BY DEF Init, ToSet
  <2> QED  BY <2>1, ProgramsAssumption DEF Code
<1>2. NoRequest \in RequestRecord /\ BlockTellsKind(NoRequest)
  BY NoRequestIsTyped
<1>3. TypeInv
  BY <1>1, <1>2 DEF Init, TypeInv, IsProgram
<1>4. \A r \in Ranks : RankInv(r)
  BY <1>2 DEF Init, RankInv, InRegion, errors_introduced
<1> QED
  BY <1>3, <1>4 DEF IInv

LEMMA StepKeepsIInv == IInv /\ MarksUntilWait /\ [Next]_vars => IInv'
<1> SUFFICES ASSUME IInv, MarksUntilWait, [Next]_vars PROVE IInv'
  OBVIOUS
<1>1. ASSUME UNCHANGED <<scenario, pc, tpc, requests, noaccess, report, lent, raced>>
      PROVE  IInv'
  <2>1. TypeInv'
    BY <1>1 DEF IInv, TypeInv, IsProgram, Code
  <2> QED  BY <1>1, <2>1, OtherRanks DEF IInv
<1>2. CASE UNCHANGED vars
  BY <1>1, <1>2 DEF vars
<1>3. CASE \E r \in Ranks : Rank(r)
  BY <1>3, PlainCalls, WaitKeeps, RequestCalls, StartKeeps, PreadyKeeps, MPIX_WaitKeeps DEF Rank
<1>4. CASE \E r \in Ranks : Buffer(r)
  BY <1>1, <1>4 DEF Buffer, memcheck, history
<1>5. CASE \E s, d \in Ranks : Deliver(s, d)
  BY <1>1, <1>5 DEF Deliver, memcheck, history
<1>6. CASE \E r \in Ranks : \E t \in DOMAIN Threads(r) : Thread(r, t)
  <2>0. PICK r \in Ranks : \E t \in DOMAIN Threads(r) : Thread(r, t)
    BY <1>6
  <2>1. PICK t \in DOMAIN Threads(r) : Thread(r, t)
    BY <2>0
  <2>2. CASE Load(r, t)
    <3>1. Access(r, t, "load", "InvalidRead")
      BY <2>2 DEF Load
    <3> QED  BY <3>1, AccessKeeps
  <2>3. CASE Store(r, t)
    <3>1. Access(r, t, "store", "InvalidWrite")
      BY <2>3 DEF Store
    <3> QED  BY <3>1, AccessKeeps
  <2>4. CASE SignOff(r, t)
    BY <2>4, SignOffKeeps
  <2> QED  BY <2>1, <2>2, <2>3, <2>4 DEF Thread
<1> QED
  BY <1>2, <1>3, <1>4, <1>5, <1>6 DEF Next

LEMMA IInvImpliesExact == IInv => ReportIsExact
BY DEF IInv, RankInv, ReportIsExact, OVERALL_EXIT, EXITCODE

(* ReportIsExact, for every number of ranks, threads, partitions and calls *)
(* in which each MPIX_Wait ends with its MPI_Wait, and for all programs    *)
(* that mark partitions of initialised requests only and free none that is *)
(* marked: the script fails exactly when a thread has stored to a          *)
(* partition that was lent to MPI, or read one that MPI receives into.     *)
THEOREM ReportsAreExact == Spec /\ []MarksUntilWait => []ReportIsExact
<1>1. Init => IInv
  BY InitImpliesIInv
<1>2. IInv /\ MarksUntilWait /\ [Next]_vars => IInv'
  BY StepKeepsIInv
<1>3. IInv => ReportIsExact
  BY IInvImpliesExact
<1> QED
  BY <1>1, <1>2, <1>3, PTL DEF Spec

-----------------------------------------------------------------------------
(* The marks.                                                              *)

\* What is marked has been marked by the text, and what is initialised too.
MarkInv(r) ==
  /\ \A l \in noaccess[r] : \E i \in 1 .. pc[r] - 1 :
       /\ l \in MarkedBy(Code(r)[i])
       /\ \A k \in i + 1 .. pc[r] - 1 : ~EndsMarks(Code(r)[k], l[1])
  /\ \A j \in 1 .. pc[r] - 1 : \A q \in Requests :
       Initialises(Code(r)[j], q) /\ (\A k \in j + 1 .. pc[r] - 1 : ~Renews(Code(r)[k], q))
         => /\ requests[r][q].block # "none"
            /\ requests[r][q].partition_count = Code(r)[j].partitions

TextInv == IInv /\ \A r \in Ranks : MarkInv(r) /\ MarksAreOrdered(Code(r))

\* A thread's MPIX_Pready is one of its region's marks.
LEMMA RegionMarks ==
  ASSUME TypeInv, NEW r \in Ranks, RankInv(r), NEW t \in DOMAIN Threads(r),
         tpc[r][t] <= Len(Threads(r)[t]), StepOf(r, t).op = "pready"
  PROVE  /\ pc[r] - 1 \in 1 .. Len(Code(r)) /\ Code(r)[pc[r] - 1].op = "fork"
         /\ StepOf(r, t).req \in Requests /\ StepOf(r, t).partition \in Nat
         /\ <<StepOf(r, t).req, StepOf(r, t).partition>> \in MarkedBy(Code(r)[pc[r] - 1])
<1> DEFINE c == Code(r)[pc[r] - 1]
           s == StepOf(r, t)
<1>1. /\ s \in ThreadStep /\ s \in ToSet(Threads(r)[t])
      /\ pc[r] - 1 \in 1 .. Len(Code(r)) /\ Threads(r) = c.threads /\ c.op = "fork"
  BY StepsAreTyped DEF InRegion
<1>2. s \in {x \in UNION {ToSet(c.threads[u]) : u \in DOMAIN c.threads} : x.op = "pready"}
  BY <1>1
<1>3. QED
  BY <1>1, <1>2 DEF MarkedBy, ThreadStep

\* Marks that follow the text are in order.
LEMMA OrderedText == TextInv => MarksUntilWait
<1> SUFFICES ASSUME TextInv, NEW r \in Ranks
             PROVE  /\ Joined(r) /\ pc[r] <= Len(Code(r)) =>
                         LET c == Call(r)
                         IN  /\ c.op \in {"psend_init", "precv_init", "free"} => ~Marked(r, c.req)
                             /\ c.op = "wait" => \A q \in c.reqs : ~Marked(r, q)
                             /\ c.op = "pready" => MayMark(r, c.req, c.partition)
                    /\ \A t \in DOMAIN Threads(r) :
                         tpc[r][t] <= Len(Threads(r)[t]) /\ StepOf(r, t).op = "pready"
                           => MayMark(r, StepOf(r, t).req, StepOf(r, t).partition)
  BY DEF MarksUntilWait
<1> DEFINE code == Code(r)
           at == pc[r]
<1>1. /\ TypeInv /\ RankInv(r) /\ MarkInv(r) /\ MarksAreOrdered(code) /\ at \in Nat \ {0}
      /\ at <= Len(code) + 1 /\ code \in Seq(MainCall)
  BY DEF TextInv, IInv, TypeInv, IsProgram
<1>2. ASSUME NEW q, at <= Len(code),
             Renews(code[at], q) \/ (code[at].op = "wait" /\ q \in code[at].reqs)
      PROVE  ~Marked(r, q)
  <2> SUFFICES ASSUME NEW l \in noaccess[r], l[1] = q PROVE FALSE
    BY DEF Marked
  <2>1. PICK i \in 1 .. at - 1 : /\ l \in MarkedBy(code[i])
                                 /\ \A k \in i + 1 .. at - 1 : ~EndsMarks(code[k], l[1])
    BY <1>1 DEF MarkInv
  <2>2. i \in DOMAIN code /\ at \in i + 1 .. Len(code)
    BY <1>1, <1>2, <2>1
  <2>3. \E j \in i + 1 .. at - 1 : EndsMarks(code[j], q)
    BY <1>1, <1>2, <2>1, <2>2 DEF MarksAreOrdered
  <2>4. QED
    BY <2>1, <2>3
<1>3. ASSUME NEW i \in DOMAIN code, NEW q \in Requests, NEW p, <<q, p>> \in MarkedBy(code[i]),
             i = at \/ (i = at - 1 /\ code[i].op = "fork")
      PROVE  MayMark(r, q, p)
  <2>1. PICK j \in 1 .. i - 1 : /\ Initialises(code[j], q) /\ p < code[j].partitions
                                /\ \A k \in j + 1 .. i - 1 : ~Renews(code[k], q)
    BY <1>1, <1>3 DEF MarksAreOrdered
  <2>2. \A k \in j + 1 .. at - 1 : ~Renews(code[k], q)
    <3>1. code[i].op = "fork" => ~Renews(code[i], q)
      BY DEF Renews, Initialises
    <3>2. QED
      BY <1>1, <1>3, <2>1, <3>1
  <2>3. j \in 1 .. at - 1
    BY <1>1, <1>3, <2>1
  <2>4. QED
    BY <1>1, <2>1, <2>2, <2>3 DEF MarkInv, MayMark
<1>4. ASSUME at <= Len(code), code[at].op = "pready"
      PROVE  MayMark(r, code[at].req, code[at].partition)
  <2>1. at \in DOMAIN code /\ code[at] \in MainCall
    BY <1>1, <1>4
  <2>2. code[at].req \in Requests
    BY <1>4, <2>1, CallFields
  <2>3. <<code[at].req, code[at].partition>> \in MarkedBy(code[at])
    BY <1>4 DEF MarkedBy
  <2>4. QED
    BY <1>3, <2>1, <2>2, <2>3
<1>5. ASSUME NEW t \in DOMAIN Threads(r), tpc[r][t] <= Len(Threads(r)[t]),
             StepOf(r, t).op = "pready"
      PROVE  MayMark(r, StepOf(r, t).req, StepOf(r, t).partition)
  <2> DEFINE s == StepOf(r, t)
  <2>1. PICK i \in 1 .. Len(code) : /\ i = at - 1 /\ code[i].op = "fork"
                                    /\ <<s.req, s.partition>> \in MarkedBy(code[i])
    BY <1>1, <1>5, RegionMarks
  <2>2. s.req \in Requests
    BY <1>1, <1>5, RegionMarks
  <2>3. QED
    BY <1>3, <2>1, <2>2
<1>6. QED
  BY <1>2, <1>4, <1>5 DEF Call, Renews, Initialises

-----------------------------------------------------------------------------
(* What a call does to the marks and to what they are judged by.           *)

LEMMA CallMarks ==
  ASSUME TypeInv, NEW r \in Ranks, MarkInv(r), NEW op, Calls(r, op), UNCHANGED scenario,
         noaccess'[r] \subseteq noaccess[r] \cup MarkedBy(Call(r)),
         op = "mpix_wait" => \A l \in noaccess'[r] : l[1] # Call(r).req,
         \A q \in Requests : ~Renews(Call(r), q) =>
           /\ requests'[r][q].block = requests[r][q].block
           /\ requests'[r][q].partition_count = requests[r][q].partition_count,
         \A q \in Requests : Initialises(Call(r), q) =>
           /\ requests'[r][q].block # "none"
           /\ requests'[r][q].partition_count = Call(r).partitions
  PROVE  MarkInv(r)'
<1> DEFINE code == Code(r)
           at == pc[r]
<1>1. /\ Call(r) = code[at] /\ code[at].op = op /\ at \in 1 .. Len(code) /\ at \in Nat
      /\ pc'[r] = at + 1 /\ Code(r)' = code
  BY TypesOfText, CallsAreTyped, CallsMove DEF Call, Code, TypeInv
<1>2. ASSUME NEW l \in noaccess'[r]
      PROVE  \E i \in 1 .. at : /\ l \in MarkedBy(code[i])
                                /\ \A k \in i + 1 .. at : ~EndsMarks(code[k], l[1])
  <2>1. CASE l \in MarkedBy(code[at])
    BY <1>1, <2>1
  <2>2. CASE l \notin MarkedBy(code[at])
    <3>1. l \in noaccess[r]
      BY <1>1, <1>2, <2>2
    <3>2. PICK i \in 1 .. at - 1 : /\ l \in MarkedBy(code[i])
                                   /\ \A k \in i + 1 .. at - 1 : ~EndsMarks(code[k], l[1])
      BY <3>1 DEF MarkInv
    <3>3. ~EndsMarks(code[at], l[1])
      BY <1>1, <1>2 DEF EndsMarks
    <3>4. \A k \in i + 1 .. at : ~EndsMarks(code[k], l[1])
      BY <1>1, <3>2, <3>3
    <3>5. QED
      BY <1>1, <3>2, <3>4
  <2>3. QED
    BY <2>1, <2>2
<1>3. ASSUME NEW j \in 1 .. at, NEW q \in Requests, Initialises(code[j], q),
             \A k \in j + 1 .. at : ~Renews(code[k], q)
      PROVE  /\ requests'[r][q].block # "none"
             /\ requests'[r][q].partition_count = code[j].partitions
  <2>1. CASE j = at
    BY <1>1, <1>3, <2>1
  <2>2. CASE j # at
    <3>1. j \in 1 .. at - 1 /\ at \in j + 1 .. at
      BY <1>1, <2>2
    <3>2. ~Renews(code[at], q) /\ \A k \in j + 1 .. at - 1 : ~Renews(code[k], q)
      BY <1>1, <1>3, <3>1
    <3>3. QED
      BY <1>1, <1>3, <3>1, <3>2 DEF MarkInv
  <2>3. QED
    BY <2>1, <2>2
<1>4. pc'[r] - 1 = at
  BY <1>1
<1>5. QED
  BY <1>1, <1>2, <1>3, <1>4 DEF MarkInv

\* What other ranks do is none of a rank's business here, either.
LEMMA OtherMarks ==
  ASSUME NEW r \in Ranks, MarkInv(r), UNCHANGED scenario,
         pc'[r] = pc[r], requests'[r] = requests[r], noaccess'[r] = noaccess[r]
  PROVE  MarkInv(r)'
BY DEF MarkInv, Code

\* The calls that mark nothing and initialise nothing.
LEMMA IdleCallMarks ==
  ASSUME TypeInv, NEW r \in Ranks, MarkInv(r), NEW op, Calls(r, op), UNCHANGED scenario,
         op \notin {"psend_init", "precv_init", "free", "mpix_wait"},
         noaccess'[r] = noaccess[r],
         \A q \in Requests : /\ requests'[r][q].block = requests[r][q].block
                             /\ requests'[r][q].partition_count = requests[r][q].partition_count
  PROVE  MarkInv(r)'
<1>1. Call(r).op = op
  BY TypesOfText, CallsAreTyped
<1>2. \A q \in Requests : ~Initialises(Call(r), q)
  BY <1>1 DEF Initialises
<1>3. QED
  BY <1>2, CallMarks

\* The program is chosen once.
LEMMA CallKeepsScenario ==
  ASSUME NEW r \in Ranks, Rank(r)
  PROVE  UNCHANGED scenario
<1>1. CASE Communicate(r) \/ Wait(r) \/ Fork(r) \/ Compute(r)
  BY <1>1 DEF Communicate, Wait, Fork, Compute
<1>2. CASE MPIX_Psend_init(r) \/ MPIX_Precv_init(r) \/ MPIX_Request_free(r)
  BY <1>2 DEF MPIX_Psend_init, MPIX_Precv_init, MPIX_Request_free
<1>3. CASE MPIX_Start(r) \/ MPIX_Pready(r)
  BY <1>3 DEF MPIX_Start, MPIX_Pready
<1>4. CASE MPIX_Wait(r)
  BY <1>4 DEF MPIX_Wait
<1>5. QED
  BY <1>1, <1>2, <1>3, <1>4 DEF Rank

LEMMA StepKeepsScenario ==
  ASSUME [Next]_vars
  PROVE  UNCHANGED scenario
<1>1. ASSUME NEW r \in Ranks, Rank(r) PROVE UNCHANGED scenario
  BY <1>1, CallKeepsScenario
<1>2. ASSUME NEW r \in Ranks, Buffer(r) PROVE UNCHANGED scenario
  BY <1>2 DEF Buffer
<1>3. ASSUME NEW r \in Ranks, NEW t \in DOMAIN Threads(r), Thread(r, t) PROVE UNCHANGED scenario
  BY <1>3 DEF Thread, Load, Store, Access, SignOff
<1>4. ASSUME NEW a \in Ranks, NEW d \in Ranks, Deliver(a, d) PROVE UNCHANGED scenario
  BY <1>4 DEF Deliver
<1>5. CASE UNCHANGED vars
  BY <1>5 DEF vars
<1>6. QED
  BY <1>1, <1>2, <1>3, <1>4, <1>5 DEF Next

LEMMA MainCallMarks ==
  ASSUME TextInv, NEW r \in Ranks, Rank(r)
  PROVE  MarkInv(r)'
<1>1. /\ IInv /\ TypeInv /\ RankInv(r) /\ MarkInv(r)
  BY DEF TextInv, IInv
<1>2. UNCHANGED scenario
  BY CallKeepsScenario
<1>3. CASE Communicate(r) \/ Wait(r) \/ Fork(r) \/ Compute(r)
  <2>1. UNCHANGED <<requests, noaccess>>
    BY <1>3 DEF Communicate, Wait, Fork, Compute, memcheck
  <2>2. PICK op \in {"post", "wait", "fork", "region"} : Calls(r, op)
    BY <1>3 DEF Communicate, Wait, Fork, Compute
  <2>3. QED
    BY <1>1, <1>2, <2>1, <2>2, IdleCallMarks
<1>4. CASE MPIX_Psend_init(r) \/ MPIX_Precv_init(r) \/ MPIX_Request_free(r)
  <2> DEFINE c == Call(r)
  <2>1. PICK op \in {"psend_init", "precv_init", "free"} : Calls(r, op)
    BY <1>4 DEF MPIX_Psend_init, MPIX_Precv_init, MPIX_Request_free
  <2>2. c.op = op /\ c.req \in Requests /\ (op # "free" => c.partitions \in Nat)
    BY <1>1, <2>1, TypesOfText, CallsAreTyped, CallFields
  <2>3. noaccess' = noaccess
    BY <1>4 DEF MPIX_Psend_init, MPIX_Precv_init, MPIX_Request_free, memcheck
  <2>4. /\ \A q \in Requests : q # c.req => requests'[r][q] = requests[r][q]
        /\ op # "free" => /\ requests'[r][c.req].block # "none"
                          /\ requests'[r][c.req].partition_count = c.partitions
    <3>1. PICK new : /\ requests' = [requests EXCEPT ![r][c.req] = new]
                     /\ op # "free" => new.block # "none" /\ new.partition_count = c.partitions
      <4>1. CASE MPIX_Psend_init(r)
        <5> DEFINE made == [NoRequest EXCEPT !.kind = "send", !.peer = c.peer, !.dest = c.peer,
                              !.partition_count = c.partitions, !.block = SEND_BLOCK, !.msg = c.msg]
        <5>1. made.block # "none" /\ made.partition_count = c.partitions
          BY DEF NoRequest, SEND_BLOCK
        <5>2. requests' = [requests EXCEPT ![r][c.req] = made]
          BY <4>1 DEF MPIX_Psend_init
        <5> HIDE DEF made
        <5>3. QED
          BY <5>1, <5>2
      <4>2. CASE MPIX_Precv_init(r)
        <5> DEFINE made == [NoRequest EXCEPT !.kind = "recv", !.peer = c.peer,
                              !.partition_count = c.partitions, !.block = RECV_BLOCK]
        <5>1. made.block # "none" /\ made.partition_count = c.partitions
          BY DEF NoRequest, RECV_BLOCK
        <5>2. requests' = [requests EXCEPT ![r][c.req] = made]
          BY <4>2 DEF MPIX_Precv_init
        <5> HIDE DEF made
        <5>3. QED
          BY <5>1, <5>2
      <4>3. CASE MPIX_Request_free(r)
        <5>1. op = "free"
          BY <2>1, <2>2, <4>3 DEF MPIX_Request_free, Calls
        <5>2. QED
          BY <4>3, <5>1 DEF MPIX_Request_free
      <4>4. QED
        BY <1>4, <4>1, <4>2, <4>3
    <3>2. QED
      BY <1>1, <2>2, <3>1 DEF TypeInv
  <2>5. \A q \in Requests : ~Renews(c, q) => q # c.req
    BY <2>2 DEF Renews, Initialises
  <2>6. \A q \in Requests : Initialises(c, q) => q = c.req /\ op # "free"
    BY <2>2 DEF Initialises
  <2> HIDE DEF c
  <2>7. /\ \A q \in Requests : ~Renews(c, q) =>
             /\ requests'[r][q].block = requests[r][q].block
             /\ requests'[r][q].partition_count = requests[r][q].partition_count
        /\ \A q \in Requests : Initialises(c, q) =>
             /\ requests'[r][q].block # "none"
             /\ requests'[r][q].partition_count = c.partitions
    BY <2>4, <2>5, <2>6
  <2>8. QED
    BY <1>1, <1>2, <2>1, <2>3, <2>7, CallMarks DEF c
<1>5. CASE MPIX_Start(r)
  <2>1. Calls(r, "start") /\ noaccess' = noaccess
        /\ requests' = [requests EXCEPT ![r][Call(r).req].is_active = 1]
    BY <1>5 DEF MPIX_Start, memcheck
  <2>2. \A q \in Requests : /\ requests'[r][q].block = requests[r][q].block
                            /\ requests'[r][q].partition_count = requests[r][q].partition_count
    <3>1. requests \in [Ranks -> [Requests -> RequestRecord]]
      BY <1>1 DEF TypeInv
    <3>2. QED
      BY <2>1, <3>1 DEF RequestRecord
  <2>3. QED
    BY <1>1, <1>2, <2>1, <2>2, IdleCallMarks
<1>6. CASE MPIX_Pready(r)
  <2> DEFINE c == Call(r)
  <2>1. Calls(r, "pready") /\ MarkReady(r, c.req, c.partition)
    BY <1>6 DEF MPIX_Pready
  <2>2. c.op = "pready"
    BY <1>1, <2>1, TypesOfText, CallsAreTyped
  <2>3. noaccess'[r] \subseteq noaccess[r] \cup MarkedBy(c)
    BY <1>1, <2>1, <2>2 DEF MarkReady, MarkedBy, TypeInv
  <2>4. \A q \in Requests : /\ requests'[r][q].block = requests[r][q].block
                            /\ requests'[r][q].partition_count = requests[r][q].partition_count
    <3>1. requests \in [Ranks -> [Requests -> RequestRecord]]
      BY <1>1 DEF TypeInv
    <3>2. requests' = [requests EXCEPT ![r][c.req].partitions_ready = @ + 1]
      BY <2>1 DEF MarkReady
    <3>3. QED
      BY <3>1, <3>2 DEF RequestRecord
  <2>5. \A q \in Requests : ~Initialises(c, q)
    BY <2>2 DEF Initialises
  <2>6. QED
    BY <1>1, <1>2, <2>1, <2>3, <2>4, <2>5, CallMarks
<1>7. CASE MPIX_Wait(r)
  <2> DEFINE q == Call(r).req
  <2>1. /\ Calls(r, "mpix_wait")
        /\ noaccess' = [noaccess EXCEPT ![r] =
             @ \ {<<q, p>> : p \in 0 .. requests[r][q].partition_count - 1}]
        /\ requests' = [requests EXCEPT ![r][q].is_active = 0, ![r][q].partitions_ready = 0]
    BY <1>7 DEF MPIX_Wait
  <2>2. Call(r).op = "mpix_wait" /\ q \in Requests
    BY <1>1, <2>1, TypesOfText, CallsAreTyped, CallFields
  <2>3. noaccess'[r] \subseteq noaccess[r] /\ \A l \in noaccess'[r] : l[1] # q
    <3>1. noaccess'[r] = noaccess[r] \ {<<q, p>> : p \in 0 .. requests[r][q].partition_count - 1}
      BY <1>1, <2>1 DEF TypeInv
    <3>2. ASSUME NEW l \in noaccess[r], l[1] = q
          PROVE  \E p \in 0 .. requests[r][q].partition_count - 1 : l = <<q, p>>
      <4>1. l \in Requests \X Nat /\ l[2] < requests[r][q].partition_count
        BY <1>1, <3>2 DEF TypeInv, RankInv, MayMark
      <4>2. requests[r][q].partition_count \in Nat
        BY <1>1, <2>2 DEF TypeInv, RequestRecord
      <4>3. l[2] \in 0 .. requests[r][q].partition_count - 1 /\ l = <<q, l[2]>>
        BY <3>2, <4>1, <4>2
      <4>4. QED
        BY <4>3
    <3>3. QED
      BY <3>1, <3>2
  <2>4. \A k \in Requests : /\ requests'[r][k].block = requests[r][k].block
                            /\ requests'[r][k].partition_count = requests[r][k].partition_count
    <3>1. requests \in [Ranks -> [Requests -> RequestRecord]]
      BY <1>1 DEF TypeInv
    <3>2. QED
      BY <2>1, <3>1 DEF RequestRecord
  <2>5. \A k \in Requests : ~Initialises(Call(r), k)
    BY <2>2 DEF Initialises
  <2>6. QED
    BY <1>1, <1>2, <2>1, <2>3, <2>4, <2>5, CallMarks
<1>8. QED
  BY <1>3, <1>4, <1>5, <1>6, <1>7 DEF Rank

\* A thread adds a mark of its region only.
LEMMA ThreadMarks ==
  ASSUME TextInv, NEW r \in Ranks, NEW t \in DOMAIN Threads(r), Thread(r, t)
  PROVE  MarkInv(r)'
<1>1. TypeInv /\ RankInv(r) /\ MarkInv(r)
  BY DEF TextInv, IInv
<1>2. CASE Load(r, t) \/ Store(r, t)
  BY <1>1, <1>2, OtherMarks DEF Load, Store, Access
<1>3. CASE SignOff(r, t)
  <2> DEFINE m == <<StepOf(r, t).req, StepOf(r, t).partition>>
  <2>1. /\ MarkReady(r, m[1], m[2]) /\ UNCHANGED <<scenario, pc>>
        /\ tpc[r][t] <= Len(Threads(r)[t]) /\ StepOf(r, t).op = "pready"
    BY <1>3 DEF SignOff, Does
  <2>2. pc[r] - 1 \in 1 .. Len(Code(r)) /\ m \in MarkedBy(Code(r)[pc[r] - 1])
    BY <1>1, <2>1, RegionMarks
  <2> HIDE DEF m
  <2>3. noaccess'[r] = noaccess[r] \cup {<<m[1], m[2]>>} /\ <<m[1], m[2]>> = m
    BY <1>1, <2>1 DEF MarkReady, TypeInv, m
  <2>4. \A q \in Requests : /\ requests'[r][q].block = requests[r][q].block
                            /\ requests'[r][q].partition_count = requests[r][q].partition_count
    <3>1. requests \in [Ranks -> [Requests -> RequestRecord]]
      BY <1>1 DEF TypeInv
    <3>2. requests' = [requests EXCEPT ![r][m[1]].partitions_ready = @ + 1]
      BY <2>1 DEF MarkReady
    <3>3. QED
      BY <3>1, <3>2 DEF RequestRecord
  <2>5. pc'[r] = pc[r] /\ Code(r)' = Code(r) /\ pc[r] \in Nat
    BY <1>1, <2>1 DEF Code, TypeInv
  <2>6. pc[r] - 1 \in 1 .. pc[r] - 1 /\ (pc[r] - 1) + 1 .. pc[r] - 1 = {}
    BY <2>2, <2>5
  <2>7. ASSUME NEW l \in noaccess'[r]
        PROVE  \E i \in 1 .. pc[r] - 1 :
                 /\ l \in MarkedBy(Code(r)[i])
                 /\ \A k \in i + 1 .. pc[r] - 1 : ~EndsMarks(Code(r)[k], l[1])
    <3>1. CASE l = m
      BY <2>2, <2>6, <3>1
    <3>2. CASE l # m
      BY <1>1, <2>3, <2>7, <3>2 DEF MarkInv
    <3>3. QED
      BY <3>1, <3>2
  <2>8. QED
    BY <1>1, <2>4, <2>5, <2>7 DEF MarkInv
<1>4. QED
  BY <1>2, <1>3 DEF Thread

LEMMA StepKeepsTextInv == TextInv /\ [Next]_vars => TextInv'
<1> SUFFICES ASSUME TextInv, [Next]_vars PROVE TextInv'
  OBVIOUS
<1>1. IInv' /\ IInv
  BY OrderedText, StepKeepsIInv DEF TextInv
<1>2. UNCHANGED scenario
  BY StepKeepsScenario
<1>3. ASSUME NEW r \in Ranks PROVE MarkInv(r)'
  <2>1. MarkInv(r)
    BY DEF TextInv
  <2>2. CASE Rank(r) \/ \E t \in DOMAIN Threads(r) : Thread(r, t)
    BY <2>2, MainCallMarks, ThreadMarks
  <2>3. ASSUME NEW x \in Ranks, x # r, Rank(x) \/ \E t \in DOMAIN Threads(x) : Thread(x, t)
        PROVE  MarkInv(r)'
    <3>1. pc'[r] = pc[r] /\ requests'[r] = requests[r] /\ noaccess'[r] = noaccess[r]
      <4> USE <1>1, <2>3 DEF IInv, TypeInv, Calls, MarkReady, Does, memcheck
      <4>1. CASE Communicate(x) \/ Wait(x) \/ Fork(x) \/ Compute(x)
        BY <4>1 DEF Communicate, Wait, Fork, Compute
      <4>2. CASE MPIX_Psend_init(x) \/ MPIX_Precv_init(x) \/ MPIX_Request_free(x)
        BY <4>2 DEF MPIX_Psend_init, MPIX_Precv_init, MPIX_Request_free
      <4>3. CASE MPIX_Start(x) \/ MPIX_Pready(x)
        BY <4>3 DEF MPIX_Start, MPIX_Pready
      <4>4. CASE MPIX_Wait(x)
        BY <4>4 DEF MPIX_Wait
      <4>5. CASE \E t \in DOMAIN Threads(x) : Thread(x, t)
        BY <4>5 DEF Thread, Load, Store, SignOff, Access
      <4>6. QED
        BY <4>1, <4>2, <4>3, <4>4, <4>5 DEF Rank
    <3>2. QED
      BY <1>2, <2>1, <3>1, OtherMarks
  <2>4. CASE UNCHANGED vars \/ (\E x \in Ranks : Buffer(x)) \/ \E s, d \in Ranks : Deliver(s, d)
    <3>1. UNCHANGED <<pc, requests, noaccess>>
      BY <2>4 DEF vars, Buffer, Deliver, memcheck
    <3>2. QED
      BY <1>2, <2>1, <3>1, OtherMarks
  <2>5. QED
    BY <2>2, <2>3, <2>4 DEF Next
<1>4. \A r \in Ranks : MarksAreOrdered(Code(r))'
  BY <1>2 DEF TextInv, Code
<1>5. QED
  BY <1>1, <1>3, <1>4 DEF TextInv

LEMMA OrderedTextsStart == TextsMarkInOrder /\ Init => TextInv
<1> SUFFICES ASSUME TextsMarkInOrder, Init PROVE TextInv
  OBVIOUS
<1>1. IInv
  BY InitImpliesIInv
<1>2. \A r \in Ranks : MarkInv(r)
  BY DEF Init, MarkInv
<1>3. \A r \in Ranks : MarksAreOrdered(Code(r))
  BY DEF Init, ToSet, Code, TextsMarkInOrder
<1>4. QED
  BY <1>1, <1>2, <1>3 DEF TextInv

(* MarksUntilWait, for every number of ranks, threads, partitions and      *)
(* calls: whatever the threads and MPI do in between, marks are set and    *)
(* lifted in the order of the program's text.                              *)
THEOREM MarksFollowTheText == TextsMarkInOrder => (Spec => []MarksUntilWait)
<1>1. TextsMarkInOrder /\ Init => TextInv
  BY OrderedTextsStart
<1>2. TextInv /\ [Next]_vars => TextInv'
  BY StepKeepsTextInv
<1>3. TextInv => MarksUntilWait
  BY OrderedText
<1>4. QED
  BY <1>1, <1>2, <1>3, PTL DEF Spec

(* ReportIsExact for all programs whose texts mark in order.               *)
COROLLARY OrderedTextsAreJudged == TextsMarkInOrder => (Spec => []ReportIsExact)
BY MarksFollowTheText, ReportsAreExact, PTL

-----------------------------------------------------------------------------
(* Counting the calls of a text that send to a rank, or receive from one.  *)

LEMMA CountIsNatural ==
  ASSUME NEW code, NEW i \in Int, NEW kind, NEW peer, NEW tag
  PROVE  /\ Count(code, i, kind, peer, tag) \in Nat
         /\ IsFiniteSet({j \in 1 .. i : Posts(code, j, kind, peer, tag)})
<1>1. IsFiniteSet(1 .. i)
  BY FS_Interval
<1>2. {j \in 1 .. i : Posts(code, j, kind, peer, tag)} \in SUBSET (1 .. i)
  OBVIOUS
<1>3. IsFiniteSet({j \in 1 .. i : Posts(code, j, kind, peer, tag)})
  BY <1>1, <1>2, FS_Subset
<1>4. QED
  BY <1>3, FS_CardinalityType DEF Count

LEMMA CountOfNothing ==
  ASSUME NEW code, NEW kind, NEW peer, NEW tag PROVE Count(code, 0, kind, peer, tag) = 0
<1>1. {j \in 1 .. 0 : Posts(code, j, kind, peer, tag)} = {}
  OBVIOUS
<1>2. QED
  BY <1>1, FS_EmptySet DEF Count

LEMMA CountOneMore ==
  ASSUME NEW code, NEW i \in Nat, NEW kind, NEW peer, NEW tag
  PROVE  Count(code, i + 1, kind, peer, tag) =
           Count(code, i, kind, peer, tag)
             + (IF Posts(code, i + 1, kind, peer, tag) THEN 1 ELSE 0)
<1> DEFINE S(n) == {j \in 1 .. n : Posts(code, j, kind, peer, tag)}
<1>1. IsFiniteSet(S(i)) /\ Cardinality(S(i)) \in Nat
  BY CountIsNatural DEF Count
<1>2. CASE Posts(code, i + 1, kind, peer, tag)
  <2>1. S(i + 1) = S(i) \cup {i + 1} /\ i + 1 \notin S(i)
    BY <1>2
  <2> HIDE DEF S
  <2>2. Cardinality(S(i + 1)) = Cardinality(S(i)) + 1
    BY <1>1, <2>1, FS_AddElement
  <2>3. QED
    BY <1>1, <1>2, <2>2 DEF Count, S
<1>3. CASE ~Posts(code, i + 1, kind, peer, tag)
  <2>1. S(i + 1) = S(i)
    BY <1>3
  <2> HIDE DEF S
  <2>2. QED
    BY <1>1, <1>3, <2>1 DEF Count, S
<1>4. QED
  BY <1>2, <1>3

LEMMA CountGrows ==
  ASSUME NEW code, NEW i \in Nat, NEW k \in Nat, i <= k, NEW kind, NEW peer, NEW tag
  PROVE  Count(code, i, kind, peer, tag) <= Count(code, k, kind, peer, tag)
<1> DEFINE S(n) == {j \in 1 .. n : Posts(code, j, kind, peer, tag)}
<1>1. IsFiniteSet(S(k))
  <2>1. k \in Int
    OBVIOUS
  <2>2. QED
    BY <2>1, CountIsNatural
<1>2. S(i) \in SUBSET S(k)
  OBVIOUS
<1>3. QED
  BY <1>1, <1>2, FS_Subset DEF Count

\* Each call that sends has a number of its own.
LEMMA CountTellsApart ==
  ASSUME NEW code, NEW i \in Nat, NEW k \in Nat \ {0}, i < k, NEW kind, NEW peer, NEW tag,
         Posts(code, k, kind, peer, tag)
  PROVE  Count(code, i, kind, peer, tag) < Count(code, k, kind, peer, tag)
<1>1. k - 1 \in Nat /\ i <= k - 1 /\ (k - 1) + 1 = k
  OBVIOUS
<1>2. Count(code, i, kind, peer, tag) <= Count(code, k - 1, kind, peer, tag)
  BY <1>1, CountGrows
<1>3. Count(code, k, kind, peer, tag) = Count(code, k - 1, kind, peer, tag) + 1
  BY <1>1, CountOneMore
<1>4. i \in Int /\ k - 1 \in Int
  OBVIOUS
<1>5. Count(code, i, kind, peer, tag) \in Nat /\ Count(code, k - 1, kind, peer, tag) \in Nat
  BY <1>4, CountIsNatural
<1>6. QED
  BY <1>2, <1>3, <1>5

-----------------------------------------------------------------------------
(* The operations of a rank that are posted.                               *)

Kinds == {"send", "recv"}

Messages == (STRING \cup {"none"}) \X Nat

Operation == [kind : Kinds, peer : Ranks, tag : Tags, req : STRING \cup Requests,
              msg : Messages, buffered : BOOLEAN]

IsOn(o, kind, peer, tag) == o.kind = kind /\ o.peer = peer /\ o.tag = tag

On(ops, kind, peer, tag) == {k \in 1 .. Len(ops) : IsOn(ops[k], kind, peer, tag)}

Channels == Kinds \X Ranks \X Tags

\* The operations come from the text, in order: x[k] is the call of the k-th one,
\* and at the last call that was executed.
Listed(ops, x, at) ==
  /\ ops \in Seq(Operation) /\ x \in [1 .. Len(ops) -> 1 .. at]
  /\ \A k, l \in 1 .. Len(ops) : k < l => x[k] < x[l]

ComesFrom(code, at, o, i) ==
  /\ Posts(code, i, o.kind, o.peer, o.tag)
  /\ o.kind = "send" => o.msg = Message(code, i)
  /\ o.buffered => o.kind = "send"
  /\ o.req = code[i].req
  /\ \A w \in i + 1 .. at : code[w].op = "wait" /\ o.req \in code[w].reqs => o.buffered

\* They are those that are not done.
Counted(code, at, ops, x, kind, peer, tag, done) ==
  /\ done \in Nat /\ done <= Count(code, at, kind, peer, tag)
  /\ {Count(code, x[k], kind, peer, tag) : k \in On(ops, kind, peer, tag)} =
       done + 1 .. Count(code, at, kind, peer, tag)

Numbered(code, at, ops, x, done) ==
  /\ Listed(ops, x, at)
  /\ \A k \in 1 .. Len(ops) : ComesFrom(code, at, ops[k], x[k])
  /\ \A kind \in Kinds, peer \in Ranks, tag \in Tags :
       Counted(code, at, ops, x, kind, peer, tag, done[<<kind, peer, tag>>])

\* A call that starts nothing, and does not wait for what is not complete.
LEMMA NothingPosted ==
  ASSUME NEW code, NEW at \in Nat, NEW ops, NEW x, NEW done, Numbered(code, at, ops, x, done),
         \A kind \in Kinds, peer \in Ranks, tag \in Tags : ~Posts(code, at + 1, kind, peer, tag),
         \A k \in 1 .. Len(ops) :
           code[at + 1].op = "wait" /\ ops[k].req \in code[at + 1].reqs => ops[k].buffered
  PROVE  Numbered(code, at + 1, ops, x, done)
<1>1. Listed(ops, x, at + 1) /\ \A k \in 1 .. Len(ops) : x[k] \in 1 .. at
  BY DEF Numbered, Listed
<1>2. ASSUME NEW k \in 1 .. Len(ops) PROVE ComesFrom(code, at + 1, ops[k], x[k])
  <2>1. ComesFrom(code, at, ops[k], x[k])
    BY DEF Numbered
  <2>2. \A w \in x[k] + 1 .. at + 1 : w = at + 1 \/ w \in x[k] + 1 .. at
    BY <1>1
  <2>3. QED
    BY <2>1, <2>2 DEF ComesFrom
<1>3. ASSUME NEW kind \in Kinds, NEW peer \in Ranks, NEW tag \in Tags
      PROVE  Counted(code, at + 1, ops, x, kind, peer, tag, done[<<kind, peer, tag>>])
  <2>1. at \in Int
    OBVIOUS
  <2>2. Count(code, at + 1, kind, peer, tag) = Count(code, at, kind, peer, tag)
    <3>1. Count(code, at, kind, peer, tag) \in Nat
      BY <2>1, CountIsNatural
    <3>2. ~Posts(code, at + 1, kind, peer, tag)
      OBVIOUS
    <3>3. QED
      BY <3>1, <3>2, CountOneMore
  <2>3. QED
    BY <2>2 DEF Numbered, Counted
<1>4. QED
  BY <1>1, <1>2, <1>3 DEF Numbered

\* A call that starts an operation.
LEMMA OnePosted ==
  ASSUME NEW code, NEW at \in Nat, NEW ops, NEW x, NEW done, Numbered(code, at, ops, x, done),
         NEW o \in Operation, ~o.buffered, o.req = code[at + 1].req, code[at + 1].op # "wait",
         o.kind = "send" => o.msg = Message(code, at + 1),
         \A kind \in Kinds, peer \in Ranks, tag \in Tags :
           Posts(code, at + 1, kind, peer, tag) <=> IsOn(o, kind, peer, tag)
  PROVE  \E y : Numbered(code, at + 1, Append(ops, o), y, done)
<1> DEFINE n == Len(ops)
           more == Append(ops, o)
           y == [k \in 1 .. n + 1 |-> IF k = n + 1 THEN at + 1 ELSE x[k]]
<1>1. ops \in Seq(Operation) /\ n \in Nat /\ x \in [1 .. n -> 1 .. at]
  BY DEF Numbered, Listed
<1>2. /\ more \in Seq(Operation) /\ Len(more) = n + 1 /\ more[n + 1] = o
      /\ \A k \in 1 .. n : more[k] = ops[k]
  BY <1>1
<1>3. /\ y \in [1 .. n + 1 -> 1 .. at + 1] /\ y[n + 1] = at + 1
      /\ \A k \in 1 .. n : y[k] = x[k] /\ y[k] \in 1 .. at
  BY <1>1
<1>4. \A k, l \in 1 .. n : k < l => x[k] < x[l]
  BY DEF Numbered, Listed
<1> HIDE DEF more, y, n
<1>5. ASSUME NEW k \in 1 .. n + 1, NEW l \in 1 .. n + 1, k < l PROVE y[k] < y[l]
  <2>1. CASE l = n + 1
    BY <1>1, <1>3, <1>5, <2>1
  <2>2. CASE l # n + 1
    <3>1. k \in 1 .. n /\ l \in 1 .. n
      BY <1>1, <1>5, <2>2
    <3>2. QED
      BY <1>3, <1>4, <1>5, <3>1
  <2>3. QED
    BY <2>1, <2>2
<1>6. ASSUME NEW k \in 1 .. n + 1 PROVE ComesFrom(code, at + 1, more[k], y[k])
  <2>1. CASE k = n + 1
    <3>1. o.kind \in Kinds /\ o.peer \in Ranks /\ o.tag \in Tags
      BY DEF Operation
    <3>2. Posts(code, at + 1, o.kind, o.peer, o.tag)
      BY <3>1 DEF IsOn
    <3>3. y[k] + 1 .. at + 1 = {}
      BY <1>3, <2>1
    <3>4. QED
      BY <1>2, <1>3, <2>1, <3>2, <3>3 DEF ComesFrom
  <2>2. CASE k # n + 1
    <3>1. k \in 1 .. n
      BY <1>1, <2>2
    <3>2. ComesFrom(code, at, ops[k], x[k])
      BY <3>1 DEF Numbered, n
    <3>3. \A w \in x[k] + 1 .. at + 1 : w = at + 1 \/ w \in x[k] + 1 .. at
      BY <1>1, <3>1
    <3>4. ComesFrom(code, at + 1, ops[k], x[k])
      BY <3>2, <3>3 DEF ComesFrom
    <3>5. QED
      BY <1>2, <1>3, <3>1, <3>4
  <2>3. QED
    BY <2>1, <2>2
<1>7. ASSUME NEW kind \in Kinds, NEW peer \in Ranks, NEW tag \in Tags
      PROVE  Counted(code, at + 1, more, y, kind, peer, tag, done[<<kind, peer, tag>>])
  <2> DEFINE c(i) == Count(code, i, kind, peer, tag)
             d == done[<<kind, peer, tag>>]
             old == On(ops, kind, peer, tag)
             new == On(more, kind, peer, tag)
  <2>1. /\ d \in Nat /\ d <= c(at) /\ {c(x[k]) : k \in old} = d + 1 .. c(at)
    BY DEF Numbered, Counted
  <2>2. c(at) \in Nat /\ c(at + 1) = c(at) + (IF Posts(code, at + 1, kind, peer, tag) THEN 1 ELSE 0)
    <3>1. at \in Int
      OBVIOUS
    <3>2. QED
      BY <3>1, CountOneMore, CountIsNatural
  <2>3. old \subseteq 1 .. n /\ \A k \in old : y[k] = x[k]
    BY <1>3 DEF On, n
  <2>4. new = IF IsOn(o, kind, peer, tag) THEN old \cup {n + 1} ELSE old
    <3>1. \A k : k \in new <=> k \in 1 .. n + 1 /\ IsOn(more[k], kind, peer, tag)
      BY <1>2 DEF On
    <3>2. \A k : k \in old <=> k \in 1 .. n /\ IsOn(ops[k], kind, peer, tag)
      BY DEF On, n
    <3>3. \A k : k \in 1 .. n + 1 <=> k \in 1 .. n \/ k = n + 1
      BY <1>1
    <3> HIDE DEF new, old
    <3>4. QED
      BY <1>2, <3>1, <3>2, <3>3
  <2> HIDE DEF new, old
  <2>5. {c(y[k]) : k \in new} =
          IF IsOn(o, kind, peer, tag) THEN {c(x[k]) : k \in old} \cup {c(at + 1)}
          ELSE {c(x[k]) : k \in old}
    BY <1>3, <2>3, <2>4
  <2> HIDE DEF c, d
  <2>6. /\ d <= c(at + 1) /\ {c(y[k]) : k \in new} = d + 1 .. c(at + 1)
    BY <2>1, <2>2, <2>5
  <2>7. QED
    BY <2>1, <2>6 DEF Counted, new, c, d
<1>8. Numbered(code, at + 1, more, y, done)
  BY <1>2, <1>3, <1>5, <1>6, <1>7 DEF Numbered, Listed
<1>9. QED
  BY <1>8 DEF more

\* The library buffers a send.
LEMMA OneBuffered ==
  ASSUME NEW code, NEW at \in Nat, NEW ops, NEW x, NEW done, Numbered(code, at, ops, x, done),
         NEW i \in 1 .. Len(ops), ops[i].kind = "send"
  PROVE  Numbered(code, at, [ops EXCEPT ![i].buffered = TRUE], x, done)
<1> DEFINE new == [ops EXCEPT ![i].buffered = TRUE]
<1>1. ops \in Seq(Operation)
  BY DEF Numbered, Listed
<1>2. /\ new \in Seq(Operation) /\ Len(new) = Len(ops)
      /\ \A k \in 1 .. Len(ops) : /\ new[k].kind = ops[k].kind /\ new[k].peer = ops[k].peer
                                  /\ new[k].tag = ops[k].tag /\ new[k].msg = ops[k].msg
                                  /\ new[k].req = ops[k].req
                                  /\ k # i => new[k].buffered = ops[k].buffered
                                  /\ k = i => new[k].buffered
  <2>1. ops[i] \in Operation
    BY <1>1
  <2>2. [ops[i] EXCEPT !.buffered = TRUE] \in Operation
    BY <2>1 DEF Operation
  <2>3. new = [ops EXCEPT ![i] = [ops[i] EXCEPT !.buffered = TRUE]]
    OBVIOUS
  <2>4. new \in Seq(Operation) /\ Len(new) = Len(ops)
    BY <1>1, <2>2, <2>3
  <2>5. \A k \in 1 .. Len(ops) : new[k] = IF k = i THEN [ops[i] EXCEPT !.buffered = TRUE] ELSE ops[k]
    BY <1>1, <2>3
  <2> HIDE DEF new
  <2>6. QED
    BY <2>1, <2>4, <2>5 DEF Operation
<1> HIDE DEF new
<1>3. ASSUME NEW k \in 1 .. Len(ops) PROVE ComesFrom(code, at, new[k], x[k])
  <2>1. ComesFrom(code, at, ops[k], x[k])
    BY DEF Numbered
  <2>2. QED
    BY <1>2, <2>1 DEF ComesFrom
<1>4. \A kind \in Kinds, peer \in Ranks, tag \in Tags :
        On(new, kind, peer, tag) = On(ops, kind, peer, tag)
  BY <1>2 DEF On, IsOn
<1>5. QED
  BY <1>2, <1>3, <1>4 DEF Numbered, Listed, Counted, new

\* What RemoveAt leaves.
LEMMA Removed ==
  ASSUME NEW ops \in Seq(Operation), NEW i \in 1 .. Len(ops)
  PROVE  /\ RemoveAt(ops, i) \in Seq(Operation) /\ Len(RemoveAt(ops, i)) = Len(ops) - 1
         /\ \A k \in 1 .. Len(ops) - 1 : RemoveAt(ops, i)[k] = ops[IF k < i THEN k ELSE k + 1]
<1> DEFINE a == SubSeq(ops, 1, i - 1)
           b == SubSeq(ops, i + 1, Len(ops))
<1>1. /\ a \in Seq(Operation) /\ Len(a) = i - 1 /\ \A k \in 1 .. i - 1 : a[k] = ops[k]
  OBVIOUS
<1>2. /\ b \in Seq(Operation) /\ Len(b) = Len(ops) - i
      /\ \A k \in 1 .. Len(ops) - i : b[k] = ops[i + k]
  OBVIOUS
<1>3. RemoveAt(ops, i) = a \o b
  BY DEF RemoveAt
<1> HIDE DEF a, b
<1>4. /\ a \o b \in Seq(Operation) /\ Len(a \o b) = Len(a) + Len(b)
      /\ \A k \in 1 .. Len(a) + Len(b) : (a \o b)[k] = IF k <= Len(a) THEN a[k] ELSE b[k - Len(a)]
  <2>1. a \in Seq(Operation) /\ b \in Seq(Operation)
    BY <1>1, <1>2
  <2>2. QED
    BY <2>1
<1>5. Len(ops) \in Nat /\ Len(a) + Len(b) = Len(ops) - 1
  BY <1>1, <1>2
<1>6. ASSUME NEW k \in 1 .. Len(ops) - 1
      PROVE  (a \o b)[k] = ops[IF k < i THEN k ELSE k + 1]
  <2>1. CASE k < i
    <3>1. k <= Len(a) /\ k \in 1 .. i - 1
      BY <1>1, <1>5, <2>1
    <3>2. QED
      BY <1>1, <1>4, <1>5, <2>1, <3>1
  <2>2. CASE ~(k < i)
    <3>1. ~(k <= Len(a)) /\ k - Len(a) = k - i + 1 /\ k - i + 1 \in 1 .. Len(ops) - i
      BY <1>1, <1>5, <2>2
    <3>2. (a \o b)[k] = b[k - i + 1]
      BY <1>4, <1>5, <3>1
    <3>3. b[k - i + 1] = ops[i + (k - i + 1)] /\ i + (k - i + 1) = k + 1
      BY <1>2, <1>5, <3>1
    <3>4. QED
      BY <2>2, <3>2, <3>3
  <2>3. QED
    BY <2>1, <2>2
<1>7. QED
  BY <1>3, <1>4, <1>5, <1>6

LEMMA LeastPosition ==
  ASSUME NEW N \in SUBSET Nat, N # {}
  PROVE  \E n \in N : \A m \in N : n <= m
<1>1. PICK n \in N : \A m \in N : ~(<<m, n>> \in OpToRel(<, Nat))
  BY NatLessThanWellFounded, WFMin, Zenon
<1>2. \A m \in N : ~(m < n)
  BY <1>1, Zenon DEF OpToRel
<1>3. QED
  BY <1>2

LEMMA FirstIsPosted ==
  ASSUME NEW ops \in Seq(Operation), NEW kind, NEW peer, NEW tag,
         FirstPosted(ops, kind, peer, tag) # 0
  PROVE  LET i == FirstPosted(ops, kind, peer, tag)
         IN  /\ i \in 1 .. Len(ops) /\ i \in On(ops, kind, peer, tag)
             /\ \A k \in On(ops, kind, peer, tag) : i <= k
<1> DEFINE i == FirstPosted(ops, kind, peer, tag)
           I == On(ops, kind, peer, tag)
<1>1. i = IF I # {} THEN Min(I) ELSE 0
  BY DEF FirstPosted, SelectInSeq, On, IsOn
<1>2. I # {} /\ i = Min(I)
  BY <1>1
<1>3. I \subseteq 1 .. Len(ops)
  BY DEF On
<1>4. I \in SUBSET Nat
  BY <1>3
<1> HIDE DEF I, i
<1>5. \E k \in I : \A l \in I : k <= l
  BY <1>2, <1>4, LeastPosition
<1>6. Min(I) \in I /\ \A k \in I : Min(I) <= k
  BY <1>5 DEF Min
<1>7. QED
  BY <1>2, <1>3, <1>6 DEF i, I

LEMMA NothingFirst ==
  ASSUME NEW ops \in Seq(Operation), NEW kind, NEW peer, NEW tag,
         FirstPosted(ops, kind, peer, tag) = 0
  PROVE  On(ops, kind, peer, tag) = {}
<1> DEFINE I == On(ops, kind, peer, tag)
<1>1. FirstPosted(ops, kind, peer, tag) = IF I # {} THEN Min(I) ELSE 0
  BY DEF FirstPosted, SelectInSeq, On, IsOn
<1> SUFFICES ASSUME I # {} PROVE FALSE
  OBVIOUS
<1>2. I \in SUBSET (Nat \ {0})
  BY DEF On
<1> HIDE DEF I
<1>3. \E k \in I : \A l \in I : k <= l
  <2>1. I \in SUBSET Nat
    BY <1>2
  <2>2. QED
    BY <2>1, LeastPosition
<1>4. Min(I) \in I
  BY <1>3 DEF Min
<1>5. QED
  BY <1>1, <1>2, <1>4

\* A channel gets on by one, and no other channel does.
GetsOn(more, done, ch) ==
  /\ more[ch] = done[ch] + 1
  /\ \A k \in Kinds, p \in Ranks, t \in Tags :
       <<k, p, t>> # ch => more[<<k, p, t>>] = done[<<k, p, t>>]

\* The first operation of a channel leaves: it is the next one that was not done.
FirstLeaves(code, at, ops, x, done, kind, peer, tag, i, more) ==
  /\ at \in Nat /\ Numbered(code, at, ops, x, done)
  /\ kind \in Kinds /\ peer \in Ranks /\ tag \in Tags
  /\ i = FirstPosted(ops, kind, peer, tag) /\ i # 0
  /\ GetsOn(more, done, <<kind, peer, tag>>)

LEMMA OneRemoved ==
  ASSUME NEW code, NEW at, NEW ops, NEW x, NEW done, NEW kind, NEW peer, NEW tag, NEW i, NEW more,
         FirstLeaves(code, at, ops, x, done, kind, peer, tag, i, more)
  PROVE  /\ i \in 1 .. Len(ops) /\ IsOn(ops[i], kind, peer, tag)
         /\ Count(code, x[i], kind, peer, tag) = done[<<kind, peer, tag>>] + 1
         /\ done[<<kind, peer, tag>>] \in Nat
         /\ done[<<kind, peer, tag>>] + 1 <= Count(code, at, kind, peer, tag)
         /\ \E y : Numbered(code, at, RemoveAt(ops, i), y, more)
<1>0. /\ at \in Nat /\ Numbered(code, at, ops, x, done)
      /\ kind \in Kinds /\ peer \in Ranks /\ tag \in Tags
      /\ i = FirstPosted(ops, kind, peer, tag) /\ i # 0
      /\ GetsOn(more, done, <<kind, peer, tag>>)
  BY DEF FirstLeaves
<1> DEFINE n == Len(ops)
           fewer == RemoveAt(ops, i)
           old(k) == IF k < i THEN k ELSE k + 1
           y == [k \in 1 .. n - 1 |-> x[old(k)]]
<1> USE <1>0
<1>1. /\ ops \in Seq(Operation) /\ n \in Nat /\ x \in [1 .. n -> 1 .. at]
      /\ \A k, l \in 1 .. n : k < l => x[k] < x[l]
      /\ \A k \in 1 .. n : ComesFrom(code, at, ops[k], x[k])
      /\ \A k \in Kinds, p \in Ranks, t \in Tags : Counted(code, at, ops, x, k, p, t, done[<<k, p, t>>])
  BY DEF Numbered, Listed
<1>2. /\ i \in 1 .. n /\ i \in On(ops, kind, peer, tag) /\ IsOn(ops[i], kind, peer, tag)
      /\ \A k \in On(ops, kind, peer, tag) : i <= k
  <2>1. /\ i \in 1 .. n /\ i \in On(ops, kind, peer, tag)
        /\ \A k \in On(ops, kind, peer, tag) : i <= k
    BY <1>1, FirstIsPosted
  <2>2. QED
    BY <2>1 DEF On
<1>3. /\ fewer \in Seq(Operation) /\ Len(fewer) = n - 1
      /\ \A k \in 1 .. n - 1 : fewer[k] = ops[old(k)]
  <2>1. ops \in Seq(Operation) /\ i \in 1 .. Len(ops)
    BY <1>1, <1>2
  <2>2. /\ RemoveAt(ops, i) \in Seq(Operation) /\ Len(RemoveAt(ops, i)) = Len(ops) - 1
        /\ \A k \in 1 .. Len(ops) - 1 : RemoveAt(ops, i)[k] = ops[IF k < i THEN k ELSE k + 1]
    BY <2>1, Removed
  <2>3. QED
    BY <2>2
<1>4. /\ \A k \in 1 .. n - 1 : old(k) \in 1 .. n /\ old(k) # i
      /\ \A k, l \in 1 .. n - 1 : k < l => old(k) < old(l)
      /\ \A l \in 1 .. n : l # i => \E k \in 1 .. n - 1 : old(k) = l
  <2>1. /\ \A k \in 1 .. n - 1 : old(k) \in 1 .. n /\ old(k) # i
        /\ \A k, l \in 1 .. n - 1 : k < l => old(k) < old(l)
    BY <1>1, <1>2
  <2>2. ASSUME NEW l \in 1 .. n, l # i PROVE \E k \in 1 .. n - 1 : old(k) = l
    <3>1. CASE l < i
      <4>1. l \in 1 .. n - 1 /\ old(l) = l
        BY <1>1, <1>2, <3>1
      <4>2. QED
        BY <4>1
    <3>2. CASE l > i
      <4>1. l - 1 \in 1 .. n - 1 /\ old(l - 1) = l
        BY <1>1, <1>2, <3>2
      <4>2. QED
        BY <4>1
    <3>3. QED
      BY <1>1, <1>2, <2>2, <3>1, <3>2
  <2>3. QED
    BY <2>1, <2>2
<1> HIDE DEF old
<1>5. /\ y \in [1 .. n - 1 -> 1 .. at] /\ \A k \in 1 .. n - 1 : y[k] = x[old(k)]
  BY <1>1, <1>4
<1> HIDE DEF y, fewer, n
<1>6. \A k, l \in 1 .. n - 1 : k < l => y[k] < y[l]
  BY <1>1, <1>4, <1>5
<1>7. \A k \in 1 .. n - 1 : ComesFrom(code, at, fewer[k], y[k])
  BY <1>1, <1>3, <1>4, <1>5
\* What the calls of a channel's operations that are left are numbered.
<1>8. ASSUME NEW k \in Kinds, NEW p \in Ranks, NEW t \in Tags
      PROVE  {Count(code, y[l], k, p, t) : l \in On(fewer, k, p, t)}
               = {Count(code, x[l], k, p, t) : l \in On(ops, k, p, t) \ {i}}
  <2> DEFINE c(l) == Count(code, l, k, p, t)
  <2>1. \A l : l \in On(fewer, k, p, t) <=> l \in 1 .. n - 1 /\ old(l) \in On(ops, k, p, t)
    BY <1>3, <1>4 DEF On, n
  <2>2. \A l \in On(ops, k, p, t) \ {i} : \E m \in On(fewer, k, p, t) : old(m) = l
    BY <1>4, <2>1 DEF On, n
  <2>3. \A m \in On(fewer, k, p, t) : old(m) \in On(ops, k, p, t) \ {i} /\ c(y[m]) = c(x[old(m)])
    BY <1>4, <1>5, <2>1
  <2> HIDE DEF c
  <2>4. {c(y[l]) : l \in On(fewer, k, p, t)} = {c(x[l]) : l \in On(ops, k, p, t) \ {i}}
    BY <2>2, <2>3
  <2>5. QED
    BY <2>4 DEF c
<1> DEFINE c(l) == Count(code, l, kind, peer, tag)
           d == done[<<kind, peer, tag>>]
<1>9. /\ d \in Nat /\ d <= c(at)
      /\ {c(x[l]) : l \in On(ops, kind, peer, tag)} = d + 1 .. c(at)
  BY <1>1 DEF Counted
<1>10. c(at) \in Nat
  <2>1. at \in Int
    OBVIOUS
  <2>2. QED
    BY <2>1, CountIsNatural
<1>11. ASSUME NEW k \in On(ops, kind, peer, tag), NEW l \in On(ops, kind, peer, tag), k < l
       PROVE  c(x[k]) < c(x[l])
  <2>1. k \in 1 .. n /\ l \in 1 .. n /\ IsOn(ops[l], kind, peer, tag)
    BY DEF On, n
  <2>2. x[k] \in 1 .. at /\ x[l] \in 1 .. at /\ x[k] < x[l]
    BY <1>1, <1>11, <2>1 DEF n
  <2>3. Posts(code, x[l], kind, peer, tag)
    BY <1>1, <2>1 DEF ComesFrom, IsOn, n
  <2>4. x[k] \in Nat /\ x[l] \in Nat \ {0}
    BY <2>2
  <2>5. QED
    BY <2>2, <2>3, <2>4, CountTellsApart
<1> HIDE DEF c, d
<1>12. \A k \in On(ops, kind, peer, tag) : c(x[k]) \in d + 1 .. c(at)
  BY <1>9
<1>13. d + 1 <= c(at) /\ c(x[i]) = d + 1
  <2>1. d + 1 <= c(at) /\ d + 1 \in d + 1 .. c(at)
    BY <1>2, <1>9, <1>10, <1>12
  <2>2. PICK k \in On(ops, kind, peer, tag) : c(x[k]) = d + 1
    BY <1>9, <2>1
  <2>3. k = i \/ i < k
    <3>1. k \in 1 .. n
      BY DEF On, n
    <3>2. QED
      BY <1>2, <3>1
  <2>4. CASE i < k
    BY <1>2, <1>9, <1>10, <1>11, <1>12, <2>2, <2>4
  <2>5. QED
    BY <2>1, <2>2, <2>3, <2>4
<1>14. {c(x[l]) : l \in On(ops, kind, peer, tag) \ {i}} = d + 2 .. c(at)
  <2>1. ASSUME NEW l \in On(ops, kind, peer, tag) \ {i} PROVE c(x[l]) \in d + 2 .. c(at)
    <3>1. l \in 1 .. n
      BY DEF On, n
    <3>2. i < l
      BY <1>2, <3>1
    <3>3. c(x[i]) < c(x[l])
      BY <1>2, <1>11, <3>2
    <3>4. QED
      BY <1>9, <1>10, <1>12, <1>13, <3>3
  <2>2. ASSUME NEW v \in d + 2 .. c(at) PROVE \E l \in On(ops, kind, peer, tag) \ {i} : c(x[l]) = v
    <3>1. v \in d + 1 .. c(at) /\ v # d + 1
      BY <1>9, <1>10
    <3>2. PICK l \in On(ops, kind, peer, tag) : c(x[l]) = v
      BY <1>9, <3>1
    <3>3. QED
      BY <1>13, <3>1, <3>2
  <2>3. QED
    BY <2>1, <2>2
<1>15. ASSUME NEW k \in Kinds, NEW p \in Ranks, NEW t \in Tags
       PROVE  Counted(code, at, fewer, y, k, p, t, more[<<k, p, t>>])
  <2>1. CASE <<k, p, t>> = <<kind, peer, tag>>
    <3>1. k = kind /\ p = peer /\ t = tag /\ more[<<k, p, t>>] = d + 1
      BY <2>1 DEF d, GetsOn
    <3>2. {Count(code, y[l], kind, peer, tag) : l \in On(fewer, kind, peer, tag)} = d + 2 .. c(at)
      BY <1>8, <1>14 DEF c
    <3>3. (d + 1) + 1 = d + 2 /\ d + 1 \in Nat
      BY <1>9
    <3>4. QED
      BY <1>13, <3>1, <3>2, <3>3 DEF Counted, c
  <2>2. CASE <<k, p, t>> # <<kind, peer, tag>>
    <3>1. more[<<k, p, t>>] = done[<<k, p, t>>]
      BY <2>2 DEF GetsOn
    <3>2. i \notin On(ops, k, p, t)
      BY <1>2, <2>2 DEF On, IsOn
    <3>3. {Count(code, y[l], k, p, t) : l \in On(fewer, k, p, t)}
            = {Count(code, x[l], k, p, t) : l \in On(ops, k, p, t)}
      BY <1>8, <3>2
    <3>4. QED
      BY <1>1, <3>1, <3>3 DEF Counted
  <2>3. QED
    BY <2>1, <2>2
<1>16. Numbered(code, at, fewer, y, more)
  BY <1>3, <1>5, <1>6, <1>7, <1>15 DEF Numbered, Listed
<1>17. QED
  BY <1>2, <1>9, <1>13, <1>16 DEF c, d, fewer, n

-----------------------------------------------------------------------------
(* The flow of messages.                                                   *)

\* What a rank's channels have got, or given.
Done(r) ==
  [ch \in Channels |-> IF ch[1] = "send" THEN Cardinality(Arrived(r, ch[2], ch[3]))
                       ELSE Cardinality(Arrived(ch[2], r, ch[3]))]

Arrival == [from : Ranks, tag : Tags, msg : Messages]

\* A request has the fields that the last call that renewed it gave it.
Named(request, c) ==
  CASE c.op = "psend_init" -> /\ request.kind = "send" /\ request.peer = c.peer
                              /\ request.dest = c.peer /\ request.msg = c.msg
    [] c.op = "precv_init" -> /\ request.kind = "recv" /\ request.peer = c.peer
                              /\ request.dest = 0
    [] OTHER -> request.peer = MPI_PROC_NULL

NamesInv(r) ==
  \A q \in Requests :
    \/ /\ \A j \in 1 .. pc[r] - 1 : ~Renews(Code(r)[j], q)
       /\ requests[r][q].peer = MPI_PROC_NULL
    \/ \E j \in Renewal(Code(r), pc[r], q) : Named(requests[r][q], Code(r)[j])

Regions(code, i) == Cardinality({j \in 1 .. i - 1 : code[j].op \in {"fork", "region"}})

InOrder(s, d) ==
  \A i \in Arrived(s, d, "TAG") :
    LET nth == Cardinality(Arrived(s, d, "TAG") \cap (1 .. i))
    IN  /\ nth <= Len(Expected(scenario, s, d))
        /\ received[d][i].msg = Expected(scenario, s, d)[nth].msg

PostedInv(r) ==
  /\ posted[r] \in Seq(Operation)
  /\ \E x : Numbered(Code(r), pc[r] - 1, posted[r], x, Done(r))

TextFlow(r) == NamesInv(r) /\ computed[r] = Regions(Code(r), pc[r])

FlowInv ==
  /\ TextTypes /\ SendsAreOrdered(scenario)
  /\ posted \in [Ranks -> Seq(Operation)] /\ received \in [Ranks -> Seq(Arrival)]
  /\ computed \in [Ranks -> Nat]
  /\ \A r \in Ranks : TextFlow(r) /\ PostedInv(r)
  /\ \A s, d \in Ranks : InOrder(s, d)

LEMMA DoneOnChannels ==
  ASSUME NEW r \in Ranks, NEW p \in Ranks, NEW t \in Tags
  PROVE  /\ Done(r)[<<"send", p, t>>] = Cardinality(Arrived(r, p, t))
         /\ Done(r)[<<"recv", p, t>>] = Cardinality(Arrived(p, r, t))
<1>1. <<"send", p, t>> \in Channels /\ <<"recv", p, t>> \in Channels
  BY DEF Channels, Kinds
<1>2. QED
  BY <1>1 DEF Done

LEMMA ArrivedAreCounted ==
  ASSUME received \in [Ranks -> Seq(Arrival)], NEW s, NEW d \in Ranks, NEW t
  PROVE  /\ IsFiniteSet(Arrived(s, d, t)) /\ Cardinality(Arrived(s, d, t)) \in Nat
         /\ Arrived(s, d, t) \subseteq 1 .. Len(received[d])
<1>1. DOMAIN received[d] = 1 .. Len(received[d]) /\ Len(received[d]) \in Nat
  OBVIOUS
<1>2. Arrived(s, d, t) \subseteq 1 .. Len(received[d])
  BY <1>1 DEF Arrived
<1>3. IsFiniteSet(1 .. Len(received[d]))
  BY <1>1, FS_Interval
<1>4. QED
  BY <1>2, <1>3, FS_Subset, FS_CardinalityType

\* What a text that is in order says of the calls that send and receive.
LEMMA StartedIsAwaited ==
  ASSUME SendsAreOrdered(scenario), NEW r \in Ranks, NEW peer \in Ranks, NEW kind \in Kinds,
         NEW tag \in Tags, NEW i \in DOMAIN Code(r), Posts(Code(r), i, kind, peer, tag)
  PROVE  \E w \in i + 1 .. Len(Code(r)) : Code(r)[w].op = "wait" /\ Code(r)[i].req \in Code(r)[w].reqs
<1> DEFINE code == scenario.code[r]
<1>1. \A t \in Tags : \A j \in DOMAIN code, k \in {"send", "recv"} :
        Posts(code, j, k, peer, t) =>
          \E w \in j + 1 .. Len(code) : code[w].op = "wait" /\ code[j].req \in code[w].reqs
  BY DEF SendsAreOrdered
<1>2. code = Code(r)
  BY DEF Code
<1> HIDE DEF code
<1>3. QED
  BY <1>1, <1>2 DEF Kinds

\* Nothing is left when all ranks have finished.
LEMMA EmptyChannel ==
  ASSUME NEW code, NEW at \in Nat, NEW ops, NEW x, NEW done, Numbered(code, at, ops, x, done),
         NEW kind \in Kinds, NEW peer \in Ranks, NEW tag \in Tags
  PROVE  On(ops, kind, peer, tag) = {} <=> done[<<kind, peer, tag>>] = Count(code, at, kind, peer, tag)
<1> DEFINE d == done[<<kind, peer, tag>>]
           c == Count(code, at, kind, peer, tag)
           S == {Count(code, x[k], kind, peer, tag) : k \in On(ops, kind, peer, tag)}
<1>1. d \in Nat /\ d <= c /\ S = d + 1 .. c
  BY DEF Numbered, Counted
<1>2. c \in Nat
  <2>1. at \in Int
    OBVIOUS
  <2>2. QED
    BY <2>1, CountIsNatural
<1>3. S = {} <=> On(ops, kind, peer, tag) = {}
  OBVIOUS
<1> HIDE DEF S, c, d
<1>4. d + 1 .. c = {} <=> d = c
  BY <1>1, <1>2
<1>5. QED
  BY <1>1, <1>3, <1>4 DEF c, d

LEMMA AllIsReceived == FlowInv => MessagesInOrder
<1> SUFFICES ASSUME FlowInv PROVE MessagesInOrder
  OBVIOUS
<1>1. \A s, d \in Ranks : InOrder(s, d)
  BY DEF FlowInv
<1>2. ASSUME Finished
      PROVE  /\ \A r \in Ranks : posted[r] = <<>>
             /\ \A s, d \in Ranks : Cardinality(Arrived(s, d, "TAG")) = Len(Expected(scenario, s, d))
  <2>1. ASSUME NEW r \in Ranks
        PROVE  /\ pc[r] - 1 = Len(Code(r)) /\ Len(Code(r)) \in Nat /\ DOMAIN Code(r) = 1 .. Len(Code(r))
    <3>1. TextTypes
      BY DEF FlowInv
    <3>2. QED
      BY <1>2, <3>1 DEF Finished, TextTypes, IsProgram
  <2>2. ASSUME NEW r \in Ranks
        PROVE  \E x : Numbered(Code(r), Len(Code(r)), posted[r], x, Done(r))
    BY <2>1 DEF FlowInv, PostedInv
  <2>3. \A s, d \in Ranks, tag \in Tags :
          /\ Count(Code(s), Len(Code(s)), "send", d, tag) = Count(Code(d), Len(Code(d)), "recv", s, tag)
          /\ Count(Code(s), Len(Code(s)), "send", d, "TAG") = Len(Expected(scenario, s, d))
    BY DEF FlowInv, SendsAreOrdered, Code
  <2>4. ASSUME NEW s \in Ranks, NEW d \in Ranks, NEW tag \in Tags
        PROVE  On(posted[d], "recv", s, tag) = {}
    <3>1. PICK x : Numbered(Code(d), Len(Code(d)), posted[d], x, Done(d))
      BY <2>2
    <3> SUFFICES ASSUME NEW k \in On(posted[d], "recv", s, tag) PROVE FALSE
      OBVIOUS
    <3>2. k \in 1 .. Len(posted[d]) /\ IsOn(posted[d][k], "recv", s, tag)
      BY DEF On
    <3>3. x[k] \in 1 .. Len(Code(d)) /\ ComesFrom(Code(d), Len(Code(d)), posted[d][k], x[k])
      BY <3>1, <3>2 DEF Numbered, Listed
    <3>4. Posts(Code(d), x[k], "recv", s, tag)
      BY <3>2, <3>3 DEF ComesFrom, IsOn
    <3>6. \E w \in x[k] + 1 .. Len(Code(d)) :
            Code(d)[w].op = "wait" /\ Code(d)[x[k]].req \in Code(d)[w].reqs
      <4>1. "recv" \in Kinds /\ x[k] \in DOMAIN Code(d) /\ SendsAreOrdered(scenario)
        BY <2>1, <3>3 DEF Kinds, FlowInv
      <4>2. QED
        BY <3>4, <4>1, StartedIsAwaited
    <3>7. QED
      BY <3>2, <3>3, <3>6 DEF ComesFrom, IsOn
  <2>5. ASSUME NEW s \in Ranks, NEW d \in Ranks, NEW tag \in Tags
        PROVE  /\ On(posted[s], "send", d, tag) = {}
               /\ Cardinality(Arrived(s, d, tag)) = Count(Code(s), Len(Code(s)), "send", d, tag)
    <3>1. PICK x : Numbered(Code(d), Len(Code(d)), posted[d], x, Done(d))
      BY <2>2
    <3>2. PICK y : Numbered(Code(s), Len(Code(s)), posted[s], y, Done(s))
      BY <2>2
    <3>3. Done(d)[<<"recv", s, tag>>] = Count(Code(d), Len(Code(d)), "recv", s, tag)
      <4>1. On(posted[d], "recv", s, tag) = {} /\ "recv" \in Kinds /\ Len(Code(d)) \in Nat
        BY <2>1, <2>4 DEF Kinds
      <4>2. QED
        BY <3>1, <4>1, EmptyChannel
    <3>4. Done(d)[<<"recv", s, tag>>] = Cardinality(Arrived(s, d, tag))
      BY DoneOnChannels
    <3>5. Done(s)[<<"send", d, tag>>] = Cardinality(Arrived(s, d, tag))
      BY DoneOnChannels
    <3>6. Cardinality(Arrived(s, d, tag)) = Count(Code(s), Len(Code(s)), "send", d, tag)
      BY <2>3, <3>3, <3>4
    <3>7. "send" \in Kinds /\ Len(Code(s)) \in Nat
      BY <2>1 DEF Kinds
    <3>8. On(posted[s], "send", d, tag) = {}
      BY <3>2, <3>5, <3>6, <3>7, EmptyChannel
    <3>9. QED
      BY <3>6, <3>8
  <2>6. ASSUME NEW r \in Ranks PROVE posted[r] = <<>>
    <3>1. posted[r] \in Seq(Operation)
      BY DEF FlowInv
    <3> SUFFICES ASSUME posted[r] # <<>> PROVE FALSE
      OBVIOUS
    <3>2. 1 \in 1 .. Len(posted[r]) /\ posted[r][1] \in Operation
      BY <3>1
    <3>3. PICK kind \in Kinds, p \in Ranks, tag \in Tags : IsOn(posted[r][1], kind, p, tag)
      BY <3>2 DEF Operation, IsOn
    <3>4. 1 \in On(posted[r], kind, p, tag)
      BY <3>2, <3>3 DEF On
    <3>5. QED
      BY <2>4, <2>5, <3>4 DEF Kinds
  <2>7. "TAG" \in Tags
    BY DEF Tags
  <2>8. QED
    BY <2>3, <2>5, <2>6, <2>7
<1>3. QED
  BY <1>1, <1>2 DEF MessagesInOrder, InOrder

LEMMA InitImpliesFlow ==
  ASSUME TextsSendInOrder, Init, TextTypes PROVE FlowInv
<1>1. SendsAreOrdered(scenario)
  BY DEF Init, ToSet, TextsSendInOrder
<1>2. /\ posted = [r \in Ranks |-> <<>>] /\ received = [r \in Ranks |-> <<>>]
      /\ computed = [r \in Ranks |-> 0] /\ pc = [r \in Ranks |-> 1]
      /\ \A r \in Ranks, q \in Requests : requests[r][q].peer = MPI_PROC_NULL
  BY DEF Init, NoRequest
<1>3. /\ posted \in [Ranks -> Seq(Operation)] /\ received \in [Ranks -> Seq(Arrival)]
      /\ computed \in [Ranks -> Nat]
  BY <1>2
<1>4. \A s, d \in Ranks, t \in Tags : Arrived(s, d, t) = {}
  BY <1>2 DEF Arrived
<1>5. Cardinality({}) = 0
  BY FS_EmptySet
<1>6. ASSUME NEW r \in Ranks PROVE TextFlow(r) /\ PostedInv(r)
  <2>1. NamesInv(r)
    BY <1>2 DEF NamesInv
  <2>2. computed[r] = Regions(Code(r), pc[r])
    <3>1. {j \in 1 .. pc[r] - 1 : Code(r)[j].op \in {"fork", "region"}} = {}
      BY <1>2
    <3>2. QED
      BY <1>2, <1>5, <3>1 DEF Regions
  <2>3. Numbered(Code(r), 0, <<>>, <<>>, Done(r))
    <3>1. Listed(<<>>, <<>>, 0)
      BY DEF Listed
    <3>2. ASSUME NEW kind \in Kinds, NEW peer \in Ranks, NEW tag \in Tags
          PROVE  Counted(Code(r), 0, <<>>, <<>>, kind, peer, tag, Done(r)[<<kind, peer, tag>>])
      <4>1. Done(r)[<<kind, peer, tag>>] = 0
        <5>1. Cardinality(Arrived(r, peer, tag)) = 0 /\ Cardinality(Arrived(peer, r, tag)) = 0
          BY <1>4, <1>5
        <5>2. CASE kind = "send"
          BY <5>1, <5>2, DoneOnChannels
        <5>3. CASE kind = "recv"
          BY <5>1, <5>3, DoneOnChannels
        <5>4. QED
          BY <5>2, <5>3 DEF Kinds
      <4>2. Count(Code(r), 0, kind, peer, tag) = 0
        BY CountOfNothing
      <4>3. On(<<>>, kind, peer, tag) = {}
        BY DEF On
      <4>4. QED
        BY <4>1, <4>2, <4>3 DEF Counted
    <3>3. QED
      BY <3>1, <3>2 DEF Numbered
  <2>4. PostedInv(r)
    <3>1. pc[r] - 1 = 0 /\ posted[r] = <<>> /\ posted[r] \in Seq(Operation)
      BY <1>2
    <3>2. QED
      BY <2>3, <3>1 DEF PostedInv
  <2>5. QED
    BY <2>1, <2>2, <2>4 DEF TextFlow
<1>7. \A s, d \in Ranks : InOrder(s, d)
  BY <1>4 DEF InOrder, Tags
<1>8. QED
  BY <1>1, <1>3, <1>6, <1>7 DEF FlowInv

-----------------------------------------------------------------------------
(* What the requests and the data are called, step by step.                *)

SameNames(new, old) ==
  new.kind = old.kind /\ new.peer = old.peer /\ new.dest = old.dest /\ new.msg = old.msg

LEMMA CallNames ==
  ASSUME TextTypes, NEW r \in Ranks, NamesInv(r), NEW op, Calls(r, op), UNCHANGED scenario,
         \A q \in Requests : ~Renews(Call(r), q) => SameNames(requests'[r][q], requests[r][q]),
         \A q \in Requests : Renews(Call(r), q) => Named(requests'[r][q], Call(r))
  PROVE  NamesInv(r)'
<1> DEFINE code == Code(r)
           at == pc[r]
<1>1. /\ Call(r) = code[at] /\ at \in Nat \ {0} /\ pc'[r] = at + 1 /\ Code(r)' = code
      /\ pc'[r] - 1 = at
  BY CallsAreTyped, CallsMove DEF Call, Code, TextTypes
<1>2. ASSUME NEW q \in Requests
      PROVE  \/ /\ \A j \in 1 .. at : ~Renews(code[j], q)
                /\ requests'[r][q].peer = MPI_PROC_NULL
             \/ \E j \in Renewal(code, at + 1, q) : Named(requests'[r][q], code[j])
  <2>1. CASE Renews(code[at], q)
    <3>1. at \in Renewal(code, at + 1, q)
      BY <1>1, <2>1 DEF Renewal
    <3>2. QED
      BY <1>1, <2>1, <3>1
  <2>2. CASE ~Renews(code[at], q)
    <3>1. SameNames(requests'[r][q], requests[r][q])
      BY <1>1, <2>2
    <3>2. CASE (\A j \in 1 .. at - 1 : ~Renews(code[j], q)) /\ requests[r][q].peer = MPI_PROC_NULL
      <4>1. \A j \in 1 .. at : j \in 1 .. at - 1 \/ j = at
        BY <1>1
      <4>2. QED
        BY <2>2, <3>1, <3>2, <4>1 DEF SameNames
    <3>3. ASSUME NEW j \in Renewal(code, at, q), Named(requests[r][q], code[j])
          PROVE  j \in Renewal(code, at + 1, q) /\ Named(requests'[r][q], code[j])
      <4>1. j \in 1 .. (at + 1) - 1
        BY <1>1 DEF Renewal
      <4>2. \A k \in j + 1 .. (at + 1) - 1 : k \in j + 1 .. at - 1 \/ k = at
        BY <1>1, <4>1
      <4>3. j \in Renewal(code, at + 1, q)
        BY <2>2, <4>1, <4>2 DEF Renewal
      <4>4. QED
        BY <3>1, <3>3, <4>3 DEF SameNames, Named
    <3>4. QED
      BY <3>2, <3>3 DEF NamesInv
  <2>3. QED
    BY <2>1, <2>2
<1>3. QED
  BY <1>1, <1>2 DEF NamesInv

\* What does not move a rank on does not change its names.
LEMMA OtherNames ==
  ASSUME NEW r \in Ranks, TextFlow(r), UNCHANGED scenario, pc'[r] = pc[r], computed'[r] = computed[r],
         \A q \in Requests : SameNames(requests'[r][q], requests[r][q])
  PROVE  TextFlow(r)'
<1>1. Code(r)' = Code(r)
  BY DEF Code
<1>2. computed'[r] = Regions(Code(r), pc[r])
  BY DEF TextFlow
<1>3. NamesInv(r)'
  <2>1. NamesInv(r)
    BY DEF TextFlow
  <2>2. ASSUME NEW q \in Requests
        PROVE  \/ /\ \A j \in 1 .. pc[r] - 1 : ~Renews(Code(r)[j], q)
                  /\ requests'[r][q].peer = MPI_PROC_NULL
               \/ \E j \in Renewal(Code(r), pc[r], q) : Named(requests'[r][q], Code(r)[j])
    BY <2>1 DEF NamesInv, SameNames, Named
  <2>3. QED
    BY <1>1, <2>2 DEF NamesInv
<1>4. QED
  BY <1>1, <1>2, <1>3 DEF TextFlow

LEMMA RegionsGrow ==
  ASSUME NEW code, NEW at \in Nat \ {0}
  PROVE  Regions(code, at + 1) =
           Regions(code, at) + (IF code[at].op \in {"fork", "region"} THEN 1 ELSE 0)
<1> DEFINE S(n) == {j \in 1 .. n - 1 : code[j].op \in {"fork", "region"}}
<1>1. IsFiniteSet(S(at)) /\ Cardinality(S(at)) \in Nat
  <2>1. IsFiniteSet(1 .. at - 1) /\ S(at) \subseteq 1 .. at - 1
    BY FS_Interval
  <2>2. QED
    BY <2>1, FS_Subset, FS_CardinalityType
<1>2. CASE code[at].op \in {"fork", "region"}
  <2>1. S(at + 1) = S(at) \cup {at} /\ at \notin S(at)
    BY <1>2
  <2> HIDE DEF S
  <2>2. Cardinality(S(at + 1)) = Cardinality(S(at)) + 1
    BY <1>1, <2>1, FS_AddElement
  <2>3. QED
    BY <1>2, <2>2 DEF Regions, S
<1>3. CASE code[at].op \notin {"fork", "region"}
  <2>1. S(at + 1) = S(at)
    BY <1>3
  <2> HIDE DEF S
  <2>2. Regions(code, at + 1) = Cardinality(S(at + 1)) /\ Regions(code, at) = Cardinality(S(at))
    BY DEF Regions, S
  <2>3. QED
    BY <1>1, <1>3, <2>1, <2>2
<1>4. QED
  BY <1>2, <1>3

\* A request whose counters change keeps its names.
Counts(r, q, a, b) ==
  \/ requests' = [requests EXCEPT ![r][q].is_active = a]
  \/ requests' = [requests EXCEPT ![r][q].partitions_ready = a]
  \/ requests' = [requests EXCEPT ![r][q].is_active = a, ![r][q].partitions_ready = b]

LEMMA CountersKeepNames ==
  ASSUME TextTypes, NEW r \in Ranks, NEW q, NEW a, NEW b, Counts(r, q, a, b)
  PROVE  \A x \in Ranks, k \in Requests : SameNames(requests'[x][k], requests[x][k])
<1>1. requests \in [Ranks -> [Requests -> RequestRecord]]
  BY DEF TextTypes
<1>2. CASE requests' = [requests EXCEPT ![r][q].is_active = a]
  BY <1>1, <1>2 DEF SameNames, RequestRecord
<1>3. CASE requests' = [requests EXCEPT ![r][q].partitions_ready = a]
  BY <1>1, <1>3 DEF SameNames, RequestRecord
<1>4. CASE requests' = [requests EXCEPT ![r][q].is_active = a, ![r][q].partitions_ready = b]
  BY <1>1, <1>4 DEF SameNames, RequestRecord
<1>5. QED
  BY <1>2, <1>3, <1>4 DEF Counts

LEMMA CallTextFlow ==
  ASSUME TextTypes, NEW r \in Ranks, TextFlow(r), computed \in [Ranks -> Nat], Rank(r)
  PROVE  TextFlow(r)' /\ computed' \in [Ranks -> Nat] /\ \A x \in Ranks : x # r => computed'[x] = computed[x]
<1>1. UNCHANGED scenario
  BY CallKeepsScenario
<1>2. NamesInv(r) /\ computed[r] = Regions(Code(r), pc[r])
  BY DEF TextFlow
<1> DEFINE c == Call(r)
<1>3. CASE MPIX_Psend_init(r) \/ MPIX_Precv_init(r) \/ MPIX_Request_free(r)
  <2>1. PICK op \in {"psend_init", "precv_init", "free"} : Calls(r, op)
    BY <1>3 DEF MPIX_Psend_init, MPIX_Precv_init, MPIX_Request_free
  <2>2. c.op = op /\ c.req \in Requests
    BY <2>1, CallsAreTyped, CallFields
  <2>3. PICK new : requests' = [requests EXCEPT ![r][c.req] = new] /\ Named(new, c)
    <3>1. CASE MPIX_Psend_init(r)
      <4> DEFINE made == [NoRequest EXCEPT !.kind = "send", !.peer = c.peer, !.dest = c.peer,
                            !.partition_count = c.partitions, !.block = SEND_BLOCK, !.msg = c.msg]
      <4>1. Named(made, c)
        <5>1. c.op = "psend_init"
          BY <3>1, CallsAreTyped DEF MPIX_Psend_init
        <5>2. QED
          BY <5>1 DEF Named, NoRequest
      <4>2. requests' = [requests EXCEPT ![r][c.req] = made]
        BY <3>1 DEF MPIX_Psend_init
      <4> HIDE DEF made
      <4>3. QED
        BY <4>1, <4>2
    <3>2. CASE MPIX_Precv_init(r)
      <4> DEFINE made == [NoRequest EXCEPT !.kind = "recv", !.peer = c.peer,
                            !.partition_count = c.partitions, !.block = RECV_BLOCK]
      <4>1. Named(made, c)
        <5>1. c.op = "precv_init"
          BY <3>2, CallsAreTyped DEF MPIX_Precv_init
        <5>2. QED
          BY <5>1 DEF Named, NoRequest
      <4>2. requests' = [requests EXCEPT ![r][c.req] = made]
        BY <3>2 DEF MPIX_Precv_init
      <4> HIDE DEF made
      <4>3. QED
        BY <4>1, <4>2
    <3>3. CASE MPIX_Request_free(r)
      <4>1. c.op = "free" /\ requests' = [requests EXCEPT ![r][c.req] = NoRequest]
        BY <3>3, CallsAreTyped DEF MPIX_Request_free
      <4>2. Named(NoRequest, c)
        BY <4>1 DEF Named, NoRequest
      <4>3. QED
        BY <4>1, <4>2
    <3>4. QED
      BY <1>3, <3>1, <3>2, <3>3
  <2>4. requests'[r][c.req] = new /\ \A q \in Requests : q # c.req => requests'[r][q] = requests[r][q]
    BY <2>2, <2>3 DEF TextTypes
  <2>5. \A q \in Requests : Renews(c, q) <=> q = c.req
    BY <2>2 DEF Renews, Initialises
  <2>6. NamesInv(r)'
    <3>1. \A q \in Requests : ~Renews(c, q) => SameNames(requests'[r][q], requests[r][q])
      BY <2>4, <2>5 DEF SameNames
    <3>2. \A q \in Requests : Renews(c, q) => Named(requests'[r][q], c)
      BY <2>3, <2>4, <2>5
    <3> HIDE DEF c
    <3>3. QED
      BY <1>1, <1>2, <2>1, <3>1, <3>2, CallNames DEF c
  <2>7. computed' = computed /\ c.op \notin {"fork", "region"}
    BY <1>3, <2>2 DEF MPIX_Psend_init, MPIX_Precv_init, MPIX_Request_free
  <2>8. computed'[r] = Regions(Code(r), pc[r])'
    <3>1. pc'[r] = pc[r] + 1 /\ Code(r)' = Code(r) /\ pc[r] \in Nat \ {0} /\ c = Code(r)[pc[r]]
      BY <1>1, <2>1, CallsAreTyped, CallsMove DEF Code, Call, TextTypes
    <3>2. Regions(Code(r), pc[r])' = Regions(Code(r), pc[r] + 1)
      BY <3>1
    <3>3. Regions(Code(r), pc[r] + 1) = Regions(Code(r), pc[r])
      BY <1>2, <2>7, <3>1, RegionsGrow
    <3>4. QED
      BY <1>2, <2>7, <3>2, <3>3
  <2>9. QED
    BY <2>6, <2>7, <2>8 DEF TextFlow
<1>4. CASE \/ Communicate(r) \/ Wait(r) \/ Fork(r) \/ Compute(r)
           \/ MPIX_Start(r) \/ MPIX_Pready(r) \/ MPIX_Wait(r)
  <2>1. PICK op \in {"post", "wait", "fork", "region", "start", "pready", "mpix_wait"} : Calls(r, op)
    BY <1>4 DEF Communicate, Wait, Fork, Compute, MPIX_Start, MPIX_Pready, MPIX_Wait
  <2>2. c.op = op
    BY <2>1, CallsAreTyped
  <2>3. \A q \in Requests : SameNames(requests'[r][q], requests[r][q])
    <3>1. CASE requests' = requests
      BY <3>1 DEF SameNames
    <3>2. ASSUME NEW q, NEW a, NEW b, Counts(r, q, a, b)
          PROVE  \A k \in Requests : SameNames(requests'[r][k], requests[r][k])
      BY <3>2, CountersKeepNames
    <3>3. CASE Communicate(r) \/ Wait(r) \/ Fork(r) \/ Compute(r)
      BY <3>1, <3>3 DEF Communicate, Wait, Fork, Compute
    <3>4. CASE MPIX_Start(r)
      <4>1. Counts(r, c.req, 1, 0)
        BY <3>4 DEF MPIX_Start, Counts
      <4>2. QED
        BY <3>2, <4>1
    <3>5. CASE MPIX_Pready(r)
      <4>1. Counts(r, c.req, requests[r][c.req].partitions_ready + 1, 0)
        BY <3>5 DEF MPIX_Pready, MarkReady, Counts
      <4>2. QED
        BY <3>2, <4>1
    <3>6. CASE MPIX_Wait(r)
      <4>1. Counts(r, c.req, 0, 0)
        BY <3>6 DEF MPIX_Wait, Counts
      <4>2. QED
        BY <3>2, <4>1
    <3>7. QED
      BY <1>4, <3>3, <3>4, <3>5, <3>6
  <2>4. NamesInv(r)'
    <3>1. \A q \in Requests : ~Renews(c, q)
      BY <2>2 DEF Renews, Initialises
    <3>2. QED
      BY <1>1, <1>2, <2>1, <2>3, <3>1, CallNames
  <2>5. computed' = IF op \in {"fork", "region"} THEN [computed EXCEPT ![r] = @ + 1] ELSE computed
    <3>1. CASE Fork(r) \/ Compute(r)
      <4>1. c.op \in {"fork", "region"} /\ computed' = [computed EXCEPT ![r] = @ + 1]
        BY <3>1, CallsAreTyped DEF Fork, Compute
      <4>2. QED
        BY <2>2, <4>1
    <3>2. CASE \/ Communicate(r) \/ Wait(r) \/ MPIX_Start(r) \/ MPIX_Pready(r) \/ MPIX_Wait(r)
      <4>1. c.op \notin {"fork", "region"} /\ computed' = computed
        BY <3>2, CallsAreTyped DEF Communicate, Wait, MPIX_Start, MPIX_Pready, MPIX_Wait
      <4>2. QED
        BY <2>2, <4>1
    <3>3. QED
      BY <1>4, <3>1, <3>2
  <2>6. /\ computed' \in [Ranks -> Nat] /\ \A x \in Ranks : x # r => computed'[x] = computed[x]
        /\ computed'[r] = computed[r] + (IF op \in {"fork", "region"} THEN 1 ELSE 0)
    BY <2>5
  <2>7. Regions(Code(r), pc[r])' = computed'[r]
    <3>1. pc'[r] = pc[r] + 1 /\ Code(r)' = Code(r) /\ pc[r] \in Nat \ {0} /\ c = Code(r)[pc[r]]
      BY <1>1, <2>1, CallsAreTyped, CallsMove DEF Code, Call, TextTypes
    <3>2. Regions(Code(r), pc[r])' = Regions(Code(r), pc[r] + 1)
      BY <3>1
    <3>3. QED
      BY <1>2, <2>2, <2>6, <3>1, <3>2, RegionsGrow
  <2>8. QED
    BY <2>4, <2>6, <2>7 DEF TextFlow
<1>5. QED
  BY <1>3, <1>4 DEF Rank

-----------------------------------------------------------------------------
(* What is posted, step by step.                                           *)

LEMMA RenewalIsUnique ==
  ASSUME NEW code, NEW i \in Nat, NEW q, NEW j \in Renewal(code, i, q), NEW k \in Renewal(code, i, q)
  PROVE  j = k
<1>1. /\ j \in 1 .. i - 1 /\ k \in 1 .. i - 1 /\ Renews(code[j], q) /\ Renews(code[k], q)
      /\ \A l \in j + 1 .. i - 1 : ~Renews(code[l], q)
      /\ \A l \in k + 1 .. i - 1 : ~Renews(code[l], q)
  BY DEF Renewal
<1>2. k \notin j + 1 .. i - 1 /\ j \notin k + 1 .. i - 1
  BY <1>1
<1>3. QED
  BY <1>1, <1>2

\* Posts, what it says of each of the two calls that start something.
LEMMA PostSends ==
  ASSUME NEW code, NEW i, code[i].op = "post", NEW kind, NEW peer, NEW tag
  PROVE  Posts(code, i, kind, peer, tag) <=>
           /\ peer # MPI_PROC_NULL
           /\ code[i].kind = kind /\ code[i].peer = peer /\ code[i].tag = tag
BY DEF Posts

LEMMA OthersSendNothing ==
  ASSUME NEW code, NEW i, code[i].op \notin {"post", "mpix_wait"}, NEW kind, NEW peer, NEW tag
  PROVE  ~Posts(code, i, kind, peer, tag)
BY DEF Posts

\* What MPIX_Wait starts is what the text says.
LEMMA WaitSends ==
  ASSUME FlowInv, NEW r \in Ranks, Calls(r, "mpix_wait")
  PROVE  LET request == requests[r][Call(r).req]
         IN  /\ request.dest = MPI_PROC_NULL \/ request.peer = MPI_PROC_NULL =>
                  \A kind \in Kinds, peer \in Ranks, tag \in Tags : ~Posts(Code(r), pc[r], kind, peer, tag)
             /\ request.dest # MPI_PROC_NULL /\ request.peer # MPI_PROC_NULL =>
                  /\ request.kind \in Kinds /\ request.peer \in Ranks
                  /\ \A kind \in Kinds, peer \in Ranks, tag \in Tags :
                       Posts(Code(r), pc[r], kind, peer, tag)
                         <=> kind = request.kind /\ peer = request.peer /\ tag = "TAG"
                  /\ request.kind = "send" =>
                       <<request.msg, computed[r]>> = Message(Code(r), pc[r])
<1> DEFINE q == Call(r).req
           request == requests[r][q]
           code == Code(r)
           at == pc[r]
<1>1. TextTypes /\ NamesInv(r) /\ computed[r] = Regions(code, at)
  BY DEF FlowInv, TextTypes, TextFlow
<1>2. /\ code[at].op = "mpix_wait" /\ code[at].req = q /\ q \in Requests
      /\ at \in 1 .. Len(code) /\ at \in Nat /\ code \in Seq(MainCall)
  BY <1>1, CallsAreTyped, CallFields DEF Call, TextTypes, IsProgram
<1>3. /\ request \in RequestRecord /\ request.peer \in Peers
  BY <1>1, <1>2 DEF TextTypes, RequestRecord
<1> HIDE DEF request
<1>4. CASE (\A j \in 1 .. at - 1 : ~Renews(code[j], q)) /\ request.peer = MPI_PROC_NULL
  <2>1. Renewal(code, at, q) = {}
    BY <1>4 DEF Renewal
  <2>2. \A kind \in Kinds, peer \in Ranks, tag \in Tags : ~Posts(code, at, kind, peer, tag)
    BY <1>2, <2>1 DEF Posts
  <2>3. QED
    BY <1>4, <2>2 DEF request
<1>5. ASSUME NEW j \in Renewal(code, at, q), Named(request, code[j])
      PROVE  /\ request.dest = MPI_PROC_NULL \/ request.peer = MPI_PROC_NULL =>
                  \A kind \in Kinds, peer \in Ranks, tag \in Tags : ~Posts(code, at, kind, peer, tag)
             /\ request.dest # MPI_PROC_NULL /\ request.peer # MPI_PROC_NULL =>
                  /\ request.kind \in Kinds /\ request.peer \in Ranks
                  /\ \A kind \in Kinds, peer \in Ranks, tag \in Tags :
                       Posts(code, at, kind, peer, tag)
                         <=> kind = request.kind /\ peer = request.peer /\ tag = "TAG"
                  /\ request.kind = "send" => <<request.msg, computed[r]>> = Message(code, at)
  <2>1. \A k \in Renewal(code, at, q) : k = j
    BY <1>2, RenewalIsUnique
  <2>2. ASSUME NEW kind, NEW peer, NEW tag
        PROVE  Posts(code, at, kind, peer, tag) <=>
                 /\ peer # MPI_PROC_NULL /\ tag = "TAG"
                 /\ code[j].op = InitOf(kind) /\ code[j].peer = peer
    BY <1>2, <2>1 DEF Posts
  <2>3. (CHOOSE k \in Renewal(code, at, q) : TRUE) = j
    BY <2>1
  <2>4. Message(code, at) = <<code[j].msg, computed[r]>>
    BY <1>1, <1>2, <2>3 DEF Message, Regions
  <2>5. \A kind \in Kinds : InitOf(kind) = IF kind = "send" THEN "psend_init" ELSE "precv_init"
    BY DEF InitOf
  <2>6. CASE code[j].op = "psend_init"
    <3>1. /\ request.kind = "send" /\ request.peer = code[j].peer
          /\ request.dest = code[j].peer /\ request.msg = code[j].msg
      BY <1>5, <2>6 DEF Named
    <3>2. \A kind \in Kinds : code[j].op = InitOf(kind) <=> kind = "send"
      BY <2>5, <2>6 DEF Kinds
    <3>3. QED
      BY <1>3, <2>2, <2>4, <3>1, <3>2 DEF Kinds, Peers
  <2>7. CASE code[j].op = "precv_init"
    <3>1. request.kind = "recv" /\ request.peer = code[j].peer /\ request.dest = 0
      BY <1>5, <2>7 DEF Named
    <3>2. \A kind \in Kinds : code[j].op = InitOf(kind) <=> kind = "recv"
      BY <2>5, <2>7 DEF Kinds
    <3>3. request.dest # MPI_PROC_NULL
      BY <3>1, ProgramsAssumption
    <3>4. QED
      BY <1>3, <2>2, <2>4, <3>1, <3>2, <3>3 DEF Kinds, Peers
  <2>8. CASE code[j].op \notin {"psend_init", "precv_init"}
    <3>1. request.peer = MPI_PROC_NULL
      BY <1>5, <2>8 DEF Named
    <3>2. \A kind \in Kinds, peer \in Ranks, tag \in Tags : ~Posts(code, at, kind, peer, tag)
      BY <2>2, <2>5, <2>8
    <3>3. QED
      BY <3>1, <3>2
  <2>9. QED
    BY <2>6, <2>7, <2>8
<1>6. \/ (\A j \in 1 .. at - 1 : ~Renews(code[j], q)) /\ request.peer = MPI_PROC_NULL
      \/ \E j \in Renewal(code, at, q) : Named(request, code[j])
  BY <1>1, <1>2 DEF NamesInv, request
<1>7. QED
  <2>1. CASE \E j \in Renewal(code, at, q) : Named(request, code[j])
    <3>1. PICK j \in Renewal(code, at, q) : Named(request, code[j])
      BY <2>1
    <3>2. QED
      BY <1>5, <3>1 DEF request
  <2>2. QED
    BY <1>4, <1>6, <2>1

LEMMA PostedIsTyped ==
  ASSUME NEW r \in Ranks, NEW o \in Operation, posted \in [Ranks -> Seq(Operation)],
         posted' = [posted EXCEPT ![r] = Append(@, o)]
  PROVE  /\ posted' \in [Ranks -> Seq(Operation)] /\ posted'[r] = Append(posted[r], o)
         /\ \A x \in Ranks : x # r => posted'[x] = posted[x]
OBVIOUS

\* A rank's call.
LEMMA CallPosts ==
  ASSUME FlowInv, NEW r \in Ranks, Rank(r)
  PROVE  /\ PostedInv(r)' /\ posted' \in [Ranks -> Seq(Operation)] /\ received' = received
         /\ \A x \in Ranks : x # r => posted'[x] = posted[x]
<1> DEFINE code == Code(r)
           at == pc[r] - 1
           c == Call(r)
<1>1. /\ TextTypes /\ posted \in [Ranks -> Seq(Operation)] /\ PostedInv(r)
      /\ computed \in [Ranks -> Nat] /\ code \in Seq(MainCall)
  BY DEF FlowInv, TextTypes, IsProgram
<1>2. UNCHANGED <<scenario, received>>
  BY DEF Rank, Communicate, Wait, MPIX_Psend_init, MPIX_Precv_init, MPIX_Start, MPIX_Pready,
         MPIX_Wait, MPIX_Request_free, Fork, Compute, mpi, Post
<1>3. PICK op : Calls(r, op)
  BY DEF Rank, Communicate, Wait, MPIX_Psend_init, MPIX_Precv_init, MPIX_Start, MPIX_Pready,
         MPIX_Wait, MPIX_Request_free, Fork, Compute
<1>4. /\ c = code[at + 1] /\ c \in MainCall /\ at \in Nat /\ at + 1 \in 1 .. Len(code)
      /\ at + 1 = pc[r] /\ (pc[r] - 1)' = at + 1 /\ Code(r)' = code /\ Done(r)' = Done(r)
  <2>1. pc'[r] = pc[r] + 1 /\ c \in MainCall /\ pc[r] \in 1 .. Len(code) /\ c = code[pc[r]]
    BY <1>1, <1>3, CallsAreTyped, CallsMove DEF Call, TextTypes
  <2>2. Code(r)' = code /\ Done(r)' = Done(r)
    BY <1>2 DEF Code, Done, Arrived
  <2>3. pc[r] \in Nat \ {0}
    BY <1>1 DEF TextTypes
  <2>4. QED
    BY <2>1, <2>2, <2>3
<1>5. PICK x : Numbered(code, at, posted[r], x, Done(r))
  BY <1>1 DEF PostedInv
<1>6. ASSUME posted' \in [Ranks -> Seq(Operation)],
             \E y : Numbered(code, at + 1, posted'[r], y, Done(r))
      PROVE  PostedInv(r)'
  BY <1>4, <1>6 DEF PostedInv
<1> HIDE DEF c, at, code
<1>7. CASE c.op \notin {"post", "mpix_wait"}
  <2>1. posted' = posted
    <3>1. ~Communicate(r) /\ ~MPIX_Wait(r)
      BY <1>1, <1>7, CallsAreTyped DEF Communicate, MPIX_Wait, c
    <3>2. QED
      BY <3>1 DEF Rank, Wait, MPIX_Psend_init, MPIX_Precv_init, MPIX_Start, MPIX_Pready,
           MPIX_Request_free, Fork, Compute, mpi
  <2>2. ASSUME NEW k \in 1 .. Len(posted[r]), c.op = "wait", posted[r][k].req \in c.reqs
        PROVE  posted[r][k].buffered
    <3>1. Wait(r)
      BY <1>1, <2>2, CallsAreTyped DEF Rank, Communicate, MPIX_Psend_init, MPIX_Precv_init,
         MPIX_Start, MPIX_Pready, MPIX_Wait, MPIX_Request_free, Fork, Compute, c
    <3>2. ~Pending(r, posted[r][k].req)
      BY <2>2, <3>1 DEF Wait, c
    <3>3. posted[r] \in Seq(Operation)
      BY <1>1
    <3>4. QED
      BY <3>2, <3>3 DEF Pending
  <2>3. \A kind \in Kinds, peer \in Ranks, tag \in Tags : ~Posts(code, at + 1, kind, peer, tag)
    BY <1>4, <1>7, OthersSendNothing
  <2>4. Numbered(code, at + 1, posted[r], x, Done(r))
    BY <1>4, <1>5, <2>2, <2>3, NothingPosted
  <2>5. QED
    BY <1>1, <1>2, <1>6, <2>1, <2>4
\* A call that starts operation o, or none.
<1>8. ASSUME NEW o, c.op \in {"post", "mpix_wait"},
             o.peer # MPI_PROC_NULL => /\ o \in Operation /\ ~o.buffered /\ o.req = c.req
                                       /\ o.kind = "send" => o.msg = Message(code, at + 1),
             \A kind \in Kinds, peer \in Ranks, tag \in Tags :
               Posts(code, at + 1, kind, peer, tag) <=> o.peer # MPI_PROC_NULL /\ IsOn(o, kind, peer, tag),
             Post(r, o)
      PROVE  /\ PostedInv(r)' /\ posted' \in [Ranks -> Seq(Operation)]
             /\ \A z \in Ranks : z # r => posted'[z] = posted[z]
  <2>1. code[at + 1].op # "wait" /\ code[at + 1] = c
    BY <1>4, <1>8
  <2>2. CASE o.peer = MPI_PROC_NULL
    <3>1. posted' = posted
      BY <1>8, <2>2 DEF Post
    <3>2. Numbered(code, at + 1, posted[r], x, Done(r))
      BY <1>4, <1>5, <1>8, <2>1, <2>2, NothingPosted
    <3>3. QED
      BY <1>1, <1>6, <3>1, <3>2
  <2>3. CASE o.peer # MPI_PROC_NULL
    <3>1. posted' = [posted EXCEPT ![r] = Append(@, o)] /\ o \in Operation
      BY <1>8, <2>3 DEF Post
    <3>2. \E y : Numbered(code, at + 1, Append(posted[r], o), y, Done(r))
      BY <1>4, <1>5, <1>8, <2>1, <2>3, OnePosted
    <3>3. /\ posted' \in [Ranks -> Seq(Operation)] /\ posted'[r] = Append(posted[r], o)
          /\ \A z \in Ranks : z # r => posted'[z] = posted[z]
      BY <1>1, <3>1, PostedIsTyped
    <3>4. QED
      BY <1>6, <3>2, <3>3
  <2>4. QED
    BY <2>2, <2>3
<1>9. CASE c.op = "post"
  <2> DEFINE o == [kind |-> c.kind, peer |-> c.peer, tag |-> c.tag, req |-> c.req,
                   msg |-> <<c.msg, computed[r]>>, buffered |-> FALSE]
  <2>1. Post(r, o)
    <3>1. Communicate(r)
      BY <1>1, <1>9, CallsAreTyped DEF Rank, Wait, MPIX_Psend_init, MPIX_Precv_init,
         MPIX_Start, MPIX_Pready, MPIX_Wait, MPIX_Request_free, Fork, Compute, c
    <3>2. QED
      BY <3>1 DEF Communicate, c
  <2>2. /\ c.kind \in Kinds /\ c.peer \in Peers /\ c.tag \in Tags
        /\ c.req \in STRING /\ c.msg \in STRING /\ computed[r] \in Nat
    BY <1>1, <1>4, <1>9 DEF MainCall, Kinds
  <2>3. o.peer # MPI_PROC_NULL => o \in Operation /\ ~o.buffered /\ o.req = c.req
    BY <2>2 DEF Operation, Messages, Peers
  <2>4. o.msg = Message(code, at + 1)
    <3>1. computed[r] = Regions(code, at + 1)
      BY <1>4 DEF FlowInv, TextFlow, code
    <3>2. QED
      BY <1>4, <1>9, <3>1 DEF Message, Regions
  <2>5. \A kind \in Kinds, peer \in Ranks, tag \in Tags :
          Posts(code, at + 1, kind, peer, tag) <=> o.peer # MPI_PROC_NULL /\ IsOn(o, kind, peer, tag)
    BY <1>4, <1>9, PostSends DEF IsOn
  <2> HIDE DEF o
  <2>6. QED
    BY <1>2, <1>8, <1>9, <2>1, <2>3, <2>4, <2>5
<1>10. CASE c.op = "mpix_wait"
  <2> DEFINE request == requests[r][c.req]
             o == [kind |-> request.kind, peer |-> request.peer, tag |-> "TAG", req |-> c.req,
                   msg |-> <<request.msg, computed[r]>>, buffered |-> FALSE]
  <2>1. IF request.dest = MPI_PROC_NULL THEN posted' = posted ELSE Post(r, o)
    <3>1. MPIX_Wait(r)
      BY <1>1, <1>10, CallsAreTyped DEF Rank, Wait, MPIX_Psend_init, MPIX_Precv_init,
         MPIX_Start, MPIX_Pready, Communicate, MPIX_Request_free, Fork, Compute, c
    <3>2. QED
      BY <3>1 DEF MPIX_Wait, c, mpi
  <2>2. Calls(r, "mpix_wait") /\ c.req \in Requests
    BY <1>3, <1>4, <1>10, CallFields DEF Calls, c
  <2>3. /\ request.dest = MPI_PROC_NULL \/ request.peer = MPI_PROC_NULL =>
             \A kind \in Kinds, peer \in Ranks, tag \in Tags : ~Posts(code, at + 1, kind, peer, tag)
        /\ request.dest # MPI_PROC_NULL /\ request.peer # MPI_PROC_NULL =>
             /\ request.kind \in Kinds /\ request.peer \in Ranks
             /\ \A kind \in Kinds, peer \in Ranks, tag \in Tags :
                  Posts(code, at + 1, kind, peer, tag)
                    <=> kind = request.kind /\ peer = request.peer /\ tag = "TAG"
             /\ request.kind = "send" => <<request.msg, computed[r]>> = Message(code, at + 1)
    BY <1>4, <2>2, WaitSends DEF c, code
  <2>4. request.msg \in STRING \cup {"none"} /\ computed[r] \in Nat
    <3>1. requests[r][c.req] \in RequestRecord
      BY <1>1, <2>2 DEF TextTypes
    <3>2. request.msg \in STRING \cup {"none"}
      BY <3>1 DEF RequestRecord
    <3>3. QED
      BY <1>1, <3>2
  <2> HIDE DEF request
  <2>5. CASE request.dest = MPI_PROC_NULL
    <3>1. code[at + 1].op # "wait" /\ posted' = posted
      BY <1>4, <1>10, <2>1, <2>5
    <3>2. \A kind \in Kinds, peer \in Ranks, tag \in Tags : ~Posts(code, at + 1, kind, peer, tag)
      BY <2>3, <2>5
    <3>3. Numbered(code, at + 1, posted[r], x, Done(r))
      BY <1>4, <1>5, <3>1, <3>2, NothingPosted
    <3>4. QED
      BY <1>1, <1>2, <1>6, <3>1, <3>3
  <2>6. CASE request.dest # MPI_PROC_NULL
    <3>1. o.peer # MPI_PROC_NULL => /\ o \in Operation /\ ~o.buffered /\ o.req = c.req
                                    /\ o.kind = "send" => o.msg = Message(code, at + 1)
      <4> SUFFICES ASSUME request.peer # MPI_PROC_NULL
                   PROVE  /\ o \in Operation /\ ~o.buffered /\ o.req = c.req
                          /\ o.kind = "send" => o.msg = Message(code, at + 1)
        OBVIOUS
      <4>1. request.kind \in Kinds /\ request.peer \in Ranks /\ "TAG" \in Tags
        BY <2>3, <2>6 DEF Tags
      <4>2. o \in Operation
        BY <2>2, <2>4, <4>1 DEF Operation, Messages
      <4>3. QED
        BY <2>3, <2>6, <4>2
    <3>2. \A kind \in Kinds, peer \in Ranks, tag \in Tags :
            Posts(code, at + 1, kind, peer, tag) <=> o.peer # MPI_PROC_NULL /\ IsOn(o, kind, peer, tag)
      BY <2>3, <2>6 DEF IsOn
    <3>3. Post(r, o)
      BY <2>1, <2>6
    <3> HIDE DEF o
    <3>4. QED
      BY <1>2, <1>8, <1>10, <3>1, <3>2, <3>3
  <2>7. QED
    BY <2>5, <2>6
<1>11. QED
  BY <1>7, <1>9, <1>10

LEMMA BufferPosts ==
  ASSUME FlowInv, NEW r \in Ranks, Buffer(r)
  PROVE  /\ PostedInv(r)' /\ posted' \in [Ranks -> Seq(Operation)] /\ received' = received
         /\ \A x \in Ranks : x # r => posted'[x] = posted[x]
<1>1. /\ posted \in [Ranks -> Seq(Operation)] /\ PostedInv(r) /\ TextTypes
      /\ UNCHANGED <<scenario, pc, received>>
  BY DEF FlowInv, TextTypes, Buffer, BufferSend
<1>2. PICK i \in DOMAIN posted[r] :
        posted[r][i].kind = "send" /\ posted' = [posted EXCEPT ![r][i].buffered = TRUE]
  BY DEF Buffer, BufferSend
<1> DEFINE new == [posted[r] EXCEPT ![i].buffered = TRUE]
<1>3. posted[r] \in Seq(Operation) /\ i \in 1 .. Len(posted[r])
  BY <1>1, <1>2
<1>4. posted' = [posted EXCEPT ![r] = new]
  BY <1>1, <1>2
<1>5. PICK x : Numbered(Code(r), pc[r] - 1, posted[r], x, Done(r))
  BY <1>1 DEF PostedInv
<1>6. pc[r] - 1 \in Nat
  BY <1>1 DEF TextTypes
<1>7. Numbered(Code(r), pc[r] - 1, new, x, Done(r))
  BY <1>2, <1>3, <1>5, <1>6, OneBuffered
<1>8. new \in Seq(Operation)
  BY <1>7 DEF Numbered, Listed
<1> HIDE DEF new
<1>9. /\ posted' \in [Ranks -> Seq(Operation)] /\ posted'[r] = new
      /\ \A z \in Ranks : z # r => posted'[z] = posted[z]
  BY <1>1, <1>4, <1>8
<1>10. Code(r)' = Code(r) /\ (pc[r] - 1)' = pc[r] - 1 /\ Done(r)' = Done(r)
  BY <1>1 DEF Code, Done, Arrived
<1>11. QED
  BY <1>1, <1>7, <1>9, <1>10 DEF PostedInv

\* Only what a rank's channels have got is asked for.
SameDone(more, done) ==
  \A k \in Kinds, p \in Ranks, t \in Tags : more[<<k, p, t>>] = done[<<k, p, t>>]

LEMMA SameNumbers ==
  ASSUME NEW code, NEW at, NEW ops, NEW x, NEW done, Numbered(code, at, ops, x, done),
         NEW more, SameDone(more, done)
  PROVE  Numbered(code, at, ops, x, more)
BY DEF Numbered, SameDone

\* A message that arrives.
Delivers(s, d, tag, msg) ==
  /\ received \in [Ranks -> Seq(Arrival)]
  /\ s \in Ranks /\ d \in Ranks /\ tag \in Tags /\ msg \in Messages
  /\ received' = [received EXCEPT ![d] = Append(received[d], [from |-> s, tag |-> tag, msg |-> msg])]

LEMMA ArrivedOneMore ==
  ASSUME NEW s, NEW d, NEW tag, NEW msg, Delivers(s, d, tag, msg)
  PROVE  /\ received' \in [Ranks -> Seq(Arrival)]
         /\ Len(received[d]) + 1 \in Arrived(s, d, tag)'
         /\ received'[d][Len(received[d]) + 1].msg = msg
         /\ \A r \in Ranks : \A i \in 1 .. Len(received[r]) : received'[r][i] = received[r][i]
         /\ \A r, p \in Ranks, t \in Tags :
              Arrived(r, p, t)' = IF <<r, p, t>> = <<s, d, tag>>
                                  THEN Arrived(s, d, tag) \cup {Len(received[d]) + 1}
                                  ELSE Arrived(r, p, t)
<1> DEFINE m == [from |-> s, tag |-> tag, msg |-> msg]
           n == Len(received[d])
<1>0. /\ received \in [Ranks -> Seq(Arrival)]
      /\ s \in Ranks /\ d \in Ranks /\ tag \in Tags /\ msg \in Messages
      /\ received' = [received EXCEPT ![d] = Append(received[d], m)]
  BY DEF Delivers
<1> USE <1>0
<1>1. m \in Arrival
  BY DEF Arrival
<1>2. n \in Nat
  OBVIOUS
<1>3. m.from = s /\ m.tag = tag /\ m.msg = msg
  OBVIOUS
<1>4. received[d] \in Seq(Arrival) /\ \A p \in Ranks : DOMAIN received[p] = 1 .. Len(received[p])
  OBVIOUS
<1> HIDE DEF m
<1>5. /\ received' \in [Ranks -> Seq(Arrival)] /\ received'[d] = Append(received[d], m)
      /\ \A p \in Ranks : p # d => received'[p] = received[p]
  BY <1>1
<1>6. /\ DOMAIN received'[d] = 1 .. n + 1 /\ received'[d][n + 1] = m
      /\ \A i \in 1 .. n : received'[d][i] = received[d][i]
  BY <1>1, <1>4, <1>5
<1> HIDE <1>0
<1> HIDE DEF n
<1>7. ASSUME NEW r \in Ranks, NEW p \in Ranks, NEW t \in Tags
      PROVE  Arrived(r, p, t)' = IF <<r, p, t>> = <<s, d, tag>> THEN Arrived(s, d, tag) \cup {n + 1}
                                 ELSE Arrived(r, p, t)
  <2>1. CASE p # d
    BY <1>5, <2>1 DEF Arrived
  <2>2. CASE p = d
    <3>1. Arrived(r, d, t)' = {i \in 1 .. n + 1 : received'[d][i].from = r /\ received'[d][i].tag = t}
      BY <1>6 DEF Arrived
    <3>2. Arrived(r, d, t) = {i \in 1 .. n : received[d][i].from = r /\ received[d][i].tag = t}
      BY <1>4 DEF Arrived, n
    <3>3. \A i : i \in 1 .. n + 1 <=> i \in 1 .. n \/ i = n + 1
      BY <1>2
    <3>4. m.from = r /\ m.tag = t <=> <<r, p, t>> = <<s, d, tag>>
      BY <1>3, <2>2
    <3>5. ASSUME NEW i
          PROVE  i \in Arrived(r, d, t)' <=> i \in Arrived(r, d, t) \/ (i = n + 1 /\ m.from = r /\ m.tag = t)
      <4>1. CASE i \in 1 .. n
        <5>1. i # n + 1 /\ received'[d][i] = received[d][i]
          BY <1>2, <1>6, <4>1
        <5>2. QED
          BY <3>1, <3>2, <3>3, <4>1, <5>1
      <4>2. CASE i \notin 1 .. n
        BY <1>6, <3>1, <3>2, <3>3, <4>2
      <4>3. QED
        BY <4>1, <4>2
    <3>6. CASE <<r, p, t>> = <<s, d, tag>>
      <4>1. r = s /\ t = tag /\ \A i : i \in Arrived(r, d, t)' <=> i \in Arrived(r, d, t) \/ i = n + 1
        BY <3>4, <3>5, <3>6
      <4>2. QED
        BY <2>2, <3>6, <4>1
    <3>7. CASE <<r, p, t>> # <<s, d, tag>>
      <4>1. \A i : i \in Arrived(r, d, t)' <=> i \in Arrived(r, d, t)
        BY <3>4, <3>5, <3>7
      <4>2. QED
        BY <2>2, <3>7, <4>1
    <3>8. QED
      BY <3>6, <3>7
  <2>3. QED
    BY <2>1, <2>2
<1>8. n + 1 \in Arrived(s, d, tag)'
  BY <1>0, <1>7
<1>9. QED
  BY <1>3, <1>4, <1>5, <1>6, <1>7, <1>8 DEF n

LEMMA DeliveryCounts ==
  ASSUME NEW s, NEW d, NEW tag, NEW msg, Delivers(s, d, tag, msg)
  PROVE  \A r, p \in Ranks, t \in Tags :
           Cardinality(Arrived(r, p, t))' =
             Cardinality(Arrived(r, p, t)) + (IF <<r, p, t>> = <<s, d, tag>> THEN 1 ELSE 0)
<1> SUFFICES ASSUME NEW r \in Ranks, NEW p \in Ranks, NEW t \in Tags
             PROVE  Cardinality(Arrived(r, p, t))' =
                      Cardinality(Arrived(r, p, t)) + (IF <<r, p, t>> = <<s, d, tag>> THEN 1 ELSE 0)
  OBVIOUS
<1> DEFINE n == Len(received[d])
<1>1. Arrived(r, p, t)' = IF <<r, p, t>> = <<s, d, tag>> THEN Arrived(s, d, tag) \cup {n + 1}
                          ELSE Arrived(r, p, t)
  BY ArrivedOneMore
<1>2. /\ IsFiniteSet(Arrived(r, p, t)) /\ Cardinality(Arrived(r, p, t)) \in Nat
      /\ Arrived(r, p, t) \subseteq 1 .. Len(received[p])
  <2>1. received \in [Ranks -> Seq(Arrival)]
    BY DEF Delivers
  <2>2. QED
    BY <2>1, ArrivedAreCounted
<1>3. CASE <<r, p, t>> = <<s, d, tag>>
  <2>1. Arrived(r, p, t)' = Arrived(r, p, t) \cup {n + 1}
    BY <1>1, <1>3
  <2>2. n + 1 \notin Arrived(r, p, t)
    BY <1>2, <1>3
  <2>3. Cardinality(Arrived(r, p, t) \cup {n + 1}) = Cardinality(Arrived(r, p, t)) + 1
    BY <1>2, <2>2, FS_AddElement
  <2>4. QED
    BY <1>3, <2>1, <2>3
<1>4. CASE <<r, p, t>> # <<s, d, tag>>
  BY <1>1, <1>2, <1>4
<1>5. QED
  BY <1>3, <1>4

\* A message that is delivered: its send and its receive are each the next on its channel.
LEMMA DeliverPosts ==
  ASSUME FlowInv, NEW s \in Ranks, NEW d \in Ranks, Deliver(s, d)
  PROVE  /\ \A r \in Ranks : PostedInv(r)'
         /\ posted' \in [Ranks -> Seq(Operation)] /\ received' \in [Ranks -> Seq(Arrival)]
         /\ \A p, r \in Ranks : InOrder(p, r)'
<1>1. /\ posted \in [Ranks -> Seq(Operation)] /\ received \in [Ranks -> Seq(Arrival)]
      /\ TextTypes /\ SendsAreOrdered(scenario) /\ UNCHANGED <<scenario, pc>>
      /\ \A r \in Ranks : Code(r)' = Code(r) /\ (pc[r] - 1)' = pc[r] - 1 /\ pc[r] - 1 \in Nat
                          /\ pc[r] - 1 <= Len(Code(r)) /\ Len(Code(r)) \in Nat
                          /\ DOMAIN Code(r) = 1 .. Len(Code(r))
  <2>1. /\ posted \in [Ranks -> Seq(Operation)] /\ received \in [Ranks -> Seq(Arrival)]
        /\ TextTypes /\ SendsAreOrdered(scenario) /\ UNCHANGED <<scenario, pc>>
    BY DEF FlowInv, TextTypes, Deliver
  <2>2. ASSUME NEW r \in Ranks
        PROVE  /\ Code(r)' = Code(r) /\ (pc[r] - 1)' = pc[r] - 1 /\ pc[r] - 1 \in Nat
               /\ pc[r] - 1 <= Len(Code(r)) /\ Len(Code(r)) \in Nat
               /\ DOMAIN Code(r) = 1 .. Len(Code(r))
    <3>1. Code(r)' = Code(r) /\ (pc[r] - 1)' = pc[r] - 1
      BY <2>1 DEF Code
    <3>2. Code(r) \in Seq(MainCall) /\ pc[r] \in Nat \ {0} /\ pc[r] <= Len(Code(r)) + 1
      BY <2>1 DEF TextTypes, IsProgram
    <3>3. QED
      BY <3>1, <3>2
  <2>3. QED
    BY <2>1, <2>2
<1>2. PICK tag \in Tags :
        LET i    == FirstPosted(posted[s], "send", d, tag)
            rest == [posted EXCEPT ![s] = RemoveAt(@, i)]
            j    == FirstPosted(rest[d], "recv", s, tag)
        IN  /\ i # 0 /\ j # 0
            /\ posted' = [rest EXCEPT ![d] = RemoveAt(@, j)]
            /\ received' = [received EXCEPT ![d] =
                 Append(@, [from |-> s, tag |-> tag, msg |-> posted[s][i].msg])]
  BY DEF Deliver, Match
<1> DEFINE i    == FirstPosted(posted[s], "send", d, tag)
           rest == [posted EXCEPT ![s] = RemoveAt(@, i)]
           j    == FirstPosted(rest[d], "recv", s, tag)
           msg  == posted[s][i].msg
           Sent(r) == [Done(r) EXCEPT ![<<"send", d, tag>>] = IF r = s THEN @ + 1 ELSE @]
           n    == Len(received[d])
           nth  == Done(s)[<<"send", d, tag>>] + 1
<1>3. /\ i # 0 /\ j # 0 /\ posted' = [rest EXCEPT ![d] = RemoveAt(rest[d], j)]
      /\ received' = [received EXCEPT ![d] = Append(received[d], [from |-> s, tag |-> tag, msg |-> msg])]
  BY <1>1, <1>2
<1>4. "send" \in Kinds /\ "recv" \in Kinds /\ <<"send", d, tag>> \in Channels
  BY DEF Kinds, Channels
\* The send leaves its sender.
<1>5. /\ \A r \in Ranks : Sent(r)[<<"send", d, tag>>] =
           IF r = s THEN Done(r)[<<"send", d, tag>>] + 1 ELSE Done(r)[<<"send", d, tag>>]
      /\ \A r \in Ranks, k \in Kinds, p \in Ranks, t \in Tags :
           <<k, p, t>> # <<"send", d, tag>> => Sent(r)[<<k, p, t>>] = Done(r)[<<k, p, t>>]
  <2>1. \A r \in Ranks : DOMAIN Done(r) = Channels
    BY DEF Done
  <2>2. QED
    BY <1>4, <2>1 DEF Channels
<1>6. PICK x : Numbered(Code(s), pc[s] - 1, posted[s], x, Done(s))
  BY DEF FlowInv, PostedInv
<1> HIDE DEF i, rest, j, Sent
<1>7. /\ i \in 1 .. Len(posted[s]) /\ IsOn(posted[s][i], "send", d, tag)
      /\ Count(Code(s), x[i], "send", d, tag) = nth
      /\ nth \in Nat /\ nth <= Count(Code(s), pc[s] - 1, "send", d, tag)
      /\ \E y : Numbered(Code(s), pc[s] - 1, RemoveAt(posted[s], i), y, Sent(s))
  <2>1. GetsOn(Sent(s), Done(s), <<"send", d, tag>>)
    BY <1>5 DEF GetsOn
  <2>2. i = FirstPosted(posted[s], "send", d, tag) /\ i # 0 /\ pc[s] - 1 \in Nat
    BY <1>1, <1>3 DEF i
  <2>3. /\ i \in 1 .. Len(posted[s]) /\ IsOn(posted[s][i], "send", d, tag)
        /\ Count(Code(s), x[i], "send", d, tag) = Done(s)[<<"send", d, tag>>] + 1
        /\ Done(s)[<<"send", d, tag>>] \in Nat
        /\ Done(s)[<<"send", d, tag>>] + 1 <= Count(Code(s), pc[s] - 1, "send", d, tag)
        /\ \E y : Numbered(Code(s), pc[s] - 1, RemoveAt(posted[s], i), y, Sent(s))
    <3>1. FirstLeaves(Code(s), pc[s] - 1, posted[s], x, Done(s), "send", d, tag, i, Sent(s))
      BY <1>4, <1>6, <2>1, <2>2 DEF FirstLeaves
    <3>2. QED
      BY <3>1, OneRemoved
  <2>4. QED
    BY <2>3
<1>8. /\ posted[s] \in Seq(Operation) /\ RemoveAt(posted[s], i) \in Seq(Operation)
      /\ Delivers(s, d, tag, msg)
  <2>1. posted[s] \in Seq(Operation)
    BY <1>1
  <2>2. posted[s][i] \in Operation
    BY <1>7, <2>1
  <2>3. RemoveAt(posted[s], i) \in Seq(Operation)
    BY <1>7, <2>1, Removed
  <2>4. msg \in Messages
    BY <2>2 DEF Operation
  <2>5. Delivers(s, d, tag, msg)
    BY <1>1, <1>3, <2>4 DEF Delivers
  <2>6. QED
    BY <2>1, <2>3, <2>5
<1>9. /\ rest \in [Ranks -> Seq(Operation)] /\ rest[s] = RemoveAt(posted[s], i)
      /\ \A r \in Ranks : r # s => rest[r] = posted[r]
  BY <1>1, <1>8 DEF rest
<1>10. ASSUME NEW r \in Ranks PROVE \E y : Numbered(Code(r), pc[r] - 1, rest[r], y, Sent(r))
  <2>1. CASE r = s
    BY <1>7, <1>9, <2>1
  <2>2. CASE r # s
    <3>1. PICK y : Numbered(Code(r), pc[r] - 1, posted[r], y, Done(r))
      BY DEF FlowInv, PostedInv
    <3>2. SameDone(Sent(r), Done(r))
      BY <1>5, <2>2 DEF SameDone
    <3>3. QED
      BY <1>9, <2>2, <3>1, <3>2, SameNumbers
  <2>3. QED
    BY <2>1, <2>2
\* The receive leaves its receiver.
<1>11. /\ received' \in [Ranks -> Seq(Arrival)]
       /\ \A r, p \in Ranks, t \in Tags :
            Cardinality(Arrived(r, p, t))' =
              Cardinality(Arrived(r, p, t)) + (IF <<r, p, t>> = <<s, d, tag>> THEN 1 ELSE 0)
  BY <1>8, ArrivedOneMore, DeliveryCounts
<1>12. \A r, p \in Ranks, t \in Tags :
         /\ Done(r)'[<<"send", p, t>>] = Cardinality(Arrived(r, p, t))'
         /\ Done(r)'[<<"recv", p, t>>] = Cardinality(Arrived(p, r, t))'
  <2>1. ASSUME NEW r \in Ranks, NEW p \in Ranks, NEW t \in Tags
        PROVE  <<"send", p, t>> \in Channels /\ <<"recv", p, t>> \in Channels
    BY DEF Channels, Kinds
  <2>2. QED
    BY <2>1 DEF Done
<1>13. \A r, p \in Ranks, t \in Tags :
         /\ Cardinality(Arrived(r, p, t)) \in Nat
         /\ Done(r)[<<"send", p, t>>] = Cardinality(Arrived(r, p, t))
         /\ Done(r)[<<"recv", p, t>>] = Cardinality(Arrived(p, r, t))
  BY <1>1, DoneOnChannels, ArrivedAreCounted
<1>14. ASSUME NEW r \in Ranks, NEW p \in Ranks, NEW t \in Tags
       PROVE  /\ Sent(r)[<<"recv", p, t>>] = Cardinality(Arrived(p, r, t))
              /\ Sent(r)[<<"recv", p, t>>] \in Nat
  <2>1. <<"recv", p, t>> # <<"send", d, tag>>
    OBVIOUS
  <2>2. Sent(r)[<<"recv", p, t>>] = Done(r)[<<"recv", p, t>>]
    BY <1>4, <1>5, <2>1
  <2>3. /\ Done(r)[<<"recv", p, t>>] = Cardinality(Arrived(p, r, t))
        /\ Cardinality(Arrived(p, r, t)) \in Nat
    BY <1>13
  <2>4. QED
    BY <2>2, <2>3
<1>15. ASSUME NEW r \in Ranks, NEW p \in Ranks, NEW t \in Tags
       PROVE  /\ Done(r)'[<<"send", p, t>>] = Sent(r)[<<"send", p, t>>]
              /\ <<p, r, t>> = <<s, d, tag>> =>
                   Done(r)'[<<"recv", p, t>>] = Sent(r)[<<"recv", p, t>>] + 1
              /\ <<p, r, t>> # <<s, d, tag>> => Done(r)'[<<"recv", p, t>>] = Sent(r)[<<"recv", p, t>>]
  <2>1. Sent(r)[<<"send", p, t>>] =
          Cardinality(Arrived(r, p, t)) + (IF <<r, p, t>> = <<s, d, tag>> THEN 1 ELSE 0)
    <3>0. /\ Cardinality(Arrived(r, p, t)) \in Nat
          /\ Done(r)[<<"send", p, t>>] = Cardinality(Arrived(r, p, t))
      BY <1>13
    <3>1. CASE <<p, t>> = <<d, tag>>
      <4>1. p = d /\ t = tag
        BY <3>1
      <4>2. QED
        BY <1>5, <3>0, <4>1
    <3>2. CASE <<p, t>> # <<d, tag>>
      <4>1. <<"send", p, t>> # <<"send", d, tag>> /\ <<r, p, t>> # <<s, d, tag>>
        BY <3>2
      <4>2. Sent(r)[<<"send", p, t>>] = Done(r)[<<"send", p, t>>]
        BY <1>4, <1>5, <4>1
      <4>3. QED
        BY <3>0, <4>1, <4>2
    <3>3. QED
      BY <3>1, <3>2
  <2>2. Done(r)'[<<"recv", p, t>>] =
          Sent(r)[<<"recv", p, t>>] + (IF <<p, r, t>> = <<s, d, tag>> THEN 1 ELSE 0)
    <3>1. Done(r)'[<<"recv", p, t>>] = Cardinality(Arrived(p, r, t))'
      BY <1>12
    <3>2. Cardinality(Arrived(p, r, t))' =
            Cardinality(Arrived(p, r, t)) + (IF <<p, r, t>> = <<s, d, tag>> THEN 1 ELSE 0)
      BY <1>11
    <3>3. QED
      BY <1>14, <3>1, <3>2
  <2>3. Sent(r)[<<"recv", p, t>>] \in Nat
    BY <1>14
  <2>4. QED
    BY <1>11, <1>12, <2>1, <2>2, <2>3
<1>16. /\ j \in 1 .. Len(rest[d])
       /\ \E y : Numbered(Code(d), pc[d] - 1, RemoveAt(rest[d], j), y, Done(d)')
  <2> DEFINE more == Done(d)'
  <2>1. PICK z : Numbered(Code(d), pc[d] - 1, rest[d], z, Sent(d))
    BY <1>10
  <2>2. j = FirstPosted(rest[d], "recv", s, tag) /\ j # 0 /\ pc[d] - 1 \in Nat
    BY <1>1, <1>3 DEF j
  <2>3. more[<<"recv", s, tag>>] = Sent(d)[<<"recv", s, tag>>] + 1
    BY <1>15
  <2>4. ASSUME NEW k \in Kinds, NEW p \in Ranks, NEW t \in Tags, <<k, p, t>> # <<"recv", s, tag>>
        PROVE  more[<<k, p, t>>] = Sent(d)[<<k, p, t>>]
    <3>1. CASE k = "send"
      BY <1>15, <3>1
    <3>2. CASE k = "recv"
      <4>1. <<p, d, t>> # <<s, d, tag>>
        BY <2>4, <3>2
      <4>2. QED
        BY <1>15, <3>2, <4>1
    <3>3. QED
      BY <3>1, <3>2 DEF Kinds
  <2> HIDE DEF more
  <2>5. GetsOn(more, Sent(d), <<"recv", s, tag>>)
    BY <2>3, <2>4 DEF GetsOn
  <2>6. /\ j \in 1 .. Len(rest[d])
        /\ \E y : Numbered(Code(d), pc[d] - 1, RemoveAt(rest[d], j), y, more)
    <3>1. FirstLeaves(Code(d), pc[d] - 1, rest[d], z, Sent(d), "recv", s, tag, j, more)
      BY <1>4, <2>1, <2>2, <2>5 DEF FirstLeaves
    <3>2. QED
      BY <3>1, OneRemoved
  <2>7. QED
    BY <2>6 DEF more
<1>17. /\ posted' \in [Ranks -> Seq(Operation)] /\ posted'[d] = RemoveAt(rest[d], j)
       /\ \A r \in Ranks : r # d => posted'[r] = rest[r]
  <2>1. RemoveAt(rest[d], j) \in Seq(Operation)
    <3>1. rest[d] \in Seq(Operation)
      BY <1>9
    <3>2. QED
      BY <1>16, <3>1, Removed
  <2>2. QED
    BY <1>3, <1>9, <2>1
<1>18. ASSUME NEW r \in Ranks PROVE PostedInv(r)'
  <2>1. \E y : Numbered(Code(r), pc[r] - 1, posted'[r], y, Done(r)')
    <3>1. CASE r = d
      BY <1>16, <1>17, <3>1
    <3>2. CASE r # d
      <4>1. PICK y : Numbered(Code(r), pc[r] - 1, rest[r], y, Sent(r))
        BY <1>10
      <4>2. ASSUME NEW k \in Kinds, NEW p \in Ranks, NEW t \in Tags
            PROVE  Done(r)'[<<k, p, t>>] = Sent(r)[<<k, p, t>>]
        <5>1. CASE k = "send"
          BY <1>15, <5>1
        <5>2. CASE k = "recv"
          <6>1. <<p, r, t>> # <<s, d, tag>>
            BY <3>2
          <6>2. QED
            BY <1>15, <5>2, <6>1
        <5>3. QED
          BY <5>1, <5>2 DEF Kinds
      <4>3. Numbered(Code(r), pc[r] - 1, rest[r], y, Done(r)')
        <5>1. SameDone(Done(r)', Sent(r))
          BY <4>2 DEF SameDone
        <5>2. QED
          BY <4>1, <5>1, SameNumbers
      <4>4. QED
        BY <1>17, <3>2, <4>3
    <3>3. QED
      BY <3>1, <3>2
  <2>2. QED
    BY <1>1, <1>17, <2>1 DEF PostedInv
\* What arrives is what is expected next.
<1>19. ASSUME tag = "TAG"
       PROVE  nth <= Len(Expected(scenario, s, d)) /\ msg = Expected(scenario, s, d)[nth].msg
  <2>1. x[i] \in 1 .. pc[s] - 1 /\ ComesFrom(Code(s), pc[s] - 1, posted[s][i], x[i])
    BY <1>6, <1>7 DEF Numbered, Listed
  <2>2. x[i] \in DOMAIN Code(s)
    BY <1>1, <2>1
  <2>3. Posts(Code(s), x[i], "send", d, "TAG") /\ msg = Message(Code(s), x[i])
    BY <1>7, <1>19, <2>1 DEF ComesFrom, IsOn
  <2>4. /\ Count(Code(s), Len(Code(s)), "send", d, "TAG") = Len(Expected(scenario, s, d))
        /\ Expected(scenario, s, d)[Count(Code(s), x[i], "send", d, "TAG")].msg = Message(Code(s), x[i])
    <3> DEFINE code == scenario.code[s]
    <3>1. /\ Count(code, Len(code), "send", d, "TAG") = Len(Expected(scenario, s, d))
          /\ \A k \in DOMAIN code :
               Posts(code, k, "send", d, "TAG") =>
                 Expected(scenario, s, d)[Count(code, k, "send", d, "TAG")].msg = Message(code, k)
      BY <1>1 DEF SendsAreOrdered
    <3>2. code = Code(s)
      BY DEF Code
    <3> HIDE DEF code
    <3>3. QED
      BY <2>2, <2>3, <3>1, <3>2
  <2>5. Count(Code(s), pc[s] - 1, "send", d, "TAG") <= Count(Code(s), Len(Code(s)), "send", d, "TAG")
    BY <1>1, CountGrows
  <2>6. /\ Count(Code(s), pc[s] - 1, "send", d, "TAG") \in Nat
        /\ Count(Code(s), Len(Code(s)), "send", d, "TAG") \in Nat
    <3>1. pc[s] - 1 \in Int /\ Len(Code(s)) \in Int
      BY <1>1
    <3>2. QED
      BY <3>1, CountIsNatural
  <2>7. QED
    BY <1>7, <1>19, <2>3, <2>4, <2>5, <2>6
<1>20. ASSUME NEW p \in Ranks, NEW r \in Ranks PROVE InOrder(p, r)'
  <2> DEFINE A == Arrived(p, r, "TAG")
             B == Arrived(p, r, "TAG")'
             E == Expected(scenario, p, r)
  <2>1. /\ B = IF <<p, r, "TAG">> = <<s, d, tag>> THEN A \cup {n + 1} ELSE A
        /\ received'[d][n + 1].msg = msg
        /\ \A k \in 1 .. Len(received[r]) : received'[r][k] = received[r][k]
    <3>1. "TAG" \in Tags
      BY DEF Tags
    <3>2. /\ received'[d][n + 1].msg = msg
          /\ \A y \in Ranks : \A k \in 1 .. Len(received[y]) : received'[y][k] = received[y][k]
          /\ \A u, v \in Ranks, t \in Tags :
               Arrived(u, v, t)' = IF <<u, v, t>> = <<s, d, tag>> THEN Arrived(s, d, tag) \cup {n + 1}
                                   ELSE Arrived(u, v, t)
      BY <1>8, ArrivedOneMore
    <3>3. B = IF <<p, r, "TAG">> = <<s, d, tag>> THEN Arrived(s, d, tag) \cup {n + 1} ELSE A
      BY <3>1, <3>2
    <3>4. QED
      BY <3>2, <3>3
  <2>2. /\ A \subseteq 1 .. Len(received[r]) /\ Len(received[r]) \in Nat /\ IsFiniteSet(A)
    BY <1>1, ArrivedAreCounted
  <2>3. \A k \in A : /\ Cardinality(A \cap (1 .. k)) <= Len(E)
                     /\ received[r][k].msg = E[Cardinality(A \cap (1 .. k))].msg
    BY DEF FlowInv, InOrder
  <2>4. E' = E
    BY <1>1
  <2>5. ASSUME NEW k \in B
        PROVE  /\ Cardinality(B \cap (1 .. k)) <= Len(E)
               /\ received'[r][k].msg = E[Cardinality(B \cap (1 .. k))].msg
    <3> HIDE DEF A, B, E
    <3>1. CASE k \in A
      <4>1. B \cap (1 .. k) = A \cap (1 .. k)
        <5>1. CASE <<p, r, "TAG">> = <<s, d, tag>>
          <6>1. k \in 1 .. n
            BY <2>2, <3>1, <5>1
          <6>2. n + 1 \notin 1 .. k
            BY <6>1
          <6>3. QED
            BY <2>1, <5>1, <6>2
        <5>2. QED
          BY <2>1, <5>1
      <4>2. received'[r][k] = received[r][k]
        BY <2>1, <2>2, <3>1
      <4>3. QED
        BY <2>3, <3>1, <4>1, <4>2
    <3>2. CASE k \notin A
      <4>1. p = s /\ r = d /\ tag = "TAG" /\ k = n + 1 /\ B = A \cup {n + 1}
        BY <2>1, <2>5, <3>2
      <4>2. B \cap (1 .. k) = B
        <5>1. A \subseteq 1 .. n /\ n \in Nat
          BY <2>2, <4>1
        <5>2. A \subseteq 1 .. n + 1 /\ n + 1 \in 1 .. n + 1
          BY <5>1
        <5>3. QED
          BY <4>1, <5>2
      <4>3. Cardinality(B) = nth
        <5>1. Cardinality(B) = Cardinality(A) + 1
          BY <2>2, <3>2, <4>1, FS_AddElement
        <5>2. Done(s)[<<"send", d, tag>>] = Cardinality(A)
          BY <1>13, <4>1 DEF A
        <5>3. QED
          BY <5>1, <5>2
      <4>4. QED
        BY <1>19, <2>1, <4>1, <4>2, <4>3 DEF E
    <3>3. QED
      BY <3>1, <3>2
  <2>6. QED
    BY <2>4, <2>5 DEF InOrder
<1>21. QED
  BY <1>11, <1>17, <1>18, <1>20

\* What other ranks do is none of a channel's business, unless it gets on.
LEMMA OtherPosts ==
  ASSUME NEW r \in Ranks, PostedInv(r), UNCHANGED <<scenario, received>>,
         pc'[r] = pc[r], posted'[r] = posted[r]
  PROVE  PostedInv(r)'
<1>1. Code(r)' = Code(r) /\ (pc[r] - 1)' = pc[r] - 1 /\ Done(r)' = Done(r)
  BY DEF Code, Done, Arrived
<1>2. QED
  BY <1>1 DEF PostedInv

LEMMA OtherOrder ==
  ASSUME UNCHANGED <<scenario, received>>, NEW s, NEW d, InOrder(s, d)
  PROVE  InOrder(s, d)'
<1>1. Arrived(s, d, "TAG")' = Arrived(s, d, "TAG") /\ Expected(scenario, s, d)' = Expected(scenario, s, d)
  BY DEF Arrived
<1>2. QED
  BY <1>1 DEF InOrder

\* A thread starts no communication, and renames no request.
LEMMA ThreadFlow ==
  ASSUME FlowInv, NEW r \in Ranks, NEW t \in DOMAIN Threads(r), Thread(r, t)
  PROVE  /\ UNCHANGED <<scenario, pc, computed, posted, received>>
         /\ \A x \in Ranks, q \in Requests : SameNames(requests'[x][q], requests[x][q])
<1>1. UNCHANGED <<scenario, pc, computed, posted, received>>
  BY DEF Thread, Load, Store, Access, SignOff, mpi
<1>2. TextTypes
  BY DEF FlowInv
<1>3. CASE Load(r, t) \/ Store(r, t)
  <2>1. requests' = requests
    BY <1>3 DEF Load, Store, Access
  <2>2. QED
    BY <1>1, <2>1 DEF SameNames
<1>4. CASE SignOff(r, t)
  <2> DEFINE q == StepOf(r, t).req
  <2>1. Counts(r, q, requests[r][q].partitions_ready + 1, 0)
    BY <1>4 DEF SignOff, MarkReady, Counts
  <2>2. QED
    BY <1>1, <1>2, <2>1, CountersKeepNames
<1>5. QED
  BY <1>3, <1>4 DEF Thread

\* What a rank's call leaves to the others.
LEMMA CallLeavesOthers ==
  ASSUME TextTypes, NEW r \in Ranks, Rank(r), NEW x \in Ranks, x # r
  PROVE  /\ UNCHANGED scenario /\ pc'[x] = pc[x] /\ requests'[x] = requests[x]
<1> USE DEF TextTypes, Calls, MarkReady, memcheck
<1>1. CASE Communicate(r) \/ Wait(r) \/ Fork(r) \/ Compute(r)
  BY <1>1 DEF Communicate, Wait, Fork, Compute
<1>2. CASE MPIX_Psend_init(r) \/ MPIX_Precv_init(r) \/ MPIX_Request_free(r)
  BY <1>2 DEF MPIX_Psend_init, MPIX_Precv_init, MPIX_Request_free
<1>3. CASE MPIX_Start(r) \/ MPIX_Pready(r)
  BY <1>3 DEF MPIX_Start, MPIX_Pready
<1>4. CASE MPIX_Wait(r)
  BY <1>4 DEF MPIX_Wait
<1>5. QED
  BY <1>1, <1>2, <1>3, <1>4 DEF Rank

\* The types the texts need are kept whatever is marked.
LEMMA StepKeepsText == TextTypes /\ [Next]_vars => TextTypes'
<1> SUFFICES ASSUME TextTypes, [Next]_vars PROVE TextTypes'
  OBVIOUS
<1> DEFINE Records == [Ranks -> [Requests -> RequestRecord]]
<1>1. UNCHANGED scenario
  BY StepKeepsScenario
<1>2. ASSUME pc' = pc, requests' \in Records PROVE TextTypes'
  BY <1>1, <1>2 DEF TextTypes, IsProgram, Code
<1>3. ASSUME NEW r \in Ranks, NEW op, Calls(r, op), requests' \in Records PROVE TextTypes'
  BY <1>1, <1>3, CallsMove DEF TextTypes
\* A request whose counters change.
<1>4. ASSUME NEW r \in Ranks, NEW q, NEW new,
             requests' = [requests EXCEPT ![r][q] = new],
             q \in Requests => new \in RequestRecord
      PROVE  requests' \in Records
  BY <1>4 DEF TextTypes
<1>5. ASSUME NEW r \in Ranks, NEW q, requests' = [requests EXCEPT ![r][q].partitions_ready = @ + 1]
      PROVE  requests' \in Records
  <2> DEFINE new == [requests[r][q] EXCEPT !.partitions_ready = @ + 1]
  <2>1. requests' = [requests EXCEPT ![r][q] = new]
    BY <1>5
  <2>2. ASSUME q \in Requests PROVE new \in RequestRecord
    <3>1. requests[r][q] \in RequestRecord
      BY <2>2 DEF TextTypes
    <3>2. requests[r][q].partitions_ready + 1 \in Nat
      BY <3>1 DEF RequestRecord
    <3>3. QED
      BY <3>1, <3>2 DEF RequestRecord
  <2> HIDE DEF new
  <2>3. QED
    BY <1>4, <2>1, <2>2
<1>6. ASSUME NEW r \in Ranks, Rank(r) PROVE TextTypes'
  <2>1. CASE Communicate(r) \/ Wait(r) \/ Fork(r) \/ Compute(r)
    <3>1. PICK op : Calls(r, op) /\ requests' = requests
      BY <2>1 DEF Communicate, Wait, Fork, Compute
    <3>2. QED
      BY <1>3, <3>1 DEF TextTypes
  <2>2. CASE MPIX_Psend_init(r) \/ MPIX_Precv_init(r) \/ MPIX_Request_free(r)
    <3>1. PICK op : Calls(r, op)
      BY <2>2 DEF MPIX_Psend_init, MPIX_Precv_init, MPIX_Request_free
    <3>2. requests' \in Records
      BY <1>4, <2>2, RequestsAreRenewed
    <3>3. QED
      BY <1>3, <3>1, <3>2
  <2>3. CASE MPIX_Start(r)
    <3> DEFINE q == Call(r).req
    <3>1. Calls(r, "start") /\ requests' = [requests EXCEPT ![r][q].is_active = 1] /\ q \in Requests
      BY <2>3, CallsAreTyped, CallFields DEF MPIX_Start
    <3> HIDE DEF q
    <3>2. [requests[r][q] EXCEPT !.is_active = 1] \in RequestRecord
      <4>1. requests[r][q] \in RequestRecord
        BY <3>1 DEF TextTypes
      <4>2. QED
        BY <4>1 DEF RequestRecord
    <3>3. requests' \in Records
      BY <1>4, <3>1, <3>2
    <3>4. QED
      BY <1>3, <3>1, <3>3
  <2>4. CASE MPIX_Pready(r)
    <3>1. Calls(r, "pready") /\ \E q : requests' = [requests EXCEPT ![r][q].partitions_ready = @ + 1]
      BY <2>4 DEF MPIX_Pready, MarkReady
    <3>2. requests' \in Records
      BY <1>5, <3>1
    <3>3. QED
      BY <1>3, <3>1, <3>2
  <2>5. CASE MPIX_Wait(r)
    <3> DEFINE q == Call(r).req
    <3>1. /\ Calls(r, "mpix_wait") /\ q \in Requests
          /\ requests' = [requests EXCEPT ![r][q].is_active = 0, ![r][q].partitions_ready = 0]
      BY <2>5, CallsAreTyped, CallFields DEF MPIX_Wait
    <3> HIDE DEF q
    <3> DEFINE new == [requests[r][q] EXCEPT !.is_active = 0, !.partitions_ready = 0]
    <3>2. requests' = [requests EXCEPT ![r][q] = new]
      BY <3>1 DEF TextTypes
    <3>3. new \in RequestRecord
      <4>1. requests[r][q] \in RequestRecord
        BY <3>1 DEF TextTypes
      <4>2. QED
        BY <4>1 DEF RequestRecord
    <3>4. requests' \in Records
      <4> HIDE DEF new
      <4>1. QED
        BY <1>4, <3>2, <3>3
    <3>5. QED
      BY <1>3, <3>1, <3>4
  <2>6. QED
    BY <1>6, <2>1, <2>2, <2>3, <2>4, <2>5 DEF Rank
<1>7. ASSUME NEW r \in Ranks, NEW t \in DOMAIN Threads(r), Thread(r, t) PROVE TextTypes'
  <2>1. CASE Load(r, t) \/ Store(r, t)
    BY <1>2, <2>1 DEF Load, Store, Access, TextTypes
  <2>2. CASE SignOff(r, t)
    <3>1. pc' = pc /\ \E q : requests' = [requests EXCEPT ![r][q].partitions_ready = @ + 1]
      BY <2>2 DEF SignOff, MarkReady
    <3>2. QED
      BY <1>2, <1>5, <3>1
  <2>3. QED
    BY <1>7, <2>1, <2>2 DEF Thread
<1>8. CASE UNCHANGED vars \/ (\E r \in Ranks : Buffer(r)) \/ \E s, d \in Ranks : Deliver(s, d)
  BY <1>2, <1>8 DEF vars, Buffer, Deliver, TextTypes
<1>9. QED
  BY <1>6, <1>7, <1>8 DEF Next

LEMMA StepKeepsFlow == FlowInv /\ [Next]_vars => FlowInv'
<1> SUFFICES ASSUME FlowInv, [Next]_vars PROVE FlowInv'
  OBVIOUS
<1>1. /\ TextTypes /\ SendsAreOrdered(scenario)
      /\ posted \in [Ranks -> Seq(Operation)] /\ received \in [Ranks -> Seq(Arrival)]
      /\ computed \in [Ranks -> Nat]
      /\ \A r \in Ranks : TextFlow(r) /\ PostedInv(r)
      /\ \A s, d \in Ranks : InOrder(s, d)
  BY DEF FlowInv
<1>2. TextTypes'
  BY <1>1, StepKeepsText
\* What a step has to show.
<1>3. ASSUME UNCHANGED scenario,
             posted' \in [Ranks -> Seq(Operation)], received' \in [Ranks -> Seq(Arrival)],
             computed' \in [Ranks -> Nat],
             \A r \in Ranks : TextFlow(r)' /\ PostedInv(r)',
             \A s, d \in Ranks : InOrder(s, d)'
      PROVE  FlowInv'
  <2>1. SendsAreOrdered(scenario)'
    BY <1>1, <1>3
  <2>2. QED
    BY <1>2, <1>3, <2>1 DEF FlowInv
<1>4. ASSUME UNCHANGED <<scenario, pc, computed, posted, received>>,
             \A x \in Ranks, q \in Requests : SameNames(requests'[x][q], requests[x][q])
      PROVE  FlowInv'
  <2>1. \A r \in Ranks : TextFlow(r)'
    BY <1>1, <1>4, OtherNames
  <2>2. \A r \in Ranks : PostedInv(r)'
    BY <1>1, <1>4, OtherPosts
  <2>3. \A s, d \in Ranks : InOrder(s, d)'
    BY <1>1, <1>4, OtherOrder
  <2>4. QED
    BY <1>1, <1>3, <1>4, <2>1, <2>2, <2>3
<1>5. CASE UNCHANGED vars
  <2>1. UNCHANGED <<scenario, pc, computed, posted, received, requests>>
    BY <1>5 DEF vars
  <2>2. QED
    BY <1>4, <2>1 DEF SameNames
<1>6. ASSUME NEW r \in Ranks, Rank(r) PROVE FlowInv'
  <2>1. /\ TextFlow(r)' /\ computed' \in [Ranks -> Nat]
        /\ \A x \in Ranks : x # r => computed'[x] = computed[x]
    BY <1>1, <1>6, CallTextFlow
  <2>2. /\ PostedInv(r)' /\ posted' \in [Ranks -> Seq(Operation)] /\ received' = received
        /\ \A x \in Ranks : x # r => posted'[x] = posted[x]
    BY <1>6, CallPosts
  <2>3. UNCHANGED scenario
    BY <1>6, CallKeepsScenario
  <2>4. ASSUME NEW x \in Ranks, x # r PROVE TextFlow(x)' /\ PostedInv(x)'
    <3>1. UNCHANGED <<scenario, received>> /\ pc'[x] = pc[x] /\ requests'[x] = requests[x]
      BY <1>1, <1>6, <2>2, <2>4, CallLeavesOthers
    <3>2. computed'[x] = computed[x] /\ posted'[x] = posted[x]
      BY <2>1, <2>2, <2>4
    <3>3. \A q \in Requests : SameNames(requests'[x][q], requests[x][q])
      BY <3>1 DEF SameNames
    <3>4. QED
      BY <1>1, <3>1, <3>2, <3>3, OtherNames, OtherPosts
  <2>5. \A s, d \in Ranks : InOrder(s, d)'
    BY <1>1, <2>2, <2>3, OtherOrder
  <2>6. received' \in [Ranks -> Seq(Arrival)]
    BY <1>1, <2>2
  <2>7. QED
    BY <1>3, <2>1, <2>2, <2>3, <2>4, <2>5, <2>6
<1>7. ASSUME NEW r \in Ranks, NEW t \in DOMAIN Threads(r), Thread(r, t) PROVE FlowInv'
  BY <1>4, <1>7, ThreadFlow
\* Buffering and delivery change what is posted and received, and nothing else.
<1>8. ASSUME UNCHANGED <<scenario, pc, computed, requests>> PROVE \A r \in Ranks : TextFlow(r)'
  <2>1. \A r \in Ranks, q \in Requests : SameNames(requests'[r][q], requests[r][q])
    BY <1>8 DEF SameNames
  <2>2. QED
    BY <1>1, <1>8, <2>1, OtherNames
<1>9. ASSUME NEW r \in Ranks, Buffer(r) PROVE FlowInv'
  <2>1. UNCHANGED <<scenario, pc, computed, requests>>
    BY <1>9 DEF Buffer
  <2>2. /\ PostedInv(r)' /\ posted' \in [Ranks -> Seq(Operation)] /\ received' = received
        /\ \A x \in Ranks : x # r => posted'[x] = posted[x]
    BY <1>9, BufferPosts
  <2>3. \A x \in Ranks : x # r => PostedInv(x)'
    BY <1>1, <2>1, <2>2, OtherPosts
  <2>4. \A s, d \in Ranks : InOrder(s, d)'
    BY <1>1, <2>1, <2>2, OtherOrder
  <2>5. computed' \in [Ranks -> Nat] /\ received' \in [Ranks -> Seq(Arrival)]
    BY <1>1, <2>1, <2>2
  <2>6. QED
    BY <1>3, <1>8, <2>1, <2>2, <2>3, <2>4, <2>5
<1>10. ASSUME NEW s \in Ranks, NEW d \in Ranks, Deliver(s, d) PROVE FlowInv'
  <2>1. UNCHANGED <<scenario, pc, computed, requests>>
    BY <1>10 DEF Deliver
  <2>2. /\ \A r \in Ranks : PostedInv(r)'
        /\ posted' \in [Ranks -> Seq(Operation)] /\ received' \in [Ranks -> Seq(Arrival)]
        /\ \A p, r \in Ranks : InOrder(p, r)'
    BY <1>10, DeliverPosts
  <2>3. computed' \in [Ranks -> Nat]
    BY <1>1, <2>1
  <2>4. QED
    BY <1>3, <1>8, <2>1, <2>2, <2>3
<1>11. QED
  BY <1>5, <1>6, <1>7, <1>9, <1>10 DEF Next

(* MessagesInOrder, for every number of ranks, threads, partitions and     *)
(* calls, where the texts send in order: whatever MPI buffers and however   *)
(* the ranks are scheduled, each rank receives what its peers' texts send  *)
(* in the text's order, with the data of the regions in front of the send, *)
(* also when MPIX_Wait is what starts it; and no message is left.          *)
THEOREM MessagesFollowTheText == TextsSendInOrder => (Spec => []MessagesInOrder)
<1>1. TextsSendInOrder /\ Init => FlowInv
  BY InitImpliesIInv, TypesOfText, InitImpliesFlow DEF IInv
<1>2. FlowInv /\ [Next]_vars => FlowInv'
  BY StepKeepsFlow
<1>3. FlowInv => MessagesInOrder
  BY AllIsReceived
<1>4. QED
  BY <1>1, <1>2, <1>3, PTL DEF Spec
=============================================================================
