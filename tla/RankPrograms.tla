---------------------------- MODULE RankPrograms ----------------------------
(***************************************************************************)
(* Ranks that run programs of MPI and MPIX calls, with a team of threads   *)
(* in their parallel regions, under memcheck, and the script that judges   *)
(* memcheck's reports.  A program is a sequence of calls for each rank;    *)
(* pc[r] is the next one, tpc[r][t] the next step of thread t in the       *)
(* parallel region that was forked last.  A blocking MPI call is its       *)
(* non-blocking form and a wait; MPIX_Wait is the call up to its MPI_Wait, *)
(* and the MPI_Wait.                                                       *)
(*                                                                         *)
(* requests[r][q] are the fields of MPIX_Request that a client without     *)
(* overlap arrays uses, as in MpixRequest, which has the send side only.   *)
(***************************************************************************)
EXTENDS PointToPoint, FiniteSets

CONSTANTS Scenarios,       \* a sequence of programs and the messages they should send
          Requests         \* names of requests

SEND_BLOCK == "send block"
RECV_BLOCK == "receive block"

(* A program.  MPIX_Wait ends with its MPI_Wait.                           *)
ThreadStep == [op : {"load", "store", "pready"}, req : Requests, partition : Nat]

Peers == Ranks \cup {MPI_PROC_NULL}

MainCall ==
  [op : {"post"}, kind : {"send", "recv"}, peer : Peers, tag : Tags, req : STRING, msg : STRING]
  \cup [op : {"wait"}, reqs : SUBSET STRING]
  \cup [op : {"psend_init"}, req : Requests, peer : Peers, partitions : Nat, msg : STRING]
  \cup [op : {"precv_init"}, req : Requests, peer : Peers, partitions : Nat]
  \cup [op : {"start", "mpix_wait", "free"}, req : Requests]
  \cup [op : {"pready"}, req : Requests, partition : Nat]
  \cup [op : {"fork"}, threads : Seq(Seq(ThreadStep))]
  \cup [op : {"region"}]

IsProgram(code) ==
  /\ code \in Seq(MainCall)
  /\ \A i \in DOMAIN code :
       code[i].op = "mpix_wait"
         => i < Len(code) /\ code[i + 1].op = "wait" /\ code[i].req \in code[i + 1].reqs

ASSUME ProgramsAssumption ==
  /\ MPI_PROC_NULL # 0
  /\ \A i \in DOMAIN Scenarios : \A r \in Ranks : IsProgram(Scenarios[i].code[r])

VARIABLES scenario, pc, tpc, requests,
          computed,        \* parallel regions run so far: the data that is sent
          noaccess,        \* <<q, p>>: partition p of q's buffer is tainted
          report,          \* the kinds of errors memcheck has reported
          lent,            \* partitions MPI may read from or write to, and
          raced            \* a thread stored to one, or read one that MPI
                           \* writes to: ground truth

vars == <<scenario, pc, tpc, requests, computed, noaccess, report, lent, raced, posted, received>>

NoRequest == [kind |-> "none", peer |-> MPI_PROC_NULL, dest |-> 0, partition_count |-> 0,
              partitions_ready |-> 0, is_active |-> 0, block |-> "none", msg |-> "none"]

Init ==
  /\ scenario \in ToSet(Scenarios)
  /\ pc = [r \in Ranks |-> 1] /\ tpc = [r \in Ranks |-> <<>>]
  /\ requests = [r \in Ranks |-> [q \in Requests |-> NoRequest]]
  /\ computed = [r \in Ranks |-> 0]
  /\ noaccess = [r \in Ranks |-> {}]
  /\ report = [r \in Ranks |-> {}]
  /\ lent = [r \in Ranks |-> {}] /\ raced = [r \in Ranks |-> FALSE]
  /\ posted = [r \in Ranks |-> <<>>] /\ received = [r \in Ranks |-> <<>>]

-----------------------------------------------------------------------------
(* The calls of a rank's main thread.                                      *)

Code(r) == scenario.code[r]
Call(r) == Code(r)[pc[r]]

\* The steps of the threads of the last parallel region.
Threads(r) == IF pc[r] > 1 /\ Code(r)[pc[r] - 1].op = "fork" THEN Code(r)[pc[r] - 1].threads ELSE <<>>

Joined(r) == \A t \in DOMAIN Threads(r) : tpc[r][t] > Len(Threads(r)[t])

Calls(r, op) ==
  /\ Joined(r) /\ pc[r] <= Len(Code(r)) /\ Call(r).op = op
  /\ pc' = [pc EXCEPT ![r] = @ + 1]

memcheck == <<noaccess, report>>
mpi      == <<posted, received>>
history  == <<lent, raced>>

\* MPI_Isend and MPI_Irecv.
Communicate(r) ==
  LET c == Call(r)
  IN  /\ Calls(r, "post")
      /\ Post(r, [kind |-> c.kind, peer |-> c.peer, tag |-> c.tag, req |-> c.req,
                  msg |-> <<c.msg, computed[r]>>, buffered |-> FALSE])
      /\ UNCHANGED <<scenario, tpc, computed, requests, memcheck, history>>

\* MPI_Wait and MPI_Waitall: what was lent to MPI comes back.
Wait(r) ==
  LET reqs == Call(r).reqs
  IN  /\ Calls(r, "wait")
      /\ \A q \in reqs : ~Pending(r, q)
      /\ lent' = [lent EXCEPT ![r] = {l \in @ : l[1] \notin reqs}]
      /\ UNCHANGED <<scenario, tpc, computed, requests, memcheck, raced, mpi>>

MPIX_Psend_init(r) ==
  LET c == Call(r)
  IN  /\ Calls(r, "psend_init")
      /\ requests' = [requests EXCEPT ![r][c.req] =
           [NoRequest EXCEPT !.kind = "send", !.peer = c.peer, !.dest = c.peer,
              !.partition_count = c.partitions, !.block = SEND_BLOCK, !.msg = c.msg]]
      /\ UNCHANGED <<scenario, tpc, computed, memcheck, history, mpi>>

\* dest keeps the 0 of the memset.
MPIX_Precv_init(r) ==
  LET c == Call(r)
  IN  /\ Calls(r, "precv_init")
      /\ requests' = [requests EXCEPT ![r][c.req] =
           [NoRequest EXCEPT !.kind = "recv", !.peer = c.peer,
              !.partition_count = c.partitions, !.block = RECV_BLOCK]]
      /\ UNCHANGED <<scenario, tpc, computed, memcheck, history, mpi>>

\* Seeded fault: the communication starts here already.
MPIX_Start_Communicates(r) ==
  LET q == Call(r).req
      request == requests[r][q]
  IN  /\ Calls(r, "start")
      /\ requests' = [requests EXCEPT ![r][q].is_active = 1]
      /\ IF request.dest = MPI_PROC_NULL THEN UNCHANGED mpi
         ELSE Post(r, [kind |-> request.kind, peer |-> request.peer, tag |-> "TAG", req |-> q,
                       msg |-> <<request.msg, computed[r]>>, buffered |-> FALSE])
      /\ UNCHANGED <<scenario, tpc, computed, memcheck, history>>

MPIX_Start(r) ==
  /\ Calls(r, "start")
  /\ requests' = [requests EXCEPT ![r][Call(r).req].is_active = 1]
  /\ UNCHANGED <<scenario, tpc, computed, memcheck, history, mpi>>

\* Called by the main thread, by a thread of the team, or by MPIX_Wait.
MarkReady(r, q, p) ==
  /\ requests' = [requests EXCEPT ![r][q].partitions_ready = @ + 1]
  /\ noaccess' = [noaccess EXCEPT ![r] = @ \cup {<<q, p>>}]
  /\ lent' = [lent EXCEPT ![r] = @ \cup {<<q, p>>}]

MPIX_Pready(r) ==
  /\ Calls(r, "pready")
  /\ MarkReady(r, Call(r).req, Call(r).partition)
  /\ UNCHANGED <<scenario, tpc, computed, report, raced, mpi>>

\* Seeded fault: only the first partition's taint ends.
MPIX_Wait_FirstOnly(r) ==
  LET q == Call(r).req
      request == requests[r][q]
  IN  /\ Calls(r, "mpix_wait")
      /\ noaccess' = [noaccess EXCEPT ![r] = @ \ {<<q, 0>>}]
      /\ requests' = [requests EXCEPT ![r][q].is_active = 0, ![r][q].partitions_ready = 0]
      /\ IF request.dest = MPI_PROC_NULL THEN UNCHANGED mpi
         ELSE Post(r, [kind |-> request.kind, peer |-> request.peer, tag |-> "TAG", req |-> q,
                       msg |-> <<request.msg, computed[r]>>, buffered |-> FALSE])
      /\ UNCHANGED <<scenario, tpc, computed, report, history>>

\* The implicit MPIX_Pready is undone by the line that ends the taint.  The
\* communication starts here, not in MPIX_Start, and not for dest MPI_PROC_NULL.
MPIX_Wait(r) ==
  LET q == Call(r).req
      request == requests[r][q]
  IN  /\ Calls(r, "mpix_wait")
      /\ noaccess' = [noaccess EXCEPT ![r] = @ \ {<<q, p>> : p \in 0 .. request.partition_count - 1}]
      /\ requests' = [requests EXCEPT ![r][q].is_active = 0, ![r][q].partitions_ready = 0]
      /\ IF request.dest = MPI_PROC_NULL THEN UNCHANGED mpi
         ELSE Post(r, [kind |-> request.kind, peer |-> request.peer, tag |-> "TAG", req |-> q,
                       msg |-> <<request.msg, computed[r]>>, buffered |-> FALSE])
      /\ UNCHANGED <<scenario, tpc, computed, report, history>>

MPIX_Request_free(r) ==
  /\ Calls(r, "free")
  /\ requests' = [requests EXCEPT ![r][Call(r).req] = NoRequest]
  /\ UNCHANGED <<scenario, tpc, computed, memcheck, history, mpi>>

Fork(r) ==
  /\ Calls(r, "fork")
  /\ tpc' = [tpc EXCEPT ![r] = [t \in DOMAIN Call(r).threads |-> 1]]
  /\ computed' = [computed EXCEPT ![r] = @ + 1]
  /\ UNCHANGED <<scenario, requests, memcheck, history, mpi>>

\* A region whose threads' steps do not matter.
Compute(r) ==
  /\ Calls(r, "region")
  /\ computed' = [computed EXCEPT ![r] = @ + 1]
  /\ UNCHANGED <<scenario, tpc, requests, memcheck, history, mpi>>

-----------------------------------------------------------------------------
(* A thread of a parallel region: loads, stores and MPIX_Pready.           *)

StepOf(r, t) == Threads(r)[t][tpc[r][t]]

Does(r, t, op) ==
  /\ tpc[r][t] <= Len(Threads(r)[t]) /\ StepOf(r, t).op = op
  /\ tpc' = [tpc EXCEPT ![r][t] = @ + 1]

Access(r, t, op, kind) ==
  LET s == StepOf(r, t)
      location == <<s.req, s.partition>>
  IN  /\ Does(r, t, op)
      /\ report' = IF location \in noaccess[r]
                   THEN [report EXCEPT ![r] = @ \cup {[kind |-> kind, block |-> requests[r][s.req].block]}]
                   ELSE report
      /\ raced' = [raced EXCEPT ![r] = @ \/ (/\ location \in lent[r]
                                             /\ op = "store" \/ requests[r][s.req].kind = "recv")]
      /\ UNCHANGED <<scenario, pc, computed, requests, noaccess, lent, mpi>>

Load(r, t)  == Access(r, t, "load", "InvalidRead")
Store(r, t) == Access(r, t, "store", "InvalidWrite")

SignOff(r, t) ==
  /\ Does(r, t, "pready")
  /\ MarkReady(r, StepOf(r, t).req, StepOf(r, t).partition)
  /\ UNCHANGED <<scenario, pc, computed, report, raced, mpi>>

Thread(r, t) == Load(r, t) \/ Store(r, t) \/ SignOff(r, t)

Rank(r) ==
  \/ Communicate(r) \/ Wait(r)
  \/ MPIX_Psend_init(r) \/ MPIX_Precv_init(r) \/ MPIX_Start(r) \/ MPIX_Pready(r)
  \/ MPIX_Wait(r) \/ MPIX_Request_free(r) \/ Fork(r) \/ Compute(r)

Deliver(s, d) == Match(s, d) /\ UNCHANGED <<scenario, pc, tpc, requests, computed, memcheck, history>>
Buffer(r) == BufferSend(r) /\ UNCHANGED <<scenario, pc, tpc, requests, computed, memcheck, history>>

Finished == \A r \in Ranks : pc[r] > Len(Code(r)) /\ Joined(r)

Next ==
  \/ \E r \in Ranks : Rank(r) \/ Buffer(r) \/ \E t \in DOMAIN Threads(r) : Thread(r, t)
  \/ \E s, d \in Ranks : Deliver(s, d)
  \/ Finished /\ UNCHANGED vars

(* Ranks and threads are scheduled by the operating system, and MPI        *)
(* delivers what both sides have started.  Nothing makes it buffer.        *)
Fairness ==
  /\ \A r \in Ranks : WF_vars(Rank(r)) /\ WF_vars(\E t \in DOMAIN Threads(r) : Thread(r, t))
  /\ \A s, d \in Ranks : WF_vars(Deliver(s, d))

Spec == Init /\ [][Next]_vars /\ Fairness

-----------------------------------------------------------------------------
(* The judgement: check_valgrind_output.py for each rank's report, and the *)
(* exit code of run_valgrind_check.sh.                                     *)

\* Seeded fault: reads are not told from writes.
originates_from_communication_partition_NoFilter(case) ==
  case.kind \in {"InvalidRead", "InvalidWrite"} /\ case.block \in {SEND_BLOCK, RECV_BLOCK}

originates_from_communication_partition(case) ==
  /\ case.kind \in {"InvalidRead", "InvalidWrite"}
  /\ case.block \in {SEND_BLOCK, RECV_BLOCK}
  /\ ~(case.block = SEND_BLOCK /\ case.kind = "InvalidRead")

errors_introduced(r) == {case \in report[r] : originates_from_communication_partition(case)}

EXITCODE(r) == IF errors_introduced(r) = {} THEN 0 ELSE 255

OVERALL_EXIT == IF \A r \in Ranks : EXITCODE(r) = 0 THEN 0 ELSE 255

-----------------------------------------------------------------------------
(* Every program ends on all its ranks: no rank is left waiting for a      *)
(* message that another one would send after a message it waits for, also  *)
(* when MPIX_Wait is what starts the send and MPI buffers nothing.         *)
RanksFinish == <>Finished

(* Each rank receives from each other one what the program sends without   *)
(* partitioning, in that order, with the data of that iteration: a send    *)
(* that is started later, in its wait, is not overtaken by one to the same *)
(* rank.  At the end nothing is left.                                      *)
Expected(program, s, d) == SelectSeq(program.sends[s], LAMBDA m : m.to = d)

Arrived(s, d, tag) == {i \in DOMAIN received[d] : received[d][i].from = s /\ received[d][i].tag = tag}

MessagesInOrder ==
  /\ \A s, d \in Ranks :
       /\ \A i \in Arrived(s, d, "TAG") :
            LET nth == Cardinality(Arrived(s, d, "TAG") \cap (1 .. i))
            IN  /\ nth <= Len(Expected(scenario, s, d))
                /\ received[d][i].msg = Expected(scenario, s, d)[nth].msg
       /\ Finished => Cardinality(Arrived(s, d, "TAG")) = Len(Expected(scenario, s, d))
  /\ Finished => \A r \in Ranks : posted[r] = <<>>

(* What a program's text has to be like: each mark has an initialised      *)
(* request in front of it, and an MPIX_Wait behind it, before its request  *)
(* is freed, initialised or waited for.                                    *)
MarkedBy(c) ==
  CASE c.op = "pready" -> {<<c.req, c.partition>>}
    [] c.op = "fork" ->
         {<<s.req, s.partition>> :
            s \in {s \in UNION {ToSet(c.threads[t]) : t \in DOMAIN c.threads} : s.op = "pready"}}
    [] OTHER -> {}

Initialises(c, q) == c.op \in {"psend_init", "precv_init"} /\ c.req = q
Renews(c, q)      == Initialises(c, q) \/ (c.op = "free" /\ c.req = q)
EndsMarks(c, q)   == c.op = "mpix_wait" /\ c.req = q

MarksAreOrdered(code) ==
  \A i \in DOMAIN code : \A m \in MarkedBy(code[i]) :
    LET q == m[1]
    IN  /\ \E j \in 1 .. i - 1 : /\ Initialises(code[j], q) /\ m[2] < code[j].partitions
                                 /\ \A k \in j + 1 .. i - 1 : ~Renews(code[k], q)
        /\ \A k \in i + 1 .. Len(code) :
             Renews(code[k], q) \/ (code[k].op = "wait" /\ q \in code[k].reqs)
               => \E j \in i + 1 .. k - 1 : EndsMarks(code[j], q)

(* What the calls of a text send and receive: MPI_Isend, MPI_Irecv, and    *)
(* MPIX_Wait, what its request was initialised for last.                   *)
Renewal(code, i, q) ==
  {j \in 1 .. i - 1 : Renews(code[j], q) /\ \A k \in j + 1 .. i - 1 : ~Renews(code[k], q)}

InitOf(kind) == IF kind = "send" THEN "psend_init" ELSE "precv_init"

Posts(code, i, kind, peer, tag) ==
  /\ peer # MPI_PROC_NULL
  /\ \/ /\ code[i].op = "post"
        /\ code[i].kind = kind /\ code[i].peer = peer /\ code[i].tag = tag
     \/ /\ code[i].op = "mpix_wait" /\ tag = "TAG"
        /\ \E j \in Renewal(code, i, code[i].req) :
             code[j].op = InitOf(kind) /\ code[j].peer = peer

Count(code, i, kind, peer, tag) == Cardinality({j \in 1 .. i : Posts(code, j, kind, peer, tag)})

\* With the data of the parallel regions in front of it.
Message(code, i) ==
  LET names == IF code[i].op = "post" THEN i ELSE CHOOSE j \in Renewal(code, i, code[i].req) : TRUE
  IN  <<code[names].msg, Cardinality({j \in 1 .. i - 1 : code[j].op \in {"fork", "region"}})>>

\* What is sent to a rank is what is expected and what it receives; and all
\* that is started is waited for.
SendsAreOrdered(program) ==
  \A s \in Ranks :
    LET code == program.code[s]
    IN  \A d \in Ranks :
          /\ \A tag \in Tags :
               /\ Count(code, Len(code), "send", d, tag)
                    = Count(program.code[d], Len(program.code[d]), "recv", s, tag)
               /\ \A i \in DOMAIN code, kind \in {"send", "recv"} :
                    Posts(code, i, kind, d, tag) =>
                      \E k \in i + 1 .. Len(code) : code[k].op = "wait" /\ code[i].req \in code[k].reqs
          /\ Count(code, Len(code), "send", d, "TAG") = Len(Expected(program, s, d))
          /\ \A i \in DOMAIN code :
               Posts(code, i, "send", d, "TAG") =>
                 Expected(program, s, d)[Count(code, i, "send", d, "TAG")].msg = Message(code, i)

TextsMarkInOrder ==
  \A i \in DOMAIN Scenarios : \A r \in Ranks : MarksAreOrdered(Scenarios[i].code[r])

TextsSendInOrder == \A i \in DOMAIN Scenarios : SendsAreOrdered(Scenarios[i])

(* A partition that is marked ready is one of its request, and stays       *)
(* marked until the request's MPIX_Wait: no client frees or initialises a  *)
(* request while memcheck still guards the buffer for it.                  *)
Marked(r, q) == {l \in noaccess[r] : l[1] = q} # {}

MayMark(r, q, p) == requests[r][q].block # "none" /\ p < requests[r][q].partition_count

MarksUntilWait ==
  \A r \in Ranks :
    /\ Joined(r) /\ pc[r] <= Len(Code(r)) =>
         LET c == Call(r)
         IN  /\ c.op \in {"psend_init", "precv_init", "free"} => ~Marked(r, c.req)
             /\ c.op = "wait" => \A q \in c.reqs : ~Marked(r, q)
             /\ c.op = "pready" => MayMark(r, c.req, c.partition)
    /\ \A t \in DOMAIN Threads(r) :
         tpc[r][t] <= Len(Threads(r)[t]) /\ StepOf(r, t).op = "pready"
           => MayMark(r, StepOf(r, t).req, StepOf(r, t).partition)

(* The script fails exactly when a thread has stored to a partition that   *)
(* was lent to MPI, or read one that MPI receives into: reads, which a     *)
(* send allows, do not count, and what one round or request has tainted is *)
(* forgotten in the next.                                                  *)
ReportIsExact == (OVERALL_EXIT # 0) <=> \E r \in Ranks : raced[r]
=============================================================================
