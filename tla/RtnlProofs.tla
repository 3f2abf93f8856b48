----------------------------- MODULE RtnlProofs -----------------------------
(***************************************************************************)
(* Proofs about the netlink handle, for any number of requests, objects    *)
(* and datagrams of other processes: what rtnl_talk returns, what          *)
(* rtnl_dump_filter passes to its filter and what it warns about.          *)
(*                                                                         *)
(* The queue is described by the set its messages belong to, so that       *)
(* appending and removing datagrams are facts about Seq alone.             *)
(***************************************************************************)
EXTENDS Rtnl, FiniteSetTheorems, TLAPS

\* Kernel messages that answer request s.
Answers(s) == {m \in Message : m.own /\ m.seq = s}

\* Messages that say of a request up to s what o says the kernel did with it.
Honest(s, o) ==
  {m \in Message : m.own => /\ m.seq \in 1..s
                            /\ o[m.seq] = IF m.type = "err" THEN "fail" ELSE "ok"}

\* Messages that do not answer request s.
NotOf(s) == {m \in Message : m.own => m.seq # s}

\* What the queue holds is honest, a running dump was accepted, and a talk that
\* found nothing of the request before its own in the queue still finds nothing.
HandleInv ==
  /\ rcvq \in Seq(Seq(Honest(seq, outcome)))
  /\ kdump # NoDump => kdump.seq \in 1..seq /\ outcome[kdump.seq] = "ok"
  /\ pc = "talk" => call.kind \in {"change", "get", "echo"} /\ seq \in Nat \ {0}
  /\ pc = "dump" => call.kind = "dump"
  /\ pc = "flush" => call.kind = "flush"
  /\ pc = "talk" /\ call.clean =>
       /\ rcvq \in Seq(Seq(NotOf(seq - 1)))
       /\ kdump # NoDump => kdump.seq # seq - 1

IInv == TypeOK /\ HandleInv /\ CleanTalkTruthful

----------------------------------------------------------------------------
(* Sequences.                                                              *)

\* A sequence belongs to Seq(T) when all its elements are in T.
LEMMA SeqOfElements ==
  ASSUME NEW S, NEW T, NEW q \in Seq(S), \A i \in 1..Len(q) : q[i] \in T
  PROVE  q \in Seq(T)
  OBVIOUS

\* Seq is monotone, one and two levels down.
LEMMA SeqMonotone ==
  ASSUME NEW S, NEW T, S \subseteq T
  PROVE  Seq(S) \subseteq Seq(T) /\ Seq(Seq(S)) \subseteq Seq(Seq(T))
<1>1. ASSUME NEW A, NEW B, A \subseteq B PROVE Seq(A) \subseteq Seq(B)
  <2>1. SUFFICES ASSUME NEW q \in Seq(A) PROVE q \in Seq(B)
    BY Zenon
  <2>2. \A i \in 1..Len(q) : q[i] \in B
    BY <1>1
  <2> QED
    BY Zenon, <2>2, SeqOfElements
<1> QED
  BY Zenon, <1>1

\* Sequences of one and of two elements.
LEMMA ShortSeqs ==
  ASSUME NEW S, NEW x \in S, NEW y \in S
  PROVE  <<x>> \in Seq(S) /\ <<x, y>> \in Seq(S)
  OBVIOUS

\* What receiving and appending do to a queue of datagrams.
LEMMA QueueOps ==
  ASSUME NEW S, NEW q \in Seq(Seq(S))
  PROVE  /\ q # <<>> => Tail(q) \in Seq(Seq(S)) /\ Head(q) \in Seq(S)
         /\ \A d \in Seq(S) : Append(q, d) \in Seq(Seq(S))
         /\ \A r \in Seq(Seq(S)) : q \o r \in Seq(Seq(S))
  OBVIOUS

----------------------------------------------------------------------------
(* The kernel's datagrams.                                                 *)

\* Msg builds a message of the handle's own socket.
LEMMA MsgType ==
  ASSUME NEW t \in Types, NEW s \in Nat, NEW f \in BOOLEAN
  PROVE  Msg(t, s, f) \in Answers(s) /\ Msg(t, s, f).type = t
  BY Zenon DEF Msg, Answers, Message, Types

\* The answers to a request that is carried out hold no error, the answer to
\* one that is refused is an error.
LEMMA AnswersType ==
  ASSUME NEW kind \in {"change", "get", "echo"}, NEW s \in Nat, NEW a \in KernelAnswers(kind, s)
  PROVE  a \in Seq(Seq({m \in Answers(s) : m.type # "err"}))
<1> DEFINE A == {m \in Answers(s) : m.type # "err"}
<1>1. Msg("ack", s, FALSE) \in A /\ Msg("data", s, FALSE) \in A
  BY Zenon, MsgType DEF Types
<1>2. <<Msg("ack", s, FALSE)>> \in Seq(A) /\ <<Msg("data", s, FALSE)>> \in Seq(A)
  BY Zenon, <1>1, ShortSeqs
<1>3. \/ a = << <<Msg("ack", s, FALSE)>> >>
      \/ a = << <<Msg("data", s, FALSE)>> >>
      \/ a = << <<Msg("data", s, FALSE)>>, <<Msg("ack", s, FALSE)>> >>
  BY Zenon DEF KernelAnswers
<1> HIDE DEF A
<1>4. a \in Seq(Seq(A))
  BY Zenon, <1>2, <1>3, ShortSeqs
<1> QED
  BY Zenon, <1>4 DEF A

\* The answer to a refused request is one NLMSG_ERROR with its number.
LEMMA RefusesType ==
  ASSUME NEW s \in Nat
  PROVE  KernelRefuses(s) \in Seq(Seq({m \in Answers(s) : m.type = "err"}))
<1> DEFINE A == {m \in Answers(s) : m.type = "err"}
<1>1. Msg("err", s, FALSE) \in A
  BY Zenon, MsgType DEF Types
<1> HIDE DEF A
<1>2. KernelRefuses(s) \in Seq(Seq(A))
  BY Zenon, <1>1, ShortSeqs DEF KernelRefuses
<1> QED
  BY Zenon, <1>2 DEF A

\* A datagram of a dump answers the dump's request and holds no NLMSG_ERROR.
LEMMA PartsType ==
  ASSUME NEW k \in [seq : Nat, left : Nat], NEW p \in KernelParts(k)
  PROVE  /\ p.dg \in Seq({m \in Answers(k.seq) : m.type # "err"})
         /\ p.rest \in [seq : Nat, left : Nat]
         /\ p.rest = NoDump \/ p.rest.seq = k.seq
         /\ p.intr \in BOOLEAN
<1> DEFINE A == {m \in Answers(k.seq) : m.type # "err"}
<1>1. ASSUME NEW n \in Nat, NEW f \in BOOLEAN
      PROVE  Objs(k.seq, n, f) \in Seq(A)
  <2>1. Msg("data", k.seq, f) \in A
    BY Zenon, MsgType DEF Types
  <2> HIDE DEF A
  <2> QED
    BY <2>1 DEF Objs
<1>2. ASSUME NEW f \in BOOLEAN
      PROVE  Msg("done", k.seq, f) \in A /\ Msg("doneerr", k.seq, f) \in A
  BY Zenon, MsgType DEF Types
<1> HIDE DEF A
<1>3. \E n \in 0..k.left, f \in BOOLEAN :
        \/ p = [dg |-> Objs(k.seq, n, f), rest |-> [k EXCEPT !.left = @ - n], intr |-> f]
        \/ p = [dg |-> Append(Objs(k.seq, n, f), Msg("done", k.seq, f)),
                rest |-> NoDump, intr |-> f]
        \/ p = [dg |-> Append(Objs(k.seq, n, f), Msg("doneerr", k.seq, f)),
                rest |-> NoDump, intr |-> f]
  BY DEF KernelParts
<1>4. PICK n \in 0..k.left, f \in BOOLEAN :
        \/ p = [dg |-> Objs(k.seq, n, f), rest |-> [k EXCEPT !.left = @ - n], intr |-> f]
        \/ p = [dg |-> Append(Objs(k.seq, n, f), Msg("done", k.seq, f)),
                rest |-> NoDump, intr |-> f]
        \/ p = [dg |-> Append(Objs(k.seq, n, f), Msg("doneerr", k.seq, f)),
                rest |-> NoDump, intr |-> f]
  BY Zenon, <1>3
<1>5. p.dg \in Seq(A)
  <2>1. Objs(k.seq, n, f) \in Seq(A)
    BY <1>1
  <2>2. Append(Objs(k.seq, n, f), Msg("done", k.seq, f)) \in Seq(A)
    BY <2>1, <1>2
  <2>3. Append(Objs(k.seq, n, f), Msg("doneerr", k.seq, f)) \in Seq(A)
    BY <2>1, <1>2
  <2>4. \/ p.dg = Objs(k.seq, n, f)
        \/ p.dg = Append(Objs(k.seq, n, f), Msg("done", k.seq, f))
        \/ p.dg = Append(Objs(k.seq, n, f), Msg("doneerr", k.seq, f))
    BY <1>4
  <2> QED
    BY Zenon, <2>1, <2>2, <2>3, <2>4
<1>6. /\ p.rest \in [seq : Nat, left : Nat]
      /\ p.rest = NoDump \/ p.rest.seq = k.seq
      /\ p.intr \in BOOLEAN
  BY <1>4 DEF NoDump
<1> QED
  BY Zenon, <1>5, <1>6 DEF A

----------------------------------------------------------------------------
(* The queue across a receive and across a send.                           *)

\* What is honest stays honest when the next request gets its outcome.
LEMMA HonestGrows ==
  ASSUME TypeOK, seq < MaxSeq, NEW v \in Codes
  PROVE  LET o == [outcome EXCEPT ![seq + 1] = v] IN
         /\ Honest(seq, outcome) \subseteq Honest(seq + 1, o)
         /\ Honest(seq, outcome) \subseteq Honest(seq + 1, outcome)
         /\ {m \in Answers(seq + 1) : m.type = "err" <=> v = "fail"} \subseteq Honest(seq + 1, o)
         /\ Honest(seq, outcome) \subseteq Message
  BY RtnlAssumption DEF TypeOK, Honest, Answers, Codes, Message

\* Receiving a datagram keeps the queue and the running dump honest, and brings
\* nothing of the request before the current one if there was nothing of it.
LEMMA PopKeeps ==
  ASSUME TypeOK, HandleInv, Pop
  PROVE  /\ rcvq' \in Seq(Seq(Honest(seq, outcome)))
         /\ kdump' \in [seq : 0..seq, left : Nat]
         /\ kdump' # NoDump => kdump'.seq \in 1..seq /\ outcome[kdump'.seq] = "ok"
         /\ kintr' \in [seq : 0..seq, total : Nat, flag : BOOLEAN]
         /\ pc = "talk" /\ call.clean =>
              /\ rcvq' \in Seq(Seq(NotOf(seq - 1)))
              /\ kdump' # NoDump => kdump'.seq # seq - 1
<1>1. CASE kdump = NoDump /\ rcvq' = Tail(rcvq) /\ UNCHANGED <<kdump, kintr>>
  BY Zenon, <1>1, QueueOps DEF TypeOK, HandleInv, Pop
<1>2. CASE kdump # NoDump /\ \E p \in KernelParts(kdump) :
             /\ rcvq' = Append(Tail(rcvq), p.dg)
             /\ kdump' = p.rest
             /\ kintr' = [kintr EXCEPT !.flag = @ \/ (p.intr /\ kdump.seq = kintr.seq)]
  <2>1. PICK p \in KernelParts(kdump) :
             /\ rcvq' = Append(Tail(rcvq), p.dg)
             /\ kdump' = p.rest
             /\ kintr' = [kintr EXCEPT !.flag = @ \/ (p.intr /\ kdump.seq = kintr.seq)]
    BY Zenon, <1>2
  <2>2. kdump \in [seq : Nat, left : Nat]
    BY DEF TypeOK
  <2>3. /\ p.dg \in Seq({m \in Answers(kdump.seq) : m.type # "err"})
        /\ p.rest \in [seq : Nat, left : Nat]
        /\ p.rest = NoDump \/ p.rest.seq = kdump.seq
        /\ p.intr \in BOOLEAN
    BY Zenon, <2>2, PartsType
  <2>4. {m \in Answers(kdump.seq) : m.type # "err"} \subseteq Honest(seq, outcome)
    BY Zenon, <1>2 DEF HandleInv, Answers, Honest
  <2>5. p.dg \in Seq(Honest(seq, outcome))
    BY Zenon, <2>3, <2>4, SeqMonotone
  <2>6. rcvq' \in Seq(Seq(Honest(seq, outcome)))
    BY Zenon, <2>1, <2>5, QueueOps DEF HandleInv, Pop
  <2>7. ASSUME pc = "talk", call.clean
        PROVE  rcvq' \in Seq(Seq(NotOf(seq - 1))) /\ (kdump' # NoDump => kdump'.seq # seq - 1)
    <3>1. rcvq \in Seq(Seq(NotOf(seq - 1))) /\ kdump.seq # seq - 1
      BY Zenon, <1>2, <2>7 DEF HandleInv
    <3>2. {m \in Answers(kdump.seq) : m.type # "err"} \subseteq NotOf(seq - 1)
      BY Zenon, <3>1 DEF Answers, NotOf
    <3>3. p.dg \in Seq(NotOf(seq - 1))
      BY <2>3, <3>2, SeqMonotone
    <3> QED
      BY Zenon, <2>1, <2>3, <3>1, <3>3, QueueOps DEF Pop
  <2>8. kdump' \in [seq : 0..seq, left : Nat]
    BY <2>1, <2>2, <2>3 DEF TypeOK, NoDump
  <2>9. kdump' # NoDump => kdump'.seq \in 1..seq /\ outcome[kdump'.seq] = "ok"
    BY Zenon, <1>2, <2>1, <2>3 DEF HandleInv
  <2>10. kintr' \in [seq : 0..seq, total : Nat, flag : BOOLEAN]
    BY Zenon, <2>1, <2>3 DEF TypeOK
  <2> QED
    BY Zenon, <2>6, <2>7, <2>8, <2>9, <2>10
<1> QED
  BY Zenon, <1>1, <1>2 DEF Pop

\* Sending request seq + 1, answered by a with outcome v.
LEMMA SendKeeps ==
  ASSUME TypeOK, HandleInv, seq < MaxSeq, NEW v \in Codes,
         NEW a \in Seq(Seq({m \in Answers(seq + 1) : m.type = "err" <=> v = "fail"}))
  PROVE  /\ rcvq \o a \in Seq(Seq(Honest(seq + 1, [outcome EXCEPT ![seq + 1] = v])))
         /\ rcvq \in Seq(Seq(Honest(seq + 1, [outcome EXCEPT ![seq + 1] = v])))
         /\ Clean => rcvq \o a \in Seq(Seq(NotOf(seq)))
<1> DEFINE H == Honest(seq + 1, [outcome EXCEPT ![seq + 1] = v])
           A == {m \in Answers(seq + 1) : m.type = "err" <=> v = "fail"}
<1>1. Honest(seq, outcome) \subseteq H /\ A \subseteq H
  BY Zenon, HonestGrows
<1>2. rcvq \in Seq(Seq(Honest(seq, outcome)))
  BY Zenon DEF HandleInv
<1>3. A \subseteq NotOf(seq)
  BY DEF Answers, NotOf, TypeOK
<1>4. a \in Seq(Seq(A))
  BY Zenon
<1> HIDE DEF H, A
<1>5. rcvq \in Seq(Seq(H)) /\ a \in Seq(Seq(H)) /\ a \in Seq(Seq(NotOf(seq)))
  BY Zenon, <1>1, <1>2, <1>3, <1>4, SeqMonotone
<1>6. ASSUME Clean PROVE rcvq \in Seq(Seq(NotOf(seq)))
  <2>1. \A i \in 1..Len(rcvq) : rcvq[i] \in Seq(Message)
    BY DEF TypeOK
  <2>2. ASSUME NEW i \in 1..Len(rcvq) PROVE rcvq[i] \in Seq(NotOf(seq))
    <3>1. \A j \in 1..Len(rcvq[i]) : rcvq[i][j] \in NotOf(seq)
      BY SMTT(20), <1>6, <2>1, <2>2 DEF Clean, NotOf, TypeOK
    <3> QED
      BY Zenon, <2>1, <3>1, SeqOfElements
  <2> QED
    BY Zenon, <2>2, SeqOfElements DEF TypeOK
<1>7. rcvq \o a \in Seq(Seq(H)) /\ (Clean => rcvq \o a \in Seq(Seq(NotOf(seq))))
  BY Zenon, <1>5, <1>6, QueueOps
<1> QED
  BY Zenon, <1>5, <1>7 DEF H

----------------------------------------------------------------------------
(* Types of the records.                                                   *)

\* Call builds the arguments of a call.
LEMMA CallType ==
  ASSUME NEW kind \in Kinds, NEW answer \in BOOLEAN, NEW nc \in BOOLEAN, NEW supp \in BOOLEAN,
         NEW clean \in BOOLEAN, NEW first \in Nat
  PROVE  Call(kind, answer, nc, supp, clean, first) \in Calls
  BY Zenon DEF Call, Calls

\* No call is running: NoCall is well formed.
LEMMA NoCallType == NoCall \in Calls
  BY Zenon, CallType DEF NoCall, Kinds

\* What a call leaves in last when it returns is well formed.
LEMMA ReturnType ==
  ASSUME NEW s \in Nat, NEW c \in Calls, NEW q \in 0..s, NEW code \in Codes, NEW n \in Nat,
         NEW t \in Nat, NEW k \in BOOLEAN, NEW w \in BOOLEAN
  PROVE  [call |-> c, seq |-> q, code |-> code, got |-> n, total |-> t,
          kintr |-> k, warned |-> w] \in Returns(s)
  BY Zenon DEF Returns

\* NoReturn, the value of last while a call runs, is well formed.
LEMMA NoReturnType ==
  ASSUME NEW s \in Nat PROVE NoReturn \in Returns(s)
<1>1. 0 \in 0..s /\ "ok" \in Codes /\ 0 \in Nat
  BY DEF Codes
<1> QED
  BY Zenon, <1>1, NoCallType DEF NoReturn, Returns

\* The request number is a natural number.
LEMMA SeqType == TypeOK => seq \in Nat
  BY RtnlAssumption DEF TypeOK

\* Returning from a call keeps the types.
LEMMA ReturnKeeps ==
  ASSUME NEW s \in Nat, NEW c \in Calls, NEW code \in Codes, NEW n \in Nat, NEW w \in BOOLEAN,
         kintr' \in [seq : 0..s, total : Nat, flag : BOOLEAN],
         Return(c, s, code, n, w)
  PROVE  /\ pc' = "idle" /\ call' \in Calls /\ got' \in Nat /\ intr' \in BOOLEAN
         /\ last' \in Returns(s)
         /\ last'.call = c /\ last'.seq = s /\ last'.code = code
<1>1. kintr'.total \in Nat /\ kintr'.flag \in BOOLEAN
  BY Zenon
<1>2. last' \in Returns(s)
  BY <1>1, ReturnType DEF Return
<1> QED
  BY Zenon, <1>2, NoCallType DEF Return

----------------------------------------------------------------------------
(* The invariant.                                                          *)

\* A fresh handle satisfies the invariant.
LEMMA InitEstablishes == Init => IInv
<1> SUFFICES ASSUME Init PROVE IInv
  BY Zenon
<1>1. rcvq \in Seq(Seq(Message)) /\ rcvq \in Seq(Seq(Honest(seq, outcome)))
  BY DEF Init
<1>2. outcome \in [1..MaxSeq -> Codes \cup {"none"}]
  BY Zenon DEF Init
<1>3. last \in Returns(seq) /\ call \in Calls
  BY Zenon, NoCallType, NoReturnType DEF Init
<1>4. TypeOK
  <2>1. seq \in 0..MaxSeq /\ dump \in 0..seq /\ got \in Nat /\ peer \in 0..MaxPeer
    BY RtnlAssumption DEF Init
  <2>2. kdump \in [seq : 0..seq, left : Nat]
    BY DEF Init, NoDump
  <2>3. kintr \in [seq : 0..seq, total : Nat, flag : BOOLEAN]
    BY DEF Init
  <2> QED
    BY Zenon, <1>1, <1>2, <1>3, <2>1, <2>2, <2>3 DEF Init, TypeOK
<1> QED
  BY Zenon, <1>1, <1>4 DEF Init, IInv, HandleInv, CleanTalkTruthful, Talked, NoCall, NoReturn, Call

\* A step of rtnl_talk that reads a datagram.
LEMMA TalkStep ==
  ASSUME IInv, TalkReturn \/ TalkNext
  PROVE  IInv'
<1> USE DEF IInv
<1>1. Pop /\ pc = "talk" /\ UNCHANGED <<seq, dump, peer, outcome>>
  BY Zenon DEF TalkReturn, TalkNext
<1>2. /\ rcvq' \in Seq(Seq(Honest(seq, outcome)))
      /\ kdump' \in [seq : 0..seq, left : Nat]
      /\ kdump' # NoDump => kdump'.seq \in 1..seq /\ outcome[kdump'.seq] = "ok"
      /\ kintr' \in [seq : 0..seq, total : Nat, flag : BOOLEAN]
      /\ call.clean =>
           /\ rcvq' \in Seq(Seq(NotOf(seq - 1)))
           /\ kdump' # NoDump => kdump'.seq # seq - 1
  BY Zenon, <1>1, PopKeeps
<1>3. rcvq' \in Seq(Seq(Message))
  BY Zenon, <1>2, SeqMonotone DEF Honest
<1>4. CASE TalkNext
  <2>1. TypeOK'
    BY <1>1, <1>2, <1>3, <1>4 DEF TypeOK, TalkNext
  <2>2. HandleInv'
    BY Zenon, <1>1, <1>2, <1>4 DEF HandleInv, TalkNext
  <2> QED
    BY Zenon, <1>1, <1>4, <2>1, <2>2 DEF CleanTalkTruthful, Talked, TalkNext
<1>5. CASE TalkReturn
  <2>1. PICK j \in DOMAIN Head(rcvq) :
          /\ Decides(Head(rcvq)[j])
          /\ Return(call, seq, IF Head(rcvq)[j].type = "err" THEN "fail" ELSE "ok", 0, FALSE)
    BY Zenon, <1>5 DEF TalkReturn
  <2>2. TypeOK'
    <3>1. pc' = "idle" /\ call' \in Calls /\ got' \in Nat /\ intr' \in BOOLEAN /\ last' \in Returns(seq)
      BY Zenon, <1>2, <2>1, SeqType, ReturnKeeps DEF TypeOK, Codes
    <3> QED
      BY Zenon, <1>1, <1>2, <1>3, <3>1 DEF TypeOK
  <2>3. HandleInv'
    BY Zenon, <1>1, <1>2, <2>1 DEF HandleInv, Return
  <2>4. CleanTalkTruthful'
    <3> SUFFICES ASSUME call.clean, Head(rcvq)[j].type # "err"
                 PROVE  outcome[seq] = "ok"
      BY Zenon, <1>1, <2>1 DEF CleanTalkTruthful, Return
    <3> DEFINE m == Head(rcvq)[j]
    <3>1. m \in Honest(seq, outcome) /\ m \in NotOf(seq - 1)
      <4>1. Head(rcvq) \in Seq(Honest(seq, outcome)) /\ Head(rcvq) \in Seq(NotOf(seq - 1))
        BY Zenon, <1>1, QueueOps DEF HandleInv, Pop
      <4> QED
        BY <2>1, <4>1
    <3>2. m.own /\ ~(m.seq > seq \/ m.seq + 1 < seq)
      BY Zenon, <2>1 DEF Decides, Accepts
    <3> HIDE DEF m
    <3>3. m.seq \in 1..seq /\ m.seq # seq - 1
      BY Zenon, <3>1, <3>2 DEF Honest, NotOf
    <3>4. m.seq = seq
      BY <3>2, <3>3, SeqType
    <3> QED
      BY Zenon, <3>1, <3>2, <3>4 DEF Honest, m
  <2> QED
    BY Zenon, <2>2, <2>3, <2>4
<1> QED
  BY Zenon, <1>4, <1>5

\* A step of rtnl_dump_filter_l that reads a datagram.
LEMMA DumpStep ==
  ASSUME IInv, DumpReturn \/ DumpNext
  PROVE  IInv'
<1> USE DEF IInv
<1>1. Pop /\ pc = "dump" /\ UNCHANGED <<seq, dump, peer, outcome>>
  BY Zenon DEF DumpReturn, DumpNext
<1>2. /\ rcvq' \in Seq(Seq(Honest(seq, outcome)))
      /\ kdump' \in [seq : 0..seq, left : Nat]
      /\ kdump' # NoDump => kdump'.seq \in 1..seq /\ outcome[kdump'.seq] = "ok"
      /\ kintr' \in [seq : 0..seq, total : Nat, flag : BOOLEAN]
  BY Zenon, <1>1, PopKeeps
<1>3. rcvq' \in Seq(Seq(Message))
  BY Zenon, <1>2, SeqMonotone DEF Honest
<1>4. ASSUME NEW d, NEW j \in Nat PROVE Cardinality(MineUpTo(d, j)) \in Nat
  <2>1. IsFiniteSet(1..j) /\ MineUpTo(d, j) \subseteq 1..j
    BY FS_Interval DEF MineUpTo
  <2> QED
    BY Zenon, <2>1, FS_Subset, FS_CardinalityType
<1>5. Head(rcvq) \in Seq(Message)
  BY Zenon, <1>1, QueueOps DEF TypeOK, Pop
<1>6. CASE DumpNext
  <2> DEFINE n == Cardinality(MineUpTo(Head(rcvq), Len(Head(rcvq))))
  <2>0. n \in Nat
    BY <1>4, <1>5
  <2> HIDE DEF n
  <2>1. got' \in Nat /\ UNCHANGED <<pc, call, last>>
    BY <2>0, <1>6 DEF DumpNext, TypeOK, n
  <2>2. intr' \in BOOLEAN
    BY Zenon, <1>6 DEF DumpNext, TypeOK, Interrupted
  <2>3. TypeOK'
    BY Zenon, <1>1, <1>2, <1>3, <2>1, <2>2 DEF TypeOK
  <2>4. HandleInv'
    BY Zenon, <1>1, <1>2, <2>1 DEF HandleInv
  <2> QED
    BY Zenon, <1>1, <2>1, <2>3, <2>4 DEF CleanTalkTruthful, Talked
<1>7. CASE DumpReturn
  <2> DEFINE d == Head(rcvq)
  <2>1. PICK j \in DOMAIN d, ok \in BOOLEAN :
          Return(call, seq, IF ok THEN "ok" ELSE "fail",
                 got + Cardinality(MineUpTo(d, j - 1)), ok /\ Interrupted(d, j))
    <3>1. PICK j \in DOMAIN d :
          LET ok == d[j].type = "done" \/ (d[j].type = "doneerr" /\ call.supp) IN
          Return(call, seq, IF ok THEN "ok" ELSE "fail",
                 got + Cardinality(MineUpTo(d, j - 1)), ok /\ Interrupted(d, j))
      BY Zenon, <1>7 DEF DumpReturn
    <3> DEFINE ok == d[j].type = "done" \/ (d[j].type = "doneerr" /\ call.supp)
    <3>2. ok \in BOOLEAN
      BY Zenon
    <3> QED
      BY Zenon, <3>1, <3>2
  <2>2. got + Cardinality(MineUpTo(d, j - 1)) \in Nat
    <3>1. j - 1 \in Nat
      BY <1>5
    <3>2. Cardinality(MineUpTo(d, j - 1)) \in Nat
      BY Zenon, <1>4, <3>1
    <3> QED
      BY SMTT(20), <3>2 DEF TypeOK
  <2>3. (ok /\ Interrupted(d, j)) \in BOOLEAN
    BY Zenon
  <2>4. TypeOK'
    <3>1. pc' = "idle" /\ call' \in Calls /\ got' \in Nat /\ intr' \in BOOLEAN /\ last' \in Returns(seq)
      <4> DEFINE code == IF ok THEN "ok" ELSE "fail"
                 n == got + Cardinality(MineUpTo(d, j - 1))
                 w == ok /\ Interrupted(d, j)
      <4>1. code \in Codes /\ n \in Nat /\ w \in BOOLEAN /\ Return(call, seq, code, n, w)
        BY Zenon, <2>1, <2>2, <2>3 DEF Codes
      <4> HIDE DEF code, n, w
      <4> QED
        BY SMTT(20), <1>2, <4>1, SeqType, ReturnKeeps DEF TypeOK
    <3> QED
      BY Zenon, <1>1, <1>2, <1>3, <3>1 DEF TypeOK
  <2>5. HandleInv'
    BY Zenon, <1>1, <1>2, <2>1 DEF HandleInv, Return
  <2>6. CleanTalkTruthful'
    BY Zenon, <1>1, <2>1 DEF CleanTalkTruthful, Talked, Return, HandleInv
  <2> QED
    BY Zenon, <2>4, <2>5, <2>6
<1> QED
  BY Zenon, <1>6, <1>7

\* Sending a request, for rtnl_talk and rtnl_echo_talk.
LEMMA TalkSendStep ==
  ASSUME IInv, NEW kind \in {"change", "get", "echo"}, TalkSend(kind)
  PROVE  IInv'
<1> USE DEF IInv
<1> DEFINE c == Call(kind, kind # "change", FALSE, FALSE, Clean, seq + 1)
<1>1. /\ seq \in Nat /\ seq < MaxSeq /\ seq' = seq + 1 /\ pc = "idle"
      /\ UNCHANGED <<dump, kdump, kintr, peer>>
  BY Zenon, SeqType DEF TalkSend
<1>2. c \in Calls /\ c.kind = kind /\ c.clean = Clean
  <2>1. Clean \in BOOLEAN /\ (kind # "change") \in BOOLEAN /\ seq + 1 \in Nat /\ kind \in Kinds
    BY <1>1 DEF Clean, Kinds
  <2>2. c \in Calls
    BY Zenon, <2>1, CallType
  <2> QED
    BY Zenon, <2>2 DEF Call
<1>3. /\ kintr' \in [seq : 0..(seq + 1), total : Nat, flag : BOOLEAN]
      /\ kdump' \in [seq : 0..(seq + 1), left : Nat]
      /\ seq' \in 0..MaxSeq /\ dump' \in 0..seq' /\ peer' \in 0..MaxPeer
  BY <1>1, RtnlAssumption DEF TypeOK
<1>a. seq + 1 \in Nat /\ "fail" \in Codes
  BY <1>1 DEF Codes
<1> HIDE DEF c
<1>4. CASE Return(c, seq + 1, "fail", 0, FALSE) /\ UNCHANGED <<rcvq, outcome>>
  <2>1. /\ pc' = "idle" /\ call' \in Calls /\ got' \in Nat /\ intr' \in BOOLEAN
        /\ last' \in Returns(seq + 1) /\ last'.code = "fail"
    BY Zenon, <1>2, <1>3, <1>4, <1>a, ReturnKeeps
  <2>2. rcvq' \in Seq(Seq(Honest(seq + 1, outcome)))
    BY <1>1, <1>4, HonestGrows, SeqMonotone DEF HandleInv, Codes
  <2>3. TypeOK'
    BY Zenon, <1>1, <1>3, <1>4, <2>1 DEF TypeOK
  <2>4. HandleInv'
    BY <1>1, <1>4, <2>1, <2>2 DEF HandleInv, TypeOK
  <2>5. CleanTalkTruthful'
    BY Zenon, <2>1 DEF CleanTalkTruthful
  <2> QED
    BY Zenon, <2>3, <2>4, <2>5
<1>5. CASE /\ pc' = "talk" /\ call' = c /\ last' = NoReturn /\ UNCHANGED <<got, intr>>
           /\ \/ /\ \E a \in KernelAnswers(kind, seq + 1) : rcvq' = rcvq \o a
                 /\ outcome' = [outcome EXCEPT ![seq + 1] = "ok"]
              \/ /\ rcvq' = rcvq \o KernelRefuses(seq + 1)
                 /\ outcome' = [outcome EXCEPT ![seq + 1] = "fail"]
  <2>0. PICK v \in Codes :
          \E a \in Seq(Seq({m \in Answers(seq + 1) : m.type = "err" <=> v = "fail"})) :
            rcvq' = rcvq \o a /\ outcome' = [outcome EXCEPT ![seq + 1] = v]
    <3>1. CASE /\ \E a \in KernelAnswers(kind, seq + 1) : rcvq' = rcvq \o a
               /\ outcome' = [outcome EXCEPT ![seq + 1] = "ok"]
      <4>1. PICK a \in KernelAnswers(kind, seq + 1) : rcvq' = rcvq \o a
        BY Zenon, <3>1
      <4>2. a \in Seq(Seq({m \in Answers(seq + 1) : m.type # "err"}))
        BY <1>1, AnswersType
      <4>3. {m \in Answers(seq + 1) : m.type # "err"}
              \subseteq {m \in Answers(seq + 1) : m.type = "err" <=> "ok" = "fail"}
        BY Zenon
      <4> QED
        BY Zenon, <3>1, <4>1, <4>2, <4>3, SeqMonotone DEF Codes
    <3>2. CASE /\ rcvq' = rcvq \o KernelRefuses(seq + 1)
               /\ outcome' = [outcome EXCEPT ![seq + 1] = "fail"]
      <4>1. KernelRefuses(seq + 1) \in Seq(Seq({m \in Answers(seq + 1) : m.type = "err"}))
        BY <1>1, RefusesType
      <4>2. {m \in Answers(seq + 1) : m.type = "err"}
              \subseteq {m \in Answers(seq + 1) : m.type = "err" <=> "fail" = "fail"}
        BY Zenon
      <4> QED
        BY Zenon, <3>2, <4>1, <4>2, SeqMonotone DEF Codes
    <3> QED
      BY Zenon, <1>5, <3>1, <3>2
  <2>1. PICK a \in Seq(Seq({m \in Answers(seq + 1) : m.type = "err" <=> v = "fail"})) :
          rcvq' = rcvq \o a /\ outcome' = [outcome EXCEPT ![seq + 1] = v]
    BY SMTT(20), <2>0
  <2>2. /\ rcvq' \in Seq(Seq(Honest(seq', outcome')))
        /\ Clean => rcvq' \in Seq(Seq(NotOf(seq)))
    BY Zenon, <1>1, <2>1, SendKeeps
  <2>3. outcome' \in [1..MaxSeq -> Codes \cup {"none"}] /\ \A s \in 1..seq : outcome'[s] = outcome[s]
    BY <1>1, <2>1, RtnlAssumption DEF TypeOK
  <2>4. TypeOK'
    <3>1. rcvq' \in Seq(Seq(Message))
      BY Zenon, <2>2, SeqMonotone DEF Honest
    <3>2. last' \in Returns(seq + 1)
      BY <1>1, <1>5, NoReturnType
    <3> QED
      BY Zenon, <1>1, <1>2, <1>3, <1>5, <2>3, <3>1, <3>2 DEF TypeOK
  <2>5. HandleInv'
    <3>1. kdump' # NoDump => kdump'.seq \in 1..seq' /\ outcome'[kdump'.seq] = "ok"
      BY <1>1, <2>3 DEF HandleInv
    <3>2. call'.clean =>
            /\ rcvq' \in Seq(Seq(NotOf(seq' - 1)))
            /\ kdump' # NoDump => kdump'.seq # seq' - 1
      <4>1. seq' - 1 = seq
        BY <1>1
      <4>2. call'.clean = Clean
        BY Zenon, <1>2, <1>5
      <4>3. Clean => (kdump # NoDump => kdump.seq # seq)
        BY Zenon DEF Clean
      <4> QED
        BY Zenon, <1>1, <2>2, <4>1, <4>2, <4>3
    <3> QED
      BY <1>1, <1>2, <1>5, <2>2, <3>1, <3>2 DEF HandleInv
  <2>6. CleanTalkTruthful'
    BY Zenon, <1>5 DEF CleanTalkTruthful, Talked, NoReturn, NoCall, Call
  <2> QED
    BY Zenon, <2>4, <2>5, <2>6
<1> QED
  BY Zenon, <1>4, <1>5 DEF TalkSend, c

\* Sending a dump request.
LEMMA DumpRequestStep ==
  ASSUME IInv, NEW nc \in BOOLEAN, NEW supp \in BOOLEAN, rtnl_dump_request(nc, supp)
  PROVE  IInv'
<1> USE DEF IInv
<1> DEFINE c == Call("dump", FALSE, nc, supp, Clean, seq + 1)
<1>1. /\ seq \in Nat /\ seq < MaxSeq /\ seq' = seq + 1 /\ dump' = seq + 1 /\ pc = "idle"
      /\ UNCHANGED peer
  BY Zenon, SeqType DEF rtnl_dump_request, DumpNumber
<1>2. c \in Calls /\ c.kind = "dump"
  <2>1. Clean \in BOOLEAN /\ seq + 1 \in Nat /\ "dump" \in Kinds
    BY <1>1 DEF Clean, Kinds
  <2>2. c \in Calls
    BY Zenon, <2>1, CallType
  <2> QED
    BY Zenon, <2>2 DEF Call
<1>3. /\ kintr \in [seq : 0..(seq + 1), total : Nat, flag : BOOLEAN]
      /\ kdump \in [seq : 0..(seq + 1), left : Nat]
      /\ seq' \in 0..MaxSeq /\ dump' \in 0..seq' /\ peer' \in 0..MaxPeer
      /\ seq + 1 \in Nat /\ "fail" \in Codes /\ "ok" \in Codes
  BY <1>1, RtnlAssumption DEF TypeOK, Codes
<1> HIDE DEF c
<1>4. CASE /\ UNCHANGED <<rcvq, kdump, kintr, outcome>>
           /\ Return(c, seq + 1, "fail", 0, FALSE)
  <2>1. /\ pc' = "idle" /\ call' \in Calls /\ got' \in Nat /\ intr' \in BOOLEAN
        /\ last' \in Returns(seq + 1) /\ last'.code = "fail"
    BY Zenon, <1>2, <1>3, <1>4, ReturnKeeps
  <2>2. rcvq' \in Seq(Seq(Honest(seq + 1, outcome)))
    BY ZenonT(30), <1>1, <1>3, <1>4, HonestGrows, SeqMonotone DEF HandleInv
  <2>3. TypeOK'
    BY Zenon, <1>1, <1>3, <1>4, <2>1 DEF TypeOK
  <2>4. HandleInv'
    BY <1>1, <1>4, <2>1, <2>2 DEF HandleInv, TypeOK
  <2>5. CleanTalkTruthful'
    BY Zenon, <2>1 DEF CleanTalkTruthful
  <2> QED
    BY Zenon, <2>3, <2>4, <2>5
<1>5. ASSUME pc' = "dump", call' = c, last' = NoReturn, UNCHANGED <<got, intr>>,
             NEW v \in Codes, outcome' = [outcome EXCEPT ![seq + 1] = v],
             rcvq' \in Seq(Seq(Honest(seq', outcome'))),
             kdump' \in [seq : 0..seq', left : Nat],
             kdump' # NoDump => kdump'.seq \in 1..seq' /\ outcome'[kdump'.seq] = "ok",
             kintr' \in [seq : 0..seq', total : Nat, flag : BOOLEAN]
      PROVE  IInv'
  <2>1. outcome' \in [1..MaxSeq -> Codes \cup {"none"}]
    BY Zenon, <1>1, <1>5, RtnlAssumption DEF TypeOK
  <2>2. rcvq' \in Seq(Seq(Message))
    BY Zenon, <1>5, SeqMonotone DEF Honest
  <2>3. last' \in Returns(seq')
    BY Zenon, <1>1, <1>3, <1>5, NoReturnType
  <2>4. TypeOK'
    BY Zenon, <1>2, <1>3, <1>5, <2>1, <2>2, <2>3 DEF TypeOK
  <2>5. HandleInv'
    BY Zenon, <1>2, <1>5 DEF HandleInv
  <2>6. CleanTalkTruthful'
    BY Zenon, <1>5 DEF CleanTalkTruthful, Talked, NoReturn, NoCall, Call
  <2> QED
    BY Zenon, <2>4, <2>5, <2>6
<1>6. CASE /\ pc' = "dump" /\ call' = c /\ last' = NoReturn /\ UNCHANGED <<got, intr>>
           /\ rcvq' = rcvq \o KernelRefuses(seq + 1)
           /\ outcome' = [outcome EXCEPT ![seq + 1] = "fail"]
           /\ kintr' = [seq |-> seq + 1, total |-> 0, flag |-> FALSE]
           /\ UNCHANGED kdump
  <2>1. KernelRefuses(seq + 1)
          \in Seq(Seq({m \in Answers(seq + 1) : m.type = "err" <=> "fail" = "fail"}))
    <3>1. {m \in Answers(seq + 1) : m.type = "err"}
            \subseteq {m \in Answers(seq + 1) : m.type = "err" <=> "fail" = "fail"}
      BY Zenon
    <3> QED
      BY <1>3, <3>1, RefusesType, SeqMonotone
  <2>2. rcvq' \in Seq(Seq(Honest(seq', outcome')))
    BY Zenon, <1>1, <1>3, <1>6, <2>1, SendKeeps
  <2>3. kdump' # NoDump => kdump'.seq \in 1..seq' /\ outcome'[kdump'.seq] = "ok"
    BY <1>1, <1>6 DEF HandleInv, TypeOK
  <2> QED
    BY Zenon, <1>1, <1>3, <1>5, <1>6, <2>2, <2>3
<1>7. CASE /\ pc' = "dump" /\ call' = c /\ last' = NoReturn /\ UNCHANGED <<got, intr>>
           /\ \E n \in 0..MaxObjs :
                \E p \in KernelParts([seq |-> seq + 1, left |-> n]) :
                  /\ rcvq' = Append(rcvq, p.dg)
                  /\ kdump' = p.rest
                  /\ kintr' = [seq |-> seq + 1, total |-> n, flag |-> p.intr]
           /\ outcome' = [outcome EXCEPT ![seq + 1] = "ok"]
  <2>1. PICK n \in 0..MaxObjs :
          \E p \in KernelParts([seq |-> seq + 1, left |-> n]) :
            /\ rcvq' = Append(rcvq, p.dg)
            /\ kdump' = p.rest
            /\ kintr' = [seq |-> seq + 1, total |-> n, flag |-> p.intr]
    BY Zenon, <1>7
  <2> DEFINE k == [seq |-> seq + 1, left |-> n]
  <2>2. PICK p \in KernelParts(k) :
            /\ rcvq' = Append(rcvq, p.dg)
            /\ kdump' = p.rest
            /\ kintr' = [seq |-> seq + 1, total |-> n, flag |-> p.intr]
    BY Zenon, <2>1
  <2>3. k \in [seq : Nat, left : Nat] /\ k.seq = seq + 1 /\ n \in Nat
    BY <1>3, RtnlAssumption
  <2> HIDE DEF k
  <2>4. /\ p.dg \in Seq({m \in Answers(seq + 1) : m.type # "err"})
        /\ p.rest \in [seq : Nat, left : Nat]
        /\ p.rest = NoDump \/ p.rest.seq = seq + 1
        /\ p.intr \in BOOLEAN
    BY Zenon, <2>3, PartsType
  <2>5. rcvq' \in Seq(Seq(Honest(seq', outcome')))
    <3> DEFINE A == {m \in Answers(seq + 1) : m.type = "err" <=> "ok" = "fail"}
    <3>1. {m \in Answers(seq + 1) : m.type # "err"} \subseteq A
      BY Zenon
    <3>2. A \subseteq Honest(seq', outcome')
      BY Zenon, <1>1, <1>3, <1>7, HonestGrows
    <3>3. Honest(seq, outcome) \subseteq Honest(seq', outcome')
      BY Zenon, <1>1, <1>3, <1>7, HonestGrows
    <3> HIDE DEF A
    <3>4. p.dg \in Seq(Honest(seq', outcome'))
      BY <2>4, <3>1, <3>2, SeqMonotone
    <3>5. rcvq \in Seq(Seq(Honest(seq', outcome')))
      BY Zenon, <3>3, SeqMonotone DEF HandleInv
    <3> QED
      BY Zenon, <2>2, <3>4, <3>5, QueueOps
  <2>6. kdump' \in [seq : 0..seq', left : Nat]
    BY <1>1, <2>2, <2>4 DEF NoDump
  <2>7. kdump' # NoDump => kdump'.seq \in 1..seq' /\ outcome'[kdump'.seq] = "ok"
    BY SMTT(20), <1>1, <1>7, <2>2, <2>4, RtnlAssumption DEF TypeOK
  <2>8. kintr' \in [seq : 0..seq', total : Nat, flag : BOOLEAN]
    BY <1>1, <2>2, <2>3, <2>4
  <2> QED
    BY Zenon, <1>3, <1>5, <1>7, <2>5, <2>6, <2>7, <2>8
<1> QED
  BY Zenon, <1>4, <1>6, <1>7 DEF rtnl_dump_request, c

\* A request sent by rtnl_send_check.
LEMMA SendCheckStep ==
  ASSUME IInv, SendCheckSend
  PROVE  IInv'
<1> USE DEF IInv
<1>1. /\ seq \in Nat /\ seq < MaxSeq /\ seq' = seq + 1 /\ pc' = "flush" /\ last' = NoReturn
      /\ UNCHANGED <<dump, got, intr, kdump, kintr, peer>>
      /\ pc \in {"idle", "flush"}
  BY Zenon, SeqType DEF SendCheckSend
<1>2. seq + 1 \in Nat /\ "fail" \in Codes /\ "ok" \in Codes
  BY <1>1 DEF Codes
<1>3. call' \in Calls /\ call'.kind = "flush"
  <2>1. CASE pc = "flush"
    BY Zenon, <2>1 DEF SendCheckSend, HandleInv, TypeOK
  <2>2. CASE pc = "idle"
    <3>1. (rcvq = <<>>) \in BOOLEAN /\ "flush" \in Kinds
      BY Zenon DEF Kinds
    <3>2. call' = Call("flush", FALSE, FALSE, FALSE, rcvq = <<>>, seq + 1)
      BY Zenon, <2>2 DEF SendCheckSend
    <3>3. call' \in Calls
      BY Zenon, <1>2, <3>1, <3>2, CallType
    <3> QED
      BY Zenon, <3>2, <3>3 DEF Call
  <2> QED
    BY Zenon, <1>1, <2>1, <2>2
<1>4. PICK v \in Codes :
        /\ outcome' = [outcome EXCEPT ![seq + 1] = v]
        /\ rcvq' \in Seq(Seq(Honest(seq', outcome')))
  <2>1. CASE /\ outcome' = [outcome EXCEPT ![seq + 1] = "ok"]
             /\ UNCHANGED rcvq
    <3>1. Honest(seq, outcome) \subseteq Honest(seq', outcome')
      BY Zenon, <1>1, <1>2, <2>1, HonestGrows
    <3>2. rcvq' \in Seq(Seq(Honest(seq', outcome')))
      BY Zenon, <2>1, <3>1, SeqMonotone DEF HandleInv
    <3> QED
      BY Zenon, <1>2, <2>1, <3>2
  <2>2. CASE /\ outcome' = [outcome EXCEPT ![seq + 1] = "fail"]
             /\ rcvq' = rcvq \o KernelRefuses(seq + 1)
    <3>1. {m \in Answers(seq + 1) : m.type = "err"}
            \subseteq {m \in Answers(seq + 1) : m.type = "err" <=> "fail" = "fail"}
      BY Zenon
    <3>2. KernelRefuses(seq + 1)
            \in Seq(Seq({m \in Answers(seq + 1) : m.type = "err" <=> "fail" = "fail"}))
      BY <1>2, <3>1, RefusesType, SeqMonotone
    <3>3. rcvq' \in Seq(Seq(Honest(seq', outcome')))
      BY Zenon, <1>1, <1>2, <2>2, <3>2, SendKeeps
    <3> QED
      BY Zenon, <1>2, <2>2, <3>3
  <2> QED
    BY Zenon, <2>1, <2>2 DEF SendCheckSend
<1>5. outcome' \in [1..MaxSeq -> Codes \cup {"none"}] /\ \A s \in 1..seq : outcome'[s] = outcome[s]
  BY <1>1, <1>4, RtnlAssumption DEF TypeOK
<1>6. TypeOK'
  <2>1. rcvq' \in Seq(Seq(Message))
    BY Zenon, <1>4, SeqMonotone DEF Honest
  <2>2. last' \in Returns(seq')
    BY Zenon, <1>1, <1>2, NoReturnType
  <2>3. /\ kintr' \in [seq : 0..seq', total : Nat, flag : BOOLEAN]
        /\ kdump' \in [seq : 0..seq', left : Nat]
        /\ seq' \in 0..MaxSeq /\ dump' \in 0..seq'
    BY <1>1, RtnlAssumption DEF TypeOK
  <2> QED
    BY Zenon, <1>1, <1>3, <1>5, <2>1, <2>2, <2>3 DEF TypeOK
<1>7. HandleInv'
  <2>1. kdump' # NoDump => kdump'.seq \in 1..seq' /\ outcome'[kdump'.seq] = "ok"
    BY <1>1, <1>5 DEF HandleInv
  <2> QED
    BY Zenon, <1>1, <1>3, <1>4, <2>1 DEF HandleInv
<1>8. CleanTalkTruthful'
  BY Zenon, <1>1 DEF CleanTalkTruthful, Talked, NoReturn, NoCall, Call
<1> QED
  BY Zenon, <1>6, <1>7, <1>8

\* The steps that send nothing and take nothing from the queue.
LEMMA OtherStep ==
  ASSUME IInv, \/ rtnl_open \/ rtnl_close \/ RecvFails \/ SendCheckPeek \/ PeerSend
               \/ UNCHANGED vars
  PROVE  IInv'
<1> USE DEF IInv
<1>1. CASE rtnl_open
  <2>1. TypeOK' /\ HandleInv'
    BY SMTT(20), <1>1 DEF rtnl_open, TypeOK, HandleInv
  <2> QED
    BY <1>1, <2>1 DEF rtnl_open, CleanTalkTruthful, Talked
<1>2. CASE rtnl_close
  <2>1. rcvq' \in Seq(Seq(Message)) /\ rcvq' \in Seq(Seq(Honest(seq, outcome)))
    BY <1>2 DEF rtnl_close
  <2>2. kdump' \in [seq : 0..seq, left : Nat]
    BY <1>2, SeqType DEF rtnl_close, NoDump
  <2>3. TypeOK' /\ HandleInv'
    BY Zenon, <1>2, <2>1, <2>2 DEF rtnl_close, TypeOK, HandleInv
  <2> QED
    BY Zenon, <1>2, <2>3 DEF rtnl_close, CleanTalkTruthful, Talked
<1>3. ASSUME NEW code \in Codes, NEW n \in Nat, Return(call, seq, code, n, FALSE),
             UNCHANGED <<seq, dump, rcvq, kdump, kintr, peer, outcome>>,
             code = "fail" \/ call.kind = "flush"
      PROVE  IInv'
  <2>1. /\ pc' = "idle" /\ call' \in Calls /\ got' \in Nat /\ intr' \in BOOLEAN
        /\ last' \in Returns(seq) /\ last'.call = call /\ last'.code = code
    BY Zenon, <1>3, SeqType, ReturnKeeps DEF TypeOK
  <2>2. TypeOK' /\ HandleInv'
    BY Zenon, <1>3, <2>1 DEF TypeOK, HandleInv
  <2> QED
    BY Zenon, <1>3, <2>1, <2>2 DEF CleanTalkTruthful, Talked
<1>4. CASE RecvFails
  BY Zenon, <1>3, <1>4 DEF RecvFails, Codes, TypeOK
<1>5. CASE SendCheckPeek
  <2> DEFINE code == IF PeekSeesError THEN "fail" ELSE "ok"
  <2>1. code \in Codes
    BY Zenon DEF Codes
  <2>2. Return(call, seq, code, 0, FALSE) /\ call.kind = "flush"
    BY Zenon, <1>5 DEF SendCheckPeek, HandleInv
  <2> HIDE DEF code
  <2> QED
    BY Zenon, <1>3, <1>5, <2>1, <2>2 DEF SendCheckPeek
<1>6. CASE PeerSend
  <2>1. PICK t \in {"ack", "err", "data"}, s \in 1..MaxSeq :
          rcvq' = Append(rcvq, <<[type |-> t, seq |-> s, own |-> FALSE, intr |-> FALSE]>>)
    BY Zenon, <1>6 DEF PeerSend
  <2> DEFINE m == [type |-> t, seq |-> s, own |-> FALSE, intr |-> FALSE]
  <2>2. m \in Message /\ ~m.own
    <3>1. t \in Types /\ s \in Nat
      BY RtnlAssumption DEF Types
    <3> QED
      BY Zenon, <3>1 DEF Message
  <2> HIDE DEF m
  <2>3. m \in Honest(seq, outcome) /\ m \in NotOf(seq - 1)
    BY Zenon, <2>2 DEF Honest, NotOf
  <2>4. rcvq' = Append(rcvq, <<m>>)
    BY Zenon, <2>1 DEF m
  <2>5. /\ rcvq' \in Seq(Seq(Message)) /\ rcvq' \in Seq(Seq(Honest(seq, outcome)))
        /\ rcvq \in Seq(Seq(NotOf(seq - 1))) => rcvq' \in Seq(Seq(NotOf(seq - 1)))
    BY Zenon, <2>2, <2>3, <2>4, ShortSeqs, QueueOps DEF TypeOK, HandleInv
  <2>6. peer' \in 0..MaxPeer
    BY <1>6, RtnlAssumption DEF PeerSend, TypeOK
  <2>7. TypeOK'
    BY Zenon, <1>6, <2>5, <2>6 DEF PeerSend, TypeOK
  <2>8. HandleInv'
    BY Zenon, <1>6, <2>5 DEF PeerSend, HandleInv
  <2> QED
    BY Zenon, <1>6, <2>7, <2>8 DEF PeerSend, CleanTalkTruthful, Talked
<1>7. CASE UNCHANGED vars
  <2>1. TypeOK' /\ HandleInv'
    BY Zenon, <1>7 DEF vars, handleVars, TypeOK, HandleInv
  <2> QED
    BY Zenon, <1>7, <2>1 DEF vars, handleVars, CleanTalkTruthful, Talked
<1> QED
  BY SMTT(20), <1>1, <1>2, <1>4, <1>5, <1>6, <1>7

\* The invariant is inductive: no call, receive or other process breaks it.
THEOREM HandleInductive == IInv /\ [Next]_vars => IInv'
<1> SUFFICES ASSUME IInv, [Next]_vars PROVE IInv'
  BY Zenon
<1>1. CASE rtnl_talk \/ rtnl_echo_talk
  BY Zenon, <1>1, TalkSendStep DEF rtnl_talk, rtnl_echo_talk
<1>2. CASE \E nc, supp \in BOOLEAN : rtnl_dump_request(nc, supp)
  BY Zenon, <1>2, DumpRequestStep
<1>3. CASE SendCheckSend
  BY Zenon, <1>3, SendCheckStep
<1>4. CASE TalkReturn \/ TalkNext
  BY Zenon, <1>4, TalkStep
<1>5. CASE DumpReturn \/ DumpNext
  BY Zenon, <1>5, DumpStep
<1>6. CASE rtnl_open \/ rtnl_close \/ RecvFails \/ SendCheckPeek \/ PeerSend \/ UNCHANGED vars
  BY Zenon, <1>6, OtherStep
<1> QED
  BY Zenon, <1>1, <1>2, <1>3, <1>4, <1>5, <1>6 DEF Next, HandleNext, Receive

\* rtnl_talk on a handle whose queue holds nothing of the request just before
\* never reports success of a request the kernel refused, whatever older answers,
\* half-read dumps and datagrams of other processes the queue holds.
THEOREM TalkIsTruthful == Spec => []CleanTalkTruthful
<1>1. Init => IInv
  BY Zenon, InitEstablishes
<1>2. IInv /\ [Next]_vars => IInv'
  BY Zenon, HandleInductive
<1>3. IInv => CleanTalkTruthful
  BY Zenon DEF IInv
<1> QED
  BY <1>1, <1>2, <1>3, PTL DEF Spec

\* The fields of the handle keep their types, and the queue holds whole messages.
THEOREM HandleTypes == Spec => []TypeOK
<1>1. Init => IInv
  BY Zenon, InitEstablishes
<1>2. IInv /\ [Next]_vars => IInv'
  BY Zenon, HandleInductive
<1>3. IInv => TypeOK
  BY Zenon DEF IInv
<1> QED
  BY <1>1, <1>2, <1>3, PTL DEF Spec

----------------------------------------------------------------------------
(* rtnl_dump_filter.                                                       *)

Own(m, s) == m.own /\ m.seq = s

\* The objects of dump s in datagram d.
Objects(d, s) == {i \in 1..Len(d) : Own(d[i], s) /\ d[i].type = "data"}

\* A message of queue q that ends dump s is the last one of the dump, and the kernel's
\* dump k is not this one any more.
Ordered(q, k, s) ==
  \A i \in 1..Len(q) : \A j \in 1..Len(q[i]) :
    Own(q[i][j], s) /\ q[i][j].type # "data" =>
      /\ k.seq # s
      /\ \A a \in i..Len(q) : \A b \in 1..Len(q[a]) : Own(q[a][b], s) => a = i /\ b <= j

\* Queue q holds a message of dump s that says it was interrupted.
Flagged(q, s) == \E i \in 1..Len(q) : \E j \in 1..Len(q[i]) : Own(q[i][j], s) /\ q[i][j].intr

\* acc[i] objects of dump s have been passed on once i more datagrams of q are read; what
\* the kernel still has, or what comes before NLMSG_DONE, adds up to the total t.
CountedBy(acc, q, k, s, g, t) ==
  /\ acc[0] = g
  /\ \A i \in 1..Len(q) : acc[i] = acc[i - 1] + Cardinality(Objects(q[i], s))
  /\ k.seq = s => acc[Len(q)] + k.left = t
  /\ \A i \in 1..Len(q) : \A j \in 1..Len(q[i]) :
       Own(q[i][j], s) /\ q[i][j].type = "done" => acc[i] = t
Counted(q, k, s, g, t) == \E acc \in [0..Len(q) -> Nat] : CountedBy(acc, q, k, s, g, t)

\* A running dump: what is queued and still to come, together with what was passed on, is
\* what the kernel reported.
DumpInv ==
  /\ pc # "dump" => got = 0
  /\ pc = "dump" =>
       /\ dump = seq /\ kintr.seq = seq /\ seq # 0
       /\ Ordered(rcvq, kdump, seq)
       /\ kintr.flag /\ ~call.nc => intr \/ Flagged(rcvq, seq)
       /\ Counted(rcvq, kdump, seq, got, kintr.total)

----------------------------------------------------------------------------
(* Queues.                                                                 *)

\* Removing the first datagram, and appending one, position by position.
LEMMA TailPoints ==
  ASSUME NEW q \in Seq(Seq(Message)), q # <<>>
  PROVE  /\ Len(q) \in Nat \ {0} /\ Len(Tail(q)) = Len(q) - 1 /\ Head(q) = q[1]
         /\ Tail(q) \in Seq(Seq(Message)) /\ q[1] \in Seq(Message)
         /\ \A i \in 1..(Len(q) - 1) : Tail(q)[i] = q[i + 1]
  OBVIOUS

\* Appending a datagram leaves the others where they are.
LEMMA AppendPoints ==
  ASSUME NEW q \in Seq(Seq(Message)), NEW d \in Seq(Message)
  PROVE  /\ Len(q) \in Nat /\ Len(Append(q, d)) = Len(q) + 1
         /\ Append(q, d) \in Seq(Seq(Message))
         /\ \A i \in 1..Len(q) : Append(q, d)[i] = q[i]
         /\ Append(q, d)[Len(q) + 1] = d
  OBVIOUS

\* A queue extended by one datagram.
LEMMA ConcatOne ==
  ASSUME NEW q \in Seq(Seq(Message)), NEW d \in Seq(Message)
  PROVE  q \o <<d>> = Append(q, d)
  OBVIOUS

\* The objects of a datagram are finitely many.
LEMMA ObjectsFinite ==
  ASSUME NEW d \in Seq(Message), NEW s
  PROVE  IsFiniteSet(Objects(d, s)) /\ Cardinality(Objects(d, s)) \in Nat
<1>1. Len(d) \in Nat /\ Objects(d, s) \subseteq 1..Len(d)
  BY DEF Objects
<1>2. IsFiniteSet(1..Len(d))
  BY <1>1, FS_Interval
<1>3. IsFiniteSet(Objects(d, s))
  BY Zenon, <1>1, <1>2, FS_Subset
<1> QED
  BY Zenon, <1>3, FS_CardinalityType

\* What the kernel adds to the queue of a dump: some objects, followed by NLMSG_DONE when
\* they are the last ones, or by an error.
LEMMA PartsShape ==
  ASSUME NEW k \in [seq : Nat, left : Nat], k.seq # 0, NEW p \in KernelParts(k)
  PROVE  /\ p.dg \in Seq(Message) /\ Len(p.dg) \in Nat \ {0}
         /\ \A j \in 1..Len(p.dg) :
              /\ Own(p.dg[j], k.seq) /\ p.dg[j].intr = p.intr
              /\ p.dg[j].type # "data" => j = Len(p.dg) /\ p.rest = NoDump
              /\ p.dg[j].type = "done" => Cardinality(Objects(p.dg, k.seq)) = k.left
         /\ \/ p.rest = NoDump
            \/ /\ p.rest \in [seq : Nat, left : Nat] /\ p.rest.seq = k.seq
               /\ Cardinality(Objects(p.dg, k.seq)) + p.rest.left = k.left
<1> DEFINE s == k.seq
           Final(d, n, f, t) ==
             /\ d \in Seq(Message) /\ Len(d) = n + 1
             /\ \A j \in 1..(n + 1) : /\ Own(d[j], s) /\ d[j].intr = f
                                      /\ d[j].type = IF j = n + 1 THEN t ELSE "data"
             /\ Cardinality(Objects(d, s)) = n
           Plain(d, n, f) ==
             /\ d \in Seq(Message) /\ Len(d) = n
             /\ \A j \in 1..n : Own(d[j], s) /\ d[j].intr = f /\ d[j].type = "data"
             /\ Cardinality(Objects(d, s)) = n
<1>0. k.seq \in Nat /\ k.left \in Nat
  BY Zenon
<1>1. ASSUME NEW n \in Nat, NEW f \in BOOLEAN
      PROVE  Plain(Objs(s, n, f), n, f)
  <2> DEFINE o == Objs(s, n, f)
             m == Msg("data", s, f)
  <2>1. m \in Message /\ Own(m, s) /\ m.intr = f /\ m.type = "data"
    BY Zenon, <1>0 DEF Msg, Message, Types, Own
  <2>2. o = [i \in 1..n |-> m]
    BY Zenon DEF Objs
  <2> HIDE DEF m, s
  <2>3. o \in Seq(Message) /\ Len(o) = n /\ \A j \in 1..n : o[j] = m
    BY <2>1, <2>2
  <2> HIDE DEF o
  <2>4. Objects(o, s) = 1..n
    BY Zenon, <2>1, <2>3 DEF Objects
  <2>5. Cardinality(1..n) = n
    BY FS_Interval
  <2> QED
    BY Zenon, <2>1, <2>3, <2>4, <2>5 DEF o
<1>2. ASSUME NEW n \in Nat, NEW f \in BOOLEAN, NEW t \in {"done", "doneerr"}, NEW d,
             d = Append(Objs(s, n, f), Msg(t, s, f))
      PROVE  Final(d, n, f, t)
  <2> DEFINE o == Objs(s, n, f)
             m == Msg(t, s, f)
  <2>1. m \in Message /\ Own(m, s) /\ m.intr = f /\ m.type = t
    BY Zenon, <1>0 DEF Msg, Message, Types, Own
  <2>2. /\ o \in Seq(Message) /\ Len(o) = n
        /\ \A j \in 1..n : Own(o[j], s) /\ o[j].intr = f /\ o[j].type = "data"
    <3>1. Plain(o, n, f)
      <4> HIDE DEF Plain
      <4> QED
        BY Zenon, <1>1
    <3> QED
      BY Zenon, <3>1
  <2>a. d = Append(o, m)
    BY Zenon, <1>2
  <2> HIDE DEF o, m, s
  <2>3. d \in Seq(Message) /\ Len(d) = n + 1 /\ d[n + 1] = m /\ \A j \in 1..n : d[j] = o[j]
    BY <2>1, <2>2, <2>a
  <2>4. \A j \in 1..(n + 1) : /\ Own(d[j], s) /\ d[j].intr = f
                              /\ d[j].type = IF j = n + 1 THEN t ELSE "data"
    BY <2>1, <2>2, <2>3
  <2>5. Objects(d, s) = 1..n
    BY <2>3, <2>4 DEF Objects
  <2>6. Cardinality(1..n) = n
    BY FS_Interval
  <2>7. Cardinality(Objects(d, s)) = n
    BY Zenon, <2>5, <2>6
  <2> QED
    BY Zenon, <2>3, <2>4, <2>7
<1>3. PICK n \in Nat, f \in BOOLEAN :
        \/ /\ n # 0 /\ n <= k.left
           /\ p = [dg |-> Objs(s, n, f), rest |-> [k EXCEPT !.left = @ - n], intr |-> f]
        \/ /\ n = k.left
           /\ p = [dg |-> Append(Objs(s, n, f), Msg("done", s, f)), rest |-> NoDump, intr |-> f]
        \/ p = [dg |-> Append(Objs(s, n, f), Msg("doneerr", s, f)), rest |-> NoDump, intr |-> f]
  BY DEF KernelParts
<1> HIDE DEF s
<1>4. CASE /\ n # 0 /\ n <= k.left
           /\ p = [dg |-> Objs(s, n, f), rest |-> [k EXCEPT !.left = @ - n], intr |-> f]
  <2>1. p.dg = Objs(s, n, f) /\ p.rest = [k EXCEPT !.left = k.left - n] /\ p.intr = f
    BY Zenon, <1>4
  <2>2. k.left - n \in Nat
    BY <1>0, <1>4
  <2>3. p.rest \in [seq : Nat, left : Nat] /\ p.rest.seq = s /\ p.rest.left = k.left - n
    BY Zenon, <2>1, <2>2 DEF s
  <2>7. Plain(p.dg, n, f)
    <3> HIDE DEF Plain
    <3> QED
      BY Zenon, <1>1, <2>1
  <2>4. Cardinality(Objects(p.dg, s)) = n
    BY Zenon, <2>7
  <2>5. n + (k.left - n) = k.left
    BY <1>0
  <2>6. /\ p.dg \in Seq(Message) /\ Len(p.dg) = n
        /\ \A j \in 1..n : Own(p.dg[j], s) /\ p.dg[j].intr = f /\ p.dg[j].type = "data"
    BY Zenon, <2>7
  <2> QED
    BY Zenon, <1>4, <2>1, <2>3, <2>4, <2>5, <2>6 DEF s
<1>5. ASSUME NEW t \in {"done", "doneerr"}, t = "done" => n = k.left,
             p = [dg |-> Append(Objs(s, n, f), Msg(t, s, f)), rest |-> NoDump, intr |-> f]
      PROVE  /\ p.dg \in Seq(Message) /\ Len(p.dg) \in Nat \ {0} /\ p.rest = NoDump
             /\ \A j \in 1..Len(p.dg) :
                  /\ Own(p.dg[j], s) /\ p.dg[j].intr = p.intr
                  /\ p.dg[j].type # "data" => j = Len(p.dg)
                  /\ p.dg[j].type = "done" => Cardinality(Objects(p.dg, s)) = k.left
  <2>1. p.dg = Append(Objs(s, n, f), Msg(t, s, f)) /\ p.rest = NoDump /\ p.intr = f
    BY Zenon, <1>5
  <2>2. Final(p.dg, n, f, t)
    <3> HIDE DEF Final
    <3> QED
      BY Zenon, <1>2, <2>1
  <2> QED
    BY <1>5, <2>1, <2>2
<1> QED
  BY Zenon, <1>3, <1>4, <1>5 DEF s

----------------------------------------------------------------------------
(* The queue of a dump across a receive, a part of the dump and a datagram *)
(* that has nothing to do with it.                                         *)

\* Taking the first datagram keeps the order of a dump, and its objects move to what
\* has been passed on.
LEMMA TailKeeps ==
  ASSUME NEW q \in Seq(Seq(Message)), q # <<>>, NEW k, NEW s, NEW g \in Nat, NEW t,
         Ordered(q, k, s), Counted(q, k, s, g, t)
  PROVE  /\ Ordered(Tail(q), k, s)
         /\ Counted(Tail(q), k, s, g + Cardinality(Objects(q[1], s)), t)
<1> DEFINE r == Tail(q)
<1>1. /\ Len(q) \in Nat \ {0} /\ Len(r) = Len(q) - 1
      /\ \A i \in 1..(Len(q) - 1) : r[i] = q[i + 1]
  BY Zenon, TailPoints
<1> HIDE DEF r
<1>2. Ordered(r, k, s)
  <2> SUFFICES ASSUME NEW i \in 1..Len(r), NEW j \in 1..Len(r[i]),
                      Own(r[i][j], s), r[i][j].type # "data"
               PROVE  /\ k.seq # s
                      /\ \A a \in i..Len(r) : \A b \in 1..Len(r[a]) :
                           Own(r[a][b], s) => a = i /\ b <= j
    BY Zenon DEF Ordered
  <2>1. i + 1 \in 1..Len(q) /\ r[i] = q[i + 1]
    BY <1>1
  <2>2. /\ k.seq # s
        /\ \A a \in (i + 1)..Len(q) : \A b \in 1..Len(q[a]) :
             Own(q[a][b], s) => a = i + 1 /\ b <= j
    BY SMTT(20), <2>1 DEF Ordered
  <2>3. ASSUME NEW a \in i..Len(r), NEW b \in 1..Len(r[a]), Own(r[a][b], s)
        PROVE  a = i /\ b <= j
    <3>1. a + 1 \in (i + 1)..Len(q) /\ r[a] = q[a + 1]
      BY <1>1
    <3>2. a + 1 = i + 1 /\ b <= j
      BY Zenon, <2>2, <2>3, <3>1
    <3> QED
      BY <3>2
  <2> QED
    BY Zenon, <2>2, <2>3
<1>3. Counted(r, k, s, g + Cardinality(Objects(q[1], s)), t)
  <2>1. PICK acc \in [0..Len(q) -> Nat] : CountedBy(acc, q, k, s, g, t)
    BY Zenon DEF Counted
  <2> DEFINE new == [i \in 0..Len(r) |-> acc[i + 1]]
  <2>2. \A i \in 0..Len(r) : i + 1 \in 0..Len(q) /\ acc[i + 1] \in Nat
    BY SMTT(20), <1>1
  <2>3. new \in [0..Len(r) -> Nat]
    BY Zenon, <2>2
  <2>4. new[0] = g + Cardinality(Objects(q[1], s))
    <3>1. 0 \in 0..Len(r) /\ 1 \in 1..Len(q) /\ 1 - 1 = 0 /\ 0 + 1 = 1
      BY <1>1
    <3>2. acc[1] = acc[1 - 1] + Cardinality(Objects(q[1], s)) /\ acc[0] = g
      BY Zenon, <2>1, <3>1 DEF CountedBy
    <3>3. new[0] = acc[0 + 1]
      BY Zenon, <3>1
    <3> QED
      BY Zenon, <3>1, <3>2, <3>3
  <2>5. ASSUME NEW i \in 1..Len(r) PROVE new[i] = new[i - 1] + Cardinality(Objects(r[i], s))
    <3>1. i + 1 \in 1..Len(q) /\ r[i] = q[i + 1] /\ i - 1 \in 0..Len(r) /\ i \in 0..Len(r)
      BY <1>1
    <3>2. acc[i + 1] = acc[(i + 1) - 1] + Cardinality(Objects(q[i + 1], s))
      BY Zenon, <2>1, <3>1 DEF CountedBy
    <3>3. new[i] = acc[i + 1] /\ new[i - 1] = acc[(i - 1) + 1]
      BY Zenon, <3>1
    <3>4. (i + 1) - 1 = (i - 1) + 1
      OBVIOUS
    <3> QED
      BY Zenon, <3>1, <3>2, <3>3, <3>4
  <2>6. k.seq = s => new[Len(r)] + k.left = t
    <3>1. Len(r) \in 0..Len(r) /\ Len(r) + 1 = Len(q)
      BY <1>1
    <3> QED
      BY Zenon, <2>1, <3>1 DEF CountedBy
  <2>7. ASSUME NEW i \in 1..Len(r), NEW j \in 1..Len(r[i]), Own(r[i][j], s), r[i][j].type = "done"
        PROVE  new[i] = t
    <3>1. i + 1 \in 1..Len(q) /\ r[i] = q[i + 1] /\ i \in 0..Len(r)
      BY <1>1
    <3>2. acc[i + 1] = t
      BY SMTT(20), <2>1, <2>7, <3>1 DEF CountedBy
    <3> QED
      BY Zenon, <3>1, <3>2
  <2> HIDE DEF new
  <2>8. CountedBy(new, r, k, s, g + Cardinality(Objects(q[1], s)), t)
    BY Zenon, <2>4, <2>5, <2>6, <2>7 DEF CountedBy
  <2> QED
    BY Zenon, <2>3, <2>8 DEF Counted
<1> QED
  BY Zenon, <1>2, <1>3 DEF r

\* Appending a datagram d whose messages of the dump are as the kernel makes them.
LEMMA AppendKeeps ==
  ASSUME NEW q \in Seq(Seq(Message)), NEW d \in Seq(Message), NEW k, NEW l, NEW s,
         NEW g \in Nat, NEW t,
         Ordered(q, k, s), Counted(q, k, s, g, t),
         \A j \in 1..Len(d) : Own(d[j], s) => k.seq = s,
         \A j \in 1..Len(d) : Own(d[j], s) /\ d[j].type # "data" => j = Len(d) /\ l.seq # s,
         l.seq = s => k.seq = s,
         l.seq = s => Cardinality(Objects(d, s)) + l.left = k.left /\ l.left \in Nat,
         k.seq = s => k.left \in Nat,
         \A j \in 1..Len(d) : Own(d[j], s) /\ d[j].type = "done" =>
                                Cardinality(Objects(d, s)) = k.left
  PROVE  /\ Ordered(Append(q, d), l, s)
         /\ Counted(Append(q, d), l, s, g, t)
         /\ Flagged(q, s) => Flagged(Append(q, d), s)
         /\ \A j \in 1..Len(d) : Own(d[j], s) /\ d[j].intr => Flagged(Append(q, d), s)
<1> DEFINE r == Append(q, d)
           n == Len(q)
           c == Cardinality(Objects(d, s))
<1>1. /\ n \in Nat /\ Len(r) = n + 1 /\ r[n + 1] = d
      /\ \A i \in 1..n : r[i] = q[i]
  BY Zenon, AppendPoints
<1>2. Len(d) \in Nat
  OBVIOUS
<1>3. c \in Nat
  BY Zenon, ObjectsFinite
<1> HIDE DEF r, n, c
<1>4. Ordered(r, l, s)
  <2> SUFFICES ASSUME NEW i \in 1..Len(r), NEW j \in 1..Len(r[i]),
                      Own(r[i][j], s), r[i][j].type # "data"
               PROVE  /\ l.seq # s
                      /\ \A a \in i..Len(r) : \A b \in 1..Len(r[a]) :
                           Own(r[a][b], s) => a = i /\ b <= j
    BY Zenon DEF Ordered
  <2>1. CASE i \in 1..n
    <3>1. /\ k.seq # s
          /\ \A a \in i..n : \A b \in 1..Len(q[a]) : Own(q[a][b], s) => a = i /\ b <= j
      BY Zenon, <1>1, <2>1 DEF Ordered, n
    <3>2. ASSUME NEW a \in i..Len(r), NEW b \in 1..Len(r[a]), Own(r[a][b], s)
          PROVE  a = i /\ b <= j
      <4>1. a # n + 1
        BY Zenon, <1>1, <3>1, <3>2
      <4>2. a \in i..n
        <5>1. n \in Nat /\ Len(r) = n + 1
          BY Zenon, <1>1
        <5> QED
          BY SMTT(20), <2>1, <3>2, <4>1, <5>1
      <4>3. r[a] = q[a]
        <5>1. n \in Nat /\ a \in 1..n
          BY <1>1, <2>1, <4>2
        <5> QED
          BY Zenon, <1>1, <5>1
      <4> QED
        BY Zenon, <3>1, <3>2, <4>2, <4>3
    <3> QED
      BY Zenon, <3>1, <3>2
  <2>2. CASE i = n + 1
    <3>1. j = Len(d) /\ l.seq # s
      BY Zenon, <1>1, <2>2
    <3>2. ASSUME NEW a \in i..Len(r), NEW b \in 1..Len(r[a])
          PROVE  a = i /\ b <= j
      BY <1>1, <1>2, <2>2, <3>1
    <3> QED
      BY Zenon, <3>1, <3>2
  <2> QED
    BY <1>1, <2>1, <2>2
<1>5. Counted(r, l, s, g, t)
  <2>1. PICK acc \in [0..n -> Nat] : CountedBy(acc, q, k, s, g, t)
    BY Zenon DEF Counted, n
  <2> DEFINE new == [i \in 0..Len(r) |-> IF i = n + 1 THEN acc[n] + c ELSE acc[i]]
  <2>2. acc[n] \in Nat /\ acc[n] + c \in Nat /\ \A i \in 0..Len(r) : i # n + 1 => acc[i] \in Nat
    <3>1. n \in 0..n /\ \A i \in 0..Len(r) : i # n + 1 => i \in 0..n
      BY <1>1
    <3>2. \A i \in 0..n : acc[i] \in Nat
      BY <2>1
    <3>3. acc[n] \in Nat
      BY Zenon, <3>1, <3>2
    <3>4. acc[n] + c \in Nat
      BY <1>3, <3>3
    <3> QED
      BY Zenon, <3>1, <3>2, <3>3, <3>4
  <2>3. new \in [0..Len(r) -> Nat]
    BY Zenon, <2>2
  <2>4. new[n + 1] = acc[n] + c /\ \A i \in 0..n : new[i] = acc[i]
    BY <1>1
  <2> HIDE DEF new
  <2>5. new[0] = g
    BY <1>1, <2>1, <2>4 DEF CountedBy
  <2>6. ASSUME NEW i \in 1..Len(r) PROVE new[i] = new[i - 1] + Cardinality(Objects(r[i], s))
    <3>1. CASE i = n + 1
      <4>1. r[i] = d /\ i - 1 = n /\ n \in 0..n
        BY <1>1, <3>1
      <4> QED
        BY Zenon, <2>4, <3>1, <4>1 DEF c
    <3>2. CASE i # n + 1
      <4>1. i \in 1..n /\ i \in 0..n /\ i - 1 \in 0..n /\ r[i] = q[i]
        BY <1>1, <3>2
      <4>2. acc[i] = acc[i - 1] + Cardinality(Objects(q[i], s))
        BY Zenon, <2>1, <4>1 DEF CountedBy, n
      <4> QED
        BY Zenon, <2>4, <4>1, <4>2
    <3> QED
      BY Zenon, <3>1, <3>2
  <2>7. k.seq = s => acc[n] + k.left = t
    BY Zenon, <2>1 DEF CountedBy, n
  <2>8. ASSUME l.seq = s PROVE new[Len(r)] + l.left = t
    <3>1. c + l.left = k.left /\ l.left \in Nat /\ acc[n] + k.left = t
      BY Zenon, <2>7, <2>8 DEF c
    <3>2. (acc[n] + c) + l.left = acc[n] + (c + l.left)
      BY <1>3, <2>2, <3>1
    <3> QED
      BY Zenon, <1>1, <2>4, <3>1, <3>2
  <2>9. ASSUME NEW i \in 1..Len(r), NEW j \in 1..Len(r[i]), Own(r[i][j], s), r[i][j].type = "done"
        PROVE  new[i] = t
    <3>1. CASE i = n + 1
      <4>1. k.seq = s /\ c = k.left
        BY Zenon, <1>1, <2>9, <3>1 DEF c
      <4> QED
        BY Zenon, <2>4, <2>7, <3>1, <4>1
    <3>2. CASE i # n + 1
      <4>1. i \in 1..n /\ i \in 0..n /\ r[i] = q[i]
        BY SMTT(20), <1>1, <3>2
      <4>2. acc[i] = t
        BY Zenon, <2>1, <2>9, <4>1 DEF CountedBy, n
      <4> QED
        BY Zenon, <2>4, <4>1, <4>2
    <3> QED
      BY Zenon, <3>1, <3>2
  <2>10. CountedBy(new, r, l, s, g, t)
    BY Zenon, <2>5, <2>6, <2>8, <2>9 DEF CountedBy
  <2> QED
    BY Zenon, <2>3, <2>10 DEF Counted
<1>6. Flagged(q, s) => Flagged(r, s)
  BY SMTT(20), <1>1 DEF Flagged, n
<1>7. ASSUME NEW j \in 1..Len(d), Own(d[j], s), d[j].intr PROVE Flagged(r, s)
  <2>1. n + 1 \in 1..Len(r)
    BY <1>1
  <2> QED
    BY Zenon, <1>1, <1>7, <2>1 DEF Flagged
<1> QED
  BY Zenon, <1>4, <1>5, <1>6, <1>7 DEF r

\* The kernel continues a dump, the one that is read or another one.
LEMMA PartKeeps ==
  ASSUME NEW q \in Seq(Seq(Message)), NEW k \in [seq : Nat, left : Nat], k.seq # 0,
         NEW p \in KernelParts(k), NEW s \in Nat \ {0}, NEW g \in Nat, NEW t,
         Ordered(q, k, s), Counted(q, k, s, g, t)
  PROVE  /\ Ordered(Append(q, p.dg), p.rest, s)
         /\ Counted(Append(q, p.dg), p.rest, s, g, t)
         /\ Flagged(q, s) => Flagged(Append(q, p.dg), s)
         /\ p.intr /\ k.seq = s => Flagged(Append(q, p.dg), s)
<1> DEFINE d == p.dg
           l == p.rest
           c == Cardinality(Objects(d, s))
<1>1. /\ d \in Seq(Message) /\ Len(d) \in Nat \ {0}
      /\ \A j \in 1..Len(d) :
           /\ Own(d[j], k.seq) /\ d[j].intr = p.intr
           /\ d[j].type # "data" => j = Len(d) /\ l = NoDump
           /\ d[j].type = "done" => Cardinality(Objects(d, k.seq)) = k.left
      /\ \/ l = NoDump
         \/ /\ l \in [seq : Nat, left : Nat] /\ l.seq = k.seq
            /\ Cardinality(Objects(d, k.seq)) + l.left = k.left
  BY Zenon, PartsShape
<1>2. NoDump.seq # s
  BY Zenon DEF NoDump
<1> HIDE DEF d, l
<1>3. \A j \in 1..Len(d) : Own(d[j], s) => k.seq = s
  BY Zenon, <1>1 DEF Own
<1>4. \A j \in 1..Len(d) : Own(d[j], s) /\ d[j].type # "data" => j = Len(d) /\ l.seq # s
  BY Zenon, <1>1, <1>2
<1>5. /\ l.seq = s => k.seq = s
      /\ l.seq = s => Cardinality(Objects(d, s)) + l.left = k.left /\ l.left \in Nat
      /\ k.seq = s => k.left \in Nat
  BY Zenon, <1>1, <1>2
<1>6. \A j \in 1..Len(d) : Own(d[j], s) /\ d[j].type = "done" =>
                             Cardinality(Objects(d, s)) = k.left
  BY Zenon, <1>1, <1>3
<1>7. /\ Ordered(Append(q, d), l, s)
      /\ Counted(Append(q, d), l, s, g, t)
      /\ Flagged(q, s) => Flagged(Append(q, d), s)
      /\ \A j \in 1..Len(d) : Own(d[j], s) /\ d[j].intr => Flagged(Append(q, d), s)
  BY Zenon, <1>1, <1>3, <1>4, <1>5, <1>6, AppendKeeps
<1>8. p.intr /\ k.seq = s => Flagged(Append(q, d), s)
  <2>1. 1 \in 1..Len(d)
    BY <1>1
  <2> QED
    BY Zenon, <1>1, <1>7, <2>1
<1> QED
  BY Zenon, <1>7, <1>8 DEF d, l

\* recvmsg during a dump.
LEMMA PopDump ==
  ASSUME TypeOK, HandleInv, DumpInv, pc = "dump", Pop
  PROVE  /\ rcvq # <<>> /\ kintr'.seq = kintr.seq /\ kintr'.total = kintr.total
         /\ Ordered(rcvq', kdump', seq)
         /\ Counted(rcvq', kdump', seq, got + Cardinality(Objects(rcvq[1], seq)), kintr.total)
         /\ Flagged(Tail(rcvq), seq) => Flagged(rcvq', seq)
         /\ kintr'.flag => kintr.flag \/ Flagged(rcvq', seq)
         /\ kdump.seq # seq => kintr'.flag = kintr.flag
<1> DEFINE g == got + Cardinality(Objects(rcvq[1], seq))
<1>1. /\ rcvq \in Seq(Seq(Message)) /\ rcvq # <<>> /\ got \in Nat /\ seq \in Nat \ {0}
      /\ kintr \in [seq : 0..seq, total : Nat, flag : BOOLEAN] /\ kintr.seq = seq
  BY Zenon, SeqType DEF TypeOK, Pop, DumpInv
<1>2. /\ Tail(rcvq) \in Seq(Seq(Message)) /\ rcvq[1] \in Seq(Message)
  BY Zenon, <1>1, TailPoints
<1>3. g \in Nat
  BY <1>1, <1>2, ObjectsFinite
<1>4. Ordered(Tail(rcvq), kdump, seq) /\ Counted(Tail(rcvq), kdump, seq, g, kintr.total)
  BY Zenon, <1>1, TailKeeps DEF DumpInv
<1> HIDE DEF g
<1>5. CASE kdump = NoDump /\ rcvq' = Tail(rcvq) /\ UNCHANGED <<kdump, kintr>>
  BY Zenon, <1>1, <1>4, <1>5 DEF g
<1>6. CASE kdump # NoDump /\ \E p \in KernelParts(kdump) :
             /\ rcvq' = Append(Tail(rcvq), p.dg)
             /\ kdump' = p.rest
             /\ kintr' = [kintr EXCEPT !.flag = @ \/ (p.intr /\ kdump.seq = kintr.seq)]
  <2>1. PICK p \in KernelParts(kdump) :
             /\ rcvq' = Append(Tail(rcvq), p.dg)
             /\ kdump' = p.rest
             /\ kintr' = [kintr EXCEPT !.flag = @ \/ (p.intr /\ kdump.seq = kintr.seq)]
    BY Zenon, <1>6
  <2>2. kdump \in [seq : Nat, left : Nat] /\ kdump.seq # 0
    BY <1>6 DEF TypeOK, HandleInv
  <2>3. /\ Ordered(rcvq', kdump', seq)
        /\ Counted(rcvq', kdump', seq, g, kintr.total)
        /\ Flagged(Tail(rcvq), seq) => Flagged(rcvq', seq)
        /\ p.intr /\ kdump.seq = seq => Flagged(rcvq', seq)
    BY Zenon, <1>1, <1>2, <1>3, <1>4, <2>1, <2>2, PartKeeps
  <2>4. /\ kintr'.seq = kintr.seq /\ kintr'.total = kintr.total
        /\ kintr'.flag = (kintr.flag \/ (p.intr /\ kdump.seq = seq))
    BY Zenon, <1>1, <2>1
  <2>5. kintr.flag \in BOOLEAN
    BY Zenon, <1>1
  <2> QED
    BY Zenon, <1>1, <2>3, <2>4, <2>5 DEF g
<1> QED
  BY Zenon, <1>5, <1>6 DEF Pop

----------------------------------------------------------------------------
(* Dumps.                                                                  *)

\* What a dump that is just requested finds in the queue is not its own.
LEMMA NothingYet ==
  ASSUME TypeOK, HandleInv, NEW t \in Nat,
         NEW k, k.seq # seq + 1 \/ k = [seq |-> seq + 1, left |-> t]
  PROVE  Ordered(rcvq, k, seq + 1) /\ Counted(rcvq, k, seq + 1, 0, t)
<1>1. seq \in Nat /\ rcvq \in Seq(Seq(Honest(seq, outcome))) /\ Len(rcvq) \in Nat
  BY SeqType DEF HandleInv
<1>2. \A i \in 1..Len(rcvq) : \A j \in 1..Len(rcvq[i]) : ~Own(rcvq[i][j], seq + 1)
  <2> SUFFICES ASSUME NEW i \in 1..Len(rcvq), NEW j \in 1..Len(rcvq[i])
               PROVE  ~Own(rcvq[i][j], seq + 1)
    BY Zenon
  <2>1. rcvq[i] \in Seq(Honest(seq, outcome))
    BY <1>1
  <2>2. rcvq[i][j] \in Honest(seq, outcome)
    BY <2>1
  <2> QED
    BY <1>1, <2>2 DEF Honest, Own
<1>3. Ordered(rcvq, k, seq + 1)
  BY Zenon, <1>2 DEF Ordered
<1> DEFINE acc == [i \in 0..Len(rcvq) |-> 0]
<1>4. acc \in [0..Len(rcvq) -> Nat]
  BY Zenon
<1>5. \A i \in 1..Len(rcvq) : Cardinality(Objects(rcvq[i], seq + 1)) = 0
  <2>1. \A i \in 1..Len(rcvq) : Objects(rcvq[i], seq + 1) = {}
    BY Zenon, <1>2 DEF Objects
  <2> QED
    BY Zenon, <2>1, FS_EmptySet
<1>6. CountedBy(acc, rcvq, k, seq + 1, 0, t)
  <2>1. acc[0] = 0 /\ acc[Len(rcvq)] = 0
    BY <1>1
  <2>2. \A i \in 1..Len(rcvq) : acc[i] = acc[i - 1] + Cardinality(Objects(rcvq[i], seq + 1))
    <3> SUFFICES ASSUME NEW i \in 1..Len(rcvq)
                 PROVE  acc[i] = acc[i - 1] + Cardinality(Objects(rcvq[i], seq + 1))
      BY Zenon
    <3>1. i \in 0..Len(rcvq) /\ i - 1 \in 0..Len(rcvq)
      BY <1>1
    <3>2. acc[i] = 0 /\ acc[i - 1] = 0
      BY Zenon, <3>1
    <3> HIDE DEF acc
    <3> QED
      BY <1>5, <3>2
  <2>3. k.seq = seq + 1 => k.left = t
    OBVIOUS
  <2> HIDE DEF acc
  <2> QED
    BY <1>2, <2>1, <2>2, <2>3 DEF CountedBy
<1> HIDE DEF acc
<1> QED
  BY Zenon, <1>3, <1>4, <1>6 DEF Counted

\* A datagram of another process changes nothing for the dump.
LEMMA PeerKeeps ==
  ASSUME TypeOK, PeerSend, NEW s, NEW g \in Nat, NEW t,
         Ordered(rcvq, kdump, s), Counted(rcvq, kdump, s, g, t)
  PROVE  /\ Ordered(rcvq', kdump, s) /\ Counted(rcvq', kdump, s, g, t)
         /\ Flagged(rcvq, s) => Flagged(rcvq', s)
<1>1. PICK y \in {"ack", "err", "data"}, z \in 1..MaxSeq :
          rcvq' = Append(rcvq, <<[type |-> y, seq |-> z, own |-> FALSE, intr |-> FALSE]>>)
  BY Zenon DEF PeerSend
<1> DEFINE m == [type |-> y, seq |-> z, own |-> FALSE, intr |-> FALSE]
           d == <<m>>
<1>2. m \in Message /\ ~m.own
  <2>1. y \in Types /\ z \in Nat
    BY RtnlAssumption DEF Types
  <2> QED
    BY Zenon, <2>1 DEF Message
<1> HIDE DEF m
<1>3. d \in Seq(Message) /\ Len(d) = 1 /\ \A j \in 1..Len(d) : d[j] = m
  BY <1>2
<1>4. rcvq' = Append(rcvq, d)
  BY Zenon, <1>1 DEF m
<1> HIDE DEF d
<1>5. \A j \in 1..Len(d) : ~Own(d[j], s)
  BY Zenon, <1>2, <1>3 DEF Own
<1>6. Objects(d, s) = {}
  BY Zenon, <1>5 DEF Objects
<1>7. Cardinality(Objects(d, s)) = 0
  BY Zenon, <1>6, FS_EmptySet
<1>8. kdump.left \in Nat /\ rcvq \in Seq(Seq(Message))
  BY Zenon DEF TypeOK
<1>9. 0 + kdump.left = kdump.left
  BY <1>8
<1> QED
  BY Zenon, <1>3, <1>4, <1>5, <1>7, <1>8, <1>9, AppendKeeps

\* In a datagram that does not end the dump, everything of the dump is an object.
LEMMA AllObjects ==
  ASSUME NEW d \in Seq(Message), NEW n \in 0..Len(d), pc = "dump", dump = seq,
         \A j \in 1..n : ~Ends(d, 0, j),
         \A j \in (n + 1)..Len(d) : Own(d[j], seq) => d[j].type # "data"
  PROVE  MineUpTo(d, n) = Objects(d, seq)
<1>0. \A j \in 1..Len(d) : d[j] \in Message
  OBVIOUS
<1>1. \A j \in 1..Len(d) : d[j].type \in Types
  BY Zenon, <1>0 DEF Message
<1>2. ASSUME NEW j \in 1..n, Own(d[j], seq) PROVE d[j].type = "data"
  <2>1. ~(d[j].type \in {"done", "doneerr", "err", "ack"}) /\ j \in 1..Len(d)
    BY <1>2 DEF Ends, Mine, Own
  <2> QED
    BY Zenon, <1>1, <2>1 DEF Types
<1>3. Len(d) \in Nat
  OBVIOUS
<1> QED
  BY <1>2, <1>3 DEF MineUpTo, Objects, Mine, Own

\* The invariant of a running dump holds.
LEMMA DumpInvStep == IInv /\ DumpInv /\ [Next]_vars => DumpInv'
<1> SUFFICES ASSUME IInv, DumpInv, [Next]_vars PROVE DumpInv'
  BY Zenon
<1> USE DEF IInv
<1>1. ASSUME NEW nc \in BOOLEAN, NEW supp \in BOOLEAN, rtnl_dump_request(nc, supp)
      PROVE  DumpInv'
  <2> DEFINE s == seq + 1
  <2>1. seq' = s /\ dump' = s /\ seq \in Nat /\ pc = "idle" /\ got = 0
    BY Zenon, <1>1, SeqType DEF rtnl_dump_request, DumpNumber, DumpInv
  <2>2. rcvq \in Seq(Seq(Message)) /\ kdump.seq \in 0..seq
    BY Zenon DEF TypeOK
  <2>3. ASSUME pc' = "dump", got' = 0, kintr'.seq = s,
               Ordered(rcvq', kdump', s),
               Counted(rcvq', kdump', s, 0, kintr'.total),
               kintr'.flag => Flagged(rcvq', s)
        PROVE  DumpInv'
    BY <2>1, <2>3 DEF DumpInv
  <2> HIDE DEF s
  <2>4. CASE Return(Call("dump", FALSE, nc, supp, Clean, seq + 1), seq + 1, "fail", 0, FALSE)
    BY Zenon, <2>4 DEF Return, DumpInv
  <2>5. CASE /\ pc' = "dump" /\ UNCHANGED got
             /\ rcvq' = rcvq \o KernelRefuses(seq + 1)
             /\ kintr' = [seq |-> seq + 1, total |-> 0, flag |-> FALSE]
             /\ UNCHANGED kdump
    <3> DEFINE k == [seq |-> seq + 1, left |-> 0]
               m == Msg("err", seq + 1, FALSE)
               d == <<m>>
    <3>1. Ordered(rcvq, k, s) /\ Counted(rcvq, k, s, 0, 0)
      BY Zenon, NothingYet DEF s
    <3>2. m \in Message /\ m.own /\ m.seq = s /\ m.type = "err"
      BY <2>1 DEF Msg, Message, Types, s
    <3>3. k.seq = s /\ k.left = 0
      BY Zenon DEF s
    <3> HIDE DEF m, k
    <3>4. d \in Seq(Message) /\ Len(d) = 1 /\ \A j \in 1..Len(d) : d[j] = m
      BY <3>2
    <3>5. rcvq' = Append(rcvq, d)
      <4>1. rcvq' = rcvq \o <<d>>
        BY Zenon, <2>5 DEF KernelRefuses, d, m
      <4> HIDE DEF d
      <4> QED
        BY Zenon, <2>2, <3>4, <4>1, ConcatOne
    <3> HIDE DEF d
    <3>6. kdump.seq # s
      BY <2>1, <2>2 DEF s
    <3>7. \A j \in 1..Len(d) : Own(d[j], s) /\ d[j].type = "err" /\ j = Len(d)
      BY SMTT(20), <3>2, <3>4 DEF Own
    <3>8. Ordered(rcvq', kdump, s) /\ Counted(rcvq', kdump, s, 0, 0)
      <4>1. /\ \A j \in 1..Len(d) : Own(d[j], s) => k.seq = s
            /\ \A j \in 1..Len(d) : Own(d[j], s) /\ d[j].type # "data" => j = Len(d) /\ kdump.seq # s
            /\ kdump.seq = s => k.seq = s
            /\ kdump.seq = s => Cardinality(Objects(d, s)) + kdump.left = k.left /\ kdump.left \in Nat
            /\ k.seq = s => k.left \in Nat
            /\ \A j \in 1..Len(d) : Own(d[j], s) /\ d[j].type = "done" =>
                                      Cardinality(Objects(d, s)) = k.left
        BY <3>3, <3>6, <3>7
      <4> QED
        BY Zenon, <2>2, <3>1, <3>4, <3>5, <4>1, AppendKeeps
    <3>9. kintr'.seq = s /\ kintr'.total = 0 /\ ~kintr'.flag
      BY Zenon, <2>5 DEF s
    <3> QED
      BY Zenon, <2>1, <2>3, <2>5, <3>8, <3>9
  <2>6. CASE /\ pc' = "dump" /\ UNCHANGED got
             /\ \E n \in 0..MaxObjs :
                  \E p \in KernelParts([seq |-> seq + 1, left |-> n]) :
                    /\ rcvq' = Append(rcvq, p.dg)
                    /\ kdump' = p.rest
                    /\ kintr' = [seq |-> seq + 1, total |-> n, flag |-> p.intr]
    <3>1. PICK n \in 0..MaxObjs :
            \E p \in KernelParts([seq |-> seq + 1, left |-> n]) :
              /\ rcvq' = Append(rcvq, p.dg)
              /\ kdump' = p.rest
              /\ kintr' = [seq |-> seq + 1, total |-> n, flag |-> p.intr]
      BY Zenon, <2>6
    <3> DEFINE k == [seq |-> seq + 1, left |-> n]
    <3>2. PICK p \in KernelParts(k) :
              /\ rcvq' = Append(rcvq, p.dg)
              /\ kdump' = p.rest
              /\ kintr' = [seq |-> seq + 1, total |-> n, flag |-> p.intr]
      BY Zenon, <3>1
    <3>3. n \in Nat
      BY RtnlAssumption
    <3>4. Ordered(rcvq, k, s) /\ Counted(rcvq, k, s, 0, n)
      BY Zenon, <3>3, NothingYet DEF s
    <3>5. k \in [seq : Nat, left : Nat] /\ k.seq = s /\ s \in Nat \ {0}
      BY <2>1, <3>3 DEF s
    <3> HIDE DEF k
    <3>6. /\ Ordered(rcvq', kdump', s) /\ Counted(rcvq', kdump', s, 0, n)
          /\ p.intr => Flagged(rcvq', s)
      BY Zenon, <2>2, <3>2, <3>4, <3>5, PartKeeps
    <3>7. kintr'.seq = s /\ kintr'.total = n /\ kintr'.flag = p.intr
      BY Zenon, <3>2 DEF s
    <3> QED
      BY Zenon, <2>1, <2>3, <2>6, <3>6, <3>7
  <2> QED
    BY Zenon, <1>1, <2>4, <2>5, <2>6 DEF rtnl_dump_request
<1>2. CASE DumpNext
  <2>1. pc = "dump" /\ Pop /\ UNCHANGED <<seq, dump, pc, call>>
    BY Zenon, <1>2 DEF DumpNext
  <2>2. /\ rcvq # <<>> /\ kintr'.seq = kintr.seq /\ kintr'.total = kintr.total
        /\ Ordered(rcvq', kdump', seq)
        /\ Counted(rcvq', kdump', seq, got + Cardinality(Objects(rcvq[1], seq)), kintr.total)
        /\ Flagged(Tail(rcvq), seq) => Flagged(rcvq', seq)
        /\ kintr'.flag => kintr.flag \/ Flagged(rcvq', seq)
    BY Zenon, <2>1, PopDump
  <2> DEFINE d == Head(rcvq)
  <2>3. d = rcvq[1] /\ d \in Seq(Message) /\ rcvq \in Seq(Seq(Message))
    BY <2>2, TailPoints DEF TypeOK
  <2> HIDE DEF d
  <2>4. MineUpTo(d, Len(d)) = Objects(d, seq)
    <3>1. Len(d) \in 0..Len(d) /\ (Len(d) + 1)..Len(d) = {} /\ DOMAIN d = 1..Len(d)
      BY <2>3
    <3>2. \A j \in DOMAIN d : ~Ends(d, 0, j)
      BY Zenon, <1>2 DEF DumpNext, d
    <3> QED
      BY Zenon, <2>1, <2>3, <3>1, <3>2, AllObjects DEF DumpInv
  <2>5. got' = got + Cardinality(Objects(rcvq[1], seq)) /\ intr' = Interrupted(d, Len(d))
    BY Zenon, <1>2, <2>3, <2>4 DEF DumpNext, d
  <2>6. ASSUME kintr'.flag, ~call.nc PROVE intr' \/ Flagged(rcvq', seq)
    <3>1. CASE Flagged(rcvq', seq)
      BY Zenon, <3>1
    <3>2. CASE kintr.flag /\ intr
      BY Zenon, <2>5, <3>2 DEF Interrupted
    <3>3. CASE kintr.flag /\ Flagged(rcvq, seq)
      <4>0. PICK i \in 1..Len(rcvq) :
              \E j \in 1..Len(rcvq[i]) : Own(rcvq[i][j], seq) /\ rcvq[i][j].intr
        BY Zenon, <3>3 DEF Flagged
      <4>1. PICK j \in 1..Len(rcvq[i]) : Own(rcvq[i][j], seq) /\ rcvq[i][j].intr
        BY Zenon, <4>0
      <4>2. CASE i = 1
        <5>1. j \in MineUpTo(d, Len(d)) /\ d[j].intr
          BY Zenon, <2>1, <2>3, <4>1, <4>2 DEF MineUpTo, Mine, Own, DumpInv
        <5> QED
          BY Zenon, <2>5, <2>6, <5>1 DEF Interrupted
      <4>3. CASE i # 1
        <5>1. i - 1 \in 1..Len(Tail(rcvq)) /\ Tail(rcvq)[i - 1] = rcvq[i]
          BY <2>2, <2>3, <4>3, TailPoints
        <5>2. Flagged(Tail(rcvq), seq)
          BY <4>1, <5>1 DEF Flagged
        <5> QED
          BY Zenon, <2>2, <5>2
      <4> QED
        BY Zenon, <4>2, <4>3
    <3> QED
      BY Zenon, <2>1, <2>2, <2>6, <3>1, <3>2, <3>3 DEF DumpInv
  <2> QED
    BY Zenon, <2>1, <2>2, <2>5, <2>6 DEF DumpInv
<1>3. CASE PeerSend
  <2>1. UNCHANGED <<seq, dump, pc, call, got, intr, kdump, kintr>> /\ got \in Nat
    BY Zenon, <1>3 DEF PeerSend, TypeOK
  <2>2. pc = "dump" =>
          /\ Ordered(rcvq', kdump, seq) /\ Counted(rcvq', kdump, seq, got, kintr.total)
          /\ Flagged(rcvq, seq) => Flagged(rcvq', seq)
    BY Zenon, <1>3, <2>1, PeerKeeps DEF DumpInv
  <2> QED
    BY Zenon, <2>1, <2>2 DEF DumpInv
<1>4. CASE UNCHANGED vars
  BY Zenon, <1>4 DEF vars, handleVars, DumpInv
<1>5. CASE \/ rtnl_open \/ rtnl_close \/ rtnl_talk \/ rtnl_echo_talk \/ SendCheckSend
           \/ TalkReturn \/ TalkNext \/ DumpReturn \/ SendCheckPeek \/ RecvFails
  <2>1. pc' # "dump" /\ (got' = 0 \/ (got' = got /\ pc # "dump"))
    BY Zenon, <1>5 DEF rtnl_open, rtnl_close, rtnl_talk, rtnl_echo_talk, TalkSend, SendCheckSend,
                TalkReturn, TalkNext, DumpReturn, SendCheckPeek, RecvFails, Return
  <2> QED
    BY Zenon, <2>1 DEF DumpInv
<1> QED
  BY Zenon, <1>1, <1>2, <1>3, <1>4, <1>5 DEF Next, HandleNext, Receive

\* What rtnl_dump_filter returns when it reads the end of its dump.
LEMMA DumpReturnRight ==
  ASSUME IInv, DumpInv, DumpReturn
  PROVE  DumpComplete' /\ DumpIntrReported'
<1> USE DEF IInv
<1> DEFINE d == Head(rcvq)
<1>1. pc = "dump" /\ Pop
  BY DEF DumpReturn
<1>2. /\ rcvq # <<>> /\ kintr'.total = kintr.total
      /\ kdump.seq # seq => kintr'.flag = kintr.flag
  BY Zenon, <1>1, PopDump
<1>3. /\ rcvq \in Seq(Seq(Message)) /\ d = rcvq[1] /\ d \in Seq(Message) /\ 1 \in 1..Len(rcvq)
      /\ Len(d) \in Nat /\ DOMAIN d = 1..Len(d)
  <2>1. rcvq \in Seq(Seq(Message))
    BY Zenon DEF TypeOK
  <2> QED
    BY <1>2, <2>1, TailPoints
<1>4. /\ dump = seq /\ Ordered(rcvq, kdump, seq)
      /\ kintr.flag /\ ~call.nc => intr \/ Flagged(rcvq, seq)
      /\ Counted(rcvq, kdump, seq, got, kintr.total)
  BY Zenon, <1>1 DEF DumpInv
<1>5. PICK j \in DOMAIN d, f \in Nat :
        /\ Ends(d, f, j)
        /\ \A i \in 1..(j - 1) : ~Ends(d, f, i)
        /\ LET ok == d[j].type = "done" \/ (d[j].type = "doneerr" /\ call.supp) IN
           Return(call, seq, IF ok THEN "ok" ELSE "fail",
                  got + Cardinality(MineUpTo(d, j - 1)), ok /\ Interrupted(d, j))
  <2>1. 0..(IF set.faults THEN Len(d) ELSE 0) \subseteq Nat
    OBVIOUS
  <2> QED
    BY Zenon, <2>1 DEF DumpReturn
<1> HIDE DEF d
<1> DEFINE ok == d[j].type = "done" \/ (d[j].type = "doneerr" /\ call.supp)
<1>6. /\ last'.call = call /\ last'.code = (IF ok THEN "ok" ELSE "fail")
      /\ last'.got = got + Cardinality(MineUpTo(d, j - 1)) /\ last'.total = kintr.total
      /\ last'.kintr = kintr'.flag /\ last'.warned = (ok /\ Interrupted(d, j))
  BY Zenon, <1>2, <1>5 DEF Return
<1>7. j \in 1..Len(d) /\ Own(d[j], seq)
  <2>1. j \in 1..Len(d)
    BY Zenon, <1>3, <1>5
  <2>2. Mine(d[j])
    BY Zenon, <1>5 DEF Ends
  <2> QED
    BY Zenon, <1>4, <2>1, <2>2 DEF Mine, Own
<1> HIDE DEF ok
<1>8. ASSUME ok
      PROVE  /\ kdump.seq # seq
             /\ \A a \in 1..Len(rcvq) : \A b \in 1..Len(rcvq[a]) :
                  Own(rcvq[a][b], seq) => a = 1 /\ b <= j
  <2>1. d[j].type # "data"
    BY SMTT(20), <1>8 DEF ok
  <2> QED
    BY <1>3, <1>4, <1>7, <2>1 DEF Ordered
<1>9. DumpComplete'
  <2> SUFFICES ASSUME ok, ~call.supp PROVE last'.got = last'.total
    BY Zenon, <1>6 DEF DumpComplete
  <2>1. d[j].type = "done"
    BY Zenon DEF ok
  <2>2. MineUpTo(d, j - 1) = Objects(d, seq)
    <3>1. j - 1 \in 0..Len(d) /\ (j - 1) + 1 = j
      BY SMTT(20), <1>3, <1>7
    <3>2. \A i \in 1..(j - 1) : ~Ends(d, 0, i)
      BY <1>5 DEF Ends
    <3>3. \A i \in j..Len(d) : Own(d[i], seq) => d[i].type # "data"
      <4> SUFFICES ASSUME NEW i \in j..Len(d), Own(d[i], seq) PROVE d[i].type # "data"
        BY Zenon
      <4>1. i \in 1..Len(d)
        BY <1>3, <1>7
      <4>2. i <= j
        BY Zenon, <1>3, <1>8, <4>1
      <4>3. i = j
        BY <1>3, <1>7, <4>2
      <4> QED
        BY Zenon, <2>1, <4>3
    <3> QED
      BY Zenon, <1>1, <1>3, <1>4, <3>1, <3>2, <3>3, AllObjects
  <2>3. PICK acc \in [0..Len(rcvq) -> Nat] : CountedBy(acc, rcvq, kdump, seq, got, kintr.total)
    BY Zenon, <1>4 DEF Counted
  <2>4. acc[1] = acc[1 - 1] + Cardinality(Objects(d, seq)) /\ acc[0] = got
    BY Zenon, <1>3, <2>3 DEF CountedBy
  <2>5. acc[1] = kintr.total
    BY Zenon, <1>3, <1>7, <2>1, <2>3 DEF CountedBy
  <2> QED
    BY <1>6, <2>2, <2>4, <2>5
<1>10. DumpIntrReported'
  <2> SUFFICES ASSUME ok, ~call.nc, kintr'.flag PROVE Interrupted(d, j)
    BY Zenon, <1>6 DEF DumpIntrReported
  <2>1. intr \/ Flagged(rcvq, seq)
    BY Zenon, <1>2, <1>4, <1>8
  <2>2. CASE intr
    BY Zenon, <2>2 DEF Interrupted
  <2>3. CASE Flagged(rcvq, seq)
    <3>1. PICK a \in 1..Len(rcvq) :
            \E b \in 1..Len(rcvq[a]) : Own(rcvq[a][b], seq) /\ rcvq[a][b].intr
      BY Zenon, <2>3 DEF Flagged
    <3>2. PICK b \in 1..Len(rcvq[a]) : Own(rcvq[a][b], seq) /\ rcvq[a][b].intr
      BY Zenon, <3>1
    <3>3. a = 1 /\ b <= j
      BY Zenon, <1>8, <3>2
    <3>4. b \in 1..j /\ Own(d[b], seq) /\ d[b].intr
      BY <1>3, <1>7, <3>2, <3>3
    <3>5. b \in MineUpTo(d, j)
      BY Zenon, <1>4, <3>4 DEF MineUpTo, Mine, Own
    <3> QED
      BY Zenon, <3>4, <3>5 DEF Interrupted
  <2> QED
    BY Zenon, <2>1, <2>2, <2>3
<1> QED
  BY SMTT(20), <1>9, <1>10

\* No other step returns from a dump with success.
LEMMA DumpsRight ==
  IInv /\ DumpInv /\ DumpComplete /\ DumpIntrReported /\ [Next]_vars
    => DumpComplete' /\ DumpIntrReported'
<1> SUFFICES ASSUME IInv, DumpInv, DumpComplete, DumpIntrReported, [Next]_vars
             PROVE  DumpComplete' /\ DumpIntrReported'
  BY Zenon
<1>1. CASE DumpReturn
  BY Zenon, <1>1, DumpReturnRight
<1>2. ASSUME last' = last PROVE DumpComplete' /\ DumpIntrReported'
  BY Zenon, <1>2 DEF DumpComplete, DumpIntrReported
<1>3. ASSUME last' = NoReturn PROVE DumpComplete' /\ DumpIntrReported'
  BY Zenon, <1>3 DEF DumpComplete, DumpIntrReported, NoReturn, NoCall, Call
<1>4. ASSUME NEW c, NEW s, NEW code, NEW n, NEW w, Return(c, s, code, n, w),
             code = "fail" \/ c.kind # "dump"
      PROVE  DumpComplete' /\ DumpIntrReported'
  BY <1>4 DEF Return, DumpComplete, DumpIntrReported
<1>5. CASE rtnl_talk \/ rtnl_echo_talk
  BY Zenon, <1>3, <1>4, <1>5 DEF rtnl_talk, rtnl_echo_talk, TalkSend
<1>6. CASE \E nc, supp \in BOOLEAN : rtnl_dump_request(nc, supp)
  BY Zenon, <1>3, <1>4, <1>6 DEF rtnl_dump_request
<1>7. CASE SendCheckSend
  BY Zenon, <1>3, <1>7 DEF SendCheckSend
<1>8. CASE TalkReturn
  <2>1. call.kind # "dump"
    BY Zenon, <1>8 DEF TalkReturn, IInv, HandleInv
  <2> QED
    BY Zenon, <1>4, <1>8, <2>1 DEF TalkReturn
<1>9. CASE SendCheckPeek
  <2>1. call.kind # "dump"
    BY <1>9 DEF SendCheckPeek, IInv, HandleInv
  <2> QED
    BY Zenon, <1>4, <1>9, <2>1 DEF SendCheckPeek
<1>10. CASE RecvFails
  BY Zenon, <1>4, <1>10 DEF RecvFails
<1>11. CASE rtnl_open \/ rtnl_close \/ TalkNext \/ DumpNext \/ PeerSend \/ UNCHANGED vars
  BY SMTT(20), <1>2, <1>11 DEF rtnl_open, rtnl_close, TalkNext, DumpNext, PeerSend, vars, handleVars
<1> QED
  BY Zenon, <1>1, <1>5, <1>6, <1>7, <1>8, <1>9, <1>10, <1>11 DEF Next, HandleNext, Receive

\* No dump is under way at the start.
LEMMA DumpsInit == Init => DumpInv /\ DumpComplete /\ DumpIntrReported
  BY DEF Init, DumpInv, DumpComplete, DumpIntrReported, NoReturn, NoCall, Call

\* A dump for which rtnl_dump_filter returns 0 has passed on every object the kernel
\* reported and none twice, for any number of objects, whatever earlier calls left in the
\* queue and however their rests and other processes' datagrams mix with it.
THEOREM DumpsAreComplete == Spec => []DumpComplete
<1> DEFINE I == IInv /\ DumpInv /\ DumpComplete /\ DumpIntrReported
<1>1. Init => I
  BY Zenon, InitEstablishes, DumpsInit
<1>2. I /\ [Next]_vars => I'
  BY Zenon, HandleInductive, DumpInvStep, DumpsRight
<1>3. I => DumpComplete
  BY Zenon
<1> QED
  BY <1>1, <1>2, <1>3, PTL DEF Spec

\* A dump the kernel has flagged as interrupted in any of its messages is not reported as
\* consistent, unless the caller masks the flag.
THEOREM InterruptionsAreReported == Spec => []DumpIntrReported
<1> DEFINE I == IInv /\ DumpInv /\ DumpComplete /\ DumpIntrReported
<1>1. Init => I
  BY Zenon, InitEstablishes, DumpsInit
<1>2. I /\ [Next]_vars => I'
  BY Zenon, HandleInductive, DumpInvStep, DumpsRight
<1>3. I => DumpIntrReported
  BY Zenon
<1> QED
  BY <1>1, <1>2, <1>3, PTL DEF Spec

=============================================================================
