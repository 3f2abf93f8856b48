--------------------------- MODULE RtnlCallProofs ---------------------------
(***************************************************************************)
(* More proofs about the netlink handle: what rtnl_send_check finds, when  *)
(* rtnl_talk reports exactly what the kernel did, and that ip -batch, which *)
(* calls it once per line, exits with an error when a line was refused.    *)
(***************************************************************************)
EXTENDS RtnlProofs, IpBatch

----------------------------------------------------------------------------
(* rtnl_send_check.                                                        *)

\* When the buffer's requests began with an empty queue, it is empty still and none was
\* refused, or the first datagram is an error.
FlushInv ==
  /\ pc = "flush" /\ call.clean /\ peer = 0 =>
       \/ rcvq = <<>> /\ \A s \in call.first..seq : outcome[s] = "ok"
       \/ PeekSeesError
  /\ pc = "flush" => call.first \in 1..seq

\* Every step keeps FlushInv, and a flush that returns is truthful.
LEMMA FlushStep ==
  IInv /\ FlushInv /\ FlushTruthful /\ [Next]_vars => FlushInv' /\ FlushTruthful'
<1> SUFFICES ASSUME IInv, FlushInv, FlushTruthful, [Next]_vars PROVE FlushInv' /\ FlushTruthful'
  BY Zenon
<1> USE DEF IInv
<1>0. seq \in Nat /\ rcvq \in Seq(Seq(Message)) /\ last.seq \in 0..seq /\ peer \in Nat
  BY SeqType, RtnlAssumption DEF TypeOK, Returns
<1>1. ASSUME last' = last, peer' = peer \/ peer' # 0,
             outcome' = outcome PROVE FlushTruthful'
  BY Zenon, <1>1 DEF FlushTruthful
<1>2. ASSUME last' = NoReturn PROVE FlushTruthful'
  BY Zenon, <1>2 DEF FlushTruthful, NoReturn, NoCall, Call
<1>3. ASSUME NEW c, NEW s, NEW code, NEW n, NEW w, Return(c, s, code, n, w),
             code = "fail" \/ c.kind # "flush"
      PROVE  FlushInv' /\ FlushTruthful'
  BY Zenon, <1>3 DEF Return, FlushTruthful, FlushInv
<1>4. CASE rtnl_talk \/ rtnl_echo_talk
  <2>1. PICK kind \in {"change", "get", "echo"} : TalkSend(kind)
    BY Zenon, <1>4 DEF rtnl_talk, rtnl_echo_talk
  <2>2. CASE pc' = "talk" /\ last' = NoReturn
    BY Zenon, <1>2, <2>2 DEF FlushInv
  <2>3. CASE Return(Call(kind, kind # "change", FALSE, FALSE, Clean, seq + 1), seq + 1,
                    "fail", 0, FALSE)
    BY Zenon, <1>3, <2>3
  <2> QED
    BY Zenon, <2>1, <2>2, <2>3 DEF TalkSend
<1>5. CASE \E nc, supp \in BOOLEAN : rtnl_dump_request(nc, supp)
  <2>1. PICK nc \in BOOLEAN, supp \in BOOLEAN : rtnl_dump_request(nc, supp)
    BY Zenon, <1>5
  <2>2. CASE pc' = "dump" /\ last' = NoReturn
    BY Zenon, <1>2, <2>2 DEF FlushInv
  <2>3. CASE Return(Call("dump", FALSE, nc, supp, Clean, seq + 1), seq + 1, "fail", 0, FALSE)
    BY Zenon, <1>3, <2>3
  <2> QED
    BY Zenon, <2>1, <2>2, <2>3 DEF rtnl_dump_request
<1>6. CASE SendCheckSend
  <2>1. /\ seq' = seq + 1 /\ seq < MaxSeq /\ last' = NoReturn /\ UNCHANGED peer
        /\ pc \in {"idle", "flush"} /\ pc' = "flush"
    BY Zenon, <1>6 DEF SendCheckSend
  <2>2. /\ pc = "flush" => call' = call
        /\ pc = "idle" => call'.first = seq + 1 /\ call'.clean = (rcvq = <<>>)
    BY Zenon, <1>6 DEF SendCheckSend, Call
  <2>3. call'.first \in 1..seq'
    BY <1>0, <2>1, <2>2 DEF FlushInv
  <2>4. ASSUME call'.clean, peer = 0
        PROVE  \/ rcvq = <<>> /\ \A s \in call'.first..seq : outcome[s] = "ok"
               \/ PeekSeesError
    <3>1. CASE pc = "flush"
      BY Zenon, <2>2, <2>4, <3>1 DEF FlushInv
    <3>2. CASE pc = "idle"
      <4>1. call'.first = seq + 1 /\ rcvq = <<>>
        BY Zenon, <2>2, <2>4, <3>2
      <4>2. \A s \in (seq + 1)..seq : FALSE
        BY <1>0
      <4> QED
        BY Zenon, <4>1, <4>2
    <3> QED
      BY Zenon, <2>1, <3>1, <3>2
  <2>5. ASSUME call'.clean, peer = 0
        PROVE  \/ rcvq' = <<>> /\ \A s \in call'.first..seq' : outcome'[s] = "ok"
               \/ PeekSeesError'
    <3>1. CASE outcome' = [outcome EXCEPT ![seq + 1] = "ok"] /\ UNCHANGED rcvq
      <4>1. PeekSeesError' <=> PeekSeesError
        BY Zenon, <3>1 DEF PeekSeesError
      <4>2. ASSUME \A s \in call'.first..seq : outcome[s] = "ok"
            PROVE  \A s \in call'.first..seq' : outcome'[s] = "ok"
        <5>1. \A s \in 1..(seq + 1) : outcome'[s] = IF s = seq + 1 THEN "ok" ELSE outcome[s]
          BY <1>0, <2>1, <3>1, RtnlAssumption DEF TypeOK
        <5>2. call'.first \in Nat \ {0}
          BY <2>3
        <5>3. ASSUME NEW s \in call'.first..(seq + 1) PROVE outcome'[s] = "ok"
          <6>1. s \in 1..(seq + 1) /\ (s # seq + 1 => s \in call'.first..seq)
            BY <1>0, <5>2
          <6> QED
            BY Zenon, <4>2, <5>1, <6>1
        <5> QED
          BY Zenon, <2>1, <5>3
      <4> QED
        BY Zenon, <2>4, <2>5, <3>1, <4>1, <4>2
    <3>2. CASE rcvq' = rcvq \o KernelRefuses(seq + 1)
      <4> DEFINE m == Msg("err", seq + 1, FALSE)
                 d == <<m>>
      <4>1. m \in Message /\ m.type = "err"
        BY <1>0 DEF Msg, Message, Types
      <4>2. rcvq' = rcvq \o <<d>>
        BY Zenon, <3>2 DEF KernelRefuses
      <4> HIDE DEF m
      <4>3. d \in Seq(Message) /\ Len(d) = 1 /\ d[1] = m /\ DOMAIN d = 1..1
        BY <4>1
      <4> HIDE DEF d
      <4>4. rcvq' = Append(rcvq, d)
        BY Zenon, <1>0, <4>2, <4>3, ConcatOne
      <4>5. CASE rcvq = <<>>
        <5>1. rcvq' # <<>> /\ rcvq'[1] = d
          BY <1>0, <4>3, <4>4, <4>5
        <5> QED
          BY <4>1, <4>3, <5>1 DEF PeekSeesError
      <4>6. CASE rcvq # <<>>
        <5>1. rcvq' # <<>> /\ rcvq'[1] = rcvq[1]
          BY <1>0, <4>3, <4>4, <4>6
        <5> QED
          BY Zenon, <2>4, <2>5, <4>6, <5>1 DEF PeekSeesError
      <4> QED
        BY Zenon, <4>5, <4>6
    <3> QED
      BY Zenon, <1>6, <3>1, <3>2 DEF SendCheckSend
  <2> QED
    BY Zenon, <1>2, <2>1, <2>3, <2>5 DEF FlushInv
<1>7. CASE SendCheckPeek
  <2>1. /\ pc = "flush" /\ UNCHANGED <<rcvq, peer, outcome>>
        /\ Return(call, seq, IF PeekSeesError THEN "fail" ELSE "ok", 0, FALSE)
    BY Zenon, <1>7 DEF SendCheckPeek
  <2>2. FlushInv'
    BY Zenon, <2>1 DEF Return, FlushInv
  <2>3. FlushTruthful'
    BY Zenon, <2>1 DEF Return, FlushTruthful, FlushInv
  <2> QED
    BY Zenon, <2>2, <2>3
<1>8. CASE TalkReturn \/ DumpReturn
  <2>1. call.kind # "flush"
    BY Zenon, <1>8 DEF TalkReturn, DumpReturn, HandleInv
  <2> QED
    BY Zenon, <1>3, <1>8, <2>1 DEF TalkReturn, DumpReturn
<1>9. CASE RecvFails
  BY Zenon, <1>3, <1>9 DEF RecvFails
<1>10. CASE rtnl_open \/ rtnl_close \/ TalkNext \/ DumpNext
  <2>1. pc' # "flush" /\ UNCHANGED <<last, peer, outcome>>
    BY Zenon, <1>10 DEF rtnl_open, rtnl_close, TalkNext, DumpNext
  <2> QED
    BY Zenon, <1>1, <2>1 DEF FlushInv
<1>11. CASE PeerSend
  <2>1. peer' # 0 /\ UNCHANGED <<pc, call, seq, last, outcome>>
    BY <1>0, <1>11 DEF PeerSend
  <2> QED
    BY Zenon, <1>1, <2>1 DEF FlushInv
<1>12. CASE UNCHANGED vars
  BY Zenon, <1>1, <1>12 DEF vars, handleVars, FlushInv, PeekSeesError
<1> QED
  BY Zenon, <1>4, <1>5, <1>6, <1>7, <1>8, <1>9, <1>10, <1>11, <1>12 DEF Next, HandleNext, Receive

\* rtnl_send_check on an empty queue does not miss a request that was refused, however
\* many requests the buffer holds, unless another process' datagram comes first.
THEOREM FlushesAreTruthful == Spec => []FlushTruthful
<1> DEFINE I == IInv /\ FlushInv /\ FlushTruthful
<1>1. Init => I
  <2>1. Init => FlushInv /\ FlushTruthful
    BY DEF Init, FlushInv, FlushTruthful, NoReturn, NoCall, Call
  <2> QED
    BY Zenon, <2>1, InitEstablishes
<1>2. I /\ [Next]_vars => I'
  BY Zenon, HandleInductive, FlushStep
<1>3. I => FlushTruthful
  BY Zenon
<1> QED
  BY <1>1, <1>2, <1>3, PTL DEF Spec

----------------------------------------------------------------------------
(* rtnl_talk, when no call ends early.                                     *)

Calm == ~set.echo /\ ~set.faults

\* Nothing in q comes from the kernel; only messages of request s do.
NoneOwn(q) == \A i \in 1..Len(q) : \A j \in 1..Len(q[i]) : ~q[i][j].own
OnlyOf(q, s) == \A i \in 1..Len(q) : \A j \in 1..Len(q[i]) : q[i][j].own => q[i][j].seq = s

\* The one message of the kernel in q answers request s, and ends the call.
OneAnswer(q, s, answer) ==
  \A i \in 1..Len(q) : \A j \in 1..Len(q[i]) :
    q[i][j].own =>
      /\ q[i][j].seq = s /\ (answer \/ q[i][j].type \in {"ack", "err"})
      /\ \A a \in 1..Len(q) : \A b \in 1..Len(q[a]) : q[a][b].own => a = i /\ b = j

\* Every call takes all its answers from the queue.
AllTaken ==
  /\ pc \notin {"talk", "dump"} => NoneOwn(rcvq) /\ kdump = NoDump
  /\ pc = "talk" => OneAnswer(rcvq, seq, call.answer) /\ kdump = NoDump
  /\ pc = "dump" => OnlyOf(rcvq, seq) /\ (kdump = NoDump \/ kdump.seq = seq)

CalmInv == Calm => AllTaken

\* Receiving while no dump runs.
LEMMA PopQuiet ==
  ASSUME TypeOK, Pop, kdump = NoDump
  PROVE  /\ rcvq # <<>> /\ rcvq' = Tail(rcvq) /\ kdump' = NoDump /\ rcvq \in Seq(Seq(Message))
         /\ Len(rcvq) \in Nat \ {0} /\ Len(rcvq') = Len(rcvq) - 1 /\ Head(rcvq) = rcvq[1]
         /\ \A i \in 1..(Len(rcvq) - 1) : rcvq'[i] = rcvq[i + 1]
<1>1. rcvq # <<>> /\ rcvq' = Tail(rcvq) /\ kdump' = NoDump /\ rcvq \in Seq(Seq(Message))
  BY Zenon DEF Pop, TypeOK
<1> QED
  BY Zenon, <1>1, TailPoints

\* A datagram of another process keeps what is known of the kernel's messages.
LEMMA PeerQuiet ==
  ASSUME TypeOK, PeerSend, NEW s, NEW x
  PROVE  /\ NoneOwn(rcvq) => NoneOwn(rcvq')
         /\ OnlyOf(rcvq, s) => OnlyOf(rcvq', s)
         /\ OneAnswer(rcvq, s, x) => OneAnswer(rcvq', s, x)
<1>1. PICK y \in {"ack", "err", "data"}, z \in 1..MaxSeq :
          rcvq' = Append(rcvq, <<[type |-> y, seq |-> z, own |-> FALSE, intr |-> FALSE]>>)
  BY Zenon DEF PeerSend
<1> DEFINE m == [type |-> y, seq |-> z, own |-> FALSE, intr |-> FALSE]
           d == <<m>>
<1>2. m \in Message /\ ~m.own
  <2>1. y \in Types /\ z \in Nat
    BY RtnlAssumption DEF Types
  <2> QED
    BY Zenon, <2>1 DEF Message
<1> HIDE DEF m
<1>3. d \in Seq(Message) /\ Len(d) = 1 /\ \A j \in 1..Len(d) : ~d[j].own
  BY <1>2
<1>4. rcvq' = Append(rcvq, d)
  BY Zenon, <1>1 DEF m
<1> HIDE DEF d
<1>5. /\ Len(rcvq) \in Nat /\ Len(rcvq') = Len(rcvq) + 1 /\ rcvq'[Len(rcvq) + 1] = d
      /\ \A i \in 1..Len(rcvq) : rcvq'[i] = rcvq[i]
  BY <1>3, <1>4, AppendPoints DEF TypeOK
<1>6. \A i \in 1..Len(rcvq') : i \in 1..Len(rcvq) \/ \A j \in 1..Len(rcvq'[i]) : ~rcvq'[i][j].own
  BY <1>3, <1>5
<1>7. NoneOwn(rcvq) => NoneOwn(rcvq')
  BY Zenon, <1>5, <1>6 DEF NoneOwn
<1>8. OnlyOf(rcvq, s) => OnlyOf(rcvq', s)
  BY <1>5, <1>6 DEF OnlyOf
<1>9. OneAnswer(rcvq, s, x) => OneAnswer(rcvq', s, x)
  <2> SUFFICES ASSUME OneAnswer(rcvq, s, x), NEW i \in 1..Len(rcvq'), NEW j \in 1..Len(rcvq'[i]),
                      rcvq'[i][j].own
               PROVE  /\ rcvq'[i][j].seq = s /\ (x \/ rcvq'[i][j].type \in {"ack", "err"})
                      /\ \A a \in 1..Len(rcvq') : \A b \in 1..Len(rcvq'[a]) :
                           rcvq'[a][b].own => a = i /\ b = j
    BY Zenon DEF OneAnswer
  <2>1. i \in 1..Len(rcvq) /\ rcvq'[i] = rcvq[i]
    BY Zenon, <1>5, <1>6
  <2>2. /\ rcvq[i][j].seq = s /\ (x \/ rcvq[i][j].type \in {"ack", "err"})
        /\ \A a \in 1..Len(rcvq) : \A b \in 1..Len(rcvq[a]) : rcvq[a][b].own => a = i /\ b = j
    BY Zenon, <2>1 DEF OneAnswer
  <2>3. \A a \in 1..Len(rcvq') : \A b \in 1..Len(rcvq'[a]) : rcvq'[a][b].own => a = i /\ b = j
    BY Zenon, <1>5, <1>6, <2>2
  <2> QED
    BY Zenon, <2>1, <2>2, <2>3
<1> QED
  BY Zenon, <1>7, <1>8, <1>9

\* What a call that fails reports is a failure.
LEMMA FailedIs ==
  ASSUME NEW c, NEW s, NEW n, NEW w, Return(c, s, "fail", n, w)
  PROVE  last'.code = "fail" /\ last'.call = c
BY Zenon DEF Return

\* A request of rtnl_talk brings one answer.
LEMMA TalkSendQuiet ==
  ASSUME IInv, AllTaken, NEW kind \in {"change", "get"}, TalkSend(kind),
         ~set.faults \/ last'.code = "ok"
  PROVE  /\ pc' = "talk" /\ last' = NoReturn /\ kdump' = NoDump
         /\ OneAnswer(rcvq', seq', call'.answer)
<1>1. /\ pc = "idle" /\ seq' = seq + 1 /\ UNCHANGED kdump
      /\ NoneOwn(rcvq) /\ kdump = NoDump /\ seq \in Nat /\ rcvq \in Seq(Seq(Message))
  BY Zenon, SeqType DEF TalkSend, AllTaken, IInv, TypeOK
<1>2. /\ pc' = "talk" /\ last' = NoReturn
      /\ call' = Call(kind, kind # "change", FALSE, FALSE, Clean, seq + 1)
      /\ \/ \E a \in KernelAnswers(kind, seq + 1) : rcvq' = rcvq \o a
         \/ rcvq' = rcvq \o KernelRefuses(seq + 1)
  <2>1. ~(set.faults /\ Return(Call(kind, kind # "change", FALSE, FALSE, Clean, seq + 1),
                                seq + 1, "fail", 0, FALSE))
    BY FailedIs, Zenon
  <2> QED
    BY Zenon, <1>1, <2>1 DEF TalkSend
<1>3. call'.answer = (kind # "change")
  BY <1>2 DEF Call
<1>4. PICK t \in {"ack", "data", "err"} :
        /\ rcvq' = rcvq \o << <<Msg(t, seq + 1, FALSE)>> >>
        /\ call'.answer \/ t \in {"ack", "err"}
  <2>1. CASE rcvq' = rcvq \o KernelRefuses(seq + 1)
    BY <2>1, Zenon DEF KernelRefuses
  <2>2. CASE \E a \in KernelAnswers(kind, seq + 1) : rcvq' = rcvq \o a
    <3>1. CASE kind = "change"
      <4>1. KernelAnswers(kind, seq + 1) = {<< <<Msg("ack", seq + 1, FALSE)>> >>}
        BY Zenon, <3>1 DEF KernelAnswers
      <4> QED
        BY <2>2, <4>1, Zenon
    <3>2. CASE kind = "get"
      <4>1. KernelAnswers(kind, seq + 1) = {<< <<Msg("data", seq + 1, FALSE)>> >>}
        BY Zenon, <3>2 DEF KernelAnswers
      <4>2. call'.answer
        BY Zenon, <1>3, <3>2
      <4> QED
        BY <2>2, <4>1, <4>2, Zenon
    <3> QED
      BY Zenon, <3>1, <3>2
  <2> QED
    BY Zenon, <1>2, <2>1, <2>2
<1> DEFINE m == Msg(t, seq + 1, FALSE)
           d == <<m>>
<1>5. m \in Message /\ m.own /\ m.seq = seq' /\ m.type = t
  BY <1>1 DEF Msg, Message, Types
<1>6. rcvq' = rcvq \o <<d>>
  BY Zenon, <1>4
<1> HIDE DEF m
<1>7. d \in Seq(Message) /\ Len(d) = 1 /\ d[1] = m
  BY <1>5
<1> HIDE DEF d
<1>8. /\ Len(rcvq) \in Nat /\ Len(rcvq') = Len(rcvq) + 1 /\ rcvq'[Len(rcvq) + 1] = d
      /\ \A i \in 1..Len(rcvq) : rcvq'[i] = rcvq[i]
  BY <1>1, <1>6, <1>7, ConcatOne, AppendPoints
<1>9. \A i \in 1..Len(rcvq') : \A j \in 1..Len(rcvq'[i]) :
        rcvq'[i][j].own => i = Len(rcvq) + 1 /\ j = 1 /\ rcvq'[i][j] = m
  <2> SUFFICES ASSUME NEW i \in 1..Len(rcvq'), NEW j \in 1..Len(rcvq'[i]), rcvq'[i][j].own
               PROVE  i = Len(rcvq) + 1 /\ j = 1 /\ rcvq'[i][j] = m
    BY Zenon
  <2>1. i \notin 1..Len(rcvq)
    BY Zenon, <1>1, <1>8 DEF NoneOwn
  <2>2. i = Len(rcvq) + 1
    BY <1>8, <2>1
  <2> QED
    BY <1>7, <1>8, <2>2
<1>10. OneAnswer(rcvq', seq', call'.answer)
  <2> SUFFICES ASSUME NEW i \in 1..Len(rcvq'), NEW j \in 1..Len(rcvq'[i]), rcvq'[i][j].own
               PROVE  /\ rcvq'[i][j].seq = seq'
                      /\ call'.answer \/ rcvq'[i][j].type \in {"ack", "err"}
                      /\ \A a \in 1..Len(rcvq') : \A b \in 1..Len(rcvq'[a]) :
                           rcvq'[a][b].own => a = i /\ b = j
    BY Zenon DEF OneAnswer
  <2>1. i = Len(rcvq) + 1 /\ j = 1 /\ rcvq'[i][j] = m
    BY Zenon, <1>9
  <2>2. rcvq'[i][j].seq = seq' /\ (call'.answer \/ rcvq'[i][j].type \in {"ack", "err"})
    BY Zenon, <1>4, <1>5, <2>1
  <2>3. \A a \in 1..Len(rcvq') : \A b \in 1..Len(rcvq'[a]) : rcvq'[a][b].own => a = i /\ b = j
    BY Zenon, <1>9, <2>1
  <2> QED
    BY Zenon, <2>2, <2>3
<1> QED
  BY Zenon, <1>1, <1>2, <1>10

\* The message that ends rtnl_talk is the one answer to its request.
LEMMA TalkReturnQuiet ==
  ASSUME IInv, AllTaken, TalkReturn
  PROVE  /\ NoneOwn(rcvq') /\ kdump' = NoDump /\ pc' = "idle"
         /\ last'.code = outcome[seq] /\ last'.seq = seq
<1>1. pc = "talk" /\ Pop /\ OneAnswer(rcvq, seq, call.answer) /\ kdump = NoDump
  BY Zenon DEF TalkReturn, AllTaken
<1>2. PICK j \in DOMAIN Head(rcvq) :
        /\ Decides(Head(rcvq)[j])
        /\ Return(call, seq, IF Head(rcvq)[j].type = "err" THEN "fail" ELSE "ok", 0, FALSE)
  BY Zenon DEF TalkReturn
<1>3. /\ rcvq # <<>> /\ kdump' = NoDump /\ rcvq \in Seq(Seq(Message)) /\ Head(rcvq) = rcvq[1]
      /\ Len(rcvq) \in Nat \ {0} /\ Len(rcvq') = Len(rcvq) - 1
      /\ \A i \in 1..(Len(rcvq) - 1) : rcvq'[i] = rcvq[i + 1]
  BY Zenon, <1>1, PopQuiet DEF IInv
<1> DEFINE m == rcvq[1][j]
<1>4. 1 \in 1..Len(rcvq) /\ rcvq[1] \in Seq(Message) /\ j \in 1..Len(rcvq[1]) /\ m.own
  BY <1>2, <1>3 DEF Decides, Accepts
<1>5. /\ m.seq = seq
      /\ \A a \in 1..Len(rcvq) : \A b \in 1..Len(rcvq[a]) : rcvq[a][b].own => a = 1 /\ b = j
  BY Zenon, <1>1, <1>4 DEF OneAnswer
<1>6. NoneOwn(rcvq')
  <2> SUFFICES ASSUME NEW i \in 1..Len(rcvq'), NEW b \in 1..Len(rcvq'[i]), rcvq'[i][b].own
               PROVE  FALSE
    BY Zenon DEF NoneOwn
  <2>1. i + 1 \in 1..Len(rcvq) /\ rcvq'[i] = rcvq[i + 1] /\ i + 1 # 1
    BY <1>3
  <2> QED
    BY Zenon, <1>5, <2>1
<1>7. m \in Honest(seq, outcome)
  <2>1. rcvq[1] \in Seq(Honest(seq, outcome))
    BY <1>4 DEF IInv, HandleInv
  <2> QED
    BY <1>4, <2>1
<1> HIDE DEF m
<1>8. outcome[seq] = IF m.type = "err" THEN "fail" ELSE "ok"
  BY Zenon, <1>4, <1>5, <1>7 DEF Honest
<1>9. last'.code = (IF m.type = "err" THEN "fail" ELSE "ok") /\ last'.seq = seq /\ pc' = "idle"
  BY Zenon, <1>2, <1>3 DEF Return, m
<1> QED
  BY Zenon, <1>3, <1>6, <1>8, <1>9

\* A datagram that does not end rtnl_talk holds nothing of the kernel.
LEMMA TalkNextQuiet ==
  ASSUME IInv, AllTaken, TalkNext
  PROVE  OneAnswer(rcvq', seq, call.answer) /\ kdump' = NoDump
<1>1. pc = "talk" /\ Pop /\ OneAnswer(rcvq, seq, call.answer) /\ kdump = NoDump
  BY Zenon DEF TalkNext, AllTaken
<1>2. /\ kdump' = NoDump
      /\ Len(rcvq) \in Nat \ {0} /\ Len(rcvq') = Len(rcvq) - 1
      /\ \A i \in 1..(Len(rcvq) - 1) : rcvq'[i] = rcvq[i + 1]
  BY Zenon, <1>1, PopQuiet DEF IInv
<1>3. ASSUME NEW i \in 1..Len(rcvq'), NEW j \in 1..Len(rcvq'[i]), rcvq'[i][j].own
      PROVE  /\ rcvq'[i][j].seq = seq /\ (call.answer \/ rcvq'[i][j].type \in {"ack", "err"})
             /\ \A a \in 1..Len(rcvq') : \A b \in 1..Len(rcvq'[a]) :
                  rcvq'[a][b].own => a = i /\ b = j
  <2>1. i + 1 \in 1..Len(rcvq) /\ rcvq'[i] = rcvq[i + 1]
    BY <1>2
  <2>2. /\ rcvq[i + 1][j].seq = seq /\ (call.answer \/ rcvq[i + 1][j].type \in {"ack", "err"})
        /\ \A a \in 1..Len(rcvq) : \A b \in 1..Len(rcvq[a]) :
             rcvq[a][b].own => a = i + 1 /\ b = j
    BY Zenon, <1>1, <1>3, <2>1 DEF OneAnswer
  <2>3. ASSUME NEW a \in 1..Len(rcvq'), NEW b \in 1..Len(rcvq'[a]), rcvq'[a][b].own
        PROVE  a = i /\ b = j
    <3>1. a + 1 \in 1..Len(rcvq) /\ rcvq'[a] = rcvq[a + 1]
      BY <1>2
    <3>2. a + 1 = i + 1 /\ b = j
      BY <2>2, <2>3, <3>1
    <3> QED
      BY <3>2
  <2> QED
    BY SMTT(20), <2>1, <2>2, <2>3
<1> QED
  BY <1>2, <1>3 DEF OneAnswer

\* During a dump only its own messages come from the kernel.
LEMMA PopDumpQuiet ==
  ASSUME IInv, DumpInv, AllTaken, pc = "dump", Pop
  PROVE  /\ OnlyOf(rcvq', seq) /\ (kdump' = NoDump \/ kdump'.seq = seq)
         /\ kdump.seq # seq => kdump' = NoDump /\ rcvq' = Tail(rcvq)
<1>1. /\ OnlyOf(rcvq, seq) /\ (kdump = NoDump \/ kdump.seq = seq) /\ seq # 0 /\ rcvq # <<>>
      /\ rcvq \in Seq(Seq(Message)) /\ kdump \in [seq : Nat, left : Nat]
  BY DEF AllTaken, DumpInv, Pop, IInv, TypeOK
<1> DEFINE r == Tail(rcvq)
<1>2. /\ Len(rcvq) \in Nat \ {0} /\ Len(r) = Len(rcvq) - 1 /\ r \in Seq(Seq(Message))
      /\ \A i \in 1..(Len(rcvq) - 1) : r[i] = rcvq[i + 1]
  BY Zenon, <1>1, TailPoints
<1> HIDE DEF r
<1>3. OnlyOf(r, seq)
  <2> SUFFICES ASSUME NEW i \in 1..Len(r), NEW j \in 1..Len(r[i]), r[i][j].own
               PROVE  r[i][j].seq = seq
    BY Zenon DEF OnlyOf
  <2>1. i + 1 \in 1..Len(rcvq) /\ r[i] = rcvq[i + 1]
    BY <1>2
  <2> QED
    BY Zenon, <1>1, <2>1 DEF OnlyOf
<1>4. CASE kdump = NoDump
  <2>1. rcvq' = r /\ kdump' = NoDump
    BY Zenon, <1>4 DEF Pop, r
  <2> QED
    BY Zenon, <1>3, <2>1 DEF r
<1>5. CASE kdump # NoDump
  <2>1. PICK p \in KernelParts(kdump) : rcvq' = Append(r, p.dg) /\ kdump' = p.rest
    BY Zenon, <1>5 DEF Pop, r
  <2>2. kdump.seq = seq
    BY Zenon, <1>1, <1>5
  <2> DEFINE d == p.dg
             l == p.rest
  <2>3. /\ d \in Seq(Message) /\ (l = NoDump \/ l.seq = seq)
        /\ \A j \in 1..Len(d) : Own(d[j], seq)
    BY Zenon, <1>1, <2>2, PartsShape
  <2>4. rcvq' = Append(r, d) /\ kdump' = l
    BY Zenon, <2>1
  <2> HIDE DEF d, l
  <2>5. /\ Len(r) \in Nat /\ Len(rcvq') = Len(r) + 1 /\ rcvq'[Len(r) + 1] = d
        /\ \A i \in 1..Len(r) : rcvq'[i] = r[i]
    BY Zenon, <1>2, <2>3, <2>4, AppendPoints
  <2>6. OnlyOf(rcvq', seq)
    <3> SUFFICES ASSUME NEW i \in 1..Len(rcvq'), NEW j \in 1..Len(rcvq'[i]), rcvq'[i][j].own
                 PROVE  rcvq'[i][j].seq = seq
      BY Zenon DEF OnlyOf
    <3>1. CASE i = Len(r) + 1
      BY Zenon, <2>3, <2>5, <3>1 DEF Own
    <3>2. CASE i # Len(r) + 1
      <4>1. i \in 1..Len(r) /\ rcvq'[i] = r[i]
        BY <2>5, <3>2
      <4> QED
        BY Zenon, <1>3, <4>1 DEF OnlyOf
    <3> QED
      BY Zenon, <3>1, <3>2
  <2> QED
    BY Zenon, <2>2, <2>3, <2>4, <2>6
<1> QED
  BY Zenon, <1>4, <1>5

\* The end of a dump is the last the kernel says.
LEMMA DumpReturnQuiet ==
  ASSUME IInv, DumpInv, AllTaken, DumpReturn, ~set.faults \/ (last'.code = "ok" /\ ~call.supp)
  PROVE  /\ NoneOwn(rcvq') /\ kdump' = NoDump /\ pc' = "idle" /\ last'.call = call
         /\ last'.code = "ok" /\ ~call.supp => outcome[seq] = "ok"
<1> DEFINE d == Head(rcvq)
<1>1. pc = "dump" /\ Pop /\ dump = seq /\ Ordered(rcvq, kdump, seq)
  BY Zenon DEF DumpReturn, DumpInv
<1>2. rcvq \in Seq(Seq(Message)) /\ rcvq # <<>>
  BY Zenon, <1>1 DEF Pop, IInv, TypeOK
<1>3. /\ Len(rcvq) \in Nat \ {0} /\ Len(Tail(rcvq)) = Len(rcvq) - 1
      /\ \A i \in 1..(Len(rcvq) - 1) : Tail(rcvq)[i] = rcvq[i + 1]
      /\ d = rcvq[1] /\ d \in Seq(Message) /\ DOMAIN d = 1..Len(d) /\ 1 \in 1..Len(rcvq)
  BY <1>2, TailPoints
<1>a. PICK j \in DOMAIN d, f \in 0..(IF set.faults THEN Len(d) ELSE 0) :
        /\ Ends(d, f, j)
        /\ LET ok == d[j].type = "done" \/ (d[j].type = "doneerr" /\ call.supp) IN
           Return(call, seq, IF ok THEN "ok" ELSE "fail",
                  got + Cardinality(MineUpTo(d, j - 1)), ok /\ Interrupted(d, j))
  BY Zenon DEF DumpReturn
<1>5. /\ pc' = "idle" /\ last'.call = call
      /\ last'.code = "ok" /\ ~call.supp => d[j].type = "done"
  BY Zenon, <1>a DEF Return
<1>4. Ends(d, 0, j)
  <2>1. CASE ~set.faults
    <3>1. f = 0
      BY <1>a, <2>1
    <3> QED
      BY Zenon, <1>a, <3>1
  <2>2. CASE last'.code = "ok" /\ ~call.supp
    BY Zenon, <1>a, <1>5, <2>2 DEF Ends
  <2> QED
    BY Zenon, <2>1, <2>2
<1> HIDE DEF d
<1>6. j \in 1..Len(d) /\ Own(d[j], seq) /\ d[j].type # "data"
  BY <1>1, <1>3, <1>4 DEF Ends, Mine, Own
<1>b. ASSUME d[j].type = "done" PROVE outcome[seq] = "ok"
  <2>1. d[j] \in Honest(seq, outcome)
    <3>1. d \in Seq(Honest(seq, outcome))
      BY <1>2, <1>3 DEF IInv, HandleInv
    <3> QED
      BY <1>6, <3>1
  <2> QED
    BY Zenon, <1>6, <1>b, <2>1 DEF Honest, Own
<1>7. /\ kdump.seq # seq
      /\ \A a \in 1..Len(rcvq) : \A b \in 1..Len(rcvq[a]) : Own(rcvq[a][b], seq) => a = 1 /\ b <= j
  BY Zenon, <1>1, <1>3, <1>6 DEF Ordered
<1>8. rcvq' = Tail(rcvq) /\ kdump' = NoDump /\ OnlyOf(rcvq', seq)
  BY Zenon, <1>1, <1>7, PopDumpQuiet
<1>9. NoneOwn(rcvq')
  <2> SUFFICES ASSUME NEW i \in 1..Len(rcvq'), NEW b \in 1..Len(rcvq'[i]), rcvq'[i][b].own
               PROVE  FALSE
    BY Zenon DEF NoneOwn
  <2>1. i + 1 \in 1..Len(rcvq) /\ rcvq'[i] = rcvq[i + 1] /\ i + 1 # 1
    BY <1>3, <1>8
  <2>2. Own(rcvq[i + 1][b], seq)
    BY <1>8, <2>1 DEF OnlyOf, Own
  <2> QED
    BY Zenon, <1>7, <2>1, <2>2
<1> QED
  BY Zenon, <1>5, <1>8, <1>9, <1>b

\* A dump request brings messages of the dump only.
LEMMA DumpRequestQuiet ==
  ASSUME IInv, AllTaken, NEW nc \in BOOLEAN, NEW supp \in BOOLEAN, rtnl_dump_request(nc, supp),
         ~set.faults \/ last'.code = "ok"
  PROVE  /\ pc' = "dump" /\ last' = NoReturn /\ OnlyOf(rcvq', seq')
         /\ kdump' = NoDump \/ kdump'.seq = seq'
<1>1. /\ pc = "idle" /\ seq' = seq + 1 /\ NoneOwn(rcvq) /\ kdump = NoDump
      /\ seq \in Nat /\ rcvq \in Seq(Seq(Message))
  BY SMTT(20), SeqType DEF rtnl_dump_request, AllTaken, IInv, TypeOK
<1>2. /\ pc' = "dump" /\ last' = NoReturn
      /\ \/ rcvq' = rcvq \o KernelRefuses(seq + 1) /\ UNCHANGED kdump
         \/ \E n \in 0..MaxObjs : \E p \in KernelParts([seq |-> seq + 1, left |-> n]) :
              rcvq' = Append(rcvq, p.dg) /\ kdump' = p.rest
  <2>1. ~(set.faults /\ Return(Call("dump", FALSE, nc, supp, Clean, seq + 1),
                                seq + 1, "fail", 0, FALSE))
    BY FailedIs, Zenon
  <2> QED
    BY Zenon, <1>1, <2>1 DEF rtnl_dump_request
<1>3. ASSUME NEW d \in Seq(Message), \A j \in 1..Len(d) : Own(d[j], seq'), rcvq' = Append(rcvq, d)
      PROVE  OnlyOf(rcvq', seq')
  <2>1. /\ Len(rcvq) \in Nat /\ Len(rcvq') = Len(rcvq) + 1 /\ rcvq'[Len(rcvq) + 1] = d
        /\ \A i \in 1..Len(rcvq) : rcvq'[i] = rcvq[i]
    BY Zenon, <1>1, <1>3, AppendPoints
  <2> SUFFICES ASSUME NEW i \in 1..Len(rcvq'), NEW j \in 1..Len(rcvq'[i]), rcvq'[i][j].own
               PROVE  rcvq'[i][j].seq = seq'
    BY Zenon DEF OnlyOf
  <2>2. i \notin 1..Len(rcvq)
    BY Zenon, <1>1, <2>1 DEF NoneOwn
  <2>3. i = Len(rcvq) + 1
    BY <2>1, <2>2
  <2> QED
    BY Zenon, <1>3, <2>1, <2>3 DEF Own
<1>4. CASE rcvq' = rcvq \o KernelRefuses(seq + 1) /\ UNCHANGED kdump
  <2> DEFINE m == Msg("err", seq + 1, FALSE)
             d == <<m>>
  <2>1. m \in Message /\ Own(m, seq')
    BY <1>1 DEF Msg, Message, Types, Own
  <2>2. rcvq' = rcvq \o <<d>>
    BY Zenon, <1>4 DEF KernelRefuses
  <2> HIDE DEF m
  <2>3. d \in Seq(Message) /\ \A j \in 1..Len(d) : d[j] = m
    BY <2>1
  <2> HIDE DEF d
  <2>4. rcvq' = Append(rcvq, d)
    BY Zenon, <1>1, <2>2, <2>3, ConcatOne
  <2> QED
    BY Zenon, <1>1, <1>2, <1>3, <1>4, <2>1, <2>3, <2>4
<1>5. CASE \E n \in 0..MaxObjs : \E p \in KernelParts([seq |-> seq + 1, left |-> n]) :
              rcvq' = Append(rcvq, p.dg) /\ kdump' = p.rest
  <2>1. PICK n \in 0..MaxObjs : \E p \in KernelParts([seq |-> seq + 1, left |-> n]) :
              rcvq' = Append(rcvq, p.dg) /\ kdump' = p.rest
    BY Zenon, <1>5
  <2> DEFINE k == [seq |-> seq + 1, left |-> n]
  <2>2. PICK p \in KernelParts(k) : rcvq' = Append(rcvq, p.dg) /\ kdump' = p.rest
    BY Zenon, <2>1
  <2>3. k \in [seq : Nat, left : Nat] /\ k.seq = seq' /\ k.seq # 0
    BY <1>1, RtnlAssumption
  <2> HIDE DEF k
  <2> DEFINE d == p.dg
             l == p.rest
  <2>4. /\ d \in Seq(Message) /\ (l = NoDump \/ l.seq = seq')
        /\ \A j \in 1..Len(d) : Own(d[j], seq')
    BY Zenon, <2>3, PartsShape
  <2>5. rcvq' = Append(rcvq, d) /\ kdump' = l
    BY Zenon, <2>2
  <2> HIDE DEF d, l
  <2> QED
    BY Zenon, <1>2, <1>3, <2>4, <2>5
<1> QED
  BY SMTT(20), <1>2, <1>4, <1>5

\* Every step keeps CalmInv, and a talk that returns reports the outcome.
LEMMA CalmStep ==
  IInv /\ DumpInv /\ CalmInv /\ TalkTruthful /\ [Next]_vars => CalmInv' /\ TalkTruthful'
<1> SUFFICES ASSUME IInv, DumpInv, CalmInv, TalkTruthful, [Next]_vars, Calm'
             PROVE  CalmInv' /\ TalkTruthful'
  BY Zenon DEF CalmInv, TalkTruthful, Calm
<1>0. Calm /\ ~set.faults /\ AllTaken
  BY Zenon DEF Calm, CalmInv, Next, vars
<1>1. ASSUME last' = NoReturn PROVE TalkTruthful'
  BY Zenon, <1>1 DEF TalkTruthful, Talked, NoReturn, NoCall, Call
<1>2. ASSUME last' = last, outcome' = outcome PROVE TalkTruthful'
  BY Zenon, <1>0, <1>2 DEF TalkTruthful, Talked, Calm
<1>3. CASE rtnl_talk
  BY Zenon, <1>0, <1>1, <1>3, TalkSendQuiet DEF rtnl_talk, CalmInv, AllTaken
<1>4. CASE rtnl_echo_talk \/ RecvFails
  BY Zenon, <1>0, <1>4 DEF rtnl_echo_talk, RecvFails, Calm
<1>5. CASE \E nc, supp \in BOOLEAN : rtnl_dump_request(nc, supp)
  BY Zenon, <1>0, <1>1, <1>5, DumpRequestQuiet DEF CalmInv, AllTaken
<1>6. CASE SendCheckSend
  <2>1. /\ pc \in {"idle", "flush"} /\ pc' = "flush" /\ UNCHANGED <<rcvq, kdump>>
        /\ last' = NoReturn
    BY Zenon, <1>0, <1>6 DEF SendCheckSend, Calm
  <2> QED
    BY Zenon, <1>0, <1>1, <2>1 DEF CalmInv, AllTaken
<1>7. CASE TalkReturn
  <2>1. /\ NoneOwn(rcvq') /\ kdump' = NoDump /\ pc' = "idle"
        /\ last'.code = outcome[seq] /\ last'.seq = seq
    BY Zenon, <1>0, <1>7, TalkReturnQuiet
  <2>2. outcome' = outcome
    BY Zenon, <1>7 DEF TalkReturn
  <2> QED
    BY Zenon, <2>1, <2>2 DEF CalmInv, AllTaken, TalkTruthful
<1>8. CASE TalkNext
  <2>1. pc = "talk" /\ UNCHANGED <<seq, pc, call, outcome, last>>
    BY Zenon, <1>8 DEF TalkNext
  <2>2. OneAnswer(rcvq', seq, call.answer) /\ kdump' = NoDump
    BY Zenon, <1>0, <1>8, TalkNextQuiet
  <2> QED
    BY Zenon, <1>2, <2>1, <2>2 DEF CalmInv, AllTaken
<1>9. CASE DumpReturn
  <2>1. NoneOwn(rcvq') /\ kdump' = NoDump /\ pc' = "idle" /\ last'.call = call
    BY Zenon, <1>0, <1>9, DumpReturnQuiet
  <2>2. call.kind = "dump"
    BY Zenon, <1>9 DEF DumpReturn, IInv, HandleInv
  <2> QED
    BY Zenon, <2>1, <2>2 DEF CalmInv, AllTaken, TalkTruthful, Talked
<1>10. CASE DumpNext
  <2>1. pc = "dump" /\ Pop /\ UNCHANGED <<seq, pc, outcome, last>>
    BY Zenon, <1>10 DEF DumpNext
  <2>2. OnlyOf(rcvq', seq) /\ (kdump' = NoDump \/ kdump'.seq = seq)
    BY Zenon, <1>0, <2>1, PopDumpQuiet
  <2> QED
    BY Zenon, <1>2, <2>1, <2>2 DEF CalmInv, AllTaken
<1>11. CASE SendCheckPeek
  <2>1. pc = "flush" /\ pc' = "idle" /\ UNCHANGED <<rcvq, kdump>> /\ last'.call = call
    BY Zenon, <1>11 DEF SendCheckPeek, Return
  <2>2. call.kind = "flush"
    BY Zenon, <2>1 DEF IInv, HandleInv
  <2> QED
    BY Zenon, <1>0, <2>1, <2>2 DEF CalmInv, AllTaken, TalkTruthful, Talked
<1>12. CASE PeerSend
  <2>1. UNCHANGED <<seq, pc, call, kdump, outcome, last>>
    BY Zenon, <1>12 DEF PeerSend
  <2>2. /\ NoneOwn(rcvq) => NoneOwn(rcvq')
        /\ OnlyOf(rcvq, seq) => OnlyOf(rcvq', seq)
        /\ OneAnswer(rcvq, seq, call.answer) => OneAnswer(rcvq', seq, call.answer)
    BY Zenon, <1>12, PeerQuiet DEF IInv
  <2> QED
    BY Zenon, <1>0, <1>2, <2>1, <2>2 DEF CalmInv, AllTaken
<1>13. CASE rtnl_open
  BY SMTT(20), <1>0, <1>2, <1>13 DEF rtnl_open, CalmInv, AllTaken
<1>14. CASE rtnl_close
  <2>1. NoneOwn(rcvq') /\ kdump' = NoDump /\ pc' = "closed" /\ UNCHANGED <<outcome, last>>
    BY <1>14 DEF rtnl_close, NoneOwn
  <2> QED
    BY Zenon, <1>2, <2>1 DEF CalmInv, AllTaken
<1>15. CASE UNCHANGED vars
  BY Zenon, <1>0, <1>2, <1>15 DEF vars, handleVars, CalmInv, AllTaken
<1> QED
  BY SMTT(20), <1>3, <1>4, <1>5, <1>6, <1>7, <1>8, <1>9, <1>10, <1>11, <1>12, <1>13, <1>14, <1>15
     DEF Next, HandleNext, Receive

\* Without -echo and as long as no call ends early, rtnl_talk reports exactly what the
\* kernel did with its request: each call takes from the queue all that answers it.
THEOREM TalkReportsOutcome == Spec => []TalkTruthful
<1> DEFINE I == IInv /\ DumpInv /\ CalmInv /\ TalkTruthful
<1>1. Init => I
  <2>1. Init => CalmInv /\ TalkTruthful
    BY DEF Init, CalmInv, AllTaken, NoneOwn, TalkTruthful, Talked, NoReturn, NoCall, Call
  <2> QED
    BY Zenon, <2>1, InitEstablishes, DumpsInit
<1>2. I /\ [Next]_vars => I'
  BY Zenon, HandleInductive, DumpInvStep, CalmStep
<1>3. I => TalkTruthful
  BY Zenon
<1> QED
  BY <1>1, <1>2, <1>3, PTL DEF Spec

----------------------------------------------------------------------------
(* ip -batch.                                                              *)

\* As long as no command has failed, each call has taken all its answers from the queue and the
\* kernel has refused no command but the one that waits for its answer.
BatchInv ==
  /\ ret \in {"EXIT_SUCCESS", "EXIT_FAILURE"}
  /\ pc # "flush"
  /\ ~set.echo /\ ret = "EXIT_SUCCESS" =>
       /\ AllTaken
       /\ last.code = "ok"
       /\ pc = "dump" => ~call.supp
       /\ \A s \in 1..MaxSeq : outcome[s] = "fail" => pc \in {"talk", "dump"} /\ s = seq

\* A step of the batch is a step of the handle.
LEMMA BatchOnHandle ==
  [BatchNext]_batchVars => [Next]_vars
<1>1. BatchNext => Next
  <2> SUFFICES ASSUME BatchNext PROVE Next
    BY Zenon
  <2>1. CASE BatchOpen
    BY Zenon, <2>1 DEF BatchNext, BatchOpen, Next, HandleNext
  <2>2. CASE Command
    BY Zenon, <2>2 DEF BatchNext, Command, Next, HandleNext
  <2>3. CASE Run
    BY Zenon, <2>3 DEF BatchNext, Run, Next, HandleNext
  <2>4. CASE BatchEnd
    BY Zenon, <2>4 DEF BatchNext, BatchEnd, Next, HandleNext
  <2> QED
    BY Zenon, <2>1, <2>2, <2>3, <2>4 DEF BatchNext
<1>2. UNCHANGED batchVars => UNCHANGED vars
  BY Zenon DEF batchVars
<1> QED
  BY Zenon, <1>1, <1>2

\* do_batch notes a call that fails, so while it has noted none, none has failed.
LEMMA SettleNotes ==
  ASSUME Settle, ret' = "EXIT_SUCCESS", last.code = "ok", last'.call.kind # "none",
         last'.code \in Codes
  PROVE  last'.code = "ok"
<1>1. last'.call # NoCall
  BY DEF NoCall, Call
<1> QED
  BY Zenon, <1>1 DEF Settle, Codes

\* No command makes the batch forget that one before it was refused.
LEMMA BatchStep ==
  ASSUME IInv, DumpInv, BatchInv, IInv', [BatchNext]_batchVars
  PROVE  BatchInv'
<1>1. CASE UNCHANGED batchVars
  BY Zenon, <1>1 DEF batchVars, vars, handleVars, BatchInv, AllTaken
<1>2. SUFFICES ASSUME BatchNext PROVE BatchInv'
  BY Zenon, <1>1
<1>3. /\ ret' \in {"EXIT_SUCCESS", "EXIT_FAILURE"}
      /\ ret' = "EXIT_SUCCESS" => ret = "EXIT_SUCCESS"
  BY ZenonT(30), <1>2 DEF BatchNext, BatchOpen, Command, Run, BatchEnd, Settle, BatchInv
<1>4. pc' # "flush"
  <2>1. CASE BatchOpen \/ BatchEnd
    BY Zenon, <2>1 DEF BatchOpen, BatchEnd, rtnl_open, rtnl_close
  <2>2. CASE Command
    BY Zenon, <2>2 DEF Command, rtnl_talk, rtnl_echo_talk, TalkSend, rtnl_dump_request, Return
  <2>3. CASE Run
    BY Zenon, <2>3 DEF Run, Receive, RecvFails, TalkReturn, TalkNext, DumpReturn, DumpNext, SendCheckPeek,
                Return
  <2> QED
    BY Zenon, <1>2, <2>1, <2>2, <2>3 DEF BatchNext
<1>5. SUFFICES ASSUME ~set.echo', ret' = "EXIT_SUCCESS"
               PROVE  /\ AllTaken'
                      /\ last'.code = "ok"
                      /\ pc' = "dump" => ~call'.supp
                      /\ \A s \in 1..MaxSeq :
                           outcome'[s] = "fail" => pc' \in {"talk", "dump"} /\ s = seq'
  BY Zenon, <1>3, <1>4 DEF BatchInv
<1>6. /\ ~set.echo /\ AllTaken /\ last.code = "ok" /\ pc # "flush"
      /\ pc = "dump" => ~call.supp
      /\ \A s \in 1..MaxSeq : outcome[s] = "fail" => pc \in {"talk", "dump"} /\ s = seq
  BY Zenon, <1>2, <1>3, <1>5 DEF BatchInv, BatchNext
<1>7. last'.code \in Codes
  BY Zenon DEF IInv, TypeOK, Returns
<1>8. ASSUME Settle, last'.call.kind # "none" PROVE last'.code = "ok"
  BY SMTT(20), <1>5, <1>6, <1>7, <1>8, SettleNotes
<1>9. seq \in Nat /\ outcome \in [1..MaxSeq -> Codes \cup {"none"}]
  BY Zenon, SeqType DEF IInv, TypeOK
<1>10. CASE BatchOpen
  <2>1. pc = "new" /\ pc' \in {"idle", "closed"} /\ UNCHANGED <<rcvq, kdump, outcome, last, seq>>
    BY Zenon, <1>10 DEF BatchOpen, rtnl_open
  <2> QED
    BY Zenon, <1>6, <2>1 DEF AllTaken
<1>11. CASE BatchEnd
  <2>1. /\ pc = "idle" /\ pc' = "closed" /\ rcvq' = <<>> /\ kdump' = NoDump
        /\ UNCHANGED <<outcome, last, seq>>
    BY Zenon, <1>11 DEF BatchEnd, rtnl_close
  <2>2. NoneOwn(rcvq')
    BY <2>1 DEF NoneOwn
  <2> QED
    BY Zenon, <1>6, <2>1, <2>2 DEF AllTaken
<1>12. CASE rtnl_talk /\ Settle
  <2>1. PICK kind \in {"change", "get"} : TalkSend(kind)
    BY Zenon, <1>12 DEF rtnl_talk
  <2>2. last'.code = "ok"
    <3> DEFINE c == Call(kind, kind # "change", FALSE, FALSE, Clean, seq + 1)
    <3>1. c.kind # "none"
      BY Zenon DEF Call
    <3>2. Return(c, seq + 1, "fail", 0, FALSE) \/ last' = NoReturn
      BY <2>1, Zenon DEF TalkSend
    <3> HIDE DEF c
    <3>3. Return(c, seq + 1, "fail", 0, FALSE) => last'.call = c
      BY FailedIs, Zenon
    <3>4. last' = NoReturn => last'.code = "ok"
      BY DEF NoReturn
    <3> QED
      BY <1>8, <1>12, <3>1, <3>2, <3>3, <3>4, Zenon
  <2>3. /\ pc' = "talk" /\ kdump' = NoDump /\ OneAnswer(rcvq', seq', call'.answer)
    BY Zenon, <1>6, <2>1, <2>2, TalkSendQuiet
  <2>4. /\ pc = "idle" /\ seq' = seq + 1
        /\ \/ outcome' = outcome
           \/ \E x \in Codes : outcome' = [outcome EXCEPT ![seq + 1] = x]
    BY Zenon, <2>1 DEF TalkSend, Codes
  <2>5. \A s \in 1..MaxSeq : outcome'[s] = "fail" => s = seq'
    BY Zenon, <1>6, <1>9, <2>4
  <2> QED
    BY Zenon, <2>2, <2>3, <2>5 DEF AllTaken
<1>13. CASE rtnl_echo_talk
  BY Zenon, <1>6, <1>13 DEF rtnl_echo_talk
<1>14. CASE rtnl_dump_request(FALSE, FALSE) /\ Settle
  <2> DEFINE c == Call("dump", FALSE, FALSE, FALSE, Clean, seq + 1)
  <2>1. c.kind # "none" /\ ~c.supp
    BY Zenon DEF Call
  <2>2. Return(c, seq + 1, "fail", 0, FALSE) \/ (call' = c /\ last' = NoReturn)
    BY <1>14, Zenon DEF rtnl_dump_request
  <2>3. /\ pc = "idle" /\ seq' = seq + 1
        /\ \/ outcome' = outcome
           \/ \E x \in Codes : outcome' = [outcome EXCEPT ![seq + 1] = x]
    BY Zenon, <1>14 DEF rtnl_dump_request, Codes
  <2> HIDE DEF c
  <2>4. Return(c, seq + 1, "fail", 0, FALSE) => last'.call = c /\ last'.code = "fail"
    BY FailedIs, Zenon
  <2>5. last'.code = "ok"
    <3>1. last' = NoReturn => last'.code = "ok"
      BY DEF NoReturn
    <3> QED
      BY <1>8, <1>14, <2>1, <2>2, <2>4, <3>1, Zenon
  <2>6. ~call'.supp
    BY Zenon, <2>1, <2>2, <2>4, <2>5
  <2>7. /\ pc' = "dump" /\ OnlyOf(rcvq', seq')
        /\ kdump' = NoDump \/ kdump'.seq = seq'
    BY Zenon, <1>6, <1>14, <2>5, DumpRequestQuiet
  <2>8. \A s \in 1..MaxSeq : outcome'[s] = "fail" => s = seq'
    BY Zenon, <1>6, <1>9, <2>3
  <2> QED
    BY Zenon, <2>5, <2>6, <2>7, <2>8 DEF AllTaken
<1>15. CASE TalkReturn /\ Settle
  <2>1. /\ NoneOwn(rcvq') /\ kdump' = NoDump /\ pc' = "idle" /\ last'.code = outcome[seq]
    BY Zenon, <1>6, <1>15, TalkReturnQuiet
  <2>2. last'.call = call /\ outcome' = outcome /\ pc = "talk"
    BY <1>15 DEF TalkReturn, Return
  <2>3. last'.code = "ok"
    BY Zenon, <1>8, <1>15, <2>2 DEF IInv, HandleInv
  <2> QED
    BY Zenon, <1>6, <2>1, <2>2, <2>3 DEF AllTaken
<1>16. CASE TalkNext
  <2>1. pc = "talk" /\ UNCHANGED <<seq, pc, call, outcome, last>>
    BY Zenon, <1>16 DEF TalkNext
  <2>2. OneAnswer(rcvq', seq, call.answer) /\ kdump' = NoDump
    BY SMTT(20), <1>6, <1>16, TalkNextQuiet
  <2> QED
    BY Zenon, <1>6, <2>1, <2>2 DEF AllTaken
<1>17. CASE DumpReturn /\ Settle
  <2>1. last'.call = call /\ outcome' = outcome /\ pc = "dump"
    BY <1>17 DEF DumpReturn, Return
  <2>2. last'.code = "ok"
    BY Zenon, <1>8, <1>17, <2>1 DEF IInv, HandleInv
  <2>3. NoneOwn(rcvq') /\ kdump' = NoDump /\ pc' = "idle" /\ outcome[seq] = "ok"
    BY Zenon, <1>6, <1>17, <2>1, <2>2, DumpReturnQuiet
  <2> QED
    BY SMTT(20), <1>6, <2>1, <2>2, <2>3 DEF AllTaken
<1>18. CASE DumpNext
  <2>1. pc = "dump" /\ Pop /\ UNCHANGED <<seq, pc, call, outcome, last>>
    BY Zenon, <1>18 DEF DumpNext
  <2>2. OnlyOf(rcvq', seq) /\ (kdump' = NoDump \/ kdump'.seq = seq)
    BY Zenon, <1>6, <2>1, PopDumpQuiet
  <2> QED
    BY Zenon, <1>6, <2>1, <2>2 DEF AllTaken
<1>19. CASE SendCheckPeek
  BY Zenon, <1>6, <1>19 DEF SendCheckPeek
<1>20. CASE RecvFails /\ Settle
  <2>1. Return(call, seq, "fail", got, FALSE) /\ pc \in {"talk", "dump"}
    BY Zenon, <1>20 DEF RecvFails
  <2>2. last'.code = "fail" /\ last'.call = call
    BY <2>1, FailedIs, Zenon
  <2>3. call.kind # "none"
    BY Zenon, <2>1 DEF IInv, HandleInv
  <2> QED
    BY Zenon, <1>8, <1>20, <2>2, <2>3
<1> QED
  BY Zenon, <1>2, <1>10, <1>11, <1>12, <1>13, <1>14, <1>15, <1>16, <1>17, <1>18, <1>19, <1>20
     DEF BatchNext, Command, Run, Receive

\* However many commands a batch has, whichever of its sends, receives and filters fail and
\* whatever dumps given up have left in the queue: if the kernel refused a command, ip -batch
\* without -echo does not exit with 0, with -force or without.
THEOREM BatchesReportErrors == BatchSpec => []BatchReportsErrors
<1> DEFINE I == IInv /\ DumpInv /\ BatchInv
<1>1. BatchInit => I
  <2>1. BatchInit => BatchInv
    BY DEF BatchInit, Init, BatchInv, AllTaken, NoneOwn, NoReturn
  <2> QED
    BY Zenon, <2>1, InitEstablishes, DumpsInit DEF BatchInit
<1>2. I /\ [BatchNext]_batchVars => I'
  BY Zenon, HandleInductive, DumpInvStep, BatchOnHandle, BatchStep
<1>3. I => BatchReportsErrors
  BY Zenon DEF BatchInv, BatchReportsErrors, ExitCodeReportsErrors, Refused
<1> QED
  BY <1>1, <1>2, <1>3, PTL DEF BatchSpec

=============================================================================
