-------------------------------- MODULE Rtnl --------------------------------
(***************************************************************************)
(* A netlink handle (struct rtnl_handle) and the calls of libnetlink.c     *)
(* that use it one after the other: rtnl_talk with and without an answer,  *)
(* rtnl_echo_talk, a dump request followed by rtnl_dump_filter, and        *)
(* rtnl_send_check.  The handle outlives a call: "ip -batch" opens one and *)
(* runs every command on it, so what a call leaves in the socket's receive *)
(* queue is read by the next one.                                          *)
(*                                                                         *)
(* The kernel is external.  It answers a request while sendmsg runs and    *)
(* produces the next datagram of a dump while recvmsg runs, which is why   *)
(* its answers are part of the send and receive steps below.  Other        *)
(* processes may put datagrams of their own in the queue at any time.      *)
(***************************************************************************)
EXTENDS Naturals, Sequences, FiniteSets

CONSTANTS
  MaxSeq,      \* requests made on the handle (bounds rth->seq)
  MaxObjs,     \* objects a dump reports
  PerDatagram, \* objects the kernel puts in one datagram of a dump
  MaxPeer,     \* datagrams other processes send to the socket
  Settings     \* the circumstances a program may run under

ASSUME RtnlAssumption ==
  /\ MaxSeq \in Nat
  /\ MaxObjs \in Nat
  /\ PerDatagram \in Nat \ {0}
  /\ MaxPeer \in Nat
  /\ Settings \subseteq [echo : BOOLEAN, faults : BOOLEAN, peers : BOOLEAN, requests : 0..MaxSeq]

VARIABLES
  set,     \* echo: the program was started with -echo; faults: calls may end early
           \* (failing send, receive, filter or flush); peers: other processes send to
           \* the socket; requests: bound on the requests
  seq,     \* rth->seq, counted from the time(NULL) it starts at
  dump,    \* rth->dump
  pc,      \* where the program is: "new", "idle", "talk", "dump", "flush", "closed"
  call,    \* the arguments of the running call
  got,     \* objects the running dump passed to its filter
  intr,    \* dump_intr, the local of rtnl_dump_filter_l
  rcvq,    \* the socket's receive queue, a sequence of datagrams
  kdump,   \* the dump the kernel still runs on this socket (NoDump: none)
  kintr,   \* what the kernel reported of the current dump
  peer,    \* datagrams other processes have sent so far
  outcome, \* what the kernel did with each request
  last     \* the call that returned last (NoReturn while one runs)

handleVars == <<seq, dump, pc, call, got, intr, rcvq, kdump, kintr, peer, outcome, last>>
vars == <<set, handleVars>>

Types == {"ack", "err", "data", "done", "doneerr"}
Codes == {"ok", "fail"}
Kinds == {"none", "change", "get", "echo", "dump", "flush"}

\* A message as the receive loops see it.  "ack" is an NLMSG_ERROR whose error
\* is 0, "doneerr" an NLMSG_DONE with a negative length; own says that it comes
\* from the kernel and carries the port id of this socket.
Message == [type : Types, seq : Nat, own : BOOLEAN, intr : BOOLEAN]

Msg(t, s, f) == [type |-> t, seq |-> s, own |-> TRUE, intr |-> f]

NoDump == [seq |-> 0, left |-> 0]

\* The arguments of a call, with clean: what the queue looked like when it
\* began, and first: the number of its first request.
Call(kind, answer, nc, supp, clean, first) ==
  [kind |-> kind, answer |-> answer, nc |-> nc, supp |-> supp, clean |-> clean,
   first |-> first]

NoCall == Call("none", FALSE, FALSE, FALSE, TRUE, 0)

NoReturn == [call |-> NoCall, seq |-> 0, code |-> "ok", got |-> 0, total |-> 0,
             kintr |-> FALSE, warned |-> FALSE]

----------------------------------------------------------------------------
(* The kernel.                                                             *)

Objs(s, n, f) == [i \in 1..n |-> Msg("data", s, f)]

\* The datagrams with which the kernel may continue dump k: objects with more
\* to come, the last objects and NLMSG_DONE, or an error that ends the dump.
KernelParts(k) ==
  LET many == {n \in 0..k.left : n <= PerDatagram} IN
  {[dg |-> Objs(k.seq, n, f), rest |-> [k EXCEPT !.left = @ - n], intr |-> f]
      : n \in many \ {0}, f \in BOOLEAN}
  \cup
  {[dg |-> Append(Objs(k.seq, n, f), Msg("done", k.seq, f)),
    rest |-> NoDump, intr |-> f] : n \in many \cap {k.left}, f \in BOOLEAN}
  \cup
  {[dg |-> Append(Objs(k.seq, n, f), Msg("doneerr", k.seq, f)),
    rest |-> NoDump, intr |-> f] : n \in many, f \in BOOLEAN}

\* The datagrams that answer a request of the given kind that was carried out.
\* NLM_F_ACK asks for an acknowledgement, NLM_F_ECHO for the object before it;
\* not every subsystem implements the echo.
KernelAnswers(kind, s) ==
  CASE kind = "change" -> {<< <<Msg("ack", s, FALSE)>> >>}
    [] kind = "get"    -> {<< <<Msg("data", s, FALSE)>> >>}
    [] kind = "echo"   -> {<< <<Msg("data", s, FALSE)>>, <<Msg("ack", s, FALSE)>> >>,
                           << <<Msg("ack", s, FALSE)>> >>}

KernelRefuses(s) == << <<Msg("err", s, FALSE)>> >>

\* recvmsg takes the first datagram; if a dump is running on the socket the
\* kernel then appends its next datagram.
Pop ==
  /\ rcvq # <<>>
  /\ \/ /\ kdump = NoDump
        /\ rcvq' = Tail(rcvq)
        /\ UNCHANGED <<kdump, kintr>>
     \/ /\ kdump # NoDump
        /\ \E p \in KernelParts(kdump) :
             /\ rcvq' = Append(Tail(rcvq), p.dg)
             /\ kdump' = p.rest
             /\ kintr' = [kintr EXCEPT !.flag = @ \/ (p.intr /\ kdump.seq = kintr.seq)]

\* Another process sends a datagram to this socket.
PeerSend ==
  /\ pc \in {"idle", "talk", "dump", "flush"}
  /\ set.peers /\ peer < MaxPeer
  /\ \E t \in {"ack", "err", "data"}, s \in 1..MaxSeq :
       rcvq' = Append(rcvq, <<[type |-> t, seq |-> s, own |-> FALSE, intr |-> FALSE]>>)
  /\ peer' = peer + 1
  /\ UNCHANGED <<seq, dump, pc, call, got, intr, kdump, kintr, outcome, last>>

----------------------------------------------------------------------------
(* The handle.                                                             *)

rtnl_open ==
  /\ pc = "new"
  /\ pc' \in {"idle", "closed"}
  /\ UNCHANGED <<seq, dump, call, got, intr, rcvq, kdump, kintr, peer, outcome, last>>

rtnl_close ==
  /\ pc = "idle"
  /\ pc' = "closed"
  /\ rcvq' = <<>>
  /\ kdump' = NoDump
  /\ UNCHANGED <<seq, dump, call, got, intr, kintr, peer, outcome, last>>

\* Call c returns code to its caller.
Return(c, s, code, n, warned) ==
  /\ pc' = "idle"
  /\ call' = NoCall
  /\ got' = 0
  /\ intr' = FALSE
  /\ last' = [call |-> c, seq |-> s, code |-> code, got |-> n,
              total |-> kintr'.total, kintr |-> kintr'.flag, warned |-> warned]

\* Nothing of the request just before the next one is queued or still to come.
Clean == /\ \A i \in DOMAIN rcvq : \A j \in DOMAIN rcvq[i] :
              rcvq[i][j].own => rcvq[i][j].seq # seq
         /\ kdump.seq = seq => kdump = NoDump

----------------------------------------------------------------------------
(* rtnl_talk and rtnl_echo_talk.                                           *)

\* The first half of __rtnl_talk_iov: number the request and send it.
TalkSend(kind) ==
  /\ pc = "idle"
  /\ seq < MaxSeq
  /\ seq' = seq + 1
  /\ UNCHANGED <<dump, kdump, kintr, peer>>
  /\ LET c == Call(kind, kind # "change", FALSE, FALSE, Clean, seq + 1) IN
     \/ /\ set.faults                           \* sendmsg fails
        /\ Return(c, seq + 1, "fail", 0, FALSE)
        /\ UNCHANGED <<rcvq, outcome>>
     \/ /\ pc' = "talk"
        /\ call' = c
        /\ \/ /\ \E a \in KernelAnswers(kind, seq + 1) : rcvq' = rcvq \o a
              /\ outcome' = [outcome EXCEPT ![seq + 1] = "ok"]
           \/ /\ rcvq' = rcvq \o KernelRefuses(seq + 1)
              /\ outcome' = [outcome EXCEPT ![seq + 1] = "fail"]
        /\ last' = NoReturn
        /\ UNCHANGED <<got, intr>>

rtnl_talk == \E kind \in {"change", "get"} : TalkSend(kind)

rtnl_echo_talk == set.echo /\ TalkSend("echo")

\* The messages the receive loop does not skip (iovlen is 1).
AcceptsAnySender(m) == ~(m.seq > seq \/ m.seq + 1 < seq)
AcceptsAnyOlder(m) == m.own /\ ~(m.seq > seq)
Accepts(m) == m.own /\ ~(m.seq > seq \/ m.seq + 1 < seq)

\* The messages that end the call: any with an answer to fill in, otherwise
\* only an NLMSG_ERROR ("Unexpected reply!!!" continues with the next message).
Decides(m) == Accepts(m) /\ (call.answer \/ m.type \in {"ack", "err"})

TalkReturn ==
  /\ pc = "talk"
  /\ Pop
  /\ \E j \in DOMAIN Head(rcvq) :
       /\ Decides(Head(rcvq)[j])
       /\ \A i \in 1..(j - 1) : ~Decides(Head(rcvq)[i])
       /\ Return(call, seq, IF Head(rcvq)[j].type = "err" THEN "fail" ELSE "ok",
                 0, FALSE)
  /\ UNCHANGED <<seq, dump, peer, outcome>>

TalkNext ==
  /\ pc = "talk"
  /\ Pop
  /\ \A j \in DOMAIN Head(rcvq) : ~Decides(Head(rcvq)[j])
  /\ UNCHANGED <<seq, dump, pc, call, got, intr, peer, outcome, last>>

\* rtnl_recvmsg fails (ENOBUFS); the queue keeps what it holds.
RecvFails ==
  /\ set.faults
  /\ pc \in {"talk", "dump"}
  /\ UNCHANGED kintr
  /\ Return(call, seq, "fail", got, FALSE)
  /\ UNCHANGED <<seq, dump, rcvq, kdump, peer, outcome>>

----------------------------------------------------------------------------
(* Dumps.                                                                  *)

\* nlmsg_seq = rth->dump = ++rth->seq.
DumpNumberTwice == seq + 2
DumpNumberStale == seq
DumpNumber == seq + 1

\* rtnl_dump_request and the rtnl_*dump_req functions, then the call of
\* rtnl_dump_filter_l.  nc: NLM_F_DUMP_INTR is in nc_flags; supp: an errhndlr
\* suppresses an error in NLMSG_DONE.  A second dump on a socket that still
\* runs one is refused by the kernel (EBUSY).
rtnl_dump_request(nc, supp) ==
  /\ pc = "idle"
  /\ seq < MaxSeq
  /\ seq' = seq + 1
  /\ dump' = DumpNumber
  /\ LET c == Call("dump", FALSE, nc, supp, Clean, seq + 1) IN
     \/ /\ set.faults                           \* send fails
        /\ UNCHANGED <<rcvq, kdump, kintr, outcome>>
        /\ Return(c, seq + 1, "fail", 0, FALSE)
     \/ /\ pc' = "dump"
        /\ call' = c
        /\ \/ /\ rcvq' = rcvq \o KernelRefuses(seq + 1)
              /\ outcome' = [outcome EXCEPT ![seq + 1] = "fail"]
              /\ kintr' = [seq |-> seq + 1, total |-> 0, flag |-> FALSE]
              /\ UNCHANGED kdump
           \/ /\ kdump = NoDump
              /\ \E n \in 0..MaxObjs :
                   \E p \in KernelParts([seq |-> seq + 1, left |-> n]) :
                     /\ rcvq' = Append(rcvq, p.dg)
                     /\ kdump' = p.rest
                     /\ kintr' = [seq |-> seq + 1, total |-> n, flag |-> p.intr]
              /\ outcome' = [outcome EXCEPT ![seq + 1] = "ok"]
        /\ last' = NoReturn
        /\ UNCHANGED <<got, intr>>
  /\ UNCHANGED peer

\* The messages rtnl_dump_filter_l does not skip.
MineAnySender(m) == m.seq = dump
Mine(m) == m.own /\ m.seq = dump

\* Message j of datagram d ends rtnl_dump_filter_l when the filter fails on
\* message f (0: on none).
Ends(d, f, j) == Mine(d[j]) /\ (d[j].type \in {"done", "doneerr", "err", "ack"} \/ j = f)

\* The messages of d before or at j that belong to the dump.
MineUpTo(d, j) == {i \in 1..j : Mine(d[i])}

\* The value of dump_intr after message j of d.
InterruptedHere(d, j) == ~call.nc /\ \E i \in MineUpTo(d, j) : d[i].intr
Interrupted(d, j) == intr \/ (~call.nc /\ \E i \in MineUpTo(d, j) : d[i].intr)

\* rtnl_dump_filter_l reads a datagram that ends the call.
DumpReturn ==
  /\ pc = "dump"
  /\ Pop
  /\ LET d == Head(rcvq) IN
     \E j \in DOMAIN d, f \in 0..(IF set.faults THEN Len(d) ELSE 0) :
       /\ Ends(d, f, j)
       /\ \A i \in 1..(j - 1) : ~Ends(d, f, i)
       /\ LET ok == d[j].type = "done" \/ (d[j].type = "doneerr" /\ call.supp) IN
          Return(call, seq, IF ok THEN "ok" ELSE "fail",
                 got + Cardinality(MineUpTo(d, j - 1)), ok /\ Interrupted(d, j))
  /\ UNCHANGED <<seq, dump, peer, outcome>>

\* rtnl_dump_filter_l reads a datagram and goes on to the next.
DumpNext ==
  /\ pc = "dump"
  /\ Pop
  /\ LET d == Head(rcvq) IN
       /\ \A j \in DOMAIN d : ~Ends(d, 0, j)
       /\ got' = got + Cardinality(MineUpTo(d, Len(d)))
       /\ intr' = Interrupted(d, Len(d))
  /\ UNCHANGED <<seq, dump, pc, call, peer, outcome, last>>

----------------------------------------------------------------------------
(* rtnl_send_check.                                                        *)

\* The kernel handles the next request of the buffer.  The requests carry no
\* NLM_F_ACK: only one that is refused is answered.
SendCheckSend ==
  /\ pc \in {"idle", "flush"}
  /\ seq < MaxSeq
  /\ seq' = seq + 1
  /\ \/ /\ outcome' = [outcome EXCEPT ![seq + 1] = "ok"]
        /\ UNCHANGED rcvq
     \/ /\ set.faults
        /\ outcome' = [outcome EXCEPT ![seq + 1] = "fail"]
        /\ rcvq' = rcvq \o KernelRefuses(seq + 1)
  /\ pc' = "flush"
  /\ call' = IF pc = "flush" THEN call
             ELSE Call("flush", FALSE, FALSE, FALSE, rcvq = <<>>, seq + 1)
  /\ last' = NoReturn
  /\ UNCHANGED <<dump, got, intr, kdump, kintr, peer>>

\* Without waiting, the first datagram of the queue is peeked at, and any
\* NLMSG_ERROR in it, whoever sent it and whatever it answers, is an error.
PeekSeesAckOnly == rcvq # <<>> /\ \E j \in DOMAIN rcvq[1] : rcvq[1][j].type = "ack"
PeekSeesError ==
  rcvq # <<>> /\ \E j \in DOMAIN rcvq[1] : rcvq[1][j].type \in {"ack", "err"}

\* The whole buffer is sent and the answer to it is looked for.
SendCheckPeek ==
  /\ pc = "flush"
  /\ UNCHANGED kintr
  /\ Return(call, seq,
            IF PeekSeesError THEN "fail" ELSE "ok", 0, FALSE)
  /\ UNCHANGED <<seq, dump, rcvq, kdump, peer, outcome>>

----------------------------------------------------------------------------

Init ==
  /\ set \in Settings
  /\ seq = 0 /\ dump = 0
  /\ pc = "new"
  /\ call = NoCall
  /\ got = 0 /\ intr = FALSE
  /\ rcvq = <<>>
  /\ kdump = NoDump
  /\ kintr = [seq |-> 0, total |-> 0, flag |-> FALSE]
  /\ peer = 0
  /\ outcome = [s \in 1..MaxSeq |-> "none"]
  /\ last = NoReturn

Receive == TalkReturn \/ TalkNext \/ DumpReturn \/ DumpNext \/ SendCheckPeek

HandleNext ==
  \/ rtnl_open \/ rtnl_close
  \/ rtnl_talk \/ rtnl_echo_talk
  \/ \E nc, supp \in BOOLEAN : rtnl_dump_request(nc, supp)
  \/ SendCheckSend
  \/ Receive \/ RecvFails
  \/ PeerSend

Next == HandleNext /\ seq' <= set.requests /\ UNCHANGED set

\* recvmsg returns when there is something to read, and the loops around it run
\* without waiting for anything else.
Spec == Init /\ [][Next]_vars /\ WF_vars(Receive /\ UNCHANGED set)

----------------------------------------------------------------------------
(* What the calls promise.                                                 *)

Calls == [kind : Kinds, answer : BOOLEAN, nc : BOOLEAN, supp : BOOLEAN,
          clean : BOOLEAN, first : Nat]

Returns(s) == [call : Calls, seq : 0..s, code : Codes, got : Nat, total : Nat,
               kintr : BOOLEAN, warned : BOOLEAN]

\* The handle's fields, the call's locals and the queue keep their types.
TypeOK ==
  /\ seq \in 0..MaxSeq /\ dump \in 0..seq
  /\ pc \in {"new", "idle", "talk", "dump", "flush", "closed"}
  /\ call \in Calls
  /\ got \in Nat /\ intr \in BOOLEAN
  /\ rcvq \in Seq(Seq(Message))
  /\ kdump \in [seq : 0..seq, left : Nat]
  /\ kintr \in [seq : 0..seq, total : Nat, flag : BOOLEAN]
  /\ peer \in 0..MaxPeer
  /\ outcome \in [1..MaxSeq -> Codes \cup {"none"}]
  /\ last \in Returns(seq)

Talked == last.call.kind \in {"change", "get", "echo"}

\* Without -echo and as long as no call ends early, rtnl_talk reports of its
\* request exactly what the kernel did with it.
TalkTruthful == ~set.echo /\ ~set.faults /\ Talked => last.code = outcome[last.seq]

\* rtnl_talk does not report success of a request the kernel refused, whatever
\* is in the queue, as long as nothing of the request just before it is left
\* there: older leftovers and the messages of other processes are skipped.
CleanTalkTruthful ==
  Talked /\ last.call.clean /\ last.code = "ok" => outcome[last.seq] = "ok"

\* A dump for which rtnl_dump_filter returns 0 has passed every object the kernel
\* reported to the filter exactly once, and none of an earlier dump that was
\* given up half way; only a suppressed error may cut it short.
DumpComplete ==
  last.call.kind = "dump" /\ last.code = "ok" /\ ~last.call.supp => last.got = last.total

\* A dump the kernel flagged as interrupted is never reported as consistent,
\* unless the caller masks the flag.
DumpIntrReported ==
  last.call.kind = "dump" /\ last.code = "ok" /\ ~last.call.nc /\ last.kintr
    => last.warned

\* rtnl_send_check on an empty queue does not miss a request the kernel refused.
\* It looks at one datagram only, so another process's datagram can hide one.
FlushTruthful ==
  last.call.kind = "flush" /\ last.call.clean /\ last.code = "ok" /\ peer = 0 =>
    \A s \in last.call.first..last.seq : outcome[s] = "ok"

\* No call waits for ever: what rtnl_talk and rtnl_dump_filter skip is never the
\* message they wait for.
CallReturns == pc \in {"talk", "dump", "flush"} ~> pc \in {"idle", "closed"}

=============================================================================
