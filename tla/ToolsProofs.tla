----------------------------- MODULE ToolsProofs ----------------------------
(***************************************************************************)
(* Proofs about arpd, for every rate, burst, queue and history of requests *)
(* and packets, and about "devlink dev flash", for any number of status    *)
(* messages and any size of the socket's queue.                            *)
(*                                                                         *)
(* BurstBound is not inductive: the proof has to know that what has been   *)
(* sent at the present time and what is left in the bucket add up to no    *)
(* more than the burst, and that the bucket does not fill at a time at     *)
(* which a probe has been sent, because prev is that time.  The rest of    *)
(* arpd only sends probes the way ArpdProbe does.                          *)
(***************************************************************************)
EXTENDS Arpd, DevlinkFlash, TLAPS

----------------------------------------------------------------------------
(* arpd.                                                                   *)

Spent(t) == sent[t] * broadcast_rate

ProbeInv ==
  /\ ProbeTypeOK
  /\ BurstBound
  /\ \A t \in 1..MaxTime : t > now => sent[t] = 0
  /\ sent[now] # 0 => prev = now /\ Spent(now) + buckets <= broadcast_burst

\* One more probe costs one more broadcast_rate (ProbeSent).
LEMMA OneMore ==
  ASSUME NEW n \in Nat
  PROVE  /\ n * broadcast_rate \in Nat
         /\ (n + 1) * broadcast_rate = n * broadcast_rate + broadcast_rate
  BY ProbeAssumption

\* Nothing sent costs nothing.
LEMMA NoneSent == 0 * broadcast_rate = 0
  BY ProbeAssumption

\* Refill never exceeds the burst, and adds nothing at the time of the last probe.
LEMMA RefillBounds ==
  ASSUME ProbeTypeOK
  PROVE  /\ Refill \in 0..broadcast_burst
         /\ prev = now => Refill = buckets
  BY ProbeAssumption DEF ProbeTypeOK, Refill, Least

\* arpd starts with nothing sent.
LEMMA ProbeInitInv == ProbeInit => ProbeInv
<1> SUFFICES ASSUME ProbeInit PROVE ProbeInv
  BY Zenon
<1>1. ProbeTypeOK
  BY ProbeAssumption DEF ProbeInit, ProbeTypeOK
<1>2. BurstBound
  BY NoneSent, ProbeAssumption DEF ProbeInit, BurstBound
<1> QED
  BY <1>1, <1>2, ProbeAssumption DEF ProbeInit, ProbeInv

\* A probe that is sent keeps the invariant: it is paid for out of the bucket.
LEMMA SentKeeps ==
  ASSUME ProbeInv, ProbeSent, UNCHANGED now
  PROVE  ProbeInv'
<1>0. ProbeTypeOK /\ BurstBound /\ now \in 1..MaxTime /\ sent[now] \in Nat /\ buckets \in Nat
  BY DEF ProbeInv, ProbeTypeOK
<1>1. Refill \in 0..broadcast_burst /\ (prev = now => Refill = buckets)
  BY Zenon, <1>0, RefillBounds
<1>2. /\ sent' \in [1..MaxTime -> Nat]
      /\ sent'[now] = sent[now] + 1
      /\ \A t \in 1..MaxTime : t # now => sent'[t] = sent[t]
  BY <1>0 DEF ProbeSent, ProbeTypeOK
<1>3. ProbeTypeOK'
  BY <1>0, <1>1, <1>2, ProbeAssumption DEF ProbeTypeOK, ProbeSent
<1>4. sent'[now] * broadcast_rate = sent[now] * broadcast_rate + broadcast_rate
  BY Zenon, <1>0, <1>2, OneMore
<1>5. sent[now] * broadcast_rate \in Nat
  BY Zenon, <1>0, OneMore
<1>6. sent[now] * broadcast_rate + Refill <= broadcast_burst
  <2>1. CASE sent[now] = 0
    BY <2>1, <1>1, NoneSent, ProbeAssumption
  <2>2. CASE sent[now] # 0
    BY Zenon, <2>2, <1>1 DEF ProbeInv, Spent
  <2> QED
    BY Zenon, <2>1, <2>2
<1>7. sent'[now] * broadcast_rate + buckets' <= broadcast_burst
  BY <1>1, <1>4, <1>5, <1>6, ProbeAssumption DEF ProbeSent
<1>8. sent'[now] * broadcast_rate <= broadcast_burst
  BY <1>1, <1>4, <1>5, <1>6, ProbeAssumption DEF ProbeSent
<1>9. BurstBound'
  BY Zenon, <1>0, <1>2, <1>8 DEF BurstBound
<1>10. \A t \in 1..MaxTime : t > now' => sent'[t] = 0
  BY <1>0, <1>2 DEF ProbeInv
<1>11. prev' = now' /\ now' = now
  BY Zenon DEF ProbeSent
<1> QED
  BY Zenon, <1>3, <1>7, <1>9, <1>10, <1>11 DEF ProbeInv, Spent

\* A suppressed request keeps the invariant: it fills the bucket only at a time
\* at which nothing has been sent.
LEMMA SuppressedKeeps ==
  ASSUME ProbeInv, ProbeSuppressed, UNCHANGED now
  PROVE  ProbeInv'
<1>1. Refill \in 0..broadcast_burst /\ (prev = now => Refill = buckets)
  BY Zenon, RefillBounds DEF ProbeInv
<1>2. ProbeTypeOK'
  BY Zenon, <1>1 DEF ProbeInv, ProbeTypeOK, ProbeSuppressed
<1>3. sent[now] # 0 => buckets' = buckets
  BY Zenon, <1>1 DEF ProbeInv, ProbeSuppressed
<1> QED
  BY Zenon, <1>2, <1>3 DEF ProbeInv, BurstBound, Spent, ProbeSuppressed

\* When the clock moves on, nothing has been sent yet at the new time.
LEMMA TickKeeps ==
  ASSUME ProbeInv, Tick, UNCHANGED probeVars
  PROVE  ProbeInv'
<1>1. ProbeTypeOK'
  BY ProbeAssumption DEF ProbeInv, ProbeTypeOK, Tick, probeVars
<1>2. now' \in 1..MaxTime /\ now' > now
  BY <1>1 DEF ProbeInv, ProbeTypeOK, Tick
<1>3. sent'[now'] = 0
  BY Zenon, <1>2 DEF ProbeInv, probeVars
<1> QED
  BY <1>1, <1>2, <1>3 DEF ProbeInv, ProbeTypeOK, BurstBound, Tick, probeVars

\* No request, suppressed or not, and no passing of time breaks the invariant.
THEOREM ProbeInductive == ProbeInv /\ [ProbeNext]_<<now, probeVars>> => ProbeInv'
<1> SUFFICES ASSUME ProbeInv, [ProbeNext]_<<now, probeVars>> PROVE ProbeInv'
  BY Zenon
<1>1. CASE queue_active_probe /\ UNCHANGED now
  BY Zenon, <1>1, SentKeeps, SuppressedKeeps DEF queue_active_probe
<1>2. CASE Tick /\ UNCHANGED probeVars
  BY Zenon, <1>2, TickKeeps
<1>3. CASE UNCHANGED <<now, probeVars>>
  BY Zenon, <1>3 DEF probeVars, ProbeInv, ProbeTypeOK, BurstBound, Spent
<1> QED
  BY Zenon, <1>1, <1>2, <1>3 DEF ProbeNext

\* However often the kernel asks, however many probes fail or are suppressed,
\* arpd sends no more probes at one time than the burst allows.
THEOREM ProbesWithinBurst == ProbeSpec => []BurstBound
<1>1. ProbeInv => BurstBound
  BY Zenon DEF ProbeInv
<1> QED
  BY ProbeInitInv, ProbeInductive, <1>1, PTL DEF ProbeSpec

----------------------------------------------------------------------------
(* The loop of arpd.                                                       *)

\* What the loop does to the rate limiter.
LEMMA LoopProbes == ASSUME ArpdNext PROVE [ProbeNext]_<<now, probeVars>>
<1>1. CASE get_kern_msg
  <2>1. queue_active_probe \/ UNCHANGED probeVars
    BY Zenon, <1>1 DEF get_kern_msg, do_one_request, DumpDone, NotWatched, AskedProbe, AskedIncomplete,
      Failed, Resolved, Probe, NoProbe
  <2> QED
    BY Zenon, <1>1, <2>1 DEF get_kern_msg, ProbeNext
<1>2. CASE Time
  BY Zenon, <1>2 DEF Time, ProbeNext
<1>3. CASE KernelMessage \/ ArpPacket \/ Signal
  BY Zenon, <1>3 DEF KernelMessage, ArpPacket, Signal
<1>4. CASE LoopTop \/ Sync \/ Synced \/ send_stats \/ PollReady \/ PollTimeout
  BY Zenon, <1>4 DEF LoopTop, Sync, Synced, send_stats, PollReady, PollTimeout
<1>5. CASE get_arp_pkt \/ undo_sysctl_adjustments \/ CloseBegins \/ CloseEnds
  BY Zenon, <1>5 DEF get_arp_pkt, undo_sysctl_adjustments, CloseBegins, CloseEnds
<1> QED
  BY Zenon, <1>1, <1>2, <1>3, <1>4, <1>5 DEF ArpdNext, Main

\* The whole of arpd, with its two sockets, its database and its signals, implements the
\* rate limiter.
THEOREM ArpdLimitsProbes == ArpdSpec => ProbeSpec
<1>1. ArpdInit => ProbeInit
  BY Zenon DEF ArpdInit
<1>2. [ArpdNext]_arpdVars => [ProbeNext]_<<now, probeVars>>
  BY Zenon, LoopProbes DEF arpdVars
<1> QED
  BY <1>1, <1>2, PTL DEF ArpdSpec, ProbeSpec

\* However often the kernel asks arpd, and whatever it hears in between, it sends no more
\* probes at one time than the burst allows (queue_active_probe).
THEOREM ArpdWithinBurst == ArpdSpec => []BurstBound
  BY ArpdLimitsProbes, ProbesWithinBurst, PTL

----------------------------------------------------------------------------
(* What the kernel is told.                                                *)

\* An address, or none.
NoMac == ""
Hearable == Macs \cup {NoMac}

EntryRec == [kind : {"none", "mac", "neg"}, mac : Hearable, stamp : Nat, cnt : Nat]
PacketRec == [addr : Addrs, mac : Macs]

\* The database and the addresses heard go together, key by key.
HeardInv ==
  /\ now \in Nat
  /\ db \in [Addrs -> EntryRec]
  /\ heard \in [Addrs -> Hearable]
  /\ arpq \in Seq(PacketRec)
  /\ pc = "arp" => arpq # <<>>
  /\ \A a \in Addrs : db[a].kind = "mac" => heard[a] = db[a].mac
  /\ told.said = told.heard

\* The entries that arpd makes.
LEMMA EntryTypes ==
  /\ NoMac \in Hearable
  /\ None \in EntryRec /\ None.kind # "mac"
  /\ now \in Nat => prepare_neg_entry \in EntryRec /\ prepare_neg_entry.kind # "mac"
  /\ \A m \in Macs : Mac(m) \in EntryRec /\ Mac(m).mac = m /\ m \in Hearable
<1>1. 0 \in Nat
  BY Zenon
<1>2. NoMac \in Hearable /\ \A m \in Macs : m \in Hearable
  BY Zenon DEF Hearable
<1>3. None \in EntryRec /\ None.kind # "mac"
  BY <1>1, <1>2, Zenon DEF None, EntryRec, NoMac
<1>4. now \in Nat => prepare_neg_entry \in EntryRec /\ prepare_neg_entry.kind # "mac"
  BY <1>1, <1>2, Zenon DEF prepare_neg_entry, EntryRec, NoMac
<1>5. \A m \in Macs : Mac(m) \in EntryRec /\ Mac(m).mac = m
  BY <1>1, <1>2, Zenon DEF Mac, EntryRec
<1> QED
  BY <1>2, <1>3, <1>4, <1>5, Zenon

\* arpd starts with what the database of its predecessor holds.
LEMMA HeardInit == ArpdInit => HeardInv
<1> SUFFICES ASSUME ArpdInit PROVE HeardInv
  BY Zenon
<1>1. None \in EntryRec /\ \A m \in Macs : Mac(m) \in EntryRec
  BY EntryTypes, Zenon
<1>2. db \in [Addrs -> EntryRec]
  <2>1. db \in [Addrs -> {None} \cup {Mac(m) : m \in Macs}]
    BY Zenon DEF ArpdInit
  <2> QED
    BY <1>1, <2>1
<1>3. \A a \in Addrs : db[a].mac \in Hearable
  BY Zenon, <1>2 DEF EntryRec
<1>4. /\ now = 1 /\ heard = [a \in Addrs |-> db[a].mac] /\ arpq = <<>> /\ pc = "top"
      /\ told.said = told.heard
  BY Zenon DEF ArpdInit, ProbeInit
<1> QED
  BY <1>2, <1>3, <1>4 DEF HeardInv

\* An entry of the database is replaced together with what was heard.
LEMMA BothReplaced ==
  ASSUME HeardInv, now' \in Nat, NEW a \in Addrs, NEW e \in EntryRec, NEW h \in Hearable,
         e.kind = "mac" => h = e.mac,
         db' = [db EXCEPT ![a] = e], heard' = [heard EXCEPT ![a] = h], told' = told,
         arpq' \in Seq(PacketRec), pc' = "arp" => arpq' # <<>>
  PROVE  HeardInv'
<1>1. db' \in [Addrs -> EntryRec] /\ heard' \in [Addrs -> Hearable]
  BY Zenon DEF HeardInv
<1>2. ASSUME NEW b \in Addrs, db'[b].kind = "mac" PROVE heard'[b] = db'[b].mac
  BY Zenon, <1>2 DEF HeardInv
<1> QED
  BY Zenon, <1>1, <1>2 DEF HeardInv

\* A request of the kernel (do_one_request).
LEMMA RequestHeard ==
  ASSUME HeardInv, NEW m, do_one_request(m), now' = now, UNCHANGED arpq, pc' = "top"
  PROVE  HeardInv'
<1>0. /\ now \in Nat /\ now' \in Nat
      /\ db \in [Addrs -> EntryRec] /\ heard \in [Addrs -> Hearable]
      /\ arpq' \in Seq(PacketRec) /\ (pc' = "arp" => arpq' # <<>>)
  BY Zenon DEF HeardInv
<1>1. CASE DumpDone(m) \/ NotWatched(m)
  BY Zenon, <1>1 DEF DumpDone, NotWatched, HeardInv
<1>2. CASE m.addr \in Watched
  <2> DEFINE a == m.addr
  <2>0. a \in Addrs /\ db[a] \in EntryRec
    BY Zenon, <1>0, <1>2, ArpdAssumption
  <2> HIDE DEF a
  <2>1. CASE AskedProbe(m)
    <3>1. db' = [db EXCEPT ![a] = None] /\ heard' = [heard EXCEPT ![a] = NoMac] /\ told' = told
      BY <2>1, Zenon DEF AskedProbe, Withdraw, a, NoMac
    <3> QED
      BY Zenon, <2>0, <3>1, <1>0, EntryTypes, BothReplaced
  <2>2. CASE Failed(m)
    <3>1. /\ db' = [db EXCEPT ![a] = prepare_neg_entry] \/ (db' = db /\ db[a].kind = "neg")
          /\ heard' = [heard EXCEPT ![a] = NoMac] /\ told' = told
      BY <2>2, Zenon DEF Failed, a, NoMac
    <3>2. CASE db' = [db EXCEPT ![a] = prepare_neg_entry]
      BY Zenon, <2>0, <3>1, <3>2, <1>0, EntryTypes, BothReplaced
    <3>3. CASE db' = db /\ db[a].kind = "neg"
      <4>1. db' = [db EXCEPT ![a] = db[a]]
        BY Zenon, <3>3, <1>0
      <4> QED
        BY Zenon, <2>0, <3>1, <3>3, <4>1, <1>0, EntryTypes, BothReplaced
    <3> QED
      BY Zenon, <3>1, <3>2, <3>3
  <2>3. CASE Resolved(m)
    <3>1. /\ m.arg \in Macs /\ told' = told
          /\ db' = [db EXCEPT ![a] = Mac(m.arg)] /\ heard' = [heard EXCEPT ![a] = m.arg]
      BY <2>3, Zenon DEF Resolved, a
    <3> QED
      BY Zenon, <2>0, <3>1, <1>0, EntryTypes, BothReplaced
  <2>4. CASE AskedIncomplete(m)
    <3>1. heard' = heard
      BY Zenon, <2>4 DEF AskedIncomplete
    <3>2. CASE db' = db /\ told' = [said |-> db[a].mac, heard |-> heard[a]] /\ db[a].kind = "mac"
      BY Zenon, <3>1, <3>2, <2>0, <1>0 DEF HeardInv
    <3>3. CASE db' = db /\ told' = told
      BY Zenon, <3>1, <3>3, <1>0 DEF HeardInv
    <3>4. CASE db' = [db EXCEPT ![a].cnt = @ + 1] /\ db[a].kind # "mac" /\ told' = told
      <4>0. db[a].cnt + 1 \in Nat
        BY <2>0 DEF EntryRec
      <4>1. [db[a] EXCEPT !.cnt = @ + 1] \in EntryRec
        BY <2>0, <4>0, Zenon DEF EntryRec
      <4>2. [db[a] EXCEPT !.cnt = @ + 1].kind # "mac"
        BY Zenon, <2>0, <3>4 DEF EntryRec
      <4>3. heard' = [heard EXCEPT ![a] = heard[a]] /\ heard[a] \in Hearable
        BY Zenon, <1>0, <2>0, <3>1
      <4>4. db' = [db EXCEPT ![a] = [db[a] EXCEPT !.cnt = @ + 1]]
        BY <3>4, Zenon
      <4> QED
        BY Zenon, <4>1, <4>2, <4>3, <4>4, <3>4, <2>0, <1>0, BothReplaced
    <3> QED
      BY Zenon, <2>4, <3>2, <3>3, <3>4 DEF AskedIncomplete, Account, a
  <2> QED
    BY Zenon, <1>2, <2>1, <2>2, <2>3, <2>4, <1>1 DEF do_one_request
<1> QED
  BY Zenon, <1>1, <1>2 DEF do_one_request

\* Every step keeps the database and the addresses heard together.
LEMMA HeardStep == HeardInv /\ [ArpdNext]_arpdVars => HeardInv'
<1> SUFFICES ASSUME HeardInv, [ArpdNext]_arpdVars PROVE HeardInv'
  BY Zenon
<1>1. CASE get_kern_msg
  BY Zenon, <1>1, RequestHeard DEF get_kern_msg
<1>2. CASE get_arp_pkt
  <2> DEFINE p == Head(arpq)
  <2>0. /\ p \in PacketRec /\ arpq' \in Seq(PacketRec)
        /\ now' \in Nat /\ pc' # "arp" /\ told' = told
    BY <1>2 DEF get_arp_pkt, HeardInv
  <2>1. CASE p.addr \in Watched
    <3>1. db' = [db EXCEPT ![p.addr] = Mac(p.mac)] /\ heard' = [heard EXCEPT ![p.addr] = p.mac]
      BY Zenon, <1>2, <2>1 DEF get_arp_pkt
    <3>2. p.addr \in Addrs /\ p.mac \in Macs
      BY Zenon, <2>0 DEF PacketRec
    <3> HIDE DEF p
    <3> QED
      BY Zenon, <2>0, <3>1, <3>2, EntryTypes, BothReplaced
  <2>2. CASE p.addr \notin Watched
    BY Zenon, <1>2, <2>0, <2>2 DEF get_arp_pkt, HeardInv
  <2> QED
    BY Zenon, <2>1, <2>2
<1>3. CASE UNCHANGED <<db, ghosts, arpq>> /\ now' \in Nat /\ (pc' = "arp" => pc = "arp" \/ arpq # <<>>)
  BY Zenon, <1>3 DEF ghosts, HeardInv
<1>4. CASE Time
  <2>1. now' \in Nat
    BY <1>4 DEF Time, Tick, HeardInv
  <2> QED
    BY Zenon, <1>3, <1>4, <2>1 DEF Time, inputs
<1>5. CASE ArpPacket
  <2>1. arpq' \in Seq(PacketRec) /\ arpq' # <<>>
    BY <1>5 DEF ArpPacket, HeardInv, PacketRec
  <2> QED
    BY Zenon, <1>5, <2>1 DEF ArpPacket, HeardInv, ghosts
<1>6. CASE KernelMessage \/ Signal
  BY Zenon, <1>3, <1>6 DEF KernelMessage, Signal, inputs, HeardInv
<1>7. CASE LoopTop \/ Sync \/ Synced \/ send_stats
  BY Zenon, <1>3, <1>7 DEF LoopTop, Sync, Synced, send_stats, inputs, HeardInv
<1>8. CASE PollReady \/ PollTimeout
  BY Zenon, <1>3, <1>8 DEF PollReady, PollTimeout, Ready, inputs, HeardInv
<1>9. CASE undo_sysctl_adjustments \/ CloseBegins \/ CloseEnds
  BY Zenon, <1>3, <1>9 DEF undo_sysctl_adjustments, CloseBegins, CloseEnds, inputs, HeardInv
<1>10. CASE UNCHANGED arpdVars
  BY Zenon, <1>3, <1>10 DEF arpdVars, inputs, HeardInv
<1> QED
  BY Zenon, <1>1, <1>2, <1>4, <1>5, <1>6, <1>7, <1>8, <1>9, <1>10 DEF ArpdNext, Main

\* arpd never tells the kernel another address than the one heard last, whichever socket
\* it was heard on and however packets, requests and withdrawals are interleaved.
THEOREM KernelIsToldHeard == ArpdSpec => []KernelToldHeard
<1>1. HeardInv => KernelToldHeard
  BY Zenon DEF HeardInv, KernelToldHeard
<1> QED
  BY HeardInit, HeardStep, <1>1, PTL DEF ArpdSpec

----------------------------------------------------------------------------
(* Signals.                                                                *)

\* A SIGHUP that arrives after dbase->sync and before do_sync is reset asks for what is on
\* disk already: no handler of a message runs in between.
SyncInv ==
  /\ SyncKept
  /\ pc = "synced" => disk = db /\ ~hup

\* Every step keeps it.
LEMMA SyncStep == SyncInv /\ [ArpdNext]_arpdVars => SyncInv'
<1> SUFFICES ASSUME SyncInv, [ArpdNext]_arpdVars PROVE SyncInv'
  BY Zenon
<1> USE DEF SyncInv, SyncKept
<1>1. CASE get_kern_msg
  <2>1. \A m : do_one_request(m) => hup' = hup \/ hup' = FALSE
    BY Zenon DEF do_one_request, DumpDone, NotWatched, AskedProbe, AskedIncomplete, Failed, Resolved
  <2> QED
    BY Zenon, <1>1, <2>1 DEF get_kern_msg, flags
<1>2. CASE get_arp_pkt
  BY Zenon, <1>2 DEF get_arp_pkt, flags, mainVars
<1>3. CASE Signal
  BY Zenon, <1>3 DEF Signal
<1>4. CASE KernelMessage \/ ArpPacket \/ Time
  BY <1>4 DEF KernelMessage, ArpPacket, Time, flags, mainVars
<1>5. CASE LoopTop
  BY Zenon, <1>5 DEF LoopTop, mainVars
<1>6. CASE Sync \/ Synced \/ send_stats
  BY <1>6 DEF Sync, Synced, send_stats, flags, mainVars
<1>7. CASE PollReady \/ PollTimeout
  BY <1>7 DEF PollReady, PollTimeout, mainVars
<1>8. CASE undo_sysctl_adjustments \/ CloseBegins \/ CloseEnds
  BY <1>8 DEF undo_sysctl_adjustments, CloseBegins, CloseEnds, flags
<1>9. CASE UNCHANGED arpdVars
  BY Zenon, <1>9 DEF arpdVars, flags, mainVars
<1> QED
  BY Zenon, <1>1, <1>2, <1>3, <1>4, <1>5, <1>6, <1>7, <1>8, <1>9 DEF ArpdNext, Main

\* Whenever the signal comes, what a SIGHUP asks for is on disk when do_sync is reset.
THEOREM SyncsAreKept == ArpdSpec => []SyncKept
<1>1. ArpdInit => SyncInv
  BY Zenon DEF ArpdInit, SyncInv, SyncKept
<1>2. SyncInv => SyncKept
  BY Zenon DEF SyncInv
<1> QED
  BY <1>1, SyncStep, <1>2, PTL DEF ArpdSpec

\* How far the end of main has got.
ExitInv ==
  /\ ExitsGracefully
  /\ ~late =>
       /\ pc \notin {"closing", "exit"} => closes = 0
       /\ pc = "closing" => closes = 1
       /\ pc \in {"close", "closing"} => ~sysctl_adjusted

\* Every step keeps it.
LEMMA ExitStep == ExitInv /\ [ArpdNext]_arpdVars => ExitInv'
<1> SUFFICES ASSUME ExitInv, [ArpdNext]_arpdVars PROVE ExitInv'
  BY Zenon
<1> USE DEF ExitInv, ExitsGracefully
<1>1. CASE get_kern_msg
  BY Zenon, <1>1 DEF get_kern_msg
<1>2. CASE get_arp_pkt
  BY Zenon, <1>2 DEF get_arp_pkt, mainVars
<1>3. CASE Signal
  BY Zenon, <1>3 DEF Signal, Leaving
<1>4. CASE KernelMessage \/ ArpPacket \/ Time
  BY <1>4 DEF KernelMessage, ArpPacket, Time, mainVars
<1>5. CASE LoopTop
  BY Zenon, <1>5 DEF LoopTop, mainVars
<1>6. CASE Sync \/ Synced \/ send_stats
  BY Zenon, <1>6 DEF Sync, Synced, send_stats, mainVars
<1>7. CASE PollReady \/ PollTimeout
  BY Zenon, <1>7 DEF PollReady, PollTimeout, mainVars
<1>8. CASE undo_sysctl_adjustments \/ CloseBegins \/ CloseEnds
  BY <1>8 DEF undo_sysctl_adjustments, CloseBegins, CloseEnds
<1>9. CASE UNCHANGED arpdVars
  BY Zenon, <1>9 DEF arpdVars, mainVars
<1> QED
  BY Zenon, <1>1, <1>2, <1>3, <1>4, <1>5, <1>6, <1>7, <1>8, <1>9 DEF ArpdNext, Main

\* Unless a signal comes after the loop was left, arpd exits with everything on disk, with
\* the database closed once and the sysctls restored, wherever the first signal found it.
THEOREM ArpdExitsGracefully == ArpdSpec => []ExitsGracefully
<1>1. ArpdInit => ExitInv
  BY Zenon DEF ArpdInit, ExitInv, ExitsGracefully
<1>2. ExitInv => ExitsGracefully
  BY Zenon DEF ExitInv
<1> QED
  BY <1>1, ExitStep, <1>2, PTL DEF ArpdSpec

----------------------------------------------------------------------------
(* "devlink dev flash".                                                    *)

Messages == [type : {"BEGIN", "STATUS", "END", "ELSE"}, own : BOOLEAN]
Fds == {"nlfd", "pipe_r"}
ParentPcs == {"select", "nlfd", "pipe_r", "answer", "returned"}
Rets == {"none", "success", "error", "killed"}
CtxRec == [not_first : BOOLEAN, received_end : BOOLEAN, flash_done : BOOLEAN,
           last : {"unset", "set", "freed"}]

\* The types of the state; what select found in the socket is still there when it is read.
FlashTypeInv ==
  /\ fset \in FlashSetups
  /\ flash \in {"none", "running", "good", "bad"}
  /\ queue \in [msgs : Seq(Messages), lost : BOOLEAN]
  /\ answer \in {"none", "good", "bad"}
  /\ pipe \in [data : BOOLEAN, err : BOOLEAN, open : BOOLEAN]
  /\ parent \in [pc : ParentPcs, fds : SUBSET Fds, ret : Rets]
  /\ ctx \in CtxRec
  /\ parent.pc = "nlfd" /\ "nlfd" \in parent.fds => queue.msgs # <<>> \/ queue.lost

----------------------------------------------------------------------------
(* What is put into the queue.                                             *)

\* A notification joins the queue or is lost.
LEMMA NotifyFields ==
  ASSUME FlashTypeInv, NEW m \in Messages, Notify(m)
  PROVE  /\ queue' \in [msgs : Seq(Messages), lost : BOOLEAN]
         /\ \/ queue'.msgs = Append(queue.msgs, m) /\ queue'.lost = queue.lost
            \/ queue'.msgs = queue.msgs /\ queue'.lost = TRUE
<1>1. queue \in [msgs : Seq(Messages), lost : BOOLEAN]
  BY Zenon DEF FlashTypeInv
<1>2. queue.msgs \in Seq(Messages) /\ queue.lost \in BOOLEAN
  BY <1>1, Zenon
<1> DEFINE q1 == [queue EXCEPT !.msgs = Append(queue.msgs, m)]
           q2 == [queue EXCEPT !.lost = TRUE]
<1>3. Append(queue.msgs, m) \in Seq(Messages)
  BY <1>2
<1>4. q1 \in [msgs : Seq(Messages), lost : BOOLEAN]
  BY <1>1, <1>3, Zenon
<1>5. q2 \in [msgs : Seq(Messages), lost : BOOLEAN]
  BY <1>1, Zenon
<1>6. /\ q1.msgs = Append(queue.msgs, m) /\ q1.lost = queue.lost
      /\ q2.msgs = queue.msgs /\ q2.lost = TRUE
  BY Zenon, <1>1
<1>7. queue' = q1 \/ queue' = q2
  BY Zenon DEF Notify
<1> HIDE DEF q1, q2
<1> QED
  BY <1>4, <1>5, <1>6, <1>7, Zenon

\* The notifications of the model are messages.
LEMMA MsgType ==
  ASSUME NEW t \in {"BEGIN", "STATUS", "END", "ELSE"}, NEW b \in BOOLEAN
  PROVE  Msg(t, b) \in Messages /\ Msg(t, b).type = t
  BY Zenon DEF Msg, Messages

\* The callback's effect on its context.
LEMMA StatusCbFields ==
  ASSUME FlashTypeInv, NEW m \in Messages
  PROVE  /\ StatusCb(m) \in CtxRec
         /\ StatusCb(m).flash_done = ctx.flash_done
         /\ m.type = "STATUS" => /\ StatusCb(m).not_first
                                 /\ StatusCb(m).received_end = ctx.received_end
         /\ m.type = "END" => /\ StatusCb(m).received_end
                              /\ StatusCb(m).not_first = ctx.not_first
         /\ m.type \in {"BEGIN", "ELSE"} => StatusCb(m) = ctx
<1>1. ctx \in CtxRec
  BY Zenon DEF FlashTypeInv
<1>2. CASE m.type = "END"
  <2> DEFINE l == IF ctx.last = "unset" THEN ctx.last ELSE "freed"
             c1 == [ctx EXCEPT !.received_end = TRUE]
             c2 == [c1 EXCEPT !.last = l]
  <2>1. c1 \in CtxRec
    BY <1>1, Zenon DEF CtxRec
  <2>2. l \in {"unset", "set", "freed"}
    BY Zenon
  <2> HIDE DEF l
  <2>3. c2 \in CtxRec
    BY <2>1, <2>2, Zenon DEF CtxRec
  <2>4. c2.received_end = TRUE /\ c2.not_first = ctx.not_first /\ c2.flash_done = ctx.flash_done
    BY Zenon, <1>1 DEF CtxRec
  <2>5. StatusCb(m) = c2
    BY Zenon, <1>1, <1>2 DEF StatusCb, CtxRec, l
  <2> HIDE DEF c2
  <2> QED
    BY Zenon, <1>2, <2>3, <2>4, <2>5
<1>3. CASE m.type = "STATUS"
  <2> DEFINE c1 == [ctx EXCEPT !.not_first = TRUE]
             c2 == [c1 EXCEPT !.last = "set"]
  <2>1. c1 \in CtxRec
    BY <1>1, Zenon DEF CtxRec
  <2>2. c2 \in CtxRec
    BY <2>1, Zenon DEF CtxRec
  <2>3. c2.not_first = TRUE /\ c2.received_end = ctx.received_end /\ c2.flash_done = ctx.flash_done
    BY Zenon, <1>1 DEF CtxRec
  <2>4. StatusCb(m) = c2
    BY Zenon, <1>1, <1>3 DEF StatusCb, CtxRec
  <2> HIDE DEF c2
  <2> QED
    BY Zenon, <1>3, <2>2, <2>3, <2>4
<1>4. CASE m.type \in {"BEGIN", "ELSE"}
  BY Zenon, <1>1, <1>4 DEF StatusCb
<1> QED
  BY Zenon, <1>2, <1>3, <1>4 DEF Messages

\* The parent leaves.
LEMMA LeaveFields ==
  ASSUME NEW x \in Rets, Leave(x)
  PROVE  /\ parent' \in [pc : ParentPcs, fds : SUBSET Fds, ret : Rets]
         /\ parent'.pc = "returned" /\ parent'.fds = {} /\ parent'.ret = x
  BY Zenon DEF Leave, ParentPcs

\* It goes on within the loop.
LEMMA StepFields ==
  ASSUME FlashTypeInv, NEW c \in ParentPcs, parent' = [parent EXCEPT !.pc = c]
  PROVE  /\ parent' \in [pc : ParentPcs, fds : SUBSET Fds, ret : Rets]
         /\ parent'.pc = c /\ parent'.fds = parent.fds /\ parent'.ret = parent.ret
  BY Zenon DEF FlashTypeInv

\* select() records which of the two descriptors are ready.
LEMMA SelectFields ==
  ASSUME FlashTypeInv, Select
  PROVE  /\ parent' \in [pc : ParentPcs, fds : SUBSET Fds, ret : Rets]
         /\ parent.pc = "select" /\ parent'.pc = "nlfd" /\ parent'.fds = ReadyFds
         /\ parent'.ret = parent.ret
<1>1. ReadyFds \in SUBSET Fds
  BY Zenon DEF ReadyFds, Fds
<1>2. parent \in [pc : ParentPcs, fds : SUBSET Fds, ret : Rets]
  BY Zenon DEF FlashTypeInv
<1> DEFINE p1 == [parent EXCEPT !.pc = "nlfd"]
           p2 == [p1 EXCEPT !.fds = ReadyFds]
<1>3. p1 \in [pc : ParentPcs, fds : SUBSET Fds, ret : Rets]
  BY <1>2, Zenon DEF ParentPcs
<1>4. p2 \in [pc : ParentPcs, fds : SUBSET Fds, ret : Rets]
  BY <1>1, <1>3, Zenon
<1>5. p2.pc = "nlfd" /\ p2.fds = ReadyFds /\ p2.ret = parent.ret
  BY Zenon, <1>2
<1>6. parent' = p2 /\ parent.pc = "select"
  BY Zenon DEF Select
<1> HIDE DEF p2
<1> QED
  BY Zenon, <1>4, <1>5, <1>6

\* A notification is read, or the parent leaves.
LEMMA ReadNotificationFields ==
  ASSUME FlashTypeInv, ReadNotification
  PROVE  /\ queue' \in [msgs : Seq(Messages), lost : BOOLEAN]
         /\ parent' \in [pc : ParentPcs, fds : SUBSET Fds, ret : Rets]
         /\ ctx' \in CtxRec
         /\ parent.pc = "nlfd" /\ "nlfd" \in parent.fds
         /\ \/ /\ parent'.pc = "returned" /\ parent'.fds = {} /\ parent'.ret \in {"error", "killed"}
               /\ ctx' = ctx
               /\ queue'.msgs = queue.msgs \/ queue'.msgs = Tail(queue.msgs)
            \/ /\ queue.lost = FALSE /\ queue'.lost = FALSE
               /\ queue'.msgs = Tail(queue.msgs)
               /\ ctx' = StatusCb(Head(queue.msgs))
               /\ parent'.pc = "pipe_r" /\ parent'.fds = parent.fds /\ parent'.ret = parent.ret
<1> DEFINE P == [pc : ParentPcs, fds : SUBSET Fds, ret : Rets]
<1>1. /\ queue \in [msgs : Seq(Messages), lost : BOOLEAN] /\ ctx \in CtxRec
      /\ parent.pc = "nlfd" /\ "nlfd" \in parent.fds
      /\ queue.msgs # <<>> \/ queue.lost
  BY Zenon DEF FlashTypeInv, ReadNotification
<1>2. queue.msgs \in Seq(Messages) /\ queue.lost \in BOOLEAN
  BY <1>1, Zenon
<1>3. CASE /\ queue.lost /\ queue' = [queue EXCEPT !.lost = FALSE]
           /\ Leave("error") /\ UNCHANGED ctx
  <2>1. queue' \in [msgs : Seq(Messages), lost : BOOLEAN] /\ queue'.msgs = queue.msgs
    BY Zenon, <1>1, <1>3
  <2>2. parent' \in P /\ parent'.pc = "returned" /\ parent'.fds = {} /\ parent'.ret = "error"
    BY Zenon, <1>3, LeaveFields DEF Rets
  <2> QED
    BY <1>1, <1>3, <2>1, <2>2, Zenon
<1>4. CASE ~queue.lost /\ queue' = [queue EXCEPT !.msgs = Tail(@)]
  <2>1. queue.lost = FALSE /\ queue.msgs # <<>>
    BY Zenon, <1>1, <1>2, <1>4
  <2>2. Tail(queue.msgs) \in Seq(Messages) /\ Head(queue.msgs) \in Messages
    BY <1>2, <2>1
  <2>3. queue' = [queue EXCEPT !.msgs = Tail(queue.msgs)]
    BY <1>4, Zenon
  <2>4. queue' \in [msgs : Seq(Messages), lost : BOOLEAN]
    BY <1>1, <2>2, <2>3, Zenon
  <2>5. queue'.msgs = Tail(queue.msgs) /\ queue'.lost = FALSE
    BY Zenon, <1>1, <2>1, <2>3
  <2>6. CASE ctx' = StatusCb(Head(queue.msgs)) /\ parent' = [parent EXCEPT !.pc = "pipe_r"]
    <3>1. ctx' \in CtxRec
      BY Zenon, <2>2, <2>6, StatusCbFields
    <3>2. /\ parent' \in P /\ parent'.pc = "pipe_r" /\ parent'.fds = parent.fds
          /\ parent'.ret = parent.ret
      BY Zenon, <2>6, StepFields DEF ParentPcs
    <3> QED
      BY Zenon, <1>1, <2>1, <2>4, <2>5, <2>6, <3>1, <3>2
  <2>7. CASE Leave("killed") /\ UNCHANGED ctx
    <3>1. parent' \in P /\ parent'.pc = "returned" /\ parent'.fds = {} /\ parent'.ret = "killed"
      BY Zenon, <2>7, LeaveFields DEF Rets
    <3> QED
      BY Zenon, <1>1, <2>4, <2>5, <2>7, <3>1
  <2> QED
    BY Zenon, <1>4, <2>1, <2>6, <2>7 DEF ReadNotification
<1> QED
  BY Zenon, <1>3, <1>4 DEF ReadNotification

\* The pipe is read, or nothing is in it; the loop goes on, ends or is left.
LEMMA ReadPipeFields ==
  ASSUME FlashTypeInv, ReadPipe
  PROVE  /\ pipe' \in [data : BOOLEAN, err : BOOLEAN, open : BOOLEAN]
         /\ parent' \in [pc : ParentPcs, fds : SUBSET Fds, ret : Rets]
         /\ ctx' \in CtxRec
         /\ parent.pc = "pipe_r"
         /\ \/ parent'.pc = "returned" /\ parent'.fds = {} /\ parent'.ret = "error" /\ ctx' = ctx
            \/ /\ parent'.fds = parent.fds /\ parent'.ret = parent.ret
               /\ parent'.pc = IF OnceMore(ctx') THEN "select" ELSE "answer"
               /\ ctx'.not_first = ctx.not_first /\ ctx'.received_end = ctx.received_end
               /\ ctx'.flash_done = (ctx.flash_done \/ "pipe_r" \in parent.fds)
<1> DEFINE P == [pc : ParentPcs, fds : SUBSET Fds, ret : Rets]
<1>1. /\ pipe \in [data : BOOLEAN, err : BOOLEAN, open : BOOLEAN] /\ ctx \in CtxRec /\ parent.pc = "pipe_r"
  BY Zenon DEF FlashTypeInv, ReadPipe
<1>2. pipe' \in [data : BOOLEAN, err : BOOLEAN, open : BOOLEAN]
  BY Zenon, <1>1 DEF ReadPipe
<1>3. ASSUME NEW c \in CtxRec, Loop(c)
      PROVE  /\ parent' \in P /\ parent'.fds = parent.fds /\ parent'.ret = parent.ret
             /\ parent'.pc = IF OnceMore(ctx') THEN "select" ELSE "answer"
             /\ ctx' = c
  <2> DEFINE n == IF OnceMore(c) THEN "select" ELSE "answer"
  <2>1. n \in ParentPcs
    BY Zenon DEF ParentPcs
  <2>2. parent' = [parent EXCEPT !.pc = n] /\ ctx' = c
    BY Zenon, <1>3 DEF Loop
  <2>3. n = IF OnceMore(ctx') THEN "select" ELSE "answer"
    BY Zenon, <2>2
  <2> HIDE DEF n
  <2> QED
    BY Zenon, <2>1, <2>2, <2>3, StepFields
<1>4. CASE "pipe_r" \notin parent.fds
  <2>1. Loop(ctx)
    BY Zenon, <1>4 DEF ReadPipe
  <2>2. ctx.flash_done = (ctx.flash_done \/ "pipe_r" \in parent.fds)
    BY Zenon, <1>1, <1>4 DEF CtxRec
  <2> QED
    BY Zenon, <1>1, <1>2, <1>3, <2>1, <2>2
<1>5. CASE "pipe_r" \in parent.fds
  <2> DEFINE c == [ctx EXCEPT !.flash_done = TRUE]
  <2>1. c \in CtxRec
    BY <1>1, Zenon DEF CtxRec
  <2>2. /\ c.not_first = ctx.not_first /\ c.received_end = ctx.received_end
        /\ c.flash_done = (ctx.flash_done \/ "pipe_r" \in parent.fds)
    BY Zenon, <1>1, <1>5 DEF CtxRec
  <2>3. Loop(c) \/ (Leave("error") /\ UNCHANGED ctx)
    BY Zenon, <1>5 DEF ReadPipe
  <2> HIDE DEF c
  <2>4. CASE Loop(c)
    BY Zenon, <1>1, <1>2, <1>3, <2>1, <2>2, <2>4
  <2>5. CASE Leave("error") /\ UNCHANGED ctx
    BY Zenon, <1>1, <1>2, <2>5, LeaveFields DEF Rets
  <2> QED
    BY Zenon, <2>3, <2>4, <2>5
<1> QED
  BY Zenon, <1>4, <1>5

\* The pipe after a step of the child.
LEMMA ChildPipe ==
  ASSUME FlashTypeInv, ChildWrite \/ ChildExit \/ ChildKilled
  PROVE  pipe' \in [data : BOOLEAN, err : BOOLEAN, open : BOOLEAN]
<1> DEFINE P == [data : BOOLEAN, err : BOOLEAN, open : BOOLEAN]
<1>1. pipe \in P
  BY Zenon DEF FlashTypeInv
<1>2. CASE ChildWrite
  <2> DEFINE e == child = "failed"
             p1 == [pipe EXCEPT !.data = TRUE]
             p2 == [p1 EXCEPT !.err = e]
  <2>1. p1 \in P
    BY <1>1, Zenon
  <2>2. e \in BOOLEAN
    BY Zenon
  <2>3. pipe' = p2
    BY <1>2, Zenon DEF ChildWrite
  <2> HIDE DEF e, p1
  <2> QED
    BY <2>1, <2>2, <2>3, Zenon
<1>3. CASE ChildExit \/ ChildKilled
  BY <1>1, <1>3, Zenon DEF ChildExit, ChildKilled
<1> QED
  BY <1>2, <1>3, Zenon

----------------------------------------------------------------------------
(* The types hold.                                                         *)

\* The types hold when the command has sent nothing yet.
LEMMA TypesInit == FlashInit => FlashTypeInv
<1> SUFFICES ASSUME FlashInit PROVE FlashTypeInv
  BY Zenon
<1>1. queue \in [msgs : Seq(Messages), lost : BOOLEAN]
  BY DEF FlashInit
<1>2. parent \in [pc : ParentPcs, fds : SUBSET Fds, ret : Rets] /\ parent.pc = "select"
  BY Zenon DEF FlashInit, ParentPcs, Rets
<1>3. ctx \in CtxRec
  BY Zenon DEF FlashInit, CtxRec
<1> QED
  BY Zenon, <1>1, <1>2, <1>3 DEF FlashInit, FlashTypeInv

\* The steps of the kernel, the child and the parent, with what they leave alone.
LEMMA TypesStep == FlashTypeInv /\ [FlashNext]_flashVars => FlashTypeInv'
<1> SUFFICES ASSUME FlashTypeInv, [FlashNext]_flashVars PROVE FlashTypeInv'
  BY Zenon
<1>1. ASSUME NEW m \in Messages, Notify(m),
             UNCHANGED <<fset, pipe, parent, ctx>>,
             flash' \in {"none", "running", "good", "bad"}, answer' \in {"none", "good", "bad"}
      PROVE  FlashTypeInv'
  <2>1. /\ queue' \in [msgs : Seq(Messages), lost : BOOLEAN]
        /\ \/ queue'.msgs = Append(queue.msgs, m) /\ queue'.lost = queue.lost
           \/ queue'.msgs = queue.msgs /\ queue'.lost = TRUE
    BY Zenon, <1>1, NotifyFields
  <2>2. queue.msgs \in Seq(Messages)
    BY Zenon DEF FlashTypeInv
  <2>3. queue.msgs # <<>> \/ queue.lost => queue'.msgs # <<>> \/ queue'.lost
    BY <2>1, <2>2
  <2> QED
    BY Zenon, <1>1, <2>1, <2>3 DEF FlashTypeInv
<1>2. CASE FlashStatus
  BY Zenon, <1>1, <1>2, MsgType DEF FlashStatus, FlashTypeInv
<1>3. CASE OtherEnds
  BY Zenon, <1>1, <1>3, MsgType DEF OtherEnds, FlashTypeInv
<1>4. CASE Noise
  BY Zenon, <1>1, <1>4, MsgType DEF Noise, FlashTypeInv
<1>5. CASE FlashEnds
  <2>1. flash' \in {"none", "running", "good", "bad"} /\ answer' \in {"none", "good", "bad"}
    BY Zenon, <1>5 DEF FlashEnds
  <2> QED
    BY Zenon, <1>1, <1>5, <2>1, MsgType DEF FlashEnds
<1>6. CASE ChildSend
  BY Zenon, <1>1, <1>6, MsgType DEF ChildSend, FlashTypeInv
<1>14. CASE ChildSendFails
  BY Zenon, <1>14 DEF ChildSendFails, FlashTypeInv
<1>7. CASE ChildWrite \/ ChildExit \/ ChildKilled
  BY Zenon, <1>7, ChildPipe DEF ChildWrite, ChildExit, ChildKilled, FlashTypeInv
<1>8. CASE Select
  <2>1. /\ parent' \in [pc : ParentPcs, fds : SUBSET Fds, ret : Rets] /\ parent'.fds = ReadyFds
    BY Zenon, <1>8, SelectFields
  <2>2. "nlfd" \in ReadyFds => queue.msgs # <<>> \/ queue.lost
    BY Zenon DEF ReadyFds
  <2> QED
    BY Zenon, <1>8, <2>1, <2>2 DEF Select, FlashTypeInv
<1>9. CASE ReadNotification
  <2>1. parent'.pc # "nlfd"
    BY Zenon, <1>9, ReadNotificationFields
  <2> QED
    BY Zenon, <1>9, <2>1, ReadNotificationFields DEF ReadNotification, FlashTypeInv
<1>10. CASE NoNotification
  BY Zenon, <1>10, StepFields DEF NoNotification, FlashTypeInv, ParentPcs
<1>11. CASE ReadPipe
  <2>1. parent'.pc # "nlfd"
    BY Zenon, <1>11, ReadPipeFields
  <2> QED
    BY Zenon, <1>11, <2>1, ReadPipeFields DEF ReadPipe, FlashTypeInv
<1>12. CASE ReadAnswer
  BY Zenon, <1>12, LeaveFields DEF ReadAnswer, FlashTypeInv, Rets
<1>13. CASE UNCHANGED flashVars
  BY Zenon, <1>13 DEF flashVars, FlashTypeInv
<1> QED
  BY SMTT(20), <1>2, <1>3, <1>4, <1>5, <1>6, <1>14, <1>7, <1>8, <1>9, <1>10, <1>11, <1>12, <1>13
     DEF FlashNext, Parent, Child, Kernel

----------------------------------------------------------------------------
(* What success means.                                                     *)

\* The acknowledgement that waits is that of the child's request, which is sent once.
AnswerInv ==
  /\ child = "fork" => flash = "none"
  /\ answer # "none" => answer = flash
  /\ FlashTruthful

\* Every step keeps AnswerInv: the answer in the child's socket is the flash's own.
LEMMA AnswerStep == FlashTypeInv /\ AnswerInv /\ [FlashNext]_flashVars => AnswerInv'
<1> SUFFICES ASSUME FlashTypeInv, AnswerInv, [FlashNext]_flashVars PROVE AnswerInv'
  BY Zenon
<1> USE DEF AnswerInv, FlashTruthful
<1>1. CASE FlashStatus \/ OtherEnds \/ Noise
  BY Zenon, <1>1 DEF FlashStatus, OtherEnds, Noise
<1>2. CASE FlashEnds
  BY Zenon, <1>2 DEF FlashEnds
<1>3. CASE ChildSend
  BY Zenon, <1>3 DEF ChildSend, FlashTypeInv
<1>4. CASE ChildSendFails \/ ChildWrite \/ ChildExit \/ ChildKilled
  BY Zenon, <1>4 DEF ChildSendFails, ChildWrite, ChildExit, ChildKilled
<1>5. CASE Select \/ NoNotification
  <2>1. parent'.ret = parent.ret
    BY Zenon, <1>5, SelectFields, StepFields DEF NoNotification, ParentPcs
  <2> QED
    BY Zenon, <1>5, <2>1 DEF Select, NoNotification
<1>6. CASE ReadNotification
  <2>1. parent'.ret # "success" \/ parent'.ret = parent.ret
    BY Zenon, <1>6, ReadNotificationFields
  <2> QED
    BY Zenon, <1>6, <2>1 DEF ReadNotification
<1>7. CASE ReadPipe
  <2>1. parent'.ret # "success" \/ parent'.ret = parent.ret
    BY Zenon, <1>7, ReadPipeFields
  <2> QED
    BY Zenon, <1>7, <2>1 DEF ReadPipe
<1>8. CASE ReadAnswer
  BY Zenon, <1>8 DEF ReadAnswer, Leave
<1>9. CASE UNCHANGED flashVars
  BY Zenon, <1>9 DEF flashVars
<1> QED
  BY Zenon, <1>1, <1>2, <1>3, <1>4, <1>5, <1>6, <1>7, <1>8, <1>9 DEF FlashNext, Parent, Child, Kernel

\* The command reports success only when the device has been flashed, whatever other
\* flashes, lost notifications and ends of the child it meets.
THEOREM FlashIsTruthful == FlashSpec => []FlashTruthful
<1>1. FlashInit => FlashTypeInv /\ AnswerInv
  BY TypesInit DEF FlashInit, AnswerInv, FlashTruthful
<1>2. FlashTypeInv /\ AnswerInv /\ [FlashNext]_flashVars => (FlashTypeInv /\ AnswerInv)'
  BY TypesStep, AnswerStep
<1>3. AnswerInv => FlashTruthful
  BY SMTT(20) DEF AnswerInv
<1> QED
  BY <1>1, <1>2, <1>3, PTL DEF FlashSpec

----------------------------------------------------------------------------
(* Which notifications have been read by then.                             *)

Ended == flash \in {"good", "bad"}

NoStatus(q) == \A i \in 1..Len(q) : q[i].type # "STATUS"
NoEnd(q) == \A i \in 1..Len(q) : q[i].type # "END"
StatusFirst(q) ==
  \A i, j \in 1..Len(q) : q[i].type = "END" /\ q[j].type = "STATUS" => j < i

\* The flash's own end message follows its status messages and ends them.
EndInv ==
  /\ other = "none"
  /\ ~Ended => NoEnd(queue.msgs)
  /\ StatusFirst(queue.msgs)
  /\ ctx.received_end => Ended /\ NoStatus(queue.msgs)

\* The loop that has shown a status message goes on until the end message.
LoopInv ==
  /\ parent.pc = "answer" => (ctx.not_first => ctx.received_end)
  /\ parent.ret = "success" => parent.pc = "returned" /\ (ctx.not_first => ctx.received_end)

ShownInv == LoopInv /\ (~fset.other => EndInv)

\* What a notification that joins the queue leaves as it was.
LEMMA JoinQueue ==
  ASSUME NEW q \in Seq(Messages), NEW m \in Messages
  PROVE  /\ m.type # "STATUS" /\ NoStatus(q) => NoStatus(Append(q, m))
         /\ m.type # "END" /\ NoEnd(q) => NoEnd(Append(q, m))
         /\ m.type # "STATUS" /\ StatusFirst(q) => StatusFirst(Append(q, m))
         /\ m.type # "END" /\ NoEnd(q) => StatusFirst(Append(q, m))
<1> DEFINE n == Len(q)
           a == Append(q, m)
<1>1. /\ n \in Nat /\ Len(a) = n + 1 /\ a[n + 1] = m
      /\ \A i \in 1..n : a[i] = q[i]
  OBVIOUS
<1>2. Len(q) = n
  OBVIOUS
<1> HIDE DEF n, a
<1>3. \A i \in 1..(n + 1) : i = n + 1 \/ (i \in 1..n /\ i < n + 1)
  BY <1>1
<1>4. \A i \in 1..Len(a) : (i = n + 1 /\ a[i] = m) \/ (i \in 1..n /\ i < n + 1 /\ a[i] = q[i])
  BY <1>1, <1>3, Zenon
<1>5. /\ m.type # "STATUS" /\ NoStatus(q) => NoStatus(a)
      /\ m.type # "END" /\ NoEnd(q) => NoEnd(a)
  BY <1>2, <1>4, Zenon DEF NoStatus, NoEnd
<1>6. m.type # "STATUS" /\ StatusFirst(q) => StatusFirst(a)
  BY <1>2, <1>4, Zenon DEF StatusFirst
<1>7. NoEnd(a) => StatusFirst(a)
  BY Zenon DEF NoEnd, StatusFirst
<1> QED
  BY <1>5, <1>6, <1>7, Zenon DEF a

\* What remains when the first notification is read.
LEMMA ReadQueue ==
  ASSUME NEW q \in Seq(Messages), q # <<>>
  PROVE  /\ NoStatus(q) => NoStatus(Tail(q))
         /\ NoEnd(q) => NoEnd(Tail(q)) /\ Head(q).type # "END"
         /\ StatusFirst(q) => StatusFirst(Tail(q))
         /\ StatusFirst(q) /\ Head(q).type = "END" => NoStatus(Tail(q))
<1> DEFINE n == Len(q)
           t == Tail(q)
           h == Head(q)
<1>1. /\ n \in Nat \ {0} /\ Len(t) = n - 1 /\ h = q[1]
      /\ \A i \in 1..(n - 1) : t[i] = q[i + 1]
  OBVIOUS
<1>2. Len(q) = n
  OBVIOUS
<1> HIDE DEF n, t, h
<1>3. \A i \in 1..(n - 1) : i + 1 \in 1..n /\ i \in Int /\ ~(i + 1 < 1)
  BY <1>1
<1>4. \A i \in 1..Len(t) : i + 1 \in 1..n /\ i \in Int /\ ~(i + 1 < 1) /\ t[i] = q[i + 1]
  BY <1>1, <1>3, Zenon
<1>5. 1 \in 1..n
  BY <1>1
<1>6. NoStatus(q) => NoStatus(t)
  BY <1>2, <1>4, Zenon DEF NoStatus
<1>7. NoEnd(q) => NoEnd(t) /\ h.type # "END"
  BY <1>1, <1>2, <1>4, <1>5, Zenon DEF NoEnd
<1>8. StatusFirst(q) => StatusFirst(t)
  <2> SUFFICES ASSUME StatusFirst(q), NEW i \in 1..Len(t), NEW j \in 1..Len(t),
                      t[i].type = "END", t[j].type = "STATUS"
               PROVE  j < i
    BY Zenon DEF StatusFirst
  <2>1. j + 1 < i + 1
    BY <1>2, <1>4, Zenon DEF StatusFirst
  <2> QED
    BY <1>4, <2>1
<1>9. StatusFirst(q) /\ h.type = "END" => NoStatus(t)
  BY <1>1, <1>2, <1>4, <1>5, Zenon DEF StatusFirst, NoStatus
<1> QED
  BY <1>6, <1>7, <1>8, <1>9, Zenon DEF t, h

\* Every step keeps LoopInv: only the end of the loop leads to the answer.
LEMMA LoopStep == FlashTypeInv /\ LoopInv /\ [FlashNext]_flashVars => LoopInv'
<1> SUFFICES ASSUME FlashTypeInv, LoopInv, [FlashNext]_flashVars PROVE LoopInv'
  BY Zenon
<1> USE DEF LoopInv
<1>1. CASE Child \/ Kernel \/ FlashStatus \/ Noise \/ ChildSendFails \/ ChildKilled
  <2>1. UNCHANGED <<parent, ctx>>
    BY Zenon, <1>1 DEF Child, Kernel, FlashStatus, Noise, ChildSendFails, ChildKilled, ChildSend,
       ChildWrite, ChildExit, OtherEnds, FlashEnds
  <2> QED
    BY Zenon, <2>1
<1>2. CASE Select
  BY Zenon, <1>2, SelectFields DEF Select
<1>3. CASE NoNotification
  <2>1. parent.pc = "nlfd" /\ parent'.pc = "pipe_r" /\ parent'.ret = parent.ret
    BY Zenon, <1>3, StepFields DEF NoNotification, ParentPcs
  <2> QED
    BY Zenon, <2>1
<1>4. CASE ReadNotification
  <2>1. /\ parent.pc = "nlfd"
        /\ \/ parent'.pc = "returned" /\ parent'.ret \in {"error", "killed"}
           \/ parent'.pc = "pipe_r" /\ parent'.ret = parent.ret
    BY Zenon, <1>4, ReadNotificationFields
  <2> QED
    BY Zenon, <2>1
<1>5. CASE ReadPipe
  <2>1. /\ parent.pc = "pipe_r"
        /\ \/ parent'.pc = "returned" /\ parent'.ret = "error"
           \/ /\ parent'.ret = parent.ret
              /\ parent'.pc = IF OnceMore(ctx') THEN "select" ELSE "answer"
    BY Zenon, <1>5, ReadPipeFields
  <2>2. parent'.pc = "answer" => parent'.ret = parent.ret /\ ~OnceMore(ctx')
    BY Zenon, <2>1
  <2> QED
    BY Zenon, <2>1, <2>2 DEF OnceMore
<1>6. CASE ReadAnswer
  <2>1. parent.pc = "answer" /\ parent'.pc = "returned" /\ ctx' = ctx
    BY Zenon, <1>6 DEF ReadAnswer, Leave
  <2> QED
    BY Zenon, <2>1
<1>7. CASE UNCHANGED flashVars
  BY Zenon, <1>7 DEF flashVars
<1> QED
  BY Zenon, <1>1, <1>2, <1>3, <1>4, <1>5, <1>6, <1>7 DEF FlashNext, Parent

\* When nobody else flashes the device, no status message follows the end message.
LEMMA EndStep ==
  FlashTypeInv /\ AnswerInv /\ ~fset.other /\ EndInv /\ [FlashNext]_flashVars => EndInv'
<1> SUFFICES ASSUME FlashTypeInv, AnswerInv, ~fset.other, EndInv, [FlashNext]_flashVars
             PROVE  EndInv'
  BY Zenon
<1>a. queue.msgs \in Seq(Messages) /\ queue.lost \in BOOLEAN
  BY Zenon DEF FlashTypeInv
<1>b. ASSUME NEW m \in Messages, Notify(m)
      PROVE  queue'.msgs = Append(queue.msgs, m) \/ queue'.msgs = queue.msgs
  BY Zenon, <1>b, NotifyFields
<1>1. CASE FlashStatus
  <2>1. ~Ended /\ UNCHANGED <<flash, other, ctx>>
    BY Zenon, <1>1 DEF FlashStatus, EndInv, Ended
  <2> DEFINE m == Msg("STATUS", flash = "running")
  <2>2. m \in Messages /\ m.type = "STATUS" /\ Notify(m)
    BY Zenon, <1>1, MsgType DEF FlashStatus
  <2> HIDE DEF m
  <2>3. NoEnd(queue'.msgs) /\ StatusFirst(queue'.msgs)
    BY Zenon, <1>a, <1>b, <2>1, <2>2, JoinQueue DEF EndInv
  <2> QED
    BY Zenon, <2>1, <2>3 DEF EndInv, Ended
<1>2. CASE OtherEnds
  BY Zenon, <1>2 DEF OtherEnds, EndInv
<1>3. CASE Noise \/ ChildSend
  <2>1. (Ended' <=> Ended) /\ UNCHANGED <<other, ctx>>
    BY Zenon, <1>3 DEF Noise, ChildSend, AnswerInv, Ended
  <2> PICK m \in {Msg("ELSE", FALSE), Msg("BEGIN", TRUE)} : Notify(m)
    BY Zenon, <1>3 DEF Noise, ChildSend
  <2>2. m \in Messages /\ m.type \in {"ELSE", "BEGIN"}
    BY Zenon, MsgType
  <2>3. m.type # "STATUS" /\ m.type # "END"
    BY <2>2
  <2>4. /\ NoEnd(queue.msgs) => NoEnd(queue'.msgs)
        /\ StatusFirst(queue'.msgs)
        /\ NoStatus(queue.msgs) => NoStatus(queue'.msgs)
    BY Zenon, <1>a, <1>b, <2>2, <2>3, JoinQueue DEF EndInv
  <2> QED
    BY Zenon, <2>1, <2>4 DEF EndInv
<1>4. CASE FlashEnds
  <2>1. ~Ended /\ Ended' /\ UNCHANGED <<other, ctx>>
    BY Zenon, <1>4 DEF FlashEnds, Ended
  <2> DEFINE m == Msg("END", TRUE)
  <2>2. m \in Messages /\ m.type = "END" /\ Notify(m)
    BY Zenon, <1>4, MsgType DEF FlashEnds
  <2> HIDE DEF m
  <2>3. m.type # "STATUS"
    BY <2>2
  <2>4. StatusFirst(queue'.msgs)
    BY Zenon, <1>a, <1>b, <2>2, <2>3, JoinQueue DEF EndInv
  <2> QED
    BY Zenon, <2>1, <2>4 DEF EndInv
<1>5. CASE ReadNotification
  <2>1. UNCHANGED <<flash, other>> /\ parent.pc = "nlfd" /\ "nlfd" \in parent.fds
    BY Zenon, <1>5 DEF ReadNotification
  <2>2. CASE ctx' = ctx /\ queue'.msgs = queue.msgs
    BY Zenon, <2>1, <2>2 DEF EndInv, Ended
  <2>3. CASE queue.msgs # <<>> /\ queue'.msgs = Tail(queue.msgs)
    <3>1. /\ NoStatus(queue.msgs) => NoStatus(queue'.msgs)
          /\ NoEnd(queue.msgs) => NoEnd(queue'.msgs) /\ Head(queue.msgs).type # "END"
          /\ StatusFirst(queue'.msgs)
          /\ Head(queue.msgs).type = "END" => NoStatus(queue'.msgs)
      BY Zenon, <1>a, <2>3, ReadQueue DEF EndInv
    <3>2. CASE ctx' = ctx
      BY Zenon, <2>1, <3>1, <3>2 DEF EndInv, Ended
    <3>3. CASE ctx' = StatusCb(Head(queue.msgs))
      <4> DEFINE m == Head(queue.msgs)
      <4>1. m \in Messages
        BY <1>a, <2>3
      <4> HIDE DEF m
      <4>2. m.type \in {"BEGIN", "STATUS", "END", "ELSE"}
        BY Zenon, <4>1 DEF Messages
      <4>3. m.type # "END" => ctx'.received_end = ctx.received_end
        BY Zenon, <3>3, <4>1, <4>2, StatusCbFields DEF m
      <4>4. CASE m.type = "END"
        BY Zenon, <2>1, <3>1, <4>4 DEF EndInv, Ended, m
      <4>5. CASE m.type # "END"
        BY Zenon, <2>1, <3>1, <4>3, <4>5 DEF EndInv, Ended
      <4> QED
        BY Zenon, <4>4, <4>5
    <3> QED
      BY Zenon, <1>5, <3>2, <3>3, ReadNotificationFields
  <2>4. CASE queue.msgs = <<>>
    <3>1. queue.lost
      BY Zenon, <2>1, <2>4 DEF FlashTypeInv
    <3>2. queue'.msgs = queue.msgs /\ ctx' = ctx
      BY Zenon, <1>5, <1>a, <3>1 DEF ReadNotification, FlashTypeInv
    <3> QED
      BY Zenon, <2>2, <3>2
  <2> QED
    BY Zenon, <1>5, <2>2, <2>3, <2>4, ReadNotificationFields
<1>6. CASE \/ ChildSendFails \/ ChildWrite \/ ChildExit \/ ChildKilled \/ Select \/ NoNotification
           \/ ReadPipe \/ ReadAnswer \/ UNCHANGED flashVars
  <2>1. UNCHANGED <<flash, other, queue>>
    BY Zenon, <1>6 DEF ChildSendFails, ChildWrite, ChildExit, ChildKilled, Select, NoNotification,
       ReadPipe, ReadAnswer, flashVars
  <2>2. ctx'.received_end = ctx.received_end
    <3>1. CASE ReadPipe
      BY Zenon, <3>1, ReadPipeFields
    <3>2. CASE ~ReadPipe
      BY Zenon, <1>6, <3>2 DEF ChildSendFails, ChildWrite, ChildExit, ChildKilled, Select,
         NoNotification, ReadAnswer, flashVars
    <3> QED
      BY Zenon, <3>1, <3>2
  <2> QED
    BY Zenon, <2>1, <2>2 DEF EndInv, Ended
<1> QED
  BY Zenon, <1>1, <1>2, <1>3, <1>4, <1>5, <1>6 DEF FlashNext, Parent, Child, Kernel

\* When nobody else flashes the device, a command that has shown a status message has
\* read them all when it reports success: the pipe may become ready before, between and
\* after the notifications, for any number of them and any size of the queue.
THEOREM EveryStatusIsShown == FlashSpec => []StatusShown
<1> DEFINE I == FlashTypeInv /\ AnswerInv /\ ShownInv
<1>1. FlashInit => I
  <2> SUFFICES ASSUME FlashInit PROVE AnswerInv /\ LoopInv /\ (~fset.other => EndInv)
    BY SMTT(20), TypesInit DEF ShownInv
  <2>1. AnswerInv /\ LoopInv
    BY SMTT(20) DEF FlashInit, AnswerInv, FlashTruthful, LoopInv
  <2>2. queue.msgs = <<>> /\ ~ctx.received_end /\ (~fset.other => other = "none")
    BY DEF FlashInit
  <2>3. ~fset.other => EndInv
    BY <2>2 DEF EndInv, NoEnd, StatusFirst
  <2> QED
    BY Zenon, <2>1, <2>3
<1>2. I /\ [FlashNext]_flashVars => I'
  <2> SUFFICES ASSUME I, [FlashNext]_flashVars PROVE I'
    BY Zenon
  <2>1. fset' = fset
    BY Zenon DEF FlashNext, flashVars, Parent, Child, Kernel, FlashStatus, OtherEnds, Noise,
           FlashEnds, ChildSend, ChildSendFails, ChildWrite, ChildExit, ChildKilled, Select,
           ReadNotification, NoNotification, ReadPipe, ReadAnswer
  <2> QED
    BY Zenon, <2>1, TypesStep, AnswerStep, LoopStep, EndStep DEF ShownInv
<1>3. I => StatusShown
  <2> SUFFICES ASSUME I, parent.ret = "success", ~fset.other, ctx.not_first,
                      NEW i \in DOMAIN queue.msgs
               PROVE  queue.msgs[i].type # "STATUS"
    BY Zenon DEF StatusShown
  <2>1. NoStatus(queue.msgs)
    BY Zenon DEF ShownInv, LoopInv, EndInv
  <2>2. queue.msgs \in Seq(Messages)
    BY Zenon DEF FlashTypeInv
  <2>3. i \in 1..Len(queue.msgs)
    BY <2>2
  <2> QED
    BY Zenon, <2>1, <2>3 DEF NoStatus
<1> QED
  BY <1>1, <1>2, <1>3, PTL DEF FlashSpec

=============================================================================
