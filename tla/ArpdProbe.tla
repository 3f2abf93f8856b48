------------------------------ MODULE ArpdProbe -----------------------------
(***************************************************************************)
(* The rate limiter of arpd's probes (queue_active_probe in misc/arpd.c): a *)
(* bucket of milliseconds that fills with the time since the last probe and *)
(* out of which every probe takes broadcast_rate.                          *)
(***************************************************************************)
EXTENDS Naturals, FiniteSetsExt

CONSTANTS
  broadcast_rate,   \* milliseconds a probe costs
  broadcast_burst,  \* milliseconds the bucket holds
  MaxTime           \* bound on the clock

ASSUME ProbeAssumption ==
  /\ broadcast_rate \in Nat \ {0}
  /\ broadcast_burst \in Nat
  /\ MaxTime \in Nat \ {0}

VARIABLES
  now,      \* the clock
  prev,     \* when the last probe was sent, 0 before the first
  buckets,
  sent      \* the probes sent at each time

probeVars == <<prev, buckets, sent>>

Least(a, b) == IF a <= b THEN a ELSE b

\* The bucket when a probe is asked for.  A request that is suppressed leaves prev
\* alone, so the next one adds the same time again.
Refill ==
  IF prev = 0 THEN broadcast_burst
  ELSE Least(buckets + (now - prev), broadcast_burst)

\* send_probe succeeds: the probe is on the wire.
ProbeSentStale ==
  /\ Refill >= broadcast_rate
  /\ buckets' = Refill - broadcast_rate
  /\ sent' = [sent EXCEPT ![now] = @ + 1]
  /\ UNCHANGED prev
ProbeSent ==
  /\ Refill >= broadcast_rate
  /\ buckets' = Refill - broadcast_rate
  /\ prev' = now
  /\ sent' = [sent EXCEPT ![now] = @ + 1]

\* There is too little in the bucket, or send_probe fails.
ProbeSuppressed ==
  /\ buckets' = Refill
  /\ UNCHANGED <<prev, sent>>

queue_active_probe == ProbeSent \/ ProbeSuppressed

Tick == now < MaxTime /\ now' = now + 1

ProbeInit ==
  /\ now = 1 /\ prev = 0 /\ buckets = 0
  /\ sent = [t \in 1..MaxTime |-> 0]

ProbeNext ==
  \/ queue_active_probe /\ UNCHANGED now
  \/ Tick /\ UNCHANGED probeVars

ProbeSpec == ProbeInit /\ [][ProbeNext]_<<now, probeVars>>

----------------------------------------------------------------------------

\* The bucket never holds more than the burst, and the last probe was sent at a
\* time that has been.
ProbeTypeOK ==
  /\ now \in 1..MaxTime
  /\ prev \in 0..now
  /\ buckets \in 0..broadcast_burst
  /\ sent \in [1..MaxTime -> Nat]

\* However often probes were asked for, suppressed or failed before, no more are
\* sent back to back than the burst allows (queue_active_probe).
BurstBound == \A t \in 1..MaxTime : sent[t] * broadcast_rate <= broadcast_burst

SentIn(t, u) == MapThenSumSet(LAMBDA x : sent[x], t..u)

\* "the number of ARP queries that are broadcast does not exceed B+R*T over any
\* interval of time T" (arpd(8), -B; queue_active_probe).
ProbeRate ==
  \A t \in 1..MaxTime : \A u \in t..MaxTime :
    SentIn(t, u) * broadcast_rate <= broadcast_burst + (u - t)

=============================================================================
