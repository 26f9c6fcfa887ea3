---------------------------- MODULE PingsProofs -----------------------------
(* The durability check and the latency of an endpoint report what the     *)
(* network did, for every length of a burst, every number of probes and of *)
(* pings at a time, and any room in their sockets.  What they report       *)
(* orders the feed, the picks and the speed phase of a scan: the second    *)
(* half of the module, for every set of endpoints, subnets and nodes.      *)
EXTENDS Pings, SpeedPhase, Functions, TLAPS, FiniteSetTheorems,
        SequenceTheorems

-----------------------------------------------------------------------------
(* The durability check.  What waits in the socket, and what the burst     *)
(* under way has heard, read or not.                                       *)
Unread == Range(inbox)

Scored(score, b) ==
  /\ score.of = b /\ score.lost = Count - Cardinality(Delivered(b))
  /\ score.torn = teardown(Delivered(b))

UnderWay == mode \in {"open", "send", "window", "final"}

(* Every reply of the burst was read or waits in the socket.               *)
BurstNow ==
  /\ mode \in {"send", "window"} => seq < Count
  /\ mode = "open" => /\ Delivered(burst) = {} /\ got = {} /\ inbox = <<>>
                       /\ seq = 0
  /\ UnderWay => /\ Delivered(burst) = got \cup (Unread \ {Alien})
                 /\ Unread \ {Alien} \subseteq sent
                 /\ ~mute

(* What is known of the first burst in the second, and of a cut.           *)
BurstsBefore ==
  /\ burst = 1 => Delivered(2) = {}
  /\ burst = 2 => first.torn /\ Scored(first, 1)
  /\ cut <= burst
  /\ cut = 1 /\ burst = 2 => Delivered(2) = {}

VerdictInv ==
  Over => \/ mute /\ verdict = [torn |-> FALSE, lost |-> 0, of |-> burst]
          \/ ~mute /\ ~verdict.torn /\ Scored(verdict, burst)
          \/ /\ ~mute /\ burst = 2 /\ verdict = first
             /\ teardown(Delivered(2))

BurstInv == BurstTypeOK /\ BurstNow /\ BurstsBefore /\ VerdictInv

-----------------------------------------------------------------------------
(* The latencies.  A reply that an echo of a call may have.                *)
Genuine(r) == r.to \in Pingers => r.from = host[r.to] /\ r.seq \in echoed[r.to]

Waiting(p) == Range(buffer[p])

Expected(p) ==
  \A r \in Waiting(p) : Genuine(r) /\ (socket # "raw" => r.to = p)

(* OwnEcho of one call.                                                    *)
Rightly(p) ==
  \A c \in counted[p] :
    /\ c[1] \in echoed[p] /\ c[2].seq = c[1] /\ c[2].from = host[p]
    /\ c[2].to = p \/ socket = "raw"
    /\ \A d \in counted[p] : d[1] = c[1] => d = c

AtPlace(p) ==
  /\ place[p] \in {"none", "open"} => arrived[p] = {} /\ number[p] = 0
  /\ place[p] = "send" => number[p] < PingProbes
  /\ place[p] = "read" /\ Nested => number[p] < PingProbes

(* pingTo waits for one echo at most, the one of the probe under way.      *)
InTurn(p) ==
  Nested =>
    /\ \A c \in counted[p] : c[1] < number[p]
    /\ place[p] = "read" => number[p] \in echoed[p]
    /\ \A s \in echoed[p] : \/ s < number[p]
                            \/ s = number[p] /\ place[p] = "read"
    /\ ~late[p] /\ buffer[p] # <<>> =>
         /\ Len(buffer[p]) = 1 /\ place[p] = "read"
         /\ buffer[p][1].seq = number[p]
         /\ number[p] \in arrived[p]

(* What arrived was counted or waits to be.                                *)
Pending(p) == {r.seq : r \in {x \in Waiting(p) : x.to = p}}

Kept(p) ==
  (Nested => ~late[p]) =>
    /\ arrived[p] \subseteq Answered(p) \cup Pending(p)
    /\ place[p] = "over" => arrived[p] \subseteq Answered(p)

CallInv(p) == Expected(p) /\ Rightly(p) /\ AtPlace(p) /\ InTurn(p) /\ Kept(p)

HostInv == HostTypeOK /\ \A p \in Pingers : CallInv(p)

PingInv == BurstInv /\ HostInv
-----------------------------------------------------------------------------
(* Nothing waits in an empty queue.                                        *)
LEMMA NoneInEmpty == Range(<<>>) = {}
  BY DEF Range

(* Reading takes the head of a queue.                                      *)
LEMMA TakeOne ==
  ASSUME NEW S, NEW q \in Seq(S), q # <<>>
  PROVE  /\ Head(q) \in S /\ Tail(q) \in Seq(S)
         /\ Head(q) = q[1] /\ Len(Tail(q)) = Len(q) - 1
         /\ Range(q) = {Head(q)} \cup Range(Tail(q))
<1>1. /\ Len(q) \in Nat \ {0} /\ DOMAIN q = 1 .. Len(q)
      /\ Head(q) = q[1] /\ q[1] \in S
      /\ Tail(q) \in Seq(S) /\ Len(Tail(q)) = Len(q) - 1
      /\ DOMAIN Tail(q) = 1 .. Len(q) - 1
      /\ \A k \in 1 .. Len(q) - 1 : Tail(q)[k] = q[k + 1]
      BY EmptySeq, LenProperties, HeadTailProperties
<1>2. \A k \in 2 .. Len(q) :
        k - 1 \in DOMAIN Tail(q) /\ q[k] = Tail(q)[k - 1]
  <2> SUFFICES ASSUME NEW k \in 2 .. Len(q)
               PROVE  k - 1 \in DOMAIN Tail(q) /\ q[k] = Tail(q)[k - 1]
      BY <1>1
  <2>1. k - 1 \in 1 .. Len(q) - 1 /\ k = (k - 1) + 1
        BY <1>1
  <2> QED  BY <1>1, <2>1
<1>3. \A k \in DOMAIN Tail(q) : k + 1 \in DOMAIN q /\ q[k + 1] = Tail(q)[k]
      BY <1>1
<1>4. ASSUME NEW x
      PROVE  x \in Range(q) <=> x \in {Head(q)} \cup Range(Tail(q))
  <2>1. x \in Range(q) <=> \E k \in 1 .. Len(q) : x = q[k]
        BY <1>1 DEF Range
  <2>2. x \in Range(Tail(q)) <=> \E k \in DOMAIN Tail(q) : x = Tail(q)[k]
        BY DEF Range
  <2>3. \A k \in 1 .. Len(q) : k = 1 \/ k \in 2 .. Len(q)
        BY <1>1
  <2>4. x \in Range(q) => x = q[1] \/ x \in Range(Tail(q))
        BY <1>2, <2>1, <2>2, <2>3
  <2>5. x \in Range(Tail(q)) => x \in Range(q)
        BY <1>1, <1>3, <2>1, <2>2
  <2>6. q[1] \in Range(q)
        BY <1>1 DEF Range
  <2> QED  BY <1>1, <2>4, <2>5, <2>6
<1> QED  BY <1>1, <1>4

(* Delivery puts one at its end.                                           *)
LEMMA PutOne ==
  ASSUME NEW S, NEW q \in Seq(S), NEW e \in S
  PROVE  /\ Append(q, e) \in Seq(S) /\ Append(q, e) # <<>>
         /\ Len(Append(q, e)) = Len(q) + 1
         /\ q = <<>> => Append(q, e)[1] = e
         /\ Range(Append(q, e)) = Range(q) \cup {e}
<1>1. /\ Len(q) \in Nat /\ DOMAIN q = 1 .. Len(q)
      /\ Append(q, e) \in Seq(S)
      /\ DOMAIN Append(q, e) = 1 .. Len(q) + 1 /\ Len(Append(q, e)) = Len(q) + 1
      /\ Append(q, e)[Len(q) + 1] = e
      /\ \A k \in 1 .. Len(q) : Append(q, e)[k] = q[k]
      OBVIOUS
<1>2. q = <<>> => Len(q) = 0
      OBVIOUS
<1>3. Append(q, e) # <<>>
      BY <1>1
<1>4. ASSUME NEW x
      PROVE  x \in Range(Append(q, e)) <=> x \in Range(q) \cup {e}
      BY <1>1 DEF Range
<1> QED  BY <1>1, <1>2, <1>3, <1>4

-----------------------------------------------------------------------------
(* The echoes of a burst are Count; the numbers of a score are in range.   *)
LEMMA EchoesFinite ==
  ASSUME NEW S \in SUBSET Echoes
  PROVE  /\ Cardinality(S) \in 0 .. Count
         /\ Cardinality(S) = Count => S = Echoes
<1>1. IsFiniteSet(Echoes) /\ Cardinality(Echoes) = Count
      BY FS_Interval, PingAssumption DEF Echoes
<1>2. IsFiniteSet(S) /\ Cardinality(S) <= Count
      /\ (Cardinality(S) = Count => S = Echoes)
      BY <1>1, FS_Subset
<1>3. Cardinality(S) \in Nat
      BY <1>2, FS_CardinalityType
<1> QED  BY <1>2, <1>3, PingAssumption

(* A check starts in a state of its invariant, and so does what leaves it  *)
(* alone.                                                                  *)
LEMMA BurstStarts == Init => BurstInv
<1> SUFFICES ASSUME Init  PROVE BurstInv
    OBVIOUS
<1>1. /\ burst = 1 /\ mode \in {"open", "none"} /\ seq = 0
      /\ sent = {} /\ got = {} /\ inbox = <<>>
      /\ first = NoScore /\ verdict = NoScore
      /\ cut = 0 /\ delivered = {} /\ mute = FALSE
      BY DEF Init, DurabilityInit, LatencyInit, BurstInit
<1>2. BurstTypeOK
  <2>1. NoScore \in Scores /\ 0 \in 0 .. Count
        /\ <<>> \in Seq(0 .. Count)
        BY PingAssumption, EmptySeq DEF NoScore, Scores
  <2>2. mute \in BOOLEAN
        BY <1>1
  <2> QED  BY <1>1, <2>1, <2>2 DEF BurstTypeOK, Bursts
<1>3. Delivered(1) = {} /\ Delivered(2) = {} /\ Unread = {}
      BY <1>1, NoneInEmpty DEF Delivered, Unread
<1> QED
    BY <1>1, <1>2, <1>3
    DEF BurstInv, BurstNow, BurstsBefore, VerdictInv, UnderWay, Over

(* Once a drain has returned for good, what was read is what was heard:    *)
(* what waits unread is foreign, or repeated.                              *)
LEMMA DrainedIsAll ==
  ASSUME BurstInv, UnderWay, Drained
  PROVE  got = Delivered(burst)
<1>1. /\ Delivered(burst) = got \cup (Unread \ {Alien})
      /\ Unread \ {Alien} \subseteq sent
      /\ got \in SUBSET Echoes
      BY DEF BurstInv, BurstNow, BurstTypeOK
<1>2. CASE Awaited = {}
      BY <1>1, <1>2 DEF Awaited, Unread
<1>3. CASE Cardinality(got) = Count
  <2>1. got = Echoes
        BY <1>1, <1>3, EchoesFinite
  <2> QED  BY <1>1, <2>1 DEF Delivered
<1> QED  BY <1>2, <1>3 DEF Drained

(* A burst that scores what it heard, or had no socket, leaves the check   *)
(* in a second burst or with the verdict it deserves.                      *)
LEMMA ReturnKeeps ==
  ASSUME BurstInv, UnderWay, NEW score \in Scores, Return(score),
         UNCHANGED <<cut, delivered>>,
         \/ mute' = mute /\ Scored(score, burst)
         \/ mute' = TRUE /\ score = [torn |-> FALSE, lost |-> 0, of |-> burst]
  PROVE  BurstInv'
<1>1. /\ BurstTypeOK /\ BurstNow /\ BurstsBefore /\ ~mute
      BY DEF BurstInv, BurstNow
<1>2. /\ Delivered(1)' = Delivered(1) /\ Delivered(2)' = Delivered(2)
      BY DEF Delivered
<1>3. CASE score.torn /\ burst = 1
  <2>1. /\ burst' = 2 /\ mode' = "open" /\ seq' = 0
        /\ sent' = {} /\ got' = {} /\ inbox' = <<>>
        /\ first' = score /\ verdict' = verdict /\ mute' = mute
        BY <1>3 DEF Return, Burst2
  <2>2. BurstTypeOK'
        BY <1>1, <2>1, PingAssumption DEF BurstTypeOK, Bursts
  <2>3. Unread' = {}
        BY <2>1, NoneInEmpty DEF Unread
  <2>4. Scored(score, 1) /\ Delivered(2) = {}
        BY <1>1, <1>3 DEF BurstsBefore
  <2>5. BurstNow'
        BY <1>1, <1>2, <2>1, <2>3, <2>4 DEF BurstNow, UnderWay
  <2>6. Scored(score, 1)'
        BY <1>2, <2>4 DEF Scored, teardown
  <2>7. cut' <= burst'
        BY <1>1, <1>3, <2>1 DEF BurstsBefore, BurstTypeOK
  <2> QED
      BY <1>1, <1>2, <1>3, <2>1, <2>2, <2>4, <2>5, <2>6, <2>7
      DEF BurstInv, BurstsBefore, VerdictInv, Over, Scored
<1>4. CASE ~(score.torn /\ burst = 1)
  <2>1. /\ mode' = "over" /\ verdict' = (IF score.torn THEN first ELSE score)
        /\ UNCHANGED <<burst, seq, sent, got, inbox, first>>
        BY <1>4 DEF Return
  <2>2. BurstTypeOK'
    <3>1. mute' \in BOOLEAN
          BY <1>1 DEF BurstTypeOK
    <3> QED  BY <1>1, <2>1, <3>1 DEF BurstTypeOK
  <2>3. BurstNow'
        BY <1>1, <2>1 DEF BurstNow, UnderWay
  <2>4. BurstsBefore'
        BY <1>1, <1>2, <2>1 DEF BurstsBefore, Scored, teardown
  <2>5. burst \in {1, 2}
        BY <1>1 DEF BurstTypeOK, Bursts
  <2>6. VerdictInv'
    <3>1. CASE mute' = TRUE /\ score = [torn |-> FALSE, lost |-> 0, of |-> burst]
          BY <2>1, <3>1 DEF VerdictInv
    <3>2. CASE mute' = mute /\ Scored(score, burst)
      <4>1. Scored(score, burst)'
            BY <1>2, <2>1, <2>5, <3>2 DEF Scored, teardown
      <4>2. CASE score.torn
            BY <1>1, <1>2, <1>4, <2>1, <2>5, <3>2, <4>2 DEF VerdictInv, Scored
      <4>3. CASE ~score.torn
            BY <1>1, <2>1, <2>5, <3>2, <4>1, <4>3 DEF VerdictInv, Scored
      <4> QED  BY <4>2, <4>3
    <3> QED  BY <3>1, <3>2
  <2> QED  BY <2>2, <2>3, <2>4, <2>6 DEF BurstInv
<1> QED  BY <1>3, <1>4

(* Each step of the check and of the network keeps its invariant.          *)
LEMMA BurstKept == BurstInv /\ (Burst \/ Network) => BurstInv'
<1> SUFFICES ASSUME BurstInv, Burst \/ Network
             PROVE  BurstInv'
    OBVIOUS
<1>1. /\ BurstTypeOK /\ BurstNow /\ BurstsBefore /\ VerdictInv
      /\ burst \in {1, 2} /\ seq \in 0 .. Count /\ Alien \notin Echoes
      /\ inbox \in Seq(0 .. Count)
      BY PingAssumption
      DEF BurstInv, BurstTypeOK, Bursts, Alien, Echoes
<1>2. ASSUME delivered' = delivered
      PROVE  /\ Delivered(1)' = Delivered(1) /\ Delivered(2)' = Delivered(2)
             /\ burst' = burst => Delivered(burst)' = Delivered(burst)
      BY <1>2 DEF Delivered
<1>3. ASSUME UNCHANGED <<burst, first, verdict, cut, delivered, mute>>,
             ~Over, mode' # "over"
      PROVE  BurstsBefore' /\ VerdictInv'
      BY <1>1, <1>2, <1>3
      DEF BurstsBefore, VerdictInv, Scored, teardown, Over
<1>4. CASE Open
  <2>1. BurstTypeOK'
        BY <1>1, <1>4 DEF Open, BurstTypeOK
  <2>2. BurstNow'
        BY <1>1, <1>2, <1>4, PingAssumption
        DEF Open, BurstNow, UnderWay, Unread
  <2> QED  BY <1>3, <1>4, <2>1, <2>2 DEF Open, BurstInv, Over
<1>5. CASE OpenFails
  <2>1. [torn |-> FALSE, lost |-> 0, of |-> burst] \in Scores
        BY <1>1, PingAssumption DEF Scores
  <2> QED  BY <1>5, <2>1, ReturnKeeps DEF OpenFails, UnderWay
<1>6. ASSUME NEW written \in BOOLEAN, SendEcho(written)
      PROVE  BurstInv'
  <2>1. /\ mode = "send" /\ mode' = "window"
        /\ sent' = (IF written THEN sent \cup {seq} ELSE sent)
        /\ UNCHANGED <<burst, seq, got, inbox, first, verdict, cut, delivered,
                       mute>>
        BY <1>6 DEF SendEcho
  <2>2. seq \in Echoes
        BY <1>1, <2>1, PingAssumption DEF BurstNow, Echoes
  <2>3. BurstTypeOK'
        BY <1>1, <2>1, <2>2 DEF BurstTypeOK
  <2>4. BurstNow'
        BY <1>1, <1>2, <2>1, <2>2 DEF BurstNow, UnderWay, Unread
  <2> QED  BY <1>3, <2>1, <2>3, <2>4 DEF BurstInv, Over
<1>7. CASE Read
  <2> DEFINE echo == Head(inbox)
  <2>1. /\ inbox \in Seq(0 .. Count) /\ inbox # <<>>
        /\ Tail(inbox) \in Seq(0 .. Count)
        /\ Unread = {echo} \cup Unread'
        BY <1>1, <1>7, TakeOne DEF Read, Unread
  <2>2. /\ got' = got \cup ({echo} \cap sent) /\ inbox' = Tail(inbox)
        /\ mode \in {"window", "final"}
        /\ UNCHANGED <<burst, mode, seq, sent, first, verdict, cut, delivered,
                       mute>>
        BY <1>7 DEF Read
  <2> HIDE DEF echo
  <2>3. BurstTypeOK'
        BY <1>1, <2>1, <2>2 DEF BurstTypeOK
  <2>4. /\ Delivered(burst) = got \cup (Unread \ {Alien})
        /\ Unread \ {Alien} \subseteq sent /\ ~mute
        /\ sent \subseteq Echoes
        BY <1>1, <2>2 DEF BurstNow, UnderWay, BurstTypeOK
  <2>5. Delivered(burst) = got' \cup (Unread' \ {Alien})
        BY <1>1, <2>1, <2>2, <2>4
  <2>6. BurstNow'
        BY <1>1, <1>2, <2>1, <2>2, <2>4, <2>5 DEF BurstNow, UnderWay
  <2> QED  BY <1>3, <2>2, <2>3, <2>6 DEF BurstInv, Over
<1>8. CASE WindowEnds
  <2>1. /\ mode = "window" /\ seq < Count /\ seq' = seq + 1
        /\ mode' \in {"send", "final"} /\ (mode' = "send" => seq + 1 < Count)
        /\ UNCHANGED <<burst, sent, got, inbox, first, verdict, cut,
                       delivered, mute>>
        BY <1>1, <1>8 DEF WindowEnds, BurstNow
  <2>2. BurstTypeOK'
        BY <1>1, <2>1, PingAssumption DEF BurstTypeOK
  <2>3. BurstNow'
        BY <1>1, <1>2, <2>1 DEF BurstNow, UnderWay, Unread
  <2> QED  BY <1>3, <2>1, <2>2, <2>3 DEF BurstInv, Over
<1>9. CASE FinalEnds
  <2> DEFINE score == [torn |-> teardown(got), lost |-> Count - Cardinality(got),
                       of |-> burst]
  <2>1. got = Delivered(burst) /\ got \in SUBSET Echoes
        BY <1>1, <1>9, DrainedIsAll DEF FinalEnds, UnderWay, BurstTypeOK
  <2>2. Count - Cardinality(got) \in 0 .. Count /\ teardown(got) \in BOOLEAN
        BY <2>1, EchoesFinite, PingAssumption DEF teardown
  <2>3. score \in Scores /\ Scored(score, burst)
        BY <1>1, <2>1, <2>2 DEF Scored, Scores
  <2> QED  BY <1>9, <2>3, ReturnKeeps DEF FinalEnds, UnderWay
<1>10. ASSUME NEW s \in Echoes, Deliver(s)
       PROVE  BurstInv'
  <2>1. /\ mode \in {"send", "window", "final"} /\ cut = 0
        /\ s \in sent /\ inbox' = Append(inbox, s)
        /\ delivered' = delivered \cup {<<burst, s>>}
        /\ UNCHANGED <<burst, mode, seq, sent, got, first, verdict, cut, mute>>
        BY <1>10 DEF Deliver, Receives, Listening
  <2>2. /\ inbox' \in Seq(0 .. Count) /\ Unread' = Unread \cup {s}
        /\ s \in 0 .. Count /\ s # Alien
        BY <1>1, <2>1, PutOne, PingAssumption DEF Echoes, Unread
  <2>3. BurstTypeOK'
        BY <1>1, <2>1, <2>2 DEF BurstTypeOK, Bursts
  <2>4. /\ Delivered(burst)' = Delivered(burst) \cup {s}
        /\ \A b \in {1, 2} : b # burst => Delivered(b)' = Delivered(b)
        BY <1>1, <2>1 DEF Delivered
  <2>5. BurstNow'
        BY <1>1, <2>1, <2>2, <2>4 DEF BurstNow, UnderWay
  <2>6. BurstsBefore'
        BY <1>1, <2>1, <2>4 DEF BurstsBefore, Scored, teardown
  <2> QED  BY <2>1, <2>3, <2>5, <2>6 DEF BurstInv, VerdictInv, Over
<1>11. CASE DeliverAlien
  <2>1. /\ mode \in {"send", "window", "final"}
        /\ inbox' = Append(inbox, Alien)
        /\ UNCHANGED <<burst, mode, seq, sent, got, first, verdict, cut,
                       delivered, mute>>
        BY <1>11 DEF DeliverAlien, Receives, Listening
  <2>2. inbox' \in Seq(0 .. Count) /\ Unread' = Unread \cup {Alien}
        BY <1>1, <2>1, PutOne, PingAssumption DEF Alien, Unread
  <2>3. BurstTypeOK'
        BY <1>1, <2>1, <2>2 DEF BurstTypeOK
  <2>4. BurstNow'
        BY <1>1, <1>2, <2>1, <2>2 DEF BurstNow, UnderWay
  <2> QED  BY <1>3, <2>1, <2>3, <2>4 DEF BurstInv, Over
<1>12. CASE Cut
  <2>1. /\ cut' = burst /\ mode # "over"
        /\ UNCHANGED <<burst, mode, seq, sent, got, inbox, first, verdict,
                       delivered, mute>>
        BY <1>12 DEF Cut
  <2>2. BurstTypeOK'
        BY <1>1, <2>1 DEF BurstTypeOK
  <2>3. BurstNow'
        BY <1>1, <1>2, <2>1 DEF BurstNow, UnderWay, Unread
  <2>4. BurstsBefore'
        BY <1>1, <1>2, <2>1 DEF BurstsBefore, Scored, teardown
  <2> QED  BY <2>1, <2>2, <2>3, <2>4 DEF BurstInv, VerdictInv, Over
<1> QED
    BY <1>4, <1>5, <1>6, <1>7, <1>8, <1>9, <1>10, <1>11, <1>12
    DEF Burst, Network
-----------------------------------------------------------------------------
(* The latencies start in a state of their invariant, and so does what     *)
(* leaves them alone.                                                      *)
LEMMA HostStarts == Init => HostInv
<1> SUFFICES ASSUME Init  PROVE HostInv
    OBVIOUS
<1>1. (CHOOSE h \in Hosts : TRUE) \in Hosts
      BY HostPingAssumption
<1>2. /\ socket \in {"datagram", "raw", "netstack"}
      /\ host \in [Pingers -> Hosts]
      /\ \/ place = [p \in Pingers |-> "open"]
         \/ place = [p \in Pingers |-> "none"]
      /\ number = [p \in Pingers |-> 0]
      /\ echoed = [p \in Pingers |-> {}] /\ counted = [p \in Pingers |-> {}]
      /\ buffer = [p \in Pingers |-> <<>>]
      /\ arrived = [p \in Pingers |-> {}] /\ late = [p \in Pingers |-> FALSE]
      BY <1>1 DEF Init, DurabilityInit, LatencyInit, HostInit
<1>3. HostTypeOK
  <2>1. /\ place \in [Pingers -> {"none", "open", "send", "read", "over"}]
        /\ number \in [Pingers -> 0 .. PingProbes]
        BY <1>2, HostPingAssumption
  <2>2. /\ counted \in [Pingers -> SUBSET (Numbers \X Reply)]
        /\ echoed \in [Pingers -> SUBSET Numbers]
        /\ arrived \in [Pingers -> SUBSET Numbers]
        BY <1>2
  <2>3. <<>> \in Seq(Reply)
        BY EmptySeq
  <2>4. buffer \in [Pingers -> Seq(Reply)]
        BY <1>2, <2>3
  <2>5. late \in [Pingers -> BOOLEAN]
        BY <1>2
  <2> QED  BY <1>2, <2>1, <2>2, <2>4, <2>5 DEF HostTypeOK
<1>4. ASSUME NEW p \in Pingers  PROVE CallInv(p)
  <2>1. /\ number[p] = 0 /\ echoed[p] = {} /\ counted[p] = {}
        /\ buffer[p] = <<>> /\ arrived[p] = {} /\ place[p] \in {"none", "open"}
        BY <1>2
  <2>2. Waiting(p) = {}
        BY <2>1, NoneInEmpty DEF Waiting
  <2> QED
      BY <2>1, <2>2
      DEF CallInv, Expected, Rightly, AtPlace, InTurn, Kept
<1> QED  BY <1>2, <1>3, <1>4 DEF HostInv

(* A call that a step leaves alone is as it was, however many echoes other *)
(* calls have sent.                                                        *)
LEMMA CallFrame ==
  ASSUME NEW p \in Pingers, CallInv(p), socket' = socket, host' = host,
         \A q \in Pingers : echoed[q] \subseteq echoed'[q],
         echoed'[p] = echoed[p],
         counted'[p] = counted[p], buffer'[p] = buffer[p], place'[p] = place[p],
         number'[p] = number[p], arrived'[p] = arrived[p], late'[p] = late[p]
  PROVE  CallInv(p)'
<1>1. Waiting(p)' = Waiting(p) /\ Nested' = Nested
      /\ Answered(p)' = Answered(p) /\ Pending(p)' = Pending(p)
      BY DEF Waiting, Nested, Answered, Pending
<1>2. Expected(p)'
      BY <1>1 DEF CallInv, Expected, Genuine
<1>3. Rightly(p)'
      BY <1>1 DEF CallInv, Rightly
<1>4. AtPlace(p)' /\ InTurn(p)' /\ Kept(p)'
      BY <1>1 DEF CallInv, AtPlace, InTurn, Kept
<1> QED  BY <1>2, <1>3, <1>4 DEF CallInv

(* An average of PingProbes replies has one to every number.               *)
LEMMA AllAnswered ==
  ASSUME NEW C \in SUBSET (Numbers \X Reply),
         \A c, d \in C : c[1] = d[1] => c = d,
         Cardinality(C) = PingProbes
  PROVE  {c[1] : c \in C} = Numbers
<1> DEFINE f == [c \in C |-> c[1]]
<1>1. IsFiniteSet(Numbers) /\ Cardinality(Numbers) = PingProbes
  <2>1. /\ 0 \in Int /\ PingProbes - 1 \in Int /\ ~(0 > PingProbes - 1)
        /\ (PingProbes - 1) - 0 + 1 = PingProbes
        BY HostPingAssumption
  <2> QED  BY <2>1, FS_Interval DEF Numbers
<1>2. f \in Injection(C, Numbers)
      BY DEF Injection, IsInjective
<1>3. f \in Surjection(C, Numbers)
      BY <1>1, <1>2, FS_Injection
<1>4. \A n \in Numbers : \E c \in C : c[1] = n
      BY <1>3 DEF Surjection
<1>5. \A c \in C : c[1] \in Numbers
      OBVIOUS
<1> QED  BY <1>4, <1>5

(* One more reply answers its number.                                      *)
LEMMA AnsweredMore ==
  ASSUME NEW p, NEW n, NEW r, counted'[p] = counted[p] \cup {<<n, r>>}
  PROVE  Answered(p)' = Answered(p) \cup {n}
<1>1. <<n, r>>[1] = n
      OBVIOUS
<1>2. \A c \in counted'[p] : c \in counted[p] \/ c = <<n, r>>
      OBVIOUS
<1>3. <<n, r>> \in counted'[p] /\ counted[p] \subseteq counted'[p]
      OBVIOUS
<1> QED  BY <1>1, <1>2, <1>3 DEF Answered

(* The types of the latencies, and which of a call's own steps keeps what. *)
LEMMA PingKept ==
  ASSUME HostInv, NEW p \in Pingers, Ping(p)
  PROVE  HostInv'
<1>1. /\ HostTypeOK /\ \A q \in Pingers : CallInv(q)
      /\ number[p] \in 0 .. PingProbes
      BY DEF HostInv, HostTypeOK
<1>2. Expected(p) /\ Rightly(p) /\ AtPlace(p) /\ InTurn(p) /\ Kept(p)
      BY <1>1 DEF CallInv
<1>3. ASSUME socket' = socket, host' = host,
             \A q \in Pingers : echoed[q] \subseteq echoed'[q],
             \A q \in Pingers : q # p =>
               /\ echoed'[q] = echoed[q] /\ counted'[q] = counted[q]
               /\ buffer'[q] = buffer[q] /\ place'[q] = place[q]
               /\ number'[q] = number[q] /\ arrived'[q] = arrived[q]
               /\ late'[q] = late[q],
             HostTypeOK', CallInv(p)'
      PROVE  HostInv'
  <2>1. \A q \in Pingers : q # p => CallInv(q)'
        BY <1>1, <1>3, CallFrame
  <2> QED  BY <1>3, <2>1 DEF HostInv
<1>5. ASSUME buffer'[p] = buffer[p], counted'[p] = counted[p]
      PROVE  /\ Waiting(p)' = Waiting(p) /\ Pending(p)' = Pending(p)
             /\ Answered(p)' = Answered(p)
      BY <1>5 DEF Waiting, Pending, Answered
<1>6. ASSUME socket' = socket, host' = host, Waiting(p)' \subseteq Waiting(p),
             \A q \in Pingers : echoed[q] \subseteq echoed'[q]
      PROVE  Expected(p)'
      BY <1>2, <1>6 DEF Expected, Genuine
<1>7. ASSUME socket' = socket, host' = host, counted'[p] = counted[p],
             echoed[p] \subseteq echoed'[p]
      PROVE  Rightly(p)'
      BY <1>2, <1>7 DEF Rightly
<1>8. /\ number[p] \in Nat /\ \A s \in echoed[p] : s \in Nat
      /\ \A c \in counted[p] : c[1] \in Numbers /\ c[1] \in Nat
      BY <1>1, HostPingAssumption DEF HostTypeOK, Numbers
<1>9. buffer[p] = <<>> => Pending(p) = {}
      BY NoneInEmpty DEF Pending, Waiting
<1>10. CASE OpenPing(p)
  <2>1. /\ place[p] = "open" /\ place'[p] \in {"send", "over"}
        /\ \A q \in Pingers : q # p => place'[q] = place[q]
        /\ place' \in [Pingers -> {"none", "open", "send", "read", "over"}]
        /\ UNCHANGED <<socket, host, number, echoed, counted, buffer, arrived,
                       late>>
        BY <1>1, <1>10 DEF OpenPing, To, HostTypeOK
  <2>2. HostTypeOK'
        BY <1>1, <2>1 DEF HostTypeOK
  <2>3. AtPlace(p)' /\ InTurn(p)' /\ Kept(p)'
        BY <1>2, <1>5, <2>1, HostPingAssumption
        DEF AtPlace, InTurn, Kept, Nested
  <2> QED  BY <1>3, <1>5, <1>6, <1>7, <2>1, <2>2, <2>3 DEF CallInv
<1>11. ASSUME NEW written \in BOOLEAN,
             SendHostEcho(p, written) \/ SendEchoTo(p, written)
      PROVE  HostInv'
  <2>1. /\ place[p] = "send" /\ number[p] < PingProbes
        /\ number[p] \in Numbers
        BY <1>1, <1>2, <1>11, HostPingAssumption
        DEF SendHostEcho, SendEchoTo, AtPlace, Numbers, HostTypeOK
  <2>2. /\ echoed' = (IF written
                      THEN [echoed EXCEPT ![p] = @ \cup {number[p]}]
                      ELSE echoed)
        /\ UNCHANGED <<socket, host, counted, buffer, arrived, late>>
        BY <1>11 DEF SendHostEcho, SendEchoTo, Echo
  <2>3. \/ /\ number' = [number EXCEPT ![p] = number[p] + 1]
           /\ place' = [place EXCEPT ![p] = IF number[p] + 1 < PingProbes
                                            THEN "send"
                                            ELSE IF Nested THEN "over" ELSE "read"]
           /\ Nested => ~written
        \/ /\ number' = number /\ place' = [place EXCEPT ![p] = "read"]
           /\ Nested /\ written
        BY <1>11 DEF SendHostEcho, SendEchoTo, NextProbe, To
  <2>4. /\ echoed'[p] = (IF written THEN echoed[p] \cup {number[p]}
                                    ELSE echoed[p])
        /\ \A q \in Pingers : q # p => echoed'[q] = echoed[q]
        /\ \A q \in Pingers : echoed[q] \subseteq echoed'[q]
        BY <1>1, <2>2 DEF HostTypeOK
  <2>5. HostTypeOK'
    <3>1. echoed' \in [Pingers -> SUBSET Numbers]
          BY <1>1, <2>1, <2>2 DEF HostTypeOK
    <3>3. /\ number' \in [Pingers -> 0 .. PingProbes]
          /\ place' \in [Pingers -> {"none", "open", "send", "read", "over"}]
      <4>1. number[p] + 1 \in 0 .. PingProbes
            BY <1>1, <2>1, HostPingAssumption
      <4>2. /\ number \in [Pingers -> 0 .. PingProbes]
            /\ place \in [Pingers -> {"none", "open", "send", "read", "over"}]
            BY <1>1 DEF HostTypeOK
      <4> QED  BY <2>3, <4>1, <4>2
    <3> QED  BY <1>1, <2>2, <3>1, <3>3 DEF HostTypeOK
  <2>7. /\ \A q \in Pingers :
             q # p => place'[q] = place[q] /\ number'[q] = number[q]
        /\ \/ number'[p] = number[p] + 1 /\ (Nested => ~written)
           \/ number'[p] = number[p] /\ Nested /\ written
        /\ place'[p] \in {"send", "read", "over"}
        /\ place'[p] = "send" => number'[p] < PingProbes
        /\ Nested => (place'[p] = "read" <=> written)
        /\ ~Nested => place'[p] # "over"
    <3>1. /\ place \in [Pingers -> {"none", "open", "send", "read", "over"}]
          /\ number \in [Pingers -> 0 .. PingProbes]
          BY <1>1 DEF HostTypeOK
    <3>2. CASE /\ number' = number /\ place' = [place EXCEPT ![p] = "read"]
               /\ Nested /\ written
          BY <3>1, <3>2
    <3>3. CASE /\ number' = [number EXCEPT ![p] = number[p] + 1]
               /\ place' = [place EXCEPT ![p] =
                             IF number[p] + 1 < PingProbes THEN "send"
                             ELSE IF Nested THEN "over" ELSE "read"]
               /\ Nested => ~written
          BY <3>1, <3>3
    <3> QED  BY <2>3, <3>2, <3>3
  <2>8. AtPlace(p)'
        BY <2>1, <2>2, <2>7 DEF AtPlace, Nested
  <2>9. InTurn(p)'
    <3>1. Nested' = Nested
          BY <2>2 DEF Nested
    <3>2. CASE Nested /\ written
          BY <1>2, <1>8, <2>1, <2>2, <2>4, <2>7, <3>1, <3>2 DEF InTurn
    <3>3. CASE Nested /\ ~written
          BY <1>2, <1>8, <2>1, <2>2, <2>4, <2>7, <3>1, <3>3 DEF InTurn
    <3> QED  BY <3>1, <3>2, <3>3 DEF InTurn
  <2>10. Kept(p)'
    <3>1. Nested /\ ~late[p] => Pending(p) = {}
          BY <1>2, <1>9, <2>1 DEF InTurn
    <3>2. Nested' = Nested
          BY <2>2 DEF Nested
    <3> QED  BY <1>2, <1>5, <2>1, <2>2, <2>7, <3>1, <3>2 DEF Kept
  <2> QED
      BY <1>3, <1>5, <1>6, <1>7, <2>2, <2>4, <2>5, <2>7, <2>8, <2>9, <2>10
      DEF CallInv
<1>12. CASE ReadHostReply(p)
  <2> DEFINE r == Head(buffer[p])
             new == IF Wanted(p, r) THEN {<<r.seq, r>>} ELSE {}
  <2>1. /\ buffer[p] \in Seq(Reply) /\ buffer[p] # <<>>
        /\ counted[p] \in SUBSET (Numbers \X Reply)
        /\ arrived[p] \in SUBSET Numbers
        BY <1>1, <1>12 DEF HostTypeOK, ReadHostReply
  <2>2. /\ r \in Reply /\ Tail(buffer[p]) \in Seq(Reply)
        /\ Waiting(p) = {r} \cup Range(Tail(buffer[p]))
        BY <2>1, TakeOne DEF Waiting
  <2>3. new \in SUBSET (Numbers \X Reply)
        BY <2>2 DEF Reply
  <2>4. /\ place[p] = "read" /\ ~Nested
        /\ counted' = [counted EXCEPT ![p] = counted[p] \cup new]
        /\ buffer' = [buffer EXCEPT ![p] = Tail(buffer[p])]
        /\ place' = [place EXCEPT ![p] =
                       IF Cardinality(counted[p] \cup new) = PingProbes
                       THEN "over" ELSE "read"]
        /\ UNCHANGED <<socket, host, number, echoed, arrived, late>>
        BY <1>12 DEF ReadHostReply, To
  <2>5. /\ Wanted(p, r) => new = {<<r.seq, r>>}
        /\ ~Wanted(p, r) => new = {}
        OBVIOUS
  <2> HIDE DEF r, new
  <2>6. HostTypeOK'
    <3>1. counted' \in [Pingers -> SUBSET (Numbers \X Reply)]
          BY <1>1, <2>1, <2>3, <2>4 DEF HostTypeOK
    <3>2. buffer' \in [Pingers -> Seq(Reply)]
          BY <1>1, <2>2, <2>4 DEF HostTypeOK
    <3>3. place' \in [Pingers -> {"none", "open", "send", "read", "over"}]
          BY <1>1, <2>4 DEF HostTypeOK
    <3> QED  BY <1>1, <2>4, <3>1, <3>2, <3>3 DEF HostTypeOK
  <2>7. /\ counted'[p] = counted[p] \cup new /\ buffer'[p] = Tail(buffer[p])
        /\ place'[p] \in {"read", "over"}
        /\ place'[p] = "over" => Cardinality(counted'[p]) = PingProbes
        /\ \A q \in Pingers : q # p =>
             /\ counted'[q] = counted[q] /\ buffer'[q] = buffer[q]
             /\ place'[q] = place[q]
        BY <1>1, <2>4 DEF HostTypeOK
  <2>8. Waiting(p) = {r} \cup Waiting(p)'
        BY <2>2, <2>7 DEF Waiting
  <2>9. /\ Genuine(r) /\ (socket # "raw" => r.to = p)
        BY <1>2, <2>8 DEF Expected
  <2>10. Rightly(p)'
    <3>1. CASE ~Wanted(p, r)
          BY <1>2, <2>4, <2>5, <2>7, <3>1 DEF Rightly
    <3>2. CASE Wanted(p, r)
      <4>1. /\ r.seq \in echoed[p] /\ r.from = host[p]
            /\ \A d \in counted[p] : d[1] # r.seq
            BY <3>2 DEF Wanted, Answered
      <4> QED  BY <1>2, <2>4, <2>5, <2>7, <2>9, <3>2, <4>1 DEF Rightly
    <3> QED  BY <3>1, <3>2
  <2>11. AtPlace(p)' /\ InTurn(p)'
         BY <1>2, <2>4, <2>7 DEF AtPlace, InTurn, Nested
  <2>12. Kept(p)'
    <3>1. arrived[p] \subseteq Answered(p) \cup Pending(p)
          BY <1>2, <2>4 DEF Kept
    <3>2. r.to = p => r.seq \in Answered(p)'
      <4>1. r.to = p => r.from = host[p] /\ r.seq \in echoed[p]
            BY <2>9 DEF Genuine
      <4>2. CASE Wanted(p, r)
        <5>1. counted'[p] = counted[p] \cup {<<r.seq, r>>}
              BY <2>5, <2>7, <4>2
        <5>2. Answered(p)' = Answered(p) \cup {r.seq}
              BY <5>1, AnsweredMore
        <5> QED  BY <5>2
      <4>3. ~Wanted(p, r) /\ r.to = p => r.seq \in Answered(p)
            BY <4>1 DEF Wanted
      <4>4. Answered(p) \subseteq Answered(p)'
            BY <2>7 DEF Answered
      <4> QED  BY <4>2, <4>3, <4>4
    <3>3. Answered(p) \subseteq Answered(p)'
          BY <2>7 DEF Answered
    <3>4. Pending(p) \subseteq Answered(p)' \cup Pending(p)'
          BY <2>8, <3>2 DEF Pending
    <3>5. ASSUME place'[p] = "over"
          PROVE  arrived[p] \subseteq Answered(p)'
      <4>1. counted'[p] \in SUBSET (Numbers \X Reply)
            BY <2>1, <2>3, <2>7
      <4>2. \A c, d \in counted'[p] : c[1] = d[1] => c = d
            BY <2>10 DEF Rightly
      <4>3. Answered(p)' = Numbers
            BY <2>7, <3>5, <4>1, <4>2, AllAnswered DEF Answered
      <4> QED  BY <2>1, <4>3
    <3> QED  BY <2>4, <3>1, <3>3, <3>4, <3>5 DEF Kept
  <2> QED
      BY <1>3, <1>6, <2>4, <2>6, <2>7, <2>8, <2>10, <2>11, <2>12
      DEF CallInv
<1>13. CASE ReadReplyTo(p)
  <2> DEFINE r == Head(buffer[p])
             new == IF r.seq = number[p] THEN {<<number[p], r>>} ELSE {}
  <2>1. /\ buffer[p] \in Seq(Reply) /\ buffer[p] # <<>>
        /\ counted[p] \in SUBSET (Numbers \X Reply)
        BY <1>1, <1>13 DEF HostTypeOK, ReadReplyTo
  <2>2. /\ r \in Reply /\ Tail(buffer[p]) \in Seq(Reply)
        /\ Waiting(p) = {r} \cup Range(Tail(buffer[p]))
        /\ r = buffer[p][1] /\ Len(Tail(buffer[p])) = Len(buffer[p]) - 1
        BY <2>1, TakeOne DEF Waiting
  <2>3. /\ place[p] = "read" /\ Nested /\ socket # "raw"
        /\ counted' = [counted EXCEPT ![p] = counted[p] \cup new]
        /\ buffer' = [buffer EXCEPT ![p] = Tail(buffer[p])]
        /\ number' = [number EXCEPT ![p] = number[p] + 1]
        /\ place' = [place EXCEPT ![p] = IF number[p] + 1 < PingProbes
                                         THEN "send" ELSE "over"]
        /\ UNCHANGED <<socket, host, echoed, arrived, late>>
    <3>1. counted' = [counted EXCEPT ![p] = IF r.seq = number[p]
                        THEN counted[p] \cup {<<number[p], r>>} ELSE counted[p]]
          BY <1>13 DEF ReadReplyTo
    <3>2. (IF r.seq = number[p] THEN counted[p] \cup {<<number[p], r>>}
                                ELSE counted[p])
          = counted[p] \cup new
          OBVIOUS
    <3> QED  BY <1>13, <3>1, <3>2 DEF ReadReplyTo, NextProbe, To, Nested
  <2>4. /\ number[p] < PingProbes /\ number[p] \in echoed[p]
        /\ number[p] \in Numbers
        BY <1>1, <1>2, <2>3, HostPingAssumption
        DEF AtPlace, InTurn, Numbers, HostTypeOK
  <2>5. \/ new = {} /\ r.seq # number[p]
        \/ new = {<<number[p], r>>} /\ r.seq = number[p]
        OBVIOUS
  <2> HIDE DEF r, new
  <2>6. HostTypeOK'
    <3>1. counted' \in [Pingers -> SUBSET (Numbers \X Reply)]
          BY <1>1, <2>1, <2>2, <2>3, <2>4, <2>5 DEF HostTypeOK
    <3>2. buffer' \in [Pingers -> Seq(Reply)]
          BY <1>1, <2>2, <2>3 DEF HostTypeOK
    <3>3. place' \in [Pingers -> {"none", "open", "send", "read", "over"}]
          BY <1>1, <2>3 DEF HostTypeOK
    <3>4. number[p] + 1 \in 0 .. PingProbes
          BY <1>1, <2>4, HostPingAssumption
    <3>5. number' \in [Pingers -> 0 .. PingProbes]
          BY <1>1, <2>3, <3>4 DEF HostTypeOK
    <3> QED  BY <1>1, <2>3, <3>1, <3>2, <3>3, <3>5 DEF HostTypeOK
  <2>7. /\ counted'[p] = counted[p] \cup new /\ buffer'[p] = Tail(buffer[p])
        /\ number'[p] = number[p] + 1 /\ place'[p] \in {"send", "over"}
        /\ place'[p] = "send" => number'[p] < PingProbes
        /\ \A q \in Pingers : q # p =>
             /\ counted'[q] = counted[q] /\ buffer'[q] = buffer[q]
             /\ place'[q] = place[q] /\ number'[q] = number[q]
        BY <1>1, <2>3 DEF HostTypeOK
  <2>8. Waiting(p) = {r} \cup Waiting(p)'
        BY <2>2, <2>7 DEF Waiting
  <2>9. r.to = p /\ r.from = host[p]
    <3>1. Genuine(r) /\ r.to = p
          BY <1>2, <2>3, <2>8 DEF Expected
    <3> QED  BY <3>1 DEF Genuine
  <2>10. Rightly(p)'
    <3>1. \A d \in counted[p] : d[1] # number[p]
          BY <1>2, <1>8, <2>3 DEF InTurn
    <3> QED  BY <1>2, <2>3, <2>4, <2>5, <2>7, <2>9, <3>1 DEF Rightly
  <2>11. AtPlace(p)'
         BY <2>3, <2>7 DEF AtPlace, Nested
  <2>12. late[p] \/ buffer'[p] = <<>>
    <3>1. late[p] \/ Len(buffer[p]) = 1
          BY <1>2, <2>1, <2>3 DEF InTurn
    <3>2. Len(buffer[p]) = 1 => Len(Tail(buffer[p])) = 0
          BY <2>2
    <3> QED  BY <2>2, <2>7, <3>1, <3>2, EmptySeq
  <2>13. InTurn(p)'
    <3>1. \A c \in counted'[p] : c[1] < number'[p]
          BY <1>2, <1>8, <2>3, <2>5, <2>7 DEF InTurn
    <3>2. \A s \in echoed'[p] : s < number'[p]
          BY <1>2, <1>8, <2>3, <2>7 DEF InTurn
    <3> QED  BY <2>3, <2>7, <2>12, <3>1, <3>2 DEF InTurn
  <2>14. Kept(p)'
    <3> SUFFICES ASSUME ~late[p]
                 PROVE  arrived[p] \subseteq Answered(p)'
        BY <2>3 DEF Kept, Nested
    <3>1. r.seq = number[p] /\ buffer'[p] = <<>>
          BY <1>2, <2>1, <2>2, <2>3, <2>12 DEF InTurn
    <3>2. Waiting(p) = {r}
          BY <2>8, <3>1, NoneInEmpty DEF Waiting
    <3>3. Answered(p)' = Answered(p) \cup {number[p]}
      <4>1. counted'[p] = counted[p] \cup {<<number[p], r>>}
            BY <2>5, <2>7, <3>1
      <4> QED  BY <4>1, AnsweredMore
    <3> QED  BY <1>2, <3>1, <3>2, <3>3 DEF Kept, Pending
  <2> QED
      BY <1>3, <1>6, <2>3, <2>6, <2>7, <2>8, <2>10, <2>11, <2>13, <2>14
      DEF CallInv
<1>14. CASE Deadline(p)
  <2>1. /\ place[p] = "read" /\ (Nested => buffer[p] = <<>>)
        /\ ~Nested => \A k \in DOMAIN buffer[p] : ~Wanted(p, buffer[p][k])
        /\ \/ /\ Nested /\ number' = [number EXCEPT ![p] = number[p] + 1]
              /\ place' = [place EXCEPT ![p] = IF number[p] + 1 < PingProbes
                                               THEN "send" ELSE "over"]
           \/ /\ ~Nested /\ number' = number
              /\ place' = [place EXCEPT ![p] = "over"]
        /\ UNCHANGED <<socket, host, echoed, counted, buffer, arrived, late>>
        BY <1>14 DEF Deadline, NextProbe, To
  <2>2. Nested => number[p] < PingProbes
        BY <1>2, <2>1 DEF AtPlace
  <2>3. HostTypeOK'
    <3>1. Nested => number[p] + 1 \in 0 .. PingProbes
          BY <1>1, <2>2, HostPingAssumption
    <3>2. number' \in [Pingers -> 0 .. PingProbes]
          BY <1>1, <2>1, <3>1 DEF HostTypeOK
    <3>3. place' \in [Pingers -> {"none", "open", "send", "read", "over"}]
          BY <1>1, <2>1 DEF HostTypeOK
    <3> QED  BY <1>1, <2>1, <3>2, <3>3 DEF HostTypeOK
  <2>4. /\ \/ /\ Nested /\ number'[p] = number[p] + 1
              /\ place'[p] \in {"send", "over"}
              /\ place'[p] = "send" => number'[p] < PingProbes
           \/ ~Nested /\ number'[p] = number[p] /\ place'[p] = "over"
        /\ \A q \in Pingers :
             q # p => place'[q] = place[q] /\ number'[q] = number[q]
        BY <1>1, <2>1 DEF HostTypeOK
  <2>5. AtPlace(p)'
        BY <2>1, <2>4 DEF AtPlace, Nested
  <2>6. InTurn(p)'
        BY <1>2, <1>8, <2>1, <2>4 DEF InTurn, Nested
  <2>7. Kept(p)'
    <3>1. ASSUME ~Nested  PROVE Pending(p) \subseteq Answered(p)
      <4> SUFFICES ASSUME NEW r \in Waiting(p), r.to = p
                   PROVE  r.seq \in Answered(p)
          BY DEF Pending
      <4>1. ~Wanted(p, r)
            BY <2>1, <3>1 DEF Waiting, Range
      <4>2. r.from = host[p] /\ r.seq \in echoed[p]
            BY <1>2 DEF Expected, Genuine
      <4> QED  BY <4>1, <4>2 DEF Wanted
    <3> QED  BY <1>2, <1>5, <1>9, <2>1, <3>1 DEF Kept, Nested
  <2> QED
      BY <1>3, <1>5, <1>6, <1>7, <2>1, <2>3, <2>4, <2>5, <2>6, <2>7
      DEF CallInv
<1> QED  BY <1>10, <1>11, <1>12, <1>13, <1>14 DEF Ping

-----------------------------------------------------------------------------
(* A reply that arrives is at the end of the queue of every call whose     *)
(* socket it reaches.                                                      *)
LEMMA ArriveAt ==
  ASSUME HostInv, NEW r \in Reply, Genuine(r), Arrive(r), NEW p \in Pingers,
         UNCHANGED <<socket, host, place, number, echoed, counted>>
  PROVE  CallInv(p)'
<1>1. /\ HostTypeOK /\ CallInv(p)
      /\ buffer[p] \in Seq(Reply) /\ number[p] \in Nat
      /\ \A s \in echoed[p] : s \in Nat
      BY HostPingAssumption DEF HostInv, HostTypeOK, Numbers
<1>2. Expected(p) /\ Rightly(p) /\ AtPlace(p) /\ InTurn(p) /\ Kept(p)
      BY <1>1 DEF CallInv
<1>3. /\ buffer'[p] = (IF Reaches(r, p) THEN Append(buffer[p], r) ELSE buffer[p])
      /\ arrived'[p] = (IF r.to = p /\ Reaches(r, p) THEN arrived[p] \cup {r.seq}
                                                      ELSE arrived[p])
      /\ late'[p] = (late[p] \/ /\ Reaches(r, p)
                                /\ r.seq # number[p] \/ r.seq \in arrived[p])
      BY DEF Arrive
<1>4. CASE ~Reaches(r, p)
  <2>1. buffer'[p] = buffer[p] /\ arrived'[p] = arrived[p]
        BY <1>3, <1>4
  <2>2. late'[p] = late[p]
        BY <1>1, <1>3, <1>4 DEF HostTypeOK
  <2> QED  BY <1>1, <2>1, <2>2, CallFrame
<1>5. CASE Reaches(r, p)
  <2>1. /\ place[p] \in {"send", "read"} /\ (socket # "raw" => r.to = p)
        /\ Nested' = Nested /\ (Nested => r.to = p)
        BY <1>5 DEF Reaches, HasSocket, Nested
  <2>2. /\ buffer'[p] = Append(buffer[p], r)
        /\ Waiting(p)' = Waiting(p) \cup {r}
        /\ Len(buffer'[p]) = Len(buffer[p]) + 1
        /\ buffer[p] = <<>> => buffer'[p][1] = r
        BY <1>1, <1>3, <1>5, PutOne DEF Waiting
  <2>3. /\ r.to = p => arrived'[p] = arrived[p] \cup {r.seq}
        /\ r.to # p => arrived'[p] = arrived[p]
        BY <1>3, <1>5
  <2>4. ~late'[p] => ~late[p] /\ r.seq = number[p] /\ r.seq \notin arrived[p]
        BY <1>3, <1>5
  <2>5. Expected(p)'
        BY <1>2, <2>1, <2>2 DEF Expected, Genuine
  <2>6. Rightly(p)' /\ AtPlace(p)'
        BY <1>2, <2>1 DEF Rightly, AtPlace
  <2>7. ASSUME Nested, ~late'[p]
        PROVE  /\ Len(buffer'[p]) = 1 /\ place[p] = "read"
               /\ buffer'[p][1].seq = number[p] /\ number[p] \in arrived'[p]
    <3>1. r.to = p /\ r.seq = number[p] /\ number[p] \in echoed[p]
          BY <2>1, <2>4, <2>7 DEF Genuine
    <3>2. place[p] = "read"
          BY <1>1, <1>2, <2>7, <3>1 DEF InTurn
    <3>3. buffer[p] = <<>>
          BY <1>2, <2>4, <2>7 DEF InTurn
    <3>4. Len(buffer[p]) = 0
          BY <3>3
    <3> QED  BY <2>2, <2>3, <3>1, <3>2, <3>3, <3>4
  <2>8. InTurn(p)'
        BY <1>2, <2>1, <2>7 DEF InTurn
  <2>9. Kept(p)'
    <3>1. Answered(p)' = Answered(p)
          BY DEF Answered
    <3>2. Pending(p) \subseteq Pending(p)' /\ (r.to = p => r.seq \in Pending(p)')
          BY <2>2 DEF Pending
    <3>3. (Nested' => ~late'[p]) => (Nested => ~late[p])
          BY <2>1, <2>4
    <3> QED  BY <1>2, <2>1, <2>3, <3>1, <3>2, <3>3 DEF Kept
  <2> QED  BY <2>5, <2>6, <2>8, <2>9 DEF CallInv
<1> QED  BY <1>4, <1>5

(* A reply that arrives leaves the rest of the state as typed as it was.   *)
LEMMA ArriveTypes ==
  ASSUME HostTypeOK, NEW r \in Reply, Arrive(r),
         UNCHANGED <<socket, host, place, number, echoed, counted>>
  PROVE  HostTypeOK'
<1>1. buffer' \in [Pingers -> Seq(Reply)]
  <2>1. \A p \in Pingers : /\ buffer[p] \in Seq(Reply)
                           /\ Append(buffer[p], r) \in Seq(Reply)
        BY PutOne DEF HostTypeOK
  <2> QED  BY <2>1 DEF Arrive
<1>2. arrived' \in [Pingers -> SUBSET Numbers]
  <2>1. r.seq \in Numbers
        BY DEF Reply
  <2>2. \A p \in Pingers : /\ arrived[p] \in SUBSET Numbers
                           /\ arrived[p] \cup {r.seq} \in SUBSET Numbers
        BY <2>1 DEF HostTypeOK
  <2> QED  BY <2>2 DEF Arrive
<1>3. late' \in [Pingers -> BOOLEAN]
      BY DEF Arrive
<1> QED  BY <1>1, <1>2, <1>3 DEF HostTypeOK

(* The arrival of a reply, wherever it goes, keeps the invariant.          *)
LEMMA ArrivalKept ==
  ASSUME HostInv, Replies
  PROVE  HostInv'
<1>1. HostTypeOK
      BY DEF HostInv
<1>2. ASSUME NEW r \in Reply, Genuine(r), Arrive(r),
             UNCHANGED <<socket, host, place, number, echoed, counted>>
      PROVE  HostInv'
  <2>1. HostTypeOK'
        BY <1>1, <1>2, ArriveTypes
  <2>2. \A p \in Pingers : CallInv(p)'
        BY <1>2, ArriveAt
  <2> QED  BY <2>1, <2>2 DEF HostInv
<1>3. ASSUME NEW r \in Airborne  PROVE r \in Reply /\ Genuine(r)
  <2>1. PICK p \in Pingers :
          r \in [to : {p}, from : {host[p]}, seq : echoed[p]]
        BY DEF Airborne
  <2>2. host[p] \in Hosts /\ echoed[p] \in SUBSET Numbers
        BY <1>1 DEF HostTypeOK
  <2> QED  BY <2>1, <2>2 DEF Reply, Genuine
<1>4. ASSUME NEW r \in Airborne, ReplyArrives(r)
      PROVE  HostInv'
      BY <1>2, <1>3, <1>4 DEF ReplyArrives
<1>5. ASSUME NEW h \in Hosts, NEW s \in Numbers, StrangerIsAnswered(h, s)
      PROVE  HostInv'
  <2> DEFINE r == [to |-> Stranger, from |-> h, seq |-> s]
  <2>1. r \in Reply /\ Genuine(r)
        BY HostPingAssumption DEF Reply, Genuine
  <2>2. /\ Arrive(r)
        /\ UNCHANGED <<socket, host, place, number, echoed, counted>>
        BY <1>5 DEF StrangerIsAnswered
  <2> QED  BY <1>2, <2>1, <2>2
<1> QED  BY <1>4, <1>5 DEF Replies

-----------------------------------------------------------------------------
(* What a step that is not of the check, or not of a latency, leaves.      *)
LEMMA BurstFrame == BurstInv /\ UNCHANGED burstVars => BurstInv'
<1> SUFFICES ASSUME BurstInv, UNCHANGED burstVars  PROVE BurstInv'
    OBVIOUS
<1>1. /\ UNCHANGED <<burst, mode, seq, sent, got, inbox, first, verdict, cut,
                     delivered, mute>>
      BY DEF burstVars
<1>2. BurstTypeOK'
      BY <1>1 DEF BurstInv, BurstTypeOK
<1>3. BurstNow' /\ BurstsBefore' /\ VerdictInv'
      BY <1>1
      DEF BurstInv, BurstNow, BurstsBefore, VerdictInv, UnderWay, Over, Delivered,
          Unread, Scored, teardown
<1> QED  BY <1>2, <1>3 DEF BurstInv

(* The same of the latencies.                                              *)
LEMMA HostFrame == HostInv /\ UNCHANGED hostVars => HostInv'
<1> SUFFICES ASSUME HostInv, UNCHANGED hostVars  PROVE HostInv'
    OBVIOUS
<1>1. UNCHANGED <<socket, host, place, number, echoed, counted, buffer, arrived,
                  late>>
      BY DEF hostVars
<1>2. HostTypeOK'
      BY <1>1 DEF HostInv, HostTypeOK
<1>3. \A p \in Pingers : CallInv(p)'
      BY <1>1, CallFrame DEF HostInv
<1> QED  BY <1>2, <1>3 DEF HostInv

(* The invariant of both.                                                  *)
LEMMA PingInvariant == Spec => []PingInv
<1>1. Init => PingInv
      BY BurstStarts, HostStarts DEF PingInv
<1>2. PingInv /\ [Next]_vars => PingInv'
  <2> SUFFICES ASSUME PingInv, [Next]_vars  PROVE PingInv'
      OBVIOUS
  <2>1. BurstInv /\ HostInv
        BY DEF PingInv
  <2>2. CASE (Burst \/ Network) /\ UNCHANGED hostVars
        BY <2>1, <2>2, BurstKept, HostFrame DEF PingInv
  <2>3. CASE Replies /\ UNCHANGED burstVars
        BY <2>1, <2>3, ArrivalKept, BurstFrame DEF PingInv
  <2>4. ASSUME NEW p \in Pingers, Ping(p), UNCHANGED burstVars
        PROVE  PingInv'
        BY <2>1, <2>4, PingKept, BurstFrame DEF PingInv
  <2>5. CASE UNCHANGED vars
        BY <2>1, <2>5, BurstFrame, HostFrame DEF PingInv, vars
  <2> QED  BY <2>2, <2>3, <2>4, <2>5 DEF Next
<1> QED  BY <1>1, <1>2, PTL DEF Spec

-----------------------------------------------------------------------------
(* Every variable of a check and of the latencies stays in its type.       *)
THEOREM PingTypes == Spec => []TypeOK
<1>1. PingInv => TypeOK
      BY DEF PingInv, BurstInv, HostInv, TypeOK
<1> QED  BY <1>1, PingInvariant, PTL

(* The loss that the check reports is that of one burst, with every reply  *)
(* that came while its socket was open counted, once.                      *)
THEOREM LossCountsOneBurst == Spec => []LossIsOneBurst
<1>1. PingInv => LossIsOneBurst
  <2> SUFFICES ASSUME PingInv, Over
               PROVE  \/ verdict.lost = Count - Cardinality(Delivered(verdict.of))
                      \/ mute /\ verdict.lost = 0
      BY DEF LossIsOneBurst
  <2>1. BurstsBefore /\ VerdictInv
        BY DEF PingInv, BurstInv
  <2> QED  BY <2>1 DEF VerdictInv, Scored, BurstsBefore
<1> QED  BY <1>1, PingInvariant, PTL

(* The check speaks of a teardown only after two bursts whose last echoes  *)
(* all stayed without a reply.                                             *)
THEOREM TornTwice == Spec => []TornNeedsTwoSilentTails
<1>1. PingInv => TornNeedsTwoSilentTails
  <2> SUFFICES ASSUME PingInv, Over, verdict.torn
               PROVE  /\ \A b \in Bursts : Delivered(b) \cap LastEchoes = {}
                      /\ verdict.of = 1 /\ burst = 2
      BY DEF TornNeedsTwoSilentTails
  <2>1. BurstsBefore /\ VerdictInv
        BY DEF PingInv, BurstInv
  <2>2. burst = 2 /\ verdict = first /\ teardown(Delivered(2))
        BY <2>1 DEF VerdictInv
  <2>3. teardown(Delivered(1)) /\ first.of = 1
        BY <2>1, <2>2 DEF BurstsBefore, Scored
  <2> QED  BY <2>2, <2>3 DEF Bursts, teardown
<1> QED  BY <1>1, PingInvariant, PTL

(* A tunnel that is cut in the first burst, before one of its last echoes  *)
(* was answered, is reported.                                              *)
THEOREM CutShows == Spec => []CutIsReported
<1>1. PingInv => CutIsReported
  <2> SUFFICES ASSUME PingInv, Over, cut = 1, ~mute,
                      Delivered(1) \cap LastEchoes = {}
               PROVE  verdict.torn
      BY DEF CutIsReported
  <2>1. BurstTypeOK /\ BurstsBefore /\ VerdictInv
        BY DEF PingInv, BurstInv
  <2>2. \A b \in Bursts : Scored(verdict, b) /\ Delivered(b) \cap LastEchoes = {}
                            => verdict.torn
        BY PingAssumption DEF Scored, teardown
  <2>3. CASE burst = 1
        BY <2>1, <2>2, <2>3 DEF VerdictInv, Bursts
  <2>4. CASE burst = 2
    <3>1. Delivered(2) = {} /\ first.torn
          BY <2>1, <2>4 DEF BurstsBefore
    <3> QED  BY <2>1, <2>2, <2>4, <3>1 DEF VerdictInv, Bursts
  <2> QED  BY <2>1, <2>3, <2>4 DEF BurstTypeOK, Bursts
<1> QED  BY <1>1, PingInvariant, PTL

(* The average of a call has one reply at most to a number, from the host  *)
(* that was asked, and its own where the socket can tell.                  *)
THEOREM AverageIsOwn == Spec => []OwnEcho
<1>1. PingInv => OwnEcho
      BY DEF PingInv, HostInv, CallInv, Rightly, OwnEcho
<1> QED  BY <1>1, PingInvariant, PTL

(* When a call is over, each of its echoes whose reply came in time is in  *)
(* the average.                                                            *)
THEOREM AverageIsComplete == Spec => []NoReplyMissed
<1>1. PingInv => NoReplyMissed
      BY DEF PingInv, HostInv, CallInv, Kept, NoReplyMissed
<1> QED  BY <1>1, PingInvariant, PTL

-----------------------------------------------------------------------------
(* Ranking.  A strict linear order R of the set T, and the sequence of T   *)
(* in it.                                                                  *)
Linear(T, R) ==
  /\ \A a \in T : <<a, a>> \notin R
  /\ \A a, b, c \in T : <<a, b>> \in R /\ <<b, c>> \in R => <<a, c>> \in R
  /\ \A a, b \in T : a # b => <<a, b>> \in R \/ <<b, a>> \in R

Arranged(s, T, R) ==
  /\ s \in [1 .. Cardinality(T) -> T]
  /\ \A i, j \in 1 .. Cardinality(T) : i < j => <<s[i], s[j]>> \in R

(* v put in s, so that it is at place p.                                   *)
Placed(s, p, v) ==
  [i \in 1 .. Len(s) + 1 |->
     IF i < p THEN s[i] ELSE IF i = p THEN v ELSE s[i - 1]]

(* p is the place of the first that v comes before.                        *)
FirstAfter(s, p, v, R) ==
  /\ p \in 1 .. Len(s) + 1
  /\ \A i \in 1 .. p - 1 : <<v, s[i]>> \notin R
  /\ p <= Len(s) => <<v, s[p]>> \in R

LEMMA LeastOf ==
  ASSUME NEW T, T \subseteq Nat, T # {}
  PROVE  \E x \in T : \A y \in T : x <= y
<1> DEFINE R == OpToRel(<, Nat)
<1>1. IsWellFoundedOn(R, Nat)
      BY NatLessThanWellFounded
<1>2. \A x, y \in Nat : <<y, x>> \in R <=> y < x
  BY DEF OpToRel
<1> HIDE DEF R
<1>3. PICK x \in T : \A y \in T : ~ (<<y, x>> \in R)
      BY <1>1, WFMin
<1>4. ASSUME NEW y \in T  PROVE x <= y
  <2>1. x \in Nat /\ y \in Nat
        OBVIOUS
  <2>2. ~ (y < x)
        BY <1>2, <1>3, <2>1
  <2> QED  BY <2>1, <2>2
<1> QED  BY <1>4

(* An arrangement has every element, once.                                 *)
LEMMA ArrangedOnto ==
  ASSUME NEW T, IsFiniteSet(T), NEW R, Linear(T, R),
         NEW s, Arranged(s, T, R)
  PROVE  /\ Cardinality(T) \in Nat /\ Len(s) = Cardinality(T)
         /\ s \in Seq(T) /\ DOMAIN s = 1 .. Cardinality(T)
         /\ \A x \in T : \E i \in 1 .. Cardinality(T) : s[i] = x
         /\ \A i, j \in 1 .. Cardinality(T) : s[i] = s[j] => i = j
<1> DEFINE n == Cardinality(T)
<1>1. n \in Nat
      BY FS_CardinalityType
<1>2. IsFiniteSet(1 .. n) /\ Cardinality(1 .. n) = n
      BY <1>1, FS_Interval
<1>3. s \in [1 .. n -> T] /\ \A i, j \in 1 .. n : i < j => <<s[i], s[j]>> \in R
      BY DEF Arranged
<1> HIDE DEF n
<1>4. \A i, j \in 1 .. n : s[i] = s[j] => i = j
  <2> SUFFICES ASSUME NEW i \in 1 .. n, NEW j \in 1 .. n, s[i] = s[j], i # j
               PROVE FALSE
      OBVIOUS
  <2>1. i < j \/ j < i
        BY <1>1
  <2>2. <<s[i], s[i]>> \in R /\ s[i] \in T
        BY <1>3, <2>1
  <2> QED  BY <2>2 DEF Linear
<1>5. s \in Injection(1 .. n, T)
      BY <1>3, <1>4 DEF Injection, IsInjective
<1>6. s \in Surjection(1 .. n, T)
      BY <1>2, <1>5, FS_Injection DEF n
<1>7. \A x \in T : \E i \in 1 .. n : s[i] = x
      BY <1>6 DEF Surjection
<1> QED  BY <1>1, <1>3, <1>4, <1>7 DEF n

(* There is one arrangement at most.                                       *)
LEMMA ArrangedOnce ==
  ASSUME NEW T, IsFiniteSet(T), NEW R, Linear(T, R),
         NEW s, Arranged(s, T, R), NEW t, Arranged(t, T, R)
  PROVE  s = t
<1> DEFINE n == Cardinality(T)
           apart == {i \in 1 .. n : s[i] # t[i]}
<1>1. /\ n \in Nat
      /\ \A x \in T : \E i \in 1 .. n : s[i] = x
      /\ \A i, j \in 1 .. n : s[i] = s[j] => i = j
      BY ArrangedOnto
<1>2. /\ \A x \in T : \E i \in 1 .. n : t[i] = x
      /\ \A i, j \in 1 .. n : t[i] = t[j] => i = j
      BY ArrangedOnto
<1>3. /\ s \in [1 .. n -> T] /\ t \in [1 .. n -> T]
      /\ \A i, j \in 1 .. n : i < j => <<s[i], s[j]>> \in R
      /\ \A i, j \in 1 .. n : i < j => <<t[i], t[j]>> \in R
      BY DEF Arranged
<1> HIDE DEF n
<1>4. CASE apart = {}
  <2>1. \A i \in 1 .. n : s[i] = t[i]
        BY <1>4
  <2>2. /\ s = [i \in 1 .. n |-> s[i]] /\ t = [i \in 1 .. n |-> t[i]]
        BY <1>3
  <2>3. [i \in 1 .. n |-> s[i]] = [i \in 1 .. n |-> t[i]]
        BY <2>1
  <2> QED  BY <2>2, <2>3
<1>5. ASSUME apart # {}  PROVE FALSE
  <2>1. apart \subseteq Nat
        BY <1>1
  <2>2. PICK i \in apart : \A k \in apart : i <= k
    <3> HIDE DEF apart
    <3> QED  BY <1>5, <2>1, LeastOf
  <2>3. /\ i \in 1 .. n /\ s[i] # t[i] /\ s[i] \in T /\ t[i] \in T
        /\ \A k \in 1 .. n : k < i => s[k] = t[k]
        BY <1>1, <1>3, <2>2
  <2>4. PICK j \in 1 .. n : t[j] = s[i]
        BY <1>1, <1>2, <2>3
  <2>5. PICK k \in 1 .. n : s[k] = t[i]
        BY <1>1, <1>2, <2>3
  <2>6. i < j /\ i < k
    <3>1. ~ (j < i) /\ j # i
          BY <1>1, <2>3, <2>4
    <3>2. ~ (k < i) /\ k # i
          BY <1>2, <2>3, <2>5
    <3> QED  BY <1>1, <2>3, <3>1, <3>2
  <2>7. <<t[i], s[i]>> \in R /\ <<s[i], t[i]>> \in R
        BY <1>3, <2>3, <2>4, <2>5, <2>6
  <2>8. <<s[i], s[i]>> \in R
        BY <2>3, <2>7 DEF Linear
  <2> QED  BY <2>3, <2>8 DEF Linear
<1> QED  BY <1>4, <1>5

(* What is inserted before the first that it comes before stands in order. *)
LEMMA PlacedArranged ==
  ASSUME NEW T, IsFiniteSet(T), NEW R, NEW v, v \notin T,
         Linear(T \cup {v}, R), NEW s, Arranged(s, T, R),
         NEW p, FirstAfter(s, p, v, R)
  PROVE  Arranged(Placed(s, p, v), T \cup {v}, R)
<1> DEFINE n == Cardinality(T)
           t == Placed(s, p, v)
<1>1. Linear(T, R)
      BY Zenon DEF Linear
<1>2. /\ n \in Nat /\ Len(s) = n /\ s \in [1 .. n -> T]
      /\ \A i, j \in 1 .. n : i < j => <<s[i], s[j]>> \in R
      BY <1>1, ArrangedOnto DEF Arranged
<1>3. Cardinality(T \cup {v}) = n + 1
      BY FS_AddElement
<1> HIDE DEF n
<1>4. /\ p \in 1 .. n + 1
      /\ \A i \in 1 .. p - 1 : <<v, s[i]>> \notin R
      /\ p <= n => <<v, s[p]>> \in R
      BY <1>2 DEF FirstAfter
<1>5. ASSUME NEW i \in 1 .. p - 1  PROVE <<s[i], v>> \in R
  <2>1. i \in 1 .. n
        BY <1>2, <1>4
  <2>2. s[i] \in T /\ s[i] # v /\ <<v, s[i]>> \notin R
        BY <1>2, <1>4, <2>1
  <2> QED  BY <2>2 DEF Linear
<1>6. \A i \in p .. n : <<v, s[i]>> \in R
  <2> SUFFICES ASSUME NEW i \in p .. n  PROVE <<v, s[i]>> \in R
      OBVIOUS
  <2>1. <<v, s[p]>> \in R /\ p \in 1 .. n /\ i \in 1 .. n
        BY <1>2, <1>4
  <2>2. CASE i = p
        BY <2>1, <2>2
  <2>3. CASE i # p
    <3>1. <<s[p], s[i]>> \in R
          BY <1>2, <2>1, <2>3
    <3>2. s[p] \in T \cup {v} /\ s[i] \in T \cup {v} /\ v \in T \cup {v}
          BY <1>2, <2>1
    <3> QED  BY <2>1, <3>1, <3>2 DEF Linear
  <2> QED  BY <2>2, <2>3
<1>7. /\ t \in [1 .. n + 1 -> T \cup {v}]
      /\ \A i \in 1 .. n + 1 :
           t[i] = IF i < p THEN s[i] ELSE IF i = p THEN v ELSE s[i - 1]
      BY <1>2, <1>4 DEF Placed
<1>8. ASSUME NEW i \in 1 .. n + 1, NEW j \in 1 .. n + 1, i < j
      PROVE  <<t[i], t[j]>> \in R
  <2> HIDE DEF t
  <2>1. CASE j < p
        BY <1>2, <1>4, <1>7, <1>8, <2>1
  <2>2. CASE j = p
        BY <1>2, <1>4, <1>5, <1>7, <1>8, <2>2
  <2>3. CASE j > p /\ i = p
        BY <1>2, <1>4, <1>6, <1>7, <1>8, <2>3
  <2>4. CASE j > p /\ i < p
        BY <1>2, <1>4, <1>7, <1>8, <2>4
  <2>5. CASE j > p /\ i > p
        BY <1>2, <1>4, <1>7, <1>8, <2>5
  <2> QED  BY <1>2, <1>4, <2>1, <2>2, <2>3, <2>4, <2>5
<1> QED  BY <1>3, <1>7, <1>8 DEF Arranged

(* There is a place, and one arrangement at least.                         *)
LEMMA SomePlace ==
  ASSUME NEW s, Len(s) \in Nat, NEW v, NEW R
  PROVE  \E p : FirstAfter(s, p, v, R)
<1> DEFINE after == {i \in 1 .. Len(s) : <<v, s[i]>> \in R}
<1>1. CASE after = {}
  <2>1. FirstAfter(s, Len(s) + 1, v, R)
        BY <1>1 DEF FirstAfter
  <2> QED  BY <2>1
<1>2. CASE after # {}
  <2>1. after \subseteq Nat
        OBVIOUS
  <2>2. PICK p \in after : \A i \in after : p <= i
    <3> HIDE DEF after
    <3> QED  BY <1>2, <2>1, LeastOf
  <2>3. \A i \in 1 .. p - 1 : i \notin after
        BY <2>2
  <2>4. FirstAfter(s, p, v, R)
        BY <2>2, <2>3 DEF FirstAfter
  <2> QED  BY <2>4
<1> QED  BY <1>1, <1>2

LEMMA SomeArrangement ==
  ASSUME NEW T, IsFiniteSet(T), NEW R, Linear(T, R)
  PROVE  \E s : Arranged(s, T, R)
<1> DEFINE Bad(U) == ~ \E s : Arranged(s, U, R)
           bad == {n \in Nat :
                     \E U \in SUBSET T : Cardinality(U) = n /\ Bad(U)}
<1>1. \A U \in SUBSET T : /\ IsFiniteSet(U) /\ Cardinality(U) \in Nat
                          /\ Linear(U, R)
  <2> SUFFICES ASSUME NEW U \in SUBSET T
               PROVE  /\ IsFiniteSet(U) /\ Cardinality(U) \in Nat
                      /\ Linear(U, R)
      OBVIOUS
  <2>1. IsFiniteSet(U)
        BY FS_Subset
  <2>2. Linear(U, R)
        BY Zenon DEF Linear
  <2> QED  BY <2>1, <2>2, FS_CardinalityType
<1>2. ASSUME bad # {}  PROVE FALSE
  <2>1. bad \subseteq Nat
        OBVIOUS
  <2>2. PICK n \in bad : \A k \in bad : n <= k
    <3> HIDE DEF bad
    <3> QED  BY <1>2, <2>1, LeastOf
  <2>3. PICK U \in SUBSET T : Cardinality(U) = n /\ Bad(U)
        BY <2>2
  <2>4. U # {}
    <3> SUFFICES ASSUME U = {}  PROVE FALSE
        OBVIOUS
    <3>1. Cardinality(U) = 0
          BY FS_EmptySet
    <3>2. <<>> \in [1 .. 0 -> U]
          OBVIOUS
    <3>3. Arranged(<<>>, U, R)
          BY <3>1, <3>2 DEF Arranged
    <3> QED  BY <2>3, <3>3
  <2>5. PICK v \in U : TRUE
        BY <2>4
  <2>6. /\ U \ {v} \in SUBSET T /\ v \notin U \ {v}
        /\ (U \ {v}) \cup {v} = U
        BY <2>3, <2>5
  <2>7. Cardinality(U \ {v}) = n - 1 /\ n - 1 \in Nat
    <3>1. Cardinality(U \ {v}) = Cardinality(U) - 1
          BY <1>1, <2>3, <2>5, FS_RemoveElement
    <3> QED  BY <1>1, <2>3, <2>6, <3>1
  <2>8. ~ Bad(U \ {v})
    <3> SUFFICES ASSUME Bad(U \ {v})  PROVE FALSE
        OBVIOUS
    <3>1. n - 1 \in bad
          BY <2>6, <2>7
    <3> QED  BY <2>2, <2>7, <3>1
  <2>9. PICK s : Arranged(s, U \ {v}, R)
        BY <2>8
  <2>10. IsFiniteSet(U \ {v}) /\ Linear(U \ {v}, R) /\ Linear(U, R)
        BY <1>1, <2>6
  <2>11. Len(s) \in Nat
        BY <2>9, <2>10, ArrangedOnto
  <2>12. PICK p : FirstAfter(s, p, v, R)
        BY <2>11, SomePlace
  <2>13. Linear((U \ {v}) \cup {v}, R)
        BY <2>6, <2>10
  <2>14. Arranged(Placed(s, p, v), (U \ {v}) \cup {v}, R)
        BY <2>6, <2>9, <2>10, <2>12, <2>13, PlacedArranged
  <2>15. Arranged(Placed(s, p, v), U, R)
        BY <2>6, <2>14
  <2> QED  BY <2>3, <2>15
<1>3. Cardinality(T) \in Nat
      BY FS_CardinalityType
<1> QED  BY <1>2, <1>3

-----------------------------------------------------------------------------
(* The ways of the library to insert are Placed.                           *)
LEMMA AppendIsPlaced ==
  ASSUME NEW S, NEW s \in Seq(S), NEW v
  PROVE  Append(s, v) = Placed(s, Len(s) + 1, v)
<1>1. /\ Len(s) \in Nat
      /\ Append(s, v) \in [1 .. Len(s) + 1 -> S \cup {v}]
      /\ \A i \in 1 .. Len(s) : Append(s, v)[i] = s[i]
      /\ Append(s, v)[Len(s) + 1] = v
  <2>1. s \in Seq(S \cup {v}) /\ v \in S \cup {v}
        OBVIOUS
  <2>2. /\ Append(s, v) \in Seq(S \cup {v})
        /\ Len(Append(s, v)) = Len(s) + 1 /\ Len(s) \in Nat
        /\ \A i \in 1 .. Len(s) : Append(s, v)[i] = s[i]
        /\ Append(s, v)[Len(s) + 1] = v
        BY <2>1, AppendProperties
  <2>3. Append(s, v) \in [1 .. Len(Append(s, v)) -> S \cup {v}]
        BY <2>2, LenProperties
  <2> QED  BY <2>2, <2>3
<1>2. Append(s, v) = [i \in 1 .. Len(s) + 1 |-> Append(s, v)[i]]
      BY <1>1
<1>3. \A i \in 1 .. Len(s) + 1 :
        Append(s, v)[i] = IF i < Len(s) + 1 THEN s[i]
                          ELSE IF i = Len(s) + 1 THEN v ELSE s[i - 1]
      BY <1>1
<1> QED  BY <1>2, <1>3 DEF Placed

LEMMA InsertAtIsPlaced ==
  ASSUME NEW S, NEW s \in Seq(S), NEW v, NEW p \in 1 .. Len(s)
  PROVE  InsertAt(s, p, v) = Placed(s, p, v)
<1> DEFINE before == SubSeq(s, 1, p - 1)
           behind == SubSeq(s, p, Len(s))
<1>1. /\ Len(s) \in Nat /\ \A i \in 1 .. Len(s) : s[i] \in S
      /\ p \in 1 .. Len(s)
      OBVIOUS
<1>2. /\ before \in Seq(S) /\ Len(before) = p - 1
      /\ \A i \in 1 .. p - 1 : before[i] = s[i]
      OBVIOUS
<1>3. /\ behind \in Seq(S) /\ Len(behind) = Len(s) - p + 1
      /\ \A i \in 1 .. Len(s) - p + 1 : behind[i] = s[p + i - 1]
      OBVIOUS
<1> HIDE DEF before, behind
<1>4. /\ <<v>> \in Seq({v}) /\ Len(<<v>>) = 1 /\ <<v>>[1] = v
      OBVIOUS
<1> DEFINE whole == before \o <<v>> \o behind
<1>5. /\ before \o <<v>> \in Seq(S \cup {v}) /\ Len(before \o <<v>>) = p
      /\ \A i \in 1 .. p - 1 : (before \o <<v>>)[i] = s[i]
      /\ (before \o <<v>>)[p] = v
      BY <1>1, <1>2
<1>6. /\ whole \in Seq(S \cup {v}) /\ Len(whole) = Len(s) + 1
      /\ \A i \in 1 .. p : whole[i] = (before \o <<v>>)[i]
      /\ \A i \in p + 1 .. Len(s) + 1 : whole[i] = behind[i - p]
  <2> DEFINE front == before \o <<v>>
  <2>1. front \in Seq(S \cup {v}) /\ Len(front) = p
        BY <1>5
  <2>2. behind \in Seq(S \cup {v})
        BY <1>3
  <2> HIDE DEF front
  <2>3. /\ front \o behind \in Seq(S \cup {v})
        /\ Len(front \o behind) = Len(front) + Len(behind)
        /\ \A i \in 1 .. Len(front) + Len(behind) :
             (front \o behind)[i] = IF i <= Len(front) THEN front[i]
                                    ELSE behind[i - Len(front)]
        BY <2>1, <2>2, ConcatProperties
  <2>4. p + (Len(s) - p + 1) = Len(s) + 1
        BY <1>1
  <2>5. \A i \in 1 .. p : i \in 1 .. Len(s) + 1 /\ i <= p
        BY <1>1
  <2>6. \A i \in p + 1 .. Len(s) + 1 : i \in 1 .. Len(s) + 1 /\ ~(i <= p)
        BY <1>1
  <2> QED  BY <1>3, <2>1, <2>3, <2>4, <2>5, <2>6 DEF front
<1>7. \A i \in 1 .. Len(s) + 1 : whole[i] = Placed(s, p, v)[i]
  <2> SUFFICES ASSUME NEW i \in 1 .. Len(s) + 1
               PROVE  whole[i] = Placed(s, p, v)[i]
      OBVIOUS
  <2>1. Placed(s, p, v)[i] =
          IF i < p THEN s[i] ELSE IF i = p THEN v ELSE s[i - 1]
        BY DEF Placed
  <2> HIDE DEF whole
  <2>2. CASE i < p
        BY <1>1, <1>5, <1>6, <2>1, <2>2
  <2>3. CASE i = p
        BY <1>1, <1>5, <1>6, <2>1, <2>3
  <2>4. CASE i > p
    <3>1. whole[i] = behind[i - p] /\ behind[i - p] = s[p + (i - p) - 1]
          BY <1>1, <1>3, <1>6, <2>4
    <3>2. p + (i - p) - 1 = i - 1
          BY <1>1
    <3> QED  BY <2>1, <2>4, <3>1, <3>2
  <2> QED  BY <1>1, <2>2, <2>3, <2>4
<1>8. whole = Placed(s, p, v)
  <2> HIDE DEF whole
  <2>1. whole = [i \in 1 .. Len(s) + 1 |-> whole[i]]
        BY <1>6
  <2>2. /\ whole = [i \in 1 .. Len(s) + 1 |-> whole[i]]
        /\ Placed(s, p, v) = [i \in 1 .. Len(s) + 1 |-> Placed(s, p, v)[i]]
        BY <2>1, Zenon DEF Placed
  <2> QED  BY <1>7, <2>2
<1> QED  BY <1>8 DEF InsertAt, before, behind

(* What SelectInSeq finds, if anything, is the place.                      *)
After(s, v, R) == {i \in 1 .. Len(s) : <<v, s[i]>> \in R}
InsertFirst(s, v, R) ==
  IF After(s, v, R) = {} THEN Append(s, v)
                         ELSE InsertAt(s, Min(After(s, v, R)), v)

LEMMA FoundFirst ==
  ASSUME NEW S, NEW s \in Seq(S), NEW v, NEW R
  PROVE  /\ After(s, v, R) = {} \/ Min(After(s, v, R)) # 0
         /\ \E p : /\ FirstAfter(s, p, v, R)
                   /\ InsertFirst(s, v, R) = Placed(s, p, v)
<1> DEFINE after == After(s, v, R)
<1>1. after = {i \in 1 .. Len(s) : <<v, s[i]>> \in R}
      BY DEF After
<1>2. InsertFirst(s, v, R) = IF after = {} THEN Append(s, v)
                             ELSE InsertAt(s, Min(after), v)
      BY DEF InsertFirst
<1> HIDE DEF after
<1>3. Len(s) \in Nat
      OBVIOUS
<1>4. CASE after = {}
  <2>1. \A i \in 1 .. Len(s) : <<v, s[i]>> \notin R
        BY <1>1, <1>4
  <2>2. 1 .. (Len(s) + 1) - 1 = 1 .. Len(s)
        BY <1>3
  <2>3. FirstAfter(s, Len(s) + 1, v, R)
        BY <1>3, <2>1, <2>2 DEF FirstAfter
  <2> QED  BY <1>2, <1>4, <2>3, AppendIsPlaced DEF after
<1>5. CASE after # {}
  <2>1. after \subseteq Nat
        BY <1>1, <1>3
  <2>2. \E p \in after : \A i \in after : p <= i
        BY <1>5, <2>1, LeastOf
  <2>3. Min(after) \in after /\ \A i \in after : Min(after) <= i
        BY <2>2 DEF Min
  <2> DEFINE m == Min(after)
  <2> HIDE DEF m
  <2>4. m \in after /\ \A i \in after : m <= i
        BY <2>3 DEF m
  <2>5. m \in 1 .. Len(s) /\ m # 0 /\ <<v, s[m]>> \in R
        BY <1>1, <1>3, <2>4
  <2>6. \A i \in 1 .. m - 1 : i \in 1 .. Len(s) /\ ~ (m <= i)
        BY <1>3, <2>5
  <2>7. \A i \in 1 .. m - 1 : <<v, s[i]>> \notin R
        BY <1>1, <2>4, <2>6
  <2>8. m \in 1 .. Len(s) + 1
        BY <1>3, <2>5
  <2>9. FirstAfter(s, m, v, R)
        BY <2>5, <2>7, <2>8 DEF FirstAfter
  <2>10. InsertAt(s, m, v) = Placed(s, m, v)
        BY <2>5, InsertAtIsPlaced
  <2> QED  BY <1>2, <1>5, <2>5, <2>9, <2>10 DEF m, after
<1> QED  BY <1>4, <1>5

-----------------------------------------------------------------------------
(* Rows.  Rows that differ in their endpoints do not tie, and the feed's   *)
(* order of them is the report's.                                          *)
RowType ==
  [endpoint : Nat, ok : BOOLEAN, durable : BOOLEAN, loss : Nat, epPing : Nat,
   tunPing : Nat, measured : BOOLEAN, node : Nat]

OneEach(T) == \A a, b \in T : a.endpoint = b.endpoint => a = b

RowOrder(T) == {x \in T \X T : lessByLossRTT(x[1], x[2])}

LEMMA SamePing ==
  ASSUME NEW a \in RowType
  PROVE  sortPing(a) \in Nat /\ a.loss \in Nat /\ a.endpoint \in Nat
BY DEF RowType, sortPing

LEMMA FeedOrder ==
  ASSUME NEW a \in RowType, NEW b \in RowType
  PROVE  lessLatency(a, b) <=> lessByLossRTT(a, b)
BY SamePing DEF lessLatency, lessByLossRTT, lessDur

LEMMA RowsLinear ==
  ASSUME NEW T, T \subseteq RowType, OneEach(T)
  PROVE  Linear(T, RowOrder(T))
<1>1. \A a, b \in T : <<a, b>> \in RowOrder(T) <=> lessByLossRTT(a, b)
      BY DEF RowOrder
<1>2. \A a \in T : ~ lessByLossRTT(a, a)
      BY SamePing DEF lessByLossRTT
<1>3. \A a, b, c \in T :
        lessByLossRTT(a, b) /\ lessByLossRTT(b, c) => lessByLossRTT(a, c)
      BY SamePing DEF lessByLossRTT, lessDur
<1>4. \A a, b \in T :
        a.endpoint # b.endpoint => lessByLossRTT(a, b) \/ lessByLossRTT(b, a)
      BY SamePing DEF lessByLossRTT, lessDur
<1>5. \A a, b \in T : a # b => a.endpoint # b.endpoint
      BY DEF OneEach
<1> QED  BY <1>1, <1>2, <1>3, <1>4, <1>5 DEF Linear

(* The report's list is the arrangement of the rows.                       *)
LEMMA SortedIsArranged ==
  ASSUME NEW T, IsFiniteSet(T), T \subseteq RowType, OneEach(T)
  PROVE  Arranged(filterSorted(T), T, RowOrder(T))
<1>1. PICK s : Arranged(s, T, RowOrder(T))
      BY RowsLinear, SomeArrangement
<1>2. \A list \in [1 .. Cardinality(T) -> T] :
        Arranged(list, T, RowOrder(T))
          <=> \A i, j \in DOMAIN list : i < j => lessByLossRTT(list[i], list[j])
      BY DEF Arranged, RowOrder
<1>3. s \in [1 .. Cardinality(T) -> T]
      BY <1>1 DEF Arranged
<1>4. \E list \in [1 .. Cardinality(T) -> T] :
        \A i, j \in DOMAIN list : i < j => lessByLossRTT(list[i], list[j])
      BY <1>1, <1>2, <1>3
<1>5. /\ filterSorted(T) \in [1 .. Cardinality(T) -> T]
      /\ \A i, j \in DOMAIN filterSorted(T) :
           i < j => lessByLossRTT(filterSorted(T)[i], filterSorted(T)[j])
      BY <1>4, Zenon DEF filterSorted
<1> QED  BY <1>2, <1>5

LEMMA ArrangedIsSorted ==
  ASSUME NEW T, IsFiniteSet(T), T \subseteq RowType, OneEach(T),
         NEW s, Arranged(s, T, RowOrder(T))
  PROVE  s = filterSorted(T)
BY RowsLinear, SortedIsArranged, ArrangedOnce

(* insertSorted keeps the feed in order.                                   *)
LEMMA InsertKeepsOrder ==
  ASSUME NEW T, IsFiniteSet(T), NEW v, v \notin T,
         T \cup {v} \subseteq RowType, OneEach(T \cup {v})
  PROVE  insertSorted(filterSorted(T), v) = filterSorted(T \cup {v})
<1> DEFINE list == filterSorted(T)
           R == RowOrder(T \cup {v})
           after == {i \in 1 .. Len(list) : lessLatency(v, list[i])}
<1>1. OneEach(T) /\ T \subseteq RowType
      BY DEF OneEach
<1>2. /\ list \in Seq(T) /\ Len(list) = Cardinality(T) /\ Len(list) \in Nat
      /\ list \in [1 .. Cardinality(T) -> T]
      /\ \A i, j \in 1 .. Cardinality(T) : i < j => <<list[i], list[j]>> \in R
  <2>1. Arranged(list, T, RowOrder(T))
        BY <1>1, SortedIsArranged
  <2> HIDE DEF list
  <2>2. Linear(T, RowOrder(T))
        BY <1>1, RowsLinear
  <2>3. /\ list \in Seq(T) /\ Len(list) = Cardinality(T) /\ Len(list) \in Nat
        BY <2>1, <2>2, ArrangedOnto
  <2>4. /\ list \in [1 .. Cardinality(T) -> T]
        /\ \A i, j \in 1 .. Cardinality(T) :
             i < j => <<list[i], list[j]>> \in RowOrder(T)
        BY <2>1 DEF Arranged
  <2>5. RowOrder(T) \subseteq R
        BY DEF RowOrder
  <2> HIDE DEF R
  <2> QED  BY <2>3, <2>4, <2>5
<1>3. Arranged(list, T, R)
      BY <1>2 DEF Arranged
<1>4. Linear(T \cup {v}, R)
      BY RowsLinear
<1> HIDE DEF list
<1>5. \A i \in 1 .. Len(list) : lessLatency(v, list[i]) <=> <<v, list[i]>> \in R
  <2> SUFFICES ASSUME NEW i \in 1 .. Len(list)
               PROVE  lessLatency(v, list[i]) <=> <<v, list[i]>> \in R
      OBVIOUS
  <2>1. list[i] \in T
        BY <1>2
  <2> QED  BY <2>1, FeedOrder DEF RowOrder
<1>6. after = After(list, v, R)
      BY <1>5 DEF After
<1>7. insertSorted(list, v) = InsertFirst(list, v, R)
  <2>1. after = {} \/ Min(after) # 0
    <3> HIDE DEF R, after
    <3> QED  BY <1>2, <1>6, FoundFirst
  <2>2. insertSorted(list, v) = IF after = {} THEN Append(list, v)
                                ELSE InsertAt(list, Min(after), v)
        BY <2>1 DEF insertSorted, SelectInSeq
  <2> HIDE DEF R, after
  <2> QED  BY <1>6, <2>2 DEF InsertFirst
<1>8. PICK p : FirstAfter(list, p, v, R) /\ insertSorted(list, v) = Placed(list, p, v)
  <2> HIDE DEF R
  <2> QED  BY <1>2, <1>7, FoundFirst
<1>9. Arranged(insertSorted(list, v), T \cup {v}, R)
      BY <1>3, <1>4, <1>8, PlacedArranged
<1>10. IsFiniteSet(T \cup {v})
      BY FS_AddElement
<1> QED  BY <1>9, <1>10, ArrangedIsSorted DEF list

-----------------------------------------------------------------------------
(* The rows of a scan.                                                     *)
LEMMA ResultTypes ==
  ASSUME results \in AllResults, NEW e \in Endpoints
  PROVE  /\ Row(e) \in RowType
         /\ Row(e).endpoint = e /\ Row(e).ok = results[e].ok
         /\ Row(e).durable = results[e].durable /\ Row(e).node = results[e].node
         /\ Row(e).node \in Nodes \cup {NoNode}
         /\ results[e].ok \in BOOLEAN
<1>1. PICK pinged \in BOOLEAN, wantMeta \in BOOLEAN :
        results \in [Endpoints -> Outcomes(pinged, wantMeta) \cup {Failed}]
      BY DEF AllResults
<1>2. results[e] \in Outcomes(pinged, wantMeta) \cup {Failed}
      BY <1>1
<1>3. /\ results[e].ok \in BOOLEAN /\ results[e].durable \in BOOLEAN
      /\ results[e].loss \in Nat /\ results[e].epPing \in Nat
      /\ results[e].tunPing \in Nat /\ results[e].measured \in BOOLEAN
      /\ results[e].node \in Nodes \cup {NoNode}
      /\ results[e].node \in Nat
  <2>1. CASE results[e] = Failed
        BY <2>1 DEF Failed, NoNode
  <2>2. CASE results[e] \in Outcomes(pinged, wantMeta)
    <3>1. results[e] \in
            [ok : {TRUE}, durable : BOOLEAN, loss : 0 .. MaxLoss,
             epPing : 0 .. MaxPing, tunPing : 0 .. MaxPing, measured : {pinged},
             node : IF wantMeta THEN Nodes ELSE {NoNode}]
          BY <2>2 DEF Outcomes
    <3>2. /\ MaxLoss \in Nat /\ MaxPing \in Nat /\ Nodes \subseteq Nat
          /\ NoNode \in Nat
          BY RankingAssumption DEF NoNode
    <3>3. results[e].node \in Nodes \cup {NoNode}
          BY <3>1
    <3>4. /\ results[e].loss \in 0 .. MaxLoss
          /\ results[e].epPing \in 0 .. MaxPing
          /\ results[e].tunPing \in 0 .. MaxPing
          BY <3>1
    <3>5. /\ results[e].ok \in BOOLEAN /\ results[e].durable \in BOOLEAN
          /\ results[e].measured \in BOOLEAN
          BY <3>1
    <3>6. results[e].node \in Nat
          BY <3>2, <3>3
    <3> QED  BY <3>2, <3>3, <3>4, <3>5, <3>6
  <2> QED  BY <1>2, <2>1, <2>2
<1>4. e \in Nat
      BY RankingAssumption
<1> QED  BY <1>3, <1>4 DEF Row, RowType

(* The result of a scan either all have a node or none has.                *)
LEMMA AllHaveNodes ==
  ASSUME results \in AllResults, WantMeta, NEW e \in Endpoints, results[e].ok
  PROVE  results[e].node \in Nodes
<1>1. PICK pinged \in BOOLEAN, wantMeta \in BOOLEAN :
        results \in [Endpoints -> Outcomes(pinged, wantMeta) \cup {Failed}]
      BY DEF AllResults
<1>2. PICK d \in Endpoints : results[d].node # NoNode
      BY DEF WantMeta
<1>3. results[d] \in Outcomes(pinged, wantMeta)
      BY <1>1, <1>2 DEF Failed
<1>4. wantMeta
      BY <1>2, <1>3 DEF Outcomes
<1>5. results[e] \in Outcomes(pinged, wantMeta)
      BY <1>1 DEF Failed
<1> QED  BY <1>4, <1>5 DEF Outcomes

LEMMA RowSets ==
  ASSUME results \in AllResults, NEW E, E \subseteq Endpoints
  PROVE  /\ Rows(E) \subseteq RowType /\ OneEach(Rows(E))
         /\ IsFiniteSet(E) /\ IsFiniteSet(Rows(E))
         /\ Cardinality(Rows(E)) <= Cardinality(E)
<1>1. \A e \in E : Row(e) \in RowType /\ Row(e).endpoint = e
      BY ResultTypes
<1>2. Rows(E) \subseteq RowType /\ OneEach(Rows(E))
      BY <1>1, Zenon DEF Rows, OneEach
<1>3. IsFiniteSet(E)
      BY DisplayAssumption, FS_Subset
<1> DEFINE f == [e \in E |-> Row(e)]
<1>4. f \in Surjection(E, Rows(E))
      BY Zenon DEF Rows, Surjection
<1> HIDE DEF f
<1>5. IsFiniteSet(Rows(E)) /\ Cardinality(Rows(E)) <= Cardinality(E)
      BY <1>3, <1>4, FS_Surjection
<1> QED  BY <1>2, <1>3, <1>5

-----------------------------------------------------------------------------
(* The list of nodes.                                                      *)
StatType == [of : Nat \X Nat, n : Nat]
StatOrder(T) == {x \in T \X T : MoreRows(x[1], x[2])}
OneStatEach(T) == \A a, b \in T : a.of = b.of => a = b

RowsOf(C, of) == {r \in C : NodeOf(r) = of}
StatOf(C, of) == [of |-> of, n |-> Cardinality(RowsOf(C, of))]
Stats(C) == {StatOf(C, NodeOf(r)) : r \in C}

LEMMA StatsLinear ==
  ASSUME NEW T, T \subseteq StatType, OneStatEach(T)
  PROVE  Linear(T, StatOrder(T))
<1>1. \A a, b \in T : <<a, b>> \in StatOrder(T) <=> MoreRows(a, b)
      BY DEF StatOrder
<1>2. \A a \in T : /\ a.n \in Nat /\ a.of[1] \in Nat /\ a.of[2] \in Nat
                   /\ a.of = <<a.of[1], a.of[2]>>
      BY DEF StatType
<1>3. \A a \in T : ~ MoreRows(a, a)
      BY <1>2 DEF MoreRows
<1>4. \A a, b, c \in T : MoreRows(a, b) /\ MoreRows(b, c) => MoreRows(a, c)
      BY <1>2 DEF MoreRows
<1>5. \A a, b \in T : a.of # b.of => MoreRows(a, b) \/ MoreRows(b, a)
  <2> SUFFICES ASSUME NEW a \in T, NEW b \in T, a.of # b.of
               PROVE  MoreRows(a, b) \/ MoreRows(b, a)
      OBVIOUS
  <2>1. a.of[1] # b.of[1] \/ a.of[2] # b.of[2]
        BY <1>2
  <2> QED  BY <1>2, <2>1 DEF MoreRows
<1>6. \A a, b \in T : a # b => a.of # b.of
      BY DEF OneStatEach
<1> QED  BY <1>1, <1>3, <1>4, <1>5, <1>6 DEF Linear

LEMMA NodesArranged ==
  ASSUME NEW T, IsFiniteSet(T), T \subseteq StatType, OneStatEach(T)
  PROVE  Arranged(nodesInOrder(T), T, StatOrder(T))
<1>1. PICK s : Arranged(s, T, StatOrder(T))
      BY StatsLinear, SomeArrangement
<1>2. \A list \in [1 .. Cardinality(T) -> T] :
        Arranged(list, T, StatOrder(T))
          <=> \A i, j \in DOMAIN list : i < j => MoreRows(list[i], list[j])
      BY DEF Arranged, StatOrder
<1>3. s \in [1 .. Cardinality(T) -> T]
      BY <1>1 DEF Arranged
<1>4. \E list \in [1 .. Cardinality(T) -> T] :
        \A i, j \in DOMAIN list : i < j => MoreRows(list[i], list[j])
      BY <1>1, <1>2, <1>3
<1>5. /\ nodesInOrder(T) \in [1 .. Cardinality(T) -> T]
      /\ \A i, j \in DOMAIN nodesInOrder(T) :
           i < j => MoreRows(nodesInOrder(T)[i], nodesInOrder(T)[j])
      BY <1>4, Zenon DEF nodesInOrder
<1> QED  BY <1>2, <1>5

LEMMA StatsAreThese ==
  ASSUME NEW C, IsFiniteSet(C), \A r \in C : NodeOf(r) \in Nat \X Nat
  PROVE  /\ IsFiniteSet(Stats(C)) /\ Stats(C) \subseteq StatType
         /\ OneStatEach(Stats(C))
<1>1. \A of : IsFiniteSet(RowsOf(C, of)) /\ Cardinality(RowsOf(C, of)) \in Nat
  <2>1. \A of : RowsOf(C, of) \in SUBSET C
        BY DEF RowsOf
  <2> QED  BY <2>1, FS_Subset, FS_CardinalityType
<1>2. Stats(C) \subseteq StatType
  <2> SUFFICES ASSUME NEW r \in C  PROVE StatOf(C, NodeOf(r)) \in StatType
      BY DEF Stats
  <2> DEFINE of == NodeOf(r)
  <2>1. of \in Nat \X Nat /\ Cardinality(RowsOf(C, of)) \in Nat
        BY <1>1
  <2> HIDE DEF of
  <2>2. StatOf(C, of) \in StatType
        BY <2>1 DEF StatOf, StatType
  <2> QED  BY <2>2 DEF of
<1>3. OneStatEach(Stats(C))
  <2>1. \A of : StatOf(C, of).of = of
        BY DEF StatOf
  <2>2. \A s \in Stats(C) : s = StatOf(C, s.of)
    <3> SUFFICES ASSUME NEW r \in C
                 PROVE  StatOf(C, NodeOf(r)) = StatOf(C, StatOf(C, NodeOf(r)).of)
        BY Zenon DEF Stats
    <3> QED  BY <2>1, Zenon
  <2> QED  BY <2>2, Zenon DEF OneStatEach
<1> DEFINE f == [r \in C |-> StatOf(C, NodeOf(r))]
<1>4. f \in Surjection(C, Stats(C))
      BY Zenon DEF Stats, Surjection
<1> HIDE DEF f
<1>5. IsFiniteSet(Stats(C))
      BY <1>4, FS_Surjection
<1> QED  BY <1>2, <1>3, <1>5

LEMMA ArrangedToSet ==
  ASSUME NEW T, IsFiniteSet(T), NEW R, Linear(T, R), NEW s, Arranged(s, T, R)
  PROVE  ToSet(s) = T
<1>1. /\ DOMAIN s = 1 .. Cardinality(T)
      /\ \A x \in T : \E i \in 1 .. Cardinality(T) : s[i] = x
      BY ArrangedOnto
<1>2. \A i \in 1 .. Cardinality(T) : s[i] \in T
      BY DEF Arranged
<1> QED  BY <1>1, <1>2, Zenon DEF ToSet

(* Counting one more row.                                                  *)
LEMMA CountKeepsOrder ==
  ASSUME NEW C, IsFiniteSet(C), NEW v, v \notin C,
         \A r \in C \cup {v} : NodeOf(r) \in Nat \X Nat
  PROVE  Counted(nodesInOrder(Stats(C)), v) = nodesInOrder(Stats(C \cup {v}))
<1> DEFINE list == nodesInOrder(Stats(C))
           of == NodeOf(v)
           mine == {s \in ToSet(list) : s.of = of}
           more == [of |-> of,
                    n |-> IF mine = {} THEN 1
                          ELSE (CHOOSE s \in mine : TRUE).n + 1]
<1>1. ToSet(list) = Stats(C)
  <2>1. /\ Linear(Stats(C), StatOrder(Stats(C)))
        /\ Arranged(list, Stats(C), StatOrder(Stats(C)))
        /\ IsFiniteSet(Stats(C))
        BY StatsAreThese, StatsLinear, NodesArranged
  <2> HIDE DEF list
  <2> QED  BY <2>1, ArrangedToSet
<1>2. /\ \A of2 : StatOf(C, of2).of = of2
      /\ \A of2 : StatOf(C, of2).n = Cardinality(RowsOf(C, of2))
      BY DEF StatOf
<1>3. \A r \in C : NodeOf(r) # of =>
        StatOf(C \cup {v}, NodeOf(r)) = StatOf(C, NodeOf(r))
  <2> SUFFICES ASSUME NEW r \in C, NodeOf(r) # of
               PROVE  RowsOf(C \cup {v}, NodeOf(r)) = RowsOf(C, NodeOf(r))
      BY DEF StatOf
  <2> QED  BY DEF RowsOf
<1>4. /\ RowsOf(C \cup {v}, of) = RowsOf(C, of) \cup {v}
      /\ v \notin RowsOf(C, of) /\ RowsOf(C, of) \in SUBSET C
      BY DEF RowsOf
<1>5. /\ Cardinality(RowsOf(C \cup {v}, of)) = Cardinality(RowsOf(C, of)) + 1
      /\ RowsOf(C, of) = {} => Cardinality(RowsOf(C, of)) = 0
  <2> DEFINE old == RowsOf(C, of)
  <2>1. IsFiniteSet(old)
        BY <1>4, FS_Subset
  <2>2. v \notin old /\ RowsOf(C \cup {v}, of) = old \cup {v}
        BY <1>4
  <2> HIDE DEF old, of
  <2>3. Cardinality(old \cup {v}) = Cardinality(old) + 1
        BY <2>1, <2>2, FS_AddElement
  <2>4. old = {} => Cardinality(old) = 0
        BY FS_EmptySet
  <2> QED  BY <2>2, <2>3, <2>4 DEF old
<1>6. mine = {StatOf(C, NodeOf(r)) : r \in RowsOf(C, of)}
  <2>1. mine = {s \in Stats(C) : s.of = of}
        BY <1>1
  <2> HIDE DEF mine, of, list
  <2> QED  BY <2>1, <1>2, Zenon DEF Stats, RowsOf
<1>7. more = StatOf(C \cup {v}, of)
  <2>1. CASE RowsOf(C, of) = {}
    <3>1. mine = {}
          BY <1>6, <2>1
    <3> QED  BY <1>5, <2>1, <3>1 DEF StatOf
  <2>2. CASE RowsOf(C, of) # {}
    <3>1. mine = {StatOf(C, of)}
          BY <1>6, <2>2 DEF RowsOf
    <3>2. mine # {} /\ (CHOOSE s \in mine : TRUE) = StatOf(C, of)
          BY <3>1
    <3> QED  BY <1>2, <1>5, <3>2 DEF StatOf
  <2> QED  BY <2>1, <2>2
<1>8. (ToSet(list) \ mine) \cup {more} = Stats(C \cup {v})
  <2>1. ToSet(list) \ mine = {StatOf(C, NodeOf(r)) : r \in C \ RowsOf(C, of)}
        BY <1>1, <1>2, Zenon DEF Stats, RowsOf
  <2>2. @ = {StatOf(C \cup {v}, NodeOf(r)) : r \in C \ RowsOf(C, of)}
        BY <1>3, Zenon DEF RowsOf
  <2>3. Stats(C \cup {v}) =
          {StatOf(C \cup {v}, NodeOf(r)) : r \in C \ RowsOf(C, of)}
            \cup {StatOf(C \cup {v}, of)}
        BY Zenon DEF Stats, RowsOf
  <2> QED  BY <1>7, <2>1, <2>2, <2>3
<1>9. Counted(list, v) = nodesInOrder((ToSet(list) \ mine) \cup {more})
      BY DEF Counted
<1> QED  BY <1>8, <1>9

-----------------------------------------------------------------------------
(* Until they are dropped, the lists are what the rows shown so far make.  *)
CountedRows == {r \in Rows(Shown) : r.durable /\ r.node # NoNode}

ListInv ==
  /\ results \in AllResults /\ probed \subseteq Endpoints
  /\ over \in BOOLEAN /\ dropped \in BOOLEAN
  /\ over => probed = Endpoints
  /\ dropped => over /\ feed = <<>> /\ nodes = <<>>
  /\ ~dropped => /\ feed = filterSorted(Rows(Shown))
                 /\ nodes = nodesInOrder(Stats(CountedRows))

LEMMA NoLists ==
  /\ filterSorted({}) = <<>> /\ nodesInOrder({}) = <<>> /\ Stats({}) = {}
<1>1. Cardinality({}) = 0 /\ [1 .. 0 -> {}] = {<<>>}
  <2>1. \A f \in [1 .. 0 -> {}] : f = <<>>
        OBVIOUS
  <2>2. <<>> \in [1 .. 0 -> {}]
        OBVIOUS
  <2>3. [1 .. 0 -> {}] = {<<>>}
        BY <2>1, <2>2, Zenon
  <2> QED  BY <2>3, FS_EmptySet
<1>2. filterSorted({}) = <<>> /\ nodesInOrder({}) = <<>>
  <2>1. DOMAIN <<>> = {}
        OBVIOUS
  <2>2. filterSorted({}) \in {<<>>} /\ nodesInOrder({}) \in {<<>>}
    <3>1. \E list \in [1 .. 0 -> {}] :
            \A i, j \in DOMAIN list : i < j => lessByLossRTT(list[i], list[j])
          BY <1>1, <2>1, Zenon
    <3>2. \E list \in [1 .. 0 -> {}] :
            \A i, j \in DOMAIN list : i < j => MoreRows(list[i], list[j])
          BY <1>1, <2>1, Zenon
    <3>3. filterSorted({}) \in [1 .. 0 -> {}]
          BY <1>1, <3>1, Zenon DEF filterSorted
    <3>4. nodesInOrder({}) \in [1 .. 0 -> {}]
          BY <1>1, <3>2, Zenon DEF nodesInOrder
    <3> QED  BY <1>1, <3>3, <3>4
  <2> QED  BY <2>2
<1> QED  BY <1>2 DEF Stats

LEMMA ListStart == SpeedInit => ListInv
<1> SUFFICES ASSUME SpeedInit  PROVE ListInv
    OBVIOUS
<1>1. /\ results \in AllResults /\ probed = {} /\ over = FALSE
      /\ dropped = FALSE /\ feed = <<>> /\ nodes = <<>>
      BY DEF SpeedInit, DisplayInit
<1>2. Rows(Shown) = {} /\ CountedRows = {}
      BY <1>1 DEF Shown, Rows, CountedRows
<1> QED  BY <1>1, <1>2, NoLists DEF ListInv

(* The counted rows are rows with a region and a node.                     *)
LEMMA RowNodes ==
  ASSUME results \in AllResults, NEW E, E \subseteq Endpoints
  PROVE  \A r \in Rows(E) : NodeOf(r) \in Nat \X Nat
<1>1. \A e \in E : Row(e) \in RowType /\ Row(e).endpoint = e
      BY ResultTypes
<1>2. SUFFICES ASSUME NEW e \in E  PROVE NodeOf(Row(e)) \in Nat \X Nat
      BY Zenon DEF Rows
<1>3. Row(e).node \in Nat /\ Row(e).endpoint \in Endpoints
      BY <1>1 DEF RowType
<1>4. ExitOf[Row(e).endpoint] \in Nat
      BY <1>3, DisplayAssumption
<1> QED  BY <1>3, <1>4 DEF NodeOf

LEMMA FoundStep ==
  ASSUME ListInv, NEW e \in Endpoints, Found(e)
  PROVE  ListInv'
<1>1. /\ results \in AllResults /\ results' = results
      /\ e \notin probed /\ probed \subseteq Endpoints
      /\ probed' = probed \cup {e}
      /\ over' = over /\ dropped' = dropped
      /\ over \in BOOLEAN /\ dropped \in BOOLEAN
      /\ ~over /\ ~dropped
      BY DEF Found, ListInv
<1>2. /\ feed = filterSorted(Rows(Shown))
      /\ nodes = nodesInOrder(Stats(CountedRows))
      BY <1>1 DEF ListInv
<1>3. /\ Shown \subseteq Endpoints /\ Shown \subseteq probed
      /\ \A d \in Shown : results[d].ok
      BY <1>1 DEF Shown
<1>4. Row(e) \notin Rows(Shown)
  <2>1. \A d \in Shown : Row(d).endpoint = d
        BY <1>1, <1>3, ResultTypes
  <2>2. Row(e).endpoint = e
        BY <1>1, ResultTypes
  <2>3. e \notin Shown
        BY <1>1, <1>3
  <2> QED  BY <2>1, <2>2, <2>3, Zenon DEF Rows
<1>5. Rows(Shown)' = {Row(d) : d \in Shown'}
      BY <1>1, Zenon DEF Rows, Row
<1>6. CASE ~ results[e].ok
  <2>1. /\ feed' = feed /\ nodes' = nodes
        BY <1>6 DEF Found
  <2>2. Shown' = Shown
        BY <1>1, <1>6 DEF Shown
  <2>3. Rows(Shown)' = Rows(Shown)
        BY <1>5, <2>2 DEF Rows
  <2>4. CountedRows' = CountedRows
        BY <2>3 DEF CountedRows
  <2> QED  BY <1>1, <1>2, <2>1, <2>3, <2>4 DEF ListInv
<1>7. CASE results[e].ok
  <2>1. /\ feed' = insertSorted(feed, Row(e))
        /\ nodes' = countNode(nodes, Row(e))
        BY <1>7 DEF Found
  <2>2. Shown' = Shown \cup {e}
        BY <1>1, <1>7 DEF Shown
  <2>3. Rows(Shown)' = Rows(Shown) \cup {Row(e)}
        BY <1>5, <2>2 DEF Rows
  <2>4. Rows(Shown \cup {e}) = Rows(Shown) \cup {Row(e)}
        BY DEF Rows
  <2>5. /\ IsFiniteSet(Rows(Shown))
        /\ Rows(Shown) \cup {Row(e)} \subseteq RowType
        /\ OneEach(Rows(Shown) \cup {Row(e)})
        /\ \A r \in Rows(Shown) \cup {Row(e)} : NodeOf(r) \in Nat \X Nat
    <3>1. Shown \cup {e} \subseteq Endpoints
          BY <1>3
    <3>2. /\ Rows(Shown \cup {e}) \subseteq RowType
          /\ OneEach(Rows(Shown \cup {e}))
          /\ \A r \in Rows(Shown \cup {e}) : NodeOf(r) \in Nat \X Nat
          BY <1>1, <3>1, RowSets, RowNodes
    <3> QED  BY <1>1, <1>3, <2>4, <3>2, RowSets
  <2>6. feed' = filterSorted(Rows(Shown) \cup {Row(e)})
        BY <1>2, <1>4, <2>1, <2>5, InsertKeepsOrder
  <2>7. nodes' = nodesInOrder(Stats(CountedRows'))
    <3>1. CASE Row(e).node = NoNode \/ ~ Row(e).durable
      <4>1. CountedRows' = CountedRows
            BY <2>3, <3>1 DEF CountedRows
      <4>2. nodes' = nodes
            BY <2>1, <3>1 DEF countNode
      <4> QED  BY <1>2, <4>1, <4>2
    <3>2. CASE Row(e).node # NoNode /\ Row(e).durable
      <4>1. CountedRows' = CountedRows \cup {Row(e)}
            BY <2>3, <3>2 DEF CountedRows
      <4>2. nodes' = Counted(nodes, Row(e))
            BY <2>1, <3>2 DEF countNode
      <4>3. /\ CountedRows \in SUBSET Rows(Shown) /\ Row(e) \notin CountedRows
            /\ \A r \in CountedRows \cup {Row(e)} : NodeOf(r) \in Nat \X Nat
            BY <1>4, <2>5 DEF CountedRows
      <4>4. IsFiniteSet(CountedRows)
            BY <2>5, <4>3, FS_Subset
      <4>5. Counted(nodesInOrder(Stats(CountedRows)), Row(e))
              = nodesInOrder(Stats(CountedRows \cup {Row(e)}))
            BY <4>3, <4>4, CountKeepsOrder
      <4> QED  BY <1>2, <4>1, <4>2, <4>5
    <3> QED  BY <3>1, <3>2
  <2>8. probed' \subseteq Endpoints
        BY <1>1
  <2> QED  BY <1>1, <2>3, <2>6, <2>7, <2>8 DEF ListInv
<1> QED  BY <1>6, <1>7

LEMMA SameLists ==
  ASSUME ListInv, UNCHANGED displayVars
  PROVE  ListInv'
<1>1. /\ results' = results /\ probed' = probed /\ over' = over
      /\ feed' = feed /\ nodes' = nodes /\ dropped' = dropped
      BY DEF displayVars
<1>2. Rows(Shown)' = Rows(Shown)
      BY <1>1, Zenon DEF Rows, Row, Shown
<1>3. CountedRows' = CountedRows
      BY <1>2 DEF CountedRows
<1> QED  BY <1>1, <1>2, <1>3 DEF ListInv

LEMMA ListStep == ListInv /\ [SpeedNext]_phaseVars => ListInv'
<1> SUFFICES ASSUME ListInv, [SpeedNext]_phaseVars  PROVE ListInv'
    OBVIOUS
<1>1. ASSUME NEW tablesFollow \in BOOLEAN, Done(tablesFollow)
      PROVE  ListInv'
  <2>1. /\ probed = Endpoints /\ over' = TRUE /\ dropped' = tablesFollow
        /\ results' = results /\ probed' = probed
        /\ tablesFollow => feed' = <<>> /\ nodes' = <<>>
        /\ ~tablesFollow => feed' = feed /\ nodes' = nodes
        BY <1>1 DEF Done
  <2>2. results \in AllResults /\ ~dropped
        BY <1>1 DEF ListInv, Done
  <2>3. /\ feed = filterSorted(Rows(Shown))
        /\ nodes = nodesInOrder(Stats(CountedRows))
        BY <2>2 DEF ListInv
  <2>4. Rows(Shown)' = Rows(Shown)
        BY <2>1, Zenon DEF Rows, Row, Shown
  <2>5. CountedRows' = CountedRows
        BY <2>4 DEF CountedRows
  <2> QED  BY <2>1, <2>2, <2>3, <2>4, <2>5 DEF ListInv
<1>2. ASSUME NEW e \in Endpoints, Found(e)  PROVE ListInv'
      BY <1>2, FoundStep
<1>3. CASE UNCHANGED displayVars
      BY <1>3, SameLists
<1>4. Speed => UNCHANGED displayVars
      BY DEF Speed, SpeedTunnel, NextPick, GiveUp, FetchFails, Publish, Quit,
             Try, Fetch, Measured
<1>5. (\E f \in Filters : FilterResults(f)) => UNCHANGED displayVars
      BY DEF FilterResults
<1>6. UNCHANGED phaseVars => UNCHANGED displayVars
      BY DEF phaseVars
<1> QED  BY <1>1, <1>2, <1>3, <1>4, <1>5, <1>6 DEF SpeedNext, DisplayNext

LEMMA ListsHold == SpeedSpec => []ListInv
BY ListStart, ListStep, PTL DEF SpeedSpec

-----------------------------------------------------------------------------
(* The best of some rows.                                                  *)
RowSet(T) == IsFiniteSet(T) /\ T \subseteq RowType /\ OneEach(T)

LEMMA RowSubset ==
  ASSUME NEW T, RowSet(T), NEW U, U \subseteq T
  PROVE  RowSet(U)
BY FS_Subset DEF RowSet, OneEach

(* Of two rows one comes first, and then the other does not.               *)
LEMMA RowsCompare ==
  ASSUME NEW T, RowSet(T), NEW a \in T, NEW b \in T
  PROVE  /\ ~ (lessByLossRTT(a, b) /\ lessByLossRTT(b, a))
         /\ a # b => lessByLossRTT(a, b) \/ lessByLossRTT(b, a)
<1>1. Linear(T, RowOrder(T))
      BY RowsLinear DEF RowSet
<1>2. /\ <<a, b>> \in RowOrder(T) <=> lessByLossRTT(a, b)
      /\ <<b, a>> \in RowOrder(T) <=> lessByLossRTT(b, a)
      BY DEF RowOrder
<1> QED  BY <1>1, <1>2 DEF Linear

(* The list of the rows: each of them, in order.                           *)
LEMMA SortedRows ==
  ASSUME NEW T, RowSet(T)
  PROVE  /\ Cardinality(T) \in Nat /\ Len(filterSorted(T)) = Cardinality(T)
         /\ DOMAIN filterSorted(T) = 1 .. Cardinality(T)
         /\ filterSorted(T) \in Seq(T)
         /\ \A i \in 1 .. Cardinality(T) : filterSorted(T)[i] \in T
         /\ \A r \in T : \E i \in 1 .. Cardinality(T) : filterSorted(T)[i] = r
         /\ \A i, j \in 1 .. Cardinality(T) :
              filterSorted(T)[i] = filterSorted(T)[j] => i = j
         /\ \A i, j \in 1 .. Cardinality(T) :
              i < j => lessByLossRTT(filterSorted(T)[i], filterSorted(T)[j])
<1> DEFINE s == filterSorted(T)
<1>1. Arranged(s, T, RowOrder(T)) /\ Linear(T, RowOrder(T))
      BY SortedIsArranged, RowsLinear DEF RowSet
<1> HIDE DEF s
<1>2. /\ \A i \in 1 .. Cardinality(T) : s[i] \in T
      /\ \A i, j \in 1 .. Cardinality(T) : i < j => lessByLossRTT(s[i], s[j])
      BY <1>1 DEF Arranged, RowOrder
<1>3. /\ Cardinality(T) \in Nat /\ Len(s) = Cardinality(T)
      /\ s \in Seq(T) /\ DOMAIN s = 1 .. Cardinality(T)
      /\ \A x \in T : \E i \in 1 .. Cardinality(T) : s[i] = x
      /\ \A i, j \in 1 .. Cardinality(T) : s[i] = s[j] => i = j
      BY <1>1, ArrangedOnto DEF RowSet
<1> QED  BY <1>2, <1>3 DEF s

LEMMA BestIs ==
  ASSUME NEW T, RowSet(T), T # {}
  PROVE  /\ bestByPing(T) \in T
         /\ \A r \in T : ~ lessByLossRTT(r, bestByPing(T))
         /\ \A r \in T \ {bestByPing(T)} : lessByLossRTT(bestByPing(T), r)
         /\ filterSorted(T) # <<>> /\ filterSorted(T)[1] = bestByPing(T)
<1> DEFINE s == filterSorted(T)
<1>1. /\ Cardinality(T) \in Nat /\ DOMAIN s = 1 .. Cardinality(T)
      /\ \A i \in 1 .. Cardinality(T) : s[i] \in T
      /\ \A r \in T : \E i \in 1 .. Cardinality(T) : s[i] = r
      /\ \A i, j \in 1 .. Cardinality(T) : i < j => lessByLossRTT(s[i], s[j])
      BY SortedRows
<1> HIDE DEF s
<1>2. 1 \in 1 .. Cardinality(T)
      BY <1>1
<1>3. \A r \in T : r # s[1] => lessByLossRTT(s[1], r)
  <2> SUFFICES ASSUME NEW r \in T, r # s[1]  PROVE lessByLossRTT(s[1], r)
      OBVIOUS
  <2>1. PICK i \in 1 .. Cardinality(T) : s[i] = r
        BY <1>1
  <2> QED  BY <1>1, <1>2, <2>1
<1>4. \A r \in T : ~ lessByLossRTT(r, s[1])
      BY <1>1, <1>2, <1>3, RowsCompare
<1>5. \E best \in T : \A r \in T : ~ lessByLossRTT(r, best)
      BY <1>1, <1>2, <1>4
<1>6. /\ bestByPing(T) \in T
      /\ \A r \in T : ~ lessByLossRTT(r, bestByPing(T))
      BY <1>5, Zenon DEF bestByPing
<1>7. bestByPing(T) = s[1]
      BY <1>1, <1>2, <1>3, <1>6
<1>8. s # <<>>
      BY <1>1, <1>2
<1> QED  BY <1>3, <1>6, <1>7, <1>8 DEF s

LEMMA BestIsOne ==
  ASSUME NEW T, RowSet(T), NEW b \in T,
         \A r \in T : ~ lessByLossRTT(r, b)
  PROVE  b = bestByPing(T)
<1>1. T # {}
      OBVIOUS
<1> QED  BY <1>1, BestIs, Zenon

(* Each node's best is one of its rows.                                    *)
LEMMA NodePicksAre ==
  ASSUME NEW W, RowSet(W)
  PROVE  /\ nodePicks(W) \subseteq W /\ RowSet(nodePicks(W))
         /\ {r.node : r \in nodePicks(W)} = {r.node : r \in W}
         /\ \A r \in W : bestByPing({q \in W : q.node = r.node}) \in nodePicks(W)
         /\ \A r \in W : {q \in W : q.node = r.node} # {}
                         /\ RowSet({q \in W : q.node = r.node})
<1> DEFINE group(n) == {r \in W : r.node = n}
<1>1. \A r \in W : group(r.node) # {} /\ RowSet(group(r.node))
  <2> SUFFICES ASSUME NEW r \in W
               PROVE  group(r.node) # {} /\ RowSet(group(r.node))
      OBVIOUS
  <2>1. r \in group(r.node) /\ group(r.node) \subseteq W
        OBVIOUS
  <2> HIDE DEF group
  <2> QED  BY <2>1, RowSubset
<1>2. \A r \in W : bestByPing(group(r.node)) \in group(r.node)
  <2> HIDE DEF group
  <2> QED  BY <1>1, BestIs
<1>3. nodePicks(W) = {bestByPing(group(r.node)) : r \in W}
  <2>1. nodePicks(W) = {bestByPing(group(n)) : n \in {r.node : r \in W}}
        BY DEF nodePicks
  <2> HIDE DEF group
  <2> QED  BY <2>1, Zenon
<1>4. \A r \in W : bestByPing(group(r.node)) \in W
                   /\ bestByPing(group(r.node)).node = r.node
      BY <1>2
<1> HIDE DEF group
<1>5. nodePicks(W) \subseteq W /\ RowSet(nodePicks(W))
      BY <1>3, <1>4, RowSubset
<1>6. {r.node : r \in nodePicks(W)} = {r.node : r \in W}
  <2>1. {r.node : r \in nodePicks(W)}
          = {bestByPing(group(r.node)).node : r \in W}
        BY <1>3, Zenon
  <2> QED  BY <1>4, <2>1, Zenon
<1>7. \A r \in W : bestByPing(group(r.node)) \in nodePicks(W)
      BY <1>3, Zenon
<1> QED  BY <1>1, <1>5, <1>6, <1>7 DEF group

(* The best of all is the best of its node, hence of the nodes' picks.     *)
LEMMA BestOfPicks ==
  ASSUME NEW W, RowSet(W), W # {}
  PROVE  /\ RowSet(nodePicks(W)) /\ bestByPing(W) \in nodePicks(W)
         /\ bestByPing(nodePicks(W)) = bestByPing(W)
<1> DEFINE b == bestByPing(W)
           group == {r \in W : r.node = b.node}
<1>1. b \in W /\ \A r \in W : ~ lessByLossRTT(r, b)
      BY BestIs
<1>2. /\ nodePicks(W) \subseteq W /\ RowSet(nodePicks(W)) /\ RowSet(group)
      /\ bestByPing(group) \in nodePicks(W)
  <2> HIDE DEF b
  <2> QED  BY <1>1, NodePicksAre
<1>3. b \in group /\ group \subseteq W
      BY <1>1
<1>4. b = bestByPing(group)
  <2> HIDE DEF b, group
  <2> QED  BY <1>1, <1>2, <1>3, BestIsOne
<1>5. b \in nodePicks(W)
      BY <1>2, <1>4
<1>6. b = bestByPing(nodePicks(W))
  <2> HIDE DEF b, group
  <2> QED  BY <1>1, <1>2, <1>5, BestIsOne
<1> QED  BY <1>2, <1>5, <1>6

-----------------------------------------------------------------------------
(* The rows of a scan are rows.                                            *)
LEMMA ShownRows ==
  ASSUME ListInv
  PROVE  /\ RowSet(Rows(Shown)) /\ RowSet(workingRows(Rows(Shown)))
         /\ \A r \in Rows(Shown) : r.ok /\ NodeOf(r) \in Nat \X Nat
         /\ CountedRows \subseteq Rows(Shown) /\ IsFiniteSet(CountedRows)
         /\ Cardinality(Rows(Shown)) <= Cardinality(probed)
         /\ Cardinality(probed) \in Nat
<1>1. /\ results \in AllResults /\ Shown \subseteq Endpoints
      /\ Shown \subseteq probed /\ probed \subseteq Endpoints
      BY DEF ListInv, Shown
<1>2. RowSet(Rows(Shown))
      BY <1>1, RowSets DEF RowSet
<1>3. RowSet(workingRows(Rows(Shown)))
      BY <1>2, RowSubset DEF workingRows
<1>4. \A r \in Rows(Shown) : r.ok /\ NodeOf(r) \in Nat \X Nat
  <2>1. \A e \in Shown : Row(e).ok
        BY <1>1, ResultTypes DEF Shown
  <2> QED  BY <1>1, <2>1, RowNodes, Zenon DEF Rows
<1>5. CountedRows \subseteq Rows(Shown) /\ IsFiniteSet(CountedRows)
  <2>1. CountedRows \in SUBSET Rows(Shown)
        BY DEF CountedRows
  <2> QED  BY <1>2, <2>1, FS_Subset DEF RowSet
<1>6. /\ Cardinality(Rows(Shown)) <= Cardinality(probed)
      /\ Cardinality(probed) \in Nat
  <2>1. IsFiniteSet(probed) /\ Cardinality(Rows(Shown)) <= Cardinality(Shown)
        BY <1>1, RowSets
  <2>2. Shown \in SUBSET probed /\ IsFiniteSet(Rows(Shown)) /\ IsFiniteSet(Shown)
        BY <1>1, RowSets
  <2>3. /\ Cardinality(Shown) <= Cardinality(probed)
        /\ Cardinality(probed) \in Nat /\ Cardinality(Shown) \in Nat
        /\ Cardinality(Rows(Shown)) \in Nat
        BY <2>1, <2>2, FS_Subset, FS_CardinalityType
  <2> QED  BY <2>1, <2>3
<1> QED  BY <1>2, <1>3, <1>4, <1>5, <1>6

(* The list of nodes: their counts, each node once, in order.              *)
LEMMA ListedNodes ==
  ASSUME ListInv, ~dropped
  PROVE  /\ Len(nodes) \in Nat /\ DOMAIN nodes = 1 .. Len(nodes)
         /\ \A i \in DOMAIN nodes : \E r \in CountedRows :
              nodes[i] = StatOf(CountedRows, NodeOf(r))
         /\ \A r \in CountedRows : \E i \in DOMAIN nodes :
              nodes[i] = StatOf(CountedRows, NodeOf(r))
         /\ \A i, j \in DOMAIN nodes : i < j => MoreRows(nodes[i], nodes[j])
<1> DEFINE T == Stats(CountedRows)
<1>1. \A r \in CountedRows : NodeOf(r) \in Nat \X Nat
      BY ShownRows
<1>2. /\ IsFiniteSet(T) /\ T \subseteq StatType /\ OneStatEach(T)
      BY <1>1, ShownRows, StatsAreThese
<1>3. nodes = nodesInOrder(T)
      BY DEF ListInv
<1> HIDE DEF T
<1>4. Arranged(nodes, T, StatOrder(T)) /\ Linear(T, StatOrder(T))
      BY <1>2, <1>3, NodesArranged, StatsLinear
<1>5. /\ Len(nodes) = Cardinality(T) /\ Cardinality(T) \in Nat
      /\ DOMAIN nodes = 1 .. Cardinality(T)
      /\ \A x \in T : \E i \in 1 .. Cardinality(T) : nodes[i] = x
      BY <1>2, <1>4, ArrangedOnto
<1>6. /\ \A i \in 1 .. Cardinality(T) : nodes[i] \in T
      /\ \A i, j \in 1 .. Cardinality(T) :
           i < j => MoreRows(nodes[i], nodes[j])
      BY <1>4 DEF Arranged, StatOrder
<1>7. T = {StatOf(CountedRows, NodeOf(r)) : r \in CountedRows}
      BY DEF T, Stats
<1> QED  BY <1>5, <1>6, <1>7

(* The feed and the list of nodes are made of what was shown.              *)
LEMMA ListTypes == ListInv => DisplayTypeOK
<1> SUFFICES ASSUME ListInv  PROVE DisplayTypeOK
    OBVIOUS
<1>1. /\ results \in AllResults /\ probed \subseteq Endpoints
      /\ over \in BOOLEAN /\ dropped \in BOOLEAN
      BY DEF ListInv
<1>2. CASE dropped
  <2>1. feed = <<>> /\ nodes = <<>>
        BY <1>2 DEF ListInv
  <2>2. ToSet(feed) = {} /\ DOMAIN nodes = {}
        BY <2>1 DEF ToSet
  <2> QED  BY <1>1, <2>2 DEF DisplayTypeOK
<1>3. CASE ~ dropped
  <2>1. ToSet(feed) \subseteq Rows(probed)
    <3>1. feed = filterSorted(Rows(Shown)) /\ RowSet(Rows(Shown))
          BY <1>3, ShownRows DEF ListInv
    <3>2. \A i \in DOMAIN feed : feed[i] \in Rows(Shown)
          BY <3>1, SortedRows
    <3>3. Rows(Shown) \subseteq Rows(probed)
          BY Zenon DEF Rows, Shown
    <3> QED  BY <3>2, <3>3 DEF ToSet
  <2>2. \A i \in DOMAIN nodes : nodes[i].n \in 1 .. Cardinality(probed)
    <3> SUFFICES ASSUME NEW i \in DOMAIN nodes
                 PROVE  nodes[i].n \in 1 .. Cardinality(probed)
        OBVIOUS
    <3>1. PICK r \in CountedRows : nodes[i] = StatOf(CountedRows, NodeOf(r))
          BY <1>3, ListedNodes
    <3> DEFINE mine == RowsOf(CountedRows, NodeOf(r))
    <3>2. nodes[i].n = Cardinality(mine)
          BY <3>1 DEF StatOf
    <3>3. mine \in SUBSET Rows(Shown) /\ mine # {}
          BY <3>1, ShownRows DEF RowsOf
    <3>4. IsFiniteSet(Rows(Shown))
          BY ShownRows DEF RowSet
    <3> HIDE DEF mine
    <3>5. /\ IsFiniteSet(mine) /\ Cardinality(mine) \in Nat
          /\ Cardinality(Rows(Shown)) \in Nat
          /\ Cardinality(mine) <= Cardinality(Rows(Shown))
          /\ Cardinality(mine) # 0
          BY <3>3, <3>4, FS_Subset, FS_CardinalityType, FS_EmptySet
    <3>6. /\ Cardinality(Rows(Shown)) <= Cardinality(probed)
          /\ Cardinality(probed) \in Nat
          BY ShownRows
    <3>7. Cardinality(mine) \in 1 .. Cardinality(probed)
          BY <3>5, <3>6
    <3> QED  BY <3>2, <3>7
  <2> QED  BY <1>1, <2>1, <2>2 DEF DisplayTypeOK
<1> QED  BY <1>1, <1>2, <1>3

(* The feed is the list the report will have, whatever order the probes    *)
(* ended in.                                                               *)
THEOREM FeedInOrder == SpeedSpec => []FeedIsTheReport
<1>1. ListInv => FeedIsTheReport
      BY DEF ListInv, FeedIsTheReport
<1> QED  BY <1>1, ListsHold, PTL

(* The list of nodes has the counts of the feed, and the nodes of the      *)
(* tables.                                                                 *)
LEMMA NodesAreCounted == ListInv => NodesMatchFeed
<1> SUFFICES ASSUME ListInv, ~dropped  PROVE NodesMatchFeed
    BY DEF NodesMatchFeed
<1> DEFINE rows(of) == {r \in Rows(Shown) : working(r) /\ NodeOf(r) = of}
           listed == {nodes[i].of : i \in DOMAIN nodes}
           sure == workingRows(Rows(Shown))
<1>1. \A r \in Rows(Shown) : working(r) <=> r.durable
      BY ShownRows DEF working
<1>2. \A r \in CountedRows : NodeOf(r)[2] = r.node /\ r.node # NoNode
      BY DEF CountedRows, NodeOf
<1>3. \A r \in CountedRows : rows(NodeOf(r)) = RowsOf(CountedRows, NodeOf(r))
  <2> SUFFICES ASSUME NEW r \in CountedRows
               PROVE  rows(NodeOf(r)) = RowsOf(CountedRows, NodeOf(r))
      OBVIOUS
  <2>1. \A q \in Rows(Shown) : NodeOf(q) = NodeOf(r) => q.node # NoNode
        BY <1>2 DEF NodeOf
  <2> QED  BY <1>1, <2>1 DEF RowsOf, CountedRows
<1> HIDE DEF rows
<1>4. ASSUME NEW i \in DOMAIN nodes
      PROVE  /\ nodes[i].n = Cardinality(rows(nodes[i].of))
             /\ \A j \in 1 .. i - 1 : MoreRows(nodes[j], nodes[i])
  <2>1. PICK r \in CountedRows : nodes[i] = StatOf(CountedRows, NodeOf(r))
        BY ListedNodes
  <2>2. /\ nodes[i].of = NodeOf(r)
        /\ nodes[i].n = Cardinality(RowsOf(CountedRows, NodeOf(r)))
        BY <2>1 DEF StatOf
  <2>3. \A j \in 1 .. i - 1 : MoreRows(nodes[j], nodes[i])
    <3>1. /\ Len(nodes) \in Nat /\ i \in 1 .. Len(nodes)
          /\ \A j \in 1 .. Len(nodes) : j < i => MoreRows(nodes[j], nodes[i])
          BY <1>4, ListedNodes
    <3>2. \A j \in 1 .. i - 1 : j \in 1 .. Len(nodes) /\ j < i
          BY <3>1
    <3> QED  BY <3>1, <3>2
  <2> QED  BY <1>3, <2>2, <2>3
<1>5. ASSUME WantMeta
      PROVE  {of[2] : of \in listed} = {r.node : r \in nodePicks(sure)}
  <2>1. \A e \in Shown : results[e].node # NoNode
    <3> SUFFICES ASSUME NEW e \in Shown  PROVE results[e].node # NoNode
        OBVIOUS
    <3>1. e \in Endpoints /\ results[e].ok /\ results \in AllResults
          BY DEF Shown, ListInv
    <3>2. results[e].node \in Nodes
          BY <1>5, <3>1, AllHaveNodes
    <3> QED  BY <3>2, RankingAssumption DEF NoNode
  <2>2. \A e \in Shown : Row(e).node # NoNode
        BY <2>1 DEF Row
  <2>3. \A r \in Rows(Shown) : r.node # NoNode
        BY <2>2, Zenon DEF Rows
  <2>4. sure = CountedRows
        BY <1>1, <2>3 DEF workingRows, CountedRows
  <2>5. listed = {NodeOf(r) : r \in CountedRows}
    <3>1. \A of : StatOf(CountedRows, of).of = of
          BY DEF StatOf
    <3> QED  BY <3>1, ListedNodes
  <2>6. {of[2] : of \in listed} = {r.node : r \in CountedRows}
    <3>1. \A r \in CountedRows : NodeOf(r) \in listed /\ NodeOf(r)[2] = r.node
          BY <1>2, <2>5
    <3>2. \A of \in listed : \E r \in CountedRows : of = NodeOf(r)
          BY <2>5
    <3> HIDE DEF listed
    <3> QED  BY <3>1, <3>2
  <2>7. RowSet(sure)
        BY ShownRows
  <2> HIDE DEF sure
  <2>8. {r.node : r \in nodePicks(sure)} = {r.node : r \in sure}
        BY <2>7, NodePicksAre
  <2> QED  BY <2>4, <2>6, <2>8
<1> QED  BY <1>4, <1>5 DEF NodesMatchFeed, rows

(* The list of nodes counts what the feed shows, and agrees with the       *)
(* tables that will follow.                                                *)
THEOREM NodesAreTheFeeds == SpeedSpec => []NodesMatchFeed
BY ListsHold, NodesAreCounted, PTL

(* The first row of the feed that is not torn down is the best.            *)
LEMMA BestIsFirst == ListInv => BestLeads
<1> SUFFICES ASSUME ListInv, probed = Endpoints, ~dropped  PROVE BestLeads
    BY DEF BestLeads
<1> DEFINE T == Rows(Shown)
           W == workingRows(Rows(Endpoints))
           found == {i \in 1 .. Len(feed) : working(feed[i])}
<1>1. W = workingRows(T)
  <2>1. \A e \in Endpoints : working(Row(e)) => e \in Shown
        BY DEF working, Row, Shown
  <2>2. Shown \subseteq Endpoints
        BY DEF Shown
  <2> QED  BY <2>1, <2>2, Zenon DEF workingRows, Rows
<1>2. /\ RowSet(T) /\ RowSet(W) /\ W = {r \in T : working(r)}
  <2>1. RowSet(T) /\ RowSet(workingRows(T))
        BY ShownRows
  <2>2. W = {r \in T : working(r)}
        BY <1>1 DEF workingRows
  <2> HIDE DEF T, W
  <2> QED  BY <1>1, <2>1, <2>2
<1>3. feed = filterSorted(T)
      BY DEF ListInv
<1> HIDE DEF T, W
<1>4. /\ Len(feed) \in Nat /\ Cardinality(T) = Len(feed)
      /\ \A i \in 1 .. Len(feed) : feed[i] \in T
      /\ \A r \in T : \E i \in 1 .. Len(feed) : feed[i] = r
      /\ \A i, j \in 1 .. Len(feed) : i < j => lessByLossRTT(feed[i], feed[j])
      BY <1>2, <1>3, SortedRows
<1>5. /\ bestOverall(Rows(Endpoints)) = IF W = {} THEN {} ELSE {bestByPing(W)}
      BY DEF bestOverall, W
<1>6. CASE W = {}
  <2>1. found = {}
        BY <1>2, <1>4, <1>6
  <2>2. SelectInSeq(feed, working) = 0
        BY <2>1 DEF SelectInSeq
  <2>3. nodePicks(W) = {}
        BY <1>6, Zenon DEF nodePicks
  <2>4. filterSorted(nodePicks(W)) = <<>>
        BY <2>3, NoLists
  <2> QED  BY <1>5, <1>6, <2>2, <2>4 DEF BestLeads, W
<1>7. CASE W # {}
  <2>1. found # {} /\ found \subseteq Nat
    <3>1. PICK r \in W : TRUE
          BY <1>7
    <3>2. PICK i \in 1 .. Len(feed) : feed[i] = r
          BY <1>2, <1>4, <3>1
    <3>3. i \in found
          BY <1>2, <3>1, <3>2
    <3> QED  BY <1>4, <3>3
  <2>2. \E p \in found : \A i \in found : p <= i
    <3> HIDE DEF found
    <3> QED  BY <2>1, LeastOf
  <2> DEFINE p == Min(found)
  <2>3. p \in found /\ \A i \in found : p <= i
    <3> HIDE DEF found
    <3> QED  BY <2>2 DEF Min
  <2>4. SelectInSeq(feed, working) = p
        BY <2>1 DEF SelectInSeq
  <2> HIDE DEF p
  <2>5. p \in 1 .. Len(feed) /\ feed[p] \in W /\ p # 0
        BY <1>2, <1>4, <2>3
  <2>6. \A r \in W : ~ lessByLossRTT(r, feed[p])
    <3> SUFFICES ASSUME NEW r \in W  PROVE ~ lessByLossRTT(r, feed[p])
        OBVIOUS
    <3>1. PICK i \in 1 .. Len(feed) : feed[i] = r
          BY <1>2, <1>4
    <3>2. p <= i
          BY <1>2, <2>3, <3>1
    <3>3. r = feed[p] \/ lessByLossRTT(feed[p], r)
          BY <1>4, <2>5, <3>1, <3>2
    <3> QED  BY <1>2, <2>5, <3>3, RowsCompare
  <2>7. feed[p] = bestByPing(W)
        BY <1>2, <2>5, <2>6, BestIsOne
  <2>8. /\ RowSet(nodePicks(W)) /\ nodePicks(W) # {}
        /\ bestByPing(nodePicks(W)) = bestByPing(W)
        BY <1>2, <1>7, BestOfPicks
  <2>9. /\ filterSorted(nodePicks(W)) # <<>>
        /\ filterSorted(nodePicks(W))[1] = bestByPing(W)
        BY <2>8, BestIs
  <2> QED  BY <1>5, <1>7, <2>4, <2>5, <2>7, <2>9 DEF BestLeads, W
<1> QED  BY <1>6, <1>7

(* The feed begins with the endpoint that -best prints and -conf names,    *)
(* after those that were torn down.                                        *)
THEOREM BestComesFirst == SpeedSpec => []BestLeads
BY ListsHold, BestIsFirst, PTL

-----------------------------------------------------------------------------
(* The speed phase.  The endpoints of the picks before place k.            *)
PicksBefore(k) == {picks[i].endpoint : i \in 1 .. k - 1}

Seen == {shown[i][1] : i \in DOMAIN shown}

(* What was measured is what was picked so far.                            *)
LoopInv ==
  /\ at \in {"scan", "tunnel", "next", "try", "fetch", "over", "failed", "none"}
  /\ kept \subseteq Endpoints /\ stopped \in BOOLEAN
  /\ tries \in 0 .. Tries /\ (at = "fetch" => tries < Tries)
  /\ pos \in 1 .. Len(picks) + 1
  /\ at \in {"scan", "tunnel", "failed", "none"} => pos = 1
  /\ at \in {"try", "fetch"} => pos <= Len(picks)
  /\ DOMAIN speeds = PicksBefore(pos)
  /\ \A e \in DOMAIN speeds : speeds[e] \in 0 .. MaxSpeed

SpeedRows == Endpoints \X (0 .. MaxSpeed)

(* The rows of s have an endpoint each and are in order.                   *)
Falling(s) ==
  /\ s \in Seq(SpeedRows)
  /\ \A i, j \in DOMAIN s : i < j => s[i][1] # s[j][1] /\ s[i][2] >= s[j][2]

(* The UI shows it, fastest first, but for the last one before a quit.     *)
ShownInv ==
  /\ Falling(shown)
  /\ \A i \in DOMAIN shown : /\ shown[i][1] \in DOMAIN speeds
                             /\ speeds[shown[i][1]] = shown[i][2]
  /\ \/ DOMAIN speeds \subseteq Seen
     \/ /\ stopped /\ at \in {"next", "over"}
        /\ \E e \in DOMAIN speeds : DOMAIN speeds \ Seen = {e}

OverInv ==
  /\ speedOf \in [Endpoints -> 0 .. MaxSpeed]
  /\ at = "over" =>
       /\ stopped \/ pos > Len(picks)
       /\ speedOf = [e \in Endpoints |->
                       IF e \in kept \cap DOMAIN speeds THEN speeds[e] ELSE 0]

SpeedInv == LoopInv /\ ShownInv /\ OverInv

(* The picks: each one a row kept by the filters, no endpoint twice, and   *)
(* the best of each node, in each subnet and in all of them.               *)
LEMMA PicksOf ==
  ASSUME results \in AllResults, kept \subseteq Endpoints
  PROVE  /\ Len(picks) \in Nat /\ Cardinality(kept) \in Nat
         /\ Len(picks) <= Cardinality(kept)
         /\ \A i \in 1 .. Len(picks) : picks[i].endpoint \in kept
         /\ \A i, j \in 1 .. Len(picks) :
              picks[i].endpoint = picks[j].endpoint => i = j
         /\ RowSet(workingRows(Rows(kept)))
         /\ \A r \in nodePicks(workingRows(Rows(kept))) :
              \E i \in 1 .. Len(picks) : picks[i] = r
         /\ \A s \in Subnets :
              \A r \in nodePicks(subnetEndpoints(workingRows(Rows(kept)), s)) :
                \E i \in 1 .. Len(picks) : picks[i] = r
<1> DEFINE W == workingRows(Rows(kept))
           Of(s) == nodePicks(subnetEndpoints(W, s))
           P == nodePicks(W) \cup UNION {Of(s) : s \in Subnets}
<1>1. /\ RowSet(Rows(kept)) /\ IsFiniteSet(kept)
      /\ Cardinality(Rows(kept)) <= Cardinality(kept)
      BY RowSets DEF RowSet
<1>2. W \subseteq Rows(kept) /\ RowSet(W)
  <2>1. W \subseteq Rows(kept)
        BY DEF workingRows
  <2> HIDE DEF W
  <2> QED  BY <1>1, <2>1, RowSubset
<1>3. \A r \in Rows(kept) : r.endpoint \in kept
  <2>1. \A e \in kept : Row(e).endpoint = e
        BY ResultTypes
  <2> QED  BY <2>1, Zenon DEF Rows
<1>4. picks = filterSorted(P)
      BY DEF picks, speedTargets
<1> HIDE DEF W
<1>5. \A s : Of(s) \subseteq W
  <2>1. \A s : subnetEndpoints(W, s) \subseteq W
        BY DEF subnetEndpoints
  <2>2. \A s : RowSet(subnetEndpoints(W, s))
        BY <1>2, <2>1, RowSubset
  <2>3. \A s : nodePicks(subnetEndpoints(W, s)) \subseteq subnetEndpoints(W, s)
        BY <2>2, NodePicksAre
  <2> QED  BY <2>1, <2>3
<1>6. nodePicks(W) \subseteq W
      BY <1>2, NodePicksAre
<1> HIDE DEF Of
<1>7. \A r : r \in P <=> r \in nodePicks(W) \/ \E s \in Subnets : r \in Of(s)
      OBVIOUS
<1> HIDE DEF P
<1>8. P \subseteq Rows(kept) /\ RowSet(P)
  <2>1. P \subseteq W
        BY <1>5, <1>6, <1>7
  <2>2. P \subseteq Rows(kept)
        BY <1>2, <2>1
  <2> QED  BY <1>1, <2>2, RowSubset
<1>9. /\ Cardinality(P) \in Nat /\ Len(picks) = Cardinality(P)
      /\ \A i \in 1 .. Cardinality(P) : picks[i] \in P
      /\ \A r \in P : \E i \in 1 .. Cardinality(P) : picks[i] = r
      /\ \A i, j \in 1 .. Cardinality(P) : picks[i] = picks[j] => i = j
      BY <1>4, <1>8, SortedRows
<1>10. \A i, j \in 1 .. Len(picks) :
         picks[i].endpoint = picks[j].endpoint => i = j
      BY <1>8, <1>9 DEF RowSet, OneEach
<1>11. Len(picks) <= Cardinality(kept) /\ Cardinality(kept) \in Nat
  <2>1. P \in SUBSET Rows(kept) /\ IsFiniteSet(Rows(kept))
        BY <1>1, <1>8 DEF RowSet
  <2>2. /\ Cardinality(P) <= Cardinality(Rows(kept))
        /\ Cardinality(Rows(kept)) \in Nat /\ Cardinality(kept) \in Nat
        BY <1>1, <2>1, FS_Subset, FS_CardinalityType
  <2> QED  BY <1>1, <1>9, <2>2
<1>12. \A i \in 1 .. Len(picks) : picks[i].endpoint \in kept
      BY <1>3, <1>8, <1>9
<1>13. /\ \A r \in nodePicks(W) : \E i \in 1 .. Len(picks) : picks[i] = r
       /\ \A s \in Subnets : \A r \in Of(s) :
            \E i \in 1 .. Len(picks) : picks[i] = r
      BY <1>7, <1>9
<1> QED  BY <1>2, <1>9, <1>10, <1>11, <1>12, <1>13 DEF W, Of

LEMMA SamePicks ==
  ASSUME results' = results, kept' = kept
  PROVE  picks' = picks
<1>1. Rows(kept)' = Rows(kept)
      BY Zenon DEF Rows, Row
<1> QED  BY <1>1 DEF picks

LEMMA SpeedStart == SpeedInit => SpeedInv
<1> SUFFICES ASSUME SpeedInit  PROVE SpeedInv
    OBVIOUS
<1>1. /\ results \in AllResults
      /\ at = "scan" /\ kept = {} /\ pos = 1 /\ tries = 0
      /\ speeds = <<>> /\ shown = <<>>
      /\ speedOf = [e \in Endpoints |-> 0] /\ stopped = FALSE
      BY DEF SpeedInit, DisplayInit
<1>2. Len(picks) \in Nat
      BY <1>1, PicksOf
<1>3. Tries \in Nat \ {0} /\ MaxSpeed \in Nat
      BY SpeedAssumption DEF Tries
<1>4. PicksBefore(pos) = {} /\ Seen = {} /\ DOMAIN speeds = {}
  <2>1. 1 .. pos - 1 = {} /\ DOMAIN shown = {} /\ DOMAIN speeds = {}
        BY <1>1
  <2>2. PicksBefore(pos) = {}
        BY <2>1 DEF PicksBefore
  <2>3. Seen = {}
        BY <2>1 DEF Seen
  <2> QED  BY <2>1, <2>2, <2>3
<1>5. LoopInv
  <2>1. pos \in 1 .. Len(picks) + 1 /\ tries \in 0 .. Tries
        BY <1>1, <1>2, <1>3
  <2> QED  BY <1>1, <1>4, <2>1 DEF LoopInv
<1>6. ShownInv
  <2>1. Len(shown) = 0 /\ DOMAIN shown = {} /\ shown \in Seq(SpeedRows)
        BY <1>1
  <2>2. Falling(shown)
        BY <2>1 DEF Falling
  <2> QED  BY <1>4, <2>1, <2>2 DEF ShownInv
<1>7. OverInv
      BY <1>1, <1>3 DEF OverInv
<1> QED  BY <1>5, <1>6, <1>7 DEF SpeedInv

-----------------------------------------------------------------------------
(* Showing a speed.                                                        *)
LEMMA ShownAt ==
  ASSUME shown \in Seq(SpeedRows), NEW row \in SpeedRows, ShowSpeed(row)
  PROVE  \E p \in 1 .. Len(shown) + 1 :
           /\ shown' = Placed(shown, p, row)
           /\ \A i \in 1 .. p - 1 : shown[i][2] >= row[2]
           /\ p <= Len(shown) => row[2] > shown[p][2]
<1> DEFINE R == {x \in SpeedRows \X SpeedRows : x[1][2] > x[2][2]}
           after == {i \in 1 .. Len(shown) : row[2] > shown[i][2]}
<1>1. /\ Len(shown) \in Nat /\ \A i \in 1 .. Len(shown) : shown[i] \in SpeedRows
      OBVIOUS
<1>2. \A x \in SpeedRows : x[2] \in Nat
      BY SpeedAssumption DEF SpeedRows
<1>3. \A i \in 1 .. Len(shown) : <<row, shown[i]>> \in R <=> row[2] > shown[i][2]
      BY <1>1
<1>4. after = After(shown, row, R)
      BY <1>3 DEF After
<1>5. shown' = InsertFirst(shown, row, R)
  <2>1. after = {} \/ Min(after) # 0
    <3> HIDE DEF R, after
    <3> QED  BY <1>4, FoundFirst
  <2>2. shown' = IF after = {} THEN Append(shown, row)
                 ELSE InsertAt(shown, Min(after), row)
        BY <2>1 DEF ShowSpeed, SelectInSeq
  <2> HIDE DEF R, after
  <2> QED  BY <1>4, <2>2 DEF InsertFirst
<1> HIDE DEF R
<1>6. PICK p : FirstAfter(shown, p, row, R) /\ shown' = Placed(shown, p, row)
      BY <1>5, FoundFirst
<1>7. /\ p \in 1 .. Len(shown) + 1
      /\ \A i \in 1 .. p - 1 : <<row, shown[i]>> \notin R
      /\ p <= Len(shown) => <<row, shown[p]>> \in R
      BY <1>6 DEF FirstAfter
<1>8. \A i \in 1 .. p - 1 : i \in 1 .. Len(shown)
      BY <1>1, <1>7
<1>9. \A i \in 1 .. p - 1 : shown[i][2] >= row[2]
  <2>1. \A i \in 1 .. p - 1 : ~ (row[2] > shown[i][2])
        BY <1>3, <1>7, <1>8
  <2>2. row[2] \in Nat /\ \A i \in 1 .. p - 1 : shown[i][2] \in Nat
        BY <1>1, <1>2, <1>8
  <2> QED  BY <2>1, <2>2
<1>10. p <= Len(shown) => row[2] > shown[p][2]
      BY <1>1, <1>3, <1>7
<1> QED  BY <1>6, <1>7, <1>9, <1>10

LEMMA PlacedFalls ==
  ASSUME NEW s, Falling(s), NEW row \in SpeedRows,
         NEW p \in 1 .. Len(s) + 1,
         \A i \in DOMAIN s : s[i][1] # row[1],
         \A i \in 1 .. p - 1 : s[i][2] >= row[2],
         p <= Len(s) => row[2] > s[p][2]
  PROVE  /\ Falling(Placed(s, p, row))
         /\ \A i \in DOMAIN Placed(s, p, row) :
              Placed(s, p, row)[i] = row \/ \E j \in DOMAIN s : Placed(s, p, row)[i] = s[j]
         /\ \E i \in DOMAIN Placed(s, p, row) : Placed(s, p, row)[i] = row
         /\ \A j \in DOMAIN s : \E i \in DOMAIN Placed(s, p, row) :
              Placed(s, p, row)[i] = s[j]
<1> DEFINE t == Placed(s, p, row)
           n == Len(s)
<1>1. /\ n \in Nat /\ DOMAIN s = 1 .. n
      /\ \A i \in 1 .. n : s[i] \in SpeedRows /\ s[i][2] \in Nat
      /\ \A i, j \in 1 .. n : i < j => s[i][1] # s[j][1] /\ s[i][2] >= s[j][2]
      /\ row[2] \in Nat
  <2>1. \A x \in SpeedRows : x[2] \in Nat
        BY SpeedAssumption DEF SpeedRows
  <2>2. s \in Seq(SpeedRows)
        BY DEF Falling
  <2>3. /\ n \in Nat /\ DOMAIN s = 1 .. n
        /\ \A i \in 1 .. n : s[i] \in SpeedRows
        BY <2>2
  <2>4. \A i, j \in DOMAIN s : i < j => s[i][1] # s[j][1] /\ s[i][2] >= s[j][2]
        BY DEF Falling
  <2> HIDE DEF n
  <2> QED  BY <2>1, <2>3, <2>4
<1>2. /\ DOMAIN t = 1 .. n + 1
      /\ t = [i \in 1 .. n + 1 |->
                IF i < p THEN s[i] ELSE IF i = p THEN row ELSE s[i - 1]]
      /\ \A i \in 1 .. n + 1 :
           t[i] = IF i < p THEN s[i] ELSE IF i = p THEN row ELSE s[i - 1]
      BY DEF Placed
<1> HIDE DEF t, n
<1>3. p \in 1 .. n + 1
      BY DEF n
<1>4. \A i \in p .. n : row[2] > s[i][2]
  <2> SUFFICES ASSUME NEW i \in p .. n  PROVE row[2] > s[i][2]
      OBVIOUS
  <2>1. p \in 1 .. n /\ i \in 1 .. n /\ row[2] > s[p][2]
        BY <1>1, <1>3 DEF n
  <2>2. i = p \/ s[p][2] >= s[i][2]
        BY <1>1, <2>1
  <2> QED  BY <1>1, <2>1, <2>2
<1>5. \A i \in 1 .. n + 1 :
        /\ i < p => i \in 1 .. n /\ t[i] = s[i]
        /\ i > p => i - 1 \in p .. n /\ i - 1 \in 1 .. n /\ t[i] = s[i - 1]
        /\ i = p => t[i] = row
      BY <1>1, <1>2, <1>3
<1>6. \A i \in 1 .. n + 1 : t[i] \in SpeedRows
      BY <1>1, <1>3, <1>5
<1>7. t \in Seq(SpeedRows) /\ DOMAIN t = 1 .. n + 1
  <2>1. t \in [1 .. n + 1 -> SpeedRows]
        BY <1>2, <1>6
  <2>2. n + 1 \in Nat
        BY <1>1
  <2> QED  BY <2>1, <2>2
<1>8. ASSUME NEW i \in 1 .. n + 1, NEW j \in 1 .. n + 1, i < j
      PROVE  t[i][1] # t[j][1] /\ t[i][2] >= t[j][2]
  <2>1. CASE j < p
    <3>1. i < p
          BY <1>1, <1>3, <1>8, <2>1
    <3>2. t[i] = s[i] /\ t[j] = s[j] /\ i \in 1 .. n /\ j \in 1 .. n
          BY <1>5, <2>1, <3>1
    <3> QED  BY <1>1, <1>8, <3>2
  <2>2. CASE j = p
    <3>1. i \in 1 .. p - 1 /\ t[i] = s[i] /\ i \in 1 .. n /\ t[j] = row
          BY <1>1, <1>3, <1>5, <1>8, <2>2
    <3> QED  BY <1>1, <3>1
  <2>3. CASE j > p /\ i = p
    <3>1. t[i] = row /\ t[j] = s[j - 1] /\ j - 1 \in p .. n /\ j - 1 \in 1 .. n
          BY <1>5, <2>3
    <3> DEFINE q == s[j - 1]
    <3>2. row[2] > q[2] /\ q[1] # row[1] /\ q[2] \in Nat /\ row[2] \in Nat
          BY <1>1, <1>4, <3>1
    <3>3. t[i] = row /\ t[j] = q
          BY <3>1
    <3> HIDE DEF q
    <3> QED  BY <3>2, <3>3
  <2>4. CASE j > p /\ i < p
    <3>1. /\ t[i] = s[i] /\ t[j] = s[j - 1] /\ i \in 1 .. n
          /\ j - 1 \in 1 .. n /\ i < j - 1
          BY <1>1, <1>3, <1>5, <2>4
    <3> QED  BY <1>1, <3>1
  <2>5. CASE j > p /\ i > p
    <3>1. /\ t[i] = s[i - 1] /\ t[j] = s[j - 1] /\ i - 1 \in 1 .. n
          /\ j - 1 \in 1 .. n /\ i - 1 < j - 1
          BY <1>1, <1>3, <1>5, <1>8, <2>5
    <3> QED  BY <1>1, <3>1
  <2> QED  BY <1>1, <1>3, <2>1, <2>2, <2>3, <2>4, <2>5
<1>9. Falling(t)
  <2>1. \A i, j \in DOMAIN t :
          i < j => t[i][1] # t[j][1] /\ t[i][2] >= t[j][2]
        BY <1>7, <1>8
  <2> QED  BY <1>7, <2>1 DEF Falling
<1>10. \A i \in DOMAIN t : t[i] = row \/ \E j \in DOMAIN s : t[i] = s[j]
  <2> SUFFICES ASSUME NEW i \in 1 .. n + 1
               PROVE  t[i] = row \/ \E j \in 1 .. n : t[i] = s[j]
      BY <1>1, <1>7
  <2>1. i < p \/ i = p \/ i > p
        BY <1>3
  <2> QED  BY <1>5, <2>1
<1>11. \E i \in DOMAIN t : t[i] = row
      BY <1>3, <1>5, <1>7
<1>12. \A j \in DOMAIN s : \E i \in DOMAIN t : t[i] = s[j]
  <2> SUFFICES ASSUME NEW j \in 1 .. n  PROVE \E i \in 1 .. n + 1 : t[i] = s[j]
      BY <1>1, <1>7
  <2>1. CASE j < p
    <3>1. j \in 1 .. n + 1 /\ t[j] = s[j]
          BY <1>1, <1>5, <2>1
    <3> QED  BY <3>1
  <2>2. CASE ~ (j < p)
    <3>1. j + 1 \in 1 .. n + 1 /\ j + 1 > p /\ (j + 1) - 1 = j
          BY <1>1, <1>3, <2>2
    <3>2. t[j + 1] = s[j]
          BY <1>5, <3>1
    <3> QED  BY <3>1, <3>2
  <2> QED  BY <2>1, <2>2
<1> QED  BY <1>9, <1>10, <1>11, <1>12 DEF t

-----------------------------------------------------------------------------
(* A pick is measured: it is a new one.                                    *)
LEMMA NewPick ==
  ASSUME ListInv, SpeedInv, pos <= Len(picks)
  PROVE  /\ picks[pos].endpoint \in kept
         /\ picks[pos].endpoint \notin DOMAIN speeds
         /\ pos \in 1 .. Len(picks) /\ Len(picks) \in Nat
         /\ PicksBefore(pos + 1) = DOMAIN speeds \cup {picks[pos].endpoint}
<1>1. /\ results \in AllResults /\ kept \subseteq Endpoints
      /\ pos \in 1 .. Len(picks) + 1 /\ DOMAIN speeds = PicksBefore(pos)
      BY DEF ListInv, SpeedInv, LoopInv
<1>2. /\ Len(picks) \in Nat
      /\ \A i \in 1 .. Len(picks) : picks[i].endpoint \in kept
      /\ \A i, j \in 1 .. Len(picks) :
           picks[i].endpoint = picks[j].endpoint => i = j
      BY <1>1, PicksOf
<1>3. pos \in 1 .. Len(picks)
      BY <1>1, <1>2
<1>4. \A i \in 1 .. pos - 1 : i \in 1 .. Len(picks) /\ i # pos
      BY <1>2, <1>3
<1>5. picks[pos].endpoint \notin PicksBefore(pos)
      BY <1>2, <1>3, <1>4 DEF PicksBefore
<1>6. PicksBefore(pos + 1) = PicksBefore(pos) \cup {picks[pos].endpoint}
  <2>1. 1 .. (pos + 1) - 1 = (1 .. pos - 1) \cup {pos}
        BY <1>2, <1>3
  <2>2. PicksBefore(pos + 1) = {picks[i].endpoint : i \in (1 .. pos - 1) \cup {pos}}
        BY <2>1 DEF PicksBefore
  <2> QED  BY <2>2, Zenon DEF PicksBefore
<1> QED  BY <1>1, <1>2, <1>3, <1>5, <1>6

(* It is shown or, after a quit, kept without being shown.                 *)
LEMMA MeasuredShown ==
  ASSUME ListInv, SpeedInv, pos <= Len(picks), at \in {"try", "fetch"},
         NEW mbps \in 0 .. MaxSpeed, Measured(mbps)
  PROVE  ShownInv'
<1> DEFINE e == picks[pos].endpoint
           row == <<e, mbps>>
<1>1. /\ kept \subseteq Endpoints /\ Falling(shown)
      /\ \A i \in DOMAIN shown : /\ shown[i][1] \in DOMAIN speeds
                                 /\ speeds[shown[i][1]] = shown[i][2]
      /\ DOMAIN speeds \subseteq Seen
      BY DEF SpeedInv, LoopInv, ShownInv
<1>2. e \in kept /\ e \notin DOMAIN speeds
      BY NewPick
<1>3. /\ speeds' = [x \in DOMAIN speeds \cup {e} |->
                      IF x = e THEN mbps ELSE speeds[x]]
      /\ ShowSpeed(row) \/ (stopped /\ shown' = shown)
      /\ at' = "next" /\ stopped' = stopped
      BY DEF Measured
<1>4. row \in SpeedRows /\ row[1] = e /\ row[2] = mbps
      BY <1>1, <1>2 DEF SpeedRows
<1> HIDE DEF row, e
<1>5. /\ DOMAIN speeds' = DOMAIN speeds \cup {e} /\ speeds'[e] = mbps
      /\ \A x \in DOMAIN speeds : speeds'[x] = speeds[x]
      BY <1>2, <1>3
<1>6. ASSUME ShowSpeed(row)  PROVE ShownInv'
  <2>1. PICK p \in 1 .. Len(shown) + 1 :
          /\ shown' = Placed(shown, p, row)
          /\ \A i \in 1 .. p - 1 : shown[i][2] >= row[2]
          /\ p <= Len(shown) => row[2] > shown[p][2]
        BY <1>1, <1>4, <1>6, ShownAt DEF Falling
  <2>2. \A i \in DOMAIN shown : shown[i][1] # row[1]
        BY <1>1, <1>2, <1>4
  <2>3. /\ Falling(shown')
        /\ \A i \in DOMAIN shown' :
             shown'[i] = row \/ \E j \in DOMAIN shown : shown'[i] = shown[j]
        /\ \E i \in DOMAIN shown' : shown'[i] = row
        /\ \A j \in DOMAIN shown : \E i \in DOMAIN shown' : shown'[i] = shown[j]
        BY <1>1, <1>4, <2>1, <2>2, PlacedFalls
  <2>4. \A i \in DOMAIN shown' : /\ shown'[i][1] \in DOMAIN speeds'
                                 /\ speeds'[shown'[i][1]] = shown'[i][2]
        BY <1>1, <1>4, <1>5, <2>3
  <2>5. DOMAIN speeds' \subseteq Seen'
    <3>1. ASSUME NEW x \in DOMAIN speeds
          PROVE  \E i \in DOMAIN shown' : x = shown'[i][1]
      <4>1. PICK j \in DOMAIN shown : x = shown[j][1]
            BY <1>1, <3>1 DEF Seen
      <4> QED  BY <2>3, <4>1
    <3>2. \E i \in DOMAIN shown' : e = shown'[i][1]
          BY <1>4, <2>3
    <3> QED  BY <1>5, <3>1, <3>2 DEF Seen
  <2> QED  BY <2>3, <2>4, <2>5 DEF ShownInv, Falling
<1>7. ASSUME stopped, shown' = shown  PROVE ShownInv'
  <2>1. /\ Falling(shown')
        /\ \A i \in DOMAIN shown' : /\ shown'[i][1] \in DOMAIN speeds'
                                    /\ speeds'[shown'[i][1]] = shown'[i][2]
        BY <1>1, <1>5, <1>7
  <2>2. Seen' = Seen /\ Seen \subseteq DOMAIN speeds
        BY <1>1, <1>7 DEF Seen
  <2>3. DOMAIN speeds' \ Seen' = {e} /\ e \in DOMAIN speeds'
        BY <1>1, <1>2, <1>5, <2>2
  <2> QED  BY <1>3, <1>7, <2>1, <2>3 DEF ShownInv, Falling
<1> QED  BY <1>3, <1>6, <1>7

LEMMA MeasuredStep ==
  ASSUME ListInv, SpeedInv, at \in {"try", "fetch"},
         NEW mbps \in 0 .. MaxSpeed, Measured(mbps)
  PROVE  SpeedInv'
<1> DEFINE e == picks[pos].endpoint
<1>1. /\ kept \subseteq Endpoints /\ stopped \in BOOLEAN
      /\ pos <= Len(picks)
      /\ \A x \in DOMAIN speeds : speeds[x] \in 0 .. MaxSpeed
      /\ speedOf \in [Endpoints -> 0 .. MaxSpeed]
      BY DEF SpeedInv, LoopInv, OverInv
<1>2. /\ e \in kept /\ e \notin DOMAIN speeds
      /\ pos \in 1 .. Len(picks) /\ Len(picks) \in Nat
      /\ PicksBefore(pos + 1) = DOMAIN speeds \cup {e}
      BY <1>1, NewPick
<1>3. /\ speeds' = [x \in DOMAIN speeds \cup {e} |->
                      IF x = e THEN mbps ELSE speeds[x]]
      /\ pos' = pos + 1 /\ tries' = 0 /\ at' = "next"
      /\ results' = results
      /\ kept' = kept /\ speedOf' = speedOf /\ stopped' = stopped
      BY DEF Measured, displayVars
<1>4. picks' = picks
      BY <1>3, SamePicks
<1>5. PicksBefore(pos)' = PicksBefore(pos + 1)
      BY <1>3, <1>4, Zenon DEF PicksBefore
<1> HIDE DEF e
<1>6. /\ DOMAIN speeds' = DOMAIN speeds \cup {e}
      /\ \A x \in DOMAIN speeds' : speeds'[x] \in 0 .. MaxSpeed
      BY <1>1, <1>2, <1>3
<1>7. LoopInv'
  <2>1. Tries \in Nat /\ tries' \in 0 .. Tries
        BY <1>3, SpeedAssumption DEF Tries
  <2>2. pos' \in 1 .. Len(picks') + 1
        BY <1>2, <1>3, <1>4
  <2> QED  BY <1>1, <1>2, <1>3, <1>5, <1>6, <2>1, <2>2 DEF LoopInv
<1>8. ShownInv'
      BY <1>1, MeasuredShown
<1>9. OverInv'
      BY <1>1, <1>3 DEF OverInv
<1> QED  BY <1>7, <1>8, <1>9 DEF SpeedInv

(* The speed phase does not measure: what the lists hold stays the same.   *)
LEMMA SameMeasures ==
  ASSUME results' = results, kept' = kept, pos' = pos, speeds' = speeds,
         shown' = shown
  PROVE  picks' = picks /\ PicksBefore(pos)' = PicksBefore(pos) /\ Seen' = Seen
<1>1. picks' = picks
      BY SamePicks
<1>2. PicksBefore(pos)' = PicksBefore(pos)
      BY <1>1, Zenon DEF PicksBefore
<1>3. Seen' = Seen
      BY Zenon DEF Seen
<1> QED  BY <1>1, <1>2, <1>3

LEMMA PickCount ==
  results \in AllResults /\ kept \subseteq Endpoints => Len(picks) \in Nat
BY PicksOf

LEMMA FilterStep ==
  ASSUME ListInv, SpeedInv, NEW f \in Filters, FilterResults(f)
  PROVE  SpeedInv'
<1>1. /\ at' \in {"tunnel", "none"} /\ kept' = applyFilters(f)
      /\ results' = results /\ pos' = pos /\ tries' = tries
      /\ speeds' = speeds /\ shown' = shown /\ speedOf' = speedOf
      /\ stopped' = stopped /\ at = "scan"
      BY DEF FilterResults, displayVars
<1>2. results \in AllResults /\ kept' \subseteq Endpoints
      BY <1>1 DEF ListInv, applyFilters
<1>3. (results \in AllResults /\ kept \subseteq Endpoints => Len(picks) \in Nat)'
      BY PickCount, PTL
<1>4. Len(picks') \in Nat
      BY <1>1, <1>2, <1>3
<1>5. pos = 1 /\ LoopInv /\ ShownInv /\ OverInv
      BY <1>1 DEF SpeedInv, LoopInv
<1>6. PicksBefore(pos) = {} /\ PicksBefore(pos)' = {}
  <2>1. 1 .. pos - 1 = {} /\ 1 .. pos' - 1 = {}
        BY <1>1, <1>5
  <2> QED  BY <2>1 DEF PicksBefore
<1>7. LoopInv'
  <2>1. pos' \in 1 .. Len(picks') + 1
        BY <1>1, <1>4, <1>5
  <2>2. DOMAIN speeds' = PicksBefore(pos)'
        BY <1>1, <1>5, <1>6 DEF LoopInv
  <2> QED  BY <1>1, <1>2, <1>5, <2>1, <2>2 DEF LoopInv
<1>8. ShownInv'
  <2>1. Seen' = Seen
        BY <1>1, Zenon DEF Seen
  <2> QED  BY <1>1, <1>5, <2>1 DEF ShownInv, Falling
<1>9. OverInv'
      BY <1>1, <1>5 DEF OverInv
<1> QED  BY <1>7, <1>8, <1>9 DEF SpeedInv

LEMMA LoopStep ==
  ASSUME ListInv, SpeedInv,
         \/ SpeedTunnel \/ NextPick \/ FetchFails \/ Publish \/ Quit
         \/ \E up \in BOOLEAN : Try(up)
  PROVE  SpeedInv'
<1>1. /\ results' = results /\ kept' = kept /\ pos' = pos
      /\ speeds' = speeds /\ shown' = shown
      BY DEF SpeedTunnel, NextPick, FetchFails, Publish, Quit, Try, displayVars
<1>2. picks' = picks /\ PicksBefore(pos)' = PicksBefore(pos) /\ Seen' = Seen
      BY <1>1, SameMeasures
<1>3. LoopInv /\ ShownInv /\ OverInv
      BY DEF SpeedInv
<1>4. results \in AllResults /\ kept \subseteq Endpoints
      BY <1>3 DEF ListInv, LoopInv
<1>5. Len(picks) \in Nat /\ Tries \in Nat \ {0} /\ MaxSpeed \in Nat
      BY <1>4, PicksOf, SpeedAssumption DEF Tries
<1>6. Falling(shown') /\ Falling(shown)
      BY <1>1, <1>3 DEF ShownInv
<1>7. CASE SpeedTunnel
  <2>1. /\ at = "tunnel" /\ at' \in {"next", "failed"} /\ tries' = tries
        /\ speedOf' = speedOf /\ stopped' = stopped
        BY <1>7 DEF SpeedTunnel
  <2>2. LoopInv'
        BY <1>1, <1>2, <1>3, <2>1 DEF LoopInv
  <2>3. ShownInv'
        BY <1>1, <1>2, <1>3, <1>6, <2>1 DEF ShownInv
  <2>4. OverInv'
        BY <1>3, <2>1 DEF OverInv
  <2> QED  BY <2>2, <2>3, <2>4 DEF SpeedInv
<1>8. CASE NextPick
  <2>1. /\ at = "next" /\ at' = "try" /\ tries' = tries /\ ~stopped
        /\ speedOf' = speedOf /\ stopped' = stopped /\ pos <= Len(picks)
        BY <1>8 DEF NextPick
  <2>2. LoopInv'
        BY <1>1, <1>2, <1>3, <2>1 DEF LoopInv
  <2>3. ShownInv'
        BY <1>1, <1>2, <1>3, <1>6, <2>1 DEF ShownInv
  <2>4. OverInv'
        BY <1>3, <2>1 DEF OverInv
  <2> QED  BY <2>2, <2>3, <2>4 DEF SpeedInv
<1>9. CASE FetchFails
  <2>1. /\ at = "fetch" /\ at' = "try" /\ tries' = tries + 1
        /\ speedOf' = speedOf /\ stopped' = stopped
        BY <1>9 DEF FetchFails
  <2>2. tries' \in 0 .. Tries
        BY <1>3, <1>5, <2>1 DEF LoopInv
  <2>3. LoopInv'
        BY <1>1, <1>2, <1>3, <2>1, <2>2 DEF LoopInv
  <2>4. ShownInv'
        BY <1>1, <1>2, <1>3, <1>6, <2>1 DEF ShownInv
  <2>5. OverInv'
        BY <1>3, <2>1 DEF OverInv
  <2> QED  BY <2>3, <2>4, <2>5 DEF SpeedInv
<1>10. CASE Publish
  <2>1. /\ at = "next" /\ at' = "over" /\ tries' = tries /\ stopped' = stopped
        /\ stopped \/ pos > Len(picks)
        /\ speedOf' = [e \in Endpoints |->
                         IF e \in kept \cap DOMAIN speeds THEN speeds[e] ELSE 0]
        BY <1>10 DEF Publish
  <2>2. LoopInv'
        BY <1>1, <1>2, <1>3, <2>1 DEF LoopInv
  <2>3. ShownInv'
        BY <1>1, <1>2, <1>3, <1>6, <2>1 DEF ShownInv
  <2>4. \A e \in Endpoints :
          (IF e \in kept \cap DOMAIN speeds THEN speeds[e] ELSE 0) \in 0 .. MaxSpeed
        BY <1>3, <1>5 DEF LoopInv
  <2>5. speedOf' \in [Endpoints -> 0 .. MaxSpeed]
        BY <2>1, <2>4
  <2>6. OverInv'
        BY <1>1, <1>2, <2>1, <2>5 DEF OverInv
  <2> QED  BY <2>2, <2>3, <2>6 DEF SpeedInv
<1>11. CASE Quit
  <2>1. /\ at \in {"tunnel", "next", "try", "fetch"} /\ at' = at
        /\ tries' = tries /\ stopped' = TRUE /\ ~stopped /\ speedOf' = speedOf
        BY <1>11 DEF Quit
  <2>2. LoopInv'
        BY <1>1, <1>2, <1>3, <2>1 DEF LoopInv
  <2>3. ShownInv'
        BY <1>1, <1>2, <1>3, <1>6, <2>1 DEF ShownInv
  <2>4. OverInv'
        BY <1>3, <2>1 DEF OverInv
  <2> QED  BY <2>2, <2>3, <2>4 DEF SpeedInv
<1>12. ASSUME NEW up \in BOOLEAN, Try(up)  PROVE SpeedInv'
  <2>1. /\ at = "try" /\ tries < Tries /\ at' \in {"try", "fetch"}
        /\ at' = "fetch" => tries' = tries
        /\ at' = "try" => tries' = tries + 1 \/ tries' = tries
        /\ speedOf' = speedOf /\ stopped' = stopped
        BY <1>12 DEF Try
  <2>2. tries' \in 0 .. Tries /\ (at' = "fetch" => tries' < Tries)
        BY <1>3, <1>5, <2>1 DEF LoopInv
  <2>3. LoopInv'
        BY <1>1, <1>2, <1>3, <2>1, <2>2 DEF LoopInv
  <2>4. ShownInv'
        BY <1>1, <1>2, <1>3, <1>6, <2>1 DEF ShownInv
  <2>5. OverInv'
        BY <1>3, <2>1 DEF OverInv
  <2> QED  BY <2>3, <2>4, <2>5 DEF SpeedInv
<1> QED  BY <1>7, <1>8, <1>9, <1>10, <1>11, <1>12

LEMMA SameSpeeds ==
  ASSUME SpeedInv, results' = results, UNCHANGED speedVars  PROVE SpeedInv'
<1>1. /\ at' = at /\ kept' = kept /\ pos' = pos /\ tries' = tries
      /\ speeds' = speeds /\ shown' = shown /\ speedOf' = speedOf
      /\ stopped' = stopped
      BY DEF speedVars
<1>2. picks' = picks /\ PicksBefore(pos)' = PicksBefore(pos) /\ Seen' = Seen
      BY <1>1, SameMeasures
<1>3. LoopInv'
      BY <1>1, <1>2 DEF SpeedInv, LoopInv
<1>4. ShownInv'
  <2>1. Falling(shown') /\ ShownInv
        BY <1>1 DEF SpeedInv, ShownInv
  <2> QED  BY <1>1, <1>2, <2>1 DEF ShownInv
<1>5. OverInv'
      BY <1>1, <1>2 DEF SpeedInv, OverInv
<1> QED  BY <1>3, <1>4, <1>5 DEF SpeedInv

LEMMA SpeedStep ==
  ListInv /\ SpeedInv /\ [SpeedNext]_phaseVars => SpeedInv'
<1> SUFFICES ASSUME ListInv, SpeedInv, [SpeedNext]_phaseVars  PROVE SpeedInv'
    OBVIOUS
<1>1. 0 \in 0 .. MaxSpeed /\ \A mbps \in 1 .. MaxSpeed : mbps \in 0 .. MaxSpeed
      BY SpeedAssumption
<1>2. CASE DisplayNext /\ UNCHANGED speedVars
  <2>1. results' = results
        BY <1>2 DEF DisplayNext, Done, Found
  <2> QED  BY <1>2, <2>1, SameSpeeds
<1>3. CASE UNCHANGED phaseVars
  <2>1. results' = results /\ UNCHANGED speedVars
        BY <1>3 DEF phaseVars, displayVars
  <2> QED  BY <2>1, SameSpeeds
<1>4. ASSUME NEW f \in Filters, FilterResults(f)  PROVE SpeedInv'
      BY <1>4, FilterStep
<1>5. CASE GiveUp
  <2>1. at \in {"try", "fetch"} /\ Measured(0)
        BY <1>5 DEF GiveUp
  <2> QED  BY <1>1, <2>1, MeasuredStep
<1>6. ASSUME NEW mbps \in 1 .. MaxSpeed, Fetch(mbps)  PROVE SpeedInv'
  <2>1. at \in {"try", "fetch"} /\ Measured(mbps) /\ mbps \in 0 .. MaxSpeed
        BY <1>1, <1>6 DEF Fetch
  <2> QED  BY <2>1, MeasuredStep
<1>7. ASSUME \/ SpeedTunnel \/ NextPick \/ FetchFails \/ Publish \/ Quit
             \/ \E up \in BOOLEAN : Try(up)
      PROVE  SpeedInv'
      BY <1>7, LoopStep
<1> QED  BY <1>2, <1>3, <1>4, <1>5, <1>6, <1>7 DEF SpeedNext, Speed

LEMMA SpeedsHold == SpeedSpec => [](ListInv /\ SpeedInv)
<1>1. SpeedInit => ListInv /\ SpeedInv
      BY ListStart, SpeedStart
<1>2. ListInv /\ SpeedInv /\ [SpeedNext]_phaseVars => (ListInv /\ SpeedInv)'
      BY ListStep, SpeedStep
<1> QED  BY <1>1, <1>2, PTL DEF SpeedSpec

(* What was measured was picked, hence kept.                               *)
LEMMA MeasuredIsKept ==
  ASSUME ListInv, SpeedInv
  PROVE  /\ DOMAIN speeds \subseteq kept
         /\ pos \in 1 .. Cardinality(kept) + 1
         /\ \A i \in DOMAIN shown : shown[i] \in kept \X (0 .. MaxSpeed)
<1>1. /\ results \in AllResults /\ kept \subseteq Endpoints
      /\ pos \in 1 .. Len(picks) + 1 /\ DOMAIN speeds = PicksBefore(pos)
      /\ Falling(shown) /\ \A i \in DOMAIN shown : shown[i][1] \in DOMAIN speeds
      BY DEF ListInv, SpeedInv, LoopInv, ShownInv
<1>2. /\ Len(picks) \in Nat /\ Cardinality(kept) \in Nat
      /\ Len(picks) <= Cardinality(kept)
      /\ \A i \in 1 .. Len(picks) : picks[i].endpoint \in kept
      BY <1>1, PicksOf
<1>3. \A i \in 1 .. pos - 1 : i \in 1 .. Len(picks)
      BY <1>1, <1>2
<1>4. DOMAIN speeds \subseteq kept
      BY <1>1, <1>2, <1>3 DEF PicksBefore
<1>5. pos \in 1 .. Cardinality(kept) + 1
      BY <1>1, <1>2
<1>6. \A i \in DOMAIN shown : shown[i] \in SpeedRows
      BY <1>1 DEF Falling
<1>7. \A i \in DOMAIN shown : shown[i] \in kept \X (0 .. MaxSpeed)
      BY <1>1, <1>4, <1>6 DEF SpeedRows
<1> QED  BY <1>4, <1>5, <1>7

(* The loop measures endpoints that the filters keep, each pick once, and  *)
(* never makes more attempts at one than -attempts allows.                 *)
THEOREM SpeedTypes == SpeedSpec => []SpeedTypeOK
<1>1. ListInv /\ SpeedInv => SpeedTypeOK
  <2> SUFFICES ASSUME ListInv, SpeedInv  PROVE SpeedTypeOK
      OBVIOUS
  <2>1. /\ DisplayTypeOK /\ LoopInv /\ OverInv
        BY ListTypes DEF SpeedInv
  <2>2. Range(speeds) \subseteq 0 .. MaxSpeed
        BY <2>1 DEF LoopInv, Range
  <2>3. ToSet(shown) \subseteq kept \X (0 .. MaxSpeed)
        BY MeasuredIsKept DEF ToSet
  <2> QED  BY <2>1, <2>2, <2>3, MeasuredIsKept DEF SpeedTypeOK, LoopInv, OverInv
<1> QED  BY <1>1, SpeedsHold, PTL

(* The rows shown have an endpoint each.                                   *)
LEMMA SeenOnce ==
  ASSUME Falling(shown)
  PROVE  IsFiniteSet(Seen) /\ Cardinality(Seen) = Len(shown)
<1> DEFINE n == Len(shown)
           who == [i \in 1 .. n |-> shown[i][1]]
<1>1. /\ n \in Nat /\ DOMAIN shown = 1 .. n
      /\ \A i, j \in 1 .. n : i < j => shown[i][1] # shown[j][1]
      BY DEF Falling
<1> HIDE DEF n
<1>2. \A i, j \in 1 .. n : shown[i][1] = shown[j][1] => i = j
  <2> SUFFICES ASSUME NEW i \in 1 .. n, NEW j \in 1 .. n,
                      shown[i][1] = shown[j][1]
               PROVE  i = j
      OBVIOUS
  <2>1. ~ (i < j) /\ ~ (j < i)
        BY <1>1
  <2> QED  BY <1>1, <2>1
<1>3. Seen = {shown[i][1] : i \in 1 .. n}
      BY <1>1 DEF Seen
<1>4. who \in Bijection(1 .. n, Seen)
      BY <1>2, <1>3 DEF Bijection, Injection, IsInjective, Surjection
<1>5. IsFiniteSet(1 .. n) /\ Cardinality(1 .. n) = n
      BY <1>1, FS_Interval
<1> QED  BY <1>4, <1>5, FS_Bijection DEF ExistsBijection, n

(* A cell of the tables, and the row the tables name of it.                *)
Cell(s, n) == {r \in Rows(kept) : /\ working(r) /\ r.node = n
                                  /\ SubnetOf[r.endpoint] = s}

LEMMA CellsArePicked ==
  ASSUME results \in AllResults, kept \subseteq Endpoints,
         NEW s \in Subnets, NEW n, Cell(s, n) # {}
  PROVE  \E i \in 1 .. Len(picks) :
           /\ picks[i] \in Cell(s, n)
           /\ \A other \in Cell(s, n) \ {picks[i]} :
                lessByLossRTT(picks[i], other)
<1> DEFINE C == Cell(s, n)
           W == workingRows(Rows(kept))
           ws == subnetEndpoints(W, s)
<1>1. /\ RowSet(W)
      /\ \A r \in nodePicks(ws) : \E i \in 1 .. Len(picks) : picks[i] = r
      BY PicksOf
<1>2. C = {r \in ws : r.node = n}
      BY DEF Cell, workingRows, subnetEndpoints
<1>3. RowSet(ws)
  <2>1. ws \subseteq W
        BY DEF subnetEndpoints
  <2> HIDE DEF W, ws
  <2> QED  BY <1>1, <2>1, RowSubset
<1>0. C # {}
      OBVIOUS
<1> HIDE DEF W, ws, C
<1>4. PICK r \in ws : r.node = n
      BY <1>0, <1>2
<1>5. RowSet(C) /\ bestByPing(C) \in nodePicks(ws)
  <2>1. C = {q \in ws : q.node = r.node} /\ r \in ws
        BY <1>2, <1>4
  <2>2. RowSet({q \in ws : q.node = r.node})
        BY <1>3, <2>1, NodePicksAre
  <2>3. bestByPing({q \in ws : q.node = r.node}) \in nodePicks(ws)
        BY <1>3, <2>1, NodePicksAre
  <2> QED  BY <2>1, <2>2, <2>3
<1>6. PICK i \in 1 .. Len(picks) : picks[i] = bestByPing(C)
      BY <1>1, <1>5
<1>7. /\ bestByPing(C) \in C
      /\ \A other \in C \ {bestByPing(C)} : lessByLossRTT(bestByPing(C), other)
      BY <1>0, <1>5, BestIs
<1> QED  BY <1>6, <1>7 DEF C

LEMMA LoopMeasures == ListInv /\ SpeedInv => PicksAreMeasured
<1> SUFFICES ASSUME ListInv, SpeedInv, at = "over"  PROVE PicksAreMeasured
    BY DEF PicksAreMeasured
<1> DEFINE rows == Rows(kept)
           unseen == {e \in Endpoints \ Seen : speedOf[e] # 0}
<1>1. /\ results \in AllResults /\ kept \subseteq Endpoints
      /\ Falling(shown) /\ stopped \in BOOLEAN
      /\ pos \in 1 .. Len(picks) + 1 /\ DOMAIN speeds = PicksBefore(pos)
      /\ \A i \in DOMAIN shown : /\ shown[i][1] \in DOMAIN speeds
                                 /\ speeds[shown[i][1]] = shown[i][2]
      BY DEF ListInv, SpeedInv, LoopInv, ShownInv
<1>2. DOMAIN speeds \subseteq Seen
        \/ (stopped /\ \E e \in DOMAIN speeds : DOMAIN speeds \ Seen = {e})
      BY DEF SpeedInv, ShownInv
<1>3. /\ stopped \/ pos > Len(picks)
      /\ speedOf = [e \in Endpoints |->
                      IF e \in kept \cap DOMAIN speeds THEN speeds[e] ELSE 0]
      BY DEF SpeedInv, OverInv
<1>4. ASSUME ~stopped, NEW i \in 1 .. Len(picks)
      PROVE  picks[i].endpoint \in Seen
  <2>1. i \in 1 .. pos - 1
        BY <1>1, <1>3, <1>4, PicksOf
  <2>2. picks[i].endpoint \in DOMAIN speeds
        BY <1>1, <2>1 DEF PicksBefore
  <2> QED  BY <1>2, <1>4, <2>2
<1>5. ASSUME ~stopped, NEW s \in Subnets, NEW n \in Nodes, Cell(s, n) # {}
      PROVE  \E r \in Cell(s, n) :
               /\ r.endpoint \in Seen
               /\ \A other \in Cell(s, n) \ {r} : lessByLossRTT(r, other)
  <2>1. PICK i \in 1 .. Len(picks) :
          /\ picks[i] \in Cell(s, n)
          /\ \A other \in Cell(s, n) \ {picks[i]} : lessByLossRTT(picks[i], other)
        BY <1>1, <1>5, CellsArePicked
  <2>2. picks[i].endpoint \in Seen
        BY <1>4, <1>5
  <2> QED  BY <2>1, <2>2
<1>6. ASSUME ~stopped, NEW r \in nodePicks(workingRows(rows))
      PROVE  r.endpoint \in Seen
  <2>1. PICK i \in 1 .. Len(picks) : picks[i] = r
        BY <1>1, <1>6, PicksOf
  <2> QED  BY <1>4, <1>6, <2>1
<1>7. Cardinality(Seen) = Len(shown)
      BY <1>1, SeenOnce
<1>8. ASSUME NEW i \in DOMAIN shown
      PROVE  /\ speedOf[shown[i][1]] = shown[i][2]
             /\ \A j \in 1 .. i - 1 : shown[j][2] >= shown[i][2]
  <2>1. shown[i][1] \in kept \cap DOMAIN speeds /\ shown[i][1] \in Endpoints
        BY <1>1, MeasuredIsKept
  <2>2. \A j \in 1 .. i - 1 : j \in DOMAIN shown /\ j < i
        BY <1>1 DEF Falling
  <2> QED  BY <1>1, <1>3, <2>1, <2>2 DEF Falling
<1>9. unseen = {} \/ (stopped /\ Cardinality(unseen) = 1)
  <2>1. unseen \subseteq DOMAIN speeds \ Seen
        BY <1>3
  <2> HIDE DEF unseen
  <2>2. unseen = {} \/ (stopped /\ \E e : unseen = {e})
        BY <1>2, <2>1
  <2> QED  BY <2>2, FS_Singleton
<1>10. Seen = {shown[i][1] : i \in DOMAIN shown}
      BY DEF Seen
<1> QED  BY <1>5, <1>6, <1>7, <1>8, <1>9, <1>10 DEF PicksAreMeasured, Cell

(* Unless the user quits, the best endpoint of every cell of the tables is *)
(* measured and shown, whatever the filters keep and however the attempts  *)
(* end; and no result has a speed that the UI did not show, but one.       *)
THEOREM PicksMeasured == SpeedSpec => []PicksAreMeasured
BY SpeedsHold, LoopMeasures, PTL
=============================================================================
