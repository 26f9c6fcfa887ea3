------------------------------ MODULE HostPing ------------------------------
(* The latency of an endpoint outside its tunnel: pingHost, from the host  *)
(* (src/discovery.go), and pingTo, from inside the outer tunnel            *)
(* (src/nest.go).  Workers of a scan call one of them at the same time,    *)
(* for the same host as well, when it is in several targets.  All sockets  *)
(* send the same id and the same numbers, and any reply may come any       *)
(* number of times.  Times are left out: what counts is which reply is     *)
(* taken for which echo.                                                   *)
EXTENDS Naturals, Sequences, FiniteSets

CONSTANTS Pingers,     \* calls of pingHost or pingTo
          Hosts,       \* the addresses they may be for
          Stranger,    \* another program that pings, or nobody
          PingProbes,  \* pingProbes
          Backlog      \* bound: replies a socket holds unread

ASSUME HostPingAssumption ==
  /\ Stranger \notin Pingers /\ Hosts # {}
  /\ PingProbes \in Nat \ {0} /\ Backlog \in Nat \ {0}

VARIABLES
  socket,   \* what the machine offers: "datagram", "raw" or "netstack"
  host,     \* host[p]: the address of the call
  place,    \* place[p]: "none", "open", "send", "read" or "over"
  number,   \* number[p]: its loop variable
  echoed,   \* echoed[p]: echoes written without error
  counted,  \* counted[p]: <<number, reply>> that entered the average
  buffer,   \* buffer[p]: replies delivered and not read yet
  arrived,  \* arrived[p]: own numbers whose reply was delivered (history)
  late      \* late[p]: some reply came outside of its window, or twice
              \* (history)

hostVars == <<socket, host, place, number, echoed, counted, buffer, arrived,
              late>>

Numbers == 0 .. PingProbes - 1
Reply == [to : Pingers \cup {Stranger}, from : Hosts, seq : Numbers]

HostTypeOK ==
  /\ socket \in {"datagram", "raw", "netstack"}
  /\ host \in [Pingers -> Hosts]
  /\ place \in [Pingers -> {"none", "open", "send", "read", "over"}]
  /\ number \in [Pingers -> 0 .. PingProbes]
  /\ echoed \in [Pingers -> SUBSET Numbers]
  /\ counted \in [Pingers -> SUBSET (Numbers \X Reply)]
  /\ buffer \in [Pingers -> Seq(Reply)]
  /\ arrived \in [Pingers -> SUBSET Numbers]
  /\ late \in [Pingers -> BOOLEAN]

HostInit ==
  /\ socket \in {"datagram", "raw", "netstack"}
  /\ host \in [Pingers -> Hosts]
  /\ place = [p \in Pingers |-> "open"]
  /\ number = [p \in Pingers |-> 0]
  /\ echoed = [p \in Pingers |-> {}]
  /\ counted = [p \in Pingers |-> {}]
  /\ buffer = [p \in Pingers |-> <<>>]
  /\ arrived = [p \in Pingers |-> {}]
  /\ late = [p \in Pingers |-> FALSE]

-----------------------------------------------------------------------------
To(p, there) == place' = [place EXCEPT ![p] = there]

(* pingTo is used when there is an outer tunnel, in whose netstack it runs.*)
Nested == socket = "netstack"

(* listenPing or DialPingAddr, which may give no socket.                   *)
OpenPing(p) ==
  /\ place[p] = "open"
  /\ To(p, "send") \/ To(p, "over")
  /\ UNCHANGED <<socket, host, number, echoed, counted, buffer, arrived, late>>

(* An echo is written, or not.                                             *)
Echo(p, written) ==
  echoed' = IF written THEN [echoed EXCEPT ![p] = @ \cup {number[p]}]
                       ELSE echoed

(* sendHostEcho: all echoes go out before the first read.                  *)
SendHostEcho(p, written) ==
  /\ place[p] = "send" /\ ~Nested
  /\ Echo(p, written)
  /\ number' = [number EXCEPT ![p] = @ + 1]
  /\ To(p, IF number[p] + 1 < PingProbes THEN "send" ELSE "read")
  /\ UNCHANGED <<socket, host, counted, buffer, arrived, late>>

(* pingTo turns to its next probe, or returns.                             *)
NextProbe(p) ==
  /\ number' = [number EXCEPT ![p] = @ + 1]
  /\ To(p, IF number[p] + 1 < PingProbes THEN "send" ELSE "over")

(* sendEchoTo: a probe that cannot be sent is skipped, the others get a    *)
(* read each.                                                              *)
SendEchoTo(p, written) ==
  /\ place[p] = "send" /\ Nested
  /\ Echo(p, written)
  /\ IF written THEN To(p, "read") /\ UNCHANGED number ELSE NextProbe(p)
  /\ UNCHANGED <<socket, host, counted, buffer, arrived, late>>

(* The numbers that have their reply.                                      *)
Answered(p) == {c[1] : c \in counted[p]}

(* Mutated form of Wanted: sameHost is not asked.                          *)
WantedFromAll(p, r) == r.seq \in echoed[p] \ Answered(p)

(* Mutated form of Wanted: the replies are expected in order.              *)
WantedInTurn(p, r) ==
  r.from = host[p] /\ r.seq \in echoed[p] /\ r.seq = Cardinality(counted[p])

(* What pingHost asks of a reply: sameHost, and a number that was sent and *)
(* has no reply yet.                                                       *)
Wanted(p, r) ==
  /\ r.from = host[p]
  /\ r.seq \in echoed[p] \ Answered(p)

(* pingHost reads until its one deadline or until all replies are there.   *)
ReadHostReply(p) ==
  /\ place[p] = "read" /\ ~Nested
  /\ buffer[p] # <<>>
  /\ LET r == Head(buffer[p])
         new == IF Wanted(p, r) THEN {<<r.seq, r>>} ELSE {}
     IN  /\ counted' = [counted EXCEPT ![p] = @ \cup new]
         /\ To(p, IF Cardinality(counted[p] \cup new) = PingProbes
                  THEN "over" ELSE "read")
  /\ buffer' = [buffer EXCEPT ![p] = Tail(@)]
  /\ UNCHANGED <<socket, host, number, echoed, arrived, late>>

(* pingTo reads once per probe and takes the reply if the number fits.     *)
ReadReplyTo(p) ==
  /\ place[p] = "read" /\ Nested
  /\ buffer[p] # <<>>
  /\ LET r == Head(buffer[p])
     IN  counted' = [counted EXCEPT ![p] =
           IF r.seq = number[p] THEN @ \cup {<<number[p], r>>} ELSE @]
  /\ buffer' = [buffer EXCEPT ![p] = Tail(@)]
  /\ NextProbe(p)
  /\ UNCHANGED <<socket, host, echoed, arrived, late>>

(* The read deadline passes: pingTo's, of the probe, while nothing waits to*)
(* be read; pingHost's, of the whole call, whatever comes in and waits, but*)
(* the reader is prompt: a wanted reply from before it has been read.      *)
Deadline(p) ==
  /\ place[p] = "read"
  /\ IF Nested THEN buffer[p] = <<>>
     ELSE \A k \in DOMAIN buffer[p] : ~Wanted(p, buffer[p][k])
  /\ IF Nested THEN NextProbe(p) ELSE To(p, "over") /\ UNCHANGED number
  /\ UNCHANGED <<socket, host, echoed, counted, buffer, arrived, late>>

Ping(p) == \/ OpenPing(p) \/ ReadHostReply(p) \/ ReadReplyTo(p) \/ Deadline(p)
           \/ \E written \in BOOLEAN :
                SendHostEcho(p, written) \/ SendEchoTo(p, written)

-----------------------------------------------------------------------------
HasSocket(p) == place[p] \in {"send", "read"}

(* A raw socket gets every reply that reaches the machine, another one only*)
(* the replies to its own identifier, which the kernel and the netstack    *)
(* choose per socket.  One that finds no room is lost.                     *)
Reaches(r, p) ==
  HasSocket(p) /\ (socket = "raw" \/ r.to = p) /\ Len(buffer[p]) < Backlog

Arrive(r) ==
  /\ buffer' = [p \in Pingers |->
                  IF Reaches(r, p) THEN Append(buffer[p], r) ELSE buffer[p]]
  /\ arrived' = [p \in Pingers |->
                   IF r.to = p /\ Reaches(r, p) THEN arrived[p] \cup {r.seq}
                   ELSE arrived[p]]
  /\ late' = [p \in Pingers |->
                late[p] \/ /\ Reaches(r, p)
                           /\ r.seq # number[p] \/ r.seq \in arrived[p]]

(* The replies that may come, each any number of times or never: those to  *)
(* echoes that were sent.                                                  *)
Airborne ==
  UNION {[to : {p}, from : {host[p]}, seq : echoed[p]] : p \in Pingers}

(* One comes, in any order and at any time, also after its call.           *)
ReplyArrives(r) ==
  /\ r \in Airborne
  /\ Arrive(r)
  /\ UNCHANGED <<socket, host, place, number, echoed, counted>>

(* Another program's echo is answered, by a host of the scan.              *)
StrangerIsAnswered(h, s) ==
  /\ Arrive([to |-> Stranger, from |-> h, seq |-> s])
  /\ UNCHANGED <<socket, host, place, number, echoed, counted>>

Replies == \/ \E r \in Airborne : ReplyArrives(r)
           \/ \E h \in Hosts, s \in Numbers : StrangerIsAnswered(h, s)

-----------------------------------------------------------------------------
(* A reply that enters the average is one to the same number, from the     *)
(* host that was asked, each number at most once; and it answers the very  *)
(* echo of this call, except that on a raw socket, where replies to others *)
(* that ping the same host look the same, it may be one of theirs.         *)
OwnEcho ==
  \A p \in Pingers : \A c \in counted[p] :
    /\ c[1] \in echoed[p] /\ c[2].seq = c[1] /\ c[2].from = host[p]
    /\ c[2].to = p \/ socket = "raw"
    /\ \A d \in counted[p] : d[1] = c[1] => d = c

(* pingHost counts every echo whose reply arrived in its time, in whatever *)
(* order and among whatever others.  pingTo, with one read per probe, does *)
(* so as long as none came late or twice: after that it may miss all.      *)
NoReplyMissed ==
  \A p \in Pingers :
    place[p] = "over" /\ (Nested => ~late[p]) => arrived[p] \subseteq Answered(p)
=============================================================================
