----------------------------- MODULE TunnelPing ----------------------------
(* The durability check of src/tunnel.go: tunnelPing sends a burst of      *)
(* echoes through the tunnel and scores the replies, durability asks for a *)
(* second burst before it believes in a teardown.  The network under the   *)
(* tunnel loses, delays, reorders and duplicates, and a DPI box may cut it *)
(* for good at any moment.  A reply may come any number of times and other *)
(* packets without end, as fast as they are read.                          *)
EXTENDS Naturals, Sequences, FiniteSets, Functions

CONSTANTS Count,          \* echoes per burst (-tun-ping-count)
          TornTailFails,  \* the constant of the same name
          Room            \* bound: packets the ping socket holds unread

(* -tun-ping-count is refused below minDurabilityPings, which is more than *)
(* tornTailFails (src/tunnel.go, src/flags.go).                            *)
ASSUME PingAssumption ==
  /\ TornTailFails \in Nat \ {0}
  /\ Count \in Nat /\ Count >= TornTailFails
  /\ Room \in Nat \ {0}

Echoes == 0 .. Count - 1
Bursts == {1, 2}

(* A packet that parseEchoSeq turns down or that carries a foreign number. *)
Alien == Count

VARIABLES
  burst,     \* the call of tunnelPing under way
  mode,      \* where it is: "open", "send", "window", "final", "over", or
             \* "none": it is not called
  seq,       \* its loop variable
  sent,      \* the echoes sendEcho wrote without error
  got,       \* the echoes a reply was read for; n is its cardinality
  inbox,     \* replies delivered to the ping socket and not read yet
  first,     \* what the first burst scored, once it has
  verdict,   \* what durability returned, once it has
  cut,       \* the burst in which the tunnel was torn down, or 0
  delivered, \* <<burst, echo>> delivered in its burst (history)
  mute       \* a burst had no socket (history)

burstVars == <<burst, mode, seq, sent, got, inbox, first, verdict, cut,
              delivered, mute>>

NoScore == [torn |-> FALSE, lost |-> 0, of |-> 0]
Scores == [torn : BOOLEAN, lost : 0 .. Count, of : 0 .. 2]

BurstTypeOK ==
  /\ burst \in Bursts
  /\ mode \in {"none", "open", "send", "window", "final", "over"}
  /\ seq \in 0 .. Count
  /\ sent \in SUBSET Echoes /\ got \in SUBSET sent
  /\ inbox \in Seq(0 .. Count)
  /\ first \in Scores /\ verdict \in Scores
  /\ cut \in 0 .. 2
  /\ mute \in BOOLEAN
  /\ delivered \in SUBSET (Bursts \X Echoes)

BurstInit ==
  /\ burst = 1 /\ mode = "open" /\ seq = 0
  /\ sent = {} /\ got = {} /\ inbox = <<>>
  /\ first = NoScore /\ verdict = NoScore
  /\ cut = 0 /\ delivered = {} /\ mute = FALSE

-----------------------------------------------------------------------------
(* A trailing run of at least TornTailFails unanswered echoes.             *)
LastEchoes == {s \in Echoes : s >= Count - TornTailFails}

(* Mutated form of teardown: it looks at the head of the burst.            *)
TeardownAtHead(replies) ==
  Count >= TornTailFails /\ replies \cap (0 .. TornTailFails - 1) = {}

teardown(replies) == Count >= TornTailFails /\ replies \cap LastEchoes = {}

(* A burst returns a score.  A second one follows a torn first one and only*)
(* that; two torn bursts report the first one's numbers.                   *)
Burst2 ==
  /\ burst' = 2 /\ mode' = "open" /\ seq' = 0
  /\ sent' = {} /\ got' = {} /\ inbox' = <<>>

(* Mutated form of Return: one burst decides.                              *)
ReturnAtOnce(score) ==
  /\ mode' = "over"
  /\ verdict' = score
  /\ UNCHANGED <<burst, seq, sent, got, inbox, first>>

Return(score) ==
  IF score.torn /\ burst = 1
  THEN Burst2 /\ first' = score /\ UNCHANGED verdict
  ELSE /\ mode' = "over"
       /\ verdict' = IF score.torn THEN first ELSE score
       /\ UNCHANGED <<burst, seq, sent, got, inbox, first>>

(* DialPingAddr.  Without a socket the burst counts as clean: no echo, no  *)
(* loss, not torn.                                                         *)
Open ==
  /\ mode = "open"
  /\ mode' = "send"
  /\ UNCHANGED <<burst, seq, sent, got, inbox, first, verdict, cut,
                 delivered, mute>>

OpenFails ==
  /\ mode = "open"
  /\ mute' = TRUE
  /\ Return([torn |-> FALSE, lost |-> 0, of |-> burst])
  /\ UNCHANGED <<cut, delivered>>

(* sendEcho, which may fail locally; then the window of pingInterval.      *)
SendEcho(written) ==
  /\ mode = "send"
  /\ sent' = IF written THEN sent \cup {seq} ELSE sent
  /\ mode' = "window"
  /\ UNCHANGED <<burst, seq, got, inbox, first, verdict, cut, delivered,
                 mute>>

(* Mutated form of Read: only the reply to the echo just sent counts.      *)
ReadLatest ==
  /\ mode \in {"window", "final"}
  /\ inbox # <<>>
  /\ Cardinality(got) < Count
  /\ got' = IF Head(inbox) = seq THEN got \cup {seq} ELSE got
  /\ inbox' = Tail(inbox)
  /\ UNCHANGED <<burst, mode, seq, sent, first, verdict, cut, delivered, mute>>

(* One turn of drain: replies are matched by number, and a foreign, a      *)
(* repeated or an unasked one is skipped.                                  *)
Read ==
  /\ mode \in {"window", "final"}
  /\ inbox # <<>>
  /\ Cardinality(got) < Count
  /\ got' = got \cup ({Head(inbox)} \cap sent)
  /\ inbox' = Tail(inbox)
  /\ UNCHANGED <<burst, mode, seq, sent, first, verdict, cut, delivered, mute>>

(* The replies that wait in the socket for the reader.                     *)
Awaited == Range(inbox) \cap (sent \ got)

(* Mutated form of Drained: every read has the deadline set anew, which    *)
(* then passes only on a socket that is silent.                            *)
DrainedInSilence == inbox = <<>> \/ Cardinality(got) = Count

(* drain returns: every echo has been answered, or the deadline of the     *)
(* window has passed and the read fails, whatever still comes in and       *)
(* whatever waits unread (it is there for the next window).  The reader is *)
(* prompt: a reply that came before the deadline is read before it.        *)
Drained == Awaited = {} \/ Cardinality(got) = Count

WindowEnds ==
  /\ mode = "window"
  /\ Drained
  /\ seq' = seq + 1
  /\ mode' = IF seq + 1 < Count THEN "send" ELSE "final"
  /\ UNCHANGED <<burst, sent, got, inbox, first, verdict, cut, delivered,
                 mute>>

(* The final window for stragglers closes and the burst is scored.         *)
FinalEnds ==
  /\ mode = "final"
  /\ Drained
  /\ Return([torn |-> teardown(got), lost |-> Count - Cardinality(got),
             of |-> burst])
  /\ UNCHANGED <<cut, delivered, mute>>

-----------------------------------------------------------------------------
Listening == mode \in {"send", "window", "final"}

Receives == Listening /\ cut = 0 /\ Len(inbox) < Room

(* A reply comes back, in any order, at any time and any number of times,  *)
(* or never; one that finds no room in the socket is lost.                 *)
Deliver(s) ==
  /\ Receives
  /\ s \in sent
  /\ inbox' = Append(inbox, s)
  /\ delivered' = delivered \cup {<<burst, s>>}
  /\ UNCHANGED <<burst, mode, seq, sent, got, first, verdict, cut, mute>>

(* Something else reaches the socket.                                      *)
DeliverAlien ==
  /\ Receives
  /\ inbox' = Append(inbox, Alien)
  /\ UNCHANGED <<burst, mode, seq, sent, got, first, verdict, cut, delivered,
                 mute>>

(* The tunnel is torn down mid-stream and never recovers.                  *)
Cut ==
  /\ cut = 0 /\ mode # "over"
  /\ cut' = burst
  /\ UNCHANGED <<burst, mode, seq, sent, got, inbox, first, verdict,
                 delivered, mute>>

Burst == \/ Open \/ OpenFails \/ \E written \in BOOLEAN : SendEcho(written)
         \/ Read \/ WindowEnds \/ FinalEnds

Network == (\E s \in Echoes : Deliver(s)) \/ DeliverAlien \/ Cut

-----------------------------------------------------------------------------
Over == mode = "over"
Delivered(b) == {s \in Echoes : <<b, s>> \in delivered}

(* The reported numbers are those of one burst and count every reply that  *)
(* reached the socket while it was open, however late or out of order, and *)
(* no reply twice.                                                         *)
LossIsOneBurst ==
  Over => \/ verdict.lost = Count - Cardinality(Delivered(verdict.of))
          \/ mute /\ verdict.lost = 0

(* A teardown is reported only when neither burst heard back from any of   *)
(* its last echoes, both were sent, and the numbers are the first one's.   *)
TornNeedsTwoSilentTails ==
  Over /\ verdict.torn =>
    /\ \A b \in Bursts : Delivered(b) \cap LastEchoes = {}
    /\ verdict.of = 1 /\ burst = 2

(* A cut in the first burst is reported unless one of that burst's last    *)
(* echoes had already been answered or a burst had no socket.              *)
CutIsReported ==
  Over /\ cut = 1 /\ ~mute /\ Delivered(1) \cap LastEchoes = {}
    => verdict.torn
=============================================================================
