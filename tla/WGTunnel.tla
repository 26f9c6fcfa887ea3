------------------------------ MODULE WGTunnel ------------------------------
(* wgTunnel of src/tunnel.go and the binds of src/bind.go and src/nest.go: *)
(* one WireGuard device that is pointed at endpoint after endpoint.  Each  *)
(* handshake replaces the peer, and polls the device until a deadline for  *)
(* the time of the last handshake.  wireguard-go is external: its peer, its*)
(* initiations and its one receive goroutine are modelled from their use.  *)
EXTENDS Naturals

CONSTANTS Calls,        \* bound: calls of handshake
          Timeout,      \* -timeout, in ticks
          PollStart,    \* handshakePollStart, in ticks
          PollMax       \* handshakePollMax

ASSUME PollAssumption ==
  /\ Calls \in Nat /\ Timeout \in Nat
  /\ PollStart \in 1 .. PollMax /\ PollMax \in Nat

(* The sleeps of waitHandshake: each is twice the one before it until one  *)
(* is no shorter than PollMax.                                             *)
Sleeps == {w \in 1 .. 2 * PollMax :
             \A S \in SUBSET (1 .. 2 * PollMax) :
               PollStart \in S /\ (\A v \in S : v < PollMax => 2 * v \in S)
                 => w \in S}
LongestSleep == CHOOSE w \in Sleeps : \A v \in Sleeps : v <= w

VARIABLES
  owner,      \* "new", "idle", in handshake "unset", "poll" or "sleep",
              \* then "closing" and "closed"
  n,          \* the calls of handshake begun
  peer,       \* the device's peer, as the call that set it; 0 is none
  done,       \* that peer's last_handshake_time_sec is not 0
  flying,     \* calls whose endpoint has answered: responses on their way
  now, wake,  \* time since the call began, and when its sleep ends
  wait,       \* the next sleep
  seenAt,     \* when the endpoint of this call got through, or Never
  ctxDone,    \* the caller's context is cancelled
  said,       \* what the last call returned: "none", "yes" or "no"
  sock,       \* the bind's socket: "none", "open" or "closed"
  receiver    \* the device's receive goroutine: "none", "reading", "ended"

device == <<peer, done, flying, sock, receiver>>
clock == <<now, wake, wait>>
wgVars == <<owner, n, device, clock, seenAt, ctxDone, said>>

Never == Timeout + 2 * PollMax + 1

WGTypeOK ==
  /\ owner \in {"new", "idle", "unset", "poll", "sleep", "closing",
                "closed"}
  /\ n \in 0 .. Calls /\ peer \in 0 .. n /\ flying \subseteq 1 .. n
  /\ now \in 0 .. Never - 1 /\ wake \in 0 .. Never - 1
  /\ wait \in 1 .. 2 * PollMax /\ seenAt \in 0 .. Never
  /\ {done, ctxDone} \subseteq BOOLEAN
  /\ said \in {"none", "yes", "no"}
  /\ sock \in {"none", "open", "closed"}
  /\ receiver \in {"none", "reading", "ended"}

WGInit ==
  /\ owner = "new" /\ n = 0
  /\ peer = 0 /\ done = FALSE /\ flying = {}
  /\ sock = "none" /\ receiver = "none"
  /\ now = 0 /\ wake = 0 /\ wait = PollStart /\ seenAt = Never
  /\ ctxDone = FALSE /\ said = "none"

-----------------------------------------------------------------------------
(* newWGTunnel: the device comes up, opens the bind and reads from it ...  *)
Up ==
  /\ owner = "new"
  /\ owner' = "idle" /\ sock' = "open" /\ receiver' = "reading"
  /\ UNCHANGED <<n, peer, done, flying, clock, seenAt, ctxDone, said>>

(* ... or does not, and is closed; or there is no device to close.         *)
UpFails ==
  /\ owner = "new"
  /\ owner' \in {"closing", "closed"}
  /\ UNCHANGED <<n, device, clock, seenAt, ctxDone, said>>

(* Mutated form of SetPeer: no replace_peers=true, and the key is the same.*)
SetPeerKept(ok) ==
  /\ peer' = IF peer # 0 THEN peer ELSE IF ok THEN n + 1 ELSE 0
  /\ done' = (done /\ peer # 0)

(* IpcSet(peerUAPI(endpoint)): replace_peers=true drops the peer there is, *)
(* with its handshake, before the rest is looked at.                       *)
SetPeer(ok) ==
  /\ peer' = IF ok THEN n + 1 ELSE 0
  /\ done' = FALSE

(* handshake begins.                                                       *)
Handshake(ok) ==
  /\ owner = "idle" /\ n < Calls
  /\ n' = n + 1
  /\ SetPeer(ok)
  /\ now' = 0 /\ wake' = 0 /\ wait' = PollStart /\ seenAt' = Never
  /\ owner' = (IF ok THEN "poll" ELSE "unset") /\ said' = "none"
  /\ UNCHANGED <<flying, sock, receiver, ctxDone>>

Return(answer) ==
  /\ owner' = "idle" /\ said' = answer
  /\ UNCHANGED <<n, device, clock, seenAt, ctxDone>>

(* peerUAPI or IpcSet failed.  The first does so at every call or at none, *)
(* as the key is the same one: there is no peer for it to leave in place.  *)
NotSet == owner = "unset" /\ Return("no")

(* Mutated form of Backoff: nothing stops the doubling.                    *)
BackoffForever == wait' = 2 * wait
Backoff == wait' = IF wait < PollMax THEN 2 * wait ELSE wait

(* One turn of waitHandshake's loop.                                       *)
Poll ==
  /\ owner = "poll"
  /\ IF now >= Timeout \/ ctxDone THEN Return("no")
     ELSE IF done THEN Return("yes")
     ELSE /\ owner' = "sleep" /\ wake' = now + wait
          /\ Backoff
          /\ UNCHANGED <<n, device, now, seenAt, ctxDone, said>>

Tick ==
  /\ owner = "sleep" /\ now < wake
  /\ now' = now + 1
  /\ UNCHANGED <<owner, n, device, wake, wait, seenAt, ctxDone, said>>

Wake ==
  /\ owner = "sleep" /\ now = wake
  /\ owner' = "poll"
  /\ UNCHANGED <<n, device, clock, seenAt, ctxDone, said>>

(* dev.Close: the peers go, the bind closes its socket ...                 *)
CloseDevice ==
  /\ owner = "idle"
  /\ owner' = "closing"
  /\ peer' = 0 /\ done' = FALSE /\ said' = "none"
  /\ sock' = "closed"
  /\ UNCHANGED <<n, flying, receiver, clock, seenAt, ctxDone>>

(* ... and the receive goroutine is waited for.                            *)
Closed ==
  /\ owner = "closing" /\ receiver # "reading"
  /\ owner' = "closed"
  /\ UNCHANGED <<n, device, clock, seenAt, ctxDone, said>>

CancelCtx ==
  /\ ~ctxDone
  /\ ctxDone' = TRUE
  /\ UNCHANGED <<owner, n, device, clock, seenAt, said>>

-----------------------------------------------------------------------------
(* The device sends an initiation, as the keepalive makes it do at once and*)
(* its own timer does again, and the endpoint answers it.                  *)
EndpointAnswers ==
  /\ peer # 0 /\ ~done /\ sock = "open"
  /\ flying' = flying \cup {peer}
  /\ UNCHANGED <<owner, n, peer, done, sock, receiver, clock, seenAt, ctxDone,
                 said>>

(* receive: the response of a peer that was replaced belongs to nobody.    *)
Receive(c) ==
  /\ receiver = "reading" /\ sock = "open"
  /\ c \in flying
  /\ flying' = flying \ {c}
  /\ done' = (done \/ c = peer)
  /\ seenAt' = IF c = peer /\ ~done THEN now ELSE seenAt
  /\ UNCHANGED <<owner, n, peer, sock, receiver, clock, ctxDone, said>>

(* A read error is taken for the closing of the socket: net.ErrClosed ends *)
(* the goroutine for good, and the tunnel is deaf.                         *)
ReadFails ==
  /\ receiver = "reading"
  /\ receiver' = "ended"
  /\ UNCHANGED <<owner, n, peer, done, flying, sock, clock, seenAt, ctxDone,
                 said>>

Owner == \/ Up \/ UpFails \/ NotSet \/ Poll \/ Tick \/ Wake \/ Closed

WGNext == \/ Owner \/ CloseDevice \/ CancelCtx \/ EndpointAnswers
          \/ ReadFails
          \/ \E ok \in BOOLEAN : Handshake(ok)
          \/ \E c \in 1 .. n : Receive(c)

(* The owner runs, time passes, and a read on a closed socket fails.  No   *)
(* endpoint has to answer and nobody has to shake hands, close or cancel.  *)
WGFairness == WF_wgVars(Owner) /\ WF_wgVars(sock = "closed" /\ ReadFails)

WGSpec == WGInit /\ [][WGNext]_wgVars /\ WGFairness

-----------------------------------------------------------------------------
(* The device is a tunnel as TunnelPromise has it: true is said of the     *)
(* endpoint of this very call, although the key of all endpoints is one and*)
(* late responses of earlier ones come in; every call returns; and a close *)
(* leaves no goroutine behind.                                             *)
Tunnel == INSTANCE TunnelPromise WITH
            state <- CASE owner \in {"new", "idle"} -> "idle"
                       [] owner \in {"unset", "poll", "sleep"} -> "calling"
                       [] owner = "closing" -> "closed"
                       [] owner = "closed" -> "released",
            calls <- n,
            linked <- IF done THEN peer ELSE 0,
            said <- said
IsTunnel == Tunnel!Spec

(* The back-off costs no endpoint that answers: one that got through a full*)
(* sleep before the deadline is reported, unless the caller cancelled, and *)
(* a call overruns its timeout by less than one sleep.                     *)
PollIsInTime ==
  /\ now < Timeout + LongestSleep
  /\ owner = "idle" /\ said = "no" /\ seenAt + LongestSleep < Timeout => ctxDone
=============================================================================
