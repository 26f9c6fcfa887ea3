----------------------------- MODULE SocksProxy -----------------------------
(* The socks command (src/socks.go): one tunnel, inside an outer one when  *)
(* -through is given, a listener, a goroutine per client and, once a client*)
(* is connected, one more that copies its data to the target.              *)
EXTENDS Naturals, FiniteSets

CONSTANTS Clients,   \* connections made to the proxy
          Nested,    \* -through
          Chunks     \* bound: pieces of data a target sends

ASSUME SocksAssumption == Nested \in BOOLEAN /\ Chunks \in Nat

VARIABLES
  cmd,        \* where runSocksCmd is
  result,     \* what it returns: "none" yet, "nil" or "error"
  outer, tn,  \* the tunnels: "none", "up" or "closed"
  ln,         \* the listener: "none", "open" or "closed"
  ctxDone,    \* Ctrl+C
  session,    \* per client: "none", "handshake", "resolve", "dial", "answer",
              \* "relay" or "over"
  up,         \* the goroutine copying to the target: "none", "copy" or "over"
  client,     \* external: "absent", "here", "sent" (no more to send) or "gone"
  target,     \* external: "none", "here" or "closed"
  conn,       \* our ends, to the client and to the target: "none", "open" or
  remote,     \* "closed"
  reply,      \* the answer written: "none", "ok", "refused" or "unsupported"
  sent,       \* pieces the target sent
  got         \* pieces written to the client

tunnels == <<outer, tn>>
mainVars == <<cmd, result, tunnels, ln, ctxDone>>
ends == <<client, target, sent>>
sessionVars == <<session, up, conn, remote, reply, got>>
socksVars == <<mainVars, ends, sessionVars>>

SocksTypeOK ==
  /\ cmd \in {"outer", "tunnel", "handshake", "listen", "exit", "accept",
              "returning", "over"}
  /\ result \in {"none", "nil", "error"}
  /\ outer \in {"none", "up", "closed"} /\ tn \in {"none", "up", "closed"}
  /\ ln \in {"none", "open", "closed"} /\ ctxDone \in BOOLEAN
  /\ session \in [Clients -> {"none", "handshake", "resolve", "dial",
                              "answer", "relay", "over"}]
  /\ up \in [Clients -> {"none", "copy", "over"}]
  /\ client \in [Clients -> {"absent", "here", "sent", "gone"}]
  /\ target \in [Clients -> {"none", "here", "closed"}]
  /\ conn \in [Clients -> {"none", "open", "closed"}]
  /\ remote \in [Clients -> {"none", "open", "closed"}]
  /\ reply \in [Clients -> {"none", "ok", "refused", "unsupported"}]
  /\ sent \in [Clients -> 0 .. Chunks] /\ got \in [Clients -> 0 .. Chunks]

All(x) == [c \in Clients |-> x]

SocksInit ==
  /\ cmd = IF Nested THEN "outer" ELSE "tunnel"
  /\ result = "none"
  /\ outer = "none" /\ tn = "none" /\ ln = "none" /\ ctxDone = FALSE
  /\ session = All("none") /\ up = All("none")
  /\ client = All("absent") /\ target = All("none")
  /\ conn = All("none") /\ remote = All("none") /\ reply = All("none")
  /\ sent = All(0) /\ got = All(0)

-----------------------------------------------------------------------------
(* runSocksCmd.                                                            *)

Fail == cmd' = "returning" /\ result' = "error"

(* dialOuter, newTunnel.                                                   *)
DialThrough ==
  /\ cmd = "outer"
  /\ \/ cmd' = "tunnel" /\ outer' = "up" /\ UNCHANGED result
     \/ Fail /\ UNCHANGED outer
  /\ UNCHANGED <<tn, ln, ctxDone, ends, sessionVars>>

NewTunnel ==
  /\ cmd = "tunnel"
  /\ \/ cmd' = "handshake" /\ tn' = "up" /\ UNCHANGED result
     \/ Fail /\ UNCHANGED tn
  /\ UNCHANGED <<outer, ln, ctxDone, ends, sessionVars>>

(* The handshake ends with its timeout; a cancelled one fails too.         *)
Handshake ==
  /\ cmd = "handshake"
  /\ \/ cmd' = "listen" /\ UNCHANGED result
     \/ Fail
  /\ UNCHANGED <<tunnels, ln, ctxDone, ends, sessionVars>>

Listen ==
  /\ cmd = "listen"
  /\ \/ cmd' = "exit" /\ ln' = "open" /\ UNCHANGED result
     \/ Fail /\ UNCHANGED ln
  /\ UNCHANGED <<tunnels, ctxDone, ends, sessionVars>>

(* fetchExit and the banner; then the goroutine that closes the listener   *)
(* starts, and the loop.                                                   *)
Banner ==
  /\ cmd = "exit"
  /\ cmd' = "accept"
  /\ UNCHANGED <<result, tunnels, ln, ctxDone, ends, sessionVars>>

(* go serveSOCKS.                                                          *)
Accept(c) ==
  /\ cmd = "accept" /\ ln = "open"
  /\ client[c] # "absent" /\ session[c] = "none"
  /\ session' = [session EXCEPT ![c] = "handshake"]
  /\ conn' = [conn EXCEPT ![c] = "open"]
  /\ UNCHANGED <<mainVars, ends, up, remote, reply, got>>

(* Accept fails, because the listener is closed or by itself.              *)
AcceptFails ==
  /\ cmd = "accept"
  /\ cmd' = "returning"
  /\ result' = IF ctxDone THEN "nil" ELSE "error"
  /\ UNCHANGED <<tunnels, ln, ctxDone, ends, sessionVars>>

(* Mutated form of CloseListener: the sessions are waited for.             *)
CloseListenerIdle ==
  /\ ctxDone /\ cmd = "accept" /\ ln = "open"
  /\ \A c \in Clients : session[c] \in {"none", "over"}
  /\ ln' = "closed"
  /\ UNCHANGED <<cmd, result, tunnels, ctxDone, ends, sessionVars>>

(* <-ctx.Done(); ln.Close().                                               *)
CloseListener ==
  /\ ctxDone /\ cmd = "accept" /\ ln = "open"
  /\ ln' = "closed"
  /\ UNCHANGED <<cmd, result, tunnels, ctxDone, ends, sessionVars>>

Closed(end) == IF end = "none" THEN "none" ELSE "closed"

(* The deferred calls, last first: the listener, the tunnel, the outer one.*)
Unwind ==
  /\ cmd = "returning"
  /\ CASE ln = "open" -> ln' = "closed" /\ UNCHANGED <<tunnels, cmd>>
       [] ln # "open" /\ tn = "up" -> tn' = "closed" /\ UNCHANGED <<outer, ln, cmd>>
       [] OTHER -> outer' = Closed(outer) /\ cmd' = "over" /\ UNCHANGED <<tn, ln>>
  /\ UNCHANGED <<result, ctxDone, ends, sessionVars>>

CtrlC ==
  /\ ~ctxDone /\ cmd # "over"
  /\ ctxDone' = TRUE
  /\ UNCHANGED <<cmd, result, tunnels, ln, ends, sessionVars>>

-----------------------------------------------------------------------------
(* serveSOCKS.                                                             *)

Put(f, c, x) == [f EXCEPT ![c] = x]

(* Mutated form of Leave: the connection to the client is not closed.      *)
LeaveConn(c) ==
  /\ session' = Put(session, c, "over")
  /\ remote' = Put(remote, c, Closed(remote[c]))
  /\ UNCHANGED conn

(* It returns: what was opened is closed.                                  *)
Leave(c) ==
  /\ session' = Put(session, c, "over")
  /\ conn' = Put(conn, c, "closed")
  /\ remote' = Put(remote, c, Closed(remote[c]))

(* socksReply to a client that may be gone by now.                         *)
Refuse(c, answer) ==
  /\ reply' = IF client[c] = "gone" THEN reply ELSE Put(reply, c, answer)
  /\ Leave(c)

(* socksHandshake has the address, gives up, or refuses the command.  No   *)
(* deadline bounds its reads.                                              *)
Greet(c) ==
  /\ session[c] = "handshake"
  /\ \/ /\ client[c] # "gone" /\ session' = Put(session, c, "resolve")
        /\ UNCHANGED <<conn, remote, reply>>
     \/ Leave(c) /\ UNCHANGED reply
     \/ Refuse(c, "unsupported")
  /\ UNCHANGED <<mainVars, ends, up, got>>

(* resolveInTunnel, in the ten seconds of dialCtx.                         *)
Resolve(c) ==
  /\ session[c] = "resolve"
  /\ \/ /\ ~ctxDone /\ session' = Put(session, c, "dial")
        /\ UNCHANGED <<conn, remote, reply>>
     \/ Refuse(c, "refused")
  /\ UNCHANGED <<mainVars, ends, up, got>>

(* tnet.DialContext, in what is left of them.                              *)
Dial(c) ==
  /\ session[c] = "dial"
  /\ \/ /\ ~ctxDone /\ tn = "up"
        /\ session' = Put(session, c, "answer")
        /\ remote' = Put(remote, c, "open")
        /\ target' = Put(target, c, "here")
        /\ UNCHANGED <<conn, reply>>
     \/ Refuse(c, "refused") /\ UNCHANGED target
  /\ UNCHANGED <<mainVars, client, sent, up, got>>

(* The answer, then go io.Copy(remote, c).                                 *)
Answer(c) ==
  /\ session[c] = "answer"
  /\ \/ /\ client[c] # "gone"
        /\ reply' = Put(reply, c, "ok")
        /\ up' = Put(up, c, "copy")
        /\ session' = Put(session, c, "relay")
        /\ UNCHANGED <<conn, remote>>
     \/ client[c] = "gone" /\ Leave(c) /\ UNCHANGED <<reply, up>>
  /\ UNCHANGED <<mainVars, ends, got>>

(* io.Copy(c, remote): a piece of data; writing it to a client that is gone*)
(* fails.  The write has no deadline: it takes as long as the client does  *)
(* not read.                                                               *)
Down(c) ==
  /\ session[c] = "relay" /\ got[c] < sent[c]
  /\ \/ /\ client[c] # "gone" /\ got' = Put(got, c, got[c] + 1)
        /\ UNCHANGED <<session, conn, remote>>
     \/ client[c] = "gone" /\ Leave(c) /\ UNCHANGED got
  /\ UNCHANGED <<mainVars, ends, up, reply>>

(* ... and its end: the target has closed and its data is read.            *)
DownEnds(c) ==
  /\ session[c] = "relay" /\ target[c] = "closed" /\ got[c] = sent[c]
  /\ Leave(c)
  /\ UNCHANGED <<mainVars, ends, up, reply, got>>

(* Mutated form of UpEnds: the first direction to end ends the session.    *)
UpEndsBoth(c) ==
  /\ up[c] = "copy"
  /\ client[c] \in {"sent", "gone"} \/ conn[c] = "closed"
  /\ up' = Put(up, c, "over")
  /\ IF session[c] = "relay" THEN Leave(c) ELSE UNCHANGED <<session, conn, remote>>
  /\ UNCHANGED <<mainVars, ends, reply, got>>

(* io.Copy(remote, c) ends with the client's data, or with either of our   *)
(* ends.  It closes nothing: the target is not told.  Its writes have no   *)
(* deadline either.                                                        *)
UpEnds(c) ==
  /\ up[c] = "copy"
  /\ client[c] \in {"sent", "gone"} \/ conn[c] = "closed"
  /\ up' = Put(up, c, "over")
  /\ UNCHANGED <<mainVars, ends, session, conn, remote, reply, got>>

-----------------------------------------------------------------------------
(* Clients and targets.  A target ends its side in order, without a reset. *)

ClientMoves(c) ==
  /\ client' = Put(client, c, CASE client[c] = "absent" -> "here"
                                [] client[c] = "here" -> "sent"
                                [] OTHER -> "gone")
  /\ client[c] # "gone"
  /\ UNCHANGED <<target, sent, mainVars, sessionVars>>

TargetSends(c) ==
  /\ target[c] = "here" /\ tn = "up" /\ remote[c] = "open" /\ sent[c] < Chunks
  /\ sent' = Put(sent, c, sent[c] + 1)
  /\ UNCHANGED <<client, target, mainVars, sessionVars>>

TargetCloses(c) ==
  /\ target[c] = "here" /\ tn = "up"
  /\ target' = Put(target, c, "closed")
  /\ UNCHANGED <<client, sent, mainVars, sessionVars>>

RunSocks == \/ DialThrough \/ NewTunnel \/ Handshake \/ Listen \/ Banner
            \/ Unwind \/ CloseListener
            \/ ln = "closed" /\ AcceptFails
Session(c) == \/ Greet(c) \/ Resolve(c) \/ Dial(c) \/ Answer(c) \/ Down(c)
              \/ DownEnds(c) \/ UpEnds(c)

(* The process, and its sessions with it, is gone when the command is over.*)
SocksNext == \/ RunSocks \/ CtrlC
             \/ cmd # "over" /\ AcceptFails
             \/ cmd # "over" /\ \E c \in Clients :
                  \/ Accept(c) \/ Session(c)
                  \/ ClientMoves(c) \/ TargetSends(c) \/ TargetCloses(c)

(* The steps of the setup have timeouts, goroutines run, and a read or a   *)
(* write of what is closed returns.  No client need speak or read, and no  *)
(* target answer or read.                                                  *)
SocksFairness ==
  /\ WF_socksVars(RunSocks)
  /\ \A c \in Clients :
       /\ WF_socksVars(cmd # "over" /\ client[c] = "gone" /\ Down(c))
       /\ WF_socksVars(cmd # "over" /\ DownEnds(c))
       /\ WF_socksVars(cmd # "over" /\ conn[c] = "closed" /\ UpEnds(c))

SocksSpec == SocksInit /\ [][SocksNext]_socksVars /\ SocksFairness

-----------------------------------------------------------------------------
(* A client that stays connected, if only to listen, gets everything its   *)
(* target sent before the session ends.                                    *)
NothingIsCutOff ==
  \A c \in Clients :
    session[c] = "over" /\ reply[c] = "ok" /\ client[c] # "gone" =>
      got[c] = sent[c]

(* Ctrl+C ends the command, whatever its clients are waiting for.          *)
InterruptEnds == ctxDone ~> cmd = "over"

(* The copy to a client that is there and has not read all: it may wait as *)
(* long as the client stays.                                               *)
WaitsForReader(c) == client[c] # "gone" /\ got[c] < sent[c]

(* A target that closes ends the session, and both its goroutines, unless  *)
(* the client stays without reading what it was sent: once it has read all *)
(* or is gone, nothing keeps the session.                                  *)
TargetEndsSession ==
  \A c \in Clients :
    (target[c] = "closed" /\ session[c] = "relay" /\ ~WaitsForReader(c))
      ~> (cmd = "over" \/ (session[c] = "over" /\ up[c] = "over"))
=============================================================================
