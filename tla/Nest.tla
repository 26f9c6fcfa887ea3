-------------------------------- MODULE Nest --------------------------------
(* scan -through (src/nest.go, src/tunnel.go, src/wgconf.go): one tunnel   *)
(* inside another, on two devices of one account file.  Which device a     *)
(* tunnel or a written interface belongs to is decided by globals, into    *)
(* which withOuterKeys puts the outer device for the length of a call.     *)
EXTENDS Naturals, Sequences

CONSTANTS Workers,      \* goroutines of the scan, one inner tunnel each
          Addresses,    \* tunnel addresses of the family that is scanned
          Fallback,     \* warpAddress or warpAddressV6 before any account
          Moved,        \* chainInnerAddress
          Absent        \* an address the account file does not hold

ASSUME NestAssumption ==
  /\ Fallback \in Addresses
  /\ Absent \notin Addresses /\ Moved \notin Addresses /\ Moved # Absent

NoDevice == "no device"

VARIABLES
  pc,        \* where the command is
  opts,      \* -6 and -conf-type mihomo: [ipv6, mihomo]
  account,   \* addresses of the file's two devices: [own, outer]
  global,    \* warpPrivateKey and warpPublicKey, warpAddress: [keys, addr]
  saved,     \* what withOuterKeys puts back
  outer,     \* the outer tunnel: [state, keys, peer, addr]
  work,      \* what the goroutine of runWithUI does: "idle", "scan", "speed"
  inner,     \* per worker its tunnel: [state, keys, peer, addr]
  conf,      \* the interfaces written, outer first: [keys, addr]
  warned     \* the config says that its addresses collide

given == <<opts, account>>
vars == <<pc, given, global, saved, outer, work, inner, conf, warned>>

Devices == {"built in", "own", "outer"}
Globals == [keys : Devices, addr : Addresses \cup {Moved}]
NoTunnel == [state |-> "none", keys |-> "built in", peer |-> "built in",
             addr |-> Fallback]
Tunnels == [state : {"none", "up", "closed"}, keys : Devices, peer : Devices,
            addr : Addresses \cup {Moved}]

VarsOK ==
  /\ pc \in {"start", "dial", "new outer", "outer handshake", "outer address",
             "scan", "results", "speed", "measured", "conf", "conf swapped",
             "conf rendered", "inner conf", "inner rendered",
             "closing", "failing", "done", "failed", "exited"}
  /\ opts \in [ipv6 : BOOLEAN, mihomo : BOOLEAN]
  /\ account \in [own : Addresses \cup {Absent},
                  outer : Addresses \cup {Absent, NoDevice}]
  /\ global \in Globals /\ saved \in Globals
  /\ outer \in Tunnels
  /\ work \in {"idle", "scan", "speed"}
  /\ inner \in [Workers -> Tunnels]
  /\ warned \in BOOLEAN

TypeOK == VarsOK /\ conf \in Seq(Globals)

Init ==
  /\ pc = "start"
  /\ opts \in [ipv6 : BOOLEAN, mihomo : BOOLEAN]
  /\ account \in [own : Addresses \cup {Absent},
                  outer : Addresses \cup {Absent, NoDevice}]
  /\ global = [keys |-> "built in", addr |-> Fallback] /\ saved = global
  /\ outer = NoTunnel /\ work = "idle"
  /\ inner = [w \in Workers |-> NoTunnel]
  /\ conf = <<>> /\ warned = FALSE

-----------------------------------------------------------------------------
(* The account globals.                                                    *)

(* A device without a stored address leaves the one that is there.         *)
Over(addr, below) == IF addr = Absent THEN below ELSE addr

(* loadScanAccount and applyAccount.                                       *)
LoadAccount ==
  /\ pc = "start"
  /\ pc' = "dial"
  /\ global' = [keys |-> "own", addr |-> Over(account.own, global.addr)]
  /\ UNCHANGED <<given, saved, outer, work, inner, conf, warned>>

(* withOuterKeys begins.                                                   *)
SwapIn ==
  /\ saved' = global
  /\ global' = [keys |-> "outer", addr |-> Over(account.outer, global.addr)]

(* Its deferred function, on every way out.                                *)
SwapOut == global' = saved /\ UNCHANGED saved

-----------------------------------------------------------------------------
(* dialOuter.                                                              *)

NoOuterDevice ==
  /\ pc = "dial" /\ account.outer = NoDevice
  /\ pc' = "failed"
  /\ UNCHANGED <<given, global, saved, outer, work, inner, conf, warned>>

BeginOuter ==
  /\ pc = "dial" /\ account.outer # NoDevice
  /\ pc' = "new outer"
  /\ SwapIn
  /\ UNCHANGED <<given, outer, work, inner, conf, warned>>

(* newWGTunnel gives the device its private key and its address.           *)
New == [state |-> "up", keys |-> global.keys, peer |-> "built in",
        addr |-> global.addr]

NewOuter ==
  /\ pc = "new outer"
  /\ \/ /\ pc' = "outer handshake"
        /\ outer' = New
        /\ UNCHANGED <<global, saved>>
     \/ pc' = "failed" /\ SwapOut /\ UNCHANGED outer
  /\ UNCHANGED <<given, work, inner, conf, warned>>

(* The handshake sets the peer's key, then waits for its answer.           *)
OuterHandshake ==
  /\ pc = "outer handshake"
  /\ SwapOut
  /\ \/ pc' = "outer address" /\ outer' = [outer EXCEPT !.peer = global.keys]
     \/ pc' = "failed" /\ outer' = [outer EXCEPT !.state = "closed"]
  /\ UNCHANGED <<given, work, inner, conf, warned>>

(* Mutated form of OuterAddress: the error leaves the tunnel open.         *)
OuterAddressLeaks ==
  /\ pc = "outer address"
  /\ pc' = IF account.outer = Absent THEN "failed" ELSE "scan"
  /\ UNCHANGED <<given, global, saved, outer, work, inner, conf, warned>>

(* tunnelBind will bind to the outer device's own address: it needs one.   *)
OuterAddress ==
  /\ pc = "outer address"
  /\ IF account.outer = Absent
     THEN pc' = "failed" /\ outer' = [outer EXCEPT !.state = "closed"]
     ELSE pc' = "scan" /\ UNCHANGED outer
  /\ UNCHANGED <<given, global, saved, work, inner, conf, warned>>

-----------------------------------------------------------------------------
(* The goroutine that scans or measures, in tunnels inside the outer one.  *)

Open == {w \in Workers : inner[w].state = "up"}

Goes(w, tn) ==
  /\ inner' = [inner EXCEPT ![w] = tn]
  /\ UNCHANGED <<pc, given, global, saved, outer, work, conf, warned>>

InnerOpens(w) ==
  /\ work # "idle" /\ inner[w].state # "up"
  /\ work = "speed" => Open = {}
  /\ Goes(w, New)

InnerHandshake(w) ==
  /\ work # "idle" /\ inner[w].state = "up"
  /\ Goes(w, [inner[w] EXCEPT !.peer = global.keys])

InnerCloses(w) ==
  /\ inner[w].state = "up"
  /\ Goes(w, [inner[w] EXCEPT !.state = "closed"])

(* The pool has joined its workers and closed its tunnels.                 *)
WorkEnds ==
  /\ work # "idle" /\ Open = {}
  /\ work' = "idle"
  /\ UNCHANGED <<pc, given, global, saved, outer, inner, conf, warned>>

Begin(what, at, to) ==
  /\ pc = at /\ work = "idle"
  /\ pc' = to /\ work' = what
  /\ UNCHANGED <<given, global, saved, outer, inner, conf, warned>>

-----------------------------------------------------------------------------
(* runScanCmd with the outer tunnel up.                                    *)

Goto(at, to) ==
  /\ pc = at
  /\ pc' = to
  /\ UNCHANGED <<given, global, saved, outer, work, inner, conf, warned>>

Scan == Begin("scan", "scan", "results")

(* runScanUI has returned: an error ends the process on the spot, nothing  *)
(* found ends the command.                                                 *)
Scanned ==
  /\ work = "idle"
  /\ \/ Goto("results", "exited") \/ Goto("results", "failing")
     \/ Goto("results", "conf") \/ Goto("results", "closing")
     \/ Goto("results", "speed")

Speed == Begin("speed", "speed", "measured")

(* Mutated form of UIOver: the command does not wait for the work.         *)
UIOverEarly == Goto("measured", "conf") \/ Goto("measured", "closing")

(* The speed phase's runWithUI has returned, its error is not looked at.   *)
(* p.Run itself is taken not to fail here: ScanCommand has that failure,   *)
(* after which runWithUI does not wait for the work.                       *)
UIOver ==
  /\ work = "idle"
  /\ Goto("measured", "conf") \/ Goto("measured", "closing")

(* writeConf of a nested run: the outer interface under the outer keys ... *)
BeginConf ==
  /\ pc = "conf"
  /\ pc' = "conf swapped"
  /\ SwapIn
  /\ warned' = (~opts.mihomo /\ opts.ipv6
                /\ global.addr = Over(account.outer, global.addr))
  /\ UNCHANGED <<given, outer, work, inner, conf>>

Interface == [keys |-> global.keys, addr |-> global.addr]

RenderOuter ==
  /\ pc = "conf swapped"
  /\ pc' = "conf rendered"
  /\ conf' = <<Interface>>
  /\ UNCHANGED <<given, global, saved, outer, work, inner, warned>>

(* Mutated form of EndOuterConf: the IPv4 address stays as it is.          *)
EndOuterConfInPlace ==
  /\ pc = "conf rendered"
  /\ pc' = "inner conf"
  /\ SwapOut
  /\ UNCHANGED <<given, outer, work, inner, conf, warned>>

(* ... which go out again; withChainAddr then moves the inner address away *)
(* from the outer one, in a native config for IPv4.                        *)
EndOuterConf ==
  /\ pc = "conf rendered"
  /\ pc' = "inner conf"
  /\ UNCHANGED saved
  /\ global' = IF ~opts.mihomo /\ ~opts.ipv6
                  /\ saved.addr = Over(account.outer, saved.addr)
               THEN [saved EXCEPT !.addr = Moved] ELSE saved
  /\ UNCHANGED <<given, outer, work, inner, conf, warned>>

RenderInner ==
  /\ pc = "inner conf"
  /\ pc' = "inner rendered"
  /\ conf' = Append(conf, Interface)
  /\ UNCHANGED <<given, global, saved, outer, work, inner, warned>>

(* withChainAddr's deferred function; the file is written, or is not.      *)
EndConf ==
  /\ pc = "inner rendered"
  /\ pc' = "closing"
  /\ SwapOut
  /\ UNCHANGED <<given, outer, work, inner, conf, warned>>

(* defer n.tunnel.Close().                                                 *)
Close ==
  /\ pc \in {"closing", "failing"}
  /\ pc' = IF pc = "closing" THEN "done" ELSE "failed"
  /\ outer' = [outer EXCEPT !.state = "closed"]
  /\ UNCHANGED <<given, global, saved, work, inner, conf, warned>>

DialSteps == NoOuterDevice \/ BeginOuter \/ NewOuter \/ OuterHandshake
             \/ OuterAddress
ConfSteps == BeginConf \/ RenderOuter \/ EndOuterConf \/ RenderInner \/ EndConf
WorkSteps == WorkEnds \/ \E w \in Workers :
               InnerOpens(w) \/ InnerHandshake(w) \/ InnerCloses(w)

Next == \/ LoadAccount \/ DialSteps \/ Scan \/ Scanned \/ Speed \/ UIOver
        \/ ConfSteps \/ Close
        \/ WorkSteps /\ pc \notin {"done", "failed", "exited"}

Spec == Init /\ [][Next]_vars
-----------------------------------------------------------------------------
Own == [keys |-> "own", addr |-> Over(account.own, Fallback)]
Swapped == {"start", "new outer", "outer handshake", "conf swapped",
            "conf rendered", "inner conf", "inner rendered"}

(* The comment of withOuterKeys: the outer device's key and addresses come *)
(* straight back out.  Whichever call failed in between, the command goes  *)
(* on, or fails, with the scanning account in the globals.                 *)
GlobalsComeBack ==
  pc \notin Swapped => global = Own

(* The rest of that comment: everything else runs on the scanning account. *)
(* Every tunnel has the keys, the peer and the address of one device, the  *)
(* outer one of the outer device and the inner ones of the account.        *)
OneDeviceEach ==
  /\ outer.state # "none" =>
       /\ outer.keys = "outer" /\ outer.peer \in {"outer", "built in"}
       /\ account.outer # Absent => outer.addr = account.outer
  /\ \A w \in Workers : inner[w].state # "none" =>
       /\ inner[w].keys = "own" /\ inner[w].peer \in {"own", "built in"}
       /\ inner[w].addr = Own.addr

(* The two interfaces of a written chain are of the two devices.           *)
ConfIsOfBoth ==
  Len(conf) = 2 =>
    /\ conf[1].keys = "outer" /\ conf[2].keys = "own"
    /\ conf[1].addr = account.outer
    /\ conf[2].addr \in {Own.addr, Moved}

(* withChainAddr: two interfaces with one address handshake and then pass  *)
(* nothing.  A native chain has two addresses, or says that it has not.    *)
AddressesDiffer ==
  Len(conf) = 2 /\ ~opts.mihomo => conf[1].addr # conf[2].addr \/ warned

(* A tunnel inside the outer one is not left without it, and a command that*)
(* comes to its end has closed the outer tunnel.                           *)
OuterOutlivesInner ==
  /\ Open # {} /\ pc # "exited" => outer.state = "up"
  /\ pc \in {"done", "failed"} => outer.state # "up"
=============================================================================
