------------------------------ MODULE Register ------------------------------
(* warpscout register (runRegisterCmd of src/main.go and src/register.go): *)
(* the account file, the routes to the API, the requests that make an      *)
(* account, and the API's devices.  A request may be lost, be refused, or  *)
(* be carried out and its answer lost; the process may die at any moment.  *)
EXTENDS Naturals, Sequences

CONSTANTS Runs,        \* bound: runs of the command
          MaxDevices,  \* bound: the API refuses to register more
          Candidates   \* tunnels to try: AWG with its I1 candidates, then WG

ASSUME RegisterAssumption ==
  Runs \in Nat /\ MaxDevices \in Nat \ {0} /\ Candidates \in Nat \ {0}

NoDevice == [dev |-> 0, key |-> 0]
Blank == [main |-> NoDevice, masque |-> 0, outer |-> NoDevice]

VARIABLES
  file,       \* the account file: its state and, when "ok", the account
  server,     \* the API's devices: the keys each has had, enabled or not
  pc,         \* the next request or step; "idle" between runs
  run,        \* runs begun
  fresh,      \* -fresh
  relayOn,    \* -relay is not "none"
  route,      \* "proxy", "direct", "relay" or "tunnel"
  left,       \* tunnel candidates left, this one included
  prev,       \* the account to rotate: "existing" of the code
  acc,        \* the account being made
  slot,       \* the device at hand: "main" or "outer"
  cur,        \* the device just registered
  told,       \* what has been reported to fail in this run
  status,     \* how the last run ended: "none", "saved", "failed", "dead"
  before      \* devices of the API when the run began (history)

client == <<run, fresh, relayOn, prev, before>>
work == <<pc, route, left, acc, slot, cur, told>>
vars == <<file, server, client, work, status>>

DeviceKeys == [dev : 0 .. MaxDevices, key : Nat]
Accounts == [main : DeviceKeys, masque : 0 .. MaxDevices, outer : DeviceKeys]

(* An account that is complete names a device of the API.                  *)
TypeOK ==
  /\ file \in [state : {"missing", "broken", "ok"}, acc : Accounts]
  /\ server \in Seq([key : Nat, on : BOOLEAN]) /\ Len(server) <= MaxDevices
  /\ pc \in {"idle", "check", "tunnel", "rotate", "post", "enable",
             "masque post", "masque enrol", "truncate", "write"}
  /\ run \in 0 .. Runs /\ fresh \in BOOLEAN /\ relayOn \in BOOLEAN
  /\ route \in {"proxy", "direct", "relay", "tunnel"}
  /\ left \in 0 .. Candidates
  /\ prev \in Accounts /\ acc \in Accounts
  /\ slot \in {"main", "outer"} /\ cur \in 0 .. MaxDevices
  /\ told \subseteq {"rotation", "masque", "outer"}
  /\ status \in {"none", "saved", "failed", "dead"}
  /\ before \in 0 .. MaxDevices
  /\ pc \in {"truncate", "write"} => acc.main.dev \in 1 .. Len(server)

(* No file, a damaged one, one without id and token, or an account made    *)
(* before there were MASQUE and outer devices.                             *)
Init ==
  /\ \/ /\ server = <<>>
        /\ file \in [state : {"missing", "broken", "ok"}, acc : {Blank}]
     \/ /\ server = <<[key |-> 0, on |-> TRUE]>>
        /\ file = [state |-> "ok",
                   acc |-> [Blank EXCEPT !.main = [dev |-> 1, key |-> 0]]]
  /\ pc = "idle" /\ run = 0 /\ fresh = FALSE /\ relayOn = FALSE
  /\ route = "direct" /\ left = 0 /\ prev = Blank /\ acc = Blank
  /\ slot = "main" /\ cur = 0 /\ told = {} /\ status = "none"
  /\ before = Len(server)
-----------------------------------------------------------------------------
(* Mutated form of FirstCall: whatever there is, a fresh registration.     *)
FirstCallPost(device) == "post"

(* mintWGAccount rotates only a device that has an id and a token.         *)
FirstCall(device) == IF device.dev = 0 THEN "post" ELSE "rotate"

(* mintAccount begins over the route at hand.                              *)
BeginMint(existing) ==
  /\ slot' = "main" /\ acc' = Blank /\ cur' = 0
  /\ pc' = FirstCall(existing.main)

(* Mutated form of accountToRotate: what cannot be read is not there.      *)
accountToRotateLax(f) == [ok |-> TRUE, acc |-> file.acc]

(* accountToRotate: only a missing file means that there is nothing to     *)
(* rotate; -fresh does not look.                                           *)
accountToRotate(f) ==
  [ok  |-> f \/ file.state # "broken",
   acc |-> IF f THEN Blank ELSE file.acc]

Start(f, relays, via) ==
  /\ pc = "idle" /\ run < Runs
  /\ run' = run + 1 /\ fresh' = f /\ relayOn' = relays
  /\ before' = Len(server) /\ told' = {} /\ left' = 0
  /\ route' = via
  /\ LET found == accountToRotate(f) IN
     /\ prev' = found.acc
     /\ IF ~found.ok THEN /\ pc' = "idle" /\ status' = "failed"
                          /\ UNCHANGED <<acc, slot, cur>>
        ELSE /\ status' = "none"
             /\ IF via = "proxy" THEN BeginMint(found.acc)
                ELSE pc' = "check" /\ UNCHANGED <<acc, slot, cur>>
  /\ UNCHANGED <<file, server>>

GoTunnels == /\ route' = "tunnel" /\ left' = Candidates /\ pc' = "tunnel"
             /\ UNCHANGED <<acc, slot, cur>>

(* apiReachable: the direct route, else the relay, else the tunnels.       *)
Check(reachable) ==
  /\ pc = "check"
  /\ CASE reachable -> BeginMint(prev) /\ UNCHANGED <<route, left>>
       [] ~reachable /\ relayOn ->
            BeginMint(prev) /\ route' = "relay" /\ UNCHANGED left
       [] OTHER -> GoTunnels
  /\ UNCHANGED <<file, server, client, told, status>>

(* Mutated form of RouteFails: the last candidate is tried over and over.  *)
RouteFailsOn ==
  CASE route = "relay" -> GoTunnels /\ UNCHANGED status
    [] route = "tunnel" ->
         /\ left' = IF left > 1 THEN left - 1 ELSE left
         /\ pc' = "tunnel"
         /\ UNCHANGED <<route, acc, slot, cur, status>>
    [] OTHER -> /\ pc' = "idle" /\ status' = "failed"
                /\ UNCHANGED <<route, left, acc, slot, cur>>

(* Nothing came of this route.  After the relay come the tunnels, after a  *)
(* tunnel the next candidate; the proxy and the direct route are final.    *)
RouteFails ==
  CASE route = "relay" -> GoTunnels /\ UNCHANGED status
    [] route = "tunnel" /\ left > 1 ->
         /\ left' = left - 1 /\ pc' = "tunnel"
         /\ UNCHANGED <<route, acc, slot, cur, status>>
    [] OTHER -> /\ pc' = "idle" /\ status' = "failed"
                /\ UNCHANGED <<route, left, acc, slot, cur>>

(* registerViaTunnel: the first endpoint that answers carries the requests,*)
(* or none does within the budget.                                         *)
Tunnel(up) ==
  /\ pc = "tunnel"
  /\ IF up THEN BeginMint(prev) /\ UNCHANGED <<route, left, status>> ELSE RouteFails
  /\ UNCHANGED <<file, server, client, told>>

-----------------------------------------------------------------------------
(* doJSON.  "ok": carried out and answered; "half": carried out, but the   *)
(* answer is lost or makes no sense; "lost": not carried out.              *)
Answers == {"ok", "half", "lost"}

MayRegister(ans) == ans # "lost" => Len(server) < MaxDevices
Registers(ans) == server' = IF ans = "lost" THEN server
                            ELSE Append(server, [key |-> 0, on |-> FALSE])
Enables(ans) == server' = IF ans = "lost" THEN server
                          ELSE [server EXCEPT ![cur].on = TRUE]

(* The device of the slot is done: the MASQUE device is next, or the end.  *)
SlotDone(device) ==
  /\ IF slot = "main"
     THEN acc' = [acc EXCEPT !.main = device] /\ pc' = "masque post"
     ELSE acc' = [acc EXCEPT !.outer = device] /\ pc' = "truncate"
  /\ UNCHANGED <<route, left, slot, status, told>>

(* Without a main device the route is of no use; without an outer one the  *)
(* old one is kept, and that is said.                                      *)
SlotFails ==
  IF slot = "main" THEN RouteFails /\ UNCHANGED told
  ELSE /\ acc' = [acc EXCEPT !.outer = prev.outer]
       /\ pc' = "truncate" /\ told' = told \cup {"outer"}
       /\ UNCHANGED <<route, left, slot, status>>

SlotDevice == IF slot = "main" THEN prev.main ELSE prev.outer

(* rotateKey: PATCH with a new key.  If it fails, a fresh registration.    *)
Rotate(ans) ==
  /\ pc = "rotate"
  /\ LET d == SlotDevice.dev IN
     /\ server' = IF ans = "lost" THEN server
                  ELSE [server EXCEPT ![d].key = @ + 1]
     /\ IF ans = "ok" THEN SlotDone([dev |-> d, key |-> server[d].key + 1])
        ELSE /\ pc' = "post"
             /\ told' = IF slot = "main" THEN told \cup {"rotation"} ELSE told
             /\ UNCHANGED <<route, left, acc, slot, status>>
  /\ UNCHANGED <<file, client, cur>>

(* registerWARP: POST ...                                                  *)
Post(ans) ==
  /\ pc = "post" /\ MayRegister(ans)
  /\ Registers(ans)
  /\ IF ans = "ok"
     THEN /\ cur' = Len(server) + 1 /\ pc' = "enable"
          /\ UNCHANGED <<route, left, acc, slot, status, told>>
     ELSE SlotFails /\ cur' = 0
  /\ UNCHANGED <<file, client>>

(* ... then PATCH warp_enabled.                                            *)
Enable(ans) ==
  /\ pc = "enable"
  /\ Enables(ans)
  /\ IF ans = "ok" THEN SlotDone([dev |-> cur, key |-> 0]) ELSE SlotFails
  /\ cur' = 0
  /\ UNCHANGED <<file, client>>

(* mintMasque, done with: the new device, or the old one with a warning.   *)
MasqueDone(device) ==
  /\ acc' = [acc EXCEPT !.masque = device]
  /\ slot' = "outer" /\ pc' = FirstCall(prev.outer)

MasqueFails == MasqueDone(prev.masque) /\ told' = told \cup {"masque"}

(* registerMasque: a new device every time, then its enrolment.            *)
MasquePost(ans) ==
  /\ pc = "masque post" /\ MayRegister(ans)
  /\ Registers(ans)
  /\ IF ans = "ok"
     THEN /\ cur' = Len(server) + 1 /\ pc' = "masque enrol"
          /\ UNCHANGED <<acc, slot, told>>
     ELSE MasqueFails /\ cur' = 0
  /\ UNCHANGED <<file, client, route, left, status>>

(* Mutated form of MasqueEnrol: the device counts once it is registered.   *)
MasqueEnrolAnyway(ans) ==
  /\ pc = "masque enrol"
  /\ Enables(ans)
  /\ MasqueDone(cur) /\ UNCHANGED told
  /\ cur' = 0
  /\ UNCHANGED <<file, client, route, left, status>>

MasqueEnrol(ans) ==
  /\ pc = "masque enrol"
  /\ Enables(ans)
  /\ IF ans = "ok" THEN MasqueDone(cur) /\ UNCHANGED told ELSE MasqueFails
  /\ cur' = 0
  /\ UNCHANGED <<file, client, route, left, status>>

-----------------------------------------------------------------------------
RunEndsWith(how) ==
  /\ pc' = "idle" /\ status' = how
  /\ UNCHANGED <<server, client, route, left, acc, slot, cur, told>>

(* os.WriteFile truncates the file, or cannot open it ...                  *)
Truncate ==
  /\ pc = "truncate"
  /\ \/ /\ file' = [state |-> "broken", acc |-> Blank]
        /\ pc' = "write"
        /\ UNCHANGED <<server, client, route, left, acc, slot, cur, told, status>>
     \/ UNCHANGED file /\ RunEndsWith("failed")

(* ... and writes the account, or part of it.                              *)
Write ==
  /\ pc = "write"
  /\ \/ file' = [state |-> "ok", acc |-> acc] /\ RunEndsWith("saved")
     \/ UNCHANGED file /\ RunEndsWith("failed")

(* The process is killed: register handles no signal.                      *)
Die ==
  /\ pc # "idle"
  /\ UNCHANGED file /\ RunEndsWith("dead")

(* The user follows the advice: fix or move the file.                      *)
MoveAway ==
  /\ pc = "idle" /\ file.state = "broken"
  /\ file' = [state |-> "missing", acc |-> Blank]
  /\ status' = "none"
  /\ UNCHANGED <<server, client, route, left, acc, slot, cur, told, pc>>

Go == \/ \E up \in BOOLEAN : Check(up) \/ Tunnel(up)
      \/ \E ans \in Answers : \/ Rotate(ans) \/ Post(ans) \/ Enable(ans)
                              \/ MasquePost(ans) \/ MasqueEnrol(ans)
      \/ Truncate \/ Write

Next == \/ Go \/ Die \/ MoveAway
        \/ \E f, relays \in BOOLEAN, via \in {"proxy", "direct"} :
             Start(f, relays, via)

(* Every request has a timeout, so a run under way goes on.                *)
Spec == Init /\ [][Next]_vars /\ WF_vars(Go)

-----------------------------------------------------------------------------
Works(device) == /\ device.dev \in 1 .. Len(server)
                 /\ server[device.dev] = [key |-> device.key, on |-> TRUE]

(* What a run has just saved works: the API has the very key that is in the*)
(* file and has enabled the device.  Of the MASQUE and the outer device it *)
(* does too, or the run has said that they will not.                       *)
SavedWorks ==
  status = "saved" =>
    /\ Works(file.acc.main)
    /\ "outer" \in told \/ Works(file.acc.outer)
    /\ "masque" \in told \/ Works([dev |-> file.acc.masque, key |-> 0])

(* A brand-new account replaces one that could be rotated in two cases     *)
(* only: -fresh, and a rotation that failed.                               *)
AccountKept ==
  status = "saved" /\ prev.main.dev # 0 =>
    file.acc.main.dev = prev.main.dev \/ "rotation" \in told

(* The comment of accountToRotate: a file that is there but cannot be used *)
(* is not overwritten by a run that was asked to rotate it, in however many*)
(* runs, and however the last one died.                                    *)
DamagedFileStays ==
  [][file.state = "broken" /\ pc = "idle" /\ pc' # "idle" => fresh']_vars

(* A run ends: whatever fails, a next route or none is left to try.        *)
RunEnds == pc # "idle" ~> pc = "idle"

(* The help: the id and token are reused to rotate the keys instead of     *)
(* burning a new registration.                                             *)
RotationBurnsNothing ==
  status = "saved" /\ prev.main.dev # 0 /\ file.acc.main.dev = prev.main.dev
  /\ prev.masque # 0 /\ prev.outer.dev # 0 /\ told = {}
    => Len(server) = before
=============================================================================
