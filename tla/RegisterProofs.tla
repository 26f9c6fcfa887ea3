--------------------------- MODULE RegisterProofs ---------------------------
(* What register saves works, for every number of runs and of devices that *)
(* the API has, whatever requests fail and wherever a run dies.            *)
EXTENDS Register, TLAPS

Devices == [key : Nat, on : BOOLEAN]

-----------------------------------------------------------------------------
(* What an account says of the devices s of the API: a device it names is  *)
(* one that the API has enabled, and it names none twice.                  *)
Known(s, d) == d # 0 => d \in 1 .. Len(s) /\ s[d].on
Has(s, device) ==
  /\ device.dev \in 1 .. Len(s)
  /\ s[device.dev] = [key |-> device.key, on |-> TRUE]
Apart(d, e) == d # 0 => d # e

Sound(s, a) ==
  /\ Known(s, a.main.dev) /\ Known(s, a.masque) /\ Known(s, a.outer.dev)
  /\ Apart(a.main.dev, a.masque) /\ Apart(a.main.dev, a.outer.dev)
  /\ Apart(a.masque, a.outer.dev)

(* The API has done something: no device is gone or disabled, and only e   *)
(* may have another key.                                                   *)
Steady(s, t, e) ==
  \A d \in 1 .. Len(s) :
    /\ d \in 1 .. Len(t)
    /\ s[d].on => t[d].on /\ (d # e => t[d] = s[d])

-----------------------------------------------------------------------------
(* How far a run has come.                                                 *)
Minting == pc \in {"rotate", "post", "enable"}
AllMade == pc \in {"truncate", "write"}
MasqueMade == AllMade \/ (Minting /\ slot = "outer")
AtMasque == pc \in {"masque post", "masque enrol"}
MainMade == MasqueMade \/ AtMasque
JustRegistered == pc \in {"enable", "masque enrol"}

(* The device just registered is not enabled yet, hence in no account.     *)
AtCall ==
  /\ pc = "rotate" => SlotDevice.dev # 0
  /\ pc \in {"post", "enable"} /\ slot = "main" =>
       prev.main.dev = 0 \/ "rotation" \in told
  /\ JustRegistered =>
       cur \in 1 .. Len(server) /\ server[cur] = [key |-> 0, on |-> FALSE]

MainInv ==
  MainMade =>
    /\ Has(server, acc.main)
    /\ acc.main.dev # prev.masque /\ acc.main.dev # prev.outer.dev
    /\ prev.main.dev # 0 =>
         acc.main.dev = prev.main.dev \/ "rotation" \in told

MasqueInv ==
  MasqueMade =>
    /\ Known(server, acc.masque) /\ acc.main.dev # acc.masque
    /\ Apart(acc.masque, prev.outer.dev)
    /\ "masque" \in told \/ Has(server, [dev |-> acc.masque, key |-> 0])

OuterInv ==
  AllMade =>
    /\ Known(server, acc.outer.dev) /\ acc.main.dev # acc.outer.dev
    /\ Apart(acc.masque, acc.outer.dev)
    /\ "outer" \in told \/ Has(server, acc.outer)

RunInv == AtCall /\ MainInv /\ MasqueInv /\ OuterInv

SavedInv == (status = "saved" => pc = "idle") /\ SavedWorks /\ AccountKept

RegInv ==
  /\ TypeOK
  /\ Sound(server, prev) /\ Sound(server, file.acc)
  /\ RunInv /\ SavedInv

-----------------------------------------------------------------------------
(* What is known of a device outlasts what the API does meanwhile.         *)
LEMMA KnownStays ==
  ASSUME NEW s, NEW t, NEW e, Steady(s, t, e), NEW d, Known(s, d)
  PROVE  Known(t, d)
  BY DEF Known, Steady

(* A device that the API has is one.                                       *)
LEMMA Positive ==
  ASSUME NEW s \in Seq(Devices), NEW device, Has(s, device)
  PROVE  device.dev # 0
<1>1. Len(s) \in Nat
      OBVIOUS
<1> QED  BY <1>1 DEF Has

(* So does a key that is not the one changed ...                           *)
LEMMA HasStays ==
  ASSUME NEW s, NEW t, NEW e, Steady(s, t, e), NEW device, Has(s, device),
         device.dev # e
  PROVE  Has(t, device)
<1>1. /\ device.dev \in 1 .. Len(s)
      /\ s[device.dev] = [key |-> device.key, on |-> TRUE]
      BY DEF Has
<1>2. s[device.dev].on
      BY <1>1
<1> QED  BY <1>1, <1>2 DEF Has, Steady

(* ... and what an account says of its devices.                            *)
LEMMA SoundStays ==
  ASSUME NEW s, NEW t, NEW e, Steady(s, t, e), NEW a, Sound(s, a)
  PROVE  Sound(t, a)
  BY KnownStays DEF Sound

(* Nothing done is steady.                                                 *)
LEMMA SteadyAsIs ==
  ASSUME NEW s, NEW e  PROVE Steady(s, s, e)
  BY DEF Steady

(* A registration adds a device that is not enabled.                       *)
LEMMA Registered ==
  ASSUME NEW s \in Seq(Devices), NEW e,
         NEW t, t = Append(s, [key |-> 0, on |-> FALSE])
  PROVE  /\ t \in Seq(Devices) /\ Len(t) = Len(s) + 1 /\ Steady(s, t, e)
         /\ Len(s) + 1 \in 1 .. Len(t)
         /\ t[Len(s) + 1] = [key |-> 0, on |-> FALSE]
<1>1. [key |-> 0, on |-> FALSE] \in Devices
      BY DEF Devices
<1>2. /\ t \in Seq(Devices) /\ Len(s) \in Nat /\ Len(t) = Len(s) + 1
      /\ t[Len(s) + 1] = [key |-> 0, on |-> FALSE]
      /\ \A d \in 1 .. Len(s) : t[d] = s[d]
      BY <1>1
<1>3. \A d \in 1 .. Len(s) : d \in 1 .. Len(t)
      BY <1>2
<1> QED  BY <1>2, <1>3 DEF Steady

(* To enable a device is to leave its key.                                 *)
LEMMA TurnedOn ==
  ASSUME NEW r \in Devices
  PROVE  [r EXCEPT !.on = TRUE] = [key |-> r.key, on |-> TRUE]
<1> DEFINE q == [r EXCEPT !.on = TRUE]
<1>1. q \in Devices
      BY DEF Devices
<1>2. q.key = r.key /\ q.on = TRUE
      BY DEF Devices
<1>3. q = [key |-> q.key, on |-> q.on]
  <2> HIDE DEF q
  <2> QED  BY <1>1 DEF Devices
<1> QED  BY <1>2, <1>3

(* A PATCH leaves the one device that it changes enabled.                  *)
LEMMA Patched ==
  ASSUME NEW s \in Seq(Devices), NEW d \in 1 .. Len(s), NEW new \in Devices,
         new.on = TRUE
  PROVE  /\ [s EXCEPT ![d] = new] \in Seq(Devices)
         /\ Len([s EXCEPT ![d] = new]) = Len(s)
         /\ [s EXCEPT ![d] = new][d] = new
         /\ Steady(s, [s EXCEPT ![d] = new], d)
<1> DEFINE t == [s EXCEPT ![d] = new]
<1>1. /\ t \in Seq(Devices) /\ Len(t) = Len(s) /\ t[d] = new
      /\ \A k \in 1 .. Len(s) : k # d => t[k] = s[k]
      OBVIOUS
<1> HIDE DEF t
<1>2. Steady(s, t, d)
      BY <1>1 DEF Steady
<1> QED  BY <1>1, <1>2 DEF t

(* ... and when it was not enabled before, nobody knows it.                *)
LEMMA PatchedNew ==
  ASSUME NEW s, NEW t, NEW d, Steady(s, t, d), d \in 1 .. Len(s) => ~s[d].on,
         NEW e
  PROVE  Steady(s, t, e)
  BY DEF Steady

-----------------------------------------------------------------------------
(* What a step has to show when the account file is left alone: the types  *)
(* of what it changes, an API that is steady, and what the run has made.   *)
LEMMA RunGoesOn ==
  ASSUME RegInv, UNCHANGED <<file, client>>,
         server' \in Seq(Devices), Len(server') <= MaxDevices,
         NEW e, Steady(server, server', e),
         pc' \in {"idle", "check", "tunnel", "rotate", "post", "enable",
                  "masque post", "masque enrol", "truncate", "write"},
         route' \in {"proxy", "direct", "relay", "tunnel"},
         left' \in 0 .. Candidates, acc' \in Accounts,
         slot' \in {"main", "outer"}, cur' \in 0 .. MaxDevices,
         told' \subseteq {"rotation", "masque", "outer"},
         status' \in {"none", "failed", "dead"}, RunInv'
  PROVE  RegInv'
<1>1. TypeOK'
  <2>1. AllMade' => acc'.main.dev \in 1 .. Len(server')
        BY DEF RunInv, MainInv, MainMade, MasqueMade, Has
  <2> QED  BY <2>1 DEF RegInv, TypeOK, client, AllMade, Devices
<1>2. Sound(server, prev)' /\ Sound(server, file.acc)'
      BY SoundStays DEF RegInv, client
<1>3. SavedInv'
      BY DEF SavedInv, SavedWorks, AccountKept
<1> QED  BY <1>1, <1>2, <1>3 DEF RegInv

(* A run that is not at a request has nothing to show.                     *)
LEMMA NothingMade ==
  ASSUME pc' \in {"idle", "check", "tunnel"}
  PROVE  RunInv'
  BY DEF RunInv, AtCall, MainInv, MasqueInv, OuterInv, MainMade, MasqueMade,
         AllMade, Minting, AtMasque, JustRegistered

(* ... nor has one that begins with the main device.                       *)
LEMMA MintBegins ==
  ASSUME BeginMint(prev'), TypeOK
  PROVE  /\ RunInv'
         /\ pc' \in {"rotate", "post"} /\ slot' = "main" /\ acc' \in Accounts
         /\ cur' \in 0 .. MaxDevices
<1>1. /\ slot' = "main" /\ acc' = Blank /\ cur' = 0
      /\ \/ pc' = "post" /\ prev'.main.dev = 0
         \/ pc' = "rotate" /\ prev'.main.dev # 0
      BY DEF BeginMint, FirstCall
<1>2. RunInv'
      BY <1>1
      DEF RunInv, AtCall, MainInv, MasqueInv, OuterInv, MainMade, MasqueMade,
          AllMade, Minting, AtMasque, JustRegistered, SlotDevice
<1>3. Blank \in Accounts /\ 0 \in 0 .. MaxDevices
      BY RegisterAssumption DEF Blank, Accounts, NoDevice, DeviceKeys
<1> QED  BY <1>1, <1>2, <1>3

(* What is left of the invariant for a step to use.                        *)
LEMMA RegParts ==
  ASSUME RegInv
  PROVE  /\ server \in Seq(Devices) /\ Len(server) \in Nat
         /\ Len(server) <= MaxDevices
         /\ prev \in Accounts /\ acc \in Accounts
         /\ route \in {"proxy", "direct", "relay", "tunnel"}
         /\ left \in 0 .. Candidates /\ slot \in {"main", "outer"}
         /\ cur \in 0 .. MaxDevices
         /\ told \subseteq {"rotation", "masque", "outer"}
         /\ pc # "idle" => status \in {"none", "failed", "dead"}
         /\ Sound(server, prev) /\ AtCall
         /\ MainInv /\ MasqueInv /\ OuterInv
<1>1. /\ server \in Seq(Devices) /\ Len(server) <= MaxDevices
      /\ prev \in Accounts /\ acc \in Accounts
      /\ route \in {"proxy", "direct", "relay", "tunnel"}
      /\ left \in 0 .. Candidates /\ slot \in {"main", "outer"}
      /\ cur \in 0 .. MaxDevices
      /\ told \subseteq {"rotation", "masque", "outer"}
      BY DEF RegInv, TypeOK, Devices
<1>2. Len(server) \in Nat
      BY <1>1
<1>3. pc # "idle" => status \in {"none", "failed", "dead"}
      BY DEF RegInv, TypeOK, SavedInv
<1> QED  BY <1>1, <1>2, <1>3 DEF RegInv, RunInv

(* The devices of the account to rotate.                                   *)
LEMMA SlotKnown ==
  ASSUME RegInv
  PROVE  /\ SlotDevice \in DeviceKeys /\ SlotDevice.dev \in 0 .. MaxDevices
         /\ Known(server, SlotDevice.dev)
         /\ prev.outer \in DeviceKeys /\ prev.masque \in 0 .. MaxDevices
  BY RegParts DEF SlotDevice, Accounts, DeviceKeys, Sound

-----------------------------------------------------------------------------
(* A device that the API has enabled completes its slot.                   *)
LEMMA SlotDoneKeeps ==
  ASSUME RegInv, UNCHANGED <<file, client>>, Minting,
         NEW device \in DeviceKeys, SlotDone(device),
         server' \in Seq(Devices), Len(server') <= MaxDevices,
         Steady(server, server', device.dev), Has(server', device),
         cur' \in 0 .. MaxDevices,
         device.dev # prev.masque \/ slot = "outer",
         device.dev # prev.outer.dev \/ slot = "outer",
         slot = "main" /\ prev.main.dev # 0 =>
           device.dev = prev.main.dev \/ "rotation" \in told,
         slot = "outer" => device.dev # acc.main.dev /\ device.dev # acc.masque
  PROVE  RegInv'
<1>1. /\ prev' = prev /\ UNCHANGED <<route, left, slot, status, told>>
      /\ pc # "idle" /\ acc \in Accounts
      /\ slot \in {"main", "outer"} /\ status \in {"none", "failed", "dead"}
      BY RegParts DEF client, SlotDone, Minting
<1>2. /\ MainInv /\ MasqueInv
      BY RegParts
<1>3. CASE slot = "main"
  <2>1. /\ acc' = [acc EXCEPT !.main = device] /\ pc' = "masque post"
        /\ acc' \in Accounts /\ acc'.main = device
        BY <1>1, <1>3 DEF SlotDone, Accounts
  <2>2. RunInv'
        BY <1>1, <1>3, <2>1
        DEF RunInv, AtCall, MainInv, MasqueInv, OuterInv, MainMade, MasqueMade,
            AllMade, Minting, AtMasque, JustRegistered
  <2> QED  BY <1>1, <2>1, <2>2, RegParts, RunGoesOn
<1>4. CASE slot = "outer"
  <2>1. /\ acc' = [acc EXCEPT !.outer = device] /\ pc' = "truncate"
        /\ acc' \in Accounts /\ acc'.outer = device
        /\ acc'.main = acc.main /\ acc'.masque = acc.masque
        BY <1>1, <1>4 DEF SlotDone, Accounts
  <2>2. /\ Has(server, acc.main)
        /\ acc.main.dev # prev.masque /\ acc.main.dev # prev.outer.dev
        /\ prev.main.dev # 0 =>
             acc.main.dev = prev.main.dev \/ "rotation" \in told
        /\ Known(server, acc.masque) /\ acc.main.dev # acc.masque
        /\ Apart(acc.masque, prev.outer.dev)
        /\ "masque" \in told \/ Has(server, [dev |-> acc.masque, key |-> 0])
        BY <1>2, <1>4 DEF MainInv, MasqueInv, MainMade, MasqueMade
  <2>3. /\ Has(server', acc.main) /\ Known(server', acc.masque)
        /\ "masque" \in told \/ Has(server', [dev |-> acc.masque, key |-> 0])
        BY <1>4, <2>2, HasStays, KnownStays
  <2>4. Known(server', device.dev)
        BY DEF Known, Has
  <2>5. RunInv'
        BY <1>1, <1>4, <2>1, <2>2, <2>3, <2>4
        DEF RunInv, AtCall, JustRegistered, MainInv, MasqueInv, OuterInv, Apart
  <2> QED  BY <1>1, <2>1, <2>5, RegParts, RunGoesOn
<1> QED  BY <1>1, <1>3, <1>4

(* A slot that fails costs the route, or leaves the outer device as it was.*)
LEMMA SlotFailsKeeps ==
  ASSUME RegInv, UNCHANGED <<file, client>>, Minting, SlotFails,
         server' \in Seq(Devices), Len(server') <= MaxDevices,
         Steady(server, server', 0), cur' \in 0 .. MaxDevices
  PROVE  RegInv'
<1>1. /\ prev' = prev /\ pc # "idle" /\ acc \in Accounts /\ prev \in Accounts
      /\ slot \in {"main", "outer"} /\ status \in {"none", "failed", "dead"}
      /\ route \in {"proxy", "direct", "relay", "tunnel"}
      /\ left \in 0 .. Candidates
      /\ told \subseteq {"rotation", "masque", "outer"}
      BY RegParts DEF client, Minting
<1>2. CASE slot = "main"
  <2>1. /\ pc' \in {"tunnel", "idle"} /\ told' = told
        /\ route' \in {"proxy", "direct", "relay", "tunnel"}
        /\ left' \in 0 .. Candidates /\ UNCHANGED <<acc, slot>>
        /\ status' \in {status, "failed"}
        BY <1>1, <1>2, RegisterAssumption DEF SlotFails, RouteFails, GoTunnels
  <2> QED  BY <1>1, <2>1, NothingMade, RunGoesOn
<1>3. CASE slot = "outer"
  <2>1. /\ acc' = [acc EXCEPT !.outer = prev.outer] /\ pc' = "truncate"
        /\ told' = told \cup {"outer"} /\ UNCHANGED <<route, left, slot, status>>
        /\ acc' \in Accounts /\ acc'.outer = prev.outer
        /\ acc'.main = acc.main /\ acc'.masque = acc.masque
        BY <1>1, <1>3 DEF SlotFails, Accounts
  <2>2. /\ Has(server, acc.main)
        /\ acc.main.dev # prev.masque /\ acc.main.dev # prev.outer.dev
        /\ prev.main.dev # 0 =>
             acc.main.dev = prev.main.dev \/ "rotation" \in told
        /\ Known(server, acc.masque) /\ acc.main.dev # acc.masque
        /\ Apart(acc.masque, prev.outer.dev)
        /\ "masque" \in told \/ Has(server, [dev |-> acc.masque, key |-> 0])
        BY <1>3, RegParts DEF MainInv, MasqueInv, MainMade, MasqueMade
  <2>3. Known(server, prev.outer.dev)
        BY RegParts DEF Sound
  <2>4. 0 # acc.main.dev /\ (acc.masque # 0 \/ Known(server', acc.masque))
        BY <2>2, RegParts DEF Has, Known
  <2>5. /\ Has(server', acc.main) /\ Known(server', acc.masque)
        /\ "masque" \in told \/ Has(server', [dev |-> acc.masque, key |-> 0])
        /\ Known(server', prev.outer.dev)
    <3>1. ASSUME NEW n, Has(server, [dev |-> n, key |-> 0])
          PROVE  n # 0
          BY <3>1, RegParts DEF Has
    <3> QED  BY <2>2, <2>3, <2>4, <3>1, HasStays, KnownStays
  <2>6. RunInv'
        BY <1>1, <1>3, <2>1, <2>2, <2>5
        DEF RunInv, AtCall, JustRegistered, MainInv, MasqueInv, OuterInv
  <2> QED  BY <1>1, <2>1, <2>6, RunGoesOn
<1> QED  BY <1>1, <1>2, <1>3

(* The MASQUE device is the new one, or the old one with a warning.        *)
LEMMA MasqueKeeps ==
  ASSUME RegInv, UNCHANGED <<file, client, route, left, status>>,
         AtMasque,
         NEW m \in 0 .. MaxDevices, MasqueDone(m),
         server' \in Seq(Devices), Len(server') <= MaxDevices,
         Steady(server, server', 0), cur' \in 0 .. MaxDevices,
         told \subseteq told', told' \subseteq {"rotation", "masque", "outer"},
         Known(server', m), m # acc.main.dev, Apart(m, prev.outer.dev),
         "masque" \in told' \/ Has(server', [dev |-> m, key |-> 0])
  PROVE  RegInv'
<1>1. /\ prev' = prev /\ acc \in Accounts /\ status \in {"none", "failed", "dead"}
      BY RegParts DEF client, AtMasque
<1>2. /\ acc' = [acc EXCEPT !.masque = m] /\ slot' = "outer"
      /\ acc' \in Accounts /\ acc'.masque = m /\ acc'.main = acc.main
      /\ \/ pc' = "post" /\ prev.outer.dev = 0
         \/ pc' = "rotate" /\ prev.outer.dev # 0
      BY <1>1 DEF MasqueDone, FirstCall, Accounts
<1>3. /\ Has(server, acc.main)
      /\ acc.main.dev # prev.masque /\ acc.main.dev # prev.outer.dev
      /\ prev.main.dev # 0 =>
           acc.main.dev = prev.main.dev \/ "rotation" \in told
      BY RegParts DEF MainInv, MainMade
<1>4. Has(server', acc.main)
  <2>1. acc.main.dev # 0
        BY <1>3, RegParts, Positive
  <2> QED  BY <1>3, <2>1, HasStays
<1>5. RunInv'
      BY <1>1, <1>2, <1>3, <1>4
      DEF RunInv, AtCall, JustRegistered, MainInv, MasqueInv, OuterInv, AllMade, SlotDevice
<1> QED  BY <1>1, <1>2, <1>5, RegParts, RunGoesOn

(* What the run has made stays made.                                       *)
LEMMA MainStays ==
  ASSUME RegInv, MainMade, UNCHANGED <<acc, prev>>, told \subseteq told',
         NEW e, Steady(server, server', e), e # acc.main.dev \/ e = 0
  PROVE  MainInv'
<1>1. /\ Has(server, acc.main)
      /\ acc.main.dev # prev.masque /\ acc.main.dev # prev.outer.dev
      /\ prev.main.dev # 0 =>
           acc.main.dev = prev.main.dev \/ "rotation" \in told
      BY RegParts DEF MainInv
<1>2. acc.main.dev # 0
      BY <1>1, RegParts, Positive
<1>3. Has(server', acc.main)
      BY <1>1, <1>2, HasStays
<1> QED  BY <1>1, <1>3 DEF MainInv

LEMMA MasqueStays ==
  ASSUME RegInv, MasqueMade, UNCHANGED <<acc, prev>>, told \subseteq told',
         NEW e, Steady(server, server', e), e # acc.masque \/ e = 0
  PROVE  MasqueInv'
<1>1. /\ Known(server, acc.masque) /\ acc.main.dev # acc.masque
      /\ Apart(acc.masque, prev.outer.dev)
      /\ "masque" \in told \/ Has(server, [dev |-> acc.masque, key |-> 0])
      BY RegParts DEF MasqueInv
<1>2. Known(server', acc.masque)
      BY <1>1, KnownStays
<1>3. "masque" \in told \/ Has(server', [dev |-> acc.masque, key |-> 0])
  <2>1. CASE Has(server, [dev |-> acc.masque, key |-> 0])
    <3>1. [dev |-> acc.masque, key |-> 0].dev # 0
          BY <2>1, RegParts, Positive
    <3> QED  BY <2>1, <3>1, HasStays
  <2> QED  BY <1>1, <2>1
<1> QED  BY <1>1, <1>2, <1>3 DEF MasqueInv
-----------------------------------------------------------------------------
(* The steps of the routes: nothing is asked of the API.                   *)
LEMMA RoutesKept ==
  ASSUME RegInv,
         NEW up \in BOOLEAN, Check(up) \/ Tunnel(up)
  PROVE  RegInv'
<1>1. /\ UNCHANGED <<file, server, client, told>> /\ prev' = prev
      /\ pc # "idle" /\ TypeOK
      /\ route \in {"proxy", "direct", "relay", "tunnel"}
      /\ left \in 0 .. Candidates /\ acc \in Accounts
      /\ slot \in {"main", "outer"} /\ cur \in 0 .. MaxDevices
      /\ status \in {"none", "failed", "dead"}
      /\ told \subseteq {"rotation", "masque", "outer"}
      /\ server \in Seq(Devices) /\ Len(server) <= MaxDevices
      /\ Steady(server, server, 0)
      BY RegParts, SteadyAsIs DEF Check, Tunnel, client, RegInv
<1>2. CASE /\ BeginMint(prev) /\ left' = left /\ status' = status
           /\ route' \in {route, "relay"}
  <2>1. /\ RunInv' /\ pc' \in {"rotate", "post"} /\ slot' = "main"
        /\ acc' \in Accounts /\ cur' \in 0 .. MaxDevices
        BY <1>1, <1>2, MintBegins
  <2> QED  BY <1>1, <1>2, <2>1, RunGoesOn
<1>3. CASE /\ pc' \in {"tunnel", "idle"} /\ left' \in 0 .. Candidates
           /\ route' \in {route, "tunnel"} /\ UNCHANGED <<acc, slot, cur>>
           /\ status' \in {status, "failed"}
      BY <1>1, <1>3, NothingMade, RunGoesOn
<1>4. CASE Check(up)
      BY <1>2, <1>3, <1>4, RegisterAssumption DEF Check, GoTunnels
<1>5. CASE Tunnel(up)
  <2>1. CASE up
        BY <1>2, <1>5, <2>1 DEF Tunnel
  <2>2. CASE ~up
    <3>1. RouteFails /\ cur' = cur
          BY <1>5, <2>2 DEF Tunnel, RouteFails, GoTunnels
    <3> QED  BY <1>1, <1>3, <3>1, RegisterAssumption DEF RouteFails, GoTunnels
  <2> QED  BY <2>1, <2>2
<1> QED  BY <1>4, <1>5

(* A rotation.                                                             *)
LEMMA RotateKept ==
  ASSUME RegInv, NEW ans \in Answers, Rotate(ans)
  PROVE  RegInv'
<1> DEFINE d == SlotDevice.dev
           new == [key |-> server[d].key + 1, on |-> server[d].on]
<1>1. /\ pc = "rotate" /\ Minting /\ UNCHANGED <<file, client, cur>>
      /\ prev' = prev
      BY DEF Rotate, Minting, client
<1>2. /\ server \in Seq(Devices) /\ Len(server) <= MaxDevices
      /\ d \in 1 .. Len(server) /\ server[d].on
      /\ d \in 0 .. MaxDevices
      BY <1>1, RegParts, SlotKnown DEF AtCall, Known
<1>3. server[d] \in Devices
      BY <1>2
<1>4. /\ new \in Devices /\ new.key = server[d].key + 1 /\ new.on = TRUE
      /\ server[d].key + 1 \in Nat
      BY <1>2, <1>3 DEF Devices
<1>5. [server EXCEPT ![d].key = @ + 1] = [server EXCEPT ![d] = new]
  <2>1. [server[d] EXCEPT !.key = @ + 1] = new
        BY <1>3 DEF Devices
  <2> HIDE DEF new
  <2> QED  BY <1>2, <2>1
<1>6. /\ server' = (IF ans = "lost" THEN server ELSE [server EXCEPT ![d] = new])
      /\ \/ ans = "ok" /\ SlotDone([dev |-> d, key |-> server[d].key + 1])
         \/ /\ pc' = "post"
            /\ told' = IF slot = "main" THEN told \cup {"rotation"} ELSE told
            /\ UNCHANGED <<route, left, acc, slot, status>>
      BY <1>5 DEF Rotate
<1> HIDE DEF d, new
<1>7. /\ server' \in Seq(Devices) /\ Len(server') = Len(server)
      /\ Steady(server, server', d)
      /\ ans = "ok" => server'[d] = new
  <2>1. CASE ans = "lost"
        BY <1>2, <1>6, <2>1, SteadyAsIs
  <2>2. CASE ans # "lost"
    <3>1. server' = [server EXCEPT ![d] = new]
          BY <1>6, <2>2
    <3>2. server \in Seq(Devices) /\ d \in 1 .. Len(server)
          BY <1>2
    <3>3. new \in Devices /\ new.on = TRUE
          BY <1>4
    <3>4. /\ server' \in Seq(Devices) /\ Len(server') = Len(server)
          /\ server'[d] = new /\ Steady(server, server', d)
          BY <3>1, <3>2, <3>3, Patched
    <3> QED  BY <1>2, <3>4
  <2> QED  BY <2>1, <2>2
<1>8. /\ d = (IF slot = "main" THEN prev.main.dev ELSE prev.outer.dev)
      /\ d # 0 /\ slot \in {"main", "outer"}
  <2>1. d # 0
        BY <1>2, RegParts
  <2> QED  BY <2>1, RegParts DEF d, SlotDevice
<1>9. /\ slot = "main" => d # prev.masque /\ d # prev.outer.dev
      /\ slot = "outer" => d # acc.main.dev /\ d # acc.masque
  <2>1. CASE slot = "main"
        BY <1>8, <2>1, RegParts DEF Sound, Apart
  <2>2. CASE slot = "outer"
        BY <1>1, <1>8, <2>2, RegParts
        DEF MainInv, MasqueInv, MainMade, MasqueMade, Apart
  <2> QED  BY <1>8, <2>1, <2>2
<1>10. CASE ans = "ok" /\ SlotDone([dev |-> d, key |-> server[d].key + 1])
  <2> DEFINE device == [dev |-> d, key |-> server[d].key + 1]
  <2>1. device \in DeviceKeys /\ device.dev = d
        BY <1>2, <1>4 DEF DeviceKeys
  <2>2. d \in 1 .. Len(server')
        BY <1>2, <1>7
  <2>3. server'[d] = [key |-> server[d].key + 1, on |-> TRUE]
        BY <1>2, <1>3, <1>7, <1>10 DEF new, Devices
  <2>4. Has(server', device)
        BY <2>2, <2>3 DEF Has
  <2>5. cur' \in 0 .. MaxDevices
        BY <1>1, RegParts
  <2> HIDE DEF device
  <2> QED
      BY <1>1, <1>2, <1>7, <1>8, <1>9, <1>10, <2>1, <2>4, <2>5, SlotDoneKeeps
      DEF device
<1>11. CASE /\ pc' = "post"
            /\ told' = IF slot = "main" THEN told \cup {"rotation"} ELSE told
            /\ UNCHANGED <<route, left, acc, slot, status>>
  <2>1. CASE slot = "main"
    <3>1. RunInv'
          BY <1>11, <2>1
          DEF RunInv, AtCall, MainInv, MasqueInv, OuterInv, MainMade, MasqueMade,
              AllMade, Minting, AtMasque, JustRegistered
    <3> QED  BY <1>1, <1>2, <1>7, <1>11, <2>1, <3>1, RegParts, RunGoesOn
  <2>2. CASE slot = "outer"
    <3>1. MainInv' /\ MasqueInv'
      <4>1. MainMade /\ MasqueMade
            BY <1>1, <2>2 DEF MainMade, MasqueMade
      <4> QED
          BY <1>1, <1>7, <1>9, <1>11, <2>2, <4>1, MainStays, MasqueStays
    <3>2. RunInv'
          BY <1>11, <2>2, <3>1
          DEF RunInv, AtCall, JustRegistered, OuterInv, AllMade
    <3> QED  BY <1>1, <1>2, <1>7, <1>11, <2>2, <3>2, RegParts, RunGoesOn
  <2> QED  BY <1>8, <2>1, <2>2
<1> QED  BY <1>6, <1>10, <1>11

-----------------------------------------------------------------------------
(* A POST, whether answered or not, adds a device at most.                 *)
LEMMA RegistersKeeps ==
  ASSUME RegInv, NEW ans \in Answers, MayRegister(ans), Registers(ans), NEW e
  PROVE  /\ server' \in Seq(Devices) /\ Len(server') <= MaxDevices
         /\ Steady(server, server', e)
         /\ ans = "ok" =>
              /\ Len(server) + 1 \in 1 .. Len(server')
              /\ Len(server) + 1 \in 0 .. MaxDevices
              /\ server'[Len(server) + 1] = [key |-> 0, on |-> FALSE]
<1>1. /\ server \in Seq(Devices) /\ Len(server) \in Nat
      /\ Len(server) <= MaxDevices /\ MaxDevices \in Nat
      BY RegParts, RegisterAssumption
<1>2. CASE ans = "lost"
      BY <1>1, <1>2, SteadyAsIs DEF Registers
<1>3. CASE ans # "lost"
  <2>1. /\ server' = Append(server, [key |-> 0, on |-> FALSE])
        /\ Len(server) < MaxDevices
        BY <1>3 DEF Registers, MayRegister
  <2>2. /\ server' \in Seq(Devices) /\ Len(server') = Len(server) + 1
        /\ Steady(server, server', e) /\ Len(server) + 1 \in 1 .. Len(server')
        /\ server'[Len(server) + 1] = [key |-> 0, on |-> FALSE]
        BY <1>1, <2>1, Registered
  <2>3. Len(server) + 1 <= MaxDevices /\ Len(server) + 1 \in 0 .. MaxDevices
        BY <1>1, <2>1
  <2> QED  BY <2>2, <2>3
<1> QED  BY <1>2, <1>3

(* A PATCH that enables the device just registered disturbs no other.      *)
LEMMA EnablesKeeps ==
  ASSUME RegInv, JustRegistered,
         NEW ans \in Answers, Enables(ans), NEW e
  PROVE  /\ server' \in Seq(Devices) /\ Len(server') <= MaxDevices
         /\ Steady(server, server', e) /\ cur \in 1 .. MaxDevices
         /\ ans = "ok" => Has(server', [dev |-> cur, key |-> 0])
<1> DEFINE new == [key |-> server[cur].key, on |-> TRUE]
<1>1. /\ server \in Seq(Devices) /\ Len(server) \in Nat
      /\ Len(server) <= MaxDevices /\ MaxDevices \in Nat
      /\ cur \in 1 .. Len(server)
      BY RegParts, RegisterAssumption DEF AtCall
<1>2. cur \in 1 .. MaxDevices
      BY <1>1
<1>5. server[cur] = [key |-> 0, on |-> FALSE]
      BY RegParts DEF AtCall
<1>3. CASE ans = "lost"
      BY <1>1, <1>2, <1>3, SteadyAsIs DEF Enables
<1>4. CASE ans # "lost"
  <2>1. [server[cur] EXCEPT !.on = TRUE] = new
    <3>1. server[cur] \in Devices
          BY <1>1
    <3> QED  BY <3>1, TurnedOn
  <2>2. server' = [server EXCEPT ![cur] = new]
        BY <1>1, <1>4, <2>1 DEF Enables
  <2>3. new = [key |-> 0, on |-> TRUE] /\ new \in Devices /\ new.on = TRUE
        BY <1>5 DEF Devices
  <2>4. ~server[cur].on
        BY <1>5
  <2> HIDE DEF new
  <2>5. /\ server' \in Seq(Devices) /\ Len(server') = Len(server)
        /\ server'[cur] = new /\ Steady(server, server', cur)
        BY <1>1, <2>2, <2>3, Patched
  <2>6. Steady(server, server', e)
        BY <2>4, <2>5, PatchedNew
  <2>7. Has(server', [dev |-> cur, key |-> 0])
        BY <1>1, <2>3, <2>5 DEF Has
  <2> QED  BY <1>1, <1>2, <2>5, <2>6, <2>7
<1> QED  BY <1>3, <1>4

(* It is no device that an account knows.                                  *)
LEMMA NewIsUnknown ==
  ASSUME RegInv, JustRegistered
  PROVE  /\ \A d : Known(server, d) => d # cur
         /\ \A device : Has(server, device) => device.dev # cur
<1>1. cur \in 1 .. Len(server) /\ Len(server) \in Nat
      BY RegParts DEF AtCall
<1>5. server[cur] = [key |-> 0, on |-> FALSE]
      BY RegParts DEF AtCall
<1>2. cur # 0 /\ ~server[cur].on
  <2>1. cur # 0
        BY <1>1
  <2>2. ~server[cur].on
        BY <1>5
  <2> QED  BY <2>1, <2>2
<1>3. ASSUME NEW d, Known(server, d)  PROVE d # cur
      BY <1>2, <1>3 DEF Known
<1>4. ASSUME NEW device, Has(server, device)  PROVE device.dev # cur
  <2>1. server[device.dev].on
        BY <1>4 DEF Has
  <2> QED  BY <1>2, <2>1
<1> QED  BY <1>3, <1>4

-----------------------------------------------------------------------------
(* A registration: the new device is in no account yet.                    *)
LEMMA PostKept ==
  ASSUME RegInv, NEW ans \in Answers, Post(ans)
  PROVE  RegInv'
<1>1. /\ pc = "post" /\ Minting /\ UNCHANGED <<file, client>> /\ prev' = prev
      /\ slot \in {"main", "outer"}
      BY RegParts DEF Post, Minting, client
<1>2. /\ server' \in Seq(Devices) /\ Len(server') <= MaxDevices
      /\ Steady(server, server', 0)
      /\ ans = "ok" =>
           /\ Len(server) + 1 \in 1 .. Len(server')
           /\ Len(server) + 1 \in 0 .. MaxDevices
           /\ server'[Len(server) + 1] = [key |-> 0, on |-> FALSE]
      BY RegistersKeeps DEF Post
<1>3. CASE /\ ans = "ok" /\ cur' = Len(server) + 1 /\ pc' = "enable"
           /\ UNCHANGED <<route, left, acc, slot, status, told>>
  <2>1. /\ cur' \in 1 .. Len(server') /\ cur' \in 0 .. MaxDevices
        /\ server'[cur'] = [key |-> 0, on |-> FALSE]
        BY <1>2, <1>3
  <2>2. slot = "main" => prev.main.dev = 0 \/ "rotation" \in told
        BY <1>1, RegParts DEF AtCall
  <2>3. AtCall'
        BY <1>1, <1>3, <2>1, <2>2 DEF AtCall
  <2>4. slot = "outer" => MainInv' /\ MasqueInv'
    <3>1. slot = "outer" => MainMade /\ MasqueMade
          BY <1>1 DEF MainMade, MasqueMade
    <3> QED  BY <1>1, <1>2, <1>3, <3>1, MainStays, MasqueStays
  <2>5. RunInv'
        BY <1>1, <1>3, <2>3, <2>4
        DEF RunInv, MainInv, MasqueInv, OuterInv, MainMade, MasqueMade, AllMade,
            Minting, AtMasque
  <2> QED  BY <1>1, <1>2, <1>3, <2>1, <2>5, RegParts, RunGoesOn
<1>4. CASE SlotFails /\ cur' = 0
  <2>1. cur' \in 0 .. MaxDevices
        BY <1>4, RegisterAssumption
  <2> QED  BY <1>1, <1>2, <1>4, <2>1, SlotFailsKeeps
<1> QED  BY <1>3, <1>4 DEF Post

(* Enabling it: now it may be of the account.                              *)
LEMMA EnableKept ==
  ASSUME RegInv, NEW ans \in Answers, Enable(ans)
  PROVE  RegInv'
<1>1. /\ pc = "enable" /\ Minting /\ JustRegistered /\ Enables(ans)
      /\ UNCHANGED <<file, client>> /\ cur' = 0
      BY DEF Enable, Minting, JustRegistered
<1>2. cur' \in 0 .. MaxDevices
      BY <1>1, RegisterAssumption
<1>3. CASE ans = "ok" /\ SlotDone([dev |-> cur, key |-> 0])
  <2> DEFINE device == [dev |-> cur, key |-> 0]
  <2>1. /\ server' \in Seq(Devices) /\ Len(server') <= MaxDevices
        /\ Steady(server, server', cur) /\ cur \in 1 .. MaxDevices
        /\ Has(server', device)
        BY <1>1, <1>3, EnablesKeeps
  <2>2. device \in DeviceKeys /\ device.dev = cur
        BY <2>1, RegisterAssumption DEF DeviceKeys
  <2>3. cur # prev.masque /\ cur # prev.outer.dev
        BY <1>1, RegParts, NewIsUnknown DEF Sound
  <2>4. slot = "outer" => cur # acc.main.dev /\ cur # acc.masque
    <3>1. slot = "outer" => MainMade /\ MasqueMade
          BY <1>1 DEF MainMade, MasqueMade
    <3> QED  BY <1>1, <3>1, RegParts, NewIsUnknown DEF MainInv, MasqueInv
  <2>5. slot = "main" => prev.main.dev = 0 \/ "rotation" \in told
        BY <1>1, RegParts DEF AtCall
  <2> HIDE DEF device
  <2> QED
      BY <1>1, <1>2, <1>3, <2>1, <2>2, <2>3, <2>4, <2>5, SlotDoneKeeps DEF device
<1>4. CASE SlotFails
  <2>1. /\ server' \in Seq(Devices) /\ Len(server') <= MaxDevices
        /\ Steady(server, server', 0)
        BY <1>1, EnablesKeeps
  <2> QED  BY <1>1, <1>2, <1>4, <2>1, SlotFailsKeeps
<1> QED  BY <1>3, <1>4 DEF Enable

(* The MASQUE device of before, with a warning, is as good as ever.        *)
LEMMA MasqueFailsKeeps ==
  ASSUME RegInv, UNCHANGED <<file, client, route, left, status>>, AtMasque,
         MasqueFails, cur' = 0,
         server' \in Seq(Devices), Len(server') <= MaxDevices,
         Steady(server, server', 0)
  PROVE  RegInv'
<1>1. /\ Known(server', prev.masque) /\ prev.masque # acc.main.dev
      /\ Apart(prev.masque, prev.outer.dev)
      BY RegParts, KnownStays DEF Sound, MainInv, MainMade
<1>2. /\ told' = told \cup {"masque"} /\ told \subseteq told'
      /\ told' \subseteq {"rotation", "masque", "outer"}
      BY RegParts DEF MasqueFails
<1>3. cur' \in 0 .. MaxDevices /\ prev.masque \in 0 .. MaxDevices
      BY SlotKnown, RegisterAssumption
<1> QED  BY <1>1, <1>2, <1>3, MasqueKeeps DEF MasqueFails

(* The MASQUE registration.                                                *)
LEMMA MasquePostKept ==
  ASSUME RegInv, NEW ans \in Answers, MasquePost(ans)
  PROVE  RegInv'
<1>1. /\ AtMasque /\ UNCHANGED <<file, client, route, left, status>>
      /\ prev' = prev
      BY DEF MasquePost, AtMasque, client
<1>2. /\ server' \in Seq(Devices) /\ Len(server') <= MaxDevices
      /\ Steady(server, server', 0)
      /\ ans = "ok" =>
           /\ Len(server) + 1 \in 1 .. Len(server')
           /\ Len(server) + 1 \in 0 .. MaxDevices
           /\ server'[Len(server) + 1] = [key |-> 0, on |-> FALSE]
      BY RegistersKeeps DEF MasquePost
<1>3. ASSUME ans = "ok"  PROVE RegInv'
  <2>1. /\ cur' = Len(server) + 1 /\ pc' = "masque enrol"
        /\ UNCHANGED <<acc, slot, told>>
        BY <1>3 DEF MasquePost
  <2>2. /\ cur' \in 1 .. Len(server') /\ cur' \in 0 .. MaxDevices
        /\ server'[cur'] = [key |-> 0, on |-> FALSE]
        BY <1>2, <1>3, <2>1
  <2>3. MainInv'
    <3>1. MainMade
          BY <1>1 DEF MainMade
    <3> QED  BY <1>1, <1>2, <2>1, <3>1, MainStays
  <2>4. RunInv'
        BY <2>1, <2>2, <2>3
        DEF RunInv, AtCall, MasqueInv, OuterInv, MasqueMade, AllMade, Minting
  <2>5. pc # "idle"
        BY <1>1 DEF AtMasque
  <2> QED  BY <1>1, <1>2, <2>1, <2>2, <2>4, <2>5, RegParts, RunGoesOn
<1>4. CASE ans # "ok"
      BY <1>1, <1>2, <1>4, MasqueFailsKeeps DEF MasquePost
<1> QED  BY <1>3, <1>4

(* The MASQUE enrolment.                                                   *)
LEMMA MasqueEnrolKept ==
  ASSUME RegInv, NEW ans \in Answers, MasqueEnrol(ans)
  PROVE  RegInv'
<1>1. /\ AtMasque /\ JustRegistered /\ Enables(ans) /\ cur' = 0
      /\ UNCHANGED <<file, client, route, left, status>>
      BY DEF MasqueEnrol, AtMasque, JustRegistered
<1>2. /\ server' \in Seq(Devices) /\ Len(server') <= MaxDevices
      /\ Steady(server, server', 0) /\ cur \in 1 .. MaxDevices
      /\ ans = "ok" => Has(server', [dev |-> cur, key |-> 0])
      BY <1>1, EnablesKeeps
<1>3. ASSUME ans = "ok"  PROVE RegInv'
  <2>1. MasqueDone(cur) /\ told' = told
        BY <1>3 DEF MasqueEnrol
  <2>2. Has(server, acc.main)
        BY <1>1, RegParts DEF MainInv, MainMade
  <2>3. cur # acc.main.dev /\ Apart(cur, prev.outer.dev)
        BY <1>1, <2>2, RegParts, NewIsUnknown DEF Sound, Apart
  <2>4. Has(server', [dev |-> cur, key |-> 0]) /\ Known(server', cur)
        BY <1>2, <1>3 DEF Has, Known
  <2>5. cur \in 0 .. MaxDevices /\ cur' \in 0 .. MaxDevices
        BY <1>1, RegParts, RegisterAssumption
  <2>6. told \subseteq told' /\ told' \subseteq {"rotation", "masque", "outer"}
        BY <2>1, RegParts
  <2> QED  BY <1>1, <1>2, <2>1, <2>3, <2>4, <2>5, <2>6, MasqueKeeps
<1>4. CASE ans # "ok"
      BY <1>1, <1>2, <1>4, MasqueFailsKeeps DEF MasqueEnrol
<1> QED  BY <1>3, <1>4

-----------------------------------------------------------------------------
(* The steps that write the file, and those at the ends of a run.          *)

(* An account without devices promises nothing.                            *)
LEMMA BlankIsSound ==
  /\ Blank \in Accounts
  /\ \A s : Sound(s, Blank)
<1>1. 0 \in 0 .. MaxDevices /\ 0 \in Nat
      BY RegisterAssumption
<1> QED  BY <1>1 DEF Blank, NoDevice, Accounts, DeviceKeys, Sound, Known, Apart

(* A run that is over, or has not asked for anything, and has not saved.   *)
LEMMA NothingSaved ==
  ASSUME RegInv, UNCHANGED <<server, client, route, left, acc, slot, cur, told>>,
         file' = file \/ file'.acc = Blank,
         file' \in [state : {"missing", "broken", "ok"}, acc : Accounts],
         pc' = "idle", status' \in {"none", "failed", "dead"}
  PROVE  RegInv'
<1>1. TypeOK'
      BY DEF RegInv, TypeOK, client
<1>2. Sound(server, prev)' /\ Sound(server, file.acc)'
      BY BlankIsSound DEF RegInv, client
<1>3. RunInv'
      BY NothingMade
<1>4. SavedInv'
      BY DEF SavedInv, SavedWorks, AccountKept
<1> QED  BY <1>1, <1>2, <1>3, <1>4 DEF RegInv

LEMMA DieKept ==
  ASSUME RegInv, Die  PROVE RegInv'
<1>1. file \in [state : {"missing", "broken", "ok"}, acc : Accounts]
      BY DEF RegInv, TypeOK
<1> QED  BY <1>1, NothingSaved DEF Die, RunEndsWith

LEMMA MoveAwayKept ==
  ASSUME RegInv, MoveAway  PROVE RegInv'
<1>1. /\ file'.acc = Blank
      /\ file' \in [state : {"missing", "broken", "ok"}, acc : Accounts]
      BY BlankIsSound DEF MoveAway
<1> QED  BY <1>1, NothingSaved DEF MoveAway

(* Truncated, the file is a damaged one for whoever reads it now.          *)
LEMMA TruncateKept ==
  ASSUME RegInv, Truncate  PROVE RegInv'
<1>1. CASE UNCHANGED file /\ RunEndsWith("failed")
  <2>1. file \in [state : {"missing", "broken", "ok"}, acc : Accounts]
        BY DEF RegInv, TypeOK
  <2> QED  BY <1>1, <2>1, NothingSaved DEF RunEndsWith
<1>2. CASE /\ file' = [state |-> "broken", acc |-> Blank]
           /\ pc' = "write"
           /\ UNCHANGED <<server, client, route, left, acc, slot, cur, told, status>>
  <2>1. pc = "truncate" /\ AllMade /\ AllMade'
        BY <1>2 DEF Truncate, AllMade
  <2>2. /\ file' \in [state : {"missing", "broken", "ok"}, acc : Accounts]
        /\ file'.acc = Blank
        BY <1>2, BlankIsSound
  <2>3. acc.main.dev \in 1 .. Len(server)
        BY <2>1, RegParts DEF MainInv, MainMade, MasqueMade, Has
  <2>4. TypeOK'
        BY <1>2, <2>2, <2>3 DEF RegInv, TypeOK, client
  <2>5. Sound(server, prev)' /\ Sound(server, file.acc)'
        BY <1>2, <2>2, BlankIsSound DEF RegInv, client
  <2>6. MainInv' /\ MasqueInv' /\ OuterInv'
        BY <1>2, <2>1, RegParts
        DEF MainInv, MasqueInv, OuterInv, MainMade, MasqueMade, client
  <2>7. AtCall'
        BY <1>2 DEF AtCall, JustRegistered
  <2>8. SavedInv'
        BY <1>2, <2>1, RegParts DEF SavedInv, SavedWorks, AccountKept
  <2> QED  BY <2>4, <2>5, <2>6, <2>7, <2>8 DEF RegInv, RunInv
<1> QED  BY <1>1, <1>2 DEF Truncate

(* What is written is what the run has made.                               *)
LEMMA WriteKept ==
  ASSUME RegInv, Write  PROVE RegInv'
<1>1. CASE UNCHANGED file /\ RunEndsWith("failed")
  <2>1. file \in [state : {"missing", "broken", "ok"}, acc : Accounts]
        BY DEF RegInv, TypeOK
  <2> QED  BY <1>1, <2>1, NothingSaved DEF RunEndsWith
<1>2. CASE file' = [state |-> "ok", acc |-> acc] /\ RunEndsWith("saved")
  <2>1. pc = "write" /\ AllMade /\ MasqueMade /\ MainMade
        BY DEF Write, AllMade, MasqueMade, MainMade
  <2>2. /\ file' \in [state : {"missing", "broken", "ok"}, acc : Accounts]
        /\ file'.acc = acc
        BY <1>2, RegParts
  <2>3. /\ pc' = "idle" /\ status' = "saved" /\ prev' = prev
        /\ UNCHANGED <<server, client, route, left, acc, slot, cur, told>>
        BY <1>2 DEF RunEndsWith, client
  <2>4. TypeOK'
        BY <2>2, <2>3 DEF RegInv, TypeOK, client
  <2>5. /\ Has(server, acc.main)
        /\ prev.main.dev # 0 =>
             acc.main.dev = prev.main.dev \/ "rotation" \in told
        /\ Known(server, acc.masque) /\ acc.main.dev # acc.masque
        /\ "masque" \in told \/ Has(server, [dev |-> acc.masque, key |-> 0])
        /\ Known(server, acc.outer.dev) /\ acc.main.dev # acc.outer.dev
        /\ Apart(acc.masque, acc.outer.dev)
        /\ "outer" \in told \/ Has(server, acc.outer)
        BY <2>1, RegParts DEF MainInv, MasqueInv, OuterInv
  <2>6. Known(server, acc.main.dev)
        BY <2>5 DEF Known, Has
  <2>7. Sound(server, acc)
        BY <2>5, <2>6 DEF Sound, Apart
  <2>8. Sound(server, prev)' /\ Sound(server, file.acc)'
        BY <2>2, <2>3, <2>7 DEF RegInv
  <2>9. RunInv'
        BY <2>3, NothingMade
  <2>10. SavedWorks'
        BY <2>2, <2>3, <2>5 DEF SavedWorks, Works, Has
  <2>11. AccountKept'
        BY <2>2, <2>3, <2>5 DEF AccountKept
  <2> QED
      BY <2>3, <2>4, <2>8, <2>9, <2>10, <2>11 DEF RegInv, SavedInv
<1> QED  BY <1>1, <1>2 DEF Write

(* A run begins with what accountToRotate found in the file.               *)
LEMMA StartKept ==
  ASSUME RegInv, NEW f \in BOOLEAN, NEW relays \in BOOLEAN,
         NEW via \in {"proxy", "direct"}, Start(f, relays, via)
  PROVE  RegInv'
<1>1. /\ pc = "idle" /\ run' = run + 1 /\ run < Runs /\ fresh' = f
      /\ relayOn' = relays /\ before' = Len(server) /\ told' = {} /\ left' = 0
      /\ route' = via /\ UNCHANGED <<file, server>>
      BY DEF Start
<1>2. prev' = Blank \/ prev' = file.acc
      BY DEF Start, accountToRotate
<1>3. prev' \in Accounts /\ Sound(server', prev') /\ Sound(server', file'.acc)
      BY <1>1, <1>2, BlankIsSound DEF RegInv, TypeOK
<1>4. /\ RunInv' /\ pc' \in {"idle", "check", "rotate", "post"}
      /\ slot' \in {"main", "outer"} /\ acc' \in Accounts
      /\ cur' \in 0 .. MaxDevices /\ status' \in {"none", "failed"}
  <2>1. CASE BeginMint(prev') /\ status' = "none"
        BY <2>1, MintBegins DEF RegInv
  <2>2. CASE /\ pc' \in {"idle", "check"} /\ status' \in {"none", "failed"}
             /\ UNCHANGED <<acc, slot, cur>>
        BY <2>2, NothingMade, RegParts
  <2> QED  BY <2>1, <2>2 DEF Start
<1>5. run' \in 0 .. Runs /\ left' \in 0 .. Candidates /\ before' \in 0 .. MaxDevices
      BY <1>1, RegParts, RegisterAssumption DEF RegInv, TypeOK
<1>6. TypeOK'
      BY <1>1, <1>3, <1>4, <1>5 DEF RegInv, TypeOK
<1>7. SavedInv'
      BY <1>4 DEF SavedInv, SavedWorks, AccountKept
<1> QED  BY <1>3, <1>4, <1>6, <1>7 DEF RegInv

-----------------------------------------------------------------------------
(* The invariant holds at first: no run has been yet.                      *)
LEMMA RegInit == Init => RegInv
<1> SUFFICES ASSUME Init PROVE RegInv
    OBVIOUS
<1>1. /\ pc = "idle" /\ run = 0 /\ fresh = FALSE /\ relayOn = FALSE
      /\ route = "direct" /\ left = 0 /\ prev = Blank /\ acc = Blank
      /\ slot = "main" /\ cur = 0 /\ told = {} /\ status = "none"
      /\ before = Len(server)
      BY DEF Init
<1>2. /\ server \in Seq(Devices) /\ Len(server) <= MaxDevices
      /\ Len(server) \in Nat
      /\ file \in [state : {"missing", "broken", "ok"}, acc : Accounts]
      /\ Sound(server, file.acc)
  <2>1. CASE /\ server = <<>>
             /\ file \in [state : {"missing", "broken", "ok"}, acc : {Blank}]
    <3>1. server \in Seq(Devices) /\ Len(server) = 0
          BY <2>1
    <3> QED  BY <2>1, <3>1, BlankIsSound, RegisterAssumption
  <2>2. CASE /\ server = <<[key |-> 0, on |-> TRUE]>>
             /\ file = [state |-> "ok",
                        acc |-> [Blank EXCEPT !.main = [dev |-> 1, key |-> 0]]]
    <3>1. [key |-> 0, on |-> TRUE] \in Devices
          BY DEF Devices
    <3>2. server \in Seq(Devices) /\ Len(server) = 1
          BY <2>2, <3>1
    <3>3. server[1] = [key |-> 0, on |-> TRUE]
          BY <2>2
    <3>4. /\ file.acc.main = [dev |-> 1, key |-> 0] /\ file.acc.masque = 0
          /\ file.acc.outer = NoDevice /\ file.state = "ok"
          BY <2>2 DEF Blank
    <3>5. [dev |-> 1, key |-> 0] \in DeviceKeys
          BY RegisterAssumption DEF DeviceKeys
    <3>6. file \in [state : {"missing", "broken", "ok"}, acc : Accounts]
          BY <2>2, <3>5, BlankIsSound DEF Accounts
    <3>7. Known(server, 1)
          BY <3>2, <3>3 DEF Known
    <3>8. Sound(server, file.acc)
          BY <3>4, <3>7 DEF Sound, Known, Apart, NoDevice
    <3> QED  BY <3>2, <3>6, <3>8, RegisterAssumption
  <2> QED  BY <2>1, <2>2 DEF Init
<1>3. TypeOK
  <2>1. /\ run \in 0 .. Runs /\ left \in 0 .. Candidates
        /\ cur \in 0 .. MaxDevices /\ before \in 0 .. MaxDevices
        BY <1>1, <1>2, RegisterAssumption
  <2>2. fresh \in BOOLEAN /\ relayOn \in BOOLEAN /\ told \subseteq {}
        BY <1>1
  <2> QED  BY <1>1, <1>2, <2>1, <2>2, BlankIsSound DEF TypeOK, Devices
<1>4. Sound(server, prev)
      BY <1>1, BlankIsSound
<1>5. RunInv
      BY <1>1
      DEF RunInv, AtCall, MainInv, MasqueInv, OuterInv, MainMade, MasqueMade,
          AllMade, Minting, AtMasque, JustRegistered
<1>6. SavedInv
      BY <1>1 DEF SavedInv, SavedWorks, AccountKept
<1> QED  BY <1>2, <1>3, <1>4, <1>5, <1>6 DEF RegInv

(* Nothing changes when nothing does.                                      *)
LEMMA RegStutter == RegInv /\ UNCHANGED vars => RegInv'
<1> SUFFICES ASSUME RegInv, UNCHANGED vars PROVE RegInv'
    OBVIOUS
<1>1. /\ UNCHANGED <<file, server, pc, run, fresh, relayOn, route, left>>
      /\ UNCHANGED <<prev, acc, slot, cur, told, status, before>>
      BY DEF vars, work, client
<1>2. TypeOK'
  <2>1. TypeOK
        BY DEF RegInv
  <2>2. /\ file' = file /\ server' = server /\ pc' = pc /\ run' = run
        /\ fresh' = fresh /\ relayOn' = relayOn /\ route' = route /\ left' = left
        /\ prev' = prev /\ acc' = acc /\ slot' = slot /\ cur' = cur
        /\ told' = told /\ status' = status /\ before' = before
        BY <1>1
  <2>3. (/\ file \in [state : {"missing", "broken", "ok"}, acc : Accounts]
         /\ server \in Seq([key : Nat, on : BOOLEAN]) /\ Len(server) <= MaxDevices
         /\ run \in 0 .. Runs /\ fresh \in BOOLEAN /\ relayOn \in BOOLEAN
         /\ prev \in Accounts /\ acc \in Accounts
         /\ cur \in 0 .. MaxDevices /\ before \in 0 .. MaxDevices)'
        BY <2>1, <2>2 DEF TypeOK
  <2> QED  BY <2>1, <2>2, <2>3 DEF TypeOK
<1>3. Sound(server, prev)' /\ Sound(server, file.acc)'
      BY <1>1 DEF RegInv
<1>4. RunInv'
      BY <1>1 DEF RegInv, RunInv, AtCall, MainInv, MasqueInv, OuterInv, MainMade,
      MasqueMade, AllMade, Minting, AtMasque, JustRegistered, SlotDevice
<1>5. SavedInv'
      BY <1>1 DEF RegInv, SavedInv, SavedWorks, AccountKept, Works
<1> QED  BY <1>2, <1>3, <1>4, <1>5 DEF RegInv

(* Every step keeps it.                                                    *)
LEMMA RegStep == RegInv /\ [Next]_vars => RegInv'
<1> SUFFICES ASSUME RegInv, [Next]_vars PROVE RegInv'
    OBVIOUS
<1>1. CASE \E up \in BOOLEAN : Check(up) \/ Tunnel(up)
      BY <1>1, RoutesKept
<1>2. CASE \E ans \in Answers : \/ Rotate(ans) \/ Post(ans) \/ Enable(ans)
                                \/ MasquePost(ans) \/ MasqueEnrol(ans)
      BY <1>2, RotateKept, PostKept, EnableKept, MasquePostKept, MasqueEnrolKept
<1>3. CASE Truncate \/ Write
      BY <1>3, TruncateKept, WriteKept
<1>4. CASE Die \/ MoveAway
      BY <1>4, DieKept, MoveAwayKept
<1>5. CASE \E f, relays \in BOOLEAN, via \in {"proxy", "direct"} :
             Start(f, relays, via)
      BY <1>5, StartKept
<1>6. CASE UNCHANGED vars
      BY <1>6, RegStutter
<1> QED  BY <1>1, <1>2, <1>3, <1>4, <1>5, <1>6 DEF Next, Go

LEMMA RegAlways == Spec => []RegInv
  BY RegInit, RegStep, PTL DEF Spec

-----------------------------------------------------------------------------
(* The account file, the API's devices and the run keep their types, and an*)
(* account that is about to be written names a device of the API.          *)
THEOREM RegisterTypes == Spec => []TypeOK
<1>1. RegInv => TypeOK
      BY DEF RegInv
<1> QED  BY <1>1, RegAlways, PTL

(* What a run has just saved works, or the run has said what will not      *)
(* (mintAccount, mintMasque and saveAccount of src/register.go): whichever *)
(* of the requests failed, were lost, or were done without an answer, in   *)
(* this run and in those before.                                           *)
THEOREM SavedIsGood == Spec => []SavedWorks
<1>1. RegInv => SavedWorks
      BY DEF RegInv, SavedInv
<1> QED  BY <1>1, RegAlways, PTL

(* A new account replaces one that could be rotated only after a rotation  *)
(* that failed (mintWGAccount of src/register.go), or with -fresh.         *)
THEOREM OldAccountKept == Spec => []AccountKept
<1>1. RegInv => AccountKept
      BY DEF RegInv, SavedInv
<1> QED  BY <1>1, RegAlways, PTL

(* No run that was asked to rotate begins on a damaged file, for any number*)
(* of runs and wherever one died (accountToRotate of src/register.go).     *)
THEOREM DamagedStays == Spec => DamagedFileStays
<1>1. [Next]_vars =>
        [file.state = "broken" /\ pc = "idle" /\ pc' # "idle" => fresh']_vars
  <2> SUFFICES ASSUME [Next]_vars, pc = "idle", pc' # "idle",
                      file.state = "broken"
               PROVE  fresh'
      OBVIOUS
  <2>1. ASSUME NEW f \in BOOLEAN, NEW relays \in BOOLEAN,
               NEW via \in {"proxy", "direct"}, Start(f, relays, via)
        PROVE  fresh'
        BY <2>1 DEF Start, accountToRotate
  <2>2. ASSUME NEW ans \in Answers
        PROVE  ~(\/ Rotate(ans) \/ Post(ans) \/ Enable(ans)
                 \/ MasquePost(ans) \/ MasqueEnrol(ans))
        BY DEF Rotate, Post, Enable, MasquePost, MasqueEnrol
  <2>3. ~(\E up \in BOOLEAN : Check(up) \/ Tunnel(up))
        BY DEF Check, Tunnel
  <2>4. ~Truncate /\ ~Write /\ ~Die /\ ~MoveAway /\ ~UNCHANGED vars
        BY DEF Truncate, Write, Die, MoveAway, vars, work
  <2> QED  BY <2>1, <2>2, <2>3, <2>4 DEF Next, Go
<1> QED  BY <1>1, PTL DEF Spec, DamagedFileStays
=============================================================================
