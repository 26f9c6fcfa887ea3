-------------------------- MODULE WireGuardProofs ---------------------------
(* The WireGuard tunnels.  For any number of workers and any addresses:    *)
(* which device a tunnel and a written interface of a -through run belong  *)
(* to, as the invariants of Nest say.  The two devices never change, so    *)
(* each stage of the command has one value for the account globals; the    *)
(* strengthening names it.  And for any timeout and any sleeps: WGTunnel is*)
(* a tunnel as TunnelPromise has it, whose polls cost no endpoint.         *)
EXTENDS Nest, WGTunnel, TLAPS, SequenceTheorems, WellFoundedInduction

(* What withOuterKeys puts in, and what withChainAddr leaves for the inner *)
(* half of the config.                                                     *)
Lent == [keys |-> "outer", addr |-> Over(account.outer, Own.addr)]

Chained ==
  [keys |-> "own",
   addr |-> IF ~opts.mihomo /\ ~opts.ipv6 /\ Own.addr = Lent.addr
            THEN Moved ELSE Own.addr]

Before == {"start", "dial", "new outer"}
Dialling == {"new outer", "outer handshake", "outer address"}
Rendering == {"conf swapped", "conf rendered"}
Nested == {"scan", "results", "speed", "measured", "conf", "conf swapped",
           "conf rendered", "inner conf", "inner rendered", "closing",
           "failing", "exited"}

(* The globals at every stage.                                             *)
GlobalInv ==
  /\ pc = "start" => global = [keys |-> "built in", addr |-> Fallback]
  /\ pc \in {"new outer", "outer handshake"} \cup Rendering =>
       global = Lent /\ saved = Own
  /\ pc \in {"inner conf", "inner rendered"} => global = Chained /\ saved = Own
  /\ pc \notin Swapped => global = Own

(* A nested run has an outer device, and beyond dialOuter its address.     *)
DeviceInv ==
  /\ pc \in Dialling => account.outer # NoDevice
  /\ pc \in Nested => account.outer \in Addresses

(* The outer tunnel is there from its creation until the end.              *)
OuterInv ==
  /\ pc \in Before => outer.state = "none"
  /\ pc \in Nested \cup {"outer handshake", "outer address"} =>
       outer.state = "up"
  /\ pc \in {"done", "failed"} => outer.state # "up"
  /\ outer.state # "none" =>
       /\ outer.keys = "outer" /\ outer.addr = Lent.addr
       /\ outer.peer \in {"outer", "built in"}

(* Inner tunnels are made under the account's globals, while the command   *)
(* waits for the work.                                                     *)
WorkInv ==
  /\ work # "idle" => pc \in {"results", "measured"}
  /\ \A w \in Workers : inner[w].state = "up" => work # "idle"
  /\ \A w \in Workers : inner[w].state # "none" =>
       /\ inner[w].keys = "own" /\ inner[w].addr = Own.addr
       /\ inner[w].peer \in {"own", "built in"}

(* The config grows by the outer interface and then by the inner one.      *)
ConfInv ==
  /\ pc \notin {"conf rendered", "inner conf", "inner rendered", "closing",
                "done"} => conf = <<>>
  /\ pc \in {"conf rendered", "inner conf"} => conf = <<Lent>>
  /\ pc = "inner rendered" => conf = <<Lent, Chained>>
  /\ conf \in {<<>>, <<Lent>>, <<Lent, Chained>>}
  /\ conf # <<>> => account.outer \in Addresses
  /\ pc \in Rendering \/ conf # <<>> =>
       warned = (~opts.mihomo /\ opts.ipv6 /\ Own.addr = Lent.addr)

IndInv == VarsOK /\ GlobalInv /\ DeviceInv /\ OuterInv /\ WorkInv /\ ConfInv

(* Closing a tunnel changes its state and nothing else.                    *)
LEMMA Shut ==
  ASSUME NEW t \in Tunnels
  PROVE  LET shut == [t EXCEPT !.state = "closed"]
         IN  /\ shut \in Tunnels /\ shut.state = "closed"
             /\ shut.keys = t.keys /\ shut.peer = t.peer /\ shut.addr = t.addr
  BY DEF Tunnels

(* A handshake sets the key of the peer and nothing else.                  *)
LEMMA Shaken ==
  ASSUME NEW t \in Tunnels, NEW k \in Devices
  PROVE  LET shaken == [t EXCEPT !.peer = k]
         IN  /\ shaken \in Tunnels /\ shaken.peer = k
             /\ shaken.state = t.state /\ shaken.keys = t.keys
             /\ shaken.addr = t.addr
  BY DEF Tunnels

(* withChainAddr sets the address and nothing else.                        *)
LEMMA MovedAway ==
  ASSUME NEW k, NEW a, NEW b
  PROVE  [[keys |-> k, addr |-> a] EXCEPT !.addr = b] = [keys |-> k, addr |-> b]
  OBVIOUS

(* The config is one half and then the other.                              *)
LEMMA Halves ==
  ASSUME NEW S, NEW a \in S, NEW b \in S
  PROVE  Append(<<a>>, b) = <<a, b>>
<1>1. <<a>> \in Seq(S) /\ <<a, b>> \in Seq(S) /\ Len(<<a>>) = 1
      /\ Len(<<a, b>>) = 2
  OBVIOUS
<1>2. Append(<<a>>, b) \in Seq(S) /\ Len(Append(<<a>>, b)) = 2
  BY <1>1, AppendProperties
<1>3. Append(<<a>>, b)[1] = a /\ Append(<<a>>, b)[2] = b
  BY <1>1, AppendProperties
<1>4. \A i \in 1..2 : Append(<<a>>, b)[i] = <<a, b>>[i]
  <2> TAKE i \in 1..2
  <2>1. i = 1 \/ i = 2
    OBVIOUS
  <2> QED
    BY <1>3, <2>1
<1> QED
  BY <1>1, <1>2, <1>4, SeqEqual

(* Only two halves are two.                                                *)
LEMMA Lengths ==
  ASSUME NEW a, NEW b
  PROVE  /\ Len(<<>>) # 2 /\ Len(<<a>>) # 2
         /\ <<a, b>>[1] = a /\ <<a, b>>[2] = b
  OBVIOUS

(* The keys of the three values the globals take after the account is      *)
(* loaded.                                                                 *)
LEMMA Keys == Own.keys = "own" /\ Lent.keys = "outer" /\ Chained.keys = "own"
  BY DEF Own, Lent, Chained

(* Every step keeps the types: one case per action. *)
LEMMA TypeStep == IndInv /\ [Next]_vars => VarsOK'
<1> SUFFICES ASSUME IndInv, [Next]_vars PROVE VarsOK'
  OBVIOUS
<1> USE NestAssumption DEF IndInv, VarsOK, given
<1>1. CASE LoadAccount
  BY <1>1 DEF LoadAccount, Globals, Devices, Over
<1>2. CASE NoOuterDevice
  BY <1>2 DEF NoOuterDevice
<1>3. CASE BeginOuter
  BY <1>3 DEF BeginOuter, SwapIn, Globals, Devices, Over
<1>4. CASE NewOuter
  <2>1. New \in Tunnels
    BY DEF New, Tunnels, Globals, Devices
  <2> QED
    BY <1>4, <2>1 DEF NewOuter, SwapOut
<1>5. CASE OuterHandshake
  <2>1. [outer EXCEPT !.peer = global.keys] \in Tunnels
    BY Shaken DEF Globals
  <2>2. [outer EXCEPT !.state = "closed"] \in Tunnels
    BY Shut
  <2> QED
    BY <1>5, <2>1, <2>2 DEF OuterHandshake, SwapOut
<1>6. CASE OuterAddress
  <2>1. [outer EXCEPT !.state = "closed"] \in Tunnels
    BY Shut
  <2> QED
    BY <1>6, <2>1 DEF OuterAddress
<1>7. CASE Scan
  BY <1>7 DEF Scan, Begin
<1>8. CASE Scanned
  BY <1>8 DEF Scanned, Goto
<1>9. CASE Speed
  BY <1>9 DEF Speed, Begin
<1>10. CASE UIOver
  BY <1>10 DEF UIOver, Goto
<1>11. CASE BeginConf
  <2>1. account.outer \in Addresses
    BY <1>11 DEF BeginConf, DeviceInv, Nested
  <2> QED
    BY <1>11, <2>1 DEF BeginConf, SwapIn, Globals, Devices, Over
<1>12. CASE RenderOuter
  BY <1>12 DEF RenderOuter, Interface
<1>13. CASE EndOuterConf
  <2>1. [saved EXCEPT !.addr = Moved] \in Globals
    BY DEF Globals
  <2> QED
    BY <1>13, <2>1 DEF EndOuterConf
<1>14. CASE RenderInner
  BY <1>14 DEF RenderInner, Interface
<1>15. CASE EndConf
  BY <1>15 DEF EndConf, SwapOut
<1>16. CASE Close
  <2>1. [outer EXCEPT !.state = "closed"] \in Tunnels
    BY Shut
  <2> QED
    BY <1>16, <2>1 DEF Close
<1>17. CASE WorkEnds
  BY <1>17 DEF WorkEnds, Open
<1>18. ASSUME NEW w \in Workers, InnerOpens(w) PROVE VarsOK'
  <2>1. New \in Tunnels
    BY DEF New, Tunnels, Globals, Devices
  <2> QED
    BY <1>18, <2>1 DEF InnerOpens, Goes
<1>19. ASSUME NEW w \in Workers, InnerHandshake(w) PROVE VarsOK'
  <2>1. [inner[w] EXCEPT !.peer = global.keys] \in Tunnels
    BY Shaken DEF Globals
  <2> QED
    BY <1>19, <2>1 DEF InnerHandshake, Goes
<1>20. ASSUME NEW w \in Workers, InnerCloses(w) PROVE VarsOK'
  <2>1. [inner[w] EXCEPT !.state = "closed"] \in Tunnels
    BY Shut
  <2> QED
    BY <1>20, <2>1 DEF InnerCloses, Goes
<1>21. CASE UNCHANGED vars
  BY <1>21 DEF vars
<1> QED
  BY <1>1, <1>2, <1>3, <1>4, <1>5, <1>6, <1>7, <1>8, <1>9, <1>10,
     <1>11, <1>12, <1>13, <1>14, <1>15, <1>16, <1>17, <1>18, <1>19, <1>20, <1>21
     DEF Next, DialSteps, ConfSteps, WorkSteps

(* What is swapped in comes out again. *)
LEMMA GlobalStep == IndInv /\ [Next]_vars => GlobalInv'
<1> SUFFICES ASSUME IndInv, [Next]_vars PROVE GlobalInv'
  OBVIOUS
<1> USE NestAssumption DEF IndInv, GlobalInv, given, Over, Own, Lent, Chained, Swapped, Rendering
<1>1. CASE LoadAccount
  <2>1. global.addr = Fallback
    <3>1. global = [keys |-> "built in", addr |-> Fallback]
      BY <1>1 DEF LoadAccount
    <3> QED
      BY ONLY <3>1
  <2>2. global' = [keys |-> "own", addr |-> Over(account.own, Fallback)]
    BY <1>1, <2>1 DEF LoadAccount
  <2>3. pc' = "dial" /\ account' = account
    BY <1>1 DEF LoadAccount
  <2> QED
    BY <2>2, <2>3
<1>2. CASE NoOuterDevice
  BY <1>2 DEF NoOuterDevice
<1>3. CASE BeginOuter
  BY <1>3 DEF BeginOuter, SwapIn
<1>4. CASE NewOuter
  BY <1>4 DEF NewOuter, New, SwapOut
<1>5. CASE OuterHandshake
  BY <1>5 DEF OuterHandshake, SwapOut
<1>6. CASE OuterAddress
  BY <1>6 DEF OuterAddress
<1>7. CASE Scan
  BY <1>7 DEF Scan, Begin
<1>8. CASE Scanned
  BY <1>8 DEF Scanned, Goto
<1>9. CASE Speed
  BY <1>9 DEF Speed, Begin
<1>10. CASE UIOver
  BY <1>10 DEF UIOver, Goto
<1>11. CASE BeginConf
  BY <1>11 DEF BeginConf, SwapIn
<1>12. CASE RenderOuter
  BY <1>12 DEF RenderOuter, Interface
<1>13. CASE EndOuterConf
  <2>1. global = Lent /\ saved = Own /\ pc' = "inner conf" /\ saved' = saved
    BY <1>13 DEF EndOuterConf
  <2>2. [Own EXCEPT !.addr = Moved] = [keys |-> "own", addr |-> Moved]
    <3>1. Own = [keys |-> "own", addr |-> Own.addr]
      BY ONLY DEF Own
    <3> QED
      BY ONLY <3>1, MovedAway
  <2>3. Own.addr = Over(account.outer, Own.addr) <=> Own.addr = Lent.addr
    OBVIOUS
  <2>4. global' = Chained
    BY <1>13, <2>1, <2>2, <2>3 DEF EndOuterConf
  <2> QED
    BY <1>13, <2>1, <2>4 DEF EndOuterConf
<1>14. CASE RenderInner
  BY <1>14 DEF RenderInner, Interface
<1>15. CASE EndConf
  BY <1>15 DEF EndConf, SwapOut
<1>16. CASE Close
  BY <1>16 DEF Close
<1>17. CASE WorkEnds
  BY <1>17 DEF WorkEnds, Open
<1>18. ASSUME NEW w \in Workers, InnerOpens(w) PROVE GlobalInv'
  BY <1>18 DEF InnerOpens, Goes, New, Open
<1>19. ASSUME NEW w \in Workers, InnerHandshake(w) PROVE GlobalInv'
  BY <1>19 DEF InnerHandshake, Goes
<1>20. ASSUME NEW w \in Workers, InnerCloses(w) PROVE GlobalInv'
  BY <1>20 DEF InnerCloses, Goes
<1>21. CASE UNCHANGED vars
  BY <1>21 DEF vars
<1> QED
  BY <1>1, <1>2, <1>3, <1>4, <1>5, <1>6, <1>7, <1>8, <1>9, <1>10,
     <1>11, <1>12, <1>13, <1>14, <1>15, <1>16, <1>17, <1>18, <1>19, <1>20, <1>21
     DEF Next, DialSteps, ConfSteps, WorkSteps

(* Only a run with an outer device gets past dialOuter. *)
LEMMA DeviceStep == IndInv /\ [Next]_vars => DeviceInv'
<1> SUFFICES ASSUME IndInv, [Next]_vars PROVE DeviceInv'
  OBVIOUS
<1> USE NestAssumption DEF IndInv, VarsOK, DeviceInv, given, Dialling, Nested
<1>1. CASE LoadAccount
  BY <1>1 DEF LoadAccount
<1>2. CASE NoOuterDevice
  BY <1>2 DEF NoOuterDevice
<1>3. CASE BeginOuter
  BY <1>3 DEF BeginOuter, SwapIn
<1>4. CASE NewOuter
  BY <1>4 DEF NewOuter, New, SwapOut
<1>5. CASE OuterHandshake
  BY <1>5 DEF OuterHandshake, SwapOut
<1>6. CASE OuterAddress
  BY <1>6 DEF OuterAddress
<1>7. CASE Scan
  BY <1>7 DEF Scan, Begin
<1>8. CASE Scanned
  BY <1>8 DEF Scanned, Goto
<1>9. CASE Speed
  BY <1>9 DEF Speed, Begin
<1>10. CASE UIOver
  BY <1>10 DEF UIOver, Goto
<1>11. CASE BeginConf
  BY <1>11 DEF BeginConf, SwapIn
<1>12. CASE RenderOuter
  BY <1>12 DEF RenderOuter, Interface
<1>13. CASE EndOuterConf
  BY <1>13 DEF EndOuterConf
<1>14. CASE RenderInner
  BY <1>14 DEF RenderInner, Interface
<1>15. CASE EndConf
  BY <1>15 DEF EndConf, SwapOut
<1>16. CASE Close
  BY <1>16 DEF Close
<1>17. CASE WorkEnds
  BY <1>17 DEF WorkEnds, Open
<1>18. ASSUME NEW w \in Workers, InnerOpens(w) PROVE DeviceInv'
  BY <1>18 DEF InnerOpens, Goes, New, Open
<1>19. ASSUME NEW w \in Workers, InnerHandshake(w) PROVE DeviceInv'
  BY <1>19 DEF InnerHandshake, Goes
<1>20. ASSUME NEW w \in Workers, InnerCloses(w) PROVE DeviceInv'
  BY <1>20 DEF InnerCloses, Goes
<1>21. CASE UNCHANGED vars
  BY <1>21 DEF vars
<1> QED
  BY <1>1, <1>2, <1>3, <1>4, <1>5, <1>6, <1>7, <1>8, <1>9, <1>10,
     <1>11, <1>12, <1>13, <1>14, <1>15, <1>16, <1>17, <1>18, <1>19, <1>20, <1>21
     DEF Next, DialSteps, ConfSteps, WorkSteps

(* The outer tunnel is made while the outer device is in the globals. *)
LEMMA OuterStep == IndInv /\ [Next]_vars => OuterInv'
<1> SUFFICES ASSUME IndInv, [Next]_vars PROVE OuterInv'
  OBVIOUS
<1> USE NestAssumption DEF IndInv, GlobalInv, OuterInv, WorkInv, given, Over, Own, Lent, Rendering, Before, Nested
<1>1. CASE LoadAccount
  BY <1>1 DEF LoadAccount
<1>2. CASE NoOuterDevice
  BY <1>2 DEF NoOuterDevice
<1>3. CASE BeginOuter
  BY <1>3 DEF BeginOuter, SwapIn
<1>4. CASE NewOuter
  <2>1. global = Lent /\ saved = Own /\ outer.state = "none"
    BY <1>4 DEF NewOuter
  <2>2. New.state = "up" /\ New.keys = "outer" /\ New.peer = "built in"
        /\ New.addr = Lent.addr
    BY <2>1 DEF New
  <2>3. Lent' = Lent
    BY <1>4 DEF NewOuter
  <2> QED
    BY <1>4, <2>1, <2>2, <2>3 DEF NewOuter
<1>5. CASE OuterHandshake
  <2>1. global = Lent /\ outer.state = "up"
    BY <1>5 DEF OuterHandshake
  <2>2. global.keys = "outer" /\ Lent' = Lent
    BY <1>5, <2>1, Keys DEF OuterHandshake
  <2>3. DEFINE shaken == [outer EXCEPT !.peer = global.keys]
               shut == [outer EXCEPT !.state = "closed"]
  <2>4. shaken.state = "up" /\ shaken.keys = outer.keys
        /\ shaken.addr = outer.addr /\ shaken.peer = "outer"
    <3>1. outer \in Tunnels /\ "outer" \in Devices
      BY DEF VarsOK, Devices
    <3> QED
      BY ONLY <3>1, <2>1, <2>2, Shaken
  <2>5. shut.state = "closed" /\ shut.keys = outer.keys
        /\ shut.addr = outer.addr /\ shut.peer = outer.peer
    BY Shut DEF VarsOK
  <2> HIDE DEF shaken, shut
  <2>6. \/ pc' = "outer address" /\ outer' = shaken
        \/ pc' = "failed" /\ outer' = shut
    BY <1>5 DEF OuterHandshake, shaken, shut
  <2> QED
    BY <2>1, <2>2, <2>4, <2>5, <2>6
<1>6. CASE OuterAddress
  <2>1. outer.state = "up" /\ Lent' = Lent
    BY <1>6 DEF OuterAddress
  <2>2. DEFINE shut == [outer EXCEPT !.state = "closed"]
  <2>3. shut.state = "closed" /\ shut.keys = outer.keys
        /\ shut.addr = outer.addr /\ shut.peer = outer.peer
    BY Shut DEF VarsOK
  <2> HIDE DEF shut
  <2>4. \/ pc' = "failed" /\ outer' = shut
        \/ pc' = "scan" /\ outer' = outer
    BY <1>6 DEF OuterAddress, shut
  <2> QED
    BY <2>1, <2>3, <2>4
<1>7. CASE Scan
  BY <1>7 DEF Scan, Begin
<1>8. CASE Scanned
  BY <1>8 DEF Scanned, Goto
<1>9. CASE Speed
  BY <1>9 DEF Speed, Begin
<1>10. CASE UIOver
  BY <1>10 DEF UIOver, Goto
<1>11. CASE BeginConf
  BY <1>11 DEF BeginConf, SwapIn
<1>12. CASE RenderOuter
  BY <1>12 DEF RenderOuter, Interface
<1>13. CASE EndOuterConf
  BY <1>13 DEF EndOuterConf
<1>14. CASE RenderInner
  BY <1>14 DEF RenderInner, Interface
<1>15. CASE EndConf
  BY <1>15 DEF EndConf, SwapOut
<1>16. CASE Close
  <2>1. outer.state = "up" /\ Lent' = Lent
    BY <1>16 DEF Close
  <2>2. DEFINE shut == [outer EXCEPT !.state = "closed"]
  <2>3. shut.state = "closed" /\ shut.keys = outer.keys
        /\ shut.addr = outer.addr /\ shut.peer = outer.peer
    BY Shut DEF VarsOK
  <2> HIDE DEF shut
  <2>4. pc' \in {"done", "failed"} /\ outer' = shut
    BY <1>16 DEF Close, shut
  <2> QED
    BY <2>1, <2>3, <2>4
<1>17. CASE WorkEnds
  BY <1>17 DEF WorkEnds, Open
<1>18. ASSUME NEW w \in Workers, InnerOpens(w) PROVE OuterInv'
  BY <1>18 DEF InnerOpens, Goes, New, Open
<1>19. ASSUME NEW w \in Workers, InnerHandshake(w) PROVE OuterInv'
  BY <1>19 DEF InnerHandshake, Goes
<1>20. ASSUME NEW w \in Workers, InnerCloses(w) PROVE OuterInv'
  BY <1>20 DEF InnerCloses, Goes
<1>21. CASE UNCHANGED vars
  BY <1>21 DEF vars
<1> QED
  BY <1>1, <1>2, <1>3, <1>4, <1>5, <1>6, <1>7, <1>8, <1>9, <1>10,
     <1>11, <1>12, <1>13, <1>14, <1>15, <1>16, <1>17, <1>18, <1>19, <1>20, <1>21
     DEF Next, DialSteps, ConfSteps, WorkSteps

(* The inner ones are made while the account is. *)
LEMMA WorkStep == IndInv /\ [Next]_vars => WorkInv'
<1> SUFFICES ASSUME IndInv, [Next]_vars PROVE WorkInv'
  OBVIOUS
<1> USE NestAssumption DEF IndInv, GlobalInv, WorkInv, given, Over, Own, Swapped
<1>1. CASE LoadAccount
  BY <1>1 DEF LoadAccount
<1>2. CASE NoOuterDevice
  BY <1>2 DEF NoOuterDevice
<1>3. CASE BeginOuter
  BY <1>3 DEF BeginOuter, SwapIn
<1>4. CASE NewOuter
  BY <1>4 DEF NewOuter, New, SwapOut
<1>5. CASE OuterHandshake
  BY <1>5 DEF OuterHandshake, SwapOut
<1>6. CASE OuterAddress
  BY <1>6 DEF OuterAddress
<1>7. CASE Scan
  BY <1>7 DEF Scan, Begin
<1>8. CASE Scanned
  BY <1>8 DEF Scanned, Goto
<1>9. CASE Speed
  BY <1>9 DEF Speed, Begin
<1>10. CASE UIOver
  BY <1>10 DEF UIOver, Goto
<1>11. CASE BeginConf
  BY <1>11 DEF BeginConf, SwapIn
<1>12. CASE RenderOuter
  BY <1>12 DEF RenderOuter, Interface
<1>13. CASE EndOuterConf
  BY <1>13 DEF EndOuterConf
<1>14. CASE RenderInner
  BY <1>14 DEF RenderInner, Interface
<1>15. CASE EndConf
  BY <1>15 DEF EndConf, SwapOut
<1>16. CASE Close
  BY <1>16 DEF Close
<1>17. CASE WorkEnds
  BY <1>17 DEF WorkEnds, Open
<1>18. ASSUME NEW w \in Workers, InnerOpens(w) PROVE WorkInv'
  <2>1. global = Own
    BY <1>18 DEF InnerOpens
  <2>2. New.state = "up" /\ New.keys = "own" /\ New.peer = "built in"
        /\ New.addr = Own.addr
    BY <2>1 DEF New
  <2>3. Own' = Own /\ UNCHANGED <<pc, work>>
    BY <1>18 DEF InnerOpens, Goes
  <2>4. \A v \in Workers : inner'[v] = IF v = w THEN New ELSE inner[v]
    BY <1>18 DEF InnerOpens, Goes, VarsOK
  <2> QED
    BY <1>18, <2>2, <2>3, <2>4 DEF InnerOpens
<1>19. ASSUME NEW w \in Workers, InnerHandshake(w) PROVE WorkInv'
  <2>1. global.keys = "own"
    <3>1. global = Own
      BY <1>19 DEF InnerHandshake
    <3> QED
      BY <3>1, Keys
  <2>2. DEFINE shaken == [inner[w] EXCEPT !.peer = global.keys]
  <2>3. shaken.state = inner[w].state /\ shaken.keys = inner[w].keys
        /\ shaken.addr = inner[w].addr /\ shaken.peer = "own"
    <3>1. inner[w] \in Tunnels /\ "own" \in Devices
      BY DEF VarsOK, Devices
    <3> QED
      BY ONLY <3>1, <2>1, Shaken
  <2>4. Own' = Own /\ UNCHANGED <<pc, work>>
    BY <1>19 DEF InnerHandshake, Goes
  <2>5. \A v \in Workers : inner'[v] = IF v = w THEN shaken ELSE inner[v]
    BY <1>19 DEF InnerHandshake, Goes, VarsOK
  <2> HIDE DEF shaken
  <2> QED
    BY <1>19, <2>3, <2>4, <2>5 DEF InnerHandshake
<1>20. ASSUME NEW w \in Workers, InnerCloses(w) PROVE WorkInv'
  <2>1. DEFINE shut == [inner[w] EXCEPT !.state = "closed"]
  <2>2. shut.state = "closed" /\ shut.keys = inner[w].keys
        /\ shut.addr = inner[w].addr /\ shut.peer = inner[w].peer
    BY Shut DEF VarsOK
  <2>3. Own' = Own /\ UNCHANGED <<pc, work>>
    BY <1>20 DEF InnerCloses, Goes
  <2>4. \A v \in Workers : inner'[v] = IF v = w THEN shut ELSE inner[v]
    BY <1>20 DEF InnerCloses, Goes, VarsOK
  <2> HIDE DEF shut
  <2> QED
    BY <1>20, <2>2, <2>3, <2>4 DEF InnerCloses
<1>21. CASE UNCHANGED vars
  BY <1>21 DEF vars
<1> QED
  BY <1>1, <1>2, <1>3, <1>4, <1>5, <1>6, <1>7, <1>8, <1>9, <1>10,
     <1>11, <1>12, <1>13, <1>14, <1>15, <1>16, <1>17, <1>18, <1>19, <1>20, <1>21
     DEF Next, DialSteps, ConfSteps, WorkSteps

(* The config is written once, half by half. *)
LEMMA ConfStep == IndInv /\ [Next]_vars => ConfInv'
<1> SUFFICES ASSUME IndInv, [Next]_vars PROVE ConfInv'
  OBVIOUS
<1> USE NestAssumption DEF IndInv, VarsOK, GlobalInv, DeviceInv, ConfInv, given, Over, Own, Lent, Chained, Swapped, Rendering, Nested
<1>1. CASE LoadAccount
  BY <1>1 DEF LoadAccount
<1>2. CASE NoOuterDevice
  BY <1>2 DEF NoOuterDevice
<1>3. CASE BeginOuter
  BY <1>3 DEF BeginOuter, SwapIn
<1>4. CASE NewOuter
  BY <1>4 DEF NewOuter, New, SwapOut
<1>5. CASE OuterHandshake
  BY <1>5 DEF OuterHandshake, SwapOut
<1>6. CASE OuterAddress
  BY <1>6 DEF OuterAddress
<1>7. CASE Scan
  BY <1>7 DEF Scan, Begin
<1>8. CASE Scanned
  BY <1>8 DEF Scanned, Goto
<1>9. CASE Speed
  BY <1>9 DEF Speed, Begin
<1>10. CASE UIOver
  BY <1>10 DEF UIOver, Goto
<1>11. CASE BeginConf
  BY <1>11 DEF BeginConf, SwapIn
<1>12. CASE RenderOuter
  BY <1>12 DEF RenderOuter, Interface
<1>13. CASE EndOuterConf
  BY <1>13 DEF EndOuterConf
<1>14. CASE RenderInner
  <2>1. global = Chained /\ conf = <<Lent>>
    BY <1>14 DEF RenderInner
  <2>2. Interface = Chained
    BY <2>1 DEF Interface
  <2>3. Append(<<Lent>>, Chained) = <<Lent, Chained>>
    <3>1. Lent \in {Lent, Chained} /\ Chained \in {Lent, Chained}
      OBVIOUS
    <3> QED
      BY ONLY <3>1, Halves
  <2>4. conf' = <<Lent, Chained>>
    BY <1>14, <2>1, <2>2, <2>3 DEF RenderInner
  <2> QED
    BY <1>14, <2>1, <2>4 DEF RenderInner
<1>15. CASE EndConf
  BY <1>15 DEF EndConf, SwapOut
<1>16. CASE Close
  BY <1>16 DEF Close
<1>17. CASE WorkEnds
  BY <1>17 DEF WorkEnds, Open
<1>18. ASSUME NEW w \in Workers, InnerOpens(w) PROVE ConfInv'
  BY <1>18 DEF InnerOpens, Goes, New, Open
<1>19. ASSUME NEW w \in Workers, InnerHandshake(w) PROVE ConfInv'
  BY <1>19 DEF InnerHandshake, Goes
<1>20. ASSUME NEW w \in Workers, InnerCloses(w) PROVE ConfInv'
  BY <1>20 DEF InnerCloses, Goes
<1>21. CASE UNCHANGED vars
  BY <1>21 DEF vars
<1> QED
  BY <1>1, <1>2, <1>3, <1>4, <1>5, <1>6, <1>7, <1>8, <1>9, <1>10,
     <1>11, <1>12, <1>13, <1>14, <1>15, <1>16, <1>17, <1>18, <1>19, <1>20, <1>21
     DEF Next, DialSteps, ConfSteps, WorkSteps
(* It holds at the start, before any account is loaded.                    *)
LEMMA InitEstablishes == Init => IndInv
<1> SUFFICES ASSUME Init PROVE IndInv
  OBVIOUS
<1>1. NoTunnel \in Tunnels /\ NoTunnel.state = "none"
  BY NestAssumption DEF NoTunnel, Tunnels, Devices
<1>2. VarsOK
  BY <1>1, NestAssumption DEF Init, VarsOK, Globals, Devices
<1>3. GlobalInv /\ DeviceInv
  BY DEF Init, GlobalInv, DeviceInv, Rendering, Swapped, Dialling, Nested
<1>4. OuterInv /\ WorkInv
  BY <1>1 DEF Init, OuterInv, WorkInv, Before, Nested
<1>5. ConfInv
  BY DEF Init, ConfInv, Rendering
<1> QED
  BY <1>2, <1>3, <1>4, <1>5 DEF IndInv

(* IndInv is inductive.                                                    *)
THEOREM NestInvariant == Spec => []IndInv
<1>1. IndInv /\ [Next]_vars => IndInv'
  BY TypeStep, GlobalStep, DeviceStep, OuterStep, WorkStep, ConfStep DEF IndInv
<1> QED
  BY InitEstablishes, <1>1, PTL DEF Spec

(* Every variable has its type: the config too, whose interfaces are the   *)
(* values the globals had.                                                 *)
THEOREM TypeCorrect == Spec => []TypeOK
<1>1. IndInv => TypeOK
  <2> SUFFICES ASSUME IndInv PROVE conf \in Seq(Globals)
    BY DEF IndInv, TypeOK
  <2>1. Own.addr \in Addresses
    BY NestAssumption DEF IndInv, VarsOK, Own, Over
  <2>2. CASE conf = <<>>
    BY <2>2
  <2>3. CASE conf # <<>>
    <3>1. Lent.addr \in Addresses
      BY <2>1, <2>3 DEF IndInv, ConfInv, Lent, Over
    <3>2. Lent \in Globals
      BY <3>1 DEF Lent, Globals, Devices
    <3>3. Chained \in Globals
      BY <2>1 DEF Chained, Globals, Devices
    <3>4. <<Lent>> \in Seq(Globals) /\ <<Lent, Chained>> \in Seq(Globals)
      BY <3>2, <3>3
    <3>5. conf = <<Lent>> \/ conf = <<Lent, Chained>>
      BY <2>3 DEF IndInv, ConfInv
    <3> QED
      BY ONLY <3>4, <3>5
  <2> QED
    BY <2>2, <2>3
<1> QED
  BY NestInvariant, <1>1, PTL

(* withOuterKeys: whatever fails between, the scanning account is back in  *)
(* the globals once no call holds the outer device's.                      *)
THEOREM KeysComeBack == Spec => []GlobalsComeBack
<1>1. IndInv => GlobalsComeBack
  BY DEF IndInv, GlobalInv, GlobalsComeBack
<1> QED
  BY NestInvariant, <1>1, PTL

(* No tunnel mixes the two devices, however the scan's workers, the swaps  *)
(* and the failures interleave.                                            *)
THEOREM RightDevice == Spec => []OneDeviceEach
<1>1. IndInv => OneDeviceEach
  <2> SUFFICES ASSUME IndInv PROVE OneDeviceEach
    OBVIOUS
  <2>1. account.outer # Absent => Lent.addr = account.outer
    BY DEF Lent, Over
  <2> QED
    BY <2>1 DEF IndInv, OuterInv, WorkInv, OneDeviceEach
<1> QED
  BY NestInvariant, <1>1, PTL

(* What a config of two interfaces holds.                                  *)
LEMMA Whole ==
  ASSUME IndInv, Len(conf) = 2
  PROVE  /\ conf = <<Lent, Chained>> /\ account.outer \in Addresses
         /\ warned = (~opts.mihomo /\ opts.ipv6 /\ Own.addr = Lent.addr)
<1>1. conf \in {<<>>, <<Lent>>, <<Lent, Chained>>}
  BY DEF IndInv, ConfInv
<1>2. conf = <<Lent, Chained>>
  BY <1>1, Lengths
<1>3. conf # <<>>
  BY Lengths
<1> QED
  BY <1>2, <1>3 DEF IndInv, ConfInv

(* A written chain has the outer device's interface and then the account's.*)
THEOREM ChainOfBoth == Spec => []ConfIsOfBoth
<1>1. IndInv => ConfIsOfBoth
  <2> SUFFICES ASSUME IndInv, Len(conf) = 2 PROVE ConfIsOfBoth
    BY DEF ConfIsOfBoth
  <2>1. conf = <<Lent, Chained>> /\ account.outer \in Addresses
    BY Whole
  <2>2. Lent.addr = account.outer
    BY <2>1, NestAssumption DEF Lent, Over
  <2>3. Chained.addr \in {Own.addr, Moved}
    BY DEF Chained
  <2> QED
    BY <2>1, <2>2, <2>3, Keys, Lengths DEF ConfIsOfBoth
<1> QED
  BY NestInvariant, <1>1, PTL

(* withChainAddr: whichever addresses the file has or lacks, a native chain*)
(* has two of them, or the config says that it has not.                    *)
THEOREM ChainDiffers == Spec => []AddressesDiffer
<1>1. IndInv => AddressesDiffer
  <2> SUFFICES ASSUME IndInv, Len(conf) = 2, ~opts.mihomo
               PROVE  conf[1].addr # conf[2].addr \/ warned
    BY DEF AddressesDiffer
  <2>1. conf = <<Lent, Chained>> /\ account.outer \in Addresses
        /\ warned = (opts.ipv6 /\ Own.addr = Lent.addr)
    BY Whole
  <2>2. Lent.addr # Moved
    BY <2>1, NestAssumption DEF Lent, Over
  <2>3. Chained.addr = IF ~opts.ipv6 /\ Own.addr = Lent.addr THEN Moved
                       ELSE Own.addr
    BY DEF Chained
  <2>4. Lent.addr # Chained.addr \/ (opts.ipv6 /\ Own.addr = Lent.addr)
    BY <2>2, <2>3
  <2>5. conf[1] = Lent /\ conf[2] = Chained
    BY <2>1, Lengths
  <2> QED
    BY <2>1, <2>4, <2>5
<1> QED
  BY NestInvariant, <1>1, PTL

(* A scan has the outer tunnel for as long as it has inner ones, and no    *)
(* return of the command leaves the outer tunnel open.                     *)
THEOREM OuterLast == Spec => []OuterOutlivesInner
<1>1. IndInv => OuterOutlivesInner
  BY DEF IndInv, OuterInv, WorkInv, OuterOutlivesInner, Open, Nested
<1> QED
  BY NestInvariant, <1>1, PTL

-----------------------------------------------------------------------------
(* The WireGuard tunnel.  Naturals have minima, which the least counter-   *)
(* example, or the longest sleep, is made from.                            *)
LEMMA NatMin ==
  ASSUME NEW T, T \subseteq Nat, T # {}
  PROVE  \E x \in T : \A y \in T : x <= y
<1> DEFINE R == OpToRel(<, Nat)
<1>1. IsWellFoundedOn(R, Nat)
      BY NatLessThanWellFounded
<1>2. \A x, y \in Nat : <<y, x>> \in R <=> y < x
      BY DEF OpToRel
<1> HIDE DEF R
<1>3. PICK x \in T : \A y \in T : ~ (<<y, x>> \in R)
      BY <1>1, WFMin
<1>4. ASSUME NEW y \in T  PROVE x <= y
  <2>1. x \in Nat /\ y \in Nat
        OBVIOUS
  <2>2. ~ (y < x)
        BY <1>2, <1>3, <2>1
  <2> QED  BY <2>1, <2>2
<1> QED  BY <1>4

(* The sleeps of waitHandshake start at handshakePollStart and double up to*)
(* handshakePollMax.                                                       *)
LEMMA SleepsDouble ==
  /\ Sleeps \subseteq 1 .. 2 * PollMax
  /\ PollStart \in Sleeps
  /\ \A v \in Sleeps : v < PollMax => 2 * v \in Sleeps
<1> USE PollAssumption
<1>1. Sleeps \subseteq 1 .. 2 * PollMax
      BY DEF Sleeps
<1>2. PollStart \in Sleeps
      BY DEF Sleeps
<1>3. ASSUME NEW v \in Sleeps, v < PollMax  PROVE 2 * v \in Sleeps
  <2>1. 2 * v \in 1 .. 2 * PollMax
        BY <1>1, <1>3
  <2>2. ASSUME NEW S \in SUBSET (1 .. 2 * PollMax), PollStart \in S,
               \A u \in S : u < PollMax => 2 * u \in S
        PROVE  2 * v \in S
        BY <1>3, <2>2 DEF Sleeps
  <2> QED  BY <2>1, <2>2 DEF Sleeps
<1> QED  BY <1>1, <1>2, <1>3

(* There is a longest one: the least bound of the sleeps is one of them.   *)
LEMMA LongestIsOne ==
  LongestSleep \in Sleeps /\ \A v \in Sleeps : v <= LongestSleep
<1> DEFINE Bounds == {u \in Nat : \A v \in Sleeps : v <= u}
<1>1. Sleeps \subseteq Nat /\ PollStart \in Sleeps /\ PollStart > 0
      BY SleepsDouble, PollAssumption
<1>2. 2 * PollMax \in Bounds
      BY SleepsDouble, PollAssumption
<1>3. PICK m \in Bounds : \A u \in Bounds : m <= u
      BY <1>2, NatMin
<1>4. m \in Sleeps
  <2> SUFFICES ASSUME m \notin Sleeps  PROVE FALSE
      OBVIOUS
  <2>1. m > 0
        BY <1>1
  <2>2. m - 1 \in Bounds
        BY <1>1, <2>1
  <2> QED  BY <1>3, <2>2
<1>5. \E w \in Sleeps : \A v \in Sleeps : v <= w
      BY <1>4
<1> QED  BY <1>5 DEF LongestSleep

LEMMA LongestSize ==
  /\ LongestSleep \in 1 .. 2 * PollMax
  /\ \A v \in Sleeps : v \in 1 .. LongestSleep
  BY LongestIsOne, SleepsDouble, PollAssumption

(* Whose peer the device has: the one the current call set, or none.       *)
PeerInv ==
  /\ peer \in {0, n}
  /\ done => peer # 0
  /\ sock = "open" => owner \in {"idle", "unset", "poll", "sleep"}
  /\ owner = "new" => said = "none" /\ ~done
  /\ owner = "unset" => peer = 0

(* How the clock stands to the time the endpoint got through: a sleep that *)
(* is under way ends less than one longest sleep after that, and before the*)
(* deadline is overrun by one.                                             *)
TimeInv ==
  /\ wait \in Sleeps
  /\ now < Timeout + LongestSleep
  /\ owner = "unset" => seenAt = Never
  /\ owner \in {"poll", "sleep"} /\ ~done => seenAt = Never
  /\ owner = "poll" => now <= seenAt + LongestSleep
  /\ owner = "sleep" => /\ now <= wake /\ wake < Timeout + LongestSleep
                        /\ wake <= now + LongestSleep
                        /\ wake <= seenAt + LongestSleep
  /\ owner = "idle" /\ said = "no" /\ ~ctxDone =>
       /\ Timeout <= seenAt + LongestSleep
       /\ now >= Timeout \/ peer = 0

DeviceNumbers ==
  /\ n \in 0 .. Calls /\ peer \in 0 .. n /\ flying \subseteq 1 .. n
  /\ now \in 0 .. Never - 1 /\ wake \in 0 .. Never - 1
  /\ wait \in 1 .. 2 * PollMax /\ seenAt \in 0 .. Never

WGInv == WGTypeOK /\ PeerInv /\ TimeInv

LEMMA WGStarts == WGInit => WGInv
<1> SUFFICES ASSUME WGInit  PROVE WGInv
    OBVIOUS
<1> USE DEF WGInit
<1>1. WGTypeOK
  <2>1. done \in BOOLEAN /\ ctxDone \in BOOLEAN
        OBVIOUS
  <2>2. DeviceNumbers
        BY PollAssumption DEF DeviceNumbers, Never
  <2> QED  BY <2>1, <2>2 DEF WGTypeOK, DeviceNumbers
<1>2. PeerInv
      BY DEF PeerInv
<1>3. TimeInv
  <2>1. Timeout \in Nat /\ LongestSleep \in Nat /\ LongestSleep > 0
        BY LongestSize, PollAssumption
  <2>2. wait \in Sleeps
        BY SleepsDouble
  <2> QED  BY <2>1, <2>2 DEF TimeInv
<1> QED  BY <1>1, <1>2, <1>3 DEF WGInv

(* Types.                                                                  *)
LEMMA WGTypes ==
  ASSUME WGTypeOK, [WGNext]_wgVars  PROVE WGTypeOK'
<1> USE PollAssumption DEF Never
<1>0. /\ DeviceNumbers /\ done \in BOOLEAN /\ ctxDone \in BOOLEAN
      BY DEF WGTypeOK, DeviceNumbers
<1>1. done' \in BOOLEAN /\ ctxDone' \in BOOLEAN
      BY <1>0 DEF WGNext, Owner, Up, UpFails, NotSet, Return, Poll, Tick, Wake,
         Closed, CloseDevice, CancelCtx, EndpointAnswers, ReadFails, Handshake,
         SetPeer, Receive, device, clock, wgVars
<1>2. DeviceNumbers'
  <2> USE <1>0 DEF DeviceNumbers
  <2>1. CASE Up \/ UpFails \/ NotSet \/ Wake \/ Closed \/ CancelCtx
               \/ ReadFails \/ UNCHANGED wgVars
        BY <2>1 DEF Up, UpFails, NotSet, Return, Wake, Closed, CancelCtx,
           ReadFails, device, clock, wgVars
  <2>2. CASE Poll
    <3>1. UNCHANGED <<n, peer, flying, now, seenAt>>
          BY <2>2 DEF Poll, Return, device, clock
    <3>2. \/ wake' = wake /\ wait' = wait
          \/ /\ now < Timeout /\ wake' = now + wait
             /\ wait' = IF wait < PollMax THEN 2 * wait ELSE wait
      <4>1. CASE now >= Timeout \/ ctxDone
            BY <2>2, <4>1 DEF Poll, Return, clock
      <4>2. CASE ~ (now >= Timeout \/ ctxDone)
        <5>1. now < Timeout
              BY <4>2
        <5> QED  BY <2>2, <4>2, <5>1 DEF Poll, Return, Backoff, clock
      <4> QED  BY <4>1, <4>2
    <3> QED  BY <3>1, <3>2
  <2>3. CASE Tick
        BY <2>3 DEF Tick, device
  <2>4. CASE CloseDevice
        BY <2>4 DEF CloseDevice, clock
  <2>5. CASE EndpointAnswers
        BY <2>5 DEF EndpointAnswers, clock
  <2>6. ASSUME NEW ok \in BOOLEAN, Handshake(ok)  PROVE DeviceNumbers'
        BY <2>6 DEF Handshake, SetPeer
  <2>7. ASSUME NEW c \in 1 .. n, Receive(c)  PROVE DeviceNumbers'
        BY <2>7 DEF Receive, clock
  <2> HIDE DEF DeviceNumbers
  <2> QED  BY <2>1, <2>2, <2>3, <2>4, <2>5, <2>6, <2>7 DEF WGNext, Owner
<1>3. /\ owner' \in {"new", "idle", "unset", "poll", "sleep", "closing",
                     "closed"}
      /\ said' \in {"none", "yes", "no"}
      /\ sock' \in {"none", "open", "closed"}
      /\ receiver' \in {"none", "reading", "ended"}
      BY DEF WGTypeOK, WGNext, Owner, Up, UpFails, NotSet, Return, Poll, Tick,
         Wake, Closed, CloseDevice, CancelCtx, EndpointAnswers, ReadFails,
         Handshake, SetPeer, Receive, device, clock, wgVars
<1> QED  BY <1>1, <1>2, <1>3 DEF WGTypeOK, DeviceNumbers

LEMMA PeerKept ==
  ASSUME WGTypeOK, PeerInv, [WGNext]_wgVars  PROVE PeerInv'
<1> USE DEF PeerInv
<1>0. n \in Nat /\ done \in BOOLEAN
      BY DEF WGTypeOK
<1>1. CASE Owner
      BY <1>0, <1>1 DEF Owner, Up, UpFails, NotSet, Return, Poll, Tick, Wake,
         Closed, device, clock
<1>2. CASE CloseDevice \/ CancelCtx \/ EndpointAnswers \/ ReadFails
             \/ UNCHANGED wgVars
      BY <1>2 DEF CloseDevice, CancelCtx, EndpointAnswers, ReadFails, device,
         wgVars
<1>3. ASSUME NEW ok \in BOOLEAN, Handshake(ok)  PROVE PeerInv'
      BY <1>0, <1>3 DEF Handshake, SetPeer
<1>4. ASSUME NEW c \in 1 .. n, Receive(c)  PROVE PeerInv'
      BY <1>0, <1>4 DEF Receive
<1> QED  BY <1>1, <1>2, <1>3, <1>4 DEF WGNext

LEMMA TimeKept ==
  ASSUME WGInv, [WGNext]_wgVars  PROVE TimeInv'
<1>0. /\ Timeout \in Nat /\ LongestSleep \in Nat /\ LongestSleep > 0
      /\ Never \in Nat /\ Timeout <= Never
      /\ now \in Nat /\ wake \in Nat /\ seenAt \in Nat /\ n \in Nat
      /\ wait \in 1 .. LongestSleep
      BY LongestSize, PollAssumption DEF WGInv, WGTypeOK, TimeInv, Never
<1>1. done \in BOOLEAN /\ ctxDone \in BOOLEAN
      BY DEF WGInv, WGTypeOK
<1> USE DEF TimeInv
<1>2. TimeInv /\ PeerInv
      BY DEF WGInv
<1>3. CASE UNCHANGED <<wait, now, seenAt, done, owner, ctxDone, wake, said, peer>>
      BY <1>2, <1>3
<1>4. CASE Up \/ UpFails \/ Closed \/ CloseDevice
      BY <1>2, <1>4 DEF Up, UpFails, Closed, CloseDevice, PeerInv, device, clock
<1>5. CASE CancelCtx
      BY <1>2, <1>5 DEF CancelCtx, device, clock
<1>6. CASE NotSet
      BY <1>0, <1>2, <1>6 DEF NotSet, Return, PeerInv, device, clock
<1>7. CASE Poll
  <2>1. wait' \in Sleeps
        BY <1>2, <1>7, SleepsDouble DEF Poll, Return, Backoff, clock
  <2>2. CASE now >= Timeout \/ ctxDone
        BY <1>0, <1>2, <1>7, <2>2 DEF Poll, Return, device, clock
  <2>3. CASE ~ (now >= Timeout \/ ctxDone) /\ done
        BY <1>0, <1>2, <1>7, <2>3 DEF Poll, Return, device, clock
  <2>4. CASE ~ (now >= Timeout \/ ctxDone) /\ ~done
        BY <1>0, <1>1, <1>2, <1>7, <2>1, <2>4 DEF Poll, device
  <2> QED  BY <2>2, <2>3, <2>4
<1>8. CASE Tick
      BY <1>0, <1>1, <1>2, <1>8 DEF Tick, device
<1>9. CASE Wake
      BY <1>0, <1>1, <1>2, <1>9 DEF Wake, device, clock
<1>10. ASSUME NEW ok \in BOOLEAN, Handshake(ok)  PROVE TimeInv'
      BY <1>0, <1>10, SleepsDouble DEF Handshake, SetPeer
<1>11. ASSUME NEW c \in 1 .. n, Receive(c)  PROVE TimeInv'
  <2>1. UNCHANGED <<wait, now, owner, ctxDone, wake, said, peer>>
        BY <1>11 DEF Receive, clock
  <2>2. CASE c = peer /\ ~done
    <3>1. seenAt' = now /\ done' = TRUE
          BY <1>11, <2>2 DEF Receive
    <3>2. peer # 0
          BY <1>0, <2>2
    <3>3. owner # "unset"
          BY <1>2, <3>2 DEF PeerInv
    <3> QED  BY <1>0, <1>2, <2>1, <3>1, <3>2, <3>3
  <2>3. CASE ~ (c = peer /\ ~done)
    <3>1. seenAt' = seenAt /\ (done' <=> done)
          BY <1>1, <1>11, <2>3 DEF Receive
    <3> QED  BY <1>2, <2>1, <3>1
  <2> QED  BY <2>2, <2>3
<1>12. CASE EndpointAnswers \/ ReadFails \/ UNCHANGED wgVars
      BY <1>3, <1>12 DEF EndpointAnswers, ReadFails, device, clock, wgVars
<1> QED
    BY <1>4, <1>5, <1>6, <1>7, <1>8, <1>9, <1>10, <1>11, <1>12
    DEF WGNext, Owner

LEMMA WGInvariant == WGSpec => []WGInv
<1>1. WGInv /\ [WGNext]_wgVars => WGInv'
      BY WGTypes, PeerKept, TimeKept DEF WGInv
<1> QED  BY <1>1, WGStarts, PTL DEF WGSpec

(* Every variable of the tunnel keeps its type.                            *)
THEOREM WGTypesHold == WGSpec => []WGTypeOK
<1>1. WGInv => WGTypeOK
      BY DEF WGInv
<1> QED  BY <1>1, WGInvariant, PTL

(* Whatever the timeout and the sleeps of waitHandshake, the back-off loses*)
(* no endpoint that got through a longest sleep before the deadline, and no*)
(* call overruns its timeout by one.                                       *)
THEOREM BackoffCostsNothing == WGSpec => []PollIsInTime
<1>1. WGInv => PollIsInTime
  <2> SUFFICES ASSUME WGInv  PROVE PollIsInTime
      OBVIOUS
  <2>1. /\ Timeout \in Nat /\ LongestSleep \in Nat /\ seenAt \in Nat
        BY LongestSize, PollAssumption DEF WGInv, WGTypeOK, Never
  <2>2. TimeInv /\ ctxDone \in BOOLEAN
        BY DEF WGInv, WGTypeOK
  <2> QED  BY <2>1, <2>2 DEF TimeInv, PollIsInTime
<1> QED  BY <1>1, WGInvariant, PTL

(* The device starts as TunnelPromise does, and no step of the tunnel, its *)
(* peers or its timers is anything but a step of the promise or none: true *)
(* is never said of an endpoint but that of the call, late responses to    *)
(* calls before it included.  The fairness of the promise is the run's.    *)
THEOREM WGTunnelIsTunnel == WGSpec => Tunnel!Safe
<1> USE DEF Tunnel!vars
<1>1. WGInit => Tunnel!Init
      BY DEF WGInit, Tunnel!Init
<1>2. ASSUME WGInv, [WGNext]_wgVars
      PROVE  [Tunnel!Next]_(Tunnel!vars)
  <2> USE DEF Tunnel!Next
  <2>0. PeerInv /\ n \in Nat /\ done \in BOOLEAN
        BY <1>2 DEF WGInv, WGTypeOK
  <2>1. CASE Up
        BY <2>1 DEF Up
  <2>2. CASE UpFails
        BY <2>0, <2>2 DEF UpFails, PeerInv, device, Tunnel!Close
  <2>3. CASE NotSet
        BY <2>3 DEF NotSet, Return, device, Tunnel!Return
  <2>4. CASE Poll
        BY <2>0, <2>4 DEF Poll, Return, PeerInv, device, Tunnel!Return
  <2>5. CASE Tick \/ Wake
        BY <2>5 DEF Tick, Wake, device
  <2>6. CASE Closed
        BY <2>6 DEF Closed, device, Tunnel!Release
  <2>7. CASE CloseDevice
        BY <2>7 DEF CloseDevice, Tunnel!Close
  <2>8. CASE CancelCtx \/ EndpointAnswers \/ ReadFails \/ UNCHANGED wgVars
    <3>1. UNCHANGED <<owner, n, peer, done, said>>
          BY <2>8 DEF CancelCtx, EndpointAnswers, ReadFails, device, wgVars
    <3> QED  BY <3>1
  <2>9. ASSUME NEW ok \in BOOLEAN, Handshake(ok)
        PROVE  [Tunnel!Next]_(Tunnel!vars)
        BY <2>9 DEF Handshake, SetPeer, Tunnel!Call
  <2>10. ASSUME NEW c \in 1 .. n, Receive(c)
         PROVE  [Tunnel!Next]_(Tunnel!vars)
        BY <2>0, <2>10 DEF Receive, PeerInv, Tunnel!Link
  <2> QED
      BY <1>2, <2>1, <2>2, <2>3, <2>4, <2>5, <2>6, <2>7, <2>8, <2>9, <2>10
      DEF WGNext, Owner
<1> QED  BY <1>1, <1>2, WGInvariant, PTL DEF WGSpec, Tunnel!Safe
=============================================================================
