-------------------------- MODULE ConnectionProofs --------------------------
(***************************************************************************)
(* Proofs about the connection to a printer, for any number of clients,    *)
(* reports, lost sessions and raising callbacks: its types, that the       *)
(* client's word "connected" is worth something, and that reports never    *)
(* overtake each other.                                                    *)
(***************************************************************************)
EXTENDS Connection, SequenceTheorems, TLAPS

(* Sequences that are ordered between two bounds. *)

(* An empty inbox is in order. *)
LEMMA OrderedEmpty ==
    ASSUME NEW low, NEW high PROVE Ordered(<<>>, low, high)
BY DEF Ordered

(* Taking the oldest report leaves the others in order behind it. *)
LEMMA OrderedTail ==
    ASSUME NEW s \in Seq(Nat), s # <<>>, NEW low \in Nat, NEW high \in Nat,
           Ordered(s, low, high)
    PROVE  Head(s) \in low .. high /\ Ordered(Tail(s), Head(s), high)
<1>1. /\ Len(s) \in Nat \ {0}
      /\ \A i \in 1 .. Len(s) : s[i] \in Nat
      /\ Head(s) = s[1]
  BY EmptySeq, LenProperties
<1>2. /\ Len(Tail(s)) = Len(s) - 1
      /\ \A i \in 1 .. Len(Tail(s)) : Tail(s)[i] = s[i + 1]
  BY HeadTailProperties
<1>3. s[1] \in low .. high /\ \A k \in 1 .. Len(s) : s[1] <= s[k]
  BY <1>1 DEF Ordered
<1>4. ASSUME NEW i \in 1 .. Len(Tail(s))
      PROVE  /\ Tail(s)[i] \in Head(s) .. high
             /\ \A k \in i .. Len(Tail(s)) : Tail(s)[i] <= Tail(s)[k]
  <2>1. i + 1 \in 1 .. Len(s) /\ \A k \in i .. Len(Tail(s)) : k + 1 \in (i + 1) .. Len(s)
    BY <1>1, <1>2
  <2>2. s[i + 1] \in low .. high /\ s[1] <= s[i + 1]
    BY <1>3, <2>1 DEF Ordered
  <2>3. \A k \in i .. Len(Tail(s)) : s[i + 1] <= s[k + 1]
    BY <2>1 DEF Ordered
  <2>4. \A k \in i .. Len(Tail(s)) : Tail(s)[k] = s[k + 1]
    BY <1>1, <1>2
  <2>5. QED
    BY <1>1, <1>2, <2>1, <2>2, <2>3, <2>4
<1>5. QED
  BY <1>1, <1>3, <1>4 DEF Ordered

(* A report newer than all that wait may join them. *)
LEMMA OrderedAppend ==
    ASSUME NEW s \in Seq(Nat), NEW low \in Nat, NEW high \in Nat, NEW v \in Nat,
           Ordered(s, low, high), low <= v, high <= v
    PROVE  Ordered(Append(s, v), low, v)
<1> DEFINE t == Append(s, v)
<1>1. /\ Len(s) \in Nat
      /\ \A i \in 1 .. Len(s) : s[i] \in Nat
  BY LenProperties
<1>2. /\ Len(t) = Len(s) + 1
      /\ \A i \in 1 .. Len(s) : t[i] = s[i]
      /\ t[Len(s) + 1] = v
  BY AppendProperties
<1> HIDE DEF t
<1>3. ASSUME NEW i \in 1 .. Len(t)
      PROVE  t[i] \in low .. v /\ \A k \in i .. Len(t) : t[i] <= t[k]
  <2>1. CASE i = Len(s) + 1
    BY <1>1, <1>2, <2>1
  <2>2. CASE i # Len(s) + 1
    <3>1. i \in 1 .. Len(s)
      BY <1>1, <1>2, <2>2
    <3>2. s[i] \in low .. high /\ \A k \in i .. Len(s) : s[i] <= s[k]
      BY <3>1 DEF Ordered
    <3>3. ASSUME NEW k \in i .. Len(t) PROVE t[i] <= t[k]
      <4>1. CASE k = Len(s) + 1
        BY <1>1, <1>2, <3>1, <3>2, <4>1
      <4>2. CASE k # Len(s) + 1
        <5>1. k \in i .. Len(s) /\ k \in 1 .. Len(s)
          BY <1>1, <1>2, <3>1, <4>2
        <5>2. t[i] = s[i] /\ t[k] = s[k]
          BY <1>2, <3>1, <5>1
        <5>3. QED
          BY <3>2, <5>1, <5>2
      <4>3. QED
        BY <4>1, <4>2
    <3>4. QED
      BY <1>1, <1>2, <3>1, <3>2, <3>3
  <2>3. QED
    BY <2>1, <2>2
<1>4. QED
  BY <1>3 DEF Ordered, t

(* The upper bound may grow. *)
LEMMA OrderedWiden ==
    ASSUME NEW s \in Seq(Nat), NEW low \in Nat, NEW high \in Nat, NEW v \in Nat,
           Ordered(s, low, high), high <= v
    PROVE  Ordered(s, low, v)
<1>1. Len(s) \in Nat /\ \A i \in 1 .. Len(s) : s[i] \in Nat
  BY LenProperties
<1>2. QED
  BY <1>1 DEF Ordered

----------------------------------------------------------------------------
(* Types *)

(* A network thread moves on. *)
LEMMA NetMoves ==
    ASSUME TypeOK, NEW c \in Client, NEW q \in NetPC
    PROVE  /\ [net EXCEPT ![c].pc = q] \in [Client -> NetState]
           /\ [net EXCEPT ![c].pc = q][c].pc = q
           /\ [net EXCEPT ![c].pc = q][c].seen = net[c].seen
           /\ [net EXCEPT ![c].pc = q][c].snapshot = net[c].snapshot
           /\ \A d \in Client \ {c} : [net EXCEPT ![c].pc = q][d] = net[d]
BY DEF TypeOK, NetState

(* ... in a step, *)
LEMMA NetTurns ==
    ASSUME TypeOK, NEW c \in Client, NEW q \in NetPC, net' = [net EXCEPT ![c].pc = q]
    PROVE  /\ net' \in [Client -> NetState]
           /\ net'[c].pc = q
           /\ \A d \in Client \ {c} : net'[d] = net[d]
BY NetMoves

(* ... with a snapshot to write, or with a report in hand. *)
LEMMA NetWrites ==
    ASSUME TypeOK, NEW c \in Client, NEW v \in View,
           net' = [net EXCEPT ![c].pc = "write", ![c].snapshot = v]
    PROVE  /\ net' \in [Client -> NetState]
           /\ net'[c].pc = "write" /\ net'[c].snapshot = v
           /\ \A d \in Client \ {c} : net'[d] = net[d]
BY DEF TypeOK, NetState, NetPC

(* What becomes of the network threads when one takes a report up. *)
LEMMA NetTakes ==
    ASSUME TypeOK, NEW c \in Client, NEW v \in Version,
           net' = [net EXCEPT ![c].pc = "adopt", ![c].seen = v]
    PROVE  /\ net' \in [Client -> NetState]
           /\ net'[c].pc = "adopt" /\ net'[c].seen = v
           /\ \A d \in Client \ {c} : net'[d] = net[d]
BY DEF TypeOK, NetState, NetPC

(* Versions of the printer's state are numbers. *)
LEMMA VersionNat == Version \subseteq Nat /\ (MaxReports \in Nat)
BY ConnectionAssumption DEF Version

(* So are the bounds of the environment. *)
LEMMA BoundsNat ==
    MaxReports \in Nat /\ MaxDrops \in Nat /\ MaxEarly \in Nat /\ MaxFaults \in Nat
BY ConnectionAssumption

(* What a client knows keeps its version when it goes offline. *)
LEMMA KnownOffline ==
    ASSUME TypeOK
    PROVE  /\ [known EXCEPT !.live = FALSE] \in View
           /\ [known EXCEPT !.live = FALSE].version = known.version
BY DEF TypeOK, View

(* The service starts without a client. *)
LEMMA TypeInit == Init => TypeOK
<1> SUFFICES ASSUME Init PROVE TypeOK
  OBVIOUS
<1>1. 0 \in Version /\ Unseen \in View
  BY ConnectionAssumption DEF Version, View, Unseen
<1>2. Stopped \in NetState
  BY <1>1 DEF Stopped, NetState, NetPC
<1>3. rec \in [pc : RecPC, prev : Client \cup {NoClient}]
  BY DEF Init, RecPC
<1>4. inbox \in [Client -> Seq(Version)]
  BY EmptySeq DEF Init
<1>5. link \in [Client -> Link]
  BY DEF Init, Link
<1>6. net \in [Client -> NetState]
  BY <1>2 DEF Init
<1>7. drops \in 0 .. MaxDrops /\ early \in 0 .. MaxEarly /\ faults \in 0 .. MaxFaults
  BY BoundsNat DEF Init
<1>8. printer \in Version /\ known \in View /\ row \in View
  BY <1>1 DEF Init
<1>9. /\ current \in Client \cup {NoClient} /\ connected \in BOOLEAN
      /\ asks \in SUBSET Client /\ reachable \in BOOLEAN
  BY DEF Init
<1>10. QED
  BY <1>3, <1>4, <1>5, <1>6, <1>7, <1>8, <1>9 DEF TypeOK

(* Every step keeps the types. *)
LEMMA TypeStep == TypeOK /\ [Next]_vars => TypeOK'
<1> SUFFICES ASSUME TypeOK, [Next]_vars PROVE TypeOK'
  OBVIOUS
<1>1. ASSUME Wake \/ Detach PROVE TypeOK'
  <2>1. rec' \in [pc : RecPC, prev : Client \cup {NoClient}]
    <3>1. CASE Wake
      BY <3>1 DEF Wake, TypeOK, RecPC
    <3>2. CASE Detach
      BY <3>2 DEF Detach, TypeOK, RecPC
    <3>3. QED
      BY <1>1, <3>1, <3>2
  <2>2. early' \in 0 .. MaxEarly
    BY <1>1, BoundsNat DEF Wake, Detach, TypeOK, bounds
  <2>3. QED
    BY <1>1, <2>1, <2>2 DEF Wake, Detach, TypeOK, netVars, clientVars, bounds
<1>2. CASE Join
  <2>1. /\ net' \in [Client -> NetState] /\ link' \in [Client -> Link]
        /\ inbox' \in [Client -> Seq(Version)]
    <3>1. Stopped \in NetState
      BY VersionNat DEF Stopped, NetState, NetPC, Unseen, View, Version
    <3>2. <<>> \in Seq(Version) /\ "none" \in Link
      BY EmptySeq DEF Link
    <3>3. QED
      BY <1>2, <3>1, <3>2 DEF Join, TypeOK
  <2>2. QED
    BY <1>2, <2>1 DEF Join, TypeOK, RecPC, clientVars, bounds
<1>3. CASE \E c \in Client : Attach(c)
  BY <1>3 DEF Attach, TypeOK, RecPC, netVars, bounds
<1>4. CASE DialOk
  <2>1. "running" \in NetPC /\ "handshake" \in Link /\ "sleep" \in RecPC
    BY DEF NetPC, Link, RecPC
  <2>2. [net EXCEPT ![current].pc = "running"] \in [Client -> NetState]
    BY <2>1 DEF TypeOK, NetState
  <2>3. QED
    BY <1>4, <2>1, <2>2 DEF DialOk, TypeOK, clientVars, bounds
<1>5. CASE DialFails
  <2>1. known' \in View /\ "sleep" \in RecPC
    BY <1>5, KnownOffline DEF DialFails, RecPC
  <2>2. drops' \in 0 .. MaxDrops
    BY <1>5, BoundsNat DEF DialFails, TypeOK
  <2>3. QED
    BY <1>5, <2>1, <2>2 DEF DialFails, TypeOK, netVars
<1>6. ASSUME NEW c \in Client, OnConnect(c) PROVE TypeOK'
  <2>1. net' \in [Client -> NetState]
    <3>1. "accept" \in NetPC
      BY DEF NetPC
    <3>2. CASE c = current
      <4>1. net' = [net EXCEPT ![c].pc = "accept"]
        BY <1>6, <3>2 DEF OnConnect
      <4>2. QED
        BY <3>1, <4>1, NetTurns
    <3>3. CASE c # current
      BY <1>6, <3>3 DEF OnConnect, TypeOK
    <3>4. QED
      BY <3>2, <3>3
  <2>2. link' \in [Client -> Link]
    BY <1>6 DEF OnConnect, TypeOK, Link
  <2>3. QED
    BY <1>6, <2>1, <2>2 DEF OnConnect, TypeOK, clientVars, bounds
<1>7. ASSUME NEW c \in Client, Accept(c) \/ Refuse(c) PROVE TypeOK'
  <2>1. net' \in [Client -> NetState]
    <3>1. "running" \in NetPC /\ net' = [net EXCEPT ![c].pc = "running"]
      BY <1>7 DEF Accept, Refuse, NetPC
    <3>2. QED
      BY <3>1, NetTurns
  <2>2. link' \in [Client -> Link]
    BY <1>7 DEF Accept, Refuse, TypeOK, Link
  <2>3. known' \in View /\ connected' \in BOOLEAN /\ asks' \in SUBSET Client
    BY <1>7, KnownOffline DEF Accept, Refuse, TypeOK
  <2>4. drops' \in 0 .. MaxDrops
    BY <1>7, BoundsNat DEF Accept, Refuse, TypeOK, bounds
  <2>5. QED
    BY <1>7, <2>1, <2>2, <2>3, <2>4 DEF Accept, Refuse, TypeOK, bounds
<1>8. ASSUME NEW c \in Client, OnDisconnect(c) PROVE TypeOK'
  <2>1. known' \in View /\ net' \in [Client -> NetState]
    <3>1. CASE c = current
      <4>1. known' = [known EXCEPT !.live = FALSE]
        BY <1>8, <3>1 DEF OnDisconnect
      <4>2. known' \in View
        BY <4>1, KnownOffline
      <4>3. net' = [net EXCEPT ![c].pc = "write", ![c].snapshot = known']
        BY <1>8, <3>1 DEF OnDisconnect
      <4>4. QED
        BY <4>2, <4>3, NetWrites
    <3>2. CASE c # current
      BY <1>8, <3>2 DEF OnDisconnect, TypeOK
    <3>3. QED
      BY <3>1, <3>2
  <2>2. link' \in [Client -> Link] /\ inbox' \in [Client -> Seq(Version)]
    BY <1>8, EmptySeq DEF OnDisconnect, TypeOK, Link
  <2>3. QED
    BY <1>8, <2>1, <2>2 DEF OnDisconnect, TypeOK, bounds
<1>9. ASSUME NEW c \in Client, OnMessage(c) PROVE TypeOK'
  <2>1. inbox[c] \in Seq(Version) /\ inbox[c] # <<>>
    BY <1>9 DEF OnMessage, TypeOK
  <2>2. Head(inbox[c]) \in Version /\ Tail(inbox[c]) \in Seq(Version)
    BY <2>1, HeadTailProperties
  <2>3. net' \in [Client -> NetState]
    BY <1>9, <2>2, NetTakes DEF OnMessage
  <2>4. QED
    BY <1>9, <2>2, <2>3 DEF OnMessage, TypeOK, clientVars, bounds
<1>10. ASSUME NEW c \in Client, Adopt(c) PROVE TypeOK'
  <2>1. known' \in View
    BY <1>10 DEF Adopt, TypeOK, NetState, View
  <2>2. net' \in [Client -> NetState]
    BY <1>10, <2>1, NetWrites DEF Adopt
  <2>3. QED
    BY <1>10, <2>1, <2>2 DEF Adopt, TypeOK, bounds
<1>11. ASSUME NEW c \in Client, WriteRow(c) \/ WriteRaises(c) PROVE TypeOK'
  <2>1. net' \in [Client -> NetState]
    <3>1. "running" \in NetPC /\ "dead" \in NetPC
      BY DEF NetPC
    <3>2. CASE WriteRow(c)
      BY <3>1, <3>2, NetMoves DEF WriteRow
    <3>3. CASE WriteRaises(c)
      BY <3>1, <3>3, NetMoves DEF WriteRaises
    <3>4. QED
      BY <1>11, <3>2, <3>3
  <2>2. row' \in View
    BY <1>11 DEF WriteRow, WriteRaises, TypeOK, NetState
  <2>3. faults' \in 0 .. MaxFaults
    BY <1>11, BoundsNat DEF WriteRow, WriteRaises, TypeOK, bounds
  <2>4. QED
    BY <1>11, <2>1, <2>2, <2>3 DEF WriteRow, WriteRaises, TypeOK, clientVars, bounds
<1>12. ASSUME NEW c \in Client, Ask(c) PROVE TypeOK'
  <2>1. Append(inbox[c], printer) \in Seq(Version)
    BY AppendProperties DEF TypeOK
  <2>2. inbox' \in [Client -> Seq(Version)]
    BY <1>12, <2>1 DEF Ask, TypeOK
  <2>3. QED
    BY <1>12, <2>2 DEF Ask, TypeOK, clientVars, bounds
<1>13. ASSUME NEW c \in Client, Redial(c) PROVE TypeOK'
  BY <1>13 DEF Redial, TypeOK, Link, clientVars, bounds
<1>14. CASE LinkDrops
  <2>1. link' \in [Client -> Link]
    BY <1>14 DEF LinkDrops, LosesLink, TypeOK, Link
  <2>2. reachable' \in BOOLEAN
    BY <1>14 DEF LinkDrops, TypeOK
  <2>3. drops' \in 0 .. MaxDrops
    BY <1>14, BoundsNat DEF LinkDrops, TypeOK
  <2>4. QED
    BY <1>14, <2>1, <2>2, <2>3 DEF LinkDrops, TypeOK, clientVars
<1>15. CASE BrokerBack
  BY <1>15 DEF BrokerBack, TypeOK, clientVars, netVars, bounds
<1>16. CASE PrinterChanges
  <2>1. printer' \in Version
    BY <1>16, BoundsNat DEF PrinterChanges, TypeOK, Version
  <2>2. \A c \in Client : Append(inbox[c], printer') \in Seq(Version)
    BY <2>1, AppendProperties DEF TypeOK
  <2>3. inbox' \in [Client -> Seq(Version)]
    BY <1>16, <2>2 DEF PrinterChanges, TypeOK
  <2>4. QED
    BY <1>16, <2>1, <2>3 DEF PrinterChanges, TypeOK, clientVars, bounds
<1>17. CASE UNCHANGED vars
  BY <1>17 DEF vars, TypeOK, clientVars, netVars, bounds
<1>18. QED
  BY <1>1, <1>2, <1>3, <1>4, <1>5, <1>6, <1>7, <1>8, <1>9, <1>10, <1>11, <1>12, <1>13,
     <1>14, <1>15, <1>16, <1>17 DEF Next, ReconnectStep, NetworkStep

----------------------------------------------------------------------------
(* Threads and sessions *)

(* Two threads that are alive are the same. *)
LEMMA OnlyOne ==
    ASSUME OneThread, NEW c \in Client, NEW d \in Client, Alive(c), Alive(d)
    PROVE  c = d
<1>1. c \in {current, rec.prev} /\ d \in {current, rec.prev}
  BY DEF OneThread
<1>2. CASE rec.pc = "join"
  BY <1>1, <1>2, ConnectionAssumption DEF OneThread
<1>3. CASE rec.pc # "join"
  BY <1>1, <1>3, ConnectionAssumption DEF OneThread
<1>4. QED
  BY <1>2, <1>3

(* A step of a client whose thread is and stays alive, and that changes    *)
(* only that client's thread, session and inbox.                           *)
LEMMA ThreadKept ==
    ASSUME TypeOK, OneThread, NEW c \in Client, Alive(c), Alive(c)',
           net'[c].pc = "accept" => link'[c] \in {"handshake", "lost"},
           UNCHANGED <<current, rec>>,
           \A d \in Client \ {c} :
              net'[d] = net[d] /\ link'[d] = link[d] /\ inbox'[d] = inbox[d]
    PROVE  OneThread'
<1>1. rec.pc = "dial" => current # c
  BY DEF OneThread
<1>2. rec.pc = "dial" => current \in Client \ {c} /\ ~Alive(current)'
  BY <1>1 DEF OneThread, TypeOK, Alive
<1>3. ASSUME NEW d \in Client
      PROVE IF Alive(d)' THEN d \in {current, rec.prev} ELSE link'[d] = "none" /\ inbox'[d] = <<>>
  <2>1. CASE d = c
    BY <2>1 DEF OneThread
  <2>2. CASE d # c
    BY <2>2 DEF OneThread, Alive
  <2>3. QED
    BY <2>1, <2>2
<1>4. rec.pc \notin {"join", "attach", "dial"} /\ current # NoClient => Alive(current)'
  BY DEF OneThread, TypeOK, Alive
<1>5. \A d \in Client : net'[d].pc = "accept" => link'[d] \in {"handshake", "lost"}
  BY DEF OneThread
<1>6. QED
  BY <1>2, <1>3, <1>4, <1>5 DEF OneThread

(* What a network thread that does not go away leaves in place: it accepts *)
(* or refuses a session that is being made or was lost.                    *)
LEMMA StaysAlive ==
    ASSUME TypeOK, NEW c \in Client, NetworkStep(c) \/ Redial(c)
    PROVE  /\ Alive(c) /\ Alive(c)'
           /\ net'[c].pc = "accept" => link'[c] \in {"handshake", "lost"}
           /\ UNCHANGED <<current, rec>>
           /\ \A d \in Client \ {c} :
                 net'[d] = net[d] /\ link'[d] = link[d] /\ inbox'[d] = inbox[d]
<1>1. CASE OnConnect(c)
  <2>1. "accept" \in NetPC /\ net[c].pc = "running" /\ link[c] = "handshake"
    BY <1>1 DEF OnConnect, Idle, NetPC
  <2>2. CASE c = current
    <3>1. /\ net' = [net EXCEPT ![c].pc = "accept"]
          /\ UNCHANGED <<current, rec, link, inbox>>
      BY <1>1, <2>2 DEF OnConnect, clientVars
    <3>2. net'[c].pc = "accept" /\ \A d \in Client \ {c} : net'[d] = net[d]
      BY <2>1, <3>1, NetTurns
    <3>3. QED
      BY <2>1, <3>1, <3>2 DEF Alive
  <2>3. CASE c # current
    BY <1>1, <2>1, <2>3 DEF OnConnect, Alive, TypeOK, clientVars
  <2>4. QED
    BY <2>2, <2>3
<1>2. CASE Accept(c) \/ Refuse(c)
  <2>1. /\ "running" \in NetPC /\ net[c].pc = "accept"
        /\ net' = [net EXCEPT ![c].pc = "running"] /\ UNCHANGED <<current, rec, inbox>>
    BY <1>2 DEF Accept, Refuse, NetPC
  <2>2. net'[c].pc = "running" /\ \A d \in Client \ {c} : net'[d] = net[d]
    BY <2>1, NetTurns
  <2>3. \A d \in Client \ {c} : link'[d] = link[d]
    BY <1>2 DEF Accept, Refuse, TypeOK
  <2>4. QED
    BY <2>1, <2>2, <2>3 DEF Alive
<1>3. CASE Redial(c)
  BY <1>3 DEF Redial, Idle, Alive, TypeOK, clientVars
<1>4. CASE OnDisconnect(c)
  <2>1. CASE c = current
    <3>1. net' = [net EXCEPT ![c].pc = "write", ![c].snapshot = known']
      BY <1>4, <2>1 DEF OnDisconnect
    <3>2. known' \in View
      BY <1>4, <2>1, KnownOffline DEF OnDisconnect
    <3>3. QED
      BY <1>4, <3>1, <3>2, NetWrites DEF OnDisconnect, Idle, Alive, TypeOK
  <2>2. CASE c # current
    BY <1>4, <2>2 DEF OnDisconnect, Idle, Alive, TypeOK
  <2>3. QED
    BY <2>1, <2>2
<1>5. CASE OnMessage(c)
  <2>1. inbox[c] \in Seq(Version) /\ inbox[c] # <<>>
    BY <1>5 DEF OnMessage, TypeOK
  <2>2. Head(inbox[c]) \in Version
    BY <2>1, HeadTailProperties
  <2>3. QED
    BY <1>5, <2>2, NetTakes DEF OnMessage, Idle, Alive, TypeOK, clientVars
<1>6. CASE Adopt(c)
  <2>1. known' \in View
    BY <1>6 DEF Adopt, TypeOK, NetState, View
  <2>2. QED
    BY <1>6, <2>1, NetWrites DEF Adopt, Alive, TypeOK
<1>7. CASE WriteRow(c) \/ WriteRaises(c)
  <2>1. PICK q \in {"running", "dead"} : net' = [net EXCEPT ![c].pc = q]
    BY <1>7 DEF WriteRow, WriteRaises
  <2>2. q \in NetPC
    BY <2>1 DEF NetPC
  <2>3. net'[c].pc = q /\ \A d \in Client \ {c} : net'[d] = net[d]
    BY <2>1, <2>2, NetMoves
  <2>4. QED
    BY <1>7, <2>1, <2>3 DEF WriteRow, WriteRaises, Alive, clientVars
<1>8. QED
  BY <1>1, <1>2, <1>3, <1>4, <1>5, <1>6, <1>7 DEF NetworkStep

(* Every step keeps the threads apart. *)
LEMMA ThreadStep == TypeOK /\ OneThread /\ [Next]_vars => OneThread'
<1> SUFFICES ASSUME TypeOK, OneThread, [Next]_vars PROVE OneThread'
  OBVIOUS
<1>1. CASE Wake
  BY <1>1 DEF Wake, OneThread, TypeOK, Alive, netVars, clientVars
<1>2. CASE Detach
  BY <1>2, ConnectionAssumption DEF Detach, OneThread, Alive, netVars
<1>3. CASE Join
  <2>1. /\ rec.pc = "join" /\ current = NoClient /\ current' = NoClient
        /\ rec' = [pc |-> "attach", prev |-> NoClient]
    BY <1>3 DEF Join, OneThread, clientVars
  <2>2. \A d \in Client : ~Alive(d)' /\ link'[d] = "none" /\ inbox'[d] = <<>>
    <3>1. TAKE d \in Client
    <3>2. CASE d = rec.prev
      BY <1>3, <3>2 DEF Join, Alive, Stopped
    <3>3. CASE d # rec.prev
      BY <1>3, <2>1, <3>3, ConnectionAssumption DEF Join, OneThread, Alive
    <3>4. QED
      BY <3>2, <3>3
  <2>3. QED
    BY <2>1, <2>2 DEF OneThread, Alive
<1>4. CASE \E c \in Client : Attach(c)
  BY <1>4, ConnectionAssumption DEF Attach, OneThread, TypeOK, Alive, netVars
<1>5. CASE DialOk
  <2>1. /\ rec.pc = "dial" /\ rec'.pc = "sleep" /\ rec'.prev = NoClient
        /\ current' = current /\ current \in Client
    BY <1>5 DEF DialOk, OneThread, TypeOK, clientVars
  <2>2. \A d \in Client \ {current} :
           net'[d] = net[d] /\ link'[d] = link[d] /\ inbox'[d] = inbox[d]
    BY <1>5 DEF DialOk, TypeOK
  <2>3. Alive(current)'
    BY <1>5, <2>1 DEF DialOk, Alive, TypeOK, NetState
  <2>4. rec.prev = NoClient
    BY <2>1 DEF OneThread
  <2>5. \A d \in Client : net'[d].pc = "accept" => link'[d] \in {"handshake", "lost"}
    <3>1. net'[current].pc = "running"
      BY <1>5, <2>1 DEF DialOk, TypeOK, NetState
    <3>2. QED
      BY <2>2, <3>1 DEF OneThread
  <2>6. QED
    BY <2>1, <2>2, <2>3, <2>4, <2>5, ConnectionAssumption DEF OneThread, Alive
<1>6. CASE DialFails
  BY <1>6, ConnectionAssumption DEF DialFails, OneThread, TypeOK, Alive, netVars
<1>7. ASSUME NEW c \in Client, NetworkStep(c) \/ Redial(c) PROVE OneThread'
  BY <1>7, StaysAlive, ThreadKept
<1>8. ASSUME NEW c \in Client, Ask(c) PROVE OneThread'
  <2>1. UNCHANGED <<rec, current, net, link>>
    BY <1>8 DEF Ask, clientVars
  <2>2. \A d \in Client : inbox'[d] = inbox[d] \/ link[d] = "up"
    BY <1>8 DEF Ask, TypeOK
  <2>3. QED
    BY <2>1, <2>2 DEF OneThread, Alive
<1>9. CASE LinkDrops
  <2>1. UNCHANGED <<rec, current, net, inbox>>
    BY <1>9 DEF LinkDrops, clientVars
  <2>2. \A d \in Client : link'[d] = link[d] \/ (link[d] # "none" /\ link'[d] = "lost")
    BY <1>9 DEF LinkDrops, LosesLink, Sessions, TypeOK
  <2>3. QED
    BY <2>1, <2>2 DEF OneThread, Alive
<1>10. CASE BrokerBack
  BY <1>10 DEF BrokerBack, OneThread, Alive, clientVars, netVars
<1>11. CASE PrinterChanges
  <2>1. UNCHANGED <<rec, current, net, link>>
    BY <1>11 DEF PrinterChanges, clientVars
  <2>2. \A d \in Client : inbox'[d] = inbox[d] \/ link[d] = "up"
    BY <1>11 DEF PrinterChanges
  <2>3. QED
    BY <2>1, <2>2 DEF OneThread, Alive
<1>12. CASE UNCHANGED vars
  BY <1>12 DEF vars, OneThread, Alive, clientVars, netVars
<1>13. QED
  BY <1>1, <1>2, <1>3, <1>4, <1>5, <1>6, <1>7, <1>8, <1>9, <1>10, <1>11, <1>12
     DEF Next, ReconnectStep

----------------------------------------------------------------------------
(* What the client says of its session *)

(* Every step keeps the flag _connected in step with the session.  An      *)
(* acceptance that comes late finds the reconnect thread at work.          *)
LEMMA SessionStep == TypeOK /\ OneThread /\ SessionOK /\ [Next]_vars => SessionOK'
<1> SUFFICES ASSUME TypeOK, OneThread, SessionOK, [Next]_vars PROVE SessionOK'
  OBVIOUS
<1>1. CASE Wake \/ Detach \/ DialFails
  BY <1>1 DEF Wake, Detach, DialFails, SessionOK, netVars, clientVars
<1>2. CASE Join
  BY <1>2 DEF Join, OneThread, SessionOK, clientVars
<1>3. CASE \E c \in Client : Attach(c)
  BY <1>3, ConnectionAssumption DEF Attach, OneThread, SessionOK, Alive, TypeOK, netVars
<1>4. CASE DialOk
  <2>1. current \in Client /\ current' = current
    BY <1>4 DEF DialOk, OneThread, TypeOK, clientVars
  <2>2. link'[current] = "handshake"
    BY <1>4, <2>1 DEF DialOk, TypeOK
  <2>3. QED
    BY <2>1, <2>2, ConnectionAssumption DEF SessionOK
<1>5. ASSUME NEW c \in Client, NetworkStep(c) \/ Redial(c) PROVE SessionOK'
  <2>1. /\ Alive(c) /\ current' = current /\ rec' = rec
        /\ \A d \in Client \ {c} : link'[d] = link[d]
    BY <1>5, StaysAlive
  <2>2. CASE c # current
    <3>1. rec.pc = "join" /\ current = NoClient
      BY <2>1, <2>2, ConnectionAssumption DEF OneThread
    <3>2. QED
      BY <2>1, <3>1 DEF SessionOK
  <2>3. CASE c = current
    <3>1. current # NoClient /\ link[c] \in Link
      BY <2>3, ConnectionAssumption DEF TypeOK
    <3>2. \/ link'[c] \in {"up", "lost"} /\ connected'
          \/ link'[c] # "up" /\ ~connected'
          \/ link'[c] = link[c] /\ connected' = connected
          \/ link'[c] = "handshake" /\ connected' = connected
      <4>1. CASE Accept(c)
        <5>1. link[c] \in {"handshake", "lost"}
          BY <4>1 DEF Accept, OneThread
        <5>2. QED
          BY <4>1, <5>1 DEF Accept, TypeOK
      <4>2. CASE OnConnect(c) \/ Refuse(c) \/ OnDisconnect(c)
        BY <2>3, <4>2 DEF OnConnect, Refuse, OnDisconnect, TypeOK, clientVars
      <4>3. CASE OnMessage(c) \/ Adopt(c) \/ WriteRow(c) \/ WriteRaises(c)
        BY <4>3 DEF OnMessage, Adopt, WriteRow, WriteRaises, clientVars
      <4>4. CASE Redial(c)
        BY <4>4 DEF Redial, TypeOK, clientVars
      <4>5. QED
        BY <1>5, <4>1, <4>2, <4>3, <4>4 DEF NetworkStep
    <3>3. QED
      BY <2>1, <2>3, <3>1, <3>2 DEF SessionOK
  <2>4. QED
    BY <2>2, <2>3
<1>6. ASSUME NEW c \in Client, Ask(c) PROVE SessionOK'
  BY <1>6 DEF Ask, SessionOK, clientVars
<1>7. CASE LinkDrops
  <2>1. UNCHANGED <<rec, current, connected, net>>
    BY <1>7 DEF LinkDrops, clientVars
  <2>2. PICK C \in SUBSET Sessions : LosesLink(C)
    BY <1>7 DEF LinkDrops
  <2>3. \A d \in Client : link'[d] = link[d] \/ (link'[d] = "lost" /\ link[d] # "none")
    BY <2>2 DEF LosesLink, Sessions
  <2>4. current # NoClient => current \in Client
    BY DEF TypeOK
  <2>5. QED
    BY <2>1, <2>3, <2>4 DEF SessionOK
<1>8. CASE BrokerBack \/ PrinterChanges
  BY <1>8 DEF BrokerBack, PrinterChanges, SessionOK, clientVars, netVars
<1>9. CASE UNCHANGED vars
  BY <1>9 DEF vars, SessionOK, clientVars, netVars
<1>10. QED
  BY <1>1, <1>2, <1>3, <1>4, <1>5, <1>6, <1>7, <1>8, <1>9 DEF Next, ReconnectStep

----------------------------------------------------------------------------
(* The order of reports *)

(* A step that leaves a client's thread and inbox, the printer and what is *)
(* known to the version alone leaves that client's order alone.            *)
LEMMA OrderFrame ==
    ASSUME NEW c \in Client, OrderAt(c), net'[c] = net[c], inbox'[c] = inbox[c],
           printer' = printer, known'.version = known.version
    PROVE  OrderAt(c)'
BY DEF OrderAt, Low

(* What the order of reports compares are numbers. *)
LEMMA OrderTypes ==
    ASSUME TypeOK, NEW c \in Client
    PROVE  /\ inbox[c] \in Seq(Nat) /\ printer \in Nat /\ known.version \in Nat
           /\ row.version \in Nat /\ net[c].seen \in Nat /\ Low(c) \in Nat
<1>1. Seq(Version) \subseteq Seq(Nat)
  BY VersionNat, SeqMonotonic
<1>2. known.version \in Nat /\ row.version \in Nat /\ printer \in Nat
  BY VersionNat DEF TypeOK, View
<1>3. net[c].seen \in Nat
  BY VersionNat DEF TypeOK, NetState
<1>4. inbox[c] \in Seq(Nat)
  BY <1>1 DEF TypeOK
<1>5. QED
  BY <1>2, <1>3, <1>4 DEF Low

(* What a network thread does to the order of its client's reports: it     *)
(* takes the first one, and knows no less than before.                     *)
LEMMA NetworkOrder ==
    ASSUME TypeOK, OneThread, InOrder, NEW c \in Client, NetworkStep(c) \/ Redial(c)
    PROVE  InOrder' /\ known'.version >= known.version /\ row'.version >= row.version
<1>1. /\ \A d \in Client : OrderAt(d)
      /\ row.version <= known.version /\ row.version \in Nat /\ known.version \in Nat
      /\ printer \in Nat /\ inbox[c] \in Seq(Nat) /\ net[c].seen \in Nat /\ Low(c) \in Nat
  BY OrderTypes DEF InOrder
<1>2. \A d \in Client \ {c} : net'[d] = net[d] /\ inbox'[d] = inbox[d]
  BY StaysAlive
<1>3. ASSUME printer' = printer, known'.version = known.version, OrderAt(c)',
             row'.version = row.version \/ row'.version = known.version
      PROVE  InOrder' /\ known'.version >= known.version /\ row'.version >= row.version
  <2>1. ASSUME NEW d \in Client \ {c} PROVE OrderAt(d)'
    BY <1>1, <1>2, <1>3, OrderFrame
  <2>2. QED
    BY <1>1, <1>3, <2>1 DEF InOrder
<1>4. CASE OnConnect(c) \/ Accept(c) \/ Refuse(c) \/ Redial(c)
  <2>1. /\ inbox' = inbox /\ printer' = printer /\ row' = row
        /\ net[c].pc \in {"running", "accept"}
    BY <1>4 DEF OnConnect, Accept, Refuse, Redial, Idle
  <2>2. known'.version = known.version
    BY <1>4, KnownOffline DEF OnConnect, Accept, Refuse, Redial, clientVars
  <2>3. net'[c].pc \in {"running", "accept"}
    <3>1. \/ net' = net
          \/ \E q \in {"running", "accept"} : net' = [net EXCEPT ![c].pc = q]
      BY <1>4 DEF OnConnect, Accept, Refuse, Redial
    <3>2. {"running", "accept"} \subseteq NetPC
      BY DEF NetPC
    <3>3. QED
      BY <2>1, <3>1, <3>2, NetTurns
  <2>4. OrderAt(c)'
    BY <1>1, <2>1, <2>2, <2>3 DEF OrderAt, Low
  <2>5. QED
    BY <1>3, <2>1, <2>2, <2>4
<1>5. CASE OnDisconnect(c)
  <2>1. /\ printer' = printer /\ row' = row /\ inbox'[c] = <<>>
        /\ net[c].pc = "running"
    BY <1>5 DEF OnDisconnect, Idle, TypeOK
  <2>2. known'.version = known.version /\ known' \in View
    BY <1>5, KnownOffline DEF OnDisconnect, TypeOK
  <2>3. net'[c].pc # "adopt" /\ (net'[c].pc = "write" => net'[c].snapshot = known')
    <3>1. CASE c = current
      <4>1. net' = [net EXCEPT ![c].pc = "write", ![c].snapshot = known']
        BY <1>5, <3>1 DEF OnDisconnect
      <4>2. QED
        BY <2>2, <4>1, NetWrites
    <3>2. CASE c # current
      BY <1>5, <2>1, <3>2 DEF OnDisconnect
    <3>3. QED
      BY <3>1, <3>2
  <2>4. known.version \in known.version .. printer
    BY <1>1, <2>1 DEF OrderAt, Low
  <2>5. Low(c)' = known'.version
    BY <2>3 DEF Low
  <2>6. Ordered(inbox'[c], Low(c)', printer')
    BY <2>1, OrderedEmpty
  <2>7. OrderAt(c)'
    BY <2>1, <2>2, <2>3, <2>4, <2>5, <2>6 DEF OrderAt
  <2>8. QED
    BY <1>3, <2>1, <2>2, <2>7
<1>6. CASE OnMessage(c)
  <2>1. /\ printer' = printer /\ row' = row /\ known' = known
        /\ inbox[c] # <<>> /\ inbox'[c] = Tail(inbox[c]) /\ net[c].pc = "running"
        /\ net' = [net EXCEPT ![c].pc = "adopt", ![c].seen = Head(inbox[c])]
    BY <1>6 DEF OnMessage, Idle, TypeOK, clientVars
  <2>2. Head(inbox[c]) \in Version
    <3>1. inbox[c] \in Seq(Version)
      BY DEF TypeOK
    <3>2. QED
      BY <2>1, <3>1, HeadTailProperties
  <2>3. net'[c].pc = "adopt" /\ net'[c].seen = Head(inbox[c])
    BY <2>1, <2>2, NetTakes
  <2>4. Low(c) = known.version /\ Ordered(inbox[c], Low(c), printer)
    BY <1>1, <2>1 DEF OrderAt, Low
  <2>5. /\ Head(inbox[c]) \in known.version .. printer
        /\ Ordered(Tail(inbox[c]), Head(inbox[c]), printer)
    BY <1>1, <2>1, <2>4, OrderedTail
  <2>6. OrderAt(c)'
    BY <2>1, <2>3, <2>5 DEF OrderAt, Low
  <2>7. QED
    BY <1>3, <2>1, <2>6
<1>7. CASE Adopt(c)
  <2>1. /\ net[c].pc = "adopt" /\ printer' = printer /\ row' = row /\ inbox' = inbox
        /\ known' = [version |-> net[c].seen, live |-> TRUE]
        /\ net' = [net EXCEPT ![c].pc = "write", ![c].snapshot = known']
    BY <1>7 DEF Adopt
  <2>2. known' \in View /\ known'.version = net[c].seen
    BY <2>1 DEF TypeOK, NetState, View
  <2>3. net'[c].pc = "write" /\ net'[c].snapshot = known'
    BY <2>1, <2>2, NetWrites
  <2>4. Low(c) = net[c].seen /\ net[c].seen \in known.version .. printer
    BY <1>1, <2>1 DEF OrderAt, Low
  <2>5. OrderAt(c)'
    <3>1. Low(c)' = net[c].seen
      BY <2>2, <2>3 DEF Low
    <3>2. Ordered(inbox[c], net[c].seen, printer)
      BY <1>1, <2>4 DEF OrderAt
    <3>3. QED
      BY <1>1, <2>1, <2>2, <2>3, <2>4, <3>1, <3>2 DEF OrderAt
  <2>6. ASSUME NEW d \in Client \ {c} PROVE OrderAt(d)'
    <3>1. ~Alive(d)
      BY <2>1, OnlyOne DEF Alive
    <3>2. net'[d].pc = "stopped" /\ inbox'[d] = <<>>
      BY <1>2, <3>1 DEF OneThread, Alive
    <3>3. Low(d)' = known'.version
      BY <3>2 DEF Low
    <3>4. Ordered(inbox'[d], Low(d)', printer')
      BY <3>2, OrderedEmpty
    <3>5. known'.version \in known'.version .. printer'
      BY <1>1, <2>1, <2>2, <2>4
    <3>6. QED
      BY <3>2, <3>3, <3>4, <3>5 DEF OrderAt
  <2>7. QED
    BY <1>1, <2>1, <2>2, <2>4, <2>5, <2>6 DEF InOrder
<1>8. CASE WriteRow(c) \/ WriteRaises(c)
  <2>1. PICK q \in {"running", "dead"} : net' = [net EXCEPT ![c].pc = q]
    BY <1>8 DEF WriteRow, WriteRaises
  <2>2. net'[c].pc = q
    <3>1. q \in NetPC
      BY <2>1 DEF NetPC
    <3>2. QED
      BY <2>1, <3>1, NetMoves
  <2>3. /\ net[c].pc = "write" /\ printer' = printer /\ known' = known /\ inbox' = inbox
        /\ row' = row \/ row' = net[c].snapshot
    BY <1>8 DEF WriteRow, WriteRaises, clientVars
  <2>4. Low(c) = known.version /\ Low(c)' = known.version
    BY <2>1, <2>2, <2>3 DEF Low
  <2>5. OrderAt(c) /\ net[c].snapshot.version = known.version
    BY <1>1, <2>3 DEF OrderAt
  <2>6. OrderAt(c)'
    BY <2>1, <2>2, <2>3, <2>4, <2>5 DEF OrderAt
  <2>7. QED
    BY <1>3, <2>3, <2>5, <2>6
<1>9. QED
  BY <1>4, <1>5, <1>6, <1>7, <1>8 DEF NetworkStep

(* Every step keeps reports in order, in the client and in the store. *)
LEMMA OrderStep ==
    TypeOK /\ OneThread /\ InOrder /\ [Next]_vars =>
        InOrder' /\ known'.version >= known.version /\ row'.version >= row.version
<1> SUFFICES ASSUME TypeOK, OneThread, InOrder, [Next]_vars
             PROVE  InOrder' /\ known'.version >= known.version /\ row'.version >= row.version
  OBVIOUS
<1>1. /\ row.version <= known.version /\ row.version \in Nat /\ known.version \in Nat
      /\ printer \in Nat
  BY VersionNat DEF InOrder, TypeOK, View
<1>2. ASSUME NEW c \in Client
      PROVE  /\ OrderAt(c) /\ Low(c) \in Nat /\ inbox[c] \in Seq(Nat)
             /\ known.version <= printer
  BY <1>1, OrderTypes DEF InOrder, OrderAt
<1>3. ASSUME row' = row, known'.version = known.version, \A c \in Client : OrderAt(c)'
      PROVE  InOrder' /\ known'.version >= known.version /\ row'.version >= row.version
  BY <1>1, <1>3 DEF InOrder
<1>4. ASSUME row' = row, known'.version = known.version, net' = net, inbox' = inbox,
             printer' = printer
      PROVE  InOrder' /\ known'.version >= known.version /\ row'.version >= row.version
  BY <1>2, <1>3, <1>4, OrderFrame
<1>5. CASE Wake \/ Detach \/ LinkDrops \/ BrokerBack \/ (\E c \in Client : Attach(c))
  BY <1>4, <1>5 DEF Wake, Detach, LinkDrops, BrokerBack, Attach, clientVars, netVars
<1>6. CASE DialFails
  BY <1>4, <1>6, KnownOffline DEF DialFails, netVars
<1>7. CASE UNCHANGED vars
  BY <1>4, <1>7 DEF vars, clientVars, netVars
<1>8. CASE Join
  <2>1. row' = row /\ known' = known /\ printer' = printer
    BY <1>8 DEF Join, clientVars
  <2>2. ASSUME NEW c \in Client PROVE OrderAt(c)'
    <3>1. CASE c = rec.prev
      <4>1. net'[c].pc = "stopped" /\ inbox'[c] = <<>>
        BY <1>8, <3>1 DEF Join, Stopped
      <4>2. Low(c)' = known.version
        BY <2>1, <4>1 DEF Low
      <4>3. Ordered(inbox'[c], Low(c)', printer')
        BY <4>1, OrderedEmpty
      <4>4. QED
        BY <1>1, <1>2, <2>1, <4>1, <4>2, <4>3 DEF OrderAt
    <3>2. CASE c # rec.prev
      <4>1. net'[c] = net[c] /\ inbox'[c] = inbox[c]
        BY <1>8, <3>2 DEF Join
      <4>2. QED
        BY <1>2, <2>1, <4>1, OrderFrame
    <3>3. QED
      BY <3>1, <3>2
  <2>3. QED
    BY <1>3, <2>1, <2>2
<1>9. CASE DialOk
  <2>1. row' = row /\ known' = known /\ printer' = printer /\ inbox' = inbox
    BY <1>9 DEF DialOk, clientVars
  <2>2. current \in Client /\ net[current].pc = "stopped"
    BY <1>9 DEF DialOk, OneThread, Alive, TypeOK
  <2>3. /\ net'[current].pc = "running"
        /\ \A c \in Client \ {current} : net'[c] = net[c]
    BY <1>9, <2>2 DEF DialOk, TypeOK, NetState
  <2>4. ASSUME NEW c \in Client PROVE OrderAt(c)'
    <3>1. CASE c = current
      BY <1>2, <2>1, <2>2, <2>3, <3>1 DEF OrderAt, Low
    <3>2. CASE c # current
      BY <1>2, <2>1, <2>3, <3>2, OrderFrame
    <3>3. QED
      BY <3>1, <3>2
  <2>5. QED
    BY <1>3, <2>1, <2>4
<1>10. ASSUME NEW c \in Client, NetworkStep(c) \/ Redial(c)
       PROVE  InOrder' /\ known'.version >= known.version /\ row'.version >= row.version
  BY <1>10, NetworkOrder
<1>11. ASSUME NEW c \in Client, Ask(c)
       PROVE  InOrder' /\ known'.version >= known.version /\ row'.version >= row.version
  <2>1. row' = row /\ known' = known /\ printer' = printer /\ net' = net
    BY <1>11 DEF Ask, clientVars
  <2>2. ASSUME NEW d \in Client PROVE OrderAt(d)'
    <3>1. CASE inbox'[d] = inbox[d]
      BY <1>2, <2>1, <3>1, OrderFrame
    <3>2. CASE inbox'[d] # inbox[d]
      <4>1. inbox'[d] = Append(inbox[d], printer)
        BY <1>11, <3>2 DEF Ask, TypeOK
      <4>2. Low(d)' = Low(d) /\ Low(d) \in known.version .. printer
        BY <1>2, <2>1 DEF Low, OrderAt
      <4>3. Ordered(inbox[d], Low(d), printer)
        BY <1>2 DEF OrderAt
      <4>4. Low(d) <= printer
        BY <1>1, <4>2
      <4>5. Ordered(Append(inbox[d], printer), Low(d), printer)
        BY <1>1, <1>2, <4>3, <4>4, OrderedAppend
      <4>6. QED
        BY <1>2, <2>1, <4>1, <4>2, <4>5 DEF OrderAt
    <3>3. QED
      BY <3>1, <3>2
  <2>3. QED
    BY <1>3, <2>1, <2>2
<1>12. CASE PrinterChanges
  <2>1. row' = row /\ known' = known /\ printer' = printer + 1 /\ net' = net
    BY <1>12 DEF PrinterChanges, clientVars
  <2>2. ASSUME NEW d \in Client PROVE OrderAt(d)'
    <3>1. /\ Low(d)' = Low(d) /\ Low(d) \in known.version .. printer
          /\ Ordered(inbox[d], Low(d), printer)
      BY <1>2, <2>1 DEF Low, OrderAt
    <3>2. Low(d) <= printer' /\ printer <= printer' /\ printer' \in Nat
      BY <1>1, <2>1, <3>1
    <3>3. Ordered(inbox'[d], Low(d), printer')
      <4>1. CASE inbox'[d] = inbox[d]
        BY <1>1, <1>2, <3>1, <3>2, <4>1, OrderedWiden
      <4>2. CASE inbox'[d] = Append(inbox[d], printer')
        BY <1>1, <1>2, <3>1, <3>2, <4>2, OrderedAppend
      <4>3. QED
        BY <1>12, <4>1, <4>2 DEF PrinterChanges
    <3>4. Low(d) \in known.version .. printer'
      BY <1>1, <2>1, <3>1
    <3>5. QED
      BY <1>2, <2>1, <3>1, <3>3, <3>4 DEF OrderAt
  <2>3. QED
    BY <1>3, <2>1, <2>2
<1>13. QED
  BY <1>5, <1>6, <1>7, <1>8, <1>9, <1>10, <1>11, <1>12 DEF Next, ReconnectStep

----------------------------------------------------------------------------
(* The invariant holds before the first connection. *)
LEMMA ConnectionInit == Init => ConnectionInv
<1> SUFFICES ASSUME Init PROVE ConnectionInv
  OBVIOUS
<1>1. TypeOK
  BY TypeInit
<1>2. SessionOK
  BY <1>1 DEF Init, SessionOK
<1>3. OneThread
  BY DEF Init, OneThread, Alive, Stopped
<1>4. ASSUME NEW c \in Client PROVE OrderAt(c)
  <2>1. Low(c) = 0 /\ known.version = 0 /\ net[c].pc = "stopped" /\ inbox[c] = <<>>
    BY DEF Init, Low, Stopped, Unseen
  <2>2. Ordered(inbox[c], Low(c), printer)
    BY <2>1, OrderedEmpty
  <2>3. QED
    BY <2>1, <2>2 DEF OrderAt, Init
<1>5. InOrder
  BY <1>4 DEF InOrder, Init, Unseen
<1>6. QED
  BY <1>1, <1>2, <1>3, <1>5 DEF ConnectionInv

(* Every step of the client, of Paho and of the printer keeps the invariant. *)
LEMMA ConnectionStep == ConnectionInv /\ [Next]_vars => ConnectionInv'
<1> SUFFICES ASSUME ConnectionInv, [Next]_vars PROVE ConnectionInv'
  OBVIOUS
<1>1. TypeOK /\ SessionOK /\ OneThread /\ InOrder
  BY DEF ConnectionInv
<1>2. TypeOK' /\ SessionOK' /\ OneThread' /\ InOrder'
  BY <1>1, TypeStep, SessionStep, ThreadStep, OrderStep
<1>3. QED
  BY <1>2 DEF ConnectionInv

(* One network thread at a time, and reports in order on their way to it,  *)
(* through every replacement of the client.                                *)
THEOREM ConnectionInvariant == Spec => []ConnectionInv
<1>1. Init => ConnectionInv
  BY ConnectionInit
<1>2. ConnectionInv /\ [Next]_vars => ConnectionInv'
  BY ConnectionStep
<1>3. QED
  BY <1>1, <1>2, PTL DEF Spec

(* While the reconnect thread rests because the service says connected,    *)
(* the current client has a session, or one whose start or end its network *)
(* thread is about to notice, however late an earlier client's acceptance  *)
(* came; and the session of the current client is never called down.       *)
THEOREM SessionIsSound == Spec => []SessionOK
<1>1. ConnectionInv => SessionOK
  BY DEF ConnectionInv
<1>2. QED
  BY <1>1, ConnectionInvariant, PTL

(* Neither the client nor the store goes back to an older report. *)
THEOREM ReportsKeepOrder == Spec => ReportsInOrder
<1>1. ConnectionInv /\ [Next]_vars =>
        [known'.version >= known.version /\ row'.version >= row.version]_vars
  BY OrderStep DEF ConnectionInv
<1>2. QED
  BY <1>1, ConnectionInvariant, PTL DEF Spec, ReportsInOrder
=============================================================================
