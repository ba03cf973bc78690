----------------------------- MODULE Connection -----------------------------
(***************************************************************************)
(* The connection to one printer (core/printer.py): the reconnect thread   *)
(* that replaces the Paho client, the network threads that run a client's  *)
(* callbacks, the threads that ask for a full report, and the row each     *)
(* callback writes (core/printer_manager.py).  Paho's own reconnecting,    *)
(* the broker and the printer are the environment.                         *)
(*                                                                         *)
(* What a report says is reduced to its version: how many changes the      *)
(* printer had gone through.  Handoff has what is done with a report; its  *)
(* Connect, Disconnect, DropClient and FullReport are the steps of this    *)
(* module that the handoff can see.                                        *)
(***************************************************************************)
EXTENDS Integers, Sequences

CONSTANTS
    Client,     \* objects for the Paho clients; two are alive at a time at most
    NoClient,   \* self._client is None
    MaxReports, \* bound on the printer's changes
    MaxDrops,   \* bound on lost connections, refusals and failed dials of a reachable broker
    MaxEarly,   \* bound on the wakes that come before the broker's answer to a dial
    MaxFaults   \* bound on the callbacks whose transaction raises

ASSUME ConnectionAssumption ==
    /\ NoClient \notin Client
    /\ {MaxReports, MaxDrops, MaxEarly, MaxFaults} \subseteq Nat

VARIABLES
    current,    \* self._client
    connected,  \* self._connected
    known,      \* what the client knows: [version, live], live: status is not "offline"
    row,        \* what the store knows, in the same form
    rec,        \* the reconnect thread: [pc, prev]
    net,        \* the network thread of each client: [pc, seen, snapshot]
    link,       \* the session of each client with the broker
    inbox,      \* reports on their way to each client
    asks,       \* the clients for which a status-request thread waits
    printer,    \* how many changes the printer has gone through
    reachable,  \* the broker answers
    drops, early, faults

clientVars == <<current, connected, known>>
netVars == <<net, link, inbox>>
bounds == <<drops, early, faults>>
vars == <<clientVars, row, rec, netVars, asks, printer, reachable, bounds>>

Version == 0 .. MaxReports
View == [version : Version, live : BOOLEAN]
Unseen == [version |-> 0, live |-> FALSE]

RecPC == {"sleep", "detach", "join", "attach", "dial"}

(* A network thread does not exist, is between callbacks, has found itself *)
(* current, has a report in hand, writes a snapshot, or was ended by a     *)
(* callback that raised.                                                   *)
NetPC == {"stopped", "running", "accept", "adopt", "write", "dead"}
NetState == [pc : NetPC, seen : Version, snapshot : View]
Stopped == [pc |-> "stopped", seen |-> 0, snapshot |-> Unseen]

(* No session; CONNACK on its way; accepted and subscribed; accepted for a *)
(* client that is no longer current; ended, which nobody has noticed yet.  *)
Link == {"none", "handshake", "up", "mute", "lost"}

TypeOK ==
    /\ current \in Client \cup {NoClient} /\ connected \in BOOLEAN
    /\ known \in View /\ row \in View
    /\ rec \in [pc : RecPC, prev : Client \cup {NoClient}]
    /\ net \in [Client -> NetState]
    /\ link \in [Client -> Link] /\ inbox \in [Client -> Seq(Version)]
    /\ asks \in SUBSET Client
    /\ printer \in Version /\ reachable \in BOOLEAN
    /\ drops \in 0 .. MaxDrops /\ early \in 0 .. MaxEarly /\ faults \in 0 .. MaxFaults

(* connect() runs _connect_mqtt for the first time. *)
Init ==
    /\ current = NoClient /\ connected = FALSE
    /\ known = Unseen /\ row = Unseen
    /\ rec = [pc |-> "detach", prev |-> NoClient]
    /\ net = [c \in Client |-> Stopped]
    /\ link = [c \in Client |-> "none"] /\ inbox = [c \in Client |-> <<>>]
    /\ asks = {}
    /\ printer = 0 /\ reachable \in BOOLEAN
    /\ drops = 0 /\ early = 0 /\ faults = 0

----------------------------------------------------------------------------
(* _reconnect_loop and _connect_mqtt *)

(* The sleep of 30 s has passed and is_online() says no.  Paho may bring   *)
(* the connection back after that.                                         *)
Answered == \A c \in {current} \ {NoClient} : link[c] # "handshake"

Wake ==
    /\ rec.pc = "sleep" /\ ~connected
    /\ \/ Answered /\ UNCHANGED early
       \/ ~Answered /\ early < MaxEarly /\ early' = early + 1
    /\ rec' = [rec EXCEPT !.pc = "detach"]
    /\ UNCHANGED <<clientVars, row, netVars, asks, printer, reachable, drops, faults>>

(* Mutant: the network thread of the previous client is not waited for. *)
DetachOnly ==
    /\ rec.pc = "detach"
    /\ rec' = [pc |-> "attach", prev |-> NoClient]
    /\ current' = NoClient /\ connected' = FALSE
    /\ UNCHANGED <<known, row, netVars, asks, printer, reachable, bounds>>

Detach ==
    /\ rec.pc = "detach"
    /\ rec' = [pc |-> "join", prev |-> current]
    /\ current' = NoClient /\ connected' = FALSE
    /\ UNCHANGED <<known, row, netVars, asks, printer, reachable, bounds>>

(* loop_stop waits for the callback that is being run; the on_disconnect   *)
(* that disconnect() then calls finds that its client is not current.      *)
Join ==
    LET c == rec.prev IN
    /\ rec.pc = "join"
    /\ c # NoClient => net[c].pc \notin {"accept", "adopt", "write"}
    /\ rec' = [pc |-> "attach", prev |-> NoClient]
    /\ net' = [d \in Client |-> IF d = c THEN Stopped ELSE net[d]]
    /\ link' = [d \in Client |-> IF d = c THEN "none" ELSE link[d]]
    /\ inbox' = [d \in Client |-> IF d = c THEN <<>> ELSE inbox[d]]
    /\ UNCHANGED <<clientVars, row, asks, printer, reachable, bounds>>

Attach(c) ==
    /\ rec.pc = "attach"
    /\ net[c].pc = "stopped" /\ c \notin asks
    /\ current' = c
    /\ rec' = [rec EXCEPT !.pc = "dial"]
    /\ UNCHANGED <<connected, known, row, netVars, asks, printer, reachable, bounds>>

DialOk ==
    /\ rec.pc = "dial" /\ reachable
    /\ link' = [link EXCEPT ![current] = "handshake"]
    /\ net' = [net EXCEPT ![current].pc = "running"]
    /\ rec' = [rec EXCEPT !.pc = "sleep"]
    /\ UNCHANGED <<clientVars, row, inbox, asks, printer, reachable, bounds>>

(* Mutant: connected was reset before the dial, and is not reset again. *)
DialFailsOnly ==
    /\ rec.pc = "dial"
    /\ IF reachable THEN drops < MaxDrops /\ drops' = drops + 1 ELSE UNCHANGED drops
    /\ current' = NoClient
    /\ known' = [known EXCEPT !.live = FALSE]
    /\ rec' = [rec EXCEPT !.pc = "sleep"]
    /\ UNCHANGED <<connected, row, netVars, asks, printer, reachable, early, faults>>

DialFails ==
    /\ rec.pc = "dial"
    /\ IF reachable THEN drops < MaxDrops /\ drops' = drops + 1 ELSE UNCHANGED drops
    /\ current' = NoClient /\ connected' = FALSE
    /\ known' = [known EXCEPT !.live = FALSE]
    /\ rec' = [rec EXCEPT !.pc = "sleep"]
    /\ UNCHANGED <<row, netVars, asks, printer, reachable, early, faults>>

----------------------------------------------------------------------------
(* The callbacks of a client's network thread, one at a time *)

Idle(c) == net[c].pc = "running"

(* The broker answers.  _on_connect goes on for the current client only,   *)
(* which it tests under the lock and then lets go of it ...                *)
OnConnect(c) ==
    /\ Idle(c) /\ link[c] = "handshake"
    /\ IF c = current
       THEN net' = [net EXCEPT ![c].pc = "accept"] /\ UNCHANGED link
       ELSE link' = [link EXCEPT ![c] = "mute"] /\ UNCHANGED net
    /\ UNCHANGED <<clientVars, row, rec, inbox, asks, printer, reachable, bounds>>

(* Mutant: the status is not asked for. *)
AcceptSilent(c) ==
    /\ net[c].pc = "accept"
    /\ net' = [net EXCEPT ![c].pc = "running"]
    /\ link' = [link EXCEPT ![c] = IF @ = "handshake" THEN "up" ELSE @]
    /\ connected' = TRUE
    /\ UNCHANGED <<current, known, row, rec, inbox, asks, printer, reachable, bounds>>

(* ... and when it takes the lock again the client may have been replaced: *)
(* an acceptance says connected all the same, subscribes if the session is *)
(* still there, and has a report asked for ...                             *)
Accept(c) ==
    /\ net[c].pc = "accept"
    /\ net' = [net EXCEPT ![c].pc = "running"]
    /\ link' = [link EXCEPT ![c] = IF @ = "handshake" THEN "up" ELSE @]
    /\ connected' = TRUE /\ asks' = asks \cup {c}
    /\ UNCHANGED <<current, known, row, rec, inbox, printer, reachable, bounds>>

(* ... and a refusal, rc # 0, says offline; the broker ends the session.   *)
Refuse(c) ==
    /\ net[c].pc = "accept" /\ link[c] = "handshake"
    /\ drops < MaxDrops /\ drops' = drops + 1
    /\ net' = [net EXCEPT ![c].pc = "running"]
    /\ link' = [link EXCEPT ![c] = "lost"]
    /\ connected' = FALSE /\ known' = [known EXCEPT !.live = FALSE]
    /\ UNCHANGED <<current, row, rec, inbox, asks, printer, reachable, early, faults>>

(* _on_disconnect, with the snapshot it goes on to write. *)
OnDisconnect(c) ==
    /\ Idle(c) /\ link[c] = "lost"
    /\ link' = [link EXCEPT ![c] = "none"] /\ inbox' = [inbox EXCEPT ![c] = <<>>]
    /\ IF c = current
       THEN /\ connected' = FALSE /\ known' = [known EXCEPT !.live = FALSE]
            /\ net' = [net EXCEPT ![c].pc = "write", ![c].snapshot = known']
       ELSE UNCHANGED <<connected, known, net>>
    /\ UNCHANGED <<current, row, rec, asks, printer, reachable, bounds>>

(* _on_message takes a report off the socket, whoever the client is ... *)
OnMessage(c) ==
    /\ Idle(c) /\ inbox[c] # <<>>
    /\ net' = [net EXCEPT ![c].pc = "adopt", ![c].seen = Head(inbox[c])]
    /\ inbox' = [inbox EXCEPT ![c] = Tail(inbox[c])]
    /\ UNCHANGED <<clientVars, row, rec, link, asks, printer, reachable, bounds>>

(* ... _handle_print takes it over, under the lock ... *)
Adopt(c) ==
    /\ net[c].pc = "adopt"
    /\ known' = [version |-> net[c].seen, live |-> TRUE]
    /\ net' = [net EXCEPT ![c].pc = "write", ![c].snapshot = known']
    /\ UNCHANGED <<current, connected, row, rec, link, inbox, asks, printer, reachable, bounds>>

(* ... and _on_status_update writes the snapshot, or raises: then nobody   *)
(* reads the socket any more, and connected stays what it is.              *)
WriteRow(c) ==
    /\ net[c].pc = "write"
    /\ row' = net[c].snapshot
    /\ net' = [net EXCEPT ![c].pc = "running"]
    /\ UNCHANGED <<clientVars, rec, link, inbox, asks, printer, reachable, bounds>>

WriteRaises(c) ==
    /\ net[c].pc = "write"
    /\ faults < MaxFaults /\ faults' = faults + 1
    /\ net' = [net EXCEPT ![c].pc = "dead"]
    /\ UNCHANGED <<clientVars, row, rec, link, inbox, asks, printer, reachable, drops, early>>

(* _request_status_after_connect: the printer answers with all it knows. *)
Ask(c) ==
    /\ c \in asks
    /\ asks' = asks \ {c}
    /\ IF c = current /\ connected /\ link[c] = "up"
       THEN inbox' = [inbox EXCEPT ![c] = Append(@, printer)]
       ELSE UNCHANGED inbox
    /\ UNCHANGED <<clientVars, row, rec, net, link, printer, reachable, bounds>>

----------------------------------------------------------------------------
(* Paho, the broker and the printer *)

(* loop_forever connects again by itself. *)
Redial(c) ==
    /\ Idle(c) /\ link[c] = "none" /\ reachable
    /\ link' = [link EXCEPT ![c] = "handshake"]
    /\ UNCHANGED <<clientVars, row, rec, net, inbox, asks, printer, reachable, bounds>>

Sessions == {c \in Client : link[c] # "none"}

LosesLink(C) == link' = [c \in Client |-> IF c \in C THEN "lost" ELSE link[c]]

(* One session breaks, or the broker goes away with all of them. *)
LinkDrops ==
    /\ drops < MaxDrops /\ drops' = drops + 1
    /\ \/ \E c \in Sessions : LosesLink({c}) /\ UNCHANGED reachable
       \/ reachable /\ reachable' = FALSE /\ LosesLink(Sessions)
    /\ UNCHANGED <<clientVars, row, rec, net, inbox, asks, printer, early, faults>>

BrokerBack ==
    /\ ~reachable /\ reachable' = TRUE
    /\ UNCHANGED <<clientVars, row, rec, netVars, asks, printer, bounds>>

(* The printer changes and says so to whoever has subscribed. *)
PrinterChanges ==
    /\ printer < MaxReports
    /\ printer' = printer + 1
    /\ inbox' = [c \in Client |->
                    IF link[c] = "up" THEN Append(inbox[c], printer') ELSE inbox[c]]
    /\ UNCHANGED <<clientVars, row, rec, net, link, asks, reachable, bounds>>

----------------------------------------------------------------------------
ReconnectStep ==
    \/ Wake \/ Detach \/ Join \/ DialOk \/ DialFails
    \/ \E c \in Client : Attach(c)

NetworkStep(c) ==
    \/ OnConnect(c) \/ Accept(c) \/ Refuse(c) \/ OnDisconnect(c)
    \/ OnMessage(c) \/ Adopt(c) \/ WriteRow(c) \/ WriteRaises(c)

Next ==
    \/ ReconnectStep
    \/ \E c \in Client : NetworkStep(c) \/ Ask(c) \/ Redial(c)
    \/ LinkDrops \/ BrokerBack \/ PrinterChanges

Spec == Init /\ [][Next]_vars

(* The threads run.  Nothing is assumed of Paho's own reconnecting, of the *)
(* broker's return or of the printer.                                      *)
LiveSpec ==
    /\ Spec
    /\ WF_vars(ReconnectStep)
    /\ \A c \in Client : WF_vars(NetworkStep(c)) /\ WF_vars(Ask(c))

----------------------------------------------------------------------------
(* While the reconnect thread rests because the service says connected,    *)
(* the current client has a session, or one whose start or end its network *)
(* thread is about to notice; and one that is up is never called down.     *)
SessionOK ==
    /\ rec.pc = "sleep" /\ connected =>
          current # NoClient /\ link[current] \in {"handshake", "up", "lost"}
    /\ current # NoClient /\ link[current] = "up" => connected

(* Why reports cannot cross.  At most one network thread is alive, that of *)
(* the current client or of the one being replaced, and only a client with *)
(* a thread has a session and reports on their way.                        *)
Alive(c) == net[c].pc # "stopped"

OneThread ==
    /\ rec.pc = "join" \/ rec.prev = NoClient
    /\ rec.pc \in {"join", "attach"} => current = NoClient
    /\ rec.pc = "dial" => current # NoClient /\ ~Alive(current)
    /\ rec.pc \notin {"join", "attach", "dial"} /\ current # NoClient => Alive(current)
    /\ \A c \in Client :
          IF Alive(c) THEN c \in {current, rec.prev} ELSE link[c] = "none" /\ inbox[c] = <<>>
    /\ \A c \in Client : net[c].pc = "accept" => link[c] \in {"handshake", "lost"}

(* Reports wait in the order of their versions, none older than what the   *)
(* client knows or takes over, and what is being written is what it knows. *)
Ordered(s, low, high) ==
    \A i \in 1 .. Len(s) : s[i] \in low .. high /\ \A k \in i .. Len(s) : s[i] <= s[k]

Low(c) == IF net[c].pc = "adopt" THEN net[c].seen ELSE known.version

OrderAt(c) ==
    /\ Low(c) \in known.version .. printer
    /\ Ordered(inbox[c], Low(c), printer)
    /\ net[c].pc = "write" => net[c].snapshot.version = known.version

InOrder == row.version <= known.version /\ \A c \in Client : OrderAt(c)

ConnectionInv == TypeOK /\ SessionOK /\ OneThread /\ InOrder

(* An older report never replaces a newer one, neither in the client nor   *)
(* in the store: the threads of two clients are never both at work.        *)
ReportsInOrder ==
    [][known'.version >= known.version /\ row'.version >= row.version]_vars

(* The network thread that the connection depends on was ended by a        *)
(* callback that raised; the reconnect thread does not see that.           *)
Deaf == connected /\ current # NoClient /\ net[current].pc = "dead"

(* While the broker answers, the store catches up with the printer, across *)
(* lost sessions, refusals and replaced clients, unless it went deaf.      *)
CatchesUp ==
    \A v \in Version :
        printer = v /\ reachable
            ~> row = [version |-> v, live |-> TRUE] \/ printer # v \/ ~reachable \/ Deaf

----------------------------------------------------------------------------
(* What the documents say and the code does not keep: see the README. *)

(* Callbacks are ignored unless they belong to the current client: who     *)
(* says connected has one.                                                 *)
ConnectedIsCurrent == connected => current # NoClient
=============================================================================
