----------------------------- MODULE L2capProxy -----------------------------
(***************************************************************************)
(* tools/l2cap_proxy: takes the place of the console towards a controller   *)
(* (the client), of the controller towards the console (the server), and    *)
(* copies packets both ways on the control and the interrupt channel.  One  *)
(* process, four sockets; the peers, their links and the signal are others. *)
(*                                                                         *)
(* A packet is the socket it came in on and its number there; only the      *)
(* order and the number of packets matter, so what waits in a socket to be  *)
(* received is given by two counts.  Sending is without waiting: a packet   *)
(* that finds the socket full or disconnected is gone, the result of send   *)
(* is not looked at.                                                       *)
(***************************************************************************)
EXTENDS Naturals, Sequences

CONSTANTS Buffer,        \* packets the kernel takes for a socket that is not being sent
          MaxPackets     \* bound: packets the peers send, all together

ASSUME ConstantsAssumption == Buffer \in Nat \ {0} /\ MaxPackets \in Nat

Sides == {"client", "server"}
Channels == {"ctrl", "data"}
Sockets == Sides \X Channels

client_ctrl == <<"client", "ctrl">>
client_data == <<"client", "data">>
server_ctrl == <<"server", "ctrl">>
server_data == <<"server", "data">>

VARIABLES pc,            \* where the proxy is
          done,          \* done
          listening,     \* channels it listens on
          sock,          \* state of each socket
          read_set,      \* read_set, as far as the pass has not tested it yet
          buf,           \* buf: the packet received last
          sent,          \* per socket: packets the peer has sent
          taken,         \* per socket: packets received by the proxy
          passed,        \* per socket: packets the kernel took for the peer
          fetched,       \* per socket: packets the peer has got
          dropped        \* history, per socket: packets that found no room

process == <<pc, done, listening, read_set, buf>>
traffic == <<sent, taken, passed, fetched, dropped>>
vars == <<process, sock, traffic>>

NoPacket == [from |-> client_ctrl, n |-> 0]

Init ==
    /\ pc = "class" /\ done = FALSE /\ listening = {}
    /\ sock = [s \in Sockets |-> "none"]
    /\ read_set = {} /\ buf = NoPacket
    /\ sent = [s \in Sockets |-> 0] /\ taken = [s \in Sockets |-> 0]
    /\ passed = [s \in Sockets |-> <<>>]
    /\ fetched = [s \in Sockets |-> 0] /\ dropped = [s \in Sockets |-> 0]

-----------------------------------------------------------------------------
(* Start-up: each of these may fail, and exit() closes what is open. *)

Exit ==
    /\ pc \in {"class", "listen ctrl", "listen data", "connect ctrl", "connect data"}
    /\ pc' = "end"
    /\ sock' = [s \in Sockets |-> IF sock[s] = "none" THEN "none" ELSE "closed"]
    /\ listening' = {}
    /\ UNCHANGED <<done, read_set, buf, traffic>>

write_device_class ==
    /\ pc = "class" /\ pc' = "listen ctrl"
    /\ UNCHANGED <<done, listening, read_set, buf, sock, traffic>>

l2cap_listen(c, here, next) ==
    /\ pc = here /\ pc' = next
    /\ listening' = listening \cup {c}
    /\ UNCHANGED <<done, read_set, buf, sock, traffic>>

(* accept goes on waiting after a signal: signal() restarts it. *)
l2cap_accept(s, here, next) ==
    /\ pc = here /\ pc' = next
    /\ sock[s] # "none"
    /\ sock' = [sock EXCEPT ![s] = IF @ = "waiting" THEN "open" ELSE @]
    /\ UNCHANGED <<done, listening, read_set, buf, traffic>>

l2cap_connect(s, here, next) ==
    /\ pc = here /\ pc' = next
    /\ sock' = [sock EXCEPT ![s] = "open"]
    /\ UNCHANGED <<done, listening, read_set, buf, traffic>>

Startup ==
    \/ write_device_class
    \/ l2cap_listen("ctrl", "listen ctrl", "accept ctrl")
    \/ l2cap_accept(client_ctrl, "accept ctrl", "listen data")
    \/ l2cap_listen("data", "listen data", "accept data")
    \/ l2cap_accept(client_data, "accept data", "connect ctrl")
    \/ l2cap_connect(server_ctrl, "connect ctrl", "connect data")
    \/ l2cap_connect(server_data, "connect data", "while")

-----------------------------------------------------------------------------
(* The loop. *)

While ==
    /\ pc = "while"
    /\ pc' = IF done THEN "close" ELSE "select"
    /\ UNCHANGED <<done, listening, read_set, buf, sock, traffic>>

Pending(s) == taken[s] < sent[s]
Readable(s) == Pending(s) \/ sock[s] = "gone"

WatchedBarOne == Sockets \ {server_data}                  \* mutant
Watched == Sockets                      \* 0 .. fd_max

(* The time-out of a second is a step that changes nothing; a signal ends   *)
(* select with read_set as it was handed in.                               *)
Select ==
    /\ pc = "select"
    /\ \/ /\ \E s \in Watched : Readable(s)
          /\ read_set' = {s \in Watched : Readable(s)} /\ pc' = "recv"
       \/ /\ done
          /\ read_set' = Sockets /\ pc' = "recv"
    /\ UNCHANGED <<done, listening, buf, sock, traffic>>

(* The tests of read_set, in the order of the source. *)
First(S) ==
    IF client_ctrl \in S THEN client_ctrl
    ELSE IF client_data \in S THEN client_data
    ELSE IF server_ctrl \in S THEN server_ctrl
    ELSE server_data

NeverEnds == done' = done                                 \* mutant
ConnectionError == done' = TRUE

Recv ==
    LET s == First(read_set) IN
    /\ pc = "recv" /\ read_set # {}
    /\ read_set' = read_set \ {s}
    /\ IF Pending(s)
       THEN /\ taken' = [taken EXCEPT ![s] = @ + 1]
            /\ buf' = [from |-> s, n |-> taken[s] + 1]
            /\ pc' = "send" /\ UNCHANGED done
       ELSE /\ ConnectionError
            /\ UNCHANGED <<taken, buf, pc>>
    /\ UNCHANGED <<listening, sock, sent, passed, fetched, dropped>>

EndOfPass ==
    /\ pc = "recv" /\ read_set = {} /\ pc' = "while"
    /\ UNCHANGED <<done, listening, read_set, buf, sock, traffic>>

TargetOnCtrl(s) == IF s[1] = "client" THEN server_ctrl ELSE client_ctrl       \* mutant
Target(s) == <<IF s[1] = "client" THEN "server" ELSE "client", s[2]>>

RoomForOneMore(s) == sock[s] = "open" /\ Len(passed[s]) - fetched[s] <= Buffer  \* mutant
Room(s) == sock[s] = "open" /\ Len(passed[s]) - fetched[s] < Buffer

Send ==
    LET s == Target(buf.from) IN
    /\ pc = "send" /\ pc' = "recv"
    /\ IF Room(s)
       THEN passed' = [passed EXCEPT ![s] = Append(@, buf)] /\ UNCHANGED dropped
       ELSE dropped' = [dropped EXCEPT ![s] = @ + 1] /\ UNCHANGED passed
    /\ UNCHANGED <<done, listening, read_set, buf, sock, sent, taken, fetched>>

(* The sockets are closed one after the other, those of the console first. *)
Close ==
    LET open == {s \in Sockets : sock[s] # "closed"}
        s == IF server_data \in open THEN server_data
             ELSE IF server_ctrl \in open THEN server_ctrl
             ELSE IF client_data \in open THEN client_data
             ELSE client_ctrl IN
    /\ pc = "close"
    /\ IF open = {}
       THEN pc' = "end" /\ listening' = {} /\ UNCHANGED sock
       ELSE sock' = [sock EXCEPT ![s] = "closed"] /\ UNCHANGED <<pc, listening>>
    /\ UNCHANGED <<done, read_set, buf, traffic>>

Proxy == Startup \/ While \/ Select \/ Recv \/ EndOfPass \/ Send \/ Close

-----------------------------------------------------------------------------
(* The peers and the user. *)

terminate ==
    /\ pc # "end" /\ ~done /\ done' = TRUE
    /\ UNCHANGED <<pc, listening, read_set, buf, sock, traffic>>

(* The controller opens the control channel, then the interrupt channel;    *)
(* it is refused while the proxy does not listen.                          *)
ClientConnects(c) ==
    LET s == <<"client", c>> IN
    /\ c \in listening /\ sock[s] = "none"
    /\ c = "data" => sock[client_ctrl] # "none"
    /\ sock' = [sock EXCEPT ![s] = "waiting"]
    /\ UNCHANGED <<process, traffic>>

Connected(s) == sock[s] \in {"waiting", "open"}

PeerSends(s) ==
    /\ Connected(s)
    /\ sent[client_ctrl] + sent[client_data] + sent[server_ctrl] + sent[server_data] < MaxPackets
    /\ sent' = [sent EXCEPT ![s] = @ + 1]
    /\ UNCHANGED <<process, sock, taken, passed, fetched, dropped>>

PeerFetches(s) ==
    /\ sock[s] = "open" /\ fetched[s] < Len(passed[s])
    /\ fetched' = [fetched EXCEPT ![s] = @ + 1]
    /\ UNCHANGED <<process, sock, sent, taken, passed, dropped>>

(* A peer closes its end, or goes out of reach. *)
HangUp(s) ==
    /\ Connected(s)
    /\ sock' = [sock EXCEPT ![s] = "gone"]
    /\ UNCHANGED <<process, traffic>>

Peers ==
    \/ \E c \in Channels : ClientConnects(c)
    \/ \E s \in Sockets : PeerSends(s) \/ PeerFetches(s) \/ HangUp(s)

Next == Proxy \/ Exit \/ terminate \/ Peers

Spec == Init /\ [][Next]_vars

(* The process gets the processor; nobody has to connect, send or fetch. *)
FairSpec == Spec /\ WF_vars(Proxy)

-----------------------------------------------------------------------------
Loop == {"while", "select", "recv", "send"}
Packets == [from : Sockets, n : Nat]

WithinBuffers ==
    \A s \in Sockets :
        taken[s] <= sent[s] /\ fetched[s] <= Len(passed[s]) /\ Len(passed[s]) - fetched[s] <= Buffer

TypeOK ==
    /\ pc \in Loop \cup {"class", "listen ctrl", "accept ctrl", "listen data", "accept data",
                         "connect ctrl", "connect data", "close", "end"}
    /\ done \in BOOLEAN /\ listening \subseteq Channels
    /\ sock \in [Sockets -> {"none", "waiting", "open", "gone", "closed"}]
    /\ read_set \subseteq Sockets /\ buf \in Packets
    /\ sent \in [Sockets -> Nat] /\ taken \in [Sockets -> Nat]
    /\ passed \in [Sockets -> Seq(Packets)]
    /\ fetched \in [Sockets -> Nat] /\ dropped \in [Sockets -> Nat]
    /\ WithinBuffers

(* What a peer gets was sent by the other peer on the same channel, in the  *)
(* order it was sent and never twice, though one buffer serves all four     *)
(* directions; and what is missing found a full or a disconnected socket:   *)
(* received = passed on + dropped + the packet in the buffer.              *)
InHand(s) == IF pc = "send" /\ buf.from = s THEN 1 ELSE 0

FromTheOther(s, t) == s[1] # t[1] /\ s[2] = t[2]

Relayed ==
    \A s, t \in Sockets : FromTheOther(s, t) =>
        /\ \A i \in 1..Len(passed[s]) : passed[s][i].from = t /\ passed[s][i].n <= taken[t]
        /\ \A i, j \in 1..Len(passed[s]) : i < j => passed[s][i].n < passed[s][j].n
        /\ Len(passed[s]) + dropped[s] + InHand(t) = taken[t]

(* No socket ever holds more than its buffer, and nothing that was received *)
(* is mixed up, repeated or unaccounted for.                               *)
RelaysFaithfully == TypeOK /\ Relayed

(* Once the proxy runs, whatever a peer sends is received, from whichever   *)
(* socket, however busy the others are; or the proxy ends.                 *)
EverythingHandled ==
    \A s \in Sockets : pc \in Loop /\ Pending(s) ~> ~Pending(s) \/ pc = "end"

(* When one of the four links goes, or the user asks, all four are closed.  *)
ClosesTogether ==
    (pc \in Loop /\ (done \/ \E s \in Sockets : sock[s] = "gone")) ~>
        (pc = "end" /\ \A s \in Sockets : sock[s] = "closed")
=============================================================================
