-------------------------- MODULE L2capProxy_proofs --------------------------
(* Proofs about L2capProxy, for every size of the kernel's buffers and      *)
(* every number of packets.                                                *)
EXTENDS L2capProxy, TLAPS

-----------------------------------------------------------------------------
(* The inductive invariant: with Relayed, the packet in the buffer is the   *)
(* last one received from its socket, and later than all passed on.        *)
Held ==
    pc = "send" =>
        /\ buf.n = taken[buf.from]
        /\ \A i \in 1..Len(passed[Target(buf.from)]) : passed[Target(buf.from)][i].n < buf.n

IInv == TypeOK /\ Relayed /\ Held

(* The socket a packet is passed to is the one of the other side and the    *)
(* same channel, and the only one.                                         *)
LEMMA TargetIsTheOther ==
    ASSUME NEW t \in Sockets
    PROVE  /\ Target(t) \in Sockets
           /\ \A s \in Sockets : FromTheOther(s, t) <=> s = Target(t)
           /\ \A s \in Sockets : Target(s) = Target(t) => s = t
  <1>1. t \in {client_ctrl, client_data, server_ctrl, server_data}
    BY DEF Sockets, Sides, Channels, client_ctrl, client_data, server_ctrl, server_data
  <1> QED
    BY <1>1 DEF Sockets, Sides, Channels, client_ctrl, client_data, server_ctrl, server_data,
                Target, FromTheOther

LEMMA FirstIsASocket ==
    ASSUME NEW S \in SUBSET Sockets, S # {}
    PROVE  First(S) \in Sockets
  BY DEF First, Sockets, Sides, Channels, client_ctrl, client_data, server_ctrl, server_data

LEMMA PassedOn ==
    ASSUME TypeOK, NEW s \in Sockets
    PROVE  /\ Len(passed[s]) \in Nat
           /\ \A i \in 1..Len(passed[s]) : passed[s][i] \in Packets /\ passed[s][i].n \in Nat
  <1>1. passed[s] \in Seq(Packets)
    BY DEF TypeOK
  <1>2. \A i \in 1..Len(passed[s]) : passed[s][i] \in Packets
    BY <1>1
  <1> QED  BY <1>1, <1>2 DEF Packets

LEMMA InitIInv == Init => IInv
  <1> SUFFICES ASSUME Init PROVE IInv
    OBVIOUS
  <1> USE DEF Init
  <1>1. TypeOK
    <2>1. client_ctrl \in Sockets
      BY DEF Sockets, Sides, Channels, client_ctrl
    <2>2. WithinBuffers
      BY ConstantsAssumption DEF WithinBuffers
    <2>3. passed \in [Sockets -> Seq(Packets)]
      OBVIOUS
    <2> QED  BY <2>1, <2>2, <2>3 DEF TypeOK, NoPacket, Packets
  <1>2. Relayed
    BY DEF Relayed, InHand
  <1>3. Held
    BY DEF Held
  <1> QED  BY <1>1, <1>2, <1>3 DEF IInv

-----------------------------------------------------------------------------
(* Steps that move no packet between the proxy and a socket. *)
LEMMA NothingMoves ==
    ASSUME IInv, TypeOK', UNCHANGED <<buf, taken, passed, dropped>>,
           pc = "send" <=> pc' = "send"
    PROVE  IInv'
  <1>1. Relayed'
    BY DEF IInv, Relayed, InHand
  <1>2. Held'
    BY DEF IInv, Held
  <1> QED  BY <1>1, <1>2 DEF IInv

LEMMA StartupIInv == IInv /\ Startup => IInv'
  <1> SUFFICES ASSUME IInv, Startup PROVE IInv'
    OBVIOUS
  <1> USE DEF traffic
  <1>1. CASE write_device_class
    <2>1. TypeOK'
      BY <1>1 DEF write_device_class, IInv, TypeOK, Loop, WithinBuffers
    <2> QED  BY <1>1, <2>1, NothingMoves DEF write_device_class
  <1>2. ASSUME NEW c \in Channels, NEW here, NEW next, l2cap_listen(c, here, next),
               <<here, next>> \in {<<"listen ctrl", "accept ctrl">>, <<"listen data", "accept data">>}
        PROVE  IInv'
    <2>1. TypeOK'
      BY <1>2 DEF l2cap_listen, IInv, TypeOK, Loop, WithinBuffers
    <2> QED  BY <1>2, <2>1, NothingMoves DEF l2cap_listen
  <1>3. ASSUME NEW s \in Sockets, NEW here, NEW next, l2cap_accept(s, here, next),
               <<here, next>> \in {<<"accept ctrl", "listen data">>, <<"accept data", "connect ctrl">>}
        PROVE  IInv'
    <2>1. TypeOK'
      BY <1>3 DEF l2cap_accept, IInv, TypeOK, Loop, WithinBuffers
    <2> QED  BY <1>3, <2>1, NothingMoves DEF l2cap_accept
  <1>4. ASSUME NEW s \in Sockets, NEW here, NEW next, l2cap_connect(s, here, next),
               <<here, next>> \in {<<"connect ctrl", "connect data">>, <<"connect data", "while">>}
        PROVE  IInv'
    <2>1. TypeOK'
      BY <1>4 DEF l2cap_connect, IInv, TypeOK, Loop, WithinBuffers
    <2> QED  BY <1>4, <2>1, NothingMoves DEF l2cap_connect
  <1>5. /\ {"ctrl", "data"} = Channels
        /\ {client_ctrl, client_data, server_ctrl, server_data} \subseteq Sockets
    BY DEF Channels, Sockets, Sides, client_ctrl, client_data, server_ctrl, server_data
  <1> QED  BY <1>1, <1>2, <1>3, <1>4, <1>5 DEF Startup

LEMMA CalmIInv ==
    ASSUME IInv, While \/ Select \/ EndOfPass \/ Close \/ Exit \/ terminate
    PROVE  IInv'
  <1> USE DEF traffic
  <1>1. CASE While
    <2>1. TypeOK'
      BY <1>1 DEF While, IInv, TypeOK, Loop, WithinBuffers
    <2> QED  BY <1>1, <2>1, NothingMoves DEF While
  <1>2. CASE Select
    <2>1. TypeOK'
      BY <1>2 DEF Select, Watched, IInv, TypeOK, Loop, WithinBuffers
    <2> QED  BY <1>2, <2>1, NothingMoves DEF Select
  <1>3. CASE EndOfPass
    <2>1. TypeOK'
      BY <1>3 DEF EndOfPass, IInv, TypeOK, Loop, WithinBuffers
    <2> QED  BY <1>3, <2>1, NothingMoves DEF EndOfPass
  <1>4. CASE Close
    <2>1. TypeOK'
      BY <1>4 DEF Close, IInv, TypeOK, Loop, WithinBuffers
    <2> QED  BY <1>4, <2>1, NothingMoves DEF Close
  <1>5. CASE Exit
    <2>1. TypeOK'
      BY <1>5 DEF Exit, IInv, TypeOK, Loop, WithinBuffers
    <2> QED  BY <1>5, <2>1, NothingMoves DEF Exit
  <1>6. CASE terminate
    <2>1. TypeOK'
      BY <1>6 DEF terminate, IInv, TypeOK, Loop, WithinBuffers
    <2> QED  BY <1>6, <2>1, NothingMoves DEF terminate
  <1> QED  BY <1>1, <1>2, <1>3, <1>4, <1>5, <1>6

LEMMA PeersIInv == IInv /\ Peers => IInv'
  <1> SUFFICES ASSUME IInv, Peers PROVE IInv'
    OBVIOUS
  <1> USE DEF traffic, process
  <1>1. ASSUME NEW c \in Channels, ClientConnects(c) PROVE IInv'
    <2>1. TypeOK'
      BY <1>1 DEF ClientConnects, IInv, TypeOK, Loop, WithinBuffers
    <2> QED  BY <1>1, <2>1, NothingMoves DEF ClientConnects
  <1>2. ASSUME NEW s \in Sockets, PeerSends(s) PROVE IInv'
    <2>1. TypeOK'
      <3>1. TypeOK /\ WithinBuffers
        BY DEF IInv, TypeOK
      <3>2. /\ sent' = [sent EXCEPT ![s] = @ + 1]
            /\ UNCHANGED <<pc, done, listening, read_set, buf, sock, taken, passed, fetched, dropped>>
        BY <1>2 DEF PeerSends
      <3>3. sent' \in [Sockets -> Nat]
        <4>1. sent \in [Sockets -> Nat]
          BY <3>1 DEF TypeOK
        <4> QED  BY <3>2, <4>1
      <3>4. \A q \in Sockets : sent[q] <= sent'[q] /\ sent[q] \in Nat /\ sent'[q] \in Nat /\ taken[q] \in Nat
        <4>1. sent \in [Sockets -> Nat] /\ taken \in [Sockets -> Nat]
          BY <3>1 DEF TypeOK
        <4> QED  BY <3>2, <4>1
      <3>5. WithinBuffers'
        BY <3>1, <3>2, <3>4 DEF WithinBuffers
      <3> QED  BY <3>1, <3>2, <3>3, <3>5 DEF TypeOK, Loop
    <2> QED  BY <1>2, <2>1, NothingMoves DEF PeerSends
  <1>3. ASSUME NEW s \in Sockets, PeerFetches(s) PROVE IInv'
    <2>1. TypeOK'
      <3>1. TypeOK /\ WithinBuffers
        BY DEF IInv, TypeOK
      <3>2. /\ fetched' = [fetched EXCEPT ![s] = @ + 1] /\ fetched[s] < Len(passed[s])
            /\ UNCHANGED <<pc, done, listening, read_set, buf, sock, sent, taken, passed, dropped>>
        BY <1>3 DEF PeerFetches
      <3>3. fetched' \in [Sockets -> Nat]
        <4>1. fetched \in [Sockets -> Nat]
          BY <3>1 DEF TypeOK
        <4> QED  BY <3>2, <4>1
      <3>4. ASSUME NEW q \in Sockets
            PROVE  fetched'[q] <= Len(passed[q]) /\ Len(passed[q]) - fetched'[q] <= Buffer
        <4>1. Len(passed[q]) \in Nat /\ fetched[q] \in Nat /\ Buffer \in Nat
          BY <3>1, PassedOn, ConstantsAssumption DEF TypeOK
        <4>2. fetched'[q] = IF q = s THEN fetched[q] + 1 ELSE fetched[q]
          BY <3>1, <3>2 DEF TypeOK
        <4> QED  BY <3>1, <3>2, <4>1, <4>2 DEF WithinBuffers
      <3>5. WithinBuffers'
        BY <3>1, <3>2, <3>4 DEF WithinBuffers
      <3> QED  BY <3>1, <3>2, <3>3, <3>5 DEF TypeOK, Loop
    <2> QED  BY <1>3, <2>1, NothingMoves DEF PeerFetches
  <1>4. ASSUME NEW s \in Sockets, HangUp(s) PROVE IInv'
    <2>1. TypeOK'
      BY <1>4 DEF HangUp, IInv, TypeOK, Loop, WithinBuffers
    <2> QED  BY <1>4, <2>1, NothingMoves DEF HangUp
  <1> QED  BY <1>1, <1>2, <1>3, <1>4 DEF Peers

-----------------------------------------------------------------------------
(* A packet is received: it becomes the last one of its socket. *)
LEMMA RecvIInv == IInv /\ Recv => IInv'
  <1> SUFFICES ASSUME IInv, Recv PROVE IInv'
    OBVIOUS
  <1> DEFINE s == First(read_set)
             t == Target(s)
  <1>1. s \in Sockets
    BY FirstIsASocket DEF Recv, IInv, TypeOK
  <1>2. /\ t \in Sockets
        /\ \A q \in Sockets : FromTheOther(t, q) => q = s
        /\ \A q \in Sockets : FromTheOther(q, s) => q = t
    BY <1>1, TargetIsTheOther
  <1>3. CASE ~Pending(s)
    <2>1. TypeOK'
      BY <1>1, <1>3 DEF Recv, ConnectionError, IInv, TypeOK, Loop, WithinBuffers
    <2> QED  BY <1>3, <2>1, NothingMoves DEF Recv
  <1>4. CASE Pending(s)
    <2>1. /\ taken' = [taken EXCEPT ![s] = @ + 1]
          /\ buf' = [from |-> s, n |-> taken[s] + 1]
          /\ pc = "recv" /\ pc' = "send"
          /\ UNCHANGED <<done, listening, sock, sent, passed, fetched, dropped>>
          /\ read_set' = read_set \ {s}
      BY <1>4 DEF Recv
    <2>2. taken \in [Sockets -> Nat] /\ sent \in [Sockets -> Nat] /\ taken[s] < sent[s]
      BY <1>4 DEF Pending, IInv, TypeOK
    <2>3. TypeOK'
      <3>1. WithinBuffers'
        BY <1>1, <2>1, <2>2 DEF IInv, TypeOK, WithinBuffers
      <3>2. buf' \in Packets /\ taken' \in [Sockets -> Nat]
        BY <1>1, <2>1, <2>2 DEF Packets
      <3> QED  BY <2>1, <3>1, <3>2 DEF IInv, TypeOK, Loop
    <2>4. Relayed'
      <3> SUFFICES ASSUME NEW p \in Sockets, NEW q \in Sockets, FromTheOther(p, q)
                   PROVE  /\ \A i \in 1..Len(passed[p]) : passed[p][i].from = q /\ passed[p][i].n <= taken'[q]
                          /\ \A i, j \in 1..Len(passed[p]) : i < j => passed[p][i].n < passed[p][j].n
                          /\ Len(passed[p]) + dropped[p] + InHand(q)' = taken'[q]
        BY <2>1 DEF Relayed
      <3>1. /\ \A i \in 1..Len(passed[p]) : passed[p][i].from = q /\ passed[p][i].n <= taken[q]
            /\ \A i, j \in 1..Len(passed[p]) : i < j => passed[p][i].n < passed[p][j].n
            /\ Len(passed[p]) + dropped[p] = taken[q]
        <4>1. InHand(q) = 0 /\ dropped[p] \in Nat /\ Len(passed[p]) \in Nat
          BY <2>1, PassedOn DEF IInv, TypeOK, InHand
        <4> QED  BY <4>1 DEF IInv, Relayed
      <3>2. \A i \in 1..Len(passed[p]) : passed[p][i].n \in Nat
        BY PassedOn DEF IInv
      <3>3. CASE q = s
        BY <1>1, <2>1, <2>2, <3>1, <3>2, <3>3 DEF InHand, IInv, TypeOK
      <3>4. CASE q # s
        BY <2>1, <2>2, <3>1, <3>4 DEF InHand, IInv, TypeOK
      <3> QED  BY <3>3, <3>4
    <2>5. Held'
      <3>1. \A i \in 1..Len(passed[t]) : passed[t][i].n \in Nat /\ passed[t][i].n <= taken[s]
        BY <1>1, <1>2, TargetIsTheOther, PassedOn DEF IInv, Relayed
      <3> QED  BY <1>1, <1>2, <2>1, <2>2, <3>1 DEF Held
    <2> QED  BY <2>3, <2>4, <2>5 DEF IInv
  <1> QED  BY <1>3, <1>4

(* The packet in the buffer goes to the socket opposite, or is dropped. *)
LEMMA SendIInv == IInv /\ Send => IInv'
  <1> SUFFICES ASSUME IInv, Send PROVE IInv'
    OBVIOUS
  <1> DEFINE o == buf.from
             s == Target(buf.from)
  <1>1. /\ o \in Sockets /\ s \in Sockets
        /\ buf \in Packets /\ buf.n \in Nat
        /\ \A q \in Sockets : FromTheOther(s, q) => q = o
        /\ \A p \in Sockets : FromTheOther(p, o) => p = s
    BY TargetIsTheOther DEF IInv, TypeOK, Packets
  <1>2. /\ pc = "send" /\ pc' = "recv"
        /\ UNCHANGED <<done, listening, read_set, buf, sock, sent, taken, fetched>>
    BY DEF Send
  <1>3. /\ buf.n = taken[o]
        /\ \A i \in 1..Len(passed[s]) : passed[s][i].n < buf.n
    BY <1>2 DEF IInv, Held
  <1>4. /\ passed \in [Sockets -> Seq(Packets)] /\ dropped \in [Sockets -> Nat]
        /\ fetched \in [Sockets -> Nat] /\ taken \in [Sockets -> Nat]
    BY DEF IInv, TypeOK
  <1>5. Held'
    BY <1>2 DEF Held
  <1>6. CASE Room(s)
    <2>1. passed' = [passed EXCEPT ![s] = Append(@, buf)] /\ UNCHANGED dropped
      BY <1>6 DEF Send
    <2>2. /\ passed'[s] = Append(passed[s], buf)
          /\ Len(passed'[s]) = Len(passed[s]) + 1
          /\ passed'[s][Len(passed[s]) + 1] = buf
          /\ \A i \in 1..Len(passed[s]) : passed'[s][i] = passed[s][i]
          /\ \A p \in Sockets : p # s => passed'[p] = passed[p]
      BY <1>1, <1>4, <2>1
    <2>3. TypeOK'
      <3>1. passed' \in [Sockets -> Seq(Packets)]
        BY <1>1, <1>4, <2>1
      <3>2. \A p \in Sockets : Len(passed[p]) \in Nat /\ fetched[p] <= Len(passed[p])
                               /\ Len(passed[p]) - fetched[p] <= Buffer
        BY PassedOn DEF IInv, TypeOK, WithinBuffers
      <3>3. ASSUME NEW p \in Sockets
            PROVE  fetched[p] <= Len(passed'[p]) /\ Len(passed'[p]) - fetched[p] <= Buffer
        <4>1. fetched[p] \in Nat /\ Buffer \in Nat
          BY <1>4, ConstantsAssumption
        <4>2. CASE p = s
          <5>1. Len(passed[s]) - fetched[s] < Buffer
            BY <1>6 DEF Room
          <5> QED  BY <1>1, <2>2, <3>2, <4>1, <4>2, <5>1
        <4>3. CASE p # s
          BY <2>2, <3>2, <4>3
        <4> QED  BY <4>2, <4>3
      <3>4. WithinBuffers'
        BY <1>2, <3>3 DEF IInv, TypeOK, WithinBuffers
      <3> QED  BY <1>2, <2>1, <3>1, <3>4 DEF IInv, TypeOK, Loop
    <2>4. Relayed'
      <3> SUFFICES ASSUME NEW p \in Sockets, NEW q \in Sockets, FromTheOther(p, q)
                   PROVE  /\ \A i \in 1..Len(passed'[p]) : passed'[p][i].from = q /\ passed'[p][i].n <= taken[q]
                          /\ \A i, j \in 1..Len(passed'[p]) : i < j => passed'[p][i].n < passed'[p][j].n
                          /\ Len(passed'[p]) + dropped[p] + InHand(q)' = taken[q]
        BY <1>2, <2>1 DEF Relayed
      <3>1. /\ \A i \in 1..Len(passed[p]) : passed[p][i].from = q /\ passed[p][i].n <= taken[q]
            /\ \A i, j \in 1..Len(passed[p]) : i < j => passed[p][i].n < passed[p][j].n
            /\ Len(passed[p]) + dropped[p] + InHand(q) = taken[q]
        BY DEF IInv, Relayed
      <3>2. Len(passed[p]) \in Nat /\ dropped[p] \in Nat /\ taken[q] \in Nat
        BY <1>4
      <3>3. InHand(q)' = 0
        BY <1>2 DEF InHand
      <3>4. CASE p = s
        <4>1. q = o /\ InHand(q) = 1
          BY <1>1, <1>2, <3>4 DEF InHand
        <4>2. ASSUME NEW i \in 1..Len(passed'[p])
              PROVE  passed'[p][i].from = q /\ passed'[p][i].n <= taken[q]
          <5>1. CASE i \in 1..Len(passed[p])
            BY <2>2, <3>1, <3>4, <5>1
          <5>2. CASE i = Len(passed[p]) + 1
            <6>1. passed'[p][i] = buf
              BY <2>2, <3>4, <5>2
            <6> QED  BY <1>3, <3>2, <4>1, <6>1
          <5> QED  BY <2>2, <3>2, <3>4, <4>2, <5>1, <5>2
        <4>3. ASSUME NEW i \in 1..Len(passed'[p]), NEW j \in 1..Len(passed'[p]), i < j
              PROVE  passed'[p][i].n < passed'[p][j].n
          <5>1. i \in 1..Len(passed[p])
            BY <2>2, <3>2, <3>4, <4>3
          <5>2. CASE j \in 1..Len(passed[p])
            BY <2>2, <3>1, <3>4, <4>3, <5>1, <5>2
          <5>3. CASE j = Len(passed[p]) + 1
            BY <1>3, <2>2, <3>4, <5>1, <5>3
          <5> QED  BY <2>2, <3>2, <3>4, <4>3, <5>2, <5>3
        <4>4. Len(passed'[p]) + dropped[p] + InHand(q)' = taken[q]
          <5>1. Len(passed'[p]) = Len(passed[p]) + 1
            BY <2>2, <3>4
          <5>2. Len(passed[p]) + dropped[p] + 1 = taken[q]
            BY <3>1, <4>1
          <5> QED  BY <3>2, <3>3, <5>1, <5>2
        <4> QED  BY <4>2, <4>3, <4>4
      <3>5. CASE p # s
        <4>1. q # o /\ InHand(q) = 0
          BY <1>1, <3>5 DEF InHand
        <4> QED  BY <2>2, <3>1, <3>2, <3>3, <3>5, <4>1
      <3> QED  BY <3>4, <3>5
    <2> QED  BY <1>5, <2>3, <2>4 DEF IInv
  <1>7. CASE ~Room(s)
    <2>1. dropped' = [dropped EXCEPT ![s] = @ + 1] /\ UNCHANGED passed
      BY <1>7 DEF Send
    <2>2. TypeOK'
      <3>1. WithinBuffers'
        BY <1>2, <2>1 DEF IInv, TypeOK, WithinBuffers
      <3>2. dropped' \in [Sockets -> Nat]
        BY <1>1, <1>4, <2>1
      <3> QED  BY <1>2, <1>4, <2>1, <3>1, <3>2 DEF IInv, TypeOK, Loop
    <2>3. Relayed'
      <3> SUFFICES ASSUME NEW p \in Sockets, NEW q \in Sockets, FromTheOther(p, q)
                   PROVE  Len(passed[p]) + dropped'[p] + InHand(q)' = taken[q]
        BY <1>2, <2>1 DEF IInv, Relayed
      <3>1. Len(passed[p]) + dropped[p] + InHand(q) = taken[q]
        BY DEF IInv, Relayed
      <3>2. Len(passed[p]) \in Nat /\ dropped[p] \in Nat /\ taken[q] \in Nat
        BY <1>4
      <3>3. CASE p = s
        BY <1>1, <1>2, <1>4, <2>1, <3>1, <3>2, <3>3 DEF InHand
      <3>4. CASE p # s
        BY <1>1, <1>2, <1>4, <2>1, <3>1, <3>2, <3>4 DEF InHand
      <3> QED  BY <3>3, <3>4
    <2> QED  BY <1>5, <2>2, <2>3 DEF IInv
  <1> QED  BY <1>6, <1>7

LEMMA NextIInv == IInv /\ [Next]_vars => IInv'
  <1> SUFFICES ASSUME IInv, [Next]_vars PROVE IInv'
    OBVIOUS
  <1>1. CASE UNCHANGED vars
    <2>1. TypeOK'
      BY <1>1 DEF vars, process, traffic, IInv, TypeOK, WithinBuffers
    <2> QED  BY <1>1, <2>1, NothingMoves DEF vars, process, traffic
  <1> QED
    BY <1>1, StartupIInv, CalmIInv, PeersIInv, RecvIInv, SendIInv DEF Next, Proxy

LEMMA Invariance == Spec => []IInv
  BY InitIInv, NextIInv, PTL DEF Spec

-----------------------------------------------------------------------------
(* One shared buffer, four directions: no socket holds more than its        *)
(* buffer, packets stay on their channel, in order, without repetition, and *)
(* none is missing that was not dropped.                                   *)
THEOREM RelaysInOrder == Spec => []RelaysFaithfully
  BY Invariance, PTL DEF IInv, RelaysFaithfully
=============================================================================
