--------------------------- MODULE ConnOpen_proofs ---------------------------
(***************************************************************************)
(* conn_open and conn_close for any number of addresses: nothing is left   *)
(* open or closed twice, and addresses are tried in order.                 *)
(***************************************************************************)
EXTENDS ConnOpen, TLAPS

USE ChoicesAssumption, AddrsAssumption

(* What is open at each place of conn_open. *)
OwnInv ==
  /\ pc = "socket" => sockets = {} /\ objects = {"list"}
  /\ pc \in {"connect", "ctx"} => sockets = {current} /\ objects = {"list"}
  /\ pc = "ssl" => sockets = {current} /\ objects = {"list", "ctx"}
  /\ pc \in {"bind", "handshake"} =>
       sockets = {current} /\ objects = {"list", "ctx", "ssl"}
  /\ pc = "connected" =>
       /\ sockets = {current}
       /\ objects = {"list"} \cup IF use_tls THEN {"ctx", "ssl"} ELSE {}
  /\ pc \in {"ctx", "ssl", "bind", "handshake"} => use_tls
  /\ pc # "open" => conn_fd = -1 /\ ~conn_ssl

(* How far the search has come: every address before the current one was   *)
(* refused, and no verdict has been given yet.                             *)
SearchInv ==
  pc \notin {"closed", "open", "failed"} =>
    /\ current \in 1 .. addrs + 1
    /\ pc # "socket" => current <= addrs
    /\ refused = 1 .. current - 1
    /\ errbuf = "none"

IInv ==
  /\ TypeOK
  /\ NothingHeld
  /\ FirstInOrder
  /\ OwnInv
  /\ SearchInv

(* A reset conn is in the invariant. *)
LEMMA InitInv == Init => IInv
<1>. SUFFICES ASSUME Init PROVE IInv
  OBVIOUS
<1>1. use_tls \in BOOLEAN /\ conn_ssl \in BOOLEAN /\ faults \in BOOLEAN
  BY DEF Init
<1>2. addrs \in 0 .. MaxAddrs /\ current \in 0 .. MaxAddrs + 1
  BY DEF Init
<1>3. TypeOK
  BY <1>1, <1>2 DEF Init, TypeOK
<1>4. NothingHeld /\ FirstInOrder /\ OwnInv /\ SearchInv
  BY DEF Init, NothingHeld, FirstInOrder, OwnInv, SearchInv
<1>. QED
  BY <1>3, <1>4 DEF IInv

-----------------------------------------------------------------------------
(* A call with a list of addresses keeps the invariant. *)
LEMMA ResolveInv == ASSUME IInv, Resolve PROVE IInv'
<1>. USE DEF IInv, Resolve, conn, owned
<1>1. TypeOK'
  <2>1. use_tls' \in BOOLEAN
    BY Zenon, ChoicesAssumption
  <2>2. conn_ssl' \in BOOLEAN
    OBVIOUS
  <2>3. addrs' \in 0 .. MaxAddrs /\ current' \in 0 .. MaxAddrs + 1
    BY DEF Addrs
  <2>. QED
    BY <2>1, <2>2, <2>3 DEF TypeOK
<1>2. NothingHeld'
  BY DEF NothingHeld, OwnInv, SearchInv, TypeOK, Addrs, AfterRefusal
<1>3. FirstInOrder'
  BY DEF FirstInOrder, SearchInv, NextAddress, TypeOK, Addrs
<1>4. OwnInv'
  BY DEF OwnInv, NothingHeld, SearchInv, AfterRefusal, TypeOK, Addrs
<1>5. SearchInv'
  <2>1. addrs' \in Nat /\ addrs' >= 1 /\ current' = 1
    BY DEF Addrs
  <2>2. current' \in 1 .. addrs' + 1
    <3>1. \A n \in Nat : 1 \in 1 .. n + 1
      OBVIOUS
    <3>. QED
      BY <2>1, <3>1, Zenon
  <2>3. 1 .. current' - 1 = {}
    BY <2>1
  <2>. QED
    BY <2>2, <2>3 DEF SearchInv
<1>. QED
  BY <1>1, <1>2, <1>3, <1>4, <1>5

(* A call without addresses keeps the invariant. *)
LEMMA ResolveFailsInv == ASSUME IInv, ResolveFails PROVE IInv'
<1>. USE DEF IInv, ResolveFails, conn, owned
<1>1. TypeOK'
  <2>1. use_tls' \in BOOLEAN
    BY Zenon, ChoicesAssumption
  <2>2. conn_ssl' \in BOOLEAN
    OBVIOUS
  <2>3. addrs' \in 0 .. MaxAddrs /\ current' \in 0 .. MaxAddrs + 1
    BY DEF Addrs
  <2>. QED
    BY <2>1, <2>2, <2>3 DEF TypeOK
<1>2. NothingHeld'
  BY DEF NothingHeld, OwnInv, SearchInv, TypeOK, Addrs, AfterRefusal
<1>3. FirstInOrder'
  BY DEF FirstInOrder, SearchInv, NextAddress, TypeOK, Addrs
<1>4. OwnInv'
  BY DEF OwnInv, NothingHeld, SearchInv, AfterRefusal, TypeOK, Addrs
<1>5. SearchInv'
  BY DEF SearchInv, FirstInOrder, NextAddress, TypeOK, Addrs
<1>. QED
  BY <1>1, <1>2, <1>3, <1>4, <1>5

(* A new socket keeps the invariant. *)
LEMMA SocketInv == ASSUME IInv, Socket PROVE IInv'
<1>. USE DEF IInv, Socket, conn, owned
<1>1. TypeOK'
  BY DEF TypeOK, Addrs, NextAddress, AfterRefusal, SearchInv, OwnInv
<1>2. NothingHeld'
  BY DEF NothingHeld, OwnInv, SearchInv, TypeOK, Addrs, AfterRefusal
<1>3. FirstInOrder'
  BY DEF FirstInOrder, SearchInv, NextAddress, TypeOK, Addrs
<1>4. OwnInv'
  BY DEF OwnInv, NothingHeld, SearchInv, AfterRefusal, TypeOK, Addrs
<1>5. SearchInv'
  BY DEF SearchInv, FirstInOrder, NextAddress, TypeOK, Addrs
<1>. QED
  BY <1>1, <1>2, <1>3, <1>4, <1>5

(* An address without a socket keeps the invariant. *)
LEMMA SocketFailsInv == ASSUME IInv, SocketFails PROVE IInv'
<1>. USE DEF IInv, SocketFails, conn, owned
<1>1. TypeOK'
  BY DEF TypeOK, Addrs, NextAddress, AfterRefusal, SearchInv, OwnInv
<1>2. NothingHeld'
  BY DEF NothingHeld, OwnInv, SearchInv, TypeOK, Addrs, AfterRefusal
<1>3. FirstInOrder'
  BY DEF FirstInOrder, SearchInv, NextAddress, TypeOK, Addrs
<1>4. OwnInv'
  BY DEF OwnInv, NothingHeld, SearchInv, AfterRefusal, TypeOK, Addrs
<1>5. SearchInv'
  BY DEF SearchInv, FirstInOrder, NextAddress, TypeOK, Addrs
<1>. QED
  BY <1>1, <1>2, <1>3, <1>4, <1>5

(* A connection keeps the invariant. *)
LEMMA ConnectInv == ASSUME IInv, Connect PROVE IInv'
<1>. USE DEF IInv, Connect, conn, owned
<1>1. TypeOK'
  BY DEF TypeOK, Addrs, NextAddress, AfterRefusal, SearchInv, OwnInv
<1>2. NothingHeld'
  BY DEF NothingHeld, OwnInv, SearchInv, TypeOK, Addrs, AfterRefusal
<1>3. FirstInOrder'
  BY DEF FirstInOrder, SearchInv, NextAddress, TypeOK, Addrs
<1>4. OwnInv'
  BY DEF OwnInv, NothingHeld, SearchInv, AfterRefusal, TypeOK, Addrs
<1>5. SearchInv'
  BY DEF SearchInv, FirstInOrder, NextAddress, TypeOK, Addrs
<1>. QED
  BY <1>1, <1>2, <1>3, <1>4, <1>5

(* An address that refuses keeps the invariant. *)
LEMMA ConnectFailsInv == ASSUME IInv, ConnectFails PROVE IInv'
<1>. USE DEF IInv, ConnectFails, conn, owned
<1>1. TypeOK'
  BY DEF TypeOK, Addrs, NextAddress, AfterRefusal, SearchInv, OwnInv
<1>2. NothingHeld'
  BY DEF NothingHeld, OwnInv, SearchInv, TypeOK, Addrs, AfterRefusal
<1>3. FirstInOrder'
  BY DEF FirstInOrder, SearchInv, NextAddress, TypeOK, Addrs
<1>4. OwnInv'
  BY DEF OwnInv, NothingHeld, SearchInv, AfterRefusal, TypeOK, Addrs
<1>5. SearchInv'
  BY DEF SearchInv, FirstInOrder, NextAddress, TypeOK, Addrs
<1>. QED
  BY <1>1, <1>2, <1>3, <1>4, <1>5

(* The TLS context keeps the invariant. *)
LEMMA NewCtxInv == ASSUME IInv, NewCtx PROVE IInv'
<1>. USE DEF IInv, NewCtx, conn, owned
<1>1. TypeOK'
  BY DEF TypeOK, Addrs, NextAddress, AfterRefusal, SearchInv, OwnInv
<1>2. NothingHeld'
  BY DEF NothingHeld, OwnInv, SearchInv, TypeOK, Addrs, AfterRefusal
<1>3. FirstInOrder'
  BY DEF FirstInOrder, SearchInv, NextAddress, TypeOK, Addrs
<1>4. OwnInv'
  BY DEF OwnInv, NothingHeld, SearchInv, AfterRefusal, TypeOK, Addrs
<1>5. SearchInv'
  BY DEF SearchInv, FirstInOrder, NextAddress, TypeOK, Addrs
<1>. QED
  BY <1>1, <1>2, <1>3, <1>4, <1>5

(* No TLS context keeps the invariant. *)
LEMMA NewCtxFailsInv == ASSUME IInv, NewCtxFails PROVE IInv'
<1>. USE DEF IInv, NewCtxFails, TlsFails, Release, conn, owned
<1>1. TypeOK'
  BY DEF TypeOK, Addrs, NextAddress, AfterRefusal, SearchInv, OwnInv
<1>2. NothingHeld'
  BY DEF NothingHeld, OwnInv, SearchInv, TypeOK, Addrs, AfterRefusal
<1>3. FirstInOrder'
  BY DEF FirstInOrder, SearchInv, NextAddress, TypeOK, Addrs
<1>4. OwnInv'
  BY DEF OwnInv, NothingHeld, SearchInv, AfterRefusal, TypeOK, Addrs
<1>5. SearchInv'
  BY DEF SearchInv, FirstInOrder, NextAddress, TypeOK, Addrs
<1>. QED
  BY <1>1, <1>2, <1>3, <1>4, <1>5

(* The TLS session keeps the invariant. *)
LEMMA NewSslInv == ASSUME IInv, NewSsl PROVE IInv'
<1>. USE DEF IInv, NewSsl, conn, owned
<1>1. TypeOK'
  BY DEF TypeOK, Addrs, NextAddress, AfterRefusal, SearchInv, OwnInv
<1>2. NothingHeld'
  BY DEF NothingHeld, OwnInv, SearchInv, TypeOK, Addrs, AfterRefusal
<1>3. FirstInOrder'
  BY DEF FirstInOrder, SearchInv, NextAddress, TypeOK, Addrs
<1>4. OwnInv'
  BY DEF OwnInv, NothingHeld, SearchInv, AfterRefusal, TypeOK, Addrs
<1>5. SearchInv'
  BY DEF SearchInv, FirstInOrder, NextAddress, TypeOK, Addrs
<1>. QED
  BY <1>1, <1>2, <1>3, <1>4, <1>5

(* No TLS session keeps the invariant. *)
LEMMA NewSslFailsInv == ASSUME IInv, NewSslFails PROVE IInv'
<1>. USE DEF IInv, NewSslFails, TlsFails, Release, conn, owned
<1>1. TypeOK'
  BY DEF TypeOK, Addrs, NextAddress, AfterRefusal, SearchInv, OwnInv
<1>2. NothingHeld'
  BY DEF NothingHeld, OwnInv, SearchInv, TypeOK, Addrs, AfterRefusal
<1>3. FirstInOrder'
  BY DEF FirstInOrder, SearchInv, NextAddress, TypeOK, Addrs
<1>4. OwnInv'
  BY DEF OwnInv, NothingHeld, SearchInv, AfterRefusal, TypeOK, Addrs
<1>5. SearchInv'
  BY DEF SearchInv, FirstInOrder, NextAddress, TypeOK, Addrs
<1>. QED
  BY <1>1, <1>2, <1>3, <1>4, <1>5

(* Binding the session to the socket keeps the invariant. *)
LEMMA BindInv == ASSUME IInv, Bind PROVE IInv'
<1>. USE DEF IInv, Bind, conn, owned
<1>1. TypeOK'
  BY DEF TypeOK, Addrs, NextAddress, AfterRefusal, SearchInv, OwnInv
<1>2. NothingHeld'
  BY DEF NothingHeld, OwnInv, SearchInv, TypeOK, Addrs, AfterRefusal
<1>3. FirstInOrder'
  BY DEF FirstInOrder, SearchInv, NextAddress, TypeOK, Addrs
<1>4. OwnInv'
  BY DEF OwnInv, NothingHeld, SearchInv, AfterRefusal, TypeOK, Addrs
<1>5. SearchInv'
  BY DEF SearchInv, FirstInOrder, NextAddress, TypeOK, Addrs
<1>. QED
  BY <1>1, <1>2, <1>3, <1>4, <1>5

(* A session that cannot be bound keeps the invariant. *)
LEMMA BindFailsInv == ASSUME IInv, BindFails PROVE IInv'
<1>. USE DEF IInv, BindFails, TlsFails, Release, conn, owned
<1>1. TypeOK'
  BY DEF TypeOK, Addrs, NextAddress, AfterRefusal, SearchInv, OwnInv
<1>2. NothingHeld'
  BY DEF NothingHeld, OwnInv, SearchInv, TypeOK, Addrs, AfterRefusal
<1>3. FirstInOrder'
  BY DEF FirstInOrder, SearchInv, NextAddress, TypeOK, Addrs
<1>4. OwnInv'
  BY DEF OwnInv, NothingHeld, SearchInv, AfterRefusal, TypeOK, Addrs
<1>5. SearchInv'
  BY DEF SearchInv, FirstInOrder, NextAddress, TypeOK, Addrs
<1>. QED
  BY <1>1, <1>2, <1>3, <1>4, <1>5

(* The handshake keeps the invariant. *)
LEMMA HandshakeInv == ASSUME IInv, Handshake PROVE IInv'
<1>. USE DEF IInv, Handshake, conn, owned
<1>1. TypeOK'
  BY DEF TypeOK, Addrs, NextAddress, AfterRefusal, SearchInv, OwnInv
<1>2. NothingHeld'
  BY DEF NothingHeld, OwnInv, SearchInv, TypeOK, Addrs, AfterRefusal
<1>3. FirstInOrder'
  BY DEF FirstInOrder, SearchInv, NextAddress, TypeOK, Addrs
<1>4. OwnInv'
  BY DEF OwnInv, NothingHeld, SearchInv, AfterRefusal, TypeOK, Addrs
<1>5. SearchInv'
  BY DEF SearchInv, FirstInOrder, NextAddress, TypeOK, Addrs
<1>. QED
  BY <1>1, <1>2, <1>3, <1>4, <1>5

(* A failed handshake keeps the invariant. *)
LEMMA HandshakeFailsInv == ASSUME IInv, HandshakeFails PROVE IInv'
<1>. USE DEF IInv, HandshakeFails, TlsFails, Release, conn, owned
<1>1. TypeOK'
  BY DEF TypeOK, Addrs, NextAddress, AfterRefusal, SearchInv, OwnInv
<1>2. NothingHeld'
  BY DEF NothingHeld, OwnInv, SearchInv, TypeOK, Addrs, AfterRefusal
<1>3. FirstInOrder'
  BY DEF FirstInOrder, SearchInv, NextAddress, TypeOK, Addrs
<1>4. OwnInv'
  BY DEF OwnInv, NothingHeld, SearchInv, AfterRefusal, TypeOK, Addrs
<1>5. SearchInv'
  BY DEF SearchInv, FirstInOrder, NextAddress, TypeOK, Addrs
<1>. QED
  BY <1>1, <1>2, <1>3, <1>4, <1>5

(* Handing the socket over keeps the invariant. *)
LEMMA ConnectedInv == ASSUME IInv, Connected PROVE IInv'
<1>. USE DEF IInv, Connected, Release, conn, owned
<1>1. TypeOK'
  BY DEF TypeOK, Addrs, NextAddress, AfterRefusal, SearchInv, OwnInv
<1>2. NothingHeld'
  BY DEF NothingHeld, OwnInv, SearchInv, TypeOK, Addrs, AfterRefusal
<1>3. FirstInOrder'
  BY DEF FirstInOrder, SearchInv, NextAddress, TypeOK, Addrs
<1>4. OwnInv'
  BY DEF OwnInv, NothingHeld, SearchInv, AfterRefusal, TypeOK, Addrs
<1>5. SearchInv'
  BY DEF SearchInv, FirstInOrder, NextAddress, TypeOK, Addrs
<1>. QED
  BY <1>1, <1>2, <1>3, <1>4, <1>5

(* The end of the list keeps the invariant. *)
LEMMA NoneLeftInv == ASSUME IInv, NoneLeft PROVE IInv'
<1>. USE DEF IInv, NoneLeft, Release, conn, owned
<1>1. TypeOK'
  BY DEF TypeOK, Addrs, NextAddress, AfterRefusal, SearchInv, OwnInv
<1>2. NothingHeld'
  BY DEF NothingHeld, OwnInv, SearchInv, TypeOK, Addrs, AfterRefusal
<1>3. FirstInOrder'
  BY DEF FirstInOrder, SearchInv, NextAddress, TypeOK, Addrs
<1>4. OwnInv'
  BY DEF OwnInv, NothingHeld, SearchInv, AfterRefusal, TypeOK, Addrs
<1>5. SearchInv'
  BY DEF SearchInv, FirstInOrder, NextAddress, TypeOK, Addrs
<1>. QED
  BY <1>1, <1>2, <1>3, <1>4, <1>5

(* conn_close keeps the invariant. *)
LEMMA CloseInv == ASSUME IInv, Close PROVE IInv'
<1>. USE DEF IInv, Close, Release, conn, owned
<1>1. TypeOK'
  BY DEF TypeOK, Addrs, NextAddress, AfterRefusal, SearchInv, OwnInv
<1>2. NothingHeld'
  BY DEF NothingHeld, OwnInv, SearchInv, TypeOK, Addrs, AfterRefusal
<1>3. FirstInOrder'
  BY DEF FirstInOrder, SearchInv, NextAddress, TypeOK, Addrs
<1>4. OwnInv'
  BY DEF OwnInv, NothingHeld, SearchInv, AfterRefusal, TypeOK, Addrs
<1>5. SearchInv'
  BY DEF SearchInv, FirstInOrder, NextAddress, TypeOK, Addrs
<1>. QED
  BY <1>1, <1>2, <1>3, <1>4, <1>5

(* The server keeps the invariant. *)
LEMMA SpeakInv == ASSUME IInv, Speak PROVE IInv'
<1>. USE DEF IInv, Speak, conn, owned
<1>1. TypeOK'
  BY DEF TypeOK, Addrs, NextAddress, AfterRefusal, SearchInv, OwnInv
<1>2. NothingHeld'
  BY DEF NothingHeld, OwnInv, SearchInv, TypeOK, Addrs, AfterRefusal
<1>3. FirstInOrder'
  BY DEF FirstInOrder, SearchInv, NextAddress, TypeOK, Addrs
<1>4. OwnInv'
  BY DEF OwnInv, NothingHeld, SearchInv, AfterRefusal, TypeOK, Addrs
<1>5. SearchInv'
  BY DEF SearchInv, FirstInOrder, NextAddress, TypeOK, Addrs
<1>. QED
  BY <1>1, <1>2, <1>3, <1>4, <1>5

(* Every step keeps the invariant. *)
LEMMA InvStep == ASSUME IInv, [Next]_vars PROVE IInv'
<1>1. CASE Next
  BY <1>1, ResolveInv, ResolveFailsInv, SocketInv, SocketFailsInv,
     ConnectInv, ConnectFailsInv, NewCtxInv, NewCtxFailsInv,
     NewSslInv, NewSslFailsInv, BindInv, BindFailsInv,
     HandshakeInv, HandshakeFailsInv, ConnectedInv, NoneLeftInv,
     CloseInv, SpeakInv
  DEF Next, OpenStep
<1>2. CASE UNCHANGED vars
  BY <1>2 DEF vars, conn, owned, IInv, TypeOK, NothingHeld, FirstInOrder,
              OwnInv, SearchInv
<1>. QED
  BY <1>1, <1>2

(* The inductive invariant of conn_open and conn_close. *)
THEOREM Invariance == Spec => []IInv
<1>. QED
  BY InitInv, InvStep, PTL DEF Spec

-----------------------------------------------------------------------------
(* The locals of conn_open and the fields of conn keep their types. *)
THEOREM TypeCorrect == Spec => []TypeOK
<1>1. IInv => TypeOK
  BY DEF IInv
<1>. QED
  BY <1>1, Invariance, PTL

(* On every path of conn_open sockets, TLS objects and the address list    *)
(* are released exactly once, or held by conn and released by conn_close.  *)
THEOREM ConnectionsAreReleased == Spec => []NothingHeld
<1>1. IInv => NothingHeld
  BY DEF IInv
<1>. QED
  BY <1>1, Invariance, PTL

(* The address that conn_open uses is the first that takes a connection.   *)
THEOREM AddressesInOrder == Spec => []FirstInOrder
<1>1. IInv => FirstInOrder
  BY DEF IInv
<1>. QED
  BY <1>1, Invariance, PTL
=============================================================================
