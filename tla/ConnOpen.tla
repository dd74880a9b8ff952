------------------------------- MODULE ConnOpen -------------------------------
(***************************************************************************)
(* conn_open, tls_connect_socket and conn_close of src/net.c, as client.c  *)
(* calls them: each conn_open is followed by one conn_close, whatever it   *)
(* returned.  The socket made for address i is called i; a socket, TLS     *)
(* object or address list is open until it is closed or freed.             *)
(***************************************************************************)
EXTENDS Integers

CONSTANTS
  TlsChoices,  \* the values of url->use_tls considered
  MaxAddrs     \* bound: addresses a name resolves to

ASSUME ChoicesAssumption == TlsChoices \subseteq BOOLEAN
ASSUME AddrsAssumption == MaxAddrs \in Nat \ {0}

Addrs == 1 .. MaxAddrs

VARIABLES
  pc,        \* where conn_open is; "open" and "failed" are its returns
  use_tls,   \* url->use_tls
  addrs,     \* addresses in the list of getaddrinfo
  current,   \* index of the address at hand
  conn_fd,   \* conn->fd
  conn_ssl,  \* conn->ssl_ctx and conn->ssl, both set or both NULL
  errbuf,    \* what went wrong
  sockets,   \* sockets open
  objects,   \* of "list", "ctx" and "ssl", those allocated
  faults,    \* history: something not open was closed
  refused,   \* history: addresses tried without success in this call
  peer       \* whether the server at hand answers a TLS handshake

conn  == <<conn_fd, conn_ssl>>
owned == <<sockets, objects, faults>>
vars  == <<pc, use_tls, addrs, current, conn, errbuf, owned, refused, peer>>

Init ==
  /\ pc = "closed"
  /\ use_tls = FALSE
  /\ addrs = 0
  /\ current = 0
  /\ conn_fd = -1
  /\ conn_ssl = FALSE
  /\ errbuf = "none"
  /\ sockets = {}
  /\ objects = {}
  /\ faults = FALSE
  /\ refused = {}
  /\ peer = "answers"

-----------------------------------------------------------------------------
(* Faulty variants, used by the mutation checks of the README.             *)

SkipOne == current + 2
KeepSocket == sockets
StayHere == current

-----------------------------------------------------------------------------
(* Helpers. *)

NextAddress == current + 1

(* close(fd) on the way to the next address. *)
AfterRefusal == sockets \ {current}

(* Release(S, O): close the sockets of S, free the objects of O. *)
Release(S, O) ==
  /\ sockets' = sockets \ S
  /\ objects' = objects \ O
  /\ faults' = (faults \/ ~(S \subseteq sockets) \/ ~(O \subseteq objects))

(* A failure of tls_connect_socket frees what it made; conn_open then      *)
(* closes the socket, frees the list and returns, whatever is left in it.  *)
TlsFails(made, reason) ==
  /\ pc' = "failed"
  /\ errbuf' = reason
  /\ Release({current}, made \cup {"list"})
  /\ UNCHANGED <<use_tls, addrs, current, conn, refused, peer>>

-----------------------------------------------------------------------------
(* conn_open. *)

Resolve ==
  /\ pc = "closed"
  /\ use_tls' \in TlsChoices
  /\ addrs' \in Addrs
  /\ current' = 1
  /\ refused' = {}
  /\ objects' = objects \cup {"list"}
  /\ conn_fd' = -1 /\ conn_ssl' = FALSE
  /\ errbuf' = "none"
  /\ peer' = "answers"
  /\ pc' = "socket"
  /\ UNCHANGED <<sockets, faults>>

ResolveFails ==
  /\ pc = "closed"
  /\ use_tls' \in TlsChoices
  /\ addrs' = 0
  /\ current' = 1
  /\ refused' = {}
  /\ conn_fd' = -1 /\ conn_ssl' = FALSE
  /\ errbuf' = "resolving"
  /\ pc' = "failed"
  /\ UNCHANGED <<owned, peer>>

Socket ==
  /\ pc = "socket"
  /\ current <= addrs
  /\ sockets' = sockets \cup {current}
  /\ pc' = "connect"
  /\ UNCHANGED <<use_tls, addrs, current, conn, errbuf, objects, faults,
                 refused, peer>>

SocketFails ==
  /\ pc = "socket"
  /\ current <= addrs
  /\ refused' = refused \cup {current}
  /\ current' = NextAddress
  /\ UNCHANGED <<pc, use_tls, addrs, conn, errbuf, owned, peer>>

Connect ==
  /\ pc = "connect"
  /\ pc' = IF use_tls THEN "ctx" ELSE "connected"
  /\ peer' \in {"answers", "silent"}
  /\ UNCHANGED <<use_tls, addrs, current, conn, errbuf, owned, refused>>

ConnectFails ==
  /\ pc = "connect"
  /\ refused' = refused \cup {current}
  /\ sockets' = AfterRefusal
  /\ current' = NextAddress
  /\ pc' = "socket"
  /\ UNCHANGED <<use_tls, addrs, conn, errbuf, objects, faults, peer>>

NewCtx ==
  /\ pc = "ctx"
  /\ objects' = objects \cup {"ctx"}
  /\ pc' = "ssl"
  /\ UNCHANGED <<use_tls, addrs, current, conn, errbuf, sockets, faults,
                 refused, peer>>

NewCtxFails == pc = "ctx" /\ TlsFails({}, "context")

NewSsl ==
  /\ pc = "ssl"
  /\ objects' = objects \cup {"ssl"}
  /\ pc' = "bind"
  /\ UNCHANGED <<use_tls, addrs, current, conn, errbuf, sockets, faults,
                 refused, peer>>

NewSslFails == pc = "ssl" /\ TlsFails({"ctx"}, "session")

(* SSL_set_fd and the server's name. *)
Bind ==
  /\ pc = "bind"
  /\ pc' = "handshake"
  /\ UNCHANGED <<use_tls, addrs, current, conn, errbuf, owned, refused, peer>>

BindFails == pc = "bind" /\ TlsFails({"ctx", "ssl"}, "binding")

(* SSL_connect waits as long as the server says nothing. *)
Handshake ==
  /\ pc = "handshake"
  /\ peer = "answers"
  /\ pc' = "connected"
  /\ UNCHANGED <<use_tls, addrs, current, conn, errbuf, owned, refused, peer>>

HandshakeFails ==
  /\ pc = "handshake"
  /\ peer = "answers"
  /\ TlsFails({"ctx", "ssl"}, "handshake")

Connected ==
  /\ pc = "connected"
  /\ conn_fd' = current
  /\ conn_ssl' = use_tls
  /\ Release({}, {"list"})
  /\ pc' = "open"
  /\ UNCHANGED <<use_tls, addrs, current, errbuf, refused, peer>>

NoneLeft ==
  /\ pc = "socket"
  /\ current > addrs
  /\ Release({}, {"list"})
  /\ errbuf' = "connecting"
  /\ pc' = "failed"
  /\ UNCHANGED <<use_tls, addrs, current, conn, refused, peer>>

-----------------------------------------------------------------------------
(* conn_close, of an open or a reset conn. *)

Close ==
  /\ pc \in {"open", "failed"}
  /\ Release(IF conn_fd # -1 THEN {conn_fd} ELSE {},
             IF conn_ssl THEN {"ctx", "ssl"} ELSE {})
  /\ conn_fd' = -1 /\ conn_ssl' = FALSE
  /\ pc' = "closed"
  /\ UNCHANGED <<use_tls, addrs, current, errbuf, refused, peer>>

OpenStep ==
  \/ Socket \/ SocketFails \/ Connect \/ ConnectFails
  \/ NewCtx \/ NewCtxFails \/ NewSsl \/ NewSslFails \/ Bind \/ BindFails
  \/ Handshake \/ HandshakeFails \/ Connected \/ NoneLeft

-----------------------------------------------------------------------------
(* A silent server may speak up, or its machine drop the connection. *)

Speak ==
  /\ peer = "silent"
  /\ peer' = "answers"
  /\ UNCHANGED <<pc, use_tls, addrs, current, conn, errbuf, owned, refused>>

Next == Resolve \/ ResolveFails \/ OpenStep \/ Close \/ Speak

Spec == Init /\ [][Next]_vars

(* Every system call but SSL_connect returns. *)
FairSpec == Spec /\ WF_vars(OpenStep)

-----------------------------------------------------------------------------
TypeOK ==
  /\ pc \in {"closed", "socket", "connect", "ctx", "ssl", "bind",
             "handshake", "connected", "open", "failed"}
  /\ use_tls \in BOOLEAN
  /\ addrs \in 0 .. MaxAddrs
  /\ current \in 0 .. MaxAddrs + 1
  /\ conn_fd \in {-1} \cup Addrs
  /\ conn_ssl \in BOOLEAN
  /\ errbuf \in {"none", "resolving", "context", "session", "binding",
                 "handshake", "connecting"}
  /\ sockets \subseteq Addrs
  /\ objects \subseteq {"list", "ctx", "ssl"}
  /\ faults \in BOOLEAN
  /\ refused \subseteq Addrs
  /\ peer \in {"answers", "silent"}

(* Whatever fails, and however often the client reconnects: conn_open that *)
(* fails leaves nothing open, one that succeeds leaves exactly what conn   *)
(* holds, conn_close ends all of it, and nothing is closed twice.          *)
NothingHeld ==
  /\ ~faults
  /\ pc \in {"failed", "closed"} =>
       sockets = {} /\ objects = {} /\ conn_fd = -1 /\ ~conn_ssl
  /\ pc = "open" =>
       /\ sockets = {conn_fd}
       /\ objects = IF conn_ssl THEN {"ctx", "ssl"} ELSE {}
       /\ conn_ssl = use_tls

(* conn_open uses the first address that takes the connection, and says    *)
(* that connecting failed only when every address was tried.               *)
FirstInOrder ==
  /\ pc = "open" => refused = 1 .. conn_fd - 1
  /\ errbuf = "connecting" => refused = 1 .. addrs

(* conn_open returns, unless a server takes the connection and is silent   *)
(* in the handshake, which no timeout covers (net.c:140).                  *)
OpenReturns == pc = "socket" ~> (pc \in {"open", "failed"} \/ peer = "silent")
=============================================================================
