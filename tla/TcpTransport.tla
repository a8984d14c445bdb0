---------------------------- MODULE TcpTransport ----------------------------
(***************************************************************************)
(* TCP_CLIENT, TCP_SERVER and TCP_SERVER_MASTER over the sockets of the    *)
(* kernel, with the lookup of a name (DnsWrapper) and the log line that    *)
(* every failure posts before it returns false (ElasticSearchClient)       *)
(* running inside their calls.  Each client and each server belongs to a   *)
(* thread of its own; servers share the listening socket of the master.    *)
(*   A client calls Initialize, Connect until it succeeds or gives up, and *)
(*   Delete once; a server Accept and Delete in any order in which it does *)
(*   not Accept over a connection it was granted.                          *)
(* Send and Receive are one call of the kernel each, which changes nothing *)
(* of the above: they say whether all the bytes went, and are left out.    *)
(***************************************************************************)
EXTENDS DnsWrapper, ElasticSearchClient, FiniteSets, Integers

CONSTANTS
  Clients, Servers,
  Literals,        \* the names that inet_pton understands: no lookup
  ServerNames,     \* the names and addresses of the master's machine
  NamesOf,         \* which names the clients may have been given
  Descriptors,     \* the numbers of descriptors there are, all above 0
  MaxConnects, MaxLookups, \* bounds: Connects of a client, to an address or a name,
  MaxCalls                 \* and calls of a server

ASSUME TcpAssumption ==
  /\ Threads = Clients
  /\ Posters \subseteq Clients \cup Servers   \* the posts of the others are not followed
  /\ Clients \cap Servers = {}
  /\ NamesOf \subseteq [Clients -> Names \cup Literals]
  /\ Descriptors \subseteq Nat \ {0}

VARIABLES
  descriptors,  \* the open socket behind each descriptor
  lSocket,      \* the listening descriptor; 0 when there is none
  backlog,      \* connections not accepted yet, as the clients at their other end
  conn,         \* the connection of each client's socket
  blocking,     \* O_NONBLOCK is not set on it
  ip,           \* what each TCP_CLIENT_MASTER was given to connect to
  cSocket,      \* the descriptor in each TCP_CLIENT and TCP_SERVER
  call,         \* where each client and each server is
  after,        \* where a client or server is once its log line is posted
  connects,     \* Connects of each client so far
  openedBy,     \* the one that opened its connection, and to which address
  calls         \* calls of each server so far

kernelVars == <<descriptors, lSocket, backlog, conn, blocking>>
objectVars == <<ip, cSocket, call, after, connects, openedBy, calls>>
vars == <<dnsVars, postVars, kernelVars, objectVars>>

Closed   == [kind |-> "closed"]    \* a descriptor that is not open
Listener == [kind |-> "listener"]
Own(c)   == [kind |-> "client", of |-> c]
Peer(c)  == [kind |-> "peer", of |-> c]   \* the server's end of a client's connection

FreeDescriptors == {fd \in Descriptors : descriptors[fd] = Closed}
Lowest == CHOOSE fd \in FreeDescriptors : \A e \in FreeDescriptors : fd <= e

Init ==
  /\ DnsInit /\ PostInit
  /\ descriptors = [fd \in Descriptors |-> Closed]
  /\ lSocket = 0 /\ backlog = <<>>
  /\ conn = [c \in Clients |-> "none"]
  /\ blocking = [c \in Clients |-> TRUE]
  /\ ip \in NamesOf
  /\ cSocket = [o \in Clients \cup Servers |-> 0]
  /\ call = [o \in Clients \cup Servers |-> IF o \in Clients THEN "new" ELSE "idle"]
  /\ after = call
  /\ connects = [c \in Clients |-> 0]
  /\ openedBy = [c \in Clients |-> [connect |-> 0, to |-> IP_NOT_FOUND]]
  /\ calls = [s \in Servers |-> 0]

Goto(o, place) ==
  /\ call' = [call EXCEPT ![o] = place]
  /\ after' = [after EXCEPT ![o] = place]
  /\ UNCHANGED postVars

\* LOGGER_ERROR or LOGGER_WARN, then return.
LogThen(o, place) ==
  IF o \in Posters THEN /\ call' = [call EXCEPT ![o] = "log"]
                        /\ after' = [after EXCEPT ![o] = place]
                        /\ PostCall(o)
  ELSE Goto(o, place)

LogStep(o) ==
  /\ o \in Posters /\ call[o] = "log"
  /\ \/ PostStep(o) /\ UNCHANGED <<call, after>>
     \/ ~Posting(o) /\ Goto(o, after[o])
  /\ UNCHANGED <<dnsVars, kernelVars, ip, cSocket, connects, openedBy, calls>>

-----------------------------------------------------------------------------
(* The network *)

\* The last step of the handshake.
Establish(c) ==
  /\ conn' = [conn EXCEPT ![c] = "established"]
  /\ backlog' = IF openedBy'[c].to \in ServerNames THEN Append(backlog, c) ELSE backlog

CanEstablish(to) == to \in ServerNames => lSocket # 0

Network ==
  /\ \E c \in Clients :
       /\ conn[c] = "syn"
       /\ \/ CanEstablish(openedBy[c].to) /\ UNCHANGED openedBy /\ Establish(c)
          \/ conn' = [conn EXCEPT ![c] = "refused"] /\ UNCHANGED <<backlog, openedBy>>
  /\ UNCHANGED <<dnsVars, postVars, descriptors, lSocket, blocking,
                 ip, cSocket, call, after, connects, calls>>

\* shutdown and close of a descriptor, whosever it is.
Close(fd) ==
  LET socket == IF fd \in Descriptors THEN descriptors[fd] ELSE Closed
  IN /\ descriptors' = IF fd \in Descriptors THEN [descriptors EXCEPT ![fd] = Closed] ELSE descriptors
     /\ conn' = [c \in Clients |-> IF socket = Own(c) THEN "closed" ELSE conn[c]]
     /\ backlog' = IF socket = Listener THEN <<>> ELSE backlog

-----------------------------------------------------------------------------
(* TCP_CLIENT *)

\* socket() may fail, or one of the setsockopts, which leaves the socket open.
InitializeClient(c) ==
  /\ call[c] = "new"
  /\ \/ /\ FreeDescriptors # {}
        /\ descriptors' = [descriptors EXCEPT ![Lowest] = Own(c)]
        /\ cSocket' = [cSocket EXCEPT ![c] = Lowest]
        /\ Goto(c, "ready") \/ LogThen(c, "unusable")
     \/ /\ FreeDescriptors = {}
        /\ cSocket' = [cSocket EXCEPT ![c] = -1]
        /\ LogThen(c, "unusable")
        /\ UNCHANGED descriptors
  /\ UNCHANGED <<dnsVars, lSocket, backlog, conn, blocking,
                 ip, connects, openedBy, calls>>

\* A name that is not an address is looked up first.
ConnectBegins(c) ==
  /\ call[c] = "ready"
  /\ connects[c] < IF ip[c] \in Literals THEN MaxConnects ELSE MaxLookups
  /\ connects' = [connects EXCEPT ![c] = @ + 1]
  /\ \/ ip[c] \in Literals /\ Goto(c, "connect") /\ UNCHANGED dnsVars
     \/ ip[c] \notin Literals /\ DnsCall(c, ip[c]) /\ Goto(c, "lookup")
  /\ UNCHANGED <<kernelVars, ip, cSocket, openedBy, calls>>

Lookup(c) ==
  /\ call[c] = "lookup"
  /\ \/ DnsStep(c) /\ UNCHANGED <<call, after, postVars>>
     \/ dns[c] = "found" /\ Goto(c, "connect") /\ UNCHANGED dnsVars
     \/ dns[c] = "not_found" /\ LogThen(c, "ready") /\ UNCHANGED dnsVars
  /\ UNCHANGED <<kernelVars, ip, cSocket, connects, openedBy, calls>>

Destination(c) == IF ip[c] \in Literals THEN ip[c] ELSE ip_addr[c]

\* An fcntl that fails leaves the socket as it is.
FcntlFails(c) ==
  /\ call[c] = "connect"
  /\ LogThen(c, "ready")
  /\ UNCHANGED <<dnsVars, kernelVars, ip, cSocket, connects, openedBy, calls>>

\* connect() on the socket that was just made non-blocking.  On a fresh socket
\* it starts to connect, fails, or succeeds at once; on one that an earlier call
\* gave up it answers EALREADY, 0 or EISCONN.  All but EINPROGRESS is an error.
Connect(c) ==
  /\ call[c] = "connect"
  /\ blocking' = [blocking EXCEPT ![c] = FALSE]
  /\ \/ /\ conn[c] \in {"none", "refused"}
        /\ openedBy' = [openedBy EXCEPT ![c] = [connect |-> connects[c], to |-> Destination(c)]]
        /\ \/ conn' = [conn EXCEPT ![c] = "syn"] /\ Goto(c, "select") /\ UNCHANGED backlog
           \/ CanEstablish(Destination(c)) /\ Establish(c) /\ LogThen(c, "ready")
           \/ conn' = [conn EXCEPT ![c] = "refused"] /\ LogThen(c, "ready") /\ UNCHANGED backlog
     \/ /\ conn[c] \in {"syn", "established"}
        /\ LogThen(c, "ready")
        /\ UNCHANGED <<openedBy, conn, backlog>>
  /\ UNCHANGED <<dnsVars, descriptors, lSocket, ip, cSocket, connects, calls>>

\* Mutant: a writable socket is taken for a connected one.
ConnectEnds_Trusting(c) ==
  /\ call[c] = "select"
  /\ \/ /\ conn[c] # "syn"
        /\ blocking' = [blocking EXCEPT ![c] = TRUE]
        /\ Goto(c, "connected")
     \/ LogThen(c, "ready") /\ UNCHANGED blocking
  /\ UNCHANGED <<dnsVars, descriptors, lSocket, backlog, conn, ip, cSocket, connects,
                 openedBy, calls>>

\* select, SO_ERROR, and back to a blocking socket; or the time-out of select,
\* an error of the connection, or an fcntl that fails.  A getsockopt that fails
\* would be logged and an unset valopt tested: it can only where cSocket is not
\* a socket, which HoldsOwnSocket excludes.
ConnectEnds(c) ==
  /\ call[c] = "select"
  /\ \/ /\ conn[c] = "established"
        /\ blocking' = [blocking EXCEPT ![c] = TRUE]
        /\ Goto(c, "connected")
     \/ LogThen(c, "ready") /\ UNCHANGED blocking
  /\ UNCHANGED <<dnsVars, descriptors, lSocket, backlog, conn, ip, cSocket, connects,
                 openedBy, calls>>

DeleteClient(c) ==
  /\ call[c] \in {"ready", "unusable", "connected"}
  /\ Close(cSocket[c])
  /\ Goto(c, "deleted")
  /\ UNCHANGED <<dnsVars, lSocket, blocking, ip, cSocket, connects, openedBy, calls>>

-----------------------------------------------------------------------------
(* TCP_SERVER_MASTER *)

\* Before the first call of a client.  (bind or listen may fail, with the socket
\* open: every connection is refused then.)
InitializeMaster ==
  /\ lSocket = 0 /\ \A c \in Clients : call[c] = "new"
  /\ FreeDescriptors # {}
  /\ lSocket' = Lowest
  /\ descriptors' = [descriptors EXCEPT ![Lowest] = Listener]
  /\ UNCHANGED <<dnsVars, postVars, backlog, conn, blocking, objectVars>>

DeleteMaster ==
  /\ lSocket # 0 /\ \A s \in Servers : call[s] \in {"idle", "accepted"} /\ calls[s] = MaxCalls
  /\ Close(lSocket)
  /\ lSocket' = 0
  /\ UNCHANGED <<dnsVars, postVars, blocking, objectVars>>

-----------------------------------------------------------------------------
(* TCP_SERVER *)

ServerCall(s) == calls[s] < MaxCalls /\ calls' = [calls EXCEPT ![s] = @ + 1]

\* select on the listening socket, or its time-out.
AcceptBegins(s) ==
  /\ call[s] = "idle" /\ lSocket # 0
  /\ ServerCall(s)
  /\ \/ backlog # <<>> /\ Goto(s, "accept")
     \/ backlog = <<>> /\ LogThen(s, "idle")
  /\ UNCHANGED <<dnsVars, kernelVars, ip, cSocket, connects, openedBy>>

\* accept: -1 if another server was faster, or there is no descriptor left.  A
\* setsockopt that fails leaves the connection in cSocket.
Accept(s) ==
  /\ call[s] = "accept"
  /\ \/ /\ backlog # <<>> /\ FreeDescriptors # {}
        /\ backlog' = Tail(backlog)
        /\ descriptors' = [descriptors EXCEPT ![Lowest] = Peer(Head(backlog))]
        /\ cSocket' = [cSocket EXCEPT ![s] = Lowest]
        /\ Goto(s, "accepted") \/ LogThen(s, "idle")
     \/ /\ backlog = <<>> \/ FreeDescriptors = {}
        /\ cSocket' = [cSocket EXCEPT ![s] = -1]
        /\ LogThen(s, "idle")
        /\ UNCHANGED <<backlog, descriptors>>
  /\ UNCHANGED <<dnsVars, lSocket, conn, blocking,
                 ip, connects, openedBy, calls>>

\* Mutant: the number is kept, as TCP_CLIENT keeps it.
DeleteServer_Keeps(s) ==
  /\ call[s] \in {"idle", "accepted"}
  /\ ServerCall(s)
  /\ \/ cSocket[s] > 0 /\ Close(cSocket[s]) /\ Goto(s, "idle")
     \/ /\ cSocket[s] <= 0 /\ LogThen(s, "idle")
        /\ UNCHANGED <<descriptors, conn, backlog>>
  /\ UNCHANGED <<dnsVars, lSocket, blocking, ip, cSocket, connects, openedBy>>

DeleteServer(s) ==
  /\ call[s] \in {"idle", "accepted"}
  /\ ServerCall(s)
  /\ \/ /\ cSocket[s] > 0 /\ Close(cSocket[s])
        /\ cSocket' = [cSocket EXCEPT ![s] = 0]
        /\ Goto(s, "idle")
     \/ /\ cSocket[s] <= 0 /\ LogThen(s, "idle")
        /\ UNCHANGED <<descriptors, conn, backlog, cSocket>>
  /\ UNCHANGED <<dnsVars, lSocket, blocking, ip, connects, openedBy>>

-----------------------------------------------------------------------------
\* The steps inside a call.
InCall(o) ==
  \/ LogStep(o)
  \/ o \in Clients /\ (Lookup(o) \/ FcntlFails(o) \/ Connect(o) \/ ConnectEnds(o))
  \/ o \in Servers /\ Accept(o)

Next ==
  /\ ~aborted
  /\ \/ Network \/ InitializeMaster \/ DeleteMaster
     \/ \E o \in Clients \cup Servers : InCall(o)
     \/ \E c \in Clients : InitializeClient(c) \/ ConnectBegins(c) \/ DeleteClient(c)
     \/ \E s \in Servers : AcceptBegins(s) \/ DeleteServer(s)

Spec == Init /\ [][Next]_vars

-----------------------------------------------------------------------------
(* Properties *)

\* Connect returned true: the client holds a blocking socket whose connection
\* this very call has opened, to the address of its own name unless another
\* lookup was at work at the same time.
ConnectedIsUsable ==
  \A c \in Clients :
    call[c] = "connected" =>
      /\ descriptors[cSocket[c]] = Own(c)
      /\ conn[c] = "established" /\ blocking[c]
      /\ openedBy[c].connect = connects[c]
      /\ openedBy[c].to = ip[c] \/ rivals[c] # {}

\* Descriptor numbers are reused as soon as they are closed; still each object
\* that holds one holds its own socket, so nobody closes another's.
HoldsOwnSocket ==
  /\ \A c \in Clients :
       cSocket[c] > 0 /\ call[c] # "deleted" => descriptors[cSocket[c]] = Own(c)
  /\ \A s \in Servers :
       cSocket[s] > 0 => \E c \in Clients : descriptors[cSocket[s]] = Peer(c)
  /\ lSocket # 0 => descriptors[lSocket] = Listener
  /\ \A s, r \in Servers : s # r /\ cSocket[s] > 0 => cSocket[s] # cSocket[r]
=============================================================================
