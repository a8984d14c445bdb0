------------------------- MODULE WsClientMaster_proofs -------------------------
(***************************************************************************)
(* The websocket client pops only what it has seen, hands each message out  *)
(* in the order of the server unless its callback slept, and runs out of    *)
(* elements only by a thread or by a message that waited: for any number of *)
(* clients and queues, any pool that is large enough for all the queues, any*)
(* limits and any messages, and callbacks that overlap in any way.          *)
(*   `Registered' says that no two threads share a queue and that accept is *)
(* never true again, `Found' what a thread knows between a look and a pop,  *)
(* `Ordered' bounds everything by the last message handed on, `Limits' says *)
(* that only messages that waited are beyond a limit, `Conserved' counts.   *)
(***************************************************************************)
EXTENDS WsClientMaster, FiniteSetTheorems, TLAPS

Messages == [host : Hosts, number : Nat, time_out : Nat]
Elements == [number : Nat, waited : BOOLEAN]

TypeInv ==
    /\ socket \in {"connecting", "open", "closed"}
    /\ accept \in BOOLEAN
    /\ host_count \in 0 .. MAX_HOSTS
    /\ client_id \in [Clients -> Int]
    /\ pool \in Nat
    /\ active_read \in [Hosts -> Seq(Elements)]
    /\ cb \in {"idle", "wait", "pop", "push"}
    /\ message \in Messages
    /\ asleep \in SUBSET Messages
    /\ pc \in [Clients -> {"initialize", "idle", "wait", "check", "pop", "copy"}]
    /\ tries \in [Clients -> Nat]
    /\ holds \in [Clients -> Elements]
    /\ sent \in [Hosts -> Nat]
    /\ got \in [Hosts -> Nat]

Registered ==
    /\ accept <=> socket = "open"
    /\ \A c \in Clients :
          /\ pc[c] = "initialize" => client_id[c] = None
          /\ pc[c] # "initialize" => socket # "connecting"
          /\ pc[c] \in {"wait", "check", "pop", "copy"} => client_id[c] \in Hosts
          /\ client_id[c] \in Hosts => client_id[c] < host_count
    /\ \A c, d \in Clients : c # d /\ client_id[c] \in Hosts => client_id[c] # client_id[d]

Found ==
    /\ cb = "pop" => pool > 0
    /\ \A c \in Clients :
          /\ pc[c] = "check" /\ tries[c] < WEB_SOCKET_TIME_OUT /\ accept =>
                active_read[client_id[c]] # <<>>
          /\ pc[c] = "pop" => active_read[client_id[c]] # <<>>

Base == TypeInv /\ Registered /\ Found /\ SeenIsPopped

\* What the constants give, without the product.
LEMMA Constants ==
    /\ MAX_HOSTS \in 1 .. 255 /\ MAX_ACCUMULATED_FRAMES \in Nat \ {0}
    /\ WEB_SOCKET_POOL_SIZE \in Nat /\ WEB_SOCKET_TIME_OUT \in Nat \ {0}
    /\ None \notin Hosts /\ TooMany \notin Hosts /\ 0 \in Hosts
    /\ None \in Int /\ TooMany \in Int
    /\ NoMessage \in Messages /\ NoElement \in Elements /\ NoElement.number = 0
  BY WsClientAssumption DEF None, TooMany, Hosts, NoMessage, NoElement, Messages, Elements

LEMMA InitBase == Init => Base
<1>. SUFFICES ASSUME Init PROVE Base
  OBVIOUS
<1>1. TypeInv
  <2>1. <<>> \in Seq(Elements)
    OBVIOUS
  <2>2. message \in Messages /\ asleep \in SUBSET Messages
    BY Constants DEF Init
  <2>3. holds \in [Clients -> Elements] /\ active_read \in [Hosts -> Seq(Elements)]
    BY <2>1, Constants DEF Init
  <2>4. /\ socket \in {"connecting", "open", "closed"} /\ accept \in BOOLEAN
        /\ host_count \in 0 .. MAX_HOSTS /\ client_id \in [Clients -> Int] /\ pool \in Nat
        /\ cb \in {"idle", "wait", "pop", "push"}
    <3>1. 0 \in 0 .. MAX_HOSTS /\ None \in Int /\ WEB_SOCKET_POOL_SIZE \in Nat
      BY Constants
    <3>. QED  BY <3>1 DEF Init
  <2>5. /\ pc \in [Clients -> {"initialize", "idle", "wait", "check", "pop", "copy"}]
        /\ tries \in [Clients -> Nat] /\ sent \in [Hosts -> Nat] /\ got \in [Hosts -> Nat]
    BY DEF Init
  <2>. QED  BY <2>2, <2>3, <2>4, <2>5 DEF TypeInv
<1>2. Registered /\ Found /\ SeenIsPopped
  BY Constants DEF Init, Registered, Found, SeenIsPopped
<1>. QED  BY <1>1, <1>2 DEF Base

-----------------------------------------------------------------------------
(***************************************************************************)
(* Who may do what: the steps one actor at a time.                          *)
(***************************************************************************)

LEMMA SocketBase ==
  ASSUME Base, On_Open \/ On_Close
  PROVE  Base'
<1>1. CASE On_Open
  BY <1>1 DEF On_Open, Base, TypeInv, Registered, Found, SeenIsPopped, callback, threads
<1>2. CASE On_Close
  BY <1>2 DEF On_Close, Base, TypeInv, Registered, Found, SeenIsPopped, callback, threads
<1>. QED  BY <1>1, <1>2

LEMMA MessageBase ==
  ASSUME Base, NEW h \in Hosts, On_Message(h) \/ DropForLazyReader(h)
  PROVE  Base'
<1>1. /\ UNCHANGED <<setup, pool, active_read, asleep, threads, crashed>>
      /\ sent' = [sent EXCEPT ![h] = @ + 1]
  BY DEF On_Message, DropForLazyReader
<1>2. sent' \in [Hosts -> Nat]
  BY <1>1 DEF Base, TypeInv
<1>3. cb' \in {"idle", "wait"} /\ message' \in Messages
  <2>1. CASE On_Message(h)
    <3>1. sent[h] + 1 \in Nat /\ 0 \in Nat
      BY DEF Base, TypeInv
    <3>. QED  BY <2>1, <3>1 DEF On_Message, Messages
  <2>2. CASE DropForLazyReader(h)
    BY <2>2 DEF DropForLazyReader, Base, TypeInv
  <2>. QED  BY <2>1, <2>2
<1>. QED  BY <1>1, <1>2, <1>3 DEF Base, TypeInv, Registered, Found, SeenIsPopped, setup, threads

LEMMA CallbackBase ==
  ASSUME Base, Callback
  PROVE  Base'
<1>1. UNCHANGED <<setup, sent, threads>>
  BY DEF Callback, PoolWait, PoolWaitEnds, PoolPop, ActivePush, Wake
<1>2. CASE PoolWait
  <2>1. /\ cb' = "idle" /\ message' = NoMessage
        /\ asleep' = asleep \cup {[message EXCEPT !.time_out = @ + 1]}
        /\ UNCHANGED <<pool, active_read, crashed>>
    BY <1>2 DEF PoolWait, Return
  <2>2. [message EXCEPT !.time_out = @ + 1] \in Messages
    <3>1. message \in [host : Hosts, number : Nat, time_out : Nat]
      BY DEF Base, TypeInv, Messages
    <3>2. message.time_out + 1 \in Nat
      BY <3>1
    <3>. QED  BY <3>1, <3>2 DEF Messages
  <2>3. asleep' \in SUBSET Messages
    BY <2>1, <2>2 DEF Base, TypeInv
  <2>. QED  BY <1>1, <2>1, <2>3, Constants
            DEF Base, TypeInv, Registered, Found, SeenIsPopped, setup, threads
<1>3. CASE PoolWaitEnds
  <2>1. \/ cb' = "idle" /\ message' = NoMessage
        \/ cb' = "pop" /\ pool > 0 /\ message' = message
    BY <1>3 DEF PoolWaitEnds, Return
  <2>2. UNCHANGED <<pool, active_read, asleep, crashed>>
    BY <1>3 DEF PoolWaitEnds
  <2>. QED  BY <1>1, <2>1, <2>2, Constants
            DEF Base, TypeInv, Registered, Found, SeenIsPopped, setup, threads
<1>4. CASE PoolPop
  BY <1>1, <1>4 DEF PoolPop, Base, TypeInv, Registered, Found, SeenIsPopped, setup, threads
<1>5. CASE ActivePush
  <2>. DEFINE h == message.host  q == active_read[message.host]
  <2>1. /\ h \in Hosts /\ Element \in Elements /\ q \in Seq(Elements)
        /\ active_read \in [Hosts -> Seq(Elements)]
    BY DEF Base, TypeInv, Messages, Element, Elements
  <2>2. active_read' = [active_read EXCEPT ![h] = Append(q, Element)]
    BY <1>5, <2>1 DEF ActivePush
  <2>. HIDE DEF h, q
  <2>3. Append(q, Element) \in Seq(Elements) /\ Append(q, Element) # <<>>
    BY <2>1
  <2>4. /\ active_read'[h] = Append(q, Element)
        /\ \A g \in Hosts : g # h => active_read'[g] = active_read[g]
        /\ active_read' \in [Hosts -> Seq(Elements)]
    BY <2>1, <2>2, <2>3
  <2>5. cb' = "idle" /\ message' = NoMessage /\ UNCHANGED <<pool, asleep, crashed>>
    BY <1>5 DEF ActivePush, Return
  <2>6. TypeInv' /\ Registered' /\ SeenIsPopped'
    BY <1>1, <2>4, <2>5, Constants DEF Base, TypeInv, Registered, SeenIsPopped, setup, threads
  <2>7. Found'
    <3>1. ASSUME NEW c \in Clients, pc[c] \in {"check", "pop"},
                 active_read[client_id[c]] # <<>>
          PROVE  active_read'[client_id[c]] # <<>>
      <4>1. client_id[c] \in Hosts
        BY <3>1 DEF Base, Registered
      <4>2. CASE client_id[c] = h
        BY <4>2, <2>3, <2>4
      <4>3. CASE client_id[c] # h
        BY <3>1, <4>1, <4>3, <2>4
      <4>. QED  BY <4>2, <4>3
    <3>. QED  BY <1>1, <2>5, <3>1 DEF Base, Found, setup, threads
  <2>. QED  BY <2>6, <2>7 DEF Base
<1>6. ASSUME NEW m \in asleep, Wake(m) PROVE Base'
  <2>1. /\ cb' = "wait" /\ message' = m /\ asleep' = asleep \ {m}
        /\ UNCHANGED <<pool, active_read, crashed>>
    BY <1>6 DEF Wake
  <2>2. m \in Messages /\ asleep' \in SUBSET Messages
    BY <2>1 DEF Base, TypeInv
  <2>. QED  BY <1>1, <2>1, <2>2
            DEF Base, TypeInv, Registered, Found, SeenIsPopped, setup, threads
<1>. QED  BY <1>2, <1>3, <1>4, <1>5, <1>6 DEF Callback

LEMMA ConnectBase ==
  ASSUME Base, NEW c \in Clients, Connect(c)
  PROVE  Base'
<1>1. /\ pc[c] = "initialize" /\ accept
      /\ pc' = [pc EXCEPT ![c] = "idle"]
      /\ UNCHANGED <<socket, accept, pool, active_read, callback, tries, holds, got, crashed>>
  BY DEF Connect
<1>2. PICK i \in Int :
         /\ client_id' = [client_id EXCEPT ![c] = i]
         /\ \/ i = TooMany /\ host_count' = host_count
            \/ i = host_count /\ host_count < MAX_HOSTS /\ host_count' = host_count + 1
  BY Constants DEF Connect, Base, TypeInv
<1>3. /\ client_id'[c] = i /\ pc'[c] = "idle"
      /\ \A d \in Clients : d # c => client_id'[d] = client_id[d] /\ pc'[d] = pc[d]
  BY <1>1, <1>2 DEF Base, TypeInv
<1>4. /\ host_count \in 0 .. MAX_HOSTS /\ host_count' \in 0 .. MAX_HOSTS
      /\ host_count <= host_count' /\ (i \in Hosts => i = host_count /\ i < host_count')
  <2>1. host_count \in 0 .. MAX_HOSTS
    BY DEF Base, TypeInv
  <2>2. CASE i = TooMany /\ host_count' = host_count
    BY <2>1, <2>2, Constants
  <2>3. CASE i = host_count /\ host_count < MAX_HOSTS /\ host_count' = host_count + 1
    BY <2>1, <2>3, Constants
  <2>. QED  BY <1>2, <2>2, <2>3
<1>5. TypeInv' /\ SeenIsPopped'
  BY <1>1, <1>2, <1>4 DEF Base, TypeInv, SeenIsPopped, callback
<1>6. Registered'
  <2>1. socket = "open" /\ (accept <=> socket = "open")
    BY <1>1 DEF Base, Registered
  <2>2. ASSUME NEW d \in Clients
        PROVE  /\ pc'[d] = "initialize" => client_id'[d] = None
               /\ pc'[d] # "initialize" => socket # "connecting"
               /\ pc'[d] \in {"wait", "check", "pop", "copy"} => client_id'[d] \in Hosts
               /\ client_id'[d] \in Hosts => client_id'[d] < host_count'
    <3>1. CASE d = c
      BY <3>1, <2>1, <1>3, <1>4
    <3>2. CASE d # c
      BY <3>2, <1>3, <1>4, <2>1, Constants DEF Base, Registered, Hosts
    <3>. QED  BY <3>1, <3>2
  <2>3. ASSUME NEW d \in Clients, NEW e \in Clients, d # e, client_id'[d] \in Hosts
        PROVE  client_id'[d] # client_id'[e]
    <3>1. CASE d # c /\ e # c
      BY <2>3, <3>1, <1>3 DEF Base, Registered
    <3>2. CASE d = c
      <4>1. client_id[e] \in Hosts => client_id[e] < host_count
        BY DEF Base, Registered
      <4>. QED  BY <2>3, <3>2, <4>1, <1>3, <1>4
    <3>3. CASE e = c
      <4>1. client_id[d] \in Hosts /\ client_id[d] < host_count
        BY <2>3, <3>3, <1>3 DEF Base, Registered
      <4>2. i # client_id[d]
        BY <4>1, <1>4 DEF Hosts
      <4>. QED  BY <2>3, <3>3, <4>2, <1>3
    <3>. QED  BY <3>1, <3>2, <3>3
  <2>. QED  BY <2>1, <2>2, <2>3, <1>1 DEF Registered
<1>7. Found'
  BY <1>1, <1>3 DEF Base, Found, callback
<1>. QED  BY <1>5, <1>6, <1>7 DEF Base

LEMMA ReceiveBase ==
  ASSUME Base, NEW c \in Clients,
         Receive(c) \/ ReceiveWait(c) \/ ReceiveWaitEnds(c) \/ ReceiveCheck(c)
  PROVE  Base'
<1>1. UNCHANGED <<setup, pool, active_read, callback, holds, got>>
  BY DEF Receive, ReceiveWait, ReceiveWaitEnds, ReceiveCheck
<1>2. /\ pc' \in [Clients -> {"initialize", "idle", "wait", "check", "pop", "copy"}]
      /\ \A d \in Clients : d # c => pc'[d] = pc[d]
      /\ tries' \in [Clients -> Nat]
      /\ \A d \in Clients : d # c => tries'[d] = tries[d]
      /\ pc[c] \in {"idle", "wait", "check"}
      /\ pc'[c] \in {"idle", "wait", "check", "pop"}
  <2>1. /\ pc \in [Clients -> {"initialize", "idle", "wait", "check", "pop", "copy"}]
        /\ tries \in [Clients -> Nat]
    BY DEF Base, TypeInv
  <2>2. CASE Receive(c)
    BY <2>1, <2>2 DEF Receive
  <2>3. CASE ReceiveWait(c)
    BY <2>1, <2>3 DEF ReceiveWait
  <2>4. CASE ReceiveWaitEnds(c)
    BY <2>1, <2>4 DEF ReceiveWaitEnds
  <2>5. CASE ReceiveCheck(c)
    BY <2>1, <2>5 DEF ReceiveCheck
  <2>. QED  BY <2>2, <2>3, <2>4, <2>5
<1>3. crashed' # "empty"
  BY DEF Receive, ReceiveWait, ReceiveWaitEnds, ReceiveCheck, Base, SeenIsPopped
<1>4. TypeInv' /\ SeenIsPopped'
  BY <1>1, <1>2, <1>3
     DEF Base, TypeInv, SeenIsPopped, setup, callback
<1>5. Registered'
  <2>1. pc'[c] \in {"wait", "check", "pop"} => client_id[c] \in Hosts
    BY <1>2 DEF Receive, ReceiveWait, ReceiveWaitEnds, ReceiveCheck, Base, TypeInv, Registered
  <2>2. ASSUME NEW d \in Clients
        PROVE  /\ pc'[d] = "initialize" => client_id[d] = None
               /\ pc'[d] # "initialize" => socket # "connecting"
               /\ pc'[d] \in {"wait", "check", "pop", "copy"} => client_id[d] \in Hosts
    BY <1>2, <2>1 DEF Base, Registered
  <2>. QED  BY <1>1, <2>2 DEF Base, Registered, setup
<1>6. Found'
  <2>1. /\ pc'[c] = "check" /\ tries'[c] < WEB_SOCKET_TIME_OUT /\ accept =>
              active_read[client_id[c]] # <<>>
        /\ pc'[c] = "pop" => active_read[client_id[c]] # <<>>
    <3>1. tries[c] \in Nat
      BY DEF Base, TypeInv
    <3>2. CASE Receive(c) \/ ReceiveWait(c)
      BY <1>2, <3>2 DEF Receive, ReceiveWait, Base, TypeInv
    <3>3. CASE ReceiveWaitEnds(c)
      BY <3>1, <3>3, Constants DEF ReceiveWaitEnds, Base, TypeInv
    <3>4. CASE ReceiveCheck(c)
      BY <3>1, <3>4, Constants DEF ReceiveCheck, Base, TypeInv, Found
    <3>. QED  BY <3>2, <3>3, <3>4
  <2>. QED  BY <1>1, <1>2, <2>1 DEF Base, Found, setup, callback
<1>. QED  BY <1>4, <1>5, <1>6 DEF Base

\* What ReceivePop does, now that its queue is known to hold something.
LEMMA PopFacts ==
  ASSUME Base, NEW c \in Clients, ReceivePop(c)
  PROVE  LET h == client_id[c] q == active_read[client_id[c]] IN
         /\ h \in Hosts /\ q \in Seq(Elements) /\ Len(q) \in Nat \ {0}
         /\ pc[c] = "pop" /\ pc' = [pc EXCEPT ![c] = "copy"]
         /\ holds' = [holds EXCEPT ![c] = q[1]] /\ q[1] \in Elements
         /\ active_read' \in [Hosts -> Seq(Elements)]
         /\ active_read'[h] = Tail(q) /\ Len(Tail(q)) = Len(q) - 1
         /\ \A k \in 1 .. Len(q) - 1 : Tail(q)[k] = q[k + 1]
         /\ \A g \in Hosts : g # h => active_read'[g] = active_read[g]
         /\ UNCHANGED <<setup, pool, callback, tries, got, crashed>>
<1>. DEFINE h == client_id[c]  q == active_read[client_id[c]]
<1>1. pc[c] = "pop" /\ h \in Hosts /\ q # <<>>
  BY DEF ReceivePop, Base, Registered, Found
<1>2. q \in Seq(Elements) /\ active_read \in [Hosts -> Seq(Elements)]
  BY <1>1 DEF Base, TypeInv
<1>3. /\ pc' = [pc EXCEPT ![c] = "copy"]
      /\ holds' = [holds EXCEPT ![c] = Head(q)]
      /\ active_read' = [active_read EXCEPT ![h] = Tail(@)]
      /\ UNCHANGED <<setup, pool, callback, tries, got, crashed>>
  BY <1>1 DEF ReceivePop
<1>4. /\ Len(q) \in Nat \ {0} /\ Head(q) = q[1] /\ q[1] \in Elements
      /\ Tail(q) \in Seq(Elements) /\ Len(Tail(q)) = Len(q) - 1
      /\ \A k \in 1 .. Len(q) - 1 : Tail(q)[k] = q[k + 1]
  BY <1>1, <1>2
<1>5. /\ active_read' \in [Hosts -> Seq(Elements)]
      /\ active_read'[h] = Tail(q)
      /\ \A g \in Hosts : g # h => active_read'[g] = active_read[g]
  BY <1>1, <1>2, <1>3, <1>4
<1>. QED  BY <1>1, <1>2, <1>3, <1>4, <1>5

LEMMA PopBase ==
  ASSUME Base, NEW c \in Clients, ReceivePop(c)
  PROVE  Base'
<1>. DEFINE h == client_id[c]  q == active_read[client_id[c]]
<1>1. /\ h \in Hosts /\ pc[c] = "pop" /\ pc' = [pc EXCEPT ![c] = "copy"]
      /\ holds' = [holds EXCEPT ![c] = q[1]] /\ q[1] \in Elements
      /\ active_read' \in [Hosts -> Seq(Elements)]
      /\ \A g \in Hosts : g # h => active_read'[g] = active_read[g]
      /\ UNCHANGED <<setup, pool, callback, tries, got, crashed>>
  BY PopFacts
<1>. HIDE DEF q
<1>2. TypeInv'
  <2>1. holds' \in [Clients -> Elements]
    BY <1>1 DEF Base, TypeInv
  <2>. QED  BY <1>1, <2>1 DEF Base, TypeInv, setup, callback
<1>3. Registered' /\ SeenIsPopped'
  BY <1>1 DEF Base, TypeInv, Registered, SeenIsPopped, setup
<1>4. Found'
  <2>1. ASSUME NEW d \in Clients, pc'[d] \in {"check", "pop"}, active_read[client_id[d]] # <<>>
        PROVE  active_read'[client_id[d]] # <<>>
    <3>1. d # c /\ pc'[d] = pc[d]
      BY <2>1, <1>1 DEF Base, TypeInv
    <3>2. client_id[d] \in Hosts /\ client_id[d] # h
      BY <2>1, <3>1, <1>1 DEF Base, Registered
    <3>. QED  BY <2>1, <3>2, <1>1
  <2>2. \A d \in Clients : pc'[d] \in {"check", "pop"} => pc'[d] = pc[d]
    BY <1>1 DEF Base, TypeInv
  <2>. QED  BY <1>1, <2>1, <2>2 DEF Base, Found, setup, callback
<1>. QED  BY <1>2, <1>3, <1>4 DEF Base

LEMMA ReturnBase ==
  ASSUME Base, NEW c \in Clients, ReceiveReturn(c)
  PROVE  Base'
<1>. DEFINE h == client_id[c]
<1>1. /\ pc[c] = "copy" /\ pc' = [pc EXCEPT ![c] = "idle"]
      /\ got' = [got EXCEPT ![h] = IF @ < holds[c].number THEN holds[c].number ELSE @]
      /\ holds' = [holds EXCEPT ![c] = NoElement]
      /\ pool' = pool + 1
      /\ UNCHANGED <<setup, active_read, callback, tries, crashed>>
  BY DEF ReceiveReturn
<1>2. h \in Hosts /\ holds[c].number \in Nat /\ got[h] \in Nat
  BY <1>1 DEF Base, TypeInv, Elements, Registered
<1>3. got' \in [Hosts -> Nat] /\ holds' \in [Clients -> Elements]
  BY <1>1, <1>2, Constants DEF Base, TypeInv
<1>4. TypeInv'
  BY <1>1, <1>3 DEF Base, TypeInv, setup, callback
<1>5. Registered' /\ Found' /\ SeenIsPopped'
  BY <1>1 DEF Base, TypeInv, Registered, Found, SeenIsPopped, setup, callback
<1>. QED  BY <1>4, <1>5 DEF Base

LEMMA NextBase == Base /\ [Next]_vars => Base'
<1>. SUFFICES ASSUME Base, [Next]_vars PROVE Base'
  OBVIOUS
<1>1. CASE UNCHANGED vars
  BY <1>1 DEF vars, Base, TypeInv, Registered, Found, SeenIsPopped
<1>. QED  BY <1>1, SocketBase, MessageBase, CallbackBase, ConnectBase, ReceiveBase, PopBase,
             ReturnBase DEF Next, Receiving

(***************************************************************************)
(* On_Message and Receive_WS_CLIENT: what a size check has seen is there to *)
(* be popped, for any number of clients and any time-outs.                  *)
(***************************************************************************)
THEOREM NeverPopsEmpty == Spec => []SeenIsPopped
<1>1. Base => SeenIsPopped
  BY DEF Base
<1>. QED  BY <1>1, InitBase, NextBase, PTL DEF Spec

-----------------------------------------------------------------------------
(***************************************************************************)
(* The order of the messages.                                               *)
(***************************************************************************)

\* The last message for h that was handed on or is with a callback that sleeps:
\* all that the server has sent, but for the one that has just arrived.
Handed(h) ==
    IF cb # "idle" /\ message.host = h /\ message.time_out = 0 THEN sent[h] - 1 ELSE sent[h]

\* What the callbacks have was sent, and what has just arrived was sent last.
Pending ==
    /\ cb # "idle" => /\ message.number <= sent[message.host]
                      /\ message.time_out = 0 => message.number = sent[message.host]
    /\ \A m \in asleep : m.number <= sent[m.host] /\ m.time_out > 0

\* q holds messages up to number `high', of which those that did not wait are
\* behind number `low' and in order.
Between(low, q, high) ==
    \A k \in 1 .. Len(q) :
        /\ q[k].number <= high
        /\ MayFollow(q[k], low)
        /\ \A j \in 1 .. k - 1 : MayFollow(q[k], q[j].number)

Placed(h, last) == got[h] <= last /\ Between(got[h], active_read[h], last)

Carried(c, last) ==
    /\ MayFollow(holds[c], got[client_id[c]])
    /\ holds[c].number <= last
    /\ Between(holds[c].number, active_read[client_id[c]], last)

Ordered ==
    /\ \A h \in Hosts : Placed(h, Handed(h))
    /\ \A c \in Holding : Carried(c, Handed(client_id[c]))

OrderInv == Base /\ Pending /\ Ordered

\* A later last message leaves a queue between the same bounds.
LEMMA BetweenLater ==
  ASSUME NEW q \in Seq(Elements), NEW low \in Int, NEW high \in Int, NEW later \in Int,
         Between(low, q, high), high <= later
  PROVE  Between(low, q, later)
<1>1. \A e \in Elements : e.number \in Int
  BY DEF Elements
<1>2. \A k \in 1 .. Len(q) : q[k] \in Elements
  OBVIOUS
<1>3. \A k \in 1 .. Len(q) : q[k].number \in Int
  BY <1>1, <1>2
<1>. QED  BY <1>3 DEF Between

LEMMA BetweenAppend ==
  ASSUME NEW q \in Seq(Elements), NEW low \in Int, NEW high \in Int, NEW later \in Int,
         NEW x \in Elements, Between(low, q, high), low <= high, high <= later,
         x.number <= later, x.waited \/ high < x.number
  PROVE  Between(low, Append(q, x), later)
<1>. DEFINE r == Append(q, x)
<1>1. /\ Len(q) \in Nat /\ Len(r) = Len(q) + 1
      /\ \A k \in 1 .. Len(q) : r[k] = q[k] /\ q[k] \in Elements
      /\ r[Len(q) + 1] = x
      /\ \A k \in 1 .. Len(r) : k \in 1 .. Len(q) \/ k = Len(q) + 1
  OBVIOUS
<1>2. Between(low, q, later)
  BY BetweenLater
<1>3. \A e \in Elements : e.number \in Int
  BY DEF Elements
<1>. HIDE DEF r
<1>4. ASSUME NEW k \in 1 .. Len(r)
      PROVE  /\ r[k].number <= later /\ MayFollow(r[k], low)
             /\ \A j \in 1 .. k - 1 : MayFollow(r[k], r[j].number)
  <2>1. CASE k \in 1 .. Len(q)
    <3>1. /\ q[k].number <= later /\ MayFollow(q[k], low)
          /\ \A j \in 1 .. k - 1 : MayFollow(q[k], q[j].number)
      BY <1>2, <2>1 DEF Between
    <3>2. \A j \in 1 .. k - 1 : j \in 1 .. Len(q)
      BY <2>1, <1>1
    <3>. QED  BY <2>1, <3>1, <3>2, <1>1
  <2>2. CASE k = Len(q) + 1
    <3>1. r[k] = x /\ x.number \in Int
      BY <2>2, <1>1, <1>3
    <3>2. \A j \in 1 .. k - 1 : r[j] = q[j] /\ q[j].number \in Int /\ q[j].number <= high
      BY <2>2, <1>1, <1>3 DEF Between
    <3>. QED  BY <3>1, <3>2 DEF MayFollow
  <2>. QED  BY <2>1, <2>2, <1>1
<1>5. Between(low, r, later)
  BY <1>4 DEF Between
<1>. QED  BY <1>5 DEF r

\* What is behind the first message of a queue may follow that message.
LEMMA BetweenTail ==
  ASSUME NEW q \in Seq(Elements), NEW low \in Int, NEW high \in Int,
         Between(low, q, high), Len(q) > 0
  PROVE  /\ MayFollow(q[1], low) /\ q[1].number <= high
         /\ Between(low, Tail(q), high) /\ Between(q[1].number, Tail(q), high)
<1>. DEFINE r == Tail(q)
<1>1. /\ Len(q) \in Nat /\ Len(r) = Len(q) - 1
      /\ \A k \in 1 .. Len(r) : r[k] = q[k + 1] /\ k + 1 \in 1 .. Len(q)
      /\ 1 \in 1 .. Len(q)
  OBVIOUS
<1>2. \A k \in 1 .. Len(q) :
         /\ q[k].number <= high /\ MayFollow(q[k], low)
         /\ \A j \in 1 .. k - 1 : MayFollow(q[k], q[j].number)
  BY DEF Between
<1>. HIDE DEF r
<1>3. ASSUME NEW k \in 1 .. Len(r)
      PROVE  /\ r[k].number <= high /\ MayFollow(r[k], low) /\ MayFollow(r[k], q[1].number)
             /\ \A j \in 1 .. k - 1 : MayFollow(r[k], r[j].number)
  <2>1. /\ q[k + 1].number <= high /\ MayFollow(q[k + 1], low)
        /\ \A j \in 1 .. (k + 1) - 1 : MayFollow(q[k + 1], q[j].number)
    BY <1>1, <1>2
  <2>2. r[k] = q[k + 1] /\ 1 \in 1 .. (k + 1) - 1
    BY <1>1
  <2>3. ASSUME NEW j \in 1 .. k - 1 PROVE MayFollow(r[k], r[j].number)
    <3>1. j \in 1 .. Len(r) /\ j + 1 \in 1 .. (k + 1) - 1
      BY <1>1
    <3>2. r[j] = q[j + 1]
      BY <3>1, <1>1
    <3>. QED  BY <2>1, <2>2, <3>1, <3>2
  <2>. QED  BY <2>1, <2>2, <2>3
<1>4. Between(low, r, high) /\ Between(q[1].number, r, high)
  BY <1>3 DEF Between
<1>. QED  BY <1>1, <1>2, <1>4 DEF r

LEMMA HandedBounds ==
  ASSUME TypeInv
  PROVE  \A h \in Hosts : Handed(h) \in Int /\ sent[h] \in Int /\ Handed(h) <= sent[h]
BY DEF TypeInv, Handed

\* What is queued, received and carried are elements and numbers.
LEMMA OrderTypes ==
  ASSUME TypeInv, Registered
  PROVE  /\ \A h \in Hosts : got[h] \in Int /\ active_read[h] \in Seq(Elements)
         /\ \A c \in Holding : client_id[c] \in Hosts /\ holds[c].number \in Int
  BY DEF TypeInv, Registered, Holding, Elements

LEMMA OrderedReceives == OrderInv => ReceivedInOrder
<1>. SUFFICES ASSUME OrderInv PROVE ReceivedInOrder
  OBVIOUS
<1>1. TypeInv /\ Registered /\ Ordered
  BY DEF OrderInv, Base
<1>2. ASSUME NEW h \in Hosts, NEW k \in 1 .. Len(active_read[h])
      PROVE  LET q == active_read[h] IN
             /\ q[k].number <= sent[h] /\ MayFollow(q[k], got[h])
             /\ \A j \in 1 .. k - 1 : MayFollow(q[k], q[j].number)
  <2>1. Between(got[h], active_read[h], Handed(h))
    BY <1>1 DEF Ordered, Placed
  <2>2. Between(got[h], active_read[h], sent[h])
    BY <2>1, <1>1, HandedBounds, OrderTypes, BetweenLater
  <2>. QED  BY <2>2 DEF Between
<1>3. ASSUME NEW c \in Holding
      PROVE  LET q == active_read[client_id[c]] IN
             /\ MayFollow(holds[c], got[client_id[c]])
             /\ \A k \in 1 .. Len(q) : MayFollow(q[k], holds[c].number)
  BY <1>1 DEF Ordered, Carried, Between
<1>. QED  BY <1>2, <1>3 DEF ReceivedInOrder

LEMMA InitOrder == Init => OrderInv
<1>. SUFFICES ASSUME Init PROVE OrderInv
  OBVIOUS
<1>1. \A h \in Hosts : Handed(h) = 0 /\ got[h] = 0 /\ active_read[h] = <<>>
  BY DEF Init, Handed
<1>2. Between(0, <<>>, 0)
  BY DEF Between
<1>3. Holding = {} /\ cb = "idle" /\ asleep = {}
  BY DEF Init, Holding
<1>. QED  BY <1>1, <1>2, <1>3, InitBase DEF OrderInv, Ordered, Pending, Placed

\* Steps that touch neither a queue nor what was received, nor who is who, and
\* after which no less was handed on.
LEMMA OrderUntouched ==
  ASSUME TypeInv, TypeInv', Registered, Ordered,
         UNCHANGED <<active_read, got, holds>>, Holding' = Holding,
         \A c \in Holding : client_id'[c] = client_id[c],
         \A h \in Hosts : Handed(h) <= Handed(h)'
  PROVE  Ordered'
<1>1. \A h \in Hosts : Handed(h) \in Int /\ Handed(h)' \in Int
  BY HandedBounds DEF Handed, TypeInv
<1>2. ASSUME NEW h \in Hosts PROVE Placed(h, Handed(h))'
  <2>1. got[h] <= Handed(h) /\ Between(got[h], active_read[h], Handed(h))
    BY DEF Ordered, Placed
  <2>2. got[h] \in Int /\ active_read[h] \in Seq(Elements)
    BY OrderTypes
  <2>3. got[h] <= Handed(h)' /\ Between(got[h], active_read[h], Handed(h)')
    BY <1>1, <2>1, <2>2, BetweenLater
  <2>. QED  BY <2>3 DEF Placed
<1>3. ASSUME NEW c \in Holding PROVE Carried(c, Handed(client_id[c]))'
  <2>1. /\ MayFollow(holds[c], got[client_id[c]]) /\ holds[c].number <= Handed(client_id[c])
        /\ Between(holds[c].number, active_read[client_id[c]], Handed(client_id[c]))
    BY DEF Ordered, Carried
  <2>2. client_id[c] \in Hosts /\ holds[c].number \in Int
        /\ active_read[client_id[c]] \in Seq(Elements)
    BY OrderTypes
  <2>3. /\ holds[c].number <= Handed(client_id[c])'
        /\ Between(holds[c].number, active_read[client_id[c]], Handed(client_id[c])')
    BY <1>1, <2>1, <2>2, BetweenLater
  <2>. QED  BY <2>1, <2>3 DEF Carried
<1>. QED  BY <1>2, <1>3 DEF Ordered

-----------------------------------------------------------------------------
(***************************************************************************)
(* The order, one actor at a time.                                          *)
(***************************************************************************)

LEMMA MessagePending ==
  ASSUME OrderInv, NEW h \in Hosts, On_Message(h) \/ DropForLazyReader(h)
  PROVE  Pending'
<1>1. TypeInv /\ Pending
  BY DEF OrderInv, Base
<1>2. /\ cb = "idle" /\ sent' = [sent EXCEPT ![h] = @ + 1] /\ asleep' = asleep
      /\ \/ cb' = "wait" /\ message' = [host |-> h, number |-> sent[h] + 1, time_out |-> 0]
         \/ cb' = "idle"
  BY DEF On_Message, DropForLazyReader
<1>3. /\ sent'[h] = sent[h] + 1 /\ sent[h] \in Nat
      /\ \A g \in Hosts : sent[g] \in Nat /\ sent[g] <= sent'[g]
  BY <1>1, <1>2 DEF TypeInv
<1>4. ASSUME NEW m \in asleep' PROVE m.number <= sent'[m.host] /\ m.time_out > 0
  <2>1. m.number <= sent[m.host] /\ m.time_out > 0 /\ m \in Messages
    BY <1>1, <1>2 DEF Pending, TypeInv
  <2>2. m.host \in Hosts /\ m.number \in Nat
    BY <2>1 DEF Messages
  <2>3. sent'[m.host] \in Int
    BY <2>2, <1>1, <1>2 DEF TypeInv
  <2>. QED  BY <2>1, <2>2, <2>3, <1>3
<1>5. CASE cb' = "idle"
  BY <1>4, <1>5 DEF Pending
<1>6. CASE cb' = "wait" /\ message' = [host |-> h, number |-> sent[h] + 1, time_out |-> 0]
  <2>1. message'.host = h /\ message'.number = sent'[h] /\ message'.number \in Int
    BY <1>3, <1>6
  <2>. QED  BY <1>4, <2>1 DEF Pending
<1>. QED  BY <1>2, <1>5, <1>6

LEMMA CallbackPending ==
  ASSUME OrderInv, Callback
  PROVE  Pending'
<1>1. TypeInv /\ Pending
  BY DEF OrderInv, Base
<1>2. sent' = sent
  BY DEF Callback, PoolWait, PoolWaitEnds, PoolPop, ActivePush, Wake
<1>3. CASE PoolWait
  <2>. DEFINE later == [message EXCEPT !.time_out = @ + 1]
  <2>1. cb # "idle" /\ cb' = "idle" /\ asleep' = asleep \cup {later}
    BY <1>3 DEF PoolWait, Return
  <2>2. message \in [host : Hosts, number : Nat, time_out : Nat]
    BY <1>1 DEF TypeInv, Messages
  <2>3. later.number = message.number /\ later.host = message.host
        /\ later.time_out = message.time_out + 1
    BY <2>2
  <2>4. message.time_out \in Nat
    BY <2>2
  <2>. HIDE DEF later
  <2>5. later.number <= sent[later.host] /\ later.time_out > 0
    BY <1>1, <2>1, <2>3, <2>4 DEF Pending
  <2>. QED  BY <1>1, <1>2, <2>1, <2>5 DEF Pending
<1>4. CASE PoolWaitEnds \/ PoolPop \/ ActivePush
  <2>1. asleep' = asleep /\ cb # "idle" /\ (cb' = "idle" \/ message' = message)
    BY <1>4 DEF PoolWaitEnds, PoolPop, ActivePush, Return
  <2>. QED  BY <1>1, <1>2, <2>1 DEF Pending
<1>5. ASSUME NEW m \in asleep, Wake(m) PROVE Pending'
  <2>1. message' = m /\ asleep' = asleep \ {m}
    BY <1>5 DEF Wake
  <2>2. m.number <= sent[m.host] /\ m.time_out > 0
    BY <1>1 DEF Pending
  <2>3. m.time_out # 0
    BY <2>2
  <2>. QED  BY <1>1, <1>2, <2>1, <2>2, <2>3 DEF Pending
<1>. QED  BY <1>3, <1>4, <1>5 DEF Callback

\* The server sends one more message; the callback takes it, or drops it.
LEMMA MessageOrder ==
  ASSUME OrderInv, NEW h \in Hosts, On_Message(h) \/ DropForLazyReader(h)
  PROVE  Ordered'
<1>1. TypeInv /\ Registered /\ Ordered /\ TypeInv'
  BY MessageBase DEF OrderInv, Base
<1>2. /\ cb = "idle" /\ sent' = [sent EXCEPT ![h] = @ + 1]
      /\ UNCHANGED <<active_read, got, holds, client_id, pc>>
      /\ \/ cb' = "wait" /\ message' = [host |-> h, number |-> sent[h] + 1, time_out |-> 0]
         \/ cb' = "idle"
  BY DEF On_Message, DropForLazyReader, setup, threads
<1>3. ASSUME NEW g \in Hosts PROVE Handed(g) <= Handed(g)'
  <2>1. Handed(g) = sent[g] /\ sent[g] \in Nat
    BY <1>1, <1>2 DEF Handed, TypeInv
  <2>2. CASE g = h
    <3>1. sent'[g] = sent[g] + 1
      BY <1>1, <1>2, <2>2 DEF TypeInv
    <3>. QED  BY <2>1, <3>1 DEF Handed
  <2>3. CASE g # h
    <3>1. sent'[g] = sent[g] /\ ~(cb' # "idle" /\ message'.host = g)
      BY <1>1, <1>2, <2>3 DEF TypeInv
    <3>. QED  BY <2>1, <3>1 DEF Handed
  <2>. QED  BY <2>2, <2>3
<1>4. Holding' = Holding
  BY <1>2 DEF Holding
<1>. QED  BY <1>1, <1>2, <1>3, <1>4, OrderUntouched

\* A message that was queued is behind all that were, or it waited; one that is
\* given up, or goes to sleep, is passed over.
LEMMA CallbackOrder ==
  ASSUME OrderInv, Callback
  PROVE  Ordered'
<1>1. TypeInv /\ Registered /\ Pending /\ Ordered /\ TypeInv'
  BY CallbackBase DEF OrderInv, Base
<1>2. UNCHANGED <<got, holds, client_id, pc, sent>> /\ Holding' = Holding
  BY DEF Callback, PoolWait, PoolWaitEnds, PoolPop, ActivePush, Wake, setup, threads, Holding
<1>3. \A g \in Hosts : Handed(g) \in Int /\ sent[g] \in Int /\ Handed(g) <= sent[g]
  BY <1>1, HandedBounds
<1>4. CASE PoolWait \/ PoolWaitEnds \/ PoolPop \/ \E m \in asleep : Wake(m)
  <2>1. active_read' = active_read
    BY <1>4 DEF PoolWait, PoolWaitEnds, PoolPop, Wake
  <2>2. \/ cb' = "idle"
        \/ (cb' = "idle") = (cb = "idle") /\ message' = message
        \/ message'.time_out # 0
    <3>1. CASE PoolWait \/ PoolWaitEnds \/ PoolPop
      BY <3>1 DEF PoolWait, PoolWaitEnds, PoolPop, Return
    <3>2. ASSUME NEW m \in asleep, Wake(m) PROVE message'.time_out # 0
      <4>1. message' = m /\ m.time_out > 0
        BY <1>1, <3>2 DEF Wake, Pending
      <4>. QED  BY <4>1
    <3>. QED  BY <1>4, <3>1, <3>2
  <2>3. ASSUME NEW g \in Hosts PROVE Handed(g) <= Handed(g)'
    BY <1>2, <1>3, <2>2 DEF Handed
  <2>. QED  BY <1>1, <1>2, <2>1, <2>3, OrderUntouched
<1>5. CASE ActivePush
  <2>. DEFINE h == message.host
  <2>1. /\ cb = "push" /\ cb' = "idle"
        /\ active_read' = [active_read EXCEPT ![h] = Append(@, Element)]
    BY <1>5 DEF ActivePush, Return
  <2>2. \A g : Handed(g)' = sent[g]
    BY <1>2, <2>1 DEF Handed
  <2>3. h \in Hosts /\ message.number \in Nat /\ message.time_out \in Nat
    BY <1>1 DEF TypeInv, Messages
  <2>4. /\ Element \in Elements /\ Element.number <= sent[h]
        /\ Element.waited \/ Handed(h) < Element.number
    <3>1. Element = [number |-> message.number, waited |-> message.time_out > 0]
      BY DEF Element
    <3>2. message.number <= sent[h] /\ (message.time_out = 0 => message.number = sent[h])
      BY <1>1, <2>1 DEF Pending
    <3>3. message.time_out = 0 => Handed(h) = sent[h] - 1
      BY <2>1 DEF Handed
    <3>4. Element \in Elements /\ Element.number = message.number
      BY <2>3, <3>1 DEF Elements
    <3>5. CASE message.time_out = 0
      BY <1>3, <2>3, <3>2, <3>3, <3>4, <3>5
    <3>6. CASE message.time_out # 0
      <4>1. message.time_out > 0
        BY <2>3, <3>6
      <4>2. Element.waited
        BY <3>1, <4>1
      <4>. QED  BY <3>2, <3>4, <4>2
    <3>. QED  BY <3>5, <3>6
  <2>. HIDE DEF h
  <2>5. /\ active_read'[h] = Append(active_read[h], Element)
        /\ \A g \in Hosts : g # h => active_read'[g] = active_read[g]
    BY <1>1, <2>1, <2>3 DEF TypeInv
  <2>6. ASSUME NEW g \in Hosts, NEW low \in Int, low <= Handed(g),
               Between(low, active_read[g], Handed(g))
        PROVE  Between(low, active_read'[g], sent[g])
    <3>1. active_read[g] \in Seq(Elements)
      BY <1>1, OrderTypes
    <3>2. CASE g = h
      BY <3>1, <3>2, <2>4, <2>5, <2>6, <1>3, BetweenAppend
    <3>3. CASE g # h
      BY <3>1, <3>3, <2>5, <2>6, <1>3, BetweenLater
    <3>. QED  BY <3>2, <3>3
  <2>7. ASSUME NEW g \in Hosts PROVE Placed(g, Handed(g))'
    <3>1. got[g] \in Int /\ got[g] <= Handed(g) /\ Between(got[g], active_read[g], Handed(g))
      BY <1>1, OrderTypes DEF Ordered, Placed
    <3>2. got[g] <= sent[g] /\ Between(got[g], active_read'[g], sent[g])
      BY <1>3, <2>6, <3>1
    <3>. QED  BY <1>2, <2>2, <3>2 DEF Placed
  <2>8. ASSUME NEW c \in Holding PROVE Carried(c, Handed(client_id[c]))'
    <3>1. client_id[c] \in Hosts /\ holds[c].number \in Int
      BY <1>1, OrderTypes
    <3>2. /\ MayFollow(holds[c], got[client_id[c]]) /\ holds[c].number <= Handed(client_id[c])
          /\ Between(holds[c].number, active_read[client_id[c]], Handed(client_id[c]))
      BY <1>1 DEF Ordered, Carried
    <3>3. /\ holds[c].number <= sent[client_id[c]]
          /\ Between(holds[c].number, active_read'[client_id[c]], sent[client_id[c]])
      BY <1>3, <2>6, <3>1, <3>2
    <3>. QED  BY <1>2, <2>2, <3>2, <3>3 DEF Carried
  <2>. QED  BY <1>2, <2>7, <2>8 DEF Ordered
<1>. QED  BY <1>4, <1>5 DEF Callback

\* The thread that pops takes the first message; its queue starts behind it.
LEMMA PopOrder ==
  ASSUME OrderInv, NEW c \in Clients, ReceivePop(c)
  PROVE  Ordered'
<1>. DEFINE h == client_id[c]  q == active_read[client_id[c]]
<1>1. Base /\ TypeInv /\ Registered /\ Ordered
  BY DEF OrderInv, Base
<1>2. /\ h \in Hosts /\ q \in Seq(Elements) /\ Len(q) \in Nat \ {0}
      /\ pc[c] = "pop" /\ pc' = [pc EXCEPT ![c] = "copy"]
      /\ holds' = [holds EXCEPT ![c] = q[1]]
      /\ active_read'[h] = Tail(q)
      /\ \A g \in Hosts : g # h => active_read'[g] = active_read[g]
      /\ UNCHANGED <<setup, pool, callback, tries, got, crashed>>
  BY <1>1, PopFacts
<1>3. UNCHANGED <<client_id, cb, message, sent, got>> /\ \A g : Handed(g)' = Handed(g)
  BY <1>2 DEF setup, callback, Handed
<1>4. holds'[c] = q[1] /\ \A d \in Clients : d # c => holds'[d] = holds[d] /\ pc'[d] = pc[d]
  BY <1>1, <1>2 DEF TypeInv
<1>5. got[h] <= Handed(h) /\ Between(got[h], q, Handed(h))
  BY <1>1, <1>2 DEF Ordered, Placed
<1>6. got[h] \in Int /\ Handed(h) \in Int
  BY <1>1, <1>2, OrderTypes, HandedBounds
<1>7. /\ MayFollow(q[1], got[h]) /\ q[1].number <= Handed(h)
      /\ Between(got[h], Tail(q), Handed(h)) /\ Between(q[1].number, Tail(q), Handed(h))
  <2>1. Len(q) > 0
    BY <1>2
  <2>. HIDE DEF h, q
  <2>. QED  BY <1>2, <1>5, <1>6, <2>1, BetweenTail
<1>. HIDE DEF q
<1>8. ASSUME NEW g \in Hosts PROVE Placed(g, Handed(g))'
  <2>1. CASE g = h
    <3>1. got[g] <= Handed(g) /\ Between(got[g], active_read'[g], Handed(g))
      BY <2>1, <1>2, <1>5, <1>7
    <3>. QED  BY <3>1, <1>3 DEF Placed
  <2>2. CASE g # h
    <3>1. got[g] <= Handed(g) /\ Between(got[g], active_read[g], Handed(g))
      BY <1>1 DEF Ordered, Placed
    <3>. QED  BY <2>2, <3>1, <1>2, <1>3 DEF Placed
  <2>. QED  BY <2>1, <2>2
<1>9. ASSUME NEW d \in Holding' PROVE Carried(d, Handed(client_id[d]))'
  <2>1. CASE d = c
    <3>1. /\ MayFollow(holds'[d], got[h]) /\ holds'[d].number <= Handed(h)
          /\ Between(holds'[d].number, active_read'[h], Handed(h))
      BY <2>1, <1>2, <1>4, <1>7
    <3>. QED  BY <2>1, <3>1, <1>3 DEF Carried
  <2>2. CASE d # c
    <3>1. d \in Clients /\ d \in Holding /\ holds'[d] = holds[d]
      BY <2>2, <1>4 DEF Holding
    <3>2. client_id[d] \in Hosts /\ client_id[d] # h
      BY <2>2, <3>1, <1>1, <1>2 DEF Registered, Holding
    <3>3. Carried(d, Handed(client_id[d]))
      BY <3>1, <1>1 DEF Ordered
    <3>. QED  BY <3>1, <3>2, <3>3, <1>2, <1>3 DEF Carried
  <2>. QED  BY <2>1, <2>2
<1>. QED  BY <1>8, <1>9 DEF Ordered

\* A queue that may follow two numbers may follow the larger.
LEMMA BetweenBoth ==
  ASSUME NEW q \in Seq(Elements), NEW a \in Int, NEW b \in Int, NEW high \in Int,
         Between(a, q, high), Between(b, q, high)
  PROVE  Between(IF a < b THEN b ELSE a, q, high)
BY DEF Between

\* The message copied out is received; what is queued may follow it.
LEMMA ReturnOrder ==
  ASSUME OrderInv, NEW c \in Clients, ReceiveReturn(c)
  PROVE  Ordered'
<1>. DEFINE h == client_id[c]
            latest == IF got[h] < holds[c].number THEN holds[c].number ELSE got[h]
<1>1. Base /\ TypeInv /\ Registered /\ Ordered
  BY DEF OrderInv, Base
<1>2. /\ pc[c] = "copy" /\ pc' = [pc EXCEPT ![c] = "idle"]
      /\ got' = [got EXCEPT ![h] = latest]
      /\ holds' = [holds EXCEPT ![c] = NoElement]
      /\ UNCHANGED <<client_id, cb, message, sent, active_read>>
  BY DEF ReceiveReturn, setup, callback
<1>3. Holding' = Holding \ {c} /\ c \in Holding
  BY <1>1, <1>2 DEF Holding, TypeInv
<1>4. /\ h \in Hosts /\ holds[c].number \in Int /\ got[h] \in Int /\ Handed(h) \in Int
      /\ active_read[h] \in Seq(Elements)
  BY <1>1, <1>3, OrderTypes, HandedBounds
<1>5. \A g : Handed(g)' = Handed(g)
  BY <1>2 DEF Handed
<1>6. /\ got[h] <= Handed(h) /\ Between(got[h], active_read[h], Handed(h))
      /\ holds[c].number <= Handed(h) /\ Between(holds[c].number, active_read[h], Handed(h))
  BY <1>1, <1>3, <1>4 DEF Ordered, Placed, Carried
<1>. HIDE DEF h
<1>7. latest <= Handed(h) /\ Between(latest, active_read[h], Handed(h))
  BY <1>4, <1>6, BetweenBoth
<1>. HIDE DEF latest
<1>8. /\ got'[h] = latest /\ \A g \in Hosts : g # h => got'[g] = got[g]
      /\ \A d \in Clients : d # c => holds'[d] = holds[d]
  BY <1>1, <1>2, <1>4 DEF TypeInv
<1>9. ASSUME NEW g \in Hosts PROVE Placed(g, Handed(g))'
  <2>1. CASE g = h
    BY <2>1, <1>2, <1>5, <1>7, <1>8 DEF Placed
  <2>2. CASE g # h
    <3>1. got[g] <= Handed(g) /\ Between(got[g], active_read[g], Handed(g))
      BY <1>1 DEF Ordered, Placed
    <3>. QED  BY <2>2, <3>1, <1>2, <1>5, <1>8 DEF Placed
  <2>. QED  BY <2>1, <2>2
<1>10. ASSUME NEW d \in Holding' PROVE Carried(d, Handed(client_id[d]))'
  <2>1. d \in Holding /\ d # c /\ d \in Clients /\ holds'[d] = holds[d]
    BY <1>3, <1>8 DEF Holding
  <2>2. client_id[d] \in Hosts /\ client_id[d] # h
    BY <2>1, <1>1, <1>4 DEF Registered, Holding, h
  <2>3. Carried(d, Handed(client_id[d]))
    BY <2>1, <1>1 DEF Ordered
  <2>. QED  BY <2>1, <2>2, <2>3, <1>2, <1>5, <1>8 DEF Carried
<1>. QED  BY <1>9, <1>10 DEF Ordered

LEMMA OthersOrder ==
  ASSUME OrderInv,
         \/ On_Open \/ On_Close \/ UNCHANGED vars
         \/ \E c \in Clients : Connect(c) \/ Receive(c) \/ ReceiveWait(c)
                                  \/ ReceiveWaitEnds(c) \/ ReceiveCheck(c)
  PROVE  Pending' /\ Ordered'
<1>1. Base /\ TypeInv /\ Registered /\ Pending /\ Ordered
  BY DEF OrderInv, Base
<1>2. UNCHANGED <<active_read, got, holds, sent, message, cb, asleep>>
  BY DEF On_Open, On_Close, vars, Connect, Receive, ReceiveWait, ReceiveWaitEnds, ReceiveCheck,
         callback, threads
<1>3. Pending'
  BY <1>1, <1>2 DEF Pending
<1>4. TypeInv'
  BY NextBase, <1>1, SocketBase, ConnectBase, ReceiveBase DEF Base
<1>5. \A h \in Hosts : Handed(h) <= Handed(h)'
  <2>1. \A h \in Hosts : Handed(h) \in Int
    BY <1>1, HandedBounds
  <2>. QED  BY <1>2, <2>1 DEF Handed
<1>6. /\ Holding' = Holding
      /\ \A c \in Holding : client_id'[c] = client_id[c]
  <2>1. CASE On_Open \/ On_Close \/ UNCHANGED vars
    BY <2>1 DEF On_Open, On_Close, vars, threads, Holding
  <2>2. ASSUME NEW c \in Clients,
               Receive(c) \/ ReceiveWait(c) \/ ReceiveWaitEnds(c) \/ ReceiveCheck(c)
        PROVE  Holding' = Holding /\ client_id' = client_id
    <3>1. client_id' = client_id
      BY <2>2 DEF Receive, ReceiveWait, ReceiveWaitEnds, ReceiveCheck, setup
    <3>2. pc[c] # "copy" /\ pc'[c] # "copy" /\ \A d \in Clients : d # c => pc'[d] = pc[d]
      BY <1>1, <2>2 DEF Receive, ReceiveWait, ReceiveWaitEnds, ReceiveCheck, TypeInv
    <3>. QED  BY <3>1, <3>2 DEF Holding
  <2>3. ASSUME NEW c \in Clients, Connect(c)
        PROVE  Holding' = Holding /\ \A d \in Holding : client_id'[d] = client_id[d]
    <3>1. /\ pc[c] # "copy" /\ pc'[c] # "copy"
          /\ \A d \in Clients : d # c => pc'[d] = pc[d] /\ client_id'[d] = client_id[d]
      BY <1>1, <2>3 DEF Connect, TypeInv
    <3>. QED  BY <3>1 DEF Holding
  <2>. QED  BY <2>1, <2>2, <2>3
<1>7. Ordered'
  BY <1>1, <1>2, <1>4, <1>5, <1>6, OrderUntouched
<1>. QED  BY <1>3, <1>7

LEMMA NextOrder == OrderInv /\ [Next]_vars => OrderInv'
<1>. SUFFICES ASSUME OrderInv, [Next]_vars PROVE OrderInv'
  OBVIOUS
<1>1. Base'
  BY NextBase DEF OrderInv
<1>2. ASSUME NEW c \in Clients, ReceivePop(c) \/ ReceiveReturn(c) PROVE Pending'
  BY <1>2 DEF ReceivePop, ReceiveReturn, callback, OrderInv, Pending
<1>3. Pending'
  BY <1>2, MessagePending, CallbackPending, OthersOrder DEF Next, Receiving
<1>4. Ordered'
  BY MessageOrder, CallbackOrder, PopOrder, ReturnOrder, OthersOrder DEF Next, Receiving
<1>. QED  BY <1>1, <1>3, <1>4 DEF OrderInv

(***************************************************************************)
(* From On_Message to Receive_WS_CLIENT, for any number of clients, any     *)
(* limits and callbacks that overlap in any way: a thread receives the      *)
(* messages for its client in the order sent, but for those that waited.    *)
(***************************************************************************)
THEOREM InOrder == Spec => []ReceivedInOrder
  BY InitOrder, NextOrder, OrderedReceives, PTL DEF Spec


-----------------------------------------------------------------------------
(***************************************************************************)
(* The elements, counted where they are: in the pool, in the queues, with   *)
(* the threads that copy and with the callback that copies.                 *)
(***************************************************************************)

\* The elements queued, each as its queue and its place in it.
Places == Hosts \X (1 .. WEB_SOCKET_POOL_SIZE)
Queued == {p \in Places : p[2] <= Len(active_read[p[1]])}

Copying == IF cb = "push" THEN 1 ELSE 0

Conserved ==
    /\ IsFiniteSet(Holding)
    /\ \A h \in Hosts : Len(active_read[h]) <= WEB_SOCKET_POOL_SIZE
    /\ pool + Cardinality(Queued) + Cardinality(Holding) + Copying = WEB_SOCKET_POOL_SIZE

(***************************************************************************)
(* Only what waited is queued beyond the limit, and the queue of a message  *)
(* that did not wait is below it until the message is there.                *)
(***************************************************************************)
Limits ==
    /\ \A h \in Hosts : \A k \in 1 .. Len(active_read[h]) :
          k > MAX_ACCUMULATED_FRAMES => active_read[h][k].waited
    /\ cb # "idle" /\ message.time_out = 0 =>
          Len(active_read[message.host]) < MAX_ACCUMULATED_FRAMES

IInv == OrderInv /\ Limits /\ Conserved

LEMMA HostsCounted == IsFiniteSet(Hosts) /\ Cardinality(Hosts) = MAX_HOSTS
<1>1. 0 \in Int /\ MAX_HOSTS - 1 \in Int /\ ~(0 > MAX_HOSTS - 1)
  BY Constants
<1>2. IsFiniteSet(0 .. MAX_HOSTS - 1) /\ Cardinality(0 .. MAX_HOSTS - 1) = (MAX_HOSTS - 1) - 0 + 1
  BY <1>1, FS_Interval
<1>. QED  BY <1>2, Constants DEF Hosts

LEMMA CountTo ==
  ASSUME NEW n \in Nat
  PROVE  IsFiniteSet(1 .. n) /\ Cardinality(1 .. n) = n
<1>1. /\ IsFiniteSet(1 .. n)
      /\ Cardinality(1 .. n) = IF 1 > n THEN 0 ELSE n - 1 + 1
  BY FS_Interval
<1>. QED  BY <1>1

LEMMA QueuedCounted ==
    /\ IsFiniteSet(Places)
    /\ IsFiniteSet(Queued) /\ Cardinality(Queued) \in Nat
<1>1. IsFiniteSet(1 .. WEB_SOCKET_POOL_SIZE)
  BY CountTo, Constants
<1>2. IsFiniteSet(Places)
  BY <1>1, HostsCounted, FS_Product DEF Places
<1>. QED  BY <1>2, FS_Subset, FS_CardinalityType DEF Queued

\* One queue cannot hold more than all of them.
LEMMA QueueWithinQueued ==
  ASSUME NEW h \in Hosts, NEW n \in Nat, Len(active_read[h]) = n, n <= WEB_SOCKET_POOL_SIZE
  PROVE  n <= Cardinality(Queued)
<1>. DEFINE one == {h}  places == 1 .. n  row == one \X places
<1>1. IsFiniteSet(one) /\ Cardinality(one) = 1
  BY FS_Singleton
<1>2. IsFiniteSet(row) /\ Cardinality(row) = n
  <2>1. IsFiniteSet(places) /\ Cardinality(places) = n
    BY CountTo
  <2>. HIDE DEF one, places
  <2>2. IsFiniteSet(row) /\ Cardinality(row) = Cardinality(one) * Cardinality(places)
    BY <1>1, <2>1, FS_Product
  <2>. QED  BY <1>1, <2>1, <2>2
<1>3. row \subseteq Queued
  <2>. SUFFICES ASSUME NEW k \in 1 .. n PROVE <<h, k>> \in Queued
    OBVIOUS
  <2>1. k \in 1 .. WEB_SOCKET_POOL_SIZE
    BY Constants
  <2>. QED  BY <2>1 DEF Queued, Places
<1>. HIDE DEF row
<1>4. Cardinality(row) <= Cardinality(Queued)
  BY <1>3, QueuedCounted, FS_Subset
<1>. QED  BY <1>2, <1>4

LEMMA QueueGrows ==
  ASSUME NEW h \in Hosts, Len(active_read[h]) \in 0 .. WEB_SOCKET_POOL_SIZE - 1,
         Len(active_read'[h]) = Len(active_read[h]) + 1,
         \A g \in Hosts : g # h => active_read'[g] = active_read[g]
  PROVE  Cardinality(Queued)' = Cardinality(Queued) + 1
<1>. DEFINE new == <<h, Len(active_read[h]) + 1>>
<1>1. new \in Places /\ new[1] = h /\ new[2] = Len(active_read[h]) + 1
  BY Constants DEF Places
<1>2. ASSUME NEW p \in Places
      PROVE  p[2] <= Len(active_read'[p[1]]) <=> p[2] <= Len(active_read[p[1]]) \/ p = new
  <2>1. PICK g \in Hosts, k \in 1 .. WEB_SOCKET_POOL_SIZE : p = <<g, k>>
    BY DEF Places
  <2>2. p[1] = g /\ p[2] = k /\ k \in Int
    BY <2>1, Constants
  <2>3. CASE g = h
    BY <2>1, <2>2, <2>3
  <2>4. CASE g # h
    BY <2>1, <2>2, <2>4
  <2>. QED  BY <2>3, <2>4
<1>3. new \notin Queued
  BY <1>1 DEF Queued
<1>. HIDE DEF new
<1>4. Queued' = Queued \cup {new}
  BY <1>1, <1>2 DEF Queued
<1>. QED  BY <1>3, <1>4, QueuedCounted, FS_AddElement

LEMMA QueueShrinks ==
  ASSUME NEW h \in Hosts, Len(active_read[h]) \in 1 .. WEB_SOCKET_POOL_SIZE,
         Len(active_read'[h]) = Len(active_read[h]) - 1,
         \A g \in Hosts : g # h => active_read'[g] = active_read[g]
  PROVE  Cardinality(Queued)' = Cardinality(Queued) - 1
<1>. DEFINE old == <<h, Len(active_read[h])>>
<1>1. old \in Places /\ old[1] = h /\ old[2] = Len(active_read[h])
  BY Constants DEF Places
<1>2. ASSUME NEW p \in Places
      PROVE  p[2] <= Len(active_read'[p[1]]) <=> p[2] <= Len(active_read[p[1]]) /\ p # old
  <2>1. PICK g \in Hosts, k \in 1 .. WEB_SOCKET_POOL_SIZE : p = <<g, k>>
    BY DEF Places
  <2>2. p[1] = g /\ p[2] = k /\ k \in Int
    BY <2>1, Constants
  <2>3. CASE g = h
    BY <2>1, <2>2, <2>3
  <2>4. CASE g # h
    BY <2>1, <2>2, <2>4
  <2>. QED  BY <2>3, <2>4
<1>3. old \in Queued
  BY <1>1 DEF Queued
<1>. HIDE DEF old
<1>4. Queued' = Queued \ {old}
  BY <1>1, <1>2 DEF Queued
<1>. QED  BY <1>3, <1>4, QueuedCounted, FS_RemoveElement

LEMMA InitIInv == Init => IInv
<1>. SUFFICES ASSUME Init PROVE IInv
  OBVIOUS
<1>1. Holding = {} /\ Copying = 0 /\ pool = WEB_SOCKET_POOL_SIZE /\ cb = "idle"
  BY DEF Init, Holding, Copying
<1>2. \A h \in Hosts : active_read[h] = <<>> /\ Len(active_read[h]) = 0
  BY DEF Init
<1>3. Queued = {}
  <2>. SUFFICES ASSUME NEW p \in Queued PROVE FALSE
    OBVIOUS
  <2>1. p[1] \in Hosts /\ p[2] \in 1 .. WEB_SOCKET_POOL_SIZE /\ p[2] <= Len(active_read[p[1]])
    BY DEF Queued, Places
  <2>2. Len(active_read[p[1]]) = 0
    BY <2>1, <1>2
  <2>. QED  BY <2>1, <2>2, Constants
<1>4. Limits
  BY <1>1, <1>2 DEF Limits
<1>5. Conserved
  BY <1>1, <1>2, <1>3, FS_EmptySet, Constants DEF Conserved
<1>. QED  BY <1>4, <1>5, InitOrder DEF IInv

-----------------------------------------------------------------------------
\* Steps that touch no queue, and after which the callback that runs has the
\* same message, or one that waited, or there is none.
LEMMA LimitsUntouched ==
  ASSUME Limits, active_read' = active_read,
         \/ cb' = "idle"
         \/ message'.time_out # 0
         \/ message' = message /\ cb # "idle"
  PROVE  Limits'
BY DEF Limits

LEMMA PushLimits ==
  ASSUME IInv, ActivePush
  PROVE  Limits'
<1>. DEFINE h == message.host  q == active_read[h]
<1>1. TypeInv /\ Limits
  BY DEF IInv, OrderInv, Base
<1>2. /\ cb = "push" /\ cb' = "idle"
      /\ active_read' = [active_read EXCEPT ![h] = Append(@, Element)]
  BY DEF ActivePush, Return
<1>3. h \in Hosts /\ message.time_out \in Nat /\ q \in Seq(Elements)
  BY <1>1 DEF TypeInv, Messages
<1>4. /\ active_read'[h] = Append(q, Element)
      /\ \A g \in Hosts : g # h => active_read'[g] = active_read[g]
  BY <1>1, <1>2, <1>3 DEF TypeInv
<1>5. Len(q) + 1 > MAX_ACCUMULATED_FRAMES => Element.waited
  <2>1. Len(q) \in Nat /\ MAX_ACCUMULATED_FRAMES \in Nat
    BY <1>3, Constants
  <2>2. message.time_out = 0 => Len(q) < MAX_ACCUMULATED_FRAMES
    BY <1>1, <1>2 DEF Limits
  <2>3. message.time_out # 0 => message.time_out > 0
    BY <1>3
  <2>4. message.time_out > 0 => Element.waited
    BY DEF Element
  <2>5. Len(q) + 1 > MAX_ACCUMULATED_FRAMES => message.time_out # 0
    BY <2>1, <2>2
  <2>. QED  BY <2>3, <2>4, <2>5
<1>6. /\ Len(q) \in Nat /\ Len(Append(q, Element)) = Len(q) + 1
      /\ Append(q, Element)[Len(q) + 1] = Element
      /\ \A k \in 1 .. Len(q) : Append(q, Element)[k] = q[k]
      /\ \A k \in 1 .. Len(q) + 1 : k \in 1 .. Len(q) \/ k = Len(q) + 1
  BY <1>3
<1>7. \A k \in 1 .. Len(q) : k > MAX_ACCUMULATED_FRAMES => q[k].waited
  BY <1>1, <1>3 DEF Limits
<1>. HIDE DEF h, q
<1>8. ASSUME NEW k \in 1 .. Len(active_read'[h]), k > MAX_ACCUMULATED_FRAMES
      PROVE  active_read'[h][k].waited
  <2>1. k \in 1 .. Len(q) + 1
    BY <1>4, <1>6
  <2>2. CASE k \in 1 .. Len(q)
    BY <2>2, <1>4, <1>6, <1>7, <1>8
  <2>3. CASE k = Len(q) + 1
    BY <2>3, <1>4, <1>5, <1>6, <1>8
  <2>. QED  BY <2>1, <2>2, <2>3, <1>6
<1>9. ASSUME NEW g \in Hosts, NEW k \in 1 .. Len(active_read'[g]), k > MAX_ACCUMULATED_FRAMES
      PROVE  active_read'[g][k].waited
  <2>1. CASE g = h
    BY <2>1, <1>8, <1>9
  <2>2. CASE g # h
    BY <2>2, <1>1, <1>4, <1>9 DEF Limits
  <2>. QED  BY <2>1, <2>2
<1>. QED  BY <1>2, <1>9 DEF Limits

LEMMA PopLimits ==
  ASSUME IInv, NEW c \in Clients, ReceivePop(c)
  PROVE  Limits'
<1>. DEFINE h == client_id[c]  q == active_read[client_id[c]]
<1>1. Base /\ TypeInv /\ Limits
  BY DEF IInv, OrderInv, Base
<1>2. /\ h \in Hosts /\ Len(q) \in Nat \ {0}
      /\ active_read'[h] = Tail(q) /\ Len(Tail(q)) = Len(q) - 1
      /\ \A k \in 1 .. Len(q) - 1 : Tail(q)[k] = q[k + 1]
      /\ \A g \in Hosts : g # h => active_read'[g] = active_read[g]
      /\ UNCHANGED <<cb, message>>
  BY <1>1, PopFacts DEF callback
<1>3. \A k \in 1 .. Len(q) : k > MAX_ACCUMULATED_FRAMES => q[k].waited
  BY <1>1, <1>2 DEF Limits
<1>4. cb # "idle" => message.host \in Hosts
  BY <1>1 DEF TypeInv, Messages
<1>. DEFINE r == Tail(q)
<1>. HIDE DEF q, h, r
<1>5. ASSUME NEW k \in 1 .. Len(r), k > MAX_ACCUMULATED_FRAMES PROVE r[k].waited
  <2>1. k + 1 \in 1 .. Len(q) /\ k + 1 > MAX_ACCUMULATED_FRAMES /\ k \in 1 .. Len(q) - 1
    BY <1>2, <1>5, Constants DEF r
  <2>. QED  BY <2>1, <1>2, <1>3 DEF r
<1>6. ASSUME NEW g \in Hosts, NEW k \in 1 .. Len(active_read'[g]), k > MAX_ACCUMULATED_FRAMES
      PROVE  active_read'[g][k].waited
  <2>1. CASE g = h
    BY <2>1, <1>2, <1>5, <1>6 DEF r
  <2>2. CASE g # h
    BY <2>2, <1>1, <1>2, <1>6 DEF Limits
  <2>. QED  BY <2>1, <2>2
<1>7. ASSUME cb' # "idle", message'.time_out = 0
      PROVE  Len(active_read'[message'.host]) < MAX_ACCUMULATED_FRAMES
  <2>1. Len(active_read[message.host]) < MAX_ACCUMULATED_FRAMES /\ message' = message
    BY <1>1, <1>2, <1>7 DEF Limits
  <2>2. CASE message.host = h
    <3>1. Len(q) < MAX_ACCUMULATED_FRAMES
      BY <2>1, <2>2 DEF q, h
    <3>. QED  BY <2>1, <2>2, <3>1, <1>2, Constants
  <2>3. CASE message.host # h
    BY <2>1, <2>3, <1>2, <1>4, <1>7
  <2>. QED  BY <2>2, <2>3
<1>. QED  BY <1>6, <1>7 DEF Limits

LEMMA NextLimits ==
  ASSUME IInv, [Next]_vars
  PROVE  Limits'
<1>1. TypeInv /\ Pending /\ Limits
  BY DEF IInv, OrderInv, Base
<1>2. ASSUME NEW h \in Hosts, On_Message(h) PROVE Limits'
  <2>1. /\ active_read' = active_read /\ message'.host = h
        /\ Len(active_read[h]) < MAX_ACCUMULATED_FRAMES
    BY <1>2 DEF On_Message
  <2>. QED  BY <1>1, <2>1 DEF Limits
<1>3. CASE PoolWait \/ PoolWaitEnds \/ PoolPop
  BY <1>1, <1>3, LimitsUntouched DEF PoolWait, PoolWaitEnds, PoolPop, Return
<1>4. ASSUME NEW m \in asleep, Wake(m) PROVE Limits'
  <2>1. message'.time_out # 0 /\ active_read' = active_read
    BY <1>1, <1>4 DEF Wake, Pending
  <2>. QED  BY <1>1, <2>1, LimitsUntouched
<1>5. CASE \/ On_Open \/ On_Close \/ UNCHANGED vars
           \/ \E h \in Hosts : DropForLazyReader(h)
           \/ \E c \in Clients : \/ Connect(c) \/ Receive(c) \/ ReceiveWait(c) \/ ReceiveWaitEnds(c)
                                 \/ ReceiveCheck(c) \/ ReceiveReturn(c)
  <2>1. UNCHANGED <<active_read, cb, message>>
    BY <1>5 DEF On_Open, On_Close, vars, DropForLazyReader, Connect, Receive, ReceiveWait,
                ReceiveWaitEnds, ReceiveCheck, ReceiveReturn, callback
  <2>2. CASE cb = "idle"
    BY <1>1, <2>1, <2>2, LimitsUntouched
  <2>3. CASE cb # "idle"
    BY <1>1, <2>1, <2>3, LimitsUntouched
  <2>. QED  BY <2>2, <2>3
<1>. QED  BY <1>2, <1>3, <1>4, <1>5, PushLimits, PopLimits DEF Next, Callback, Receiving

-----------------------------------------------------------------------------
\* Steps that move no element.
LEMMA ElementsStay ==
  ASSUME Conserved, UNCHANGED <<pool, active_read>>, Holding' = Holding,
         (cb' = "push") = (cb = "push")
  PROVE  Conserved'
<1>1. Queued' = Queued /\ Copying' = Copying
  BY DEF Queued, Copying
<1>. QED  BY <1>1 DEF Conserved

LEMMA CountTypes ==
  ASSUME TypeInv, Conserved
  PROVE  /\ Cardinality(Queued) \in Nat /\ Cardinality(Holding) \in Nat
         /\ pool \in Nat /\ Copying \in {0, 1}
  BY QueuedCounted, FS_CardinalityType DEF Conserved, TypeInv, Copying

LEMMA CallbackConserves ==
  ASSUME IInv, Callback
  PROVE  Conserved'
<1>1. TypeInv /\ Conserved
  BY DEF IInv, OrderInv, Base
<1>2. Holding' = Holding
  BY DEF Callback, PoolWait, PoolWaitEnds, PoolPop, ActivePush, Wake, threads, Holding
<1>3. CASE PoolWait \/ PoolWaitEnds \/ \E m \in asleep : Wake(m)
  <2>1. UNCHANGED <<pool, active_read>> /\ cb # "push" /\ cb' # "push"
    BY <1>3 DEF PoolWait, PoolWaitEnds, Wake, Return
  <2>2. (cb' = "push") = (cb = "push")
    BY <2>1
  <2>. QED  BY <1>1, <1>2, <2>1, <2>2, ElementsStay
<1>4. CASE PoolPop
  <2>1. CASE pool > 0
    <3>1. cb = "pop" /\ cb' = "push" /\ pool' = pool - 1 /\ active_read' = active_read
      BY <1>4, <2>1 DEF PoolPop
    <3>2. Queued' = Queued /\ Copying = 0 /\ Copying' = 1
      BY <3>1 DEF Queued, Copying
    <3>3. Cardinality(Queued) \in Nat /\ Cardinality(Holding) \in Nat /\ pool \in Nat
      BY <1>1, CountTypes
    <3>. QED  BY <1>1, <1>2, <3>1, <3>2, <3>3 DEF Conserved
  <2>2. CASE ~(pool > 0)
    <3>1. UNCHANGED <<pool, active_read, cb>>
      BY <1>4, <2>2 DEF PoolPop
    <3>. QED  BY <1>1, <1>2, <3>1, ElementsStay
  <2>. QED  BY <2>1, <2>2
<1>5. CASE ActivePush
  <2>. DEFINE h == message.host
  <2>1. /\ cb = "push" /\ cb' = "idle" /\ pool' = pool
        /\ active_read' = [active_read EXCEPT ![h] = Append(@, Element)]
    BY <1>5 DEF ActivePush, Return
  <2>2. h \in Hosts /\ active_read[h] \in Seq(Elements)
    BY <1>1 DEF TypeInv, Messages
  <2>3. /\ Len(active_read'[h]) = Len(active_read[h]) + 1 /\ Len(active_read[h]) \in Nat
        /\ \A g \in Hosts : g # h => active_read'[g] = active_read[g]
    BY <1>1, <2>1, <2>2 DEF TypeInv
  <2>. HIDE DEF h
  <2>4. Copying = 1 /\ Copying' = 0
    BY <2>1 DEF Copying
  <2>5. Len(active_read[h]) < WEB_SOCKET_POOL_SIZE
    <3>1. Len(active_read[h]) <= WEB_SOCKET_POOL_SIZE
      BY <1>1, <2>2 DEF Conserved
    <3>2. Len(active_read[h]) <= Cardinality(Queued)
      BY <2>2, <2>3, <3>1, QueueWithinQueued
    <3>3. Cardinality(Queued) < WEB_SOCKET_POOL_SIZE
      BY <1>1, <2>4, CountTypes, Constants DEF Conserved
    <3>. QED  BY <2>3, <3>2, <3>3, <1>1, CountTypes, Constants
  <2>6. Len(active_read[h]) \in 0 .. WEB_SOCKET_POOL_SIZE - 1
    BY <2>3, <2>5, Constants
  <2>7. Cardinality(Queued)' = Cardinality(Queued) + 1
    BY <2>2, <2>3, <2>6, QueueGrows
  <2>8. \A g \in Hosts : Len(active_read'[g]) <= WEB_SOCKET_POOL_SIZE
    <3>1. Len(active_read'[h]) <= WEB_SOCKET_POOL_SIZE
      BY <2>3, <2>5, Constants
    <3>. QED  BY <1>1, <2>3, <3>1 DEF Conserved
  <2>. QED  BY <1>1, <1>2, <2>1, <2>4, <2>7, <2>8, CountTypes DEF Conserved
<1>. QED  BY <1>3, <1>4, <1>5 DEF Callback

LEMMA ThreadConserves ==
  ASSUME IInv, NEW c \in Clients, ReceivePop(c) \/ ReceiveReturn(c)
  PROVE  Conserved'
<1>1. Base /\ TypeInv /\ Conserved
  BY DEF IInv, OrderInv, Base
<1>2. /\ Cardinality(Queued) \in Nat /\ Cardinality(Holding) \in Nat
      /\ pool \in Nat /\ Copying \in {0, 1}
  BY <1>1, CountTypes
<1>3. CASE ReceivePop(c)
  <2>. DEFINE h == client_id[c]  q == active_read[client_id[c]]
  <2>1. /\ h \in Hosts /\ Len(q) \in Nat \ {0}
        /\ pc[c] = "pop" /\ pc' = [pc EXCEPT ![c] = "copy"]
        /\ Len(active_read'[h]) = Len(q) - 1
        /\ \A g \in Hosts : g # h => active_read'[g] = active_read[g]
        /\ UNCHANGED <<pool, cb>>
    BY <1>1, <1>3, PopFacts DEF callback
  <2>2. Len(q) <= WEB_SOCKET_POOL_SIZE
    BY <1>1, <2>1 DEF Conserved
  <2>3. Len(q) \in 1 .. WEB_SOCKET_POOL_SIZE
    BY <2>1, <2>2, Constants
  <2>4. Cardinality(Queued)' = Cardinality(Queued) - 1
    BY <2>1, <2>3, QueueShrinks
  <2>5. Holding' = Holding \cup {c} /\ c \notin Holding
    BY <1>1, <2>1 DEF Holding, TypeInv
  <2>6. IsFiniteSet(Holding') /\ Cardinality(Holding') = Cardinality(Holding) + 1
    BY <1>1, <2>5, FS_AddElement DEF Conserved
  <2>7. Copying' = Copying
    BY <2>1 DEF Copying
  <2>8. \A g \in Hosts : Len(active_read'[g]) <= WEB_SOCKET_POOL_SIZE
    <3>1. Len(active_read'[h]) <= WEB_SOCKET_POOL_SIZE
      BY <2>1, <2>2, Constants
    <3>. QED  BY <1>1, <2>1, <3>1 DEF Conserved
  <2>. HIDE DEF h, q
  <2>. QED  BY <1>1, <1>2, <2>1, <2>4, <2>6, <2>7, <2>8, SMTT(30) DEF Conserved
<1>4. CASE ReceiveReturn(c)
  <2>1. /\ pc[c] = "copy" /\ pc' = [pc EXCEPT ![c] = "idle"] /\ pool' = pool + 1
        /\ UNCHANGED <<active_read, cb>>
    BY <1>4 DEF ReceiveReturn, callback
  <2>2. Holding' = Holding \ {c} /\ c \in Holding
    BY <1>1, <2>1 DEF Holding, TypeInv
  <2>3. IsFiniteSet(Holding') /\ Cardinality(Holding') = Cardinality(Holding) - 1
    BY <1>1, <2>2, FS_RemoveElement DEF Conserved
  <2>4. Queued' = Queued /\ Copying' = Copying
    BY <2>1 DEF Queued, Copying
  <2>. QED  BY <1>1, <1>2, <2>1, <2>3, <2>4 DEF Conserved
<1>. QED  BY <1>3, <1>4

LEMMA OthersConserve ==
  ASSUME IInv,
         \/ On_Open \/ On_Close \/ UNCHANGED vars
         \/ \E h \in Hosts : On_Message(h) \/ DropForLazyReader(h)
         \/ \E c \in Clients : Connect(c) \/ Receive(c) \/ ReceiveWait(c)
                                  \/ ReceiveWaitEnds(c) \/ ReceiveCheck(c)
  PROVE  Conserved'
<1>1. TypeInv /\ Conserved
  BY DEF IInv, OrderInv, Base
<1>2. UNCHANGED <<pool, active_read>>
  BY DEF On_Open, On_Close, vars, On_Message, DropForLazyReader, Connect, Receive, ReceiveWait,
         ReceiveWaitEnds, ReceiveCheck
<1>3. (cb' = "push") = (cb = "push")
  BY DEF On_Open, On_Close, vars, On_Message, DropForLazyReader, Connect, Receive, ReceiveWait,
         ReceiveWaitEnds, ReceiveCheck, callback
<1>4. CASE \/ On_Open \/ On_Close \/ UNCHANGED vars
           \/ \E h \in Hosts : On_Message(h) \/ DropForLazyReader(h)
  <2>1. pc' = pc
    BY <1>4 DEF On_Open, On_Close, vars, On_Message, DropForLazyReader, threads
  <2>2. Holding' = Holding
    BY <2>1 DEF Holding
  <2>. QED  BY <1>1, <1>2, <1>3, <2>2, ElementsStay
<1>5. ASSUME NEW c \in Clients,
             Connect(c) \/ Receive(c) \/ ReceiveWait(c) \/ ReceiveWaitEnds(c) \/ ReceiveCheck(c)
      PROVE  Conserved'
  <2>1. /\ pc[c] # "copy" /\ pc'[c] # "copy"
        /\ \A d \in Clients : d # c => pc'[d] = pc[d]
    BY <1>1, <1>5 DEF Connect, Receive, ReceiveWait, ReceiveWaitEnds, ReceiveCheck, TypeInv
  <2>2. Holding' = Holding
    BY <2>1 DEF Holding
  <2>. QED  BY <1>1, <1>2, <1>3, <2>2, ElementsStay
<1>. QED  BY <1>4, <1>5

LEMMA NextIInv == IInv /\ [Next]_vars => IInv'
<1>. SUFFICES ASSUME IInv, [Next]_vars PROVE IInv'
  OBVIOUS
<1>1. OrderInv' /\ Limits'
  BY NextOrder, NextLimits DEF IInv
<1>2. Conserved'
  BY CallbackConserves, ThreadConserves, OthersConserve DEF Next, Receiving
<1>. QED  BY <1>1, <1>2 DEF IInv

\* Without messages that waited no queue is beyond its limit, the queue that
\* the message is for has a place left, so the queues are not all full, and the
\* pool is large enough for all of them.
LEMMA FullQueuesLeaveOne ==
  ASSUME IInv
  PROVE  ShortageNeedsThread
<1>. SUFFICES ASSUME cb = "wait", message.time_out = 0, pool = 0, Holding = {},
                     \A h \in Hosts : \A k \in 1 .. Len(active_read[h]) : ~active_read[h][k].waited
              PROVE  FALSE
  BY DEF ShortageNeedsThread
<1>. DEFINE within == Hosts \X (1 .. MAX_ACCUMULATED_FRAMES)
            last == <<message.host, MAX_ACCUMULATED_FRAMES>>
<1>1. TypeInv /\ Limits /\ Conserved
  BY DEF IInv, OrderInv, Base
<1>2. Cardinality(Queued) = WEB_SOCKET_POOL_SIZE
  <2>1. Cardinality(Holding) = 0 /\ Copying = 0 /\ Cardinality(Queued) \in Nat
    BY FS_EmptySet, QueuedCounted DEF Copying
  <2>. QED  BY <1>1, <2>1 DEF Conserved
<1>3. IsFiniteSet(within) /\ Cardinality(within) = MAX_HOSTS * MAX_ACCUMULATED_FRAMES
  <2>1. /\ IsFiniteSet(1 .. MAX_ACCUMULATED_FRAMES)
        /\ Cardinality(1 .. MAX_ACCUMULATED_FRAMES) = MAX_ACCUMULATED_FRAMES
    BY CountTo, Constants
  <2>. QED  BY <2>1, HostsCounted, FS_Product
<1>4. ASSUME NEW h \in Hosts
      PROVE  Len(active_read[h]) \in Nat /\ Len(active_read[h]) <= MAX_ACCUMULATED_FRAMES
  <2>1. active_read[h] \in Seq(Elements)
    BY <1>1 DEF TypeInv
  <2>2. Len(active_read[h]) \in Nat
    BY <2>1
  <2>3. CASE Len(active_read[h]) > MAX_ACCUMULATED_FRAMES
    <3>1. Len(active_read[h]) \in 1 .. Len(active_read[h])
      BY <2>2, <2>3, Constants
    <3>. QED  BY <1>1, <2>3, <3>1 DEF Limits
  <2>. QED  BY <2>2, <2>3, Constants
<1>5. Queued \subseteq within
  <2>. SUFFICES ASSUME NEW p \in Queued PROVE p \in within
    OBVIOUS
  <2>1. PICK h \in Hosts, k \in 1 .. WEB_SOCKET_POOL_SIZE : p = <<h, k>>
    BY DEF Queued, Places
  <2>2. k <= Len(active_read[h]) /\ k \in Int /\ k >= 1
    BY <2>1, Constants DEF Queued
  <2>3. k \in 1 .. MAX_ACCUMULATED_FRAMES
    BY <1>4, <2>2, Constants
  <2>. QED  BY <2>1, <2>3
<1>6. last \in within /\ last[1] = message.host /\ last[2] = MAX_ACCUMULATED_FRAMES
  BY <1>1, Constants, SMTT(30) DEF TypeInv, Messages
<1>7. last \notin Queued
  <2>1. message.host \in Hosts
    BY <1>1 DEF TypeInv, Messages
  <2>2. Len(active_read[message.host]) < MAX_ACCUMULATED_FRAMES
    BY <1>1 DEF Limits
  <2>. QED  BY <1>4, <1>6, <2>1, <2>2, Constants DEF Queued
<1>. HIDE DEF within, last
<1>8. Cardinality(Queued) <= Cardinality(within)
      /\ (Cardinality(within) = Cardinality(Queued) => within = Queued)
  BY <1>3, <1>5, FS_Subset
<1>9. WEB_SOCKET_POOL_SIZE >= Cardinality(within) /\ Cardinality(within) \in Nat
  BY <1>3, FS_CardinalityType, WsClientAssumption
<1>. QED  BY <1>2, <1>6, <1>7, <1>8, <1>9, Constants

(***************************************************************************)
(* On_Message finds the pool empty only while a thread is about to give an  *)
(* element back or a message that waited is queued, for any number of       *)
(* clients, any limits with a pool large enough for all the queues, and     *)
(* callbacks that overlap in any way.                                       *)
(***************************************************************************)
THEOREM PoolSuffices == Spec => []ShortageNeedsThread
  BY InitIInv, NextIInv, FullQueuesLeaveOne, PTL DEF Spec
=============================================================================
