----------------------- MODULE NativeControllerProofs -----------------------
(***************************************************************************)
(* The native controller and its server for any number of connections, any *)
(* texts and any store, and without the bounds of the instances: one       *)
(* request per connection (OneRequest), nothing is stored that was not     *)
(* sent (StoredPairsWereSent), the types (TypeOK), and the service that    *)
(* the clients are promised (ImplementsKV).  The facts   *)
(* about texts that this needs are in TextProofs: that the parser has a    *)
(* query for every text, and what the wire format gives back.              *)
(***************************************************************************)
EXTENDS NativeController, TextProofs

(***************************************************************************)
(* OneRequest is preserved because a new thread finds nothing left over: a *)
(* client that is away has no thread.                                      *)
(***************************************************************************)
Shape ==
    /\ DOMAIN pc = Conns
    /\ DOMAIN client = Conns
    /\ DOMAIN link = Conns
    /\ DOMAIN req = Conns
    /\ DOMAIN rsp = Conns

AwayIsClosed == \A c \in Conns : client[c] = "away" => pc[c] = "closed"

IInv == Shape /\ AwayIsClosed /\ OneRequest

\* Everything the invariant is about.
watched == << pc, client, link, req, rsp >>

-----------------------------------------------------------------------------

\* Init establishes the invariant: no thread, no request.
LEMMA InitIInv == Init => IInv
  BY DEF Init, IInv, Shape, AwayIsClosed, OneRequest

\* An exception leaves nothing behind for the next process.
LEMMA TerminateIInv == Terminate => IInv'
  BY DEF Terminate, IInv, Shape, AwayIsClosed, OneRequest

\* A thread that ends outside of a handler has no request under way.
LEMMA CloseIInv ==
    ASSUME IInv, NEW c \in Conns, pc[c] # "store", Close(c), UNCHANGED << req, rsp >>
    PROVE  IInv'
  <1>1. Shape'
    BY DEF IInv, Shape, Close
  <1>2. AwayIsClosed'
    BY DEF IInv, Shape, AwayIsClosed, Close
  <1>3. OneRequest'
    <2> SUFFICES ASSUME NEW d \in Conns
                 PROVE  /\ (req'[d] # None \/ rsp'[d] # None) => pc'[d] = "store"
                        /\ req'[d] # None => rsp'[d] = None /\ link'[d]
      BY DEF OneRequest
    <2>1. CASE d = c
      BY <2>1 DEF IInv, Shape, OneRequest, Close
    <2>2. CASE d # c
      BY <2>2 DEF IInv, Shape, OneRequest, Close
    <2> QED BY <2>1, <2>2
  <1> QED BY <1>1, <1>2, <1>3 DEF IInv

-----------------------------------------------------------------------------

\* The steps of clients.
LEMMA ClientStep ==
    ASSUME IInv, NEW c \in Conns, Connect(c) \/ Send(c) \/ Leave(c)
    PROVE  IInv'
  <1>1. CASE Connect(c)
    <2>1. Shape'
      BY <1>1 DEF IInv, Shape, Connect
    <2>2. AwayIsClosed'
      BY <1>1 DEF IInv, Shape, AwayIsClosed, Connect
    <2>3. pc[c] = "closed"
      BY <1>1 DEF IInv, AwayIsClosed, Connect
    <2>4. OneRequest'
      BY <1>1, <2>3 DEF IInv, Shape, OneRequest, Connect
    <2> QED BY <2>1, <2>2, <2>4 DEF IInv
  <1>2. CASE Send(c)
    <2>1. client' = [client EXCEPT ![c] = "waiting"] /\ UNCHANGED << pc, link, req, rsp >>
      BY <1>2 DEF Send, server
    <2> QED BY <2>1 DEF IInv, Shape, AwayIsClosed, OneRequest
  <1>3. CASE Leave(c)
    <2>1. client' = [client EXCEPT ![c] = "gone"] /\ UNCHANGED << pc, link, req, rsp >>
      BY <1>3 DEF Leave, server
    <2> QED BY <2>1 DEF IInv, Shape, AwayIsClosed, OneRequest
  <1> QED BY <1>1, <1>2, <1>3

\* The steps of a thread that end it, or its process.
LEMMA EndingStep ==
    ASSUME IInv, NEW c \in Conns,
           \/ ConnectFails(c) \/ ReceiveFaults(c) \/ ParseThrows(c) \/ ParseFaults(c) \/ StoreLost(c)
           \/ ReceiveFails(c) \/ ParseExit(c)
    PROVE  IInv'
  <1>1. CASE ConnectFails(c) \/ ReceiveFaults(c) \/ ParseThrows(c) \/ ParseFaults(c) \/ StoreLost(c)
    BY <1>1, TerminateIInv DEF ConnectFails, ReceiveFaults, ParseThrows, ParseFaults, StoreLost
  <1>2. CASE ReceiveFails(c) \/ ParseExit(c)
    BY <1>2, CloseIInv DEF ReceiveFails, ParseExit
  <1> QED BY <1>1, <1>2

\* The steps between receiving a query and answering it.
LEMMA HandlerStep ==
    ASSUME IInv, NEW c \in Conns, Receive(c) \/ ParseQuery(c) \/ Collect(c) \/ Reply(c)
    PROVE  IInv'
  <1>1. CASE Receive(c)
    <2>1. /\ pc[c] = "receive"
          /\ pc' = [pc EXCEPT ![c] = "parse"]
          /\ UNCHANGED << client, link, req, rsp >>
      BY <1>1 DEF Receive, server
    <2> QED BY <2>1 DEF IInv, Shape, AwayIsClosed, OneRequest
  <1>2. CASE ParseQuery(c)
    <2>1. /\ pc[c] = "parse"
          /\ UNCHANGED << client, link, rsp >>
          /\ \/ /\ pc' = [pc EXCEPT ![c] = "store"]
                /\ \/ link[c] /\ \E m : req' = [req EXCEPT ![c] = m]
                   \/ req' = req
             \/ pc' = [pc EXCEPT ![c] = "send"] /\ req' = req
      BY <1>2 DEF ParseQuery, server, clients
    <2>2. req[c] = None /\ rsp[c] = None
      BY <2>1 DEF IInv, OneRequest
    <2>3. Shape'
      BY <2>1 DEF IInv, Shape
    <2>4. AwayIsClosed'
      BY <2>1 DEF IInv, Shape, AwayIsClosed
    <2>5. OneRequest'
      BY <2>1, <2>2 DEF IInv, Shape, OneRequest
    <2> QED BY <2>3, <2>4, <2>5 DEF IInv
  <1>3. CASE Collect(c)
    <2>1. /\ pc[c] = "store"
          /\ rsp[c] # None
          /\ rsp' = [rsp EXCEPT ![c] = None]
          /\ pc' = [pc EXCEPT ![c] = "send"]
          /\ UNCHANGED << client, link, req >>
      BY <1>3 DEF Collect, server, clients
    <2>2. req[c] = None
      BY <2>1 DEF IInv, OneRequest
    <2> QED BY <2>1, <2>2 DEF IInv, Shape, AwayIsClosed, OneRequest
  <1>4. CASE Reply(c)
    <2>1. pc[c] = "send" /\ UNCHANGED << req, rsp >>
      BY <1>4 DEF Reply
    <2>2. CASE Close(c)
      BY <2>1, <2>2, CloseIInv
    <2>3. CASE /\ pc' = [pc EXCEPT ![c] = "receive"]
               /\ client' = [client EXCEPT ![c] = IF @ = "gone" THEN @ ELSE "ready"]
               /\ UNCHANGED link
      BY <2>1, <2>3 DEF IInv, Shape, AwayIsClosed, OneRequest
    <2> QED BY <1>4, <2>2, <2>3 DEF Reply
  <1> QED BY <1>1, <1>2, <1>3, <1>4

\* The steps of the server, and the loss of a connection to it.
LEMMA ServerStep ==
    ASSUME IInv, NEW c \in Conns, Serve(c) \/ LoseLink(c)
    PROVE  IInv'
  <1>1. CASE Serve(c)
    <2>1. /\ req[c] # None
          /\ \E r : rsp' = [rsp EXCEPT ![c] = r]
          /\ req' = [req EXCEPT ![c] = None]
          /\ UNCHANGED << pc, client, link >>
      BY <1>1 DEF Serve, server, clients
    <2> QED BY <2>1 DEF IInv, Shape, AwayIsClosed, OneRequest
  <1>2. CASE LoseLink(c)
    <2>1. /\ link' = [link EXCEPT ![c] = FALSE]
          /\ req' = [req EXCEPT ![c] = None]
          /\ rsp' = rsp \/ rsp' = [rsp EXCEPT ![c] = None]
          /\ UNCHANGED << pc, client >>
      BY <1>2 DEF LoseLink, clients
    <2> QED BY <2>1 DEF IInv, Shape, AwayIsClosed, OneRequest
  <1> QED BY <1>1, <1>2

\* A step that changes nothing of this.
LEMMA WatchedIInv == IInv /\ UNCHANGED watched => IInv'
  BY DEF IInv, Shape, AwayIsClosed, OneRequest, watched

\* Every step keeps the invariant.
LEMMA IInvNext ==
    ASSUME IInv, [Next]_vars
    PROVE  IInv'
  <1>1. ASSUME NEW c \in Conns,
               \/ Connect(c) \/ ConnectFails(c) \/ Send(c) \/ Leave(c)
               \/ ParseQuery(c) \/ ParseExit(c) \/ ParseThrows(c) \/ ParseFaults(c)
               \/ Sockets(c)
               \/ Serve(c) \/ LoseLink(c)
        PROVE  IInv'
    BY <1>1, ClientStep, EndingStep, HandlerStep, ServerStep DEF Sockets
  <1>2. CASE ServeLate
    BY <1>2, WatchedIInv DEF ServeLate, clients, watched
  <1>3. CASE Restart
    BY <1>3, WatchedIInv DEF Restart, clients, server, watched
  <1>4. CASE UNCHANGED vars
    BY <1>4, WatchedIInv DEF vars, clients, server, watched
  <1> QED BY <1>1, <1>2, <1>3, <1>4 DEF Next

(***************************************************************************)
(* A connection to the rocksdb server carries one request or its response, *)
(* and only while a handler waits: rocksdb_client::execute never reads the *)
(* answer to an earlier query, also after exceptions, broken connections   *)
(* and restarts.                                                           *)
(***************************************************************************)
THEOREM OneRequestAlways == Spec => []OneRequest
  <1>1. Init => IInv
    BY InitIInv
  <1>2. IInv /\ [Next]_vars => IInv'
    BY IInvNext
  <1>3. IInv => OneRequest
    BY DEF IInv
  <1> QED BY <1>1, <1>2, <1>3, PTL DEF Spec

-----------------------------------------------------------------------------
(* What is stored was sent.                                                *)

\* The elements of the texts, and the terminator.
Chars == {Nul} \cup UNION {{t[i] : i \in DOMAIN t} : t \in AllTexts}

(***************************************************************************)
(* No message has a zero in it, and none fills the receive buffer, whose   *)
(* terminator would be written behind the buffer.                          *)
(***************************************************************************)
TextsFit ==
    \A c \in Conns : \A t \in Texts[c] :
       /\ t \in Seq(Chars)
       /\ \A i \in 1..Len(t) : t[i] # Nul
       /\ Len(t) # max_msg_size

\* What may arrive of the messages.
Arrived == {CutAt(t, n) : t \in AllTexts, n \in Breaks \cup {max_msg_size}}

Buffers == [bytes : [1..max_msg_size -> Chars], next : {None}]

(***************************************************************************)
(* What is on the socket is a message, or what was sent of it before the   *)
(* client went away; what a thread is about to parse is what arrived, and  *)
(* the requests are those of such texts.                                   *)
(***************************************************************************)
InboxOK(c) ==
    /\ client[c] = "away" => inbox[c] = None
    /\ inbox[c] # None =>
          \E t \in Texts[c] :
             \/ inbox[c] = [size |-> Len(t), data |-> t]
             \/ /\ client[c] = "gone"
                /\ \E n \in Breaks \cup {max_msg_size} :
                      inbox[c] = [size |-> Len(t), data |-> CutAt(t, n)]

ConnOK(c) ==
    /\ InboxOK(c)
    /\ pc[c] = "parse" => UpToNul(buf[c].bytes) \in Arrived
    /\ req[c] # None => req[c] \in Requests[cipher]

SentInv ==
    /\ cipher \in DOMAIN Stores
    /\ DOMAIN pc = Conns /\ DOMAIN client = Conns /\ DOMAIN inbox = Conns /\ DOMAIN req = Conns
    /\ buf \in [Conns -> Buffers]
    /\ \A c \in Conns : ConnOK(c)
    /\ \A r \in late : r.raw \in Requests[cipher]
    /\ StoredPairsWereSent

-----------------------------------------------------------------------------
(* The operators on texts that stand between the socket and the parser.    *)

\* A part of a text that begins with it.
LEMMA CutFacts ==
    ASSUME NEW t \in Seq(Chars), NEW n \in Nat
    PROVE  /\ CutAt(t, n) \in Seq(Chars)
           /\ Len(CutAt(t, n)) <= Len(t)
           /\ \A i \in 1..Len(CutAt(t, n)) : i \in 1..Len(t) /\ CutAt(t, n)[i] = t[i]
           /\ Len(t) <= n => CutAt(t, n) = t
  <1>1. PICK m : m = IF n < Len(t) THEN n ELSE Len(t)
    OBVIOUS
  <1>2. CutAt(t, n) = SubSeq(t, 1, m) /\ m \in 0..Len(t) /\ (Len(t) <= n => m = Len(t))
    BY <1>1 DEF CutAt
  <1>3. /\ SubSeq(t, 1, m) \in Seq(Chars)
        /\ Len(SubSeq(t, 1, m)) = m
        /\ \A i \in 1..m : SubSeq(t, 1, m)[i] = t[i]
    BY <1>2, SubSeqProperties
  <1>4. m = Len(t) => SubSeq(t, 1, m) = t
    BY <1>3, SeqEqual
  <1> QED BY <1>2, <1>3, <1>4

\* A message that leaves room for its terminator is read back from the buffer
\* as it was received, whatever the buffer held before.
LEMMA BufferReadsBack ==
    ASSUME NEW b \in Buffers, NEW text \in Seq(Chars),
           text # << >>, Len(text) < max_msg_size, \A i \in 1..Len(text) : text[i] # Nul
    PROVE  /\ Deposit(b, text) \in Buffers
           /\ UpToNul(Deposit(b, text).bytes) = text
  <1> USE NativeAssumption
  <1>1. PICK s : s = Deposit(b, text).bytes
    OBVIOUS
  <1>2. Nul \in Chars
    BY DEF Chars
  <1>3. /\ Deposit(b, text) \in Buffers
        /\ s \in [1..max_msg_size -> Chars]
        /\ \A i \in 1..Len(text) : s[i] = text[i]
        /\ s[Len(text) + 1] = Nul
    BY <1>1, <1>2 DEF Deposit, Buffers
  <1>4. Len(s) = max_msg_size
    BY <1>3
  <1>5. PICK n : n = find(s, Nul, 1)
    OBVIOUS
  <1>6. /\ n \in Nat
        /\ n = NPos => \A i \in 1..Len(s) : s[i] # Nul
        /\ n # NPos => n \in 1..Len(s) /\ s[n] = Nul /\ \A i \in 1..(n - 1) : s[i] # Nul
    BY <1>4, <1>5, FindFacts
  <1>7. n = Len(text) + 1
    BY <1>3, <1>4, <1>6
  <1>8. UpToNul(s) = SubSeq(s, 1, Len(text))
    BY <1>5, <1>7 DEF UpToNul, between, NPos
  <1>9. /\ SubSeq(s, 1, Len(text)) \in Seq(Chars)
        /\ Len(SubSeq(s, 1, Len(text))) = Len(text)
        /\ \A i \in 1..Len(text) : SubSeq(s, 1, Len(text))[i] = text[i]
    BY <1>3, SubSeqProperties
  <1>10. SubSeq(s, 1, Len(text)) = text
    BY <1>9, SeqEqual
  <1> QED BY <1>1, <1>3, <1>8, <1>10

-----------------------------------------------------------------------------
(* The steps preserve SentInv.                                             *)

LEMMA InitSent == Init => SentInv
  <1> SUFFICES ASSUME Init PROVE SentInv
    OBVIOUS
  <1>1. Zeroed \in Buffers
    BY DEF Zeroed, Buffers, Chars
  <1>2. StoredPairsWereSent
    BY DEF Init, StoredPairsWereSent
  <1>3. \A c \in Conns : ConnOK(c)
    BY DEF Init, ConnOK, InboxOK
  <1> QED BY <1>1, <1>2, <1>3 DEF Init, SentInv

\* A request that comes from what was sent leaves only such pairs behind.
LEMMA ExecuteSent ==
    ASSUME StoredPairsWereSent, cipher \in DOMAIN Stores,
           NEW raw \in Requests[cipher], NEW ok, db' = execute(db, deserialize(raw), ok),
           UNCHANGED cipher
    PROVE  StoredPairsWereSent'
  <1>1. PICK m : m = deserialize(raw)
    OBVIOUS
  <1>2. << m.key, m.value >> \in Writes[cipher]
    BY <1>1 DEF Writes
  <1>3. \/ db' = db
        \/ db' = [k \in DOMAIN db \cup {m.key} |-> IF k = m.key THEN m.value ELSE db[k]]
        \/ db' = [k \in DOMAIN db \ {m.key} |-> db[k]]
    BY <1>1 DEF execute, Restrict
  <1>4. CASE db' = db
    BY <1>4 DEF StoredPairsWereSent, Writes, Requests, Said, AllTexts
  <1>5. ASSUME NEW k \in DOMAIN db'
        PROVE  \/ k \in DOMAIN db /\ db'[k] = db[k]
               \/ k = m.key /\ db'[k] = m.value
    BY <1>3, <1>5
  <1>6. ASSUME NEW k \in DOMAIN db'
        PROVE  \/ \E old \in Stores[cipher] : k \in DOMAIN old /\ old[k] = db'[k]
               \/ << k, db'[k] >> \in Writes[cipher]
    BY <1>2, <1>5 DEF StoredPairsWereSent
  <1> QED BY <1>6 DEF StoredPairsWereSent

\* A connection of which no more changes than that its request is taken away.
LEMMA ConnSame ==
    ASSUME NEW d \in Conns, ConnOK(d), UNCHANGED cipher,
           inbox'[d] = inbox[d], client'[d] = client[d], pc'[d] = pc[d],
           buf'[d] = buf[d], req'[d] = req[d] \/ req'[d] = None
    PROVE  ConnOK(d)'
  BY DEF ConnOK, InboxOK

\* A step of connection c that leaves the database and the abandoned requests.
LEMMA OwnStep ==
    ASSUME SentInv, NEW c \in Conns, UNCHANGED << cipher, db, late >>,
           DOMAIN pc' = Conns, DOMAIN client' = Conns, DOMAIN inbox' = Conns, DOMAIN req' = Conns,
           buf' \in [Conns -> Buffers],
           ConnOK(c)',
           \A d \in Conns \ {c} :
              /\ inbox'[d] = inbox[d] /\ client'[d] = client[d] /\ pc'[d] = pc[d]
              /\ buf'[d] = buf[d] /\ req'[d] = req[d]
    PROVE  SentInv'
  <1>1. ASSUME NEW d \in Conns PROVE ConnOK(d)'
    <2>1. CASE d = c
      BY <2>1
    <2>2. CASE d # c
      BY <2>2, ConnSame DEF SentInv
    <2> QED BY <2>1, <2>2
  <1>2. StoredPairsWereSent'
    BY DEF SentInv, StoredPairsWereSent
  <1> QED BY <1>1, <1>2 DEF SentInv

LEMMA ZeroedBuffer == Zeroed \in Buffers
  BY DEF Zeroed, Buffers, Chars

LEMMA CloseSent ==
    ASSUME SentInv, NEW c \in Conns, Close(c), UNCHANGED << cipher, db, late, req >>
    PROVE  SentInv'
  <1>1. ConnOK(c)'
    BY DEF SentInv, Close, ConnOK, InboxOK
  <1>2. buf' \in [Conns -> Buffers]
    BY ZeroedBuffer DEF SentInv, Close
  <1>3. \A d \in Conns \ {c} :
              /\ inbox'[d] = inbox[d] /\ client'[d] = client[d] /\ pc'[d] = pc[d]
              /\ buf'[d] = buf[d] /\ req'[d] = req[d]
    BY DEF SentInv, Close
  <1>4. DOMAIN pc' = Conns /\ DOMAIN client' = Conns /\ DOMAIN inbox' = Conns /\ DOMAIN req' = Conns
    BY DEF SentInv, Close
  <1> QED BY <1>1, <1>2, <1>3, <1>4, OwnStep

\* What the sockets hold when the process ends is executed later.
LEMMA TerminateSent == SentInv /\ Terminate => SentInv'
  <1> SUFFICES ASSUME SentInv, Terminate PROVE SentInv'
    OBVIOUS
  <1>1. \A c \in Conns : ConnOK(c)'
    BY DEF Terminate, ConnOK, InboxOK
  <1>2. buf' \in [Conns -> Buffers]
    BY ZeroedBuffer DEF Terminate
  <1>3. ASSUME NEW r \in late' PROVE r.raw \in Requests[cipher]
    BY <1>3 DEF SentInv, ConnOK, Terminate, Abandoned
  <1>4. StoredPairsWereSent'
    BY DEF SentInv, StoredPairsWereSent, Terminate
  <1> QED BY <1>1, <1>2, <1>3, <1>4 DEF SentInv, Terminate

\* Clients send messages of Texts and may leave in the middle of one.
LEMMA ClientSent ==
    ASSUME SentInv, NEW c \in Conns, Connect(c) \/ Send(c) \/ Leave(c)
    PROVE  SentInv'
  <1>1. CASE Connect(c)
    <2>1. ConnOK(c)'
      BY <1>1 DEF Connect, SentInv, ConnOK, InboxOK, process
    <2> QED BY <1>1, <2>1, OwnStep DEF Connect, SentInv, process
  <1>2. CASE Send(c)
    <2>1. ConnOK(c)'
      BY <1>2 DEF Send, SentInv, ConnOK, InboxOK, process, server
    <2> QED BY <1>2, <2>1, OwnStep DEF Send, SentInv, process, server
  <1>3. CASE Leave(c)
    <2>1. UNCHANGED << cipher, db, late, pc, buf, req >> /\ client' = [client EXCEPT ![c] = "gone"]
      BY <1>3 DEF Leave, process, server
    <2>2. CASE inbox[c] = None
      <3>1. inbox' = inbox
        BY <1>3, <2>2 DEF Leave
      <3>2. ConnOK(c)'
        BY <2>1, <2>2, <3>1 DEF SentInv, ConnOK, InboxOK
      <3> QED BY <2>1, <3>1, <3>2, OwnStep DEF SentInv
    <2>3. CASE inbox[c] # None
      <3>1. PICK n \in Breaks \cup {max_msg_size} : inbox' = [inbox EXCEPT ![c].data = CutAt(@, n)]
        BY <1>3, <2>3 DEF Leave
      <3>2. PICK t \in Texts[c] : inbox[c] = [size |-> Len(t), data |-> t]
        BY <1>3, <2>3 DEF SentInv, ConnOK, InboxOK, Leave
      <3>3. inbox'[c] = [size |-> Len(t), data |-> CutAt(t, n)]
        BY <3>1, <3>2 DEF SentInv
      <3>4. ConnOK(c)'
        BY <2>1, <3>3 DEF SentInv, ConnOK, InboxOK
      <3> QED BY <2>1, <3>1, <3>4, OwnStep DEF SentInv
    <2> QED BY <2>2, <2>3
  <1> QED BY <1>1, <1>2, <1>3

\* What fits into the buffer is parsed as it arrived.
LEMMA ReceiveSent ==
    ASSUME TextsFit, SentInv, NEW c \in Conns, Receive(c)
    PROVE  SentInv'
  <1> USE NativeAssumption
  <1>1. PICK t \in Texts[c], n \in Breaks \cup {max_msg_size} :
           inbox[c].size = Len(t) /\ inbox[c].data = CutAt(t, n) /\ Len(t) < max_msg_size
    <2>1. PICK t \in Texts[c] :
             /\ inbox[c].size = Len(t)
             /\ \/ inbox[c].data = t
                \/ \E n \in Breaks \cup {max_msg_size} : inbox[c].data = CutAt(t, n)
      BY DEF SentInv, ConnOK, InboxOK, Receive
    <2>2. t \in Seq(Chars) /\ Len(t) \in Nat /\ Len(t) < max_msg_size
      BY <2>1 DEF TextsFit, Receive
    <2>3. CutAt(t, max_msg_size) = t
      BY <2>2, CutFacts
    <2> QED BY <2>1, <2>2, <2>3
  <1>2. PICK text : text = CutAt(t, n)
    OBVIOUS
  <1>3. text \in Arrived
    BY <1>2 DEF Arrived, AllTexts
  <1>4. /\ t \in Seq(Chars) /\ Len(t) \in Nat /\ n \in Nat
        /\ \A i \in 1..Len(t) : t[i] # Nul
    BY DEF TextsFit
  <1>5. /\ text \in Seq(Chars)
        /\ Len(text) <= Len(t)
        /\ \A i \in 1..Len(text) : i \in 1..Len(t) /\ text[i] = t[i]
    BY <1>2, <1>4, CutFacts
  <1>6. text # << >> /\ Len(text) < max_msg_size /\ \A i \in 1..Len(text) : text[i] # Nul
    BY <1>1, <1>2, <1>4, <1>5 DEF Receive
  <1>7. PICK b : b = Deposit(buf[c], text)
    OBVIOUS
  <1>8. b \in Buffers /\ UpToNul(b.bytes) = text
    BY <1>5, <1>6, <1>7, BufferReadsBack DEF SentInv
  <1>9. buf' = [buf EXCEPT ![c] = b]
    BY <1>1, <1>2, <1>6, <1>7 DEF Receive, SentInv
  <1>10. ConnOK(c)'
    BY <1>3, <1>8, <1>9 DEF Receive, SentInv, ConnOK, InboxOK, process
  <1> QED BY <1>8, <1>9, <1>10, OwnStep DEF Receive, SentInv, process, server

\* A request is made of what arrived.
LEMMA ParseSent ==
    ASSUME SentInv, NEW c \in Conns, ParseQuery(c)
    PROVE  SentInv'
  <1>1. UpToNul(buf[c].bytes) \in Arrived /\ buf[c] \in Buffers
    BY DEF SentInv, ConnOK, ParseQuery
  <1>2. PICK q : q = Received(c)
    OBVIOUS
  <1>3. q \in Said
    BY <1>1, <1>2 DEF Received, CString, Buffers, Arrived, Said
  <1>4. /\ UNCHANGED << cipher, db, late, client, inbox, buf >>
        /\ ~q.throws
        /\ \/ /\ StoreCommand(q)
              /\ pc' = [pc EXCEPT ![c] = "store"]
              /\ \/ req' = [req EXCEPT ![c] = serialize(RequestOf(q, cipher))]
                 \/ req' = req
           \/ pc' = [pc EXCEPT ![c] = "send"] /\ req' = req
    BY <1>2 DEF ParseQuery, process, server, clients
  <1>5. StoreCommand(q) => serialize(RequestOf(q, cipher)) \in Requests[cipher]
    BY <1>3, <1>4 DEF Requests, SentInv
  <1>6. ConnOK(c)'
    BY <1>4, <1>5 DEF SentInv, ConnOK, InboxOK
  <1> QED BY <1>4, <1>6, OwnStep DEF SentInv

LEMMA AnswerSent ==
    ASSUME SentInv, NEW c \in Conns, Collect(c) \/ Reply(c)
    PROVE  SentInv'
  <1>1. CASE Collect(c)
    <2>1. ConnOK(c)'
      BY <1>1 DEF Collect, SentInv, ConnOK, InboxOK, process, clients
    <2> QED BY <1>1, <2>1, OwnStep DEF Collect, SentInv, process, server, clients
  <1>2. CASE Reply(c)
    <2>1. CASE Close(c)
      BY <1>2, <2>1, CloseSent DEF Reply, process
    <2>2. CASE /\ pc' = [pc EXCEPT ![c] = "receive"]
               /\ client' = [client EXCEPT ![c] = IF @ = "gone" THEN @ ELSE "ready"]
               /\ UNCHANGED << inbox, buf, link >>
      <3>1. UNCHANGED << cipher, db, late, req >>
        BY <1>2 DEF Reply, process
      <3>2. ConnOK(c)'
        BY <2>2, <3>1 DEF SentInv, ConnOK, InboxOK
      <3> QED BY <2>2, <3>1, <3>2, OwnStep DEF SentInv
    <2> QED BY <1>2, <2>1, <2>2 DEF Reply
  <1> QED BY <1>1, <1>2

LEMMA ServerSent ==
    ASSUME SentInv, NEW c \in Conns, Serve(c) \/ LoseLink(c)
    PROVE  SentInv'
  <1>1. /\ req' = [req EXCEPT ![c] = None]
        /\ UNCHANGED << cipher, client, inbox, pc, buf >>
    BY DEF Serve, LoseLink, process, clients
  <1>2. ASSUME NEW d \in Conns PROVE ConnOK(d)'
    BY <1>1, ConnSame DEF SentInv
  <1>3. StoredPairsWereSent' /\ \A r \in late' : r.raw \in Requests[cipher]
    <2>1. CASE Serve(c)
      <3>1. PICK ok \in Results : db' = execute(db, deserialize(req[c]), ok)
        BY <2>1 DEF Serve
      <3>2. req[c] \in Requests[cipher]
        BY <2>1 DEF Serve, SentInv, ConnOK
      <3>3. StoredPairsWereSent'
        BY <1>1, <3>1, <3>2, ExecuteSent DEF SentInv
      <3> QED BY <2>1, <3>3 DEF Serve, server, SentInv
    <2>2. CASE LoseLink(c)
      <3>1. UNCHANGED db /\ (late' = late \/ (req[c] # None /\ late' = late \cup {Abandoned(c)}))
        BY <2>2 DEF LoseLink
      <3>2. StoredPairsWereSent'
        BY <1>1, <3>1 DEF SentInv, StoredPairsWereSent
      <3> QED BY <3>1, <3>2 DEF SentInv, ConnOK, Abandoned
    <2> QED BY <2>1, <2>2
  <1> QED BY <1>1, <1>2, <1>3 DEF SentInv

\* A request that outlives its controller was made by it.
LEMMA LateSent == SentInv /\ ServeLate => SentInv'
  <1> SUFFICES ASSUME SentInv, ServeLate PROVE SentInv'
    OBVIOUS
  <1>1. UNCHANGED << cipher, client, inbox, pc, buf, req >>
    BY DEF ServeLate, process, clients
  <1>2. PICK r \in late : /\ \E ok \in Results : db' = execute(db, deserialize(r.raw), ok)
                          /\ late' = late \ {r}
    BY DEF ServeLate
  <1>3. StoredPairsWereSent'
    BY <1>1, <1>2, ExecuteSent DEF SentInv
  <1>4. \A d \in Conns : ConnOK(d)'
    BY <1>1, ConnSame DEF SentInv
  <1> QED BY <1>1, <1>2, <1>3, <1>4 DEF SentInv

LEMMA SameSent == SentInv /\ UNCHANGED << cipher, client, inbox, pc, buf, req, late, db >> => SentInv'
  <1> SUFFICES ASSUME SentInv, UNCHANGED << cipher, client, inbox, pc, buf, req, late, db >>
               PROVE  SentInv'
    OBVIOUS
  <1>1. \A d \in Conns : ConnOK(d)'
    BY ConnSame DEF SentInv
  <1>2. StoredPairsWereSent'
    BY DEF SentInv, StoredPairsWereSent
  <1> QED BY <1>1, <1>2 DEF SentInv

\* Every step keeps what is stored, and what will be, among what was sent.
LEMMA SentNext ==
    ASSUME TextsFit, SentInv, [Next]_vars
    PROVE  SentInv'
  <1>1. ASSUME NEW c \in Conns,
               \/ Connect(c) \/ ConnectFails(c) \/ Send(c) \/ Leave(c)
               \/ ParseQuery(c) \/ ParseExit(c) \/ ParseThrows(c) \/ ParseFaults(c)
               \/ Sockets(c)
               \/ Serve(c) \/ LoseLink(c)
        PROVE  SentInv'
    <2>1. CASE \/ ConnectFails(c) \/ ReceiveFaults(c) \/ ParseThrows(c) \/ ParseFaults(c)
               \/ StoreLost(c)
      BY <2>1, TerminateSent DEF ConnectFails, ReceiveFaults, ParseThrows, ParseFaults, StoreLost
    <2>2. CASE ReceiveFails(c) \/ ParseExit(c)
      BY <2>2, CloseSent DEF ReceiveFails, ParseExit, process
    <2> QED BY <1>1, <2>1, <2>2, ClientSent, ReceiveSent, ParseSent, AnswerSent, ServerSent
            DEF Sockets
  <1>2. CASE ServeLate
    BY <1>2, LateSent
  <1>3. CASE Restart
    BY <1>3, SameSent DEF Restart, clients, server
  <1>4. CASE UNCHANGED vars
    BY <1>4, SameSent DEF vars, process, clients, server
  <1> QED BY <1>1, <1>2, <1>3, <1>4 DEF Next

(***************************************************************************)
(* What the database holds beyond what it started with is what clients     *)
(* asked for: no message is mixed with the one before it in the receive    *)
(* buffer of native_controller.cpp, and no request is made up by a cut     *)
(* message, a broken connection, an exception or a restart.                *)
(***************************************************************************)
THEOREM StoredWasSent ==
    ASSUME TextsFit
    PROVE  Spec => []StoredPairsWereSent
  <1>1. Init => SentInv
    BY InitSent
  <1>2. SentInv /\ [Next]_vars => SentInv'
    BY SentNext
  <1>3. SentInv => StoredPairsWereSent
    BY DEF SentInv
  <1> QED BY <1>1, <1>2, <1>3, PTL DEF Spec

-----------------------------------------------------------------------------
(* Types.                                                                  *)

StoredTexts == UNION {{f[k] : k \in DOMAIN f} : f \in UNION {Stores[key] : key \in DOMAIN Stores}}

Words == {"get", "put", "del", Space, "0", "1", "2", "3", "4", "9"}

StoredChars == UNION {{v[i] : i \in DOMAIN v} : v \in StoredTexts}

\* What requests, responses and values are made of.
Elements == Chars \cup StoredChars \cup DOMAIN Stores \cup Words

\* Messages and stored values are texts.
TextsAreTexts ==
    /\ \A c \in Conns : \A t \in Texts[c] : t \in Seq(Chars)
    /\ \A v \in StoredTexts : v \in Seq(Elements)

Inboxes == [size : Nat, data : Seq(Chars)]

\* None is something else.
NoneIsNoData == None \notin Seq(Elements) \cup Inboxes

AnyBuffers == [bytes : [1..max_msg_size -> Chars], next : Conns \cup {None}]

(***************************************************************************)
(* What TypeOK needs: a message on the socket waits for its thread, and a  *)
(* client that may send has a thread that receives.                        *)
(***************************************************************************)
ConnTypes(c) ==
    /\ inbox[c] # None => inbox[c] \in Inboxes /\ pc[c] = "receive"
    /\ client[c] = "ready" => inbox[c] = None /\ pc[c] = "receive"
    /\ client[c] = "waiting" => (pc[c] = "receive" <=> inbox[c] # None)
    /\ pc[c] = "closed" <=> client[c] = "away"
    /\ resp[c] # None <=> pc[c] = "send"
    /\ req[c] # None => req[c] \in Seq(Elements)
    /\ rsp[c] # None => rsp[c] \in Seq(Elements)

DataTypes ==
    /\ cipher \in DOMAIN Stores
    /\ \A k \in DOMAIN db : db[k] \in Seq(Elements)
    /\ \A r \in late : r.raw \in Seq(Elements)

Counts ==
    /\ up \in BOOLEAN
    /\ restarts \in 0..MaxRestarts
    /\ losses \in 0..MaxLosses
    /\ sends \in 0..MaxSends

Arrays ==
    /\ client \in [Conns -> {"away", "ready", "waiting", "gone"}]
    /\ pc \in [Conns -> {"closed", "receive", "parse", "store", "send"}]
    /\ buf \in [Conns -> AnyBuffers]
    /\ DOMAIN inbox = Conns /\ DOMAIN req = Conns /\ DOMAIN rsp = Conns /\ DOMAIN resp = Conns

TypeInv == Counts /\ Arrays /\ DataTypes /\ \A c \in Conns : ConnTypes(c)

LEMMA TypeInvTypes == TypeInv => TypeOK
  BY DEF TypeInv, Counts, Arrays, AnyBuffers, ConnTypes, TypeOK

LEMMA Characters ==
    /\ Nul \in Chars
    /\ Chars \subseteq Elements
    /\ DOMAIN Stores \subseteq Elements
    /\ {"get", "put", "del", Space, "0", "1", "2", "3", "4", "9"} \subseteq Elements
    /\ << >> \in Seq(Elements)
  <1>1. Nul \in Chars
    BY DEF Chars
  <1>2. Chars \subseteq Elements /\ DOMAIN Stores \subseteq Elements /\ Words \subseteq Elements
    BY DEF Elements
  <1>3. << >> \in Seq(Elements)
    OBVIOUS
  <1> QED BY <1>1, <1>2, <1>3 DEF Words

LEMMA ZeroedAny == Zeroed \in AnyBuffers
  BY Characters DEF Zeroed, AnyBuffers

LEMMA InitTypes ==
    ASSUME TextsAreTexts
    PROVE  Init => TypeInv
  <1> SUFFICES ASSUME Init PROVE TypeInv
    OBVIOUS
  <1>1. Counts
    BY NativeAssumption DEF Init, Counts
  <1>2. Arrays
    BY ZeroedAny DEF Init, Arrays
  <1>3. DataTypes
    <2>1. \A k \in DOMAIN db : db[k] \in StoredTexts
      BY DEF Init, StoredTexts
    <2> QED BY <2>1 DEF Init, DataTypes, TextsAreTexts
  <1>4. \A c \in Conns : ConnTypes(c)
    BY DEF Init, ConnTypes
  <1> QED BY <1>1, <1>2, <1>3, <1>4 DEF TypeInv

-----------------------------------------------------------------------------
(* The data that requests and responses carry.                             *)

\* A text of more elements.
LEMMA TextElements ==
    ASSUME NEW s \in Seq(Chars)
    PROVE  s \in Seq(Elements)
  BY Characters

LEMMA JoinText ==
    ASSUME NEW a \in Seq(Elements), NEW b \in Seq(Elements)
    PROVE  a \o b \in Seq(Elements)
  OBVIOUS

\* The request of a query.
LEMMA RequestMessage ==
    ASSUME NEW db_key \in DOMAIN Stores, NEW q, IsQuery(Chars, q), StoreCommand(q)
    PROVE  \E command \in {"get", "put", "del"}, value \in Seq(Elements) :
              /\ RequestOf(q, db_key) = Message(command, q.key, value)
              /\ command = "put" => value = encrypt(db_key, q.value)
              /\ \/ q.cmd = <<"get">> /\ command = "get"
                 \/ q.cmd = <<"put">> /\ command = "put"
                 \/ q.cmd = <<"delete">> /\ command = "del"
  <1>1. q.key \in Seq(Elements) /\ q.value \in Seq(Elements)
    BY TextElements DEF IsQuery
  <1>2. encrypt(db_key, q.value) \in Seq(Elements)
    BY <1>1, Characters DEF encrypt
  <1>3. << >> \in Seq(Elements)
    BY Characters
  <1>4. CASE q.cmd = <<"get">>
    <2>1. RequestOf(q, db_key) = Message("get", q.key, << >>)
      BY <1>4 DEF RequestOf, request
    <2> QED BY <1>3, <1>4, <2>1
  <1>5. CASE q.cmd = <<"put">>
    <2>1. RequestOf(q, db_key) = Message("put", q.key, encrypt(db_key, q.value))
      BY <1>5 DEF RequestOf, request
    <2> QED BY <1>2, <1>5, <2>1
  <1>6. CASE q.cmd = <<"delete">>
    <2>1. RequestOf(q, db_key) = Message("del", q.key, << >>)
      BY <1>6 DEF RequestOf, request
    <2> QED BY <1>3, <1>6, <2>1
  <1> QED BY <1>4, <1>5, <1>6 DEF StoreCommand

\* The text of a request.
LEMMA SerializeText ==
    ASSUME NEW db_key \in DOMAIN Stores, NEW q, IsQuery(Chars, q), StoreCommand(q)
    PROVE  LET raw == serialize(RequestOf(q, db_key)) IN
           /\ raw \in Seq(Elements)
           /\ \/ q.cmd = <<"get">> /\ raw[1] = "get"
              \/ q.cmd = <<"put">> /\ raw[1] = "put"
              \/ q.cmd = <<"delete">> /\ raw[1] = "del"
  <1>1. PICK command \in {"get", "put", "del"}, value \in Seq(Elements) :
              /\ RequestOf(q, db_key) = Message(command, q.key, value)
              /\ \/ q.cmd = <<"get">> /\ command = "get"
                 \/ q.cmd = <<"put">> /\ command = "put"
                 \/ q.cmd = <<"delete">> /\ command = "del"
    BY RequestMessage
  <1>2. q.key \in Seq(Elements) /\ command \in Elements
    BY TextElements, Characters DEF IsQuery
  <1>3. PICK raw : raw = serialize(Message(command, q.key, value))
    OBVIOUS
  <1>4. PICK n \in Nat : n = Len(q.key)
    BY <1>2
  <1>5. Serialized(Elements, raw, command, q.key, value, n)
    BY <1>2, <1>3, <1>4, SerializeFacts, Characters
  <1>6. raw \in Seq(Elements) /\ raw[1] = command
    BY <1>5 DEF Serialized
  <1> QED BY <1>1, <1>3, <1>6

\* What the server makes of a request.
LEMMA DeserializeText ==
    ASSUME NEW raw \in Seq(Elements)
    PROVE  deserialize(raw).value \in Seq(Elements)
  <1>1. PICK first : first = find(raw, Space, 1)
    OBVIOUS
  <1>2. first \in 0..Len(raw)
    BY <1>1, FindPosition
  <1>3. PICK end : end = find(raw, Space, first + 1)
    OBVIOUS
  <1>4. end \in 0..Len(raw)
    BY <1>2, <1>3, FindPosition
  <1>5. SubSeq(raw, end + 1, Len(raw)) \in Seq(Elements)
    BY <1>4, SubSeqProperties
  <1>6. \/ deserialize(raw) = Invalid
        \/ deserialize(raw) = Message(raw[1], between(raw, first + 1, end),
                                      IF raw[1] = "put" THEN SubSeq(raw, end + 1, Len(raw)) ELSE << >>)
    BY <1>1, <1>3 DEF deserialize
  <1>7. PICK v \in Seq(Elements) : v = IF raw[1] = "put" THEN SubSeq(raw, end + 1, Len(raw)) ELSE << >>
    BY <1>5, Characters
  <1>8. Invalid.value \in Seq(Elements)
    BY Characters DEF Invalid
  <1>9. Message(raw[1], between(raw, first + 1, end), v).value = v
    BY DEF Message
  <1> QED BY <1>6, <1>7, <1>8, <1>9

\* The database keeps texts, and the responses are made of them.
LEMMA ExecuteText ==
    ASSUME NEW d, \A k \in DOMAIN d : d[k] \in Seq(Elements),
           NEW raw \in Seq(Elements), NEW ok
    PROVE  LET m == deserialize(raw) IN
           /\ \A k \in DOMAIN execute(d, m, ok) : execute(d, m, ok)[k] \in Seq(Elements)
           /\ outcome(d, m, ok).data \in Seq(Elements)
           /\ serialize_response(outcome(d, m, ok)) \in Seq(Elements)
  <1>1. PICK m : m = deserialize(raw)
    OBVIOUS
  <1>2. m.value \in Seq(Elements)
    BY <1>1, DeserializeText
  <1>3. \/ execute(d, m, ok) = d
        \/ execute(d, m, ok) = [k \in DOMAIN d \cup {m.key} |-> IF k = m.key THEN m.value ELSE d[k]]
        \/ execute(d, m, ok) = [k \in DOMAIN d \ {m.key} |-> d[k]]
    BY DEF execute, Restrict
  <1>4. \A k \in DOMAIN execute(d, m, ok) : execute(d, m, ok)[k] \in Seq(Elements)
    BY <1>2, <1>3
  <1>5. \/ outcome(d, m, ok) = Response(FALSE, << >>)
        \/ outcome(d, m, ok) = Response(TRUE, << >>)
        \/ m.key \in DOMAIN d /\ outcome(d, m, ok) = Response(TRUE, d[m.key])
    BY DEF outcome
  <1>6. outcome(d, m, ok).data \in Seq(Elements)
    <2>1. \A b, x : Response(b, x).data = x
      BY DEF Response
    <2> QED BY <1>5, <2>1, Characters
  <1>7. serialize_response(outcome(d, m, ok)) \in Seq(Elements)
    BY <1>6, JoinText, Characters DEF serialize_response
  <1> QED BY <1>1, <1>4, <1>6, <1>7

\* What a handler answers.
LEMMA AnswerText ==
    ASSUME NEW raw \in Seq(Elements), NEW command
    PROVE  AnswerTo(command, deserialize_response(raw)) \in Seq(Elements)
  <1>1. PICK r : r = deserialize_response(raw)
    OBVIOUS
  <1>2. r.data \in Seq(Elements)
    <2>1. raw # << >> => Tail(raw) \in Seq(Elements)
      OBVIOUS
    <2> QED BY <1>1, <2>1 DEF deserialize_response, Response
  <1>3. retrieved(cipher, r) => decrypt(cipher, r.data) \in Seq(Elements)
    BY <1>2 DEF retrieved, Decryptable, decrypt
  <1>4. AnswerTo(command, r)
          \in {decrypt(cipher, r.data) : x \in {y \in {1} : retrieved(cipher, r)}}
                \cup {GET_FAILED, PUT_SUCCESS, PUT_FAILED, DELETE_SUCCESS, DELETE_FAILED}
    BY DEF AnswerTo
  <1>5. {GET_FAILED, PUT_SUCCESS, PUT_FAILED, DELETE_SUCCESS, DELETE_FAILED} \subseteq Seq(Elements)
    BY Characters DEF GET_FAILED, PUT_SUCCESS, PUT_FAILED, DELETE_SUCCESS, DELETE_FAILED
  <1> QED BY <1>1, <1>3, <1>4, <1>5

-----------------------------------------------------------------------------
(* The steps preserve the types.                                           *)

\* A step of connection c: what the others have stays as it is.
LEMMA OwnTypes ==
    ASSUME TypeInv, NEW c \in Conns, Counts', Arrays', DataTypes', ConnTypes(c)',
           \A d \in Conns \ {c} :
              /\ inbox'[d] = inbox[d] /\ client'[d] = client[d] /\ pc'[d] = pc[d]
              /\ resp'[d] = resp[d] /\ req'[d] = req[d] /\ rsp'[d] = rsp[d]
    PROVE  TypeInv'
  <1>1. ASSUME NEW d \in Conns PROVE ConnTypes(d)'
    <2>1. CASE d = c
      BY <2>1
    <2>2. CASE d # c
      BY <2>2 DEF TypeInv, ConnTypes
    <2> QED BY <2>1, <2>2
  <1> QED BY <1>1 DEF TypeInv

LEMMA CloseTypes ==
    ASSUME TypeInv, NEW c \in Conns, Close(c), UNCHANGED << process, losses, late, sends, db, req, rsp >>
    PROVE  TypeInv'
  <1>1. Counts'
    BY DEF TypeInv, Counts, process
  <1>2. Arrays'
    BY ZeroedAny DEF TypeInv, Arrays, Close
  <1>3. DataTypes'
    BY DEF TypeInv, DataTypes, process
  <1>4. ConnTypes(c)'
    BY DEF TypeInv, Arrays, ConnTypes, Close
  <1> QED BY <1>1, <1>2, <1>3, <1>4, OwnTypes DEF TypeInv, Arrays, Close

LEMMA TerminateTypes == TypeInv /\ Terminate => TypeInv'
  <1> SUFFICES ASSUME TypeInv, Terminate PROVE TypeInv'
    OBVIOUS
  <1>1. Counts'
    BY DEF TypeInv, Counts, Terminate
  <1>2. Arrays'
    BY ZeroedAny DEF Arrays, Terminate
  <1>3. DataTypes'
    <2>1. ASSUME NEW r \in late' PROVE r.raw \in Seq(Elements)
      BY <2>1 DEF TypeInv, DataTypes, ConnTypes, Terminate, Abandoned
    <2> QED BY <2>1 DEF TypeInv, DataTypes, Terminate
  <1>4. \A c \in Conns : ConnTypes(c)'
    BY DEF ConnTypes, Terminate
  <1> QED BY <1>1, <1>2, <1>3, <1>4 DEF TypeInv

LEMMA ClientTypes ==
    ASSUME TextsAreTexts, NoneIsNoData, TypeInv, NEW c \in Conns, Connect(c) \/ Send(c) \/ Leave(c)
    PROVE  TypeInv'
  <1> USE NativeAssumption
  <1>1. CASE Connect(c)
    <2>1. Counts' /\ Arrays' /\ DataTypes'
      BY <1>1 DEF TypeInv, Counts, Arrays, DataTypes, Connect, process
    <2>2. ConnTypes(c)'
      BY <1>1 DEF TypeInv, Arrays, ConnTypes, Connect
    <2> QED BY <1>1, <2>1, <2>2, OwnTypes DEF TypeInv, Arrays, Connect
  <1>2. CASE Send(c)
    <2>1. PICK t \in Texts[c] : inbox' = [inbox EXCEPT ![c] = [size |-> Len(t), data |-> t]]
      BY <1>2 DEF Send
    <2>2. [size |-> Len(t), data |-> t] \in Inboxes
      BY DEF TextsAreTexts, Inboxes
    <2>3. inbox'[c] \in Inboxes /\ inbox'[c] # None
      BY <2>1, <2>2 DEF NoneIsNoData, TypeInv, Arrays
    <2>4. Counts' /\ Arrays' /\ DataTypes'
      BY <1>2, <2>1 DEF TypeInv, Counts, Arrays, DataTypes, Send, process, server
    <2>5. ConnTypes(c)'
      BY <1>2, <2>3 DEF TypeInv, Arrays, ConnTypes, Send
    <2> QED BY <1>2, <2>1, <2>4, <2>5, OwnTypes DEF TypeInv, Arrays, Send
  <1>3. CASE Leave(c)
    <2>1. /\ client[c] \in {"ready", "waiting"}
          /\ client' = [client EXCEPT ![c] = "gone"]
          /\ UNCHANGED << cipher, up, restarts, losses, late, sends, db, pc, buf, req, rsp, resp >>
      BY <1>3 DEF Leave, process, server
    <2>2. Counts' /\ DataTypes'
      BY <2>1 DEF TypeInv, Counts, DataTypes
    <2>3. CASE inbox[c] = None
      <3>1. inbox' = inbox
        BY <1>3, <2>3 DEF Leave
      <3>2. Arrays' /\ ConnTypes(c)'
        BY <2>1, <2>3, <3>1 DEF TypeInv, Arrays, ConnTypes
      <3> QED BY <2>1, <2>2, <3>1, <3>2, OwnTypes DEF TypeInv, Arrays
    <2>4. CASE inbox[c] # None
      <3>1. PICK n \in Breaks \cup {max_msg_size} : inbox' = [inbox EXCEPT ![c].data = CutAt(@, n)]
        BY <1>3, <2>4 DEF Leave
      <3>2. inbox[c] \in Inboxes /\ pc[c] = "receive" /\ n \in Nat
        BY <2>4 DEF TypeInv, ConnTypes
      <3>3. CutAt(inbox[c].data, n) \in Seq(Chars)
        BY <3>2, CutFacts DEF Inboxes
      <3>4. inbox'[c] \in Inboxes
        BY <3>1, <3>2, <3>3 DEF TypeInv, Arrays, Inboxes
      <3>5. Arrays' /\ ConnTypes(c)'
        BY <2>1, <3>1, <3>2, <3>4 DEF TypeInv, Arrays, ConnTypes
      <3> QED BY <2>1, <2>2, <3>1, <3>5, OwnTypes DEF TypeInv, Arrays
    <2> QED BY <2>3, <2>4
  <1> QED BY <1>1, <1>2, <1>3

\* The buffers keep their size, also when one is written behind.
LEMMA ReceiveTypes ==
    ASSUME TypeInv, NEW c \in Conns, Receive(c)
    PROVE  TypeInv'
  <1> USE NativeAssumption
  <1>1. inbox[c] \in Inboxes
    BY DEF TypeInv, ConnTypes, Receive
  <1>2. PICK b : b = Deposit(buf[c], inbox[c].data)
    OBVIOUS
  <1>3. b \in AnyBuffers
    BY <1>1, <1>2, Characters DEF TypeInv, Arrays, AnyBuffers, Inboxes, Deposit
  <1>4. PICK bs : bs = [buf EXCEPT ![c] = b]
    OBVIOUS
  <1>5. bs \in [Conns -> AnyBuffers]
    BY <1>3, <1>4 DEF TypeInv, Arrays
  <1>6. \/ buf' = bs
        \/ \E d \in Conns \ {c} : buf' = [bs EXCEPT ![c].next = d, ![d].bytes[1] = Nul]
    BY <1>2, <1>4 DEF Receive, TypeInv, Arrays
  <1>7. buf' \in [Conns -> AnyBuffers]
    <2>1. CASE buf' = bs
      BY <1>5, <2>1
    <2>2. ASSUME NEW d \in Conns \ {c}, buf' = [bs EXCEPT ![c].next = d, ![d].bytes[1] = Nul]
          PROVE  buf' \in [Conns -> AnyBuffers]
      <3>1. PICK x : x = [bs[c] EXCEPT !.next = d]
        OBVIOUS
      <3>2. PICK y : y = [bs[d] EXCEPT !.bytes[1] = Nul]
        OBVIOUS
      <3>3. x \in AnyBuffers
        BY <1>5, <3>1 DEF AnyBuffers
      <3>4. y \in AnyBuffers
        BY <1>5, <3>2, Characters DEF AnyBuffers
      <3>5. buf' = [bs EXCEPT ![c] = x, ![d] = y]
        BY <1>5, <2>2, <3>1, <3>2
      <3> QED BY <1>5, <3>3, <3>4, <3>5
    <2> QED BY <1>6, <2>1, <2>2
  <1>8. Counts' /\ Arrays' /\ DataTypes'
    BY <1>7 DEF TypeInv, Counts, Arrays, DataTypes, Receive, process, server
  <1>9. ConnTypes(c)'
    BY DEF TypeInv, Arrays, ConnTypes, Receive
  <1> QED BY <1>8, <1>9, OwnTypes DEF TypeInv, Arrays, Receive

\* Whatever the buffers hold, it is parsed to texts.
LEMMA ReceivedText ==
    ASSUME TypeInv, NEW c \in Conns
    PROVE  IsQuery(Chars, Received(c))
  <1> USE NativeAssumption
  <1>1. buf[c] \in AnyBuffers /\ buf[c].bytes \in Seq(Chars)
    BY DEF TypeInv, Arrays, AnyBuffers
  <1>2. PICK s : s = IF buf[c].next = None THEN buf[c].bytes
                     ELSE buf[c].bytes \o buf[buf[c].next].bytes
    OBVIOUS
  <1>3. s \in Seq(Chars)
    <2>1. CASE buf[c].next = None
      BY <1>1, <1>2, <2>1
    <2>2. CASE buf[c].next # None
      <3>1. PICK d \in Conns : d = buf[c].next
        BY <1>1, <2>2 DEF AnyBuffers
      <3>2. buf[d].bytes \in Seq(Chars)
        BY DEF TypeInv, Arrays, AnyBuffers
      <3>3. buf[c].bytes \o buf[d].bytes \in Seq(Chars)
        BY <1>1, <3>2
      <3> QED BY <1>2, <2>2, <3>1, <3>3
    <2> QED BY <2>1, <2>2
  <1>4. find(s, Nul, 1) \in 0..Len(s)
    BY <1>3, FindPosition
  <1>5. UpToNul(s) \in Seq(Chars)
    BY <1>3, <1>4, BetweenText DEF UpToNul
  <1>6. Received(c) = Parse(UpToNul(s))
    BY <1>2 DEF Received, CString
  <1> QED BY <1>5, <1>6, ParseText

LEMMA ParseTypes ==
    ASSUME NoneIsNoData, TypeInv, NEW c \in Conns, ParseQuery(c)
    PROVE  TypeInv'
  <1>1. PICK q : q = Received(c)
    OBVIOUS
  <1>2. IsQuery(Chars, q)
    BY <1>1, ReceivedText
  <1>3. cipher \in DOMAIN Stores
    BY DEF TypeInv, DataTypes
  <1>4. /\ pc[c] = "parse"
        /\ UNCHANGED << process, server, clients, db, buf, rsp >>
        /\ \/ /\ StoreCommand(q)
              /\ pc' = [pc EXCEPT ![c] = "store"]
              /\ \/ req' = [req EXCEPT ![c] = serialize(RequestOf(q, cipher))]
                 \/ req' = req
              /\ UNCHANGED resp
           \/ /\ pc' = [pc EXCEPT ![c] = "send"]
              /\ req' = req
              /\ resp' = [resp EXCEPT ![c] = INVALID_COMMAND]
    BY <1>1 DEF ParseQuery
  <1>5. Counts' /\ Arrays' /\ DataTypes'
    BY <1>4 DEF TypeInv, Counts, Arrays, DataTypes, process, server, clients
  <1>6. StoreCommand(q) => serialize(RequestOf(q, cipher)) \in Seq(Elements)
    BY <1>2, <1>3, SerializeText
  <1>7. INVALID_COMMAND # None
    BY Characters DEF NoneIsNoData, INVALID_COMMAND
  <1>8. ConnTypes(c)'
    BY <1>4, <1>6, <1>7 DEF TypeInv, Arrays, ConnTypes, clients
  <1> QED BY <1>4, <1>5, <1>8, OwnTypes DEF TypeInv, Arrays, clients

LEMMA AnswerTypes ==
    ASSUME NoneIsNoData, TypeInv, NEW c \in Conns, Collect(c) \/ Reply(c)
    PROVE  TypeInv'
  <1>1. CASE Collect(c)
    <2>1. PICK a : a = AnswerTo(cmd[c], deserialize_response(rsp[c]))
      OBVIOUS
    <2>2. a # None
      BY <1>1, <2>1, AnswerText DEF NoneIsNoData, TypeInv, ConnTypes, Collect
    <2>3. Counts' /\ Arrays' /\ DataTypes'
      BY <1>1 DEF TypeInv, Counts, Arrays, DataTypes, Collect, process, server, clients
    <2>4. ConnTypes(c)'
      BY <1>1, <2>1, <2>2 DEF TypeInv, Arrays, ConnTypes, Collect, clients
    <2> QED BY <1>1, <2>3, <2>4, OwnTypes DEF TypeInv, Arrays, Collect, clients
  <1>2. CASE Reply(c)
    <2>1. CASE Close(c)
      BY <1>2, <2>1, CloseTypes DEF Reply
    <2>2. CASE /\ pc' = [pc EXCEPT ![c] = "receive"]
               /\ resp' = [resp EXCEPT ![c] = None]
               /\ client' = [client EXCEPT ![c] = IF @ = "gone" THEN @ ELSE "ready"]
               /\ UNCHANGED << inbox, buf, link >>
      <3>1. pc[c] = "send" /\ UNCHANGED << process, losses, late, sends, db, req, rsp >>
        BY <1>2 DEF Reply
      <3>2. Counts' /\ Arrays' /\ DataTypes'
        BY <2>2, <3>1 DEF TypeInv, Counts, Arrays, DataTypes, process
      <3>3. ConnTypes(c)'
        BY <2>2, <3>1 DEF TypeInv, Arrays, ConnTypes
      <3> QED BY <2>2, <3>1, <3>2, <3>3, OwnTypes DEF TypeInv, Arrays
    <2> QED BY <1>2, <2>1, <2>2 DEF Reply
  <1> QED BY <1>1, <1>2

LEMMA ServerTypes ==
    ASSUME TypeInv, NEW c \in Conns, Serve(c) \/ LoseLink(c)
    PROVE  TypeInv'
  <1> USE NativeAssumption
  <1>1. CASE Serve(c)
    <2>1. PICK ok \in Results :
             /\ db' = execute(db, deserialize(req[c]), ok)
             /\ rsp' = [rsp EXCEPT ![c] = serialize_response(outcome(db, deserialize(req[c]), ok))]
      BY <1>1 DEF Serve
    <2>2. req[c] \in Seq(Elements) /\ \A k \in DOMAIN db : db[k] \in Seq(Elements)
      BY <1>1 DEF TypeInv, DataTypes, ConnTypes, Serve
    <2>3. /\ \A k \in DOMAIN db' : db'[k] \in Seq(Elements)
          /\ rsp'[c] \in Seq(Elements)
      BY <2>1, <2>2, ExecuteText DEF TypeInv, Arrays
    <2>4. /\ req' = [req EXCEPT ![c] = None]
          /\ UNCHANGED << process, server, clients, pc, buf, resp >>
      BY <1>1 DEF Serve
    <2>5. Counts' /\ Arrays' /\ DataTypes'
      BY <2>1, <2>3, <2>4 DEF TypeInv, Counts, Arrays, DataTypes, process, server, clients
    <2>6. ConnTypes(c)'
      BY <2>3, <2>4 DEF TypeInv, Arrays, ConnTypes, clients
    <2> QED BY <2>1, <2>4, <2>5, <2>6, OwnTypes DEF TypeInv, Arrays, clients
  <1>2. CASE LoseLink(c)
    <2>1. /\ losses < MaxLosses /\ losses' = losses + 1
          /\ late' = late \/ (req[c] # None /\ late' = late \cup {Abandoned(c)})
          /\ req' = [req EXCEPT ![c] = None]
          /\ rsp' = rsp \/ rsp' = [rsp EXCEPT ![c] = None]
          /\ UNCHANGED << process, clients, db, pc, buf, resp >>
      BY <1>2 DEF LoseLink
    <2>2. Counts' /\ Arrays'
      BY <2>1 DEF TypeInv, Counts, Arrays, process, clients
    <2>3. DataTypes'
      BY <2>1 DEF TypeInv, DataTypes, ConnTypes, Abandoned, process
    <2>4. ConnTypes(c)'
      BY <2>1 DEF TypeInv, Arrays, ConnTypes, clients
    <2> QED BY <2>1, <2>2, <2>3, <2>4, OwnTypes DEF TypeInv, Arrays, clients
  <1> QED BY <1>1, <1>2

LEMMA LateTypes == TypeInv /\ ServeLate => TypeInv'
  <1> SUFFICES ASSUME TypeInv, ServeLate PROVE TypeInv'
    OBVIOUS
  <1>1. PICK r \in late, ok \in Results :
           db' = execute(db, deserialize(r.raw), ok) /\ late' = late \ {r}
    BY DEF ServeLate
  <1>2. r.raw \in Seq(Elements) /\ \A k \in DOMAIN db : db[k] \in Seq(Elements)
    BY DEF TypeInv, DataTypes
  <1>3. \A k \in DOMAIN db' : db'[k] \in Seq(Elements)
    BY <1>1, <1>2, ExecuteText
  <1>4. UNCHANGED << process, losses, link, clients, pc, buf, cmd, req, rsp, resp >>
    BY DEF ServeLate
  <1>5. Counts' /\ Arrays' /\ DataTypes'
    BY <1>1, <1>3, <1>4 DEF TypeInv, Counts, Arrays, DataTypes, process, clients
  <1> QED BY <1>4, <1>5 DEF TypeInv, ConnTypes, clients

\* Every step keeps the types.
LEMMA TypeNext ==
    ASSUME TextsAreTexts, NoneIsNoData, TypeInv, [Next]_vars
    PROVE  TypeInv'
  <1>1. ASSUME NEW c \in Conns,
               \/ Connect(c) \/ ConnectFails(c) \/ Send(c) \/ Leave(c)
               \/ ParseQuery(c) \/ ParseExit(c) \/ ParseThrows(c) \/ ParseFaults(c)
               \/ Sockets(c)
               \/ Serve(c) \/ LoseLink(c)
        PROVE  TypeInv'
    <2>1. CASE \/ ConnectFails(c) \/ ReceiveFaults(c) \/ ParseThrows(c) \/ ParseFaults(c)
               \/ StoreLost(c)
      BY <2>1, TerminateTypes DEF ConnectFails, ReceiveFaults, ParseThrows, ParseFaults, StoreLost
    <2>2. CASE ReceiveFails(c) \/ ParseExit(c)
      BY <2>2, CloseTypes DEF ReceiveFails, ParseExit
    <2> QED BY <1>1, <2>1, <2>2, ClientTypes, ReceiveTypes, ParseTypes, AnswerTypes, ServerTypes
            DEF Sockets
  <1>2. CASE ServeLate
    BY <1>2, LateTypes
  <1>3. CASE Restart
    BY <1>3, NativeAssumption
    DEF Restart, TypeInv, Counts, Arrays, DataTypes, ConnTypes, clients, server
  <1>4. CASE UNCHANGED vars
    BY <1>4 DEF vars, TypeInv, Counts, Arrays, DataTypes, ConnTypes, process, clients, server
  <1> QED BY <1>1, <1>2, <1>3, <1>4 DEF Next

(***************************************************************************)
(* Buffers keep their size, also when a message fills one and its          *)
(* terminator is written behind it; a thread of native_controller.cpp and  *)
(* its socket end together; there is a response exactly when one is to be  *)
(* sent, whatever the texts, the database and the responses say.           *)
(***************************************************************************)
THEOREM NativeTypes ==
    ASSUME TextsAreTexts, NoneIsNoData
    PROVE  Spec => []TypeOK
  <1>1. Init => TypeInv
    BY InitTypes
  <1>2. TypeInv /\ [Next]_vars => TypeInv'
    BY TypeNext
  <1>3. TypeInv => TypeOK
    BY TypeInvTypes
  <1> QED BY <1>1, <1>2, <1>3, PTL DEF Spec

-----------------------------------------------------------------------------
(* The controller implements the service.                                  *)

(***************************************************************************)
(* A key with a space in it ends there for the server, message.hpp, and    *)
(* the rest of it is put before the cipher text of its value: in a build   *)
(* with encryption the service is promised for keys without spaces.        *)
(***************************************************************************)
KeysApart ==
    DOMAIN Stores \subseteq {Plain} \/ \A q \in Said : \A i \in 1..Len(q.key) : q.key[i] # Space

\* The request that a command of the client's is turned into.
CommandOf(command, raw) ==
    \/ command = <<"get">> /\ raw[1] = "get"
    \/ command = <<"put">> /\ raw[1] = "put"
    \/ command = <<"delete">> /\ raw[1] = "del"

\* A handler waits for the response to the request that it has made.
Matching(c) == CommandOf(cmd[c], req[c])

CallInv ==
    /\ DOMAIN cmd = Conns
    /\ \A c \in Conns : req[c] # None => Matching(c)

(***************************************************************************)
(* A connection abandons at most one request: its handler then waits in    *)
(* vain, until the process ends.                                           *)
(***************************************************************************)
LateInv ==
    /\ ~up => \A c \in Conns : pc[c] = "closed"
    /\ \A r \in late :
          /\ r.conn \in Conns /\ r.epoch \in Nat /\ r.epoch <= restarts
          /\ up /\ r.epoch = restarts =>
                /\ pc[r.conn] = "store" /\ ~link[r.conn]
                /\ req[r.conn] = None /\ rsp[r.conn] = None
    /\ \A r, s \in late : r.conn = s.conn /\ r.epoch = s.epoch => r = s

KVInv == IInv /\ SentInv /\ TypeInv /\ CallInv /\ LateInv

\* What was said are queries.
LEMMA SaidQueries ==
    ASSUME TextsFit, NEW q \in Said
    PROVE  IsQuery(Chars, q)
  <1>1. PICK t \in AllTexts, n \in Breaks \cup {max_msg_size} : q = Parse(CutAt(t, n))
    BY DEF Said
  <1>2. t \in Seq(Chars) /\ n \in Nat
    BY NativeAssumption DEF TextsFit, AllTexts
  <1>3. CutAt(t, n) \in Seq(Chars)
    BY <1>2, CutFacts
  <1> QED BY <1>1, <1>3, ParseText

(***************************************************************************)
(* What the server makes of a request, deserialize_query of message.hpp:   *)
(* it knows its command, and the value of a put is not empty and can be    *)
(* read with the key that sealed it.                                       *)
(***************************************************************************)
LEMMA RequestFacts ==
    ASSUME TextsFit, KeysApart, NEW db_key \in DOMAIN Stores, NEW raw \in Requests[db_key],
           NEW m, m = deserialize(raw)
    PROVE  /\ raw \in Seq(Elements)
           /\ raw[1] \in {"get", "put", "del"}
           /\ DOMAIN m = {"command", "key", "value", "is_valid"}
           /\ m.is_valid \in BOOLEAN
           /\ m.is_valid => m.command = raw[1]
           /\ m.is_valid /\ raw[1] = "put" => m.value # << >> /\ Decryptable(db_key, m.value)
  <1>1. PICK q \in Said : StoreCommand(q) /\ raw = serialize(RequestOf(q, db_key))
    BY DEF Requests
  <1>2. IsQuery(Chars, q)
    BY SaidQueries
  <1>3. PICK command \in {"get", "put", "del"}, value \in Seq(Elements) :
              /\ RequestOf(q, db_key) = Message(command, q.key, value)
              /\ command = "put" => value = encrypt(db_key, q.value)
    BY <1>1, <1>2, RequestMessage
  <1>4. PICK key \in Seq(Elements) : key = q.key
    BY <1>2, TextElements DEF IsQuery
  <1>5. PICK n \in Nat : n = Len(key)
    OBVIOUS
  <1>6. command \in Elements /\ raw = serialize(Message(command, key, value))
    BY <1>1, <1>3, <1>4, Characters
  <1>7. /\ raw \in Seq(Elements)
        /\ Len(raw) >= 2 + n /\ raw[1] = command /\ raw[2] = Space
        /\ \A i \in 1..n : raw[2 + i] = key[i]
        /\ value # << >> => /\ Len(raw) = n + 3 + Len(value)
                            /\ raw[n + 3] = Space
                            /\ \A i \in 1..Len(value) : raw[n + 3 + i] = value[i]
    <2>1. Serialized(Elements, raw, command, key, value, n)
      BY <1>5, <1>6, SerializeFacts, Characters
    <2> QED BY <2>1 DEF Serialized
  <1>8. PICK first : first = find(raw, Space, 1)
    OBVIOUS
  <1>9. first = 2
    <2>1. Len(raw) \in Nat /\ Len(raw) >= 2
      BY <1>5, <1>7
    <2>3. raw[1] # Space
      BY <1>7 DEF Space
    <2>2. /\ first \in Nat
          /\ first = NPos => \A i \in 1..Len(raw) : raw[i] # Space
          /\ first # NPos => /\ first \in 1..Len(raw) /\ raw[first] = Space
                             /\ \A i \in 1..(first - 1) : raw[i] # Space
      BY <1>8, <2>1, FindFacts
    <2>4. raw[2] = Space
      BY <1>7
    <2>5. first \in 1..Len(raw) /\ raw[first] = Space /\ \A i \in 1..(first - 1) : raw[i] # Space
      <3>1. 2 \in 1..Len(raw)
        BY <2>1
      <3> QED BY <2>2, <2>4, <3>1
    <2>6. first # 1
      BY <2>3, <2>5
    <2>7. first <= 2
      <3>1. CASE first > 2
        <4>1. 2 \in 1..(first - 1)
          BY <2>1, <2>5, <3>1
        <4> QED BY <2>4, <2>5, <4>1
      <3> QED BY <2>1, <2>5, <3>1
    <2> QED BY <2>1, <2>5, <2>6, <2>7
  <1>10. PICK end : end = find(raw, Space, 3)
    OBVIOUS
  <1>11. /\ end \in Nat
         /\ end = NPos => \A i \in 3..Len(raw) : raw[i] # Space
         /\ end # NPos => /\ end \in 3..Len(raw) /\ raw[end] = Space
                          /\ \A i \in 3..(end - 1) : raw[i] # Space
    <2>1. Len(raw) \in Nat
      BY <1>7
    <2> QED BY <1>10, <2>1, FindFacts
  <1>12. PICK v : v = SubSeq(raw, end + 1, Len(raw))
    OBVIOUS
  <1>13. \/ m = Invalid
         \/ /\ m = Message(raw[1], between(raw, 3, end), IF raw[1] = "put" THEN v ELSE << >>)
            /\ raw[1] = "put" => end < Len(raw)
    <2>1. first + 1 = 3
      BY <1>9
    <2>2. Len(raw) \in Nat
      BY <1>7
    <2> QED BY <1>8, <1>10, <1>11, <1>12, <2>1, <2>2 DEF deserialize
  <1>14. ASSUME end < Len(raw) PROVE v # << >> /\ v[1] = raw[end + 1]
    <2>1. Len(raw) \in Nat
      BY <1>7
    <2>2. /\ v \in Seq(Elements)
          /\ Len(v) = Len(raw) - (end + 1) + 1
          /\ \A i \in 1..(Len(raw) - (end + 1) + 1) : v[i] = raw[end + 1 + i - 1]
      BY <1>7, <1>11, <1>12, <1>14, <2>1, SubSeqProperties
    <2>3. 1 \in 1..(Len(raw) - (end + 1) + 1)
      BY <1>11, <1>14, <2>1
    <2> QED BY <1>11, <2>1, <2>2, <2>3
  <1>15. ASSUME db_key # Plain, command = "put" PROVE raw[end + 1] = db_key
    <2>1. value # << >> /\ Len(value) >= 1 /\ value[1] = db_key
      <3>1. PICK w : w = q.value
        OBVIOUS
      <3>2. w \in Seq(Elements) /\ value = << db_key >> \o w
        BY <1>2, <1>3, <1>15, <3>1, TextElements DEF IsQuery, encrypt
      <3>3. PICK x : x = << db_key >>
        OBVIOUS
      <3>4. x \in Seq(Elements) /\ Len(x) = 1 /\ x[1] = db_key
        BY <3>3, Characters
      <3>5. Len(x \o w) = Len(x) + Len(w) /\ \A i \in 1..Len(x) : (x \o w)[i] = x[i]
        <4>1. x \in Seq(Elements) /\ w \in Seq(Elements)
          BY <3>2, <3>4
        <4> QED BY <4>1, ConcatFacts
      <3> QED BY <3>2, <3>3, <3>4, <3>5
    <2>2. \A i \in 1..n : key[i] # Space
      BY <1>4, <1>5, <1>15 DEF KeysApart
    <2>3. ASSUME NEW i \in 3..(n + 2) PROVE raw[i] # Space
      <3>1. PICK j \in 1..n : i = 2 + j
        <4>1. i - 2 \in 1..n /\ i = 2 + (i - 2)
          BY <1>5
        <4> QED BY <4>1
      <3> QED BY <1>7, <2>2, <3>1
    <2>4. n + 3 \in 3..Len(raw) /\ raw[n + 3] = Space
      BY <1>5, <1>7, <2>1
    <2>5. end = n + 3
      BY <1>5, <1>11, <2>3, <2>4
    <2>6. raw[n + 3 + 1] = value[1]
      BY <1>7, <2>1
    <2> QED BY <2>1, <2>5, <2>6
  <1>16. CASE m = Invalid
    BY <1>7, <1>16 DEF Invalid
  <1>17. ASSUME NEW k, NEW w, m = Message(raw[1], k, w),
                raw[1] = "put" => w # << >> /\ Decryptable(db_key, w)
         PROVE  /\ DOMAIN m = {"command", "key", "value", "is_valid"}
                /\ m.is_valid \in BOOLEAN
                /\ m.command = raw[1]
                /\ raw[1] = "put" => m.value # << >> /\ Decryptable(db_key, m.value)
    BY <1>17 DEF Message
  <1>18. CASE /\ m = Message(raw[1], between(raw, 3, end), IF raw[1] = "put" THEN v ELSE << >>)
              /\ raw[1] = "put" => end < Len(raw)
    <2>1. raw[1] = "put" => v # << >> /\ Decryptable(db_key, v)
      BY <1>7, <1>14, <1>15, <1>18 DEF Decryptable
    <2>2. PICK w : w = IF raw[1] = "put" THEN v ELSE << >>
      OBVIOUS
    <2>3. raw[1] = "put" => w # << >> /\ Decryptable(db_key, w)
      BY <2>1, <2>2
    <2> QED BY <1>7, <1>17, <1>18, <2>2, <2>3
  <1> QED BY <1>13, <1>16, <1>18

-----------------------------------------------------------------------------
(* A handler waits for the answer to its own request.                      *)

LEMMA CallSteps ==
    ASSUME IInv, TypeInv, CallInv, [Next]_vars
    PROVE  CallInv'
  <1>1. ASSUME NEW c \in Conns, Close(c), pc[c] # "store", UNCHANGED req
        PROVE  CallInv'
    BY <1>1 DEF IInv, Shape, OneRequest, CallInv, Matching, CommandOf, Close
  <1>2. ASSUME UNCHANGED cmd, DOMAIN req' = Conns, \A d \in Conns : req'[d] = req[d] \/ req'[d] = None
        PROVE  CallInv'
    BY <1>2 DEF CallInv, Matching, CommandOf
  <1>3. ASSUME Terminate PROVE CallInv'
    BY <1>3 DEF CallInv, Terminate
  <1>4. ASSUME NEW c \in Conns,
               \/ Connect(c) \/ ConnectFails(c) \/ Send(c) \/ Leave(c)
               \/ ParseQuery(c) \/ ParseExit(c) \/ ParseThrows(c) \/ ParseFaults(c)
               \/ Sockets(c)
               \/ Serve(c) \/ LoseLink(c)
        PROVE  CallInv'
    <2>1. CASE \/ ConnectFails(c) \/ ReceiveFaults(c) \/ ParseThrows(c) \/ ParseFaults(c)
               \/ StoreLost(c)
      BY <1>3, <2>1 DEF ConnectFails, ReceiveFaults, ParseThrows, ParseFaults, StoreLost
    <2>2. CASE ReceiveFails(c) \/ ParseExit(c)
      BY <1>1, <2>2 DEF ReceiveFails, ParseExit
    <2>3. CASE Connect(c) \/ Send(c) \/ Leave(c) \/ Receive(c) \/ Collect(c)
      BY <1>2, <2>3 DEF Connect, Send, Leave, Receive, Collect, IInv, Shape
    <2>4. CASE Serve(c) \/ LoseLink(c)
      BY <1>2, <2>4 DEF Serve, LoseLink, IInv, Shape
    <2>5. CASE Reply(c)
      <3>1. CASE Close(c)
        BY <1>1, <2>5, <3>1 DEF Reply
      <3>2. CASE cmd' = [cmd EXCEPT ![c] = << >>]
        BY <2>5, <3>2 DEF Reply, IInv, Shape, OneRequest, CallInv, Matching, CommandOf
      <3> QED BY <2>5, <3>1, <3>2 DEF Reply
    <2>6. CASE ParseQuery(c)
      <3>1. PICK q : q = Received(c)
        OBVIOUS
      <3>2. IsQuery(Chars, q)
        BY <3>1, ReceivedText
      <3>3. /\ cmd' = [cmd EXCEPT ![c] = q.cmd]
            /\ \/ /\ StoreCommand(q)
                  /\ req' = [req EXCEPT ![c] = serialize(RequestOf(q, cipher))]
               \/ req' = req
            /\ pc[c] = "parse"
        BY <2>6, <3>1 DEF ParseQuery
      <3>4. cipher \in DOMAIN Stores /\ req[c] = None
        BY <3>3 DEF TypeInv, DataTypes, IInv, OneRequest
      <3>5. ASSUME StoreCommand(q), NEW raw, raw = serialize(RequestOf(q, cipher))
            PROVE  \/ q.cmd = <<"get">> /\ raw[1] = "get"
                   \/ q.cmd = <<"put">> /\ raw[1] = "put"
                   \/ q.cmd = <<"delete">> /\ raw[1] = "del"
        BY <3>2, <3>4, <3>5, SerializeText
      <3>6. ASSUME NEW d \in Conns, req'[d] # None PROVE Matching(d)'
        <4>1. CASE d = c
          BY <3>3, <3>4, <3>5, <3>6, <4>1 DEF Matching, CommandOf, CallInv, IInv, Shape
        <4>2. CASE d # c
          BY <3>3, <3>6, <4>2 DEF Matching, CommandOf, CallInv, IInv, Shape
        <4> QED BY <4>1, <4>2
      <3> QED BY <3>3, <3>6 DEF CallInv
    <2> QED BY <1>4, <2>1, <2>2, <2>3, <2>4, <2>5, <2>6 DEF Sockets
  <1>5. CASE ServeLate \/ Restart
    BY <1>2, <1>5 DEF ServeLate, Restart, IInv, Shape
  <1>6. CASE UNCHANGED vars
    BY <1>2, <1>6 DEF vars, IInv, Shape
  <1> QED BY <1>4, <1>5, <1>6 DEF Next

-----------------------------------------------------------------------------
(* A connection abandons one request at most.                              *)

\* Nothing is abandoned, and a handler that waits in vain goes on waiting.
LEMMA LateSame ==
    ASSUME LateInv, TypeInv, UNCHANGED << up, restarts >>, late' \subseteq late,
           ~up => UNCHANGED pc,
           \A d \in Conns : pc[d] = "store" /\ ~link[d] /\ req[d] = None /\ rsp[d] = None =>
              pc'[d] = pc[d] /\ link'[d] = link[d] /\ req'[d] = None /\ rsp'[d] = None
    PROVE  LateInv'
  BY DEF LateInv

LEMMA LateSteps ==
    ASSUME IInv, TypeInv, LateInv, [Next]_vars
    PROVE  LateInv'
  <1>1. ASSUME NEW c \in Conns, Close(c), pc[c] \notin {"store", "closed"},
               UNCHANGED << process, late, req, rsp >>
        PROVE  LateInv'
    <2>1. up
      BY <1>1 DEF LateInv
    <2>2. \A d \in Conns : pc[d] = "store" /\ ~link[d] /\ req[d] = None /\ rsp[d] = None =>
              pc'[d] = pc[d] /\ link'[d] = link[d] /\ req'[d] = None /\ rsp'[d] = None
      BY <1>1 DEF Close, IInv, Shape
    <2> QED BY <1>1, <2>1, <2>2, LateSame DEF process
  <1>2. ASSUME Terminate PROVE LateInv'
    <2>1. ASSUME NEW c \in Conns, req[c] # None
          PROVE  up /\ \A r \in late : ~(r.conn = c /\ r.epoch = restarts)
      BY <2>1 DEF IInv, OneRequest, LateInv
    <2>2. restarts \in Nat
      BY NativeAssumption DEF TypeInv, Counts
    <2>3. ASSUME NEW r \in late'
          PROVE  \/ r \in late
                 \/ \E c \in Conns : req[c] # None /\ r = Abandoned(c)
      BY <1>2, <2>3 DEF Terminate
    <2>4. ASSUME NEW r \in late'
          PROVE  r.conn \in Conns /\ r.epoch \in Nat /\ r.epoch <= restarts
      BY <2>2, <2>3 DEF LateInv, Abandoned
    <2>5. ASSUME NEW r \in late', NEW s \in late', r.conn = s.conn, r.epoch = s.epoch
          PROVE  r = s
      BY <2>1, <2>3, <2>5 DEF LateInv, Abandoned
    <2>6. ~up' /\ restarts' = restarts /\ \A c \in Conns : pc'[c] = "closed"
      BY <1>2 DEF Terminate
    <2> QED BY <2>4, <2>5, <2>6 DEF LateInv
  <1>3. ASSUME NEW c \in Conns,
               \/ Connect(c) \/ ConnectFails(c) \/ Send(c) \/ Leave(c)
               \/ ParseQuery(c) \/ ParseExit(c) \/ ParseThrows(c) \/ ParseFaults(c)
               \/ Sockets(c)
               \/ Serve(c) \/ LoseLink(c)
        PROVE  LateInv'
    <2>1. CASE \/ ConnectFails(c) \/ ReceiveFaults(c) \/ ParseThrows(c) \/ ParseFaults(c)
               \/ StoreLost(c)
      BY <1>2, <2>1 DEF ConnectFails, ReceiveFaults, ParseThrows, ParseFaults, StoreLost
    <2>2. CASE ReceiveFails(c) \/ ParseExit(c)
      BY <1>1, <2>2 DEF ReceiveFails, ParseExit
    <2>3. CASE Send(c) \/ Leave(c)
      BY <2>3, LateSame DEF Send, Leave, process, server, LateInv
    <2>4. CASE Connect(c)
      <3>1. pc[c] = "closed"
        BY <2>4 DEF Connect, IInv, AwayIsClosed
      <3> QED BY <2>4, <3>1, LateSame DEF Connect, process, IInv, Shape
    <2>5. CASE Receive(c)
      <3>1. up /\ pc[c] = "receive" /\ pc' = [pc EXCEPT ![c] = "parse"]
        BY <2>5 DEF Receive, LateInv
      <3>2. UNCHANGED << up, restarts, late, link, req, rsp >>
        BY <2>5 DEF Receive, process, server
      <3> QED BY <3>1, <3>2, LateSame DEF IInv, Shape
    <2>6. CASE ParseQuery(c)
      <3>1. /\ up /\ pc[c] = "parse"
            /\ \E p : pc' = [pc EXCEPT ![c] = p]
            /\ req' = req \/ \E x : req' = [req EXCEPT ![c] = x]
        BY <2>6 DEF ParseQuery, LateInv
      <3>2. UNCHANGED << up, restarts, late, link, rsp >>
        BY <2>6 DEF ParseQuery, process, server
      <3> QED BY <3>1, <3>2, LateSame DEF IInv, Shape
    <2>7. CASE Collect(c)
      <3>1. /\ up /\ rsp[c] # None
            /\ pc' = [pc EXCEPT ![c] = "send"]
            /\ rsp' = [rsp EXCEPT ![c] = None]
        BY <2>7 DEF Collect, LateInv
      <3>2. UNCHANGED << up, restarts, late, link, req >>
        BY <2>7 DEF Collect, process, server
      <3> QED BY <3>1, <3>2, LateSame DEF IInv, Shape
    <2>8. CASE Reply(c)
      <3>1. CASE Close(c)
        BY <1>1, <2>8, <3>1 DEF Reply
      <3>2. CASE pc' = [pc EXCEPT ![c] = "receive"] /\ UNCHANGED link
        <4>1. up /\ pc[c] = "send" /\ UNCHANGED << up, restarts, late, req, rsp >>
          BY <2>8 DEF Reply, LateInv, process
        <4> QED BY <3>2, <4>1, LateSame DEF IInv, Shape
      <3> QED BY <2>8, <3>1, <3>2 DEF Reply
    <2>9. CASE Serve(c)
      <3>1. /\ req[c] # None
            /\ req' = [req EXCEPT ![c] = None]
            /\ \E x : rsp' = [rsp EXCEPT ![c] = x]
        BY <2>9 DEF Serve
      <3>2. UNCHANGED << up, restarts, late, link, pc >>
        BY <2>9 DEF Serve, process, server
      <3> QED BY <3>1, <3>2, LateSame DEF IInv, Shape
    <2>10. CASE LoseLink(c)
      <3>1. /\ link[c] /\ link' = [link EXCEPT ![c] = FALSE]
            /\ req' = [req EXCEPT ![c] = None]
            /\ rsp' = rsp \/ rsp' = [rsp EXCEPT ![c] = None]
            /\ UNCHANGED << up, restarts, pc >>
        BY <2>10 DEF LoseLink, process
      <3>2. late' = late \/ (req[c] # None /\ late' = late \cup {Abandoned(c)})
        BY <2>10 DEF LoseLink
      <3>3. CASE late' = late
        BY <3>1, <3>3, LateSame DEF IInv, Shape
      <3>4. CASE req[c] # None /\ late' = late \cup {Abandoned(c)}
        <4>1. pc[c] = "store" /\ rsp[c] = None /\ up
          BY <3>4 DEF IInv, OneRequest, LateInv
        <4>2. restarts \in Nat
          BY NativeAssumption DEF TypeInv, Counts
        <4>3. \A r \in late : ~(r.conn = c /\ r.epoch = restarts)
          BY <3>1, <4>1 DEF LateInv
        <4>4. ASSUME NEW r \in late'
              PROVE  /\ r.conn \in Conns /\ r.epoch \in Nat /\ r.epoch <= restarts
                     /\ r.epoch = restarts =>
                           /\ pc'[r.conn] = "store" /\ ~link'[r.conn]
                           /\ req'[r.conn] = None /\ rsp'[r.conn] = None
          <5>1. CASE r = Abandoned(c)
            BY <3>1, <4>1, <4>2, <5>1 DEF Abandoned, IInv, Shape
          <5>2. CASE r \in late
            BY <3>1, <4>1, <4>3, <5>2 DEF LateInv, IInv, Shape
          <5> QED BY <3>4, <5>1, <5>2
        <4>5. ASSUME NEW r \in late', NEW s \in late', r.conn = s.conn, r.epoch = s.epoch
              PROVE  r = s
          BY <3>4, <4>3, <4>5 DEF LateInv, Abandoned
        <4> QED BY <3>1, <4>1, <4>4, <4>5 DEF LateInv
      <3> QED BY <3>2, <3>3, <3>4
    <2> QED BY <1>3, <2>1, <2>2, <2>3, <2>4, <2>5, <2>6, <2>7, <2>8, <2>9, <2>10 DEF Sockets
  <1>4. CASE ServeLate
    BY <1>4, LateSame DEF ServeLate, process, LateInv
  <1>5. CASE Restart
    <2>1. /\ up' /\ restarts' = restarts + 1 /\ restarts \in Nat /\ UNCHANGED late
      BY <1>5, NativeAssumption DEF Restart, TypeInv, Counts, server
    <2>2. \A r \in late : r.epoch \in Nat /\ r.epoch <= restarts' /\ r.epoch # restarts'
      BY <2>1 DEF LateInv
    <2> QED BY <2>1, <2>2 DEF LateInv
  <1>6. CASE UNCHANGED vars
    BY <1>6, LateSame DEF vars, process, server, LateInv
  <1> QED BY <1>3, <1>4, <1>5, <1>6 DEF Next

-----------------------------------------------------------------------------
(* What the steps do to the service.                                       *)

Map == [k \in Readable |-> decrypt(cipher, db[k])]
Calls == [c \in Conns |-> CallOf(c)]
Stray(r) == [conn |-> r.conn, epoch |-> r.epoch, op |-> OpOf(cipher, r.raw)]
Strays == {Stray(r) : r \in late}

LEMMA ServiceInit == Init => Service!Init
  <1> SUFFICES ASSUME Init PROVE Service!Init
    OBVIOUS
  <1>1. \A c \in Conns : CallOf(c) = [state |-> "idle"]
    BY DEF Init, CallOf
  <1> QED BY <1>1 DEF Init, Service!Init, Service!Idle

\* The call of a connection of which nothing changes.
LEMMA CallSame ==
    ASSUME NEW d \in Conns, UNCHANGED cipher,
           pc'[d] = pc[d], req'[d] = req[d], rsp'[d] = rsp[d], resp'[d] = resp[d], cmd'[d] = cmd[d]
    PROVE  CallOf(d)' = CallOf(d)
  BY DEF CallOf, AnswerTo

\* A step of one connection changes its call only.
LEMMA CallsOf ==
    ASSUME NEW c \in Conns, UNCHANGED cipher, NEW x, CallOf(c)' = x,
           \A d \in Conns \ {c} :
              /\ pc'[d] = pc[d] /\ req'[d] = req[d] /\ rsp'[d] = rsp[d]
              /\ resp'[d] = resp[d] /\ cmd'[d] = cmd[d]
    PROVE  Calls' = [Calls EXCEPT ![c] = x]
  <1>1. \A d \in Conns \ {c} : CallOf(d)' = CallOf(d)
    BY CallSame
  <1> QED BY <1>1 DEF Calls

\* Nothing happens in the service.
LEMMA Stutters ==
    ASSUME UNCHANGED << Map, Calls, Strays, restarts >>
    PROVE  [Service!Next]_(Service!vars)
  BY DEF Map, Calls, Strays, Stray, Service!vars

LEMMA Asks ==
    ASSUME NEW c \in Conns, Calls[c] = Service!Idle, NEW op \in AllOps,
           Calls' = [Calls EXCEPT ![c] = Service!Asked(op)], UNCHANGED << Map, Strays, restarts >>
    PROVE  Service!Next
  <1>1. Service!Ask(c)
    BY DEF Service!Ask, Map, Calls, Strays, Stray
  <1> QED BY <1>1 DEF Service!Next

LEMMA Refuses ==
    ASSUME NEW c \in Conns, Calls[c] = Service!Idle,
           Calls' = [Calls EXCEPT ![c] = Service!Done(INVALID_COMMAND)],
           UNCHANGED << Map, Strays, restarts >>
    PROVE  Service!Next
  <1>1. Service!Refuse(c)
    BY DEF Service!Refuse, Map, Calls, Strays, Stray
  <1> QED BY <1>1 DEF Service!Next

LEMMA Returns ==
    ASSUME NEW c \in Conns, Calls[c].state = "done",
           Calls' = [Calls EXCEPT ![c] = Service!Idle], UNCHANGED << Map, Strays, restarts >>
    PROVE  Service!Next
  <1>1. Service!Return(c)
    BY DEF Service!Return, Map, Calls, Strays, Stray
  <1> QED BY <1>1 DEF Service!Next

LEMMA Loses ==
    ASSUME NEW c \in Conns, Calls' = [Calls EXCEPT ![c] = Service!Lost],
           \/ Strays' = Strays
           \/ Calls[c].state = "asked"
              /\ Strays' = Strays \cup {[conn |-> c, epoch |-> restarts, op |-> Calls[c].op]},
           UNCHANGED << Map, restarts >>
    PROVE  Service!Next
  <1>1. Service!Lose(c)
    BY DEF Service!Lose, Service!Stray, Map, Calls, Strays, Stray
  <1> QED BY <1>1 DEF Service!Next

LEMMA Performs ==
    ASSUME NEW c \in Conns, NEW op, Calls[c] = Service!Asked(op),
           \/ /\ op.is_valid
              /\ Map' = Service!Effect(op)
              /\ Calls' = [Calls EXCEPT ![c] = Service!Done(Service!Success(op))]
           \/ /\ Map' = Map
              /\ Calls' = [Calls EXCEPT ![c] = Service!Done(Service!Failure(op))],
           UNCHANGED << Strays, restarts >>
    PROVE  Service!Next
  <1>1. Calls[c].state = "asked" /\ Calls[c].op = op
    BY DEF Service!Asked
  <1>2. Service!Perform(c)
    BY <1>1 DEF Service!Perform, Map, Calls, Strays, Stray
  <1> QED BY <1>2 DEF Service!Next

LEMMA Crashes ==
    ASSUME Calls' = [c \in Conns |-> Service!Idle],
           Strays' = Strays \cup {[conn |-> c, epoch |-> restarts, op |-> Calls[c].op] :
                                     c \in {d \in Conns : Calls[d].state = "asked"}},
           UNCHANGED << Map, restarts >>
    PROVE  Service!Next
  <1>1. Service!Crash
    BY DEF Service!Crash, Service!Stray, Map, Calls, Strays, Stray
  <1> QED BY <1>1 DEF Service!Next

LEMMA Lands ==
    ASSUME NEW s \in Strays, Map' = Map \/ (s.op.is_valid /\ Map' = Service!Effect(s.op)),
           Strays' = Strays \ {s}, UNCHANGED << Calls, restarts >>
    PROVE  Service!Next
  <1>1. Service!Land
    BY DEF Service!Land, Map, Calls, Strays, Stray
  <1> QED BY <1>1 DEF Service!Next

\* The call that a request makes.
LEMMA OpFacts ==
    ASSUME NEW db_key, NEW raw, NEW m, m = deserialize(raw),
           DOMAIN m = {"command", "key", "value", "is_valid"}, NEW op, op = OpOf(db_key, raw)
    PROVE  /\ op.command = raw[1]
           /\ op.key = m.key
           /\ op.is_valid = m.is_valid
           /\ op.value = IF m.value = << >> THEN m.value ELSE decrypt(db_key, m.value)
  <1>1. op = [m EXCEPT !.command = raw[1],
                       !.value = IF @ = << >> THEN @ ELSE decrypt(db_key, @)]
    BY DEF OpOf
  <1> QED BY <1>1

\* A request that succeeds does to the map what the call says; one that fails nothing.
LEMMA EffectOf ==
    ASSUME TextsFit, KeysApart, cipher \in DOMAIN Stores, NEW raw \in Requests[cipher],
           NEW ok \in BOOLEAN, db' = execute(db, deserialize(raw), ok), UNCHANGED cipher,
           NEW op, op = OpOf(cipher, raw)
    PROVE  IF op.is_valid /\ ok THEN Map' = Service!Effect(op) ELSE Map' = Map
  <1>1. PICK m : m = deserialize(raw)
    OBVIOUS
  <1>2. /\ raw[1] \in {"get", "put", "del"}
        /\ DOMAIN m = {"command", "key", "value", "is_valid"}
        /\ m.is_valid \in BOOLEAN
        /\ m.is_valid => m.command = raw[1]
        /\ m.is_valid /\ raw[1] = "put" => m.value # << >> /\ Decryptable(cipher, m.value)
    BY <1>1, RequestFacts
  <1>3. /\ op.command = raw[1]
        /\ op.key = m.key
        /\ op.is_valid = m.is_valid
        /\ op.value = IF m.value = << >> THEN m.value ELSE decrypt(cipher, m.value)
    BY <1>1, <1>2, OpFacts
  <1>4. CASE ~(op.is_valid /\ ok)
    <2>1. db' = db
      BY <1>1, <1>2, <1>3, <1>4 DEF execute
    <2> QED BY <1>4, <2>1 DEF Map, Readable
  <1>5. CASE op.is_valid /\ ok /\ raw[1] = "get"
    <2>1. db' = db
      BY <1>1, <1>2, <1>3, <1>5 DEF execute
    <2>2. Map' = Map
      BY <2>1 DEF Map, Readable
    <2>3. Service!Effect(op) = Map
      BY <1>3, <1>5 DEF Service!Effect, Map
    <2> QED BY <1>5, <2>2, <2>3
  <1>6. CASE op.is_valid /\ ok /\ raw[1] = "put"
    <2>1. m.is_valid /\ m.command = "put" /\ m.value # << >> /\ Decryptable(cipher, m.value)
      BY <1>2, <1>3, <1>6
    <2>2. db' = [k \in DOMAIN db \cup {m.key} |-> IF k = m.key THEN m.value ELSE db[k]]
      BY <1>1, <1>6, <2>1 DEF execute
    <2>3. Readable' = Readable \cup {m.key}
      BY <2>1, <2>2 DEF Readable
    <2>4. Map' = [k \in Readable \cup {m.key} |->
                     IF k = m.key THEN decrypt(cipher, m.value) ELSE decrypt(cipher, db[k])]
      BY <2>2, <2>3 DEF Map, Readable
    <2>5. Service!Effect(op) = [k \in DOMAIN Map \cup {op.key} |->
                                   IF k = op.key THEN op.value ELSE Map[k]]
      BY <1>3, <1>6 DEF Service!Effect, Map
    <2>6. DOMAIN Map = Readable /\ \A k \in Readable : Map[k] = decrypt(cipher, db[k])
      BY DEF Map
    <2>7. op.value = decrypt(cipher, m.value)
      BY <1>3, <2>1
    <2>8. Service!Effect(op) = Map'
      BY <1>3, <2>4, <2>5, <2>6, <2>7
    <2> QED BY <1>6, <2>8
  <1>7. CASE op.is_valid /\ ok /\ raw[1] = "del"
    <2>1. m.is_valid /\ m.command = "del"
      BY <1>2, <1>3, <1>7
    <2>2. db' = [k \in DOMAIN db \ {m.key} |-> db[k]]
      BY <1>1, <1>7, <2>1 DEF execute, Restrict
    <2>3. Readable' = Readable \ {m.key}
      BY <2>2 DEF Readable
    <2>4. Map' = [k \in Readable \ {m.key} |-> decrypt(cipher, db[k])]
      BY <2>2, <2>3 DEF Map, Readable
    <2>5. Service!Effect(op) = [k \in DOMAIN Map \ {op.key} |-> Map[k]]
      BY <1>3, <1>7 DEF Service!Effect, Service!Restrict, Restrict, Map
    <2>6. DOMAIN Map = Readable /\ \A k \in Readable : Map[k] = decrypt(cipher, db[k])
      BY DEF Map
    <2>7. Service!Effect(op) = Map'
      BY <1>3, <2>4, <2>5, <2>6
    <2> QED BY <1>7, <2>7
  <1> QED BY <1>2, <1>4, <1>5, <1>6, <1>7

\* A response is read back as it was written.
LEMMA ResponseReadsBack ==
    ASSUME NEW success \in BOOLEAN, NEW data \in Seq(Elements)
    PROVE  deserialize_response(serialize_response(Response(success, data))) = Response(success, data)
  <1>1. PICK code : code = << IF success THEN "1" ELSE "0" >>
    OBVIOUS
  <1>2. /\ code \in Seq(Elements) /\ Len(code) = 1
        /\ code[1] = IF success THEN "1" ELSE "0"
    BY <1>1, Characters
  <1>3. PICK raw : raw = code \o data
    OBVIOUS
  <1>4. serialize_response(Response(success, data)) = raw
    BY <1>1, <1>3 DEF serialize_response, Response
  <1>5. /\ raw \in Seq(Elements) /\ Len(raw) = 1 + Len(data)
        /\ \A i \in 1..1 : raw[i] = code[i]
        /\ \A i \in 1..Len(data) : raw[1 + i] = data[i]
    <2>1. /\ code \o data \in Seq(Elements)
          /\ Len(code \o data) = Len(code) + Len(data)
          /\ \A i \in 1..Len(code) : (code \o data)[i] = code[i]
          /\ \A i \in 1..Len(data) : (code \o data)[Len(code) + i] = data[i]
      <3>1. code \in Seq(Elements)
        BY <1>2
      <3> QED BY <3>1, ConcatFacts
    <2> QED BY <1>2, <1>3, <2>1
  <1>6. Len(data) \in Nat /\ raw[1] = code[1] /\ raw # << >>
    BY <1>5
  <1>7. Tail(raw) = data
    <2>1. /\ Tail(raw) \in Seq(Elements) /\ Len(Tail(raw)) = Len(data)
          /\ \A i \in 1..Len(data) : Tail(raw)[i] = data[i]
      BY <1>5, <1>6
    <2> QED BY <2>1, SeqEqual
  <1>8. raw[1] \in {"0", "1"} /\ (raw[1] = "1") = success
    BY <1>2, <1>6
  <1> QED BY <1>4, <1>6, <1>7, <1>8 DEF deserialize_response

Yields(op, ok, a) ==
    a = IF op.is_valid /\ ok THEN Service!Success(op) ELSE Service!Failure(op)

\* The handler answers with what the call yields.
LEMMA AnswerOf ==
    ASSUME TextsFit, KeysApart, cipher \in DOMAIN Stores, NEW raw \in Requests[cipher],
           \A k \in DOMAIN db : db[k] \in Seq(Elements),
           NEW ok \in BOOLEAN, NEW op, op = OpOf(cipher, raw),
           NEW command, CommandOf(command, raw),
           NEW r, r = outcome(db, deserialize(raw), ok),
           NEW a, a = AnswerTo(command, deserialize_response(serialize_response(r)))
    PROVE  Yields(op, ok, a)
  <1> SUFFICES AnswerTo(command, deserialize_response(serialize_response(r))) =
                  IF op.is_valid /\ ok THEN Service!Success(op) ELSE Service!Failure(op)
    BY DEF Yields
  <1> USE DEF CommandOf
  <1>1. PICK m : m = deserialize(raw)
    OBVIOUS
  <1>2. /\ DOMAIN m = {"command", "key", "value", "is_valid"}
        /\ m.is_valid \in BOOLEAN
        /\ m.is_valid => m.command = raw[1]
    BY <1>1, RequestFacts
  <1>3. op.command = raw[1] /\ op.key = m.key /\ op.is_valid = m.is_valid
    BY <1>1, <1>2, OpFacts
  <1>4. << >> \in Seq(Elements)
    BY Characters
  <1>5. \A b, x : Response(b, x).is_success = b /\ Response(b, x).data = x
    BY DEF Response
  <1>6. DOMAIN Map = Readable /\ \A k \in Readable : Map[k] = decrypt(cipher, db[k])
    BY DEF Map
  <1>7. CASE ~(op.is_valid /\ ok)
    <2>1. r = Response(FALSE, << >>)
      BY <1>1, <1>2, <1>3, <1>7 DEF outcome
    <2>2. deserialize_response(serialize_response(r)) = Response(FALSE, << >>)
      BY <1>4, <2>1, ResponseReadsBack
    <2>3. PICK f : f = Response(FALSE, << >>)
      OBVIOUS
    <2>4. f.is_success = FALSE
      BY <1>5, <2>3
    <2>5. ~retrieved(cipher, f)
      BY <2>4 DEF retrieved
    <2>6. AnswerTo(command, f) = Service!Failure(op)
      BY <1>3, <2>4, <2>5 DEF AnswerTo, Service!Failure
    <2> QED BY <1>7, <2>2, <2>3, <2>6
  <1>8. CASE op.is_valid /\ ok /\ raw[1] # "get"
    <2>1. r = Response(TRUE, << >>)
      BY <1>1, <1>2, <1>3, <1>8 DEF outcome
    <2>2. deserialize_response(serialize_response(r)) = Response(TRUE, << >>)
      BY <1>4, <2>1, ResponseReadsBack
    <2>3. AnswerTo(command, Response(TRUE, << >>)) = Service!Success(op)
      BY <1>3, <1>5, <1>8 DEF AnswerTo, Service!Success
    <2> QED BY <1>8, <2>2, <2>3
  <1>9. CASE op.is_valid /\ ok /\ raw[1] = "get"
    <2>1. command = <<"get">>
      BY <1>9
    <2>2. Service!Success(op) = IF m.key \in DOMAIN Map THEN Map[m.key] ELSE GET_FAILED
      BY <1>3, <1>9 DEF Service!Success, Map
    <2>3. CASE m.key \in DOMAIN db
      <3>1. r = Response(TRUE, db[m.key]) /\ db[m.key] \in Seq(Elements)
        BY <1>1, <1>2, <1>3, <1>9, <2>3 DEF outcome
      <3>2. deserialize_response(serialize_response(r)) = Response(TRUE, db[m.key])
        BY <3>1, ResponseReadsBack
      <3>3. AnswerTo(command, Response(TRUE, db[m.key]))
              = IF Decryptable(cipher, db[m.key]) THEN decrypt(cipher, db[m.key]) ELSE GET_FAILED
        <4>1. PICK f : f = Response(TRUE, db[m.key])
          OBVIOUS
        <4>2. f.is_success = TRUE /\ f.data = db[m.key]
          BY <1>5, <4>1
        <4>3. retrieved(cipher, f) <=> Decryptable(cipher, db[m.key])
          BY <4>2 DEF retrieved
        <4>4. AnswerTo(command, f) = IF retrieved(cipher, f) THEN decrypt(cipher, f.data) ELSE GET_FAILED
          BY <2>1 DEF AnswerTo
        <4> QED BY <4>1, <4>2, <4>3, <4>4
      <3>4. m.key \in Readable <=> Decryptable(cipher, db[m.key])
        BY <2>3 DEF Readable
      <3> QED BY <1>6, <1>9, <2>2, <3>2, <3>3, <3>4
    <2>4. CASE m.key \notin DOMAIN db
      <3>1. r = Response(FALSE, << >>)
        BY <1>1, <1>2, <1>3, <1>9, <2>4 DEF outcome
      <3>2. deserialize_response(serialize_response(r)) = Response(FALSE, << >>)
        BY <1>4, <3>1, ResponseReadsBack
      <3>3. AnswerTo(command, Response(FALSE, << >>)) = GET_FAILED
        BY <1>5, <2>1 DEF AnswerTo, retrieved
      <3>4. m.key \notin DOMAIN Map
        BY <1>6, <2>4 DEF Readable
      <3> QED BY <1>9, <2>2, <3>2, <3>3, <3>4
    <2> QED BY <2>3, <2>4
  <1> QED BY <1>7, <1>8, <1>9

-----------------------------------------------------------------------------
(* Every step is a step of the service, or none.                           *)

LEMMA SameMap == UNCHANGED << cipher, db >> => Map' = Map
  BY DEF Map, Readable

LEMMA SameStrays == UNCHANGED << cipher, late >> => Strays' = Strays
  BY DEF Strays, Stray, OpOf

\* A connection that has no call and makes none.
LEMMA IdleStep ==
    ASSUME TypeInv, NEW c \in Conns, pc[c] \notin {"store", "send"}, pc'[c] \notin {"store", "send"},
           UNCHANGED << cipher, db, late, restarts >>,
           \A d \in Conns \ {c} :
              /\ pc'[d] = pc[d] /\ req'[d] = req[d] /\ rsp'[d] = rsp[d]
              /\ resp'[d] = resp[d] /\ cmd'[d] = cmd[d]
    PROVE  [Service!Next]_(Service!vars)
  <1>1. CallOf(c) = [state |-> "idle"] /\ CallOf(c)' = [state |-> "idle"]
    BY DEF CallOf
  <1>2. Calls' = [Calls EXCEPT ![c] = [state |-> "idle"]]
    BY <1>1, CallsOf
  <1>3. Calls' = Calls
    BY <1>1, <1>2 DEF Calls
  <1> QED BY <1>3, SameMap, SameStrays, Stutters

LEMMA IdleActions ==
    ASSUME IInv, TypeInv, CallInv, NEW c \in Conns,
           \/ Connect(c) \/ Send(c) \/ Leave(c) \/ Receive(c) \/ ReceiveFails(c) \/ ParseExit(c)
    PROVE  [Service!Next]_(Service!vars)
  <1>1. CASE Connect(c)
    <2>1. pc[c] = "closed"
      BY <1>1 DEF Connect, IInv, AwayIsClosed
    <2> QED BY <1>1, <2>1, IdleStep DEF Connect, TypeInv, Arrays, process
  <1>2. CASE Send(c)
    <2>1. pc[c] = "receive"
      BY <1>2 DEF Send, TypeInv, ConnTypes
    <2> QED BY <1>2, <2>1, IdleStep DEF Send, process, server
  <1>3. CASE Leave(c)
    <2>1. UNCHANGED << cipher, db, late, restarts, pc, req, rsp, resp, cmd >>
      BY <1>3 DEF Leave, process, server
    <2>2. \A d \in Conns : CallOf(d)' = CallOf(d)
      BY <2>1, CallSame
    <2>3. Calls' = Calls
      BY <2>2 DEF Calls
    <2> QED BY <2>1, <2>3, SameMap, SameStrays, Stutters
  <1>4. CASE Receive(c)
    <2>1. /\ pc[c] = "receive" /\ pc' = [pc EXCEPT ![c] = "parse"]
          /\ UNCHANGED << cipher, db, late, restarts, req, rsp, resp, cmd >>
      BY <1>4 DEF Receive, process, server
    <2> QED BY <2>1, IdleStep DEF TypeInv, Arrays
  <1>5. CASE ReceiveFails(c) \/ ParseExit(c)
    <2>1. /\ pc[c] \in {"receive", "parse"} /\ Close(c)
          /\ UNCHANGED << cipher, db, late, restarts, req, rsp >>
      BY <1>5 DEF ReceiveFails, ParseExit, process
    <2> QED BY <2>1, IdleStep DEF Close, TypeInv, Arrays, CallInv
  <1> QED BY <1>1, <1>2, <1>3, <1>4, <1>5

\* A query starts a call, unless it is no command or the connection is broken.
LEMMA ParseActs ==
    ASSUME NoneIsNoData, IInv, SentInv, TypeInv, CallInv, NEW c \in Conns, ParseQuery(c)
    PROVE  Service!Next
  <1>1. PICK q : q = Received(c)
    OBVIOUS
  <1>2. IsQuery(Chars, q)
    BY <1>1, ReceivedText
  <1>3. /\ pc[c] = "parse"
        /\ ~q.throws
        /\ UNCHANGED << cipher, restarts, db, late, rsp >>
        /\ cmd' = [cmd EXCEPT ![c] = q.cmd]
        /\ \/ /\ StoreCommand(q)
              /\ pc' = [pc EXCEPT ![c] = "store"]
              /\ \/ req' = [req EXCEPT ![c] = serialize(RequestOf(q, cipher))]
                 \/ req' = req
              /\ UNCHANGED resp
           \/ /\ pc' = [pc EXCEPT ![c] = "send"]
              /\ req' = req
              /\ resp' = [resp EXCEPT ![c] = INVALID_COMMAND]
    BY <1>1 DEF ParseQuery, process, server
  <1>4. req[c] = None /\ rsp[c] = None /\ cipher \in DOMAIN Stores
    BY <1>3 DEF IInv, OneRequest, TypeInv, DataTypes
  <1>5. Calls[c] = Service!Idle
    BY <1>3 DEF Calls, CallOf, Service!Idle
  <1>6. Map' = Map /\ Strays' = Strays /\ restarts' = restarts
    BY <1>3, SameMap, SameStrays
  <1>7. \A d \in Conns \ {c} :
              /\ pc'[d] = pc[d] /\ req'[d] = req[d] /\ rsp'[d] = rsp[d]
              /\ resp'[d] = resp[d] /\ cmd'[d] = cmd[d]
    BY <1>3 DEF TypeInv, Arrays, CallInv
  <1>8. CASE StoreCommand(q) /\ req' = [req EXCEPT ![c] = serialize(RequestOf(q, cipher))]
                             /\ pc' = [pc EXCEPT ![c] = "store"]
    <2>1. PICK raw : raw = serialize(RequestOf(q, cipher))
      OBVIOUS
    <2>2. raw \in Requests[cipher]
      <3>1. q \in Said
        BY <1>1, <1>3 DEF SentInv, ConnOK, Received, CString, Buffers, Arrived, Said
      <3> QED BY <1>3, <1>4, <1>8, <2>1, <3>1 DEF Requests
    <2>3. raw \in Seq(Elements)
      BY <1>2, <1>4, <1>8, <2>1, SerializeText
    <2>4. req'[c] = raw /\ req'[c] # None /\ pc'[c] = "store"
      BY <1>8, <2>1, <2>3 DEF NoneIsNoData, TypeInv, Arrays
    <2>5. PICK op : op = OpOf(cipher, raw)
      OBVIOUS
    <2>6. op \in AllOps
      BY <1>4, <2>2, <2>5 DEF AllOps
    <2>7. CallOf(c)' = Service!Asked(op)
      BY <1>3, <2>4, <2>5 DEF CallOf, OpOf, Service!Asked
    <2>8. Calls' = [Calls EXCEPT ![c] = Service!Asked(op)]
      BY <1>3, <1>7, <2>7, CallsOf
    <2> QED BY <1>5, <1>6, <2>6, <2>8, Asks
  <1>9. CASE req' = req /\ pc' = [pc EXCEPT ![c] = "store"]
    <2>1. req'[c] = None /\ rsp'[c] = None /\ pc'[c] = "store"
      BY <1>3, <1>4, <1>9 DEF TypeInv, Arrays
    <2>2. CallOf(c)' = Service!Lost
      BY <2>1 DEF CallOf, Service!Lost
    <2>3. Calls' = [Calls EXCEPT ![c] = Service!Lost]
      BY <1>3, <1>7, <2>2, CallsOf
    <2> QED BY <1>6, <2>3, Loses
  <1>10. CASE pc' = [pc EXCEPT ![c] = "send"] /\ resp' = [resp EXCEPT ![c] = INVALID_COMMAND]
    <2>1. pc'[c] = "send" /\ resp'[c] = INVALID_COMMAND
      BY <1>10 DEF TypeInv, Arrays
    <2>2. CallOf(c)' = Service!Done(INVALID_COMMAND)
      BY <2>1 DEF CallOf, Service!Done
    <2>3. Calls' = [Calls EXCEPT ![c] = Service!Done(INVALID_COMMAND)]
      BY <1>3, <1>7, <2>2, CallsOf
    <2> QED BY <1>5, <1>6, <2>3, Refuses
  <1> QED BY <1>3, <1>8, <1>9, <1>10

\* Taking the response from the connection to the server decides nothing.
LEMMA CollectActs ==
    ASSUME IInv, TypeInv, NEW c \in Conns, Collect(c)
    PROVE  [Service!Next]_(Service!vars)
  <1>1. /\ pc[c] = "store" /\ rsp[c] # None /\ req[c] = None
        /\ pc' = [pc EXCEPT ![c] = "send"]
        /\ rsp' = [rsp EXCEPT ![c] = None]
        /\ resp' = [resp EXCEPT ![c] = AnswerTo(cmd[c], deserialize_response(rsp[c]))]
        /\ UNCHANGED << cipher, restarts, db, late, cmd, req >>
    BY DEF Collect, process, server, IInv, OneRequest
  <1>2. PICK a : a = AnswerTo(cmd[c], deserialize_response(rsp[c]))
    OBVIOUS
  <1>3. CallOf(c) = [state |-> "done", result |-> a]
    BY <1>1, <1>2 DEF CallOf
  <1>4. pc'[c] = "send" /\ resp'[c] = a
    BY <1>1, <1>2 DEF TypeInv, Arrays
  <1>5. CallOf(c)' = [state |-> "done", result |-> a]
    BY <1>4 DEF CallOf
  <1>6. Calls' = [Calls EXCEPT ![c] = [state |-> "done", result |-> a]]
    BY <1>1, <1>5, CallsOf DEF TypeInv, Arrays
  <1>7. Calls' = Calls
    BY <1>3, <1>6 DEF Calls
  <1> QED BY <1>1, <1>7, SameMap, SameStrays, Stutters

LEMMA ReplyActs ==
    ASSUME TypeInv, CallInv, NEW c \in Conns, Reply(c)
    PROVE  Service!Next
  <1>1. /\ pc[c] = "send"
        /\ UNCHANGED << cipher, restarts, db, late, req, rsp >>
        /\ pc' = [pc EXCEPT ![c] = "receive"] \/ pc' = [pc EXCEPT ![c] = "closed"]
        /\ resp' = [resp EXCEPT ![c] = None]
        /\ cmd' = [cmd EXCEPT ![c] = << >>]
    BY DEF Reply, Close, process
  <1>2. Calls[c].state = "done"
    BY <1>1 DEF Calls, CallOf
  <1>3. CallOf(c)' = Service!Idle
    BY <1>1 DEF CallOf, Service!Idle, TypeInv, Arrays
  <1>4. Calls' = [Calls EXCEPT ![c] = Service!Idle]
    BY <1>1, <1>3, CallsOf DEF TypeInv, Arrays, CallInv
  <1> QED BY <1>1, <1>2, <1>4, SameMap, SameStrays, Returns

\* The server performs the call.
LEMMA ServeActs ==
    ASSUME TextsFit, KeysApart, NoneIsNoData, IInv, SentInv, TypeInv, CallInv,
           NEW c \in Conns, Serve(c)
    PROVE  Service!Next
  <1>1. PICK raw : raw = req[c]
    OBVIOUS
  <1>2. PICK ok \in Results :
             /\ db' = execute(db, deserialize(raw), ok)
             /\ rsp' = [rsp EXCEPT ![c] = serialize_response(outcome(db, deserialize(raw), ok))]
    BY <1>1 DEF Serve
  <1>3. /\ raw # None /\ req' = [req EXCEPT ![c] = None]
        /\ UNCHANGED << cipher, restarts, late, pc, resp, cmd >>
    BY <1>1 DEF Serve, process, server
  <1>4. /\ cipher \in DOMAIN Stores /\ raw \in Requests[cipher] /\ raw \in Seq(Elements)
        /\ \A k \in DOMAIN db : db[k] \in Seq(Elements)
        /\ ok \in BOOLEAN
        /\ pc[c] = "store"
    BY <1>1, <1>3, NativeAssumption
    DEF SentInv, ConnOK, TypeInv, ConnTypes, DataTypes, IInv, OneRequest, Results
  <1>5. PICK op : op = OpOf(cipher, raw)
    OBVIOUS
  <1>6. Calls[c] = Service!Asked(op)
    BY <1>1, <1>3, <1>4, <1>5 DEF Calls, CallOf, Service!Asked
  <1>7. IF op.is_valid /\ ok THEN Map' = Service!Effect(op) ELSE Map' = Map
    BY <1>2, <1>3, <1>4, <1>5, EffectOf
  <1>8. PICK r : r = outcome(db, deserialize(raw), ok)
    OBVIOUS
  <1>9. PICK a : a = AnswerTo(cmd[c], deserialize_response(serialize_response(r)))
    OBVIOUS
  <1>10. a = IF op.is_valid /\ ok THEN Service!Success(op) ELSE Service!Failure(op)
    <2>1. PICK command : command = cmd[c]
      OBVIOUS
    <2>2. CommandOf(command, raw)
      BY <1>1, <1>3, <2>1 DEF CallInv, Matching, CommandOf
    <2>3. a = AnswerTo(command, deserialize_response(serialize_response(r)))
      BY <1>9, <2>1
    <2>4. Yields(op, ok, a)
      BY <1>4, <1>5, <1>8, <2>2, <2>3, AnswerOf
    <2> QED BY <2>4 DEF Yields
  <1>11. serialize_response(r) \in Seq(Elements)
    BY <1>4, <1>8, ExecuteText
  <1>12. rsp'[c] = serialize_response(r) /\ rsp'[c] # None /\ req'[c] = None
    BY <1>2, <1>3, <1>8, <1>11 DEF NoneIsNoData, TypeInv, Arrays
  <1>13. CallOf(c)' = Service!Done(a)
    BY <1>3, <1>4, <1>9, <1>12 DEF CallOf, AnswerTo, Service!Done
  <1>14. Calls' = [Calls EXCEPT ![c] = Service!Done(a)]
    BY <1>2, <1>3, <1>13, CallsOf DEF TypeInv, Arrays
  <1>15. Strays' = Strays
    BY <1>3, SameStrays
  <1>16. \/ /\ op.is_valid
            /\ Map' = Service!Effect(op)
            /\ Calls' = [Calls EXCEPT ![c] = Service!Done(Service!Success(op))]
         \/ /\ Map' = Map
            /\ Calls' = [Calls EXCEPT ![c] = Service!Done(Service!Failure(op))]
    BY <1>7, <1>10, <1>14
  <1> QED BY <1>3, <1>6, <1>15, <1>16, Performs

\* A request that outlives its connection is a stray call.
LEMMA StrayAbandoned ==
    ASSUME NEW c \in Conns
    PROVE  Stray(Abandoned(c)) = [conn |-> c, epoch |-> restarts, op |-> OpOf(cipher, req[c])]
  BY DEF Stray, Abandoned

LEMMA LoseActs ==
    ASSUME IInv, TypeInv, NEW c \in Conns, LoseLink(c)
    PROVE  [Service!Next]_(Service!vars)
  <1>1. /\ req' = [req EXCEPT ![c] = None]
        /\ rsp' = rsp \/ rsp' = [rsp EXCEPT ![c] = None]
        /\ UNCHANGED << cipher, restarts, db, pc, resp, cmd >>
        /\ late' = late \/ (req[c] # None /\ late' = late \cup {Abandoned(c)})
    BY DEF LoseLink, process
  <1>2. Map' = Map
    BY <1>1, SameMap
  <1>3. \A d \in Conns \ {c} :
              /\ pc'[d] = pc[d] /\ req'[d] = req[d] /\ rsp'[d] = rsp[d]
              /\ resp'[d] = resp[d] /\ cmd'[d] = cmd[d]
    BY <1>1 DEF TypeInv, Arrays
  <1>4. CASE req[c] # None
    <2>1. pc[c] = "store" /\ rsp[c] = None
      BY <1>4 DEF IInv, OneRequest
    <2>2. pc'[c] = "store" /\ req'[c] = None /\ rsp'[c] = None
      BY <1>1, <2>1 DEF TypeInv, Arrays
    <2>3. CallOf(c)' = Service!Lost
      BY <2>2 DEF CallOf, Service!Lost
    <2>4. Calls' = [Calls EXCEPT ![c] = Service!Lost]
      BY <1>1, <1>3, <2>3, CallsOf
    <2>5. Calls[c].state = "asked" /\ Calls[c].op = OpOf(cipher, req[c])
      BY <1>4, <2>1 DEF Calls, CallOf
    <2>6. \/ Strays' = Strays
          \/ Strays' = Strays \cup {[conn |-> c, epoch |-> restarts, op |-> Calls[c].op]}
      <3>1. CASE late' = late
        BY <1>1, <3>1, SameStrays
      <3>2. CASE late' = late \cup {Abandoned(c)}
        <4>1. \A r : Stray(r)' = Stray(r)
          BY <1>1 DEF Stray, OpOf
        <4>2. Strays' = Strays \cup {Stray(Abandoned(c))}
          BY <3>2, <4>1 DEF Strays
        <4> QED BY <2>5, <4>2, StrayAbandoned
      <3> QED BY <1>1, <3>1, <3>2
    <2> QED BY <1>1, <1>2, <2>4, <2>5, <2>6, Loses
  <1>5. CASE req[c] = None
    <2>1. Strays' = Strays /\ req'[c] = None
      BY <1>1, <1>5, SameStrays DEF TypeInv, Arrays
    <2>2. CASE rsp' = rsp
      <3>1. CallOf(c)' = CallOf(c)
        BY <1>1, <1>5, <2>1, <2>2, CallSame
      <3>2. Calls' = Calls
        BY <1>1, <1>3, <3>1, CallSame DEF Calls
      <3> QED BY <1>1, <1>2, <2>1, <3>2, Stutters
    <2>3. CASE rsp[c] # None /\ rsp' = [rsp EXCEPT ![c] = None]
      <3>1. pc'[c] = "store" /\ rsp'[c] = None
        BY <1>1, <2>3 DEF IInv, OneRequest, TypeInv, Arrays
      <3>2. CallOf(c)' = Service!Lost
        BY <2>1, <3>1 DEF CallOf, Service!Lost
      <3>3. Calls' = [Calls EXCEPT ![c] = Service!Lost]
        BY <1>1, <1>3, <3>2, CallsOf
      <3> QED BY <1>1, <1>2, <2>1, <3>3, Loses
    <2>4. CASE rsp[c] = None
      <3>1. rsp'[c] = rsp[c]
        BY <1>1, <2>4 DEF TypeInv, Arrays
      <3>2. CallOf(c)' = CallOf(c)
        BY <1>1, <1>5, <2>1, <3>1, CallSame
      <3>3. Calls' = Calls
        BY <1>1, <1>3, <3>2, CallSame DEF Calls
      <3> QED BY <1>1, <1>2, <2>1, <3>3, Stutters
    <2> QED BY <1>1, <2>2, <2>3, <2>4
  <1> QED BY <1>4, <1>5

LEMMA TerminateActs ==
    ASSUME IInv, TypeInv, Terminate
    PROVE  Service!Next
  <1>1. UNCHANGED << cipher, restarts, db >>
    BY DEF Terminate
  <1>2. Calls' = [c \in Conns |-> Service!Idle]
    <2>1. \A c \in Conns : CallOf(c)' = Service!Idle
      BY DEF Terminate, CallOf, Service!Idle
    <2> QED BY <2>1 DEF Calls
  <1>3. ASSUME NEW d \in Conns
        PROVE  /\ Calls[d].state = "asked" <=> req[d] # None
               /\ req[d] # None => Calls[d].op = OpOf(cipher, req[d])
    BY DEF Calls, CallOf, IInv, OneRequest, TypeInv, Arrays
  <1>4. Strays' = Strays \cup {[conn |-> c, epoch |-> restarts, op |-> Calls[c].op] :
                                     c \in {d \in Conns : Calls[d].state = "asked"}}
    <2>1. late' = late \cup {Abandoned(c) : c \in {d \in Conns : req[d] # None}}
      BY DEF Terminate
    <2>2. \A r : Stray(r)' = Stray(r)
      BY <1>1 DEF Stray, OpOf
    <2>3. Strays' = Strays \cup {Stray(Abandoned(c)) : c \in {d \in Conns : req[d] # None}}
      BY <2>1, <2>2 DEF Strays
    <2>4. \A c \in {d \in Conns : req[d] # None} :
             Stray(Abandoned(c)) = [conn |-> c, epoch |-> restarts, op |-> Calls[c].op]
      BY <1>3, StrayAbandoned
    <2>5. {d \in Conns : req[d] # None} = {d \in Conns : Calls[d].state = "asked"}
      BY <1>3
    <2> QED BY <2>3, <2>4, <2>5
  <1> QED BY <1>1, <1>2, <1>4, SameMap, Crashes

\* A stray call lands once.
LEMMA LateActs ==
    ASSUME TextsFit, KeysApart, SentInv, TypeInv, LateInv, ServeLate
    PROVE  Service!Next
  <1>1. PICK r \in late, ok \in Results :
           db' = execute(db, deserialize(r.raw), ok) /\ late' = late \ {r}
    BY DEF ServeLate
  <1>2. UNCHANGED << cipher, restarts, pc, cmd, req, rsp, resp >>
    BY DEF ServeLate, process
  <1>3. cipher \in DOMAIN Stores /\ r.raw \in Requests[cipher] /\ ok \in BOOLEAN
    BY NativeAssumption DEF SentInv, Results
  <1>4. PICK op : op = OpOf(cipher, r.raw)
    OBVIOUS
  <1>5. IF op.is_valid /\ ok THEN Map' = Service!Effect(op) ELSE Map' = Map
    BY <1>1, <1>2, <1>3, <1>4, EffectOf
  <1>6. PICK s : s = Stray(r)
    OBVIOUS
  <1>7. s \in Strays /\ s.op = op
    BY <1>4, <1>6 DEF Strays, Stray
  <1>8. Strays' = Strays \ {s}
    <2>1. \A x : Stray(x)' = Stray(x)
      BY <1>2 DEF Stray, OpOf
    <2>2. Strays' = {Stray(x) : x \in late \ {r}}
      BY <1>1, <2>1 DEF Strays
    <2>3. ASSUME NEW x \in late, Stray(x) = Stray(r) PROVE x = r
      <3>1. x.conn = r.conn /\ x.epoch = r.epoch
        BY <2>3 DEF Stray
      <3> QED BY <3>1 DEF LateInv
    <2> QED BY <1>6, <2>2, <2>3 DEF Strays
  <1>9. Calls' = Calls
    <2>1. \A d \in Conns : CallOf(d)' = CallOf(d)
      BY <1>2, CallSame
    <2> QED BY <2>1 DEF Calls
  <1> QED BY <1>2, <1>5, <1>7, <1>8, <1>9, Lands

-----------------------------------------------------------------------------

\* Nothing is under way at the start.
LEMMA InitKV ==
    ASSUME TextsAreTexts, NoneIsNoData, Init
    PROVE  KVInv
  <1>1. IInv /\ SentInv /\ TypeInv
    BY InitIInv, InitSent, InitTypes
  <1>2. CallInv /\ LateInv
    BY NativeAssumption DEF Init, CallInv, LateInv
  <1> QED BY <1>1, <1>2 DEF KVInv

\* A step of a connection is one of its call.
LEMMA ConnActs ==
    ASSUME TextsFit, KeysApart, NoneIsNoData, KVInv, NEW c \in Conns,
           \/ Connect(c) \/ ConnectFails(c) \/ Send(c) \/ Leave(c)
           \/ ParseQuery(c) \/ ParseExit(c) \/ ParseThrows(c) \/ ParseFaults(c)
           \/ Sockets(c)
           \/ Serve(c) \/ LoseLink(c)
    PROVE  [Service!Next]_(Service!vars)
  <1>1. IInv /\ SentInv /\ TypeInv /\ CallInv /\ LateInv
    BY DEF KVInv
  <1>2. CASE \/ Connect(c) \/ Send(c) \/ Leave(c) \/ Receive(c) \/ ReceiveFails(c) \/ ParseExit(c)
    BY <1>1, <1>2, IdleActions
  <1>3. CASE \/ ConnectFails(c) \/ ReceiveFaults(c) \/ ParseThrows(c) \/ ParseFaults(c)
             \/ StoreLost(c)
    <2>1. Terminate
      BY <1>3 DEF ConnectFails, ReceiveFaults, ParseThrows, ParseFaults, StoreLost
    <2> QED BY <1>1, <2>1, TerminateActs
  <1>4. CASE ParseQuery(c)
    BY <1>1, <1>4, ParseActs
  <1>5. CASE Collect(c)
    BY <1>1, <1>5, CollectActs
  <1>6. CASE Reply(c)
    BY <1>1, <1>6, ReplyActs
  <1>7. CASE Serve(c)
    BY <1>1, <1>7, ServeActs
  <1>8. CASE LoseLink(c)
    BY <1>1, <1>8, LoseActs
  <1> QED BY <1>2, <1>3, <1>4, <1>5, <1>6, <1>7, <1>8 DEF Sockets

\* A restart is counted and changes no pair.
LEMMA RestartActs ==
    ASSUME Restart
    PROVE  Service!Next
  <1>1. /\ restarts' = restarts + 1
        /\ UNCHANGED << cipher, db, late, pc, cmd, req, rsp, resp >>
    BY DEF Restart, clients, server
  <1>2. UNCHANGED << Map, Strays >>
    BY <1>1, SameMap, SameStrays
  <1>3. Calls' = Calls
    <2>1. \A d \in Conns : CallOf(d)' = CallOf(d)
      BY <1>1, CallSame
    <2> QED BY <2>1 DEF Calls
  <1>4. Service!Restart
    BY <1>1, <1>2, <1>3 DEF Map, Calls, Strays, Stray, Service!Restart
  <1> QED BY <1>4 DEF Service!Next

(***************************************************************************)
(* The native controller, its wire format, the server and its store are a  *)
(* map for their clients: whatever the connections, the queries, the       *)
(* losses of connections and the restarts, a call is performed in one step *)
(* or refused, is answered with what that step saw, and one that was       *)
(* abandoned lands at most once (native_controller.cpp:handle_connection,  *)
(* rocksdb_client.hpp, message.hpp, server.cpp).                           *)
(***************************************************************************)
THEOREM ServicePromiseKept ==
    ASSUME TextsFit, TextsAreTexts, NoneIsNoData, KeysApart
    PROVE  Spec => ImplementsKV
  <1>1. Init => KVInv /\ Service!Init
    BY InitKV, ServiceInit
  <1>2. KVInv /\ [Next]_vars => KVInv'
    <2> SUFFICES ASSUME KVInv, [Next]_vars PROVE KVInv'
      OBVIOUS
    <2>1. IInv /\ SentInv /\ TypeInv /\ CallInv /\ LateInv
      BY DEF KVInv
    <2>2. IInv' /\ SentInv'
      BY <2>1, IInvNext, SentNext
    <2>3. TypeInv'
      BY <2>1, TypeNext
    <2>4. CallInv' /\ LateInv'
      BY <2>1, CallSteps, LateSteps
    <2> QED BY <2>2, <2>3, <2>4 DEF KVInv
  <1>3. KVInv /\ [Next]_vars => [Service!Next]_(Service!vars)
    <2> SUFFICES ASSUME KVInv, [Next]_vars PROVE [Service!Next]_(Service!vars)
      OBVIOUS
    <2>1. CASE \E c \in Conns :
                  \/ Connect(c) \/ ConnectFails(c) \/ Send(c) \/ Leave(c)
                  \/ ParseQuery(c) \/ ParseExit(c) \/ ParseThrows(c) \/ ParseFaults(c)
                  \/ Sockets(c)
                  \/ Serve(c) \/ LoseLink(c)
      BY <2>1, ConnActs
    <2>2. CASE ServeLate
      BY <2>2, LateActs DEF KVInv
    <2>3. CASE Restart
      BY <2>3, RestartActs
    <2>4. CASE UNCHANGED vars
      <3>1. UNCHANGED << cipher, restarts, db, late, pc, cmd, req, rsp, resp >>
        BY <2>4 DEF vars, process, clients, server
      <3>2. \A d \in Conns : CallOf(d)' = CallOf(d)
        BY <3>1, CallSame
      <3>3. UNCHANGED << Map, Calls, Strays, restarts >>
        BY <3>1, <3>2, SameMap, SameStrays DEF Calls
      <3> QED BY <3>3, Stutters
    <2> QED BY <2>1, <2>2, <2>3, <2>4 DEF Next
  <1> QED BY <1>1, <1>2, <1>3, PTL DEF Spec, ImplementsKV, Service!Spec

=============================================================================
