-------------------------- MODULE NativeController --------------------------
(***************************************************************************)
(* The controller without GDPR logic (native_controller.cpp), with all     *)
(* that is between a client and the pairs: the framing of messages on the  *)
(* client's socket (common.hpp), the receive buffer, the query parser, the *)
(* client of the rocksdb server (kv_client), the sessions of that server   *)
(* (rocksdb_server/server.cpp) and the database.  The GDPR controller uses *)
(* the same parts in the same way.                                         *)
(*                                                                         *)
(* A message is a text of QueryText; its length counts elements.  Sockets  *)
(* do not lose or reorder bytes, but a client may go away with a message   *)
(* half sent, and the connection to the server may break.                  *)
(***************************************************************************)
EXTENDS QueryText, StoreMessages, FiniteSets

CONSTANTS
    Conns,      \* connections, each with its client, thread and server session
    Texts,      \* what the client of each connection sends
    max_msg_size,
    Stores,     \* initial databases for every cipher key (or Plain)
    DbFaults,   \* BOOLEAN: may rocksdb report an error
    None,
    Breaks,     \* bound: where a message may be cut
    MaxSends,   \* bound: messages of all clients
    MaxLosses,  \* bound: broken connections to the server
    MaxRestarts \* bound: restarts of the controller by its operator

ASSUME NativeAssumption ==
    /\ max_msg_size \in Nat \ {0}
    /\ DbFaults \in BOOLEAN
    /\ Breaks \subseteq Nat
    /\ {MaxSends, MaxLosses, MaxRestarts} \subseteq Nat

VARIABLES
    cipher,   \* the db_key of the build, or Plain
    up,       \* whether the controller runs
    restarts, losses,
    db,       \* the database
    late,     \* requests in the server's sockets whose controller has gone
    client,   \* away, ready to send, waiting for an answer, or gone
    sends,    \* messages sent so far
    inbox,    \* the message on the client's socket: [size, data], data may be cut
    pc,       \* where the thread of the connection is
    buf,      \* its receive buffer, [bytes, next]: next is the connection whose buffer
              \* the terminator of a full one was written to
    cmd,      \* query_args.cmd()
    link,     \* whether the connection to the server stands
    req, rsp, \* the request and the response on that connection
    resp      \* the response to the client

process == << cipher, up, restarts >>
clients == << client, sends, inbox >>
server == << losses, link, late >>
vars == << process, server, clients, db, pc, buf, cmd, req, rsp, resp >>

\* common.hpp
GET_FAILED      == <<"0">>
PUT_SUCCESS     == <<"1">>
PUT_FAILED      == <<"2">>
DELETE_SUCCESS  == <<"3">>
DELETE_FAILED   == <<"4">>
INVALID_COMMAND == <<"9">>

Nul == "nul"
\* What mmap returns.
Zeroed == [bytes |-> [i \in 1..max_msg_size |-> Nul], next |-> None]

Init ==
    /\ cipher \in DOMAIN Stores
    /\ up = TRUE
    /\ restarts = 0
    /\ losses = 0
    /\ db \in Stores[cipher]
    /\ late = {}
    /\ client = [c \in Conns |-> "away"]
    /\ sends = 0
    /\ inbox = [c \in Conns |-> None]
    /\ pc = [c \in Conns |-> "closed"]
    /\ buf = [c \in Conns |-> Zeroed]
    /\ cmd = [c \in Conns |-> << >>]
    /\ link = [c \in Conns |-> FALSE]
    /\ req = [c \in Conns |-> None]
    /\ rsp = [c \in Conns |-> None]
    /\ resp = [c \in Conns |-> None]

-----------------------------------------------------------------------------
(* The end of a thread and of the process.                                 *)

\* Mutant: the socket is not closed.
CloseKeepsSocket(c) ==
    /\ pc' = [pc EXCEPT ![c] = "closed"]
    /\ client' = client
    /\ inbox' = [inbox EXCEPT ![c] = None]
    /\ buf' = [buf EXCEPT ![c] = Zeroed]
    /\ cmd' = [cmd EXCEPT ![c] = << >>]
    /\ link' = [link EXCEPT ![c] = FALSE]
    /\ resp' = [resp EXCEPT ![c] = None]

\* The thread leaves its loop: buffer unmapped, both sockets closed.
Close(c) ==
    /\ pc' = [pc EXCEPT ![c] = "closed"]
    /\ client' = [client EXCEPT ![c] = "away"]
    /\ inbox' = [inbox EXCEPT ![c] = None]
    /\ buf' = [buf EXCEPT ![c] = Zeroed]
    /\ cmd' = [cmd EXCEPT ![c] = << >>]
    /\ link' = [link EXCEPT ![c] = FALSE]
    /\ resp' = [resp EXCEPT ![c] = None]

\* A request that the server has not read yet survives its sender.
Abandoned(c) == [conn |-> c, epoch |-> restarts, raw |-> req[c]]

\* Nobody catches what leaves a thread; the kernel closes every socket.
Terminate ==
    /\ up' = FALSE
    /\ pc' = [c \in Conns |-> "closed"]
    /\ client' = [c \in Conns |-> "away"]
    /\ inbox' = [c \in Conns |-> None]
    /\ buf' = [c \in Conns |-> Zeroed]
    /\ cmd' = [c \in Conns |-> << >>]
    /\ link' = [c \in Conns |-> FALSE]
    /\ req' = [c \in Conns |-> None]
    /\ rsp' = [c \in Conns |-> None]
    /\ resp' = [c \in Conns |-> None]
    /\ late' = late \cup {Abandoned(c) : c \in {d \in Conns : req[d] # None}}
    /\ UNCHANGED << cipher, restarts, losses, db, sends >>

Restart ==
    /\ ~up
    /\ restarts < MaxRestarts
    /\ up' = TRUE
    /\ restarts' = restarts + 1
    /\ UNCHANGED << cipher, server, clients, db, pc, buf, cmd, req, rsp, resp >>

-----------------------------------------------------------------------------
(* Clients.                                                                *)

\* The client connects; the thread maps its buffer and connects to the server.
Connect(c) ==
    /\ up
    /\ client[c] = "away"
    /\ client' = [client EXCEPT ![c] = "ready"]
    /\ pc' = [pc EXCEPT ![c] = "receive"]
    /\ link' = [link EXCEPT ![c] = TRUE]
    /\ UNCHANGED << process, losses, late, sends, inbox, db, buf, cmd, req, rsp, resp >>

\* kv_factory::create throws if there is no server.
ConnectFails(c) ==
    /\ up
    /\ client[c] = "away"
    /\ losses < MaxLosses
    /\ Terminate

Send(c) ==
    /\ client[c] = "ready"
    /\ sends < MaxSends
    /\ \E t \in Texts[c] : inbox' = [inbox EXCEPT ![c] = [size |-> Len(t), data |-> t]]
    /\ client' = [client EXCEPT ![c] = "waiting"]
    /\ sends' = sends + 1
    /\ UNCHANGED << process, server, db, pc, buf, cmd, req, rsp, resp >>

CutAt(t, n) == SubSeq(t, 1, IF n < Len(t) THEN n ELSE Len(t))

\* The client goes away; of a message on its way any part may have been sent.
Leave(c) ==
    /\ client[c] \in {"ready", "waiting"}
    /\ client' = [client EXCEPT ![c] = "gone"]
    /\ IF inbox[c] = None THEN UNCHANGED inbox
       ELSE \E n \in Breaks \cup {max_msg_size} :
                inbox' = [inbox EXCEPT ![c].data = CutAt(@, n)]
    /\ UNCHANGED << process, server, sends, db, pc, buf, cmd, req, rsp, resp >>

-----------------------------------------------------------------------------
(* safe_sock_receive and the buffer.                                       *)

\* Mutant: the message is not terminated.
DepositUnterminated(b, text) ==
    [bytes |-> [i \in 1..max_msg_size |-> IF i <= Len(text) THEN text[i] ELSE b.bytes[i]],
     next  |-> None]

\* The message is written over the previous one and terminated, if there is room.
Deposit(b, text) ==
    [bytes |-> [i \in 1..max_msg_size |-> IF i <= Len(text) THEN text[i]
                                          ELSE IF i = Len(text) + 1 THEN Nul ELSE b.bytes[i]],
     next  |-> None]

\* A C string ends at its first zero, which may be in the next buffer by now.
UpToNul(bytes) == between(bytes, 1, find(bytes, Nul, 1))
CString(c) ==
    UpToNul(IF buf[c].next = None THEN buf[c].bytes ELSE buf[c].bytes \o buf[buf[c].next].bytes)

\* A size above the limit, or none: recv has returned 0 or nothing follows it.
\* In the second case the size is not initialised; whatever it is, the call
\* does not return a positive number.
ReceiveFails(c) ==
    /\ pc[c] = "receive"
    /\ IF inbox[c] = None THEN client[c] = "gone"
       ELSE inbox[c].size > max_msg_size \/ inbox[c].data = << >>
    /\ Close(c)
    /\ UNCHANGED << process, losses, late, sends, db, req, rsp >>

\* recvmsg returns the bytes there are when the client has gone, which is taken
\* for success.
Receive(c) ==
    /\ pc[c] = "receive"
    /\ inbox[c] # None
    /\ inbox[c].size <= max_msg_size
    /\ inbox[c].data # << >>
    /\ LET b == [buf EXCEPT ![c] = Deposit(@, inbox[c].data)] IN
          \/ buf' = b
             \* The terminator of a full buffer is written behind it: into a page
             \* that nobody writes, or into the buffer of another thread.
          \/ /\ Len(inbox[c].data) = max_msg_size
             /\ \E d \in Conns \ {c} :
                   pc[d] # "closed" /\ buf' = [b EXCEPT ![c].next = d, ![d].bytes[1] = Nul]
    /\ pc' = [pc EXCEPT ![c] = "parse"]
    /\ inbox' = [inbox EXCEPT ![c] = None]
    /\ UNCHANGED << process, server, client, sends, db, cmd, req, rsp, resp >>

\* ... or there is no page behind the buffer.
ReceiveFaults(c) ==
    /\ pc[c] = "receive"
    /\ inbox[c] # None
    /\ inbox[c].size = max_msg_size
    /\ Len(inbox[c].data) = max_msg_size
    /\ Terminate

-----------------------------------------------------------------------------
(* handle_connection and the handlers.                                     *)

Received(c) == Parse(CString(c))

StoreCommand(q) == q.cmd \in {<<"get">>, <<"put">>, <<"delete">>}

\* The request of handle_get, handle_put or handle_delete.
RequestOf(q, key) ==
    request(key, IF q.cmd = <<"delete">> THEN "del" ELSE q.cmd[1], q.key, q.value)

\* The request is sent; on a broken connection the write fails or is lost.
ParseQuery(c) ==
    /\ pc[c] = "parse"
    /\ LET q == Received(c) IN
          /\ ~q.throws
          /\ q.cmd # <<"exit">>
          /\ cmd' = [cmd EXCEPT ![c] = q.cmd]
          /\ IF StoreCommand(q)
             THEN /\ pc' = [pc EXCEPT ![c] = "store"]
                  /\ req' = IF link[c]
                            THEN [req EXCEPT ![c] = serialize(RequestOf(q, cipher))] ELSE req
                  /\ UNCHANGED resp
             ELSE /\ pc' = [pc EXCEPT ![c] = "send"]
                  /\ resp' = [resp EXCEPT ![c] = INVALID_COMMAND]
                  /\ UNCHANGED req
    /\ UNCHANGED << process, server, clients, db, buf, rsp >>

ParseExit(c) ==
    /\ pc[c] = "parse"
    /\ LET q == Received(c) IN ~q.throws /\ q.cmd = <<"exit">>
    /\ Close(c)
    /\ UNCHANGED << process, losses, late, sends, db, req, rsp >>

ParseThrows(c) ==
    /\ pc[c] = "parse"
    /\ Received(c).throws
    /\ Terminate

\* The text goes on in a buffer that has been unmapped.
ParseFaults(c) ==
    /\ pc[c] = "parse"
    /\ buf[c].next # None
    /\ pc[buf[c].next] = "closed"
    /\ Terminate

\* What the handler makes of the server's response.
AnswerTo(command, r) ==
    CASE command = <<"get">> ->
             IF retrieved(cipher, r) THEN decrypt(cipher, r.data) ELSE GET_FAILED
      [] command = <<"put">> -> IF r.is_success THEN PUT_SUCCESS ELSE PUT_FAILED
      [] OTHER -> IF r.is_success THEN DELETE_SUCCESS ELSE DELETE_FAILED

\* Mutant: the response is looked at and left on the socket.
CollectLeaves(c) ==
    /\ pc[c] = "store"
    /\ rsp[c] # None
    /\ resp' = [resp EXCEPT ![c] = AnswerTo(cmd[c], deserialize_response(rsp[c]))]
    /\ pc' = [pc EXCEPT ![c] = "send"]
    /\ UNCHANGED << process, server, clients, db, buf, cmd, req, rsp >>

Collect(c) ==
    /\ pc[c] = "store"
    /\ rsp[c] # None
    /\ resp' = [resp EXCEPT ![c] = AnswerTo(cmd[c], deserialize_response(rsp[c]))]
    /\ rsp' = [rsp EXCEPT ![c] = None]
    /\ pc' = [pc EXCEPT ![c] = "send"]
    /\ UNCHANGED << process, server, clients, db, buf, cmd, req >>

\* Mutant: the handler catches the exception and reads again.
StoreLostRetried(c) == FALSE

\* boost::asio::read or write throws.
StoreLost(c) ==
    /\ pc[c] = "store"
    /\ ~link[c]
    /\ rsp[c] = None
    /\ Terminate

\* The answer of a client that has gone is lost, or sending it fails.
Reply(c) ==
    /\ pc[c] = "send"
    /\ \/ /\ Len(resp[c]) <= max_msg_size
          /\ pc' = [pc EXCEPT ![c] = "receive"]
          /\ resp' = [resp EXCEPT ![c] = None]
          /\ cmd' = [cmd EXCEPT ![c] = << >>]
          /\ client' = [client EXCEPT ![c] = IF @ = "gone" THEN @ ELSE "ready"]
          /\ UNCHANGED << inbox, buf, link >>
       \/ /\ Len(resp[c]) > max_msg_size \/ client[c] = "gone"
          /\ Close(c)
    /\ UNCHANGED << process, losses, late, sends, db, req, rsp >>

-----------------------------------------------------------------------------
(* The server: a session reads a request, executes it and writes its response. *)

Results == {TRUE, ~DbFaults}

Serve(c) ==
    /\ req[c] # None
    /\ \E ok \in Results : LET m == deserialize(req[c]) IN
          /\ db' = execute(db, m, ok)
          /\ rsp' = [rsp EXCEPT ![c] = serialize_response(outcome(db, m, ok))]
    /\ req' = [req EXCEPT ![c] = None]
    /\ UNCHANGED << process, server, clients, pc, buf, cmd, resp >>

\* A session whose controller has gone still finds the request in its socket.
ServeLate ==
    /\ \E r \in late :
          /\ \E ok \in Results : db' = execute(db, deserialize(r.raw), ok)
          /\ late' = late \ {r}
    /\ UNCHANGED << process, losses, link, clients, pc, buf, cmd, req, rsp, resp >>

\* The connection breaks, or the session ends with an error: what is on its way
\* arrives or not.
LoseLink(c) ==
    /\ link[c]
    /\ losses < MaxLosses
    /\ losses' = losses + 1
    /\ link' = [link EXCEPT ![c] = FALSE]
    /\ late' \in {late} \cup (IF req[c] = None THEN {} ELSE {late \cup {Abandoned(c)}})
    /\ req' = [req EXCEPT ![c] = None]
    /\ rsp' \in {rsp, [rsp EXCEPT ![c] = None]}
    /\ UNCHANGED << process, clients, db, pc, buf, cmd, resp >>

-----------------------------------------------------------------------------

Sockets(c) ==
    \/ Receive(c) \/ ReceiveFaults(c) \/ ReceiveFails(c)
    \/ Collect(c) \/ StoreLost(c) \/ Reply(c)

Next ==
    \/ \E c \in Conns :
          \/ Connect(c) \/ ConnectFails(c) \/ Send(c) \/ Leave(c)
          \/ ParseQuery(c) \/ ParseExit(c) \/ ParseThrows(c) \/ ParseFaults(c)
          \/ Sockets(c)
          \/ Serve(c) \/ LoseLink(c)
    \/ ServeLate \/ Restart

Spec == Init /\ [][Next]_vars

\* Threads and sessions are scheduled; a blocked socket call returns when its
\* bytes are there or the connection is closed.  One parse action is always
\* enabled at "parse", so that weak fairness of them says that pc leaves it.
FairSpec ==
    /\ Spec
    /\ \A c \in Conns :
          WF_vars(Sockets(c)) /\ WF_vars(Serve(c)) /\ []<>(pc[c] # "parse")

-----------------------------------------------------------------------------
(* Properties.                                                             *)

(***************************************************************************)
(* Buffers keep their size; a thread and its socket end together; who      *)
(* waits for an answer has a message on the socket or a thread at work.    *)
(***************************************************************************)
TypeOK ==
    /\ up \in BOOLEAN
    /\ restarts \in 0..MaxRestarts
    /\ losses \in 0..MaxLosses
    /\ sends \in 0..MaxSends
    /\ client \in [Conns -> {"away", "ready", "waiting", "gone"}]
    /\ pc \in [Conns -> {"closed", "receive", "parse", "store", "send"}]
    /\ \A c \in Conns :
          /\ DOMAIN buf[c].bytes = 1..max_msg_size
          /\ resp[c] # None <=> pc[c] = "send"
          /\ pc[c] = "closed" <=> client[c] = "away"
          /\ client[c] = "waiting" => (pc[c] = "receive" <=> inbox[c] # None)

(***************************************************************************)
(* A connection to the server carries one request or its response, and     *)
(* only while a handler waits for it: what rocksdb_client reads next is    *)
(* never the answer to an earlier query, whatever failed in between.       *)
(***************************************************************************)
OneRequest ==
    \A c \in Conns :
        /\ (req[c] # None \/ rsp[c] # None) => pc[c] = "store"
        /\ req[c] # None => rsp[c] = None /\ link[c]

(***************************************************************************)
(* Whatever the database has beyond what it started with was asked for: by *)
(* a client's message, or by what had come of it when the client went      *)
(* away.  No message is mixed with the one before it in the buffer.        *)
(***************************************************************************)
AllTexts == UNION {Texts[c] : c \in Conns}

Said == {Parse(CutAt(t, n)) : t \in AllTexts, n \in Breaks \cup {max_msg_size}}

Requests == [key \in DOMAIN Stores |->
                {serialize(RequestOf(q, key)) : q \in {p \in Said : ~p.throws /\ StoreCommand(p)}}]

Writes == [key \in DOMAIN Stores |->
              {<< m.key, m.value >> : m \in {deserialize(raw) : raw \in Requests[key]}}]

StoredPairsWereSent ==
    \A k \in DOMAIN db :
        \/ \E old \in Stores[cipher] : k \in DOMAIN old /\ old[k] = db[k]
        \/ << k, db[k] >> \in Writes[cipher]

(***************************************************************************)
(* A client that waits gets its answer or sees its connection closed, also *)
(* when the server, the controller or another client fails.                *)
(***************************************************************************)
EveryClientReleased == \A c \in Conns : client[c] = "waiting" ~> client[c] # "waiting"

(***************************************************************************)
(* The controller is a map for its clients: every answer is the result of  *)
(* one execution of the query, at one moment between its arrival and the   *)
(* answer, and a query without an answer is executed at most once.         *)
(***************************************************************************)
OpOf(key, raw) ==
    [deserialize(raw) EXCEPT !.command = raw[1],
                             !.value = IF @ = << >> THEN @ ELSE decrypt(key, @)]

AllOps == UNION {{OpOf(key, raw) : raw \in Requests[key]} : key \in DOMAIN Stores}

Readable == {k \in DOMAIN db : Decryptable(cipher, db[k])}

CallOf(c) ==
    CASE pc[c] = "send" -> [state |-> "done", result |-> resp[c]]
      [] pc[c] = "store" ->
             IF req[c] # None THEN [state |-> "asked", op |-> OpOf(cipher, req[c])]
             ELSE IF rsp[c] # None
             THEN [state |-> "done", result |-> AnswerTo(cmd[c], deserialize_response(rsp[c]))]
             ELSE [state |-> "lost"]
      [] OTHER -> [state |-> "idle"]

Service == INSTANCE KVService WITH
    pairs    <- [k \in Readable |-> decrypt(cipher, db[k])],
    call     <- [c \in Conns |-> CallOf(c)],
    strays   <- {[conn |-> r.conn, epoch |-> r.epoch, op |-> OpOf(cipher, r.raw)] : r \in late},
    crashes  <- restarts,
    Ops      <- AllOps

ImplementsKV == Service!Spec

=============================================================================
