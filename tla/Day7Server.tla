----------------------------- MODULE Day7Server -----------------------------
(***************************************************************************)
(* The server of server/example/day7: main, Server and the io_context they *)
(* share with every Session. One thread runs the handlers; the server asks *)
(* for one connection at a time, and a Session lives by the handlers that  *)
(* hold it (module SessionLife).                                           *)
(***************************************************************************)
EXTENDS Integers, Sequences, FiniteSets

CONSTANTS
  Sessions,    (* the memory Sessions are made in, reused once they are gone *)
  Clients,     (* the peers, each with one connection at a time              *)
  MaxSockets,  (* file descriptors the process may use for connections       *)
  Backlog,     (* connections the kernel keeps for accept                    *)
  MaxUnsent    (* bound on the messages in a Session's sendQueue_            *)

NoClient == 0

ASSUME ServerAssumption ==
  /\ NoClient \notin Clients
  /\ MaxSockets \in Nat \ {0}
  /\ Backlog \in Nat \ {0}
  /\ MaxUnsent \in Nat \ {0}

VARIABLES
  server,    (* main: "starting", "serving" in ctx.run(), "failed" to     *)
             (* initialize, or "thrown" out of ctx.run()                  *)
  pending,   (* pending[s]: the operations whose handlers hold Session s  *)
  unsent,    (* unsent[s]: the number of messages in its sendQueue_       *)
  ready,     (* the scheduler's queue of completions                      *)
             (* [op, session, result]                                    *)
  client,    (* client[s]: the peer its socket is connected to            *)
  link,      (* link[c]: "away", "open", "shut" (its FIN is reached) or   *)
             (* "gone" (reset) as seen from the server                    *)
  backlog    (* connections waiting to be accepted                        *)

network == <<client, link, backlog>>
vars    == <<server, pending, unsent, ready, network>>

Init ==
  /\ server = "starting"
  /\ pending = [s \in Sessions |-> {}]
  /\ unsent = [s \in Sessions |-> 0]
  /\ ready = <<>>
  /\ client = [s \in Sessions |-> NoClient]
  /\ link = [c \in Clients |-> "away"]
  /\ backlog = <<>>

Queued(op, s) == \E i \in 1..Len(ready) : ready[i].op = op /\ ready[i].session = s

(* The operation is waiting for the socket to be ready. *)
Waiting(op, s) == op \in pending[s] /\ ~Queued(op, s)

Completes(op, s, result) ==
  ready' = Append(ready, [op |-> op, session |-> s, result |-> result])

Sockets == {s \in Sessions : client[s] # NoClient}
Full    == Cardinality(Sockets) >= MaxSockets

(* The handler for op on s is taken from the queue.                        *)
Handles(op, s, result) ==
  /\ server = "serving"
  /\ ready # <<>>
  /\ Head(ready) = [op |-> op, session |-> s, result |-> result]
  /\ ready' = Tail(ready)

(* The socket of Session s is closed and its peer is free to connect again. *)
Closes(s) ==
  /\ client' = [client EXCEPT ![s] = NoClient]
  /\ link' = [c \in Clients |-> IF c = client[s] THEN "away" ELSE link[c]]

(* Faulty variant: its socket is closed whatever else is under way on it.  *)
DropCloses(op, s, messages) ==
  /\ pending' = [pending EXCEPT ![s] = @ \ {op}]
  /\ unsent' = [unsent EXCEPT ![s] = IF pending[s] = {op} THEN 0 ELSE messages]
  /\ Closes(s)

(* The handler drops its reference: with the last one the Session and its  *)
(* socket are gone. messages is what is in sendQueue_ otherwise.           *)
Drop(op, s, messages) ==
  /\ pending' = [pending EXCEPT ![s] = @ \ {op}]
  /\ \/ /\ pending[s] = {op}
        /\ unsent' = [unsent EXCEPT ![s] = 0]
        /\ Closes(s)
     \/ /\ pending[s] # {op}
        /\ unsent' = [unsent EXCEPT ![s] = messages]
        /\ UNCHANGED <<client, link>>

-----------------------------------------------------------------------------
(* Server                                                                  *)

(* make_shared<Session>, whose handler of the accept holds it; held is     *)
(* what the caller has made of pending.                                    *)
startAccept(held) ==
  \E s \in Sessions : /\ pending[s] = {}
                      /\ pending' = [held EXCEPT ![s] = {"accept"}]

(* main: init, then startAccept and ctx.run().                             *)
InitFails ==
  /\ server = "starting"
  /\ server' = "failed"
  /\ UNCHANGED <<pending, unsent, ready, network>>

Launch ==
  /\ server = "starting"
  /\ server' = "serving"
  /\ startAccept(pending)
  /\ UNCHANGED <<unsent, ready, network>>

(* handleAccept with a connection: remote_endpoint() of one that is reset  *)
(* already throws, out of ctx.run() and to the end of main.                *)
AcceptThrows(s) ==
  /\ Handles("accept", s, "ok")
  /\ link[client[s]] = "gone"
  /\ Drop("accept", s, 0)
  /\ server' = "thrown"
  /\ UNCHANGED backlog

(* Faulty variant: the next connection is not asked for.                   *)
AcceptedOnce(s) ==
  /\ Handles("accept", s, "ok")
  /\ link[client[s]] # "gone"
  /\ pending' = [pending EXCEPT ![s] = {"read"}]
  /\ UNCHANGED <<server, unsent, network>>

Accepted(s) ==
  /\ Handles("accept", s, "ok")
  /\ link[client[s]] # "gone"
  /\ startAccept([pending EXCEPT ![s] = {"read"}])
  /\ UNCHANGED <<server, unsent, network>>

(* Faulty variant: after an error no other accept is started.              *)
AcceptErrorReturns(s) ==
  /\ Handles("accept", s, "failed")
  /\ pending' = [pending EXCEPT ![s] = {}]
  /\ UNCHANGED <<server, unsent, network>>

AcceptError(s) ==
  /\ Handles("accept", s, "failed")
  /\ startAccept([pending EXCEPT ![s] = {}])
  /\ UNCHANGED <<server, unsent, network>>

handleAccept(s) == AcceptThrows(s) \/ Accepted(s) \/ AcceptError(s)

-----------------------------------------------------------------------------
(* Session, as far as the operations it starts. clearSession finds nothing *)
(* to erase: no Session is ever put into sessions_.                        *)

ReadOk(s) ==
  /\ Handles("read", s, "ok")
  /\ unsent' = [unsent EXCEPT ![s] = @ + 1]
  /\ pending' = IF unsent[s] + 1 >= 2 THEN pending
                ELSE [pending EXCEPT ![s] = @ \cup {"write"}]
  /\ UNCHANGED <<server, network>>

(* Faulty variant: the read is armed again after an error.                 *)
ReadErrorRetries(s) ==
  /\ Handles("read", s, "failed")
  /\ UNCHANGED <<server, pending, unsent, network>>

ReadError(s) ==
  /\ Handles("read", s, "failed")
  /\ Drop("read", s, unsent[s])
  /\ UNCHANGED <<server, backlog>>

handleRead(s) == ReadOk(s) \/ ReadError(s)

WriteError(s) ==
  /\ Handles("write", s, "failed")
  /\ Drop("write", s, unsent[s])
  /\ UNCHANGED <<server, backlog>>

(* Faulty variants: the queue is taken to have another message; the next   *)
(* read is armed from here.                                                *)
WriteOkRestarts(s) ==
  /\ Handles("write", s, "ok")
  /\ unsent' = [unsent EXCEPT ![s] = @ - 1]
  /\ UNCHANGED <<server, pending, network>>

WriteOkReads(s) ==
  /\ Handles("write", s, "ok")
  /\ unsent[s] = 1
  /\ unsent' = [unsent EXCEPT ![s] = 0]
  /\ pending' = [pending EXCEPT ![s] = {"read"}]
  /\ UNCHANGED <<server, network>>

(* The message is popped; if there is another one it is written next.      *)
WriteOk(s) ==
  /\ Handles("write", s, "ok")
  /\ \/ /\ unsent[s] = 1
        /\ Drop("write", s, 0)
     \/ /\ unsent[s] > 1
        /\ unsent' = [unsent EXCEPT ![s] = @ - 1]
        /\ UNCHANGED <<pending, client, link>>
  /\ UNCHANGED <<server, backlog>>

handleWrite(s) == WriteError(s) \/ WriteOk(s)

Handle == \E s \in Sessions : handleAccept(s) \/ handleRead(s) \/ handleWrite(s)

-----------------------------------------------------------------------------
(* The reactor performs what the sockets allow.                            *)

AcceptLands(s) ==
  /\ server = "serving"
  /\ Waiting("accept", s) /\ backlog # <<>> /\ ~Full
  /\ client' = [client EXCEPT ![s] = Head(backlog)]
  /\ backlog' = Tail(backlog)
  /\ Completes("accept", s, "ok")
  /\ UNCHANGED <<server, pending, unsent, link>>

AcceptFails(s) ==
  /\ server = "serving"
  /\ Waiting("accept", s) /\ Full
  /\ Completes("accept", s, "failed")
  /\ UNCHANGED <<server, pending, unsent, network>>

ReadLands(s) ==
  /\ server = "serving"
  /\ Waiting("read", s) /\ link[client[s]] = "open" /\ unsent[s] < MaxUnsent
  /\ Completes("read", s, "ok")
  /\ UNCHANGED <<server, pending, unsent, network>>

ReadFails(s) ==
  /\ server = "serving"
  /\ Waiting("read", s) /\ link[client[s]] \in {"shut", "gone"}
  /\ Completes("read", s, "failed")
  /\ UNCHANGED <<server, pending, unsent, network>>

WriteLands(s) ==
  /\ server = "serving"
  /\ Waiting("write", s)
  /\ Completes("write", s, IF link[client[s]] = "gone" THEN "failed" ELSE "ok")
  /\ UNCHANGED <<server, pending, unsent, network>>

-----------------------------------------------------------------------------
(* The clients.                                                            *)

Connect(c) ==
  /\ server = "serving"
  /\ link[c] = "away" /\ Len(backlog) < Backlog
  /\ link' = [link EXCEPT ![c] = "open"]
  /\ backlog' = Append(backlog, c)
  /\ UNCHANGED <<server, pending, unsent, ready, client>>

Shut(c) ==
  /\ server = "serving"
  /\ link[c] = "open"
  /\ link' = [link EXCEPT ![c] = "shut"]
  /\ UNCHANGED <<server, pending, unsent, ready, client, backlog>>

Reset(c) ==
  /\ server = "serving"
  /\ link[c] \in {"open", "shut"}
  /\ link' = [link EXCEPT ![c] = "gone"]
  /\ UNCHANGED <<server, pending, unsent, ready, client, backlog>>

Next ==
  \/ InitFails \/ Launch \/ Handle
  \/ \E s \in Sessions : \/ AcceptLands(s) \/ AcceptFails(s)
                         \/ ReadLands(s) \/ ReadFails(s) \/ WriteLands(s)
  \/ \E c \in Clients : Connect(c) \/ Shut(c) \/ Reset(c)

Spec == Init /\ [][Next]_vars

(* ctx.run() takes completions as long as there are any; the kernel hands  *)
(* out connections, reports ended ones, and takes what the peers that stay *)
(* read. No client has to connect, send, or leave.                         *)
Fairness ==
  /\ WF_vars(Handle)
  /\ \A s \in Sessions : /\ WF_vars(AcceptLands(s)) /\ WF_vars(AcceptFails(s))
                         /\ WF_vars(ReadFails(s)) /\ WF_vars(WriteLands(s))

FairSpec == Spec /\ Fairness

-----------------------------------------------------------------------------
(* Properties.                                                             *)

Operations == {"accept", "read", "write"}

TypeOK ==
  /\ server \in {"starting", "serving", "failed", "thrown"}
  /\ pending \in [Sessions -> SUBSET Operations]
  /\ unsent \in [Sessions -> 0..MaxUnsent]
  /\ ready \in Seq([op : Operations, session : Sessions, result : {"ok", "failed"}])
  /\ client \in [Sessions -> Clients \cup {NoClient}]
  /\ link \in [Clients -> {"away", "open", "shut", "gone"}]
  /\ backlog \in Seq(Clients)

(* Every completion in the queue is that of an operation whose handler     *)
(* holds its Session, once: no handler runs on a Session that is gone, or  *)
(* on the next one made in its memory, or twice for one operation; and a   *)
(* write is under way or has completed only while its message is queued.   *)
HandlersOnce ==
  \A n \in 1..Len(ready) :
    LET this == ready[n] IN
    /\ this.op \in pending[this.session]
    /\ this.op = "write" => unsent[this.session] > 0
    /\ \A m \in 1..Len(ready) :
         ready[m].op = this.op /\ ready[m].session = this.session => m = n

Accepting == {s \in Sessions : "accept" \in pending[s]}

(* While main is in ctx.run() it waits for one connection, never for none  *)
(* and never for two: whatever an accept ends with, the next is started.   *)
AcceptsOne == server = "serving" => \E s \in Sessions : Accepting = {s}

(* A connection has one Session or waits in the backlog, and a Session     *)
(* that reads or writes has one: none is closed while its Session is in    *)
(* use, and none is kept, or counted as open, when the Session is gone.    *)
OneSessionEach ==
  /\ \A s, t \in Sockets : client[s] = client[t] => s = t
  /\ \A s \in Sessions : {"read", "write"} \cap pending[s] # {} => s \in Sockets
  /\ \A s \in Sockets : pending[s] # {} /\ link[client[s]] # "away"
  /\ \A i \in 1..Len(backlog) : \A s \in Sockets : client[s] # backlog[i]

(* "Listen for client connections again", the comment before the last call *)
(* in handleAccept: once launched, the server waits for the next client.   *)
ListensAgain == server \in {"serving", "thrown"} => Accepting # {}

(* Each Session the server makes lives as the specification of a Session's *)
(* life says, through every accept, failure and reuse of its memory.       *)
Life(s) == INSTANCE SessionLife WITH ops <- pending[s]

SessionsLive ==
  /\ \A s \in Sessions : Life(s)!Init
  /\ [][\A s \in Sessions : [Life(s)!Next]_(pending[s])]_pending

(* A client that has connected is accepted in the end, if sockets keep     *)
(* becoming free, and unless an exception ends the server.                 *)
InBacklog(c) == \E i \in 1..Len(backlog) : backlog[i] = c

ClientAccepted ==
  []<>(~Full) => \A c \in Clients : InBacklog(c) ~> (~InBacklog(c) \/ server = "thrown")

(* When a peer has gone its Session is destroyed and its socket is free    *)
(* for the next client, unless an exception ends the server.               *)
SocketFreed ==
  \A s \in Sessions :
    (client[s] # NoClient /\ link[client[s]] \in {"shut", "gone"}) ~>
      (client[s] = NoClient \/ server = "thrown")
=============================================================================
