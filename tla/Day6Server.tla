----------------------------- MODULE Day6Server -----------------------------
(***************************************************************************)
(* The server of server/example/day6: main, Server and all the Sessions it *)
(* makes with new. A Session belongs to the handler of its one operation   *)
(* (module SessionTurns): the handler gives it to the next operation or    *)
(* deletes it. The network is that of Day7Server.                          *)
(*                                                                         *)
(* One thread runs the handlers, each on a Session of its own, so the      *)
(* order of completions does not matter: result[s] is the completion of    *)
(* the operation of Session s once it is there.                            *)
(***************************************************************************)
EXTENDS Integers, Sequences, FiniteSets

CONSTANTS
  Sessions,    (* the memory new takes Sessions from                         *)
  Clients,     (* the peers, each with one connection at a time              *)
  MaxSockets,  (* file descriptors the process may use for connections       *)
  Backlog      (* connections the kernel keeps for accept                    *)

NoClient == 0

ASSUME ServerAssumption ==
  /\ NoClient \notin Clients
  /\ MaxSockets \in Nat \ {0}
  /\ Backlog \in Nat \ {0}

VARIABLES
  server,     (* main: "starting", "serving" in ctx.run(), "ended" when    *)
              (* run() returned, or "thrown" out of it                     *)
  listening,  (* did init get through to listen()?                         *)
  alive,      (* the Sessions that were made and not deleted               *)
  op,         (* op[s]: the operation whose handler has the pointer to s   *)
  result,     (* result[s]: "none" as long as it waits, "ok" or "failed"   *)
  client,     (* client[s]: the peer its socket is connected to            *)
  link,       (* link[c]: "away", "open", "shut" (its FIN is reached) or   *)
              (* "gone" (reset) as seen from the server                    *)
  backlog     (* connections waiting to be accepted                        *)

network == <<client, link, backlog>>
vars    == <<server, listening, alive, op, result, network>>

Init ==
  /\ server = "starting"
  /\ listening = FALSE
  /\ alive = {}
  /\ op = [s \in Sessions |-> "none"]
  /\ result = [s \in Sessions |-> "none"]
  /\ client = [s \in Sessions |-> NoClient]
  /\ link = [c \in Clients |-> "away"]
  /\ backlog = <<>>

Sockets == {s \in Sessions : client[s] # NoClient}
Full    == Cardinality(Sockets) >= MaxSockets

(* The completion of an operation of s is handled.                         *)
Handles(operation, s, ok) ==
  /\ server = "serving"
  /\ op[s] = operation
  /\ result[s] = IF ok THEN "ok" ELSE "failed"

(* The handler starts the next operation of s.                             *)
Starts(operation, s) ==
  /\ op' = [op EXCEPT ![s] = operation]
  /\ result' = [result EXCEPT ![s] = "none"]

(* delete s: its socket is closed and its peer is free to connect again.   *)
Closes(s) ==
  /\ client' = [client EXCEPT ![s] = NoClient]
  /\ link' = [c \in Clients |-> IF c = client[s] THEN "away" ELSE link[c]]

Delete(s) ==
  /\ alive' = alive \ {s}
  /\ Starts("none", s)
  /\ Closes(s)

-----------------------------------------------------------------------------
(* Server                                                                  *)

(* new Session, whose pointer is bound to handle_accept; ops and results   *)
(* are what the caller has made of op and result.                          *)
start_accept(ops, results) ==
  \E new \in Sessions \ alive :
    /\ alive' = alive \cup {new}
    /\ op' = [ops EXCEPT ![new] = "accept"]
    /\ result' = [results EXCEPT ![new] = "none"]

(* main: init reports an error of open, bind or listen by returning early, *)
(* which main does not notice; then start_accept and ctx.run().            *)
Launch ==
  /\ server = "starting"
  /\ server' = "serving"
  /\ listening' \in BOOLEAN
  /\ start_accept(op, result)
  /\ UNCHANGED network

(* handle_accept with a connection: remote_endpoint() of one that is reset *)
(* already throws, out of ctx.run(), and the Session is never deleted.     *)
AcceptThrows(s) ==
  /\ Handles("accept", s, TRUE)
  /\ link[client[s]] = "gone"
  /\ server' = "thrown"
  /\ Starts("none", s)
  /\ UNCHANGED <<listening, alive, network>>

Accepted(s) ==
  /\ Handles("accept", s, TRUE)
  /\ link[client[s]] # "gone"
  /\ start_accept([op EXCEPT ![s] = "read"], [result EXCEPT ![s] = "none"])
  /\ UNCHANGED <<server, listening, network>>

(* Faulty variants: the Session is not deleted; the accept is tried again. *)
AcceptErrorLeaks(s) ==
  /\ Handles("accept", s, FALSE)
  /\ Starts("none", s)
  /\ UNCHANGED <<server, listening, alive, network>>

AcceptErrorAgain(s) ==
  /\ Handles("accept", s, FALSE)
  /\ Starts("accept", s)
  /\ UNCHANGED <<server, listening, alive, network>>

(* The return leaves out start_accept: the server accepts no more.         *)
AcceptError(s) ==
  /\ Handles("accept", s, FALSE)
  /\ Delete(s)
  /\ UNCHANGED <<server, listening, backlog>>

handle_accept(s) == AcceptThrows(s) \/ Accepted(s) \/ AcceptError(s)

(* ctx.run() returns when no operation is under way, and main with it.     *)
RunReturns ==
  /\ server = "serving"
  /\ \A s \in Sessions : op[s] = "none"
  /\ server' = "ended"
  /\ UNCHANGED <<listening, alive, op, result, network>>

-----------------------------------------------------------------------------
(* Session                                                                 *)

(* Faulty variants: it reads again; it is kept for the next connection.    *)
ReadErrorRetries(s) ==
  /\ Handles("read", s, FALSE)
  /\ Starts("read", s)
  /\ UNCHANGED <<server, listening, alive, network>>

ReadErrorReuses(s) ==
  /\ Handles("read", s, FALSE)
  /\ Starts("accept", s)
  /\ Closes(s)
  /\ UNCHANGED <<server, listening, alive, backlog>>

ReadError(s) ==
  /\ Handles("read", s, FALSE)
  /\ Delete(s)
  /\ UNCHANGED <<server, listening, backlog>>

handle_read(s) ==
  \/ ReadError(s)
  \/ /\ Handles("read", s, TRUE)
     /\ Starts("write", s)
     /\ UNCHANGED <<server, listening, alive, network>>

WriteError(s) ==
  /\ Handles("write", s, FALSE)
  /\ Delete(s)
  /\ UNCHANGED <<server, listening, backlog>>

handle_write(s) ==
  \/ WriteError(s)
  \/ /\ Handles("write", s, TRUE)
     /\ Starts("read", s)
     /\ UNCHANGED <<server, listening, alive, network>>

Handle(s) == handle_accept(s) \/ handle_read(s) \/ handle_write(s)

-----------------------------------------------------------------------------
(* The reactor performs what the sockets allow.                            *)

Waiting(operation, s) == server = "serving" /\ op[s] = operation /\ result[s] = "none"

Completes(s, ok) == result' = [result EXCEPT ![s] = IF ok THEN "ok" ELSE "failed"]

AcceptLands(s) ==
  /\ Waiting("accept", s)
  /\ backlog # <<>> /\ ~Full
  /\ client' = [client EXCEPT ![s] = Head(backlog)]
  /\ backlog' = Tail(backlog)
  /\ Completes(s, TRUE)
  /\ UNCHANGED <<server, listening, alive, op, link>>

AcceptFails(s) ==
  /\ Waiting("accept", s)
  /\ Full \/ ~listening
  /\ Completes(s, FALSE)
  /\ UNCHANGED <<server, listening, alive, op, network>>

ReadLands(s) ==
  /\ Waiting("read", s)
  /\ link[client[s]] = "open"
  /\ Completes(s, TRUE)
  /\ UNCHANGED <<server, listening, alive, op, network>>

ReadFails(s) ==
  /\ Waiting("read", s)
  /\ link[client[s]] \in {"shut", "gone"}
  /\ Completes(s, FALSE)
  /\ UNCHANGED <<server, listening, alive, op, network>>

WriteCompletes(s) ==
  /\ Waiting("write", s)
  /\ Completes(s, link[client[s]] # "gone")
  /\ UNCHANGED <<server, listening, alive, op, network>>

-----------------------------------------------------------------------------
(* The clients.                                                            *)

Connect(c) ==
  /\ server = "serving" /\ listening
  /\ link[c] = "away" /\ Len(backlog) < Backlog
  /\ link' = [link EXCEPT ![c] = "open"]
  /\ backlog' = Append(backlog, c)
  /\ UNCHANGED <<server, listening, alive, op, result, client>>

Shut(c) ==
  /\ server = "serving"
  /\ link[c] = "open"
  /\ link' = [link EXCEPT ![c] = "shut"]
  /\ UNCHANGED <<server, listening, alive, op, result, client, backlog>>

Reset(c) ==
  /\ server = "serving"
  /\ link[c] \in {"open", "shut"}
  /\ link' = [link EXCEPT ![c] = "gone"]
  /\ UNCHANGED <<server, listening, alive, op, result, client, backlog>>

Socket(s) ==
  AcceptLands(s) \/ AcceptFails(s) \/ ReadLands(s) \/ ReadFails(s) \/ WriteCompletes(s)

Next ==
  \/ Launch \/ RunReturns
  \/ \E s \in Sessions : Handle(s) \/ Socket(s)
  \/ \E c \in Clients : Connect(c) \/ Shut(c) \/ Reset(c)

Spec == Init /\ [][Next]_vars

(* ctx.run() takes completions as long as there are any, first come first  *)
(* served, and returns when nothing is left; the kernel hands out          *)
(* connections, reports ended ones, and takes what the peers that stay     *)
(* read. No client has to connect, send, or leave.                         *)
Fairness ==
  /\ WF_vars(RunReturns)
  /\ \A s \in Sessions : /\ WF_vars(Handle(s))
                         /\ WF_vars(AcceptLands(s)) /\ WF_vars(AcceptFails(s))
                         /\ WF_vars(ReadFails(s)) /\ WF_vars(WriteCompletes(s))

FairSpec == Spec /\ Fairness

-----------------------------------------------------------------------------
(* Properties.                                                             *)

(* Types, and a completion is there only for an operation under way: no    *)
(* handler takes the result of an earlier one for its own.                 *)
TypeOK ==
  /\ server \in {"starting", "serving", "ended", "thrown"}
  /\ listening \in BOOLEAN
  /\ alive \subseteq Sessions
  /\ op \in [Sessions -> {"none", "accept", "read", "write"}]
  /\ result \in [Sessions -> {"none", "ok", "failed"}]
  /\ client \in [Sessions -> Clients \cup {NoClient}]
  /\ link \in [Clients -> {"away", "open", "shut", "gone"}]
  /\ backlog \in Seq(Clients)
  /\ \A s \in Sessions : op[s] = "none" => result[s] = "none"

(* A Session is in memory exactly as long as an operation has its pointer: *)
(* no handler runs on a deleted one, none is deleted twice, and none is    *)
(* left behind when main ends, unless an exception ended it.               *)
PointersOwned == server # "thrown" => alive = {s \in Sessions : op[s] # "none"}

Accepting == {s \in Sessions : op[s] = "accept"}

(* There is never more than one accept under way; it goes on until one has *)
(* failed or an exception ends the server, and then there is none again:   *)
(* the server serves the Sessions it has and takes no other.               *)
OneAccept ==
  /\ [](\A s, t \in Accepting : s = t)
  /\ [][\/ server = "starting"
        \/ (Accepting = {}) = (Accepting' = {})
        \/ /\ Accepting' = {}
           /\ server' = "thrown" \/ \E s \in Accepting : result[s] = "failed"]_vars

(* A connection has one Session or waits in the backlog, and a Session     *)
(* that reads or writes has one: none is closed while its Session is in    *)
(* use, and none stays open when the Session is deleted.                   *)
OneSessionEach ==
  /\ \A s, t \in Sockets : client[s] = client[t] => s = t
  /\ \A s \in Sessions : op[s] \in {"read", "write"} => s \in Sockets
  /\ \A s \in Sockets : s \in alive /\ link[client[s]] # "away"
  /\ \A i \in 1..Len(backlog) : \A s \in Sockets : client[s] # backlog[i]

(* Each Session the server makes lives as SessionTurns says, through every *)
(* failure and reuse of its memory.                                        *)
Turns(s) == INSTANCE SessionTurns WITH ops <- {op[s]} \ {"none"}

SessionsTakeTurns ==
  /\ \A s \in Sessions : Turns(s)!Init
  /\ [][\A s \in Sessions : [Turns(s)!Create \/ Turns(s)!Delete \/ Turns(s)!Start
                               \/ Turns(s)!Read \/ Turns(s)!Write]_(op[s])]_op

(* When a peer has gone its Session is deleted and its socket is free for  *)
(* the next client, unless an exception ends the server.                   *)
SocketFreed ==
  \A s \in Sessions :
    (client[s] # NoClient /\ link[client[s]] \in {"shut", "gone"}) ~>
      (client[s] = NoClient \/ server = "thrown")

(* A server that cannot listen, which nobody told main, ends by itself     *)
(* instead of hanging without ever accepting; one whose accept has failed  *)
(* ends when the clients it still has are gone.                            *)
Useless ==
  \/ ~listening
  \/ Accepting = {} /\ \A s \in Sockets : link[client[s]] \in {"shut", "gone"}

EndsWhenUseless == (server = "serving" /\ Useless) ~> server = "ended"
=============================================================================
