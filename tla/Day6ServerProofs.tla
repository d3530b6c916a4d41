-------------------------- MODULE Day6ServerProofs --------------------------
(***************************************************************************)
(* What holds of the day6 server for any number of Sessions, clients and   *)
(* sockets: the raw pointers are owned, at most one accept is under way,   *)
(* connections and Sessions belong together, and Sessions take turns.      *)
(***************************************************************************)
EXTENDS Day6Server, SequenceTheorems, TLAPS

-----------------------------------------------------------------------------
(* The inductive invariant.                                                *)

(* PointersOwned, of which one half stays when an exception ends main.     *)
Owned ==
  /\ \A s \in Sessions : op[s] # "none" => s \in alive
  /\ server # "thrown" => \A s \in alive : op[s] # "none"
  /\ server = "starting" => \A s \in Sessions : op[s] = "none"

AtMostOneAccept ==
  \A s, t \in Sessions : (op[s] = "accept" /\ op[t] = "accept") => s = t

(* The socket of an accept is connected when its completion says so.       *)
Results ==
  \A s \in Sessions :
    /\ op[s] = "accept" => (result[s] = "ok" <=> client[s] # NoClient)
    /\ op[s] \in {"read", "write"} => client[s] # NoClient

Connected ==
  \A s \in Sessions :
    client[s] # NoClient =>
      /\ s \in alive
      /\ link[client[s]] # "away"
      /\ \A t \in Sessions : client[t] = client[s] => t = s

(* The backlog holds connections nobody has accepted, each once.           *)
Backlogged ==
  \A i \in 1..Len(backlog) :
    /\ link[backlog[i]] # "away"
    /\ \A s \in Sessions : client[s] # backlog[i]
    /\ \A j \in 1..Len(backlog) : backlog[i] = backlog[j] => i = j

Inv ==
  /\ TypeOK
  /\ Owned
  /\ AtMostOneAccept
  /\ Results
  /\ Connected
  /\ Backlogged

-----------------------------------------------------------------------------
(* Initially there is no Session and no connection. *)
LEMMA InitInv == Init => Inv
<1> SUFFICES ASSUME Init PROVE Inv
  OBVIOUS
<1> USE ServerAssumption DEF Init
<1>1. TypeOK
  <2>1. listening \in BOOLEAN
    BY Zenon
  <2>2. backlog \in Seq(Clients)
    OBVIOUS
  <2> QED BY <2>1, <2>2 DEF TypeOK
<1>2. Owned /\ AtMostOneAccept /\ Results /\ Connected
  BY DEF Owned, AtMostOneAccept, Results, Connected
<1>3. Backlogged
  BY DEF Backlogged
<1> QED BY <1>1, <1>2, <1>3 DEF Inv

(* A handler that starts the next operation and leaves the network alone.  *)
LEMMA StartsInv ==
  ASSUME Inv, NEW s \in Sessions, NEW operation \in {"read", "write"},
         Starts(operation, s), s \in alive, client[s] # NoClient,
         server = "serving", UNCHANGED <<server, listening, alive, network>>
  PROVE  Inv'
<1> USE DEF Starts, network, Inv
<1>1. TypeOK'
  BY DEF TypeOK
<1>2. Owned' /\ AtMostOneAccept' /\ Results'
  BY DEF TypeOK, Owned, AtMostOneAccept, Results
<1>3. Connected' /\ Backlogged'
  BY DEF Connected, Backlogged
<1> QED BY <1>1, <1>2, <1>3

(* A handler that deletes its Session: the peer it was connected to can    *)
(* connect again, and is neither in the backlog nor at another Session.    *)
LEMMA DeleteInv ==
  ASSUME Inv, NEW s \in Sessions, Delete(s), server = "serving",
         UNCHANGED <<server, listening, backlog>>
  PROVE  Inv'
<1> USE DEF Delete, Starts, Closes
<1>1. TypeOK /\ Owned /\ AtMostOneAccept /\ Results /\ Connected /\ Backlogged
  BY DEF Inv
<1>2. TypeOK'
  BY <1>1 DEF TypeOK
<1>3. Owned' /\ AtMostOneAccept'
  BY <1>1 DEF TypeOK, Owned, AtMostOneAccept
<1>4. Results'
  BY <1>1 DEF TypeOK, Results
<1>5. Connected'
  <2> SUFFICES ASSUME NEW t \in Sessions, client'[t] # NoClient
               PROVE  /\ t \in alive'
                      /\ link'[client'[t]] # "away"
                      /\ \A u \in Sessions : client'[u] = client'[t] => u = t
    BY DEF Connected
  <2>1. t # s /\ client'[t] = client[t] /\ client[t] # client[s] /\ client[t] \in Clients
    BY <1>1 DEF TypeOK, Connected
  <2>2. t \in alive /\ link[client[t]] # "away" /\ \A u \in Sessions : client[u] = client[t] => u = t
    BY <1>1, <2>1 DEF Connected
  <2>3. link'[client'[t]] = link[client[t]]
    BY <2>1
  <2>4. \A u \in Sessions : client'[u] = client'[t] => u = t
    BY <1>1, <2>1, <2>2 DEF TypeOK
  <2> QED BY <2>1, <2>2, <2>3, <2>4
<1>6. Backlogged'
  <2> SUFFICES ASSUME NEW i \in 1..Len(backlog)
               PROVE  /\ link'[backlog[i]] # "away"
                      /\ \A t \in Sessions : client'[t] # backlog[i]
                      /\ \A j \in 1..Len(backlog) : backlog[i] = backlog[j] => i = j
    BY DEF Backlogged
  <2>1. backlog[i] \in Clients
    BY <1>1 DEF TypeOK
  <2>2. /\ link[backlog[i]] # "away"
        /\ \A t \in Sessions : client[t] # backlog[i]
        /\ \A j \in 1..Len(backlog) : backlog[i] = backlog[j] => i = j
    BY <1>1 DEF Backlogged
  <2>3. \A t \in Sessions : client'[t] # backlog[i]
    BY <1>1, <2>1, <2>2, ServerAssumption DEF TypeOK
  <2> QED BY <2>1, <2>2, <2>3
<1> QED BY <1>2, <1>3, <1>4, <1>5, <1>6 DEF Inv

(* A Session is made for the next accept when none is under way.           *)
LEMMA LaunchInv == Inv /\ Launch => Inv'
<1> SUFFICES ASSUME Inv, Launch PROVE Inv'
  OBVIOUS
<1>1. PICK new \in Sessions \ alive :
        /\ alive' = alive \cup {new}
        /\ op' = [op EXCEPT ![new] = "accept"]
        /\ result' = [result EXCEPT ![new] = "none"]
  BY DEF Launch, start_accept
<1>2. server = "starting" /\ server' = "serving" /\ listening' \in BOOLEAN /\ UNCHANGED network
  BY DEF Launch
<1>3. TypeOK /\ Owned /\ AtMostOneAccept /\ Results /\ Connected /\ Backlogged
  BY DEF Inv
<1>4. TypeOK'
  BY <1>1, <1>2, <1>3 DEF TypeOK, network
<1>5. Owned' /\ AtMostOneAccept'
  BY <1>1, <1>2, <1>3 DEF TypeOK, Owned, AtMostOneAccept
<1>6. client[new] = NoClient
  BY <1>1, <1>3 DEF Connected
<1>7. Results' /\ Connected' /\ Backlogged'
  BY <1>1, <1>2, <1>3, <1>6 DEF TypeOK, Results, Connected, Backlogged, network
<1> QED BY <1>4, <1>5, <1>7 DEF Inv

LEMMA AcceptedInv == ASSUME Inv, NEW s \in Sessions, Accepted(s) PROVE Inv'
<1>1. PICK new \in Sessions \ alive :
        /\ alive' = alive \cup {new}
        /\ op' = [[op EXCEPT ![s] = "read"] EXCEPT ![new] = "accept"]
        /\ result' = [[result EXCEPT ![s] = "none"] EXCEPT ![new] = "none"]
  BY DEF Accepted, start_accept
<1>2. /\ server = "serving" /\ op[s] = "accept" /\ result[s] = "ok"
      /\ UNCHANGED <<server, listening, network>>
  BY DEF Accepted, Handles
<1>3. TypeOK /\ Owned /\ AtMostOneAccept /\ Results /\ Connected /\ Backlogged
  BY DEF Inv
<1>4. client[new] = NoClient /\ client[s] # NoClient /\ s # new
  BY <1>1, <1>2, <1>3 DEF Connected, Results, Owned
<1>5. \A t \in Sessions :
        /\ op'[t] = IF t = new THEN "accept" ELSE IF t = s THEN "read" ELSE op[t]
        /\ result'[t] = IF t \in {s, new} THEN "none" ELSE result[t]
  BY <1>1, <1>3, <1>4 DEF TypeOK
<1>6. TypeOK'
  <2>1. op' \in [Sessions -> {"none", "accept", "read", "write"}]
    BY <1>1, <1>3 DEF TypeOK
  <2>2. result' \in [Sessions -> {"none", "ok", "failed"}]
    BY <1>1, <1>3 DEF TypeOK
  <2> QED BY <1>1, <1>2, <1>3, <1>5, <2>1, <2>2 DEF TypeOK, network
<1>7. Owned'
  BY <1>1, <1>2, <1>3, <1>5 DEF TypeOK, Owned
<1>8. AtMostOneAccept'
  BY <1>2, <1>3, <1>5 DEF AtMostOneAccept
<1>9. Results'
  BY <1>2, <1>3, <1>4, <1>5 DEF Results, network
<1>10. Connected' /\ Backlogged'
  BY <1>1, <1>2, <1>3 DEF Connected, Backlogged, network
<1> QED BY <1>6, <1>7, <1>8, <1>9, <1>10 DEF Inv

LEMMA HandleInv == ASSUME Inv, NEW s \in Sessions, Handle(s) PROVE Inv'
<1>1. op[s] # "none" /\ server = "serving" /\ s \in alive
  BY DEF Handle, handle_accept, handle_read, handle_write, AcceptThrows, Accepted, AcceptError,
         ReadError, WriteError, Handles, Inv, Owned
<1>2. CASE AcceptThrows(s)
  <2>1. /\ server' = "thrown" /\ Starts("none", s)
        /\ UNCHANGED <<listening, alive, network>>
    BY <1>2 DEF AcceptThrows
  <2>2. TypeOK' /\ Owned' /\ AtMostOneAccept' /\ Results'
    BY <2>1 DEF Starts, network, Inv, TypeOK, Owned, AtMostOneAccept, Results
  <2>3. Connected' /\ Backlogged'
    BY <2>1 DEF network, Inv, Connected, Backlogged
  <2> QED BY <2>2, <2>3 DEF Inv
<1>3. CASE Accepted(s)
  BY <1>3, AcceptedInv
<1>4. CASE AcceptError(s) \/ ReadError(s) \/ WriteError(s)
  <2>1. Delete(s) /\ UNCHANGED <<server, listening, backlog>>
    BY <1>4 DEF AcceptError, ReadError, WriteError
  <2> QED BY <1>1, <2>1, DeleteInv
<1>5. ASSUME NEW operation \in {"read", "write"}, op[s] \in {"read", "write"},
             Starts(operation, s), UNCHANGED <<server, listening, alive, network>>
      PROVE  Inv'
  <2>1. client[s] # NoClient
    BY <1>5 DEF Inv, Results
  <2> QED BY <1>1, <1>5, <2>1, StartsInv
<1>6. CASE handle_read(s) /\ ~ReadError(s)
  <2>1. /\ op[s] = "read" /\ Starts("write", s)
        /\ UNCHANGED <<server, listening, alive, network>>
    BY <1>6 DEF handle_read, Handles
  <2> QED BY <1>5, <2>1
<1>7. CASE handle_write(s) /\ ~WriteError(s)
  <2>1. /\ op[s] = "write" /\ Starts("read", s)
        /\ UNCHANGED <<server, listening, alive, network>>
    BY <1>7 DEF handle_write, Handles
  <2> QED BY <1>5, <2>1
<1> QED BY <1>2, <1>3, <1>4, <1>6, <1>7 DEF Handle, handle_accept, handle_read, handle_write

(* A connection leaves the backlog for the one Session that accepts.       *)
LEMMA AcceptLandsInv == ASSUME Inv, NEW s \in Sessions, AcceptLands(s) PROVE Inv'
<1> DEFINE c == Head(backlog)
<1>1. /\ op[s] = "accept" /\ result[s] = "none" /\ backlog # <<>>
      /\ client' = [client EXCEPT ![s] = c]
      /\ backlog' = Tail(backlog)
      /\ result' = [result EXCEPT ![s] = "ok"]
      /\ UNCHANGED <<server, listening, alive, op, link>>
  BY DEF AcceptLands, Waiting, Completes
<1>2. TypeOK /\ Owned /\ AtMostOneAccept /\ Results /\ Connected /\ Backlogged
  BY DEF Inv
<1>3. /\ Len(backlog) \in Nat \ {0} /\ c = backlog[1] /\ c \in Clients
      /\ Tail(backlog) \in Seq(Clients) /\ Len(Tail(backlog)) = Len(backlog) - 1
      /\ \A i \in 1..Len(Tail(backlog)) : Tail(backlog)[i] = backlog[i + 1]
  <2>1. backlog \in Seq(Clients) /\ backlog # <<>>
    BY <1>1, <1>2 DEF TypeOK
  <2>2. Len(backlog) \in Nat \ {0} /\ c = backlog[1] /\ c \in Clients
    BY <2>1, EmptySeq, HeadTailProperties
  <2>3. /\ Tail(backlog) \in Seq(Clients) /\ Len(Tail(backlog)) = Len(backlog) - 1
        /\ \A i \in 1..Len(Tail(backlog)) : Tail(backlog)[i] = backlog[i + 1]
    BY <2>1, HeadTailProperties
  <2> QED BY <2>2, <2>3
<1>4. link[c] # "away" /\ \A t \in Sessions : client[t] # c
  BY <1>2, <1>3 DEF Backlogged
<1>5. c # NoClient /\ client[s] = NoClient /\ s \in alive
  BY <1>1, <1>2, <1>3, ServerAssumption DEF Results, Owned
<1>6. TypeOK'
  BY <1>1, <1>2, <1>3 DEF TypeOK
<1>7. Owned' /\ AtMostOneAccept'
  BY <1>1, <1>2 DEF Owned, AtMostOneAccept
<1>8. Results'
  BY <1>1, <1>2, <1>5 DEF Results, TypeOK
<1>9. Connected'
  BY <1>1, <1>2, <1>4, <1>5 DEF Connected, TypeOK
<1>10. Backlogged'
  <2> SUFFICES ASSUME NEW i \in 1..Len(backlog')
               PROVE  /\ link[backlog'[i]] # "away"
                      /\ \A t \in Sessions : client'[t] # backlog'[i]
                      /\ \A j \in 1..Len(backlog') : backlog'[i] = backlog'[j] => i = j
    BY <1>1 DEF Backlogged
  <2>1. i + 1 \in 1..Len(backlog) /\ 1 \in 1..Len(backlog) /\ i + 1 # 1 /\ backlog'[i] = backlog[i + 1]
    BY <1>1, <1>3
  <2>2. /\ link[backlog[i + 1]] # "away"
        /\ \A t \in Sessions : client[t] # backlog[i + 1]
        /\ \A j \in 1..Len(backlog) : backlog[i + 1] = backlog[j] => i + 1 = j
    BY <1>2, <2>1 DEF Backlogged
  <2>3. backlog[i + 1] # c
    BY <1>3, <2>1, <2>2
  <2>4. \A t \in Sessions : client'[t] # backlog'[i]
    BY <1>1, <1>2, <2>1, <2>2, <2>3 DEF TypeOK
  <2>5. ASSUME NEW j \in 1..Len(backlog'), backlog'[i] = backlog'[j] PROVE i = j
    <3>1. j + 1 \in 1..Len(backlog) /\ backlog'[j] = backlog[j + 1]
      BY <1>1, <1>3
    <3>2. i + 1 = j + 1
      BY <2>1, <2>2, <2>5, <3>1
    <3> QED BY <3>2
  <2> QED BY <2>1, <2>2, <2>4, <2>5
<1> QED BY <1>6, <1>7, <1>8, <1>9, <1>10 DEF Inv

(* The other completions change nothing but the result; that of an accept  *)
(* which fails leaves its socket unconnected.                              *)
LEMMA SocketInv == ASSUME Inv, NEW s \in Sessions, Socket(s) PROVE Inv'
<1>1. CASE AcceptLands(s)
  BY <1>1, AcceptLandsInv
<1>2. CASE AcceptFails(s) \/ ReadLands(s) \/ ReadFails(s) \/ WriteCompletes(s)
  <2>1. PICK r \in {"ok", "failed"} :
          /\ result' = [result EXCEPT ![s] = r]
          /\ op[s] = "accept" => r = "failed"
    BY <1>2 DEF AcceptFails, ReadLands, ReadFails, WriteCompletes, Completes, Waiting
  <2>2. /\ op[s] # "none" /\ result[s] = "none"
        /\ UNCHANGED <<server, listening, alive, op, network>>
    BY <1>2 DEF AcceptFails, ReadLands, ReadFails, WriteCompletes, Waiting
  <2>3. TypeOK'
    BY <2>1, <2>2 DEF Inv, TypeOK, network
  <2>4. Results'
    BY <2>1, <2>2 DEF Inv, TypeOK, Results, network
  <2>5. Owned' /\ AtMostOneAccept' /\ Connected' /\ Backlogged'
    BY <2>2 DEF Inv, Owned, AtMostOneAccept, Connected, Backlogged, network
  <2> QED BY <2>3, <2>4, <2>5 DEF Inv
<1> QED BY <1>1, <1>2 DEF Socket

LEMMA ConnectInv == ASSUME Inv, NEW c \in Clients, Connect(c) PROVE Inv'
<1>1. /\ link[c] = "away"
      /\ link' = [link EXCEPT ![c] = "open"]
      /\ backlog' = Append(backlog, c)
      /\ UNCHANGED <<server, listening, alive, op, result, client>>
  BY DEF Connect
<1>2. TypeOK /\ Owned /\ AtMostOneAccept /\ Results /\ Connected /\ Backlogged
  BY DEF Inv
<1>3. /\ Len(backlog) \in Nat /\ Append(backlog, c) \in Seq(Clients)
      /\ Len(Append(backlog, c)) = Len(backlog) + 1
      /\ \A i \in 1..Len(backlog) : Append(backlog, c)[i] = backlog[i]
      /\ Append(backlog, c)[Len(backlog) + 1] = c
  BY <1>2, AppendProperties, LenProperties DEF TypeOK
<1>4. \A s \in Sessions : client[s] # c
  BY <1>1, <1>2, ServerAssumption DEF Connected
<1>5. \A i \in 1..Len(backlog) : backlog[i] # c
  BY <1>1, <1>2 DEF Backlogged
<1>6. TypeOK'
  BY <1>1, <1>2, <1>3 DEF TypeOK
<1>7. Owned' /\ AtMostOneAccept' /\ Results'
  BY <1>1, <1>2 DEF Owned, AtMostOneAccept, Results
<1>8. Connected'
  BY <1>1, <1>2 DEF Connected, TypeOK
<1>9. Backlogged'
  <2> SUFFICES ASSUME NEW i \in 1..Len(backlog')
               PROVE  /\ link'[backlog'[i]] # "away"
                      /\ \A s \in Sessions : client[s] # backlog'[i]
                      /\ \A j \in 1..Len(backlog') : backlog'[i] = backlog'[j] => i = j
    BY <1>1 DEF Backlogged
  <2>1. CASE i \in 1..Len(backlog)
    <3>1. backlog'[i] = backlog[i] /\ backlog[i] # c /\ backlog[i] \in Clients
      BY <1>1, <1>2, <1>3, <1>5, <2>1 DEF TypeOK
    <3>2. \A j \in 1..Len(backlog') : j \in 1..Len(backlog) \/ backlog'[j] = c
      BY <1>1, <1>3
    <3> QED BY <1>1, <1>2, <1>3, <2>1, <3>1, <3>2 DEF Backlogged, TypeOK
  <2>2. CASE i = Len(backlog) + 1
    <3>1. backlog'[i] = c /\ \A j \in 1..Len(backlog') : j # i => backlog'[j] # c
      BY <1>1, <1>3, <1>5, <2>2
    <3> QED BY <1>1, <1>2, <1>4, <3>1 DEF TypeOK
  <2> QED BY <1>1, <1>3, <2>1, <2>2
<1> QED BY <1>6, <1>7, <1>8, <1>9 DEF Inv

LEMMA LeaveInv == ASSUME Inv, NEW c \in Clients, Shut(c) \/ Reset(c) PROVE Inv'
<1>1. PICK state \in {"shut", "gone"} : link' = [link EXCEPT ![c] = state]
  BY DEF Shut, Reset
<1>2. UNCHANGED <<server, listening, alive, op, result, client, backlog>>
  BY DEF Shut, Reset
<1>3. TypeOK /\ Owned /\ AtMostOneAccept /\ Results /\ Connected /\ Backlogged
  BY DEF Inv
<1>4. TypeOK' /\ Owned' /\ AtMostOneAccept' /\ Results'
  BY <1>1, <1>2, <1>3 DEF TypeOK, Owned, AtMostOneAccept, Results
<1>5. \A d \in Clients : link[d] # "away" => link'[d] # "away"
  BY <1>1, <1>3 DEF TypeOK
<1>6. Connected'
  BY <1>2, <1>3, <1>5 DEF Connected, TypeOK
<1>7. Backlogged'
  <2>1. \A i \in 1..Len(backlog) : backlog[i] \in Clients
    BY <1>3 DEF TypeOK
  <2> QED BY <1>2, <1>3, <1>5, <2>1 DEF Backlogged
<1> QED BY <1>4, <1>6, <1>7 DEF Inv

LEMMA NextInv == Inv /\ [Next]_vars => Inv'
<1> SUFFICES ASSUME Inv, [Next]_vars PROVE Inv'
  OBVIOUS
<1>1. CASE Launch
  BY <1>1, LaunchInv
<1>2. CASE RunReturns \/ UNCHANGED vars
  <2>1. /\ UNCHANGED <<listening, alive, op, result, network>>
        /\ server' = server \/ (server = "serving" /\ server' = "ended")
    BY <1>2 DEF RunReturns, vars
  <2> QED BY <2>1 DEF Inv, TypeOK, Owned, AtMostOneAccept, Results, Connected, Backlogged, network
<1>3. CASE \E s \in Sessions : Handle(s) \/ Socket(s)
  BY <1>3, HandleInv, SocketInv
<1>4. CASE \E c \in Clients : Connect(c) \/ Shut(c) \/ Reset(c)
  BY <1>4, ConnectInv, LeaveInv
<1> QED BY <1>1, <1>2, <1>3, <1>4 DEF Next

(* The inductive invariant holds of every server.                          *)
THEOREM InvHolds == Spec => []Inv
<1> QED BY InitInv, NextInv, PTL DEF Spec

-----------------------------------------------------------------------------
(* What follows from it.                                                   *)

(* The state keeps its types and no completion outlives its operation.     *)
THEOREM TypeCorrect == Spec => []TypeOK
<1>1. Inv => TypeOK
  BY DEF Inv
<1> QED BY <1>1, InvHolds, PTL

(* No handler runs on a deleted Session, none is deleted twice, and none   *)
(* is left behind, unless an exception ends main.                          *)
THEOREM PointersAlwaysOwned == Spec => []PointersOwned
<1>1. Inv => PointersOwned
  BY DEF Inv, Owned, TypeOK, PointersOwned
<1> QED BY <1>1, InvHolds, PTL

(* A connection has one Session, which keeps it as long as it lives.       *)
THEOREM OneSessionForEach == Spec => []OneSessionEach
<1>1. Inv => OneSessionEach
  BY DEF Inv, Results, Connected, Backlogged, OneSessionEach, Sockets
<1> QED BY <1>1, InvHolds, PTL

(* An accept is never joined by a second one, ends only by failing or with *)
(* an exception, and is never started anew.                                *)
LEMMA AcceptStep ==
  Inv /\ [Next]_vars =>
    [\/ server = "starting"
     \/ (Accepting = {}) = (Accepting' = {})
     \/ /\ Accepting' = {}
        /\ server' = "thrown" \/ \E s \in Accepting : result[s] = "failed"]_vars
<1> SUFFICES ASSUME Inv, Next, server # "starting"
             PROVE  \/ (Accepting = {}) = (Accepting' = {})
                    \/ /\ Accepting' = {}
                       /\ server' = "thrown" \/ \E s \in Accepting : result[s] = "failed"
  BY DEF vars
<1> USE DEF Accepting
<1>1. TypeOK /\ AtMostOneAccept /\ Owned
  BY DEF Inv
<1>2. CASE UNCHANGED op
  BY <1>2
<1>3. ASSUME NEW s \in Sessions, Handle(s)
      PROVE  \/ (Accepting = {}) = (Accepting' = {})
             \/ /\ Accepting' = {}
                /\ server' = "thrown" \/ \E t \in Accepting : result[t] = "failed"
  <2>1. CASE AcceptThrows(s)
    <3>1. op[s] = "accept" /\ op' = [op EXCEPT ![s] = "none"] /\ server' = "thrown"
      BY <2>1 DEF AcceptThrows, Handles, Starts
    <3>2. Accepting' = {}
      BY <1>1, <3>1 DEF TypeOK, AtMostOneAccept
    <3> QED BY <3>1, <3>2
  <2>2. CASE Accepted(s)
    <3>1. op[s] = "accept"
      BY <2>2 DEF Accepted, Handles
    <3>2. PICK new \in Sessions : op' = [[op EXCEPT ![s] = "read"] EXCEPT ![new] = "accept"]
      BY <2>2 DEF Accepted, start_accept
    <3>3. op'[new] = "accept"
      BY <1>1, <3>2 DEF TypeOK
    <3> QED BY <3>1, <3>3
  <2>3. CASE AcceptError(s)
    <3>1. op[s] = "accept" /\ result[s] = "failed" /\ op' = [op EXCEPT ![s] = "none"]
      BY <2>3 DEF AcceptError, Handles, Delete, Starts
    <3>2. Accepting' = {}
      BY <1>1, <3>1 DEF TypeOK, AtMostOneAccept
    <3> QED BY <3>1, <3>2
  <2>4. CASE handle_read(s) \/ handle_write(s)
    <3>1. PICK operation \in {"none", "read", "write"} : op' = [op EXCEPT ![s] = operation]
      BY <2>4 DEF handle_read, handle_write, ReadError, WriteError, Delete, Starts
    <3>2. op[s] # "accept"
      BY <2>4 DEF handle_read, handle_write, ReadError, WriteError, Handles
    <3>3. \A t \in Sessions : op[t] = "accept" <=> op'[t] = "accept"
      BY <1>1, <3>1, <3>2 DEF TypeOK
    <3> QED BY <3>3
  <2> QED BY <1>3, <2>1, <2>2, <2>3, <2>4 DEF Handle, handle_accept
<1>4. ~Launch
  BY DEF Launch
<1>5. ASSUME NEW s \in Sessions, Socket(s) PROVE UNCHANGED op
  BY <1>5 DEF Socket, AcceptLands, AcceptFails, ReadLands, ReadFails, WriteCompletes
<1>6. (RunReturns \/ \E c \in Clients : Connect(c) \/ Shut(c) \/ Reset(c)) => UNCHANGED op
  BY DEF RunReturns, Connect, Shut, Reset
<1> QED BY <1>2, <1>3, <1>4, <1>5, <1>6 DEF Next

THEOREM OneAcceptAlways == Spec => OneAccept
<1>1. Inv => \A s, t \in Accepting : s = t
  BY DEF Inv, AtMostOneAccept, Accepting
<1> QED BY <1>1, AcceptStep, InvHolds, PTL DEF Spec, OneAccept

(* Every step is, for each Session, a turn of its life or none.            *)
LEMMA TurnStep ==
  ASSUME Inv, Next, NEW s \in Sessions, op'[s] # op[s]
  PROVE  Turns(s)!Create \/ Turns(s)!Delete \/ Turns(s)!Start \/ Turns(s)!Read \/ Turns(s)!Write
<1> USE DEF Turns!Create, Turns!Delete, Turns!Start, Turns!Read, Turns!Write
<1>1. TypeOK /\ Owned
  BY DEF Inv
<1>2. CASE op[s] = "none"
  <2>1. op'[s] \in {"accept", "none"}
    <3>1. CASE Launch
      BY <1>1, <1>2, <3>1 DEF Launch, start_accept, TypeOK
    <3>2. ASSUME NEW t \in Sessions, Handle(t) PROVE op'[s] \in {"accept", "none"}
      <4>1. t # s
        BY <1>2, <3>2 DEF Handle, handle_accept, handle_read, handle_write, AcceptThrows, Accepted,
                          AcceptError, ReadError, WriteError, Handles
      <4> QED BY <1>1, <1>2, <3>2, <4>1
              DEF Handle, handle_accept, handle_read, handle_write, AcceptThrows, Accepted,
                  AcceptError, ReadError, WriteError, Delete, Starts, start_accept, TypeOK
    <3>3. (RunReturns \/ (\E t \in Sessions : Socket(t))
             \/ \E c \in Clients : Connect(c) \/ Shut(c) \/ Reset(c)) => op' = op
      BY DEF RunReturns, Connect, Shut, Reset,
             Socket, AcceptLands, AcceptFails, ReadLands, ReadFails, WriteCompletes
    <3> QED BY <1>2, <3>1, <3>2, <3>3 DEF Next
  <2> QED BY <1>2, <2>1
<1>3. CASE op[s] # "none"
  <2>1. Handle(s)
    <3>1. ~Launch
      BY <1>1, <1>3 DEF Launch, Owned
    <3>2. ASSUME NEW t \in Sessions, Handle(t) PROVE t = s
      <4>1. s \in alive
        BY <1>1, <1>3 DEF Owned
      <4> QED BY <1>1, <1>3, <3>2, <4>1
              DEF Handle, handle_accept, handle_read, handle_write, AcceptThrows, Accepted,
                  AcceptError, ReadError, WriteError, Delete, Starts, start_accept, TypeOK
    <3>3. (RunReturns \/ (\E t \in Sessions : Socket(t))
             \/ \E c \in Clients : Connect(c) \/ Shut(c) \/ Reset(c)) => op' = op
      BY DEF RunReturns, Connect, Shut, Reset,
             Socket, AcceptLands, AcceptFails, ReadLands, ReadFails, WriteCompletes
    <3> QED BY <3>1, <3>2, <3>3 DEF Next
  <2>2. CASE AcceptThrows(s) \/ AcceptError(s) \/ ReadError(s) \/ WriteError(s)
    <3>1. op'[s] = "none"
      BY <1>1, <2>2 DEF AcceptThrows, AcceptError, ReadError, WriteError, Delete, Starts, TypeOK
    <3> QED BY <1>3, <3>1
  <2>3. CASE Accepted(s)
    <3>1. op[s] = "accept"
      BY <2>3 DEF Accepted, Handles
    <3>2. PICK new \in Sessions \ alive : op' = [[op EXCEPT ![s] = "read"] EXCEPT ![new] = "accept"]
      BY <2>3 DEF Accepted, start_accept
    <3>3. new # s
      BY <1>1, <1>3, <3>2 DEF Owned
    <3>4. op'[s] = "read"
      BY <1>1, <3>2, <3>3 DEF TypeOK
    <3> QED BY <3>1, <3>4
  <2>4. CASE handle_read(s) /\ ~ReadError(s)
    <3>1. op[s] = "read" /\ op'[s] = "write"
      BY <1>1, <2>4 DEF handle_read, Handles, Starts, TypeOK
    <3> QED BY <3>1
  <2>5. CASE handle_write(s) /\ ~WriteError(s)
    <3>1. op[s] = "write" /\ op'[s] = "read"
      BY <1>1, <2>5 DEF handle_write, Handles, Starts, TypeOK
    <3> QED BY <3>1
  <2> QED BY <2>1, <2>2, <2>3, <2>4, <2>5 DEF Handle, handle_accept, handle_read, handle_write
<1> QED BY <1>2, <1>3

(* Every Session of the server lives as Day6Session was shown to live.     *)
THEOREM SessionsAlwaysTakeTurns == Spec => SessionsTakeTurns
<1> DEFINE Turn(s) == [Turns(s)!Create \/ Turns(s)!Delete \/ Turns(s)!Start
                         \/ Turns(s)!Read \/ Turns(s)!Write]_(op[s])
<1>1. Init => \A s \in Sessions : Turns(s)!Init
  BY DEF Init, Turns!Init
<1>2. Inv /\ [Next]_vars => [\A s \in Sessions : Turn(s)]_op
  <2> SUFFICES ASSUME Inv, Next PROVE \A s \in Sessions : Turn(s)
    BY DEF vars
  <2> QED BY TurnStep
<1> QED BY <1>1, <1>2, InvHolds, PTL DEF Spec, SessionsTakeTurns
=============================================================================
