-------------------------- MODULE Day7ServerProofs --------------------------
(***************************************************************************)
(* What holds of the day7 server for any number of Sessions, clients and   *)
(* sockets and any backlog: it always waits for one connection, no handler *)
(* runs on a Session that is gone, a connection has one Session, and each  *)
(* Session lives as module SessionLife says.                               *)
(***************************************************************************)
EXTENDS Day7Server, SequenceTheorems, TLAPS

Completions == [op : Operations, session : Sessions, result : {"ok", "failed"}]

-----------------------------------------------------------------------------
(* The inductive invariant.                                                *)

(* A Session that waits to be connected does nothing else, and before      *)
(* main launches the server there is none.                                 *)
AcceptsAlone ==
  /\ \A s \in Sessions : "accept" \in pending[s] => pending[s] = {"accept"}
  /\ server = "starting" => \A s \in Sessions : pending[s] = {}

(* A write is under way only while its message is queued, and a completed  *)
(* read finds room in the queue (which is the bound of the model).         *)
Messages ==
  /\ \A s \in Sessions : "write" \in pending[s] => unsent[s] > 0
  /\ \A n \in 1..Len(ready) :
       ready[n].op = "read" /\ ready[n].result = "ok" => unsent[ready[n].session] < MaxUnsent

(* The socket of an accept is connected exactly when its completion says   *)
(* so.                                                                     *)
Connected ==
  \A s \in Sessions :
    "accept" \in pending[s] =>
      (client[s] # NoClient <=>
         \E n \in 1..Len(ready) : ready[n] = [op |-> "accept", session |-> s, result |-> "ok"])

(* The backlog holds connections nobody has accepted, each once.           *)
Backlogged ==
  \A i \in 1..Len(backlog) :
    /\ link[backlog[i]] # "away"
    /\ \A j \in 1..Len(backlog) : backlog[i] = backlog[j] => i = j

Inv ==
  /\ TypeOK
  /\ AcceptsOne
  /\ AcceptsAlone
  /\ HandlersOnce
  /\ Messages
  /\ Connected
  /\ OneSessionEach
  /\ Backlogged

-----------------------------------------------------------------------------
(* The queue of completions.                                               *)

(* Types that hold of the queue whatever it is made of.                    *)
LEMMA QueueTypes ==
  ASSUME Inv
  PROVE  /\ ready \in Seq(Completions) /\ Len(ready) \in Nat
         /\ \A n \in 1..Len(ready) :
              /\ ready[n] \in Completions
              /\ ready[n].op \in pending[ready[n].session]
              /\ \A m \in 1..Len(ready) :
                   ready[m].op = ready[n].op /\ ready[m].session = ready[n].session => m = n
<1>1. ready \in Seq(Completions)
  BY DEF Inv, TypeOK, Completions
<1>2. Len(ready) \in Nat
  BY <1>1, LenProperties
<1>3. \A n \in 1..Len(ready) : ready[n] \in Completions
  BY <1>1, ElementOfSeq
<1> QED BY <1>1, <1>2, <1>3 DEF Inv, HandlersOnce

(* What a handler finds, and what it leaves in the queue: all completions  *)
(* but its own.                                                            *)
LEMMA HandlesQueue ==
  ASSUME Inv, NEW op \in Operations, NEW s \in Sessions, NEW result, Handles(op, s, result)
  PROVE  /\ server = "serving" /\ op \in pending[s]
         /\ ready' \in Seq(Completions)
         /\ \E n \in 1..Len(ready) : ready[n] = [op |-> op, session |-> s, result |-> result]
         /\ \A n \in 1..Len(ready') :
              /\ ~(ready'[n].op = op /\ ready'[n].session = s)
              /\ ready'[n].op \in pending[ready'[n].session]
              /\ ready'[n] \in Completions
              /\ \E m \in 1..Len(ready) : ready'[n] = ready[m]
         /\ \A m, n \in 1..Len(ready') :
              ready'[m].op = ready'[n].op /\ ready'[m].session = ready'[n].session => m = n
         /\ \A n \in 1..Len(ready) :
              \/ ready[n] = [op |-> op, session |-> s, result |-> result]
              \/ \E m \in 1..Len(ready') : ready'[m] = ready[n]
<1>1. /\ server = "serving" /\ ready # <<>> /\ ready' = Tail(ready)
      /\ Head(ready) = [op |-> op, session |-> s, result |-> result]
  BY DEF Handles
<1>2. /\ ready \in Seq(Completions) /\ Len(ready) \in Nat
      /\ \A n \in 1..Len(ready) :
           /\ ready[n] \in Completions
           /\ ready[n].op \in pending[ready[n].session]
           /\ \A m \in 1..Len(ready) :
                ready[m].op = ready[n].op /\ ready[m].session = ready[n].session => m = n
  BY QueueTypes
<1>3. /\ Tail(ready) \in Seq(Completions) /\ Len(Tail(ready)) = Len(ready) - 1
      /\ \A i \in 1..Len(Tail(ready)) : Tail(ready)[i] = ready[i + 1]
  BY <1>1, <1>2, HeadTailProperties
<1>4. Len(ready) \in Nat \ {0}
  BY <1>1, <1>2, EmptySeq
<1>5. 1 \in 1..Len(ready) /\ Head(ready) = ready[1]
  BY <1>2, <1>4
<1>6. ready[1].op = op /\ ready[1].session = s
  BY <1>1, <1>5
<1>7. Len(ready') = Len(ready) - 1
  BY <1>1, <1>3
<1>8. ASSUME NEW n \in 1..Len(ready')
      PROVE  n + 1 \in 1..Len(ready) /\ n + 1 # 1 /\ ready'[n] = ready[n + 1]
  BY <1>1, <1>3, <1>4, <1>7
<1>9. ASSUME NEW n \in 1..Len(ready')
      PROVE  /\ ~(ready'[n].op = op /\ ready'[n].session = s)
             /\ ready'[n].op \in pending[ready'[n].session]
             /\ ready'[n] \in Completions
             /\ \E m \in 1..Len(ready) : ready'[n] = ready[m]
  <2>1. PICK m \in 1..Len(ready) : m # 1 /\ ready'[n] = ready[m]
    BY <1>8
  <2> QED BY <1>2, <1>5, <1>6, <2>1, Zenon
<1>10. ASSUME NEW n \in 1..Len(ready), n # 1
       PROVE  \E m \in 1..Len(ready') : ready'[m] = ready[n]
  <2>1. n - 1 \in 1..Len(ready') /\ (n - 1) + 1 = n
    BY <1>4, <1>7, <1>10
  <2> QED BY <1>8, <2>1
<1>11. ASSUME NEW m \in 1..Len(ready'), NEW n \in 1..Len(ready'),
              ready'[m].op = ready'[n].op, ready'[m].session = ready'[n].session
       PROVE  m = n
  <2>1. /\ m + 1 \in 1..Len(ready) /\ ready'[m] = ready[m + 1]
        /\ n + 1 \in 1..Len(ready) /\ ready'[n] = ready[n + 1]
    BY <1>8
  <2>2. m + 1 = n + 1
    BY <1>2, <1>11, <2>1, Zenon
  <2>3. m \in Int /\ n \in Int
    OBVIOUS
  <2> HIDE <1>11
  <2> QED BY <2>2, <2>3
<1> QED BY <1>1, <1>2, <1>3, <1>5, <1>6, <1>9, <1>10, <1>11, Zenon

(* The facts about the queue after a handler of Session s has run, which   *)
(* may have made one new Session.                                          *)
LEMMA HandlerKeeps ==
  ASSUME Inv, NEW op \in Operations, NEW s \in Sessions, NEW result, Handles(op, s, result),
         pending' \in [Sessions -> SUBSET Operations],
         unsent' \in [Sessions -> 0..MaxUnsent],
         pending[s] \ {op} \subseteq pending'[s],
         "accept" \notin pending'[s],
         "write" \in pending'[s] => unsent'[s] > 0,
         op = "read" \/ unsent'[s] <= unsent[s],
         \A t \in Sessions : t # s =>
           /\ unsent'[t] = unsent[t] /\ client'[t] = client[t]
           /\ pending'[t] = pending[t] \/ (pending[t] = {} /\ pending'[t] = {"accept"})
  PROVE  ready' \in Seq(Completions) /\ HandlersOnce' /\ Messages' /\ Connected'
<1>1. /\ ready' \in Seq(Completions)
      /\ \A n \in 1..Len(ready') :
           /\ ~(ready'[n].op = op /\ ready'[n].session = s)
           /\ ready'[n].op \in pending[ready'[n].session]
           /\ ready'[n] \in Completions
           /\ \E m \in 1..Len(ready) : ready'[n] = ready[m]
      /\ \A m, n \in 1..Len(ready') :
           ready'[m].op = ready'[n].op /\ ready'[m].session = ready'[n].session => m = n
      /\ \A n \in 1..Len(ready) :
           \/ ready[n] = [op |-> op, session |-> s, result |-> result]
           \/ \E m \in 1..Len(ready') : ready'[m] = ready[n]
  BY HandlesQueue
<1>2. \A n \in 1..Len(ready') : ready'[n].session \in Sessions
  <2> SUFFICES ASSUME NEW n \in 1..Len(ready') PROVE ready'[n].session \in Sessions
    OBVIOUS
  <2>1. ready'[n] \in Completions
    BY <1>1, Zenon
  <2> QED BY <2>1 DEF Completions
<1>3. /\ unsent \in [Sessions -> 0..MaxUnsent] /\ MaxUnsent \in Nat
      /\ Messages /\ Connected /\ OneSessionEach
  BY ServerAssumption DEF Inv, TypeOK
<1>4. ASSUME NEW n \in 1..Len(ready')
      PROVE  ready'[n].op \in pending'[ready'[n].session]
  <2>1. /\ ready'[n].op \in pending[ready'[n].session]
        /\ ready'[n].session = s => ready'[n].op # op
    BY <1>1, Zenon
  <2>2. ready'[n].session \in Sessions
    BY <1>2
  <2>3. CASE ready'[n].session = s
    BY <2>1, <2>3
  <2>4. CASE ready'[n].session # s
    BY <2>1, <2>2, <2>4
  <2> QED BY <2>3, <2>4
<1>5. \A t \in Sessions : "write" \in pending'[t] => unsent'[t] > 0
  BY <1>3 DEF Messages
<1>6. HandlersOnce'
  <2> SUFFICES ASSUME NEW n \in 1..Len(ready')
               PROVE  /\ ready'[n].op \in pending'[ready'[n].session]
                      /\ ready'[n].op = "write" => unsent'[ready'[n].session] > 0
                      /\ \A m \in 1..Len(ready') :
                           ready'[m].op = ready'[n].op /\ ready'[m].session = ready'[n].session => m = n
    BY DEF HandlersOnce
  <2>1. ready'[n].op \in pending'[ready'[n].session]
    BY <1>4
  <2>2. ready'[n].session \in Sessions
    BY <1>2
  <2>3. ready'[n].op = "write" => unsent'[ready'[n].session] > 0
    BY <1>5, <2>1, <2>2, Zenon
  <2> QED BY <1>1, <2>1, <2>3, Zenon
<1>7. Messages'
  <2> SUFFICES ASSUME NEW n \in 1..Len(ready'), ready'[n].op = "read", ready'[n].result = "ok"
               PROVE  unsent'[ready'[n].session] < MaxUnsent
    BY <1>5 DEF Messages
  <2> DEFINE t == ready'[n].session
  <2>1. t \in Sessions
    BY <1>2
  <2>2. unsent[t] < MaxUnsent
    <3>1. PICK m \in 1..Len(ready) : ready'[n] = ready[m]
      BY <1>1, Zenon
    <3> QED BY <1>3, <3>1 DEF Messages
  <2>3. t = s => op # "read"
    BY <1>1, Zenon
  <2> HIDE DEF t
  <2>4. unsent'[t] <= unsent[t]
    BY <1>3, <2>1, <2>3
  <2>5. unsent'[t] < MaxUnsent
    BY <1>3, <2>1, <2>2, <2>4
  <2> QED BY <2>5 DEF t
<1>8. Connected'
  <2> SUFFICES ASSUME NEW t \in Sessions, "accept" \in pending'[t]
               PROVE  client'[t] # NoClient <=>
                        \E n \in 1..Len(ready') :
                          ready'[n] = [op |-> "accept", session |-> t, result |-> "ok"]
    BY DEF Connected
  <2> DEFINE this == [op |-> "accept", session |-> t, result |-> "ok"]
  <2>1. t # s /\ client'[t] = client[t]
    OBVIOUS
  <2>2. this.op = "accept" /\ this.session = t
    OBVIOUS
  <2>3. this # [op |-> op, session |-> s, result |-> result]
    BY <2>1
  <2>4. CASE "accept" \in pending[t]
    <3>1. client[t] # NoClient <=> \E n \in 1..Len(ready) : ready[n] = this
      BY <1>3, <2>4 DEF Connected
    <3> HIDE DEF this
    <3>2. (\E n \in 1..Len(ready) : ready[n] = this) <=> (\E n \in 1..Len(ready') : ready'[n] = this)
      <4>1. ASSUME NEW n \in 1..Len(ready), ready[n] = this
            PROVE  \E m \in 1..Len(ready') : ready'[m] = this
        BY <1>1, <2>3, <4>1
      <4>2. ASSUME NEW n \in 1..Len(ready'), ready'[n] = this
            PROVE  \E m \in 1..Len(ready) : ready[m] = this
        BY <1>1, <4>2
      <4> QED BY <4>1, <4>2, Zenon
    <3>3. client'[t] # NoClient <=> \E n \in 1..Len(ready') : ready'[n] = this
      BY <2>1, <3>1, <3>2, Zenon
    <3> QED BY <3>3 DEF this
  <2>5. CASE "accept" \notin pending[t]
    <3>1. pending[t] = {} /\ client[t] = NoClient
      BY <1>3, <2>1, <2>5 DEF OneSessionEach, Sockets
    <3>2. \A n \in 1..Len(ready') : ready'[n] # this
      <4> HIDE DEF this
      <4> QED BY <1>1, <2>2, <2>5, Zenon
    <3> QED BY <2>1, <3>1, <3>2
  <2> QED BY <2>4, <2>5
<1> QED BY <1>1, <1>6, <1>7, <1>8, Zenon

(* The facts about the queue after the reactor has completed an operation, *)
(* which was waiting and so is in the queue once.                          *)
LEMMA ReactorKeeps ==
  ASSUME Inv, NEW op \in Operations, NEW s \in Sessions, NEW result \in {"ok", "failed"},
         Waiting(op, s), Completes(op, s, result), UNCHANGED <<pending, unsent>>,
         op = "read" /\ result = "ok" => unsent[s] < MaxUnsent,
         \A t \in Sessions : t # s \/ op # "accept" => client'[t] = client[t],
         op = "accept" => (client'[s] # NoClient <=> result = "ok")
  PROVE  ready' \in Seq(Completions) /\ HandlersOnce' /\ Messages' /\ Connected'
<1> DEFINE new == [op |-> op, session |-> s, result |-> result]
<1>1. /\ ready \in Seq(Completions) /\ Len(ready) \in Nat
      /\ \A n \in 1..Len(ready) :
           /\ ready[n] \in Completions
           /\ ready[n].op \in pending[ready[n].session]
           /\ \A m \in 1..Len(ready) :
                ready[m].op = ready[n].op /\ ready[m].session = ready[n].session => m = n
  BY QueueTypes
<1>2. /\ new \in Completions /\ new.op = op /\ new.session = s /\ new.result = result
  BY DEF Completions
<1>3. op \in pending[s] /\ \A n \in 1..Len(ready) : ~(ready[n].op = op /\ ready[n].session = s)
  BY DEF Waiting, Queued
<1>4. ready' = Append(ready, new)
  BY DEF Completes
<1> HIDE DEF new
<1>5. /\ ready' \in Seq(Completions) /\ Len(ready') = Len(ready) + 1
      /\ \A n \in 1..Len(ready) : ready'[n] = ready[n]
      /\ ready'[Len(ready) + 1] = new
  BY <1>1, <1>2, <1>4, AppendProperties
<1>6. ASSUME NEW n \in 1..Len(ready')
      PROVE  \/ n = Len(ready) + 1 /\ ready'[n] = new
             \/ n \in 1..Len(ready) /\ ready'[n] = ready[n]
  BY <1>1, <1>5
<1>7. /\ Len(ready) + 1 \in 1..Len(ready')
      /\ \A n \in 1..Len(ready) : n \in 1..Len(ready')
  BY <1>1, <1>5
<1>8. /\ unsent \in [Sessions -> 0..MaxUnsent] /\ MaxUnsent \in Nat
      /\ Messages /\ Connected
  BY ServerAssumption DEF Inv, TypeOK
<1>9. HandlersOnce'
  <2> SUFFICES ASSUME NEW n \in 1..Len(ready')
               PROVE  /\ ready'[n].op \in pending'[ready'[n].session]
                      /\ ready'[n].op = "write" => unsent'[ready'[n].session] > 0
                      /\ \A m \in 1..Len(ready') :
                           ready'[m].op = ready'[n].op /\ ready'[m].session = ready'[n].session => m = n
    BY DEF HandlersOnce
  <2>1. ready'[n] \in Completions /\ ready'[n].op \in pending[ready'[n].session]
    BY <1>1, <1>2, <1>3, <1>6, Zenon
  <2>2. ready'[n].session \in Sessions
    BY <2>1 DEF Completions
  <2>3. ready'[n].op = "write" => unsent[ready'[n].session] > 0
    BY <1>8, <2>1, <2>2, Zenon DEF Messages
  <2>4. ASSUME NEW m \in 1..Len(ready'),
               ready'[m].op = ready'[n].op, ready'[m].session = ready'[n].session
        PROVE  m = n
    <3>1. \/ m = Len(ready) + 1 /\ ready'[m] = new
          \/ m \in 1..Len(ready) /\ ready'[m] = ready[m]
      BY <1>6
    <3>2. \/ n = Len(ready) + 1 /\ ready'[n] = new
          \/ n \in 1..Len(ready) /\ ready'[n] = ready[n]
      BY <1>6
    <3> QED BY <1>1, <1>2, <1>3, <2>4, <3>1, <3>2, Zenon
  <2> QED BY <2>1, <2>3, <2>4
<1>10. Messages'
  <2>1. ASSUME NEW n \in 1..Len(ready'), ready'[n].op = "read", ready'[n].result = "ok"
        PROVE  unsent[ready'[n].session] < MaxUnsent
    <3>1. CASE ready'[n] = new
      BY <1>2, <2>1, <3>1
    <3>2. CASE n \in 1..Len(ready) /\ ready'[n] = ready[n]
      BY <1>8, <2>1, <3>2 DEF Messages
    <3> QED BY <1>6, <3>1, <3>2
  <2> QED BY <1>8, <2>1 DEF Messages
<1>11. Connected'
  <2> SUFFICES ASSUME NEW t \in Sessions, "accept" \in pending[t]
               PROVE  client'[t] # NoClient <=>
                        \E n \in 1..Len(ready') :
                          ready'[n] = [op |-> "accept", session |-> t, result |-> "ok"]
    BY DEF Connected
  <2> DEFINE this == [op |-> "accept", session |-> t, result |-> "ok"]
  <2>1. client[t] # NoClient <=> \E n \in 1..Len(ready) : ready[n] = this
    BY <1>8 DEF Connected
  <2>2. this.op = "accept" /\ this.session = t /\ this.result = "ok"
    OBVIOUS
  <2>3. CASE t # s \/ op # "accept"
    <3>1. client'[t] = client[t] /\ new # this
      BY <1>2, <2>2, <2>3
    <3> HIDE DEF this
    <3>2. (\E n \in 1..Len(ready) : ready[n] = this) <=> (\E n \in 1..Len(ready') : ready'[n] = this)
      BY <1>5, <1>6, <1>7, <3>1, Zenon
    <3>3. client'[t] # NoClient <=> \E n \in 1..Len(ready') : ready'[n] = this
      BY <2>1, <3>1, <3>2, Zenon
    <3> QED BY <3>3 DEF this
  <2>4. CASE t = s /\ op = "accept"
    <3>1. result = "ok" => new = this
      BY <2>4 DEF new
    <3>2. result # "ok" => new # this
      BY <1>2, <2>2
    <3>3. \A n \in 1..Len(ready) : ready[n] # this
      BY <1>3, <2>2, <2>4
    <3> HIDE DEF this
    <3>4. (\E n \in 1..Len(ready') : ready'[n] = this) <=> result = "ok"
      BY <1>5, <1>6, <1>7, <3>1, <3>2, <3>3, Zenon
    <3>5. client'[t] # NoClient <=> \E n \in 1..Len(ready') : ready'[n] = this
      BY <2>4, <3>4
    <3> QED BY <3>5 DEF this
  <2> QED BY <2>3, <2>4
<1> QED BY <1>5, <1>9, <1>10, <1>11

-----------------------------------------------------------------------------
(* Connections.                                                            *)

LEMMA NetworkTypes ==
  ASSUME Inv
  PROVE  /\ client \in [Sessions -> Clients \cup {NoClient}]
         /\ link \in [Clients -> {"away", "open", "shut", "gone"}]
         /\ backlog \in Seq(Clients) /\ Len(backlog) \in Nat
         /\ \A i \in 1..Len(backlog) : backlog[i] \in Clients
         /\ NoClient \notin Clients
<1>1. backlog \in Seq(Clients)
  BY DEF Inv, TypeOK
<1>2. Len(backlog) \in Nat /\ \A i \in 1..Len(backlog) : backlog[i] \in Clients
  BY <1>1, LenProperties, ElementOfSeq
<1> QED BY <1>1, <1>2, ServerAssumption DEF Inv, TypeOK

(* A step that leaves the connections as they are.                         *)
LEMMA NetworkKept ==
  ASSUME Inv, UNCHANGED network,
         \A t \in Sessions :
           /\ client[t] # NoClient => pending'[t] # {}
           /\ {"read", "write"} \cap pending'[t] # {} => client[t] # NoClient
  PROVE  OneSessionEach' /\ Backlogged'
  BY DEF Inv, network, OneSessionEach, Backlogged, Sockets

(* The last handler of Session s has run: its peer is neither in the       *)
(* backlog nor at another Session.                                         *)
LEMMA NetworkClosed ==
  ASSUME Inv, NEW s \in Sessions, Closes(s), UNCHANGED backlog,
         pending'[s] = {}, \A t \in Sessions : t # s => pending'[t] = pending[t]
  PROVE  /\ client' \in [Sessions -> Clients \cup {NoClient}]
         /\ link' \in [Clients -> {"away", "open", "shut", "gone"}]
         /\ \A t \in Sessions : t # s => client'[t] = client[t]
         /\ OneSessionEach' /\ Backlogged'
<1>1. /\ client \in [Sessions -> Clients \cup {NoClient}]
      /\ link \in [Clients -> {"away", "open", "shut", "gone"}]
      /\ \A i \in 1..Len(backlog) : backlog[i] \in Clients
      /\ NoClient \notin Clients
  BY NetworkTypes
<1>2. OneSessionEach /\ Backlogged
  BY DEF Inv
<1>3. /\ client' = [client EXCEPT ![s] = NoClient]
      /\ link' = [c \in Clients |-> IF c = client[s] THEN "away" ELSE link[c]]
  BY DEF Closes
<1>4. \A t \in Sessions :
        /\ client'[t] # NoClient => t # s
        /\ t # s => client'[t] = client[t]
        /\ t # s /\ client[t] # NoClient => client[t] # client[s] /\ client[t] \in Clients
  BY <1>1, <1>2, <1>3 DEF OneSessionEach, Sockets
<1>5. \A i \in 1..Len(backlog) : backlog[i] # client[s]
  BY <1>1, <1>2 DEF OneSessionEach, Sockets
<1>6. OneSessionEach'
  <2>1. Sockets' = Sockets \ {s}
    BY <1>1, <1>3 DEF Sockets
  <2>2. \A t, u \in Sockets' : client'[t] = client'[u] => t = u
    BY <1>2, <1>4, <2>1 DEF OneSessionEach, Sockets
  <2>3. \A t \in Sessions : {"read", "write"} \cap pending'[t] # {} => t \in Sockets'
    BY <1>2, <2>1 DEF OneSessionEach
  <2>4. \A t \in Sockets' : pending'[t] # {} /\ link'[client'[t]] # "away"
    BY <1>2, <1>3, <1>4, <2>1 DEF OneSessionEach, Sockets
  <2>5. \A i \in 1..Len(backlog) : \A t \in Sockets' : client'[t] # backlog[i]
    BY <1>2, <1>4, <2>1 DEF OneSessionEach, Sockets
  <2> QED BY <2>2, <2>3, <2>4, <2>5 DEF OneSessionEach
<1>7. Backlogged'
  BY <1>1, <1>2, <1>3, <1>5 DEF Backlogged
<1> QED BY <1>1, <1>3, <1>4, <1>6, <1>7

-----------------------------------------------------------------------------
(* Every step preserves the invariant.                                     *)

LEMMA InitInv == Init => Inv
<1> SUFFICES ASSUME Init PROVE Inv
  OBVIOUS
<1> USE ServerAssumption DEF Init
<1>1. TypeOK
  <2>1. ready \in Seq(Completions) /\ backlog \in Seq(Clients)
    OBVIOUS
  <2> QED BY <2>1 DEF TypeOK, Completions
<1>2. AcceptsOne /\ AcceptsAlone /\ HandlersOnce /\ Messages
  BY DEF AcceptsOne, AcceptsAlone, HandlersOnce, Messages
<1>3. Connected /\ OneSessionEach /\ Backlogged
  BY DEF Connected, OneSessionEach, Sockets, Backlogged
<1> QED BY <1>1, <1>2, <1>3 DEF Inv

(* A handler that drops its reference, also when an exception drops it.    *)
LEMMA DropInv ==
  ASSUME Inv, NEW op \in Operations, NEW s \in Sessions, NEW result,
         NEW messages \in 0..MaxUnsent,
         Handles(op, s, result), Drop(op, s, messages), UNCHANGED backlog,
         op = "read" \/ messages <= unsent[s],
         "write" \in pending[s] \ {op} => messages > 0,
         server' = "thrown" \/ (server' = server /\ op # "accept")
  PROVE  Inv'
<1>1. server = "serving" /\ op \in pending[s]
  BY HandlesQueue
<1>2. /\ pending \in [Sessions -> SUBSET Operations] /\ unsent \in [Sessions -> 0..MaxUnsent]
      /\ MaxUnsent \in Nat /\ AcceptsAlone /\ Messages /\ OneSessionEach /\ AcceptsOne
  BY ServerAssumption DEF Inv, TypeOK
<1>3. /\ pending' = [pending EXCEPT ![s] = @ \ {op}]
      /\ pending' \in [Sessions -> SUBSET Operations]
      /\ pending'[s] = pending[s] \ {op}
      /\ \A t \in Sessions : t # s => pending'[t] = pending[t]
  BY <1>2 DEF Drop
<1>4. "accept" \notin pending'[s]
  BY <1>1, <1>2, <1>3 DEF AcceptsAlone
<1>5. /\ unsent' \in [Sessions -> 0..MaxUnsent]
      /\ \A t \in Sessions : t # s => unsent'[t] = unsent[t]
      /\ "write" \in pending'[s] => unsent'[s] > 0
      /\ op = "read" \/ unsent'[s] <= unsent[s]
  <2>1. CASE pending[s] = {op} /\ unsent' = [unsent EXCEPT ![s] = 0]
    BY <1>2, <1>3, <2>1
  <2>2. CASE unsent' = [unsent EXCEPT ![s] = messages]
    BY <1>2, <1>3, <2>2
  <2> QED BY <2>1, <2>2 DEF Drop
<1>6. /\ client' \in [Sessions -> Clients \cup {NoClient}]
      /\ link' \in [Clients -> {"away", "open", "shut", "gone"}]
      /\ \A t \in Sessions : t # s => client'[t] = client[t]
      /\ OneSessionEach' /\ Backlogged'
  <2>1. CASE pending[s] = {op} /\ Closes(s)
    <3>1. pending'[s] = {}
      BY <1>3, <2>1
    <3> QED BY <1>3, <2>1, <3>1, NetworkClosed
  <2>2. CASE pending[s] # {op} /\ UNCHANGED <<client, link>>
    <3>1. pending'[s] # {} /\ pending'[s] \subseteq pending[s]
      BY <1>1, <1>3, <2>2
    <3>2. \A t \in Sessions :
            /\ client[t] # NoClient => pending'[t] # {}
            /\ {"read", "write"} \cap pending'[t] # {} => client[t] # NoClient
      BY <1>2, <1>3, <3>1 DEF OneSessionEach, Sockets
    <3>3. OneSessionEach' /\ Backlogged'
      BY <2>2, <3>2, NetworkKept DEF network
    <3> QED BY <2>2, <3>3, NetworkTypes
  <2> QED BY <2>1, <2>2 DEF Drop
<1>7. ready' \in Seq(Completions) /\ HandlersOnce' /\ Messages' /\ Connected'
  <2>1. pending[s] \ {op} \subseteq pending'[s]
    BY <1>3
  <2> QED BY <1>3, <1>4, <1>5, <1>6, <2>1, HandlerKeeps
<1>8. TypeOK'
  <2>1. server' \in {"starting", "serving", "failed", "thrown"} /\ backlog' \in Seq(Clients)
    BY <1>1, NetworkTypes
  <2> QED BY <1>3, <1>5, <1>6, <1>7, <2>1 DEF TypeOK, Completions
<1>9. AcceptsAlone'
  BY <1>1, <1>2, <1>3, <1>4 DEF AcceptsAlone
<1>10. AcceptsOne'
  <2> SUFFICES ASSUME server' = "serving" PROVE \E t \in Sessions : Accepting' = {t}
    BY DEF AcceptsOne
  <2>1. op # "accept"
    OBVIOUS
  <2>2. Accepting' = Accepting
    BY <1>3, <2>1 DEF Accepting
  <2> QED BY <1>1, <1>2, <2>2 DEF AcceptsOne
<1> QED BY <1>6, <1>7, <1>8, <1>9, <1>10 DEF Inv

(* main starts: the first Session, nothing in the queue, no connection.    *)
LEMMA LaunchInv == ASSUME Inv, InitFails \/ Launch PROVE Inv'
<1>1. /\ server = "starting" /\ TypeOK /\ AcceptsAlone /\ OneSessionEach /\ Backlogged
      /\ UNCHANGED <<unsent, ready, network>>
  BY DEF Inv, InitFails, Launch
<1>2. \A t \in Sessions : pending[t] = {} /\ client[t] = NoClient
  BY <1>1 DEF AcceptsAlone, OneSessionEach, Sockets
<1>3. 1..Len(ready) = {}
  <2> SUFFICES ASSUME NEW n \in 1..Len(ready) PROVE FALSE
    OBVIOUS
  <2>1. ready[n].session \in Sessions /\ ready[n].op \in pending[ready[n].session]
    BY QueueTypes DEF Completions
  <2> QED BY <1>2, <2>1
<1>4. CASE InitFails
  <2>1. server' = "failed" /\ UNCHANGED pending
    BY <1>4 DEF InitFails
  <2>2. UNCHANGED <<unsent, ready, client, link, backlog, pending>>
    BY <1>1, <2>1 DEF network
  <2> QED BY <1>1, <1>2, <1>3, <2>1, <2>2
          DEF Inv, TypeOK, AcceptsOne, AcceptsAlone, HandlersOnce, Messages, Connected,
              OneSessionEach, Sockets, Backlogged
<1>5. CASE Launch
  <2>1. PICK s \in Sessions : pending' = [pending EXCEPT ![s] = {"accept"}]
    BY <1>5 DEF Launch, startAccept
  <2>2. server' = "serving" /\ UNCHANGED <<unsent, ready, client, link, backlog>>
    BY <1>1, <1>5 DEF Launch, network
  <2>3. \A t \in Sessions : pending'[t] = IF t = s THEN {"accept"} ELSE {}
    BY <1>1, <1>2, <2>1 DEF TypeOK
  <2>4. TypeOK'
    BY <1>1, <2>1, <2>2 DEF TypeOK, Operations
  <2>5. AcceptsOne' /\ AcceptsAlone'
    <3>1. Accepting' = {s}
      BY <2>3 DEF Accepting
    <3> QED BY <2>2, <2>3, <3>1 DEF AcceptsOne, AcceptsAlone
  <2>6. HandlersOnce' /\ Messages' /\ Connected'
    BY <1>2, <1>3, <2>2, <2>3 DEF HandlersOnce, Messages, Connected
  <2>7. OneSessionEach' /\ Backlogged'
    BY <1>1, <1>2, <2>2, <2>3 DEF OneSessionEach, Sockets, Backlogged
  <2> QED BY <2>4, <2>5, <2>6, <2>7 DEF Inv
<1> QED BY <1>4, <1>5

(* One accept ends, with a Session that reads or with one that is gone,    *)
(* and the next one is started.                                            *)
LEMMA AcceptInv == ASSUME Inv, NEW s \in Sessions, Accepted(s) \/ AcceptError(s) PROVE Inv'
<1>1. PICK result \in {"ok", "failed"} :
        /\ Handles("accept", s, result)
        /\ startAccept([pending EXCEPT ![s] = IF result = "ok" THEN {"read"} ELSE {}])
        /\ UNCHANGED <<server, unsent, network>>
  <2>1. CASE Accepted(s)
    BY <2>1 DEF Accepted
  <2>2. CASE AcceptError(s)
    BY <2>2 DEF AcceptError
  <2> QED BY <2>1, <2>2
<1> DEFINE now == IF result = "ok" THEN {"read"} ELSE {}
<1>2. PICK new \in Sessions :
        pending[new] = {} /\ pending' = [[pending EXCEPT ![s] = now] EXCEPT ![new] = {"accept"}]
  BY <1>1 DEF startAccept
<1>3. /\ server = "serving" /\ "accept" \in pending[s]
      /\ \E n \in 1..Len(ready) : ready[n] = [op |-> "accept", session |-> s, result |-> result]
  BY <1>1, HandlesQueue DEF Operations
<1>4. /\ TypeOK /\ AcceptsOne /\ AcceptsAlone /\ Connected /\ OneSessionEach
      /\ UNCHANGED <<server, unsent, client, link, backlog>>
  BY <1>1 DEF Inv, network
<1>5. pending[s] = {"accept"} /\ Accepting = {s}
  BY <1>3, <1>4 DEF AcceptsAlone, AcceptsOne, Accepting
<1>6. new # s
  BY <1>2, <1>5
<1>7. client[s] # NoClient <=> result = "ok"
  <2>1. PICK n \in 1..Len(ready) : ready[n] = [op |-> "accept", session |-> s, result |-> result]
    BY <1>3
  <2>2. \A m \in 1..Len(ready) : ready[m] = [op |-> "accept", session |-> s, result |-> "ok"] => m = n
    BY <2>1, QueueTypes
  <2> QED BY <1>3, <1>4, <2>1, <2>2 DEF Connected
<1>8. /\ pending' \in [Sessions -> SUBSET Operations]
      /\ pending'[s] = now /\ pending'[new] = {"accept"}
      /\ \A t \in Sessions : t # s /\ t # new => pending'[t] = pending[t]
  BY <1>2, <1>4, <1>6 DEF TypeOK, Operations
<1>9. ready' \in Seq(Completions) /\ HandlersOnce' /\ Messages' /\ Connected'
  <2>1. "accept" \in Operations /\ unsent' \in [Sessions -> 0..MaxUnsent]
    BY <1>4 DEF TypeOK, Operations
  <2>2. unsent'[s] <= unsent[s]
    BY <1>4, ServerAssumption DEF TypeOK
  <2>3. /\ pending[s] \ {"accept"} \subseteq pending'[s]
        /\ "accept" \notin pending'[s] /\ "write" \notin pending'[s]
    BY <1>5, <1>8
  <2>4. \A t \in Sessions : t # s =>
          /\ unsent'[t] = unsent[t] /\ client'[t] = client[t]
          /\ pending'[t] = pending[t] \/ (pending[t] = {} /\ pending'[t] = {"accept"})
    BY <1>2, <1>4, <1>8
  <2> QED BY <1>1, <1>8, <2>1, <2>2, <2>3, <2>4, HandlerKeeps
<1>10. OneSessionEach' /\ Backlogged'
  <2>1. \A t \in Sessions :
          /\ client[t] # NoClient => pending'[t] # {}
          /\ {"read", "write"} \cap pending'[t] # {} => client[t] # NoClient
    BY <1>4, <1>7, <1>8 DEF OneSessionEach, Sockets
  <2> QED BY <1>1, <2>1, NetworkKept
<1>11. AcceptsOne' /\ AcceptsAlone'
  <2>1. Accepting' = {new}
    BY <1>5, <1>8 DEF Accepting
  <2> QED BY <1>3, <1>4, <1>8, <2>1 DEF AcceptsOne, AcceptsAlone
<1>12. TypeOK'
  BY <1>4, <1>8, <1>9 DEF TypeOK, Completions
<1> QED BY <1>9, <1>10, <1>11, <1>12 DEF Inv

(* A read puts its message into the queue and goes on; alone there, the    *)
(* message is written beside it.                                           *)
LEMMA ReadOkInv == ASSUME Inv, NEW s \in Sessions, ReadOk(s) PROVE Inv'
<1>1. /\ Handles("read", s, "ok")
      /\ unsent' = [unsent EXCEPT ![s] = @ + 1]
      /\ pending' = IF unsent[s] + 1 >= 2 THEN pending
                    ELSE [pending EXCEPT ![s] = @ \cup {"write"}]
      /\ UNCHANGED <<server, network>>
  BY DEF ReadOk
<1>2. /\ server = "serving" /\ "read" \in pending[s] /\ "read" \in Operations
      /\ \E n \in 1..Len(ready) : ready[n] = [op |-> "read", session |-> s, result |-> "ok"]
  BY <1>1, HandlesQueue DEF Operations
<1>3. /\ TypeOK /\ AcceptsOne /\ AcceptsAlone /\ OneSessionEach /\ Messages
      /\ UNCHANGED <<server, client, link, backlog>>
  BY <1>1 DEF Inv, network
<1>4. unsent[s] < MaxUnsent
  BY <1>2, <1>3 DEF Messages
<1>5. /\ unsent' \in [Sessions -> 0..MaxUnsent] /\ unsent'[s] > 0
      /\ \A t \in Sessions : t # s => unsent'[t] = unsent[t]
  BY <1>1, <1>3, <1>4, ServerAssumption DEF TypeOK
<1>6. /\ pending' \in [Sessions -> SUBSET Operations]
      /\ pending'[s] \in {pending[s], pending[s] \cup {"write"}}
      /\ \A t \in Sessions : t # s => pending'[t] = pending[t]
  BY <1>1, <1>3 DEF TypeOK, Operations
<1>7. "accept" \notin pending[s] /\ "accept" \notin pending'[s]
  BY <1>2, <1>3, <1>6 DEF AcceptsAlone
<1>8. ready' \in Seq(Completions) /\ HandlersOnce' /\ Messages' /\ Connected'
  <2>1. pending[s] \ {"read"} \subseteq pending'[s]
    BY <1>6
  <2> QED BY <1>1, <1>2, <1>3, <1>5, <1>6, <1>7, <2>1, HandlerKeeps
<1>9. OneSessionEach' /\ Backlogged'
  <2>1. \A t \in Sessions :
          /\ client[t] # NoClient => pending'[t] # {}
          /\ {"read", "write"} \cap pending'[t] # {} => client[t] # NoClient
    BY <1>2, <1>3, <1>6 DEF OneSessionEach, Sockets
  <2> QED BY <1>1, <2>1, NetworkKept
<1>10. AcceptsOne' /\ AcceptsAlone'
  <2>1. Accepting' = Accepting
    BY <1>6, <1>7 DEF Accepting
  <2> QED BY <1>2, <1>3, <1>6, <1>7, <2>1 DEF AcceptsOne, AcceptsAlone
<1>11. TypeOK'
  BY <1>3, <1>5, <1>6, <1>8 DEF TypeOK, Completions
<1> QED BY <1>8, <1>9, <1>10, <1>11 DEF Inv

(* A write pops its message and starts the next one if there is another.   *)
LEMMA WriteNextInv ==
  ASSUME Inv, NEW s \in Sessions, Handles("write", s, "ok"), unsent[s] > 1,
         unsent' = [unsent EXCEPT ![s] = @ - 1],
         UNCHANGED <<server, pending, client, link, backlog>>
  PROVE  Inv'
<1>1. server = "serving" /\ "write" \in pending[s] /\ "write" \in Operations
  BY HandlesQueue DEF Operations
<1>2. /\ TypeOK /\ AcceptsOne /\ AcceptsAlone /\ OneSessionEach /\ Backlogged
  BY DEF Inv
<1>3. /\ unsent' \in [Sessions -> 0..MaxUnsent] /\ unsent'[s] > 0 /\ unsent'[s] <= unsent[s]
      /\ \A t \in Sessions : t # s => unsent'[t] = unsent[t]
  BY <1>2, ServerAssumption DEF TypeOK
<1>4. "accept" \notin pending'[s]
  BY <1>1, <1>2 DEF AcceptsAlone
<1>5. /\ pending' \in [Sessions -> SUBSET Operations]
      /\ pending[s] \ {"write"} \subseteq pending'[s]
  BY <1>2 DEF TypeOK
<1>6. ready' \in Seq(Completions) /\ HandlersOnce' /\ Messages' /\ Connected'
  BY <1>1, <1>3, <1>4, <1>5, HandlerKeeps
<1>7. OneSessionEach' /\ Backlogged' /\ AcceptsOne' /\ AcceptsAlone'
  BY <1>2 DEF OneSessionEach, Sockets, Backlogged, AcceptsOne, Accepting, AcceptsAlone
<1>8. TypeOK'
  BY <1>2, <1>3, <1>6 DEF TypeOK, Completions
<1> QED BY <1>6, <1>7, <1>8 DEF Inv

LEMMA HandleInv ==
  ASSUME Inv, NEW s \in Sessions, handleAccept(s) \/ handleRead(s) \/ handleWrite(s)
  PROVE  Inv'
<1> USE DEF Operations
<1>1. /\ unsent[s] \in 0..MaxUnsent /\ 0 \in 0..MaxUnsent /\ unsent[s] <= unsent[s]
      /\ AcceptsAlone /\ Messages
  BY ServerAssumption DEF Inv, TypeOK
<1>2. CASE AcceptThrows(s)
  <2>1. /\ Handles("accept", s, "ok") /\ Drop("accept", s, 0) /\ server' = "thrown"
        /\ UNCHANGED backlog
    BY <1>2 DEF AcceptThrows
  <2>2. pending[s] = {"accept"}
    BY <1>1, <2>1, HandlesQueue DEF AcceptsAlone
  <2> QED BY <1>1, <2>1, <2>2, DropInv
<1>3. CASE Accepted(s) \/ AcceptError(s)
  BY <1>3, AcceptInv
<1>4. CASE ReadOk(s)
  BY <1>4, ReadOkInv
<1>5. CASE ReadError(s)
  <2>1. /\ Handles("read", s, "failed") /\ Drop("read", s, unsent[s])
        /\ UNCHANGED <<server, backlog>>
    BY <1>5 DEF ReadError
  <2>2. "write" \in pending[s] \ {"read"} => unsent[s] > 0
    BY <1>1 DEF Messages
  <2> QED BY <1>1, <2>1, <2>2, DropInv
<1>6. CASE WriteError(s)
  <2>1. /\ Handles("write", s, "failed") /\ Drop("write", s, unsent[s])
        /\ UNCHANGED <<server, backlog>>
    BY <1>6 DEF WriteError
  <2> QED BY <1>1, <2>1, DropInv
<1>7. CASE WriteOk(s)
  <2>1. CASE unsent[s] = 1 /\ Drop("write", s, 0)
    <3>1. Handles("write", s, "ok") /\ UNCHANGED <<server, backlog>>
      BY <1>7 DEF WriteOk
    <3> QED BY <1>1, <2>1, <3>1, DropInv
  <2>2. CASE /\ unsent[s] > 1 /\ unsent' = [unsent EXCEPT ![s] = @ - 1]
             /\ UNCHANGED <<pending, client, link>>
    <3>1. Handles("write", s, "ok") /\ UNCHANGED <<server, backlog>>
      BY <1>7 DEF WriteOk
    <3> QED BY <2>2, <3>1, WriteNextInv
  <2> QED BY <1>7, <2>1, <2>2 DEF WriteOk
<1> QED BY <1>2, <1>3, <1>4, <1>5, <1>6, <1>7 DEF handleAccept, handleRead, handleWrite

(* A connection leaves the backlog for the one Session that accepts.       *)
LEMMA AcceptLandsInv == ASSUME Inv, NEW s \in Sessions, AcceptLands(s) PROVE Inv'
<1> DEFINE c == Head(backlog)
<1>1. /\ Waiting("accept", s) /\ backlog # <<>>
      /\ client' = [client EXCEPT ![s] = c]
      /\ backlog' = Tail(backlog)
      /\ Completes("accept", s, "ok")
      /\ UNCHANGED <<server, pending, unsent, link>>
  BY DEF AcceptLands
<1>2. TypeOK /\ AcceptsOne /\ AcceptsAlone /\ Connected /\ OneSessionEach /\ Backlogged
  BY DEF Inv
<1>3. /\ client \in [Sessions -> Clients \cup {NoClient}]
      /\ link \in [Clients -> {"away", "open", "shut", "gone"}]
      /\ \A i \in 1..Len(backlog) : backlog[i] \in Clients
      /\ NoClient \notin Clients
  BY NetworkTypes
<1>4. /\ Len(backlog) \in Nat \ {0} /\ c = backlog[1] /\ c \in Clients
      /\ Tail(backlog) \in Seq(Clients) /\ Len(Tail(backlog)) = Len(backlog) - 1
      /\ \A i \in 1..Len(Tail(backlog)) : Tail(backlog)[i] = backlog[i + 1]
  <2>1. backlog \in Seq(Clients) /\ backlog # <<>>
    BY <1>1, NetworkTypes
  <2> QED BY <2>1, EmptySeq, HeadTailProperties
<1> HIDE DEF c
<1>5. link[c] # "away" /\ c # NoClient /\ \A t \in Sessions : client[t] # c
  BY <1>2, <1>3, <1>4 DEF Backlogged, OneSessionEach, Sockets
<1>6. client' \in [Sessions -> Clients \cup {NoClient}]
      /\ client'[s] = c /\ \A t \in Sessions : t # s => client'[t] = client[t]
  BY <1>1, <1>3, <1>4
<1>7. ready' \in Seq(Completions) /\ HandlersOnce' /\ Messages' /\ Connected'
  BY <1>1, <1>5, <1>6, ReactorKeeps DEF Operations
<1>8. \A i \in 1..Len(backlog') :
        /\ i + 1 \in 1..Len(backlog) /\ backlog'[i] = backlog[i + 1] /\ backlog'[i] # c
  <2> SUFFICES ASSUME NEW i \in 1..Len(backlog')
               PROVE  i + 1 \in 1..Len(backlog) /\ backlog'[i] = backlog[i + 1] /\ backlog'[i] # c
    OBVIOUS
  <2>1. /\ i + 1 \in 1..Len(backlog) /\ 1 \in 1..Len(backlog) /\ i + 1 # 1
        /\ backlog'[i] = backlog[i + 1]
    BY <1>1, <1>4
  <2>2. backlog[i + 1] # backlog[1]
    BY <1>2, <2>1 DEF Backlogged
  <2> QED BY <1>4, <2>1, <2>2
<1>9. OneSessionEach'
  <2>1. Sockets' = Sockets \cup {s}
    BY <1>5, <1>6 DEF Sockets
  <2>2. \A t, u \in Sockets' : client'[t] = client'[u] => t = u
    BY <1>2, <1>5, <1>6 DEF OneSessionEach, Sockets
  <2>3. \A t \in Sessions : {"read", "write"} \cap pending'[t] # {} => t \in Sockets'
    BY <1>1, <1>2, <2>1 DEF OneSessionEach
  <2>4. pending[s] # {}
    BY <1>1 DEF Waiting
  <2>5. \A t \in Sockets' : pending'[t] # {} /\ link'[client'[t]] # "away"
    BY <1>1, <1>2, <1>5, <1>6, <2>1, <2>4 DEF OneSessionEach, Sockets
  <2>6. \A i \in 1..Len(backlog') : \A t \in Sockets' : client'[t] # backlog'[i]
    BY <1>2, <1>6, <1>8, <2>1 DEF OneSessionEach, Sockets
  <2> QED BY <2>2, <2>3, <2>5, <2>6 DEF OneSessionEach
<1>10. Backlogged'
  <2> SUFFICES ASSUME NEW i \in 1..Len(backlog')
               PROVE  /\ link[backlog'[i]] # "away"
                      /\ \A j \in 1..Len(backlog') : backlog'[i] = backlog'[j] => i = j
    BY <1>1 DEF Backlogged
  <2>1. ASSUME NEW j \in 1..Len(backlog'), backlog'[i] = backlog'[j] PROVE i = j
    <3>1. i + 1 = j + 1
      BY <1>2, <1>8, <2>1 DEF Backlogged
    <3> QED BY <3>1
  <2> QED BY <1>2, <1>8, <2>1 DEF Backlogged
<1>11. AcceptsOne' /\ AcceptsAlone'
  BY <1>1, <1>2 DEF AcceptsOne, Accepting, AcceptsAlone
<1>12. TypeOK'
  BY <1>1, <1>2, <1>4, <1>6, <1>7 DEF TypeOK, Completions
<1> QED BY <1>7, <1>9, <1>10, <1>11, <1>12 DEF Inv

(* The other completions leave the connections as they are.                *)
LEMMA ReactorInv ==
  ASSUME Inv, NEW s \in Sessions,
         AcceptFails(s) \/ ReadLands(s) \/ ReadFails(s) \/ WriteLands(s)
  PROVE  Inv'
<1>1. PICK op \in Operations, result \in {"ok", "failed"} :
        /\ Waiting(op, s) /\ Completes(op, s, result)
        /\ op = "read" /\ result = "ok" => unsent[s] < MaxUnsent
        /\ op = "accept" => result = "failed"
  BY DEF AcceptFails, ReadLands, ReadFails, WriteLands, Operations
<1>2. UNCHANGED <<server, pending, unsent, network>>
  BY DEF AcceptFails, ReadLands, ReadFails, WriteLands
<1>3. /\ TypeOK /\ AcceptsOne /\ AcceptsAlone /\ Connected /\ OneSessionEach
      /\ UNCHANGED <<server, pending, unsent, client, link, backlog>>
  BY <1>2 DEF Inv, network
<1>4. op = "accept" => client[s] = NoClient
  <2> SUFFICES ASSUME op = "accept" PROVE client[s] = NoClient
    OBVIOUS
  <2>1. /\ "accept" \in pending[s]
        /\ \A n \in 1..Len(ready) : ~(ready[n].op = "accept" /\ ready[n].session = s)
    BY <1>1 DEF Waiting, Queued
  <2>2. \A n \in 1..Len(ready) : ready[n] # [op |-> "accept", session |-> s, result |-> "ok"]
    BY <2>1
  <2> QED BY <1>3, <2>1, <2>2 DEF Connected
<1>5. ready' \in Seq(Completions) /\ HandlersOnce' /\ Messages' /\ Connected'
  <2>1. /\ \A t \in Sessions : t # s \/ op # "accept" => client'[t] = client[t]
        /\ op = "accept" => (client'[s] # NoClient <=> result = "ok")
    BY <1>1, <1>3, <1>4
  <2> QED BY <1>1, <1>3, <2>1, ReactorKeeps
<1>6. OneSessionEach' /\ Backlogged'
  BY <1>2, <1>3, NetworkKept DEF OneSessionEach, Sockets
<1>7. AcceptsOne' /\ AcceptsAlone'
  BY <1>3 DEF AcceptsOne, Accepting, AcceptsAlone
<1>8. TypeOK'
  BY <1>3, <1>5 DEF TypeOK, Completions
<1> QED BY <1>5, <1>6, <1>7, <1>8 DEF Inv

(* A connection joins the backlog.                                         *)
LEMMA ConnectInv == ASSUME Inv, NEW c \in Clients, Connect(c) PROVE Inv'
<1>1. /\ link[c] = "away"
      /\ link' = [link EXCEPT ![c] = "open"]
      /\ backlog' = Append(backlog, c)
      /\ UNCHANGED <<server, pending, unsent, ready, client>>
  BY DEF Connect
<1>2. TypeOK /\ OneSessionEach /\ Backlogged
  BY DEF Inv
<1>3. /\ client \in [Sessions -> Clients \cup {NoClient}]
      /\ link \in [Clients -> {"away", "open", "shut", "gone"}]
      /\ \A i \in 1..Len(backlog) : backlog[i] \in Clients
      /\ NoClient \notin Clients
  BY NetworkTypes
<1>4. /\ Len(backlog) \in Nat /\ backlog' \in Seq(Clients)
      /\ Len(backlog') = Len(backlog) + 1
      /\ \A i \in 1..Len(backlog) : backlog'[i] = backlog[i]
      /\ backlog'[Len(backlog) + 1] = c
  BY <1>1, NetworkTypes, AppendProperties
<1>5. /\ \A t \in Sessions : client[t] # c
      /\ \A i \in 1..Len(backlog) : backlog[i] # c
  BY <1>1, <1>2, <1>3 DEF OneSessionEach, Sockets, Backlogged
<1>6. \A i \in 1..Len(backlog') :
        \/ i \in 1..Len(backlog) /\ backlog'[i] = backlog[i]
        \/ i = Len(backlog) + 1 /\ backlog'[i] = c
  BY <1>4
<1>7. OneSessionEach'
  BY <1>1, <1>2, <1>3, <1>5, <1>6 DEF OneSessionEach, Sockets
<1>8. Backlogged'
  <2>1. \A i \in 1..Len(backlog') : link'[backlog'[i]] # "away"
    BY <1>1, <1>2, <1>3, <1>5, <1>6 DEF Backlogged
  <2>2. ASSUME NEW i \in 1..Len(backlog'), NEW j \in 1..Len(backlog'), backlog'[i] = backlog'[j]
        PROVE  i = j
    BY <1>2, <1>5, <1>6, <2>2 DEF Backlogged
  <2> QED BY <2>1, <2>2 DEF Backlogged
<1>9. TypeOK'
  BY <1>1, <1>2, <1>4 DEF TypeOK
<1>10. AcceptsOne' /\ AcceptsAlone' /\ HandlersOnce' /\ Messages' /\ Connected'
  BY <1>1 DEF Inv, AcceptsOne, Accepting, AcceptsAlone, HandlersOnce, Messages, Connected
<1> QED BY <1>7, <1>8, <1>9, <1>10 DEF Inv

LEMMA LeaveInv == ASSUME Inv, NEW c \in Clients, Shut(c) \/ Reset(c) PROVE Inv'
<1>1. PICK state \in {"shut", "gone"} : link' = [link EXCEPT ![c] = state]
  BY DEF Shut, Reset
<1>2. UNCHANGED <<server, pending, unsent, ready, client, backlog>>
  BY DEF Shut, Reset
<1>3. TypeOK /\ OneSessionEach /\ Backlogged
  BY DEF Inv
<1>4. /\ \A d \in Clients : link[d] # "away" => link'[d] # "away"
      /\ \A i \in 1..Len(backlog) : backlog[i] \in Clients
      /\ \A t \in Sockets : client[t] \in Clients
  BY <1>1, NetworkTypes DEF Sockets
<1>5. TypeOK'
  BY <1>1, <1>2, <1>3 DEF TypeOK
<1>6. OneSessionEach' /\ Backlogged'
  BY <1>2, <1>3, <1>4 DEF OneSessionEach, Sockets, Backlogged
<1>7. AcceptsOne' /\ AcceptsAlone' /\ HandlersOnce' /\ Messages' /\ Connected'
  BY <1>2 DEF Inv, AcceptsOne, Accepting, AcceptsAlone, HandlersOnce, Messages, Connected
<1> QED BY <1>5, <1>6, <1>7 DEF Inv

LEMMA NextInv == Inv /\ [Next]_vars => Inv'
<1> SUFFICES ASSUME Inv, [Next]_vars PROVE Inv'
  OBVIOUS
<1>1. CASE InitFails \/ Launch
  BY <1>1, LaunchInv
<1>2. CASE Handle
  BY <1>2, HandleInv DEF Handle
<1>3. CASE \E s \in Sessions : \/ AcceptLands(s) \/ AcceptFails(s)
                               \/ ReadLands(s) \/ ReadFails(s) \/ WriteLands(s)
  BY <1>3, AcceptLandsInv, ReactorInv
<1>4. CASE \E c \in Clients : Connect(c) \/ Shut(c) \/ Reset(c)
  BY <1>4, ConnectInv, LeaveInv
<1>5. CASE UNCHANGED vars
  BY <1>5 DEF vars, network, Inv, TypeOK, AcceptsOne, Accepting, AcceptsAlone, HandlersOnce,
              Messages, Connected, OneSessionEach, Sockets, Backlogged
<1> QED BY <1>1, <1>2, <1>3, <1>4, <1>5 DEF Next

(* The inductive invariant holds of every server.                          *)
THEOREM InvHolds == Spec => []Inv
<1> QED BY InitInv, NextInv, PTL DEF Spec

-----------------------------------------------------------------------------
(* What follows from it.                                                   *)

(* The state keeps its types.                                              *)
THEOREM TypeCorrect == Spec => []TypeOK
<1>1. Inv => TypeOK
  BY DEF Inv
<1> QED BY <1>1, InvHolds, PTL

(* As long as main is in ctx.run() it waits for one connection.            *)
THEOREM AcceptsOneAlways == Spec => []AcceptsOne
<1>1. Inv => AcceptsOne
  BY DEF Inv
<1> QED BY <1>1, InvHolds, PTL

(* A handler runs once for its operation, on a Session it holds.           *)
THEOREM HandlersOnceAlways == Spec => []HandlersOnce
<1>1. Inv => HandlersOnce
  BY DEF Inv
<1> QED BY <1>1, InvHolds, PTL

(* A connection has one Session, which keeps it as long as it lives.       *)
THEOREM OneSessionForEach == Spec => []OneSessionEach
<1>1. Inv => OneSessionEach
  BY DEF Inv
<1> QED BY <1>1, InvHolds, PTL

(* Every step is, for each Session, one of its life or none.               *)
LEMMA LifeStep ==
  ASSUME Inv, Next, NEW s \in Sessions, pending'[s] # pending[s]
  PROVE  Life(s)!Next
<1> USE DEF Life!Next, Life!Create, Life!Start, Life!Refuse, Life!Read, Life!ReadFails, Life!Write,
            Life!Fresh, Operations
<1>1. TypeOK /\ AcceptsAlone /\ pending \in [Sessions -> SUBSET Operations]
  BY DEF Inv, TypeOK
<1>2. CASE Launch
  <2>1. pending[s] = {} /\ \E new \in Sessions : pending' = [pending EXCEPT ![new] = {"accept"}]
    BY <1>1, <1>2 DEF Launch, startAccept, AcceptsAlone
  <2>2. pending'[s] = {"accept"}
    BY <1>1, <2>1
  <2> QED BY <2>1, <2>2
<1>3. ASSUME NEW t \in Sessions, NEW result \in {"ok", "failed"}, Handles("accept", t, result),
             startAccept([pending EXCEPT ![t] = IF result = "ok" THEN {"read"} ELSE {}])
      PROVE  Life(s)!Next
  <2>1. pending[t] = {"accept"}
    BY <1>1, <1>3, HandlesQueue DEF AcceptsAlone
  <2>2. PICK new \in Sessions :
          /\ pending[new] = {}
          /\ pending' = [[pending EXCEPT ![t] = IF result = "ok" THEN {"read"} ELSE {}]
                           EXCEPT ![new] = {"accept"}]
    BY <1>3 DEF startAccept
  <2>3. CASE s = new
    <3>1. pending[s] = {} /\ pending'[s] = {"accept"}
      BY <1>1, <2>1, <2>2, <2>3
    <3> QED BY <3>1
  <2>4. CASE s = t
    <3>1. pending[s] = {"accept"} /\ pending'[s] \in {{"read"}, {}}
      BY <1>1, <2>1, <2>2, <2>4
    <3> QED BY <3>1
  <2> QED BY <1>1, <2>2, <2>3, <2>4
<1>4. ASSUME NEW t \in Sessions, NEW op \in Operations, NEW result, NEW messages,
             Handles(op, t, result), Drop(op, t, messages)
      PROVE  Life(s)!Next
  <2>1. op \in pending[t] /\ pending' = [pending EXCEPT ![t] = @ \ {op}]
    BY <1>4, HandlesQueue DEF Drop
  <2>2. s = t /\ pending'[s] = pending[s] \ {op}
    BY <1>1, <2>1
  <2>3. op = "accept" => pending[s] = {"accept"}
    BY <1>1, <2>1, <2>2 DEF AcceptsAlone
  <2> QED BY <2>1, <2>2, <2>3
<1>5. ASSUME NEW t \in Sessions, handleAccept(t) \/ handleRead(t) \/ handleWrite(t)
      PROVE  Life(s)!Next
  <2>1. CASE AcceptThrows(t)
    BY <1>4, <2>1 DEF AcceptThrows
  <2>2. CASE Accepted(t)
    BY <1>3, <2>2 DEF Accepted
  <2>3. CASE AcceptError(t)
    BY <1>3, <2>3 DEF AcceptError
  <2>4. CASE ReadOk(t)
    <3>1. "read" \in pending[t]
      BY <2>4, HandlesQueue DEF ReadOk
    <3>2. s = t /\ pending'[s] = pending[s] \cup {"write"}
      BY <1>1, <2>4 DEF ReadOk
    <3> QED BY <3>1, <3>2
  <2>5. CASE ReadError(t)
    BY <1>4, <2>5 DEF ReadError
  <2>6. CASE WriteError(t)
    BY <1>4, <2>6 DEF WriteError
  <2>7. CASE WriteOk(t)
    <3>1. Handles("write", t, "ok") /\ Drop("write", t, 0)
      BY <2>7 DEF WriteOk
    <3> QED BY <1>4, <3>1
  <2> QED BY <1>5, <2>1, <2>2, <2>3, <2>4, <2>5, <2>6, <2>7
          DEF handleAccept, handleRead, handleWrite
<1>6. CASE Handle
  BY <1>5, <1>6 DEF Handle
<1>7. ASSUME NEW t \in Sessions,
             AcceptLands(t) \/ AcceptFails(t) \/ ReadLands(t) \/ ReadFails(t) \/ WriteLands(t)
      PROVE  pending' = pending
  BY <1>7 DEF AcceptLands, AcceptFails, ReadLands, ReadFails, WriteLands
<1>8. (InitFails \/ \E c \in Clients : Connect(c) \/ Shut(c) \/ Reset(c)) => pending' = pending
  BY DEF InitFails, Connect, Shut, Reset
<1> QED BY <1>2, <1>6, <1>7, <1>8 DEF Next

(* Every Session of the server lives as Day7Session was shown to live.     *)
THEOREM SessionsAlwaysLive == Spec => SessionsLive
<1> DEFINE Lives(s) == [Life(s)!Next]_(pending[s])
<1>1. Init => \A s \in Sessions : Life(s)!Init
  BY DEF Init, Life!Init, Life!Unborn
<1>2. Inv /\ [Next]_vars => [\A s \in Sessions : Lives(s)]_pending
  <2> SUFFICES ASSUME Inv, Next PROVE \A s \in Sessions : Lives(s)
    BY DEF vars
  <2> QED BY LifeStep
<1> QED BY <1>1, <1>2, InvHolds, PTL DEF Spec, SessionsLive

=============================================================================
