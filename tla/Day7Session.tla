---------------------------- MODULE Day7Session ----------------------------
(***************************************************************************)
(* One Session of the asynchronous echo server server/example/day7, with   *)
(* the part of Asio it runs on: the socket's read and write operations,    *)
(* performed by the reactor, and the scheduler's queue of completions,     *)
(* from which the one thread inside ctx.run() takes handlers in order.     *)
(*                                                                         *)
(* The peer's byte stream is 1, 2, 3, ...: byte k is the k-th byte it      *)
(* sent, so that a byte out of place can be told from one in its place.    *)
(***************************************************************************)
EXTENDS Integers, Sequences

CONSTANTS
  MAX_LENGTH,   (* size of data_ in bytes                                  *)
  HeapInts,     (* what the memory of MsgNode::maxLen, which no            *)
                (* constructor sets, may hold, converted to size_t         *)
  MaxBytes      (* bound on the number of bytes the peer sends             *)

ASSUME ConstantsAssumption ==
  /\ MAX_LENGTH \in Nat \ {0}
  /\ HeapInts \subseteq Nat
  /\ MaxBytes \in Nat

Zero    == 0     (* a byte written by memset *)
Garbage == -1    (* a byte of memory nobody set, or beyond a node's block *)

VARIABLES
  data,       (* data_, the receive buffer                                 *)
  sendQueue,  (* sendQueue_, of nodes [data, maxLen]                       *)
  reading,    (* the async_read_some: "none", "armed", or its result       *)
  writing,    (* the async_writes under way, each [src, len, off, st]      *)
  ready,      (* completions waiting in the scheduler, oldest first        *)
  refs,       (* shared_ptrs to the Session: it is destroyed at 0          *)
  sent,       (* bytes the peer has sent                                   *)
  taken,      (* bytes of them read off the socket                         *)
  peer,       (* "open", "shut" (has sent FIN) or "gone" (reset)           *)
  wire,       (* history: the bytes given to the kernel, in order          *)
  cut,        (* history: has it ever taken less than the whole of a write *)
              (* at once, though the peer was there?                       *)
  released,   (* history: bytes of the messages popped after their write   *)
  werr        (* history: has an async_write failed?                       *)

session    == <<data, sendQueue, refs, released, werr>>
socket     == <<reading, writing, ready, taken, wire, cut>>
connection == <<sent, peer>>
vars       == <<session, socket, connection>>

NoRead  == [st |-> "none", n |-> 0]
Armed   == [st |-> "armed", n |-> 0]
Zeroed  == [i \in 1..MAX_LENGTH |-> Zero]

Init ==
  /\ data = [i \in 1..MAX_LENGTH |-> Garbage]
  /\ sendQueue = <<>>
  /\ reading = NoRead
  /\ writing = <<>>
  /\ ready = <<>>
  /\ refs = 1     (* the one bound to handleAccept *)
  /\ sent = 0
  /\ taken = 0
  /\ peer = "open"
  /\ wire = <<>>
  /\ cut = FALSE
  /\ released = 0
  /\ werr = FALSE

-----------------------------------------------------------------------------
(* Memory: what the buffer given to a write contains when it is read.      *)

(* The constructor's memcpy of len bytes; maxLen is left as it was found.   *)
(* Faulty variant: the whole of msg is copied.                             *)
MsgNodeWhole(msg, len, heapInt) == [data |-> msg, maxLen |-> heapInt]
MsgNode(msg, len, heapInt) == [data |-> SubSeq(msg, 1, len), maxLen |-> heapInt]

(* buffer(node->data, node->maxLen): maxLen bytes from a block that holds  *)
(* only as many as were copied into it.                                    *)
NodeBuffer(node) ==
  [i \in 1..node.maxLen |-> IF i <= Len(node.data) THEN node.data[i] ELSE Garbage]

(* A write started by send points into data_, one started by handleWrite   *)
(* into the node at the head of the queue.                                 *)
Buffer(op) == IF op.src = "data_" THEN data ELSE NodeBuffer(Head(sendQueue))

-----------------------------------------------------------------------------
(* The socket: operations are performed by the reactor and their           *)
(* completions queued.                                                     *)

(* What the kernel takes of a write when start_op tries it at once.         *)
Accepted(len) ==
  {n \in 0..len : peer = "gone" => n = 0}

(* A handler bound with shared_from_this(). Faulty variants: with this     *)
(* only; with a second shared_ptr that is never reset.                     *)
BoundToThis(held) == held
BoundTwice(held) == held + 2
Bound(held) == held + 1

(* The handler at the head of ready starts a write, beside the others,     *)
(* whose own handler takes one more reference to the Session than those    *)
(* held already. If it is performed whole at once, its completion is       *)
(* queued behind those there are.                                          *)
async_write(others, held, src, buffer, len) ==
  \E accepted \in Accepted(len) :
    /\ writing' = Append(others, [src |-> src, len |-> len, off |-> accepted,
                                  st |-> IF accepted = len THEN "done" ELSE "busy"])
    /\ refs' = Bound(held)
    /\ wire' = wire \o SubSeq(buffer, 1, accepted)
    /\ cut' = (cut \/ (accepted < len /\ peer # "gone"))
    /\ ready' = Tail(ready) \o (IF accepted = len THEN <<"write">> ELSE <<>>)

(* A further write_some of the composed write_op, from the buffer as it is *)
(* by now.                                                                 *)
WriteSome ==
  /\ writing # <<>>
  /\ LET op == Head(writing) IN
     /\ op.st = "busy"
     /\ peer # "gone"
     /\ \E off \in (op.off + 1)..op.len :
          /\ wire' = wire \o SubSeq(Buffer(op), op.off + 1, off)
          /\ writing' = [writing EXCEPT ![1].off = off,
                                        ![1].st = IF off = op.len THEN "done" ELSE "busy"]
          /\ ready' = ready \o (IF off = op.len THEN <<"write">> ELSE <<>>)
  /\ UNCHANGED <<session, connection, reading, taken, cut>>

WriteFails ==
  /\ writing # <<>>
  /\ Head(writing).st = "busy"
  /\ peer = "gone"
  /\ writing' = [writing EXCEPT ![1].st = "failed"]
  /\ ready' = Append(ready, "write")
  /\ UNCHANGED <<session, connection, reading, taken, wire, cut>>

(* buffer(data_, MAX_LENGTH)                                               *)
ReadSizes == 1..MAX_LENGTH

ReadLands ==
  /\ reading.st = "armed"
  /\ \E n \in ReadSizes :
       /\ taken + n <= sent
       /\ data' = [i \in 1..MAX_LENGTH |-> IF i <= n THEN taken + i ELSE data[i]]
       /\ taken' = taken + n
       /\ reading' = [st |-> "done", n |-> n]
  /\ ready' = Append(ready, "read")
  /\ UNCHANGED <<sendQueue, refs, released, werr, writing, wire, cut, connection>>

(* EOF once the peer's FIN is reached, an error once it is gone.           *)
ReadFails ==
  /\ reading.st = "armed"
  /\ peer = "gone" \/ (peer = "shut" /\ taken = sent)
  /\ reading' = [st |-> "failed", n |-> 0]
  /\ ready' = Append(ready, "read")
  /\ UNCHANGED <<session, connection, writing, taken, wire, cut>>

-----------------------------------------------------------------------------
(* Session's member functions. Each runs to its end on the one thread;     *)
(* then the reference bound to the handler that called it is dropped, and  *)
(* with the last one the Session is destroyed.                             *)

(* Called by handleAccept, whose reference the read's handler replaces.    *)
start ==
  /\ refs = 1 /\ reading = NoRead /\ writing = <<>>
  /\ data' = Zeroed
  /\ reading' = Armed
  /\ UNCHANGED <<sendQueue, refs, released, werr, writing, ready, taken, wire, cut, connection>>

(* The caller's completion is taken off ready here; held counts the        *)
(* references that stay when the caller returns. Faulty variants: no test  *)
(* of the queue's size; the test off by one.                               *)
sendAlways(msg, len, held) ==
  /\ \E heapInt \in HeapInts : sendQueue' = Append(sendQueue, MsgNode(msg, len, heapInt))
  /\ async_write(writing, held, "data_", msg, len)

sendNever(msg, len, held) ==
  /\ \E heapInt \in HeapInts : sendQueue' = Append(sendQueue, MsgNode(msg, len, heapInt))
  /\ ready' = Tail(ready)
  /\ refs' = held
  /\ UNCHANGED <<writing, wire, cut>>

send(msg, len, held) ==
  /\ \E heapInt \in HeapInts : sendQueue' = Append(sendQueue, MsgNode(msg, len, heapInt))
  /\ \/ /\ Len(sendQueue') >= 2
        /\ ready' = Tail(ready)
        /\ refs' = held
        /\ UNCHANGED <<writing, wire, cut>>
     \/ /\ Len(sendQueue') < 2
        /\ async_write(writing, held, "data_", msg, len)

ReadError ==
  /\ reading.st = "failed"
  /\ reading' = NoRead
  /\ ready' = Tail(ready)
  /\ refs' = refs - 1
  /\ UNCHANGED <<data, sendQueue, writing, wire, cut>>

(* The next read's handler takes a reference as the last one's is dropped. *)
handleRead ==
  /\ ready # <<>> /\ Head(ready) = "read"
  /\ \/ ReadError
     \/ /\ reading.st = "done"
        /\ send(data, reading.n, refs)
        /\ data' = Zeroed
        /\ reading' = Armed
  /\ UNCHANGED <<released, werr, taken, connection>>

WriteError ==
  /\ Head(writing).st = "failed"
  /\ writing' = Tail(writing)
  /\ ready' = Tail(ready)
  /\ refs' = refs - 1
  /\ UNCHANGED <<sendQueue, released, wire, cut>>

(* Faulty variant: the next message is left to wait.                       *)
WriteNextForgets ==
  /\ writing' = Tail(writing)
  /\ ready' = Tail(ready)
  /\ refs' = refs - 1
  /\ UNCHANGED <<wire, cut>>

WriteNext ==
  \/ /\ sendQueue' = <<>>
     /\ writing' = Tail(writing)
     /\ ready' = Tail(ready)
     /\ refs' = refs - 1
     /\ UNCHANGED <<wire, cut>>
  \/ /\ sendQueue' # <<>>
     /\ LET node == Head(sendQueue') IN
        async_write(Tail(writing), refs - 1, "node", NodeBuffer(node), node.maxLen)

handleWrite ==
  /\ ready # <<>> /\ Head(ready) = "write"
  /\ writing # <<>>
  /\ \/ WriteError /\ werr' = TRUE
     \/ /\ Head(writing).st = "done"
        /\ sendQueue' = Tail(sendQueue)
        /\ released' = released + Len(Head(sendQueue).data)
        /\ WriteNext
        /\ UNCHANGED werr
  /\ UNCHANGED <<data, reading, taken, connection>>

-----------------------------------------------------------------------------
(* The peer.                                                               *)

PeerSends ==
  /\ peer = "open" /\ sent < MaxBytes
  /\ sent' = sent + 1
  /\ UNCHANGED <<session, socket, peer>>

PeerShuts ==
  /\ peer = "open"
  /\ peer' = "shut"
  /\ UNCHANGED <<session, socket, sent>>

PeerVanishes ==
  /\ peer # "gone"
  /\ peer' = "gone"
  /\ UNCHANGED <<session, socket, sent>>

Next ==
  \/ start \/ handleRead \/ handleWrite
  \/ WriteSome \/ WriteFails \/ ReadLands \/ ReadFails
  \/ PeerSends \/ PeerShuts \/ PeerVanishes

(* The thread in ctx.run() takes completions as long as there are any, and *)
(* the kernel performs what it can: the peer that stays connected reads    *)
(* what is sent to it. Nothing makes the peer send, stop or vanish.        *)
Fairness ==
  /\ WF_vars(start) /\ WF_vars(handleRead) /\ WF_vars(handleWrite)
  /\ WF_vars(WriteSome) /\ WF_vars(WriteFails)
  /\ WF_vars(ReadLands) /\ WF_vars(ReadFails)

Spec     == Init /\ [][Next]_vars
FairSpec == Spec /\ Fairness

-----------------------------------------------------------------------------
(* Properties.                                                             *)

Nodes     == [data : Seq(Int), maxLen : Nat]
WriteOps  == [src : {"data_", "node"}, len : Nat, off : Nat, st : {"busy", "done", "failed"}]

(* The variables keep their types: Session's members and Asio's queues.    *)
TypeOK ==
  /\ data \in [1..MAX_LENGTH -> Int]
  /\ sendQueue \in Seq(Nodes)
  /\ reading \in [st : {"none", "armed", "done", "failed"}, n : 0..MAX_LENGTH]
  /\ writing \in Seq(WriteOps)
  /\ ready \in Seq({"read", "write"})
  /\ refs \in Nat
  /\ sent \in Nat /\ taken \in 0..sent
  /\ peer \in {"open", "shut", "gone"}
  /\ wire \in Seq(Int)
  /\ cut \in BOOLEAN
  /\ released \in Nat
  /\ werr \in BOOLEAN

(* The size() >= 2 test of send and the restart in handleWrite keep one    *)
(* write under way exactly while there is a message to write: never two    *)
(* async_writes interleaving on the socket, never a queue that nobody      *)
(* empties, unless a write has failed, after which the queue stays as it   *)
(* was.                                                                    *)
OneWriter ==
  /\ Len(writing) <= 1
  /\ ~werr => (writing = <<>> <=> sendQueue = <<>>)
  /\ werr => writing = <<>> /\ sendQueue # <<>>

(* Bytes that have been through handleRead.                                *)
Handled == IF reading.st = "done" THEN taken - reading.n ELSE taken

IsRun(s, first) == \A j \in 1..Len(s) : s[j] = first + j - 1

(* The copies the nodes hold are the stream itself: every byte handleRead  *)
(* took is in one node, in order, until that node is popped, whatever      *)
(* memset and later reads do to data_ meanwhile.                           *)
QueueHoldsStream ==
  /\ sendQueue = <<>> => Handled = released
  /\ sendQueue # <<>> =>
       /\ IsRun(sendQueue[1].data, released + 1)
       /\ LET last == sendQueue[Len(sendQueue)].data IN last[Len(last)] = Handled
  /\ \A i \in 1..(Len(sendQueue) - 1) :
       LET this == sendQueue[i].data
       IN  IsRun(sendQueue[i + 1].data, this[Len(this)] + 1)

(* shared_from_this() in each bound handler: every operation on the socket *)
(* holds the Session its handler will run on, and holds it once, so that   *)
(* it is neither destroyed under a handler nor kept when none is left.     *)
HandlersHoldSession ==
  (ready # <<>> \/ reading # NoRead \/ writing # <<>>) =>
    refs = Len(writing) + (IF reading = NoRead THEN 0 ELSE 1)

(* As long as the kernel has taken every write whole at its start, the     *)
(* completion of a write is always handled before the next read: the       *)
(* queue never holds a second message, neither data_ nor maxLen is ever    *)
(* read late, and the peer gets back exactly what it sent.                 *)
EchoExact ==
  ~cut =>
    /\ \A i \in 1..Len(wire) : wire[i] = i
    /\ peer # "gone" => Len(wire) = Handled /\ Len(sendQueue) <= 1

(* A failed write silences the session: its message is never popped, so    *)
(* send never starts another write, though reads go on.                    *)
SilentAfterError == [][werr => writing' = <<>> /\ wire' = wire]_vars

(* What the asio documentation of async_write asks of its caller: the      *)
(* memory behind a buffer is valid until the write completes. A buffer     *)
(* longer than the node's block is not.                                    *)
WriteBuffersValid ==
  \A i \in 1..Len(writing) :
    (writing[i].src = "node" /\ writing[i].st = "busy") =>
      writing[i].len <= Len(Head(sendQueue).data)

(* Every message read is written and popped in the end, or a write fails:  *)
(* no message is left waiting for a handleWrite that never comes.          *)
MessageReleased ==
  \A k \in 1..MaxBytes : (Handled >= k) ~> (released >= k \/ werr)

(* What the server sees of a Session: an operation that holds it, and the   *)
(* accept's reference as long as there is no other.                        *)
Operations ==
  (IF reading = NoRead THEN {} ELSE {"read"})
    \cup (IF writing = <<>> THEN {} ELSE {"write"})
    \cup (IF reading = NoRead /\ writing = <<>> /\ refs > 0 THEN {"accept"} ELSE {})

Life == INSTANCE SessionLife WITH ops <- Operations

(* A Session lives as its server relies on: reads and writes follow from   *)
(* one another, and with the last of them the last reference is gone.      *)
ImplementsSessionLife == Life!Spec

=============================================================================
