------------------------- MODULE Day7SessionProofs -------------------------
(***************************************************************************)
(* Theorems about Day7Session, for every size of the buffer, every bound   *)
(* on the peer's bytes, every content of maxLen and any kernel.            *)
(***************************************************************************)
EXTENDS Day7Session, SequenceTheorems, TLAPS

USE ConstantsAssumption

(* A read that has landed brought at least one byte.                       *)
ReadsBring == reading.st = "done" => reading.n >= 1

(* A write under way stays within the buffer it was given.                 *)
WritesFit ==
  \A i \in 1..Len(writing) :
    /\ writing[i].off <= writing[i].len
    /\ writing[i].src = "data_" => writing[i].len <= MAX_LENGTH
    /\ writing[i].src = "node" => writing[i].len = sendQueue[1].maxLen

(* The types hold only because a finished write finds its message in the   *)
(* queue, and a handler that ends a reference to drop, so they are proved  *)
(* together with what guarantees that.                                     *)
SessionInv == TypeOK /\ OneWriter /\ HandlersHoldSession /\ ReadsBring /\ WritesFit

LEMMA OneIsNotEmpty == \A s : Len(s) = 1 => s # <<>>
  OBVIOUS

LEMMA DataIsSeq ==
  ASSUME TypeOK
  PROVE  data \in Seq(Int) /\ Len(data) = MAX_LENGTH
  BY DEF TypeOK

LEMMA NodeBufferIsSeq ==
  ASSUME NEW node \in Nodes
  PROVE  NodeBuffer(node) \in Seq(Int) /\ Len(NodeBuffer(node)) = node.maxLen
  <1>1. node.maxLen \in Nat /\ node.data \in Seq(Int)
    BY DEF Nodes
  <1>2. \A i \in 1..node.maxLen :
          (IF i <= Len(node.data) THEN node.data[i] ELSE Garbage) \in Int
    <2> SUFFICES ASSUME NEW i \in 1..node.maxLen, i <= Len(node.data)
                 PROVE  node.data[i] \in Int
      BY DEF Garbage
    <2>1. i \in 1..Len(node.data)
      BY <1>1
    <2> QED BY <1>1, <2>1, ElementOfSeq
  <1>3. NodeBuffer(node) \in [1..node.maxLen -> Int]
    BY <1>2 DEF NodeBuffer
  <1> QED BY <1>1, <1>3

LEMMA MsgNodeType ==
  ASSUME NEW msg \in Seq(Int), NEW len \in 0..Len(msg), NEW heapInt \in HeapInts
  PROVE  /\ MsgNode(msg, len, heapInt) \in Nodes
         /\ Len(MsgNode(msg, len, heapInt).data) = len
         /\ \A i \in 1..len : MsgNode(msg, len, heapInt).data[i] = msg[i]
  <1>1. \A i \in 1..len : msg[i] \in Int
    BY ElementOfSeq
  <1>2. /\ SubSeq(msg, 1, len) \in Seq(Int)
        /\ Len(SubSeq(msg, 1, len)) = len
        /\ \A i \in 1..len : SubSeq(msg, 1, len)[i] = msg[i]
    BY <1>1, SubSeqProperties
  <1> QED BY <1>2 DEF MsgNode, Nodes

(* A write started when no other is under way, from a buffer long enough.  *)
LEMMA WriteStarted ==
  ASSUME TypeOK, ready # <<>>,
         NEW held \in Nat, NEW src \in {"data_", "node"},
         NEW buffer \in Seq(Int), NEW len \in 0..Len(buffer),
         async_write(<<>>, held, src, buffer, len)
  PROVE  /\ writing' \in Seq(WriteOps) /\ Len(writing') = 1
         /\ writing'[1].src = src /\ writing'[1].len = len
         /\ writing'[1].off <= len /\ writing'[1].st # "failed"
         /\ refs' = held + 1
         /\ ready' \in Seq({"read", "write"})
         /\ wire' \in Seq(Int) /\ cut' \in BOOLEAN
  <1>1. PICK accepted \in Accepted(len) :
          /\ writing' = Append(<<>>, [src |-> src, len |-> len, off |-> accepted,
                                  st |-> IF accepted = len THEN "done" ELSE "busy"])
          /\ refs' = Bound(held)
          /\ wire' = wire \o SubSeq(buffer, 1, accepted)
          /\ cut' = (cut \/ (accepted < len /\ peer # "gone"))
          /\ ready' = Tail(ready) \o (IF accepted = len THEN <<"write">> ELSE <<>>)
    BY DEF async_write
  <1>2. accepted \in 0..len
    BY <1>1 DEF Accepted, TypeOK
  <1> DEFINE op == [src |-> src, len |-> len, off |-> accepted,
                    st |-> IF accepted = len THEN "done" ELSE "busy"]
  <1>3. op \in WriteOps
    BY <1>2 DEF WriteOps
  <1>4. writing' = <<op>>
    BY <1>1
  <1>5. wire' \in Seq(Int)
    <2>1. \A i \in 1..accepted : buffer[i] \in Int
      BY <1>2, ElementOfSeq
    <2>2. SubSeq(buffer, 1, accepted) \in Seq(Int)
      BY <1>2, <2>1, SubSeqProperties
    <2> QED BY <1>1, <2>2, ConcatProperties DEF TypeOK
  <1>6. ready' \in Seq({"read", "write"})
    <2>1. Tail(ready) \in Seq({"read", "write"})
      BY HeadTailProperties DEF TypeOK
    <2>2. <<"write">> \in Seq({"read", "write"}) /\ <<>> \in Seq({"read", "write"})
      OBVIOUS
    <2>3. CASE accepted = len
      BY <1>1, <2>1, <2>2, <2>3, ConcatProperties
    <2>4. CASE accepted # len
      BY <1>1, <2>1, <2>2, <2>4, ConcatProperties
    <2> QED BY <2>3, <2>4
  <1> HIDE DEF op
  <1>7. writing' \in Seq(WriteOps) /\ Len(writing') = 1 /\ writing'[1] = op
    BY <1>3, <1>4
  <1> QED BY <1>1, <1>2, <1>5, <1>6, <1>7 DEF Bound, op

LEMMA OneUnderWay ==
  ASSUME SessionInv, writing # <<>>
  PROVE  /\ Len(writing) = 1 /\ Tail(writing) = <<>>
         /\ Head(writing) = writing[1] /\ writing[1] \in WriteOps
         /\ sendQueue # <<>> /\ ~werr
  <1>1. writing \in Seq(WriteOps) /\ Len(writing) <= 1
    BY DEF SessionInv, TypeOK, OneWriter
  <1>2. Len(writing) = 1
    <2>1. Len(writing) \in Nat \ {0}
      BY <1>1, EmptySeq, Zenon
    <2>2. Len(writing) <= 1
      BY <1>1
    <2>3. \A n \in Nat \ {0} : n <= 1 => n = 1
      OBVIOUS
    <2> QED BY <2>1, <2>2, <2>3, Zenon
  <1>3. writing[1] \in WriteOps
    BY <1>1, <1>2, ElementOfSeq
  <1>4. Head(writing) = writing[1]
    BY <1>1, <1>2
  <1>5. Tail(writing) = <<>>
    <2>1. Tail(writing) \in Seq(WriteOps) /\ Len(Tail(writing)) = 0
      BY <1>1, <1>2, HeadTailProperties
    <2> QED BY <2>1, EmptySeq
  <1>6. sendQueue # <<>> /\ ~werr
    BY DEF SessionInv, OneWriter
  <1> QED BY <1>2, <1>3, <1>4, <1>5, <1>6

LEMMA InitSessionInv == Init => SessionInv
  <1> SUFFICES ASSUME Init PROVE SessionInv
    OBVIOUS
  <1>1. data \in [1..MAX_LENGTH -> Int]
    BY DEF Init, Garbage
  <1>2. reading \in [st : {"none", "armed", "done", "failed"}, n : 0..MAX_LENGTH]
    BY DEF Init, NoRead, ConstantsAssumption
  <1>3. /\ sendQueue \in Seq(Nodes) /\ writing \in Seq(WriteOps)
        /\ ready \in Seq({"read", "write"}) /\ wire \in Seq(Int) /\ cut \in BOOLEAN
    BY EmptySeq DEF Init
  <1>4. werr \in BOOLEAN /\ peer \in {"open", "shut", "gone"}
    BY DEF Init
  <1>5. refs \in Nat /\ sent \in Nat /\ taken \in 0..sent /\ released \in Nat
    BY DEF Init
  <1>6. TypeOK
    BY <1>1, <1>2, <1>3, <1>4, <1>5 DEF TypeOK
  <1> QED BY <1>6 DEF Init, SessionInv, OneWriter, HandlersHoldSession, ReadsBring, WritesFit, NoRead

(* The queue after a message is pushed: send, whichever way it goes.       *)
LEMMA SendKeeps ==
  ASSUME SessionInv, ready # <<>>,
         NEW len \in 1..MAX_LENGTH, send(data, len, refs)
  PROVE  /\ sendQueue' \in Seq(Nodes) /\ sendQueue' # <<>>
         /\ sendQueue # <<>> => sendQueue'[1] = sendQueue[1]
         /\ writing' \in Seq(WriteOps) /\ Len(writing') <= 1
         /\ refs' \in Nat
         /\ refs' - Len(writing') = refs - Len(writing)
         /\ ready' \in Seq({"read", "write"}) /\ wire' \in Seq(Int) /\ cut' \in BOOLEAN
         /\ \/ sendQueue = <<>> /\ writing' # <<>> /\ writing'[1].src = "data_"
               /\ writing'[1].off <= writing'[1].len /\ writing'[1].len = len
            \/ sendQueue # <<>> /\ writing' = writing /\ wire' = wire /\ cut' = cut
  <1>1. /\ TypeOK /\ OneWriter
        /\ sendQueue \in Seq(Nodes) /\ writing \in Seq(WriteOps) /\ refs \in Nat
        /\ ready \in Seq({"read", "write"}) /\ wire \in Seq(Int) /\ cut \in BOOLEAN
    BY DEF SessionInv, TypeOK
  <1>2. PICK heapInt \in HeapInts : sendQueue' = Append(sendQueue, MsgNode(data, len, heapInt))
    BY DEF send
  <1>3. MsgNode(data, len, heapInt) \in Nodes
    <2>1. data \in Seq(Int) /\ len \in 0..Len(data)
      BY <1>1, DataIsSeq
    <2> QED BY <2>1, MsgNodeType
  <1>4. /\ sendQueue' \in Seq(Nodes) /\ sendQueue' # <<>>
        /\ Len(sendQueue') = Len(sendQueue) + 1
        /\ \A i \in 1..Len(sendQueue) : sendQueue'[i] = sendQueue[i]
    BY <1>1, <1>2, <1>3, AppendProperties
  <1>5. sendQueue # <<>> <=> Len(sendQueue) >= 1
    BY <1>1, EmptySeq
  <1>6. Tail(ready) \in Seq({"read", "write"})
    BY <1>1, HeadTailProperties
  <1>7. CASE Len(sendQueue') >= 2
    <2>1. /\ ready' = Tail(ready) /\ refs' = refs
          /\ writing' = writing /\ wire' = wire /\ cut' = cut
      BY <1>7, <1>4 DEF send
    <2> QED BY <2>1, <1>1, <1>4, <1>5, <1>6, <1>7 DEF OneWriter
  <1>8. CASE Len(sendQueue') < 2
    <2>1. sendQueue = <<>>
      BY <1>1, <1>4, <1>5, <1>8
    <2>2. writing = <<>>
      BY <1>1, <2>1 DEF OneWriter
    <2>3. async_write(<<>>, refs, "data_", data, len)
      BY <1>8, <1>4, <1>1, <2>2 DEF send
    <2>4. /\ writing' \in Seq(WriteOps) /\ Len(writing') = 1
          /\ writing'[1].src = "data_" /\ writing'[1].len = len
          /\ writing'[1].off <= len /\ refs' = refs + 1
          /\ ready' \in Seq({"read", "write"}) /\ wire' \in Seq(Int) /\ cut' \in BOOLEAN
      BY <1>1, <2>3, DataIsSeq, WriteStarted
    <2> QED BY <2>1, <2>2, <2>4, <1>1, <1>4, EmptySeq
  <1> QED BY <1>1, <1>4, <1>7, <1>8

LEMMA NextSessionInv == SessionInv /\ [Next]_vars => SessionInv'
  <1> SUFFICES ASSUME SessionInv, [Next]_vars PROVE SessionInv'
    OBVIOUS
  <1>0. /\ TypeOK /\ OneWriter /\ HandlersHoldSession /\ ReadsBring /\ WritesFit
        /\ Len(writing) \in Nat /\ refs \in Nat
    BY EmptySeq DEF SessionInv, TypeOK
  <1> USE DEF SessionInv
  <1>1. CASE start
    <2>1. data' \in [1..MAX_LENGTH -> Int]
      BY <1>1 DEF start, Zeroed, Zero
    <2>2. reading' \in [st : {"none", "armed", "done", "failed"}, n : 0..MAX_LENGTH]
      BY <1>1 DEF start, Armed, ConstantsAssumption
    <2>3. TypeOK'
      BY <1>0, <1>1, <2>1, <2>2 DEF start, TypeOK, connection
    <2>4. HandlersHoldSession'
      BY <1>1, EmptySeq DEF start, HandlersHoldSession, Armed, NoRead
    <2> QED BY <1>0, <1>1, <2>3, <2>4 DEF start, Armed, connection, OneWriter, ReadsBring, WritesFit
  <1>2. CASE handleRead
    <2>0. ready # <<>>
      BY <1>2 DEF handleRead
    <2>1. CASE ReadError
      <3>1. reading' \in [st : {"none", "armed", "done", "failed"}, n : 0..MAX_LENGTH]
        BY <2>1 DEF ReadError, NoRead, ConstantsAssumption
      <3>2. ready' \in Seq({"read", "write"})
        BY <1>0, <1>2, <2>1, HeadTailProperties DEF ReadError, handleRead, TypeOK
      <3>3. refs = Len(writing) + 1
        BY <1>0, <2>1 DEF ReadError, HandlersHoldSession, NoRead
      <3>4. refs' = Len(writing) /\ writing' = writing /\ reading' = NoRead
        BY <1>0, <3>3, <2>1 DEF ReadError
      <3>5. TypeOK'
        BY <1>0, <1>2, <2>1, <3>1, <3>2, <3>4 DEF handleRead, ReadError, TypeOK, connection
      <3>6. HandlersHoldSession'
        BY <1>0, <3>4 DEF HandlersHoldSession
      <3> QED BY <1>0, <1>2, <2>1, <3>5, <3>6
              DEF handleRead, ReadError, NoRead, connection, OneWriter, ReadsBring, WritesFit
    <2>2. CASE ~ReadError
      <3>1. /\ reading.st = "done" /\ send(data, reading.n, refs)
            /\ data' = Zeroed /\ reading' = Armed
            /\ UNCHANGED <<released, werr, taken, sent, peer>>
        BY <1>2, <2>2 DEF handleRead, connection
      <3>2. reading.n \in 1..MAX_LENGTH
        BY <1>0, <3>1 DEF TypeOK, ReadsBring, ConstantsAssumption
      <3>3. /\ sendQueue' \in Seq(Nodes) /\ sendQueue' # <<>>
            /\ sendQueue # <<>> => sendQueue'[1] = sendQueue[1]
            /\ writing' \in Seq(WriteOps) /\ Len(writing') <= 1
            /\ refs' \in Nat
            /\ refs' - Len(writing') = refs - Len(writing)
            /\ ready' \in Seq({"read", "write"}) /\ wire' \in Seq(Int) /\ cut' \in BOOLEAN
            /\ \/ sendQueue = <<>> /\ writing' # <<>> /\ writing'[1].src = "data_"
                  /\ writing'[1].off <= writing'[1].len /\ writing'[1].len = reading.n
               \/ sendQueue # <<>> /\ writing' = writing /\ wire' = wire /\ cut' = cut
        BY <1>0, <2>0, <3>1, <3>2, SendKeeps
      <3>4. data' \in [1..MAX_LENGTH -> Int]
        BY <3>1 DEF Zeroed, Zero
      <3>5. reading' \in [st : {"none", "armed", "done", "failed"}, n : 0..MAX_LENGTH]
        BY <3>1 DEF Armed, ConstantsAssumption
      <3>6. TypeOK'
        BY <1>0, <3>1, <3>3, <3>4, <3>5 DEF TypeOK
      <3>7. OneWriter'
        BY <1>0, <3>1, <3>3 DEF OneWriter, TypeOK
      <3>8. HandlersHoldSession'
        <4>1. Len(writing') \in Nat
          BY <3>3, EmptySeq
        <4>2. refs = Len(writing) + 1
          BY <1>0, <2>0, <3>1 DEF HandlersHoldSession, NoRead
        <4>3. refs' = Len(writing') + 1
          BY <1>0, <3>3, <4>1, <4>2
        <4> QED BY <3>1, <4>3 DEF HandlersHoldSession, Armed, NoRead
      <3>9. ReadsBring'
        BY <3>1 DEF ReadsBring, Armed
      <3>10. WritesFit'
        <4>1. CASE sendQueue = <<>>
          BY <3>2, <3>3, <4>1 DEF WritesFit
        <4>2. CASE sendQueue # <<>>
          BY <1>0, <3>3, <4>2 DEF WritesFit
        <4> QED BY <4>1, <4>2
      <3> QED BY <3>6, <3>7, <3>8, <3>9, <3>10
    <2> QED BY <2>1, <2>2
  <1>3. CASE handleWrite
    <2>0. /\ ready # <<>> /\ writing # <<>>
          /\ UNCHANGED <<data, reading, taken, sent, peer>>
      BY <1>3 DEF handleWrite, connection
    <2>1. /\ Len(writing) = 1 /\ Tail(writing) = <<>>
          /\ Head(writing) = writing[1] /\ writing[1] \in WriteOps
      BY <2>0, OneUnderWay
    <2>2. sendQueue # <<>> /\ ~werr
      BY <2>0, OneUnderWay
    <2>3. refs >= 1 /\ refs - 1 = (IF reading = NoRead THEN 0 ELSE 1)
      BY <1>0, <2>0, <2>1 DEF HandlersHoldSession
    <2>4. Tail(ready) \in Seq({"read", "write"})
      BY <1>0, <2>0, HeadTailProperties DEF TypeOK
    <2>5. CASE WriteError /\ werr' = TRUE
      <3>1. /\ writing' = <<>> /\ ready' \in Seq({"read", "write"})
            /\ refs' = refs - 1 /\ UNCHANGED <<sendQueue, released, wire, cut>> /\ werr'
        BY <2>1, <2>4, <2>5 DEF WriteError
      <3>2. TypeOK'
        <4>1. writing' \in Seq(WriteOps) /\ refs' \in Nat /\ werr' \in BOOLEAN
          BY <1>0, <2>3, <3>1, <2>5
        <4> QED BY <1>0, <2>0, <3>1, <4>1 DEF TypeOK
      <3>3. Len(writing') = 0
        BY <3>1
      <3> QED BY <1>0, <2>0, <2>2, <2>3, <3>1, <3>2, <3>3
              DEF OneWriter, HandlersHoldSession, ReadsBring, WritesFit
    <2>6. CASE ~(WriteError /\ werr' = TRUE)
      <3>1. /\ sendQueue' = Tail(sendQueue) /\ WriteNext /\ werr' = werr
            /\ released' = released + Len(Head(sendQueue).data)
        BY <1>3, <2>6 DEF handleWrite
      <3>2. sendQueue' \in Seq(Nodes)
        BY <1>0, <2>2, <3>1, HeadTailProperties DEF TypeOK
      <3>3. released' \in Nat
        <4>1. Head(sendQueue) \in Nodes /\ released \in Nat
          BY <1>0, <2>2, HeadTailProperties DEF TypeOK
        <4>2. Len(Head(sendQueue).data) \in Nat
          BY <4>1, EmptySeq DEF Nodes
        <4> QED BY <3>1, <4>1, <4>2
      <3>4. CASE sendQueue' = <<>>
        <4>1. writing' = <<>> /\ ready' = Tail(ready) /\ refs' = refs - 1 /\ wire' = wire /\ cut' = cut
          BY <2>1, <3>1, <3>4 DEF WriteNext
        <4>2. TypeOK'
          <5>1. writing' \in Seq(WriteOps) /\ refs' \in Nat
            BY <1>0, <2>3, <4>1
          <5> QED BY <1>0, <2>0, <2>4, <3>1, <3>2, <3>3, <4>1, <5>1 DEF TypeOK
        <4>3. Len(writing') = 0
          BY <4>1
        <4> QED BY <1>0, <2>0, <2>2, <2>3, <3>1, <3>4, <4>1, <4>2, <4>3
                DEF OneWriter, HandlersHoldSession, ReadsBring, WritesFit
      <3>5. CASE sendQueue' # <<>>
        <4> DEFINE node == Head(sendQueue')
        <4>1. node \in Nodes /\ node = sendQueue'[1]
          BY <3>2, <3>5, HeadTailProperties
        <4>2. async_write(<<>>, refs - 1, "node", NodeBuffer(node), node.maxLen)
          BY <2>1, <3>1, <3>5 DEF WriteNext
        <4>3. NodeBuffer(node) \in Seq(Int) /\ node.maxLen \in 0..Len(NodeBuffer(node))
          <5>1. node.maxLen \in Nat
            BY <4>1 DEF Nodes
          <5>2. NodeBuffer(node) \in Seq(Int) /\ Len(NodeBuffer(node)) = node.maxLen
            BY <4>1, NodeBufferIsSeq
          <5> QED BY <5>1, <5>2
        <4>4. refs - 1 \in Nat
          BY <1>0, <2>3
        <4> HIDE DEF node
        <4>5. /\ writing' \in Seq(WriteOps) /\ Len(writing') = 1
              /\ writing'[1].src = "node" /\ writing'[1].len = node.maxLen
              /\ writing'[1].off <= node.maxLen
              /\ refs' = refs - 1 + 1
              /\ ready' \in Seq({"read", "write"}) /\ wire' \in Seq(Int) /\ cut' \in BOOLEAN
          BY <1>0, <2>0, <4>2, <4>3, <4>4, WriteStarted
        <4>6. refs' = refs
          BY <1>0, <4>5
        <4>7. TypeOK'
          BY <1>0, <2>0, <3>1, <3>2, <3>3, <4>5, <4>6 DEF TypeOK
        <4>8. OneWriter'
          <5>1. writing' # <<>>
            BY <4>5, OneIsNotEmpty
          <5> QED BY <2>2, <3>1, <3>5, <4>5, <5>1 DEF OneWriter
        <4>9. HandlersHoldSession'
          BY <1>0, <2>0, <2>3, <4>5, <4>6 DEF HandlersHoldSession
        <4>10. WritesFit'
          BY <4>1, <4>5 DEF WritesFit
        <4> QED BY <1>0, <2>0, <4>7, <4>8, <4>9, <4>10 DEF ReadsBring
      <3> QED BY <3>4, <3>5
    <2> QED BY <2>5, <2>6
  <1>4. CASE WriteSome
    <2>1. /\ Len(writing) = 1 /\ Head(writing) = writing[1] /\ writing[1] \in WriteOps
          /\ writing # <<>> /\ sendQueue # <<>> /\ ~werr
      BY <1>4, OneUnderWay DEF WriteSome
    <2> DEFINE op == writing[1]
    <2>2. PICK off \in (op.off + 1)..op.len :
            /\ wire' = wire \o SubSeq(Buffer(op), op.off + 1, off)
            /\ writing' = [writing EXCEPT ![1].off = off,
                                          ![1].st = IF off = op.len THEN "done" ELSE "busy"]
            /\ ready' = ready \o (IF off = op.len THEN <<"write">> ELSE <<>>)
      BY <1>4, <2>1 DEF WriteSome
    <2>3. UNCHANGED <<session, connection, reading, taken, cut>>
      BY <1>4 DEF WriteSome
    <2>4. op.off \in Nat /\ op.len \in Nat /\ off \in Nat /\ off <= op.len
      BY <2>1, <2>2 DEF WriteOps
    <2>5. ready' \in Seq({"read", "write"})
      <3>1. <<"write">> \in Seq({"read", "write"}) /\ <<>> \in Seq({"read", "write"})
        OBVIOUS
      <3>2. CASE off = op.len
        BY <1>0, <2>2, <3>1, <3>2, ConcatProperties DEF TypeOK
      <3>3. CASE off # op.len
        BY <1>0, <2>2, <3>1, <3>3, ConcatProperties DEF TypeOK
      <3> QED BY <3>2, <3>3
    <2>6. wire' \in Seq(Int)
      <3>1. Buffer(op) \in Seq(Int) /\ op.len <= Len(Buffer(op))
        <4>1. CASE op.src = "data_"
          BY <1>0, <2>1, <4>1, DataIsSeq DEF Buffer, WritesFit
        <4>2. CASE op.src = "node"
          <5>1. sendQueue[1] \in Nodes /\ Head(sendQueue) = sendQueue[1]
            BY <1>0, <2>1, HeadTailProperties DEF TypeOK
          <5>2. Buffer(op) = NodeBuffer(sendQueue[1])
            BY <4>2, <5>1 DEF Buffer
          <5>3. op.len = sendQueue[1].maxLen
            BY <1>0, <2>1, <4>2 DEF WritesFit
          <5> QED BY <2>4, <5>1, <5>2, <5>3, NodeBufferIsSeq
        <4> QED BY <2>1, <4>1, <4>2 DEF WriteOps
      <3>2. \A i \in (op.off + 1)..off : Buffer(op)[i] \in Int
        BY <2>4, <3>1, ElementOfSeq
      <3>3. SubSeq(Buffer(op), op.off + 1, off) \in Seq(Int)
        <4>1. op.off + 1 \in Int /\ off \in Int
          BY <2>4
        <4> HIDE DEF op
        <4> QED BY <3>2, <4>1, SubSeqProperties
      <3> QED BY <1>0, <2>2, <3>3, ConcatProperties DEF TypeOK
    <2>7. /\ writing' \in Seq(WriteOps) /\ Len(writing') = 1
          /\ writing'[1].off = off /\ writing'[1].len = op.len /\ writing'[1].src = op.src
      <3> DEFINE new == [op EXCEPT !.off = off,
                                   !.st = IF off = op.len THEN "done" ELSE "busy"]
      <3>1. new \in WriteOps /\ new.off = off /\ new.len = op.len /\ new.src = op.src
        BY <2>1, <2>4 DEF WriteOps
      <3>2. writing' = [writing EXCEPT ![1] = new]
        BY <2>2
      <3>3. 1 \in 1..Len(writing) /\ writing \in Seq(WriteOps)
        BY <1>0, <2>1 DEF TypeOK
      <3> HIDE DEF new
      <3>4. writing' \in Seq(WriteOps) /\ Len(writing') = Len(writing) /\ writing'[1] = new
        BY <3>1, <3>2, <3>3, ExceptSeq
      <3> QED BY <2>1, <3>1, <3>4
    <2> HIDE DEF op
    <2>8. TypeOK'
      BY <1>0, <2>3, <2>5, <2>6, <2>7 DEF TypeOK, session, connection
    <2>9. OneWriter'
      BY <1>0, <2>1, <2>3, <2>7, EmptySeq DEF OneWriter, session
    <2>10. HandlersHoldSession'
      BY <1>0, <2>1, <2>3, <2>7 DEF HandlersHoldSession, session
    <2>11. WritesFit'
      BY <1>0, <2>1, <2>3, <2>4, <2>7 DEF WritesFit, op, session
    <2> QED BY <1>0, <2>3, <2>8, <2>9, <2>10, <2>11 DEF ReadsBring
  <1>5. CASE WriteFails
    <2>1. /\ Len(writing) = 1 /\ writing[1] \in WriteOps
          /\ writing # <<>> /\ sendQueue # <<>> /\ ~werr
      BY <1>5, OneUnderWay DEF WriteFails
    <2>2. /\ writing' = [writing EXCEPT ![1].st = "failed"] /\ ready' = Append(ready, "write")
          /\ UNCHANGED <<session, connection, reading, taken, wire, cut>>
      BY <1>5 DEF WriteFails
    <2>3. ready' \in Seq({"read", "write"})
      BY <1>0, <2>2, AppendProperties DEF TypeOK
    <2>4. /\ writing' \in Seq(WriteOps) /\ Len(writing') = 1
          /\ writing'[1].off = writing[1].off /\ writing'[1].len = writing[1].len
          /\ writing'[1].src = writing[1].src
      <3> DEFINE new == [writing[1] EXCEPT !.st = "failed"]
      <3>1. /\ new \in WriteOps /\ new.off = writing[1].off
            /\ new.len = writing[1].len /\ new.src = writing[1].src
        BY <2>1 DEF WriteOps
      <3>2. writing' = [writing EXCEPT ![1] = new]
        BY <2>2
      <3>3. 1 \in 1..Len(writing) /\ writing \in Seq(WriteOps)
        BY <1>0, <2>1 DEF TypeOK
      <3> HIDE DEF new
      <3>4. writing' \in Seq(WriteOps) /\ Len(writing') = Len(writing) /\ writing'[1] = new
        BY <3>1, <3>2, <3>3, ExceptSeq
      <3> QED BY <2>1, <3>1, <3>4
    <2>5. TypeOK'
      BY <1>0, <2>2, <2>3, <2>4 DEF TypeOK, session, connection
    <2>6. OneWriter'
      BY <1>0, <2>1, <2>2, <2>4, OneIsNotEmpty DEF OneWriter, session
    <2>7. HandlersHoldSession'
      BY <1>0, <2>1, <2>2, <2>4 DEF HandlersHoldSession, session
    <2>8. WritesFit'
      <3>1. sendQueue' = sendQueue
        BY <2>2 DEF session
      <3>2. \A i \in 1..Len(writing) : i = 1
        BY <2>1
      <3> QED BY <1>0, <2>1, <2>4, <3>1, <3>2 DEF WritesFit
    <2> QED BY <1>0, <2>2, <2>5, <2>6, <2>7, <2>8 DEF ReadsBring
  <1>6. CASE ReadLands
    <2>1. PICK n \in 1..MAX_LENGTH :
            /\ taken + n <= sent
            /\ data' = [i \in 1..MAX_LENGTH |-> IF i <= n THEN taken + i ELSE data[i]]
            /\ taken' = taken + n
            /\ reading' = [st |-> "done", n |-> n]
      BY <1>6 DEF ReadLands, ReadSizes
    <2>2. /\ reading.st = "armed" /\ ready' = Append(ready, "read")
          /\ UNCHANGED <<sendQueue, refs, released, werr, writing, wire, cut, sent, peer>>
      BY <1>6 DEF ReadLands, connection
    <2>3. ready' \in Seq({"read", "write"})
      BY <1>0, <2>2, AppendProperties DEF TypeOK
    <2>4. data' \in [1..MAX_LENGTH -> Int]
      BY <1>0, <2>1 DEF TypeOK
    <2>5. reading' \in [st : {"none", "armed", "done", "failed"}, n : 0..MAX_LENGTH]
      BY <2>1, ConstantsAssumption
    <2>6. taken' \in 0..sent
      BY <1>0, <2>1 DEF TypeOK
    <2>7. TypeOK'
      BY <1>0, <2>2, <2>3, <2>4, <2>5, <2>6 DEF TypeOK
    <2>8. HandlersHoldSession'
      BY <1>0, <2>1, <2>2 DEF HandlersHoldSession, NoRead
    <2> QED BY <1>0, <2>1, <2>2, <2>7, <2>8 DEF OneWriter, ReadsBring, WritesFit
  <1>7. CASE ReadFails
    <2>1. /\ reading.st = "armed" /\ reading' = [st |-> "failed", n |-> 0]
          /\ ready' = Append(ready, "read")
          /\ UNCHANGED <<session, connection, writing, taken, wire, cut>>
      BY <1>7 DEF ReadFails
    <2>2. ready' \in Seq({"read", "write"})
      BY <1>0, <2>1, AppendProperties DEF TypeOK
    <2>3. reading' \in [st : {"none", "armed", "done", "failed"}, n : 0..MAX_LENGTH]
      BY <2>1, ConstantsAssumption
    <2>4. TypeOK'
      BY <1>0, <2>1, <2>2, <2>3 DEF TypeOK, session, connection
    <2>5. HandlersHoldSession'
      BY <1>0, <2>1 DEF HandlersHoldSession, NoRead, session
    <2> QED BY <1>0, <2>1, <2>4, <2>5 DEF OneWriter, ReadsBring, WritesFit, session
  <1>8. CASE PeerSends
    BY <1>0, <1>8 DEF PeerSends, session, socket, TypeOK, OneWriter, HandlersHoldSession, ReadsBring, WritesFit
  <1>9. CASE PeerShuts
    BY <1>0, <1>9 DEF PeerShuts, session, socket, TypeOK, OneWriter, HandlersHoldSession, ReadsBring, WritesFit
  <1>11. CASE PeerVanishes
    BY <1>0, <1>11 DEF PeerVanishes, session, socket, TypeOK, OneWriter, HandlersHoldSession, ReadsBring, WritesFit
  <1>10. CASE UNCHANGED vars
    BY <1>0, <1>10 DEF vars, session, socket, connection, TypeOK, OneWriter, HandlersHoldSession, ReadsBring, WritesFit
  <1> QED BY <1>1, <1>2, <1>3, <1>4, <1>5, <1>6, <1>7, <1>8, <1>9, <1>10, <1>11 DEF Next

(* Everything the theorems below rest on, of every reachable state.        *)
LEMMA SessionInvariant == Spec => []SessionInv
  <1> QED BY InitSessionInv, NextSessionInv, PTL DEF Spec

(* The variables keep their types: no reference is dropped that is not     *)
(* held, no message popped that is not queued, no write runs off its       *)
(* buffer's length.                                                        *)
THEOREM TypeCorrect == Spec => []TypeOK
  <1>1. SessionInv => TypeOK
    BY DEF SessionInv
  <1> QED BY <1>1, SessionInvariant, PTL

(* send and handleWrite never have two async_writes under way on the       *)
(* socket, nor leave a queue that nobody empties, except after an error.   *)
THEOREM OneWriterHolds == Spec => []OneWriter
  <1>1. SessionInv => OneWriter
    BY DEF SessionInv
  <1> QED BY <1>1, SessionInvariant, PTL

(* The Session is held by each operation's handler and by nothing else.    *)
THEOREM HandlersHold == Spec => []HandlersHoldSession
  <1>1. SessionInv => HandlersHoldSession
    BY DEF SessionInv
  <1> QED BY <1>1, SessionInvariant, PTL

(* After a failed write no step starts or continues another.               *)
THEOREM SilenceHolds == Spec => SilentAfterError
  <1>1. SessionInv /\ [Next]_vars => [werr => writing' = <<>> /\ wire' = wire]_vars
    <2> SUFFICES ASSUME SessionInv, Next, werr
                 PROVE  writing' = <<>> /\ wire' = wire
      OBVIOUS
    <2>1. writing = <<>> /\ sendQueue # <<>> /\ sendQueue \in Seq(Nodes)
      BY DEF SessionInv, OneWriter, TypeOK
    <2>2. ~handleWrite /\ ~WriteSome /\ ~WriteFails
      BY <2>1 DEF handleWrite, WriteSome, WriteFails
    <2>3. CASE handleRead
      <3>1. CASE ReadError
        BY <2>1, <3>1 DEF ReadError
      <3>2. CASE send(data, reading.n, refs)
        <4>1. Len(sendQueue) \in Nat /\ Len(sendQueue) >= 1
          BY <2>1, EmptySeq
        <4>2. Len(sendQueue') = Len(sendQueue) + 1
          BY <2>1, <3>2 DEF send
        <4> QED BY <2>1, <3>2, <4>1, <4>2 DEF send
      <3> QED BY <2>3, <3>1, <3>2 DEF handleRead
    <2>4. CASE start \/ ReadLands \/ ReadFails
      BY <2>1, <2>4 DEF start, ReadLands, ReadFails
    <2>5. CASE PeerSends \/ PeerShuts \/ PeerVanishes
      BY <2>1, <2>5 DEF PeerSends, PeerShuts, PeerVanishes, socket
    <2> QED BY <2>2, <2>3, <2>4, <2>5 DEF Next
  <1> QED BY <1>1, SessionInvariant, PTL DEF Spec, SilentAfterError


(* A step seen as a step of the Session's life: by whether a read and a    *)
(* write are under way before and after it.                                *)
LEMMA StepLife == SessionInv /\ SessionInv' /\ [Next]_vars => [Life!Next]_Operations
  <1> SUFFICES ASSUME SessionInv, SessionInv', [Next]_vars
               PROVE  [Life!Next]_Operations
    OBVIOUS
  <1>0. /\ OneWriter /\ OneWriter' /\ HandlersHoldSession
        /\ writing \in Seq(WriteOps) /\ refs \in Nat
    BY DEF SessionInv, TypeOK
  <1>1. CASE start
    <2>1. /\ refs = 1 /\ reading = NoRead /\ writing = <<>>
          /\ reading' # NoRead /\ writing' = <<>>
      BY <1>1 DEF start, Armed, NoRead
    <2> QED BY <2>1 DEF Operations, Life!Next, Life!Start, Life!Fresh
  <1>2. CASE handleRead
    <2>1. CASE ReadError
      <3>1. /\ reading # NoRead /\ reading' = NoRead /\ writing' = writing
            /\ refs = Len(writing) + 1 /\ refs' = Len(writing)
        BY <1>0, <2>1 DEF ReadError, NoRead, HandlersHoldSession
      <3>2. writing = <<>> => refs' = 0
        BY <1>0, <3>1, EmptySeq
      <3> QED BY <3>1, <3>2 DEF Operations, Life!Next, Life!ReadFails
    <2>2. CASE ~ReadError
      <3>1. reading # NoRead /\ reading' # NoRead /\ send(data, reading.n, refs)
        BY <1>2, <2>2 DEF handleRead, Armed, NoRead
      <3>2. writing # <<>> => writing' # <<>>
        <4>1. CASE writing' = writing
          BY <4>1
        <4>2. CASE async_write(writing, refs, "data_", data, reading.n)
          <5>1. PICK op : writing' = Append(writing, op)
            BY <4>2 DEF async_write
          <5> QED BY <1>0, <5>1, EmptySeq
        <4> QED BY <3>1, <4>1, <4>2 DEF send
      <3> QED BY <3>1, <3>2 DEF Operations, Life!Next, Life!Read
    <2> QED BY <2>1, <2>2
  <1>3. CASE handleWrite
    <2>1. /\ writing # <<>> /\ ready # <<>> /\ reading' = reading
          /\ WriteError \/ WriteNext
      BY <1>3 DEF handleWrite
    <2>2. Len(writing) = 1 /\ Tail(writing) = <<>>
      BY <2>1, OneUnderWay
    <2>3. refs = IF reading = NoRead THEN 1 ELSE 2
      BY <1>0, <2>1, <2>2 DEF HandlersHoldSession
    <2>4. CASE writing' = Tail(writing) /\ refs' = refs - 1
      <3>1. writing' = <<>> /\ (reading = NoRead => refs' = 0)
        BY <2>2, <2>3, <2>4
      <3> QED BY <2>1, <3>1 DEF Operations, Life!Next, Life!Write
    <2>5. CASE ~(writing' = Tail(writing) /\ refs' = refs - 1)
      <3>1. PICK op : writing' = Append(Tail(writing), op)
        BY <2>1, <2>5 DEF WriteError, WriteNext, async_write
      <3>2. writing' # <<>>
        BY <2>2, <3>1
      <3> QED BY <2>1, <3>2 DEF Operations
    <2> QED BY <2>4, <2>5
  <1>4. CASE WriteSome \/ WriteFails
    <2>1. writing # <<>> /\ UNCHANGED <<reading, refs, sendQueue, werr>>
      BY <1>4 DEF WriteSome, WriteFails, session
    <2>2. writing' # <<>>
      BY <1>0, <2>1 DEF OneWriter
    <2> QED BY <2>1, <2>2 DEF Operations
  <1>5. CASE ReadLands \/ ReadFails
    <2>1. reading # NoRead /\ reading' # NoRead /\ UNCHANGED <<writing, refs>>
      BY <1>5 DEF ReadLands, ReadFails, NoRead, session
    <2> QED BY <2>1 DEF Operations
  <1>6. CASE PeerSends \/ PeerShuts \/ PeerVanishes \/ UNCHANGED vars
    <2>1. UNCHANGED <<reading, writing, refs>>
      BY <1>6 DEF PeerSends, PeerShuts, PeerVanishes, vars, session, socket
    <2> QED BY <2>1 DEF Operations
  <1> QED BY <1>1, <1>2, <1>3, <1>4, <1>5, <1>6 DEF Next

(* The Session implements what its server relies on (module SessionLife):  *)
(* reads and writes only follow from one another, and it is given up with  *)
(* the last of them.                                                       *)
THEOREM LifeImplemented == Spec => ImplementsSessionLife
  <1>1. Init => Life!Init
    BY DEF Init, Operations, Life!Init, Life!Fresh
  <1> QED BY <1>1, SessionInvariant, StepLife, PTL DEF Spec, ImplementsSessionLife, Life!Spec

-----------------------------------------------------------------------------
(* The queue holds the stream.                                             *)

MessagesNotEmpty == \A i \in 1..Len(sendQueue) : Len(sendQueue[i].data) >= 1

(* What a read left in data_ is there until its handler has copied it.     *)
DataFresh ==
  reading.st = "done" => \A i \in 1..reading.n : data[i] = Handled + i

StreamInv == SessionInv /\ QueueHoldsStream /\ MessagesNotEmpty /\ DataFresh

LEMMA QueueTypes ==
  ASSUME SessionInv
  PROVE  /\ sendQueue \in Seq(Nodes) /\ Len(sendQueue) \in Nat
         /\ \A i \in 1..Len(sendQueue) :
              sendQueue[i].data \in Seq(Int) /\ Len(sendQueue[i].data) \in Nat
         /\ Handled \in Int /\ released \in Int
         /\ sendQueue = <<>> <=> Len(sendQueue) = 0
  <1>1. sendQueue \in Seq(Nodes) /\ Len(sendQueue) \in Nat
    BY EmptySeq DEF SessionInv, TypeOK
  <1>2. ASSUME NEW i \in 1..Len(sendQueue)
        PROVE  sendQueue[i].data \in Seq(Int) /\ Len(sendQueue[i].data) \in Nat
    <2>1. sendQueue[i] \in Nodes
      BY <1>1, ElementOfSeq
    <2>2. sendQueue[i].data \in Seq(Int)
      BY <2>1 DEF Nodes
    <2> QED BY <2>2, EmptySeq
  <1>3. Handled \in Int /\ released \in Int
    BY DEF SessionInv, TypeOK, Handled
  <1>4. sendQueue = <<>> <=> Len(sendQueue) = 0
    BY <1>1, EmptySeq
  <1> QED BY <1>1, <1>2, <1>3, <1>4

LEMMA RunEnds ==
  ASSUME NEW s \in Seq(Int), NEW from \in Int, Len(s) >= 1, IsRun(s, from)
  PROVE  s[Len(s)] = from + Len(s) - 1
  <1>1. Len(s) \in 1..Len(s)
    BY EmptySeq
  <1> QED BY <1>1 DEF IsRun

(* A message read behind those that wait continues them.                   *)
LEMMA PushedContinues ==
  ASSUME StreamInv, NEW len \in Nat \ {0}, NEW node, sendQueue' = Append(sendQueue, node),
         Len(node.data) = len, \A i \in 1..len : node.data[i] = Handled + i,
         Handled' = Handled + len, released' = released
  PROVE  (QueueHoldsStream /\ MessagesNotEmpty)'
  <1>0. QueueHoldsStream /\ MessagesNotEmpty /\ SessionInv
    BY DEF StreamInv
  <1> DEFINE k == Len(sendQueue)
  <1>1. /\ k \in Nat /\ Handled \in Int /\ released \in Int
        /\ sendQueue = <<>> <=> k = 0
    BY <1>0, QueueTypes
  <1>2. /\ Len(sendQueue') = k + 1 /\ sendQueue' # <<>> /\ sendQueue'[k + 1] = node
        /\ \A i \in 1..k : sendQueue'[i] = sendQueue[i]
    BY <1>0, QueueTypes, EmptySeq
  <1>3. node.data[len] = Handled + len /\ IsRun(node.data, Handled + 1)
    BY <1>1 DEF IsRun
  <1>4. MessagesNotEmpty'
    BY <1>0, <1>1, <1>2 DEF MessagesNotEmpty
  <1>5. IsRun(sendQueue'[1].data, released' + 1)
    <2>1. CASE k = 0
      BY <1>0, <1>1, <1>2, <1>3, <2>1 DEF QueueHoldsStream
    <2>2. CASE k # 0
      BY <1>0, <1>1, <1>2, <2>2 DEF QueueHoldsStream
    <2> QED BY <2>1, <2>2
  <1>6. LET last == sendQueue'[Len(sendQueue')].data IN last[Len(last)] = Handled'
    BY <1>1, <1>2, <1>3
  <1>7. ASSUME NEW i \in 1..(Len(sendQueue') - 1)
        PROVE  LET this == sendQueue'[i].data
               IN  IsRun(sendQueue'[i + 1].data, this[Len(this)] + 1)
    <2>1. i \in 1..k /\ sendQueue'[i] = sendQueue[i]
      BY <1>1, <1>2, <1>7
    <2>2. CASE i = k
      <3>1. LET last == sendQueue[k].data IN last[Len(last)] = Handled
        BY <1>0, <1>1, <2>1, <2>2 DEF QueueHoldsStream
      <3> QED BY <1>2, <1>3, <2>1, <2>2, <3>1
    <2>3. CASE i # k
      <3>1. i \in 1..(k - 1) /\ i + 1 \in 1..k
        BY <1>1, <2>1, <2>3
      <3> QED BY <1>0, <1>2, <2>1, <3>1 DEF QueueHoldsStream
    <2> QED BY <2>2, <2>3
  <1> QED BY <1>2, <1>4, <1>5, <1>6, <1>7 DEF QueueHoldsStream

(* A message popped was the oldest of the stream that waits.               *)
LEMMA PoppedLeaves ==
  ASSUME StreamInv, sendQueue # <<>>, sendQueue' = Tail(sendQueue),
         Handled' = Handled, released' = released + Len(Head(sendQueue).data)
  PROVE  (QueueHoldsStream /\ MessagesNotEmpty)'
  <1>0. QueueHoldsStream /\ MessagesNotEmpty /\ SessionInv
    BY DEF StreamInv
  <1> DEFINE k == Len(sendQueue)
             first == sendQueue[1].data
             n == Len(first)
  <1>1. /\ k \in Nat \ {0} /\ Handled \in Int /\ released \in Int
        /\ sendQueue \in Seq(Nodes) /\ 1 \in 1..k /\ n \in Nat
    BY <1>0, QueueTypes
  <1>2. n >= 1
    BY <1>0, <1>1 DEF MessagesNotEmpty
  <1>3. /\ Len(sendQueue') = k - 1 /\ Head(sendQueue) = sendQueue[1]
        /\ \A i \in 1..(k - 1) : sendQueue'[i] = sendQueue[i + 1]
        /\ sendQueue' = <<>> <=> k = 1
    <2>1. /\ Tail(sendQueue) \in Seq(Nodes) /\ Len(Tail(sendQueue)) = k - 1
          /\ \A i \in 1..Len(Tail(sendQueue)) : Tail(sendQueue)[i] = sendQueue[i + 1]
      BY <1>1, HeadTailProperties
    <2>2. Tail(sendQueue) = <<>> <=> k - 1 = 0
      BY <1>1, <2>1, EmptySeq
    <2> QED BY <1>1, <2>1, <2>2
  <1>4. first[n] = released'
    <2>1. IsRun(first, released + 1)
      BY <1>0 DEF QueueHoldsStream
    <2>2. first \in Seq(Int)
      BY <1>0, <1>1, QueueTypes
    <2> HIDE DEF first, n
    <2>3. released + 1 \in Int /\ released + 1 + n - 1 = released + n
      BY <1>1
    <2> USE DEF n
    <2>4. first[n] = released + 1 + n - 1
      BY <1>2, <2>1, <2>2, <2>3, RunEnds
    <2> QED BY <1>3, <2>3, <2>4 DEF first
  <1> HIDE DEF first, n, k
  <1>5. MessagesNotEmpty'
    <2> SUFFICES ASSUME NEW i \in 1..Len(sendQueue') PROVE Len(sendQueue'[i].data) >= 1
      BY DEF MessagesNotEmpty
    <2>1. i \in 1..(k - 1) /\ i + 1 \in 1..k
      BY <1>1, <1>3
    <2> QED BY <1>0, <1>3, <2>1 DEF MessagesNotEmpty, k
  <1>6. CASE k = 1
    <2>1. first[n] = Handled
      BY <1>0, <1>6 DEF QueueHoldsStream, first, n, k
    <2>2. sendQueue' = <<>> /\ Handled' = released' /\ Len(sendQueue') = 0
      BY <1>3, <1>4, <1>6, <2>1
    <2>3. 1..(Len(sendQueue') - 1) = {}
      BY <2>2
    <2> QED BY <1>5, <2>2, <2>3, Zenon DEF QueueHoldsStream
  <1>7. CASE k # 1
    <2>1. /\ 1 \in 1..(k - 1) /\ k - 1 \in 1..(k - 1)
          /\ sendQueue'[1] = sendQueue[1 + 1] /\ sendQueue'[k - 1] = sendQueue[k]
      BY <1>1, <1>3, <1>7
    <2>2. IsRun(sendQueue'[1].data, released' + 1)
      <3>1. IsRun(sendQueue[1 + 1].data, first[n] + 1)
        BY <1>0, <2>1 DEF QueueHoldsStream, first, n, k
      <3> QED BY <1>4, <2>1, <3>1
    <2>3. LET last == sendQueue'[Len(sendQueue')].data IN last[Len(last)] = Handled'
      BY <1>0, <1>3, <2>1 DEF QueueHoldsStream, k
    <2>4. ASSUME NEW i \in 1..(Len(sendQueue') - 1)
          PROVE  LET this == sendQueue'[i].data
                 IN  IsRun(sendQueue'[i + 1].data, this[Len(this)] + 1)
      <3>1. /\ i \in 1..(k - 1) /\ i + 1 \in 1..(k - 1)
            /\ sendQueue'[i] = sendQueue[i + 1] /\ sendQueue'[i + 1] = sendQueue[i + 1 + 1]
        BY <1>1, <1>3
      <3> QED BY <1>0, <3>1 DEF QueueHoldsStream, k
    <2>5. sendQueue' # <<>>
      BY <1>3, <1>7
    <2> QED BY <1>5, <2>2, <2>3, <2>4, <2>5 DEF QueueHoldsStream
  <1> QED BY <1>6, <1>7

LEMMA StreamUntouched ==
  ASSUME StreamInv, UNCHANGED <<sendQueue, released>>, Handled' = Handled
  PROVE  (QueueHoldsStream /\ MessagesNotEmpty)'
  BY DEF StreamInv, QueueHoldsStream, MessagesNotEmpty

LEMMA NextStreamInv == StreamInv /\ [Next]_vars => StreamInv'
  <1> SUFFICES ASSUME StreamInv, [Next]_vars PROVE StreamInv'
    OBVIOUS
  <1>0. /\ SessionInv /\ SessionInv' /\ TypeOK /\ DataFresh
        /\ Handled \in Int /\ reading.n \in Int /\ taken \in Int
    <2>1. SessionInv /\ DataFresh
      BY DEF StreamInv
    <2>2. TypeOK
      BY <2>1 DEF SessionInv
    <2>3. reading.n \in Int /\ taken \in Int
      BY <2>2, ConstantsAssumption DEF TypeOK
    <2> QED BY <2>1, <2>2, <2>3, NextSessionInv, QueueTypes
  <1> SUFFICES (QueueHoldsStream /\ MessagesNotEmpty /\ DataFresh)'
    BY <1>0 DEF StreamInv
  <1>1. CASE handleRead
    <2>1. CASE ReadError
      BY <1>1, <2>1, StreamUntouched DEF ReadError, handleRead, Handled, DataFresh, NoRead
    <2>2. CASE ~ReadError
      <3> DEFINE n == reading.n
      <3>1. /\ reading.st = "done" /\ send(data, n, refs) /\ reading' = Armed
            /\ released' = released /\ taken' = taken
        BY <1>1, <2>2 DEF handleRead
      <3>2. n \in 1..MAX_LENGTH
        BY <1>0, <3>1, ConstantsAssumption DEF SessionInv, TypeOK, ReadsBring
      <3>3. PICK heapInt \in HeapInts : sendQueue' = Append(sendQueue, MsgNode(data, n, heapInt))
        BY <3>1 DEF send
      <3> DEFINE node == MsgNode(data, n, heapInt)
      <3>4. Len(node.data) = n /\ \A i \in 1..n : node.data[i] = Handled + i
        <4>1. data \in Seq(Int) /\ n \in 0..Len(data)
          BY <1>0, <3>2, DataIsSeq, ConstantsAssumption
        <4>2. Len(node.data) = n /\ \A i \in 1..n : node.data[i] = data[i]
          BY <4>1, MsgNodeType
        <4> QED BY <1>0, <3>1, <4>2 DEF DataFresh
      <3>5. Handled' = Handled + n
        BY <1>0, <3>1 DEF Handled, Armed
      <3>6. n \in Nat \ {0}
        BY <3>2, ConstantsAssumption
      <3> HIDE DEF node, n
      <3>7. (QueueHoldsStream /\ MessagesNotEmpty)'
        BY <3>1, <3>3, <3>4, <3>5, <3>6, PushedContinues DEF node
      <3> QED BY <3>1, <3>7 DEF DataFresh, Armed
    <2> QED BY <2>1, <2>2
  <1>2. CASE handleWrite
    <2>1. writing # <<>> /\ UNCHANGED <<data, reading, taken>>
      BY <1>2 DEF handleWrite
    <2>2. Handled' = Handled /\ DataFresh'
      BY <1>0, <2>1 DEF Handled, DataFresh
    <2>3. sendQueue # <<>>
      BY <1>0, <2>1, OneUnderWay
    <2>4. CASE WriteError /\ werr' = TRUE
      <3>1. UNCHANGED <<sendQueue, released>>
        BY <2>4 DEF WriteError
      <3> QED BY <2>2, <3>1, StreamUntouched
    <2>5. CASE ~(WriteError /\ werr' = TRUE)
      <3>1. /\ sendQueue' = Tail(sendQueue)
            /\ released' = released + Len(Head(sendQueue).data)
        BY <1>2, <2>5 DEF handleWrite
      <3> QED BY <2>2, <2>3, <3>1, PoppedLeaves
    <2> QED BY <2>4, <2>5
  <1>3. CASE ReadLands
    <2>1. PICK n \in 1..MAX_LENGTH :
            /\ data' = [i \in 1..MAX_LENGTH |-> IF i <= n THEN taken + i ELSE data[i]]
            /\ taken' = taken + n
            /\ reading' = [st |-> "done", n |-> n]
      BY <1>3 DEF ReadLands, ReadSizes
    <2>2. reading.st = "armed" /\ UNCHANGED <<sendQueue, released>>
      BY <1>3 DEF ReadLands
    <2>3. Handled' = taken /\ Handled = taken
      BY <1>0, <2>1, <2>2, ConstantsAssumption DEF Handled
    <2>4. DataFresh'
      <3>1. \A i \in 1..n : data'[i] = taken + i
        BY <2>1, ConstantsAssumption
      <3> QED BY <2>1, <2>3, <3>1 DEF DataFresh
    <2> QED BY <2>2, <2>3, <2>4, StreamUntouched
  <1>4. CASE start
    BY <1>4, StreamUntouched DEF start, Handled, DataFresh, Armed, NoRead
  <1>5. CASE ReadFails
    BY <1>5, StreamUntouched DEF ReadFails, session, Handled, DataFresh
  <1>6. CASE WriteSome \/ WriteFails
    <2>1. UNCHANGED <<sendQueue, released, data, reading, taken>>
      BY <1>6 DEF WriteSome, WriteFails, session
    <2> QED BY <1>0, <2>1, StreamUntouched DEF Handled, DataFresh
  <1>7. CASE PeerSends \/ PeerShuts \/ PeerVanishes \/ UNCHANGED vars
    <2>1. UNCHANGED <<sendQueue, released, data, reading, taken>>
      BY <1>7 DEF PeerSends, PeerShuts, PeerVanishes, session, socket, vars
    <2> QED BY <1>0, <2>1, StreamUntouched DEF Handled, DataFresh
  <1> QED BY <1>1, <1>2, <1>3, <1>4, <1>5, <1>6, <1>7 DEF Next

LEMMA StreamInvariant == Spec => []StreamInv
  <1>1. Init => StreamInv
    <2> SUFFICES ASSUME Init PROVE StreamInv
      OBVIOUS
    <2>1. SessionInv
      BY InitSessionInv
    <2>2. /\ sendQueue = <<>> /\ Len(sendQueue) = 0 /\ reading.st = "none"
          /\ taken = 0 /\ released = 0
      BY DEF Init, NoRead
    <2> QED BY <2>1, <2>2 DEF StreamInv, QueueHoldsStream, MessagesNotEmpty, DataFresh, Handled
  <1> QED BY <1>1, NextStreamInv, PTL DEF Spec

(* Whatever memset and later reads do to data_, the messages that wait are *)
(* the bytes of the stream that handleRead took and no write has finished, *)
(* each once and in order.                                                 *)
THEOREM QueueHolds == Spec => []QueueHoldsStream
  <1>1. StreamInv => QueueHoldsStream
    BY DEF StreamInv
  <1> QED BY <1>1, StreamInvariant, PTL

-----------------------------------------------------------------------------
(* The echo is exact as long as no write has been cut.                     *)

(* The completions there are when no write has completed, and when one has. *)
Landed == IF reading.st \in {"done", "failed"} THEN <<"read">> ELSE <<>>
Behind == IF reading.st \in {"done", "failed"} THEN Append(<<"write">>, "read") ELSE <<"write">>

(* Why nothing is queued behind a write: it has completed when it starts,  *)
(* and its completion goes before that of the read which begins with it.   *)
EchoTurn ==
  (~cut /\ peer # "gone") =>
    /\ ~werr
    /\ writing = <<>> => ready = Landed
    /\ writing # <<>> => writing[1].st = "done" /\ ready = Behind

EchoInv == StreamInv /\ EchoExact /\ EchoTurn

LEMMA EchoFacts ==
  ASSUME EchoInv
  PROVE  /\ SessionInv /\ TypeOK /\ OneWriter /\ StreamInv /\ DataFresh /\ EchoExact /\ EchoTurn
         /\ Handled \in Int /\ wire \in Seq(Int) /\ Len(wire) \in Nat /\ peer \in {"open", "shut", "gone"}
         /\ cut \in BOOLEAN
  <1>1. SessionInv /\ StreamInv /\ DataFresh /\ EchoExact /\ EchoTurn
    BY DEF EchoInv, StreamInv
  <1>2. TypeOK /\ OneWriter
    BY <1>1 DEF SessionInv
  <1>3. wire \in Seq(Int) /\ Len(wire) \in Nat /\ peer \in {"open", "shut", "gone"} /\ cut \in BOOLEAN
    BY <1>2, EmptySeq DEF TypeOK
  <1> QED BY <1>1, <1>2, <1>3, QueueTypes

(* A write started without being cut: to a peer that has gone nothing is   *)
(* given, to one that is there everything.                                 *)
LEMMA WholeWrite ==
  ASSUME TypeOK, NEW held, NEW src, NEW buffer \in Seq(Int), NEW len \in 0..Len(buffer),
         async_write(<<>>, held, src, buffer, len), ~cut'
  PROVE  /\ ~cut
         /\ peer = "gone" => wire' = wire
         /\ peer # "gone" => /\ wire' = wire \o SubSeq(buffer, 1, len)
                             /\ ready' = Tail(ready) \o <<"write">>
                             /\ writing' # <<>> /\ writing'[1].st = "done"
  <1> DEFINE op(accepted) == [src |-> src, len |-> len, off |-> accepted,
                              st |-> IF accepted = len THEN "done" ELSE "busy"]
  <1>1. PICK accepted \in Accepted(len) :
          /\ writing' = Append(<<>>, op(accepted))
          /\ wire' = wire \o SubSeq(buffer, 1, accepted)
          /\ cut' = (cut \/ (accepted < len /\ peer # "gone"))
          /\ ready' = Tail(ready) \o (IF accepted = len THEN <<"write">> ELSE <<>>)
    BY DEF async_write
  <1>2. accepted \in 0..len /\ (peer = "gone" => accepted = 0)
    BY <1>1 DEF Accepted
  <1> HIDE DEF op
  <1>3. ~cut
    BY <1>1
  <1>4. ASSUME peer = "gone" PROVE wire' = wire
    <2>1. SubSeq(buffer, 1, 0) = <<>>
      OBVIOUS
    <2>2. wire \o <<>> = wire
      BY ConcatEmptySeq DEF TypeOK
    <2> QED BY <1>1, <1>2, <1>4, <2>1, <2>2
  <1>5. ASSUME peer # "gone"
        PROVE  /\ wire' = wire \o SubSeq(buffer, 1, len)
               /\ ready' = Tail(ready) \o <<"write">>
               /\ writing' # <<>> /\ writing'[1].st = "done"
    <2>1. accepted = len
      <3>1. len \in Nat
        BY EmptySeq
      <3>2. ~(accepted < len)
        BY <1>1, <1>5
      <3> QED BY <1>2, <3>1, <3>2
    <2>2. writing' = <<op(len)>> /\ op(len).st = "done"
      BY <1>1, <2>1 DEF op
    <2> QED BY <1>1, <2>1, <2>2
  <1> QED BY <1>3, <1>4, <1>5

(* The bytes of a read, given to the kernel behind those before them.      *)
LEMMA WireGrows ==
  ASSUME EchoInv, reading.st = "done", ~cut, peer # "gone",
         wire' = wire \o SubSeq(data, 1, reading.n)
  PROVE  /\ \A i \in 1..Len(wire') : wire'[i] = i
         /\ Len(wire') = Handled + reading.n
  <1> DEFINE n == reading.n
             new == SubSeq(data, 1, n)
  <1>1. /\ wire \in Seq(Int) /\ Len(wire) \in Nat /\ Len(wire) = Handled
        /\ \A i \in 1..Len(wire) : wire[i] = i
        /\ TypeOK /\ DataFresh
    BY EchoFacts DEF EchoExact
  <1>2. n \in Nat /\ data \in Seq(Int) /\ n <= Len(data)
    <2>1. n \in 0..MAX_LENGTH
      BY <1>1 DEF TypeOK
    <2> QED BY <1>1, <2>1, DataIsSeq, ConstantsAssumption
  <1>3. /\ new \in Seq(Int) /\ Len(new) = n
        /\ \A i \in 1..n : new[i] = data[i]
    <2>1. \A i \in 1..n : data[i] \in Int
      BY <1>2, ElementOfSeq
    <2> QED BY <1>2, <2>1, SubSeqProperties
  <1>4. \A i \in 1..n : data[i] = Len(wire) + i
    BY <1>1 DEF DataFresh
  <1> HIDE DEF new, n
  <1>5. /\ Len(wire') = Len(wire) + n
        /\ \A i \in 1..Len(wire') :
             wire'[i] = IF i <= Len(wire) THEN wire[i] ELSE new[i - Len(wire)]
    BY <1>1, <1>3, ConcatProperties DEF new, n
  <1>6. ASSUME NEW i \in 1..Len(wire') PROVE wire'[i] = i
    <2>0. i \in 1..(Len(wire) + n)
      BY <1>5
    <2>1. CASE i <= Len(wire)
      BY <1>1, <1>5, <2>0, <2>1
    <2>2. CASE ~(i <= Len(wire))
      <3> DEFINE j == i - Len(wire)
      <3>1. j \in 1..n /\ Len(wire) + j = i
        BY <1>1, <1>2, <2>0, <2>2
      <3>2. wire'[i] = new[j]
        BY <1>5, <2>2
      <3> HIDE DEF j
      <3> QED BY <1>3, <1>4, <3>1, <3>2
    <2> QED BY <2>1, <2>2
  <1> QED BY <1>1, <1>5, <1>6 DEF n

(* A step that starts no write and takes no completion keeps the echo, if  *)
(* it keeps the turns.                                                     *)
LEMMA EchoUntouched ==
  ASSUME EchoInv, UNCHANGED <<wire, cut, sendQueue>>, Handled' = Handled,
         peer = "gone" => peer' = "gone"
  PROVE  EchoExact'
  BY EchoFacts DEF EchoExact

LEMMA HandleReadEcho ==
  ASSUME EchoInv, handleRead
  PROVE  (EchoExact /\ EchoTurn)'
  <1>0. /\ SessionInv /\ TypeOK /\ OneWriter /\ EchoExact /\ EchoTurn
        /\ Handled \in Int /\ Len(wire) \in Nat /\ cut \in BOOLEAN
    BY EchoFacts
  <1>1. ready # <<>> /\ Head(ready) = "read" /\ peer' = peer /\ werr' = werr /\ taken' = taken
    BY DEF handleRead, connection
  <1>2. ASSUME ~cut, peer # "gone"
        PROVE  writing = <<>> /\ sendQueue = <<>> /\ ready = Landed /\ Tail(ready) = <<>> /\ ~werr
    <2>1. writing = <<>>
      <3>1. SUFFICES ASSUME writing # <<>> PROVE FALSE
        OBVIOUS
      <3>2. ready = Behind
        BY <1>0, <1>2, <3>1 DEF EchoTurn
      <3>3. Head(ready) = "write"
        BY <3>2 DEF Behind
      <3> QED BY <1>1, <3>3
    <2>2. ready = Landed /\ ~werr
      BY <1>0, <1>2, <2>1 DEF EchoTurn
    <2>3. Tail(ready) = <<>>
      BY <1>1, <2>2 DEF Landed
    <2> QED BY <1>0, <2>1, <2>2, <2>3 DEF OneWriter
  <1>3. CASE ReadError
    <2>1. /\ reading.st = "failed" /\ reading' = NoRead /\ ready' = Tail(ready)
          /\ UNCHANGED <<sendQueue, writing, wire, cut>>
      BY <1>3 DEF ReadError
    <2>2. EchoExact'
      BY <1>1, <2>1, EchoUntouched DEF Handled, NoRead
    <2>3. EchoTurn'
      BY <1>1, <1>2, <2>1 DEF EchoTurn, Landed, NoRead
    <2> QED BY <2>2, <2>3
  <1>4. CASE ~ReadError
    <2> DEFINE n == reading.n
    <2>1. reading.st = "done" /\ send(data, n, refs) /\ reading' = Armed
      BY <1>4 DEF handleRead
    <2>2. /\ n \in 0..Len(data) /\ data \in Seq(Int) /\ Handled' = Handled + n
          /\ Behind' = <<"write">>
      <3>1. n \in 0..MAX_LENGTH
        BY <1>0 DEF TypeOK
      <3>2. Handled' = Handled + n
        BY <1>0, <1>1, <2>1, <3>1, ConstantsAssumption DEF Handled, Armed, TypeOK
      <3> QED BY <1>0, <2>1, <3>1, <3>2, DataIsSeq DEF Behind, Armed
    <2>3. SUFFICES ASSUME ~cut'
                   PROVE  (EchoExact /\ EchoTurn)'
      BY DEF EchoExact, EchoTurn
    <2>4. CASE sendQueue = <<>>
      <3>1. Len(sendQueue') = 1
        BY <2>1, <2>4 DEF send
      <3>2. writing = <<>>
        BY <1>0, <2>4 DEF OneWriter
      <3>3. async_write(<<>>, refs, "data_", data, n)
        BY <2>1, <3>1, <3>2 DEF send
      <3> HIDE DEF n
      <3>4. /\ ~cut
            /\ peer = "gone" => wire' = wire
            /\ peer # "gone" => /\ wire' = wire \o SubSeq(data, 1, n)
                                /\ ready' = Tail(ready) \o <<"write">>
                                /\ writing' # <<>> /\ writing'[1].st = "done"
        BY <1>0, <2>2, <2>3, <3>3, WholeWrite
      <3>5. CASE peer = "gone"
        BY <1>0, <1>1, <3>4, <3>5 DEF EchoExact, EchoTurn
      <3>6. CASE peer # "gone"
        <4>1. /\ \A i \in 1..Len(wire') : wire'[i] = i
              /\ Len(wire') = Handled'
          BY <2>1, <2>2, <3>4, <3>6, WireGrows DEF n
        <4>2. ready' = Behind' /\ ~werr'
          <5>1. ready' = <<>> \o <<"write">> /\ ~werr'
            BY <1>1, <1>2, <3>4, <3>6
          <5>2. <<>> \o <<"write">> = <<"write">>
            OBVIOUS
          <5> QED BY <2>2, <5>1, <5>2
        <4>3. EchoExact'
          BY <3>1, <4>1 DEF EchoExact
        <4>4. EchoTurn'
          BY <3>4, <3>6, <4>2 DEF EchoTurn
        <4> QED BY <4>3, <4>4
      <3> QED BY <3>5, <3>6
    <2>5. CASE sendQueue # <<>>
      <3>1. Len(sendQueue') >= 2
        BY <1>0, <2>1, <2>5, QueueTypes DEF send
      <3>2. wire' = wire /\ cut' = cut
        BY <2>1, <3>1, QueueTypes DEF send
      <3>3. peer = "gone"
        BY <1>2, <2>3, <2>5, <3>2
      <3> QED BY <1>0, <1>1, <2>3, <3>2, <3>3 DEF EchoExact, EchoTurn
    <2> QED BY <2>4, <2>5
  <1> QED BY <1>3, <1>4

LEMMA HandleWriteEcho ==
  ASSUME EchoInv, handleWrite
  PROVE  (EchoExact /\ EchoTurn)'
  <1>0. /\ SessionInv /\ TypeOK /\ OneWriter /\ EchoExact /\ EchoTurn
        /\ cut \in BOOLEAN
    BY EchoFacts
  <1>1. /\ ready # <<>> /\ writing # <<>>
        /\ UNCHANGED <<data, reading, taken, sent, peer>> /\ Handled' = Handled
    BY DEF handleWrite, connection, Handled
  <1>2. /\ Tail(writing) = <<>> /\ Head(writing) = writing[1]
        /\ sendQueue # <<>> /\ ~werr /\ refs \in Nat
    BY <1>0, <1>1, OneUnderWay DEF TypeOK
  <1>3. ASSUME ~cut, peer # "gone"
        PROVE  /\ writing[1].st = "done" /\ Tail(ready) = Landed
               /\ Tail(sendQueue) = <<>>
    <2>1. writing[1].st = "done" /\ ready = Behind
      BY <1>0, <1>1, <1>3 DEF EchoTurn
    <2>2. Tail(ready) = Landed
      <3>1. /\ <<"write">> \in Seq({"write"}) /\ <<"write">> # <<>>
            /\ Tail(<<"write">>) = <<>>
        OBVIOUS
      <3>2. Tail(Append(<<"write">>, "read")) = Append(<<>>, "read")
        BY <3>1, HeadTailAppend
      <3>3. Append(<<>>, "read") = <<"read">>
        OBVIOUS
      <3> QED BY <2>1, <3>1, <3>2, <3>3 DEF Landed, Behind
    <2>3. Len(sendQueue) = 1
      <3>1. Len(sendQueue) \in Nat /\ Len(sendQueue) # 0
        BY <1>0, <1>2, QueueTypes
      <3>2. Len(sendQueue) <= 1
        BY <1>0, <1>3 DEF EchoExact
      <3>3. \A n \in Nat : n # 0 /\ n <= 1 => n = 1
        OBVIOUS
      <3> QED BY <3>1, <3>2, <3>3, Zenon
    <2>4. Tail(sendQueue) = <<>>
      <3>1. Tail(sendQueue) \in Seq(Nodes) /\ Len(Tail(sendQueue)) = 0
        BY <1>0, <1>2, <2>3, QueueTypes, HeadTailProperties
      <3> QED BY <3>1, EmptySeq
    <2> QED BY <2>1, <2>2, <2>4
  <1>4. CASE WriteError /\ werr' = TRUE
    <2>1. UNCHANGED <<wire, cut, sendQueue>> /\ Head(writing).st = "failed"
      BY <1>4 DEF WriteError
    <2>2. cut \/ peer = "gone"
      BY <1>0, <1>2, <1>3, <2>1
    <2> QED BY <1>1, <2>1, <2>2, EchoUntouched DEF EchoTurn
  <1>5. CASE ~(WriteError /\ werr' = TRUE)
    <2>1. sendQueue' = Tail(sendQueue) /\ WriteNext /\ werr' = werr
      BY <1>5 DEF handleWrite
    <2>2. CASE sendQueue' = <<>>
      <3>1. writing' = <<>> /\ ready' = Tail(ready) /\ wire' = wire /\ cut' = cut
        BY <1>2, <2>1, <2>2 DEF WriteNext
      <3>2. Len(sendQueue') = 0 /\ Landed' = Landed
        BY <1>1, <2>2 DEF Landed
      <3> QED BY <1>0, <1>1, <1>2, <1>3, <2>1, <3>1, <3>2 DEF EchoExact, EchoTurn
    <2>3. CASE sendQueue' # <<>>
      <3> DEFINE node == Head(sendQueue')
      <3>1. node \in Nodes
        BY <1>0, <1>2, <2>1, <2>3, HeadTailProperties DEF TypeOK
      <3>2. async_write(<<>>, refs - 1, "node", NodeBuffer(node), node.maxLen)
        BY <1>2, <2>1, <2>3 DEF WriteNext
      <3>3. NodeBuffer(node) \in Seq(Int) /\ node.maxLen \in 0..Len(NodeBuffer(node))
        <4>1. node.maxLen \in Nat
          BY <3>1 DEF Nodes
        <4> QED BY <3>1, <4>1, NodeBufferIsSeq
      <3> HIDE DEF node
      <3>4. ASSUME ~cut' PROVE peer = "gone" /\ ~cut /\ wire' = wire
        <4>1. ~cut /\ (peer = "gone" => wire' = wire)
          BY <1>0, <3>2, <3>3, <3>4, WholeWrite
        <4>2. peer = "gone"
          BY <1>3, <2>1, <2>3, <4>1
        <4> QED BY <4>1, <4>2
      <3> QED BY <1>0, <1>1, <3>4 DEF EchoExact, EchoTurn
    <2> QED BY <2>2, <2>3
  <1> QED BY <1>4, <1>5

LEMMA NextEchoInv == EchoInv /\ [Next]_vars => EchoInv'
  <1> SUFFICES ASSUME EchoInv, [Next]_vars PROVE EchoInv'
    OBVIOUS
  <1>0. /\ SessionInv /\ TypeOK /\ OneWriter /\ EchoExact /\ EchoTurn
        /\ cut \in BOOLEAN /\ peer \in {"open", "shut", "gone"} /\ StreamInv'
    BY EchoFacts, NextStreamInv
  <1> SUFFICES (EchoExact /\ EchoTurn)'
    BY <1>0 DEF EchoInv
  <1>1. CASE handleRead
    BY <1>1, HandleReadEcho
  <1>2. CASE handleWrite
    BY <1>2, HandleWriteEcho
  <1>3. CASE start
    <2>1. /\ reading = NoRead /\ writing = <<>> /\ reading' = Armed
          /\ UNCHANGED <<sendQueue, writing, ready, taken, wire, cut, peer, werr>>
      BY <1>3 DEF start, connection
    <2>2. Handled' = Handled /\ Landed' = Landed
      BY <2>1 DEF Handled, Landed, NoRead, Armed
    <2> QED BY <1>0, <2>1, <2>2, EchoUntouched DEF EchoTurn
  <1>4. CASE ReadLands \/ ReadFails
    <2>1. /\ reading.st = "armed" /\ reading'.st \in {"done", "failed"}
          /\ ready' = Append(ready, "read")
          /\ UNCHANGED <<sendQueue, writing, wire, cut, peer, werr>>
      BY <1>4 DEF ReadLands, ReadFails, session, connection
    <2>2. Handled' = Handled
      <3>1. CASE ReadLands
        <4>1. PICK n \in 1..MAX_LENGTH : taken' = taken + n /\ reading' = [st |-> "done", n |-> n]
          BY <3>1 DEF ReadLands, ReadSizes
        <4>2. taken \in Nat
          BY <1>0 DEF TypeOK
        <4> QED BY <2>1, <4>1, <4>2, ConstantsAssumption DEF Handled
      <3>2. CASE ReadFails
        BY <3>2 DEF ReadFails, Handled
      <3> QED BY <1>4, <3>1, <3>2
    <2>3. /\ Landed = <<>> /\ Landed' = <<"read">>
          /\ Behind = <<"write">> /\ Behind' = Append(<<"write">>, "read")
      BY <2>1 DEF Landed, Behind
    <2>4. EchoTurn'
      <3> SUFFICES ASSUME ~cut', peer' # "gone"
                   PROVE  /\ ~werr'
                          /\ writing' = <<>> => ready' = Landed'
                          /\ writing' # <<>> => writing'[1].st = "done" /\ ready' = Behind'
        BY DEF EchoTurn
      <3>1. /\ ~werr
            /\ writing = <<>> => ready = <<>>
            /\ writing # <<>> => writing[1].st = "done" /\ ready = <<"write">>
        BY <1>0, <2>1, <2>3 DEF EchoTurn
      <3>2. Append(<<>>, "read") = <<"read">>
        OBVIOUS
      <3> QED BY <2>1, <2>3, <3>1, <3>2
    <2> QED BY <2>1, <2>2, <2>4, EchoUntouched
  <1>5. CASE WriteSome
    <2>1. /\ writing # <<>> /\ Head(writing).st = "busy" /\ peer # "gone"
          /\ cut' = cut
      BY <1>5 DEF WriteSome
    <2>2. cut
      <3>1. writing[1].st # "done"
        BY <1>0, <2>1, OneUnderWay
      <3> QED BY <1>0, <2>1, <3>1 DEF EchoTurn
    <2> QED BY <2>1, <2>2 DEF EchoExact, EchoTurn
  <1>6. CASE WriteFails
    <2>1. peer = "gone" /\ UNCHANGED <<peer, wire, cut, sendQueue, reading, taken>>
      BY <1>6 DEF WriteFails, session, connection
    <2> QED BY <2>1, EchoUntouched DEF EchoTurn, Handled
  <1>7. CASE PeerSends \/ PeerShuts \/ PeerVanishes \/ UNCHANGED vars
    <2>1. /\ UNCHANGED <<sendQueue, reading, writing, ready, taken, wire, cut, werr>>
          /\ peer = "gone" => peer' = "gone"
      BY <1>7 DEF PeerSends, PeerShuts, PeerVanishes, session, socket, connection, vars
    <2>2. Handled' = Handled /\ Landed' = Landed /\ Behind' = Behind
      BY <2>1 DEF Handled, Landed, Behind
    <2> QED BY <1>0, <2>1, <2>2, EchoUntouched DEF EchoTurn
  <1> QED BY <1>1, <1>2, <1>3, <1>4, <1>5, <1>6, <1>7 DEF Next

(* As long as the kernel cuts no write of a peer that is there, day7 is an *)
(* exact echo: the order in which the scheduler hands out completions lets *)
(* no message wait, so data_ is never read late and maxLen never used.     *)
THEOREM EchoExactUncut == Spec => []EchoExact
  <1>1. Init => EchoInv
    <2> SUFFICES ASSUME Init PROVE EchoInv
      OBVIOUS
    <2>1. SessionInv
      BY InitSessionInv
    <2>2. /\ sendQueue = <<>> /\ Len(sendQueue) = 0 /\ wire = <<>> /\ Len(wire) = 0
          /\ reading.st = "none" /\ taken = 0 /\ released = 0
          /\ writing = <<>> /\ ready = <<>> /\ ~werr
      BY DEF Init, NoRead
    <2>3. StreamInv
      BY <2>1, <2>2 DEF StreamInv, QueueHoldsStream, MessagesNotEmpty, DataFresh, Handled
    <2> QED BY <2>2, <2>3 DEF EchoInv, EchoExact, EchoTurn, Landed, Handled
  <1>2. EchoInv => EchoExact
    BY DEF EchoInv
  <1> QED BY <1>1, <1>2, NextEchoInv, PTL DEF Spec
=============================================================================
