----------------------------- MODULE EchoProofs -----------------------------
(***************************************************************************)
(* What holds for every size of their buffers of the two programs that     *)
(* read into one buffer and write from it by turns: a Session of day6 has  *)
(* one owner and implements EchoStream; each thread of day4 implements     *)
(* EchoStream on a connection that is whole and gives nothing on one that  *)
(* is broken, and only the threads that nobody joins end its server.       *)
(***************************************************************************)
EXTENDS Day6Session, Day4Server, SequenceTheorems, FiniteSetTheorems, TLAPS

-----------------------------------------------------------------------------
(* The stream.                                                             *)

IsStream(s) == s = [i \in 1..Len(s) |-> i]

(* A write_some of the bytes that follow the stream so far, from a buffer  *)
(* that has them in its places first..last, continues it.                  *)
LEMMA StreamGrows ==
  ASSUME NEW s \in Seq(Nat), IsStream(s), NEW max \in Nat, NEW d \in [1..max -> Nat],
         NEW first \in 1..max, NEW last \in first..max,
         \A i \in first..last : d[i] = Len(s) + (i - first + 1)
  PROVE  LET r == s \o SubSeq(d, first, last)
         IN  /\ r \in Seq(Nat)
             /\ Len(r) = Len(s) + (last - first + 1)
             /\ IsStream(r)
<1> DEFINE piece == SubSeq(d, first, last)
           r == s \o piece
           len == Len(s) + (last - first + 1)
<1>1. d \in Seq(Nat) /\ Len(d) = max
  BY LenProperties
<1>2. /\ piece \in Seq(Nat)
      /\ Len(piece) = last - first + 1
      /\ \A i \in 1..Len(piece) : piece[i] = d[first + i - 1]
  BY <1>1
<1>3. r \in Seq(Nat) /\ Len(r) = len
  BY <1>2, ConcatProperties
<1>4. ASSUME NEW i \in 1..len PROVE r[i] = i
  <2>1. CASE i <= Len(s)
    BY <2>1, <1>2, ConcatProperties DEF IsStream
  <2>2. CASE i > Len(s)
    <3>1. r[i] = piece[i - Len(s)]
      BY <2>2, <1>2, ConcatProperties
    <3>2. piece[i - Len(s)] = d[first + (i - Len(s)) - 1]
      BY <2>2, <1>2
    <3>3. first + (i - Len(s)) - 1 \in first..last
      BY <2>2
    <3> QED BY <3>1, <3>2, <3>3
  <2> QED BY <2>1, <2>2
<1>5. r = [i \in 1..len |-> i]
  BY <1>3, <1>4
<1> QED BY <1>3, <1>5 DEF IsStream

-----------------------------------------------------------------------------
(* day6                                                                    *)

(* The inductive invariant. The bytes an operation still has to put on the *)
(* wire are those in data_ that follow the ones already there.             *)

(* Nothing is left to give back but what the operation under way holds.    *)
AllEchoed == (life # "deleted" /\ writing = NoWrite /\ reading.st # "ok") => Len(wire) = taken

ReadHolds ==
  reading.st = "ok" =>
    /\ reading.n \in 1..max_length
    /\ Len(wire) + reading.n = taken
    /\ \A i \in 1..reading.n : data[i] = Len(wire) + i

WriteHolds ==
  writing.st # "none" =>
    /\ writing.off <= writing.len
    /\ writing.st = "waiting" => writing.off < writing.len
    /\ writing.st = "ok" => writing.off = writing.len
    /\ Len(wire) + (writing.len - writing.off) = taken
    /\ \A i \in (writing.off + 1)..writing.len : data[i] = Len(wire) + (i - writing.off)

Idle ==
  /\ reading.st # "ok" => reading.n = 0
  /\ reading.st = "none" => reading = NoRead
  /\ writing.st = "none" => writing = NoWrite

Inv ==
  /\ TypeOK
  /\ OneOwner
  /\ Idle
  /\ AllEchoed
  /\ ReadHolds
  /\ WriteHolds
  /\ IsStream(wire)

-----------------------------------------------------------------------------
(* Initially nothing is under way and nothing was taken. *)
LEMMA InitInv == Init => Inv
<1> SUFFICES ASSUME Init PROVE Inv
  OBVIOUS
<1> USE SessionAssumption DEF Init
<1>1. TypeOK
  BY DEF TypeOK, Zeroed, NoRead, NoWrite, States
<1>2. OneOwner /\ Idle /\ AllEchoed /\ ReadHolds /\ WriteHolds
  BY DEF OneOwner, Idle, AllEchoed, ReadHolds, WriteHolds, NoRead, NoWrite
<1>3. IsStream(wire)
  BY DEF IsStream
<1> QED BY <1>1, <1>2, <1>3 DEF Inv

(* The bytes that land follow those taken before, which have all been      *)
(* given back.                                                             *)
LEMMA ReadLandsInv == Inv /\ ReadLands => Inv'
<1> SUFFICES ASSUME Inv, ReadLands PROVE Inv'
  OBVIOUS
<1> USE SessionAssumption
<1>1. PICK n \in ReadSizes :
        /\ taken + n <= sent
        /\ data' = [i \in 1..max_length |-> IF i <= n THEN taken + i ELSE data[i]]
        /\ taken' = taken + n
        /\ reading' = [st |-> "ok", n |-> n]
  BY DEF ReadLands
<1>2. /\ reading.st = "waiting"
      /\ UNCHANGED <<life, writing, wire, sent, peer>>
  BY DEF ReadLands, connection
<1>3. TypeOK /\ OneOwner /\ Idle /\ AllEchoed /\ WriteHolds /\ IsStream(wire)
  BY DEF Inv
<1>4. n \in 1..max_length
  BY <1>1 DEF ReadSizes
<1>5. life = "live" /\ writing = NoWrite /\ Len(wire) = taken
  BY <1>2, <1>3 DEF OneOwner, AllEchoed, TypeOK, NoRead
<1>6. TypeOK'
  BY <1>1, <1>2, <1>3, <1>4 DEF TypeOK, States
<1>7. OneOwner' /\ Idle' /\ AllEchoed' /\ WriteHolds'
  BY <1>1, <1>2, <1>3, <1>4, <1>5 DEF OneOwner, Idle, AllEchoed, WriteHolds, NoRead, NoWrite
<1>8. ReadHolds'
  BY <1>1, <1>2, <1>3, <1>4, <1>5 DEF ReadHolds, TypeOK
<1>9. IsStream(wire)'
  BY <1>2, <1>3 DEF IsStream
<1> QED BY <1>6, <1>7, <1>8, <1>9 DEF Inv

(* A piece of the write continues the stream, and the rest follows it.     *)
LEMMA WriteSomeInv ==
  Inv /\ WriteSome =>
    /\ Inv'
    /\ Len(wire') \in (Len(wire) + 1)..taken
<1> SUFFICES ASSUME Inv, WriteSome PROVE Inv' /\ Len(wire') \in (Len(wire) + 1)..taken
  OBVIOUS
<1> USE SessionAssumption
<1>1. PICK off \in (writing.off + 1)..writing.len :
        /\ wire' = wire \o SubSeq(data, writing.off + 1, off)
        /\ writing' = [writing EXCEPT !.off = off,
                                      !.st = IF off = writing.len THEN "ok" ELSE "waiting"]
  BY DEF WriteSome
<1>2. /\ writing.st = "waiting"
      /\ UNCHANGED <<life, data, reading, taken, sent, peer>>
  BY DEF WriteSome, session, connection
<1>3. TypeOK /\ OneOwner /\ Idle /\ WriteHolds /\ IsStream(wire)
  BY DEF Inv
<1>4. /\ writing.off \in Nat /\ writing.len \in Nat
      /\ writing.len <= max_length /\ max_length \in Nat
      /\ off \in Int /\ writing.off + 1 <= off /\ off <= writing.len
      /\ Len(wire) + (writing.len - writing.off) = taken
      /\ wire \in Seq(Nat) /\ Len(wire) \in Nat /\ data \in [1..max_length -> Nat]
  <2>1. writing.off \in Nat /\ writing.len \in 0..max_length /\ max_length \in Nat
    BY <1>3 DEF TypeOK
  <2>2. wire \in Seq(Nat) /\ Len(wire) \in Nat /\ data \in [1..max_length -> Nat]
    BY <1>3, LenProperties DEF TypeOK
  <2>3. Len(wire) + (writing.len - writing.off) = taken
    BY <1>2, <1>3 DEF WriteHolds
  <2> QED BY <1>1, <2>1, <2>2, <2>3
<1>5. \A i \in (writing.off + 1)..off : data[i] = Len(wire) + (i - (writing.off + 1) + 1)
  <2> SUFFICES ASSUME NEW i \in (writing.off + 1)..off
               PROVE  data[i] = Len(wire) + (i - (writing.off + 1) + 1)
    OBVIOUS
  <2>1. i \in (writing.off + 1)..writing.len
    BY <1>4
  <2>2. data[i] = Len(wire) + (i - writing.off)
    BY <1>2, <1>3, <2>1 DEF WriteHolds
  <2> QED BY <1>4, <2>2
<1>6. /\ wire' \in Seq(Nat)
      /\ Len(wire') = Len(wire) + (off - (writing.off + 1) + 1)
      /\ IsStream(wire')
  <2>1. writing.off + 1 \in 1..max_length /\ off \in (writing.off + 1)..max_length
    BY <1>4
  <2>2. PICK first \in 1..max_length : first = writing.off + 1
    BY <2>1
  <2>3. off \in first..max_length /\ \A i \in first..off : data[i] = Len(wire) + (i - first + 1)
    BY <1>5, <2>1, <2>2
  <2>4. /\ wire \o SubSeq(data, first, off) \in Seq(Nat)
        /\ Len(wire \o SubSeq(data, first, off)) = Len(wire) + (off - first + 1)
        /\ IsStream(wire \o SubSeq(data, first, off))
    <3>1. wire \in Seq(Nat) /\ IsStream(wire) /\ max_length \in Nat /\ data \in [1..max_length -> Nat]
      BY <1>3, <1>4
    <3> HIDE DEF IsStream
    <3> QED BY <2>3, <3>1, StreamGrows
  <2> QED BY <1>1, <2>2, <2>4
<1>7. Len(wire') = Len(wire) + (off - writing.off)
  BY <1>4, <1>6
<1>8. Len(wire') \in (Len(wire) + 1)..taken
  BY <1>4, <1>7
<1>9. /\ writing'.st = IF off = writing.len THEN "ok" ELSE "waiting"
      /\ writing'.len = writing.len /\ writing'.off = off
      /\ writing' \in [st : States, len : 0..max_length, off : 0..max_length]
  <2>1. writing \in [st : States, len : 0..max_length, off : 0..max_length]
    BY <1>3 DEF TypeOK
  <2>2. off \in 0..max_length
    BY <1>4
  <2> QED BY <1>1, <2>1, <2>2 DEF States
<1>10. TypeOK'
  BY <1>2, <1>3, <1>6, <1>9 DEF TypeOK
<1>11. OneOwner' /\ Idle' /\ AllEchoed' /\ ReadHolds'
  BY <1>2, <1>3, <1>9 DEF OneOwner, Idle, AllEchoed, ReadHolds, NoRead, NoWrite
<1>12. WriteHolds'
  <2>1. \A i \in (off + 1)..writing.len : data[i] = Len(wire') + (i - off)
    <3> SUFFICES ASSUME NEW i \in (off + 1)..writing.len PROVE data[i] = Len(wire') + (i - off)
      OBVIOUS
    <3>1. i \in (writing.off + 1)..writing.len
      BY <1>4
    <3>2. data[i] = Len(wire) + (i - writing.off)
      BY <1>2, <1>3, <3>1 DEF WriteHolds
    <3> QED BY <1>4, <1>7, <3>2
  <2>2. Len(wire') + (writing.len - off) = taken
    BY <1>4, <1>7
  <2>3. off <= writing.len /\ (off # writing.len => off < writing.len)
    BY <1>4
  <2> QED BY <1>2, <1>9, <2>1, <2>2, <2>3 DEF WriteHolds
<1> QED BY <1>6, <1>8, <1>10, <1>11, <1>12 DEF Inv

(* The other steps of the socket and the handlers leave the wire alone.    *)
LEMMA HandlersInv ==
  Inv /\ (start \/ handle_read \/ handle_write \/ ReadFails \/ WriteFails) => Inv'
<1> SUFFICES ASSUME Inv, start \/ handle_read \/ handle_write \/ ReadFails \/ WriteFails
             PROVE  Inv'
  OBVIOUS
<1> USE SessionAssumption DEF Inv
<1>1. IsStream(wire)'
  BY DEF start, handle_read, handle_write, ReadFails, WriteFails, IsStream
<1>2. CASE start
  <2>1. TypeOK'
    BY <1>2 DEF start, connection, TypeOK, Zeroed, Armed, States
  <2>2. OneOwner' /\ Idle' /\ AllEchoed' /\ ReadHolds' /\ WriteHolds'
    BY <1>2 DEF start, OneOwner, Idle, AllEchoed, ReadHolds, WriteHolds, Armed, NoRead, NoWrite
  <2> QED BY <1>1, <2>1, <2>2
<1>3. CASE handle_read
  <2>1. CASE ReadOk
    <3>1. /\ reading.st = "ok" /\ reading' = NoRead
          /\ writing' = [st |-> "waiting", len |-> reading.n, off |-> 0]
          /\ UNCHANGED <<life, data, taken, wire, sent, peer>>
      BY <1>3, <2>1 DEF handle_read, ReadOk, ReadError, connection
    <3>2. TypeOK'
      BY <3>1 DEF TypeOK, NoRead, States
    <3>3. OneOwner' /\ Idle' /\ AllEchoed' /\ ReadHolds'
      BY <3>1 DEF OneOwner, Idle, AllEchoed, ReadHolds, NoRead, NoWrite
    <3>4. WriteHolds'
      BY <3>1 DEF WriteHolds, ReadHolds, TypeOK
    <3> QED BY <1>1, <3>2, <3>3, <3>4
  <2>2. CASE ReadError
    <3>1. /\ reading.st = "failed" /\ reading' = NoRead /\ life' = "deleted"
          /\ UNCHANGED <<writing, data, taken, wire, sent, peer>>
      BY <1>3, <2>2 DEF handle_read, ReadError, connection
    <3>2. TypeOK'
      BY <3>1 DEF TypeOK, NoRead, States
    <3>3. OneOwner' /\ Idle' /\ AllEchoed' /\ ReadHolds' /\ WriteHolds'
      BY <3>1 DEF OneOwner, Idle, AllEchoed, ReadHolds, WriteHolds, NoRead, NoWrite
    <3> QED BY <1>1, <3>2, <3>3
  <2> QED BY <1>3, <2>1, <2>2 DEF handle_read
<1>4. CASE handle_write
  <2>1. CASE WriteOk
    <3>1. /\ writing.st = "ok" /\ writing' = NoWrite /\ reading' = Armed /\ data' = Zeroed
          /\ UNCHANGED <<life, taken, wire, sent, peer>>
      BY <1>4, <2>1 DEF handle_write, WriteOk, connection
    <3>2. TypeOK'
      BY <3>1 DEF TypeOK, NoWrite, Armed, Zeroed, States
    <3>3. OneOwner' /\ Idle' /\ ReadHolds' /\ WriteHolds'
      BY <3>1 DEF OneOwner, Idle, ReadHolds, WriteHolds, NoRead, NoWrite, Armed
    <3>4. AllEchoed'
      BY <3>1, LenProperties DEF AllEchoed, WriteHolds, TypeOK
    <3> QED BY <1>1, <3>2, <3>3, <3>4
  <2>2. CASE WriteError
    <3>1. /\ writing.st = "failed" /\ writing' = NoWrite /\ life' = "deleted"
          /\ UNCHANGED <<reading, data, taken, wire, sent, peer>>
      BY <1>4, <2>2 DEF handle_write, WriteError, connection
    <3>2. TypeOK'
      BY <3>1 DEF TypeOK, NoWrite, States
    <3>3. OneOwner' /\ Idle' /\ AllEchoed' /\ ReadHolds' /\ WriteHolds'
      BY <3>1 DEF OneOwner, Idle, AllEchoed, ReadHolds, WriteHolds, NoRead, NoWrite
    <3> QED BY <1>1, <3>2, <3>3
  <2> QED BY <1>4, <2>1, <2>2 DEF handle_write
<1>5. CASE ReadFails
  <2>1. /\ reading.st = "waiting" /\ reading' = [reading EXCEPT !.st = "failed"]
        /\ UNCHANGED <<life, data, writing, taken, wire, sent, peer>>
    BY <1>5 DEF ReadFails, session, connection
  <2>2. TypeOK' /\ reading'.st = "failed" /\ reading'.n = reading.n
    BY <2>1 DEF TypeOK, States
  <2>3. OneOwner' /\ Idle' /\ AllEchoed' /\ ReadHolds' /\ WriteHolds'
    BY <2>1, <2>2 DEF OneOwner, Idle, AllEchoed, ReadHolds, WriteHolds, NoRead
  <2> QED BY <1>1, <2>2, <2>3
<1>6. CASE WriteFails
  <2>1. /\ writing.st = "waiting" /\ writing' = [writing EXCEPT !.st = "failed"]
        /\ UNCHANGED <<life, data, reading, taken, wire, sent, peer>>
    BY <1>6 DEF WriteFails, session, connection
  <2>2. TypeOK' /\ writing'.st = "failed" /\ writing'.len = writing.len /\ writing'.off = writing.off
    BY <2>1 DEF TypeOK, States
  <2>3. OneOwner' /\ Idle' /\ AllEchoed' /\ ReadHolds'
    BY <2>1, <2>2 DEF OneOwner, Idle, AllEchoed, ReadHolds, NoWrite
  <2>4. WriteHolds'
    BY <2>1, <2>2 DEF WriteHolds
  <2> QED BY <1>1, <2>2, <2>3, <2>4
<1> QED BY <1>2, <1>3, <1>4, <1>5, <1>6

(* The peer touches nothing of the Session. *)
LEMMA PeerInv == Inv /\ (PeerSends \/ PeerShuts \/ PeerVanishes \/ UNCHANGED vars) => Inv'
<1> SUFFICES ASSUME Inv, PeerSends \/ PeerShuts \/ PeerVanishes \/ UNCHANGED vars PROVE Inv'
  OBVIOUS
<1>1. UNCHANGED <<session, socket>>
  BY DEF PeerSends, PeerShuts, PeerVanishes, vars
<1>2. peer' \in {"open", "shut", "gone"} /\ sent' \in Nat /\ sent' >= sent
  BY DEF Inv, TypeOK, PeerSends, PeerShuts, PeerVanishes, vars, connection
<1>3. TypeOK'
  BY <1>1, <1>2 DEF Inv, TypeOK, session, socket
<1> QED BY <1>1, <1>3 DEF Inv, OneOwner, Idle, AllEchoed, ReadHolds, WriteHolds, IsStream, session, socket

LEMMA NextInv == Inv /\ [Next]_vars => Inv'
<1> SUFFICES ASSUME Inv, [Next]_vars PROVE Inv'
  OBVIOUS
<1>1. CASE ReadLands
  BY <1>1, ReadLandsInv
<1>2. CASE WriteSome
  BY <1>2, WriteSomeInv
<1>3. CASE start \/ handle_read \/ handle_write \/ ReadFails \/ WriteFails
  BY <1>3, HandlersInv
<1>4. CASE PeerSends \/ PeerShuts \/ PeerVanishes \/ UNCHANGED vars
  BY <1>4, PeerInv
<1> QED BY <1>1, <1>2, <1>3, <1>4 DEF Next

(* The inductive invariant holds of every Session. *)
THEOREM InvHolds == Spec => []Inv
<1> QED BY InitInv, NextInv, PTL DEF Spec

(* The state keeps its types: no read or write is longer than data_.       *)
THEOREM TypeCorrect == Spec => []TypeOK
<1>1. Inv => TypeOK
  BY DEF Inv
<1> QED BY <1>1, InvHolds, PTL

(* One handler has the pointer to the Session until it is deleted, and     *)
(* none afterwards.                                                        *)
THEOREM OneOwnerAlways == Spec => []OneOwner
<1>1. Inv => OneOwner
  BY DEF Inv
<1> QED BY <1>1, InvHolds, PTL

-----------------------------------------------------------------------------
(* The refinements.                                                        *)

(* Every step of the Session takes bytes of the stream, gives back bytes   *)
(* it took, or does neither.                                               *)
LEMMA EchoStep == Inv /\ Inv' /\ [Next]_vars => [Echo!Take \/ Echo!Give]_<<taken, wire>>
<1> SUFFICES ASSUME Inv, Inv', [Next]_vars
             PROVE  Echo!Take \/ Echo!Give \/ UNCHANGED <<taken, wire>>
  OBVIOUS
<1>1. CASE ReadLands
  <2>1. PICK n \in 1..max_length : taken' = taken + n
    BY <1>1 DEF ReadLands, ReadSizes
  <2>2. Len(wire) = taken /\ UNCHANGED wire
    BY <1>1 DEF ReadLands, Inv, AllEchoed, OneOwner, TypeOK, NoRead
  <2>3. taken' \in (taken + 1)..(taken + max_length)
    BY <2>1, SessionAssumption DEF Inv, TypeOK
  <2> QED BY <2>2, <2>3 DEF Echo!Take
<1>2. CASE WriteSome
  <2>1. Len(wire') \in (Len(wire) + 1)..taken
    BY <1>2, WriteSomeInv
  <2>2. wire' = [i \in 1..Len(wire') |-> i]
    BY DEF Inv, IsStream
  <2>3. UNCHANGED taken
    BY <1>2 DEF WriteSome
  <2> QED BY <2>1, <2>2, <2>3 DEF Echo!Give
<1>3. CASE start \/ handle_read \/ handle_write \/ ReadFails \/ WriteFails
  BY <1>3 DEF start, handle_read, handle_write, ReadFails, WriteFails
<1>4. CASE PeerSends \/ PeerShuts \/ PeerVanishes \/ UNCHANGED vars
  BY <1>4 DEF PeerSends, PeerShuts, PeerVanishes, vars, socket
<1> QED BY <1>1, <1>2, <1>3, <1>4 DEF Next

(* For every size of the buffer, and however the kernel cuts the writes,   *)
(* the peer gets back the bytes it sent, in order.                         *)
THEOREM EchoImplemented == Spec => ImplementsEcho
<1>1. Init => Echo!Init
  BY DEF Init, Echo!Init
<1>2. Inv /\ Inv' /\ [Next]_vars => [Echo!Take \/ Echo!Give]_<<taken, wire>>
  BY EchoStep
<1> QED BY <1>1, <1>2, InvHolds, PTL DEF Spec, ImplementsEcho, Echo!Spec

(* A step of the Session is a turn of its life as the server sees it.      *)
LEMMA TurnStep ==
  Inv /\ [Next]_vars => [Turns!Create \/ Turns!Delete \/ Turns!Start \/ Turns!Read \/ Turns!Write]_Operations
<1> SUFFICES ASSUME Inv, [Next]_vars
             PROVE  \/ Turns!Delete \/ Turns!Start \/ Turns!Read \/ Turns!Write
                    \/ UNCHANGED Operations
  BY DEF Turns!Create
<1> USE DEF Inv, OneOwner, Operations
<1>1. CASE start
  BY <1>1 DEF start, Turns!Start, Armed, NoRead
<1>2. CASE handle_read
  <2>1. life = "live" /\ writing = NoWrite /\ reading # NoRead
    BY <1>2 DEF handle_read, ReadOk, ReadError, NoRead
  <2> QED BY <1>2, <2>1 DEF handle_read, ReadOk, ReadError, Turns!Read, Turns!Delete, NoWrite
<1>3. CASE handle_write
  <2>1. life = "live" /\ reading = NoRead /\ writing # NoWrite
    BY <1>3 DEF handle_write, WriteOk, WriteError, NoWrite
  <2> QED BY <1>3, <2>1 DEF handle_write, WriteOk, WriteError, Turns!Write, Turns!Delete, Armed, NoRead
<1>4. CASE ReadLands
  <2>1. reading # NoRead /\ reading' # NoRead /\ UNCHANGED <<life, writing>>
    BY <1>4 DEF ReadLands, NoRead
  <2> QED BY <2>1
<1>5. CASE ReadFails
  <2>1. reading # NoRead /\ reading' # NoRead /\ UNCHANGED <<life, writing>>
    BY <1>5 DEF ReadFails, NoRead, TypeOK, session
  <2> QED BY <2>1
<1>6. CASE WriteSome
  <2>1. writing # NoWrite /\ UNCHANGED <<life, reading>>
    BY <1>6 DEF WriteSome, NoWrite, session
  <2>2. writing'.st \in {"ok", "waiting"}
    BY <1>6 DEF WriteSome, TypeOK
  <2>3. writing' # NoWrite
    BY <2>2 DEF NoWrite
  <2> QED BY <2>1, <2>3
<1>7. CASE WriteFails
  <2>1. writing # NoWrite /\ writing' # NoWrite /\ UNCHANGED <<life, reading>>
    BY <1>7 DEF WriteFails, NoWrite, TypeOK, session
  <2> QED BY <2>1
<1>8. CASE PeerSends \/ PeerShuts \/ PeerVanishes \/ UNCHANGED vars
  BY <1>8 DEF PeerSends, PeerShuts, PeerVanishes, vars, session, socket
<1> QED BY <1>1, <1>2, <1>3, <1>4, <1>5, <1>6, <1>7, <1>8 DEF Next

(* A Session lives as its server relies on. *)
THEOREM TurnsImplemented == Spec => ImplementsTurns
<1>1. Init => Turns!Init
  BY DEF Init, Turns!Init, Operations, NoRead, NoWrite
<1> QED BY <1>1, TurnStep, InvHolds, PTL DEF Spec, ImplementsTurns, Turns!Spec

-----------------------------------------------------------------------------
(* day4                                                                    *)

(* As long as c's connection is whole, its thread has yet to send the      *)
(* bytes that follow those sent, and has none when it reads. Once it has   *)
(* broken, nothing is said of what the thread still holds.                 *)
Streams(c) ==
  /\ IsStream(out[c])
  /\ thread[c] = "none" => in[c] = 0 /\ out[c] = <<>> /\ dataOf[c] = <<>>
  /\ thread[c] = "read" /\ peerOf[c] # "gone" => Len(out[c]) = in[c]
  /\ thread[c] = "send" => Len(dataOf[c]) >= 1
  /\ thread[c] = "send" /\ peerOf[c] # "gone" =>
       /\ Len(out[c]) + Len(dataOf[c]) = in[c]
       /\ \A k \in 1..Len(dataOf[c]) : dataOf[c][k] = Len(out[c]) + k

(* Who waits for accept has connected, once, and has no thread.            *)
Queued ==
  /\ \A c \in threads : peerOf[c] # "away"
  /\ \A i \in 1..Len(backlog) : thread[backlog[i]] = "none" /\ peerOf[backlog[i]] # "away"
  /\ \A i, j \in 1..Len(backlog) : backlog[i] = backlog[j] => i = j

FewThreads == Cardinality(threads) <= MaxThreads

Day4Inv ==
  /\ Day4TypeOK
  /\ \A c \in Clients : Streams(c)
  /\ Queued
  /\ FewThreads
  /\ EndsOnlyFull

(* A send of the first n bytes held continues the stream. *)
LEMMA SendGrows ==
  ASSUME NEW s \in Seq(Nat), IsStream(s), NEW d \in Seq(Nat), NEW n \in 1..Len(d),
         \A k \in 1..Len(d) : d[k] = Len(s) + k
  PROVE  LET r == s \o SubSeq(d, 1, n)
         IN  r \in Seq(Nat) /\ Len(r) = Len(s) + n /\ IsStream(r)
<1>1. Len(d) \in Nat /\ d \in [1..Len(d) -> Nat] /\ Len(s) \in Nat
  BY LenProperties
<1>2. 1 \in 1..Len(d) /\ n \in 1..Len(d)
  BY <1>1
<1>3. \A i \in 1..n : d[i] = Len(s) + (i - 1 + 1)
  BY <1>1
<1> HIDE DEF IsStream
<1>4. PICK first \in 1..Len(d) : first = 1
  BY <1>2
<1>5. n \in first..Len(d) /\ \A i \in first..n : d[i] = Len(s) + (i - first + 1)
  BY <1>2, <1>3, <1>4
<1>6. LET r == s \o SubSeq(d, first, n)
      IN  r \in Seq(Nat) /\ Len(r) = Len(s) + (n - first + 1) /\ IsStream(r)
  BY <1>1, <1>5, StreamGrows
<1> QED BY <1>1, <1>4, <1>6

(* Nothing has happened. *)
LEMMA Day4InitInv == Day4Init => Day4Inv
<1> SUFFICES ASSUME Day4Init PROVE Day4Inv
  OBVIOUS
<1> USE Day4Assumption DEF Day4Init
<1>1. Day4TypeOK
  <2>1. <<>> \in Seq(Clients) /\ <<>> \in Seq(Nat) /\ 0 \in Nat
    BY EmptySeq
  <2> QED BY <2>1 DEF Day4TypeOK
<1>2. \A c \in Clients : Streams(c)
  BY EmptySeq DEF Streams, IsStream
<1>3. Queued /\ EndsOnlyFull
  BY EmptySeq DEF Queued, EndsOnlyFull, threads
<1>4. threads = {}
  BY DEF threads
<1>5. FewThreads
  BY <1>4, FS_EmptySet DEF FewThreads
<1> QED BY <1>1, <1>2, <1>3, <1>5 DEF Day4Inv

(* A step of one thread concerns its own client's stream alone. *)
LEMMA OwnStream ==
  ASSUME Day4Inv, NEW c \in Clients, NEW place \in {"read", "send", "over"},
         thread[c] # "none", Goes(c, place), UNCHANGED <<server, sentBy>>,
         \A d \in Clients \ {c} : /\ dataOf'[d] = dataOf[d] /\ in'[d] = in[d] /\ out'[d] = out[d]
                                  /\ peerOf'[d] = peerOf[d],
         peerOf'[c] # "away",
         Day4TypeOK', Streams(c)'
  PROVE  Day4Inv'
<1> USE DEF Day4Inv
<1>1. /\ thread' = [thread EXCEPT ![c] = place]
      /\ thread \in [Clients -> {"none", "read", "send", "over"}]
      /\ UNCHANGED <<main, listening, backlog>>
  BY DEF Day4TypeOK, Goes, server
<1>2. ASSUME NEW d \in Clients \ {c} PROVE Streams(d)'
  <2>1. thread'[d] = thread[d] /\ Streams(d)
    BY <1>1
  <2> QED BY <2>1 DEF Streams, IsStream
<1>3. \A d \in Clients : Streams(d)'
  BY <1>2
<1>4. \A d \in Clients : thread'[d] = "none" <=> thread[d] = "none"
  BY <1>1
<1>5. threads' = threads
  BY <1>4 DEF threads
<1>6. Queued'
  <2>1. \A i \in 1..Len(backlog) : backlog[i] \in Clients
    BY DEF Day4TypeOK
  <2>2. \A d \in Clients : peerOf[d] # "away" => peerOf'[d] # "away"
    OBVIOUS
  <2>3. \A d \in threads' : peerOf'[d] # "away"
    BY <1>5, <2>2 DEF Queued, threads
  <2> QED BY <1>1, <1>4, <2>1, <2>2, <2>3 DEF Queued
<1>7. FewThreads' /\ EndsOnlyFull'
  BY <1>1, <1>5 DEF FewThreads, EndsOnlyFull
<1> QED BY <1>3, <1>6, <1>7

(* A connection that has a thread has been accepted. *)
LEMMA ThreadHasPeer == ASSUME Day4Inv, NEW c \in Clients, thread[c] # "none" PROVE peerOf[c] # "away"
BY DEF Day4Inv, Queued, threads

(* What a read returns follows what was read before, all of which is sent  *)
(* as long as the connection is whole.                                     *)
LEMMA Day4ReadInv == ASSUME Day4Inv, NEW c \in Clients, Read(c) PROVE Day4Inv'
<1> USE Day4Assumption
<1>1. PICK n \in 1..BufferSize :
        /\ in[c] + n <= sentBy[c]
        /\ dataOf' = [dataOf EXCEPT ![c] = [i \in 1..n |-> in[c] + i]]
        /\ in' = [in EXCEPT ![c] = @ + n]
  BY DEF Read
<1>2. /\ thread[c] = "read" /\ peerOf[c] # "away"
      /\ Goes(c, "send") /\ UNCHANGED <<server, peerOf, sentBy, out>>
  BY ThreadHasPeer DEF Read
<1>3. Day4TypeOK /\ Streams(c)
  BY DEF Day4Inv
<1> DEFINE new == [i \in 1..n |-> in[c] + i]
<1>4. in[c] \in Nat /\ sentBy[c] \in Nat /\ n \in Nat /\ n >= 1
  BY <1>3 DEF Day4TypeOK
<1>5. new \in Seq(Nat) /\ Len(new) = n /\ \A k \in 1..n : new[k] = in[c] + k
  BY <1>4
<1>6. /\ in[c] + n \in Nat
      /\ IsStream(out[c]) /\ (peerOf[c] # "gone" => Len(out[c]) = in[c])
  BY <1>1, <1>2, <1>3, <1>4 DEF Streams
<1> HIDE DEF new
<1>7. /\ dataOf' = [dataOf EXCEPT ![c] = new] /\ in' = [in EXCEPT ![c] = in[c] + n]
      /\ thread' = [thread EXCEPT ![c] = "send"]
  BY <1>1, <1>2 DEF new, Goes
<1>8. Day4TypeOK'
  BY <1>2, <1>3, <1>5, <1>6, <1>7 DEF Day4TypeOK, server
<1>9. dataOf'[c] = new /\ in'[c] = in[c] + n /\ thread'[c] = "send" /\ out'[c] = out[c]
      /\ peerOf' = peerOf
  BY <1>2, <1>3, <1>7 DEF Day4TypeOK
<1>10. Streams(c)'
  BY <1>4, <1>5, <1>6, <1>9 DEF Streams, IsStream
<1>11. \A d \in Clients \ {c} : dataOf'[d] = dataOf[d] /\ in'[d] = in[d] /\ out'[d] = out[d]
  BY <1>2, <1>3, <1>7 DEF Day4TypeOK
<1> QED BY <1>2, <1>8, <1>10, <1>11, OwnStream

(* A thread ends: it holds nothing any more that the invariant is about.   *)
LEMMA Day4EndsInv ==
  ASSUME Day4Inv, NEW c \in Clients, thread[c] \in {"read", "send"}, Goes(c, "over"),
         UNCHANGED <<server, dataOf, peerOf, sentBy, in, out>>
  PROVE  Day4Inv'
<1>1. Day4TypeOK /\ Streams(c)
  BY DEF Day4Inv
<1>2. thread' = [thread EXCEPT ![c] = "over"]
  BY DEF Goes
<1>3. Day4TypeOK' /\ thread'[c] = "over"
  BY <1>1, <1>2 DEF Day4TypeOK, server
<1>4. Streams(c)' /\ peerOf'[c] # "away"
  BY <1>1, <1>3, ThreadHasPeer DEF Streams, IsStream
<1> QED BY <1>3, <1>4, OwnStream

(* However much of what it holds a thread sends, it continues the stream;  *)
(* less than all only when the connection breaks.                          *)
LEMMA Day4SendInv ==
  ASSUME Day4Inv, NEW c \in Clients, thread[c] = "send", peerOf[c] # "gone",
         NEW n \in 1..Len(dataOf[c]), NEW after \in {"gone", peerOf[c]},
         after = "gone" \/ n = Len(dataOf[c]),
         peerOf' = [peerOf EXCEPT ![c] = after],
         out' = [out EXCEPT ![c] = @ \o SubSeq(dataOf[c], 1, n)],
         Goes(c, "read"), UNCHANGED <<server, dataOf, sentBy, in>>
  PROVE  /\ Day4Inv'
         /\ Len(out'[c]) \in (Len(out[c]) + 1)..in[c]
<1>1. Day4TypeOK /\ Streams(c)
  BY DEF Day4Inv
<1>2. /\ out[c] \in Seq(Nat) /\ IsStream(out[c]) /\ dataOf[c] \in Seq(Nat)
      /\ Len(out[c]) \in Nat /\ Len(dataOf[c]) \in Nat /\ n \in Nat /\ n >= 1 /\ n <= Len(dataOf[c])
      /\ Len(out[c]) + Len(dataOf[c]) = in[c]
      /\ \A k \in 1..Len(dataOf[c]) : dataOf[c][k] = Len(out[c]) + k
  BY <1>1, LenProperties DEF Day4TypeOK, Streams
<1> DEFINE r == out[c] \o SubSeq(dataOf[c], 1, n)
<1>3. r \in Seq(Nat) /\ Len(r) = Len(out[c]) + n /\ IsStream(r)
  <2> HIDE DEF IsStream
  <2> QED BY <1>2, SendGrows
<1> HIDE DEF r
<1>4. out' = [out EXCEPT ![c] = r] /\ thread' = [thread EXCEPT ![c] = "read"]
  BY DEF r, Goes
<1>5. Day4TypeOK'
  BY <1>1, <1>3, <1>4 DEF Day4TypeOK, server
<1>6. out'[c] = r /\ thread'[c] = "read" /\ peerOf'[c] = after /\ after # "away"
  BY <1>1, <1>4, ThreadHasPeer DEF Day4TypeOK
<1>7. peerOf'[c] # "gone" => Len(r) = in'[c]
  <2>1. peerOf'[c] # "gone" => n = Len(dataOf[c])
    BY <1>6
  <2> QED BY <1>2, <1>3, <2>1
<1>8. Streams(c)'
  BY <1>3, <1>6, <1>7 DEF Streams, IsStream
<1>9. \A d \in Clients \ {c} : out'[d] = out[d] /\ peerOf'[d] = peerOf[d]
  BY <1>1, <1>4 DEF Day4TypeOK
<1>10. Len(r) \in (Len(out[c]) + 1)..in[c]
  <2>1. in[c] \in Nat /\ Len(r) >= Len(out[c]) + 1 /\ Len(r) <= in[c]
    BY <1>1, <1>2, <1>3 DEF Day4TypeOK
  <2> QED BY <1>2, <1>3, <2>1
<1> QED BY <1>5, <1>6, <1>8, <1>9, <1>10, OwnStream

(* Send sends all of it. *)
LEMMA SendIsWhole ==
  ASSUME Day4Inv, NEW c \in Clients, Send(c)
  PROVE  /\ Day4Inv'
         /\ Len(out'[c]) \in (Len(out[c]) + 1)..in[c]
<1>1. /\ dataOf[c] \in Seq(Nat) /\ Len(dataOf[c]) >= 1
      /\ peerOf \in [Clients -> {"away", "open", "shut", "gone"}]
  BY DEF Day4Inv, Day4TypeOK, Streams, Send
<1>2. SubSeq(dataOf[c], 1, Len(dataOf[c])) = dataOf[c]
  BY <1>1, SubSeqFull
<1>3. PICK n \in 1..Len(dataOf[c]) : n = Len(dataOf[c])
  BY <1>1, LenProperties
<1>4. PICK after \in {"gone", peerOf[c]} : after = peerOf[c]
  OBVIOUS
<1>5. peerOf' = [peerOf EXCEPT ![c] = after]
  BY <1>1, <1>4 DEF Send
<1>6. out' = [out EXCEPT ![c] = @ \o SubSeq(dataOf[c], 1, n)]
  BY <1>2, <1>3 DEF Send
<1> QED BY <1>3, <1>5, <1>6, Day4SendInv DEF Send

(* What SendBreaks sends continues the stream, and is the last of it. *)
LEMMA BrokenSendIsLast ==
  ASSUME Day4Inv, NEW c \in Clients, SendBreaks(c)
  PROVE  /\ Day4Inv'
         /\ Len(out'[c]) \in (Len(out[c]) + 1)..in[c]
<1>1. PICK n \in 1..Len(dataOf[c]) : out' = [out EXCEPT ![c] = @ \o SubSeq(dataOf[c], 1, n)]
  BY DEF SendBreaks
<1>2. PICK after \in {"gone", peerOf[c]} : after = "gone"
  OBVIOUS
<1> QED BY <1>1, <1>2, Day4SendInv DEF SendBreaks

LEMMA threadFuncInv == ASSUME Day4Inv, NEW c \in Clients, threadFunc(c) PROVE Day4Inv'
<1>1. CASE Read(c)
  BY <1>1, Day4ReadInv
<1>2. CASE ReadEnds(c)
  BY <1>2, Day4EndsInv DEF ReadEnds
<1>3. CASE Send(c)
  BY <1>3, SendIsWhole
<1>4. CASE SendBreaks(c)
  BY <1>4, BrokenSendIsLast
<1>5. CASE SendFails(c)
  BY <1>5, Day4EndsInv DEF SendFails
<1> QED BY <1>1, <1>2, <1>3, <1>4, <1>5 DEF threadFunc

(* A connection gets a thread at most once, and only while there are some. *)
LEMMA AcceptInv == Day4Inv /\ Accept => Day4Inv'
<1> SUFFICES ASSUME Day4Inv, Accept PROVE Day4Inv'
  OBVIOUS
<1> USE Day4Assumption
<1>1. Day4TypeOK /\ Queued /\ FewThreads /\ \A d \in Clients : Streams(d)
  BY DEF Day4Inv
<1>2. /\ backlog \in Seq(Clients) /\ backlog # <<>> /\ Head(backlog) = backlog[1]
      /\ Len(backlog) \in Nat /\ Len(backlog) >= 1
  BY <1>1, LenProperties, EmptySeq DEF Accept, Day4TypeOK
<1>3. /\ Head(backlog) \in Clients /\ Tail(backlog) \in Seq(Clients) /\ Len(Tail(backlog)) = Len(backlog) - 1
      /\ \A i \in 1..Len(Tail(backlog)) : Tail(backlog)[i] = backlog[i + 1]
  BY <1>2, HeadTailProperties
<1> PICK c \in Clients : c = Head(backlog)
  BY <1>3
<1>4. c = backlog[1] /\ thread[c] = "none" /\ peerOf[c] # "away"
  BY <1>1, <1>2 DEF Queued
<1>5. /\ main = "accepting" /\ Cardinality(threads) < MaxThreads
      /\ thread' = [thread EXCEPT ![c] = "read"] /\ backlog' = Tail(backlog)
      /\ UNCHANGED <<main, listening, dataOf, peerOf, sentBy, in, out>>
  BY DEF Accept, Goes
<1>6. Day4TypeOK' /\ thread'[c] = "read" /\ \A d \in Clients \ {c} : thread'[d] = thread[d]
  BY <1>1, <1>3, <1>5 DEF Day4TypeOK
<1>7. \A d \in Clients : Streams(d)'
  <2>1. Streams(c)'
    <3>1. in'[c] = 0 /\ out'[c] = <<>> /\ thread'[c] = "read"
      BY <1>1, <1>4, <1>5, <1>6 DEF Streams
    <3>2. Len(out'[c]) = 0 /\ IsStream(out'[c])
      BY <3>1, EmptySeq DEF IsStream
    <3> QED BY <3>1, <3>2 DEF Streams, IsStream
  <2>2. ASSUME NEW d \in Clients \ {c} PROVE Streams(d)'
    BY <1>1, <1>5, <1>6 DEF Streams, IsStream
  <2> QED BY <2>1, <2>2
<1>8. threads' = threads \cup {c} /\ c \notin threads
  BY <1>3, <1>4, <1>6 DEF threads
<1>9. Queued'
  <2>1. \A d \in threads' : peerOf'[d] # "away"
    BY <1>1, <1>4, <1>5, <1>8 DEF Queued
  <2>2. ASSUME NEW i \in 1..Len(backlog')
        PROVE  /\ i + 1 \in 1..Len(backlog) /\ i + 1 # 1
               /\ backlog'[i] = backlog[i + 1]
               /\ backlog'[i] \in Clients \ {c}
    <3>1. i + 1 \in 1..Len(backlog) /\ i + 1 # 1 /\ 1 \in 1..Len(backlog)
      BY <1>2, <1>3, <1>5
    <3>2. backlog'[i] = backlog[i + 1]
      BY <1>3, <1>5
    <3>3. backlog[i + 1] # backlog[1]
      BY <1>1, <3>1 DEF Queued
    <3>4. backlog[i + 1] \in Clients
      BY <1>2, <3>1
    <3> QED BY <1>4, <3>1, <3>2, <3>3, <3>4
  <2>3. \A i \in 1..Len(backlog') : thread'[backlog'[i]] = "none" /\ peerOf'[backlog'[i]] # "away"
    BY <1>1, <1>5, <1>6, <2>2 DEF Queued
  <2>4. ASSUME NEW i \in 1..Len(backlog'), NEW j \in 1..Len(backlog'), backlog'[i] = backlog'[j]
        PROVE  i = j
    <3>1. i + 1 = j + 1
      BY <1>1, <2>2, <2>4 DEF Queued
    <3> QED BY <3>1
  <2> QED BY <2>1, <2>3, <2>4 DEF Queued
<1>10. FewThreads'
  <2>1. IsFiniteSet(threads)
    BY FS_Subset DEF threads
  <2>2. Cardinality(threads) \in Nat
    BY <2>1, FS_CardinalityType
  <2>3. Cardinality(threads') = Cardinality(threads) + 1
    BY <1>8, <2>1, FS_AddElement
  <2> QED BY <1>5, <2>2, <2>3 DEF FewThreads
<1>11. EndsOnlyFull'
  BY <1>5 DEF EndsOnlyFull
<1> QED BY <1>6, <1>7, <1>9, <1>10, <1>11 DEF Day4Inv

(* The rest of main changes no thread; what ends it finds all in the set.  *)
LEMMA MainInv == Day4Inv /\ Main => Day4Inv'
<1> SUFFICES ASSUME Day4Inv, Main PROVE Day4Inv'
  OBVIOUS
<1>1. CASE Accept
  BY <1>1, AcceptInv
<1>2. CASE Start \/ AcceptError \/ AcceptThrows
  <2>1. UNCHANGED <<backlog, thread, dataOf, peerOf, sentBy, in, out>>
    BY <1>2 DEF Start, AcceptError, AcceptThrows, day4Vars, server
  <2>2. Day4TypeOK'
    BY <1>2, <2>1 DEF Day4Inv, Day4TypeOK, Start, AcceptError, AcceptThrows, day4Vars, server
  <2>3. threads' = threads
    BY <2>1 DEF threads
  <2>4. (\A c \in Clients : Streams(c)') /\ Queued' /\ FewThreads'
    BY <2>1, <2>3 DEF Day4Inv, Streams, IsStream, Queued, FewThreads
  <2>5. EndsOnlyFull'
    <3>1. CASE Start \/ AcceptError
      BY <2>3, <3>1 DEF Day4Inv, EndsOnlyFull, Start, AcceptError, day4Vars, server
    <3>2. CASE AcceptThrows
      <4>1. IsFiniteSet(threads)
        BY Day4Assumption, FS_Subset DEF threads
      <4>2. Cardinality(threads) \in Nat
        BY <4>1, FS_CardinalityType
      <4>3. Cardinality(threads) = MaxThreads
        BY <3>2, <4>2, Day4Assumption DEF AcceptThrows, Day4Inv, FewThreads
      <4> QED BY <2>3, <4>3 DEF EndsOnlyFull
    <3> QED BY <1>2, <3>1, <3>2
  <2> QED BY <2>2, <2>4, <2>5 DEF Day4Inv
<1> QED BY <1>1, <1>2 DEF Main

(* Who connects has not been away from the queue before, nor had a thread. *)
LEMMA ConnectInv == ASSUME Day4Inv, NEW c \in Clients, Connect(c) PROVE Day4Inv'
<1>1. Day4TypeOK /\ Queued /\ \A d \in Clients : Streams(d)
  BY DEF Day4Inv
<1>2. /\ peerOf[c] = "away" /\ peerOf' = [peerOf EXCEPT ![c] = "open"] /\ backlog' = Append(backlog, c)
      /\ UNCHANGED <<main, listening, thread, dataOf, sentBy, in, out>>
  BY DEF Connect
<1>3. /\ backlog' \in Seq(Clients) /\ Len(backlog') = Len(backlog) + 1 /\ Len(backlog) \in Nat
      /\ \A i \in 1..Len(backlog) : backlog'[i] = backlog[i] /\ backlog[i] \in Clients
      /\ backlog'[Len(backlog) + 1] = c
  BY <1>1, <1>2, AppendProperties, LenProperties, ElementOfSeq DEF Day4TypeOK
<1>4. /\ Day4TypeOK' /\ peerOf'[c] = "open"
      /\ \A d \in Clients \ {c} : peerOf'[d] = peerOf[d]
  BY <1>1, <1>2, <1>3 DEF Day4TypeOK
<1>5. threads' = threads
  BY <1>2 DEF threads
<1>6. thread[c] = "none" /\ \A i \in 1..Len(backlog) : backlog[i] # c
  BY <1>1, <1>2 DEF Queued, threads
<1>7. \A d \in Clients : Streams(d)'
  <2>1. Streams(c)'
    BY <1>1, <1>2, <1>6 DEF Streams, IsStream
  <2>2. ASSUME NEW d \in Clients \ {c} PROVE Streams(d)'
    BY <1>1, <1>2, <1>4 DEF Streams, IsStream
  <2> QED BY <2>1, <2>2
<1>8. Queued'
  <2>1. \A d \in threads' : peerOf'[d] # "away"
    BY <1>1, <1>4, <1>5 DEF Queued, threads
  <2>2. \A i \in 1..Len(backlog') : i \in 1..Len(backlog) \/ i = Len(backlog) + 1
    BY <1>3
  <2>3. ASSUME NEW i \in 1..Len(backlog')
        PROVE  thread'[backlog'[i]] = "none" /\ peerOf'[backlog'[i]] # "away"
    <3>1. CASE i \in 1..Len(backlog)
      BY <1>1, <1>2, <1>3, <1>4, <1>6, <3>1 DEF Queued
    <3>2. CASE i = Len(backlog) + 1
      BY <1>2, <1>3, <1>4, <1>6, <3>2
    <3> QED BY <2>2, <3>1, <3>2
  <2>4. ASSUME NEW i \in 1..Len(backlog'), NEW j \in 1..Len(backlog'), backlog'[i] = backlog'[j]
        PROVE  i = j
    <3>1. \A k \in 1..Len(backlog) : backlog'[k] # c
      BY <1>3, <1>6
    <3>2. CASE i \in 1..Len(backlog) /\ j \in 1..Len(backlog)
      BY <1>1, <1>3, <2>4, <3>2 DEF Queued
    <3>3. CASE i = Len(backlog) + 1 /\ j \in 1..Len(backlog)
      BY <1>3, <2>4, <3>1, <3>3
    <3>4. CASE i \in 1..Len(backlog) /\ j = Len(backlog) + 1
      BY <1>3, <2>4, <3>1, <3>4
    <3>5. CASE i = Len(backlog) + 1 /\ j = Len(backlog) + 1
      BY <3>5
    <3> QED BY <2>2, <3>2, <3>3, <3>4, <3>5
  <2> QED BY <2>1, <2>3, <2>4 DEF Queued
<1>9. FewThreads' /\ EndsOnlyFull'
  BY <1>2, <1>5 DEF Day4Inv, FewThreads, EndsOnlyFull
<1> QED BY <1>4, <1>7, <1>8, <1>9 DEF Day4Inv

(* A client that has connected and sends, or leaves, stays connected once. *)
LEMMA ClientInv ==
  ASSUME Day4Inv, NEW c \in Clients, ClientSends(c) \/ ClientLeaves(c)
  PROVE  Day4Inv'
<1>1. Day4TypeOK
  BY DEF Day4Inv
<1>2. UNCHANGED <<main, listening, backlog, thread, dataOf, in, out>>
  BY DEF ClientSends, ClientLeaves, server
<1>3. Day4TypeOK'
  <2>1. CASE ClientSends(c)
    <3>1. sentBy[c] + 1 \in Nat
      BY <1>1 DEF Day4TypeOK
    <3> QED BY <1>1, <1>2, <2>1, <3>1 DEF ClientSends, Day4TypeOK
  <2>2. CASE ClientLeaves(c)
    BY <1>1, <1>2, <2>2 DEF ClientLeaves, Day4TypeOK
  <2> QED BY <2>1, <2>2
<1>4. \A d \in Clients : /\ peerOf'[d] = "away" <=> peerOf[d] = "away"
                         /\ peerOf[d] = "gone" => peerOf'[d] = "gone"
  BY <1>1 DEF ClientSends, ClientLeaves, Day4TypeOK
<1>5. threads' = threads
  BY <1>2 DEF threads
<1>6. \A d \in Clients : Streams(d)'
  <2> SUFFICES ASSUME NEW d \in Clients PROVE Streams(d)'
    OBVIOUS
  <2>1. Streams(d) /\ (peerOf'[d] # "gone" => peerOf[d] # "gone")
    BY <1>4 DEF Day4Inv
  <2> QED BY <1>2, <2>1 DEF Streams, IsStream
<1>7. Queued'
  <2>1. \A i \in 1..Len(backlog) : backlog[i] \in Clients
    BY <1>1 DEF Day4TypeOK
  <2> QED BY <1>2, <1>4, <1>5, <2>1 DEF Day4Inv, Queued, threads
<1>8. FewThreads' /\ EndsOnlyFull'
  BY <1>2, <1>5 DEF Day4Inv, FewThreads, EndsOnlyFull
<1> QED BY <1>3, <1>6, <1>7, <1>8 DEF Day4Inv

LEMMA Day4NextInv == Day4Inv /\ [Day4Next]_day4Vars => Day4Inv'
<1> SUFFICES ASSUME Day4Inv, [Day4Next]_day4Vars PROVE Day4Inv'
  OBVIOUS
<1>1. CASE Main
  BY <1>1, MainInv
<1>2. ASSUME NEW c \in Clients, threadFunc(c) PROVE Day4Inv'
  BY <1>2, threadFuncInv
<1>3. ASSUME NEW c \in Clients, Connect(c) PROVE Day4Inv'
  BY <1>3, ConnectInv
<1>4. ASSUME NEW c \in Clients, ClientSends(c) \/ ClientLeaves(c) PROVE Day4Inv'
  BY <1>4, ClientInv
<1>5. CASE UNCHANGED day4Vars
  <2>1. UNCHANGED <<main, listening, backlog, thread, dataOf, peerOf, sentBy, in, out>>
    BY <1>5 DEF day4Vars, server
  <2>2. Day4TypeOK'
    BY <2>1 DEF Day4Inv, Day4TypeOK
  <2>3. threads' = threads
    BY <2>1 DEF threads
  <2>4. \A c \in Clients : Streams(c)'
    BY <2>1 DEF Day4Inv, Streams, IsStream
  <2>5. Queued' /\ FewThreads' /\ EndsOnlyFull'
    BY <2>1, <2>3 DEF Day4Inv, Queued, FewThreads, EndsOnlyFull
  <2> QED BY <2>2, <2>4, <2>5 DEF Day4Inv
<1> QED BY <1>1, <1>2, <1>3, <1>4, <1>5 DEF Day4Next

(* The inductive invariant holds of the server and all its threads. *)
THEOREM Day4InvHolds == Day4Spec => []Day4Inv
<1> QED BY Day4InitInv, Day4NextInv, PTL DEF Day4Spec

(* The state keeps its types. *)
THEOREM Day4TypeCorrect == Day4Spec => []Day4TypeOK
<1>1. Day4Inv => Day4TypeOK
  BY DEF Day4Inv
<1> QED BY <1>1, Day4InvHolds, PTL

(* Whatever its clients do, accept's errors included, the server ends only *)
(* when every thread the system gives it is in the set, ended or not.      *)
THEOREM EndsOnlyWhenFull == Day4Spec => []EndsOnlyFull
<1>1. Day4Inv => EndsOnlyFull
  BY DEF Day4Inv
<1> QED BY <1>1, Day4InvHolds, PTL

(* On a whole connection a step of the server takes bytes of the client's  *)
(* stream, gives back bytes it took, or does neither; on a broken one it   *)
(* gives nothing.                                                          *)
LEMMA EachEchoStep ==
  ASSUME Day4Inv, Day4Inv', [Day4Next]_day4Vars, NEW c \in Clients
  PROVE  [IF peerOf[c] = "gone"
            THEN UNCHANGED out[c]
            ELSE EchoOf(c)!Take \/ EchoOf(c)!Give]_<<in[c], out[c]>>
<1>1. ASSUME NEW d \in Clients, threadFunc(d), d # c PROVE UNCHANGED <<in[c], out[c]>>
  BY <1>1 DEF threadFunc, Read, ReadEnds, Send, SendBreaks, SendFails, Day4Inv, Day4TypeOK
<1>2. CASE Read(c)
  <2>1. UNCHANGED out[c]
    BY <1>2 DEF Read
  <2>2. ASSUME peerOf[c] # "gone" PROVE EchoOf(c)!Take
    <3>1. PICK n \in 1..BufferSize : in'[c] = in[c] + n
      BY <1>2 DEF Read, Day4Inv, Day4TypeOK
    <3>2. Len(out[c]) = in[c]
      BY <1>2, <2>2 DEF Read, Day4Inv, Streams
    <3>3. in'[c] \in (in[c] + 1)..(in[c] + BufferSize)
      BY <3>1, Day4Assumption DEF Day4Inv, Day4TypeOK
    <3> QED BY <2>1, <3>2, <3>3 DEF EchoOf!Take
  <2> QED BY <2>1, <2>2
<1>3. CASE Send(c) \/ SendBreaks(c)
  <2>1. Len(out'[c]) \in (Len(out[c]) + 1)..in[c]
    BY <1>3, SendIsWhole, BrokenSendIsLast
  <2>2. out'[c] = [i \in 1..Len(out'[c]) |-> i]
    BY DEF Day4Inv, Streams, IsStream
  <2>3. UNCHANGED in[c] /\ peerOf[c] # "gone"
    BY <1>3 DEF Send, SendBreaks
  <2> QED BY <2>1, <2>2, <2>3 DEF EchoOf!Give
<1>4. CASE ReadEnds(c) \/ SendFails(c)
  BY <1>4 DEF ReadEnds, SendFails
<1>5. CASE Main \/ UNCHANGED day4Vars
  BY <1>5 DEF Main, Start, AcceptError, Accept, AcceptThrows, day4Vars
<1>6. ASSUME NEW d \in Clients, Connect(d) \/ ClientSends(d) \/ ClientLeaves(d)
      PROVE  UNCHANGED <<in[c], out[c]>>
  BY <1>6 DEF Connect, ClientSends, ClientLeaves
<1> QED BY <1>1, <1>2, <1>3, <1>4, <1>5, <1>6 DEF Day4Next, threadFunc

(* For every size of the buffer and any number of clients, each thread     *)
(* gives its client back its own bytes in order; after a break within a    *)
(* send it may read more, but what it has read then it never gives, so the *)
(* client gets nothing after a gap.                                        *)
THEOREM EachEchoImplemented == Day4Spec => EachImplementsEcho
<1>1. Day4Init => \A c \in Clients : EchoOf(c)!Init
  BY DEF Day4Init, EchoOf!Init
<1>2. Day4Inv /\ Day4Inv' /\ [Day4Next]_day4Vars =>
        [\A c \in Clients : [IF peerOf[c] = "gone"
                               THEN UNCHANGED out[c]
                               ELSE EchoOf(c)!Take \/ EchoOf(c)!Give]_<<in[c], out[c]>>]_day4Vars
  BY EachEchoStep
<1> QED BY <1>1, <1>2, Day4InvHolds, PTL DEF Day4Spec, EachImplementsEcho
=============================================================================
