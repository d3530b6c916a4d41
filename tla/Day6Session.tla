---------------------------- MODULE Day6Session ----------------------------
(***************************************************************************)
(* One Session of the asynchronous echo server server/example/day6, which  *)
(* is never shared: the handler of the one operation under way has the raw *)
(* pointer to it, starts the next operation or deletes it. A read is       *)
(* followed by the write of what was read and that by the next read, so    *)
(* one buffer serves both.                                                 *)
(*                                                                         *)
(* The peer's byte stream is 1, 2, 3, ..., as in Day7Session.              *)
(***************************************************************************)
EXTENDS Integers, Sequences

CONSTANTS
  max_length,   (* size of data_ in bytes                      *)
  MaxBytes      (* bound on the number of bytes the peer sends *)

ASSUME SessionAssumption ==
  /\ max_length \in Nat \ {0}
  /\ MaxBytes \in Nat

VARIABLES
  life,      (* the Session: "accepted", "live" once started, "deleted"   *)
  data,      (* data_                                                     *)
  reading,   (* async_read_some: [st, n], n bytes read                    *)
  writing,   (* async_write: [st, len, off], off of len bytes written     *)
  sent,      (* bytes the peer has sent                                   *)
  taken,     (* bytes of them read off the socket                         *)
  peer,      (* "open", "shut" (has sent FIN) or "gone" (reset)           *)
  wire       (* history: the bytes given to the kernel, in order          *)

session    == <<life, data>>
socket     == <<reading, writing, taken, wire>>
connection == <<sent, peer>>
vars       == <<session, socket, connection>>

NoRead  == [st |-> "none", n |-> 0]
Armed   == [st |-> "waiting", n |-> 0]
NoWrite == [st |-> "none", len |-> 0, off |-> 0]
Zeroed  == [i \in 1..max_length |-> 0]

Init ==
  /\ life = "accepted"
  /\ data = Zeroed
  /\ reading = NoRead /\ writing = NoWrite
  /\ sent = 0 /\ taken = 0
  /\ peer = "open"
  /\ wire = <<>>

-----------------------------------------------------------------------------
(* The socket: what the reactor makes of the operation under way.          *)

(* buffer(data_, max_length)                                               *)
ReadSizes == 1..max_length

ReadLands ==
  /\ reading.st = "waiting"
  /\ \E n \in ReadSizes :
       /\ taken + n <= sent
       /\ data' = [i \in 1..max_length |-> IF i <= n THEN taken + i ELSE data[i]]
       /\ taken' = taken + n
       /\ reading' = [st |-> "ok", n |-> n]
  /\ UNCHANGED <<life, writing, wire, connection>>

(* EOF once the peer's FIN is reached, an error once it is gone.           *)
ReadFails ==
  /\ reading.st = "waiting"
  /\ peer = "gone" \/ (peer = "shut" /\ taken = sent)
  /\ reading' = [reading EXCEPT !.st = "failed"]
  /\ UNCHANGED <<session, writing, taken, wire, connection>>

(* One write_some of the composed write_op: as much as the kernel takes of *)
(* what is left, from the buffer as it is by now.                          *)
WriteSome ==
  /\ writing.st = "waiting"
  /\ peer # "gone"
  /\ \E off \in (writing.off + 1)..writing.len :
       /\ wire' = wire \o SubSeq(data, writing.off + 1, off)
       /\ writing' = [writing EXCEPT !.off = off,
                                     !.st = IF off = writing.len THEN "ok" ELSE "waiting"]
  /\ UNCHANGED <<session, reading, taken, connection>>

WriteFails ==
  /\ writing.st = "waiting"
  /\ peer = "gone"
  /\ writing' = [writing EXCEPT !.st = "failed"]
  /\ UNCHANGED <<session, reading, taken, wire, connection>>

-----------------------------------------------------------------------------
(* Session's member functions. Each runs to its end on the one thread.     *)

(* Called by handle_accept. *)
start ==
  /\ life = "accepted"
  /\ life' = "live"
  /\ data' = Zeroed
  /\ reading' = Armed
  /\ UNCHANGED <<writing, taken, wire, connection>>

(* Faulty variants: the next read is armed beside the write; the whole     *)
(* buffer is echoed.                                                       *)
ReadOkArms ==
  /\ reading.st = "ok"
  /\ reading' = Armed
  /\ writing' = [st |-> "waiting", len |-> reading.n, off |-> 0]
  /\ UNCHANGED life

ReadOkWhole ==
  /\ reading.st = "ok"
  /\ reading' = NoRead
  /\ writing' = [st |-> "waiting", len |-> max_length, off |-> 0]
  /\ UNCHANGED life

ReadOk ==
  /\ reading.st = "ok"
  /\ reading' = NoRead
  /\ writing' = [st |-> "waiting", len |-> reading.n, off |-> 0]
  /\ UNCHANGED life

ReadError ==
  /\ reading.st = "failed"
  /\ life' = "deleted"
  /\ reading' = NoRead
  /\ UNCHANGED writing

handle_read ==
  /\ ReadError \/ ReadOk
  /\ UNCHANGED <<data, taken, wire, connection>>

(* Faulty variant: nothing is read any more. *)
WriteOkStops ==
  /\ writing.st = "ok"
  /\ data' = Zeroed
  /\ writing' = NoWrite
  /\ UNCHANGED <<life, reading>>

WriteOk ==
  /\ writing.st = "ok"
  /\ data' = Zeroed
  /\ writing' = NoWrite
  /\ reading' = Armed
  /\ UNCHANGED life

WriteError ==
  /\ writing.st = "failed"
  /\ life' = "deleted"
  /\ writing' = NoWrite
  /\ UNCHANGED <<data, reading>>

handle_write ==
  /\ WriteError \/ WriteOk
  /\ UNCHANGED <<taken, wire, connection>>

-----------------------------------------------------------------------------
(* The peer.                                                               *)

PeerSends ==
  /\ peer = "open" /\ sent < MaxBytes
  /\ sent' = sent + 1
  /\ UNCHANGED <<session, socket, peer>>

PeerShuts ==
  /\ peer = "open"
  /\ peer' = "shut"
  /\ UNCHANGED <<session, socket, sent>>

PeerVanishes ==
  /\ peer # "gone"
  /\ peer' = "gone"
  /\ UNCHANGED <<session, socket, sent>>

Next ==
  \/ start \/ handle_read \/ handle_write
  \/ ReadLands \/ ReadFails \/ WriteSome \/ WriteFails
  \/ PeerSends \/ PeerShuts \/ PeerVanishes

Spec == Init /\ [][Next]_vars

(* The thread in ctx.run() takes completions as long as there are any, and *)
(* the kernel performs what it can: the peer that stays connected reads    *)
(* what is sent to it. Nothing makes the peer send, stop or vanish.        *)
Fairness ==
  /\ WF_vars(start) /\ WF_vars(handle_read) /\ WF_vars(handle_write)
  /\ WF_vars(ReadLands) /\ WF_vars(ReadFails)
  /\ WF_vars(WriteSome) /\ WF_vars(WriteFails)

FairSpec == Spec /\ Fairness

-----------------------------------------------------------------------------
(* Properties.                                                             *)

States == {"none", "waiting", "ok", "failed"}

(* Types; no more is read than data_ holds, or written than was read.      *)
TypeOK ==
  /\ life \in {"accepted", "live", "deleted"}
  /\ data \in [1..max_length -> Nat]
  /\ reading \in [st : States, n : 0..max_length]
  /\ writing \in [st : States, len : 0..max_length, off : 0..max_length]
  /\ sent \in Nat /\ taken \in 0..sent
  /\ peer \in {"open", "shut", "gone"}
  /\ wire \in Seq(Nat)

(* The handlers have the only pointers to the Session: it has one          *)
(* operation under way from its start to its delete, and none after, so    *)
(* that no handler runs on freed memory and none deletes it twice, and it  *)
(* is not forgotten, neither deleted nor waited for.                       *)
OneOwner ==
  /\ life = "live" => (reading = NoRead) # (writing = NoWrite)
  /\ life # "live" => reading = NoRead /\ writing = NoWrite

(* Whatever pieces the kernel takes the writes in, data_ still holds them  *)
(* when it does: the peer gets back exactly the bytes it sent, and the     *)
(* next are not read before.                                               *)
Echo == INSTANCE EchoStream WITH Max <- max_length, in <- taken, out <- wire

ImplementsEcho == Echo!Spec

(* What the server sees of a Session. *)
Operations ==
  (IF life = "accepted" THEN {"accept"} ELSE {})
    \cup (IF reading = NoRead THEN {} ELSE {"read"})
    \cup (IF writing = NoWrite THEN {} ELSE {"write"})

Turns == INSTANCE SessionTurns WITH ops <- Operations

(* A Session lives as its server relies on. *)
ImplementsTurns == Turns!Spec

(* Every byte the peer sends is answered, however many it sends at once.   *)
AllAnswered == \A k \in 1..MaxBytes : (sent >= k) ~> (Len(wire) >= k \/ peer = "gone")

=============================================================================
