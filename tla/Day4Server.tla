----------------------------- MODULE Day4Server -----------------------------
(***************************************************************************)
(* The server of server/example/day4: main accepts with blocking calls and *)
(* gives each connection a thread of its own, which echoes with blocking   *)
(* calls. The bytes of each client's stream are 1, 2, 3, ...               *)
(***************************************************************************)
EXTENDS Integers, Sequences, FiniteSets

CONSTANTS
  Clients,      (* the peers, which connect once                           *)
  BufferSize,   (* of threadFunc's data: 1024                              *)
  MaxSockets,   (* file descriptors the process may use for connections    *)
  MaxThreads,   (* threads the system gives the process, ended or not, as  *)
                (* long as they are not joined                             *)
  MaxSent       (* MaxSent[c]: bound on the bytes client c sends           *)

ASSUME Day4Assumption ==
  /\ IsFiniteSet(Clients)
  /\ BufferSize \in Nat \ {0} /\ MaxSockets \in Nat \ {0}
  /\ MaxThreads \in Nat /\ MaxSent \in [Clients -> Nat]

VARIABLES
  main,       (* "starting", "accepting", or "ended" by an exception       *)
  listening,  (* has init set the acceptor up?                             *)
  backlog,    (* connections the kernel keeps for accept                   *)
  thread,     (* thread[c] for c's connection: "none", "read", "send" (the *)
              (* call it is in) or "over"                                  *)
  dataOf,     (* dataOf[c]: data, the bytes its last read_some returned    *)
  peerOf,     (* peerOf[c]: "away", "open", "shut" (its FIN has come) or   *)
              (* "gone" (the connection is broken, as the kernel knows)    *)
  sentBy,     (* sentBy[c]: the number of bytes it has sent                *)
  in, out     (* of c's stream: the number of bytes read, the bytes sent   *)

server   == <<main, listening, backlog>>
day4Vars == <<server, thread, dataOf, peerOf, sentBy, in, out>>

Day4Init ==
  /\ main = "starting"
  /\ listening = FALSE
  /\ backlog = <<>>
  /\ thread = [c \in Clients |-> "none"]
  /\ dataOf = [c \in Clients |-> <<>>]
  /\ peerOf = [c \in Clients |-> "away"]
  /\ sentBy = [c \in Clients |-> 0]
  /\ in = [c \in Clients |-> 0]
  /\ out = [c \in Clients |-> <<>>]

(* Every thread ever started stays in the set threads, and its pthread     *)
(* with it: nothing joins it before the destructor, which start never lets *)
(* main reach. Its socket is closed when threadFunc ends.                  *)
threads == {c \in Clients : thread[c] # "none"}
Full    == Cardinality({c \in threads : thread[c] # "over"}) >= MaxSockets

Goes(c, place) == thread' = [thread EXCEPT ![c] = place]

-----------------------------------------------------------------------------
(* main: whatever init returns, start is called.                           *)
Start ==
  /\ main = "starting"
  /\ main' = "accepting"
  /\ listening' \in BOOLEAN
  /\ UNCHANGED <<backlog, thread, dataOf, peerOf, sentBy, in, out>>

(* Faulty variants: an error ends the server; the connection is served     *)
(* before the next is accepted.                                            *)
AcceptErrorEnds ==
  /\ main = "accepting" /\ (~listening \/ Full)
  /\ main' = "ended"
  /\ UNCHANGED <<listening, backlog, thread, dataOf, peerOf, sentBy, in, out>>

AcceptWaits ==
  /\ main = "accepting" /\ backlog # <<>> /\ ~Full
  /\ \A c \in threads : thread[c] = "over"
  /\ Cardinality(threads) < MaxThreads
  /\ Goes(Head(backlog), "read")
  /\ backlog' = Tail(backlog)
  /\ UNCHANGED <<main, listening, dataOf, peerOf, sentBy, in, out>>

(* accept fails and is called again, at once and for ever if it must be.   *)
AcceptError ==
  /\ main = "accepting" /\ (~listening \/ Full)
  /\ UNCHANGED day4Vars

Accept ==
  /\ main = "accepting" /\ backlog # <<>> /\ ~Full
  /\ Cardinality(threads) < MaxThreads
  /\ Goes(Head(backlog), "read")
  /\ backlog' = Tail(backlog)
  /\ UNCHANGED <<main, listening, dataOf, peerOf, sentBy, in, out>>

(* std::thread's constructor throws, out of start and main.                *)
AcceptThrows ==
  /\ main = "accepting" /\ backlog # <<>> /\ ~Full
  /\ Cardinality(threads) >= MaxThreads
  /\ main' = "ended"
  /\ UNCHANGED <<listening, backlog, thread, dataOf, peerOf, sentBy, in, out>>

Main == Start \/ AcceptError \/ Accept \/ AcceptThrows

-----------------------------------------------------------------------------
(* threadFunc                                                              *)

(* What came before the connection broke can still be read after.          *)
Read(c) ==
  /\ thread[c] = "read"
  /\ \E n \in 1..BufferSize :
       /\ in[c] + n <= sentBy[c]
       /\ dataOf' = [dataOf EXCEPT ![c] = [i \in 1..n |-> in[c] + i]]
       /\ in' = [in EXCEPT ![c] = @ + n]
  /\ Goes(c, "send")
  /\ UNCHANGED <<server, peerOf, sentBy, out>>

(* eof, or an error, which is thrown and caught: the socket is closed. Of  *)
(* a peer that is gone the rest need not have come.                        *)
ReadEnds(c) ==
  /\ thread[c] = "read"
  /\ peerOf[c] = "gone" \/ (peerOf[c] = "shut" /\ in[c] = sentBy[c])
  /\ Goes(c, "over")
  /\ UNCHANGED <<server, dataOf, peerOf, sentBy, in, out>>

(* Faulty variant: the whole buffer is sent.                               *)
SendBuffer(c) ==
  /\ thread[c] = "send" /\ peerOf[c] # "gone"
  /\ out' = [out EXCEPT ![c] = @ \o [i \in 1..BufferSize |-> IF i <= Len(dataOf[c]) THEN dataOf[c][i] ELSE 0]]
  /\ Goes(c, "read")
  /\ UNCHANGED <<server, dataOf, peerOf, sentBy, in>>

(* A blocking send takes everything, unless the connection breaks.         *)
Send(c) ==
  /\ thread[c] = "send" /\ peerOf[c] # "gone"
  /\ out' = [out EXCEPT ![c] = @ \o dataOf[c]]
  /\ Goes(c, "read")
  /\ UNCHANGED <<server, dataOf, peerOf, sentBy, in>>

(* The connection breaks within a send that has taken something, which is  *)
(* not reported: the thread reads on.                                      *)
SendBreaks(c) ==
  /\ thread[c] = "send" /\ peerOf[c] # "gone"
  /\ peerOf' = [peerOf EXCEPT ![c] = "gone"]
  /\ \E n \in 1..Len(dataOf[c]) : out' = [out EXCEPT ![c] = @ \o SubSeq(dataOf[c], 1, n)]
  /\ Goes(c, "read")
  /\ UNCHANGED <<server, dataOf, sentBy, in>>

(* It had broken before: the error is thrown and caught.                   *)
SendFails(c) ==
  /\ thread[c] = "send" /\ peerOf[c] = "gone"
  /\ Goes(c, "over")
  /\ UNCHANGED <<server, dataOf, peerOf, sentBy, in, out>>

threadFunc(c) == Read(c) \/ ReadEnds(c) \/ Send(c) \/ SendBreaks(c) \/ SendFails(c)

-----------------------------------------------------------------------------
(* The clients.                                                            *)

Connect(c) ==
  /\ listening /\ peerOf[c] = "away"
  /\ peerOf' = [peerOf EXCEPT ![c] = "open"]
  /\ backlog' = Append(backlog, c)
  /\ UNCHANGED <<main, listening, thread, dataOf, sentBy, in, out>>

ClientSends(c) ==
  /\ peerOf[c] = "open" /\ sentBy[c] < MaxSent[c]
  /\ sentBy' = [sentBy EXCEPT ![c] = @ + 1]
  /\ UNCHANGED <<server, thread, dataOf, peerOf, in, out>>

ClientLeaves(c) ==
  /\ peerOf[c] \in {"open", "shut"}
  /\ peerOf' \in {[peerOf EXCEPT ![c] = "shut"], [peerOf EXCEPT ![c] = "gone"]}
  /\ UNCHANGED <<server, thread, dataOf, sentBy, in, out>>

Day4Next ==
  /\ main # "ended"
  /\ \/ Main
     \/ \E c \in Clients : threadFunc(c) \/ Connect(c) \/ ClientSends(c) \/ ClientLeaves(c)

Day4Spec == Day4Init /\ [][Day4Next]_day4Vars

(* main and the threads are scheduled; a client that stays reads what is   *)
(* sent to it. No client has to connect, send or leave.                    *)
Day4FairSpec == Day4Spec /\ WF_day4Vars(Main) /\ \A c \in Clients : WF_day4Vars(main # "ended" /\ threadFunc(c))

-----------------------------------------------------------------------------
(* Properties.                                                             *)

Day4TypeOK ==
  /\ main \in {"starting", "accepting", "ended"} /\ listening \in BOOLEAN
  /\ backlog \in Seq(Clients)
  /\ thread \in [Clients -> {"none", "read", "send", "over"}]
  /\ dataOf \in [Clients -> Seq(Nat)]
  /\ peerOf \in [Clients -> {"away", "open", "shut", "gone"}]
  /\ sentBy \in [Clients -> Nat] /\ in \in [Clients -> Nat]
  /\ out \in [Clients -> Seq(Nat)]

(* What one thread does for its client is the echo service, as the day6    *)
(* Session is, for as long as the connection is whole. When it breaks      *)
(* within a send the thread does not learn of it: it may take more, but    *)
(* gives nothing after what the broken send has taken, so that there is no *)
(* gap in what the client gets.                                            *)
EchoOf(c) == INSTANCE EchoStream WITH Max <- BufferSize, in <- in[c], out <- out[c]

EachImplementsEcho ==
  /\ \A c \in Clients : EchoOf(c)!Init
  /\ [][\A c \in Clients : [IF peerOf[c] = "gone"
                             THEN UNCHANGED out[c]
                             ELSE EchoOf(c)!Take \/ EchoOf(c)!Give]_<<in[c], out[c]>>]_day4Vars

(* A client that has sent something gets it back, whatever the others do:  *)
(* whether they send, stay silent for ever, leave, or use up the file      *)
(* descriptors, if these keep becoming free. Unless it leaves, or the      *)
(* server ends.                                                            *)
ClientsAnswered ==
  []<>(~Full) =>
    \A c \in Clients : \A k \in 1..MaxSent[c] :
      sentBy[c] >= k ~> Len(out[c]) >= k \/ peerOf[c] = "gone" \/ main = "ended"

(* No error of accept and no client ends the server, only the threads that *)
(* are never joined: all it was ever given are in the set then, the served *)
(* and the ended.                                                          *)
EndsOnlyFull == main = "ended" => Cardinality(threads) = MaxThreads
=============================================================================
