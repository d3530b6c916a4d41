------------------------------- MODULE RWLock -------------------------------
(***************************************************************************)
(* What a reader/writer lock promises: it is held by readers, or by one    *)
(* writer. sylar::RWSpinlock is shown to implement it (module RWSpinlock), *)
(* and LoggerManager is modelled on top of it.                             *)
(***************************************************************************)
CONSTANT Threads

VARIABLES
  rd,   (* the threads that hold the lock for reading *)
  wr    (* the thread that holds it for writing       *)

Init == rd = {} /\ wr = {}

AcquireRead(t) ==
  /\ t \notin rd /\ wr = {}
  /\ rd' = rd \cup {t}
  /\ wr' = wr

AcquireWrite(t) ==
  /\ rd = {} /\ wr = {}
  /\ wr' = {t}
  /\ rd' = rd

Release(t) ==
  /\ t \in rd \cup wr
  /\ rd' = rd \ {t}
  /\ wr' = wr \ {t}

Next == \E t \in Threads : AcquireRead(t) \/ AcquireWrite(t) \/ Release(t)

Spec == Init /\ [][Next]_<<rd, wr>>
=============================================================================
