----------------------------- MODULE RWSpinlock -----------------------------
(***************************************************************************)
(* sylar::RWSpinlock with the scoped locks that use it. The lock is a      *)
(* tbb::spin_rw_mutex and one plain flag, isRead_, shared by all threads   *)
(* and written outside any critical section of its own: unlock() reads it  *)
(* to choose between unlock_shared() and unlock(). A wrong choice would    *)
(* take a reader off the count that is not there, or leave the lock held   *)
(* for ever.                                                               *)
(*                                                                         *)
(* Each thread has at most one ReadScopedLockImpl or WriteScopedLockImpl   *)
(* on the lock at a time, and may unlock it and lock it again before its   *)
(* destructor runs.                                                        *)
(***************************************************************************)
EXTENDS Integers, FiniteSets

CONSTANT Threads

ASSUME ThreadsAssumption == IsFiniteSet(Threads)

VARIABLES
  readers,   (* the count of readers in the tbb::spin_rw_mutex              *)
  writer,    (* its writer bit                                              *)
  isRead,    (* isRead_                                                     *)
  kind,      (* kind[t]: which scoped lock the thread has, "read", "write"  *)
  pc         (* pc[t]: where the thread is, see below                       *)

vars == <<readers, writer, isRead, kind, pc>>

(* "none": no scoped lock exists; "got": mutex_ is locked and isRead_ not  *)
(* yet written; "held": locked_ is true; "shared" and "excl": unlock() has *)
(* read isRead_ and is about to call unlock_shared() or unlock(); "open":  *)
(* the scoped lock still exists, with locked_ false.                       *)
Places == {"none", "got", "held", "shared", "excl", "open"}

Init ==
  /\ readers = 0
  /\ writer = FALSE
  /\ isRead = FALSE
  /\ kind = [t \in Threads |-> "read"]
  /\ pc = [t \in Threads |-> "none"]

Goes(t, place) == pc' = [pc EXCEPT ![t] = place]

-----------------------------------------------------------------------------
(* The four calls of tbb::spin_rw_mutex.                                   *)

lock_shared   == ~writer /\ readers' = readers + 1 /\ UNCHANGED writer
lock          == ~writer /\ readers = 0 /\ writer' = TRUE /\ UNCHANGED readers
unlock_shared == readers' = readers - 1 /\ UNCHANGED writer
unlock        == writer' = FALSE /\ UNCHANGED readers

-----------------------------------------------------------------------------
(* RWSpinlock and the scoped locks. A constructor and lock() call rdlock() *)
(* or wrlock(); lock() does so only if locked_ is false.                   *)

MayLock(t, k) == pc[t] = "none" \/ (pc[t] = "open" /\ kind[t] = k)

(* Faulty variant: the flag is set before the lock is acquired. *)
rdlockMarksFirst(t) ==
  /\ MayLock(t, "read")
  /\ isRead' = TRUE
  /\ \/ /\ lock_shared
        /\ kind' = [kind EXCEPT ![t] = "read"]
        /\ Goes(t, "held")
     \/ UNCHANGED <<readers, writer, kind, pc>>

rdlock(t) ==
  /\ MayLock(t, "read")
  /\ lock_shared
  /\ kind' = [kind EXCEPT ![t] = "read"]
  /\ Goes(t, "got")
  /\ UNCHANGED isRead

(* Faulty variant: lock_shared() called for lock(). *)
wrlockShared(t) ==
  /\ MayLock(t, "write")
  /\ lock_shared
  /\ kind' = [kind EXCEPT ![t] = "write"]
  /\ Goes(t, "got")
  /\ UNCHANGED isRead

wrlock(t) ==
  /\ MayLock(t, "write")
  /\ lock
  /\ kind' = [kind EXCEPT ![t] = "write"]
  /\ Goes(t, "got")
  /\ UNCHANGED isRead

(* The second statement of rdlock and of wrlock.                           *)
SetIsRead(t) ==
  /\ pc[t] = "got"
  /\ isRead' = (kind[t] = "read")
  /\ Goes(t, "held")
  /\ UNCHANGED <<readers, writer, kind>>

TestIsRead(t) ==
  /\ pc[t] = "held"
  /\ Goes(t, IF isRead THEN "shared" ELSE "excl")
  /\ UNCHANGED <<readers, writer, isRead, kind>>

Unlock(t) ==
  /\ \/ pc[t] = "shared" /\ unlock_shared
     \/ pc[t] = "excl" /\ unlock
  /\ Goes(t, "open")
  /\ UNCHANGED <<isRead, kind>>

(* The destructor, once its unlock() has nothing left to do. *)
Destroy(t) ==
  /\ pc[t] = "open"
  /\ Goes(t, "none")
  /\ UNCHANGED <<readers, writer, isRead, kind>>

Step(t) ==
  rdlock(t) \/ wrlock(t) \/ SetIsRead(t) \/ TestIsRead(t) \/ Unlock(t) \/ Destroy(t)

Next == \E t \in Threads : Step(t)

Spec == Init /\ [][Next]_vars

-----------------------------------------------------------------------------
(* Properties.                                                             *)

Inside(k) == {t \in Threads : kind[t] = k /\ pc[t] \in {"got", "held", "shared", "excl"}}

(* The state keeps its types; in particular unlock_shared() never takes    *)
(* the count of readers below zero.                                        *)
TypeOK ==
  /\ readers \in Nat
  /\ writer \in BOOLEAN
  /\ isRead \in BOOLEAN
  /\ kind \in [Threads -> {"read", "write"}]
  /\ pc \in [Threads -> Places]

(* unlock() chooses the call that matches the way the thread locked, and   *)
(* the spin_rw_mutex knows exactly the threads between lock and unlock.    *)
UnlockMatches ==
  /\ \A t \in Threads : /\ pc[t] = "shared" => kind[t] = "read"
                        /\ pc[t] = "excl" => kind[t] = "write"
  /\ readers = Cardinality(Inside("read"))
  /\ writer <=> Inside("write") # {}

(* Why one plain flag is enough: from the moment a thread has written it   *)
(* until the thread has read it back, whatever the other threads do to it  *)
(* writes the value it has.                                                *)
FlagStable == [][\A t \in Threads : pc[t] = "held" => isRead' = isRead]_vars

RW == INSTANCE RWLock WITH rd <- Inside("read"), wr <- Inside("write")

(* RWSpinlock is a reader/writer lock: every step acquires it when RWLock  *)
(* allows it, releases it or does neither, so a writer is alone.           *)
ImplementsRWLock == RW!Spec
=============================================================================
