--------------------------- MODULE ThreadingProofs ---------------------------
(***************************************************************************)
(* Theorems about sylar's threads and their lock: RWSpinlock is a          *)
(* reader/writer lock, whatever the number of threads, and Thread hands    *)
(* over its callable and its pthread, for any number of objects, each of   *)
(* which may be joined any number of times.                                *)
(***************************************************************************)
EXTENDS RWSpinlock, Thread, FiniteSetTheorems, TLAPS

-----------------------------------------------------------------------------
(* RWSpinlock.                                                             *)

(* What a thread wrote to isRead_ is still there when it reads it back.    *)
FlagRight == \A t \in Threads : pc[t] = "held" => (isRead <=> kind[t] = "read")

(* A writer is alone. *)
WriterAlone ==
  Inside("write") = {} \/ (Inside("read") = {} /\ \E t \in Threads : Inside("write") = {t})

LockInv == TypeOK /\ UnlockMatches /\ FlagRight /\ WriterAlone

LEMMA InsideFinite == IsFiniteSet(Inside("read"))
  BY ThreadsAssumption, FS_Subset DEF Inside

(* No reader is counted if and only if none is inside. *)
LEMMA NoReaders ==
  ASSUME LockInv
  PROVE  readers = 0 <=> Inside("read") = {}
  BY InsideFinite, FS_EmptySet DEF LockInv, UnlockMatches

LEMMA InitLockInv == Init => LockInv
  <1> SUFFICES ASSUME Init PROVE LockInv
    OBVIOUS
  <1>1. Inside("read") = {} /\ Inside("write") = {}
    BY DEF Init, Inside
  <1>2. TypeOK
    BY DEF Init, TypeOK, Places
  <1>3. UnlockMatches
    BY <1>1, FS_EmptySet DEF Init, UnlockMatches
  <1> QED BY <1>1, <1>2, <1>3 DEF Init, LockInv, FlagRight, WriterAlone

(* How the threads inside change, for each step. *)
LEMMA InsideAfter ==
  ASSUME LockInv, NEW t \in Threads
  PROVE  /\ rdlock(t) => /\ t \notin Inside("read")
                         /\ Inside("read")' = Inside("read") \cup {t}
                         /\ Inside("write")' = Inside("write")
         /\ wrlock(t) => /\ t \notin Inside("write")
                         /\ Inside("write")' = Inside("write") \cup {t}
                         /\ Inside("read")' = Inside("read")
         /\ SetIsRead(t) \/ TestIsRead(t) \/ Destroy(t) =>
              Inside("write")' = Inside("write") /\ Inside("read")' = Inside("read")
         /\ Unlock(t) => /\ Inside("write")' = Inside("write") \ {t}
                         /\ Inside("read")' = Inside("read") \ {t}
  <1>0. kind \in [Threads -> {"read", "write"}] /\ pc \in [Threads -> Places]
    BY DEF LockInv, TypeOK
  <1>1. ASSUME rdlock(t)
        PROVE  /\ t \notin Inside("read")
               /\ Inside("read")' = Inside("read") \cup {t}
               /\ Inside("write")' = Inside("write")
    BY <1>0, <1>1 DEF rdlock, MayLock, Goes, Inside
  <1>2. ASSUME wrlock(t)
        PROVE  /\ t \notin Inside("write")
               /\ Inside("write")' = Inside("write") \cup {t}
               /\ Inside("read")' = Inside("read")
    BY <1>0, <1>2 DEF wrlock, MayLock, Goes, Inside
  <1>3. ASSUME SetIsRead(t)
        PROVE  Inside("write")' = Inside("write") /\ Inside("read")' = Inside("read")
    BY <1>0, <1>3 DEF SetIsRead, Goes, Inside
  <1>4. ASSUME TestIsRead(t)
        PROVE  Inside("write")' = Inside("write") /\ Inside("read")' = Inside("read")
    BY <1>0, <1>4 DEF TestIsRead, Goes, Inside
  <1>5. ASSUME Destroy(t)
        PROVE  Inside("write")' = Inside("write") /\ Inside("read")' = Inside("read")
    BY <1>0, <1>5 DEF Destroy, Goes, Inside
  <1>6. ASSUME Unlock(t)
        PROVE  /\ Inside("write")' = Inside("write") \ {t}
               /\ Inside("read")' = Inside("read") \ {t}
    BY <1>0, <1>6 DEF Unlock, Goes, Inside
  <1> QED BY <1>1, <1>2, <1>3, <1>4, <1>5, <1>6

LEMMA StepLockInv ==
  ASSUME LockInv, NEW t \in Threads, Step(t)
  PROVE  LockInv'
  <1>0. /\ TypeOK /\ UnlockMatches /\ FlagRight /\ WriterAlone
        /\ kind \in [Threads -> {"read", "write"}] /\ pc \in [Threads -> Places]
        /\ readers \in Nat /\ writer \in BOOLEAN /\ isRead \in BOOLEAN
        /\ readers = Cardinality(Inside("read"))
        /\ writer <=> Inside("write") # {}
    BY DEF LockInv, TypeOK, UnlockMatches
  <1>1. CASE rdlock(t)
    <2>1. ~writer /\ readers' = readers + 1 /\ writer' = writer /\ isRead' = isRead
      BY <1>1 DEF rdlock, lock_shared
    <2>2. /\ t \notin Inside("read") /\ Inside("read")' = Inside("read") \cup {t}
          /\ Inside("write")' = Inside("write")
      BY <1>1, InsideAfter
    <2>3. TypeOK'
      BY <1>0, <1>1, <2>1 DEF rdlock, Goes, TypeOK, Places
    <2>4. UnlockMatches'
      <3>1. readers' = Cardinality(Inside("read")')
        BY <1>0, <2>1, <2>2, InsideFinite, FS_AddElement
      <3> QED BY <1>0, <1>1, <2>1, <2>2, <3>1 DEF rdlock, Goes, UnlockMatches
    <2>5. FlagRight'
      BY <1>0, <1>1, <2>1 DEF rdlock, Goes, FlagRight
    <2>6. WriterAlone'
      BY <1>0, <2>1, <2>2 DEF WriterAlone
    <2> QED BY <2>3, <2>4, <2>5, <2>6 DEF LockInv
  <1>2. CASE wrlock(t)
    <2>1. ~writer /\ readers = 0 /\ readers' = readers /\ writer' = TRUE /\ isRead' = isRead
      BY <1>2 DEF wrlock, lock
    <2>2. /\ Inside("write")' = {t} /\ Inside("read")' = Inside("read") /\ Inside("read") = {}
      BY <1>0, <1>2, <2>1, InsideAfter, NoReaders
    <2>3. TypeOK'
      BY <1>0, <1>2, <2>1 DEF wrlock, Goes, TypeOK, Places
    <2>4. UnlockMatches'
      BY <1>0, <1>2, <2>1, <2>2 DEF wrlock, Goes, UnlockMatches
    <2>5. FlagRight'
      BY <1>0, <1>2, <2>1 DEF wrlock, Goes, FlagRight
    <2>6. WriterAlone'
      BY <2>2 DEF WriterAlone
    <2> QED BY <2>3, <2>4, <2>5, <2>6 DEF LockInv
  <1>3. CASE SetIsRead(t)
    <2>1. /\ pc[t] = "got" /\ isRead' = (kind[t] = "read") /\ Goes(t, "held")
          /\ UNCHANGED <<readers, writer, kind>>
      BY <1>3 DEF SetIsRead
    <2>2. Inside("write")' = Inside("write") /\ Inside("read")' = Inside("read")
      BY <1>3, InsideAfter
    <2>3. TypeOK'
      BY <1>0, <2>1 DEF Goes, TypeOK, Places
    <2>4. UnlockMatches'
      BY <1>0, <2>1, <2>2 DEF Goes, UnlockMatches
    <2>5. FlagRight'
      <3> SUFFICES ASSUME NEW u \in Threads, pc'[u] = "held", u # t
                   PROVE  isRead' <=> kind'[u] = "read"
        BY <1>0, <2>1 DEF Goes, FlagRight
      <3>1. pc[u] = "held"
        BY <1>0, <2>1 DEF Goes
      <3>2. u \in Inside(kind[u]) /\ t \in Inside(kind[t])
        BY <2>1, <3>1 DEF Inside
      <3>3. kind[u] = kind[t]
        BY <1>0, <3>2 DEF WriterAlone
      <3> QED BY <2>1, <3>3
    <2>6. WriterAlone'
      BY <1>0, <2>2 DEF WriterAlone
    <2> QED BY <2>3, <2>4, <2>5, <2>6 DEF LockInv
  <1>4. CASE TestIsRead(t)
    <2>1. /\ pc[t] = "held" /\ Goes(t, IF isRead THEN "shared" ELSE "excl")
          /\ UNCHANGED <<readers, writer, isRead, kind>>
      BY <1>4 DEF TestIsRead
    <2>2. Inside("write")' = Inside("write") /\ Inside("read")' = Inside("read")
      BY <1>4, InsideAfter
    <2>3. TypeOK'
      BY <1>0, <2>1 DEF Goes, TypeOK, Places
    <2>4. UnlockMatches'
      <3>1. isRead <=> kind[t] = "read"
        BY <1>0, <2>1 DEF FlagRight
      <3> QED BY <1>0, <2>1, <2>2, <3>1 DEF Goes, UnlockMatches
    <2>5. FlagRight'
      BY <1>0, <2>1 DEF Goes, FlagRight
    <2>6. WriterAlone'
      BY <1>0, <2>2 DEF WriterAlone
    <2> QED BY <2>3, <2>4, <2>5, <2>6 DEF LockInv
  <1>5. CASE Unlock(t)
    <2>1. Goes(t, "open") /\ UNCHANGED <<isRead, kind>>
      BY <1>5 DEF Unlock
    <2>2. Inside("write")' = Inside("write") \ {t} /\ Inside("read")' = Inside("read") \ {t}
      BY <1>5, InsideAfter
    <2>3. FlagRight'
      BY <1>0, <2>1 DEF Goes, FlagRight
    <2>4. WriterAlone'
      BY <1>0, <2>2 DEF WriterAlone
    <2>5. kind' \in [Threads -> {"read", "write"}] /\ pc' \in [Threads -> Places]
      BY <1>0, <2>1 DEF Goes, Places
    <2>6. \A u \in Threads : /\ pc'[u] = "shared" => kind'[u] = "read"
                             /\ pc'[u] = "excl" => kind'[u] = "write"
      BY <1>0, <2>1 DEF Goes, UnlockMatches
    <2>7. CASE pc[t] = "shared" /\ unlock_shared
      <3>1. kind[t] = "read" /\ t \in Inside("read")
        BY <1>0, <2>7 DEF UnlockMatches, Inside
      <3>2. Inside("write") = {} /\ Inside("write")' = {}
        BY <1>0, <2>2, <3>1 DEF WriterAlone
      <3>3. /\ Cardinality(Inside("read") \ {t}) = Cardinality(Inside("read")) - 1
            /\ Cardinality(Inside("read") \ {t}) \in Nat
        BY <3>1, InsideFinite, FS_RemoveElement, FS_CardinalityType
      <3>4. readers' = Cardinality(Inside("read")') /\ readers' \in Nat /\ writer' = writer
        BY <1>0, <2>2, <2>7, <3>3 DEF unlock_shared
      <3> QED BY <1>0, <2>1, <2>3, <2>4, <2>5, <2>6, <3>2, <3>4
              DEF LockInv, TypeOK, UnlockMatches
    <2>8. CASE pc[t] = "excl" /\ unlock
      <3>1. kind[t] = "write" /\ t \in Inside("write")
        BY <1>0, <2>8 DEF UnlockMatches, Inside
      <3>2. Inside("write")' = {} /\ Inside("read")' = Inside("read")
        BY <1>0, <2>2, <3>1 DEF WriterAlone
      <3> QED BY <1>0, <2>1, <2>3, <2>4, <2>5, <2>6, <2>8, <3>2
              DEF LockInv, TypeOK, UnlockMatches, unlock
    <2> QED BY <1>5, <2>7, <2>8 DEF Unlock
  <1>6. CASE Destroy(t)
    <2>1. Goes(t, "none") /\ UNCHANGED <<readers, writer, isRead, kind>>
      BY <1>6 DEF Destroy
    <2>2. Inside("write")' = Inside("write") /\ Inside("read")' = Inside("read")
      BY <1>6, InsideAfter
    <2>3. TypeOK'
      BY <1>0, <2>1 DEF Goes, TypeOK, Places
    <2>4. UnlockMatches' /\ FlagRight'
      BY <1>0, <2>1, <2>2 DEF Goes, UnlockMatches, FlagRight
    <2>5. WriterAlone'
      BY <1>0, <2>2 DEF WriterAlone
    <2> QED BY <2>3, <2>4, <2>5 DEF LockInv
  <1> QED BY <1>1, <1>2, <1>3, <1>4, <1>5, <1>6 DEF Step

LEMMA StutterLockInv ==
  ASSUME LockInv, UNCHANGED vars
  PROVE  LockInv'
  BY DEF LockInv, TypeOK, UnlockMatches, FlagRight, WriterAlone, Inside, vars

LEMMA LockInvariant == Spec => []LockInv
  <1>1. LockInv /\ [Next]_vars => LockInv'
    BY StepLockInv, StutterLockInv DEF Next
  <1> QED BY InitLockInv, <1>1, PTL DEF Spec

(* The state keeps its types: the count of readers never goes below zero.  *)
THEOREM LockTypeCorrect == Spec => []TypeOK
  <1>1. LockInv => TypeOK
    BY DEF LockInv
  <1> QED BY <1>1, LockInvariant, PTL

(* unlock() always makes the call that matches the way its thread locked.  *)
THEOREM UnlockAlwaysMatches == Spec => []UnlockMatches
  <1>1. LockInv => UnlockMatches
    BY DEF LockInv
  <1> QED BY <1>1, LockInvariant, PTL

(* The flag a thread wrote does not change before the thread reads it.     *)
THEOREM FlagIsStable == Spec => FlagStable
  <1>1. LockInv /\ LockInv' /\ [Next]_vars =>
          [\A t \in Threads : pc[t] = "held" => isRead' = isRead]_vars
    <2> SUFFICES ASSUME LockInv, NEW t \in Threads, pc[t] = "held",
                        NEW u \in Threads, Step(u)
                 PROVE  isRead' = isRead
      BY DEF Next
    <2>1. CASE SetIsRead(u)
      <3>1. t \in Inside(kind[t]) /\ u \in Inside(kind[u])
        BY <2>1 DEF Inside, SetIsRead
      <3>2. kind[t] = kind[u]
        BY <3>1 DEF LockInv, WriterAlone, TypeOK
      <3>3. isRead \in BOOLEAN /\ (isRead <=> kind[t] = "read")
        BY DEF LockInv, FlagRight, TypeOK
      <3> QED BY <2>1, <3>2, <3>3 DEF SetIsRead
    <2>2. CASE ~SetIsRead(u)
      BY <2>2 DEF Step, rdlock, wrlock, TestIsRead, Unlock, Destroy
    <2> QED BY <2>1, <2>2
  <1> QED BY <1>1, LockInvariant, PTL DEF Spec, FlagStable

(* RWSpinlock implements RWLock: rdlock and wrlock acquire when RWLock     *)
(* allows it, unlock releases, and nothing else touches the holders.       *)
THEOREM RWLockImplemented == Spec => ImplementsRWLock
  <1>1. Init => RW!Init
    BY DEF Init, RW!Init, Inside
  <1>2. LockInv /\ [Next]_vars => [RW!Next]_<<Inside("read"), Inside("write")>>
    <2> SUFFICES ASSUME LockInv, [Next]_vars
                 PROVE  RW!Next \/ UNCHANGED <<Inside("read"), Inside("write")>>
      OBVIOUS
    <2>1. ASSUME NEW t \in Threads, rdlock(t)
          PROVE  RW!AcquireRead(t)
      <3>1. Inside("write") = {}
        BY <2>1 DEF LockInv, UnlockMatches, rdlock, lock_shared
      <3> QED BY <2>1, <3>1, InsideAfter DEF RW!AcquireRead
    <2>2. ASSUME NEW t \in Threads, wrlock(t)
          PROVE  RW!AcquireWrite(t)
      <3>1. Inside("write") = {} /\ Inside("read") = {}
        BY <2>2, NoReaders DEF LockInv, UnlockMatches, wrlock, lock
      <3> QED BY <2>2, <3>1, InsideAfter DEF RW!AcquireWrite
    <2>3. ASSUME NEW t \in Threads, Unlock(t)
          PROVE  RW!Release(t)
      <3>1. t \in Inside("read") \cup Inside("write")
        BY <2>3 DEF LockInv, TypeOK, Unlock, Inside
      <3> QED BY <2>3, <3>1, InsideAfter DEF RW!Release
    <2>4. ASSUME NEW t \in Threads, SetIsRead(t) \/ TestIsRead(t) \/ Destroy(t)
          PROVE  UNCHANGED <<Inside("read"), Inside("write")>>
      BY <2>4, InsideAfter
    <2>5. CASE UNCHANGED vars
      BY <2>5 DEF vars, Inside
    <2> QED BY <2>1, <2>2, <2>3, <2>4, <2>5 DEF Next, Step, RW!Next
  <1> QED BY <1>1, <1>2, LockInvariant, PTL DEF Spec, ImplementsRWLock, RW!Spec

(* A thread that writes under the lock is alone.                           *)
COROLLARY MutualExclusion == Spec => []WriterAlone
  <1>1. LockInv => WriterAlone
    BY DEF LockInv
  <1> QED BY <1>1, LockInvariant, PTL

-----------------------------------------------------------------------------
(* Thread.                                                                 *)

(* The owner's place and the pthread's, before the constructor has         *)
(* returned: the count of the semaphore tells whether run has notified.    *)
Before(t) ==
  /\ owner[t] \in {"away", "thrown"} =>
       runner[t] = "none" /\ pthread[t] = "none" /\ sem_[t] = 0
  /\ owner[t] = "waiting" =>
       /\ thread_[t] /\ pthread[t] = "joinable"
       /\ \/ sem_[t] = 0 /\ runner[t] \in {"start", "named", "swapped"}
          \/ sem_[t] = 1 /\ runner[t] \in {"notified", "calling", "ended"}
  /\ owner[t] = "interrupted" => runner[t] # "none" /\ pthread[t] = "joinable"

(* From then on the semaphore is at rest, and a pthread that was joined is *)
(* over.                                                                   *)
After(t) ==
  /\ owner[t] \in {"holds", "joining", "gone"} =>
       /\ sem_[t] = 0
       /\ \/ runner[t] \in {"notified", "calling", "ended"}
          \/ runner[t] = "dangling" /\ owner[t] = "gone" /\ thread_[t]
  /\ owner[t] = "holds" =>
       \/ thread_[t] /\ pthread[t] = "joinable"
       \/ ~thread_[t] /\ pthread[t] = "released" /\ runner[t] = "ended"
  /\ owner[t] = "joining" => thread_[t] /\ pthread[t] = "joinable"
  /\ owner[t] = "gone" =>
       \/ thread_[t] /\ pthread[t] \in {"detached", "released"}
       \/ ~thread_[t] /\ pthread[t] = "released" /\ runner[t] = "ended"

(* Where the callable is while run works.                                  *)
Callable(t) ==
  /\ runner[t] = "none" => ~cb[t]
  /\ runner[t] \in {"start", "named"} => cb_[t] /\ ~cb[t]
  /\ runner[t] \in {"swapped", "notified", "calling"} => cb[t] /\ ~cb_[t]

ThreadInv == ThreadTypeOK /\ \A t \in Objects : Before(t) /\ After(t) /\ Callable(t)

LEMMA InitThreadInv == ThreadInit => ThreadInv
  BY DEF ThreadInit, ThreadInv, ThreadTypeOK, Before, After, Callable

LEMMA NextThreadInv == ThreadInv /\ [ThreadNext]_threadVars => ThreadInv'
  <1> SUFFICES ASSUME ThreadInv, [ThreadNext]_threadVars
               PROVE  ThreadInv'
    OBVIOUS
  <1> USE DEF ThreadInv, ThreadTypeOK, Before, After, Callable, OwnerGoes, RunnerGoes, Alive
  <1>1. CASE UNCHANGED threadVars
    BY <1>1 DEF threadVars
  <1>2. ASSUME NEW t \in Objects, Construct(t)
        PROVE  ThreadInv'
    BY <1>2 DEF Construct
  <1>3. ASSUME NEW t \in Objects, ConstructThrows(t)
        PROVE  ThreadInv'
    BY <1>3 DEF ConstructThrows
  <1>4. ASSUME NEW t \in Objects, Wait(t)
        PROVE  ThreadInv'
    BY <1>4 DEF Wait
  <1>5. ASSUME NEW t \in Objects, Join(t)
        PROVE  ThreadInv'
    BY <1>5 DEF Join
  <1>6. ASSUME NEW t \in Objects, JoinReturns(t)
        PROVE  ThreadInv'
    BY <1>6 DEF JoinReturns, Reaped
  <1>7. ASSUME NEW t \in Objects, Destruct(t)
        PROVE  ThreadInv'
    BY <1>7 DEF Destruct, Reaped
  <1>8. ASSUME NEW t \in Objects, RunNames(t)
        PROVE  ThreadInv'
    BY <1>8 DEF RunNames
  <1>9. ASSUME NEW t \in Objects, Swap(t)
        PROVE  ThreadInv'
    BY <1>9 DEF Swap
  <1>10. ASSUME NEW t \in Objects, Notify(t)
        PROVE  ThreadInv'
    BY <1>10 DEF Notify
  <1>11. ASSUME NEW t \in Objects, Call(t)
        PROVE  ThreadInv'
    BY <1>11 DEF Call
  <1>12. ASSUME NEW t \in Objects, RunEnds(t)
        PROVE  ThreadInv'
    BY <1>12 DEF RunEnds
  <1>13. ASSUME NEW t \in Objects, Release(t)
        PROVE  ThreadInv'
    BY <1>13 DEF Release
  <1>14. ASSUME NEW t \in Objects, WaitThrows(t)
         PROVE  ThreadInv'
    BY <1>14 DEF WaitThrows
  <1>15. ASSUME NEW t \in Objects, JoinFails(t)
         PROVE  ThreadInv'
    BY <1>15 DEF JoinFails
  <1>16. ASSUME NEW t \in Objects, RunDangles(t)
         PROVE  ThreadInv'
    BY <1>16 DEF RunDangles
  <1>17. ASSUME NEW t \in Objects, SetName(t)
         PROVE  ThreadInv'
    <2>1. CASE Alive(t)
      BY <1>17, <2>1 DEF SetName
    <2>2. CASE ~Alive(t)
      BY <1>17, <2>2 DEF SetName
    <2> QED BY <2>1, <2>2
  <1> QED BY <1>1, <1>2, <1>3, <1>4, <1>5, <1>6, <1>7, <1>8, <1>9, <1>10, <1>11, <1>12, <1>13,
             <1>14, <1>15, <1>16, <1>17
          DEF ThreadNext, Run

LEMMA ThreadInvariant == ThreadSpec => []ThreadInv
  BY InitThreadInv, NextThreadInv, PTL DEF ThreadSpec

(* The semaphore never counts below zero, and the members keep their types. *)
THEOREM ThreadTypeCorrect == ThreadSpec => []ThreadTypeOK
  <1>1. ThreadInv => ThreadTypeOK
    BY DEF ThreadInv
  <1> QED BY <1>1, ThreadInvariant, PTL

(* While run works on the object its constructor has not returned, and run *)
(* calls what the owner gave. What can still make the pthread use an       *)
(* object that is no more is a sem_wait that fails, or SetName after the   *)
(* pthread was detached.                                                   *)
THEOREM HandsOver == ThreadSpec => []HandOver
  <1>1. ThreadInv => HandOver
    BY DEF ThreadInv, ThreadTypeOK, Before, After, Callable, HandOver
  <1> QED BY <1>1, ThreadInvariant, PTL

(* A pthread is joined or detached once, whatever its owner does and       *)
(* however often pthread_join fails.                                       *)
THEOREM HandlesOnce == ThreadSpec => []HandleOnce
  <1>1. ThreadInv => HandleOnce
    <2> SUFFICES ASSUME NEW t \in Objects, ThreadInv
                 PROVE  /\ pthread[t] # "broken"
                        /\ owner[t] = "holds" => (thread_[t] <=> pthread[t] = "joinable")
                        /\ owner[t] = "gone" => pthread[t] # "joinable"
                        /\ owner[t] = "gone" /\ ~thread_[t] => runner[t] = "ended"
      BY DEF HandleOnce
    <2>1. After(t) /\ Before(t) /\ ThreadTypeOK
      BY DEF ThreadInv
    <2>2. owner[t] = "gone" => pthread[t] # "joinable" /\ (~thread_[t] => runner[t] = "ended")
      BY <2>1 DEF After
    <2>3. owner[t] = "holds" => (thread_[t] <=> pthread[t] = "joinable")
      BY <2>1 DEF After
    <2>4. pthread[t] # "broken"
      BY <2>1 DEF After, Before, ThreadTypeOK
    <2> QED BY <2>2, <2>3, <2>4
  <1> QED BY <1>1, ThreadInvariant, PTL
=============================================================================
