------------------------------- MODULE Thread -------------------------------
(***************************************************************************)
(* sylar::Thread (thread.h and thread.cc) with its Semaphore: the owner    *)
(* makes an object, joins it and destroys it; its pthread runs run().      *)
(* The owner's calls on one object follow one another, as the class has no *)
(* lock of its own; the pthread runs beside them. If it uses the object    *)
(* when that is no more, nothing is said of what follows.                  *)
(***************************************************************************)
EXTENDS Integers

CONSTANT Objects   (* the Thread objects, each with the pthread it makes *)

VARIABLES
  owner,     (* owner[t]: "away", "waiting" in the constructor, "holds" the *)
             (* object, "joining" it, "gone" once it is destroyed; "thrown" *)
             (* or "interrupted" if an exception ended the constructor      *)
             (* before there was a pthread, or while it waited for it       *)
  runner,    (* runner[t]: the place of the pthread in run: "none", "start", *)
             (* "named", "swapped", "notified", "calling", "ended", or      *)
             (* "dangling": it has used an object that is no more           *)
  thread_,   (* is the member thread_ set?                                  *)
  cb_, cb,   (* does the member, does run's local hold the callable given?  *)
  sem_,      (* the semaphore's count                                       *)
  pthread    (* pthread[t] for the system: "none", "joinable", "detached",  *)
             (* "released", or "broken": joined or detached once too often  *)

threadVars == <<owner, runner, thread_, cb_, cb, sem_, pthread>>

ThreadInit ==
  /\ owner = [t \in Objects |-> "away"]
  /\ runner = [t \in Objects |-> "none"]
  /\ thread_ = [t \in Objects |-> FALSE]
  /\ cb_ = [t \in Objects |-> FALSE]
  /\ cb = [t \in Objects |-> FALSE]
  /\ sem_ = [t \in Objects |-> 0]
  /\ pthread = [t \in Objects |-> "none"]

OwnerGoes(t, place)  == owner' = [owner EXCEPT ![t] = place]
RunnerGoes(t, place) == runner' = [runner EXCEPT ![t] = place]

(* Are the members of the object still there?                              *)
Alive(t) == owner[t] \notin {"interrupted", "gone"}

-----------------------------------------------------------------------------
(* The constructor. If no pthread can be made it throws.                   *)
Construct(t) ==
  /\ owner[t] = "away"
  /\ OwnerGoes(t, "waiting") /\ RunnerGoes(t, "start")
  /\ thread_' = [thread_ EXCEPT ![t] = TRUE]
  /\ cb_' = [cb_ EXCEPT ![t] = TRUE]
  /\ pthread' = [pthread EXCEPT ![t] = "joinable"]
  /\ UNCHANGED <<cb, sem_>>

ConstructThrows(t) ==
  /\ owner[t] = "away"
  /\ OwnerGoes(t, "thrown")
  /\ UNCHANGED <<runner, thread_, cb_, cb, sem_, pthread>>

(* sem_.wait()                                                             *)
Wait(t) ==
  /\ owner[t] = "waiting" /\ sem_[t] > 0
  /\ sem_' = [sem_ EXCEPT ![t] = @ - 1]
  /\ OwnerGoes(t, "holds")
  /\ UNCHANGED <<runner, thread_, cb_, cb, pthread>>

(* sem_wait fails, as it does when a signal interrupts it: the exception   *)
(* leaves the constructor, the members are destroyed, the destructor is    *)
(* not run, and the pthread is left to itself.                             *)
WaitThrows(t) ==
  /\ owner[t] = "waiting"
  /\ OwnerGoes(t, "interrupted")
  /\ UNCHANGED <<runner, thread_, cb_, cb, sem_, pthread>>

(* join: nothing to do if thread_ is not set.                              *)
Join(t) ==
  /\ owner[t] = "holds" /\ thread_[t]
  /\ OwnerGoes(t, "joining")
  /\ UNCHANGED <<runner, thread_, cb_, cb, sem_, pthread>>

(* pthread_join and pthread_detach, which may be called for a pthread once *)
(* altogether.                                                             *)
Reaped(t, to) == [pthread EXCEPT ![t] = IF @ = "joinable" THEN to ELSE "broken"]

(* Faulty variant: thread_ stays set.                                      *)
JoinKeeps(t) ==
  /\ owner[t] = "joining" /\ runner[t] = "ended"
  /\ pthread' = Reaped(t, "released")
  /\ OwnerGoes(t, "holds")
  /\ UNCHANGED <<runner, thread_, cb_, cb, sem_>>

JoinReturns(t) ==
  /\ owner[t] = "joining" /\ runner[t] = "ended"
  /\ pthread' = Reaped(t, "released")
  /\ thread_' = [thread_ EXCEPT ![t] = FALSE]
  /\ OwnerGoes(t, "holds")
  /\ UNCHANGED <<runner, cb_, cb, sem_>>

(* pthread_join fails and join throws: thread_ stays set.                  *)
JoinFails(t) ==
  /\ owner[t] = "joining"
  /\ OwnerGoes(t, "holds")
  /\ UNCHANGED <<runner, thread_, cb_, cb, sem_, pthread>>

(* The destructor.                                                         *)
Destruct(t) ==
  /\ owner[t] = "holds"
  /\ pthread' = IF thread_[t] THEN Reaped(t, "detached") ELSE pthread
  /\ OwnerGoes(t, "gone")
  /\ UNCHANGED <<runner, thread_, cb_, cb, sem_>>

-----------------------------------------------------------------------------
(* run, on the new pthread, which works on the object as self as long as   *)
(* there is one.                                                           *)

(* Faulty variant: the owner is told before the callable is taken.         *)
RunNamesNotifies(t) ==
  /\ runner[t] = "start" /\ Alive(t)
  /\ sem_' = [sem_ EXCEPT ![t] = @ + 1]
  /\ RunnerGoes(t, "named")
  /\ UNCHANGED <<owner, thread_, cb_, cb, pthread>>

(* name_ is read and id_ written.                                          *)
RunNames(t) ==
  /\ runner[t] = "start" /\ Alive(t)
  /\ RunnerGoes(t, "named")
  /\ UNCHANGED <<owner, thread_, cb_, cb, sem_, pthread>>

Swap(t) ==
  /\ runner[t] = "named" /\ Alive(t)
  /\ cb' = [cb EXCEPT ![t] = cb_[t]]
  /\ cb_' = [cb_ EXCEPT ![t] = cb[t]]
  /\ RunnerGoes(t, "swapped")
  /\ UNCHANGED <<owner, thread_, sem_, pthread>>

(* Faulty variant: the owner is not told.                                  *)
NotifyLost(t) ==
  /\ runner[t] = "swapped" /\ Alive(t)
  /\ RunnerGoes(t, "notified")
  /\ UNCHANGED <<owner, thread_, cb_, cb, sem_, pthread>>

Notify(t) ==
  /\ runner[t] = "swapped" /\ Alive(t)
  /\ sem_' = [sem_ EXCEPT ![t] = @ + 1]
  /\ RunnerGoes(t, "notified")
  /\ UNCHANGED <<owner, thread_, cb_, cb, pthread>>

Call(t) ==
  /\ runner[t] = "notified"
  /\ RunnerGoes(t, "calling")
  /\ UNCHANGED <<owner, thread_, cb_, cb, sem_, pthread>>

RunDangles(t) ==
  /\ runner[t] \in {"start", "named", "swapped"} /\ ~Alive(t)
  /\ RunnerGoes(t, "dangling")
  /\ UNCHANGED <<owner, thread_, cb_, cb, sem_, pthread>>

(* The callable calls SetName, which writes the name to the object that    *)
(* t_thread points to, be it there or not.                                 *)
SetName(t) ==
  /\ runner[t] = "calling"
  /\ runner' = IF Alive(t) THEN runner ELSE [runner EXCEPT ![t] = "dangling"]
  /\ UNCHANGED <<owner, thread_, cb_, cb, sem_, pthread>>

(* The callable returns and the pthread ends.                              *)
RunEnds(t) ==
  /\ runner[t] = "calling"
  /\ RunnerGoes(t, "ended")
  /\ UNCHANGED <<owner, thread_, cb_, cb, sem_, pthread>>

(* A detached pthread that has ended is released by the system.            *)
Release(t) ==
  /\ runner[t] = "ended" /\ pthread[t] = "detached"
  /\ pthread' = [pthread EXCEPT ![t] = "released"]
  /\ UNCHANGED <<owner, runner, thread_, cb_, cb, sem_>>

Run(t) ==
  \/ RunNames(t) \/ Swap(t) \/ Notify(t) \/ RunDangles(t)
  \/ Call(t) \/ RunEnds(t) \/ Release(t)

(* Nothing has used an object that was no more.                            *)
Defined == \A t \in Objects : runner[t] # "dangling"

ThreadNext ==
  /\ Defined
  /\ \E t \in Objects :
       \/ Construct(t) \/ ConstructThrows(t) \/ Wait(t) \/ WaitThrows(t)
       \/ Join(t) \/ JoinReturns(t) \/ JoinFails(t) \/ Destruct(t)
       \/ Run(t) \/ SetName(t)

ThreadSpec == ThreadInit /\ [][ThreadNext]_threadVars

(* Both threads are scheduled, and callables return. Nobody has to         *)
(* construct, join or destroy anything, nor a callable to call SetName.    *)
ThreadFairSpec ==
  /\ ThreadSpec
  /\ \A t \in Objects : /\ WF_threadVars(Defined /\ Run(t))
                        /\ WF_threadVars(Defined /\ Wait(t))
                        /\ WF_threadVars(Defined /\ JoinReturns(t))

-----------------------------------------------------------------------------
(* Properties.                                                             *)

ThreadTypeOK ==
  /\ owner \in [Objects -> {"away", "waiting", "holds", "joining", "gone", "thrown", "interrupted"}]
  /\ runner \in [Objects -> {"none", "start", "named", "swapped", "notified", "calling", "ended", "dangling"}]
  /\ thread_ \in [Objects -> BOOLEAN]
  /\ cb_ \in [Objects -> BOOLEAN] /\ cb \in [Objects -> BOOLEAN]
  /\ sem_ \in [Objects -> Nat]
  /\ pthread \in [Objects -> {"none", "joinable", "detached", "released", "broken"}]

(* The semaphore's hand-over: as long as run still works on the object the *)
(* constructor has not returned, so that the owner cannot have destroyed   *)
(* it; and what run calls is the callable the owner gave. So the object is *)
(* used when it is no more in two cases only: sem_wait has failed, or the  *)
(* callable calls SetName in a pthread that was detached, not joined.      *)
HandOver ==
  \A t \in Objects :
    /\ runner[t] \in {"start", "named", "swapped"} => owner[t] \in {"waiting", "interrupted"}
    /\ runner[t] \in {"notified", "calling"} => cb[t] /\ ~cb_[t]
    /\ runner[t] = "dangling" => \/ owner[t] = "interrupted"
                                 \/ owner[t] = "gone" /\ thread_[t]

(* "Prevent the thread from being joined or detached again", the comment   *)
(* in join: over any sequence of an owner's joins, those that fail         *)
(* included, and the destructor the pthread is joined or detached once,    *)
(* and never left joinable when the object has been destroyed. One that    *)
(* was joined is over by then.                                             *)
HandleOnce ==
  \A t \in Objects :
    /\ pthread[t] # "broken"
    /\ owner[t] = "holds" => (thread_[t] <=> pthread[t] = "joinable")
    /\ owner[t] = "gone" => pthread[t] # "joinable"
    /\ owner[t] = "gone" /\ ~thread_[t] => runner[t] = "ended"

(* The constructor returns unless sem_wait fails: run tells it, and tells  *)
(* it once, so that it is not told ahead of time either.                   *)
ConstructorReturns ==
  \A t \in Objects :
    owner[t] = "waiting" ~> \/ owner[t] = "holds" /\ sem_[t] = 0
                            \/ owner[t] = "interrupted"
                            \/ ~Defined
=============================================================================
