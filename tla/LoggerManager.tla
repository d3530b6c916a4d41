--------------------------- MODULE LoggerManager ---------------------------
(***************************************************************************)
(* sylar::LoggerManager: getLogger, which looks a name up under the read   *)
(* lock and, when it is not there, again under the write lock before it    *)
(* makes and inserts a logger; and reopen, which copies the map under the  *)
(* read lock and reopens the loggers of the copy after giving it back.     *)
(* The lock is the one module RWLock specifies and RWSpinlock implements.  *)
(*                                                                         *)
(* Loggers are numbered in the order they are made; the root logger is 1.  *)
(***************************************************************************)
EXTENDS Integers, FiniteSets

CONSTANTS
  Threads,
  Names,       (* the names getLogger is called with *)
  RootName,    (* "root", the name of root_          *)
  MaxCalls     (* bound on the calls a thread makes  *)

ASSUME ManagerAssumption ==
  /\ RootName \in Names
  /\ MaxCalls \in Nat

RootLogger == 1
Absent     == -1   (* the name is not in loggers_                           *)
Null       == 0    (* the entry that operator[] made and nobody has set yet *)

VARIABLES
  rd, wr,     (* mutex_: the threads holding it for reading, for writing  *)
  loggers,    (* loggers_                                                 *)
  made,       (* how many loggers have been made                          *)
  rooted,     (* the loggers whose root_ is set                           *)
  pc,         (* pc[t]: the statement thread t is at                      *)
  name,       (* name[t]: the argument of its getLogger                   *)
  logger,     (* logger[t]: the logger it found or made                   *)
  copy,       (* copy[t]: reopen's copy of loggers_, still to be reopened *)
  calls,      (* calls[t]: how many calls the thread has made             *)
  given,      (* history: the <<name, logger>> returned by getLogger      *)
  owed,       (* history: owed[t], loggers given before t's reopen began  *)
  reopened    (* history: reopened[t], those its reopen has reopened      *)

lockVars == <<rd, wr>>
mapVars  == <<loggers, made, rooted>>
history  == <<owed, reopened>>
vars     == <<lockVars, mapVars, pc, name, logger, copy, calls, given, history>>

Lock == INSTANCE RWLock

Init ==
  /\ Lock!Init
  /\ loggers = [n \in Names |-> IF n = RootName THEN RootLogger ELSE Absent]
  /\ made = RootLogger
  /\ rooted = {}
  /\ pc = [t \in Threads |-> "idle"]
  /\ name = [t \in Threads |-> RootName]
  /\ logger = [t \in Threads |-> RootLogger]
  /\ copy = [t \in Threads |-> {}]
  /\ calls = [t \in Threads |-> 0]
  /\ given = {}
  /\ owed = [t \in Threads |-> {}]
  /\ reopened = [t \in Threads |-> {}]

Goes(t, place) == pc' = [pc EXCEPT ![t] = place]

Begins(t, place) ==
  /\ pc[t] = "idle" /\ calls[t] < MaxCalls
  /\ calls' = [calls EXCEPT ![t] = calls[t] + 1]
  /\ Goes(t, place)

-----------------------------------------------------------------------------
(* getLogger(name)                                                         *)

getLogger(t) ==
  /\ Begins(t, "read lock")
  /\ \E n \in Names : name' = [name EXCEPT ![t] = n]
  /\ UNCHANGED <<lockVars, mapVars, logger, copy, given, history>>

ReadLock(t) ==
  /\ pc[t] = "read lock"
  /\ Lock!AcquireRead(t)
  /\ Goes(t, "find")
  /\ UNCHANGED <<mapVars, name, logger, copy, calls, given, history>>

Find(t) ==
  /\ pc[t] = "find"
  /\ IF loggers[name[t]] # Absent
       THEN logger' = [logger EXCEPT ![t] = loggers[name[t]]] /\ Goes(t, "return")
       ELSE logger' = logger /\ Goes(t, "read unlock")
  /\ UNCHANGED <<lockVars, mapVars, name, copy, calls, given, history>>

(* Faulty variant: the read lock is still held when the write lock is taken. *)
ReadUnlockLate(t) ==
  /\ pc[t] = "read unlock"
  /\ Goes(t, "write lock")
  /\ UNCHANGED <<lockVars, mapVars, name, logger, copy, calls, given, history>>

ReadUnlock(t) ==
  /\ pc[t] = "read unlock"
  /\ Lock!Release(t)
  /\ Goes(t, "write lock")
  /\ UNCHANGED <<mapVars, name, logger, copy, calls, given, history>>

(* Faulty variant: a read lock is taken for the insertion. *)
WriteLockShared(t) ==
  /\ pc[t] = "write lock"
  /\ Lock!AcquireRead(t)
  /\ Goes(t, "find again")
  /\ UNCHANGED <<mapVars, name, logger, copy, calls, given, history>>

WriteLock(t) ==
  /\ pc[t] = "write lock"
  /\ Lock!AcquireWrite(t)
  /\ Goes(t, "find again")
  /\ UNCHANGED <<mapVars, name, logger, copy, calls, given, history>>

(* Faulty variant: the second look is left out. *)
FindAgainSkipped(t) ==
  /\ pc[t] = "find again"
  /\ Goes(t, "make")
  /\ UNCHANGED <<lockVars, mapVars, name, logger, copy, calls, given, history>>

FindAgain(t) ==
  /\ pc[t] = "find again"
  /\ IF loggers[name[t]] # Absent
       THEN logger' = [logger EXCEPT ![t] = loggers[name[t]]] /\ Goes(t, "return")
       ELSE logger' = logger /\ Goes(t, "make")
  /\ UNCHANGED <<lockVars, mapVars, name, copy, calls, given, history>>

MakeLogger(t) ==
  /\ pc[t] = "make"
  /\ made' = made + 1
  /\ logger' = [logger EXCEPT ![t] = made + 1]
  /\ Goes(t, "set root")
  /\ UNCHANGED <<lockVars, loggers, rooted, name, copy, calls, given, history>>

SetRoot(t) ==
  /\ pc[t] = "set root"
  /\ rooted' = rooted \cup {logger[t]}
  /\ Goes(t, "insert")
  /\ UNCHANGED <<lockVars, loggers, made, name, logger, copy, calls, given, history>>

(* loggers_[name] = logger: operator[] makes the entry, then it is set.    *)
Insert(t) ==
  /\ pc[t] = "insert"
  /\ loggers' = [loggers EXCEPT ![name[t]] = Null]
  /\ Goes(t, "assign")
  /\ UNCHANGED <<lockVars, made, rooted, name, logger, copy, calls, given, history>>

Assign(t) ==
  /\ pc[t] = "assign"
  /\ loggers' = [loggers EXCEPT ![name[t]] = logger[t]]
  /\ Goes(t, "return")
  /\ UNCHANGED <<lockVars, made, rooted, name, logger, copy, calls, given, history>>

(* The pointer is copied, then the scoped lock in force is destroyed.      *)
Return(t) ==
  /\ pc[t] = "return"
  /\ Lock!Release(t)
  /\ given' = given \cup {<<name[t], logger[t]>>}
  /\ Goes(t, "idle")
  /\ UNCHANGED <<mapVars, name, logger, copy, calls, history>>

-----------------------------------------------------------------------------
(* reopen()                                                                *)

reopen(t) ==
  /\ Begins(t, "reopen lock")
  /\ owed' = [owed EXCEPT ![t] = {g[2] : g \in given}]
  /\ reopened' = [reopened EXCEPT ![t] = {}]
  /\ UNCHANGED <<lockVars, mapVars, name, logger, copy, given>>

ReopenLock(t) ==
  /\ pc[t] = "reopen lock"
  /\ Lock!AcquireRead(t)
  /\ Goes(t, "copy")
  /\ UNCHANGED <<mapVars, name, logger, copy, calls, given, history>>

(* Faulty variant: only root_ is taken along. *)
CopyNone(t) ==
  /\ pc[t] = "copy"
  /\ Goes(t, "copied")
  /\ UNCHANGED <<lockVars, mapVars, name, logger, copy, calls, given, history>>

CopyLoggers(t) ==
  /\ pc[t] = "copy"
  /\ copy' = [copy EXCEPT ![t] = {loggers[n] : n \in Names} \ {Absent}]
  /\ Goes(t, "copied")
  /\ UNCHANGED <<lockVars, mapVars, name, logger, calls, given, history>>

ReopenUnlock(t) ==
  /\ pc[t] = "copied"
  /\ Lock!Release(t)
  /\ Goes(t, "reopen root")
  /\ UNCHANGED <<mapVars, name, logger, copy, calls, given, history>>

ReopenRoot(t) ==
  /\ pc[t] = "reopen root"
  /\ reopened' = [reopened EXCEPT ![t] = @ \cup {RootLogger}]
  /\ Goes(t, "reopen")
  /\ UNCHANGED <<lockVars, mapVars, name, logger, copy, calls, given, owed>>

ReopenOne(t) ==
  /\ pc[t] = "reopen"
  /\ \E l \in copy[t] : /\ copy' = [copy EXCEPT ![t] = @ \ {l}]
                        /\ reopened' = [reopened EXCEPT ![t] = @ \cup {l}]
  /\ UNCHANGED <<lockVars, mapVars, pc, name, logger, calls, given, owed>>

ReopenReturns(t) ==
  /\ pc[t] = "reopen" /\ copy[t] = {}
  /\ Goes(t, "idle")
  /\ UNCHANGED <<lockVars, mapVars, name, logger, copy, calls, given, history>>

-----------------------------------------------------------------------------

(* What a thread does once it has called. *)
Continues(t) ==
  \/ ReadLock(t) \/ Find(t) \/ ReadUnlock(t) \/ WriteLock(t) \/ FindAgain(t)
  \/ MakeLogger(t) \/ SetRoot(t) \/ Insert(t) \/ Assign(t) \/ Return(t)
  \/ ReopenLock(t) \/ CopyLoggers(t) \/ ReopenUnlock(t)
  \/ ReopenRoot(t) \/ ReopenOne(t) \/ ReopenReturns(t)

Next == \E t \in Threads : getLogger(t) \/ reopen(t) \/ Continues(t)

Spec == Init /\ [][Next]_vars

(* A running thread goes on; one that waits for the lock gets it if it     *)
(* stays free. Nobody has to call.                                         *)
FairSpec == Spec /\ \A t \in Threads : WF_vars(Continues(t))

-----------------------------------------------------------------------------
(* Properties.                                                             *)

Places ==
  {"idle", "read lock", "find", "read unlock", "write lock", "find again", "make",
   "set root", "insert", "assign", "return",
   "reopen lock", "copy", "copied", "reopen root", "reopen"}

(* The state keeps its types: no thread ever holds a logger that was not   *)
(* made, taken from a missing or an unset entry.                           *)
TypeOK ==
  /\ rd \subseteq Threads /\ wr \subseteq Threads
  /\ made \in Nat \ {0}
  /\ loggers \in [Names -> {Absent, Null} \cup 1..made]
  /\ rooted \subseteq 1..made
  /\ pc \in [Threads -> Places]
  /\ name \in [Threads -> Names]
  /\ logger \in [Threads -> 1..made]
  /\ copy \in [Threads -> SUBSET (1..made)]
  /\ calls \in [Threads -> 0..MaxCalls]
  /\ given \subseteq Names \X (1..made)
  /\ owed \in [Threads -> SUBSET (1..made)]
  /\ reopened \in [Threads -> SUBSET (1..made)]

(* Whichever threads ask for a name, at once or one after the other, they  *)
(* get the logger that is registered under it, and no other name has it.   *)
OneLoggerPerName ==
  /\ \A g \in given : loggers[g[1]] = g[2]
  /\ \A m, n \in Names : (loggers[m] = loggers[n] /\ loggers[m] \in Nat \ {0}) => m = n

(* No thread looks into loggers_ while another one is changing it.         *)
NoMapRace ==
  \A t, u \in Threads :
    (pc[t] \in {"insert", "assign"} /\ t # u) =>
      pc[u] \notin {"find", "find again", "insert", "assign", "copy"}

(* A logger that other threads can find has its root_: what it has no      *)
(* appender for goes to the root logger and is not lost.                   *)
PublishedRooted ==
  \A n \in Names : loggers[n] \in Nat \ {0, RootLogger} => loggers[n] \in rooted

(* reopen works on a copy that may be stale by then, yet when it returns   *)
(* every logger that anybody had before it was called is reopened.         *)
ReopenReaches == \A t \in Threads : (pc[t] = "reopen" /\ copy[t] = {}) => owed[t] \subseteq reopened[t]

(* Every call returns, as long as a thread makes finitely many: no path    *)
(* through getLogger or reopen keeps the lock.                             *)
CallsReturn == \A t \in Threads : (pc[t] # "idle") ~> (pc[t] = "idle")

Registry ==
  INSTANCE LoggerRegistry
    WITH registry <- [n \in Names |-> IF loggers[n] = Null THEN Absent ELSE loggers[n]]

(* LoggerManager implements the registry its callers rely on.              *)
ImplementsRegistry == Registry!Spec
=============================================================================
