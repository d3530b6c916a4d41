------------------------ MODULE LoggerManagerProofs ------------------------
(***************************************************************************)
(* Theorems about LoggerManager, for any threads, names and number of      *)
(* calls.                                                                  *)
(***************************************************************************)
EXTENDS LoggerManager, TLAPS

Reading == {"find", "read unlock", "copy", "copied"}
Writing == {"find again", "make", "set root", "insert", "assign"}

(* Where a thread is tells how it holds the lock, and a writer is alone.   *)
LockHeld ==
  /\ \A t \in Threads : /\ pc[t] \in Reading => t \in rd
                        /\ pc[t] \in Writing => t \in wr
                        /\ pc[t] = "return" => t \in rd \cup wr
  /\ wr = {} \/ (rd = {} /\ \E t \in Threads : wr = {t})

(* What a thread between its second look and its return knows of the map.  *)
InsertingAt(t) ==
  /\ pc[t] \in {"make", "set root", "insert"} => loggers[name[t]] = Absent
  /\ pc[t] = "assign" => loggers[name[t]] = Null
  /\ pc[t] = "return" => loggers[name[t]] = logger[t]
  /\ pc[t] \in {"insert", "assign"} => logger[t] \in rooted
  /\ pc[t] \in {"set root", "insert", "assign"} => \A n \in Names : loggers[n] # logger[t]

Inserting == \A t \in Threads : InsertingAt(t)

(* An unset entry is one some thread is about to set.                      *)
NullOwned ==
  \A n \in Names : loggers[n] = Null => \E t \in Threads : pc[t] = "assign" /\ name[t] = n

(* How far a reopen has come with what it owes.                            *)
Registered == {l \in 1..made : \E n \in Names : loggers[n] = l}

Reopening ==
  \A t \in Threads :
    /\ pc[t] \in {"reopen lock", "copy"} => owed[t] \subseteq Registered
    /\ pc[t] \in {"copied", "reopen root", "reopen"} => owed[t] \subseteq copy[t] \cup reopened[t]

ManagerInv ==
  /\ TypeOK /\ LockHeld /\ Inserting /\ NullOwned /\ OneLoggerPerName /\ PublishedRooted /\ Reopening

LEMMA InitManagerInv == Init => ManagerInv
  <1> SUFFICES ASSUME Init PROVE ManagerInv
    OBVIOUS
  <1>1. TypeOK
    BY ManagerAssumption
       DEF Init, Lock!Init, TypeOK, Places, RootLogger, Absent, Null
  <1>2. LockHeld /\ Inserting /\ NullOwned /\ Reopening
    BY DEF Init, Lock!Init, LockHeld, Inserting, InsertingAt, NullOwned, Reopening, Reading, Writing,
           RootLogger, Absent, Null
  <1>3. OneLoggerPerName /\ PublishedRooted
    BY DEF Init, OneLoggerPerName, PublishedRooted, RootLogger, Absent
  <1> QED BY <1>1, <1>2, <1>3 DEF ManagerInv

(* Steps that leave loggers_ and what was given alone.                     *)
LEMMA GivenKept ==
  ASSUME OneLoggerPerName, PublishedRooted, UNCHANGED <<loggers, rooted, given>>
  PROVE  OneLoggerPerName' /\ PublishedRooted'
  BY DEF OneLoggerPerName, PublishedRooted

LEMMA CallCounted ==
  ASSUME TypeOK, NEW t \in Threads, calls[t] < MaxCalls
  PROVE  [calls EXCEPT ![t] = calls[t] + 1] \in [Threads -> 0..MaxCalls]
  <1>1. calls \in [Threads -> 0..MaxCalls] /\ MaxCalls \in Nat
    BY ManagerAssumption DEF TypeOK
  <1>2. calls[t] + 1 \in 0..MaxCalls
    BY <1>1
  <1> QED BY <1>1, <1>2

(* Steps that move a thread outside the insertion.                         *)
LEMMA InsertingKept ==
  ASSUME TypeOK, Inserting, NullOwned, NEW t \in Threads, pc[t] # "assign",
         NEW place \in Places \ {"make", "set root", "insert", "assign", "return"},
         pc' = [pc EXCEPT ![t] = place],
         \A u \in Threads \ {t} : name'[u] = name[u] /\ logger'[u] = logger[u],
         UNCHANGED <<loggers, rooted>>
  PROVE  Inserting' /\ NullOwned'
  <1>1. pc'[t] = place /\ \A u \in Threads \ {t} : pc'[u] = pc[u]
    BY DEF TypeOK
  <1>2. Inserting'
    <2> SUFFICES ASSUME NEW u \in Threads
                 PROVE  InsertingAt(u)'
      BY DEF Inserting
    <2>1. CASE u = t
      BY <1>1, <2>1 DEF InsertingAt
    <2>2. CASE u # t
      <3>1. pc'[u] = pc[u] /\ name'[u] = name[u] /\ logger'[u] = logger[u]
        BY <1>1, <2>2
      <3> QED BY <3>1 DEF Inserting, InsertingAt
    <2> QED BY <2>1, <2>2
  <1>3. NullOwned'
    <2> SUFFICES ASSUME NEW n \in Names, loggers[n] = Null
                 PROVE  \E u \in Threads : pc'[u] = "assign" /\ name'[u] = n
      BY DEF NullOwned
    <2>1. PICK u \in Threads : pc[u] = "assign" /\ name[u] = n
      BY DEF NullOwned
    <2>2. u \in Threads \ {t}
      BY <2>1
    <2> QED BY <1>1, <2>1, <2>2
  <1> QED BY <1>2, <1>3

(* Steps of the insertion itself: what the other threads know stays true.  *)
LEMMA InsertingOthers ==
  ASSUME TypeOK, Inserting, NEW t \in Threads, InsertingAt(t)',
         \A u \in Threads \ {t} :
           pc'[u] = pc[u] /\ name'[u] = name[u] /\ logger'[u] = logger[u],
         rooted \subseteq rooted', UNCHANGED loggers
  PROVE  Inserting'
  <1> SUFFICES ASSUME NEW u \in Threads, u # t
               PROVE  InsertingAt(u)'
    BY DEF Inserting
  <1>1. pc'[u] = pc[u] /\ name'[u] = name[u] /\ logger'[u] = logger[u]
    OBVIOUS
  <1>2. InsertingAt(u)
    BY DEF Inserting
  <1> QED BY <1>1, <1>2 DEF InsertingAt

(* Steps of getLogger, and those of reopen that copy and reopen nothing.   *)
LEMMA ReopeningKept ==
  ASSUME TypeOK, Reopening, Registered \subseteq Registered', NEW t \in Threads,
         NEW place \in Places \ {"reopen lock", "copied"},
         place = "copy" => pc[t] = "reopen lock",
         place = "reopen root" => pc[t] = "copied",
         place = "reopen" => pc[t] = "reopen root",
         pc' = [pc EXCEPT ![t] = place], UNCHANGED <<copy, owed>>,
         \A u \in Threads : reopened[u] \subseteq reopened'[u]
  PROVE  Reopening'
  <1>1. pc'[t] = place /\ \A u \in Threads \ {t} : pc'[u] = pc[u]
    BY DEF TypeOK
  <1> SUFFICES ASSUME NEW u \in Threads
               PROVE  /\ pc'[u] \in {"reopen lock", "copy"} => owed[u] \subseteq Registered
                      /\ pc'[u] \in {"copied", "reopen root", "reopen"} =>
                           owed[u] \subseteq copy[u] \cup reopened[u]
    BY DEF Reopening
  <1> QED BY <1>1 DEF Reopening

LEMMA SameRegistered ==
  ASSUME UNCHANGED <<loggers, made>>
  PROVE  Registered \subseteq Registered'
  BY DEF Registered

LEMMA MoreMade ==
  ASSUME TypeOK, made' = made + 1, UNCHANGED loggers
  PROVE  /\ made' \in Nat \ {0} /\ 1..made \subseteq 1..made' /\ made' \in 1..made'
         /\ Registered \subseteq Registered'
  <1>1. made \in Nat \ {0}
    BY DEF TypeOK
  <1>2. made' \in Nat \ {0} /\ 1..made \subseteq 1..made' /\ made' \in 1..made'
    BY <1>1
  <1> QED BY <1>2 DEF Registered

(* Nobody changes the map while a thread reads it.                         *)
LEMMA NoNullInside ==
  ASSUME LockHeld, NullOwned, NEW t \in Threads,
         pc[t] \in Reading \cup {"find again"}, NEW n \in Names
  PROVE  loggers[n] # Null
  <1> SUFFICES ASSUME NEW u \in Threads, pc[u] = "assign"
               PROVE  FALSE
    BY DEF NullOwned
  <1> QED BY DEF LockHeld, Reading, Writing

(* While a thread has the lock for writing, no other one is at a place     *)
(* that only a holder of the lock can be at.                               *)
WriterAt(t) == \A u \in Threads \ {t} : pc[u] \notin Reading \cup Writing \cup {"return"}

LEMMA WriterIsAlone ==
  ASSUME LockHeld, NEW t \in Threads, pc[t] \in Writing
  PROVE  WriterAt(t)
  <1>1. wr = {t} /\ rd = {}
    BY DEF LockHeld
  <1> QED BY <1>1 DEF LockHeld, WriterAt

(* Steps of a writer that change the map: the others know nothing of it.   *)
LEMMA AloneInserting ==
  ASSUME TypeOK, NEW t \in Threads, WriterAt(t), InsertingAt(t)',
         NEW place \in Places, pc' = [pc EXCEPT ![t] = place]
  PROVE  Inserting'
  <1> SUFFICES ASSUME NEW u \in Threads, u # t
               PROVE  InsertingAt(u)'
    BY DEF Inserting
  <1>1. pc'[u] = pc[u] /\ pc[u] \notin Writing \cup {"return"}
    BY DEF TypeOK, WriterAt
  <1> QED BY <1>1 DEF InsertingAt, Writing

LEMMA StepManagerInv ==
  ASSUME ManagerInv, NEW t \in Threads, getLogger(t) \/ reopen(t) \/ Continues(t)
  PROVE  ManagerInv'
  <1>0. TypeOK /\ LockHeld /\ Inserting /\ NullOwned /\ OneLoggerPerName /\ PublishedRooted /\ Reopening
    BY DEF ManagerInv
  <1> USE DEF lockVars, mapVars, history, Goes, Begins
  <1>1. CASE getLogger(t)
    <2>0. PICK n \in Names : name' = [name EXCEPT ![t] = n]
      BY <1>1 DEF getLogger
    <2>1. /\ pc[t] = "idle" /\ pc' = [pc EXCEPT ![t] = "read lock"]
          /\ calls[t] < MaxCalls /\ calls' = [calls EXCEPT ![t] = calls[t] + 1]
          /\ UNCHANGED <<rd, wr, loggers, made, rooted, logger, copy, given, owed, reopened>>
      BY <1>1 DEF getLogger
    <2>2. TypeOK'
      BY <1>0, <2>0, <2>1, CallCounted DEF TypeOK, Places
    <2>3. LockHeld'
      BY <1>0, <2>1 DEF TypeOK, LockHeld, Reading, Writing
    <2>4. \A u \in Threads \ {t} : name'[u] = name[u] /\ logger'[u] = logger[u]
      BY <1>0, <2>0, <2>1 DEF TypeOK
    <2>5. Inserting' /\ NullOwned'
      BY <1>0, <2>1, <2>4, InsertingKept DEF Places
    <2>6. Reopening'
      BY <1>0, <2>1, SameRegistered, ReopeningKept DEF Places
    <2> QED BY <1>0, <2>1, <2>2, <2>3, <2>5, <2>6, GivenKept DEF ManagerInv
  <1>2. CASE ReadLock(t)
    <2>1. /\ pc[t] = "read lock" /\ pc' = [pc EXCEPT ![t] = "find"]
          /\ UNCHANGED <<loggers, made, rooted, name, logger, copy, calls, given, owed, reopened>>
      BY <1>2 DEF ReadLock
    <2>2. TypeOK'
      BY <1>0, <1>2, <2>1 DEF ReadLock, Lock!AcquireRead, TypeOK, Places
    <2>3. LockHeld'
      BY <1>0, <1>2, <2>1 DEF ReadLock, Lock!AcquireRead, TypeOK, LockHeld, Reading, Writing
    <2>4. Inserting' /\ NullOwned'
      BY <1>0, <2>1, InsertingKept DEF Places
    <2>5. Reopening'
      BY <1>0, <2>1, SameRegistered, ReopeningKept DEF Places
    <2> QED BY <1>0, <2>1, <2>2, <2>3, <2>4, <2>5, GivenKept DEF ManagerInv
  <1>3. CASE Find(t)
    <2>1. /\ pc[t] = "find" /\ name[t] \in Names
          /\ UNCHANGED <<rd, wr, loggers, made, rooted, name, copy, calls, given, owed, reopened>>
      BY <1>0, <1>3 DEF Find, TypeOK
    <2>2. \/ /\ loggers[name[t]] # Absent /\ pc' = [pc EXCEPT ![t] = "return"]
             /\ logger' = [logger EXCEPT ![t] = loggers[name[t]]]
          \/ /\ loggers[name[t]] = Absent /\ pc' = [pc EXCEPT ![t] = "read unlock"]
             /\ logger' = logger
      BY <1>3 DEF Find
    <2>3. loggers[name[t]] # Null
      BY <1>0, <2>1, NoNullInside DEF Reading
    <2>4. TypeOK'
      BY <1>0, <2>1, <2>2, <2>3 DEF TypeOK, Places
    <2>5. LockHeld'
      BY <1>0, <2>1, <2>2 DEF TypeOK, LockHeld, Reading, Writing
    <2>6. Inserting'
      <3>1. \A u \in Threads \ {t} : pc'[u] = pc[u] /\ logger'[u] = logger[u]
        BY <1>0, <2>2 DEF TypeOK
      <3>2. InsertingAt(t)'
        BY <1>0, <2>1, <2>2 DEF TypeOK, InsertingAt
      <3> QED BY <1>0, <2>1, <3>1, <3>2, InsertingOthers
    <2>7. NullOwned'
      BY <1>0, <2>1, <2>2 DEF TypeOK, NullOwned
    <2>8. Reopening'
      BY <1>0, <2>1, <2>2, SameRegistered, ReopeningKept DEF Places
    <2> QED BY <1>0, <2>1, <2>4, <2>5, <2>6, <2>7, <2>8, GivenKept DEF ManagerInv
  <1>4. CASE ReadUnlock(t)
    <2>1. /\ pc[t] = "read unlock" /\ pc' = [pc EXCEPT ![t] = "write lock"]
          /\ UNCHANGED <<loggers, made, rooted, name, logger, copy, calls, given, owed, reopened>>
      BY <1>4 DEF ReadUnlock
    <2>2. TypeOK'
      BY <1>0, <1>4, <2>1 DEF ReadUnlock, Lock!Release, TypeOK, Places
    <2>3. LockHeld'
      BY <1>0, <1>4, <2>1 DEF ReadUnlock, Lock!Release, TypeOK, LockHeld, Reading, Writing
    <2>4. Inserting' /\ NullOwned'
      BY <1>0, <2>1, InsertingKept DEF Places
    <2>5. Reopening'
      BY <1>0, <2>1, SameRegistered, ReopeningKept DEF Places
    <2> QED BY <1>0, <2>1, <2>2, <2>3, <2>4, <2>5, GivenKept DEF ManagerInv
  <1>5. CASE WriteLock(t)
    <2>1. /\ pc[t] = "write lock" /\ pc' = [pc EXCEPT ![t] = "find again"]
          /\ UNCHANGED <<loggers, made, rooted, name, logger, copy, calls, given, owed, reopened>>
      BY <1>5 DEF WriteLock
    <2>2. TypeOK'
      BY <1>0, <1>5, <2>1 DEF WriteLock, Lock!AcquireWrite, TypeOK, Places
    <2>3. LockHeld'
      BY <1>0, <1>5, <2>1 DEF WriteLock, Lock!AcquireWrite, TypeOK, LockHeld, Reading, Writing
    <2>4. Inserting' /\ NullOwned'
      BY <1>0, <2>1, InsertingKept DEF Places
    <2>5. Reopening'
      BY <1>0, <2>1, SameRegistered, ReopeningKept DEF Places
    <2> QED BY <1>0, <2>1, <2>2, <2>3, <2>4, <2>5, GivenKept DEF ManagerInv
  <1>6. CASE FindAgain(t)
    <2>1. /\ pc[t] = "find again" /\ name[t] \in Names
          /\ UNCHANGED <<rd, wr, loggers, made, rooted, name, copy, calls, given, owed, reopened>>
      BY <1>0, <1>6 DEF FindAgain, TypeOK
    <2>2. \/ /\ loggers[name[t]] # Absent /\ pc' = [pc EXCEPT ![t] = "return"]
             /\ logger' = [logger EXCEPT ![t] = loggers[name[t]]]
          \/ /\ loggers[name[t]] = Absent /\ pc' = [pc EXCEPT ![t] = "make"]
             /\ logger' = logger
      BY <1>6 DEF FindAgain
    <2>3. loggers[name[t]] # Null
      BY <1>0, <2>1, NoNullInside DEF Reading
    <2>4. TypeOK'
      BY <1>0, <2>1, <2>2, <2>3 DEF TypeOK, Places
    <2>5. LockHeld'
      BY <1>0, <2>1, <2>2 DEF TypeOK, LockHeld, Reading, Writing
    <2>6. Inserting'
      <3>1. \A u \in Threads \ {t} : pc'[u] = pc[u] /\ logger'[u] = logger[u]
        BY <1>0, <2>2 DEF TypeOK
      <3>2. InsertingAt(t)'
        BY <1>0, <2>1, <2>2 DEF TypeOK, InsertingAt
      <3> QED BY <1>0, <2>1, <3>1, <3>2, InsertingOthers
    <2>7. NullOwned'
      BY <1>0, <2>1, <2>2 DEF TypeOK, NullOwned
    <2>8. Reopening'
      BY <1>0, <2>1, <2>2, SameRegistered, ReopeningKept DEF Places
    <2> QED BY <1>0, <2>1, <2>4, <2>5, <2>6, <2>7, <2>8, GivenKept DEF ManagerInv
  <1>7. CASE MakeLogger(t)
    <2>1. /\ pc[t] = "make" /\ pc' = [pc EXCEPT ![t] = "set root"]
          /\ made' = made + 1 /\ logger' = [logger EXCEPT ![t] = made + 1]
          /\ UNCHANGED <<rd, wr, loggers, rooted, name, copy, calls, given, owed, reopened>>
      BY <1>7 DEF MakeLogger
    <2>2. TypeOK'
      BY <1>0, <2>1, MoreMade DEF TypeOK, Places
    <2>3. LockHeld'
      BY <1>0, <2>1 DEF TypeOK, LockHeld, Reading, Writing
    <2>4. Inserting'
      <3>1. \A n \in Names : loggers[n] # made + 1
        BY <1>0 DEF TypeOK, Absent, Null
      <3>2. \A u \in Threads \ {t} : pc'[u] = pc[u] /\ logger'[u] = logger[u]
        BY <1>0, <2>1 DEF TypeOK
      <3>3. InsertingAt(t)'
        BY <1>0, <2>1, <3>1 DEF TypeOK, Inserting, InsertingAt
      <3> QED BY <1>0, <2>1, <3>2, <3>3, InsertingOthers
    <2>5. NullOwned'
      BY <1>0, <2>1 DEF TypeOK, NullOwned
    <2>6. Reopening'
      <3>1. Registered \subseteq Registered'
        BY <1>0, <2>1, MoreMade
      <3> QED BY <1>0, <2>1, <3>1, ReopeningKept DEF Places
    <2> QED BY <1>0, <2>1, <2>2, <2>3, <2>4, <2>5, <2>6, GivenKept DEF ManagerInv
  <1>8. CASE SetRoot(t)
    <2>1. /\ pc[t] = "set root" /\ pc' = [pc EXCEPT ![t] = "insert"]
          /\ rooted' = rooted \cup {logger[t]}
          /\ UNCHANGED <<rd, wr, loggers, made, name, logger, copy, calls, given, owed, reopened>>
      BY <1>8 DEF SetRoot
    <2>2. TypeOK'
      BY <1>0, <2>1 DEF TypeOK, Places
    <2>3. LockHeld'
      BY <1>0, <2>1 DEF TypeOK, LockHeld, Reading, Writing
    <2>4. Inserting'
      <3>1. \A u \in Threads \ {t} : pc'[u] = pc[u] /\ logger'[u] = logger[u]
        BY <1>0, <2>1 DEF TypeOK
      <3>2. InsertingAt(t)'
        BY <1>0, <2>1 DEF TypeOK, Inserting, InsertingAt
      <3> QED BY <1>0, <2>1, <3>1, <3>2, InsertingOthers
    <2>5. NullOwned'
      BY <1>0, <2>1 DEF TypeOK, NullOwned
    <2>6. Reopening'
      BY <1>0, <2>1, SameRegistered, ReopeningKept DEF Places
    <2>7. OneLoggerPerName' /\ PublishedRooted'
      BY <1>0, <2>1 DEF OneLoggerPerName, PublishedRooted
    <2> QED BY <2>2, <2>3, <2>4, <2>5, <2>6, <2>7 DEF ManagerInv
  <1>9. CASE Insert(t)
    <2>1. /\ pc[t] = "insert" /\ pc' = [pc EXCEPT ![t] = "assign"] /\ name[t] \in Names
          /\ loggers' = [loggers EXCEPT ![name[t]] = Null]
          /\ UNCHANGED <<rd, wr, made, rooted, name, logger, copy, calls, given, owed, reopened>>
      BY <1>0, <1>9 DEF Insert, TypeOK
    <2>2. loggers[name[t]] = Absent
      BY <1>0, <2>1 DEF Inserting, InsertingAt
    <2>3. TypeOK'
      BY <1>0, <2>1 DEF TypeOK, Places
    <2>4. LockHeld'
      BY <1>0, <2>1 DEF TypeOK, LockHeld, Reading, Writing
    <2>5. WriterAt(t)
      BY <1>0, <2>1, WriterIsAlone DEF Writing
    <2>6. /\ \A n \in Names \ {name[t]} : loggers'[n] = loggers[n]
          /\ loggers'[name[t]] = Null
      BY <1>0, <2>1 DEF TypeOK
    <2>7. Inserting'
      <3>1. InsertingAt(t)'
        <4>1. InsertingAt(t) /\ pc'[t] = "assign" /\ logger[t] # Null
          BY <1>0, <2>1 DEF TypeOK, Inserting, Null
        <4> QED BY <2>1, <2>6, <4>1 DEF InsertingAt
      <3> QED BY <1>0, <2>1, <2>5, <3>1, AloneInserting DEF Places
    <2>8. NullOwned'
      <3> SUFFICES ASSUME NEW n \in Names, loggers'[n] = Null
                   PROVE  \E u \in Threads : pc'[u] = "assign" /\ name[u] = n
        BY <2>1 DEF NullOwned
      <3>1. CASE n = name[t]
        BY <1>0, <2>1, <3>1 DEF TypeOK
      <3>2. CASE n # name[t]
        BY <1>0, <2>1, <2>5, <2>6, <3>2 DEF NullOwned, WriterAt, Writing
      <3> QED BY <3>1, <3>2
    <2>9. OneLoggerPerName' /\ PublishedRooted'
      <3>1. \A g \in given : g[1] \in Names /\ g[2] \in 1..made
        BY <1>0 DEF TypeOK
      <3>2. \A g \in given : g[1] # name[t]
        BY <1>0, <2>2, <3>1 DEF TypeOK, OneLoggerPerName, Absent
      <3>3. OneLoggerPerName'
        BY <1>0, <2>1, <2>6, <3>1, <3>2 DEF OneLoggerPerName, Null
      <3>4. PublishedRooted'
        BY <1>0, <2>1, <2>6 DEF PublishedRooted, Null
      <3> QED BY <3>3, <3>4
    <2>10. Reopening'
      <3>1. Registered \subseteq Registered'
        BY <1>0, <2>1, <2>2, <2>6 DEF TypeOK, Registered, Absent
      <3> QED BY <1>0, <2>1, <3>1, ReopeningKept DEF Places
    <2> QED BY <2>3, <2>4, <2>7, <2>8, <2>9, <2>10 DEF ManagerInv
  <1>10. CASE Assign(t)
    <2>1. /\ pc[t] = "assign" /\ pc' = [pc EXCEPT ![t] = "return"] /\ name[t] \in Names
          /\ loggers' = [loggers EXCEPT ![name[t]] = logger[t]]
          /\ UNCHANGED <<rd, wr, made, rooted, name, logger, copy, calls, given, owed, reopened>>
      BY <1>0, <1>10 DEF Assign, TypeOK
    <2>2. /\ loggers[name[t]] = Null /\ logger[t] \in rooted
          /\ \A n \in Names : loggers[n] # logger[t]
      BY <1>0, <2>1 DEF Inserting, InsertingAt
    <2>3. TypeOK'
      BY <1>0, <2>1 DEF TypeOK, Places
    <2>4. LockHeld'
      BY <1>0, <2>1 DEF TypeOK, LockHeld, Reading, Writing
    <2>5. WriterAt(t)
      BY <1>0, <2>1, WriterIsAlone DEF Writing
    <2>6. /\ \A n \in Names \ {name[t]} : loggers'[n] = loggers[n]
          /\ loggers'[name[t]] = logger[t] /\ logger[t] \in 1..made
      BY <1>0, <2>1 DEF TypeOK
    <2>7. Inserting'
      <3>1. InsertingAt(t)'
        BY <1>0, <2>1, <2>6 DEF TypeOK, InsertingAt
      <3> QED BY <1>0, <2>1, <2>5, <3>1, AloneInserting DEF Places
    <2>8. NullOwned'
      <3> SUFFICES ASSUME NEW n \in Names, loggers'[n] = Null
                   PROVE  \E u \in Threads : pc'[u] = "assign" /\ name[u] = n
        BY <2>1 DEF NullOwned
      <3>1. n # name[t] /\ loggers[n] = Null
        BY <1>0, <2>6 DEF TypeOK, Null
      <3>2. PICK u \in Threads : pc[u] = "assign" /\ name[u] = n
        BY <1>0, <3>1 DEF NullOwned
      <3> QED BY <2>5, <3>1, <3>2 DEF WriterAt, Writing
    <2>9. OneLoggerPerName' /\ PublishedRooted'
      <3>1. \A g \in given : g[1] \in Names /\ g[2] \in 1..made
        BY <1>0 DEF TypeOK
      <3>2. \A g \in given : g[1] # name[t]
        BY <1>0, <2>2, <3>1 DEF TypeOK, OneLoggerPerName, Null
      <3>3. \A g \in given' : loggers'[g[1]] = g[2]
        BY <1>0, <2>1, <2>6, <3>1, <3>2 DEF OneLoggerPerName
      <3>4. ASSUME NEW k \in Names, NEW n \in Names,
                   loggers'[k] = loggers'[n], loggers'[k] \in Nat \ {0}
            PROVE  k = n
        <4>1. CASE k = name[t] \/ n = name[t]
          BY <2>2, <2>6, <3>4, <4>1
        <4>2. CASE k # name[t] /\ n # name[t]
          BY <1>0, <2>6, <3>4, <4>2 DEF OneLoggerPerName
        <4> QED BY <4>1, <4>2
      <3>5. PublishedRooted'
        BY <1>0, <2>1, <2>2, <2>6 DEF PublishedRooted
      <3> QED BY <3>3, <3>4, <3>5 DEF OneLoggerPerName
    <2>10. Reopening'
      <3>1. Registered \subseteq Registered'
        BY <1>0, <2>1, <2>2, <2>6 DEF TypeOK, Registered, Null
      <3> QED BY <1>0, <2>1, <3>1, ReopeningKept DEF Places
    <2> QED BY <2>3, <2>4, <2>7, <2>8, <2>9, <2>10 DEF ManagerInv
  <1>11. CASE Return(t)
    <2>1. /\ pc[t] = "return" /\ pc' = [pc EXCEPT ![t] = "idle"]
          /\ given' = given \cup {<<name[t], logger[t]>>}
          /\ UNCHANGED <<loggers, made, rooted, name, logger, copy, calls, owed, reopened>>
      BY <1>11 DEF Return
    <2>2. name[t] \in Names /\ logger[t] \in 1..made /\ loggers[name[t]] = logger[t]
      BY <1>0, <2>1 DEF TypeOK, Inserting, InsertingAt
    <2>3. TypeOK'
      <3>1. rd' \subseteq Threads /\ wr' \subseteq Threads
        BY <1>0, <1>11 DEF Return, Lock!Release, TypeOK
      <3>2. given' \subseteq Names \X (1..made)
        BY <1>0, <2>1, <2>2 DEF TypeOK
      <3> QED BY <1>0, <2>1, <3>1, <3>2 DEF TypeOK, Places
    <2>4. LockHeld'
      BY <1>0, <1>11, <2>1 DEF Return, Lock!Release, TypeOK, LockHeld, Reading, Writing
    <2>5. Inserting' /\ NullOwned'
      BY <1>0, <2>1, InsertingKept DEF Places
    <2>6. OneLoggerPerName' /\ PublishedRooted'
      BY <1>0, <2>1, <2>2 DEF OneLoggerPerName, PublishedRooted
    <2>7. Reopening'
      BY <1>0, <2>1, SameRegistered, ReopeningKept DEF Places
    <2> QED BY <2>3, <2>4, <2>5, <2>6, <2>7 DEF ManagerInv
  <1>12. CASE reopen(t)
    <2>1. /\ pc[t] = "idle" /\ pc' = [pc EXCEPT ![t] = "reopen lock"]
          /\ calls[t] < MaxCalls /\ calls' = [calls EXCEPT ![t] = calls[t] + 1]
          /\ owed' = [owed EXCEPT ![t] = {g[2] : g \in given}]
          /\ reopened' = [reopened EXCEPT ![t] = {}]
          /\ UNCHANGED <<rd, wr, loggers, made, rooted, name, logger, copy, given>>
      BY <1>12 DEF reopen
    <2>2. \A g \in given : g[1] \in Names /\ g[2] \in 1..made /\ loggers[g[1]] = g[2]
      BY <1>0 DEF TypeOK, OneLoggerPerName
    <2>3. {g[2] : g \in given} \subseteq Registered /\ Registered \subseteq 1..made
      BY <2>2 DEF Registered
    <2>4. TypeOK'
      BY <1>0, <2>1, <2>3, CallCounted DEF TypeOK, Places
    <2>5. LockHeld'
      BY <1>0, <2>1 DEF TypeOK, LockHeld, Reading, Writing
    <2>6. Inserting' /\ NullOwned'
      BY <1>0, <2>1, InsertingKept DEF Places
    <2>7. Reopening'
      <3>1. Registered' = Registered
        BY <2>1 DEF Registered
      <3> QED BY <1>0, <2>1, <2>3, <3>1 DEF TypeOK, Reopening
    <2> QED BY <1>0, <2>1, <2>4, <2>5, <2>6, <2>7, GivenKept DEF ManagerInv
  <1>13. CASE ReopenLock(t)
    <2>1. /\ pc[t] = "reopen lock" /\ pc' = [pc EXCEPT ![t] = "copy"]
          /\ UNCHANGED <<loggers, made, rooted, name, logger, copy, calls, given, owed, reopened>>
      BY <1>13 DEF ReopenLock
    <2>2. TypeOK'
      BY <1>0, <1>13, <2>1 DEF ReopenLock, Lock!AcquireRead, TypeOK, Places
    <2>3. LockHeld'
      BY <1>0, <1>13, <2>1 DEF ReopenLock, Lock!AcquireRead, TypeOK, LockHeld, Reading, Writing
    <2>4. Inserting' /\ NullOwned'
      BY <1>0, <2>1, InsertingKept DEF Places
    <2>5. Reopening'
      BY <1>0, <2>1, SameRegistered, ReopeningKept DEF Places
    <2> QED BY <1>0, <2>1, <2>2, <2>3, <2>4, <2>5, GivenKept DEF ManagerInv
  <1>14. CASE CopyLoggers(t)
    <2>1. /\ pc[t] = "copy" /\ pc' = [pc EXCEPT ![t] = "copied"]
          /\ copy' = [copy EXCEPT ![t] = {loggers[n] : n \in Names} \ {Absent}]
          /\ UNCHANGED <<rd, wr, loggers, made, rooted, name, logger, calls, given, owed, reopened>>
      BY <1>14 DEF CopyLoggers
    <2>2. \A n \in Names : loggers[n] # Null
      BY <1>0, <2>1, NoNullInside DEF Reading
    <2>3. {loggers[n] : n \in Names} \ {Absent} = Registered
      BY <1>0, <2>2 DEF TypeOK, Registered, Absent, Null
    <2>4. Registered \subseteq 1..made
      BY DEF Registered
    <2>5. TypeOK'
      BY <1>0, <2>1, <2>3, <2>4 DEF TypeOK, Places
    <2>6. LockHeld'
      BY <1>0, <2>1 DEF TypeOK, LockHeld, Reading, Writing
    <2>7. Inserting' /\ NullOwned'
      BY <1>0, <2>1, InsertingKept DEF Places
    <2>8. Reopening'
      <3>1. Registered' = Registered
        BY <2>1 DEF Registered
      <3> QED BY <1>0, <2>1, <2>3, <3>1 DEF TypeOK, Reopening
    <2> QED BY <1>0, <2>1, <2>5, <2>6, <2>7, <2>8, GivenKept DEF ManagerInv
  <1>15. CASE ReopenUnlock(t)
    <2>1. /\ pc[t] = "copied" /\ pc' = [pc EXCEPT ![t] = "reopen root"]
          /\ UNCHANGED <<loggers, made, rooted, name, logger, copy, calls, given, owed, reopened>>
      BY <1>15 DEF ReopenUnlock
    <2>2. TypeOK'
      BY <1>0, <1>15, <2>1 DEF ReopenUnlock, Lock!Release, TypeOK, Places
    <2>3. LockHeld'
      BY <1>0, <1>15, <2>1 DEF ReopenUnlock, Lock!Release, TypeOK, LockHeld, Reading, Writing
    <2>4. Inserting' /\ NullOwned'
      BY <1>0, <2>1, InsertingKept DEF Places
    <2>5. Reopening'
      BY <1>0, <2>1, SameRegistered, ReopeningKept DEF Places
    <2> QED BY <1>0, <2>1, <2>2, <2>3, <2>4, <2>5, GivenKept DEF ManagerInv
  <1>16. CASE ReopenRoot(t)
    <2>1. /\ pc[t] = "reopen root" /\ pc' = [pc EXCEPT ![t] = "reopen"]
          /\ reopened' = [reopened EXCEPT ![t] = reopened[t] \cup {RootLogger}]
          /\ UNCHANGED <<rd, wr, loggers, made, rooted, name, logger, copy, calls, given, owed>>
      BY <1>16 DEF ReopenRoot
    <2>2. TypeOK'
      <3>1. RootLogger \in 1..made
        BY <1>0 DEF TypeOK, RootLogger
      <3>2. reopened' \in [Threads -> SUBSET (1..made)]
        BY <1>0, <2>1, <3>1 DEF TypeOK
      <3> QED BY <1>0, <2>1, <3>2 DEF TypeOK, Places
    <2>3. LockHeld'
      BY <1>0, <2>1 DEF TypeOK, LockHeld, Reading, Writing
    <2>4. Inserting' /\ NullOwned'
      BY <1>0, <2>1, InsertingKept DEF Places
    <2>5. Reopening'
      <3>1. \A u \in Threads : reopened[u] \subseteq reopened'[u]
        BY <1>0, <2>1 DEF TypeOK
      <3> QED BY <1>0, <2>1, <3>1, SameRegistered, ReopeningKept DEF Places
    <2> QED BY <1>0, <2>1, <2>2, <2>3, <2>4, <2>5, GivenKept DEF ManagerInv
  <1>17. CASE ReopenOne(t)
    <2>0. PICK l \in copy[t] : /\ copy' = [copy EXCEPT ![t] = copy[t] \ {l}]
                               /\ reopened' = [reopened EXCEPT ![t] = reopened[t] \cup {l}]
      BY <1>17 DEF ReopenOne
    <2>1. /\ pc[t] = "reopen"
          /\ UNCHANGED <<rd, wr, loggers, made, rooted, pc, name, logger, calls, given, owed>>
      BY <1>17 DEF ReopenOne
    <2>2. TypeOK'
      BY <1>0, <2>0, <2>1 DEF TypeOK
    <2>3. LockHeld' /\ NullOwned'
      BY <1>0, <2>1 DEF LockHeld, NullOwned
    <2>4. Inserting'
      BY <1>0, <2>1 DEF Inserting, InsertingAt
    <2>5. Reopening'
      <3>1. Registered' = Registered
        BY <2>1 DEF Registered
      <3>2. \A u \in Threads : copy[u] \cup reopened[u] \subseteq copy'[u] \cup reopened'[u]
        BY <1>0, <2>0 DEF TypeOK
      <3> QED BY <1>0, <2>1, <3>1, <3>2 DEF Reopening
    <2> QED BY <1>0, <2>1, <2>2, <2>3, <2>4, <2>5, GivenKept DEF ManagerInv
  <1>18. CASE ReopenReturns(t)
    <2>1. /\ pc[t] = "reopen" /\ pc' = [pc EXCEPT ![t] = "idle"]
          /\ UNCHANGED <<rd, wr, loggers, made, rooted, name, logger, copy, calls, given, owed, reopened>>
      BY <1>18 DEF ReopenReturns
    <2>2. TypeOK'
      BY <1>0, <2>1 DEF TypeOK, Places
    <2>3. LockHeld'
      BY <1>0, <2>1 DEF TypeOK, LockHeld, Reading, Writing
    <2>4. Inserting' /\ NullOwned'
      BY <1>0, <2>1, InsertingKept DEF Places
    <2>5. Reopening'
      BY <1>0, <2>1, SameRegistered, ReopeningKept DEF Places
    <2> QED BY <1>0, <2>1, <2>2, <2>3, <2>4, <2>5, GivenKept DEF ManagerInv
  <1> QED BY <1>1, <1>2, <1>3, <1>4, <1>5, <1>6, <1>7, <1>8, <1>9, <1>10, <1>11, <1>12,
             <1>13, <1>14, <1>15, <1>16, <1>17, <1>18 DEF Continues

LEMMA StutterManagerInv == ManagerInv /\ UNCHANGED vars => ManagerInv'
  <1> SUFFICES ASSUME ManagerInv, UNCHANGED vars PROVE ManagerInv'
    OBVIOUS
  <1> USE DEF ManagerInv, vars, lockVars, mapVars, history
  <1>1. TypeOK' /\ LockHeld' /\ NullOwned' /\ OneLoggerPerName' /\ PublishedRooted'
    BY DEF TypeOK, LockHeld, NullOwned, OneLoggerPerName, PublishedRooted
  <1>2. Inserting' /\ Reopening'
    BY DEF Inserting, InsertingAt, Reopening, Registered
  <1> QED BY <1>1, <1>2

(* What the invariant says of readers and writers of the map.              *)
LEMMA NoRaceInside == ManagerInv => NoMapRace
  <1> SUFFICES ASSUME ManagerInv, NEW t \in Threads, pc[t] \in {"insert", "assign"},
                      NEW u \in Threads, t # u
               PROVE  pc[u] \notin {"find", "find again", "insert", "assign", "copy"}
    BY DEF NoMapRace
  <1>1. WriterAt(t)
    BY WriterIsAlone DEF ManagerInv, Writing
  <1> QED BY <1>1 DEF WriterAt, Reading, Writing

(* ... and of a reopen that has nothing left to do.                        *)
LEMMA ReopenedAll == ManagerInv => ReopenReaches
  BY DEF ManagerInv, Reopening, ReopenReaches

THEOREM ManagerInvHolds == Spec => []ManagerInv
  <1>1. ASSUME ManagerInv, [Next]_vars PROVE ManagerInv'
    BY <1>1, StepManagerInv, StutterManagerInv DEF Next
  <1> QED BY InitManagerInv, <1>1, PTL DEF Spec

(* Type correctness: no thread ever holds a missing or an unset entry of   *)
(* loggers_ for a logger.                                                  *)
THEOREM TypeCorrect == Spec => []TypeOK
  <1>1. ManagerInv => TypeOK
    BY DEF ManagerInv
  <1> QED BY ManagerInvHolds, <1>1, PTL

(* getLogger gives every caller of a name the same logger.                 *)
THEOREM OneLoggerEach == Spec => []OneLoggerPerName
  <1>1. ManagerInv => OneLoggerPerName
    BY DEF ManagerInv
  <1> QED BY ManagerInvHolds, <1>1, PTL

(* loggers_ is never changed while it is read, nor by two threads.         *)
THEOREM MapNeverRaces == Spec => []NoMapRace
  BY ManagerInvHolds, NoRaceInside, PTL

(* A logger is found only with its root_ set.                              *)
THEOREM FoundLoggersRooted == Spec => []PublishedRooted
  <1>1. ManagerInv => PublishedRooted
    BY DEF ManagerInv
  <1> QED BY ManagerInvHolds, <1>1, PTL

(* reopen reaches every logger given out before it was called.             *)
THEOREM ReopenReachesAll == Spec => []ReopenReaches
  BY ManagerInvHolds, ReopenedAll, PTL

-----------------------------------------------------------------------------
(* The registry that LoggerManager implements: an unset entry is absent.   *)
Mapped == [n \in Names |-> IF loggers[n] = Null THEN Absent ELSE loggers[n]]

LEMMA InitRegistry == Init => Registry!Init
  BY DEF Init, Registry!Init, RootLogger, Absent, Null, Registry!RootLogger, Registry!Absent

(* Every step but the last of an insertion, and a return, is a stutter.    *)
LEMMA StepRegistry ==
  ASSUME ManagerInv, NEW t \in Threads, getLogger(t) \/ reopen(t) \/ Continues(t)
  PROVE  Registry!Next \/ (Mapped' = Mapped /\ given' = given)
  <1>0. TypeOK /\ Inserting
    BY DEF ManagerInv
  <1>1. CASE Insert(t)
    <2>1. /\ pc[t] = "insert" /\ name[t] \in Names
          /\ loggers' = [loggers EXCEPT ![name[t]] = Null] /\ given' = given
      BY <1>0, <1>1 DEF Insert, TypeOK
    <2>2. loggers[name[t]] = Absent
      BY <1>0, <2>1 DEF Inserting, InsertingAt
    <2>3. ASSUME NEW n \in Names PROVE Mapped'[n] = Mapped[n]
      BY <1>0, <2>1, <2>2 DEF Mapped, TypeOK
    <2> QED BY <2>1, <2>3 DEF Mapped
  <1>2. CASE Assign(t)
    <2>0. PICK k \in Names : name[t] = k
      BY <1>0 DEF TypeOK
    <2>1. /\ pc[t] = "assign" /\ logger[t] \in Nat \ {0}
          /\ loggers' = [loggers EXCEPT ![k] = logger[t]] /\ given' = given
      BY <1>0, <1>2, <2>0 DEF Assign, TypeOK
    <2>2. InsertingAt(t)
      BY <1>0 DEF Inserting
    <2>3. loggers[k] = Null /\ \A n \in Names : loggers[n] # logger[t]
      BY <2>0, <2>1, <2>2 DEF InsertingAt
    <2>4. PICK l \in Nat \ {0} : logger[t] = l
      BY <2>1
    <2>5. loggers'[k] = l /\ \A n \in Names \ {k} : loggers'[n] = loggers[n]
      BY <1>0, <2>1, <2>4 DEF TypeOK
    <2>6. Mapped[k] = Absent /\ Mapped'[k] = l
      BY <2>3, <2>5 DEF Mapped, Null
    <2>7. \A m \in Names : Mapped[m] # l
      BY <2>3, <2>4 DEF Mapped, Absent
    <2>8. Mapped' = [Mapped EXCEPT ![k] = l]
      BY <2>5, <2>6 DEF Mapped
    <2>9. Mapped'[k] \in Nat \ {Mapped[m] : m \in Names}
      BY <2>6, <2>7
    <2>10. Mapped' = [Mapped EXCEPT ![k] = Mapped'[k]]
      BY <2>6, <2>8
    <2>11. Registry!Register(k)
      BY <2>1, <2>6, <2>9, <2>10 DEF Registry!Register, Mapped, Registry!Absent, Absent
    <2> QED BY <2>11 DEF Registry!Next
  <1>3. CASE Return(t)
    <2>0. PICK k \in Names : name[t] = k
      BY <1>0 DEF TypeOK
    <2>1. /\ pc[t] = "return" /\ loggers' = loggers /\ logger[t] \in Nat \ {0}
          /\ given' = given \cup {<<k, logger[t]>>}
      BY <1>0, <1>3, <2>0 DEF Return, TypeOK, mapVars
    <2>2. InsertingAt(t)
      BY <1>0 DEF Inserting
    <2>3. loggers[k] = logger[t]
      BY <2>0, <2>1, <2>2 DEF InsertingAt
    <2>4. Mapped[k] = logger[t] /\ logger[t] # Absent /\ Mapped' = Mapped
      BY <2>1, <2>3 DEF Mapped, Null, Absent
    <2>5. Registry!Give(k)
      BY <2>1, <2>4 DEF Registry!Give, Mapped, Registry!Absent, Absent
    <2> QED BY <2>5 DEF Registry!Next
  <1>4. CASE ~ (Insert(t) \/ Assign(t) \/ Return(t))
    <2>1. UNCHANGED <<loggers, given>>
      BY <1>4 DEF getLogger, reopen, Continues, ReadLock, Find, ReadUnlock, WriteLock, FindAgain,
                  MakeLogger, SetRoot, ReopenLock, CopyLoggers, ReopenUnlock, ReopenRoot,
                  ReopenOne, ReopenReturns, mapVars
    <2> QED BY <2>1 DEF Mapped
  <1> QED BY <1>1, <1>2, <1>3, <1>4

(* LoggerManager implements the registry of one logger per name, registered *)
(* once, that its callers rely on.                                         *)
THEOREM RegistryImplemented == Spec => ImplementsRegistry
  <1>1. ASSUME ManagerInv, [Next]_vars
        PROVE  [Registry!Next]_<<Mapped, given>>
    <2>1. CASE Next
      BY <1>1, <2>1, StepRegistry DEF Next
    <2>2. CASE UNCHANGED vars
      BY <2>2 DEF vars, mapVars, Mapped
    <2> QED BY <1>1, <2>1, <2>2
  <1> QED BY InitRegistry, <1>1, ManagerInvHolds, PTL
          DEF Spec, ImplementsRegistry, Registry!Spec, Mapped
=============================================================================
