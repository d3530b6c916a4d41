------------------------------ MODULE LoggerProofs ------------------------------
(***************************************************************************)
(* Theorems about Logger, for any number of threads, loggers, appenders,   *)
(* formatters, levels and calls. That every call returns (CallsReturn) is  *)
(* left to TLC.                                                            *)
(***************************************************************************)
EXTENDS Logger, SequenceTheorems, WellFoundedInduction, TLAPS

LEMMA Constants ==
  /\ Root \in Loggers /\ Stdout \in Appenders /\ Default \in Formatters
  /\ \A f \in Formatters : f # Null
  BY LoggerAssumption DEF LoggerAssumption

-----------------------------------------------------------------------------
(* Sets of numbers and lists.                                              *)

LEMMA Least ==
  ASSUME NEW I \in SUBSET Nat, I # {}
  PROVE  Min(I) \in I
  <1> DEFINE Less == {ss \in Nat \X Nat : ss[1] < ss[2]}
  <1>1. IsWellFoundedOn(Less, Nat)
    BY NatLessThanWellFounded DEF OpToRel
  <1>2. I \subseteq Nat
    OBVIOUS
  <1> HIDE DEF Less
  <1>3. PICK x \in I : \A y \in I : ~ (<<y, x>> \in Less)
    BY <1>1, <1>2, WFMin
  <1>4. \A y \in I : ~(y < x)
    BY <1>3 DEF Less
  <1>5. \A y \in I : x <= y
    BY <1>4
  <1> QED BY <1>5 DEF Min

LEMMA BehindLoop ==
  \A k, m \in Nat : k <= m + 1 => \A n \in 1..(k - 1) : n \in 1..m
  OBVIOUS

LEMMA RemoveFirstTakesFrom ==
  ASSUME NEW S, NEW s \in Seq(S), NEW e
  PROVE  /\ RemoveFirst(s, e) \in Seq(S)
         /\ \A n \in DOMAIN RemoveFirst(s, e) :
              \E m \in DOMAIN s : RemoveFirst(s, e)[n] = s[m]
  <1>1. CASE ~ \E n \in 1..Len(s) : s[n] = e
    BY <1>1 DEF RemoveFirst
  <1>2. CASE \E n \in 1..Len(s) : s[n] = e
    <2> DEFINE I == {n \in 1..Len(s) : s[n] = e}
               k == Min(I)
               a == SubSeq(s, 1, k - 1)
               b == SubSeq(s, k + 1, Len(s))
    <2>1. I \in SUBSET Nat /\ I # {} /\ I \subseteq 1..Len(s)
      BY <1>2
    <2>2. RemoveFirst(s, e) = a \o b
      BY <1>2, <2>1 DEF RemoveFirst, RemoveAt, SelectInSeq
    <2> HIDE DEF I
    <2>3. k \in 1..Len(s)
      BY <2>1, Least
    <2> HIDE DEF k
    <2>4. \A n \in 1..Len(s) : s[n] \in S
      BY ElementOfSeq
    <2>5. /\ a \in Seq(S) /\ Len(a) = k - 1 /\ \A n \in 1..(k - 1) : a[n] = s[n]
      <3>1. \A n \in 1..(k - 1) : s[n] \in S
        BY <2>3, <2>4
      <3>2. 1 \in Int /\ k - 1 \in Int
        BY <2>3
      <3> QED BY <3>1, <3>2, <2>3, SubSeqProperties
    <2>6. /\ b \in Seq(S) /\ Len(b) = Len(s) - k /\ \A n \in 1..(Len(s) - k) : b[n] = s[k + n]
      <3>1. \A n \in (k + 1)..Len(s) : s[n] \in S
        BY <2>3, <2>4
      <3>2. k + 1 \in Int /\ Len(s) \in Int
        BY <2>3
      <3> QED BY <3>1, <3>2, <2>3, SubSeqProperties
    <2> HIDE DEF a, b
    <2>7. /\ a \o b \in Seq(S) /\ Len(a \o b) = Len(a) + Len(b)
          /\ \A n \in 1..(Len(a) + Len(b)) :
               (a \o b)[n] = IF n <= Len(a) THEN a[n] ELSE b[n - Len(a)]
      BY <2>5, <2>6, ConcatProperties
    <2> DEFINE c == a \o b
    <2> HIDE DEF c
    <2>8. /\ c \in Seq(S) /\ DOMAIN c = 1..(Len(s) - 1)
          /\ \A n \in 1..(Len(s) - 1) :
               c[n] = IF n <= k - 1 THEN a[n] ELSE b[n - (k - 1)]
      BY <2>3, <2>5, <2>6, <2>7 DEF c
    <2>9. ASSUME NEW n \in 1..(Len(s) - 1)
          PROVE  \E m \in 1..Len(s) : c[n] = s[m]
      <3>1. CASE n <= k - 1
        <4>1. n \in 1..(k - 1) /\ n \in 1..Len(s)
          BY <2>3, <3>1
        <4>2. c[n] = s[n]
          BY <2>5, <2>8, <3>1, <4>1
        <4> QED BY <4>1, <4>2
      <3>2. CASE ~(n <= k - 1)
        <4>1. n - (k - 1) \in 1..(Len(s) - k) /\ n + 1 \in 1..Len(s) /\ k + (n - (k - 1)) = n + 1
          BY <2>3, <3>2
        <4>2. c[n] = s[n + 1]
          BY <2>6, <2>8, <3>2, <4>1
        <4> QED BY <4>1, <4>2
      <3> QED BY <3>1, <3>2
    <2>10. RemoveFirst(s, e) = c /\ DOMAIN s = 1..Len(s)
      BY <2>2, LenProperties DEF c
    <2> QED BY <2>8, <2>9, <2>10
  <1> QED BY <1>1, <1>2
-----------------------------------------------------------------------------
(* Types.                                                                  *)

CallType == [of : Loggers, level : Levels, appender : Appenders,
             formatter : Formatters \cup {Null}]

LEMMA NoCallType == NoCall \in CallType
  BY LoggerAssumption DEF LoggerAssumption, NoCall, CallType

LEMMA InitTypes == Init => TypeOK
  <1> SUFFICES ASSUME Init PROVE TypeOK
    OBVIOUS
  <1>1. call \in [Threads -> CallType]
    BY NoCallType DEF Init
  <1>2. <<Stdout>> \in Seq(Appenders) /\ <<>> \in Seq(Appenders)
    BY Constants
  <1>3. appenders_ \in [Loggers -> Seq(Appenders)]
    BY <1>2 DEF Init
  <1> QED BY <1>1, <1>3, Constants DEF Init, TypeOK, CallType, Places

LEMMA Typed ==
  ASSUME TypeOK, NEW t \in Threads
  PROVE  /\ at[t] \in Loggers /\ call[t] \in CallType
         /\ call[t].of \in Loggers /\ call[t].appender \in Appenders
         /\ call[t].formatter \in Formatters \cup {Null}
         /\ i[t] \in Nat /\ i[t] >= 1
         /\ List(t) \in Seq(Appenders) /\ Len(List(t)) \in Nat
         /\ DOMAIN List(t) = 1..Len(List(t))
  <1>1. at[t] \in Loggers /\ call[t] \in CallType /\ i[t] \in Nat /\ i[t] >= 1
    BY DEF TypeOK, CallType
  <1>2. List(t) \in Seq(Appenders)
    BY <1>1 DEF TypeOK, List
  <1> QED BY <1>1, <1>2, LenProperties DEF CallType

LEMMA ThisTyped ==
  ASSUME TypeOK, NEW t \in Threads, i[t] <= Len(List(t))
  PROVE  i[t] \in 1..Len(List(t)) /\ This(t) = List(t)[i[t]] /\ This(t) \in Appenders
  <1>1. i[t] \in 1..Len(List(t))
    BY Typed
  <1> QED BY <1>1, Typed, ElementOfSeq DEF This

(* What a call, a lock and a return leave well typed.                      *)
LEMMA LocksType ==
  ASSUME TypeOK, NEW t \in Threads, AcquireRead(t) \/ AcquireWrite(t) \/ Release(t)
  PROVE  rd' \in [Loggers -> SUBSET Threads] /\ wr' \in [Loggers -> SUBSET Threads]
  <1>1. /\ at[t] \in Loggers
        /\ rd \in [Loggers -> SUBSET Threads] /\ wr \in [Loggers -> SUBSET Threads]
    BY DEF TypeOK
  <1>2. /\ rd[at[t]] \cup {t} \in SUBSET Threads /\ rd[at[t]] \ {t} \in SUBSET Threads
        /\ wr[at[t]] \ {t} \in SUBSET Threads /\ {t} \in SUBSET Threads
    BY <1>1
  <1>3. CASE AcquireRead(t)
    BY <1>1, <1>2, <1>3 DEF AcquireRead
  <1>4. CASE AcquireWrite(t)
    BY <1>1, <1>2, <1>4 DEF AcquireWrite
  <1>5. CASE Release(t)
    BY <1>1, <1>2, <1>5 DEF Release
  <1> QED BY <1>3, <1>4, <1>5

LEMMA ReturnsType ==
  ASSUME TypeOK, NEW t \in Threads, Returns(t)
  PROVE  /\ pc' \in [Threads -> Places] /\ call' \in [Threads -> CallType]
         /\ at' \in [Threads -> Loggers] /\ i' \in [Threads -> Nat \ {0}]
         /\ done' \in [Threads -> SUBSET Nat]
  <1>1. call' \in [Threads -> CallType]
    <2>1. call \in [Threads -> CallType]
      BY DEF TypeOK, CallType
    <2> QED BY <2>1, NoCallType DEF Returns
  <1>2. i' \in [Threads -> Nat \ {0}] /\ done' \in [Threads -> SUBSET Nat]
    BY DEF TypeOK, Returns
  <1> QED BY <1>1, <1>2, Constants DEF TypeOK, Returns, Goes, Places

LEMMA NextPlaceType ==
  ASSUME TypeOK, NEW t \in Threads, NEW dealt \in BOOLEAN, NextPlace(t, dealt)
  PROVE  i' \in [Threads -> Nat \ {0}] /\ done' \in [Threads -> SUBSET Nat]
  BY DEF TypeOK, NextPlace

LEMMA LockedType ==
  ASSUME TypeOK, NEW t \in Threads, NEW place \in Places,
         ReadLock(t, place) \/ WriteLock(t, place)
  PROVE  TypeOK'
  <1>1. rd' \in [Loggers -> SUBSET Threads] /\ wr' \in [Loggers -> SUBSET Threads]
    BY LocksType DEF ReadLock, WriteLock
  <1>2. pc' \in [Threads -> Places]
    BY DEF TypeOK, ReadLock, WriteLock, Goes
  <1>3. i' \in [Threads -> Nat \ {0}] /\ done' \in [Threads -> SUBSET Nat]
    <2>1. i' = [i EXCEPT ![t] = 1] /\ done' = [done EXCEPT ![t] = {}]
      BY DEF ReadLock, WriteLock
    <2> QED BY <2>1 DEF TypeOK
  <1> QED BY <1>1, <1>2, <1>3 DEF TypeOK, ReadLock, WriteLock, state, own

LEMMA CallsType ==
  ASSUME TypeOK, NEW t \in Threads, NEW l \in Loggers, NEW place \in Places,
         Calls(t, l, place), call' \in [Threads -> CallType]
  PROVE  TypeOK'
  <1>1. calls' \in [Threads -> Nat]
    BY Constants DEF TypeOK, Calls
  <1>2. pc' \in [Threads -> Places] /\ at' \in [Threads -> Loggers]
    BY DEF TypeOK, Calls, Goes
  <1> QED BY <1>1, <1>2 DEF TypeOK, Calls, locks, state, own, CallType

LEMMA ReleasedType ==
  ASSUME TypeOK, NEW t \in Threads, Release(t), Returns(t), UNCHANGED <<spin, state, calls>>
  PROVE  TypeOK'
  BY LocksType, ReturnsType DEF TypeOK, state, own, CallType

LEMMA WriteType ==
  ASSUME TypeOK, NEW t \in Threads, NEW a \in Appenders, NEW f \in Formatters \cup {Null},
         NEW has \in BOOLEAN, Write(t, a, f, has)
  PROVE  /\ formatter_' \in [Appenders -> Formatters \cup {Null}]
         /\ hasFormatter_' \in [Appenders -> BOOLEAN]
         /\ late' \in [Threads -> SUBSET Appenders]
  <1>1. formatter_' \in [Appenders -> Formatters \cup {Null}]
    BY DEF TypeOK, Write
  <1>2. hasFormatter_' \in [Appenders -> BOOLEAN]
    BY DEF TypeOK, Write
  <1>3. late' \in [Threads -> SUBSET Appenders]
    <2>1. \A u \in Threads : late[u] \in SUBSET Appenders
      BY DEF TypeOK
    <2> QED BY <2>1 DEF Write
  <1> QED BY <1>1, <1>2, <1>3

LEMMA GivenType ==
  ASSUME TypeOK, NEW x \in Loggers \cup Appenders, NEW f, Given(x, f)
  PROVE  nulls' \in SUBSET (Loggers \cup Appenders) /\ nulls \subseteq nulls'
  BY DEF TypeOK, Given

LEMMA BeginsType ==
  ASSUME TypeOK, NEW t \in Threads, Begins(t)
  PROVE  TypeOK'
  <1>0. call \in [Threads -> CallType]
    BY DEF TypeOK, CallType
  <1>1. CASE log(t)
    BY <1>0, <1>1, CallsType DEF log, CallType, Places
  <1>2. CASE reopen(t)
    BY <1>0, <1>2, CallsType DEF reopen, CallType, Places
  <1>3. CASE addAppender(t)
    <2>1. PICK l \in Loggers, a \in Appenders :
            /\ Calls(t, l, "add lock")
            /\ call' = [call EXCEPT ![t].of = l, ![t].appender = a]
      BY <1>3 DEF addAppender
    <2>2. call' \in [Threads -> CallType]
      BY <1>0, <2>1 DEF CallType
    <2> QED BY <2>1, <2>2, CallsType DEF Places
  <1>4. CASE delAppender(t)
    <2>1. PICK l \in Loggers, a \in Appenders :
            /\ Calls(t, l, "del lock")
            /\ call' = [call EXCEPT ![t].of = l, ![t].appender = a]
      BY <1>4 DEF delAppender
    <2>2. call' \in [Threads -> CallType]
      BY <1>0, <2>1 DEF CallType
    <2> QED BY <2>1, <2>2, CallsType DEF Places
  <1>5. CASE clearAppenders(t)
    BY <1>0, <1>5, CallsType DEF clearAppenders, CallType, Places
  <1>6. CASE setFormatter(t)
    BY <1>0, <1>6, CallsType DEF setFormatter, CallType, Places
  <1>7. CASE GiveFormatter(t)
    <2>1. PICK a \in Appenders, f \in Formatters \cup {Null} :
            /\ calls' = [calls EXCEPT ![t] = @ + 1]
            /\ Write(t, a, f, f # Null) /\ Given(a, f)
            /\ UNCHANGED <<locks, spin, appenders_, formatterOf, pc, call, at, i, done>>
      BY <1>7 DEF GiveFormatter
    <2>2. calls' \in [Threads -> Nat]
      BY <2>1, Constants DEF TypeOK
    <2>3. /\ formatter_' \in [Appenders -> Formatters \cup {Null}]
          /\ hasFormatter_' \in [Appenders -> BOOLEAN] /\ late' \in [Threads -> SUBSET Appenders]
      <3>1. (f # Null) \in BOOLEAN
        OBVIOUS
      <3> QED BY <2>1, <3>1, WriteType
    <2>4. nulls' \in SUBSET (Loggers \cup Appenders)
      BY <2>1, GivenType
    <2> QED BY <2>1, <2>2, <2>3, <2>4 DEF TypeOK, locks
  <1> QED BY <1>1, <1>2, <1>3, <1>4, <1>5, <1>6, <1>7 DEF Begins

LEMMA ContinuesType ==
  ASSUME TypeOK, NEW t \in Threads, Continues(t)
  PROVE  TypeOK'
  <1> USE DEF locks, state, own
  <1>1. CASE LogLock(t) \/ ReopenLock(t) \/ AddLock(t) \/ DelLock(t) \/ ClearLock(t) \/ SetLock(t)
    BY <1>1, LockedType DEF LogLock, ReopenLock, AddLock, DelLock, ClearLock, SetLock, Places
  <1>2. CASE ReopenThrows(t) \/ ReopenUnlock(t) \/ WriteUnlock(t)
    BY <1>2, ReleasedType DEF ReopenThrows, ReopenUnlock, WriteUnlock
  <1>3. CASE LogUnlock(t)
    <2>1. CASE at[t] = call[t].of
      BY <1>3, <2>1, ReleasedType DEF LogUnlock
    <2>2. CASE at[t] # call[t].of
      <3>1. call[t].of \in Loggers
        BY DEF TypeOK
      <3>2. at' \in [Threads -> Loggers] /\ done' \in [Threads -> SUBSET Nat]
        BY <1>3, <2>2, <3>1 DEF LogUnlock, TypeOK
      <3>3. rd' \in [Loggers -> SUBSET Threads] /\ wr' \in [Loggers -> SUBSET Threads]
        BY <1>3, LocksType DEF LogUnlock
      <3> QED BY <1>3, <2>2, <3>2, <3>3 DEF LogUnlock, TypeOK
    <2> QED BY <2>1, <2>2
  <1>4. CASE LogToRoot(t)
    <2>1. /\ at' = at \/ at' = [at EXCEPT ![t] = Root]
          /\ \E place \in {"log lock", "log unlock"} : pc' = [pc EXCEPT ![t] = place]
      BY <1>4 DEF LogToRoot, Goes
    <2>2. at' \in [Threads -> Loggers]
      BY <2>1, Constants DEF TypeOK
    <2>3. pc' \in [Threads -> Places]
      BY <2>1 DEF TypeOK, Places
    <2> QED BY <1>4, <2>2, <2>3 DEF LogToRoot, TypeOK
  <1>5. CASE LogSkips(t)
    BY <1>5, NextPlaceType DEF LogSkips, TypeOK
  <1>6. CASE AppenderLock(t)
    BY <1>6 DEF AppenderLock, TypeOK, Goes, Places
  <1>7. CASE Format(t)
    BY <1>7, NextPlaceType DEF Format, TypeOK, Goes, Places
  <1>8. CASE LogThrows(t) \/ LogEnds(t)
    BY <1>8 DEF LogThrows, LogEnds, TypeOK, Goes, Places
  <1>9. CASE Reopen(t)
    BY <1>9, NextPlaceType DEF Reopen, TypeOK
  <1>10. CASE AddTest(t)
    BY <1>10 DEF AddTest, TypeOK, Goes, Places
  <1>11. CASE Inherit(t)
    <2>1. /\ at[t] \in Loggers /\ call[t].appender \in Appenders
          /\ formatterOf[at[t]] \in Formatters \cup {Null}
          /\ hasFormatter_[call[t].appender] \in BOOLEAN
      BY DEF TypeOK
    <2>2. Write(t, call[t].appender, formatterOf[at[t]], hasFormatter_[call[t].appender])
      BY <1>11 DEF Inherit
    <2>3. /\ formatter_' \in [Appenders -> Formatters \cup {Null}]
          /\ hasFormatter_' \in [Appenders -> BOOLEAN] /\ late' \in [Threads -> SUBSET Appenders]
      BY <2>1, <2>2, WriteType
    <2> QED BY <1>11, <2>3 DEF Inherit, TypeOK, Goes, Places
  <1>12. CASE AddLast(t)
    <2>1. Append(appenders_[at[t]], call[t].appender) \in Seq(Appenders)
      BY AppendProperties DEF TypeOK
    <2> QED BY <1>12, <2>1 DEF AddLast, TypeOK, Goes, Places
  <1>13. CASE Erase(t)
    <2>1. RemoveFirst(appenders_[at[t]], call[t].appender) \in Seq(Appenders)
      BY RemoveFirstTakesFrom DEF TypeOK
    <2> QED BY <1>13, <2>1 DEF Erase, TypeOK, Goes, Places
  <1>14. CASE Clear(t)
    <2>1. <<>> \in Seq(Appenders)
      OBVIOUS
    <2> QED BY <1>14, <2>1 DEF Clear, TypeOK, Goes, Places
  <1>15. CASE SetOwn(t)
    <2>1. at[t] \in Loggers /\ Given(at[t], call[t].formatter)
      BY <1>15 DEF SetOwn, TypeOK
    <2>2. nulls' \in SUBSET (Loggers \cup Appenders)
      BY <2>1, GivenType
    <2> QED BY <1>15, <2>2 DEF SetOwn, TypeOK, Goes, Places
  <1>16. CASE SetEach(t)
    <2>1. i' \in [Threads -> Nat \ {0}] /\ done' \in [Threads -> SUBSET Nat]
      BY <1>16, NextPlaceType DEF SetEach
    <2>2. CASE hasFormatter_[This(t)]
      BY <1>16, <2>1, <2>2 DEF SetEach, TypeOK
    <2>3. CASE ~hasFormatter_[This(t)]
      <3>1. Write(t, This(t), formatterOf[at[t]], FALSE) /\ i[t] <= Len(List(t))
        BY <1>16, <2>3 DEF SetEach
      <3>2. This(t) \in Appenders /\ formatterOf[at[t]] \in Formatters \cup {Null}
        BY <3>1, ThisTyped DEF TypeOK
      <3>3. /\ formatter_' \in [Appenders -> Formatters \cup {Null}]
            /\ hasFormatter_' \in [Appenders -> BOOLEAN] /\ late' \in [Threads -> SUBSET Appenders]
        BY <3>1, <3>2, WriteType
      <3> QED BY <1>16, <2>1, <3>3 DEF SetEach, TypeOK
    <2> QED BY <2>2, <2>3
  <1>17. CASE SetEnds(t)
    <2>1. late' \in [Threads -> SUBSET Appenders]
      BY <1>17 DEF SetEnds, TypeOK
    <2> QED BY <1>17, <2>1 DEF SetEnds, TypeOK, Goes, Places
  <1> QED BY <1>1, <1>2, <1>3, <1>4, <1>5, <1>6, <1>7, <1>8, <1>9, <1>10, <1>11, <1>12,
             <1>13, <1>14, <1>15, <1>16, <1>17 DEF Continues

-----------------------------------------------------------------------------
(* The invariant.                                                          *)

ReadPlaces  == {"log", "format", "log unlock", "log throws", "reopen"}
WritePlaces == {"add test", "inherit", "append", "del", "clear", "set", "set each", "write unlock"}
LogPlaces   == {"log lock", "log", "format", "log unlock", "log throws"}

(* A logger that is held to write is held by one thread, and not to read.  *)
Excludes ==
  \A l \in Loggers : wr[l] = {} \/ (rd[l] = {} /\ \E t \in Threads : wr[l] = {t})

(* A logger without a formatter was given null.                            *)
NullLoggers == \A l \in Loggers : formatterOf[l] = Null => l \in nulls

(* No two threads are formatting for the same appender.                    *)
OneFormats ==
  \A t, u \in Threads :
    pc[t] = "format" /\ pc[u] = "format" /\ This(t) = This(u) => t = u

(* Thread t holds the lock of the logger whose member function it is in.   *)
Holds(t) ==
  /\ pc[t] \in ReadPlaces => t \in rd[at[t]]
  /\ pc[t] \in WritePlaces => t \in wr[at[t]]

(* A thread that is in root_->log still holds the lock of the logger that  *)
(* called, whose list is therefore still empty.                            *)
HandedOver(t) ==
  pc[t] \in LogPlaces /\ at[t] # call[t].of =>
    at[t] = Root /\ t \in rd[call[t].of] /\ appenders_[call[t].of] = <<>>

(* The event has gone to the appenders it passes, as far as the loop got.  *)
Logs(t) ==
  /\ pc[t] \in {"log", "format"} =>
       /\ i[t] <= Len(List(t)) + 1
       /\ done[t] = {n \in 1..(i[t] - 1) : Passes(t, List(t)[n])}
  /\ pc[t] = "format" => i[t] <= Len(List(t)) /\ spin[This(t)] /\ Passes(t, This(t))
  /\ pc[t] = "log unlock" => done[t] = {n \in DOMAIN List(t) : Passes(t, List(t)[n])}

Reopens(t) == pc[t] = "reopen" => i[t] <= Len(List(t)) + 1 /\ done[t] = 1..(i[t] - 1)

(* An appender that takes over the logger's formatter has none, unless it  *)
(* was written since; one that is about to be listed has one, or null was  *)
(* given.                                                                  *)
Adds(t) ==
  /\ pc[t] = "inherit" => formatter_[call[t].appender] = Null \/ call[t].appender \in late[t]
  /\ pc[t] = "append" => (formatter_[call[t].appender] = Null => Excused(call[t].appender))

(* The appenders behind the loop write with the new formatter or their     *)
(* own, unless they were written since.                                    *)
Sets(t) ==
  /\ pc[t] = "set" => i[t] = 1
  /\ pc[t] = "set each" =>
       /\ i[t] <= Len(List(t)) + 1
       /\ formatterOf[at[t]] = call[t].formatter
       /\ \A n \in 1..(i[t] - 1) :
            \/ hasFormatter_[List(t)[n]] \/ formatter_[List(t)[n]] = formatterOf[at[t]]
            \/ List(t)[n] \in late[t]

ThreadInv(t) == Holds(t) /\ HandedOver(t) /\ Logs(t) /\ Reopens(t) /\ Adds(t) /\ Sets(t)

LoggerInv ==
  /\ TypeOK /\ Excludes /\ NullLoggers /\ NullOnlyGiven /\ OneFormats
  /\ \A t \in Threads : ThreadInv(t)

-----------------------------------------------------------------------------
(* What holds in every state of the invariant.                             *)

LEMMA ListTyped ==
  ASSUME TypeOK, NEW l \in Loggers
  PROVE  /\ appenders_[l] \in Seq(Appenders) /\ Len(appenders_[l]) \in Nat
         /\ DOMAIN appenders_[l] = 1..Len(appenders_[l])
         /\ \A n \in DOMAIN appenders_[l] : appenders_[l][n] \in Appenders
  <1>1. appenders_[l] \in Seq(Appenders)
    BY DEF TypeOK
  <1> QED BY <1>1, LenProperties, ElementOfSeq

(* The places of the list that a thread is in are appenders.               *)
LEMMA Listed ==
  ASSUME TypeOK, NEW t \in Threads, NEW n \in 1..Len(List(t))
  PROVE  List(t)[n] \in Appenders
  BY Typed, ElementOfSeq

(* Nobody else writes to a logger that a thread holds.                     *)
LEMMA Alone ==
  ASSUME Excludes, NEW l \in Loggers, NEW t \in Threads, NEW u \in Threads, u # t,
         u \in rd[l] \/ u \in wr[l]
  PROVE  t \notin wr[l]
  BY DEF Excludes

LEMMA InitInv == Init => LoggerInv
  <1> SUFFICES ASSUME Init PROVE LoggerInv
    OBVIOUS
  <1>1. TypeOK
    BY InitTypes
  <1>2. \A l \in Loggers : \A n \in DOMAIN appenders_[l] : l = Root /\ appenders_[l][n] = Stdout
    BY DEF Init
  <1>3. NullLoggers
    BY Constants DEF NullLoggers, Init
  <1>4. NullOnlyGiven
    BY <1>2, Constants DEF NullOnlyGiven, Init
  <1>5. Excludes
    BY DEF Init, Excludes
  <1>6. \A t \in Threads : pc[t] = "idle"
    BY DEF Init
  <1>7. OneFormats
    BY <1>6 DEF OneFormats
  <1>8. \A t \in Threads : ThreadInv(t)
    BY <1>6 DEF ThreadInv, Holds, HandedOver, Logs, Reopens, Adds, Sets, ReadPlaces, WritePlaces,
         LogPlaces
  <1> QED BY <1>1, <1>3, <1>4, <1>5, <1>7, <1>8 DEF LoggerInv

-----------------------------------------------------------------------------
(* What a step of thread t leaves as it is.                                *)

LeavesLocals(t) ==
  \A u \in Threads \ {t} :
    pc'[u] = pc[u] /\ call'[u] = call[u] /\ at'[u] = at[u] /\ i'[u] = i[u] /\ done'[u] = done[u]

LeavesLocks(t) ==
  \A u \in Threads \ {t} : \A l \in Loggers :
    (u \in rd'[l] <=> u \in rd[l]) /\ (u \in wr'[l] <=> u \in wr[l])

LeavesLoggers(t) ==
  \A l \in Loggers :
    /\ t \notin wr[l] => appenders_'[l] = appenders_[l] /\ formatterOf'[l] = formatterOf[l]
    /\ formatterOf'[l] = Null => formatterOf[l] = Null \/ l \in nulls'

LeavesHistory(t) == nulls \subseteq nulls' /\ \A u \in Threads \ {t} : late[u] \subseteq late'[u]

LeavesAppenders(t) ==
  \A a \in Appenders :
    /\ spin[a] => spin'[a] \/ (pc[t] = "format" /\ a = This(t))
    /\ formatter_'[a] # formatter_[a] => ~spin[a]
    /\ formatter_'[a] = Null => formatter_[a] = Null \/ Excused(a)'
    /\ formatter_'[a] # formatter_[a] \/ hasFormatter_'[a] # hasFormatter_[a] =>
         \A u \in Threads \ {t} : Misses(u, a, hasFormatter_'[a]) => a \in late'[u]

LEMMA LocalsStep ==
  ASSUME TypeOK, NEW t \in Threads, Begins(t) \/ Continues(t)
  PROVE  LeavesLocals(t)
  <1> SUFFICES ASSUME NEW u \in Threads, u # t
               PROVE  /\ pc'[u] = pc[u] /\ call'[u] = call[u] /\ at'[u] = at[u]
                      /\ i'[u] = i[u] /\ done'[u] = done[u]
    BY DEF LeavesLocals
  <1> USE DEF TypeOK, Goes, Returns, NextPlace
  <1>1. CASE Begins(t)
    BY <1>1 DEF Begins, log, reopen, addAppender, delAppender, clearAppenders, setFormatter,
         GiveFormatter, Calls
  <1>2. CASE LogLock(t) \/ ReopenLock(t) \/ AddLock(t) \/ DelLock(t) \/ ClearLock(t) \/ SetLock(t)
    BY <1>2 DEF LogLock, ReopenLock, AddLock, DelLock, ClearLock, SetLock, ReadLock, WriteLock
  <1>3. CASE LogToRoot(t) \/ LogSkips(t) \/ AppenderLock(t) \/ Format(t) \/ LogThrows(t) \/ LogEnds(t)
    BY <1>3 DEF LogToRoot, LogSkips, AppenderLock, Format, LogThrows, LogEnds
  <1>4. CASE LogUnlock(t) \/ ReopenThrows(t) \/ ReopenUnlock(t) \/ WriteUnlock(t)
    BY <1>4 DEF LogUnlock, ReopenThrows, ReopenUnlock, WriteUnlock
  <1>5. CASE Reopen(t) \/ AddTest(t) \/ Inherit(t) \/ AddLast(t) \/ Erase(t) \/ Clear(t)
    BY <1>5 DEF Reopen, AddTest, Inherit, AddLast, Erase, Clear
  <1>6. CASE SetOwn(t) \/ SetEach(t) \/ SetEnds(t)
    BY <1>6 DEF SetOwn, SetEach, SetEnds
  <1> QED BY <1>1, <1>2, <1>3, <1>4, <1>5, <1>6 DEF Continues

(* The locks change hands in these three ways only.                        *)
LEMMA LocksChange ==
  ASSUME NEW t \in Threads, Begins(t) \/ Continues(t)
  PROVE  AcquireRead(t) \/ AcquireWrite(t) \/ Release(t) \/ UNCHANGED <<rd, wr>>
  <1>1. CASE Begins(t)
    BY <1>1 DEF Begins, log, reopen, addAppender, delAppender, clearAppenders, setFormatter,
         GiveFormatter, Calls, locks
  <1>2. CASE LogLock(t) \/ ReopenLock(t) \/ AddLock(t) \/ DelLock(t) \/ ClearLock(t) \/ SetLock(t)
    BY <1>2 DEF LogLock, ReopenLock, AddLock, DelLock, ClearLock, SetLock, ReadLock, WriteLock
  <1>3. CASE LogToRoot(t) \/ LogSkips(t) \/ AppenderLock(t) \/ Format(t) \/ LogThrows(t) \/ LogEnds(t)
    BY <1>3 DEF LogToRoot, LogSkips, AppenderLock, Format, LogThrows, LogEnds, locks
  <1>4. CASE LogUnlock(t) \/ ReopenThrows(t) \/ ReopenUnlock(t) \/ WriteUnlock(t)
    BY <1>4 DEF LogUnlock, ReopenThrows, ReopenUnlock, WriteUnlock
  <1>5. CASE Reopen(t) \/ AddTest(t) \/ Inherit(t) \/ AddLast(t) \/ Erase(t) \/ Clear(t)
    BY <1>5 DEF Reopen, AddTest, Inherit, AddLast, Erase, Clear, locks
  <1>6. CASE SetOwn(t) \/ SetEach(t) \/ SetEnds(t)
    BY <1>6 DEF SetOwn, SetEach, SetEnds, locks
  <1> QED BY <1>1, <1>2, <1>3, <1>4, <1>5, <1>6 DEF Continues

LEMMA LocksStep ==
  ASSUME LoggerInv, NEW t \in Threads, Begins(t) \/ Continues(t)
  PROVE  LeavesLocks(t) /\ Excludes'
  <1>1. /\ at[t] \in Loggers
        /\ rd \in [Loggers -> SUBSET Threads] /\ wr \in [Loggers -> SUBSET Threads]
        /\ Excludes
    BY Typed DEF LoggerInv, TypeOK
  <1>2. CASE AcquireRead(t)
    BY <1>1, <1>2 DEF AcquireRead, LeavesLocks, Excludes
  <1>3. CASE AcquireWrite(t)
    <2>1. LeavesLocks(t)
      BY <1>1, <1>3 DEF AcquireWrite, LeavesLocks
    <2>2. Excludes'
      BY <1>1, <1>3 DEF AcquireWrite, Excludes
    <2> QED BY <2>1, <2>2
  <1>4. CASE Release(t)
    <2>1. LeavesLocks(t)
      BY <1>1, <1>4 DEF Release, LeavesLocks
    <2>2. \A l \in Loggers : rd'[l] \subseteq rd[l] /\ (wr'[l] = wr[l] \/ wr'[l] = wr[l] \ {t})
      BY <1>1, <1>4 DEF Release
    <2>3. ASSUME NEW l \in Loggers
          PROVE  wr'[l] = {} \/ (rd'[l] = {} /\ \E u \in Threads : wr'[l] = {u})
      BY <1>1, <2>2 DEF Excludes
    <2> QED BY <2>1, <2>3 DEF Excludes
  <1>5. CASE UNCHANGED <<rd, wr>>
    BY <1>1, <1>5 DEF LeavesLocks, Excludes
  <1> QED BY <1>2, <1>3, <1>4, <1>5, LocksChange

(* Only three functions change a list, under the lock of its logger, and   *)
(* only addAppender lists an appender that was not in it.                  *)
LEMMA ListsChange ==
  ASSUME TypeOK, NEW t \in Threads, Begins(t) \/ Continues(t)
  PROVE  \/ UNCHANGED appenders_
         \/ AddLast(t) \/ Erase(t) \/ Clear(t)
  <1>1. CASE Begins(t)
    BY <1>1 DEF Begins, log, reopen, addAppender, delAppender, clearAppenders, setFormatter,
         GiveFormatter, Calls, state
  <1>2. CASE LogLock(t) \/ ReopenLock(t) \/ AddLock(t) \/ DelLock(t) \/ ClearLock(t) \/ SetLock(t)
    BY <1>2 DEF LogLock, ReopenLock, AddLock, DelLock, ClearLock, SetLock, ReadLock, WriteLock, state
  <1>3. CASE LogToRoot(t) \/ LogSkips(t) \/ AppenderLock(t) \/ Format(t) \/ LogThrows(t) \/ LogEnds(t)
    BY <1>3 DEF LogToRoot, LogSkips, AppenderLock, Format, LogThrows, LogEnds, state
  <1>4. CASE LogUnlock(t) \/ ReopenThrows(t) \/ ReopenUnlock(t) \/ WriteUnlock(t)
    BY <1>4 DEF LogUnlock, ReopenThrows, ReopenUnlock, WriteUnlock, state
  <1>5. CASE Reopen(t) \/ AddTest(t) \/ Inherit(t)
    BY <1>5 DEF Reopen, AddTest, Inherit, state
  <1>6. CASE SetOwn(t) \/ SetEach(t) \/ SetEnds(t)
    BY <1>6 DEF SetOwn, SetEach, SetEnds, state
  <1> QED BY <1>1, <1>2, <1>3, <1>4, <1>5, <1>6 DEF Continues

LEMMA ListsAfter ==
  ASSUME TypeOK, NEW t \in Threads, Begins(t) \/ Continues(t),
         NEW l \in Loggers, NEW n \in DOMAIN appenders_'[l]
  PROVE  \/ \E m \in DOMAIN appenders_[l] : appenders_'[l][n] = appenders_[l][m]
         \/ pc[t] = "append" /\ l = at[t] /\ appenders_'[l][n] = call[t].appender
  <1>0. /\ appenders_ \in [Loggers -> Seq(Appenders)] /\ at[t] \in Loggers
        /\ call[t].appender \in Appenders /\ appenders_[l] \in Seq(Appenders)
        /\ DOMAIN appenders_[l] = 1..Len(appenders_[l])
    BY Typed, ListTyped DEF TypeOK
  <1>1. CASE appenders_'[l] = appenders_[l]
    BY <1>1
  <1>2. CASE AddLast(t) /\ l = at[t]
    <2>1. appenders_'[l] = Append(appenders_[l], call[t].appender)
      BY <1>0, <1>2 DEF AddLast
    <2>2. /\ DOMAIN appenders_'[l] = 1..(Len(appenders_[l]) + 1)
          /\ \A m \in 1..Len(appenders_[l]) : appenders_'[l][m] = appenders_[l][m]
          /\ appenders_'[l][Len(appenders_[l]) + 1] = call[t].appender
      <3>1. Append(appenders_[l], call[t].appender) \in Seq(Appenders)
        BY <1>0, AppendProperties
      <3> QED BY <1>0, <2>1, <3>1, AppendProperties, LenProperties
    <2>3. n \in 1..Len(appenders_[l]) \/ n = Len(appenders_[l]) + 1
      BY <1>0, <2>2
    <2> QED BY <1>0, <1>2, <2>2, <2>3 DEF AddLast
  <1>3. CASE Erase(t) /\ l = at[t]
    <2>1. appenders_'[l] = RemoveFirst(appenders_[l], call[t].appender)
      BY <1>0, <1>3 DEF Erase
    <2> QED BY <1>0, <2>1, RemoveFirstTakesFrom
  <1>4. CASE Clear(t) /\ l = at[t]
    <2>1. appenders_'[l] = <<>>
      BY <1>0, <1>4 DEF Clear
    <2> QED BY <2>1
  <1>5. CASE (AddLast(t) \/ Erase(t) \/ Clear(t)) /\ l # at[t]
    <2>1. appenders_'[l] = appenders_[l]
      BY <1>0, <1>5 DEF AddLast, Erase, Clear
    <2> QED BY <2>1
  <1> QED BY <1>1, <1>2, <1>3, <1>4, <1>5, ListsChange

LEMMA LoggersStep ==
  ASSUME LoggerInv, NEW t \in Threads, Begins(t) \/ Continues(t)
  PROVE  LeavesLoggers(t)
  <1> SUFFICES ASSUME NEW l \in Loggers
               PROVE  /\ t \notin wr[l] => appenders_'[l] = appenders_[l] /\ formatterOf'[l] = formatterOf[l]
                      /\ formatterOf'[l] = Null => formatterOf[l] = Null \/ l \in nulls'
    BY DEF LeavesLoggers
  <1>0. /\ appenders_ \in [Loggers -> Seq(Appenders)]
        /\ formatterOf \in [Loggers -> Formatters \cup {Null}]
        /\ at[t] \in Loggers /\ (pc[t] \in WritePlaces /\ t \notin wr[l] => at[t] # l)
    BY Typed DEF LoggerInv, TypeOK, ThreadInv, Holds
  <1>1. CASE Begins(t)
    BY <1>1 DEF Begins, log, reopen, addAppender, delAppender, clearAppenders, setFormatter,
         GiveFormatter, Calls, state
  <1>2. CASE LogLock(t) \/ ReopenLock(t) \/ AddLock(t) \/ DelLock(t) \/ ClearLock(t) \/ SetLock(t)
    BY <1>2 DEF LogLock, ReopenLock, AddLock, DelLock, ClearLock, SetLock, ReadLock, WriteLock, state
  <1>3. CASE LogToRoot(t) \/ LogSkips(t) \/ AppenderLock(t) \/ Format(t) \/ LogThrows(t) \/ LogEnds(t)
    BY <1>3 DEF LogToRoot, LogSkips, AppenderLock, Format, LogThrows, LogEnds, state
  <1>4. CASE LogUnlock(t) \/ ReopenThrows(t) \/ ReopenUnlock(t) \/ WriteUnlock(t)
    BY <1>4 DEF LogUnlock, ReopenThrows, ReopenUnlock, WriteUnlock, state
  <1>5. CASE Reopen(t) \/ AddTest(t) \/ Inherit(t) \/ SetEach(t) \/ SetEnds(t)
    BY <1>5 DEF Reopen, AddTest, Inherit, SetEach, SetEnds, state
  <1>6. CASE AddLast(t) \/ Erase(t) \/ Clear(t) \/ SetOwn(t)
    <2>1. t \notin wr[l] => at[t] # l
      BY <1>0, <1>6 DEF AddLast, Erase, Clear, SetOwn, WritePlaces
    <2>2. CASE ~SetOwn(t)
      BY <1>0, <1>6, <2>1, <2>2 DEF AddLast, Erase, Clear
    <2>3. CASE SetOwn(t)
      BY <1>0, <2>1, <2>3 DEF SetOwn, Given
    <2> QED BY <2>2, <2>3
  <1> QED BY <1>1, <1>2, <1>3, <1>4, <1>5, <1>6 DEF Continues

(* What a thread writes under the spinlock.                                *)
LEMMA WriteLeaves ==
  ASSUME TypeOK, NEW t \in Threads, NEW b \in Appenders, NEW f \in Formatters \cup {Null},
         NEW has \in BOOLEAN, Write(t, b, f, has), ~spin[b], UNCHANGED spin,
         f = Null => Excused(b)', nulls \subseteq nulls'
  PROVE  LeavesAppenders(t) /\ LeavesHistory(t)
  <1>1. /\ formatter_ \in [Appenders -> Formatters \cup {Null}]
        /\ hasFormatter_ \in [Appenders -> BOOLEAN] /\ late \in [Threads -> SUBSET Appenders]
    BY DEF TypeOK
  <1>2. /\ formatter_' = [formatter_ EXCEPT ![b] = f]
        /\ hasFormatter_' = [hasFormatter_ EXCEPT ![b] = has]
        /\ \A u \in Threads \ {t} :
             late'[u] = IF Misses(u, b, has) THEN late[u] \cup {b} ELSE late[u]
    BY DEF Write
  <1>3. LeavesHistory(t)
    BY <1>2 DEF LeavesHistory
  <1>4. ASSUME NEW a \in Appenders
        PROVE  /\ formatter_'[a] # formatter_[a] => ~spin[a]
               /\ formatter_'[a] = Null => formatter_[a] = Null \/ Excused(a)'
               /\ formatter_'[a] # formatter_[a] \/ hasFormatter_'[a] # hasFormatter_[a] =>
                    \A u \in Threads \ {t} : Misses(u, a, hasFormatter_'[a]) => a \in late'[u]
    <2>1. CASE a = b
      <3>1. formatter_'[a] = f /\ hasFormatter_'[a] = has
        BY <1>1, <1>2, <2>1
      <3> QED BY <1>2, <2>1, <3>1
    <2>2. CASE a # b
      BY <1>1, <1>2, <2>2
    <2> QED BY <2>1, <2>2
  <1> QED BY <1>3, <1>4 DEF LeavesAppenders

LEMMA AppendersStep ==
  ASSUME LoggerInv, NEW t \in Threads, Begins(t) \/ Continues(t)
  PROVE  LeavesAppenders(t) /\ LeavesHistory(t)
  <1>0. /\ spin \in [Appenders -> BOOLEAN] /\ hasFormatter_ \in [Appenders -> BOOLEAN]
        /\ formatter_ \in [Appenders -> Formatters \cup {Null}] /\ late \in [Threads -> SUBSET Appenders]
        /\ formatterOf[at[t]] \in Formatters \cup {Null} /\ at[t] \in Loggers
        /\ call[t].appender \in Appenders /\ TypeOK
        /\ (formatterOf[at[t]] = Null => at[t] \in nulls)
    BY Typed DEF LoggerInv, TypeOK, NullLoggers
  <1> USE DEF own, state
  <1>1. CASE UNCHANGED <<spin, own>>
    BY <1>1 DEF LeavesAppenders, LeavesHistory
  <1>2. CASE GiveFormatter(t)
    <2>1. PICK a \in Appenders, f \in Formatters \cup {Null} :
            ~spin[a] /\ Write(t, a, f, f # Null) /\ Given(a, f) /\ UNCHANGED spin
      BY <1>2 DEF GiveFormatter
    <2>2. nulls \subseteq nulls' /\ (f = Null => Excused(a)')
      BY <2>1 DEF Given, Excused
    <2>3. (f # Null) \in BOOLEAN
      OBVIOUS
    <2> QED BY <1>0, <2>1, <2>2, <2>3, WriteLeaves
  <1>3. CASE AppenderLock(t)
    <2>1. UNCHANGED own /\ spin' = [spin EXCEPT ![This(t)] = TRUE]
      BY <1>3 DEF AppenderLock
    <2> QED BY <1>0, <2>1 DEF LeavesAppenders, LeavesHistory
  <1>4. CASE Format(t)
    <2>1. UNCHANGED own /\ spin' = [spin EXCEPT ![This(t)] = FALSE] /\ pc[t] = "format"
      BY <1>4 DEF Format
    <2> QED BY <1>0, <2>1 DEF LeavesAppenders, LeavesHistory
  <1>5. CASE Inherit(t)
    <2>1. /\ Write(t, call[t].appender, formatterOf[at[t]], hasFormatter_[call[t].appender])
          /\ ~spin[call[t].appender] /\ UNCHANGED <<spin, nulls>>
      BY <1>5 DEF Inherit
    <2>2. PICK a \in Appenders : a = call[t].appender
      BY <1>0
    <2>3. formatterOf[at[t]] = Null => Excused(a)'
      BY <1>0, <2>1 DEF Excused
    <2>4. hasFormatter_[a] \in BOOLEAN /\ nulls \subseteq nulls'
      BY <1>0, <2>1
    <2> QED BY <1>0, <2>1, <2>2, <2>3, <2>4, WriteLeaves
  <1>6. CASE SetEach(t)
    <2>1. ~spin[This(t)] /\ UNCHANGED <<spin, nulls>> /\ This(t) \in Appenders
      BY <1>0, <1>6, ThisTyped DEF SetEach
    <2>2. CASE hasFormatter_[This(t)]
      BY <1>1, <1>6, <2>1, <2>2 DEF SetEach
    <2>3. CASE ~hasFormatter_[This(t)]
      <3>1. Write(t, This(t), formatterOf[at[t]], FALSE)
        BY <1>6, <2>3 DEF SetEach
      <3>2. PICK a \in Appenders : a = This(t)
        BY <2>1
      <3>3. (formatterOf[at[t]] = Null => Excused(a)') /\ nulls \subseteq nulls'
        BY <1>0, <2>1 DEF Excused
      <3> QED BY <1>0, <2>1, <3>1, <3>2, <3>3, WriteLeaves
    <2> QED BY <2>2, <2>3
  <1>7. CASE SetOwn(t)
    <2>1. UNCHANGED <<spin, formatter_, hasFormatter_, late>> /\ nulls \subseteq nulls'
      BY <1>7 DEF SetOwn, Given
    <2> QED BY <2>1 DEF LeavesAppenders, LeavesHistory
  <1>8. CASE SetEnds(t)
    <2>1. /\ UNCHANGED <<spin, formatter_, hasFormatter_, nulls>>
          /\ \A u \in Threads \ {t} : late'[u] = late[u]
      BY <1>0, <1>8 DEF SetEnds
    <2> QED BY <2>1 DEF LeavesAppenders, LeavesHistory
  <1>9. CASE Begins(t) /\ ~GiveFormatter(t)
    BY <1>1, <1>9 DEF Begins, log, reopen, addAppender, delAppender, clearAppenders, setFormatter, Calls
  <1>10. CASE LogLock(t) \/ ReopenLock(t) \/ AddLock(t) \/ DelLock(t) \/ ClearLock(t) \/ SetLock(t)
    BY <1>1, <1>10 DEF LogLock, ReopenLock, AddLock, DelLock, ClearLock, SetLock, ReadLock, WriteLock
  <1>11. CASE LogToRoot(t) \/ LogSkips(t) \/ LogThrows(t) \/ LogEnds(t) \/ LogUnlock(t)
    BY <1>1, <1>11 DEF LogToRoot, LogSkips, LogThrows, LogEnds, LogUnlock
  <1>12. CASE ReopenThrows(t) \/ ReopenUnlock(t) \/ WriteUnlock(t) \/ Reopen(t) \/ AddTest(t) \/ AddLast(t)
    BY <1>1, <1>12 DEF ReopenThrows, ReopenUnlock, WriteUnlock, Reopen, AddTest, AddLast
  <1>13. CASE Erase(t) \/ Clear(t)
    BY <1>1, <1>13 DEF Erase, Clear
  <1> QED BY <1>2, <1>3, <1>4, <1>5, <1>6, <1>7, <1>8, <1>9, <1>10, <1>11, <1>12, <1>13 DEF Continues

-----------------------------------------------------------------------------
(* A step of another thread keeps what the invariant says of thread u.     *)

Leaves(t) ==
  LeavesLocals(t) /\ LeavesLocks(t) /\ LeavesLoggers(t) /\ LeavesAppenders(t) /\ LeavesHistory(t)

LEMMA ExcusedKept ==
  ASSUME NEW t \in Threads, Leaves(t), NEW a \in Appenders, Excused(a)
  PROVE  Excused(a)'
  BY DEF Leaves, LeavesHistory, Excused

LEMMA LeavesStep ==
  ASSUME LoggerInv, NEW t \in Threads, Begins(t) \/ Continues(t)
  PROVE  Leaves(t) /\ TypeOK'
  BY LocalsStep, LocksStep, LoggersStep, AppendersStep, BeginsType, ContinuesType DEF Leaves, LoggerInv

(* While a thread holds its logger, the list is the same to it.            *)
LEMMA ListKept ==
  ASSUME LoggerInv, NEW t \in Threads, Leaves(t), NEW u \in Threads, u # t
  PROVE  /\ pc[u] \in ReadPlaces \cup WritePlaces =>
              List(u)' = List(u) /\ This(u)' = This(u) /\ formatterOf'[at[u]] = formatterOf[at[u]]
         /\ \A l \in Loggers : u \in rd[l] => appenders_'[l] = appenders_[l]
  <1>0. at[u] \in Loggers /\ at'[u] = at[u] /\ i'[u] = i[u] /\ Excludes /\ Holds(u)
    BY Typed DEF LoggerInv, ThreadInv, Leaves, LeavesLocals
  <1>1. ASSUME NEW l \in Loggers, u \in rd[l] \/ u \in wr[l]
        PROVE  appenders_'[l] = appenders_[l] /\ formatterOf'[l] = formatterOf[l]
    <2>1. t \notin wr[l]
      BY <1>0, <1>1, Alone
    <2> QED BY <2>1 DEF Leaves, LeavesLoggers
  <1>2. ASSUME pc[u] \in ReadPlaces \cup WritePlaces
        PROVE  List(u)' = List(u) /\ This(u)' = This(u) /\ formatterOf'[at[u]] = formatterOf[at[u]]
    <2>1. u \in rd[at[u]] \/ u \in wr[at[u]]
      BY <1>0, <1>2 DEF Holds
    <2>2. appenders_'[at[u]] = appenders_[at[u]] /\ formatterOf'[at[u]] = formatterOf[at[u]]
      BY <1>0, <1>1, <2>1
    <2> QED BY <1>0, <2>2 DEF List, This
  <1> QED BY <1>1, <1>2

LEMMA OthersInv ==
  ASSUME LoggerInv, NEW t \in Threads, Leaves(t), NEW u \in Threads, u # t
  PROVE  ThreadInv(u)'
  <1>0. /\ pc'[u] = pc[u] /\ call'[u] = call[u] /\ at'[u] = at[u] /\ i'[u] = i[u] /\ done'[u] = done[u]
        /\ at[u] \in Loggers /\ call[u].of \in Loggers /\ call[u].appender \in Appenders
        /\ ThreadInv(u) /\ TypeOK
    BY Typed DEF LoggerInv, Leaves, LeavesLocals
  <1>1. Holds(u)'
    BY <1>0 DEF Holds, ThreadInv, Leaves, LeavesLocks
  <1>2. HandedOver(u)'
    BY <1>0, ListKept DEF HandedOver, ThreadInv, Leaves, LeavesLocks
  <1>3. Logs(u)'
    <2>1. ASSUME NEW n PROVE Passes(u, n)' <=> Passes(u, n)
      BY <1>0 DEF Passes
    <2>2. CASE pc[u] \in {"log", "log unlock"}
      <3>1. List(u)' = List(u)
        BY <2>2, ListKept DEF ReadPlaces
      <3> QED BY <1>0, <2>1, <2>2, <3>1 DEF Logs, ThreadInv
    <2>3. CASE pc[u] = "format"
      <3>1. List(u)' = List(u) /\ This(u)' = This(u)
        BY <2>3, ListKept DEF ReadPlaces
      <3>2. i[u] \in 1..Len(List(u)) /\ This(u) \in Appenders
        <4>1. i[u] <= Len(List(u)) /\ i[u] \in Nat /\ i[u] >= 1 /\ Len(List(u)) \in Nat
          BY <1>0, <2>3, Typed DEF Logs, ThreadInv
        <4> QED BY <4>1, Listed DEF This, LoggerInv
      <3>3. spin[This(u)] /\ (pc[t] = "format" => This(u) # This(t))
        BY <1>0, <2>3 DEF Logs, ThreadInv, OneFormats, LoggerInv
      <3>4. spin'[This(u)]
        BY <3>2, <3>3 DEF Leaves, LeavesAppenders
      <3> QED BY <1>0, <2>1, <2>3, <3>1, <3>4 DEF Logs, ThreadInv
    <2>4. CASE pc[u] \notin {"log", "format", "log unlock"}
      BY <1>0, <2>4 DEF Logs
    <2> QED BY <2>2, <2>3, <2>4
  <1>4. Reopens(u)'
    BY <1>0, ListKept DEF Reopens, ThreadInv, ReadPlaces
  <1>5. Adds(u)'
    <2> DEFINE a == call[u].appender
    <2>1. a \in Appenders /\ a' = a /\ Adds(u)
      BY <1>0 DEF ThreadInv
    <2>2. ASSUME pc[u] = "inherit" PROVE formatter_'[a] = Null \/ a \in late'[u]
      <3>1. formatter_[a] = Null \/ a \in late[u]
        BY <2>1, <2>2 DEF Adds
      <3>2. late[u] \subseteq late'[u]
        BY DEF Leaves, LeavesHistory
      <3>3. CASE formatter_'[a] = formatter_[a]
        BY <3>1, <3>2, <3>3
      <3>4. CASE formatter_'[a] # formatter_[a]
        <4>1. Misses(u, a, hasFormatter_'[a])
          BY <2>2 DEF Misses
        <4> QED BY <2>1, <3>4, <4>1 DEF Leaves, LeavesAppenders
      <3> QED BY <3>3, <3>4
    <2>3. ASSUME pc[u] = "append", formatter_'[a] = Null PROVE Excused(a)'
      <3>1. formatter_[a] = Null \/ Excused(a)'
        BY <2>1, <2>3 DEF Leaves, LeavesAppenders
      <3>2. formatter_[a] = Null => Excused(a)
        BY <2>1, <2>3 DEF Adds
      <3>3. Excused(a) => Excused(a)'
        BY <2>1, ExcusedKept
      <3> QED BY <3>1, <3>2, <3>3
    <2> QED BY <1>0, <2>2, <2>3 DEF Adds, Excused
  <1>6. Sets(u)'
    <2> SUFFICES ASSUME pc[u] = "set each" PROVE Sets(u)'
      BY <1>0 DEF Sets, ThreadInv
    <2>1. List(u)' = List(u) /\ formatterOf'[at[u]] = formatterOf[at[u]]
      BY ListKept DEF WritePlaces
    <2>2. /\ i[u] <= Len(List(u)) + 1 /\ i[u] \in Nat /\ Len(List(u)) \in Nat
          /\ formatterOf[at[u]] = call[u].formatter
          /\ u \in wr[at[u]]
      BY <1>0, Typed DEF Sets, ThreadInv, Holds, WritePlaces
    <2>3. ASSUME NEW n \in 1..(i[u] - 1)
          PROVE  \/ hasFormatter_'[List(u)[n]] \/ formatter_'[List(u)[n]] = formatterOf[at[u]]
                 \/ List(u)[n] \in late'[u]
      <3> DEFINE a == List(u)[n]
      <3>1. n \in 1..Len(List(u))
        BY <2>2, BehindLoop
      <3>2. a \in Appenders
        BY <1>0, <3>1, Listed
      <3>3. late[u] \subseteq late'[u]
        BY DEF Leaves, LeavesHistory
      <3>4. hasFormatter_[a] \/ formatter_[a] = formatterOf[at[u]] \/ a \in late[u]
        BY <1>0 DEF Sets, ThreadInv
      <3>5. CASE formatter_'[a] = formatter_[a] /\ hasFormatter_'[a] = hasFormatter_[a]
        BY <3>3, <3>4, <3>5
      <3>6. CASE ~(formatter_'[a] = formatter_[a] /\ hasFormatter_'[a] = hasFormatter_[a]) /\ ~hasFormatter_'[a]
        <4>1. Misses(u, a, hasFormatter_'[a])
          BY <3>6 DEF Misses
        <4> QED BY <3>2, <3>6, <4>1 DEF Leaves, LeavesAppenders
      <3> QED BY <3>5, <3>6
    <2> QED BY <1>0, <2>1, <2>2, <2>3 DEF Sets
  <1> QED BY <1>1, <1>2, <1>3, <1>4, <1>5, <1>6 DEF ThreadInv

-----------------------------------------------------------------------------
(* A step of thread t keeps what the invariant says of t.                  *)

(* Where nothing more is asked of a thread than to hold its lock.          *)
LEMMA NothingAsked ==
  ASSUME NEW t \in Threads,
         pc'[t] \in {"idle", "reopen lock", "add lock", "del lock", "clear lock", "set lock"}
  PROVE  ThreadInv(t)'
  BY DEF ThreadInv, Holds, HandedOver, Logs, Reopens, Adds, Sets, ReadPlaces, WritePlaces,
     LogPlaces

LEMMA LockAsked ==
  ASSUME NEW t \in Threads, pc'[t] \in {"add test", "del", "clear", "write unlock"}, t \in wr'[at'[t]]
  PROVE  ThreadInv(t)'
  BY DEF ThreadInv, Holds, HandedOver, Logs, Reopens, Adds, Sets, ReadPlaces, WritePlaces,
     LogPlaces

LEMMA BeginsInv ==
  ASSUME LoggerInv, NEW t \in Threads, Begins(t)
  PROVE  ThreadInv(t)'
  <1>0. /\ pc \in [Threads -> Places] /\ at \in [Threads -> Loggers] /\ call \in [Threads -> CallType]
    BY DEF LoggerInv, TypeOK, CallType
  <1> USE DEF Calls, Goes
  <1>1. CASE log(t)
    <2>1. pc'[t] = "log lock" /\ at'[t] = call'[t].of
      <3>1. PICK l \in Loggers, level \in Levels :
              /\ pc' = [pc EXCEPT ![t] = "log lock"] /\ at' = [at EXCEPT ![t] = l]
              /\ call' = [call EXCEPT ![t].of = l, ![t].level = level]
        BY <1>1 DEF log
      <3>2. call'[t].of = l
        BY <1>0, <3>1 DEF CallType
      <3> QED BY <1>0, <3>1, <3>2
    <2> QED BY <2>1 DEF ThreadInv, Holds, HandedOver, Logs, Reopens, Adds, Sets, ReadPlaces,
               WritePlaces
  <1>2. CASE GiveFormatter(t)
    <2>1. pc'[t] = "idle"
      BY <1>2 DEF GiveFormatter
    <2> QED BY <2>1, NothingAsked
  <1>3. CASE reopen(t) \/ addAppender(t) \/ delAppender(t) \/ clearAppenders(t) \/ setFormatter(t)
    <2>1. pc'[t] \in {"reopen lock", "add lock", "del lock", "clear lock", "set lock"}
      BY <1>0, <1>3 DEF reopen, addAppender, delAppender, clearAppenders, setFormatter
    <2> QED BY <2>1, NothingAsked
  <1> QED BY <1>1, <1>2, <1>3 DEF Begins

(* The loop has dealt with one place more.                                 *)
LEMMA OneMore ==
  ASSUME NEW P, NEW k \in Nat, k >= 1
  PROVE  /\ k \in P => {n \in 1..k : n \in P} = {n \in 1..(k - 1) : n \in P} \cup {k}
         /\ k \notin P => {n \in 1..k : n \in P} = {n \in 1..(k - 1) : n \in P}
  <1>1. 1..k = (1..(k - 1)) \cup {k}
    OBVIOUS
  <1> QED BY <1>1

LEMMA LogsInv ==
  ASSUME LoggerInv, NEW t \in Threads, Leaves(t),
         LogLock(t) \/ LogToRoot(t) \/ LogSkips(t) \/ AppenderLock(t) \/ Format(t) \/ LogThrows(t) \/ LogEnds(t)
  PROVE  ThreadInv(t)'
  <1>0. /\ pc \in [Threads -> Places] /\ at \in [Threads -> Loggers] /\ call \in [Threads -> CallType]
        /\ i \in [Threads -> Nat \ {0}] /\ done \in [Threads -> SUBSET Nat]
        /\ at[t] \in Loggers /\ call[t].of \in Loggers /\ i[t] \in Nat /\ i[t] >= 1
        /\ Len(List(t)) \in Nat /\ DOMAIN List(t) = 1..Len(List(t))
        /\ Holds(t) /\ HandedOver(t) /\ Logs(t)
    BY Typed DEF LoggerInv, TypeOK, CallType, ThreadInv
  <1>1. ASSUME pc'[t] \in LogPlaces, Holds(t)', HandedOver(t)', Logs(t)'
        PROVE  ThreadInv(t)'
    BY <1>1 DEF ThreadInv, Reopens, Adds, Sets, LogPlaces
  <1>2. CASE LogLock(t)
    <2>1. /\ pc[t] = "log lock" /\ wr[at[t]] = {} /\ rd' = [rd EXCEPT ![at[t]] = @ \cup {t}]
          /\ pc'[t] = "log" /\ i'[t] = 1 /\ done'[t] = {}
          /\ UNCHANGED <<call, at, appenders_>>
      BY <1>0, <1>2 DEF LogLock, ReadLock, AcquireRead, Goes, state
    <2>2. rd \in [Loggers -> SUBSET Threads]
      BY DEF LoggerInv, TypeOK
    <2>3. Holds(t)'
      BY <1>0, <2>1, <2>2 DEF Holds, WritePlaces
    <2>4. HandedOver(t)'
      BY <1>0, <2>1, <2>2 DEF HandedOver, LogPlaces
    <2>5. List(t)' = List(t)
      BY <2>1 DEF List
    <2>6. 1 <= Len(List(t)) + 1 /\ {} = {n \in 1..(1 - 1) : Passes(t, List(t)[n])'}
      BY <1>0
    <2>7. Logs(t)'
      BY <2>1, <2>5, <2>6 DEF Logs
    <2> QED BY <1>1, <2>1, <2>3, <2>4, <2>7 DEF LogPlaces
  <1>3. CASE LogToRoot(t)
    <2>1. /\ pc[t] = "log" /\ List(t) = <<>> /\ at[t] # Root /\ at[t] = call[t].of /\ t \in rd[at[t]]
          /\ UNCHANGED <<rd, wr, appenders_, call, i, done>>
      BY <1>0, <1>3 DEF LogToRoot, locks, state, HandedOver, LogPlaces, Holds, ReadPlaces
    <2>2. done[t] = {}
      <3>1. Len(List(t)) = 0
        BY <2>1
      <3>2. i[t] = 1
        BY <1>0, <2>1, <3>1 DEF Logs
      <3> QED BY <1>0, <2>1, <3>2 DEF Logs
    <2>3. CASE pc'[t] = "log lock" /\ at'[t] = Root
      <3>1. HandedOver(t)'
        BY <2>1, <2>3 DEF HandedOver, List
      <3> QED BY <1>1, <2>3, <3>1 DEF LogPlaces, Holds, ReadPlaces, WritePlaces, Logs
    <2>4. CASE pc'[t] = "log unlock" /\ at' = at
      <3>1. HandedOver(t)' /\ Holds(t)'
        BY <2>1, <2>4 DEF HandedOver, Holds, WritePlaces
      <3>2. List(t)' = <<>>
        BY <2>1, <2>4 DEF List
      <3>3. Logs(t)'
        <4>1. {n \in DOMAIN List(t)' : Passes(t, List(t)[n])'} = {}
          BY <3>2
        <4> QED BY <2>1, <2>2, <2>4, <4>1 DEF Logs
      <3> QED BY <1>1, <2>4, <3>1, <3>3 DEF LogPlaces
    <2> QED BY <1>0, <1>3, <2>3, <2>4 DEF LogToRoot, Goes
  <1>4. ASSUME UNCHANGED <<rd, wr, appenders_, call, at>>, pc[t] \in {"log", "format"},
               pc'[t] \in {"log", "format", "log unlock", "log throws"}
        PROVE  Holds(t)' /\ HandedOver(t)' /\ List(t)' = List(t) /\ \A x : Passes(t, x)' <=> Passes(t, x)
    BY <1>0, <1>4 DEF Holds, HandedOver, List, Passes, ReadPlaces, WritePlaces, LogPlaces
  <1>5. CASE LogSkips(t)
    <2>1. /\ pc[t] = "log" /\ i[t] <= Len(List(t)) /\ ~Passes(t, List(t)[i[t]])
          /\ UNCHANGED <<rd, wr, appenders_, call, at, pc>>
          /\ i'[t] = i[t] + 1 /\ done'[t] = done[t]
      BY <1>0, <1>5 DEF LogSkips, This, NextPlace, locks, state
    <2>2. {n \in 1..i[t] : Passes(t, List(t)[n])} = {n \in 1..(i[t] - 1) : Passes(t, List(t)[n])}
      BY <1>0, <2>1, OneMore
    <2>3. Logs(t)'
      BY <1>0, <1>4, <2>1, <2>2 DEF Logs
    <2> QED BY <1>1, <1>4, <2>1, <2>3 DEF LogPlaces
  <1>6. CASE AppenderLock(t)
    <2>1. /\ pc[t] = "log" /\ i[t] <= Len(List(t)) /\ Passes(t, This(t))
          /\ UNCHANGED <<rd, wr, appenders_, call, at, i, done>>
          /\ pc'[t] = "format" /\ spin' = [spin EXCEPT ![This(t)] = TRUE]
      BY <1>0, <1>6 DEF AppenderLock, locks, state, Goes
    <2>2. This(t)' = This(t) /\ spin'[This(t)]
      <3>1. i[t] \in 1..Len(List(t))
        BY <1>0, <2>1
      <3>2. This(t) \in Appenders
        BY <3>1, Listed DEF This, LoggerInv
      <3> QED BY <1>4, <2>1, <3>2 DEF This, LoggerInv, TypeOK
    <2>3. Logs(t)'
      BY <1>0, <1>4, <2>1, <2>2 DEF Logs
    <2> QED BY <1>1, <1>4, <2>1, <2>3 DEF LogPlaces
  <1>7. CASE Format(t)
    <2>1. /\ pc[t] = "format" /\ i[t] <= Len(List(t)) /\ Passes(t, List(t)[i[t]])
          /\ UNCHANGED <<rd, wr, appenders_, call, at>>
          /\ i'[t] = i[t] + 1 /\ done'[t] = done[t] \cup {i[t]} /\ pc'[t] = "log"
      BY <1>0, <1>7 DEF Format, This, NextPlace, locks, state, Goes, Logs
    <2>2. {n \in 1..i[t] : Passes(t, List(t)[n])}
            = {n \in 1..(i[t] - 1) : Passes(t, List(t)[n])} \cup {i[t]}
      BY <1>0, <2>1, OneMore
    <2>3. Logs(t)'
      BY <1>0, <1>4, <2>1, <2>2 DEF Logs
    <2> QED BY <1>1, <1>4, <2>1, <2>3 DEF LogPlaces
  <1>8. CASE LogEnds(t)
    <2>1. /\ pc[t] = "log" /\ i[t] > Len(List(t))
          /\ UNCHANGED <<rd, wr, appenders_, call, at, i, done>> /\ pc'[t] = "log unlock"
      BY <1>0, <1>8 DEF LogEnds, locks, state, Goes
    <2>2. done[t] = {n \in DOMAIN List(t) : Passes(t, List(t)[n])}
      <3>1. i[t] - 1 = Len(List(t))
        <4>1. i[t] <= Len(List(t)) + 1 /\ i[t] > Len(List(t)) /\ i[t] \in Nat /\ Len(List(t)) \in Nat
          BY <1>0, <2>1 DEF Logs
        <4> QED BY <4>1
      <3>2. 1..(i[t] - 1) = DOMAIN List(t)
        BY <1>0, <3>1
      <3> QED BY <1>0, <2>1, <3>2 DEF Logs
    <2>3. Logs(t)'
      BY <1>0, <1>4, <2>1, <2>2 DEF Logs
    <2> QED BY <1>1, <1>4, <2>1, <2>3 DEF LogPlaces
  <1>9. CASE LogThrows(t)
    <2>1. pc[t] = "log" /\ UNCHANGED <<rd, wr, appenders_, call, at>> /\ pc'[t] = "log throws"
      BY <1>0, <1>9 DEF LogThrows, locks, state, Goes
    <2> QED BY <1>1, <1>4, <2>1 DEF LogPlaces, Logs
  <1> QED BY <1>2, <1>3, <1>5, <1>6, <1>7, <1>8, <1>9

LEMMA LockingInv ==
  ASSUME LoggerInv, NEW t \in Threads, Leaves(t),
         ReopenLock(t) \/ AddLock(t) \/ DelLock(t) \/ ClearLock(t) \/ SetLock(t)
  PROVE  ThreadInv(t)'
  <1>0. /\ pc \in [Threads -> Places] /\ i \in [Threads -> Nat \ {0}] /\ done \in [Threads -> SUBSET Nat]
        /\ rd \in [Loggers -> SUBSET Threads] /\ wr \in [Loggers -> SUBSET Threads]
        /\ at[t] \in Loggers /\ Len(List(t)) \in Nat
    BY Typed DEF LoggerInv, TypeOK
  <1>1. CASE ReopenLock(t)
    <2>1. /\ pc'[t] = "reopen" /\ i'[t] = 1 /\ done'[t] = {} /\ t \in rd'[at[t]]
          /\ at' = at /\ appenders_' = appenders_
      BY <1>0, <1>1 DEF ReopenLock, ReadLock, AcquireRead, Goes, state
    <2>2. Holds(t)'
      BY <2>1 DEF Holds, WritePlaces
    <2>3. Reopens(t)'
      <3>1. List(t)' = List(t) /\ 1..(1 - 1) = {}
        BY <2>1 DEF List
      <3> QED BY <1>0, <2>1, <3>1 DEF Reopens
    <2> QED BY <2>1, <2>2, <2>3 DEF ThreadInv, HandedOver, Logs, Adds, Sets, LogPlaces
  <1>2. CASE AddLock(t) \/ DelLock(t) \/ ClearLock(t)
    <2>1. pc'[t] \in {"add test", "del", "clear"} /\ at' = at /\ wr' = [wr EXCEPT ![at[t]] = {t}]
      BY <1>0, <1>2 DEF AddLock, DelLock, ClearLock, WriteLock, AcquireWrite, Goes
    <2> QED BY <1>0, <2>1, LockAsked
  <1>3. CASE SetLock(t)
    <2>1. pc'[t] = "set" /\ i'[t] = 1 /\ at' = at /\ wr' = [wr EXCEPT ![at[t]] = {t}]
      BY <1>0, <1>3 DEF SetLock, WriteLock, AcquireWrite, Goes
    <2> QED BY <1>0, <2>1
            DEF ThreadInv, Holds, HandedOver, Logs, Reopens, Adds, Sets, ReadPlaces, LogPlaces
  <1> QED BY <1>1, <1>2, <1>3

LEMMA UnlockingInv ==
  ASSUME LoggerInv, NEW t \in Threads, Leaves(t), LogUnlock(t) \/ ReopenThrows(t) \/ ReopenUnlock(t) \/ WriteUnlock(t)
  PROVE  ThreadInv(t)'
  <1>0. /\ pc \in [Threads -> Places] /\ at \in [Threads -> Loggers] /\ done \in [Threads -> SUBSET Nat]
        /\ rd \in [Loggers -> SUBSET Threads]
        /\ at[t] \in Loggers /\ call[t].of \in Loggers
    BY Typed DEF LoggerInv, TypeOK
  <1>1. CASE Returns(t)
    <2>1. pc'[t] = "idle"
      BY <1>0, <1>1 DEF Returns, Goes
    <2> QED BY <2>1, NothingAsked
  <1>2. CASE LogUnlock(t) /\ at[t] # call[t].of
    <2>1. /\ pc[t] \in {"log unlock", "log throws"}
          /\ pc' = pc /\ call' = call /\ at'[t] = call[t].of /\ done'[t] = {}
          /\ rd' = [rd EXCEPT ![at[t]] = @ \ {t}] /\ appenders_' = appenders_
      BY <1>0, <1>2 DEF LogUnlock, Release, state
    <2>2. t \in rd[call[t].of] /\ appenders_[call[t].of] = <<>>
      BY <1>2, <2>1 DEF LoggerInv, ThreadInv, HandedOver, LogPlaces
    <2>3. t \in rd'[call[t].of]
      BY <1>0, <1>2, <2>1, <2>2
    <2>4. List(t)' = <<>>
      BY <2>1, <2>2 DEF List
    <2>5. Logs(t)'
      <3>1. {n \in DOMAIN List(t)' : Passes(t, List(t)[n])'} = {}
        BY <2>4
      <3> QED BY <2>1, <3>1 DEF Logs
    <2> QED BY <2>1, <2>3, <2>5 DEF ThreadInv, Holds, HandedOver, Reopens, Adds, Sets, WritePlaces
  <1> QED BY <1>1, <1>2 DEF LogUnlock, ReopenThrows, ReopenUnlock, WriteUnlock

LEMMA WritingInv ==
  ASSUME LoggerInv, NEW t \in Threads, Leaves(t),
         Inherit(t) \/ AddTest(t) \/ AddLast(t) \/ Erase(t) \/ Clear(t) \/ SetOwn(t) \/ SetEach(t) \/ SetEnds(t)
  PROVE  ThreadInv(t)'
  <1>0. /\ pc \in [Threads -> Places] /\ i \in [Threads -> Nat \ {0}]
        /\ formatterOf \in [Loggers -> Formatters \cup {Null}]
        /\ hasFormatter_ \in [Appenders -> BOOLEAN]
        /\ formatter_ \in [Appenders -> Formatters \cup {Null}] /\ late \in [Threads -> SUBSET Appenders]
        /\ at[t] \in Loggers /\ call[t].appender \in Appenders /\ Len(List(t)) \in Nat
        /\ i[t] \in Nat /\ i[t] >= 1
        /\ DOMAIN List(t) = 1..Len(List(t)) /\ Holds(t) /\ Adds(t) /\ Sets(t)
        /\ (formatterOf[at[t]] = Null => at[t] \in nulls) /\ TypeOK
    BY Typed, Constants DEF LoggerInv, TypeOK, ThreadInv, NullLoggers
  <1> USE DEF locks, state, own, Goes
  <1>1. CASE AddTest(t)
    <2>1. /\ pc[t] = "add test" /\ UNCHANGED <<wr, at, call, appenders_, formatter_>>
          /\ pc'[t] = IF formatter_[call[t].appender] = Null THEN "inherit" ELSE "append"
      BY <1>0, <1>1 DEF AddTest
    <2>2. t \in wr[at[t]]
      BY <1>0, <2>1 DEF Holds, WritePlaces
    <2> QED BY <2>1, <2>2
            DEF ThreadInv, Holds, HandedOver, Logs, Reopens, Adds, Sets, ReadPlaces, LogPlaces
  <1>2. CASE Inherit(t)
    <2>1. /\ pc[t] = "inherit" /\ UNCHANGED <<wr, at, call, nulls>> /\ pc'[t] = "append"
          /\ Write(t, call[t].appender, formatterOf[at[t]], hasFormatter_[call[t].appender])
      BY <1>0, <1>2 DEF Inherit
    <2>2. formatter_'[call[t].appender] = formatterOf[at[t]]
      BY <1>0, <2>1 DEF Write
    <2>3. t \in wr[at[t]]
      BY <1>0, <2>1 DEF Holds, WritePlaces
    <2>4. formatter_'[call[t].appender] = Null => Excused(call[t].appender)'
      BY <1>0, <2>1, <2>2 DEF Excused
    <2>5. Adds(t)'
      BY <2>1, <2>4 DEF Adds, Excused
    <2> QED BY <2>1, <2>3, <2>5
            DEF ThreadInv, Holds, HandedOver, Logs, Reopens, Sets, ReadPlaces, LogPlaces
  <1>3. CASE AddLast(t) \/ Erase(t) \/ Clear(t) \/ SetEnds(t)
    <2>1. pc[t] \in WritePlaces /\ pc'[t] = "write unlock" /\ UNCHANGED <<wr, at>>
      BY <1>0, <1>3 DEF AddLast, Erase, Clear, SetEnds, WritePlaces
    <2> QED BY <1>0, <2>1, LockAsked DEF Holds
  <1>4. ASSUME t \in wr'[at'[t]], pc'[t] = "set each", Sets(t)'
        PROVE  ThreadInv(t)'
    BY <1>4 DEF ThreadInv, Holds, HandedOver, Logs, Reopens, Adds, ReadPlaces, LogPlaces
  <1>5. CASE SetOwn(t)
    <2>1. /\ pc[t] = "set" /\ pc'[t] = "set each" /\ UNCHANGED <<wr, at, call, i, appenders_>>
          /\ formatterOf'[at[t]] = call[t].formatter
      BY <1>0, <1>5 DEF SetOwn
    <2>2. t \in wr[at[t]] /\ i[t] = 1 /\ List(t)' = List(t)
      BY <1>0, <2>1 DEF Holds, WritePlaces, List, Sets
    <2>3. 1 <= Len(List(t)) + 1 /\ 1..(1 - 1) = {}
      BY <1>0
    <2>4. Sets(t)'
      BY <2>1, <2>2, <2>3 DEF Sets
    <2> QED BY <1>4, <2>1, <2>2, <2>4
  <1>6. CASE SetEach(t)
    <2>1. /\ pc[t] = "set each" /\ pc' = pc /\ UNCHANGED <<wr, at, call, appenders_, formatterOf>>
          /\ i'[t] = i[t] + 1 /\ i[t] <= Len(List(t))
      BY <1>0, <1>6 DEF SetEach, NextPlace
    <2>0. i[t] \in Nat /\ i[t] >= 1 /\ Len(List(t)) \in Nat /\ i[t] <= Len(List(t))
      BY <1>0, <2>1
    <2>2. t \in wr[at[t]] /\ List(t)' = List(t) /\ formatterOf[at[t]] = call[t].formatter
      BY <1>0, <2>1 DEF Holds, WritePlaces, List, Sets
    <2>3. This(t) = List(t)[i[t]] /\ This(t) \in Appenders
      BY <1>0, <2>1, ThisTyped
    <2>4. \A a \in Appenders \ {This(t)} :
            /\ formatter_'[a] = formatter_[a] /\ hasFormatter_'[a] = hasFormatter_[a]
            /\ a \in late[t] => a \in late'[t]
      BY <1>0, <1>6, <2>3 DEF SetEach, Write
    <2>5. hasFormatter_'[This(t)] \/ formatter_'[This(t)] = formatterOf[at[t]]
      BY <1>0, <1>6, <2>3 DEF SetEach, Write
    <2>6. ASSUME NEW n \in 1..i[t]
          PROVE  \/ hasFormatter_'[List(t)[n]] \/ formatter_'[List(t)[n]] = formatterOf[at[t]]
                 \/ List(t)[n] \in late'[t]
      <3>1. n \in 1..(i[t] - 1) \/ n = i[t]
        BY <2>0
      <3>2. n \in 1..Len(List(t))
        BY <2>0
      <3>3. List(t)[n] \in Appenders
        BY <1>0, <3>2, Listed
      <3>4. CASE List(t)[n] = This(t)
        BY <2>5, <3>4
      <3>5. CASE List(t)[n] # This(t)
        <4>1. n \in 1..(i[t] - 1)
          BY <2>3, <3>1, <3>5
        <4>2. \/ hasFormatter_[List(t)[n]] \/ formatter_[List(t)[n]] = formatterOf[at[t]]
              \/ List(t)[n] \in late[t]
          BY <1>0, <2>1, <4>1 DEF Sets
        <4> QED BY <2>4, <3>3, <3>5, <4>2
      <3> QED BY <3>4, <3>5
    <2>7. i'[t] <= Len(List(t)) + 1 /\ i'[t] - 1 = i[t]
      <3>1. i'[t] = i[t] + 1
        BY <2>1
      <3> QED BY <2>0, <3>1
    <2>8. Sets(t)'
      BY <2>1, <2>2, <2>6, <2>7 DEF Sets
    <2> QED BY <1>4, <2>1, <2>2, <2>8
  <1> QED BY <1>1, <1>2, <1>3, <1>5, <1>6

LEMMA ReopenInv ==
  ASSUME LoggerInv, NEW t \in Threads, Leaves(t), Reopen(t)
  PROVE  ThreadInv(t)'
  <1>0. /\ i \in [Threads -> Nat \ {0}] /\ done \in [Threads -> SUBSET Nat]
        /\ i[t] \in Nat /\ i[t] >= 1 /\ Len(List(t)) \in Nat /\ Holds(t) /\ Reopens(t)
    BY Typed DEF LoggerInv, TypeOK, ThreadInv
  <1>1. /\ pc[t] = "reopen" /\ i[t] <= Len(List(t)) /\ UNCHANGED <<rd, at, pc, appenders_>>
        /\ i'[t] = i[t] + 1 /\ done'[t] = done[t] \cup {i[t]}
    BY <1>0 DEF Reopen, NextPlace, locks, state
  <1>2. done[t] = 1..(i[t] - 1) /\ t \in rd[at[t]]
    BY <1>0, <1>1 DEF Reopens, Holds, ReadPlaces
  <1>3. (1..(i[t] - 1)) \cup {i[t]} = 1..i[t] /\ i'[t] - 1 = i[t] /\ i'[t] <= Len(List(t)) + 1
    BY <1>0, <1>1
  <1>4. Reopens(t)' /\ Holds(t)'
    <2>1. List(t)' = List(t)
      BY <1>1 DEF List
    <2> QED BY <1>1, <1>2, <1>3, <2>1 DEF Reopens, Holds, WritePlaces
  <1> QED BY <1>1, <1>4 DEF ThreadInv, HandedOver, Logs, Adds, Sets, LogPlaces

-----------------------------------------------------------------------------
(* The rest of the invariant, and the theorems.                            *)

LEMMA OwnInv ==
  ASSUME LoggerInv, NEW t \in Threads, Begins(t) \/ Continues(t), Leaves(t)
  PROVE  ThreadInv(t)'
  BY BeginsInv, LogsInv, LockingInv, UnlockingInv, WritingInv, ReopenInv DEF Continues

LEMMA ListsInv ==
  ASSUME LoggerInv, NEW t \in Threads, Begins(t) \/ Continues(t), Leaves(t), TypeOK'
  PROVE  NullLoggers' /\ NullOnlyGiven'
  <1>1. /\ TypeOK /\ NullLoggers /\ NullOnlyGiven /\ Adds(t) /\ call[t].appender \in Appenders
        /\ LeavesLoggers(t) /\ LeavesAppenders(t) /\ LeavesHistory(t)
    BY Typed DEF LoggerInv, ThreadInv, Leaves
  <1>2. NullLoggers'
    BY <1>1 DEF NullLoggers, LeavesLoggers, LeavesHistory
  <1>3. ASSUME NEW a \in Appenders, formatter_[a] = Null => Excused(a), formatter_'[a] = Null
        PROVE  Excused(a)'
    BY <1>1, <1>3, ExcusedKept DEF LeavesAppenders
  <1>4. ASSUME NEW l \in Loggers, NEW n \in DOMAIN appenders_'[l], formatter_'[appenders_'[l][n]] = Null
        PROVE  appenders_'[l][n] \in nulls' \/ \E k \in Loggers : k \in nulls'
    <2>1. PICK a : a = appenders_'[l][n]
      OBVIOUS
    <2>2. a \in Appenders /\ (formatter_[a] = Null => Excused(a))
      <3>1. CASE \E m \in DOMAIN appenders_[l] : a = appenders_[l][m]
        BY <1>1, <3>1, ListTyped DEF NullOnlyGiven
      <3>2. CASE pc[t] = "append" /\ l = at[t] /\ a = call[t].appender
        BY <1>1, <3>2 DEF Adds
      <3> QED BY <1>1, <1>4, <2>1, <3>1, <3>2, ListsAfter
    <2>3. formatter_'[a] = Null
      BY <1>4, <2>1
    <2>4. a \in nulls' \/ \E k \in Loggers : k \in nulls'
      BY <1>3, <2>2, <2>3 DEF Excused
    <2> QED BY <2>1, <2>4
  <1>5. NullOnlyGiven'
    BY <1>4 DEF NullOnlyGiven, Excused
  <1> QED BY <1>2, <1>5

(* Only the acquisition of a spinlock leads to the formatting.             *)
LEMMA ToFormat ==
  ASSUME TypeOK, NEW t \in Threads, Begins(t) \/ Continues(t), pc'[t] = "format"
  PROVE  AppenderLock(t)
  <1>0. pc \in [Threads -> Places]
    BY DEF TypeOK
  <1> USE DEF Goes
  <1>1. CASE Begins(t)
    BY <1>0, <1>1 DEF Begins, log, reopen, addAppender, delAppender, clearAppenders, setFormatter,
         GiveFormatter, Calls
  <1>2. CASE LogLock(t) \/ ReopenLock(t) \/ AddLock(t) \/ DelLock(t) \/ ClearLock(t) \/ SetLock(t)
    BY <1>0, <1>2 DEF LogLock, ReopenLock, AddLock, DelLock, ClearLock, SetLock, ReadLock, WriteLock
  <1>3. CASE LogToRoot(t) \/ LogSkips(t) \/ Format(t) \/ LogThrows(t) \/ LogEnds(t)
    BY <1>0, <1>3 DEF LogToRoot, LogSkips, Format, LogThrows, LogEnds
  <1>4. CASE LogUnlock(t) \/ ReopenThrows(t) \/ ReopenUnlock(t) \/ WriteUnlock(t)
    BY <1>0, <1>4 DEF LogUnlock, ReopenThrows, ReopenUnlock, WriteUnlock, Returns
  <1>5. CASE Reopen(t) \/ AddTest(t) \/ Inherit(t) \/ AddLast(t) \/ Erase(t) \/ Clear(t)
    BY <1>0, <1>5 DEF Reopen, AddTest, Inherit, AddLast, Erase, Clear
  <1>6. CASE SetOwn(t) \/ SetEach(t) \/ SetEnds(t)
    BY <1>0, <1>6 DEF SetOwn, SetEach, SetEnds
  <1> QED BY <1>1, <1>2, <1>3, <1>4, <1>5, <1>6 DEF Continues

LEMMA OneFormatsInv ==
  ASSUME LoggerInv, NEW t \in Threads, Begins(t) \/ Continues(t), Leaves(t)
  PROVE  OneFormats'
  <1>1. ASSUME NEW u \in Threads, u # t, pc'[u] = "format"
        PROVE  pc[u] = "format" /\ This(u)' = This(u) /\ spin[This(u)]
    <2>1. pc[u] = "format" /\ ThreadInv(u)
      BY <1>1 DEF Leaves, LeavesLocals, LoggerInv
    <2> QED BY <1>1, <2>1, ListKept DEF ThreadInv, Logs, ReadPlaces
  <1>2. ASSUME NEW u \in Threads, u # t, pc'[u] = "format", pc'[t] = "format"
        PROVE  This(u)' # This(t)'
    <2>1. AppenderLock(t)
      BY <1>2, ToFormat DEF LoggerInv
    <2>2. ~spin[This(t)] /\ This(t)' = This(t)
      BY <2>1 DEF AppenderLock, This, List, state
    <2> QED BY <1>1, <1>2, <2>2
  <1>3. ASSUME NEW u \in Threads, NEW v \in Threads, u # t, v # t,
               pc'[u] = "format", pc'[v] = "format", This(u)' = This(v)'
        PROVE  u = v
    BY <1>1, <1>3 DEF LoggerInv, OneFormats
  <1> QED BY <1>2, <1>3 DEF OneFormats

LEMMA StepInv == LoggerInv /\ [Next]_vars => LoggerInv'
  <1> SUFFICES ASSUME LoggerInv, [Next]_vars PROVE LoggerInv'
    OBVIOUS
  <1>1. ASSUME NEW t \in Threads, Begins(t) \/ Continues(t)
        PROVE  LoggerInv'
    <2>1. Leaves(t) /\ TypeOK' /\ Excludes'
      BY <1>1, LeavesStep, LocksStep
    <2>2. ThreadInv(t)' /\ NullLoggers' /\ NullOnlyGiven' /\ OneFormats'
      BY <1>1, <2>1, OwnInv, ListsInv, OneFormatsInv
    <2>3. \A u \in Threads : ThreadInv(u)'
      BY <2>1, <2>2, OthersInv DEF LoggerInv
    <2> QED BY <2>1, <2>2, <2>3 DEF LoggerInv
  <1>2. CASE UNCHANGED vars
    <2> USE <1>2 DEF vars, locks, state, own, List, This, Passes
    <2>1. TypeOK' /\ Excludes' /\ NullLoggers' /\ NullOnlyGiven' /\ OneFormats'
      BY DEF LoggerInv, TypeOK, Excludes, NullLoggers, NullOnlyGiven, Excused, OneFormats
    <2>2. ASSUME NEW t \in Threads PROVE ThreadInv(t)'
      <3>1. ThreadInv(t)
        BY DEF LoggerInv
      <3>2. Holds(t)' /\ HandedOver(t)' /\ Logs(t)'
        BY <3>1 DEF ThreadInv, Holds, HandedOver, Logs
      <3>3. Reopens(t)' /\ Adds(t)' /\ Sets(t)'
        BY <3>1 DEF ThreadInv, Reopens, Adds, Sets, Excused
      <3> QED BY <3>2, <3>3 DEF ThreadInv
    <2> QED BY <2>1, <2>2 DEF LoggerInv
  <1> QED BY <1>1, <1>2 DEF Next

(* Every variable keeps its type.                                          *)
THEOREM TypeCorrect == Spec => []TypeOK
  <1>1. LoggerInv => TypeOK
    BY DEF LoggerInv
  <1> QED BY <1>1, InitInv, StepInv, PTL DEF Spec

(* An appender that a logger lists has a formatter, in whatever order      *)
(* threads add, delete and clear appenders and set formatters, and however *)
(* many loggers share it: unless null was given to it or to some logger,   *)
(* log never dereferences a null formatter_.                               *)
THEOREM FormatterThere == Spec => []NullOnlyGiven
  <1>1. LoggerInv => NullOnlyGiven
    BY DEF LoggerInv
  <1> QED BY <1>1, InitInv, StepInv, PTL DEF Spec

(* The loops of log and reopen, run while other threads wait to change the *)
(* list, deal with the appenders they should, each of them and no other.   *)
THEOREM EveryEventReaches == Spec => []EventReaches
  <1>1. ASSUME LoggerInv PROVE EventReaches
    <2>1. ASSUME NEW t \in Threads, pc[t] = "reopen", i[t] > Len(List(t))
          PROVE  done[t] = DOMAIN List(t)
      <3>1. /\ i[t] \in Nat /\ Len(List(t)) \in Nat /\ DOMAIN List(t) = 1..Len(List(t))
            /\ i[t] <= Len(List(t)) + 1 /\ done[t] = 1..(i[t] - 1)
        BY <1>1, <2>1, Typed DEF LoggerInv, ThreadInv, Reopens
      <3>2. i[t] - 1 = Len(List(t))
        BY <2>1, <3>1
      <3> QED BY <3>1, <3>2
    <2> QED BY <1>1, <2>1 DEF EventReaches, LoggerInv, ThreadInv, Logs
  <1> QED BY <1>1, InitInv, StepInv, PTL DEF Spec

(* The iterators of the loops stay valid, and no formatter is replaced     *)
(* while an event is formatted with it.                                    *)
THEOREM IteratorsStayValid == Spec => IterationStable
  <1>1. ASSUME LoggerInv, [Next]_vars, NEW t \in Threads
        PROVE  /\ \A l \in Loggers : t \in rd[l] => appenders_'[l] = appenders_[l]
               /\ pc[t] = "format" => formatter_'[This(t)] = formatter_[This(t)]
    <2>1. ASSUME NEW u \in Threads, Begins(u) \/ Continues(u)
          PROVE  /\ \A l \in Loggers : t \in rd[l] => appenders_'[l] = appenders_[l]
                 /\ pc[t] = "format" => formatter_'[This(t)] = formatter_[This(t)]
      <3>1. Leaves(u) /\ Excludes
        BY <1>1, <2>1, LeavesStep DEF LoggerInv
      <3>2. ASSUME NEW l \in Loggers, t \in rd[l]
            PROVE  appenders_'[l] = appenders_[l]
        <4>1. u \notin wr[l]
          BY <3>1, <3>2 DEF Excludes
        <4> QED BY <3>1, <4>1 DEF Leaves, LeavesLoggers
      <3>3. ASSUME pc[t] = "format"
            PROVE  formatter_'[This(t)] = formatter_[This(t)]
        <4>1. i[t] <= Len(List(t)) /\ spin[This(t)] /\ i[t] \in Nat /\ i[t] >= 1 /\ Len(List(t)) \in Nat
          BY <1>1, <3>3, Typed DEF LoggerInv, ThreadInv, Logs
        <4>2. i[t] \in 1..Len(List(t))
          BY <4>1
        <4>3. This(t) \in Appenders
          BY <1>1, <4>2, Listed DEF This, LoggerInv
        <4> QED BY <3>1, <4>1, <4>3 DEF Leaves, LeavesAppenders
      <3> QED BY <3>2, <3>3
    <2>2. CASE UNCHANGED vars
      BY <2>2 DEF vars, state, own
    <2> QED BY <1>1, <2>1, <2>2 DEF Next
  <1>2. LoggerInv /\ [Next]_vars =>
          [\A t \in Threads :
             /\ \A l \in Loggers : t \in rd[l] => appenders_'[l] = appenders_[l]
             /\ pc[t] = "format" => formatter_'[This(t)] = formatter_[This(t)]]_vars
    BY <1>1
  <1> QED BY <1>2, InitInv, StepInv, PTL DEF Spec, IterationStable

(* No logger replaces the formatter that an appender was given, unless it  *)
(* was given it between addAppender's look and its assignment.             *)
LEMMA OwnFormatterStays == LoggerInv /\ [Next]_vars => OwnFormatterKept
  <1>1. ASSUME LoggerInv, [Next]_vars, NEW a \in Appenders,
               hasFormatter_[a], formatter_[a] # Null, formatter_'[a] # formatter_[a]
        PROVE  \E t \in Threads :
                 \/ pc[t] = "idle" /\ calls'[t] # calls[t]
                 \/ pc[t] = "inherit" /\ call[t].appender = a /\ a \in late[t]
    <2>1. PICK t \in Threads : Begins(t) \/ Continues(t)
      BY <1>1 DEF Next, vars, state, own
    <2>2. /\ calls \in [Threads -> Nat] /\ formatter_ \in [Appenders -> Formatters \cup {Null}]
          /\ call[t].appender \in Appenders /\ Adds(t) /\ TypeOK
      BY <1>1, Typed DEF LoggerInv, TypeOK, ThreadInv
    <2> USE DEF own, state
    <2>3. CASE GiveFormatter(t)
      <3>1. pc[t] = "idle" /\ calls' = [calls EXCEPT ![t] = @ + 1]
        BY <2>3 DEF GiveFormatter
      <3>2. calls[t] \in Nat /\ calls'[t] = calls[t] + 1
        BY <2>2, <3>1, Constants
      <3>3. calls'[t] # calls[t]
        BY <3>2
      <3> QED BY <3>1, <3>3
    <2>4. CASE Inherit(t)
      <3>1. pc[t] = "inherit" /\ call[t].appender = a
        BY <1>1, <2>2, <2>4 DEF Inherit, Write
      <3> QED BY <1>1, <2>2, <3>1 DEF Adds
    <2>5. ~SetEach(t)
      <3> SUFFICES ASSUME SetEach(t) PROVE FALSE
        OBVIOUS
      <3>1. ~hasFormatter_[This(t)] /\ formatter_' = [formatter_ EXCEPT ![This(t)] = formatterOf[at[t]]]
        BY <1>1 DEF SetEach, Write
      <3>2. a = This(t)
        BY <1>1, <2>2, <3>1
      <3> QED BY <1>1, <3>1, <3>2
    <2>6. CASE Begins(t) /\ ~GiveFormatter(t)
      BY <1>1, <2>6 DEF Begins, log, reopen, addAppender, delAppender, clearAppenders, setFormatter, Calls
    <2>7. CASE LogLock(t) \/ ReopenLock(t) \/ AddLock(t) \/ DelLock(t) \/ ClearLock(t) \/ SetLock(t)
      BY <1>1, <2>7 DEF LogLock, ReopenLock, AddLock, DelLock, ClearLock, SetLock, ReadLock, WriteLock
    <2>8. CASE LogToRoot(t) \/ LogSkips(t) \/ AppenderLock(t) \/ Format(t) \/ LogThrows(t) \/ LogEnds(t) \/ LogUnlock(t)
      BY <1>1, <2>8 DEF LogToRoot, LogSkips, AppenderLock, Format, LogThrows, LogEnds, LogUnlock
    <2>9. CASE ReopenThrows(t) \/ ReopenUnlock(t) \/ WriteUnlock(t) \/ Reopen(t) \/ AddTest(t) \/ AddLast(t)
      BY <1>1, <2>9 DEF ReopenThrows, ReopenUnlock, WriteUnlock, Reopen, AddTest, AddLast
    <2>10. CASE Erase(t) \/ Clear(t) \/ SetOwn(t) \/ SetEnds(t)
      BY <1>1, <2>10 DEF Erase, Clear, SetOwn, SetEnds
    <2> QED BY <2>1, <2>3, <2>4, <2>5, <2>6, <2>7, <2>8, <2>9, <2>10 DEF Continues
  <1> QED BY <1>1 DEF OwnFormatterKept

(* A new formatter of a logger gets to every appender it lists that is     *)
(* not written again behind the loop.                                      *)
LEMMA NewFormatterReaches == LoggerInv /\ [Next]_vars => FormatterReaches
  <1>1. ASSUME LoggerInv, [Next]_vars, NEW t \in Threads,
               pc[t] = "set each", pc'[t] = "write unlock", NEW n \in DOMAIN List(t)
        PROVE  \/ hasFormatter_[List(t)[n]] \/ formatter_[List(t)[n]] = call[t].formatter
               \/ List(t)[n] \in late[t]
    <2>1. i[t] > Len(List(t))
      <3>0. pc \in [Threads -> Places]
        BY <1>1 DEF LoggerInv, TypeOK
      <3>1. PICK u \in Threads : Begins(u) \/ Continues(u)
        BY <1>1 DEF Next, vars
      <3>2. u = t
        BY <1>1, <3>1, LeavesStep DEF Leaves, LeavesLocals
      <3> QED BY <1>1, <3>0, <3>1, <3>2
              DEF Begins, log, reopen, addAppender, delAppender, clearAppenders, setFormatter,
                  GiveFormatter, Calls, Continues, LogLock, LogToRoot, LogSkips, AppenderLock, Format,
                  LogThrows, LogEnds, LogUnlock, ReopenLock, Reopen, ReopenThrows, ReopenUnlock, AddLock, AddTest, Inherit,
                  AddLast, WriteUnlock, DelLock, Erase, ClearLock, Clear, SetLock, SetOwn, SetEach, SetEnds
    <2>2. /\ i[t] <= Len(List(t)) + 1 /\ i[t] \in Nat /\ Len(List(t)) \in Nat
          /\ DOMAIN List(t) = 1..Len(List(t))
      BY <1>1, Typed DEF LoggerInv, ThreadInv, Sets
    <2>3. n \in 1..(i[t] - 1)
      BY <2>1, <2>2
    <2> QED BY <1>1, <2>3 DEF LoggerInv, ThreadInv, Sets
  <1> QED BY <1>1 DEF FormatterReaches

(* Logger::setFormatter gives the new formatter to the appenders that have *)
(* none of their own, and what replaces one that is an appender's own is   *)
(* LogAppender::setFormatter or addAppender's assignment after a look that *)
(* came too early.                                                         *)
THEOREM FormattersAlwaysRight == Spec => FormattersRight
  <1>1. LoggerInv /\ [Next]_vars => [OwnFormatterKept /\ FormatterReaches]_vars
    BY OwnFormatterStays, NewFormatterReaches
  <1> QED BY <1>1, InitInv, StepInv, PTL DEF Spec, FormattersRight

-----------------------------------------------------------------------------
(* No circle of waiting threads.                                           *)

(* A thread that holds a logger's lock is in the part of a function that   *)
(* holds it, or in root_->log, called from such a part.                    *)
HeldBy(t) ==
  \A l \in Loggers :
    /\ t \in rd[l] => \/ pc[t] \in ReadPlaces /\ at[t] = l
                      \/ pc[t] \in LogPlaces /\ at[t] = Root /\ call[t].of = l /\ l # Root
    /\ t \in wr[l] => pc[t] \in WritePlaces /\ at[t] = l

(* A spinlock that is held is held by a thread that formats an event.      *)
SpinHeld == \A a \in Appenders : spin[a] => \E t \in Threads : pc[t] = "format" /\ This(t) = a

HeldInv == (\A t \in Threads : HeldBy(t)) /\ SpinHeld

LEMMA InitHeld == Init => HeldInv
  <1> SUFFICES ASSUME Init PROVE HeldInv
    OBVIOUS
  <1>1. SpinHeld
    BY DEF Init, SpinHeld
  <1>2. ASSUME NEW t \in Threads PROVE HeldBy(t)
    BY DEF Init, HeldBy
  <1> QED BY <1>1, <1>2 DEF HeldInv

LEMMA HeldStep ==
  ASSUME LoggerInv, NEW t \in Threads, HeldBy(t), Begins(t) \/ Continues(t)
  PROVE  HeldBy(t)'
  <1>0. /\ pc \in [Threads -> Places] /\ at \in [Threads -> Loggers] /\ call \in [Threads -> CallType]
        /\ rd \in [Loggers -> SUBSET Threads] /\ wr \in [Loggers -> SUBSET Threads]
        /\ at[t] \in Loggers /\ call[t].of \in Loggers
        /\ pc[t] \in LogPlaces /\ at[t] # call[t].of => at[t] = Root
    BY Typed DEF LoggerInv, TypeOK, CallType, ThreadInv, HandedOver
  <1> SUFFICES ASSUME NEW l \in Loggers
               PROVE  /\ t \in rd'[l] => \/ pc'[t] \in ReadPlaces /\ at'[t] = l
                                         \/ /\ pc'[t] \in LogPlaces /\ at'[t] = Root
                                            /\ call'[t].of = l /\ l # Root
                      /\ t \in wr'[l] => pc'[t] \in WritePlaces /\ at'[t] = l
    BY DEF HeldBy
  <1>h. /\ t \in rd[l] => \/ pc[t] \in ReadPlaces /\ at[t] = l
                          \/ pc[t] \in LogPlaces /\ at[t] = Root /\ call[t].of = l /\ l # Root
        /\ t \in wr[l] => pc[t] \in WritePlaces /\ at[t] = l
    BY DEF HeldBy
  <1>p. /\ ReadPlaces = {"log", "format", "log unlock", "log throws", "reopen"}
        /\ WritePlaces = {"add test", "inherit", "append", "del", "clear", "set", "set each", "write unlock"}
        /\ LogPlaces = {"log lock", "log", "format", "log unlock", "log throws"}
    BY DEF ReadPlaces, WritePlaces, LogPlaces
  <1> USE DEF Goes, locks
  <1>1. CASE Begins(t)
    <2>1. pc[t] = "idle" /\ UNCHANGED <<rd, wr>>
      BY <1>1 DEF Begins, log, reopen, addAppender, delAppender, clearAppenders, setFormatter,
           GiveFormatter, Calls
    <2> QED BY <1>h, <1>p, <2>1
  <1>2. CASE LogLock(t) \/ ReopenLock(t)
    <2>1. /\ UNCHANGED <<wr, at, call>> /\ rd' = [rd EXCEPT ![at[t]] = @ \cup {t}]
          /\ \/ pc[t] = "log lock" /\ pc'[t] = "log"
             \/ pc[t] = "reopen lock" /\ pc'[t] = "reopen"
      BY <1>0, <1>2 DEF LogLock, ReopenLock, ReadLock, AcquireRead
    <2> QED BY <1>0, <1>h, <1>p, <2>1
  <1>3. CASE AddLock(t) \/ DelLock(t) \/ ClearLock(t) \/ SetLock(t)
    <2>1. /\ UNCHANGED <<rd, at, call>> /\ wr' = [wr EXCEPT ![at[t]] = {t}]
          /\ pc[t] \in {"add lock", "del lock", "clear lock", "set lock"}
          /\ pc'[t] \in {"add test", "del", "clear", "set"}
      BY <1>0, <1>3 DEF AddLock, DelLock, ClearLock, SetLock, WriteLock, AcquireWrite
    <2> QED BY <1>0, <1>h, <1>p, <2>1
  <1>4. CASE LogToRoot(t)
    <2>1. /\ pc[t] = "log" /\ at[t] # Root /\ UNCHANGED <<rd, wr, call>>
          /\ \/ pc'[t] = "log lock" /\ at'[t] = Root
             \/ pc'[t] = "log unlock" /\ at' = at
      BY <1>0, <1>4 DEF LogToRoot
    <2> QED BY <1>0, <1>h, <1>p, <2>1
  <1>5. CASE LogSkips(t) \/ AppenderLock(t) \/ Format(t) \/ LogThrows(t) \/ LogEnds(t)
    <2>1. /\ pc[t] \in {"log", "format"} /\ pc'[t] \in {"log", "format", "log unlock", "log throws"}
          /\ UNCHANGED <<rd, wr, at, call>>
      BY <1>0, <1>5 DEF LogSkips, AppenderLock, Format, LogThrows, LogEnds
    <2> QED BY <1>h, <1>p, <2>1
  <1>6. CASE LogUnlock(t) /\ at[t] # call[t].of
    <2>1. /\ pc[t] \in {"log unlock", "log throws"}
          /\ pc' = pc /\ call' = call /\ at'[t] = call[t].of
          /\ rd' = [rd EXCEPT ![at[t]] = @ \ {t}] /\ wr' = [wr EXCEPT ![at[t]] = @ \ {t}]
      BY <1>0, <1>6 DEF LogUnlock, Release
    <2> QED BY <1>0, <1>6, <1>h, <1>p, <2>1
  <1>7. CASE (LogUnlock(t) /\ at[t] = call[t].of) \/ ReopenThrows(t) \/ ReopenUnlock(t) \/ WriteUnlock(t)
    <2>1. /\ pc[t] \in {"log unlock", "log throws", "reopen", "write unlock"}
          /\ pc[t] \in {"log unlock", "log throws"} => at[t] = call[t].of
          /\ rd' = [rd EXCEPT ![at[t]] = @ \ {t}] /\ wr' = [wr EXCEPT ![at[t]] = @ \ {t}]
      BY <1>7 DEF LogUnlock, ReopenThrows, ReopenUnlock, WriteUnlock, Release
    <2> QED BY <1>0, <1>h, <1>p, <2>1
  <1>8. CASE Reopen(t)
    BY <1>8, <1>h DEF Reopen
  <1>9. CASE AddTest(t) \/ Inherit(t) \/ AddLast(t) \/ Erase(t) \/ Clear(t) \/ SetOwn(t) \/ SetEach(t) \/ SetEnds(t)
    <2>1. pc[t] \in WritePlaces /\ pc'[t] \in WritePlaces /\ UNCHANGED <<rd, wr, at>>
      BY <1>0, <1>9, <1>p DEF AddTest, Inherit, AddLast, Erase, Clear, SetOwn, SetEach, SetEnds
    <2> QED BY <1>h, <1>p, <2>1
  <1> QED BY <1>1, <1>2, <1>3, <1>4, <1>5, <1>6, <1>7, <1>8, <1>9 DEF Continues

(* Only the appender that log locks is locked.                             *)
LEMMA SpinStep ==
  ASSUME LoggerInv, SpinHeld, NEW t \in Threads, Begins(t) \/ Continues(t), Leaves(t)
  PROVE  SpinHeld'
  <1> SUFFICES ASSUME NEW a \in Appenders, spin'[a]
               PROVE  \E u \in Threads : pc'[u] = "format" /\ This(u)' = a
    BY DEF SpinHeld
  <1>0. /\ pc \in [Threads -> Places] /\ spin \in [Appenders -> BOOLEAN]
    BY DEF LoggerInv, TypeOK
  <1>1. ASSUME NEW u \in Threads, u # t, pc[u] = "format"
        PROVE  pc'[u] = "format" /\ This(u)' = This(u)
    BY <1>1, ListKept DEF Leaves, LeavesLocals, ReadPlaces
  <1>2. CASE spin[a] /\ ~(pc[t] = "format" /\ This(t) = a)
    <2>1. PICK u \in Threads : pc[u] = "format" /\ This(u) = a
      BY <1>2 DEF SpinHeld
    <2> QED BY <1>1, <1>2, <2>1
  <1>3. CASE ~spin[a]
    <2>1. AppenderLock(t) /\ a = This(t)
      <3>1. CASE AppenderLock(t)
        BY <1>0, <1>3, <3>1 DEF AppenderLock
      <3>2. CASE Format(t)
        BY <1>0, <1>3, <3>2 DEF Format
      <3>3. CASE Begins(t)
        BY <1>3, <3>3 DEF Begins, log, reopen, addAppender, delAppender, clearAppenders, setFormatter,
             GiveFormatter, Calls
      <3>4. CASE LogLock(t) \/ ReopenLock(t) \/ AddLock(t) \/ DelLock(t) \/ ClearLock(t) \/ SetLock(t)
        BY <1>3, <3>4 DEF LogLock, ReopenLock, AddLock, DelLock, ClearLock, SetLock, ReadLock, WriteLock
      <3>5. CASE LogToRoot(t) \/ LogSkips(t) \/ LogThrows(t) \/ LogEnds(t) \/ LogUnlock(t)
        BY <1>3, <3>5 DEF LogToRoot, LogSkips, LogThrows, LogEnds, LogUnlock
      <3>6. CASE ReopenThrows(t) \/ ReopenUnlock(t) \/ WriteUnlock(t) \/ Reopen(t) \/ AddTest(t) \/ Inherit(t) \/ AddLast(t)
        BY <1>3, <3>6 DEF ReopenThrows, ReopenUnlock, WriteUnlock, Reopen, AddTest, Inherit, AddLast
      <3>7. CASE Erase(t) \/ Clear(t) \/ SetOwn(t) \/ SetEach(t) \/ SetEnds(t)
        BY <1>3, <3>7 DEF Erase, Clear, SetOwn, SetEach, SetEnds
      <3> QED BY <3>1, <3>2, <3>3, <3>4, <3>5, <3>6, <3>7 DEF Continues
    <2>2. pc'[t] = "format" /\ This(t)' = This(t)
      BY <1>0, <2>1 DEF AppenderLock, Goes, This, List, state
    <2> QED BY <2>1, <2>2
  <1>4. CASE spin[a] /\ pc[t] = "format" /\ This(t) = a
    <2>1. Format(t)
      BY <1>4 DEF Begins, log, reopen, addAppender, delAppender, clearAppenders, setFormatter,
           GiveFormatter, Calls, Continues, LogLock, LogToRoot, LogSkips, AppenderLock,
           LogThrows, LogEnds, LogUnlock, ReopenLock, Reopen, ReopenThrows, ReopenUnlock, AddLock, AddTest, Inherit,
           AddLast, WriteUnlock, DelLock, Erase, ClearLock, Clear, SetLock, SetOwn, SetEach, SetEnds
    <2>2. spin' = [spin EXCEPT ![a] = FALSE]
      BY <1>4, <2>1 DEF Format
    <2> QED BY <1>0, <2>2
  <1> QED BY <1>2, <1>3, <1>4

LEMMA HeldInvStep == LoggerInv /\ HeldInv /\ [Next]_vars => HeldInv'
  <1> SUFFICES ASSUME LoggerInv, HeldInv, [Next]_vars PROVE HeldInv'
    OBVIOUS
  <1>1. ASSUME NEW t \in Threads, Begins(t) \/ Continues(t)
        PROVE  HeldInv'
    <2>1. Leaves(t)
      BY <1>1, LeavesStep
    <2>2. SpinHeld' /\ HeldBy(t)'
      BY <1>1, <2>1, SpinStep, HeldStep DEF HeldInv
    <2>3. ASSUME NEW u \in Threads, u # t PROVE HeldBy(u)'
      <3>1. HeldBy(u)
        BY DEF HeldInv
      <3> QED BY <2>1, <2>3, <3>1 DEF HeldBy, Leaves, LeavesLocals, LeavesLocks
    <2> QED BY <2>2, <2>3 DEF HeldInv
  <1>2. CASE UNCHANGED vars
    <2> USE <1>2 DEF vars, locks, state
    <2>1. SpinHeld'
      BY DEF HeldInv, SpinHeld, This, List
    <2>2. ASSUME NEW t \in Threads PROVE HeldBy(t)'
      BY DEF HeldInv, HeldBy
    <2> QED BY <2>1, <2>2 DEF HeldInv
  <1> QED BY <1>1, <1>2 DEF Next

(* However many threads and loggers there are, some thread that is in a    *)
(* call can go on: the chain of who waits for whom goes from a logger to   *)
(* the root logger, from there to an appender, and ends.                   *)
THEOREM SomeoneAlwaysGoes == Spec => []SomeoneGoes
  <1>1. ASSUME LoggerInv, HeldInv PROVE SomeoneGoes
    <2> SUFFICES ASSUME NEW t \in Threads, pc[t] # "idle"
                 PROVE  \E u \in Threads : pc[u] # "idle" /\ ~Waits(u)
      BY DEF SomeoneGoes
    <2>1. CASE \E u \in Threads : pc[u] = "format"
      <3>1. PICK u \in Threads : pc[u] = "format"
        BY <2>1
      <3> QED BY <3>1 DEF Waits
    <2>2. CASE ~\E u \in Threads : pc[u] = "format"
      <3>1. \A a \in Appenders : ~spin[a]
        BY <1>1, <2>2 DEF HeldInv, SpinHeld
      <3>2. ASSUME NEW u \in Threads, Waits(u)
            PROVE  \/ pc[u] \in {"log lock", "reopen lock"} /\ wr[at[u]] # {}
                   \/ /\ pc[u] \in {"add lock", "del lock", "clear lock", "set lock"}
                      /\ rd[at[u]] \cup wr[at[u]] # {}
        <4>1. call[u].appender \in Appenders
          BY <1>1, Typed DEF LoggerInv
        <4>2. i[u] <= Len(List(u)) => This(u) \in Appenders
          BY <1>1, ThisTyped DEF LoggerInv
        <4> QED BY <3>1, <3>2, <4>1, <4>2 DEF Waits
      <3>3. ASSUME NEW u \in Threads, NEW l \in Loggers, u \in wr[l]
            PROVE  pc[u] # "idle" /\ ~Waits(u)
        <4>1. pc[u] \in WritePlaces
          BY <1>1, <3>3 DEF HeldInv, HeldBy
        <4> QED BY <3>2, <4>1 DEF WritePlaces
      <3>4. ASSUME NEW u \in Threads, NEW l \in Loggers, u \in rd[l], Waits(u)
            PROVE  pc[u] = "log lock" /\ at[u] = Root
        <4>1. \/ pc[u] \in ReadPlaces
              \/ pc[u] \in LogPlaces /\ at[u] = Root
          BY <1>1, <3>4 DEF HeldInv, HeldBy
        <4> QED BY <3>2, <3>4, <4>1 DEF ReadPlaces, LogPlaces
      <3>5. /\ rd \in [Loggers -> SUBSET Threads] /\ wr \in [Loggers -> SUBSET Threads]
            /\ \A u \in Threads : at[u] \in Loggers
        BY <1>1, Typed DEF LoggerInv, TypeOK
      <3>6. CASE \E l \in Loggers : wr[l] # {}
        BY <3>3, <3>5, <3>6
      <3>7. CASE \A l \in Loggers : wr[l] = {}
        <4>1. CASE \E l \in Loggers : rd[l] # {}
          <5>1. PICK l \in Loggers, u \in Threads : u \in rd[l]
            BY <3>5, <4>1
          <5>2. pc[u] # "idle"
            BY <1>1, <5>1 DEF HeldInv, HeldBy, ReadPlaces, LogPlaces
          <5>3. ~Waits(u)
            BY <3>2, <3>4, <3>5, <3>7, <5>1
          <5> QED BY <5>2, <5>3
        <4>2. CASE \A l \in Loggers : rd[l] = {}
          <5>1. ~Waits(t)
            BY <3>2, <3>5, <3>7, <4>2
          <5> QED BY <5>1
        <4> QED BY <4>1, <4>2
      <3> QED BY <3>6, <3>7
    <2> QED BY <2>1, <2>2
  <1>2. LoggerInv /\ HeldInv => SomeoneGoes
    BY <1>1
  <1> QED BY <1>2, InitInv, StepInv, InitHeld, HeldInvStep, PTL DEF Spec
=============================================================================
