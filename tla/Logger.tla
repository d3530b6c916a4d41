------------------------------- MODULE Logger -------------------------------
(***************************************************************************)
(* sylar::Logger and LogAppender: loggers that write events through the    *)
(* appenders they list or, when they list none, through the root logger's; *)
(* appenders that take over their logger's formatter unless they were      *)
(* given their own.                                                        *)
(*                                                                         *)
(* Each logger has a reader/writer lock (module RWLock), each appender a   *)
(* spinlock. What an appender does under its spinlock is one step, except  *)
(* for the formatting of an event. Levels are set before threads start.    *)
(* Any appender may be added to any logger, and the formatter given to     *)
(* either setFormatter may be null.                                        *)
(***************************************************************************)
EXTENDS Integers, Sequences, SequencesExt

CONSTANTS
  Threads,
  Loggers,
  Root,         (* the logger that is root_ of all others               *)
  Appenders,
  Stdout,       (* the appender the root logger is made with            *)
  Files,        (* those that are FileLogAppenders                      *)
  Formatters,
  Default,      (* the formatter a logger is made with                  *)
  Levels,
  level_,       (* level_[x]: the level of the logger or appender x     *)
  MaxCalls      (* MaxCalls[t]: bound on the calls thread t makes       *)

Null == 0

ASSUME LoggerAssumption ==
  /\ Root \in Loggers
  /\ Stdout \in Appenders /\ Files \subseteq Appenders \ {Stdout}
  /\ Loggers \cap Appenders = {}
  /\ Default \in Formatters /\ Null \notin Formatters
  /\ Levels \subseteq Int
  /\ level_ \in [Loggers \cup Appenders -> Levels]
  /\ MaxCalls \in [Threads -> Nat]

VARIABLES
  rd, wr,         (* rd[l], wr[l]: who holds mutex_ of l to read, to write *)
  spin,           (* spin[a]: is mutex_ of appender a held?                *)
  appenders_,     (* appenders_[l]: the list of logger l                   *)
  formatterOf,    (* formatterOf[l]: formatter_ of logger l                *)
  formatter_,     (* formatter_[a]: formatter_ of appender a               *)
  hasFormatter_,  (* hasFormatter_[a]: is it a's own?                      *)
  pc,             (* pc[t]: the statement thread t is at                   *)
  call,           (* call[t]: its call [of, level, appender, formatter]    *)
  at,             (* at[t]: the logger whose member function it is in      *)
  i,              (* i[t]: its place in that logger's list                 *)
  calls,          (* calls[t]: how many calls it has made                  *)
  done,           (* history: done[t], the places its loop has dealt with  *)
  late,           (* history: late[t], the appenders whose formatter_      *)
                  (* another thread wrote after t has dealt with them      *)
  nulls           (* history: the loggers and appenders that were given    *)
                  (* null by a setFormatter                                *)

locks == <<rd, wr>>
own   == <<formatter_, hasFormatter_, late, nulls>>
state == <<appenders_, formatterOf, own>>
vars  == <<locks, spin, state, pc, call, at, i, calls, done>>

NoCall == [of |-> Root, level |-> level_[Root], appender |-> Stdout, formatter |-> Default]

Init ==
  /\ rd = [l \in Loggers |-> {}] /\ wr = [l \in Loggers |-> {}]
  /\ spin = [a \in Appenders |-> FALSE]
  /\ appenders_ = [l \in Loggers |-> IF l = Root THEN <<Stdout>> ELSE <<>>]
  /\ formatterOf = [l \in Loggers |-> Default]
  /\ formatter_ = [a \in Appenders |-> IF a = Stdout THEN Default ELSE Null]
  /\ hasFormatter_ = [a \in Appenders |-> FALSE]
  /\ pc = [t \in Threads |-> "idle"]
  /\ call = [t \in Threads |-> NoCall]
  /\ at = [t \in Threads |-> Root]
  /\ i = [t \in Threads |-> 1]
  /\ calls = [t \in Threads |-> 0]
  /\ done = [t \in Threads |-> {}]
  /\ late = [t \in Threads |-> {}]
  /\ nulls = {}

-----------------------------------------------------------------------------
(* The locks and the loops.                                                *)

Goes(t, place) == pc' = [pc EXCEPT ![t] = place]

(* The thread is back from its call, and the locals are gone.              *)
Returns(t) ==
  /\ Goes(t, "idle")
  /\ call' = [call EXCEPT ![t] = NoCall]
  /\ at' = [at EXCEPT ![t] = Root]
  /\ i' = [i EXCEPT ![t] = 1]
  /\ done' = [done EXCEPT ![t] = {}]

List(t) == appenders_[at[t]]
This(t) == List(t)[i[t]]

AcquireRead(t) ==
  /\ wr[at[t]] = {}
  /\ rd' = [rd EXCEPT ![at[t]] = @ \cup {t}]
  /\ UNCHANGED wr

AcquireWrite(t) ==
  /\ wr[at[t]] = {} /\ rd[at[t]] = {}
  /\ wr' = [wr EXCEPT ![at[t]] = {t}]
  /\ UNCHANGED rd

Release(t) ==
  /\ rd' = [rd EXCEPT ![at[t]] = @ \ {t}]
  /\ wr' = [wr EXCEPT ![at[t]] = @ \ {t}]

(* A member function of l is called. *)
Calls(t, l, place) ==
  /\ pc[t] = "idle" /\ calls[t] < MaxCalls[t]
  /\ calls' = [calls EXCEPT ![t] = @ + 1]
  /\ at' = [at EXCEPT ![t] = l]
  /\ Goes(t, place)
  /\ UNCHANGED <<locks, spin, state, i, done>>

(* The scoped lock is taken and the loop over the list begins.             *)
ReadLock(t, place) ==
  /\ AcquireRead(t)
  /\ i' = [i EXCEPT ![t] = 1]
  /\ done' = [done EXCEPT ![t] = {}]
  /\ Goes(t, place)
  /\ UNCHANGED <<spin, state, call, at, calls>>

WriteLock(t, place) ==
  /\ AcquireWrite(t)
  /\ i' = [i EXCEPT ![t] = 1]
  /\ done' = [done EXCEPT ![t] = {}]
  /\ Goes(t, place)
  /\ UNCHANGED <<spin, state, call, at, calls>>

(* The loop goes on to the next appender, having dealt with this or not.   *)
NextPlace(t, dealt) ==
  /\ i' = [i EXCEPT ![t] = @ + 1]
  /\ done' = [done EXCEPT ![t] = IF dealt THEN @ \cup {i[t]} ELSE @]

Passes(t, x) == call[t].level >= level_[x]

(* Thread t writes formatter_ and hasFormatter_ of appender a. A thread    *)
(* that has seen a without a formatter, or left it without one of its own, *)
(* does not see it.                                                        *)
Misses(u, a, has) ==
  \/ pc[u] = "inherit" /\ call[u].appender = a
  \/ pc[u] = "set each" /\ ~has /\ \E n \in 1..(i[u] - 1) : List(u)[n] = a

Write(t, a, f, has) ==
  /\ formatter_' = [formatter_ EXCEPT ![a] = f]
  /\ hasFormatter_' = [hasFormatter_ EXCEPT ![a] = has]
  /\ late' = [u \in Threads |-> IF u = t THEN late[u] \ {a}
                                ELSE IF Misses(u, a, has) THEN late[u] \cup {a}
                                ELSE late[u]]

Given(x, f) == nulls' = IF f = Null THEN nulls \cup {x} ELSE nulls

-----------------------------------------------------------------------------
(* Logger::log                                                             *)

log(t) ==
  \E l \in Loggers, level \in Levels :
    /\ level >= level_[l]
    /\ Calls(t, l, "log lock")
    /\ call' = [call EXCEPT ![t].of = l, ![t].level = level]

LogLock(t) == pc[t] = "log lock" /\ ReadLock(t, "log")

(* A logger without appenders hands the event to root_, holding its lock.  *)
LogToRoot(t) ==
  /\ pc[t] = "log" /\ List(t) = <<>> /\ at[t] # Root
  /\ IF Passes(t, Root)
       THEN Goes(t, "log lock") /\ at' = [at EXCEPT ![t] = Root]
       ELSE Goes(t, "log unlock") /\ UNCHANGED at
  /\ UNCHANGED <<locks, spin, state, call, i, calls, done>>

(* StdoutLogAppender::log: the level is tested, then the spinlock taken.   *)
LogSkips(t) ==
  /\ pc[t] = "log" /\ i[t] <= Len(List(t)) /\ ~Passes(t, This(t))
  /\ NextPlace(t, FALSE)
  /\ UNCHANGED <<locks, spin, state, pc, call, at, calls>>

AppenderLock(t) ==
  /\ pc[t] = "log" /\ i[t] <= Len(List(t)) /\ Passes(t, This(t))
  /\ ~spin[This(t)]
  /\ spin' = [spin EXCEPT ![This(t)] = TRUE]
  /\ Goes(t, "format")
  /\ UNCHANGED <<locks, state, call, at, i, calls, done>>

(* FileLogAppender::log, before it takes the spinlock to write, calls      *)
(* reopen, out of which create_directories may throw.                      *)
LogThrows(t) ==
  /\ pc[t] = "log" /\ i[t] <= Len(List(t)) /\ Passes(t, This(t))
  /\ This(t) \in Files /\ ~spin[This(t)]
  /\ Goes(t, "log throws")
  /\ UNCHANGED <<locks, spin, state, call, at, i, calls, done>>

(* Faulty variant: the loop ends with the first appender that writes.      *)
FormatEnds(t) ==
  /\ pc[t] = "format"
  /\ spin' = [spin EXCEPT ![This(t)] = FALSE]
  /\ done' = [done EXCEPT ![t] = @ \cup {i[t]}]
  /\ Goes(t, "log unlock")
  /\ UNCHANGED <<locks, state, call, at, i, calls>>

Format(t) ==
  /\ pc[t] = "format"
  /\ spin' = [spin EXCEPT ![This(t)] = FALSE]
  /\ NextPlace(t, TRUE)
  /\ Goes(t, "log")
  /\ UNCHANGED <<locks, state, call, at, calls>>

LogEnds(t) ==
  /\ pc[t] = "log" /\ i[t] > Len(List(t))
  /\ List(t) = <<>> => at[t] = Root
  /\ Goes(t, "log unlock")
  /\ UNCHANGED <<locks, spin, state, call, at, i, calls, done>>

(* Faulty variant: root_->log returns and the caller's lock is kept.       *)
LogUnlockOne(t) ==
  /\ pc[t] \in {"log unlock", "log throws"}
  /\ Release(t)
  /\ Returns(t)
  /\ UNCHANGED <<spin, state, calls>>

(* The lock is given back; root_->log returns to the logger that called,   *)
(* or its exception goes there.                                            *)
LogUnlock(t) ==
  /\ pc[t] \in {"log unlock", "log throws"}
  /\ Release(t)
  /\ IF at[t] = call[t].of
       THEN Returns(t)
       ELSE /\ at' = [at EXCEPT ![t] = call[t].of]
            /\ done' = [done EXCEPT ![t] = {}]
            /\ UNCHANGED <<pc, call, i>>
  /\ UNCHANGED <<spin, state, calls>>

-----------------------------------------------------------------------------
(* Logger::reopen                                                          *)

reopen(t) ==
  \E l \in Loggers : /\ Calls(t, l, "reopen lock")
                     /\ call' = [call EXCEPT ![t].of = l]

ReopenLock(t) == pc[t] = "reopen lock" /\ ReadLock(t, "reopen")

(* Only a FileLogAppender takes its spinlock.                              *)
Reopen(t) ==
  /\ pc[t] = "reopen" /\ i[t] <= Len(List(t))
  /\ This(t) \in Files => ~spin[This(t)]
  /\ NextPlace(t, TRUE)
  /\ UNCHANGED <<locks, spin, state, pc, call, at, calls>>

(* Its reopen throws: those after it in the list are not reopened.         *)
ReopenThrows(t) ==
  /\ pc[t] = "reopen" /\ i[t] <= Len(List(t))
  /\ This(t) \in Files /\ ~spin[This(t)]
  /\ Release(t)
  /\ Returns(t)
  /\ UNCHANGED <<spin, state, calls>>

ReopenUnlock(t) ==
  /\ pc[t] = "reopen" /\ i[t] > Len(List(t))
  /\ Release(t)
  /\ Returns(t)
  /\ UNCHANGED <<spin, state, calls>>

-----------------------------------------------------------------------------
(* Logger::addAppender                                                     *)

addAppender(t) ==
  \E l \in Loggers, a \in Appenders :
    /\ Calls(t, l, "add lock")
    /\ call' = [call EXCEPT ![t].of = l, ![t].appender = a]

AddLock(t) == pc[t] = "add lock" /\ WriteLock(t, "add test")

(* Faulty variant: the test is the wrong way round. *)
AddTestInverted(t) ==
  LET a == call[t].appender IN
  /\ pc[t] = "add test" /\ ~spin[a]
  /\ Goes(t, IF formatter_[a] = Null THEN "append" ELSE "inherit")
  /\ UNCHANGED <<locks, spin, state, call, at, i, calls, done>>

(* appender->getFormatter(), which gives the spinlock back.                *)
AddTest(t) ==
  LET a == call[t].appender IN
  /\ pc[t] = "add test" /\ ~spin[a]
  /\ Goes(t, IF formatter_[a] = Null THEN "inherit" ELSE "append")
  /\ UNCHANGED <<locks, spin, state, call, at, i, calls, done>>

(* Whatever the formatter is by now.                                       *)
Inherit(t) ==
  LET a == call[t].appender IN
  /\ pc[t] = "inherit" /\ ~spin[a]
  /\ Write(t, a, formatterOf[at[t]], hasFormatter_[a])
  /\ Goes(t, "append")
  /\ UNCHANGED <<locks, spin, appenders_, formatterOf, nulls, call, at, i, calls, done>>

AddLast(t) ==
  /\ pc[t] = "append"
  /\ appenders_' = [appenders_ EXCEPT ![at[t]] = Append(@, call[t].appender)]
  /\ Goes(t, "write unlock")
  /\ UNCHANGED <<locks, spin, formatterOf, own, call, at, i, calls, done>>

WriteUnlock(t) ==
  /\ pc[t] = "write unlock"
  /\ Release(t)
  /\ Returns(t)
  /\ UNCHANGED <<spin, state, calls>>

-----------------------------------------------------------------------------
(* Logger::delAppender, Logger::clearAppenders                             *)

delAppender(t) ==
  \E l \in Loggers, a \in Appenders :
    /\ Calls(t, l, "del lock")
    /\ call' = [call EXCEPT ![t].of = l, ![t].appender = a]

DelLock(t) == pc[t] = "del lock" /\ WriteLock(t, "del")

(* The first occurrence is erased, if there is any. *)
Erase(t) ==
  /\ pc[t] = "del"
  /\ appenders_' = [appenders_ EXCEPT ![at[t]] = RemoveFirst(@, call[t].appender)]
  /\ Goes(t, "write unlock")
  /\ UNCHANGED <<locks, spin, formatterOf, own, call, at, i, calls, done>>

clearAppenders(t) ==
  \E l \in Loggers : /\ Calls(t, l, "clear lock")
                     /\ call' = [call EXCEPT ![t].of = l]

ClearLock(t) == pc[t] = "clear lock" /\ WriteLock(t, "clear")

Clear(t) ==
  /\ pc[t] = "clear"
  /\ appenders_' = [appenders_ EXCEPT ![at[t]] = <<>>]
  /\ Goes(t, "write unlock")
  /\ UNCHANGED <<locks, spin, formatterOf, own, call, at, i, calls, done>>

-----------------------------------------------------------------------------
(* Logger::setFormatter                                                    *)

setFormatter(t) ==
  \E l \in Loggers, f \in Formatters \cup {Null} :
    /\ Calls(t, l, "set lock")
    /\ call' = [call EXCEPT ![t].of = l, ![t].formatter = f]

SetLock(t) == pc[t] = "set lock" /\ WriteLock(t, "set")

SetOwn(t) ==
  /\ pc[t] = "set"
  /\ formatterOf' = [formatterOf EXCEPT ![at[t]] = call[t].formatter]
  /\ Given(at[t], call[t].formatter)
  /\ Goes(t, "set each")
  /\ UNCHANGED <<locks, spin, appenders_, formatter_, hasFormatter_, late, call, at, i, calls, done>>

(* Faulty variant: hasFormatter_ is not looked at.                         *)
SetEachAlways(t) ==
  /\ pc[t] = "set each" /\ i[t] <= Len(List(t)) /\ ~spin[This(t)]
  /\ Write(t, This(t), formatterOf[at[t]], hasFormatter_[This(t)])
  /\ NextPlace(t, TRUE)
  /\ UNCHANGED <<locks, spin, appenders_, formatterOf, nulls, pc, call, at, calls>>

SetEach(t) ==
  /\ pc[t] = "set each" /\ i[t] <= Len(List(t)) /\ ~spin[This(t)]
  /\ IF hasFormatter_[This(t)]
       THEN UNCHANGED <<formatter_, hasFormatter_, late>>
       ELSE Write(t, This(t), formatterOf[at[t]], FALSE)
  /\ NextPlace(t, TRUE)
  /\ UNCHANGED <<locks, spin, appenders_, formatterOf, nulls, pc, call, at, calls>>

SetEnds(t) ==
  /\ pc[t] = "set each" /\ i[t] > Len(List(t))
  /\ late' = [late EXCEPT ![t] = {}]
  /\ Goes(t, "write unlock")
  /\ UNCHANGED <<locks, spin, appenders_, formatterOf, formatter_, hasFormatter_, nulls, call, at, i, calls, done>>

(* LogAppender::setFormatter. Faulty variant: without the spinlock.        *)
GiveFormatterAnyTime(t) ==
  \E a \in Appenders, f \in Formatters \cup {Null} :
    /\ pc[t] = "idle" /\ calls[t] < MaxCalls[t]
    /\ calls' = [calls EXCEPT ![t] = @ + 1]
    /\ Write(t, a, f, f # Null)
    /\ Given(a, f)
    /\ UNCHANGED <<locks, spin, appenders_, formatterOf, pc, call, at, i, done>>

GiveFormatter(t) ==
  \E a \in Appenders, f \in Formatters \cup {Null} :
    /\ pc[t] = "idle" /\ calls[t] < MaxCalls[t] /\ ~spin[a]
    /\ calls' = [calls EXCEPT ![t] = @ + 1]
    /\ Write(t, a, f, f # Null)
    /\ Given(a, f)
    /\ UNCHANGED <<locks, spin, appenders_, formatterOf, pc, call, at, i, done>>

-----------------------------------------------------------------------------
Begins(t) ==
  \/ log(t) \/ reopen(t) \/ addAppender(t) \/ delAppender(t) \/ clearAppenders(t)
  \/ setFormatter(t) \/ GiveFormatter(t)

Continues(t) ==
  \/ LogLock(t) \/ LogToRoot(t) \/ LogSkips(t) \/ AppenderLock(t) \/ Format(t)
  \/ LogThrows(t) \/ LogEnds(t) \/ LogUnlock(t)
  \/ ReopenLock(t) \/ Reopen(t) \/ ReopenThrows(t) \/ ReopenUnlock(t)
  \/ AddLock(t) \/ AddTest(t) \/ Inherit(t) \/ AddLast(t) \/ WriteUnlock(t)
  \/ DelLock(t) \/ Erase(t) \/ ClearLock(t) \/ Clear(t)
  \/ SetLock(t) \/ SetOwn(t) \/ SetEach(t) \/ SetEnds(t)

(* The formatter that an event is to be formatted with is null: nothing is *)
(* said of what follows.                                                   *)
Crashed == \E t \in Threads : pc[t] = "format" /\ formatter_[This(t)] = Null

Next == ~Crashed /\ \E t \in Threads : Begins(t) \/ Continues(t)

Spec == Init /\ [][Next]_vars

(* A running thread goes on; one that waits for a lock gets it if it stays *)
(* free. Nobody has to call.                                               *)
FairSpec == Spec /\ \A t \in Threads : WF_vars(~Crashed /\ Continues(t))
-----------------------------------------------------------------------------
(* Properties.                                                             *)

Places ==
  {"idle", "log lock", "log", "format", "log unlock", "log throws", "reopen lock", "reopen", "add lock",
   "add test", "inherit", "append", "del lock", "del", "clear lock", "clear", "set lock",
   "set", "set each", "write unlock"}

(* Every variable has its type.                                            *)
TypeOK ==
  /\ rd \in [Loggers -> SUBSET Threads] /\ wr \in [Loggers -> SUBSET Threads]
  /\ spin \in [Appenders -> BOOLEAN]
  /\ appenders_ \in [Loggers -> Seq(Appenders)]
  /\ formatterOf \in [Loggers -> Formatters \cup {Null}]
  /\ formatter_ \in [Appenders -> Formatters \cup {Null}]
  /\ hasFormatter_ \in [Appenders -> BOOLEAN]
  /\ pc \in [Threads -> Places]
  /\ call \in [Threads -> [of : Loggers, level : Levels, appender : Appenders,
                           formatter : Formatters \cup {Null}]]
  /\ at \in [Threads -> Loggers]
  /\ i \in [Threads -> Nat \ {0}]
  /\ calls \in [Threads -> Nat]
  /\ done \in [Threads -> SUBSET Nat]
  /\ late \in [Threads -> SUBSET Appenders]
  /\ nulls \in SUBSET (Loggers \cup Appenders)

(* StdoutLogAppender::log and FileLogAppender::log dereference formatter_  *)
(* without a test: addAppender must have filled it in. An appender that a  *)
(* logger lists is without one only if null was given to it, or to some    *)
(* logger to hand on, whatever threads add, delete, clear and set around   *)
(* it and however many loggers share it.                                   *)
Excused(a) == a \in nulls \/ \E l \in Loggers : l \in nulls

NullOnlyGiven ==
  \A l \in Loggers : \A n \in DOMAIN appenders_[l] :
    formatter_[appenders_[l][n]] = Null => Excused(appenders_[l][n])

(* While a thread iterates over a logger's list no other thread changes    *)
(* it: erase and clear would invalidate its iterator, emplace_back races   *)
(* with it. And the formatter an event is being formatted with is not      *)
(* replaced, and the object behind the shared_ptr released, before the     *)
(* formatting is done: not by LogAppender::setFormatter, nor by the other  *)
(* loggers that list the appender or are about to.                         *)
IterationStable ==
  [][\A t \in Threads :
       /\ \A l \in Loggers : t \in rd[l] => appenders_'[l] = appenders_[l]
       /\ pc[t] = "format" => formatter_'[This(t)] = formatter_[This(t)]]_vars

(* When log gives the lock back in order, the event has gone to every      *)
(* appender of the list whose level lets it pass and to no other; when     *)
(* reopen does, every appender has been reopened.                          *)
EventReaches ==
  \A t \in Threads :
    /\ pc[t] = "log unlock" => done[t] = {n \in DOMAIN List(t) : Passes(t, List(t)[n])}
    /\ pc[t] = "reopen" /\ i[t] > Len(List(t)) => done[t] = DOMAIN List(t)

(* What a step keeps: the formatter that an appender was given by          *)
(* LogAppender::setFormatter is replaced by no logger, however many share  *)
(* the appender, but in one case: addAppender has seen that it has none,   *)
(* and it was given between that test and the assignment.                  *)
OwnFormatterKept ==
  \A a \in Appenders :
    hasFormatter_[a] /\ formatter_[a] # Null /\ formatter_'[a] # formatter_[a] =>
      \E t \in Threads :
        \/ pc[t] = "idle" /\ calls'[t] # calls[t]
        \/ pc[t] = "inherit" /\ call[t].appender = a /\ a \in late[t]

(* When Logger::setFormatter is through, every appender that the logger    *)
(* lists writes with the new formatter or with one of its own, even if it  *)
(* got its own while the loop ran; unless, behind the loop, another thread *)
(* has set its formatter and left it without one of its own: another       *)
(* logger that lists it, or a setFormatter(nullptr).                       *)
FormatterReaches ==
  \A t \in Threads :
    pc[t] = "set each" /\ pc'[t] = "write unlock" =>
      \A n \in DOMAIN List(t) :
        \/ hasFormatter_[List(t)[n]] \/ formatter_[List(t)[n]] = call[t].formatter
        \/ List(t)[n] \in late[t]

(* A formatter given to a logger gets to the appenders that have none of   *)
(* their own, and to no others: no step breaks either part.                *)
FormattersRight == [][OwnFormatterKept /\ FormatterReaches]_vars

(* Thread t is in a call and waits for a lock of its logger or appender.   *)
Waits(t) ==
  \/ pc[t] \in {"log lock", "reopen lock"} /\ wr[at[t]] # {}
  \/ /\ pc[t] \in {"add lock", "del lock", "clear lock", "set lock"}
     /\ rd[at[t]] \cup wr[at[t]] # {}
  \/ pc[t] = "log" /\ i[t] <= Len(List(t)) /\ Passes(t, This(t)) /\ spin[This(t)]
  \/ pc[t] = "reopen" /\ i[t] <= Len(List(t)) /\ This(t) \in Files /\ spin[This(t)]
  \/ pc[t] = "set each" /\ i[t] <= Len(List(t)) /\ spin[This(t)]
  \/ pc[t] \in {"add test", "inherit"} /\ spin[call[t].appender]

(* Not all threads that are in a call wait. A thread may hold its logger's *)
(* lock while it waits for the root logger's, and both while it waits for  *)
(* an appender's: no locks are taken in the opposite order, and none is    *)
(* kept by a thread that has returned.                                     *)
SomeoneGoes ==
  ~Crashed /\ (\E t \in Threads : pc[t] # "idle") => \E t \in Threads : pc[t] # "idle" /\ ~Waits(t)

(* Every call returns, unless a null formatter is dereferenced: with two   *)
(* loggers' locks and an appender's held at a time, no threads wait for    *)
(* each other in a circle.                                                 *)
CallsReturn == \A t \in Threads : pc[t] # "idle" ~> pc[t] = "idle" \/ Crashed
=============================================================================
