---------------------------- MODULE FileAppender ----------------------------
(***************************************************************************)
(* FileLogAppender and FSUtil::OpenForWrite (sylar/log.cc, util.cc): some  *)
(* threads log through one appender, some reopen it, while time passes and *)
(* the file's directory comes and goes.                                    *)
(***************************************************************************)
EXTENDS LogPattern

CONSTANTS
  Threads,
  Patterns,   (* patterns the appender's formatter may be made of *)
  Interval,   (* the seconds after which log reopens the file: 3  *)
  MaxTime,    (* bound on the clock                               *)
  MaxCalls    (* bound on the calls of all threads                *)

Nobody == 0

ASSUME FileAssumption ==
  /\ Nobody \notin Threads
  /\ Patterns \subseteq Seq(Chars)
  /\ Interval \in Nat \ {0}
  /\ MaxTime \in Nat /\ MaxTime >= Interval
  /\ MaxCalls \in Nat

VARIABLES
  pattern,     (* that of formatter_, while an event is formatted with it    *)
  lastTime_,
  stream,      (* filestream_: "open" and good, "shut" and failed, or "bad": *)
               (* open, but a write to it has failed                         *)
  mutex,       (* the thread that holds mutex_, or Nobody                    *)
  disk,        (* what opening the file meets: "fine", "nodir" (no directory *)
               (* yet), "refused", or "noparent" (none can be made either)   *)
  clock,       (* seconds                                                    *)
  pc, now, n,  (* of each thread: where it is, its event's time, the item of *)
               (* the formatter it is at                                     *)
  calls,       (* the number of calls made                                   *)
  process,     (* "up", or "terminated" by an exception that left the        *)
               (* destructor that logs the event                             *)
  line,        (* what the file holds behind its last whole line, each piece *)
               (* with the thread that wrote it                              *)
  attempt,     (* history: when the file was last reopened                   *)
  usable       (* history: since when the file could be opened at any time,  *)
               (* MaxTime + 1 if it cannot now                               *)

file    == <<lastTime_, stream, line, attempt>>
world   == <<disk, clock, usable>>
vars    == <<pattern, file, world, mutex, pc, now, n, calls, process>>

Usable(d) == d \in {"fine", "nodir"}

(* The constructor has tried to open the file. The clock reads Interval or *)
(* more, as it does since 1970.                                            *)
Init ==
  /\ pattern = <<>>
  /\ lastTime_ = 0
  /\ disk \in {"fine", "refused"}
  /\ stream = IF disk = "fine" THEN "open" ELSE "shut"
  /\ clock = Interval
  /\ usable = IF disk = "fine" THEN 0 ELSE MaxTime + 1
  /\ mutex = Nobody
  /\ pc = [t \in Threads |-> "idle"]
  /\ now = [t \in Threads |-> 0]
  /\ n = [t \in Threads |-> 1]
  /\ calls = 0
  /\ process = "up"
  /\ line = <<>>
  /\ attempt = 0

Goes(t, place) == pc' = [pc EXCEPT ![t] = place]

Returns(t) == Goes(t, "idle") /\ now' = [now EXCEPT ![t] = 0]

-----------------------------------------------------------------------------
(* Opening the file, which is closed.                                      *)

(* create_directories throws if there is no parent to make one in.         *)
OpenThrows == disk = "noparent"

(* It makes the directory that is missing, and the second open succeeds.   *)
OpenForWrite ==
  /\ ~OpenThrows
  /\ stream' = IF Usable(disk) THEN "open" ELSE "shut"
  /\ disk' = IF disk = "nodir" THEN "fine" ELSE disk

(* reopen's body, with the lock. A stream that is good is closed. One that *)
(* has failed while open is not: to open it again fails, without an effect *)
(* on the file. Faulty variant: a stream that is not good is left alone.   *)
ReopensOnlyGood ==
  /\ mutex = Nobody
  /\ attempt' = clock
  /\ line' = IF stream = "open" THEN <<>> ELSE line
  /\ IF stream = "open" THEN OpenForWrite ELSE UNCHANGED <<stream, disk>>

Reopens ==
  /\ mutex = Nobody
  /\ attempt' = clock
  /\ line' = IF stream = "bad" THEN line ELSE <<>>
  /\ IF stream = "bad" THEN UNCHANGED <<stream, disk>> ELSE OpenForWrite

-----------------------------------------------------------------------------
(* FileLogAppender::log, for an event whose level passes. The formatter is *)
(* the one the appender was last given before log has the lock.            *)

Calls(t, place) ==
  /\ pc[t] = "idle" /\ calls < MaxCalls
  /\ calls' = calls + 1
  /\ now' = [now EXCEPT ![t] = clock]
  /\ Goes(t, place)
  /\ UNCHANGED <<pattern, file, world, mutex, n, process>>

log(t) == Calls(t, "test")

(* Faulty variant: lastTime_ is set first.                                 *)
TestSets(t) ==
  /\ pc[t] = "test"
  /\ lastTime_' = IF now[t] >= lastTime_ + Interval THEN now[t] ELSE lastTime_
  /\ Goes(t, IF now[t] >= lastTime_ + Interval THEN "reopen" ELSE "lock")
  /\ UNCHANGED <<pattern, stream, line, attempt, world, mutex, now, n, calls, process>>

Test(t) ==
  /\ pc[t] = "test"
  /\ Goes(t, IF now[t] >= lastTime_ + Interval THEN "reopen" ELSE "lock")
  /\ UNCHANGED <<pattern, file, world, mutex, now, n, calls, process>>

Reopen(t) ==
  /\ pc[t] = "reopen"
  /\ Reopens
  /\ Goes(t, "set")
  /\ UNCHANGED <<pattern, lastTime_, clock, usable, mutex, now, n, calls, process>>

(* The exception leaves log and ~LogEventWrap: std::terminate.             *)
ReopenThrows(t) ==
  /\ pc[t] = "reopen"
  /\ mutex = Nobody /\ stream # "bad" /\ OpenThrows
  /\ process' = "terminated"
  /\ UNCHANGED <<pattern, file, world, mutex, pc, now, n, calls>>

SetLastTime(t) ==
  /\ pc[t] = "set"
  /\ lastTime_' = now[t]
  /\ Goes(t, "lock")
  /\ UNCHANGED <<pattern, stream, line, attempt, world, mutex, now, n, calls, process>>

(* Faulty variant: the event is formatted without the lock.                *)
LockNot(t) ==
  /\ pc[t] = "lock"
  /\ pattern' \in Patterns
  /\ Goes(t, "format")
  /\ UNCHANGED <<file, world, mutex, now, n, calls, process>>

Lock(t) ==
  /\ pc[t] = "lock"
  /\ mutex = Nobody
  /\ mutex' = t
  /\ pattern' \in Patterns
  /\ Goes(t, "format")
  /\ UNCHANGED <<file, world, now, n, calls, process>>

By(t, text) == [i \in DOMAIN text |-> <<t, text[i]>>]

(* One item after another writes to the stream; one that has failed takes  *)
(* nothing more.                                                           *)
Item(t) ==
  /\ pc[t] = "format" /\ n[t] <= Len(items(pattern))
  /\ n' = [n EXCEPT ![t] = @ + 1]
  /\ \/ stream = "open" /\ line' = line \o By(t, items(pattern)[n[t]]) /\ UNCHANGED stream
     \/ stream = "open" /\ stream' = "bad" /\ UNCHANGED line
     \/ stream # "open" /\ UNCHANGED <<stream, line>>
  /\ UNCHANGED <<pattern, lastTime_, attempt, world, mutex, pc, now, calls, process>>

Unlock(t) ==
  /\ pc[t] = "format" /\ n[t] > Len(items(pattern))
  /\ mutex' = Nobody
  /\ line' = IF stream = "open" THEN <<>> ELSE line
  /\ Returns(t)
  /\ n' = [n EXCEPT ![t] = 1]
  /\ pattern' = <<>>
  /\ UNCHANGED <<lastTime_, stream, attempt, world, calls, process>>

(* reopen, called by Logger::reopen; an exception goes to its caller.      *)
reopen(t) == Calls(t, "reopening")

OnlyReopen(t) ==
  /\ pc[t] = "reopening"
  /\ \/ Reopens
     \/ /\ mutex = Nobody /\ stream # "bad" /\ OpenThrows
        /\ stream' = "shut" /\ line' = <<>>
        /\ UNCHANGED <<disk, attempt>>
  /\ Returns(t)
  /\ UNCHANGED <<pattern, lastTime_, clock, usable, mutex, n, calls, process>>

-----------------------------------------------------------------------------
(* Time, and whoever else changes the directory.                           *)

Tick ==
  /\ clock < MaxTime
  /\ clock' = clock + 1
  /\ UNCHANGED <<pattern, file, disk, usable, mutex, pc, now, n, calls, process>>

DiskChanges ==
  /\ disk' \in {"fine", "nodir", "refused", "noparent"} \ {disk}
  /\ usable' = IF ~Usable(disk') THEN MaxTime + 1 ELSE IF Usable(disk) THEN usable ELSE clock
  /\ UNCHANGED <<pattern, file, clock, mutex, pc, now, n, calls, process>>

Continues(t) ==
  \/ Test(t) \/ Reopen(t) \/ ReopenThrows(t) \/ SetLastTime(t)
  \/ Lock(t) \/ Item(t) \/ Unlock(t) \/ OnlyReopen(t)

Next ==
  /\ process = "up"
  /\ \/ \E t \in Threads : log(t) \/ reopen(t) \/ Continues(t)
     \/ Tick \/ DiskChanges

Spec == Init /\ [][Next]_vars

-----------------------------------------------------------------------------
(* Properties.                                                             *)

TypeOK ==
  /\ pattern \in Patterns \cup {<<>>}
  /\ lastTime_ \in Nat /\ attempt \in Nat /\ clock \in Nat
  /\ stream \in {"open", "shut", "bad"}
  /\ mutex \in Threads \cup {Nobody}
  /\ disk \in {"fine", "nodir", "refused", "noparent"}
  /\ usable \in Nat
  /\ pc \in [Threads -> {"idle", "test", "reopen", "set", "lock", "format", "reopening"}]
  /\ now \in [Threads -> Nat]
  /\ n \in [Threads -> Nat \ {0}]
  /\ calls \in Nat
  /\ process \in {"up", "terminated"}

(* An event is written to a file that was reopened less than Interval      *)
(* before the event, at most: log reads lastTime_ without the lock, but    *)
(* each thread sets it only after its own reopen, so that no thread takes  *)
(* for fresh a file that another is still to reopen. Rotating the file     *)
(* away loses no event for longer.                                         *)
FreshFile == \A t \in Threads : pc[t] = "format" => attempt > now[t] - Interval

(* Failure to open heals: an event is written whenever the file could be   *)
(* opened for the last Interval before it, unless a write has ever failed, *)
(* after which reopen neither closes nor opens the stream, for good.       *)
Heals ==
  \A t \in Threads :
    pc[t] = "format" /\ usable <= now[t] - Interval => stream # "shut"

(* A line in the file is one thread's event, whole, and what it says is    *)
(* the meaning of the pattern; isError tells whether that is an error.     *)
LinesWhole ==
  \A t \in Threads :
    pc[t] = "format" /\ n[t] > Len(items(pattern)) =>
      /\ stream = "open" => line = By(t, Meaning(pattern))
      /\ isError(pattern) <=> \E k \in DOMAIN Meaning(pattern) : Meaning(pattern)[k] = Error
=============================================================================
