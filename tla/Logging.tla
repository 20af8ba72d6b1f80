------------------------------ MODULE Logging ------------------------------
(***************************************************************************)
(* The process-wide logger of logging.rs, used by three kinds of thread:   *)
(* the terminal thread, which installs the terminal sink, drains it and    *)
(* drops it when the others are joined; the server thread, which holds the *)
(* service log; and its workers.  STATE is the mutex `lock`; the queue's   *)
(* and EMERGENCY's mutexes are held for one step each, and nobody takes    *)
(* STATE while holding one of them.  A thread that panics reports through  *)
(* the hook, which must not wait for STATE: it may hold it itself.         *)
(***************************************************************************)
EXTENDS Naturals, Sequences, FiniteSets, SequencesExt

CONSTANTS
    Workers,
    MAX_TERMINAL_LOGS,
    Loggers,            \* the threads whose own log calls are followed
    Fragile,            \* the workers that may panic
    MaxLogs,            \* bound: log calls of one thread
    MaxPanics           \* bound

Main == "main"
Server == "server"
Threads == Workers \cup {Main, Server}
None == "none"

LoggingAssumption ==
    /\ MAX_TERMINAL_LOGS \in Nat \ {0}
    /\ MaxLogs \in Nat /\ MaxPanics \in Nat
    /\ {Main, Server, None} \cap Workers = {}
    /\ Loggers \subseteq Workers \cup {Server} /\ Fragile \subseteq Workers

VARIABLES
    lock,       \* who holds STATE
    sink,       \* "none", "open" or "taken"; TERMINAL_ACTIVE is sink = "open"
    queue,      \* the sink's LogQueue
    emergency,  \* EMERGENCY
    file,       \* LoggerState::file is Some
    disk,       \* lines in the service log
    shown,      \* lines the TUI has drained
    out,        \* lines printed to stdout or stderr
    th,         \* thread -> [pc, job, todo, to]
    said,       \* history: lines handed to log, report or the panic hook
    dropped,    \* history: lines a full queue gave up
    told,       \* history: omissions reported by drains
    cut         \* history: lines lost with the stack of a panic

logVars == <<lock, sink, queue, emergency, file, disk, shown, out, th,
          said, dropped, told, cut>>

Line(p, kind, n) == <<p, kind, n>>
FailureLine(p, n) == Line(p, "log file disabled", n)
PanicLines(p) == <<Line(p, "panic", 1), Line(p, "panic", 2)>>

EmptyQueue == [lines |-> <<>>, omitted |-> 0]
Quiet(pc) == [pc |-> pc, job |-> None, todo |-> <<>>, to |-> None]

\* Mutant: a line that is pushed out is not counted.
PushAll_Uncounted(q, ls) ==
    LET all == q.lines \o ls
        over == IF Len(all) > MAX_TERMINAL_LOGS
                THEN Len(all) - MAX_TERMINAL_LOGS ELSE 0
    IN  [lines |-> SubSeq(all, over + 1, Len(all)), omitted |-> q.omitted]

\* LogQueue::push, for the lines ls in turn, and what it gives up.
PushAll(q, ls) ==
    LET all == q.lines \o ls
        over == IF Len(all) > MAX_TERMINAL_LOGS
                THEN Len(all) - MAX_TERMINAL_LOGS ELSE 0
    IN  [lines |-> SubSeq(all, over + 1, Len(all)),
         omitted |-> q.omitted + over]

GivenUp(q, ls) ==
    LET all == q.lines \o ls
    IN  {all[i] : i \in 1..(Len(all) - Len(PushAll(q, ls).lines))}

\* LogQueue::drain: the omission comes first; like a failure's line, it is
\* told from earlier ones by how many lines there were.
Drained(p, q) ==
    IF q.omitted = 0 THEN q.lines
    ELSE <<Line(p, "omitted", Cardinality(said))>> \o q.lines
----------------------------------------------------------------------------
LogInit ==
    /\ lock = None /\ sink = "none" /\ file = FALSE
    /\ queue = EmptyQueue /\ emergency = EmptyQueue
    /\ disk = {} /\ shown = {} /\ out = {}
    /\ said = {} /\ dropped = {} /\ told = 0 /\ cut = {}
    /\ \E tui \in BOOLEAN :
         th = [p \in Threads |->
                 Quiet(IF p = Main /\ ~tui THEN "done" ELSE "new")]

Goto(p, pc) == th' = [th EXCEPT ![p].pc = pc]

\* What follows the last line a call emits.
AfterEmit(job) ==
    CASE job = "log"   -> "idle"
      [] job = "drain" -> "drain"
      [] job = "fail"  -> "done"
      [] OTHER         -> "want"   \* openFile, closeFile, openSink, closeSink

Working == {w \in Workers : th[w].pc \notin {"new", "done"}}

Enter(p, job, todo, pc) ==
    th' = [th EXCEPT ![p] = [pc |-> pc, job |-> job, todo |-> todo, to |-> None]]

\* install_sink, then install_file on the server thread, then its workers.
OpenSink ==
    /\ th[Main].pc = "new"
    /\ Enter(Main, "openSink", <<>>, "want")
    /\ UNCHANGED <<lock, sink, queue, emergency, file, disk, shown, out,
                   said, dropped, told, cut>>

OpenFile ==
    /\ th[Server].pc = "new" /\ (sink = "open" \/ th[Main].pc = "done")
    /\ Enter(Server, "openFile", <<>>, "want")
    /\ UNCHANGED <<lock, sink, queue, emergency, file, disk, shown, out,
                   said, dropped, told, cut>>

Spawn(w) ==
    /\ th[w].pc = "new" /\ th[Server].pc = "idle"
    /\ Goto(w, "idle")
    /\ UNCHANGED <<lock, sink, queue, emergency, file, disk, shown, out,
                   said, dropped, told, cut>>

\* log: first what panics have deferred, then its own line.
Log(p) ==
    LET n == Cardinality({l \in said : l[1] = p /\ l[2] = "log"}) + 1
    IN  /\ p \in Loggers /\ th[p].pc = "idle" /\ n <= MaxLogs
        /\ said' = said \cup {Line(p, "log", n)}
        /\ Enter(p, "log", <<Line(p, "log", n)>>, "flush")
        /\ UNCHANGED <<lock, sink, queue, emergency, file, disk, shown, out,
                       dropped, told, cut>>

\* The calls that flush and emit nothing of their own: LogReceiver::drain,
\* and the drops of the two guards once the threads under them are joined.
Enterable(p, job) ==
    /\ th[p].pc = "idle"
    /\ \/ job = "drain" /\ p = Main
       \/ job = "closeFile" /\ p = Server /\ Working = {}
       \/ job = "closeSink" /\ p = Main /\ th[Server].pc = "done"

Call(p, job) ==
    /\ Enterable(p, job)
    /\ Enter(p, job, <<>>, "flush")
    /\ UNCHANGED <<lock, sink, queue, emergency, file, disk, shown, out,
                   said, dropped, told, cut>>

Return(w) ==
    /\ w \in Workers /\ th[w].pc = "idle"
    /\ Goto(w, "done")
    /\ UNCHANGED <<lock, sink, queue, emergency, file, disk, shown, out,
                   said, dropped, told, cut>>
----------------------------------------------------------------------------
\* flush_emergency takes everything deferred; the caller emits it later.
Flush(p) ==
    LET todo == Drained(p, emergency) \o th[p].todo
    IN  /\ th[p].pc = "flush"
        /\ emergency' = EmptyQueue
        /\ told' = told + emergency.omitted
        /\ said' = said \cup ToSet(todo)
        /\ th' = [th EXCEPT ![p].todo = todo,
                    ![p].pc = IF todo = <<>> THEN AfterEmit(th[p].job) ELSE "want"]
        /\ UNCHANGED <<lock, sink, queue, file, disk, shown, out, dropped, cut>>

Acquire(p) ==
    /\ th[p].pc = "want" /\ lock = None
    /\ lock' = p /\ Goto(p, "holding")
    /\ UNCHANGED <<sink, queue, emergency, file, disk, shown, out,
                   said, dropped, told, cut>>

\* emit under the lock: write the file, disable it on failure, clone the sink.
EmitWrites(p, ok) ==
    LET line == Head(th[p].todo)
        failure == FailureLine(p, Cardinality(said))
    IN  /\ th[p].pc = "holding" /\ th[p].todo # <<>>
        /\ ok \/ file
        /\ disk' = IF file /\ ok THEN disk \cup {line} ELSE disk
        /\ file' = (file /\ ok)
        /\ th' = [th EXCEPT
             ![p].pc = "push",
             ![p].to = sink,
             ![p].todo = IF ok THEN @ ELSE <<failure>> \o @]
        /\ said' = IF ok THEN said ELSE said \cup {failure}
        /\ lock' = None
        /\ UNCHANGED <<sink, queue, emergency, shown, out, dropped, told, cut>>

\* emit after the lock: the lines go to the queue it cloned, or are printed.
Delivered(p) ==
    IF Head(th[p].todo)[2] = "log file disabled" /\ Len(th[p].todo) > 1
       /\ Head(th[p].todo)[1] = p
    THEN SubSeq(th[p].todo, 1, 2) ELSE <<Head(th[p].todo)>>

EmitPushes(p) ==
    LET now == Delivered(p)
        rest == SubSeq(th[p].todo, Len(now) + 1, Len(th[p].todo))
    IN  /\ th[p].pc = "push"
        /\ IF th[p].to = "open"
           THEN /\ queue' = PushAll(queue, now)
                /\ dropped' = dropped \cup GivenUp(queue, now)
                /\ UNCHANGED out
           ELSE /\ out' = out \cup ToSet(now)
                /\ UNCHANGED <<queue, dropped>>
        /\ th' = [th EXCEPT ![p].todo = rest,
                    ![p].pc = IF rest = <<>> THEN AfterEmit(th[p].job) ELSE "want"]
        /\ UNCHANGED <<lock, sink, emergency, file, disk, shown, said, told, cut>>

----------------------------------------------------------------------------
\* The critical sections of the guards, and the drain of the queue.
Unlocks(p, pc) == lock' = None /\ th' = [th EXCEPT ![p] = Quiet(pc)]

HoldsLock(p, job) == th[p].pc = "holding" /\ th[p].todo = <<>> /\ th[p].job = job

SinkOpened ==
    /\ HoldsLock(Main, "openSink") /\ Unlocks(Main, "idle")
    /\ sink' = "open"
    /\ UNCHANGED <<queue, emergency, file, disk, shown, out, said, dropped, told, cut>>

\* install_file, which the directory may refuse: the failure is reported.
FileOpened(ok) ==
    LET report == Line(Server, "initialization failed", 1)
    IN  /\ HoldsLock(Server, "openFile") /\ lock' = None
        /\ file' = ok
        /\ said' = IF ok THEN said ELSE said \cup {report}
        /\ th' = [th EXCEPT ![Server] =
                    IF ok THEN Quiet("idle")
                    ELSE [Quiet("flush") EXCEPT !.job = "fail", !.todo = <<report>>]]
        /\ UNCHANGED <<sink, queue, emergency, disk, shown, out, dropped, told, cut>>

FileClosed ==
    /\ HoldsLock(Server, "closeFile") /\ Unlocks(Server, "done")
    /\ file' = FALSE
    /\ UNCHANGED <<sink, queue, emergency, disk, shown, out, said, dropped, told, cut>>

\* The sink is taken under the lock; what is left in it is printed.
SinkClosed ==
    /\ HoldsLock(Main, "closeSink") /\ Unlocks(Main, "done")
    /\ sink' = "taken"
    /\ out' = out \cup ToSet(queue.lines)
    /\ told' = told + queue.omitted
    /\ queue' = EmptyQueue
    /\ UNCHANGED <<emergency, file, disk, shown, said, dropped, cut>>

Drain ==
    /\ th[Main].pc = "drain"
    /\ shown' = shown \cup ToSet(queue.lines)
    /\ told' = told + queue.omitted
    /\ queue' = EmptyQueue
    /\ th' = [th EXCEPT ![Main] = Quiet("idle")]
    /\ UNCHANGED <<lock, sink, emergency, file, disk, out, said, dropped, cut>>
----------------------------------------------------------------------------
\* A worker panics, in its own code or inside emit's critical section.  The
\* hook reports under the lock when try_lock gets it and defers otherwise.
Panics(p) ==
    /\ p \in Fragile /\ th[p].pc \in {"idle", "holding"}
    /\ Cardinality({l \in said : l[2] = "panic" /\ l[3] = 1}) < MaxPanics
    /\ said' = said \cup ToSet(PanicLines(p))
    /\ cut' = cut \cup ToSet(th[p].todo)

\* Mutant: the hook waits for STATE.
TryReport_Waits(p) ==
    /\ Panics(p)
    /\ IF lock = None
       THEN lock' = p /\ Enter(p, None, PanicLines(p), "hook")
       ELSE UNCHANGED lock /\ Enter(p, "log", PanicLines(p), "want")
    /\ UNCHANGED <<sink, queue, emergency, file, disk, shown, out, dropped, told>>

TryReport(p) ==
    /\ Panics(p)
    /\ IF lock = None
       THEN lock' = p /\ Enter(p, None, PanicLines(p), "hook")
       ELSE UNCHANGED lock /\ Enter(p, None, PanicLines(p), "defer")
    /\ UNCHANGED <<sink, queue, emergency, file, disk, shown, out, dropped, told>>

\* try_report_from_panic under the lock: n lines reach the file, then it fails.
HookWrites(p, n) ==
    LET lines == th[p].todo
        fails == file /\ n < Len(lines)
        failure == FailureLine(p, Cardinality(said))
        told2 == IF fails
                 THEN SubSeq(lines, 1, n) \o <<failure>> \o SubSeq(lines, n + 1, Len(lines))
                 ELSE lines
    IN  /\ th[p].pc = "hook"
        /\ file \/ n = Len(lines)
        /\ disk' = IF file THEN disk \cup ToSet(SubSeq(lines, 1, n)) ELSE disk
        /\ file' = (file /\ ~fails)
        /\ said' = IF fails THEN said \cup {failure} ELSE said
        /\ IF sink = "open"
           THEN /\ queue' = PushAll(queue, told2)
                /\ dropped' = dropped \cup GivenUp(queue, told2)
                /\ UNCHANGED out
           ELSE out' = out \cup ToSet(told2) /\ UNCHANGED <<queue, dropped>>
        /\ Unlocks(p, "done")
        /\ UNCHANGED <<sink, emergency, shown, told, cut>>

\* One line at a time into EMERGENCY; the stack then unwinds and releases a
\* lock the thread held (recover_lock and lock_state ignore the poison).
Defer(p) ==
    LET line == <<Head(th[p].todo)>>
    IN  /\ th[p].pc = "defer"
        /\ emergency' = PushAll(emergency, line)
        /\ dropped' = dropped \cup GivenUp(emergency, line)
        /\ out' = IF sink = "open" THEN out ELSE out \cup ToSet(line)
        /\ IF Len(th[p].todo) = 1
           THEN /\ th' = [th EXCEPT ![p] = Quiet("done")]
                /\ lock' = IF lock = p THEN None ELSE lock
           ELSE /\ th' = [th EXCEPT ![p].todo = Tail(@)]
                /\ UNCHANGED lock
        /\ UNCHANGED <<sink, queue, file, disk, shown, said, told, cut>>
----------------------------------------------------------------------------
Step(p) ==
    \/ Flush(p) \/ Acquire(p) \/ EmitPushes(p) \/ Defer(p)
    \/ \E ok \in BOOLEAN : EmitWrites(p, ok)
    \/ \E n \in 0..2 : HookWrites(p, n)
    \/ p = Main /\ (OpenSink \/ SinkOpened \/ SinkClosed \/ Drain)
    \/ p = Server /\ (OpenFile \/ FileClosed \/ \E ok \in BOOLEAN : FileOpened(ok))

\* The terminal thread and the server thread have dropped their guards.
AllDone == \A p \in {Main, Server} : th[p].pc = "done"

Terminated == AllDone /\ UNCHANGED logVars

LogNext ==
    \/ \E p \in Threads : Step(p) \/ Log(p) \/ Return(p) \/ TryReport(p)
    \/ \E w \in Workers : Spawn(w)
    \/ \E p \in {Main, Server}, job \in {"drain", "closeFile", "closeSink"} : Call(p, job)
    \/ Terminated

LogSpec == LogInit /\ [][LogNext]_logVars

\* Threads that have begun a call run; workers return; and the two owners drop
\* their guards when the threads below them are joined.
LogFairSpec ==
    /\ LogSpec
    /\ \A p \in Threads : WF_logVars(Step(p))
    /\ \A w \in Workers : WF_logVars(Return(w))
    /\ SF_logVars(Call(Server, "closeFile")) /\ SF_logVars(Call(Main, "closeSink"))
----------------------------------------------------------------------------
\* The sink and the threads keep their types, both queues within their limit,
\* and nothing appears that was not logged.
LogTypeOK ==
    /\ lock \in Threads \cup {None} /\ sink \in {"none", "open", "taken"}
    /\ file \in BOOLEAN /\ told \in Nat
    /\ \A q \in {queue, emergency} :
         Len(q.lines) <= MAX_TERMINAL_LOGS /\ q.omitted \in Nat
    /\ \A p \in Threads :
         th[p].pc \in {"new", "idle", "flush", "want", "holding", "push",
                       "drain", "hook", "defer", "done"}
    /\ disk \cup shown \cup out \cup dropped \cup cut \subseteq said

InFlight == UNION {ToSet(th[p].todo) : p \in Threads}
Waiting == ToSet(queue.lines) \cup ToSet(emergency.lines)
Seen == disk \cup shown \cup out

\* Every line a thread has handed to the logger is on its way, in a queue, in
\* the service log or before the operator, or was given up by a full queue;
\* and the queues count exactly what they gave up, until a drain reports it.
EveryLineSomewhere ==
    /\ said \subseteq InFlight \cup Waiting \cup Seen \cup dropped \cup cut
    /\ Cardinality(dropped) = queue.omitted + emergency.omitted + told

\* Once both guards are dropped nothing waits any more: every line, a deferred
\* panic report too, is in the service log or was printed or shown.
NothingLeft == AllDone => said \subseteq Seen \cup dropped \cup cut

NothingLost == LogTypeOK /\ EveryLineSomewhere /\ NothingLeft

-----------------------------------------------------------------------------
(* What the induction needs beside NothingLost. *)

Kinds == {"log", "panic", "omitted", "log file disabled", "initialization failed"}
Jobs == {None, "log", "drain", "fail", "openFile", "closeFile", "openSink", "closeSink"}

Pcs == {"new", "idle", "flush", "want", "holding", "push", "drain", "hook", "defer", "done"}

LoggerTyped ==
    /\ lock \in Threads \cup {None} /\ sink \in {"none", "open", "taken"}
    /\ file \in BOOLEAN /\ told \in Nat
    /\ IsFiniteSet(said) /\ said \subseteq Threads \X Kinds \X Nat
    /\ disk \cup shown \cup out \cup dropped \cup cut \subseteq said
    /\ queue \in [lines : Seq(said), omitted : Nat] /\ Len(queue.lines) <= MAX_TERMINAL_LOGS
    /\ emergency \in [lines : Seq(said), omitted : Nat] /\ Len(emergency.lines) <= MAX_TERMINAL_LOGS
    /\ th \in [Threads -> [pc : Pcs, job : Jobs, todo : Seq(said), to : {"none", "open", "taken"}]]

\* A line of a thread p that does not exist yet has a name of its own.
LogLines(p) == {l \in said : l[1] = p /\ l[2] = "log"}
Numbered(l) ==
    /\ l[2] \in {"omitted", "log file disabled"} => l[3] < Cardinality(said)
    /\ l[2] = "log" => l[3] <= Cardinality(LogLines(l[1]))
    /\ l[2] = "panic" => th[l[1]].pc \in {"hook", "defer", "done"}
    /\ l[2] = "initialization failed" =>
         th[Server].pc # "new" /\ th[Server].job # "openFile"

\* No line waits in two places, or waits and has been given up.
OnePlace ==
    /\ IsInjective(queue.lines) /\ IsInjective(emergency.lines)
    /\ \A p \in Threads : IsInjective(th[p].todo)
    /\ ToSet(queue.lines) \cap ToSet(emergency.lines) = {}
    /\ (InFlight \cup Waiting) \cap dropped = {} /\ InFlight \cap Waiting = {}
    /\ \A p, r \in Threads : p # r => ToSet(th[p].todo) \cap ToSet(th[r].todo) = {}

\* What a thread holds at each of its steps.
Stage(p) ==
    /\ th[p].pc \in {"new", "idle", "drain", "done"} => th[p].todo = <<>>
    /\ th[p].pc \in {"push", "defer"} => th[p].todo # <<>>
    /\ th[p].pc \in {"hook", "defer"} => p \in Workers
    /\ th[p].pc = "hook" => Len(th[p].todo) = Len(PanicLines(p))
    /\ th[p].pc = "push" /\ th[p].to = "open" => sink = "open"
    /\ p \in Workers \/ th[p].pc = "idle" => th[p].job \in {None, "log"}

\* No worker has begun before the service log is open; none is left, and no
\* deferred report, when it is closed; and the sink outlives the server.
Early == th[Server].pc = "new" \/ th[Server].job \in {"openFile", "fail"}
Late == th[Server].pc = "done" \/ th[Server].job = "closeFile"
Nested ==
    /\ Early => \A w \in Workers : th[w].pc = "new"
    /\ Early \/ (Late /\ th[Server].pc # "flush") => emergency.lines = <<>>
    /\ Late => Working = {}
    /\ th[Server].job \in {None, "log", "openFile", "closeFile", "fail"}
    /\ th[Main].job \in {None, "drain", "openSink", "closeSink"}
    /\ th[Main].job = "closeSink" => th[Server].pc = "done"
    /\ th[Main].pc = "done" => sink # "open"
    /\ sink # "open" => queue.lines = <<>>

\* The inductive invariant of NothingLost.
LogInv ==
    /\ LoggerTyped /\ OnePlace /\ EveryLineSomewhere /\ Nested
    /\ \A l \in said : Numbered(l)
    /\ \A p \in Threads : Stage(p)

=============================================================================
