------------------------------ MODULE Receiver ------------------------------
(***************************************************************************)
(* The inside of a collector while it serves: receiver.rs and writer.rs.   *)
(*                                                                         *)
(* The main thread accepts connections.  Each connection has a thread that *)
(* reads one request and hands its rows to the one writer over a bounded   *)
(* channel; the writer commits a batch and replies.  A watchdog ends a     *)
(* quiet collector, and a monitor ends one whose writer is gone.  Whoever  *)
(* sets the stop flag connects once to the listener, because `accept`      *)
(* blocks.                                                                 *)
(*                                                                         *)
(* One step is one access to shared state: the flag, the channel, the      *)
(* listener, the database.  Headers, tokens, rate limit and bodies decide  *)
(* only whether a request is refused; the prune timer changes no row that  *)
(* a request waits for.                                                    *)
(***************************************************************************)
EXTENDS Naturals, Sequences, FiniteSets, SequencesExt

CONSTANTS
    Clients,       \* connections that may come, one request each
    Requests,      \* [Clients -> SUBSET RequestKinds], what each may send
    Wake,          \* the connection of wake()
    Idles,         \* whether there is an idle limit, and so a watchdog
    MaxLive,       \* MAX_LIVE_CONNECTIONS (64)
    ChannelBound,  \* CHANNEL_BOUND (256)
    MaxBatch,      \* MAX_BATCH (64)
    MaxFaults      \* bound on errors of the system and panics of the writer

\* Rows that parse, a body that is no OTLP, a shutdown with the token, and what is
\* refused before its body or does not come within the deadline.
RequestKinds == {"rows", "invalid", "shutdown", "refused"}

ASSUME ReceiverAssumption ==
    /\ Requests \in [Clients -> SUBSET RequestKinds]
    /\ IsFiniteSet(Clients) /\ Wake \notin Clients
    /\ Idles \in BOOLEAN
    /\ MaxLive \in Nat \ {0} /\ ChannelBound \in Nat \ {0} /\ MaxBatch \in Nat \ {0}
    /\ MaxFaults \in Nat

VARIABLES
    main,     \* where the main thread is
    stream,   \* the connection it has accepted
    dog,      \* where the idle watchdog is
    monitor,  \* where the thread that waits for the writer is
    writer,   \* where the writer is
    at,       \* [Clients -> place] of a connection and its thread
    stop,     \* the stop flag
    wakes,    \* connections of wake() in the backlog
    live,     \* connection threads counted
    jobs,     \* Shared.jobs still holds its sender
    queue,    \* the channel
    batch,    \* what the writer took out of it
    reply,    \* [Clients -> what is in the reply channel of the job]
    stored,   \* clients whose rows are committed
    thanked,  \* clients that were told 200 for their rows
    faults

mainVars == <<main, stream>>
halters == <<dog, monitor>>
channel == <<queue, batch, reply, stored>>
vars == <<mainVars, halters, writer, at, stop, wakes, live, jobs, channel, thanked, faults>>

Accepting == {"loop", "accept", "got"}
MainPlaces == Accepting \cup {"leave", "close", "join", "end", "exit"}
HalterPlaces == {"watch", "halt", "wake", "end"}
WriterPlaces == {"recv", "commit", "yes", "no", "panicked", "ending", "gone"}
Places == {"away", "queued", "accepted", "read", "halt", "jobs", "send", "wait", "ok",
           "fail", "wake", "slot", "done"}

TypeOK ==
    /\ main \in MainPlaces /\ stream \in Clients \cup {Wake}
    /\ dog \in HalterPlaces /\ monitor \in HalterPlaces /\ writer \in WriterPlaces
    /\ at \in [Clients -> Places]
    /\ stop \in BOOLEAN /\ jobs \in BOOLEAN
    /\ wakes \in 0 .. Cardinality(Clients) + 2 /\ live \in 0 .. MaxLive
    /\ queue \in Seq(Clients) /\ Len(queue) <= ChannelBound
    /\ batch \in Seq(Clients) /\ Len(batch) <= MaxBatch
    /\ reply \in [Clients -> {"none", "yes", "no", "dropped"}]
    /\ stored \subseteq Clients /\ thanked \subseteq Clients
    /\ faults \in 0 .. MaxFaults

Init ==
    /\ main = "loop" /\ stream = Wake /\ monitor = "watch" /\ writer = "recv"
    /\ dog = IF Idles THEN "watch" ELSE "end"
    /\ at = [c \in Clients |-> "away"]
    /\ stop = FALSE /\ wakes = 0 /\ live = 0 /\ jobs = TRUE
    /\ queue = <<>> /\ batch = <<>> /\ stored = {} /\ thanked = {}
    /\ reply = [c \in Clients |-> "none"]
    /\ faults = 0

Up == main # "exit"
Calm == UNCHANGED faults
Fault == faults < MaxFaults /\ faults' = faults + 1

(***************************************************************************)
(* The main thread.                                                        *)
(***************************************************************************)
MainGoes(from, to) == main = from /\ main' = to

\* What no step of the main thread touches.
MainLeaves == UNCHANGED <<halters, writer, stop, channel, thanked>>

\* The head of accept_loop().
LoopTest ==
    /\ MainGoes("loop", IF stop THEN "leave" ELSE "accept")
    /\ MainLeaves /\ UNCHANGED <<stream, at, wakes, live, jobs, faults>>

\* accept() returns a client or somebody's wake().
Accept ==
    /\ MainGoes("accept", "got")
    /\ \/ \E c \in Clients :
             /\ at[c] = "queued" /\ stream' = c
             /\ at' = [at EXCEPT ![c] = "accepted"]
             /\ UNCHANGED wakes
       \/ /\ wakes > 0 /\ wakes' = wakes - 1
          /\ UNCHANGED <<stream, at>>
    /\ MainLeaves /\ UNCHANGED <<live, jobs, faults>>

\* accept() fails: an interruption is tried again, any other error ends the loop.
AcceptFails ==
    /\ Fault
    /\ main = "accept" /\ main' \in {"loop", "leave"}
    /\ MainLeaves /\ UNCHANGED <<stream, at, wakes, live, jobs>>

\* The main thread is done with its stream: a thread has it, or it is closed.
Pass(place) ==
    /\ stream' = Wake
    /\ at' = IF stream = Wake THEN at ELSE [at EXCEPT ![stream] = place]

\* The second look at the flag.  (A wake() that came before the flag would be a
\* connection like any other, which says nothing and ends.)
Drop ==
    /\ stop \/ stream = Wake
    /\ MainGoes("got", IF stop THEN "leave" ELSE "loop") /\ Pass("done")
    /\ MainLeaves /\ UNCHANGED <<wakes, live, jobs, faults>>

\* Mutated form of Admit: the number of threads is not looked at.
AdmitAll ==
    /\ ~stop /\ stream # Wake
    /\ MainGoes("got", "loop")
    /\ \/ Calm /\ Pass("read") /\ live' = live + 1
       \/ Fault /\ Pass("done") /\ UNCHANGED live
    /\ MainLeaves /\ UNCHANGED <<wakes, jobs>>

\* A connection with no thread to spare is answered 503.  Otherwise it is counted
\* and gets a thread, or that cannot be started and the count is taken back.
Admit ==
    /\ ~stop /\ stream # Wake
    /\ MainGoes("got", "loop")
    /\ \/ live >= MaxLive /\ Calm /\ Pass("done") /\ UNCHANGED live
       \/ live < MaxLive /\ Calm /\ Pass("read") /\ live' = live + 1
       \/ live < MaxLive /\ Fault /\ Pass("done") /\ UNCHANGED live
    /\ MainLeaves /\ UNCHANGED <<wakes, jobs>>

\* The way out: the watchdog, let go, is joined and `returned` is set, ...
Leave ==
    /\ dog = "end" /\ MainGoes("leave", "close")
    /\ MainLeaves /\ UNCHANGED <<stream, at, wakes, live, jobs, faults>>

\* ... the channel is closed ...
CloseChannel ==
    /\ MainGoes("close", "join") /\ jobs' = FALSE
    /\ MainLeaves /\ UNCHANGED <<stream, at, wakes, live, faults>>

\* Mutated form of JoinMonitor: serve() does not wait for the writer.
JoinNobody ==
    /\ MainGoes("join", "end")
    /\ MainLeaves /\ UNCHANGED <<stream, at, wakes, live, jobs, faults>>

\* ... and the monitor is joined, which has joined the writer.
JoinMonitor ==
    /\ monitor = "end" /\ MainGoes("join", "end")
    /\ MainLeaves /\ UNCHANGED <<stream, at, wakes, live, jobs, faults>>

\* serve() has returned and the process ends, whatever its connections do.
Exit ==
    /\ MainGoes("end", "exit")
    /\ at' = [c \in Clients |-> IF at[c] = "away" THEN "away" ELSE "done"]
    /\ MainLeaves /\ UNCHANGED <<stream, wakes, live, jobs, faults>>

(***************************************************************************)
(* The watchdog and the monitor.                                           *)
(***************************************************************************)
HaltersLeave == UNCHANGED <<mainVars, writer, at, live, jobs, channel, thanked, faults>>

\* The timer of watch_idle() finds that no request came for the idle limit.
Idle ==
    /\ Up /\ dog = "watch" /\ dog' = IF stop THEN "end" ELSE "halt"
    /\ HaltersLeave /\ UNCHANGED <<monitor, stop, wakes>>

\* The wait of watch_idle() ends because the accept loop has.
LetGo ==
    /\ dog = "watch" /\ main \notin Accepting /\ dog' = "end"
    /\ HaltersLeave /\ UNCHANGED <<monitor, stop, wakes>>

\* The writer's thread has ended.  A serve() that has returned needs no halt.
WriterEnded ==
    /\ Up /\ monitor = "watch" /\ writer = "gone"
    /\ monitor' = IF main \in {"close", "join", "end"} THEN "end" ELSE "halt"
    /\ HaltersLeave /\ UNCHANGED <<dog, stop, wakes>>

\* Mutated form of Halt: the listener is woken before the flag is set.
HaltBackwards(place, next) ==
    \/ /\ place = "halt" /\ next = "wake"
       /\ wakes' = wakes + 1 /\ UNCHANGED stop
    \/ /\ place = "wake" /\ next = "end"
       /\ stop' = TRUE /\ UNCHANGED wakes

\* halt(): first the flag, then the connection that wakes accept().
Halt(place, next) ==
    \/ /\ place = "halt" /\ next = "wake"
       /\ stop' = TRUE /\ UNCHANGED wakes
    \/ /\ place = "wake" /\ next = "end"
       /\ wakes' = wakes + 1 /\ UNCHANGED stop

DogHalts ==
    /\ Up /\ \E p \in HalterPlaces : dog' = p /\ Halt(dog, p)
    /\ HaltersLeave /\ UNCHANGED monitor

MonitorHalts ==
    /\ Up /\ \E p \in HalterPlaces : monitor' = p /\ Halt(monitor, p)
    /\ HaltersLeave /\ UNCHANGED dog

(***************************************************************************)
(* A connection and its thread.                                            *)
(***************************************************************************)
Goes(c, from, to) == Up /\ at[c] = from /\ at' = [at EXCEPT ![c] = to]

ThreadLeaves == UNCHANGED <<mainVars, halters, writer, jobs, batch, stored, faults>>

Connect(c) ==
    /\ Goes(c, "away", "queued")
    /\ ThreadLeaves /\ UNCHANGED <<stop, wakes, live, queue, reply, thanked>>

\* handle(): a request with a body, a shutdown, which is answered at once, or one
\* that is refused or never comes.
Read(c) ==
    /\ \E kind \in Requests[c] :
          Goes(c, "read", CASE kind \in {"rows", "invalid"} -> "jobs"
                            [] kind = "shutdown" -> "halt"
                            [] kind = "refused" -> "slot")
    /\ ThreadLeaves /\ UNCHANGED <<stop, wakes, live, queue, reply, thanked>>

\* The halt() of a shutdown, and the wake() after an answer while the flag is up.
ConnectionHalts(c) ==
    /\ Up /\ \E p \in {"wake", "end"} :
                /\ Halt(at[c], p)
                /\ at' = [at EXCEPT ![c] = IF p = "end" THEN "slot" ELSE p]
    /\ ThreadLeaves /\ UNCHANGED <<live, queue, reply, thanked>>

\* Shared.jobs(): a sender of one's own, unless the collector is shutting down.
TakeSender(c) ==
    /\ Goes(c, "jobs", IF jobs THEN "send" ELSE "fail")
    /\ ThreadLeaves /\ UNCHANGED <<stop, wakes, live, queue, reply, thanked>>

\* dispatch(), up to try_send: a body that is no OTLP, a writer that is gone, a
\* full channel, or a job that waits.
Send(c) ==
    /\ \/ /\ "invalid" \in Requests[c]
          /\ Goes(c, "send", "fail") /\ UNCHANGED <<stop, queue>>
       \/ /\ "rows" \in Requests[c] /\ writer = "gone"
          /\ Goes(c, "send", "fail") /\ stop' = TRUE /\ UNCHANGED queue
       \/ /\ "rows" \in Requests[c] /\ writer # "gone" /\ Len(queue) >= ChannelBound
          /\ Goes(c, "send", "fail") /\ UNCHANGED <<stop, queue>>
       \/ /\ "rows" \in Requests[c] /\ writer # "gone" /\ Len(queue) < ChannelBound
          /\ Goes(c, "send", "wait") /\ queue' = Append(queue, c) /\ UNCHANGED stop
    /\ ThreadLeaves /\ UNCHANGED <<wakes, live, reply, thanked>>

\* The rest of dispatch(): a reply that was dropped means that the writer died.
Receive(c) ==
    /\ reply[c] # "none"
    /\ Goes(c, "wait", IF reply[c] = "yes" THEN "ok" ELSE "fail")
    /\ reply' = [reply EXCEPT ![c] = "none"]
    /\ stop' = (stop \/ reply[c] = "dropped")
    /\ ThreadLeaves /\ UNCHANGED <<wakes, live, queue, thanked>>

\* The end of handle(): the answer, and a look at the flag, which dispatch() may
\* have set.
Respond(c) ==
    /\ \/ /\ Goes(c, "ok", IF stop THEN "wake" ELSE "slot")
          /\ thanked' = thanked \cup {c}
       \/ /\ Goes(c, "fail", IF stop THEN "wake" ELSE "slot")
          /\ UNCHANGED thanked
    /\ ThreadLeaves /\ UNCHANGED <<stop, wakes, live, queue, reply>>

FreeSlot(c) ==
    /\ Goes(c, "slot", "done")
    /\ live' = live - 1
    /\ ThreadLeaves /\ UNCHANGED <<stop, wakes, queue, reply, thanked>>

(***************************************************************************)
(* The writer.                                                             *)
(***************************************************************************)
WriterGoes(from, to) == Up /\ writer = from /\ writer' = to

WriterLeaves == UNCHANGED <<mainVars, halters, at, wakes, live, jobs, thanked>>

\* A sender is alive: the shared one or the one of a thread in dispatch().
SenderAlive == jobs \/ \E c \in Clients : at[c] \in {"send", "wait"}

\* The first job, and what else comes within the limits of a batch.
Take ==
    /\ WriterGoes("recv", "commit") \/ WriterGoes("commit", "commit")
    /\ queue # <<>> /\ Len(batch) < MaxBatch
    /\ batch' = Append(batch, Head(queue)) /\ queue' = Tail(queue)
    /\ WriterLeaves /\ UNCHANGED <<stop, reply, stored, faults>>

Disconnected ==
    /\ WriterGoes("recv", "gone")
    /\ queue = <<>> /\ ~SenderAlive
    /\ WriterLeaves /\ UNCHANGED <<stop, channel, faults>>

\* Mutated form of Commit: what the commit returned is not looked at.
CommitUnchecked ==
    /\ WriterGoes("commit", "yes")
    /\ \/ Calm /\ stored' = stored \cup ToSet(batch)
       \/ Fault /\ UNCHANGED stored
    /\ WriterLeaves /\ UNCHANGED <<stop, queue, batch, reply>>

\* Mutated form of Commit: the drain waits for the next job, with no deadline.
CommitFull ==
    /\ Len(batch) = MaxBatch
    /\ \/ Calm /\ WriterGoes("commit", "yes") /\ stored' = stored \cup ToSet(batch)
       \/ Fault /\ WriterGoes("commit", "no") /\ UNCHANGED stored
    /\ WriterLeaves /\ UNCHANGED <<stop, queue, batch, reply>>

\* commit(): all of the batch or nothing of it.
Commit ==
    /\ \/ Calm /\ WriterGoes("commit", "yes") /\ stored' = stored \cup ToSet(batch)
       \/ Fault /\ WriterGoes("commit", "no") /\ UNCHANGED stored
    /\ WriterLeaves /\ UNCHANGED <<stop, queue, batch, reply>>

\* The reply channels of these jobs carry this, or are dropped.
Told(js, word) == [c \in Clients |-> IF c \in ToSet(js) THEN word ELSE reply[c]]

Reply ==
    /\ \E word \in {"yes", "no"} : WriterGoes(word, "recv") /\ reply' = Told(batch, word)
    /\ batch' = <<>>
    /\ WriterLeaves /\ UNCHANGED <<stop, queue, stored, faults>>

\* A panic in an insert: the transaction rolls back and the batch is dropped.
Panic ==
    /\ Fault
    /\ WriterGoes("commit", "panicked")
    /\ reply' = Told(batch, "dropped") /\ batch' = <<>>
    /\ WriterLeaves /\ UNCHANGED <<stop, queue, stored>>

\* start(): the panic is caught and the flag set.
PanicCaught ==
    /\ WriterGoes("panicked", "ending") /\ stop' = TRUE
    /\ WriterLeaves /\ UNCHANGED <<channel, faults>>

\* The thread ends and its receiver is dropped, with the jobs still in it.
ThreadEnds ==
    /\ WriterGoes("ending", "gone")
    /\ reply' = Told(queue, "dropped") /\ queue' = <<>>
    /\ WriterLeaves /\ UNCHANGED <<stop, batch, stored, faults>>

(***************************************************************************)
MainStep ==
    \/ LoopTest \/ Accept \/ Drop \/ Admit
    \/ Leave \/ CloseChannel \/ JoinMonitor \/ Exit

DogStep == LetGo \/ DogHalts
MonitorStep == WriterEnded \/ MonitorHalts

WriterStep ==
    Take \/ Disconnected \/ Commit \/ Reply \/ PanicCaught \/ ThreadEnds

ThreadStep(c) ==
    \/ Read(c) \/ ConnectionHalts(c) \/ TakeSender(c) \/ Send(c) \/ Receive(c)
    \/ Respond(c) \/ FreeSlot(c)

Next ==
    \/ MainStep \/ DogStep \/ MonitorStep \/ WriterStep
    \/ Idle \/ AcceptFails \/ Panic
    \/ \E c \in Clients : Connect(c) \/ ThreadStep(c)

Spec == Init /\ [][Next]_vars

\* Every thread that can go on does: reads and writes of a connection have a
\* deadline, a commit has the busy timeout of SQLite.  Nobody has to connect,
\* nothing has to fail and the collector need not fall quiet.
Fairness ==
    /\ WF_vars(MainStep) /\ WF_vars(DogStep) /\ WF_vars(MonitorStep)
    /\ WF_vars(WriterStep)
    /\ \A c \in Clients : WF_vars(ThreadStep(c))

LiveSpec == Spec /\ Fairness

(***************************************************************************)
(* Properties.                                                             *)
(***************************************************************************)
\* A client that is told 200 has its rows in the database: "the connection thread
\* answers 200 or 503 after the commit" (writer.rs).  An exporter forgets what was
\* answered 200, so anything else loses usage for good.
OkIsStored == thanked \subseteq stored

\* When serve() returns, every job the channel took has been decided: the writer
\* "commits what it holds before this returns" (receiver.rs), although threads
\* may still be in dispatch() when the channel is closed.
NothingLeftBehind ==
    main = "end" =>
        /\ writer = "gone" /\ queue = <<>> /\ batch = <<>>
        /\ \A c \in Clients : at[c] = "wait" => reply[c] # "none"

\* Once the stop flag is set, by a shutdown, the watchdog, a panic of the writer
\* or a request that found it gone, serve() returns and the process ends: no
\* wake-up is lost on a blocking accept() and no two threads wait for each other.
StopEnds == stop ~> main = "exit"

\* Every connection is answered or closed: a full channel, a writer that dies
\* with the job queued or in hand, and a shutdown in between leave nobody waiting.
EveryoneAnswered == \A c \in Clients : at[c] = "queued" ~> at[c] = "done"
=============================================================================
