--------------------------- MODULE ReceiverProofs ---------------------------
(***************************************************************************)
(* What a serving collector owes its clients, for any number of requests   *)
(* and threads, any bound on the channel and the batch, and any number of  *)
(* faults: an answer 200 means stored rows (StoredInv), no job of the      *)
(* channel is left undecided when serve() returns (HeldInv), and the       *)
(* counted threads are those that run (CountInv).                          *)
(***************************************************************************)
EXTENDS Receiver, SequenceTheorems, FiniteSetTheorems, TLAPS

\* The variables that StoredInv and HeldInv are about have their types.
ShapeInv ==
    /\ at \in [Clients -> Places]
    /\ reply \in [Clients -> {"none", "yes", "no", "dropped"}]
    /\ queue \in Seq(Clients) /\ batch \in Seq(Clients)
    /\ stream \in Clients \cup {Wake}

\* Whatever is on its way to an answer 200 is stored already.
StoredInv ==
    /\ thanked \subseteq stored
    /\ \A c \in Clients : reply[c] = "yes" \/ at[c] = "ok" => c \in stored
    /\ writer = "yes" => ToSet(batch) \subseteq stored

\* A thread that waits has its answer, or its job is in the channel or in the
\* writer's hands.  The writer ends with both of them empty, the monitor goes on
\* only after the writer has ended, and serve() returns after the monitor.
HeldInv ==
    /\ \A c \in Clients :
          at[c] = "wait" => reply[c] # "none" \/ c \in ToSet(queue) \cup ToSet(batch)
    /\ writer \in {"recv", "panicked", "ending", "gone"} => batch = <<>>
    /\ writer = "gone" => queue = <<>>
    /\ monitor # "watch" => writer = "gone"
    /\ main = "end" => monitor = "end"

IInv == ShapeInv /\ StoredInv /\ HeldInv

-----------------------------------------------------------------------------
(* Sequences as sets of jobs                                                *)

LEMMA NoJobs == ToSet(<<>>) = {}
  BY DEF ToSet

LEMMA OneMore ==
  ASSUME NEW S, NEW s \in Seq(S), NEW x \in S
  PROVE  /\ Append(s, x) \in Seq(S)
         /\ ToSet(Append(s, x)) = ToSet(s) \cup {x}
  <1>1. /\ Append(s, x) \in Seq(S) /\ Len(Append(s, x)) = Len(s) + 1
        /\ \A i \in 1 .. Len(s) : Append(s, x)[i] = s[i]
        /\ Append(s, x)[Len(s) + 1] = x
    BY AppendProperties
  <1>2. DOMAIN s = 1 .. Len(s) /\ DOMAIN Append(s, x) = 1 .. Len(s) + 1 /\ Len(s) \in Nat
    BY <1>1
  <1>3. \A y : y \in ToSet(Append(s, x)) <=> y \in ToSet(s) \cup {x}
    BY <1>1, <1>2 DEF ToSet
  <1> QED BY <1>1, <1>3

LEMMA OneLess ==
  ASSUME NEW S, NEW s \in Seq(S), s # <<>>
  PROVE  /\ Head(s) \in S /\ Tail(s) \in Seq(S)
         /\ ToSet(s) = {Head(s)} \cup ToSet(Tail(s))
  <1>1. /\ Head(s) \in S /\ Tail(s) \in Seq(S) /\ Len(Tail(s)) = Len(s) - 1
        /\ \A i \in 1 .. Len(Tail(s)) : Tail(s)[i] = s[i + 1]
    BY HeadTailProperties
  <1>2. /\ Head(s) = s[1] /\ Len(s) \in Nat /\ Len(s) >= 1
        /\ DOMAIN s = 1 .. Len(s) /\ DOMAIN Tail(s) = 1 .. Len(s) - 1
    BY <1>1
  <1>3. ASSUME NEW y \in ToSet(s) PROVE y \in {Head(s)} \cup ToSet(Tail(s))
    <2>1. PICK i \in 1 .. Len(s) : y = s[i]
      BY <1>2 DEF ToSet
    <2>2. CASE i = 1
      BY <1>2, <2>1, <2>2
    <2>3. CASE i # 1
      <3>1. i - 1 \in 1 .. Len(Tail(s)) /\ Tail(s)[i - 1] = s[i]
        BY <1>1, <1>2, <2>1, <2>3
      <3> QED BY <1>1, <1>2, <2>1, <3>1 DEF ToSet
    <2> QED BY <2>2, <2>3
  <1>4. ASSUME NEW y \in {Head(s)} \cup ToSet(Tail(s)) PROVE y \in ToSet(s)
    <2>1. CASE y = Head(s)
      BY <1>2, <2>1 DEF ToSet
    <2>2. CASE y \in ToSet(Tail(s))
      <3>1. PICK i \in 1 .. Len(s) - 1 : y = Tail(s)[i]
        BY <1>2, <2>2 DEF ToSet
      <3>2. i + 1 \in 1 .. Len(s) /\ y = s[i + 1]
        BY <1>1, <1>2, <3>1
      <3> QED BY <1>2, <3>2 DEF ToSet
    <2> QED BY <2>1, <2>2
  <1> QED BY <1>1, <1>3, <1>4

-----------------------------------------------------------------------------
(* Types                                                                    *)

LEMMA ShapeInit == ASSUME ReceiverAssumption, Init PROVE ShapeInv
  BY DEF Init, ShapeInv, Places

LEMMA MainShape == ASSUME ShapeInv, MainStep \/ AcceptFails PROVE ShapeInv'
  <1> USE DEF ShapeInv, MainLeaves, channel
  <1>1. ASSUME LoopTest \/ Leave \/ CloseChannel \/ JoinMonitor \/ AcceptFails PROVE ShapeInv'
    BY <1>1 DEF LoopTest, Leave, CloseChannel, JoinMonitor, AcceptFails
  <1>2. ASSUME Accept PROVE ShapeInv'
    BY <1>2 DEF Accept, Places
  <1>3. ASSUME Drop \/ Admit PROVE ShapeInv'
    BY <1>3 DEF Drop, Admit, Pass, Places
  <1>4. ASSUME Exit PROVE ShapeInv'
    BY <1>4 DEF Exit, Places
  <1> QED BY <1>1, <1>2, <1>3, <1>4 DEF MainStep

LEMMA HalterShape == ASSUME ShapeInv, DogStep \/ MonitorStep \/ Idle PROVE ShapeInv'
  BY DEF ShapeInv, DogStep, MonitorStep, Idle, LetGo, DogHalts, WriterEnded, MonitorHalts,
         HaltersLeave, mainVars, channel

LEMMA ThreadShape ==
  ASSUME ShapeInv, NEW c \in Clients, Connect(c) \/ ThreadStep(c)
  PROVE  ShapeInv'
  <1> USE DEF ShapeInv, ThreadLeaves, mainVars, Goes, Places
  <1>1. ASSUME Connect(c) \/ TakeSender(c) \/ Respond(c) \/ FreeSlot(c) PROVE ShapeInv'
    BY <1>1 DEF Connect, TakeSender, Respond, FreeSlot
  <1>2. ASSUME Read(c) PROVE ShapeInv'
    <2>1. PICK kind \in Requests[c] :
             at' = [at EXCEPT ![c] = CASE kind \in {"rows", "invalid"} -> "jobs"
                                       [] kind = "shutdown" -> "halt"
                                       [] kind = "refused" -> "slot"]
      BY <1>2 DEF Read
    <2>2. kind \in RequestKinds
      BY ReceiverAssumption
    <2> QED BY <1>2, <2>1, <2>2 DEF Read, RequestKinds
  <1>3. ASSUME ConnectionHalts(c) PROVE ShapeInv'
    BY <1>3 DEF ConnectionHalts
  <1>4. ASSUME Send(c) PROVE ShapeInv'
    <2>1. Append(queue, c) \in Seq(Clients)
      BY OneMore
    <2> QED BY <1>4, <2>1 DEF Send
  <1>5. ASSUME Receive(c) PROVE ShapeInv'
    BY <1>5 DEF Receive
  <1> QED BY <1>1, <1>2, <1>3, <1>4, <1>5 DEF ThreadStep

\* What reply channels carry when some jobs are told a word.
LEMMA Telling ==
  ASSUME ShapeInv, NEW js, NEW word \in {"yes", "no", "dropped"}
  PROVE  /\ Told(js, word) \in [Clients -> {"none", "yes", "no", "dropped"}]
         /\ \A c \in Clients : Told(js, word)[c] = IF c \in ToSet(js) THEN word ELSE reply[c]
  BY DEF Told, ShapeInv

LEMMA WriterShape == ASSUME ShapeInv, WriterStep \/ Panic PROVE ShapeInv'
  <1> USE DEF ShapeInv, WriterLeaves, mainVars, channel
  <1>1. ASSUME Take PROVE ShapeInv'
    <2>1. queue # <<>> /\ batch' = Append(batch, Head(queue)) /\ queue' = Tail(queue)
      BY <1>1 DEF Take
    <2>2. Head(queue) \in Clients /\ Tail(queue) \in Seq(Clients)
      BY <2>1, OneLess
    <2>3. Append(batch, Head(queue)) \in Seq(Clients)
      BY <2>2, OneMore
    <2> QED BY <1>1, <2>1, <2>2, <2>3 DEF Take
  <1>2. ASSUME Disconnected \/ Commit \/ PanicCaught PROVE ShapeInv'
    BY <1>2 DEF Disconnected, Commit, PanicCaught
  <1>3. ASSUME Reply \/ Panic \/ ThreadEnds PROVE ShapeInv'
    <2>1. reply' \in [Clients -> {"none", "yes", "no", "dropped"}]
      BY <1>3, Telling DEF Reply, Panic, ThreadEnds
    <2>2. UNCHANGED <<at, stream>> /\ queue' \in {queue, <<>>} /\ batch' \in {batch, <<>>}
      BY <1>3 DEF Reply, Panic, ThreadEnds
    <2>3. <<>> \in Seq(Clients)
      OBVIOUS
    <2> QED BY <2>1, <2>2, <2>3
  <1> QED BY <1>1, <1>2, <1>3 DEF WriterStep

LEMMA ShapeStep == ASSUME ShapeInv, [Next]_vars PROVE ShapeInv'
  <1>1. ASSUME UNCHANGED vars PROVE ShapeInv'
    BY <1>1 DEF ShapeInv, vars, mainVars, channel
  <1> QED BY <1>1, MainShape, HalterShape, ThreadShape, WriterShape DEF Next

-----------------------------------------------------------------------------
(* The main thread, the watchdog and the monitor                            *)

\* These steps leave the jobs and their answers alone.
Aside ==
    /\ UNCHANGED <<thanked, stored, reply, writer, queue, batch>>
    /\ \A c \in Clients : at'[c] \in {"ok", "wait"} => at'[c] = at[c]

\* The order in which serve() ends.
Ordered ==
    /\ monitor' # "watch" => monitor # "watch" \/ writer = "gone"
    /\ main' = "end" => main = "end" \/ monitor = "end"
    /\ monitor = "end" => monitor' = "end"

LEMMA AsideKeeps == ASSUME IInv, Aside, Ordered PROVE StoredInv' /\ HeldInv'
  BY DEF IInv, Aside, Ordered, StoredInv, HeldInv

LEMMA MainAside == ASSUME ShapeInv, MainStep \/ AcceptFails PROVE Aside /\ Ordered
  <1> USE DEF ShapeInv, Aside, Ordered, MainLeaves, channel, halters, MainGoes
  <1>1. ASSUME LoopTest \/ Leave \/ CloseChannel \/ JoinMonitor \/ AcceptFails
        PROVE  Aside /\ Ordered
    BY <1>1 DEF LoopTest, Leave, CloseChannel, JoinMonitor, AcceptFails
  <1>2. ASSUME Accept PROVE Aside /\ Ordered
    BY <1>2 DEF Accept
  <1>3. ASSUME Drop \/ Admit PROVE Aside /\ Ordered
    BY <1>3 DEF Drop, Admit, Pass
  <1>4. ASSUME Exit PROVE Aside /\ Ordered
    BY <1>4 DEF Exit
  <1> QED BY <1>1, <1>2, <1>3, <1>4 DEF MainStep

LEMMA HalterAside ==
  ASSUME ShapeInv, DogStep \/ MonitorStep \/ Idle
  PROVE  Aside /\ Ordered
  <1> USE DEF Aside, Ordered, HaltersLeave, channel, mainVars
  <1>1. ASSUME DogStep \/ Idle PROVE Aside /\ Ordered
    BY <1>1 DEF DogStep, Idle, LetGo, DogHalts
  <1>2. ASSUME WriterEnded PROVE Aside /\ Ordered
    BY <1>2 DEF WriterEnded
  <1>3. ASSUME MonitorHalts PROVE Aside /\ Ordered
    BY <1>3 DEF MonitorHalts, Halt
  <1> QED BY <1>1, <1>2, <1>3 DEF MonitorStep

-----------------------------------------------------------------------------
(* Connections                                                              *)

LEMMA ThreadKeeps ==
  ASSUME IInv, NEW c \in Clients, Connect(c) \/ ThreadStep(c)
  PROVE  StoredInv' /\ HeldInv'
  <1> USE DEF IInv, ShapeInv, ThreadLeaves, halters, mainVars, Goes
  <1>1. ASSUME Connect(c) \/ Read(c) \/ TakeSender(c) \/ FreeSlot(c) PROVE Aside /\ Ordered
    <2>1. UNCHANGED <<thanked, stored, reply, writer, queue, batch, monitor, main>>
      BY <1>1 DEF Connect, Read, TakeSender, FreeSlot
    <2>2. CASE Connect(c) \/ TakeSender(c) \/ FreeSlot(c)
      BY <2>1, <2>2 DEF Connect, TakeSender, FreeSlot, Aside, Ordered
    <2>3. CASE Read(c)
      <3>1. PICK kind \in Requests[c] :
               at' = [at EXCEPT ![c] = CASE kind \in {"rows", "invalid"} -> "jobs"
                                         [] kind = "shutdown" -> "halt"
                                         [] kind = "refused" -> "slot"]
        BY <2>3 DEF Read
      <3>2. kind \in RequestKinds
        BY ReceiverAssumption
      <3> QED BY <2>1, <3>1, <3>2 DEF RequestKinds, Aside, Ordered
    <2> QED BY <1>1, <2>2, <2>3
  <1>2. ASSUME ConnectionHalts(c) PROVE Aside /\ Ordered
    BY <1>2 DEF ConnectionHalts, Aside, Ordered
  <1>3. ASSUME Send(c) PROVE StoredInv' /\ HeldInv'
    <2>1. CASE queue' = queue
      <3>1. Aside /\ Ordered
        BY <1>3, <2>1 DEF Send, Aside, Ordered
      <3> QED BY <3>1, AsideKeeps
    <2>2. CASE queue' # queue
      <3>1. /\ writer # "gone" /\ queue' = Append(queue, c)
            /\ at' = [at EXCEPT ![c] = "wait"]
            /\ UNCHANGED <<thanked, stored, reply, writer, batch, monitor, main>>
        BY <1>3, <2>2 DEF Send
      <3>2. ToSet(queue') = ToSet(queue) \cup {c}
        BY <3>1, OneMore
      <3> QED BY <3>1, <3>2 DEF StoredInv, HeldInv
    <2> QED BY <2>1, <2>2
  <1>4. ASSUME Receive(c) PROVE StoredInv' /\ HeldInv'
    <2>1. /\ at' = [at EXCEPT ![c] = IF reply[c] = "yes" THEN "ok" ELSE "fail"]
          /\ reply' = [reply EXCEPT ![c] = "none"]
          /\ UNCHANGED <<thanked, stored, writer, queue, batch, monitor, main>>
      BY <1>4 DEF Receive
    <2> QED BY <2>1 DEF StoredInv, HeldInv
  <1>5. ASSUME Respond(c) PROVE StoredInv' /\ HeldInv'
    <2>1. /\ at' = [at EXCEPT ![c] = IF stop THEN "wake" ELSE "slot"]
          /\ thanked' = thanked \/ (at[c] = "ok" /\ thanked' = thanked \cup {c})
          /\ UNCHANGED <<reply, stored, writer, queue, batch, monitor, main>>
      BY <1>5 DEF Respond
    <2> QED BY <2>1 DEF StoredInv, HeldInv
  <1> QED BY <1>1, <1>2, <1>3, <1>4, <1>5, AsideKeeps DEF ThreadStep

-----------------------------------------------------------------------------
(* The writer                                                               *)

LEMMA WriterKeeps == ASSUME IInv, WriterStep \/ Panic PROVE StoredInv' /\ HeldInv'
  <1> USE DEF IInv, ShapeInv, WriterLeaves, WriterGoes, halters, mainVars
  <1>1. ASSUME Take PROVE StoredInv' /\ HeldInv'
    <2>1. /\ writer \in {"recv", "commit"} /\ writer' = "commit"
          /\ queue # <<>> /\ batch' = Append(batch, Head(queue)) /\ queue' = Tail(queue)
          /\ UNCHANGED <<at, thanked, reply, stored, monitor, main>>
      BY <1>1 DEF Take
    <2>2. Head(queue) \in Clients /\ ToSet(queue) = {Head(queue)} \cup ToSet(queue')
      BY <2>1, OneLess
    <2>3. ToSet(batch') = ToSet(batch) \cup {Head(queue)}
      BY <2>1, <2>2, OneMore
    <2> QED BY <2>1, <2>2, <2>3 DEF StoredInv, HeldInv
  <1>2. ASSUME Commit PROVE StoredInv' /\ HeldInv'
    <2>1. /\ writer = "commit"
          /\ \/ writer' = "yes" /\ stored' = stored \cup ToSet(batch)
             \/ writer' = "no" /\ stored' = stored
          /\ UNCHANGED <<at, thanked, reply, queue, batch, monitor, main>>
      BY <1>2 DEF Commit
    <2> QED BY <2>1 DEF StoredInv, HeldInv
  <1>3. ASSUME Disconnected \/ PanicCaught PROVE StoredInv' /\ HeldInv'
    <2>1. /\ \/ writer = "recv" /\ writer' = "gone" /\ queue = <<>>
             \/ writer = "panicked" /\ writer' = "ending"
          /\ UNCHANGED <<at, thanked, reply, stored, queue, batch, monitor, main>>
      BY <1>3 DEF Disconnected, PanicCaught, channel
    <2> QED BY <2>1 DEF StoredInv, HeldInv
  <1>4. ASSUME Reply PROVE StoredInv' /\ HeldInv'
    <2>1. PICK word \in {"yes", "no"} :
             writer = word /\ writer' = "recv" /\ reply' = Told(batch, word)
      BY <1>4 DEF Reply
    <2>2. batch' = <<>> /\ UNCHANGED <<at, thanked, stored, queue, monitor, main>>
      BY <1>4 DEF Reply
    <2>3. \A c \in Clients : reply'[c] = IF c \in ToSet(batch) THEN word ELSE reply[c]
      BY <2>1, Telling
    <2> QED BY <2>1, <2>2, <2>3, NoJobs DEF StoredInv, HeldInv
  <1>5. ASSUME Panic PROVE StoredInv' /\ HeldInv'
    <2>1. /\ writer = "commit" /\ writer' = "panicked"
          /\ reply' = Told(batch, "dropped") /\ batch' = <<>>
          /\ UNCHANGED <<at, thanked, stored, queue, monitor, main>>
      BY <1>5 DEF Panic
    <2>2. \A c \in Clients : reply'[c] = IF c \in ToSet(batch) THEN "dropped" ELSE reply[c]
      BY <2>1, Telling
    <2> QED BY <2>1, <2>2, NoJobs DEF StoredInv, HeldInv
  <1>6. ASSUME ThreadEnds PROVE StoredInv' /\ HeldInv'
    <2>1. /\ writer = "ending" /\ writer' = "gone"
          /\ reply' = Told(queue, "dropped") /\ queue' = <<>>
          /\ UNCHANGED <<at, thanked, stored, batch, monitor, main>>
      BY <1>6 DEF ThreadEnds
    <2>2. \A c \in Clients : reply'[c] = IF c \in ToSet(queue) THEN "dropped" ELSE reply[c]
      BY <2>1, Telling
    <2> QED BY <2>1, <2>2, NoJobs DEF StoredInv, HeldInv
  <1> QED BY <1>1, <1>2, <1>3, <1>4, <1>5, <1>6 DEF WriterStep

-----------------------------------------------------------------------------
LEMMA IInvInit == Init => IInv
  <1> SUFFICES ASSUME Init PROVE IInv
    OBVIOUS
  <1>1. ShapeInv
    BY ShapeInit, ReceiverAssumption
  <1>2. StoredInv /\ HeldInv
    BY DEF Init, StoredInv, HeldInv
  <1> QED BY <1>1, <1>2 DEF IInv

LEMMA IInvStep == IInv /\ [Next]_vars => IInv'
  <1> SUFFICES ASSUME IInv, [Next]_vars PROVE IInv'
    OBVIOUS
  <1>1. ShapeInv'
    BY ShapeStep DEF IInv
  <1>2. CASE UNCHANGED vars
    BY <1>2 DEF vars, mainVars, halters, channel, IInv, ShapeInv, StoredInv, HeldInv
  <1>3. CASE MainStep \/ AcceptFails \/ DogStep \/ MonitorStep \/ Idle
    BY <1>1, <1>3, MainAside, HalterAside, AsideKeeps DEF IInv
  <1>4. CASE \E c \in Clients : Connect(c) \/ ThreadStep(c)
    BY <1>1, <1>4, ThreadKeeps DEF IInv
  <1>5. CASE WriterStep \/ Panic
    BY <1>1, <1>5, WriterKeeps DEF IInv
  <1> QED BY <1>2, <1>3, <1>4, <1>5 DEF Next

\* The inductive invariant holds throughout, for any number of clients and faults.
LEMMA Invariant == Spec => []IInv
  BY IInvInit, IInvStep, PTL DEF Spec

\* An answer 200 means stored rows: the writer's reply comes after the commit
\* (writer.rs run, receiver.rs dispatch).
THEOREM AnswersAreStored == Spec => []OkIsStored
  <1>1. IInv => OkIsStored
    BY DEF IInv, StoredInv, OkIsStored
  <1> QED BY <1>1, Invariant, PTL

\* When serve() returns, the writer has ended, and every job the channel took has
\* been decided (receiver.rs serve_with_writer).
THEOREM ServeLeavesNothing == Spec => []NothingLeftBehind
  <1>1. IInv => NothingLeftBehind
    BY NoJobs DEF IInv, HeldInv, NothingLeftBehind
  <1> QED BY <1>1, Invariant, PTL
-----------------------------------------------------------------------------
(* Counting threads and wake-ups                                            *)

\* The places of a connection that a thread carries, and those of one whose
\* thread has woken accept() if it ever will.
WithThread == {"read", "halt", "jobs", "send", "wait", "ok", "fail", "wake", "slot"}
Ended == {"slot", "done"}

Threads == {c \in Clients : at[c] \in WithThread}
Silent == {c \in Clients : at[c] \in Ended}

One(b) == IF b THEN 1 ELSE 0

\* What one variable is, whatever the others are.
RangeInv ==
    /\ main \in MainPlaces /\ dog \in HalterPlaces /\ monitor \in HalterPlaces
    /\ writer \in WriterPlaces /\ stop \in BOOLEAN /\ jobs \in BOOLEAN
    /\ Len(queue) <= ChannelBound /\ Len(batch) <= MaxBatch
    /\ stored \subseteq Clients /\ thanked \subseteq Clients
    /\ faults \in 0 .. MaxFaults

\* Only between accept() and Admit is a connection in the main thread's hands.
StreamInv ==
    /\ main = "got" /\ stream # Wake => at[stream] = "accepted"
    /\ main # "got" => stream = Wake

\* `live` counts the threads, up to the end of the process, ...
LiveInv ==
    /\ live \in 0 .. MaxLive
    /\ main # "exit" => live = Cardinality(Threads)

\* ... and each thread, the watchdog and the monitor wake accept() once.
WakesInv ==
    /\ wakes \in Nat
    /\ wakes <= Cardinality(Silent) + One(dog = "end") + One(monitor = "end")

CountInv == RangeInv /\ StreamInv /\ LiveInv /\ WakesInv

\* What a step does to the threads.
KeepsThreads == Threads' = Threads /\ live' = live /\ (main = "exit" => main' = "exit")

OpensThread ==
    /\ live < MaxLive /\ main # "exit" /\ live' = live + 1
    /\ \E c \in Clients \ Threads : Threads' = Threads \cup {c}

ClosesThread ==
    /\ main # "exit" /\ live' = live - 1
    /\ \E c \in Threads : Threads' = Threads \ {c}

EndsThreads == main' = "exit" /\ live' = live

\* What it does to the wake-ups.
WakesNobody ==
    /\ wakes' \in Nat /\ wakes' <= wakes
    /\ Silent \subseteq Silent'
    /\ dog = "end" => dog' = "end"
    /\ monitor = "end" => monitor' = "end"

ThreadWakes ==
    /\ wakes' = wakes + 1 /\ UNCHANGED halters
    /\ \E c \in Clients \ Silent : Silent' = Silent \cup {c}

HalterWakes ==
    /\ wakes' = wakes + 1 /\ Silent' = Silent
    /\ \/ dog # "end" /\ dog' = "end" /\ monitor' = monitor
       \/ monitor # "end" /\ monitor' = "end" /\ dog' = dog

LEMMA Finite ==
  /\ IsFiniteSet(Threads) /\ IsFiniteSet(Silent) /\ IsFiniteSet(Threads') /\ IsFiniteSet(Silent')
  /\ Cardinality(Threads) \in Nat /\ Cardinality(Silent) \in Nat /\ Cardinality(Silent') \in Nat
  /\ Cardinality(Silent) <= Cardinality(Clients) /\ Cardinality(Clients) \in Nat
  <1>1. /\ Threads \subseteq Clients /\ Silent \subseteq Clients
        /\ Threads' \subseteq Clients /\ Silent' \subseteq Clients
    BY DEF Threads, Silent
  <1>2. IsFiniteSet(Clients)
    BY ReceiverAssumption
  <1> QED BY <1>1, <1>2, FS_Subset, FS_CardinalityType

LEMMA LiveKept ==
  ASSUME LiveInv, KeepsThreads \/ OpensThread \/ ClosesThread \/ EndsThreads
  PROVE  LiveInv'
  <1>1. MaxLive \in Nat /\ live \in Nat
    BY ReceiverAssumption DEF LiveInv
  <1>2. CASE KeepsThreads
    BY <1>2 DEF KeepsThreads, LiveInv
  <1>3. CASE OpensThread
    <2>1. PICK c \in Clients \ Threads : Threads' = Threads \cup {c}
      BY <1>3 DEF OpensThread
    <2>2. Cardinality(Threads') = Cardinality(Threads) + 1
      BY <2>1, Finite, FS_AddElement
    <2> QED BY <1>1, <1>3, <2>2 DEF OpensThread, LiveInv
  <1>4. CASE ClosesThread
    <2>1. PICK c \in Threads : Threads' = Threads \ {c}
      BY <1>4 DEF ClosesThread
    <2>2. /\ Cardinality(Threads') = Cardinality(Threads) - 1
          /\ Cardinality(Threads') \in Nat
      BY <2>1, Finite, FS_RemoveElement, FS_CardinalityType
    <2> QED BY <1>1, <1>4, <2>2 DEF ClosesThread, LiveInv
  <1>5. CASE EndsThreads
    BY <1>5 DEF EndsThreads, LiveInv
  <1> QED BY <1>2, <1>3, <1>4, <1>5

LEMMA WakesKept ==
  ASSUME WakesInv, WakesNobody \/ ThreadWakes \/ HalterWakes
  PROVE  WakesInv'
  <1> USE DEF WakesInv, One
  <1>1. CASE WakesNobody
    <2>1. Cardinality(Silent) <= Cardinality(Silent')
      BY <1>1, Finite, FS_Subset DEF WakesNobody
    <2> QED BY <1>1, <2>1, Finite DEF WakesNobody
  <1>2. CASE ThreadWakes
    <2>1. PICK c \in Clients \ Silent : Silent' = Silent \cup {c}
      BY <1>2 DEF ThreadWakes
    <2>2. Cardinality(Silent') = Cardinality(Silent) + 1
      BY <2>1, Finite, FS_AddElement
    <2> QED BY <1>2, <2>2, Finite DEF ThreadWakes, halters
  <1>3. CASE HalterWakes
    BY <1>3, Finite DEF HalterWakes
  <1> QED BY <1>1, <1>2, <1>3

\* One connection goes from a place to another.
AtGoes(c, place) ==
    /\ at'[c] = place
    /\ \A d \in Clients : d # c => at'[d] = at[d]

LEMMA PlaceKept ==
  ASSUME NEW c \in Clients, NEW place, AtGoes(c, place)
  PROVE  /\ (at[c] \in WithThread <=> place \in WithThread) => Threads' = Threads
         /\ at[c] \notin WithThread /\ place \in WithThread
              => c \notin Threads /\ Threads' = Threads \cup {c}
         /\ at[c] \in WithThread /\ place \notin WithThread
              => c \in Threads /\ Threads' = Threads \ {c}
         /\ (at[c] \in Ended => place \in Ended) => Silent \subseteq Silent'
         /\ (at[c] \in Ended <=> place \in Ended) => Silent' = Silent
         /\ at[c] \notin Ended /\ place \in Ended
              => c \notin Silent /\ Silent' = Silent \cup {c}
  BY DEF AtGoes, Threads, Silent

LEMMA AtSame ==
  ASSUME at' = at
  PROVE  Threads' = Threads /\ Silent' = Silent
  BY DEF Threads, Silent

Counted == KeepsThreads \/ OpensThread \/ ClosesThread \/ EndsThreads
Woken == WakesNobody \/ ThreadWakes \/ HalterWakes

\* Nothing that counts changes.
LEMMA AllSame ==
  ASSUME WakesInv, UNCHANGED <<at, live, wakes, halters>>, main = "exit" => main' = "exit"
  PROVE  Counted /\ Woken
  BY AtSame DEF Counted, Woken, KeepsThreads, WakesNobody, WakesInv, halters

LEMMA FaultsCount ==
  ASSUME RangeInv, Calm \/ Fault
  PROVE  faults' \in 0 .. MaxFaults
  BY ReceiverAssumption DEF RangeInv, Calm, Fault

LEMMA MainCounts ==
  ASSUME ShapeInv, CountInv, MainStep \/ AcceptFails
  PROVE  Counted /\ Woken /\ RangeInv' /\ StreamInv'
  <1> USE DEF CountInv, MainLeaves, channel, halters, MainGoes
  <1>1. main \in MainPlaces => main' \in MainPlaces
    BY DEF MainStep, LoopTest, Accept, AcceptFails, Drop, Admit, Leave, CloseChannel,
           JoinMonitor, Exit, MainPlaces, Accepting
  <1>2. RangeInv'
    <2>1. UNCHANGED <<dog, monitor, writer, stop, queue, batch, stored, thanked>>
      BY DEF MainStep, LoopTest, Accept, AcceptFails, Drop, Admit, Leave, CloseChannel,
             JoinMonitor, Exit
    <2>2. jobs' \in {jobs, FALSE}
      BY DEF MainStep, LoopTest, Accept, AcceptFails, Drop, Admit, Leave, CloseChannel,
             JoinMonitor, Exit
    <2>3. Calm \/ Fault
      BY DEF MainStep, LoopTest, Accept, AcceptFails, Drop, Admit, Leave, CloseChannel,
             JoinMonitor, Exit, Calm
    <2>4. faults' \in 0 .. MaxFaults
      BY <2>3, FaultsCount
    <2> QED BY <1>1, <2>1, <2>2, <2>4 DEF RangeInv
  <1>3. ASSUME LoopTest \/ Leave \/ CloseChannel \/ JoinMonitor \/ AcceptFails
        PROVE  Counted /\ Woken /\ StreamInv'
    <2>1. /\ UNCHANGED <<at, live, wakes, halters, stream>> /\ main # "got" /\ main' # "got"
          /\ main # "exit"
      BY <1>3 DEF LoopTest, Leave, CloseChannel, JoinMonitor, AcceptFails
    <2> QED BY <2>1, AllSame DEF StreamInv
  <1>4. ASSUME Accept PROVE Counted /\ Woken /\ StreamInv'
    <2>1. CASE at' = at
      <3>1. /\ UNCHANGED <<live, dog, monitor, stream>> /\ wakes > 0 /\ wakes' = wakes - 1
            /\ main = "accept" /\ main' = "got"
        BY <1>4, <2>1 DEF Accept, ShapeInv
      <3> QED
        BY <2>1, <3>1, AtSame DEF Counted, Woken, KeepsThreads, WakesNobody, WakesInv, StreamInv
    <2>2. ASSUME NEW c \in Clients, at[c] = "queued", stream' = c, wakes' = wakes,
                 at' = [at EXCEPT ![c] = "accepted"]
          PROVE  Counted /\ Woken /\ StreamInv'
      <3>1. AtGoes(c, "accepted")
        BY <2>2 DEF AtGoes, ShapeInv
      <3>2. Threads' = Threads /\ Silent' = Silent
        BY <2>2, <3>1, PlaceKept DEF WithThread, Ended
      <3>3. UNCHANGED <<live, dog, monitor>> /\ main = "accept" /\ main' = "got"
        BY <1>4 DEF Accept
      <3> QED
        BY <2>2, <3>1, <3>2, <3>3
           DEF Counted, Woken, KeepsThreads, WakesNobody, WakesInv, StreamInv, AtGoes
    <2> QED BY <1>4, <2>1, <2>2 DEF Accept
  <1>5. ASSUME Drop \/ Admit PROVE Counted /\ Woken /\ StreamInv'
    <2>1. /\ main = "got" /\ main' \in {"leave", "loop"} /\ stream' = Wake
          /\ UNCHANGED <<dog, monitor, wakes>>
      BY <1>5 DEF Drop, Admit, Pass
    <2>2. StreamInv'
      BY <2>1 DEF StreamInv
    <2>3. CASE at' = at /\ live' = live
      BY <2>1, <2>2, <2>3, AllSame
    <2>4. CASE stream # Wake /\ at' = [at EXCEPT ![stream] = "done"] /\ live' = live
      <3>1. stream \in Clients /\ AtGoes(stream, "done") /\ at[stream] = "accepted"
        BY <2>1, <2>4 DEF ShapeInv, StreamInv, AtGoes
      <3>2. Threads' = Threads /\ Silent \subseteq Silent'
        BY <3>1, PlaceKept DEF WithThread, Ended
      <3> QED
        BY <2>1, <2>2, <2>4, <3>2 DEF Counted, Woken, KeepsThreads, WakesNobody, WakesInv
    <2>5. CASE /\ stream # Wake /\ at' = [at EXCEPT ![stream] = "read"]
               /\ live < MaxLive /\ live' = live + 1
      <3>1. stream \in Clients /\ AtGoes(stream, "read") /\ at[stream] = "accepted"
        BY <2>1, <2>5 DEF ShapeInv, StreamInv, AtGoes
      <3>2. stream \notin Threads /\ Threads' = Threads \cup {stream} /\ Silent' = Silent
        BY <3>1, PlaceKept DEF WithThread, Ended
      <3> QED
        BY <2>1, <2>2, <2>5, <3>1, <3>2 DEF Counted, Woken, OpensThread, WakesNobody, WakesInv
    <2> QED BY <1>5, <2>3, <2>4, <2>5 DEF Drop, Admit, Pass
  <1>6. ASSUME Exit PROVE Counted /\ Woken /\ StreamInv'
    <2>1. /\ main = "end" /\ main' = "exit" /\ UNCHANGED <<stream, wakes, live, dog, monitor>>
          /\ at' = [c \in Clients |-> IF at[c] = "away" THEN "away" ELSE "done"]
      BY <1>6 DEF Exit
    <2>2. Silent \subseteq Silent'
      BY <2>1 DEF Silent, Ended
    <2> QED
      BY <2>1, <2>2 DEF Counted, Woken, EndsThreads, WakesNobody, WakesInv, StreamInv
  <1> QED BY <1>2, <1>3, <1>4, <1>5, <1>6 DEF MainStep

LEMMA HalterCounts ==
  ASSUME ShapeInv, CountInv, DogStep \/ MonitorStep \/ Idle
  PROVE  Counted /\ Woken /\ RangeInv' /\ StreamInv'
  <1>1. UNCHANGED <<main, stream, writer, at, live, jobs, queue, batch, stored, thanked, faults>>
    BY DEF DogStep, MonitorStep, Idle, LetGo, DogHalts, WriterEnded, MonitorHalts,
           HaltersLeave, mainVars, channel
  <1>2. KeepsThreads /\ Silent' = Silent /\ StreamInv'
    BY <1>1, AtSame DEF KeepsThreads, CountInv, StreamInv
  <1>3. ASSUME Idle \/ LetGo \/ WriterEnded
        PROVE  /\ wakes' = wakes /\ dog' \in HalterPlaces /\ monitor' \in HalterPlaces
               /\ stop' = stop
               /\ (dog = "end" => dog' = "end") /\ (monitor = "end" => monitor' = "end")
    BY <1>3 DEF Idle, LetGo, WriterEnded, CountInv, RangeInv, HalterPlaces
  <1>4. ASSUME NEW x \in {dog, monitor}, NEW y \in HalterPlaces, Halt(x, y)
        PROVE  /\ stop' \in BOOLEAN /\ x # "end"
               /\ (y # "end" /\ wakes' = wakes) \/ (y = "end" /\ wakes' = wakes + 1)
    BY <1>4 DEF Halt, CountInv, RangeInv
  <1>5. CASE Idle \/ LetGo \/ WriterEnded
    BY <1>1, <1>2, <1>3, <1>5
       DEF Counted, Woken, WakesNobody, CountInv, RangeInv, WakesInv
  <1>6. CASE DogHalts
    <2>1. PICK y \in HalterPlaces : dog' = y /\ Halt(dog, y)
      BY <1>6 DEF DogHalts
    <2>2. monitor' = monitor
      BY <1>6 DEF DogHalts
    <2> QED
      BY <1>1, <1>2, <1>4, <2>1, <2>2
         DEF Counted, Woken, WakesNobody, HalterWakes, CountInv, RangeInv, WakesInv
  <1>7. CASE MonitorHalts
    <2>1. PICK y \in HalterPlaces : monitor' = y /\ Halt(monitor, y)
      BY <1>7 DEF MonitorHalts
    <2>2. dog' = dog
      BY <1>7 DEF MonitorHalts
    <2> QED
      BY <1>1, <1>2, <1>4, <2>1, <2>2
         DEF Counted, Woken, WakesNobody, HalterWakes, CountInv, RangeInv, WakesInv
  <1> QED BY <1>5, <1>6, <1>7 DEF DogStep, MonitorStep

LEMMA ThreadCounts ==
  ASSUME ShapeInv, CountInv, NEW c \in Clients, Connect(c) \/ ThreadStep(c)
  PROVE  Counted /\ Woken /\ RangeInv' /\ StreamInv'
  <1>1. /\ UNCHANGED <<main, stream, dog, monitor, writer, jobs, batch, stored, faults>>
        /\ main # "exit"
    BY DEF Connect, ThreadStep, Read, ConnectionHalts, TakeSender, Send, Receive, Respond,
           FreeSlot, ThreadLeaves, mainVars, halters, Goes, Up
  \* what a thread does to its place, the slots, the wake-ups and the channel
  <1>2. /\ thanked' \subseteq Clients /\ stop' \in BOOLEAN /\ Len(queue') <= ChannelBound
    <2>1. thanked' \in {thanked, thanked \cup {c}}
      BY DEF Connect, ThreadStep, Read, ConnectionHalts, TakeSender, Send, Receive, Respond,
             FreeSlot
    <2>2. stop' \in BOOLEAN
      BY DEF Connect, ThreadStep, Read, ConnectionHalts, TakeSender, Send, Receive, Respond,
             FreeSlot, Halt, CountInv, RangeInv
    <2>3. queue' = queue \/ (Len(queue) < ChannelBound /\ queue' = Append(queue, c))
      BY DEF Connect, ThreadStep, Read, ConnectionHalts, TakeSender, Send, Receive, Respond,
             FreeSlot
    <2>4. Len(queue') <= ChannelBound
      <3>1. Len(Append(queue, c)) = Len(queue) + 1 /\ Len(queue) \in Nat
        BY AppendProperties, LenProperties DEF ShapeInv
      <3> QED BY <2>3, <3>1, ReceiverAssumption DEF CountInv, RangeInv
    <2> QED BY <2>1, <2>2, <2>4 DEF CountInv, RangeInv
  <1>3. RangeInv'
    BY <1>1, <1>2 DEF CountInv, RangeInv
  <1>4. \/ /\ at[c] = "away" /\ AtGoes(c, "queued") /\ live' = live /\ wakes' = wakes
        \/ /\ at[c] = "slot" /\ AtGoes(c, "done") /\ live' = live - 1 /\ wakes' = wakes
        \/ /\ at[c] = "wake" /\ AtGoes(c, "slot") /\ live' = live /\ wakes' = wakes + 1
        \/ /\ at[c] \in WithThread \ Ended /\ live' = live /\ wakes' = wakes
           /\ \E place \in WithThread : AtGoes(c, place)
    <2> USE DEF Goes, AtGoes, WithThread, Ended, ShapeInv
    <2>1. CASE Connect(c) \/ FreeSlot(c)
      BY <2>1 DEF Connect, FreeSlot
    <2>2. CASE Read(c)
      <3>1. PICK kind \in Requests[c] :
               at' = [at EXCEPT ![c] = CASE kind \in {"rows", "invalid"} -> "jobs"
                                         [] kind = "shutdown" -> "halt"
                                         [] kind = "refused" -> "slot"]
        BY <2>2 DEF Read
      <3>2. kind \in RequestKinds
        BY ReceiverAssumption
      <3> QED BY <2>2, <3>1, <3>2 DEF Read, RequestKinds
    <2>3. CASE ConnectionHalts(c)
      BY <2>3 DEF ConnectionHalts, Halt
    <2>4. CASE TakeSender(c) \/ Send(c) \/ Receive(c) \/ Respond(c)
      BY <2>4 DEF TakeSender, Send, Receive, Respond
    <2> QED BY <2>1, <2>2, <2>3, <2>4 DEF ThreadStep
  <1>5. StreamInv'
    <2>1. at[c] # "accepted" /\ \A d \in Clients : d # c => at'[d] = at[d]
      BY <1>4 DEF AtGoes, WithThread
    <2> QED BY <1>1, <2>1 DEF CountInv, StreamInv, ShapeInv
  <1>6. CASE at[c] = "away" /\ AtGoes(c, "queued") /\ live' = live /\ wakes' = wakes
    <2>1. Threads' = Threads /\ Silent' = Silent
      BY <1>6, PlaceKept DEF WithThread, Ended
    <2> QED
      BY <1>1, <1>3, <1>5, <1>6, <2>1
         DEF Counted, Woken, KeepsThreads, WakesNobody, CountInv, WakesInv
  <1>7. CASE at[c] = "slot" /\ AtGoes(c, "done") /\ live' = live - 1 /\ wakes' = wakes
    <2>1. c \in Threads /\ Threads' = Threads \ {c} /\ Silent' = Silent
      BY <1>7, PlaceKept DEF WithThread, Ended
    <2> QED
      BY <1>1, <1>3, <1>5, <1>7, <2>1
         DEF Counted, Woken, ClosesThread, WakesNobody, CountInv, WakesInv
  <1>8. CASE at[c] = "wake" /\ AtGoes(c, "slot") /\ live' = live /\ wakes' = wakes + 1
    <2>1. Threads' = Threads /\ c \notin Silent /\ Silent' = Silent \cup {c}
      BY <1>8, PlaceKept DEF WithThread, Ended
    <2> QED
      BY <1>1, <1>3, <1>5, <1>8, <2>1
         DEF Counted, Woken, KeepsThreads, ThreadWakes, halters
  <1>9. ASSUME at[c] \in WithThread \ Ended, live' = live, wakes' = wakes,
               NEW place \in WithThread, AtGoes(c, place)
        PROVE  Counted /\ Woken
    <2>1. Threads' = Threads /\ Silent \subseteq Silent'
      BY <1>9, PlaceKept
    <2> QED
      BY <1>1, <1>9, <2>1
         DEF Counted, Woken, KeepsThreads, WakesNobody, CountInv, WakesInv
  <1> QED BY <1>3, <1>4, <1>5, <1>6, <1>7, <1>8, <1>9

LEMMA WriterCounts ==
  ASSUME ShapeInv, CountInv, WriterStep \/ Panic
  PROVE  Counted /\ Woken /\ RangeInv' /\ StreamInv'
  <1> USE DEF WriterStep, Take, Disconnected, Commit, Reply, PanicCaught, ThreadEnds, Panic
  <1>1. UNCHANGED <<main, stream, dog, monitor, at, wakes, live, jobs, thanked>>
    BY DEF WriterLeaves, mainVars, halters
  <1>2. Counted /\ Woken /\ StreamInv'
    BY <1>1, AllSame DEF halters, CountInv, StreamInv
  <1>3. writer' \in WriterPlaces /\ stop' \in BOOLEAN
    BY DEF WriterGoes, WriterPlaces, CountInv, RangeInv
  <1>4. faults' \in 0 .. MaxFaults
    <2>1. Calm \/ Fault
      BY DEF Calm, channel
    <2> QED BY <2>1, FaultsCount DEF CountInv
  <1>5. stored' \subseteq Clients
    <2>1. ToSet(batch) \subseteq Clients
      BY DEF ShapeInv, ToSet
    <2>2. stored' \in {stored, stored \cup ToSet(batch)}
      BY DEF channel
    <2> QED BY <2>1, <2>2 DEF CountInv, RangeInv
  <1>6. Len(queue') <= ChannelBound /\ Len(batch') <= MaxBatch
    <2>1. CASE Take
      <3>1. /\ queue # <<>> /\ Len(batch) < MaxBatch
            /\ batch' = Append(batch, Head(queue)) /\ queue' = Tail(queue)
        BY <2>1
      <3>2. Head(queue) \in Clients /\ Len(Tail(queue)) = Len(queue) - 1
        BY <3>1, HeadTailProperties DEF ShapeInv
      <3>3. Len(Append(batch, Head(queue))) = Len(batch) + 1
        BY <3>2, AppendProperties DEF ShapeInv
      <3>4. Len(batch) \in Nat /\ Len(queue) \in Nat
        BY LenProperties DEF ShapeInv
      <3>5. /\ MaxBatch \in Nat /\ ChannelBound \in Nat
            /\ Len(queue) <= ChannelBound
        BY ReceiverAssumption DEF CountInv, RangeInv
      <3>6. Len(queue') = Len(queue) - 1
        BY <3>1, <3>2
      <3>7. Len(batch') = Len(batch) + 1
        BY <3>1, <3>3
      <3>8. Len(queue') <= ChannelBound
        BY <3>4, <3>5, <3>6
      <3>9. Len(batch') <= MaxBatch
        BY <3>1, <3>4, <3>5, <3>7
      <3> QED BY <3>8, <3>9
    <2>2. CASE ~Take
      <3>1. queue' \in {queue, <<>>} /\ batch' \in {batch, <<>>}
        BY <2>2 DEF channel
      <3>2. Len(<<>>) = 0
        BY EmptySeq
      <3> QED BY <3>1, <3>2, ReceiverAssumption DEF CountInv, RangeInv
    <2> QED BY <2>1, <2>2
  <1>7. RangeInv'
    BY <1>1, <1>3, <1>4, <1>5, <1>6 DEF CountInv, RangeInv
  <1> QED BY <1>2, <1>7

LEMMA CountStep == ASSUME ShapeInv, CountInv, [Next]_vars PROVE CountInv'
  <1>1. ASSUME Counted, Woken, RangeInv', StreamInv' PROVE CountInv'
    BY <1>1, LiveKept, WakesKept DEF Counted, Woken, CountInv
  <1>2. CASE UNCHANGED vars
    BY <1>2, AtSame DEF vars, mainVars, halters, channel, CountInv, RangeInv, StreamInv,
       LiveInv, WakesInv
  <1> QED BY <1>1, <1>2, MainCounts, HalterCounts, ThreadCounts, WriterCounts DEF Next

LEMMA CountInit == Init => CountInv
  <1> SUFFICES ASSUME Init PROVE CountInv
    OBVIOUS
  <1>1. RangeInv /\ StreamInv
    <2>1. Len(<<>>) = 0
      BY EmptySeq
    <2>2. Len(queue) <= ChannelBound /\ Len(batch) <= MaxBatch
      BY <2>1, ReceiverAssumption DEF Init
    <2>3. dog \in HalterPlaces
      BY DEF Init, HalterPlaces
    <2>4. faults \in 0 .. MaxFaults
      BY ReceiverAssumption DEF Init
    <2>5. main \in MainPlaces /\ monitor \in HalterPlaces /\ writer \in WriterPlaces
      BY DEF Init, MainPlaces, Accepting, HalterPlaces, WriterPlaces
    <2>6. stop \in BOOLEAN /\ jobs \in BOOLEAN
          /\ stored \subseteq Clients /\ thanked \subseteq Clients
      BY DEF Init
    <2>7. StreamInv
      BY DEF Init, StreamInv
    <2> QED BY <2>2, <2>3, <2>4, <2>5, <2>6, <2>7 DEF RangeInv
  <1>2. Threads = {} /\ Silent = {}
    BY DEF Init, Threads, Silent, WithThread, Ended
  <1>3. LiveInv /\ WakesInv
    BY <1>2, FS_EmptySet, ReceiverAssumption DEF Init, LiveInv, WakesInv, One
  <1> QED BY <1>1, <1>3 DEF CountInv

\* Every part of the state keeps its type.  In particular no more threads run
\* than MAX_LIVE_CONNECTIONS: every thread that was counted gives its place back
\* once (receiver.rs accept_loop, Slot).
THEOREM TypeCorrect == Spec => []TypeOK
  <1>1. ShapeInv /\ CountInv => TypeOK
    <2> SUFFICES ASSUME ShapeInv, CountInv PROVE TypeOK
      OBVIOUS
    <2>1. wakes \in 0 .. Cardinality(Clients) + 2
      BY Finite DEF CountInv, WakesInv, One
    <2> QED BY <2>1 DEF ShapeInv, CountInv, RangeInv, LiveInv, TypeOK
  <1>2. Init => ShapeInv
    BY ShapeInit, ReceiverAssumption
  <1>3. ShapeInv /\ [Next]_vars => ShapeInv'
    BY ShapeStep
  <1>4. ShapeInv /\ CountInv /\ [Next]_vars => CountInv'
    BY CountStep
  <1> QED BY <1>1, <1>2, <1>3, <1>4, CountInit, PTL DEF Spec
=============================================================================
