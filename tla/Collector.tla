----------------------------- MODULE Collector -----------------------------
(***************************************************************************)
(* The life of the telemetry collector: at most one per user, marked by an *)
(* exclusive lock on collector.lock that the system drops when the process *)
(* ends.  Commands and hooks (the starters) find, start, replace and stop  *)
(* it with no lock of their own: each looks at the lock, its holder line   *)
(* and collector.json at different moments and then acts, while other      *)
(* starters and collectors do the same.  Collectors crash, hang, and find  *)
(* their port taken by another program.                                    *)
(*                                                                         *)
(* A shared probe of the lock is one step: a collector that meets one      *)
(* retries for longer than a probe lasts.  A pid is not used again while   *)
(* a file or a starter still names it.                                     *)
(***************************************************************************)
EXTENDS Integers, FiniteSets

CONSTANTS
    Pids,        \* process ids of collectors
    Starters,    \* commands and hooks that look for a collector
    Versions,    \* installed versions of the program
    VersionOf,   \* the version of a starter
    Kinds,       \* what starters are: "session", "quick" or "stop"
    None,        \* no process
    Foreign,     \* another program
    Timely,      \* whether a start takes less time than the stamp's window
    MaxFaults    \* bound on crashes, hangs, foreign programs and starts by hand

ASSUME CollectorAssumption ==
    /\ IsFiniteSet(Pids)
    /\ None \notin Pids /\ Foreign \notin Pids /\ None # Foreign
    /\ VersionOf \in [Starters -> Versions]
    /\ Kinds \subseteq {"session", "quick", "stop"}
    /\ Timely \in BOOLEAN
    /\ MaxFaults \in Nat

VARIABLES
    proc,      \* where every collector process is, "free" when there is none
    version,   \* the version a collector runs
    hung,      \* collectors that accept connections and never reply
    asked,     \* collectors that have been sent the shutdown request
    holder,    \* who holds collector.lock
    line,      \* the holder line in it, None while it is not whole
    json,      \* the pid in collector.json, None for 0
    port,      \* who listens on the recorded port
    stamp,     \* whether collector.spawned holds spawns off
    at,        \* where every starter is
    kind,      \* what it is
    target,    \* the pid it works on
    faults

vars == <<proc, version, hung, asked, holder, line, json, port, stamp,
          at, kind, target, faults>>

collectors == <<proc, version, hung, asked>>
files == <<line, json>>
starters == <<at, kind, target>>

Alive(p) == p \in Pids /\ proc[p] # "free"

\* A collector that answers the header probe.
Replies(p) == Alive(p) /\ proc[p] \in {"serving", "lockless"} /\ p \notin hung

\* pid p is named nowhere any more.
Fresh(p) ==
    /\ proc[p] = "free"
    /\ p \notin {line, json}
    /\ \A s \in Starters : target[s] # p

(***************************************************************************)
(* The collector, run_collect_with().                                      *)
(***************************************************************************)

\* The process ends: the system closes its port and drops its lock.
Ends(p) ==
    /\ proc' = [proc EXCEPT ![p] = "free"]
    /\ hung' = hung \ {p}
    /\ asked' = asked \ {p}
    /\ holder' = IF holder = p THEN None ELSE holder
    /\ port' = IF port = p THEN None ELSE port
    /\ UNCHANGED version

Moves(p, from, to) ==
    /\ proc[p] = from
    /\ proc' = [proc EXCEPT ![p] = to]
    /\ UNCHANGED <<version, hung, asked>>

\* acquire(): the lock, or "collector already running".
Acquire(p) ==
    /\ holder = None
    /\ Moves(p, "starting", "locked")
    /\ holder' = p
    /\ UNCHANGED <<files, port, stamp, starters, faults>>

Busy(p) ==
    /\ proc[p] = "starting"
    /\ holder # None
    /\ Ends(p)
    /\ UNCHANGED <<files, stamp, starters, faults>>

\* rewrite(): the line of the last holder is cut, then replaced.
CutLine(p) ==
    /\ Moves(p, "locked", "cut")
    /\ line' = None
    /\ UNCHANGED <<holder, json, port, stamp, starters, faults>>

WriteLine(p) ==
    /\ Moves(p, "cut", "named")
    /\ line' = p
    /\ UNCHANGED <<holder, json, port, stamp, starters, faults>>

\* running(): collector.json names a live process and something listens.
PreviousRuns == Alive(json) /\ port # None

\* A collector without a lock still runs, or something on its port is silent.
GivesWay(p) ==
    /\ proc[p] = "named"
    /\ PreviousRuns /\ port # Foreign
    /\ Ends(p)
    /\ UNCHANGED <<files, stamp, starters, faults>>

Bind(p) ==
    /\ port = None
    /\ Moves(p, "named", "bound")
    /\ port' = p
    /\ UNCHANGED <<holder, files, stamp, starters, faults>>

\* The port is not released in time: starters are told to hold off.
PortTaken(p) ==
    /\ proc[p] = "named"
    /\ port # None
    /\ ~PreviousRuns \/ port = Foreign
    /\ stamp' = TRUE
    /\ Ends(p)
    /\ UNCHANGED <<files, starters, faults>>

Record(p) ==
    /\ Moves(p, "bound", "serving")
    /\ json' = p
    /\ UNCHANGED <<holder, line, port, stamp, starters, faults>>

\* Mutated form of Stops: the lock and the listener go before the pid.
StopsTooSoon(p) ==
    /\ Moves(p, "serving", "stopping")
    /\ p \in asked /\ p \notin hung
    /\ holder' = None /\ port' = None
    /\ UNCHANGED <<files, stamp, starters, faults>>

\* serve() returns after a shutdown request, ...
Stops(p) ==
    /\ Moves(p, "serving", "stopping")
    /\ p \in asked /\ p \notin hung
    /\ UNCHANGED <<holder, files, port, stamp, starters, faults>>

\* ... the pid in collector.json is cleared, ...
ClearPid(p) ==
    /\ Moves(p, "stopping", "leaving")
    /\ json' = None
    /\ UNCHANGED <<holder, line, port, stamp, starters, faults>>

\* ... and the listener and then the lock, the first local, are dropped.
Leave(p) ==
    /\ proc[p] = "leaving"
    /\ Ends(p)
    /\ UNCHANGED <<files, stamp, starters, faults>>

CollectorStep(p) ==
    \/ Acquire(p) \/ Busy(p) \/ CutLine(p) \/ WriteLine(p)
    \/ GivesWay(p) \/ Bind(p) \/ PortTaken(p) \/ Record(p)
    \/ Stops(p) \/ ClearPid(p) \/ Leave(p)

(***************************************************************************)
(* What goes wrong, and time.                                              *)
(***************************************************************************)

Fault == faults < MaxFaults /\ faults' = faults + 1

Crash(p) ==
    /\ Fault
    /\ Alive(p)
    /\ Ends(p)
    /\ UNCHANGED <<files, stamp, starters>>

Hang(p) ==
    /\ Fault
    /\ proc[p] = "serving"
    /\ p \notin hung
    /\ hung' = hung \cup {p}
    /\ UNCHANGED <<proc, version, asked, holder, files, port, stamp, starters>>

ForeignTakesPort ==
    /\ Fault
    /\ port = None
    /\ port' = Foreign
    /\ UNCHANGED <<collectors, holder, files, stamp, starters>>

ForeignLeaves ==
    /\ port = Foreign
    /\ port' = None
    /\ UNCHANGED <<collectors, holder, files, stamp, starters, faults>>

\* A collector process of version v comes to life.
Born(p, v) ==
    /\ Fresh(p)
    /\ proc' = [proc EXCEPT ![p] = "starting"]
    /\ version' = [version EXCEPT ![p] = v]
    /\ UNCHANGED <<hung, asked>>

\* A person runs `playbook usage collect`.
CollectByHand(p, v) ==
    /\ Fault
    /\ Born(p, v)
    /\ UNCHANGED <<holder, files, port, stamp, starters>>

\* A starter is about to spawn, or a collector has not come up yet.
StartUnderWay ==
    \/ \E s \in Starters : at[s] \in {"retire", "lockless", "term", "spawn"}
    \/ \E p \in Pids : proc[p] \in {"starting", "locked", "cut", "named", "bound"}

\* The window of the respawn stamp passes.
StampExpires ==
    /\ stamp
    /\ Timely => ~StartUnderWay
    /\ stamp' = FALSE
    /\ UNCHANGED <<collectors, holder, files, port, starters, faults>>

(***************************************************************************)
(* A starter, ensure_with() and stop_with().                               *)
(***************************************************************************)

MayKill(s) == kind[s] # "quick"

\* Starter s goes on to `to`, working on pid p.
Goes(s, from, to, p) ==
    /\ at[s] = from
    /\ at' = [at EXCEPT ![s] = to]
    /\ target' = [target EXCEPT ![s] = p]
    /\ UNCHANGED kind

Unseen == <<collectors, holder, files, port, stamp, faults>>

Begin(s, k) ==
    /\ at[s] = "idle"
    /\ kind' = [kind EXCEPT ![s] = k]
    /\ at' = [at EXCEPT ![s] = IF k = "stop" THEN "stop" ELSE "look"]
    /\ UNCHANGED <<target, Unseen>>

\* The first look at the lock.
Look(s) ==
    /\ Goes(s, "look",
            CASE holder = None -> "stamp"
              [] holder # None /\ line = None -> "idle"
              [] holder # None /\ line # None /\ version[line] # VersionOf[s] ->
                     IF MayKill(s) THEN "stop" ELSE "stampFirst"
              [] OTHER ->
                     IF kind[s] = "session" /\ json = line THEN "probe" ELSE "idle",
            None)
    /\ UNCHANGED Unseen

\* Mutated form of Probe: a collector that accepts a connection counts as well.
ProbeConnects(s) ==
    /\ Goes(s, "probe", IF port # None THEN "idle" ELSE "stop", None)
    /\ UNCHANGED Unseen

\* A collector of this version that does not reply is replaced.
Probe(s) ==
    /\ Goes(s, "probe", IF port = Foreign \/ Replies(port) THEN "idle" ELSE "stop", None)
    /\ UNCHANGED Unseen

\* take_stamp(): the check and the rewrite are one step under the file's lock.
TakeStamp(s, from, to) ==
    /\ Goes(s, from, IF stamp THEN "idle" ELSE to, None)
    /\ stamp' = TRUE
    /\ UNCHANGED <<collectors, holder, files, port, faults>>

\* A starter that may not kill takes the stamp before it asks for a stop.
StampFirst(s) == TakeStamp(s, "stampFirst", "stop")

Stamp(s) == TakeStamp(s, "stamp", "retire")

\* Where a starter goes once the lock is free.
AfterStop(s) ==
    CASE kind[s] = "stop"    -> "idle"
      [] kind[s] = "quick"   -> "retire"
      [] kind[s] = "session" -> "stamp"

\* Mutated form of Stop: the process to wait for is the one on the port.
StopListener(s) ==
    /\ Goes(s, "stop",
            CASE holder = None -> AfterStop(s)
              [] holder # None /\ line # None /\ json = line -> "send"
              [] OTHER -> "wait",
            IF holder = None THEN None ELSE port)
    /\ UNCHANGED Unseen

\* stop_with() looks at the lock again; the token goes only to the port of
\* the pid that holds the lock.
Stop(s) ==
    /\ Goes(s, "stop",
            CASE holder = None -> AfterStop(s)
              [] holder # None /\ line # None /\ json = line -> "send"
              [] OTHER -> "wait",
            IF holder = None THEN None ELSE line)
    /\ UNCHANGED Unseen

\* The shutdown request reaches whoever listens on the recorded port.
Send(s) ==
    /\ Goes(s, "send", "wait", target[s])
    /\ asked' = IF Alive(port) /\ proc[port] # "lockless" THEN asked \cup {port} ELSE asked
    /\ UNCHANGED <<proc, version, hung, holder, files, port, stamp, faults>>

LockFrees(s) ==
    /\ holder = None
    /\ \E from \in {"wait", "killed"} : Goes(s, from, AfterStop(s), None)
    /\ UNCHANGED Unseen

WaitEnds(s) ==
    /\ holder # None
    /\ \/ Goes(s, "wait", IF MayKill(s) /\ target[s] # None THEN "check" ELSE "idle", target[s])
       \/ Goes(s, "killed", "idle", None)
    /\ UNCHANGED Unseen

\* may_kill_pid(): the lock is held, and its line and collector.json name it.
Check(s) ==
    /\ LET p == target[s] IN
       IF holder # None /\ line = p /\ json = p /\ Alive(p)
       THEN Goes(s, "check", "kill", p)
       ELSE Goes(s, "check", "idle", None)
    /\ UNCHANGED Unseen

Kill(s) ==
    \/ /\ Alive(target[s])
       /\ Goes(s, "kill", "killed", None)
       /\ Ends(target[s])
       /\ UNCHANGED <<files, stamp, faults>>
    \/ /\ ~Alive(target[s])
       /\ Goes(s, "kill", "idle", None)
       /\ UNCHANGED Unseen

\* retire_lockless(): collector.json names a live process and its port replies, ...
Retire(s) ==
    /\ IF Alive(json) /\ Replies(port)
       THEN Goes(s, "retire", "lockless", json)
       ELSE Goes(s, "retire", "spawn", None)
    /\ UNCHANGED Unseen

\* Mutated form of Lockless: the lock is not looked at again.
LocklessUnchecked(s) ==
    /\ Goes(s, "lockless", "term", target[s])
    /\ UNCHANGED Unseen

\* ... and the lock is free, so it is a collector that knows no lock.
Lockless(s) ==
    /\ IF holder = None
       THEN Goes(s, "lockless", "term", target[s])
       ELSE Goes(s, "lockless", "spawn", None)
    /\ UNCHANGED Unseen

Term(s) ==
    /\ Goes(s, "term", "spawn", None)
    /\ IF Alive(target[s])
       THEN Ends(target[s]) /\ UNCHANGED <<files, stamp, faults>>
       ELSE UNCHANGED Unseen

Spawn(s) ==
    /\ Goes(s, "spawn", "idle", None)
    /\ \E p \in Pids : Born(p, VersionOf[s])
    /\ UNCHANGED <<holder, files, port, stamp, faults>>

StarterStep(s) ==
    \/ Look(s) \/ Probe(s) \/ StampFirst(s) \/ Stamp(s)
    \/ Stop(s) \/ Send(s) \/ LockFrees(s) \/ WaitEnds(s) \/ Check(s) \/ Kill(s)
    \/ Retire(s) \/ Lockless(s) \/ Term(s) \/ Spawn(s)

\* No collector, one of any version that holds the lock, or one so old that
\* it knows no lock.  The port and the token were recorded by the setup.
Init ==
    /\ version \in UNION {[Pids -> {v}] : v \in Versions}
    /\ hung = {} /\ asked = {}
    /\ stamp = FALSE
    /\ at = [s \in Starters |-> "idle"]
    /\ kind \in UNION {[Starters -> {k}] : k \in Kinds}
    /\ target = [s \in Starters |-> None]
    /\ faults = 0
    /\ \/ /\ proc = [p \in Pids |-> "free"]
          /\ holder = None /\ line = None /\ json = None /\ port = None
       \/ \E p \in Pids :
             /\ proc = [q \in Pids |-> IF q = p THEN "serving" ELSE "free"]
             /\ holder = p /\ line = p /\ json = p /\ port = p
       \/ \E p \in Pids :
             /\ proc = [q \in Pids |-> IF q = p THEN "lockless" ELSE "free"]
             /\ holder = None /\ line = None /\ json = p /\ port = p

Next ==
    \/ \E p \in Pids : CollectorStep(p) \/ Crash(p) \/ Hang(p)
    \/ \E p \in Pids, v \in Versions : CollectByHand(p, v)
    \/ ForeignTakesPort \/ ForeignLeaves \/ StampExpires
    \/ \E s \in Starters : StarterStep(s)
    \/ \E s \in Starters, k \in Kinds : Begin(s, k)

\* Processes keep running, another program lets go of the port in the end,
\* the stamp runs out, and sessions keep being started.
Fairness ==
    /\ \A p \in Pids : WF_vars(CollectorStep(p))
    /\ \A s \in Starters : WF_vars(StarterStep(s)) /\ SF_vars(Begin(s, "session"))
    /\ WF_vars(ForeignLeaves)
    /\ WF_vars(StampExpires)

Spec == Init /\ [][Next]_vars

LiveSpec == Spec /\ Fairness

(***************************************************************************)
(* Properties.                                                             *)
(***************************************************************************)

Places == {"free", "starting", "locked", "cut", "named", "bound", "serving",
           "stopping", "leaving", "lockless"}

StarterPlaces == {"idle", "look", "probe", "stampFirst", "stop", "send", "wait",
                  "check", "kill", "killed", "stamp", "retire", "lockless",
                  "term", "spawn"}

\* Every part of the state has its type.
TypeOK ==
    /\ proc \in [Pids -> Places]
    /\ version \in [Pids -> Versions]
    /\ hung \subseteq Pids /\ asked \subseteq Pids
    /\ holder \in Pids \cup {None}
    /\ line \in Pids \cup {None}
    /\ json \in Pids \cup {None}
    /\ port \in Pids \cup {None, Foreign}
    /\ stamp \in BOOLEAN
    /\ at \in [Starters -> StarterPlaces]
    /\ kind \in [Starters -> Kinds]
    /\ target \in [Starters -> Pids \cup {None}]
    /\ faults \in 0 .. MaxFaults

\* A collector that serves can be found: it holds the lock and the port, and
\* both the holder line and collector.json name it, whatever collectors before
\* it still do on their way out (run_collect_with drops the lock last).
ServingIsRecorded ==
    \A p \in Pids :
        proc[p] = "serving" => {holder, line, json, port} = {p}

\* retire_lockless never signals a collector that holds the lock: what it
\* terminates knows no lock, or is already gone.
TermSparesHolders ==
    [][ \A s \in Starters :
            at[s] = "term" /\ at'[s] # "term" => proc[target[s]] \in {"lockless", "free"} ]_vars

\* A collector of version v that replies to every probe.
Well(p, v) == proc[p] = "serving" /\ p \notin hung /\ version[p] = v

\* However collectors crash, hang or are in each other's way, again and again
\* one of the installed version is there and replies.
ComesBack == []<>(\E p \in Pids, s \in Starters : Well(p, VersionOf[s]))
====
