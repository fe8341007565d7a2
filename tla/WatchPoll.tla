----------------------------- MODULE WatchPoll -----------------------------
(***************************************************************************)
(* How watch mode reads one GitHub source (issues, issue comments or       *)
(* review comments of a repository): a pass polls it page by page and      *)
(* stores the new cursor together with the events it found.  A pass holds  *)
(* watch.lock, so a source has one reader, and a failed poll of one source *)
(* leaves the others alone, so each is a copy of this module.  GitHub's    *)
(* objects are created and edited at any moment, requests fail, and the    *)
(* process can be killed between any two steps.  What a queued event       *)
(* becomes afterwards is the subject of WatchQueue.                        *)
(***************************************************************************)
EXTENDS Integers, FiniteSets

CONSTANTS
    Objects,         \* ids of the issues, pull requests or comments of the source
    PageSize,        \* PAGE_SIZE (100)
    MaxPages,        \* MAX_PAGES (10)
    PollSeconds,     \* watch.pollSeconds
    Intervals,       \* X-Poll-Interval values GitHub may send, 0 for none
    MaxCatchup,      \* watch.maxCatchupHours
    SinceArgs,       \* times a person may give as --since
    Edited,          \* bound: the objects that may be edited
    EditsDuringPoll, \* whether GitHub's lists change between two pages
    MaxNow,          \* bound on the clock
    MaxStops         \* bound on kills and refused tokens

ASSUME PollAssumption ==
    /\ {PageSize, MaxPages} \subseteq Nat \ {0}
    /\ {PollSeconds, MaxCatchup, MaxNow, MaxStops} \subseteq Nat
    /\ Objects \subseteq Nat
    /\ IsFiniteSet(Objects)
    /\ Edited \subseteq Objects
    /\ Intervals \subseteq Nat /\ 0 \in Intervals
    /\ SinceArgs \subseteq 0 .. MaxNow
    /\ EditsDuringPoll \in BOOLEAN

VARIABLES
    now,         \* the clock
    created,     \* created_at of every object, NoTime before it exists
    updated,     \* updated_at
    cursor,      \* table `cursor`: NoCursor, or since, etag and next_poll_at
    seen,        \* table `seen`: objects whose event was queued as work
    audited,     \* objects whose event the audit log has as `stale`
    pass,        \* the running pass, NoPass between passes
    stops,       \* kills and refused tokens so far
    asked,       \* history: the times the source was told to start from
    staled,      \* history: objects whose event was passed over as stale
    due          \* history: no request before this time, as the last answer said

vars == <<now, created, updated, cursor, seen, audited, pass, stops,
          asked, staled, due>>

github == <<created, updated>>
store == <<cursor, seen, audited, staled>>

Times == 0 .. MaxNow
NoTime == -1
NoCursor == [none |-> TRUE]
NoPass == [none |-> TRUE]

\* The ETag of a page stands for its content; GitHub answers 304 to the ETag
\* of a page that has not changed.  A stored ETag is a set of at most one.
NoETag == {}

Max2(a, b) == IF a >= b THEN a ELSE b
Min2(a, b) == IF a <= b THEN a ELSE b

(***************************************************************************)
(* GitHub: the objects listed from `since` on, by updated_at ascending.     *)
(***************************************************************************)

Listed(since) ==
    {o \in Objects : created[o] # NoTime /\ updated[o] >= since}

Before(o, p) == updated[o] < updated[p] \/ (updated[o] = updated[p] /\ o < p)

\* Page n (from 0) of that list, at most PageSize objects.
PageOf(since, n) ==
    LET place(o) == Cardinality({p \in Listed(since) : Before(p, o)})
    IN  {o \in Listed(since) : place(o) \div PageSize = n}

\* The Link header has a next page.
HasNext(since, n) == Cardinality(Listed(since)) > (n + 1) * PageSize

\* The ETag a poll sends and keeps is that of its first page.
ETagOf(since) == {{<<o, updated[o]>> : o \in PageOf(since, 0)}}

Polling == pass # NoPass /\ pass.step = "pages"

Quiet == EditsDuringPoll \/ ~Polling

Create(o) ==
    /\ Quiet
    /\ created[o] = NoTime
    /\ created' = [created EXCEPT ![o] = now]
    /\ updated' = [updated EXCEPT ![o] = now]
    /\ UNCHANGED <<now, store, pass, stops, asked, due>>

Edit(o) ==
    /\ Quiet
    /\ o \in Edited /\ created[o] # NoTime
    /\ updated[o] < now
    /\ updated' = [updated EXCEPT ![o] = now]
    /\ UNCHANGED <<now, created, store, pass, stops, asked, due>>

Tick ==
    /\ now < MaxNow
    /\ now' = now + 1
    /\ UNCHANGED <<github, store, pass, stops, asked, due>>

(***************************************************************************)
(* A pass.                                                                 *)
(***************************************************************************)

\* `watch once [--since t]`, or one turn of the loop.
StartPass(arg) ==
    /\ pass = NoPass
    /\ pass' = [step |-> "source", arg |-> arg]
    /\ UNCHANGED <<now, github, store, stops, asked, due>>

\* A source with no cursor and no --since starts from now, with no request.
WatchFromNow ==
    /\ pass # NoPass /\ pass.step = "source"
    /\ pass.arg = NoTime
    /\ cursor = NoCursor
    /\ cursor' = [since |-> now, etag |-> NoETag, next |-> 0]
    /\ asked' = asked \cup {now}
    /\ pass' = NoPass
    /\ UNCHANGED <<now, github, seen, audited, staled, stops, due>>

\* A source answers at most once per its wait, whichever process asks.
NotYet ==
    /\ pass # NoPass /\ pass.step = "source"
    /\ pass.arg = NoTime
    /\ cursor # NoCursor
    /\ cursor.next > now
    /\ pass' = NoPass
    /\ UNCHANGED <<now, github, store, stops, asked, due>>

\* The cursor a poll works from: --since replaces the stored one.
StartCursor ==
    IF pass.arg # NoTime
    THEN [since |-> pass.arg, etag |-> NoETag, next |-> 0]
    ELSE cursor

\* Mutated form of MayAsk: next_poll_at is not looked at.
MayAskEagerly(arg) == arg # NoTime \/ cursor # NoCursor

\* Whether the pass asks GitHub now.
MayAsk(arg) ==
    \/ arg # NoTime
    \/ cursor # NoCursor /\ cursor.next <= now

BeginPoll ==
    /\ pass # NoPass /\ pass.step = "source"
    /\ MayAsk(pass.arg)
    /\ asked' = asked \cup ({pass.arg} \ {NoTime})
    /\ pass' = [step |-> "pages", arg |-> pass.arg,
                start |-> StartCursor, asof |-> now, page |-> 0, any |-> FALSE,
                events |-> {}, newest |-> StartCursor.since,
                nextIn |-> PollSeconds, etag |-> NoETag]
    /\ UNCHANGED <<now, github, store, stops, due>>

\* GitHub answers the stored ETag of an unchanged first page with 304, whatever
\* the later pages hold; the code reads none of them then.
NotModified ==
    /\ pass.page = 0
    /\ pass.start.etag # NoETag
    /\ pass.start.etag = ETagOf(pass.start.since)

Read304(interval) ==
    /\ Polling
    /\ NotModified
    /\ pass' = [pass EXCEPT !.step = "answer",
                            !.nextIn = Max2(@, interval)]
    /\ UNCHANGED <<now, github, store, stops, asked, due>>

\* Mutated form of IsEvent: an item of the boundary second is taken for old.
IsEventStrict(o, since) == created[o] > since

\* Mutated form of IsEvent: an edit of an old item counts as a new event.
IsEventAlways(o, since) == TRUE

\* An edit or a new comment on an old item is not a new event.
IsEvent(o, since) == created[o] >= since

\* One page is read, and the next one follows while pages are full.
ReadPage(interval) ==
    /\ Polling
    /\ ~NotModified
    /\ LET since == pass.start.since
           page  == PageOf(since, pass.page)
           more  == /\ Cardinality(page) >= PageSize
                    /\ HasNext(since, pass.page)
                    /\ pass.page + 1 < MaxPages
       IN  pass' = [pass EXCEPT
               !.step = IF more THEN "pages" ELSE "answer",
               !.page = IF more THEN @ + 1 ELSE @,
               !.any = @ \/ page # {},
               !.events = @ \cup {<<o, updated[o]>> : o \in {p \in page : IsEvent(p, since)}},
               !.newest = CHOOSE t \in {@} \cup {updated[o] : o \in page} :
                              \A u \in {@} \cup {updated[o] : o \in page} : u <= t,
               !.nextIn = Max2(@, interval),
               !.etag = IF pass.page = 0 THEN ETagOf(since) ELSE @]
    /\ UNCHANGED <<now, github, store, stops, asked, due>>

\* A request or a reply that failed: the cursor stays.
PollFails ==
    /\ Polling
    /\ pass' = NoPass
    /\ UNCHANGED <<now, github, store, stops, asked, due>>

NextPollAt == Min2(pass.asof + pass.nextIn, MaxNow)

\* Nothing new: only the wait is stored.
AnswerUnchanged ==
    /\ pass # NoPass /\ pass.step = "answer" /\ ~pass.any
    /\ cursor' = [pass.start EXCEPT !.next = NextPollAt]
    /\ due' = NextPollAt
    /\ pass' = NoPass
    /\ UNCHANGED <<now, github, seen, audited, staled, stops, asked>>

\* Mutated form of NextCursor: the next poll starts at the time of this one.
NextCursorFromNow ==
    [since |-> now, etag |-> NoETag, next |-> NextPollAt]

\* Mutated form of NextCursor: the next poll starts after the newest second.
NextCursorExclusive ==
    [since |-> pass.newest + 1, etag |-> NoETag, next |-> NextPollAt]

\* The ETag stays useful only while `since`, and so the URL, does not move.
NextCursor ==
    [since |-> pass.newest,
     etag  |-> IF pass.newest = pass.start.since THEN pass.etag ELSE NoETag,
     next  |-> NextPollAt]

\* Events older than the catch-up window, and those of them that are new.
StaleEvents == {e \in pass.events : now - e[2] > MaxCatchup}

AuditedNow ==
    {e \in StaleEvents : \/ cursor = NoCursor
                         \/ e[2] > cursor.since}

\* ingest(): the cursor, the keys and the work of a poll in one transaction.
Ingest ==
    /\ pass # NoPass /\ pass.step = "answer" /\ pass.any
    /\ cursor' = NextCursor
    /\ seen' = seen \cup {e[1] : e \in pass.events \ StaleEvents}
    /\ audited' = audited \cup {e[1] : e \in AuditedNow}
    /\ staled' = staled \cup {e[1] : e \in StaleEvents}
    /\ due' = NextPollAt
    /\ pass' = NoPass
    /\ UNCHANGED <<now, github, stops, asked>>

\* The process is killed, or the token was refused.
Stop ==
    /\ pass # NoPass
    /\ stops < MaxStops
    /\ stops' = stops + 1
    /\ pass' = NoPass
    /\ UNCHANGED <<now, github, store, asked, due>>

Init ==
    /\ now = 0
    /\ created \in [Objects -> {NoTime, 0}]
    /\ updated = created
    /\ cursor = NoCursor
    /\ seen = {} /\ audited = {} /\ staled = {}
    /\ pass = NoPass
    /\ stops = 0
    /\ asked = {}
    /\ due = 0

Answered == \E interval \in Intervals : Read304(interval) \/ ReadPage(interval)

Poll ==
    \/ WatchFromNow
    \/ NotYet
    \/ BeginPoll
    \/ Answered
    \/ AnswerUnchanged
    \/ Ingest

Next ==
    \/ Tick
    \/ \E o \in Objects : Create(o) \/ Edit(o)
    \/ \E arg \in SinceArgs \cup {NoTime} : StartPass(arg)
    \/ Poll
    \/ PollFails
    \/ Stop

\* The clock moves, scheduled passes keep starting and a pass keeps moving
\* (every request has a time limit).  Requests fail, but those for one page
\* do not fail for ever.
Fairness ==
    /\ WF_vars(Tick)
    /\ WF_vars(StartPass(NoTime))
    /\ WF_vars(Poll \/ PollFails)
    /\ \A n \in 0 .. MaxPages - 1 : SF_vars(Polling /\ pass.page = n /\ Answered)

Spec == Init /\ [][Next]_vars /\ Fairness

(***************************************************************************)
(* Properties.                                                             *)
(***************************************************************************)

Cursors ==
    [since : Times, next : Times,
     etag : {NoETag} \cup {{list} : list \in SUBSET (Objects \X Times)}]

\* Every part of the state has its type, no object was updated before it was
\* created, and a source with a cursor was told where to start.
TypeOK ==
    /\ now \in Times
    /\ created \in [Objects -> Times \cup {NoTime}]
    /\ updated \in [Objects -> Times \cup {NoTime}]
    /\ \A o \in Objects : created[o] <= updated[o] /\ updated[o] <= now
    /\ cursor \in {NoCursor} \cup Cursors
    /\ {seen, audited, staled} \subseteq SUBSET Objects
    /\ asked \subseteq Times
    /\ cursor # NoCursor => asked # {}
    /\ due \in Times

\* An object the source was asked to watch: created at or after every time a
\* pass was told to start from.
Wanted(o) ==
    /\ asked # {}
    /\ \A t \in asked : created[o] >= t

\* The cursor never moves past an event: an object created since watching
\* began but before the stored `since`, which no later poll will take for a
\* new event, was queued or judged too old for the catch-up window, whatever
\* was edited between the polls and wherever a process was killed (poll and
\* ingest; "an event is neither lost nor counted twice").
NoEventLost ==
    \A o \in Objects :
        cursor # NoCursor /\ Wanted(o) /\ created[o] < cursor.since
            => o \in seen \cup staled

\* Turning watch mode on never replays old history: nothing created before
\* the earliest start a source was given becomes work or is audited, however
\* often it is edited afterwards (start_cursor and read_page).
NoOldHistory ==
    \A o \in seen \cup audited : \E t \in asked : created[o] >= t

\* A source is not asked again before the wait of its last complete answer
\* has passed, whichever process asks, unless a person gave --since.
OncePerWait ==
    [][ Polling' /\ ~Polling /\ pass.arg = NoTime
            => now >= due ]_vars

\* The stored ETag is that of a full first page, with nothing newer when it was
\* read.  A change on a later page does not alter it, so every poll is then
\* answered 304 until an object of the first page is edited.
FirstPageFull ==
    /\ cursor # NoCursor
    /\ \E page \in cursor.etag : Cardinality(page) = PageSize

\* Every wanted event is dealt with in the end, whatever failed and was killed
\* before: again and again none is left over.  The exception is a stored ETag
\* that from some time on is always that of a full first page (poll: the ETag of
\* page one answers for the whole list).
EventuallyDealtWith ==
    []<>~FirstPageFull =>
        []<>(\A o \in Objects : Wanted(o) => o \in seen \cup staled)
=============================================================================
