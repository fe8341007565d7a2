--------------------------- MODULE WatchPollProofs ---------------------------
(***************************************************************************)
(* The cursor of a source, for any objects, pages, waits, times and any    *)
(* number of kills.                                                        *)
(*                                                                         *)
(* That no event is lost is proved of a list that does not change while it *)
(* is read and fits into the pages of one poll.  A list that is ordered by  *)
(* the time of the last update moves otherwise, and a longer one is cut:   *)
(* the code accepts both.                                                  *)
(***************************************************************************)
EXTENDS WatchPoll, FiniteSetTheorems, TLAPS

-----------------------------------------------------------------------------
(* Natural numbers and pages                                                *)

LEMMA LeastNumber ==
  ASSUME NEW S \in SUBSET Nat, S # {}
  PROVE  \E m \in S : \A n \in S : m <= n
  <1>1. PICK m \in S : \A n \in S : <<n, m>> \notin OpToRel(<, Nat)
    BY NatLessThanWellFounded, WFMin
  <1>2. ASSUME NEW n \in S PROVE m <= n
    <2>1. ~(n < m)
      BY <1>1 DEF OpToRel
    <2>2. m \in Nat /\ n \in Nat
      OBVIOUS
    <2> QED BY <2>1, <2>2
  <1> QED BY <1>2

LEMMA GreatestNumber ==
  ASSUME NEW S \in SUBSET Nat, S # {}, NEW b \in Nat, \A n \in S : n <= b
  PROVE  \E m \in S : \A n \in S : n <= m
  <1> DEFINE Bounds == {c \in Nat : \A n \in S : n <= c}
  <1>1. PICK m \in Bounds : \A c \in Bounds : m <= c
    BY LeastNumber
  <1>2. ASSUME m \notin S PROVE FALSE
    <2>1. PICK n \in S : TRUE
      OBVIOUS
    <2>2. m - 1 \in Bounds
      BY <1>2, <2>1
    <2> QED BY <1>1, <2>2
  <1> QED BY <1>1, <1>2

LEMMA Division ==
  ASSUME NEW a \in Nat, NEW b \in Nat \ {0}
  PROVE  a \div b \in Nat /\ b * (a \div b) <= a /\ a < b * ((a \div b) + 1)
  OBVIOUS

LEMMA DivisionUnique ==
  ASSUME NEW a \in Nat, NEW b \in Nat \ {0}, NEW n \in Nat
  PROVE  /\ a < b * (n + 1) => a \div b <= n
         /\ b * n <= a /\ a < b * (n + 1) => a \div b = n
  BY Division, Z3

-----------------------------------------------------------------------------
(* The list and its pages                                                   *)

Place(since, o) == Cardinality({p \in Listed(since) : Before(p, o)})

\* The objects of a list have the places 0, 1, ... in its order.
LEMMA Places ==
  ASSUME TypeOK, NEW since \in Times
  PROVE  LET L == Listed(since) IN
         /\ IsFiniteSet(L)
         /\ [o \in L |-> Place(since, o)] \in Bijection(L, 0 .. Cardinality(L) - 1)
  <1> DEFINE L == Listed(since)
             Earlier(o) == {p \in L : Before(p, o)}
             place == [o \in L |-> Place(since, o)]
  <1>1. \A o \in L : updated[o] \in Int /\ o \in Int
    BY PollAssumption DEF TypeOK, Listed, Times, NoTime
  <1>2. IsFiniteSet(L)
    BY PollAssumption, FS_Subset DEF Listed
  <1>3. \A o \in L : /\ IsFiniteSet(Earlier(o)) /\ Cardinality(Earlier(o)) \in Nat
                     /\ Cardinality(Earlier(o)) < Cardinality(L)
    <2> TAKE o \in L
    <2>1. o \notin Earlier(o)
      BY <1>1 DEF Before
    <2>2. IsFiniteSet(Earlier(o)) /\ Cardinality(Earlier(o)) <= Cardinality(L)
      BY <1>2, FS_Subset
    <2>3. Cardinality(Earlier(o)) # Cardinality(L)
      BY <1>2, <2>1, FS_Subset
    <2> QED BY <1>2, <2>2, <2>3, FS_CardinalityType
  <1>4. ASSUME NEW a \in L, NEW b \in L, Before(a, b)
        PROVE  Cardinality(Earlier(a)) < Cardinality(Earlier(b))
    <2>1. Earlier(a) \subseteq Earlier(b) /\ a \in Earlier(b) /\ a \notin Earlier(a)
      BY <1>1, <1>4 DEF Before
    <2>2. /\ Cardinality(Earlier(a)) <= Cardinality(Earlier(b))
          /\ Cardinality(Earlier(a)) # Cardinality(Earlier(b))
      BY <1>3, <2>1, FS_Subset
    <2> QED BY <1>3, <2>2
  <1>5. \A a, b \in L : a = b \/ Before(a, b) \/ Before(b, a)
    BY <1>1 DEF Before
  <1>6. Cardinality(L) \in Nat
    BY <1>2, FS_CardinalityType
  <1>7. \A o \in L : Place(since, o) = Cardinality(Earlier(o))
    BY DEF Place
  <1> HIDE DEF L, Earlier
  <1>8. place \in [L -> 0 .. Cardinality(L) - 1]
    BY <1>3, <1>6, <1>7
  <1>9. \A a, b \in L : place[a] = place[b] => a = b
    BY <1>3, <1>4, <1>5, <1>7
  <1> HIDE DEF place
  <1>10. place \in Injection(L, 0 .. Cardinality(L) - 1)
    BY <1>8, <1>9 DEF Injection, IsInjective
  <1>11. /\ IsFiniteSet(0 .. Cardinality(L) - 1)
         /\ Cardinality(0 .. Cardinality(L) - 1) = Cardinality(L)
    BY <1>6, FS_Interval
  <1>12. place \in Surjection(L, 0 .. Cardinality(L) - 1)
    BY <1>10, <1>11, FS_Injection
  <1>13. place \in Bijection(L, 0 .. Cardinality(L) - 1)
    BY <1>10, <1>12 DEF Bijection
  <1> QED BY <1>2, <1>13 DEF L, place

\* Where a poll stops, every object is on a page that was read.
LEMMA LastPage ==
  ASSUME TypeOK, NEW since \in Times, NEW n \in Nat,
         Cardinality(Objects) <= PageSize * MaxPages,
         \/ Cardinality(PageOf(since, n)) < PageSize
         \/ ~HasNext(since, n)
         \/ n + 1 >= MaxPages
  PROVE  \A o \in Listed(since) : \E m \in 0 .. n : o \in PageOf(since, m)
  <1> DEFINE L == Listed(since)
             place == [o \in L |-> Place(since, o)]
             page == PageOf(since, n)
             numbers == PageSize * n .. PageSize * (n + 1) - 1
  <1>1. PageSize \in Nat \ {0} /\ MaxPages \in Nat \ {0}
    BY PollAssumption
  <1>2. IsFiniteSet(L) /\ Cardinality(L) \in Nat
    BY Places, FS_CardinalityType
  <1>3. place \in Bijection(L, 0 .. Cardinality(L) - 1)
    BY Places
  <1>4. \A o \in L : /\ place[o] = Place(since, o)
                     /\ Place(since, o) \in Nat /\ Place(since, o) < Cardinality(L)
    BY <1>2, <1>3 DEF Bijection, Injection, IsInjective
  <1>5. \A m \in Nat : PageOf(since, m) = {o \in L : Place(since, o) \div PageSize = m}
    BY DEF PageOf, Place
  <1>6. Cardinality(L) <= Cardinality(Objects) /\ Cardinality(Objects) \in Nat
    BY PollAssumption, FS_Subset, FS_CardinalityType DEF Listed
  <1> HIDE DEF L, page
  <1>7. ASSUME Cardinality(page) < PageSize, Cardinality(L) > (n + 1) * PageSize
        PROVE  FALSE
    <2>1. \A k \in numbers : k \in 0 .. Cardinality(L) - 1 /\ k \div PageSize = n
      <3> TAKE k \in numbers
      <3>1. PageSize * n \in Nat /\ PageSize * (n + 1) \in Nat
        BY <1>1
      <3>2. k \in Nat /\ PageSize * n <= k /\ k < PageSize * (n + 1)
        BY <3>1
      <3>3. k \div PageSize = n
        BY <1>1, <3>2, DivisionUnique
      <3>4. (n + 1) * PageSize = PageSize * (n + 1)
        BY <1>1
      <3> QED BY <1>2, <1>7, <3>1, <3>2, <3>3, <3>4
    <2>2. \A k \in numbers : \E o \in L : place[o] = k
      BY <1>3, <2>1 DEF Bijection, Surjection
    <2> DEFINE at == [k \in numbers |-> CHOOSE o \in L : place[o] = k]
    <2>3. \A k \in numbers : at[k] \in L /\ place[at[k]] = k
      BY <2>2
    <2>4. ASSUME NEW k \in numbers PROVE at[k] \in page
      <3>1. Place(since, at[k]) \div PageSize = n
        BY <1>4, <2>1, <2>3
      <3> QED BY <1>5, <2>3, <3>1 DEF page
    <2>5. at \in [numbers -> page]
      BY <2>4
    <2> HIDE DEF at, numbers
    <2>6. \A j, k \in numbers : at[j] = at[k] => j = k
      BY <2>3
    <2>7. at \in Injection(numbers, page)
      BY <2>5, <2>6 DEF Injection, IsInjective
    <2>8. IsFiniteSet(page)
      BY <1>2, <1>5, FS_Subset DEF page
    <2>9. Cardinality(numbers) <= Cardinality(page)
      BY <2>7, <2>8, FS_Injection
    <2>10. Cardinality(numbers) = PageSize
      <3>1. PageSize * n \in Nat /\ PageSize * (n + 1) = PageSize * n + PageSize
        BY <1>1
      <3> QED BY <1>1, <3>1, FS_Interval DEF numbers
    <2>11. Cardinality(page) \in Nat
      BY <2>8, FS_CardinalityType
    <2> QED BY <1>1, <1>7, <2>9, <2>10, <2>11
  <1>8. Cardinality(L) <= PageSize * (n + 1)
    <2>1. CASE n + 1 >= MaxPages
      <3>1. PageSize * MaxPages <= PageSize * (n + 1)
        BY <1>1, <2>1
      <3>2. PageSize * MaxPages \in Nat /\ PageSize * (n + 1) \in Nat
        BY <1>1
      <3> QED BY <1>2, <1>6, <3>1, <3>2
    <2>2. CASE ~HasNext(since, n)
      BY <1>1, <1>2, <2>2 DEF HasNext, L
    <2>3. CASE Cardinality(page) < PageSize
      BY <1>1, <1>2, <1>7, <2>3
    <2> QED BY <2>1, <2>2, <2>3 DEF page
  <1>9. ASSUME NEW o \in L PROVE \E m \in 0 .. n : o \in PageOf(since, m)
    <2>1. Place(since, o) \in Nat /\ Place(since, o) < PageSize * (n + 1)
      BY <1>1, <1>2, <1>4, <1>8
    <2>2. Place(since, o) \div PageSize \in 0 .. n
      BY <1>1, <2>1, Division, DivisionUnique
    <2> QED BY <1>5, <2>2
  <1> QED BY <1>9 DEF L

-----------------------------------------------------------------------------
(* The inductive invariants                                                 *)

Lists == {NoETag} \cup {{list} : list \in SUBSET (Objects \X Times)}

SourcePasses == [step : {"source"}, arg : SinceArgs \cup {NoTime}]

PollPasses ==
    [step : {"pages", "answer"}, arg : SinceArgs \cup {NoTime}, start : Cursors,
     asof : Times, page : Nat, any : BOOLEAN, events : SUBSET (Objects \X Times),
     newest : Times, nextIn : Nat, etag : Lists]

\* A pass is between sources, at one, or reading it.
PassOK == pass = NoPass \/ pass \in SourcePasses \/ pass \in PollPasses

Reading == pass # NoPass /\ pass.step \in {"pages", "answer"}

\* A poll starts from --since or from the stored cursor.
StartInv ==
    Reading =>
        \/ pass.arg # NoTime /\ pass.start.since = pass.arg /\ pass.arg \in asked
        \/ pass.arg = NoTime /\ cursor # NoCursor /\ pass.start = cursor

\* What a poll found is new since its start, and the newest of it is no later
\* than the clock.  (A person may start a source in the future.)
FoundInv ==
    Reading =>
        /\ \A e \in pass.events : created[e[1]] >= pass.start.since
        /\ pass.start.since <= pass.newest
        /\ pass.newest <= now \/ pass.newest = pass.start.since

\* Every cursor is at or after a time the source was told to start from, and is
\* ahead of the clock only if that time is.
SinceInv ==
    cursor # NoCursor =>
        /\ \E t \in asked : cursor.since >= t
        /\ cursor.since <= now \/ cursor.since \in asked

\* The wait of the cursor is that of the last answer.
DueInv == due = IF cursor = NoCursor THEN 0 ELSE cursor.next

IInv == TypeOK /\ PassOK /\ StartInv /\ FoundInv /\ SinceInv /\ DueInv /\ NoOldHistory

-----------------------------------------------------------------------------
(* Types                                                                    *)

LEMMA TimesAreNumbers ==
  /\ Times \subseteq Nat /\ 0 \in Times /\ NoTime \notin Times /\ SinceArgs \subseteq Times
  /\ PollSeconds \in Nat /\ MaxNow \in Nat
  BY PollAssumption DEF Times, NoTime

LEMMA TypeInit == Init => TypeOK /\ PassOK
  <1>1. Init => TypeOK
    BY PollAssumption DEF Init, TypeOK, Times, NoTime
  <1> QED BY <1>1 DEF Init, PassOK

LEMMA NextPollType ==
  ASSUME TypeOK, pass \in PollPasses
  PROVE  NextPollAt \in Times
  <1>1. pass.asof \in Times /\ pass.nextIn \in Nat
    BY DEF PollPasses
  <1> QED BY <1>1, PollAssumption DEF NextPollAt, Min2, Times

LEMMA ListType ==
  ASSUME TypeOK, NEW since \in Times
  PROVE  /\ Listed(since) \subseteq Objects
         /\ \A o \in Listed(since) : updated[o] \in Times /\ updated[o] <= now
         /\ ETagOf(since) \in Lists
  <1>1. \A o \in Listed(since) : o \in Objects /\ updated[o] \in Times /\ updated[o] <= now
    BY PollAssumption DEF TypeOK, Listed, Times, NoTime
  <1>2. PageOf(since, 0) \subseteq Listed(since)
    BY DEF PageOf
  <1>3. {<<o, updated[o]>> : o \in PageOf(since, 0)} \in SUBSET (Objects \X Times)
    BY <1>1, <1>2
  <1> QED BY <1>1, <1>3 DEF ETagOf, Lists

\* The newest time of a page is one of its times, or the newest so far.
NewestOf(newest, page) ==
    CHOOSE t \in {newest} \cup {updated[o] : o \in page} :
        \A u \in {newest} \cup {updated[o] : o \in page} : u <= t

LEMMA NewestType ==
  ASSUME TypeOK, NEW since \in Times, NEW page \in SUBSET Listed(since),
         NEW newest \in Times
  PROVE  LET t == NewestOf(newest, page)
         IN  t \in Times /\ newest <= t /\ (t <= now \/ t = newest)
  <1> DEFINE all == {newest} \cup {updated[o] : o \in page}
  <1>1. \A u \in all : u \in Times /\ (u <= now \/ u = newest)
    BY ListType
  <1>2. all \in SUBSET Nat /\ all # {} /\ now \in Nat /\ newest \in all
    <2>1. now \in Nat
      BY TimesAreNumbers DEF TypeOK
    <2>2. newest \in all
      OBVIOUS
    <2>3. all \subseteq Nat
      BY <1>1, TimesAreNumbers
    <2> QED BY <2>1, <2>2, <2>3
  <1>3. MaxNow \in Nat /\ \A u \in all : u <= MaxNow
    BY <1>1, TimesAreNumbers DEF Times
  <1> HIDE DEF all
  <1>4. \E t \in all : \A u \in all : u <= t
    BY <1>3, <1>2, GreatestNumber
  <1> DEFINE t == CHOOSE t \in all : \A u \in all : u <= t
  <1>5. t \in all /\ \A u \in all : u <= t
    BY <1>4
  <1>6. t = NewestOf(newest, page)
    BY DEF NewestOf, all
  <1> HIDE DEF t
  <1>7. t \in Times /\ newest <= t /\ (t <= now \/ t = newest)
    BY <1>1, <1>2, <1>5 
  <1> QED BY <1>6, <1>7

LEMMA PassSteps ==
  ASSUME PassOK, pass # NoPass
  PROVE  /\ pass.step = "source" => pass \in SourcePasses
         /\ pass.step \in {"pages", "answer"} => pass \in PollPasses
  BY DEF PassOK, SourcePasses, PollPasses

LEMMA BeginType ==
  ASSUME TypeOK, PassOK, BeginPoll
  PROVE  TypeOK' /\ PassOK'
  <1>1. pass.arg \in SinceArgs \cup {NoTime}
    BY PassSteps DEF BeginPoll, SourcePasses
  <1>2. SinceArgs \subseteq Times
    BY TimesAreNumbers
  <1>3. StartCursor \in Cursors
    <2>1. CASE pass.arg = NoTime
      BY <2>1 DEF BeginPoll, MayAsk, StartCursor, TypeOK
    <2>2. CASE pass.arg # NoTime
      BY <1>1, <1>2, <2>2, TimesAreNumbers DEF StartCursor, Cursors
    <2> QED BY <2>1, <2>2
  <1>4. StartCursor.since \in Times
    BY <1>3 DEF Cursors
  <1>5. PollSeconds \in Nat /\ NoETag \in Lists /\ now \in Times /\ {} \in SUBSET (Objects \X Times)
    BY PollAssumption DEF Lists, TypeOK
  <1>6. pass' \in PollPasses
    BY <1>1, <1>3, <1>4, <1>5 DEF BeginPoll, PollPasses
  <1>7. asked' \subseteq Times /\ (cursor # NoCursor => asked' # {})
    BY <1>1, <1>2 DEF BeginPoll, TypeOK
  <1> QED BY <1>6, <1>7 DEF BeginPoll, TypeOK, PassOK, github, store

\* A page that was read: what it adds, and what stays as it was.
LEMMA PageRead ==
  ASSUME TypeOK, PassOK, NEW interval \in Intervals, ReadPage(interval)
  PROVE  /\ pass \in PollPasses /\ pass' \in PollPasses
         /\ pass'.start = pass.start /\ pass'.arg = pass.arg /\ pass' # NoPass
         /\ pass'.events = pass.events \cup
               {<<o, updated[o]>> : o \in {p \in PageOf(pass.start.since, pass.page) :
                                              IsEvent(p, pass.start.since)}}
         /\ pass.newest <= pass'.newest /\ (pass'.newest <= now \/ pass'.newest = pass.newest)
  <1> DEFINE since == pass.start.since
             page == PageOf(since, pass.page)
             new == {<<o, updated[o]>> : o \in {p \in page : IsEvent(p, since)}}
             newest == NewestOf(pass.newest, page)
  <1>1. pass \in PollPasses /\ pass.step = "pages"
    BY PassSteps DEF ReadPage, Polling
  <1>2. since \in Times /\ pass.newest \in Times /\ pass.page \in Nat
    BY <1>1 DEF PollPasses, Cursors
  <1>3. page \in SUBSET Listed(since) /\ page \subseteq Objects
    BY ListType, <1>2 DEF PageOf
  <1>4. newest \in Times /\ pass.newest <= newest
        /\ (newest <= now \/ newest = pass.newest)
    BY <1>2, <1>3, NewestType
  <1>5. new \in SUBSET (Objects \X Times)
    BY <1>2, <1>3, ListType
  <1>6. ETagOf(since) \in Lists
    BY <1>2, ListType
  <1>7. Max2(pass.nextIn, interval) \in Nat
    BY <1>1, PollAssumption DEF PollPasses, Max2
  <1> HIDE DEF newest, new
  <1>8. PICK more \in BOOLEAN :
           pass' = [pass EXCEPT
               !.step = IF more THEN "pages" ELSE "answer",
               !.page = IF more THEN @ + 1 ELSE @,
               !.any = @ \/ page # {},
               !.events = @ \cup new,
               !.newest = newest,
               !.nextIn = Max2(@, interval),
               !.etag = IF pass.page = 0 THEN ETagOf(since) ELSE @]
    BY DEF ReadPage, newest, new, NewestOf
  <1> HIDE DEF page, since
  <1>9. /\ pass' \in PollPasses /\ pass'.newest = newest /\ pass'.events = pass.events \cup new
        /\ pass'.start = pass.start /\ pass'.arg = pass.arg
    <2>1. /\ (pass.any \/ page # {}) \in BOOLEAN /\ pass.events \cup new \in SUBSET (Objects \X Times)
          /\ (IF pass.page = 0 THEN ETagOf(since) ELSE pass.etag) \in Lists
          /\ (IF more THEN pass.page + 1 ELSE pass.page) \in Nat
          /\ (IF more THEN "pages" ELSE "answer") \in {"pages", "answer"}
      BY <1>1, <1>2, <1>5, <1>6 DEF PollPasses
    <2> QED BY <1>1, <1>4, <1>7, <1>8, <2>1 DEF PollPasses
  <1>10. pass' # NoPass
    BY <1>9 DEF PollPasses, NoPass
  <1> QED BY <1>1, <1>4, <1>9, <1>10 DEF new, page, since

LEMMA ReadType ==
  ASSUME TypeOK, PassOK, Answered
  PROVE  TypeOK' /\ PassOK'
  <1>1. ASSUME NEW interval \in Intervals, ReadPage(interval) PROVE PassOK'
    BY <1>1, PageRead DEF PassOK
  <1>2. ASSUME NEW interval \in Intervals, Read304(interval) PROVE PassOK'
    <2>1. pass \in PollPasses
      BY <1>2, PassSteps DEF Read304, Polling
    <2>2. Max2(pass.nextIn, interval) \in Nat
      BY <2>1, PollAssumption DEF PollPasses, Max2
    <2>3. pass' \in PollPasses
      BY <1>2, <2>1, <2>2 DEF Read304, PollPasses
    <2> QED BY <2>3 DEF PassOK
  <1>3. TypeOK'
    BY DEF Answered, ReadPage, Read304, TypeOK, github, store
  <1> QED BY <1>1, <1>2, <1>3 DEF Answered

LEMMA AnswerType ==
  ASSUME TypeOK, PassOK, StartInv, AnswerUnchanged \/ Ingest
  PROVE  TypeOK' /\ PassOK'
  <1>1. pass \in PollPasses
    BY PassSteps DEF AnswerUnchanged, Ingest
  <1>2. NextPollAt \in Times
    BY <1>1, NextPollType
  <1>3. cursor' \in Cursors
    <2>1. CASE AnswerUnchanged
      BY <1>1, <1>2, <2>1 DEF AnswerUnchanged, PollPasses, Cursors
    <2>2. CASE Ingest
      BY <1>1, <1>2, <2>2 DEF Ingest, NextCursor, PollPasses, Cursors, Lists
    <2> QED BY <2>1, <2>2
  <1>4. asked # {}
    BY DEF AnswerUnchanged, Ingest, StartInv, Reading, TypeOK
  <1>5. \A e \in pass.events : e[1] \in Objects
    BY <1>1 DEF PollPasses
  <1>6. {seen', audited', staled'} \subseteq SUBSET Objects
    BY <1>5 DEF AnswerUnchanged, Ingest, TypeOK, StaleEvents, AuditedNow
  <1> QED BY <1>2, <1>3, <1>4, <1>6
          DEF AnswerUnchanged, Ingest, TypeOK, PassOK, github, store

LEMMA GitHubType ==
  ASSUME TypeOK, Tick \/ (\E o \in Objects : Create(o) \/ Edit(o))
  PROVE  TypeOK'
  <1>1. now \in Times /\ \A o \in Objects : created[o] \in Int /\ updated[o] \in Int
    <2>1. Times \cup {NoTime} \subseteq Int
      BY TimesAreNumbers DEF NoTime
    <2> QED BY <2>1 DEF TypeOK
  <1>2. CASE Tick
    BY <1>1, <1>2, TimesAreNumbers DEF Tick, TypeOK, github, store, Times
  <1>3. ASSUME NEW o \in Objects, Create(o) PROVE TypeOK'
    BY <1>1, <1>3, TimesAreNumbers DEF Create, TypeOK, store
  <1>4. ASSUME NEW o \in Objects, Edit(o) PROVE TypeOK'
    BY <1>1, <1>4, TimesAreNumbers DEF Edit, TypeOK, store
  <1> QED BY <1>2, <1>3, <1>4

LEMMA PassType ==
  ASSUME TypeOK, PassOK,
         \/ \E arg \in SinceArgs \cup {NoTime} : StartPass(arg)
         \/ WatchFromNow \/ NotYet \/ PollFails \/ Stop
  PROVE  TypeOK' /\ PassOK'
  <1>1. CASE WatchFromNow
    BY <1>1, TimesAreNumbers DEF WatchFromNow, TypeOK, PassOK, Cursors, github, store
  <1>2. CASE \E arg \in SinceArgs \cup {NoTime} : StartPass(arg)
    BY <1>2 DEF StartPass, TypeOK, PassOK, SourcePasses, github, store
  <1>3. CASE NotYet \/ PollFails \/ Stop
    BY <1>3 DEF NotYet, PollFails, Stop, TypeOK, PassOK, github, store
  <1> QED BY <1>1, <1>2, <1>3

LEMMA TypeStep ==
  ASSUME TypeOK, PassOK, StartInv, [Next]_vars
  PROVE  TypeOK' /\ PassOK'
  <1>1. CASE UNCHANGED vars
    BY <1>1 DEF vars, TypeOK, PassOK
  <1>2. CASE Tick \/ (\E o \in Objects : Create(o) \/ Edit(o))
    BY <1>2, GitHubType DEF Tick, Create, Edit, PassOK
  <1>3. CASE \/ \E arg \in SinceArgs \cup {NoTime} : StartPass(arg)
             \/ WatchFromNow \/ NotYet \/ PollFails \/ Stop
    BY <1>3, PassType
  <1>4. CASE BeginPoll
    BY <1>4, BeginType
  <1>5. CASE Answered
    BY <1>5, ReadType
  <1>6. CASE AnswerUnchanged \/ Ingest
    BY <1>6, AnswerType
  <1> QED BY <1>1, <1>2, <1>3, <1>4, <1>5, <1>6 DEF Next, Poll

-----------------------------------------------------------------------------
(* Where polls start and what they find                                     *)

LEMMA IInvInit == Init => IInv
  BY TypeInit DEF Init, IInv, StartInv, FoundInv, SinceInv, DueInv, NoOldHistory, Reading

\* Time passes and objects change: an object that exists keeps its creation.
LEMMA GitHubStep ==
  ASSUME IInv, Tick \/ (\E o \in Objects : Create(o) \/ Edit(o))
  PROVE  StartInv' /\ FoundInv' /\ SinceInv' /\ DueInv' /\ NoOldHistory'
  <1> USE DEF IInv
  <1>1. now \in Nat /\ now' \in Nat /\ now <= now'
    BY TimesAreNumbers DEF TypeOK, Tick, Create, Edit
  <1>2. \A o \in Objects : created[o] # NoTime => created'[o] = created[o]
    BY DEF Tick, Create, Edit, github, TypeOK
  <1>3. UNCHANGED <<pass, cursor, seen, audited, asked, due>>
    BY DEF Tick, Create, Edit, store
  <1>4. StartInv' /\ DueInv'
    BY <1>3 DEF StartInv, DueInv, Reading
  <1>5. SinceInv'
    <2>1. cursor # NoCursor => cursor.since \in Nat
      BY TimesAreNumbers DEF TypeOK, Cursors
    <2> QED BY <1>1, <1>3, <2>1 DEF SinceInv
  <1>6. FoundInv'
    <2> SUFFICES ASSUME Reading PROVE FoundInv'
      BY <1>3 DEF FoundInv, Reading
    <2>1. pass \in PollPasses
      BY PassSteps DEF Reading
    <2>2. pass.newest \in Nat /\ pass.start.since \in Nat
      BY <2>1, TimesAreNumbers DEF PollPasses, Cursors
    <2>3. \A e \in pass.events : e[1] \in Objects
      BY <2>1 DEF PollPasses
    <2>4. \A e \in pass.events : created[e[1]] # NoTime
      BY <2>2 DEF FoundInv, NoTime
    <2>5. \A e \in pass.events : created'[e[1]] = created[e[1]]
      BY <1>2, <2>3, <2>4
    <2> QED BY <1>1, <1>3, <2>2, <2>5 DEF FoundInv, Reading
  <1>7. NoOldHistory'
    <2>1. \A t \in asked : t \in Nat
      BY TimesAreNumbers DEF TypeOK
    <2>2. \A o \in seen \cup audited : o \in Objects /\ created[o] # NoTime
      BY <2>1 DEF NoOldHistory, NoTime, TypeOK
    <2>3. \A o \in seen \cup audited : created'[o] = created[o]
      BY <1>2, <2>2
    <2> QED BY <1>3, <2>3 DEF NoOldHistory
  <1> QED BY <1>4, <1>6, <1>7, <1>5

LEMMA PassStep ==
  ASSUME IInv,
         \/ \E arg \in SinceArgs \cup {NoTime} : StartPass(arg)
         \/ WatchFromNow \/ NotYet \/ PollFails \/ Stop
  PROVE  StartInv' /\ FoundInv' /\ SinceInv' /\ DueInv' /\ NoOldHistory'
  <1> USE DEF IInv
  <1>1. ~Reading'
    BY DEF StartPass, WatchFromNow, NotYet, PollFails, Stop, Reading
  <1>2. StartInv' /\ FoundInv'
    BY <1>1 DEF StartInv, FoundInv
  <1>3. CASE WatchFromNow
    <2>1. now <= now
      BY TimesAreNumbers DEF TypeOK
    <2>2. cursor'.since = now /\ cursor'.next = 0 /\ now \in asked' /\ cursor' # NoCursor
      BY <1>3 DEF WatchFromNow, NoCursor
    <2> QED BY <1>2, <1>3, <2>1, <2>2 DEF WatchFromNow, SinceInv, DueInv, NoOldHistory, github
  <1>4. CASE ~WatchFromNow
    BY <1>2, <1>4 DEF StartPass, NotYet, PollFails, Stop, SinceInv, DueInv, NoOldHistory, github,
                      store
  <1> QED BY <1>3, <1>4

LEMMA BeginStep ==
  ASSUME IInv, BeginPoll
  PROVE  StartInv' /\ FoundInv' /\ SinceInv' /\ DueInv' /\ NoOldHistory'
  <1> USE DEF IInv
  <1>1. pass.arg \in SinceArgs \cup {NoTime}
    BY PassSteps DEF BeginPoll, SourcePasses
  <1>2. pass'.start = StartCursor /\ pass'.arg = pass.arg /\ pass'.events = {}
        /\ pass'.newest = StartCursor.since
    BY DEF BeginPoll
  <1>3. StartInv'
    BY <1>2 DEF BeginPoll, MayAsk, StartCursor, StartInv, store
  <1>4. FoundInv'
    <2>1. StartCursor.since \in Nat
      BY <1>1, TimesAreNumbers DEF StartCursor, BeginPoll, MayAsk, Cursors, TypeOK
    <2> QED BY <1>2, <2>1 DEF FoundInv
  <1>5. SinceInv' /\ DueInv' /\ NoOldHistory'
    BY DEF BeginPoll, SinceInv, DueInv, NoOldHistory, github, store
  <1> QED BY <1>3, <1>4, <1>5

LEMMA ReadStep ==
  ASSUME IInv, Answered
  PROVE  StartInv' /\ FoundInv' /\ SinceInv' /\ DueInv' /\ NoOldHistory'
  <1> USE DEF IInv
  <1>1. pass \in PollPasses /\ Reading
    BY PassSteps DEF Answered, Read304, ReadPage, Polling, Reading
  <1>2. UNCHANGED <<now, created, cursor, seen, audited, asked, due>>
    BY DEF Answered, Read304, ReadPage, github, store
  <1>3. SinceInv' /\ DueInv' /\ NoOldHistory'
    BY <1>2 DEF SinceInv, DueInv, NoOldHistory
  <1>4. pass'.start = pass.start /\ pass'.arg = pass.arg
    BY <1>1, PageRead DEF Answered, Read304, PollPasses
  <1>5. StartInv'
    BY <1>1, <1>2, <1>4 DEF StartInv
  <1>6. ASSUME NEW interval \in Intervals, Read304(interval) PROVE FoundInv'
    BY <1>1, <1>2, <1>6 DEF Read304, PollPasses, FoundInv
  <1>7. ASSUME NEW interval \in Intervals, ReadPage(interval) PROVE FoundInv'
    <2>1. pass.newest \in Nat /\ pass'.newest \in Nat /\ pass.start.since \in Nat
      <3>1. pass' \in PollPasses
        BY <1>7, PageRead
      <3>2. pass.newest \in Times /\ pass'.newest \in Times /\ pass.start.since \in Times
        BY <1>1, <3>1 DEF PollPasses, Cursors
      <3> QED BY <3>2, TimesAreNumbers
    <2>2. pass.start.since <= pass'.newest
          /\ (pass'.newest <= now \/ pass'.newest = pass.start.since)
      BY <1>1, <1>7, <2>1, PageRead DEF FoundInv
    <2>3. \A e \in pass'.events : created[e[1]] >= pass.start.since
      BY <1>1, <1>7, PageRead DEF FoundInv, IsEvent
    <2> QED BY <1>2, <1>4, <2>2, <2>3 DEF FoundInv
  <1> QED BY <1>3, <1>5, <1>6, <1>7 DEF Answered

\* A poll starts at or after a time the source was told to start from.
LEMMA StartsSinceAsked ==
  ASSUME IInv, Reading
  PROVE  pass.start.since \in Nat /\ \E t \in asked : t \in Nat /\ pass.start.since >= t
  <1>1. pass \in PollPasses
    BY PassSteps DEF Reading, IInv
  <1>2. pass.start.since \in Nat
    BY <1>1, TimesAreNumbers DEF PollPasses, Cursors
  <1>3. \A t \in asked : t \in Nat
    BY TimesAreNumbers DEF IInv, TypeOK
  <1> QED BY <1>2, <1>3 DEF IInv, StartInv, SinceInv

LEMMA AnswerStep ==
  ASSUME IInv, AnswerUnchanged \/ Ingest
  PROVE  StartInv' /\ FoundInv' /\ SinceInv' /\ DueInv' /\ NoOldHistory'
  <1> USE DEF IInv
  <1>1. pass \in PollPasses /\ Reading
    BY PassSteps DEF AnswerUnchanged, Ingest, Reading
  <1>2. StartInv' /\ FoundInv'
    BY DEF AnswerUnchanged, Ingest, StartInv, FoundInv, Reading
  <1>3. PICK t \in asked : t \in Nat /\ pass.start.since >= t
    BY <1>1, StartsSinceAsked
  <1>4. pass.start.since \in Nat /\ pass.newest \in Nat /\ pass.newest >= pass.start.since
    BY <1>1, TimesAreNumbers DEF PollPasses, Cursors, FoundInv
  <1>5. pass.start.since <= now \/ pass.start.since \in asked
    BY <1>1 DEF StartInv, SinceInv
  <1>6. pass.newest <= now \/ pass.newest \in asked
    BY <1>1, <1>5 DEF FoundInv
  <1>7. /\ cursor'.since >= t /\ (cursor'.since <= now \/ cursor'.since \in asked)
        /\ cursor'.next = NextPollAt /\ cursor' # NoCursor
    <2>1. CASE AnswerUnchanged
      <3>1. cursor' \in Cursors /\ cursor'.since = pass.start.since /\ cursor'.next = NextPollAt
        BY <1>1, <2>1, NextPollType DEF AnswerUnchanged, PollPasses, Cursors
      <3> QED BY <1>3, <1>5, <3>1 DEF Cursors, NoCursor
    <2>2. CASE Ingest
      <3>1. cursor' = NextCursor
        BY <2>2 DEF Ingest
      <3> QED BY <1>3, <1>4, <1>6, <3>1 DEF NextCursor, NoCursor
    <2> QED BY <2>1, <2>2
  <1>8. UNCHANGED <<asked, created, now>> /\ due' = NextPollAt
    BY DEF AnswerUnchanged, Ingest, github
  <1>9. SinceInv' /\ DueInv'
    BY <1>7, <1>8 DEF SinceInv, DueInv
  <1>10. \A o \in (seen' \cup audited') \ (seen \cup audited) : created[o] >= t
    <2>1. ASSUME NEW o \in (seen' \cup audited') \ (seen \cup audited)
          PROVE  created[o] >= t
      <3>1. PICK e \in pass.events : e[1] = o
        BY <2>1 DEF AnswerUnchanged, Ingest, AuditedNow, StaleEvents
      <3>2. o \in Objects
        BY <1>1, <3>1 DEF PollPasses
      <3>3. created[o] \in Int
        <4>1. Times \cup {NoTime} \subseteq Int
          BY TimesAreNumbers DEF NoTime
        <4> QED BY <3>2, <4>1 DEF TypeOK
      <3> QED BY <1>1, <1>3, <1>4, <3>1, <3>3 DEF FoundInv
    <2> QED BY <2>1
  <1>11. NoOldHistory'
    BY <1>8, <1>10 DEF NoOldHistory
  <1> QED BY <1>2, <1>9, <1>11

LEMMA IInvStep == IInv /\ [Next]_vars => IInv'
  <1> SUFFICES ASSUME IInv, [Next]_vars PROVE IInv'
    OBVIOUS
  <1>1. TypeOK' /\ PassOK'
    BY TypeStep DEF IInv
  <1>2. CASE UNCHANGED vars
    BY <1>1, <1>2 DEF vars, IInv, StartInv, FoundInv, SinceInv, DueInv, NoOldHistory, Reading
  <1>3. CASE Next
    BY <1>1, <1>3, GitHubStep, PassStep, BeginStep, ReadStep, AnswerStep DEF Next, Poll, IInv
  <1> QED BY <1>2, <1>3

LEMMA Invariant == Spec => []IInv
  BY IInvInit, IInvStep, PTL DEF Spec

\* Every part of the state has its type, and a source with a cursor was told
\* where to start (poll, ingest).
THEOREM TypeCorrect == Spec => []TypeOK
  <1>1. IInv => TypeOK
    BY DEF IInv
  <1> QED BY <1>1, Invariant, PTL

\* Nothing created before the earliest start of a source becomes work or is
\* audited, also while GitHub's lists change between two pages (start_cursor
\* and read_page).
THEOREM OldHistoryStays == Spec => []NoOldHistory
  <1>1. IInv => NoOldHistory
    BY DEF IInv
  <1> QED BY <1>1, Invariant, PTL

\* A source is asked at most once per its wait (source_due).
THEOREM WaitsAreKept == Spec => OncePerWait
  <1>1. IInv /\ [Next]_vars
          => [Polling' /\ ~Polling /\ pass.arg = NoTime => now >= due]_vars
    <2> SUFFICES ASSUME IInv, Next, Polling', ~Polling, pass.arg = NoTime PROVE now >= due
      BY DEF IInv
    <2>1. BeginPoll
      <3>1. pass' # pass /\ pass' # NoPass
        BY DEF Polling
      <3>2. ~(Tick \/ (\E o \in Objects : Create(o) \/ Edit(o)))
        BY <3>1 DEF Tick, Create, Edit
      <3>3. ~(WatchFromNow \/ NotYet \/ PollFails \/ AnswerUnchanged \/ Ingest \/ Stop)
        BY <3>1 DEF WatchFromNow, NotYet, PollFails, AnswerUnchanged, Ingest, Stop
      <3>4. ~Answered
        BY DEF Answered, Read304, ReadPage
      <3>5. ~\E arg \in SinceArgs \cup {NoTime} : StartPass(arg)
        BY DEF StartPass, Polling
      <3> QED BY <3>2, <3>3, <3>4, <3>5 DEF Next, Poll
    <2>2. cursor # NoCursor /\ cursor.next <= now /\ due = cursor.next
      BY <2>1 DEF BeginPoll, MayAsk, IInv, DueInv
    <2>3. due \in Nat /\ now \in Nat
      BY TimesAreNumbers DEF IInv, TypeOK
    <2> QED BY <2>2, <2>3
  <1> QED BY <1>1, Invariant, PTL DEF Spec, OncePerWait

-----------------------------------------------------------------------------
(* No event is lost                                                         *)

\* What a poll does not depend on: the list stands still while it is read, and
\* it fits into the pages of one poll.
ListStandsStill == ~EditsDuringPoll
ListFits == Cardinality(Objects) <= PageSize * MaxPages

Held(o) == \E e \in pass.events : e[1] = o

\* The pages read so far have given their events.
PagesInv ==
    Polling =>
        /\ pass.page = 0 => pass.newest = pass.start.since
        /\ \A m \in Nat : m < pass.page =>
              \A o \in PageOf(pass.start.since, m) : IsEvent(o, pass.start.since) => Held(o)

\* A poll that is complete has every event older than its newest.
CompleteInv ==
    pass # NoPass /\ pass.step = "answer" =>
        \A o \in Objects :
            created[o] >= pass.start.since /\ created[o] < pass.newest => Held(o)

LossInv == PagesInv /\ CompleteInv /\ NoEventLost

LEMMA LossInit == Init => LossInv
  BY DEF Init, LossInv, PagesInv, CompleteInv, NoEventLost, Polling

LEMMA CreationTimes ==
  ASSUME TypeOK, NEW o \in Objects
  PROVE  created[o] \in Int /\ updated[o] \in Int /\ now \in Nat
         /\ created[o] <= updated[o] /\ updated[o] <= now
  <1>1. Times \cup {NoTime} \subseteq Int
    BY TimesAreNumbers DEF NoTime
  <1> QED BY <1>1, TimesAreNumbers DEF TypeOK

LEMMA GitHubLoss ==
  ASSUME IInv, LossInv, ListStandsStill,
         Tick \/ (\E o \in Objects : Create(o) \/ Edit(o))
  PROVE  LossInv'
  <1> USE DEF LossInv
  <1>1. UNCHANGED <<pass, cursor, seen, staled, asked>>
    BY DEF Tick, Create, Edit, store
  <1>2. PagesInv'
    <2>1. CASE Polling
      <3>1. UNCHANGED <<created, updated>>
        BY <2>1 DEF Tick, Create, Edit, Quiet, ListStandsStill, github
      <3>2. \A since, m : PageOf(since, m)' = PageOf(since, m)
        BY <3>1 DEF PageOf, Listed, Before
      <3> QED BY <1>1, <2>1, <3>1, <3>2 DEF PagesInv, Polling, IsEvent, Held
    <2>2. CASE ~Polling
      BY <1>1, <2>2 DEF PagesInv, Polling
    <2> QED BY <2>1, <2>2
  <1>3. \A o \in Objects : created'[o] = created[o] \/ created'[o] = now
    BY DEF Tick, Create, Edit, github, IInv, TypeOK
  <1>4. CompleteInv'
    <2> SUFFICES ASSUME pass # NoPass, pass.step = "answer", NEW o \in Objects,
                        created'[o] >= pass.start.since, created'[o] < pass.newest
                 PROVE  Held(o)
      BY <1>1 DEF CompleteInv, Held
    <2>1. pass \in PollPasses /\ Reading
      BY PassSteps DEF IInv, Reading
    <2>2. pass.newest \in Nat /\ pass.start.since \in Nat
      BY <2>1, TimesAreNumbers DEF PollPasses, Cursors
    <2>3. created'[o] # now \/ created'[o] = created[o]
      BY <2>1, <2>2, CreationTimes DEF IInv, FoundInv
    <2> QED BY <1>3, <2>3 DEF CompleteInv
  <1>5. NoEventLost'
    <2> SUFFICES ASSUME NEW o \in Objects, cursor # NoCursor, Wanted(o)',
                        created'[o] < cursor.since
                 PROVE  o \in seen \cup staled
      BY <1>1 DEF NoEventLost
    <2>1. CASE created'[o] = created[o]
      BY <1>1, <2>1 DEF NoEventLost, Wanted
    <2>2. CASE created'[o] # created[o]
      <3>1. created'[o] = now
        BY <1>3, <2>2
      <3>2. \A t \in asked : t \in Nat /\ t <= now
        BY <1>1, <3>1, CreationTimes, TimesAreNumbers DEF Wanted, IInv, TypeOK
      <3>3. cursor.since \in Nat
        BY TimesAreNumbers DEF IInv, TypeOK, Cursors
      <3> QED BY <3>1, <3>2, <3>3, CreationTimes DEF IInv, SinceInv
    <2> QED BY <2>1, <2>2
  <1> QED BY <1>2, <1>4, <1>5

LEMMA PassLoss ==
  ASSUME IInv, LossInv,
         \/ \E arg \in SinceArgs \cup {NoTime} : StartPass(arg)
         \/ WatchFromNow \/ NotYet \/ PollFails \/ Stop
  PROVE  LossInv'
  <1> USE DEF LossInv
  <1>1. PagesInv' /\ CompleteInv'
    BY DEF StartPass, WatchFromNow, NotYet, PollFails, Stop, PagesInv, CompleteInv, Polling
  <1>2. CASE WatchFromNow
    <2>1. cursor'.since = now /\ now \in asked' /\ UNCHANGED created
      BY <1>2 DEF WatchFromNow, github
    <2>2. \A o \in Objects : ~(Wanted(o)' /\ created'[o] < cursor'.since)
      BY <2>1, CreationTimes DEF Wanted, IInv
    <2> QED BY <1>1, <2>2 DEF NoEventLost
  <1>3. CASE ~WatchFromNow
    BY <1>1, <1>3 DEF StartPass, NotYet, PollFails, Stop, NoEventLost, Wanted, github, store
  <1> QED BY <1>2, <1>3

LEMMA BeginLoss ==
  ASSUME IInv, LossInv, BeginPoll
  PROVE  LossInv'
  <1>1. pass'.step = "pages" /\ pass'.page = 0 /\ pass'.newest = pass'.start.since
    BY DEF BeginPoll
  <1>2. PagesInv' /\ CompleteInv'
    BY <1>1 DEF PagesInv, CompleteInv
  <1>3. NoEventLost'
    <2>1. asked \subseteq asked' /\ UNCHANGED <<created, cursor, seen, staled>>
      BY DEF BeginPoll, github, store
    <2>2. \A o \in Objects : cursor # NoCursor /\ Wanted(o)' => Wanted(o)
      BY <2>1 DEF Wanted, IInv, TypeOK
    <2> QED BY <2>1, <2>2 DEF LossInv, NoEventLost
  <1> QED BY <1>2, <1>3 DEF LossInv

LEMMA ReadLoss ==
  ASSUME IInv, LossInv, ListFits, Answered
  PROVE  LossInv'
  <1> USE DEF LossInv
  <1>1. UNCHANGED <<created, updated, cursor, seen, staled, asked>>
    BY DEF Answered, Read304, ReadPage, github, store
  <1>2. NoEventLost'
    BY <1>1 DEF NoEventLost, Wanted
  <1>3. pass \in PollPasses /\ Polling
    BY PassSteps DEF Answered, Read304, ReadPage, Polling, IInv
  <1>4. pass.newest \in Nat /\ pass.start.since \in Times /\ pass.start.since \in Nat
        /\ pass.page \in Nat
    BY <1>3, TimesAreNumbers DEF PollPasses, Cursors
  <1>5. ASSUME NEW interval \in Intervals, Read304(interval) PROVE PagesInv' /\ CompleteInv'
    <2>1. pass.newest = pass.start.since
      BY <1>3, <1>5 DEF Read304, NotModified, PagesInv
    <2>2. pass'.step = "answer" /\ pass'.newest = pass.newest /\ pass'.start = pass.start
      BY <1>3, <1>5 DEF Read304, PollPasses
    <2> QED BY <1>1, <1>4, <2>1, <2>2, CreationTimes DEF PagesInv, CompleteInv, Polling, IInv
  <1>6. ASSUME NEW interval \in Intervals, ReadPage(interval) PROVE PagesInv' /\ CompleteInv'
    <2> DEFINE since == pass.start.since
               page == PageOf(since, pass.page)
               more == /\ Cardinality(page) >= PageSize
                       /\ HasNext(since, pass.page)
                       /\ pass.page + 1 < MaxPages
    <2>1. /\ pass'.start = pass.start
          /\ pass'.events = pass.events \cup
               {<<o, updated[o]>> : o \in {p \in page : IsEvent(p, since)}}
      BY <1>6, PageRead DEF IInv
    <2>2. \A o : Held(o) => Held(o)'
      BY <2>1 DEF Held
    <2>3. ASSUME NEW o \in page, IsEvent(o, since) PROVE Held(o)'
      <3>1. <<o, updated[o]>> \in pass'.events
        BY <2>1, <2>3
      <3> QED BY <3>1 DEF Held
    <2>4. /\ pass'.step = (IF more THEN "pages" ELSE "answer")
          /\ pass'.page = (IF more THEN pass.page + 1 ELSE pass.page)
      BY <1>3, <1>6 DEF ReadPage, PollPasses
    <2>5. \A m \in Nat : m <= pass.page =>
             \A o \in PageOf(since, m) : IsEvent(o, since) => Held(o)'
      BY <1>3, <1>4, <2>2, <2>3 DEF PagesInv
    <2> HIDE DEF more
    <2>6. PagesInv'
      <3>1. \A s, m : PageOf(s, m)' = PageOf(s, m)
        BY <1>1 DEF PageOf, Listed, Before
      <3>2. \A o, s : IsEvent(o, s)' = IsEvent(o, s)
        BY <1>1 DEF IsEvent
      <3> SUFFICES ASSUME more PROVE PagesInv'
        BY <2>4 DEF PagesInv, Polling
      <3>3. pass'.page # 0 /\ \A m \in Nat : m < pass'.page => m <= pass.page
        BY <1>4, <2>4
      <3> QED BY <2>1, <2>5, <3>1, <3>2, <3>3 DEF PagesInv
    <2>7. CompleteInv'
      <3> SUFFICES ASSUME ~more, NEW o \in Objects, created[o] >= since PROVE Held(o)'
        BY <1>1, <2>1, <2>4 DEF CompleteInv
      <3>1. o \in Listed(since)
        BY <1>4, CreationTimes DEF Listed, NoTime, IInv
      <3>2. \/ Cardinality(page) < PageSize
            \/ ~HasNext(since, pass.page)
            \/ pass.page + 1 >= MaxPages
        <4>1. IsFiniteSet(page)
          BY PollAssumption, FS_Subset DEF PageOf, Listed
        <4>2. Cardinality(page) \in Nat /\ PageSize \in Nat /\ MaxPages \in Nat
          BY <4>1, FS_CardinalityType, PollAssumption
        <4> QED BY <1>4, <4>2 DEF more
      <3>3. PICK m \in 0 .. pass.page : o \in PageOf(since, m)
        BY <1>4, <3>1, <3>2, LastPage DEF ListFits, IInv
      <3>4. IsEvent(o, since)
        BY DEF IsEvent
      <3> QED BY <1>4, <2>5, <3>3, <3>4
    <2> QED BY <2>6, <2>7
  <1> QED BY <1>2, <1>5, <1>6 DEF Answered

LEMMA AnswerLoss ==
  ASSUME IInv, LossInv, AnswerUnchanged \/ Ingest
  PROVE  LossInv'
  <1> USE DEF LossInv
  <1>1. PagesInv' /\ CompleteInv'
    BY DEF AnswerUnchanged, Ingest, PagesInv, CompleteInv, Polling
  <1>2. pass \in PollPasses /\ Reading /\ pass.step = "answer" /\ pass # NoPass
    BY PassSteps DEF AnswerUnchanged, Ingest, Reading, IInv
  <1>3. UNCHANGED <<created, asked>>
    BY DEF AnswerUnchanged, Ingest, github
  <1>4. \A o \in Objects : Wanted(o) /\ created[o] < pass.start.since => o \in seen \cup staled
    <2>1. CASE pass.arg # NoTime
      <3>1. pass.start.since \in asked /\ pass.start.since \in Nat
        BY <1>2, <2>1, TimesAreNumbers DEF StartInv, IInv, PollPasses, Cursors
      <3>2. \A o \in Objects : created[o] \in Int
        BY CreationTimes DEF IInv
      <3> QED BY <3>1, <3>2 DEF Wanted
    <2>2. CASE pass.arg = NoTime
      BY <1>2, <2>2 DEF StartInv, NoEventLost, IInv
    <2> QED BY <2>1, <2>2
  <1>5. CASE AnswerUnchanged
    <2>1. cursor'.since = pass.start.since
      BY <1>2, <1>5, NextPollType DEF AnswerUnchanged, PollPasses, Cursors, IInv
    <2> QED BY <1>1, <1>3, <1>4, <1>5, <2>1 DEF AnswerUnchanged, NoEventLost, Wanted
  <1>6. CASE Ingest
    <2>1. cursor'.since = pass.newest
      BY <1>6 DEF Ingest, NextCursor
    <2>2. \A o : Held(o) => o \in seen' \cup staled'
      BY <1>6 DEF Held, Ingest
    <2>3. ASSUME NEW o \in Objects, Wanted(o), created[o] < pass.newest
          PROVE  o \in seen' \cup staled'
      <3>1. CASE created[o] < pass.start.since
        BY <1>4, <1>6, <2>3, <3>1 DEF Ingest
      <3>2. CASE created[o] >= pass.start.since
        BY <1>2, <2>2, <2>3, <3>2 DEF CompleteInv
      <3>3. created[o] \in Int /\ pass.start.since \in Nat
        BY <1>2, CreationTimes, TimesAreNumbers DEF PollPasses, Cursors, IInv
      <3> QED BY <3>1, <3>2, <3>3
    <2> QED BY <1>1, <1>3, <2>1, <2>3 DEF NoEventLost, Wanted
  <1> QED BY <1>5, <1>6

LEMMA LossStep ==
  ASSUME ListStandsStill, ListFits
  PROVE  IInv /\ LossInv /\ [Next]_vars => LossInv'
  <1> SUFFICES ASSUME IInv, LossInv, [Next]_vars PROVE LossInv'
    OBVIOUS
  <1>1. CASE UNCHANGED vars
    <2>1. UNCHANGED <<pass, created, updated, cursor, seen, staled, asked>>
      BY <1>1 DEF vars
    <2>2. \A since, m : PageOf(since, m)' = PageOf(since, m)
      BY <2>1 DEF PageOf, Listed, Before
    <2> QED BY <2>1, <2>2
            DEF LossInv, PagesInv, CompleteInv, NoEventLost, Polling, IsEvent, Held, Wanted
  <1>2. CASE Next
    BY <1>2, GitHubLoss, PassLoss, BeginLoss, ReadLoss, AnswerLoss DEF Next, Poll
  <1> QED BY <1>1, <1>2

\* The cursor never moves past an event, wherever a pass is killed and whatever
\* was edited between two polls (poll and ingest).
THEOREM EventsAreKept ==
  ASSUME ListStandsStill, ListFits
  PROVE  Spec => []NoEventLost
  <1>1. LossInv => NoEventLost
    BY DEF LossInv
  <1> QED BY <1>1, Invariant, LossInit, LossStep, PTL DEF Spec
=============================================================================
