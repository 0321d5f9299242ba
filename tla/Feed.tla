---------------------------------- MODULE Feed ---------------------------------
(***************************************************************************)
(* Who follows whom, kept in tb_follow and in a Redis set                  *)
(* (FollowServiceImpl.follow); blogs that are pushed to the feeds of the   *)
(* followers one by one (BlogServiceImpl.savaBlog); and the page of a      *)
(* reader that scrolls through the feed (queryBlogOfFollow, info.html).    *)
(* A blog is the number that orders equal scores: Redis compares the ids   *)
(* as strings.                                                             *)
(***************************************************************************)
EXTENDS Integers, FiniteSetsExt

CONSTANTS
  Readers, Authors,
  Blogs,
  AuthorOf,       \* the author of each blog
  Threads,        \* of the web server, for follow and unfollow
  Slots,          \* queries a page has under way; bounds their number
  OldRows,        \* rows there are at first, of each pair
  PageSize,
  LastTick,       \* bound on the clock
  MaxRows,        \* bound on the rows of a pair in tb_follow
  MaxClears,      \* bound on the times a page begins at the top
  None

ASSUME SizesAssumption ==
  /\ Blogs \subseteq Nat \ {0} /\ IsFiniteSet(Blogs) /\ AuthorOf \in [Blogs -> Authors]
  /\ PageSize \in Nat \ {0} /\ LastTick \in Nat \ {0}
  /\ MaxRows \in Nat \ {0} /\ MaxClears \in Nat
  /\ OldRows \in [Readers \X Authors -> 0..MaxRows]

Pairs == Readers \X Authors

VARIABLES
  now,            \* the clock, in milliseconds
  rows,           \* tb_follow: the number of rows of a pair
  follows,        \* follows:{reader}, as pairs
  pc, pair,       \* of each request
  torn,           \* history: pairs with a request that failed or met another one
  saved,          \* tb_blog
  todo,           \* the followers each fan-out has left, with the number of their rows
  moved,          \* history: readers to whom a blog was pushed again, at a later time
  feed,           \* feed:{reader}: the score of each blog, or 0
  scroll,         \* params of the page: minTime and offset
  shown,          \* the blogs of the page
  wanted,         \* history: the feed when the page began at the top
  skipping,       \* history: readers whose page has shown an answer for another place
  answers,        \* of the queries under way
  clears

relation == <<rows, follows, pc, pair, torn>>
publishing == <<saved, todo, moved>>
page == <<scroll, shown, answers, clears>>
history == <<wanted, skipping>>
vars == <<now, relation, publishing, feed, history, page>>

Nobody == [r \in Readers |-> 0]
Unasked == [max |-> 0, offset |-> 0]
Empty == [b \in Blogs |-> 0]

Init ==
  /\ now = 1
  /\ rows = OldRows /\ follows = {p \in Pairs : OldRows[p] > 0}
  /\ pc = [t \in Threads |-> "idle"] /\ pair = [t \in Threads |-> None]
  /\ torn = {}
  /\ saved = {} /\ todo = [b \in Blogs |-> Nobody] /\ moved = {}
  /\ feed = [r \in Readers |-> Empty]
  /\ scroll = [r \in Readers |-> Unasked]
  /\ shown = [r \in Readers |-> {}] /\ wanted = [r \in Readers |-> Empty]
  /\ skipping = {}
  /\ answers = [r \in Readers |-> [s \in Slots |-> None]]
  /\ clears = 0

-----------------------------------------------------------------------------
\* follow: a row is written or all are removed, and then the set is changed.

Busy(p) == {t \in Threads : pair[t] = p}

Begin(t, p, step) ==
  /\ pc' = [pc EXCEPT ![t] = step]
  /\ pair' = [pair EXCEPT ![t] = p]
  /\ torn' = IF Busy(p) = {} THEN torn ELSE torn \cup {p}

Return(t) ==
  /\ pc' = [pc EXCEPT ![t] = "idle"]
  /\ pair' = [pair EXCEPT ![t] = None]

SaveFollow(t, p) ==
  /\ pc[t] = "idle"
  /\ rows[p] < MaxRows
  /\ rows' = [rows EXCEPT ![p] = @ + 1]
  /\ Begin(t, p, "add")
  /\ UNCHANGED <<now, follows, publishing, feed, history, page>>

\* Defect: one row is removed.
Removed_One(n) == n - 1

Removed(n) == 0

RemoveFollow(t, p) ==
  /\ pc[t] = "idle"
  /\ rows[p] > 0
  /\ rows' = [rows EXCEPT ![p] = Removed(@)]
  /\ Begin(t, p, "remove")
  /\ UNCHANGED <<now, follows, publishing, feed, history, page>>

ChangeSet(t) ==
  /\ pc[t] # "idle"
  /\ follows' = IF pc[t] = "add" THEN follows \cup {pair[t]} ELSE follows \ {pair[t]}
  /\ Return(t)
  /\ UNCHANGED <<now, rows, torn, publishing, feed, history, page>>

\* Redis fails and the request ends with an exception.
ChangeSetFails(t) ==
  /\ pc[t] # "idle"
  /\ torn' = torn \cup {pair[t]}
  /\ Return(t)
  /\ UNCHANGED <<now, rows, follows, publishing, feed, history, page>>

-----------------------------------------------------------------------------
\* savaBlog.

\* The blog is saved and the rows of its author are read, duplicates included; nothing
\* here tells the two steps apart.
SaveBlog(b) ==
  /\ b \notin saved
  /\ saved' = saved \cup {b}
  /\ todo' = [todo EXCEPT ![b] = [r \in Readers |-> rows[<<r, AuthorOf[b]>>]]]
  /\ UNCHANGED <<now, relation, moved, feed, history, page>>

\* ZADD with the time at which its arguments were evaluated, later than in the rounds
\* of the loop before.
Push(b, r, time) ==
  /\ todo[b][r] > 0
  /\ time \in {now - 1, now} \ {0} /\ \A q \in Readers : feed[q][b] <= time
  /\ moved' = IF feed[r][b] \in {0, time} THEN moved ELSE moved \cup {r}
  /\ todo' = [todo EXCEPT ![b][r] = @ - 1]
  /\ feed' = [feed EXCEPT ![r][b] = time]
  /\ UNCHANGED <<now, relation, saved, history, page>>

\* An exception ends the loop.
PushFails(b) ==
  /\ todo[b] # Nobody
  /\ todo' = [todo EXCEPT ![b] = Nobody]
  /\ UNCHANGED <<now, relation, saved, moved, feed, history, page>>

Tick ==
  /\ now < LastTick
  /\ now' = now + 1
  /\ UNCHANGED <<relation, publishing, feed, history, page>>

-----------------------------------------------------------------------------
\* queryBlogOfFollow.

\* ZREVRANGEBYSCORE from max on, in its order.
UpTo(r, max) == {b \in Blogs : feed[r][b] \in 1..max}

Before(r, b, c) ==
  feed[r][b] > feed[r][c] \/ (feed[r][b] = feed[r][c] /\ b > c)

Place(r, b, max) == Cardinality({c \in UpTo(r, max) : Before(r, c, b)})

\* LIMIT offset PageSize
Page(r, from) ==
  {b \in UpTo(r, from.max) :
     Place(r, b, from.max) \in from.offset .. from.offset + PageSize - 1}

LastScore(r, list) == Min({feed[r][b] : b \in list})

\* Defect: the blogs of the page are counted, whatever their scores.
SameTime_All(r, list) == Cardinality(list)

\* Defect: sameTimeOffset begins at 0.
SameTime_From0(r, list) == Cardinality({b \in list : feed[r][b] = LastScore(r, list)}) - 1

\* sameTimeOffset: the blogs of the page with the last score.
SameTime(r, list) == Cardinality({b \in list : feed[r][b] = LastScore(r, list)})

\* late: the page has moved since the query was sent.
Answer(r, from, clear) ==
  LET list == Page(r, from) IN
  [late |-> FALSE, clear |-> clear, list |-> list,
   next |-> IF list = {} THEN Unasked
            ELSE [max |-> LastScore(r, list), offset |-> SameTime(r, list)],
   feed |-> IF clear THEN feed[r] ELSE Empty]

-----------------------------------------------------------------------------
\* queryBlogsOfFollow in info.html.

\* Answers that find the page at another place than their query left it at.
Late(r) ==
  [s \in Slots |-> IF answers[r][s] = None THEN None ELSE [answers[r][s] EXCEPT !.late = TRUE]]

Ask(r, s, others, from, clear) ==
  /\ answers[r][s] = None
  /\ scroll' = [scroll EXCEPT ![r] = from]
  /\ answers' = [answers EXCEPT ![r] = [others EXCEPT ![s] = Answer(r, from, clear)]]
  /\ UNCHANGED <<now, relation, publishing, feed, wanted, shown>>

\* The tab is opened or scrolled to the top.
AskFirst(r, s) ==
  /\ clears < MaxClears /\ clears' = clears + 1
  /\ Ask(r, s, Late(r), [max |-> now + 1, offset |-> 0], TRUE)
  /\ skipping' = skipping \ {r}

\* The reader scrolls to the bottom; a query may be under way.
AskNext(r, s) ==
  /\ scroll[r] # Unasked
  /\ Ask(r, s, answers[r], scroll[r], FALSE)
  /\ UNCHANGED <<skipping, clears>>

\* The answer of slot s has blogs and is added to the page or replaces it.
Show(r, s) ==
  LET a == answers[r][s] IN
  /\ a # None /\ a.list # {}
  /\ scroll' = [scroll EXCEPT ![r] = a.next]
  /\ shown' = [shown EXCEPT ![r] = IF a.clear THEN a.list ELSE @ \cup a.list]
  /\ wanted' = [wanted EXCEPT ![r] = IF a.clear THEN a.feed ELSE @]
  /\ skipping' = IF a.clear THEN skipping \ {r}
                 ELSE IF a.late THEN skipping \cup {r} ELSE skipping
  /\ answers' = [answers EXCEPT ![r] = [Late(r) EXCEPT ![s] = None]]
  /\ UNCHANGED <<now, relation, publishing, feed, clears>>

\* An answer without blogs leaves the page as it is; so does an error, which the page logs.
Dismiss(r, s) ==
  /\ answers[r][s] # None
  /\ answers' = [answers EXCEPT ![r][s] = None]
  /\ UNCHANGED <<now, relation, publishing, feed, history, scroll, shown, clears>>

Deliver(r, s) ==
  \/ Show(r, s)
  \/ answers[r][s] # None /\ answers[r][s].list = {} /\ Dismiss(r, s)

QueryFails(r, s) == Dismiss(r, s)

-----------------------------------------------------------------------------
Next ==
  \/ \E t \in Threads :
       \/ \E p \in Pairs : SaveFollow(t, p) \/ RemoveFollow(t, p)
       \/ ChangeSet(t) \/ ChangeSetFails(t)
  \/ \E b \in Blogs :
       \/ SaveBlog(b) \/ PushFails(b)
       \/ \E r \in Readers, time \in 1..LastTick : Push(b, r, time)
  \/ Tick
  \/ \E r \in Readers, s \in Slots :
       AskFirst(r, s) \/ AskNext(r, s) \/ Deliver(r, s) \/ QueryFails(r, s)

Spec == Init /\ [][Next]_vars

\* The reader scrolls on, and not every query fails.
Fairness ==
  \A r \in Readers, s \in Slots : WF_vars(AskNext(r, s)) /\ SF_vars(Deliver(r, s))

FairSpec == Spec /\ Fairness

-----------------------------------------------------------------------------
\* Properties.

\* Requests that neither fail nor overlap keep the set and the table together, also
\* for pairs that have several rows.
SetFollowsTable ==
  \A p \in Pairs \ torn : Busy(p) = {} => (p \in follows <=> rows[p] > 0)

\* A page that is at this place has not come to this blog.
Ahead(r, b, at) == b \in UpTo(r, at.max) /\ Place(r, b, at.max) >= at.offset

\* A blog has been in the feed since the page began, and the page is past it and has not
\* shown it.
Gap(r) ==
  \E b \in Blogs \ shown[r] : feed[r][b] # 0 /\ feed[r][b] = wanted[r][b] /\ ~Ahead(r, b, scroll[r])

\* However blogs arrive meanwhile, also with equal or older times, a page that scrolls
\* down leaves none out: as long as no blog is pushed again for a second row of the
\* reader, and the page has not shown an answer that came when it had moved on.
OnlyLateAnswersSkip == \A r \in Readers \ (moved \cup skipping) : ~Gap(r)

\* Several blogs have the time at which the page is.
Tie(r) ==
  \E b, c \in Blogs : b # c /\ feed[r][b] = scroll[r].max /\ feed[r][c] = scroll[r].max

\* A reader who scrolls on comes to the end, or repeats the blogs of one millisecond.
ScrollEnds ==
  \A r \in Readers : <>[](Page(r, scroll[r]) = {} \/ Tie(r))
===============================================================================
