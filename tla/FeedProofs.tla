------------------------------ MODULE FeedProofs ------------------------------
(***************************************************************************)
(* Safety of follow and feed for any readers, blogs, threads, page size    *)
(* and number of queries under way.                                        *)
(***************************************************************************)
EXTENDS Feed, FiniteSetTheorems, WellFoundedInduction, TLAPS

-----------------------------------------------------------------------------
\* Types.

Position == [max : Nat, offset : Nat]

AnswerType ==
  [late : BOOLEAN, clear : BOOLEAN, list : SUBSET Blogs, next : Position,
   feed : [Blogs -> Nat]]

RelationType ==
  /\ rows \in [Pairs -> Nat]
  /\ pc \in [Threads -> {"idle", "add", "remove"}]
  /\ pair \in [Threads -> Pairs \cup {None}]

FeedType ==
  /\ now \in Nat
  /\ feed \in [Readers -> [Blogs -> Nat]]
  /\ \A r \in Readers, b \in Blogs : feed[r][b] =< now

PageType ==
  /\ scroll \in [Readers -> Position]
  /\ shown \in [Readers -> SUBSET Blogs]
  /\ wanted \in [Readers -> [Blogs -> Nat]]
  /\ answers \in [Readers -> [Slots -> AnswerType \cup {None}]]

\* Lemma. A set of naturals has its minimum among its members.
LEMMA MinLeast ==
  ASSUME NEW S \in SUBSET Nat, S # {}
  PROVE  Min(S) \in S /\ \A x \in S : Min(S) =< x
<1> DEFINE R == OpToRel(<, Nat)
<1>1. IsWellFoundedOn(R, Nat)
  BY NatLessThanWellFounded
<1> HIDE DEF R
<1>2. PICK x \in S : \A y \in S : <<y, x>> \notin R
  BY <1>1, WFMin
<1>3. \A y \in S : x =< y
  <2> TAKE y \in S
  <2>1. <<y, x>> \notin {ss \in Nat \X Nat : ss[1] < ss[2]}
    BY <1>2 DEF R, OpToRel
  <2> QED  BY <2>1
<1> QED  BY <1>3 DEF Min

-----------------------------------------------------------------------------
\* Places.

\* Lemma. Places are numbers, and of the blogs up to a time every one has one.
LEMMA PlaceType ==
  ASSUME SizesAssumption, NEW r, NEW b, NEW max
  PROVE  /\ Place(r, b, max) \in Nat
         /\ IsFiniteSet({c \in UpTo(r, max) : Before(r, c, b)})
<1>1. {c \in UpTo(r, max) : Before(r, c, b)} \subseteq Blogs
  BY DEF UpTo
<1>2. IsFiniteSet({c \in UpTo(r, max) : Before(r, c, b)})
  BY <1>1, FS_Subset DEF SizesAssumption
<1> QED  BY <1>2, FS_CardinalityType DEF Place

\* Lemma. Of two blogs, the one with the smaller place comes before the other.
LEMMA BeforeByPlace ==
  ASSUME SizesAssumption, FeedType, NEW r \in Readers, NEW b \in Blogs, NEW c \in Blogs,
         NEW max, Place(r, c, max) < Place(r, b, max)
  PROVE  Before(r, c, b)
<1> SUFFICES ASSUME ~Before(r, c, b)
             PROVE  FALSE
  OBVIOUS
<1> DEFINE B == {d \in UpTo(r, max) : Before(r, d, b)}
           C == {d \in UpTo(r, max) : Before(r, d, c)}
<1>1. \A d \in Blogs : Before(r, d, b) => Before(r, d, c)
  <2>1. \A d \in Blogs : feed[r][d] \in Nat /\ d \in Nat
    BY DEF FeedType, SizesAssumption
  <2> QED  BY <2>1 DEF Before
<1>2. B \subseteq C
  BY <1>1 DEF UpTo
<1>3. Cardinality(B) =< Cardinality(C)
  BY <1>2, PlaceType, FS_Subset
<1>4. Place(r, b, max) =< Place(r, c, max)
  BY <1>3 DEF Place
<1>5. Place(r, b, max) \in Nat /\ Place(r, c, max) \in Nat
  BY PlaceType
<1> QED  BY <1>4, <1>5

\* Lemma. Where the answer of a query ends is a place.
LEMMA NextType ==
  ASSUME SizesAssumption, FeedType, NEW r \in Readers, NEW list \in SUBSET Blogs, list # {}
  PROVE  /\ LastScore(r, list) \in Nat
         /\ SameTime(r, list) \in Nat
         /\ \E b \in list : feed[r][b] = LastScore(r, list)
<1> DEFINE scores == {feed[r][b] : b \in list}
<1>1. scores \in SUBSET Nat /\ scores # {}
  <2>1. \A b \in list : feed[r][b] \in Nat
    BY DEF FeedType
  <2>2. PICK b \in list : TRUE
    OBVIOUS
  <2>3. feed[r][b] \in scores
    OBVIOUS
  <2> QED  BY <2>1, <2>3
<1>2. Min(scores) \in scores
  BY <1>1, MinLeast
<1>3. IsFiniteSet({b \in list : feed[r][b] = LastScore(r, list)})
  <2>1. {b \in list : feed[r][b] = LastScore(r, list)} \subseteq Blogs
    OBVIOUS
  <2> QED  BY <2>1, FS_Subset DEF SizesAssumption
<1>4. LastScore(r, list) \in scores
  BY <1>2 DEF LastScore
<1> QED  BY <1>1, <1>3, <1>4, FS_CardinalityType DEF SameTime

\* Lemma. A page that is read at one place and continued at the next leaves no blog
\* out, also when blogs have equal times.
LEMMA PageStep ==
  ASSUME SizesAssumption, FeedType, NEW r \in Readers, NEW from \in Position,
         NEW b \in Blogs, Ahead(r, b, from), NEW list, list = Page(r, from),
         list # {}, b \notin list
  PROVE  Ahead(r, b, [max |-> LastScore(r, list), offset |-> SameTime(r, list)])
<1> DEFINE last == LastScore(r, list)
           same == {c \in list : feed[r][c] = last}
<1>1. list \in SUBSET Blogs /\ list \subseteq UpTo(r, from.max)
  BY DEF Page, UpTo
<1>2. PICK z \in list : feed[r][z] = last
  BY <1>1, NextType
<1>3. \A c \in list : Before(r, c, b)
  <2> TAKE c \in list
  <2>1. /\ Place(r, c, from.max) \in Nat /\ Place(r, b, from.max) \in Nat
        /\ from.offset \in Nat /\ PageSize \in Nat
    BY PlaceType DEF Position, SizesAssumption
  <2>2. Place(r, c, from.max) \in from.offset .. from.offset + PageSize - 1
    BY DEF Page
  <2>3. Place(r, b, from.max) \notin from.offset .. from.offset + PageSize - 1
    BY DEF Page, Ahead
  <2>4. Place(r, b, from.max) >= from.offset
    BY DEF Ahead
  <2>5. Place(r, c, from.max) < Place(r, b, from.max)
    BY <2>1, <2>2, <2>3, <2>4
  <2> QED  BY <1>1, <2>5, BeforeByPlace
<1>4. \A c \in Blogs : feed[r][c] \in Nat
  BY DEF FeedType
<1>5. last \in Nat /\ feed[r][b] =< last
  BY <1>1, <1>2, <1>3, <1>4 DEF Before
<1>6. feed[r][b] \in 1..from.max
  BY DEF Ahead, UpTo
<1>7. from.max \in Nat
  BY DEF Position
<1>8. b \in UpTo(r, last)
  BY <1>4, <1>5, <1>6, <1>7 DEF UpTo
<1>9. same \subseteq {c \in UpTo(r, last) : Before(r, c, b)}
  <2> SUFFICES ASSUME NEW c \in same
               PROVE  c \in UpTo(r, last) /\ Before(r, c, b)
    OBVIOUS
  <2>1. c \in Blogs /\ feed[r][c] = last /\ feed[r][c] \in 1..from.max
    BY <1>1 DEF UpTo
  <2>2. c \in UpTo(r, last)
    BY <2>1, <1>5, <1>7 DEF UpTo
  <2> QED  BY <1>3, <2>2
<1>10. SameTime(r, list) =< Place(r, b, last)
  BY <1>9, PlaceType, FS_Subset DEF SameTime, Place
<1>11. SameTime(r, list) \in Nat /\ Place(r, b, last) \in Nat
  BY <1>1, NextType, PlaceType
<1> QED  BY <1>8, <1>10, <1>11 DEF Ahead

\* Lemma. From the top every blog of the feed is still to come.
LEMMA AllAheadOfTop ==
  ASSUME SizesAssumption, FeedType, NEW r \in Readers, NEW b \in Blogs, feed[r][b] # 0
  PROVE  Ahead(r, b, [max |-> now + 1, offset |-> 0])
<1>1. feed[r][b] \in 1..(now + 1)
  BY DEF FeedType
<1>2. Place(r, b, now + 1) \in Nat
  BY PlaceType
<1> QED  BY <1>1, <1>2 DEF Ahead, UpTo

\* Lemma. A blog that is pushed again at another time counts its reader among moved.
LEMMA FeedAfterPush ==
  ASSUME FeedType, NEW p \in Blogs, NEW q \in Readers, NEW time \in Nat,
         Push(p, q, time), NEW r \in Readers, r \notin moved'
  PROVE  \A c \in Blogs : feed[r][c] # 0 => feed'[r][c] = feed[r][c]
<1>1. feed' = [feed EXCEPT ![q][p] = time]
  BY DEF Push
<1>2. q = r => feed[r][p] \in {0, time}
  BY DEF Push
<1> QED  BY <1>1, <1>2 DEF FeedType

\* Lemma. A blog that arrives moves those that were there only further down.
LEMMA AheadAfterPush ==
  ASSUME SizesAssumption, FeedType, NEW p \in Blogs, NEW q \in Readers, NEW time \in Nat,
         Push(p, q, time), NEW r \in Readers, r \notin moved', NEW b \in Blogs,
         feed[r][b] # 0, NEW at \in Position, Ahead(r, b, at)
  PROVE  Ahead(r, b, at)'
<1>1. \A c \in Blogs : feed[r][c] # 0 => feed'[r][c] = feed[r][c]
  BY FeedAfterPush
<1>2. UpTo(r, at.max) \subseteq UpTo(r, at.max)'
  <2> SUFFICES ASSUME NEW c \in UpTo(r, at.max)
               PROVE  c \in UpTo(r, at.max)'
    OBVIOUS
  <2>1. c \in Blogs /\ feed[r][c] \in 1..at.max
    BY DEF UpTo
  <2>2. feed[r][c] # 0
    BY <2>1 DEF Position
  <2>3. feed'[r][c] = feed[r][c]
    BY <1>1, <2>1, <2>2
  <2> QED  BY <2>1, <2>3 DEF UpTo
<1>3. {c \in UpTo(r, at.max) : Before(r, c, b)}
        \subseteq {c \in UpTo(r, at.max)' : Before(r, c, b)'}
  <2> SUFFICES ASSUME NEW c \in UpTo(r, at.max), Before(r, c, b)
               PROVE  c \in UpTo(r, at.max)' /\ Before(r, c, b)'
    OBVIOUS
  <2>1. feed[r][c] # 0 /\ c \in Blogs
    BY DEF UpTo, Position
  <2>2. feed'[r][c] = feed[r][c] /\ feed'[r][b] = feed[r][b]
    BY <2>1, <1>1
  <2> QED  BY <1>2, <2>2 DEF Before
<1>4. IsFiniteSet({c \in UpTo(r, at.max)' : Before(r, c, b)'})
  <2>1. {c \in UpTo(r, at.max)' : Before(r, c, b)'} \subseteq Blogs
    BY DEF UpTo
  <2> QED  BY <2>1, FS_Subset DEF SizesAssumption
<1>5. /\ Place(r, b, at.max) =< Place(r, b, at.max)'
      /\ Place(r, b, at.max)' \in Nat
  BY <1>3, <1>4, FS_Subset, FS_CardinalityType DEF Place
<1>6. Place(r, b, at.max) \in Nat
  BY PlaceType
<1>7. at.offset \in Nat
  BY DEF Position
<1> QED  BY <1>1, <1>2, <1>5, <1>6, <1>7 DEF Ahead

\* Lemma. As long as the feeds stay, so do the places.
LEMMA AheadSame ==
  ASSUME feed' = feed, NEW r, NEW b, NEW at
  PROVE  Ahead(r, b, at)' <=> Ahead(r, b, at)
BY DEF Ahead, UpTo, Place, Before

-----------------------------------------------------------------------------
\* The page of a reader.

\* Of the blogs that are neither in seen nor new since old, a page at this place has
\* all still to come.
Kept(r, old, seen, at) ==
  \A b \in Blogs \ seen : feed[r][b] # 0 /\ feed[r][b] = old[b] => Ahead(r, b, at)

\* No blog leaves a feed.
Stay(r, old) == \A b \in Blogs : old[b] # 0 => feed[r][b] # 0

\* What an answer that is under way will do to the page.
Fits(r, a) ==
  /\ a.clear => Kept(r, a.feed, a.list, a.next)
  /\ ~a.clear /\ ~a.late /\ r \notin skipping =>
       Kept(r, wanted[r], shown[r] \cup a.list, a.next)

SeenInv ==
  \A r \in Readers :
    /\ Stay(r, wanted[r])
    /\ \A s \in Slots : answers[r][s] # None => Stay(r, answers[r][s].feed)

PlaceInv ==
  \A r \in Readers \ (moved \cup skipping) : Kept(r, wanted[r], shown[r], scroll[r])

AnswerInv ==
  \A r \in Readers \ moved, s \in Slots :
    answers[r][s] # None /\ answers[r][s].list # {} => Fits(r, answers[r][s])

ThreadInv ==
  \A t \in Threads : pc[t] # "idle" =>
    /\ pair[t] \in Pairs
    /\ pair[t] \notin torn =>
         /\ pc[t] = "add" => rows[pair[t]] > 0
         /\ pc[t] = "remove" => rows[pair[t]] = 0
         /\ \A u \in Threads \ {t} : pc[u] = "idle" \/ pair[u] # pair[t]

SetInv ==
  \A p \in Pairs \ torn :
    (\A t \in Threads : pc[t] = "idle" \/ pair[t] # p) => (p \in follows <=> rows[p] > 0)

IInv ==
  /\ RelationType /\ FeedType /\ PageType
  /\ ThreadInv /\ SetInv
  /\ SeenInv /\ PlaceInv /\ AnswerInv

FeedMoves ==
  feed' = feed \/ \E p \in Blogs, q \in Readers, time \in Nat : Push(p, q, time)

\* Lemma. No push takes a blog out of a feed.
LEMMA StayStable ==
  ASSUME FeedType, FeedMoves, NEW r \in Readers, NEW old, Stay(r, old)
  PROVE  Stay(r, old)'
<1>1. CASE feed' = feed
  BY <1>1 DEF Stay
<1>2. ASSUME NEW p \in Blogs, NEW q \in Readers, NEW time \in Nat, Push(p, q, time)
      PROVE  Stay(r, old)'
  <2>1. feed' = [feed EXCEPT ![q][p] = time] /\ time # 0
    BY <1>2 DEF Push
  <2>2. \A b \in Blogs : feed[r][b] # 0 => feed'[r][b] # 0
    BY <2>1 DEF FeedType
  <2> QED  BY <2>2 DEF Stay
<1> QED  BY <1>1, <1>2 DEF FeedMoves

\* Lemma. What a page has still to come, it has after a push.
LEMMA KeptStable ==
  ASSUME SizesAssumption, FeedType, FeedMoves, NEW r \in Readers, r \notin moved',
         NEW old, NEW seen, NEW at \in Position, Stay(r, old), Kept(r, old, seen, at)
  PROVE  Kept(r, old, seen, at)'
<1> SUFFICES ASSUME NEW b \in Blogs \ seen, feed'[r][b] # 0, feed'[r][b] = old[b]
             PROVE  Ahead(r, b, at)'
  BY DEF Kept
<1>1. CASE feed' = feed
  BY <1>1, AheadSame DEF Kept
<1>2. ASSUME NEW p \in Blogs, NEW q \in Readers, NEW time \in Nat, Push(p, q, time)
      PROVE  Ahead(r, b, at)'
  <2>1. feed[r][b] # 0
    BY DEF Stay
  <2>2. feed'[r][b] = feed[r][b]
    BY <1>2, <2>1, FeedAfterPush
  <2>3. Ahead(r, b, at)
    BY <2>1, <2>2 DEF Kept
  <2> QED  BY <1>2, <2>1, <2>3, AheadAfterPush
<1> QED  BY <1>1, <1>2 DEF FeedMoves

\* Lemma. Steps outside the page, pushes included, keep the parts about the page.
LEMMA OutsideStep ==
  ASSUME SizesAssumption, FeedType, PageType, SeenInv, PlaceInv, AnswerInv, FeedMoves,
         moved \subseteq moved', UNCHANGED <<history, scroll, shown, answers>>
  PROVE  SeenInv' /\ PlaceInv' /\ AnswerInv'
<1>0. UNCHANGED <<wanted, skipping, scroll, shown, answers>>
  BY DEF history
<1>1. SeenInv'
  <2>1. ASSUME NEW r \in Readers  PROVE Stay(r, wanted[r])'
    <3>1. Stay(r, wanted[r])
      BY DEF SeenInv
    <3> QED  BY <1>0, <3>1, StayStable
  <2>2. ASSUME NEW r \in Readers, NEW s \in Slots, answers[r][s] # None
        PROVE  Stay(r, answers[r][s].feed)'
    <3>1. Stay(r, answers[r][s].feed)
      BY <2>2 DEF SeenInv
    <3> QED  BY <1>0, <3>1, StayStable
  <2> QED  BY <1>0, <2>1, <2>2 DEF SeenInv
<1>2. PlaceInv'
  <2> SUFFICES ASSUME NEW r \in Readers, r \notin moved', r \notin skipping
               PROVE  Kept(r, wanted[r], shown[r], scroll[r])'
    BY <1>0 DEF PlaceInv
  <2>1. Kept(r, wanted[r], shown[r], scroll[r]) /\ Stay(r, wanted[r])
    BY DEF PlaceInv, SeenInv
  <2>2. scroll[r] \in Position
    BY DEF PageType
  <2> QED  BY <1>0, <2>1, <2>2, KeptStable
<1>3. AnswerInv'
  <2> SUFFICES ASSUME NEW r \in Readers, r \notin moved', NEW s \in Slots,
                      answers[r][s] # None, answers[r][s].list # {}
               PROVE  Fits(r, answers[r][s])'
    BY <1>0 DEF AnswerInv
  <2> DEFINE a == answers[r][s]
  <2>1. a.next \in Position
    BY DEF PageType, AnswerType
  <2>2. Fits(r, a) /\ Stay(r, a.feed) /\ Stay(r, wanted[r])
    BY DEF AnswerInv, SeenInv
  <2>3. a.clear => Kept(r, a.feed, a.list, a.next)'
    <3>1. a.clear => Kept(r, a.feed, a.list, a.next)
      BY <2>2 DEF Fits
    <3> QED  BY <1>0, <2>1, <2>2, <3>1, KeptStable
  <2>4. ~a.clear /\ ~a.late /\ r \notin skipping =>
          Kept(r, wanted[r], shown[r] \cup a.list, a.next)'
    <3>1. ~a.clear /\ ~a.late /\ r \notin skipping =>
            Kept(r, wanted[r], shown[r] \cup a.list, a.next)
      BY <2>2 DEF Fits
    <3> QED  BY <1>0, <2>1, <2>2, <3>1, KeptStable
  <2> QED  BY <1>0, <2>3, <2>4 DEF Fits
<1> QED  BY <1>1, <1>2, <1>3

\* Lemma. An answer is well formed and tells the place that follows its blogs.
LEMMA AnswerFacts ==
  ASSUME SizesAssumption, FeedType, NEW r \in Readers, NEW from \in Position,
         NEW clear \in BOOLEAN, NEW a, a = Answer(r, from, clear)
  PROVE  /\ a \in AnswerType /\ ~a.late /\ a.clear = clear /\ Stay(r, a.feed)
         /\ clear => a.feed = feed[r]
         /\ a.list # {} =>
              \A b \in Blogs \ a.list : Ahead(r, b, from) => Ahead(r, b, a.next)
<1> DEFINE list == Page(r, from)
           next == IF list = {} THEN Unasked
                   ELSE [max |-> LastScore(r, list), offset |-> SameTime(r, list)]
           old  == IF clear THEN feed[r] ELSE Empty
<1>1. a = [late |-> FALSE, clear |-> clear, list |-> list, next |-> next, feed |-> old]
  BY DEF Answer
<1>2. list \in SUBSET Blogs
  BY DEF Page, UpTo
<1>3. next \in Position
  <2>1. list # {} => LastScore(r, list) \in Nat /\ SameTime(r, list) \in Nat
    BY <1>2, NextType
  <2> HIDE DEF list
  <2> QED  BY <2>1 DEF Unasked, Position
<1>4. old \in [Blogs -> Nat] /\ Stay(r, old)
  BY DEF FeedType, Empty, Stay
<1>5. list # {} => \A b \in Blogs \ list : Ahead(r, b, from) => Ahead(r, b, next)
  <2> SUFFICES ASSUME list # {}, NEW b \in Blogs \ list, Ahead(r, b, from)
               PROVE  Ahead(r, b, next)
    OBVIOUS
  <2>1. Ahead(r, b, [max |-> LastScore(r, list), offset |-> SameTime(r, list)])
    BY PageStep
  <2> QED  BY <2>1
<1> HIDE DEF list, next, old
<1>6. a \in AnswerType
  BY <1>1, <1>2, <1>3, <1>4 DEF AnswerType
<1>7. a.list = list /\ a.next = next /\ a.feed = old /\ a.clear = clear /\ a.late = FALSE
  BY <1>1
<1>8. clear => old = feed[r]
  BY DEF old
<1> QED  BY <1>4, <1>5, <1>6, <1>7, <1>8

\* Lemma. Answers that become late stay what they are otherwise.
LEMMA LateFacts ==
  ASSUME PageType, NEW r \in Readers
  PROVE  /\ Late(r) \in [Slots -> AnswerType \cup {None}]
         /\ \A s \in Slots : Late(r)[s] # None =>
              /\ answers[r][s] # None
              /\ Late(r)[s] \in AnswerType /\ Late(r)[s].late
              /\ Late(r)[s].clear = answers[r][s].clear
              /\ Late(r)[s].list = answers[r][s].list
              /\ Late(r)[s].next = answers[r][s].next
              /\ Late(r)[s].feed = answers[r][s].feed
<1>1. ASSUME NEW s \in Slots
      PROVE  /\ Late(r)[s] \in AnswerType \cup {None}
             /\ Late(r)[s] # None =>
                  /\ answers[r][s] # None
                  /\ Late(r)[s] \in AnswerType /\ Late(r)[s].late
                  /\ Late(r)[s].clear = answers[r][s].clear
                  /\ Late(r)[s].list = answers[r][s].list
                  /\ Late(r)[s].next = answers[r][s].next
                  /\ Late(r)[s].feed = answers[r][s].feed
  <2>1. CASE answers[r][s] = None
    BY <2>1 DEF Late
  <2>2. CASE answers[r][s] # None
    <3> DEFINE a == answers[r][s]
    <3>1. a \in AnswerType
      BY <2>2 DEF PageType
    <3>2. Late(r)[s] = [a EXCEPT !.late = TRUE]
      BY <2>2 DEF Late
    <3> HIDE DEF a
    <3>3. [a EXCEPT !.late = TRUE] \in AnswerType
      BY <3>1 DEF AnswerType
    <3>4. /\ [a EXCEPT !.late = TRUE].late
          /\ [a EXCEPT !.late = TRUE].clear = a.clear
          /\ [a EXCEPT !.late = TRUE].list = a.list
          /\ [a EXCEPT !.late = TRUE].next = a.next
          /\ [a EXCEPT !.late = TRUE].feed = a.feed
      BY <3>1 DEF AnswerType
    <3>5. a # None
      BY <2>2 DEF a
    <3> QED  BY <3>2, <3>3, <3>4, <3>5 DEF a
  <2> QED  BY <2>1, <2>2
<1>2. Late(r) = [s \in Slots |-> Late(r)[s]]
  BY DEF Late
<1> QED  BY <1>1, <1>2

\* Lemma. Where only the page moves, blogs are as far ahead as before.
LEMMA KeptSame ==
  ASSUME feed' = feed, NEW r, NEW old, NEW seen, NEW at
  PROVE  /\ Kept(r, old, seen, at)' <=> Kept(r, old, seen, at)
         /\ Stay(r, old)' <=> Stay(r, old)
BY AheadSame DEF Kept, Stay

\* Lemma. The parts about the page, for a step that leaves the feeds and what the other
\* readers see alone: it is enough that they hold of one reader.
LEMMA OwnPage ==
  ASSUME PageType, SeenInv, PlaceInv, AnswerInv, NEW r \in Readers,
         feed' = feed, moved' = moved, skipping' \ {r} = skipping \ {r},
         \A q \in Readers \ {r} :
           /\ scroll'[q] = scroll[q] /\ shown'[q] = shown[q] /\ wanted'[q] = wanted[q]
           /\ answers'[q] = answers[q],
         Stay(r, wanted'[r]),
         r \notin moved \cup skipping' => Kept(r, wanted'[r], shown'[r], scroll'[r]),
         \A s \in Slots : answers'[r][s] # None =>
           /\ Stay(r, answers'[r][s].feed)
           /\ r \notin moved /\ answers'[r][s].list # {} =>
                /\ answers'[r][s].clear =>
                     Kept(r, answers'[r][s].feed, answers'[r][s].list, answers'[r][s].next)
                /\ ~answers'[r][s].clear /\ ~answers'[r][s].late /\ r \notin skipping' =>
                     Kept(r, wanted'[r], shown'[r] \cup answers'[r][s].list,
                          answers'[r][s].next)
  PROVE  SeenInv' /\ PlaceInv' /\ AnswerInv'
<1>1. SeenInv'
  <2> SUFFICES ASSUME NEW q \in Readers
               PROVE  /\ Stay(q, wanted'[q])
                      /\ \A s \in Slots :
                           answers'[q][s] # None => Stay(q, answers'[q][s].feed)
    BY KeptSame DEF SeenInv
  <2> QED  BY DEF SeenInv
<1>2. PlaceInv'
  <2> SUFFICES ASSUME NEW q \in Readers \ (moved \cup skipping')
               PROVE  Kept(q, wanted'[q], shown'[q], scroll'[q])
    BY KeptSame DEF PlaceInv
  <2>1. q # r => q \notin skipping
    OBVIOUS
  <2> QED  BY <2>1 DEF PlaceInv
<1>3. AnswerInv'
  <2> SUFFICES ASSUME NEW q \in Readers \ moved, NEW s \in Slots,
                      answers'[q][s] # None, answers'[q][s].list # {}
               PROVE  /\ answers'[q][s].clear =>
                           Kept(q, answers'[q][s].feed, answers'[q][s].list,
                                answers'[q][s].next)
                      /\ ~answers'[q][s].clear /\ ~answers'[q][s].late
                           /\ q \notin skipping' =>
                           Kept(q, wanted'[q], shown'[q] \cup answers'[q][s].list,
                                answers'[q][s].next)
    BY KeptSame DEF AnswerInv, Fits
  <2>1. CASE q = r
    BY <2>1
  <2>2. CASE q # r
    <3>1. Fits(q, answers[q][s])
      BY <2>2 DEF AnswerInv
    <3>2. q \in skipping' <=> q \in skipping
      BY <2>2
    <3> QED  BY <2>2, <3>1, <3>2 DEF Fits
  <2> QED  BY <2>1, <2>2
<1> QED  BY <1>1, <1>2, <1>3

\* Lemma. The page begins at the top: everything in the feed is to come, and the answers
\* under way are late.
LEMMA AskFirstStep ==
  ASSUME SizesAssumption, FeedType, PageType, SeenInv, PlaceInv, AnswerInv,
         NEW r \in Readers, NEW s \in Slots, AskFirst(r, s)
  PROVE  PageType' /\ SeenInv' /\ PlaceInv' /\ AnswerInv'
<1> DEFINE top == [max |-> now + 1, offset |-> 0]
<1>1. PICK a : a = Answer(r, top, TRUE)
  OBVIOUS
<1>2. /\ scroll' = [scroll EXCEPT ![r] = top]
      /\ answers' = [answers EXCEPT ![r] = [Late(r) EXCEPT ![s] = a]]
      /\ skipping' = skipping \ {r}
      /\ UNCHANGED <<feed, moved, wanted, shown>>
  BY <1>1 DEF AskFirst, Ask, publishing
<1>3. top \in Position
  BY DEF Position, FeedType
<1>4. /\ a \in AnswerType /\ a.clear /\ Stay(r, a.feed)
      /\ a.list # {} => \A b \in Blogs \ a.list : Ahead(r, b, top) => Ahead(r, b, a.next)
  <2> HIDE DEF top
  <2>1. TRUE \in BOOLEAN
    OBVIOUS
  <2> QED  BY <1>1, <1>3, <2>1, AnswerFacts
<1>5. \A b \in Blogs : feed[r][b] # 0 => Ahead(r, b, top)
  BY AllAheadOfTop
<1> HIDE DEF top
<1>6. a.list # {} => Kept(r, a.feed, a.list, a.next)
  BY <1>4, <1>5 DEF Kept
<1>7. Kept(r, wanted[r], shown[r], top)
  BY <1>5 DEF Kept
<1>8. PageType'
  BY <1>2, <1>3, <1>4, LateFacts DEF PageType
<1>9. /\ \A q \in Readers \ {r} : scroll'[q] = scroll[q] /\ answers'[q] = answers[q]
      /\ scroll'[r] = top
      /\ answers'[r] = [Late(r) EXCEPT ![s] = a]
  BY <1>2 DEF PageType
<1>10. answers'[r][s] = a /\ \A q \in Slots \ {s} : answers'[r][q] = Late(r)[q]
  BY <1>9, LateFacts
<1>11. ASSUME NEW q \in Slots, q # s, answers'[r][q] # None
       PROVE  /\ Stay(r, answers'[r][q].feed) /\ answers'[r][q].late
              /\ r \notin moved /\ answers'[r][q].list # {} /\ answers'[r][q].clear =>
                   Kept(r, answers'[r][q].feed, answers'[r][q].list, answers'[r][q].next)
  <2>1. /\ answers[r][q] # None
        /\ answers'[r][q].late
        /\ answers'[r][q].clear = answers[r][q].clear
        /\ answers'[r][q].list = answers[r][q].list
        /\ answers'[r][q].next = answers[r][q].next
        /\ answers'[r][q].feed = answers[r][q].feed
    BY <1>10, <1>11, LateFacts
  <2> QED  BY <2>1 DEF SeenInv, AnswerInv, Fits
<1>12. Stay(r, wanted[r])
  BY DEF SeenInv
<1>13. ASSUME NEW q \in Slots, answers'[r][q] # None
       PROVE  /\ Stay(r, answers'[r][q].feed)
              /\ r \notin moved /\ answers'[r][q].list # {} =>
                   /\ answers'[r][q].clear =>
                        Kept(r, answers'[r][q].feed, answers'[r][q].list,
                             answers'[r][q].next)
                   /\ ~answers'[r][q].clear /\ ~answers'[r][q].late /\ r \notin skipping' =>
                        Kept(r, wanted'[r], shown'[r] \cup answers'[r][q].list,
                             answers'[r][q].next)
  <2>1. CASE q = s
    BY <2>1, <1>4, <1>6, <1>10
  <2>2. CASE q # s
    BY <2>2, <1>11, <1>13
  <2> QED  BY <2>1, <2>2
<1>14. Kept(r, wanted'[r], shown'[r], scroll'[r]) /\ Stay(r, wanted'[r])
  BY <1>2, <1>7, <1>9, <1>12
<1>15. /\ \A q \in Readers \ {r} :
            /\ scroll'[q] = scroll[q] /\ shown'[q] = shown[q] /\ wanted'[q] = wanted[q]
            /\ answers'[q] = answers[q]
       /\ feed' = feed /\ moved' = moved /\ skipping' \ {r} = skipping \ {r}
  BY <1>2, <1>9
<1>16. SeenInv' /\ PlaceInv' /\ AnswerInv'
  BY <1>13, <1>14, <1>15, OwnPage
<1> QED  BY <1>8, <1>16

\* Lemma. The page asks for what follows its place.
LEMMA AskNextStep ==
  ASSUME SizesAssumption, FeedType, PageType, SeenInv, PlaceInv, AnswerInv,
         NEW r \in Readers, NEW s \in Slots, AskNext(r, s)
  PROVE  PageType' /\ SeenInv' /\ PlaceInv' /\ AnswerInv'
<1>1. PICK a : a = Answer(r, scroll[r], FALSE)
  OBVIOUS
<1>2. /\ scroll' = [scroll EXCEPT ![r] = scroll[r]]
      /\ answers' = [answers EXCEPT ![r] = [answers[r] EXCEPT ![s] = a]]
      /\ UNCHANGED <<skipping, feed, moved, wanted, shown>>
  BY <1>1 DEF AskNext, Ask, publishing
<1>3. scroll' = scroll /\ scroll[r] \in Position
  BY <1>2 DEF PageType
<1>4. /\ a \in AnswerType /\ ~a.clear /\ Stay(r, a.feed)
      /\ a.list # {} =>
           \A b \in Blogs \ a.list : Ahead(r, b, scroll[r]) => Ahead(r, b, a.next)
  BY <1>1, <1>3, AnswerFacts
<1>5. r \notin moved \cup skipping => Kept(r, wanted[r], shown[r], scroll[r])
  BY DEF PlaceInv
<1>6. a.list # {} /\ r \notin moved \cup skipping =>
        Kept(r, wanted[r], shown[r] \cup a.list, a.next)
  BY <1>4, <1>5 DEF Kept
<1>7. PageType'
  BY <1>2, <1>3, <1>4 DEF PageType
<1>8. /\ \A q \in Readers \ {r} : answers'[q] = answers[q]
      /\ answers'[r][s] = a /\ \A q \in Slots \ {s} : answers'[r][q] = answers[r][q]
  BY <1>2 DEF PageType
<1>9. ASSUME NEW q \in Slots, answers[r][q] # None
      PROVE  /\ Stay(r, answers[r][q].feed)
             /\ r \notin moved /\ answers[r][q].list # {} => Fits(r, answers[r][q])
  BY <1>9 DEF SeenInv, AnswerInv
<1>10. Stay(r, wanted[r])
  BY DEF SeenInv
<1>11. ASSUME NEW q \in Slots, answers'[r][q] # None
       PROVE  /\ Stay(r, answers'[r][q].feed)
              /\ r \notin moved /\ answers'[r][q].list # {} =>
                   /\ answers'[r][q].clear =>
                        Kept(r, answers'[r][q].feed, answers'[r][q].list,
                             answers'[r][q].next)
                   /\ ~answers'[r][q].clear /\ ~answers'[r][q].late /\ r \notin skipping =>
                        Kept(r, wanted[r], shown[r] \cup answers'[r][q].list,
                             answers'[r][q].next)
  <2>1. CASE q = s
    BY <2>1, <1>4, <1>6, <1>8
  <2>2. CASE q # s
    <3>1. answers'[r][q] = answers[r][q]
      BY <2>2, <1>8
    <3> QED  BY <3>1, <1>9, <1>11 DEF Fits
  <2> QED  BY <2>1, <2>2
<1>12. SeenInv' /\ PlaceInv' /\ AnswerInv'
  BY <1>2, <1>3, <1>5, <1>8, <1>10, <1>11, OwnPage
<1> QED  BY <1>7, <1>12

\* Lemma. An answer with blogs moves the page; the others under way are late.
LEMMA ShowStep ==
  ASSUME SizesAssumption, FeedType, PageType, SeenInv, PlaceInv, AnswerInv,
         NEW r \in Readers, NEW s \in Slots, Show(r, s)
  PROVE  PageType' /\ SeenInv' /\ PlaceInv' /\ AnswerInv'
<1>1. PICK a : a = answers[r][s]
  OBVIOUS
<1>2. /\ a # None /\ a.list # {}
      /\ scroll' = [scroll EXCEPT ![r] = a.next]
      /\ shown' = [shown EXCEPT ![r] = IF a.clear THEN a.list ELSE shown[r] \cup a.list]
      /\ wanted' = [wanted EXCEPT ![r] = IF a.clear THEN a.feed ELSE wanted[r]]
      /\ skipping' = IF a.clear THEN skipping \ {r}
                     ELSE IF a.late THEN skipping \cup {r} ELSE skipping
      /\ answers' = [answers EXCEPT ![r] = [Late(r) EXCEPT ![s] = None]]
      /\ UNCHANGED <<feed, moved>>
  BY <1>1 DEF Show, publishing
<1>3. a \in AnswerType
  BY <1>1, <1>2 DEF PageType
<1>4. a.next \in Position /\ a.list \in SUBSET Blogs /\ a.feed \in [Blogs -> Nat]
  BY <1>3 DEF AnswerType
<1>5. Stay(r, a.feed) /\ Stay(r, wanted[r]) /\ (r \notin moved => Fits(r, a))
  BY <1>1, <1>2 DEF SeenInv, AnswerInv
<1>6. PageType'
  BY <1>2, <1>4, LateFacts DEF PageType
<1>7. /\ \A q \in Readers \ {r} :
           /\ scroll'[q] = scroll[q] /\ shown'[q] = shown[q] /\ wanted'[q] = wanted[q]
           /\ answers'[q] = answers[q]
      /\ scroll'[r] = a.next
      /\ shown'[r] = IF a.clear THEN a.list ELSE shown[r] \cup a.list
      /\ wanted'[r] = IF a.clear THEN a.feed ELSE wanted[r]
      /\ answers'[r] = [Late(r) EXCEPT ![s] = None]
  BY <1>2 DEF PageType
<1>8. answers'[r][s] = None /\ \A q \in Slots \ {s} : answers'[r][q] = Late(r)[q]
  BY <1>7, LateFacts
<1>9. Stay(r, wanted'[r])
  BY <1>5, <1>7
<1>10. r \notin moved \cup skipping' => Kept(r, wanted'[r], shown'[r], scroll'[r])
  <2>1. CASE a.clear
    BY <2>1, <1>5, <1>7 DEF Fits
  <2>2. CASE ~a.clear
    BY <2>2, <1>2, <1>5, <1>7 DEF Fits
  <2> QED  BY <2>1, <2>2
<1>11. ASSUME NEW q \in Slots, answers'[r][q] # None
       PROVE  /\ Stay(r, answers'[r][q].feed) /\ answers'[r][q].late
              /\ r \notin moved /\ answers'[r][q].list # {} /\ answers'[r][q].clear =>
                   Kept(r, answers'[r][q].feed, answers'[r][q].list, answers'[r][q].next)
  <2>1. /\ answers[r][q] # None
        /\ answers'[r][q].late
        /\ answers'[r][q].clear = answers[r][q].clear
        /\ answers'[r][q].list = answers[r][q].list
        /\ answers'[r][q].next = answers[r][q].next
        /\ answers'[r][q].feed = answers[r][q].feed
    BY <1>8, <1>11, LateFacts
  <2> QED  BY <2>1 DEF SeenInv, AnswerInv, Fits
<1>12. skipping' \ {r} = skipping \ {r}
  BY <1>2
<1>13. SeenInv' /\ PlaceInv' /\ AnswerInv'
  BY <1>2, <1>7, <1>9, <1>10, <1>11, <1>12, OwnPage
<1> QED  BY <1>6, <1>13

\* Lemma. An answer is gone and the page stays.
LEMMA DismissStep ==
  ASSUME SizesAssumption, FeedType, PageType, SeenInv, PlaceInv, AnswerInv,
         NEW r \in Readers, NEW s \in Slots, Dismiss(r, s)
  PROVE  PageType' /\ SeenInv' /\ PlaceInv' /\ AnswerInv'
<1>1. /\ answers' = [answers EXCEPT ![r][s] = None]
      /\ UNCHANGED <<feed, moved, wanted, skipping, scroll, shown>>
  BY DEF Dismiss, publishing, history
<1>2. PageType'
  BY <1>1 DEF PageType
<1>3. /\ \A q \in Readers \ {r} : answers'[q] = answers[q]
      /\ answers'[r][s] = None /\ \A q \in Slots \ {s} : answers'[r][q] = answers[r][q]
  BY <1>1 DEF PageType
<1>4. ASSUME NEW q \in Slots, answers'[r][q] # None
      PROVE  /\ answers'[r][q] = answers[r][q]
             /\ Stay(r, answers'[r][q].feed)
             /\ r \notin moved /\ answers'[r][q].list # {} => Fits(r, answers'[r][q])
  BY <1>3, <1>4 DEF SeenInv, AnswerInv
<1>5. Stay(r, wanted[r]) /\ (r \notin moved \cup skipping =>
        Kept(r, wanted[r], shown[r], scroll[r]))
  BY DEF SeenInv, PlaceInv
<1>6. ASSUME NEW q \in Slots, answers'[r][q] # None
      PROVE  /\ Stay(r, answers'[r][q].feed)
             /\ r \notin moved /\ answers'[r][q].list # {} =>
                  /\ answers'[r][q].clear =>
                       Kept(r, answers'[r][q].feed, answers'[r][q].list, answers'[r][q].next)
                  /\ ~answers'[r][q].clear /\ ~answers'[r][q].late /\ r \notin skipping =>
                       Kept(r, wanted[r], shown[r] \cup answers'[r][q].list,
                            answers'[r][q].next)
  BY <1>4, <1>6 DEF Fits
<1>7. SeenInv' /\ PlaceInv' /\ AnswerInv'
  BY <1>1, <1>3, <1>5, <1>6, OwnPage
<1> QED  BY <1>2, <1>7

-----------------------------------------------------------------------------
\* Requests to follow and to unfollow.

\* Lemma. A request that begins next to another one marks its pair as torn.
LEMMA BeginStep ==
  ASSUME RelationType, ThreadInv, SetInv, NEW t \in Threads, NEW p \in Pairs,
         NEW n \in Nat, NEW step \in {"add", "remove"},
         pc[t] = "idle", rows' = [rows EXCEPT ![p] = n], follows' = follows,
         (step = "add" /\ n > 0) \/ (step = "remove" /\ n = 0),
         Begin(t, p, step)
  PROVE  RelationType' /\ ThreadInv' /\ SetInv'
<1>1. /\ pc' = [pc EXCEPT ![t] = step] /\ pair' = [pair EXCEPT ![t] = p]
      /\ torn \subseteq torn'
      /\ p \notin torn' => \A u \in Threads : pair[u] # p
  BY DEF Begin, Busy
<1>2. RelationType'
  BY <1>1 DEF RelationType
<1>3. ThreadInv'
  <2> SUFFICES ASSUME NEW u \in Threads, pc'[u] # "idle"
               PROVE  /\ pair'[u] \in Pairs
                      /\ pair'[u] \notin torn' =>
                           /\ pc'[u] = "add" => rows'[pair'[u]] > 0
                           /\ pc'[u] = "remove" => rows'[pair'[u]] = 0
                           /\ \A v \in Threads \ {u} : pc'[v] = "idle" \/ pair'[v] # pair'[u]
    BY DEF ThreadInv
  <2>1. CASE u = t
    <3>1. pair'[u] = p /\ pc'[u] = step /\ rows'[p] = n
      BY <1>1, <2>1 DEF RelationType
    <3>2. \A v \in Threads \ {u} : pair'[v] = pair[v]
      BY <1>1, <2>1 DEF RelationType
    <3> QED  BY <1>1, <3>1, <3>2
  <2>2. CASE u # t
    <3>1. pc'[u] = pc[u] /\ pair'[u] = pair[u] /\ pair'[t] = p
      BY <1>1, <2>2 DEF RelationType
    <3>2. pair[u] \in Pairs
      BY <3>1 DEF ThreadInv
    <3>3. CASE pair[u] = p
      BY <1>1, <3>1, <3>2, <3>3
    <3>4. CASE pair[u] # p
      <4>1. rows'[pair[u]] = rows[pair[u]]
        BY <3>2, <3>4 DEF RelationType
      <4>2. \A v \in Threads \ {t} : pc'[v] = pc[v] /\ pair'[v] = pair[v]
        BY <1>1 DEF RelationType
      <4> QED  BY <1>1, <3>1, <3>2, <3>4, <4>1, <4>2 DEF ThreadInv
    <3> QED  BY <3>3, <3>4
  <2> QED  BY <2>1, <2>2
<1>4. SetInv'
  <2> SUFFICES ASSUME NEW q \in Pairs, q \notin torn',
                      \A u \in Threads : pc'[u] = "idle" \/ pair'[u] # q
               PROVE  q \in follows <=> rows'[q] > 0
    BY DEF SetInv
  <2>1. q # p
    BY <1>1 DEF RelationType
  <2>2. \A u \in Threads : pc[u] = "idle" \/ pair[u] # q
    BY <1>1 DEF RelationType
  <2>3. rows'[q] = rows[q]
    BY <2>1 DEF RelationType
  <2> QED  BY <1>1, <2>2, <2>3 DEF SetInv
<1> QED  BY <1>2, <1>3, <1>4

\* Lemma. A request that ends: the set follows the rows, or the pair is torn.
LEMMA ReturnStep ==
  ASSUME RelationType, ThreadInv, SetInv, NEW t \in Threads,
         pc[t] # "idle", rows' = rows, Return(t),
         \/ torn' = torn /\ follows' = IF pc[t] = "add" THEN follows \cup {pair[t]}
                                       ELSE follows \ {pair[t]}
         \/ torn' = torn \cup {pair[t]} /\ follows' = follows
  PROVE  RelationType' /\ ThreadInv' /\ SetInv'
<1>1. pc' = [pc EXCEPT ![t] = "idle"] /\ pair' = [pair EXCEPT ![t] = None]
  BY DEF Return
<1>2. RelationType'
  BY <1>1 DEF RelationType
<1>3. \A u \in Threads : pc'[u] # "idle" =>
        u # t /\ pc'[u] = pc[u] /\ pair'[u] = pair[u]
  BY <1>1 DEF RelationType
<1>4. ThreadInv'
  BY <1>3 DEF ThreadInv
<1>5. SetInv'
  <2> SUFFICES ASSUME NEW q \in Pairs, q \notin torn',
                      \A u \in Threads : pc'[u] = "idle" \/ pair'[u] # q
               PROVE  q \in follows' <=> rows[q] > 0
    BY DEF SetInv
  <2>1. \A u \in Threads \ {t} : pc'[u] = pc[u] /\ pair'[u] = pair[u]
    BY <1>1 DEF RelationType
  <2>2. CASE q = pair[t]
    <3>1. torn' = torn /\ q \notin torn
      BY <2>2
    <3>2. follows' = IF pc[t] = "add" THEN follows \cup {q} ELSE follows \ {q}
      BY <2>2, <3>1
    <3>3. pc[t] \in {"add", "remove"} /\ rows[q] \in Nat
      BY DEF RelationType
    <3>4. /\ pc[t] = "add" => rows[q] > 0
          /\ pc[t] = "remove" => rows[q] = 0
      BY <2>2, <3>1 DEF ThreadInv
    <3> QED  BY <3>2, <3>3, <3>4
  <2>3. CASE q # pair[t]
    <3>1. \A u \in Threads : pc[u] = "idle" \/ pair[u] # q
      BY <2>1, <2>3
    <3>2. q \in follows' <=> q \in follows
      BY <2>3
    <3> QED  BY <3>1, <3>2 DEF SetInv
  <2> QED  BY <2>2, <2>3
<1> QED  BY <1>2, <1>4, <1>5

\* Lemma. The four steps of the requests.
LEMMA FollowStep ==
  ASSUME RelationType, ThreadInv, SetInv, NEW t \in Threads,
         \/ \E p \in Pairs : SaveFollow(t, p) \/ RemoveFollow(t, p)
         \/ ChangeSet(t) \/ ChangeSetFails(t)
  PROVE  RelationType' /\ ThreadInv' /\ SetInv'
<1>1. ASSUME NEW p \in Pairs, SaveFollow(t, p)
      PROVE  RelationType' /\ ThreadInv' /\ SetInv'
  <2>1. rows[p] + 1 \in Nat /\ rows[p] + 1 > 0
    BY DEF RelationType
  <2>2. /\ pc[t] = "idle" /\ rows' = [rows EXCEPT ![p] = rows[p] + 1]
        /\ follows' = follows /\ Begin(t, p, "add")
    BY <1>1 DEF SaveFollow
  <2> QED  BY <2>1, <2>2, BeginStep
<1>2. ASSUME NEW p \in Pairs, RemoveFollow(t, p)
      PROVE  RelationType' /\ ThreadInv' /\ SetInv'
  <2>1. /\ pc[t] = "idle" /\ rows' = [rows EXCEPT ![p] = 0]
        /\ follows' = follows /\ Begin(t, p, "remove")
    BY <1>2 DEF RemoveFollow, Removed
  <2> QED  BY <2>1, BeginStep
<1>3. CASE ChangeSet(t)
  BY <1>3, ReturnStep DEF ChangeSet
<1>4. CASE ChangeSetFails(t)
  BY <1>4, ReturnStep DEF ChangeSetFails
<1> QED  BY <1>1, <1>2, <1>3, <1>4

-----------------------------------------------------------------------------
\* The invariant.

LEMMA InitInv ==
  ASSUME SizesAssumption, Init
  PROVE  IInv
<1>1. RelationType /\ FeedType
  BY DEF Init, RelationType, FeedType, SizesAssumption, Pairs, Empty
<1>2. PageType
  BY DEF Init, PageType, Empty, Unasked, Position
<1>3. ThreadInv
  BY DEF Init, ThreadInv
<1>4. SetInv
  BY DEF Init, SetInv
<1>5. SeenInv /\ AnswerInv
  BY DEF Init, SeenInv, Stay, Empty, AnswerInv
<1>6. PlaceInv
  BY DEF Init, PlaceInv, Kept, Empty
<1> QED  BY <1>1, <1>2, <1>3, <1>4, <1>5, <1>6 DEF IInv

\* Lemma. What the requests have is theirs alone.
LEMMA RelationSame ==
  ASSUME RelationType, ThreadInv, SetInv, UNCHANGED relation
  PROVE  RelationType' /\ ThreadInv' /\ SetInv'
BY DEF relation, RelationType, ThreadInv, SetInv

LEMMA FeedSame ==
  ASSUME FeedType, UNCHANGED <<now, feed>>
  PROVE  FeedType'
BY DEF FeedType

LEMMA PageSame ==
  ASSUME PageType, UNCHANGED <<wanted, scroll, shown, answers>>
  PROVE  PageType'
BY DEF PageType

\* Lemma. The invariant is inductive.
LEMMA NextInv ==
  ASSUME SizesAssumption, IInv, [Next]_vars
  PROVE  IInv'
<1> USE DEF IInv
<1> DEFINE Relation == RelationType /\ ThreadInv /\ SetInv
           PageInv  == SeenInv /\ PlaceInv /\ AnswerInv
<1>1. ASSUME NEW t \in Threads,
             \/ \E p \in Pairs : SaveFollow(t, p) \/ RemoveFollow(t, p)
             \/ ChangeSet(t) \/ ChangeSetFails(t)
      PROVE  IInv'
  <2>1. Relation'
    BY <1>1, FollowStep
  <2>2. UNCHANGED <<now, publishing, feed, history, page>>
    BY <1>1 DEF SaveFollow, RemoveFollow, ChangeSet, ChangeSetFails
  <2>3. UNCHANGED <<now, moved, feed, history, wanted, scroll, shown, answers>>
    BY <2>2 DEF publishing, history, page
  <2>4. FeedType' /\ PageType'
    BY <2>3, FeedSame, PageSame
  <2>5. PageInv'
    BY <2>3, OutsideStep DEF FeedMoves
  <2> QED  BY <2>1, <2>4, <2>5
<1>2. ASSUME NEW b \in Blogs, NEW r \in Readers, NEW time \in 1..LastTick, Push(b, r, time)
      PROVE  IInv'
  <2>1. /\ UNCHANGED <<now, relation, history, page>>
        /\ feed' = [feed EXCEPT ![r][b] = time]
        /\ moved \subseteq moved' /\ time =< now
    BY <1>2 DEF Push, FeedType
  <2>2. time \in Nat
    BY DEF SizesAssumption
  <2>3. FeedType'
    BY <2>1, <2>2 DEF FeedType
  <2>4. Relation'
    BY <2>1, RelationSame
  <2>5. UNCHANGED <<history, wanted, scroll, shown, answers>>
    BY <2>1 DEF history, page
  <2>6. PageType'
    BY <2>5, PageSame
  <2>7. FeedMoves
    BY <1>2, <2>2 DEF FeedMoves
  <2>8. PageInv'
    BY <2>1, <2>5, <2>7, OutsideStep
  <2> QED  BY <2>3, <2>4, <2>6, <2>8
<1>3. ASSUME \/ \E b \in Blogs : SaveBlog(b) \/ PushFails(b)
             \/ Tick
             \/ UNCHANGED vars
      PROVE  IInv'
  <2>1. UNCHANGED <<relation, moved, feed, history, page>>
    BY <1>3 DEF SaveBlog, PushFails, Tick, vars, publishing
  <2>2. now' = now \/ now' = now + 1
    BY <1>3 DEF SaveBlog, PushFails, Tick, vars
  <2>3. FeedType'
    BY <2>1, <2>2 DEF FeedType
  <2>4. Relation'
    BY <2>1, RelationSame
  <2>5. UNCHANGED <<moved, feed, history, wanted, scroll, shown, answers>>
    BY <2>1 DEF history, page
  <2>6. PageType'
    BY <2>5, PageSame
  <2>7. PageInv'
    BY <2>5, OutsideStep DEF FeedMoves
  <2> QED  BY <2>3, <2>4, <2>6, <2>7
<1>4. ASSUME NEW r \in Readers, NEW s \in Slots,
             AskFirst(r, s) \/ AskNext(r, s) \/ Deliver(r, s) \/ QueryFails(r, s)
      PROVE  IInv'
  <2>1. UNCHANGED <<now, relation, feed>>
    BY <1>4 DEF AskFirst, AskNext, Ask, Deliver, Show, QueryFails, Dismiss
  <2>2. Relation' /\ FeedType'
    BY <2>1, RelationSame, FeedSame
  <2>3. PageType' /\ PageInv'
    <3>1. CASE AskFirst(r, s)
      BY <3>1, AskFirstStep
    <3>2. CASE AskNext(r, s)
      BY <3>2, AskNextStep
    <3>3. CASE Show(r, s)
      BY <3>3, ShowStep
    <3>4. CASE Dismiss(r, s)
      BY <3>4, DismissStep
    <3> QED  BY <1>4, <3>1, <3>2, <3>3, <3>4 DEF Deliver, QueryFails
  <2> QED  BY <2>2, <2>3
<1> QED  BY <1>1, <1>2, <1>3, <1>4 DEF Next

LEMMA Invariance == Spec => []IInv
<1>1. SizesAssumption
  BY SizesAssumption
<1>2. Init => IInv
  BY <1>1, InitInv
<1>3. IInv /\ [Next]_vars => IInv'
  BY <1>1, NextInv
<1> QED  BY <1>2, <1>3, PTL DEF Spec

\* Theorem. Unless requests for a pair overlap or one of them fails, the Redis set holds
\* it exactly when tb_follow has a row (follow in FollowServiceImpl), whatever the number
\* of rows, readers and requests.
THEOREM SetAndTableAgree == Spec => []SetFollowsTable
<1>1. IInv => SetFollowsTable
  BY DEF IInv, SetInv, SetFollowsTable, Busy
<1> QED  BY <1>1, Invariance, PTL

\* Theorem. A page that scrolls down leaves no blog out, for pages of any size, any number
\* of blogs with equal times, any arrivals meanwhile and any number of queries under way
\* (queryBlogOfFollow in BlogServiceImpl with queryBlogsOfFollow in info.html), unless it
\* has shown an answer that came late or a blog was pushed again at another time.
THEOREM ScrollingSkipsNothing == Spec => []OnlyLateAnswersSkip
<1>1. IInv => OnlyLateAnswersSkip
  BY DEF IInv, PlaceInv, OnlyLateAnswersSkip, Gap, Kept
<1> QED  BY <1>1, Invariance, PTL
===============================================================================
