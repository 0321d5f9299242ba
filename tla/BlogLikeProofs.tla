----------------------------- MODULE BlogLikeProofs -----------------------------
(***************************************************************************)
(* Safety of the like counter for any users, blogs, instances, batches and *)
(* faults.                                                                 *)
(***************************************************************************)
EXTENDS BlogLikeReadings, FiniteSetTheorems, SequenceTheorems, TLAPS

-----------------------------------------------------------------------------
\* Queues.

\* A queue holds a blog at most once.
Queue == {q \in Seq(Blogs) : IsInjective(q)}

LEMMA TailFacts ==
  ASSUME NEW S, NEW q \in Seq(S), NEW n \in 0..Len(q)
  PROVE  LET r == SubSeq(q, n + 1, Len(q)) IN
         r \in Seq(S) /\ Len(r) = Len(q) - n /\ \A j \in 1..Len(r) : r[j] = q[n + j]
OBVIOUS

LEMMA TailOfQueue ==
  ASSUME NEW S, NEW q \in Seq(S), q # <<>>, Len(q) # 1
  PROVE  Tail(q) # <<>> /\ ToSet(Tail(q)) \subseteq ToSet(q)
<1>1. Len(q) \in Nat /\ Len(q) > 1
  <2>1. Len(q) \in Nat \ {0}
    BY EmptySeq
  <2>2. \A n \in Nat \ {0} : n # 1 => n > 1
    OBVIOUS
  <2> QED  BY <2>1, <2>2
<1>2. /\ Tail(q) \in Seq(S) /\ Len(Tail(q)) = Len(q) - 1
      /\ \A k \in 1..Len(Tail(q)) : Tail(q)[k] = q[k + 1]
  BY <1>1
<1>3. \A k \in 1..Len(q) - 1 : k + 1 \in 1..Len(q)
  BY <1>1
<1>4. \A k \in 1..Len(Tail(q)) : Tail(q)[k] \in ToSet(q)
  BY <1>2, <1>3 DEF ToSet
<1> QED  BY <1>1, <1>2, <1>4 DEF ToSet

LEMMA RemoveAtFacts ==
  ASSUME NEW S, NEW q \in Seq(S), NEW k \in 1..Len(q)
  PROVE  LET r == RemoveAt(q, k) IN
         /\ r \in Seq(S) /\ Len(r) = Len(q) - 1 /\ DOMAIN r = 1..Len(r)
         /\ \A j \in 1..Len(r) : r[j] = IF j < k THEN q[j] ELSE q[j + 1]
<1> DEFINE r == RemoveAt(q, k)  f == SubSeq(q, 1, k - 1)  g == SubSeq(q, k + 1, Len(q))
<1>0. Len(q) \in Nat /\ k \in Nat /\ k <= Len(q) /\ 1 <= k
  OBVIOUS
<1>1. f \in Seq(S) /\ Len(f) = k - 1 /\ \A j \in 1..k - 1 : f[j] = q[j]
  BY <1>0
<1>2. g \in Seq(S) /\ Len(g) = Len(q) - k /\ \A j \in 1..Len(g) : g[j] = q[k + j]
  BY <1>0, TailFacts
<1> HIDE DEF f, g
<1>3. /\ f \o g \in Seq(S) /\ Len(f \o g) = Len(f) + Len(g)
      /\ \A j \in 1..Len(f) + Len(g) : (f \o g)[j] = IF j <= Len(f) THEN f[j] ELSE g[j - Len(f)]
  BY <1>1, <1>2, ConcatProperties
<1>4. r = f \o g
  BY DEF RemoveAt, f, g
<1> HIDE DEF r
<1>5. Len(f) + Len(g) = Len(q) - 1 /\ Len(f) = k - 1
  BY <1>0, <1>1, <1>2
<1>6. ASSUME NEW j \in 1..Len(q) - 1  PROVE r[j] = IF j < k THEN q[j] ELSE q[j + 1]
  <2>1. CASE j < k
    BY <1>0, <1>1, <1>3, <1>4, <1>5, <2>1
  <2>2. CASE j >= k
    <3>1. j - (k - 1) \in 1..Len(g) /\ k + (j - (k - 1)) = j + 1 /\ ~(j <= k - 1)
      BY <1>0, <1>2, <2>2
    <3>2. r[j] = g[j - (k - 1)]
      BY <1>3, <1>4, <1>5, <3>1
    <3>3. g[j - (k - 1)] = q[j + 1]
      BY <1>2, <3>1
    <3> QED  BY <1>0, <2>2, <3>2, <3>3
  <2> QED  BY <1>0, <2>1, <2>2
<1>7. r \in Seq(S) /\ Len(r) = Len(q) - 1
  BY <1>0, <1>3, <1>4, <1>5
<1>8. DOMAIN r = 1..Len(r)
  BY <1>7
<1> QED  BY <1>6, <1>7, <1>8 DEF r

LEMMA WithoutFacts ==
  ASSUME NEW q \in Queue, NEW b
  PROVE  Without(q, b) \in Queue /\ ToSet(Without(q, b)) = ToSet(q) \ {b}
<1>1. CASE b \notin ToSet(q)
  BY <1>1 DEF Without
<1>2. CASE b \in ToSet(q)
  <2> DEFINE k == CHOOSE m \in DOMAIN q : q[m] = b
             r == RemoveAt(q, k)
  <2>1. k \in 1..Len(q) /\ q[k] = b
    BY <1>2 DEF ToSet, Queue
  <2> HIDE DEF k
  <2>0. q \in Seq(Blogs) /\ Len(q) \in Nat /\ DOMAIN q = 1..Len(q)
    BY DEF Queue
  <2>2. /\ r \in Seq(Blogs) /\ Len(r) = Len(q) - 1 /\ DOMAIN r = 1..Len(r)
        /\ \A j \in 1..Len(r) : r[j] = IF j < k THEN q[j] ELSE q[j + 1]
    BY <2>0, <2>1, RemoveAtFacts
  <2>3. IsInjective(r)
    <3>1. \A j, m \in 1..Len(q) : q[j] = q[m] => j = m
      BY <2>0 DEF IsInjective, Queue
    <3>2. ASSUME NEW j \in 1..Len(r), NEW m \in 1..Len(r), r[j] = r[m], j < m  PROVE FALSE
      <4> DEFINE u == IF j < k THEN j ELSE j + 1  v == IF m < k THEN m ELSE m + 1
      <4>1. u \in 1..Len(q) /\ v \in 1..Len(q) /\ u < v
        BY <2>0, <2>1, <2>2, <3>2
      <4>2. q[u] = q[v]
        BY <2>2, <3>2
      <4> QED  BY <3>1, <4>1, <4>2
    <3>3. ASSUME NEW j \in 1..Len(r), NEW m \in 1..Len(r), r[j] = r[m]  PROVE j = m
      BY <2>0, <2>2, <3>2, <3>3
    <3> QED  BY <2>2, <3>3 DEF IsInjective
  <2>4. ASSUME NEW e \in ToSet(r)  PROVE e \in ToSet(q) \ {b}
    <3>1. PICK j \in 1..Len(r) : e = r[j]
      BY <2>2, <2>4 DEF ToSet
    <3>2. PICK m \in 1..Len(q) : e = q[m] /\ m # k
      <4>1. CASE j < k
        BY <2>0, <2>1, <2>2, <3>1, <4>1
      <4>2. CASE j >= k
        BY <2>0, <2>1, <2>2, <3>1, <4>2
      <4> QED  BY <2>0, <2>1, <2>2, <4>1, <4>2
    <3> QED  BY <2>0, <2>1, <3>2 DEF ToSet, Queue, IsInjective
  <2>5. ASSUME NEW e \in ToSet(q) \ {b}  PROVE e \in ToSet(r)
    <3>1. PICK m \in 1..Len(q) : e = q[m]
      BY <2>5 DEF ToSet, Queue
    <3>2. m # k
      BY <2>1, <2>5, <3>1
    <3>3. CASE m < k
      BY <2>1, <2>2, <3>1, <3>3 DEF ToSet, Queue
    <3>4. CASE m > k
      <4>1. m - 1 \in 1..Len(r) /\ r[m - 1] = e
        BY <2>1, <2>2, <3>1, <3>4 DEF Queue
      <4> QED  BY <2>2, <4>1 DEF ToSet
    <3> QED  BY <2>1, <3>2, <3>3, <3>4 DEF Queue
  <2> QED  BY <1>2, <2>2, <2>3, <2>4, <2>5 DEF Without, Queue, k
<1> QED  BY <1>1, <1>2

LEMMA AddFacts ==
  ASSUME NEW q \in Queue, NEW b \in Blogs, b \notin ToSet(q)
  PROVE  /\ Append(q, b) \in Queue /\ ToSet(Append(q, b)) = ToSet(q) \cup {b}
         /\ <<b>> \o q \in Queue /\ ToSet(<<b>> \o q) = ToSet(q) \cup {b}
<1> DEFINE a == Append(q, b)  c == <<b>> \o q
<1>0. q \in Seq(Blogs) /\ Len(q) \in Nat /\ \A j \in 1..Len(q) : q[j] # b
  BY DEF Queue, ToSet
<1>1. /\ a \in Seq(Blogs) /\ Len(a) = Len(q) + 1
      /\ \A j \in 1..Len(a) : a[j] = IF j <= Len(q) THEN q[j] ELSE b
  BY <1>0
<1>2. /\ c \in Seq(Blogs) /\ Len(c) = Len(q) + 1
      /\ \A j \in 1..Len(c) : c[j] = IF j = 1 THEN b ELSE q[j - 1]
  BY <1>0
<1> HIDE DEF a, c
<1>3. IsInjective(a) /\ IsInjective(c)
  <2>1. DOMAIN a = 1..Len(a) /\ DOMAIN c = 1..Len(c) /\ DOMAIN q = 1..Len(q)
    BY <1>0, <1>1, <1>2
  <2>2. \A j, m \in 1..Len(q) : q[j] = q[m] => j = m
    BY <2>1 DEF Queue, IsInjective
  <2>3. IsInjective(a)
    BY <1>0, <1>1, <2>1, <2>2 DEF IsInjective
  <2>4. IsInjective(c)
    <3>1. \A j \in 2..Len(c) : j - 1 \in 1..Len(q) /\ c[j] = q[j - 1]
      BY <1>0, <1>2
    <3> QED  BY <1>0, <1>2, <2>1, <2>2, <3>1 DEF IsInjective
  <2> QED  BY <2>3, <2>4
<1>4. ToSet(a) \subseteq ToSet(q) \cup {b} /\ ToSet(c) \subseteq ToSet(q) \cup {b}
  <2>1. ASSUME NEW j \in 1..Len(a)  PROVE a[j] \in ToSet(q) \cup {b}
    BY <1>0, <1>1 DEF ToSet
  <2>2. ASSUME NEW j \in 1..Len(c)  PROVE c[j] \in ToSet(q) \cup {b}
    <3>1. j # 1 => j - 1 \in 1..Len(q)
      BY <1>0, <1>2
    <3> QED  BY <1>0, <1>2, <3>1 DEF ToSet
  <2> QED  BY <1>1, <1>2, <2>1, <2>2 DEF ToSet
<1>5. b \in ToSet(a) /\ b \in ToSet(c)
  <2>1. Len(a) \in 1..Len(a) /\ a[Len(a)] = b /\ 1 \in 1..Len(c) /\ c[1] = b
    BY <1>0, <1>1, <1>2
  <2> QED  BY <1>1, <1>2, <2>1 DEF ToSet
<1>6. ASSUME NEW e \in ToSet(q)  PROVE e \in ToSet(a) /\ e \in ToSet(c)
  <2>1. PICK m \in 1..Len(q) : e = q[m]
    BY <1>0, <1>6 DEF ToSet
  <2>2. m \in 1..Len(a) /\ a[m] = e
    BY <1>0, <1>1, <2>1
  <2>3. m + 1 \in 1..Len(c) /\ m + 1 # 1 /\ (m + 1) - 1 = m
    BY <1>0, <1>2, <2>1
  <2>4. c[m + 1] = e
    BY <1>2, <2>1, <2>3
  <2>5. e \in ToSet(a)
    BY <1>1, <2>2 DEF ToSet
  <2>6. e \in ToSet(c)
    BY <1>2, <2>3, <2>4 DEF ToSet
  <2> QED  BY <2>5, <2>6
<1> QED  BY <1>1, <1>2, <1>3, <1>4, <1>5, <1>6 DEF Queue, a, c

LEMMA SplitFacts ==
  ASSUME NEW q \in Queue, NEW n \in 0..Len(q)
  PROVE  /\ SubSeq(q, n + 1, Len(q)) \in Queue
         /\ ToSet(SubSeq(q, 1, n)) \subseteq ToSet(q)
         /\ ToSet(SubSeq(q, n + 1, Len(q))) = ToSet(q) \ ToSet(SubSeq(q, 1, n))
<1> DEFINE f == SubSeq(q, 1, n)  r == SubSeq(q, n + 1, Len(q))
<1>0. q \in Seq(Blogs) /\ Len(q) \in Nat /\ n \in Nat /\ n <= Len(q) /\ IsInjective(q)
  BY DEF Queue
<1>1. f \in Seq(Blogs) /\ Len(f) = n /\ \A j \in 1..n : f[j] = q[j]
  BY <1>0
<1>2. r \in Seq(Blogs) /\ Len(r) = Len(q) - n /\ \A j \in 1..Len(r) : r[j] = q[n + j]
  BY <1>0
<1> HIDE DEF f, r
<1>3. \A j \in 1..Len(r) : n + j \in 1..Len(q)
  BY <1>0, <1>2
<1>4. ToSet(f) \subseteq ToSet(q) /\ ToSet(r) \subseteq ToSet(q) /\ IsInjective(r)
  <2>1. ToSet(f) \subseteq ToSet(q)
    BY <1>0, <1>1 DEF ToSet
  <2>2. ToSet(r) \subseteq ToSet(q)
    <3>1. \A j \in 1..Len(r) : r[j] \in ToSet(q)
      BY <1>0, <1>2, <1>3 DEF ToSet
    <3> QED  BY <1>2, <3>1 DEF ToSet
  <2>3. IsInjective(r)
    <3>1. DOMAIN r = 1..Len(r) /\ \A j, m \in 1..Len(q) : q[j] = q[m] => j = m
      BY <1>0, <1>2 DEF IsInjective
    <3>2. ASSUME NEW j \in 1..Len(r), NEW m \in 1..Len(r), r[j] = r[m]  PROVE j = m
      <4>1. n + j = n + m
        BY <1>2, <1>3, <3>1, <3>2
      <4> QED  BY <1>0, <4>1
    <3> QED  BY <3>1, <3>2 DEF IsInjective
  <2> QED  BY <2>1, <2>2, <2>3
<1>5. ASSUME NEW e \in ToSet(f), e \in ToSet(r)  PROVE FALSE
  <2>1. PICK j \in 1..n : e = q[j]
    BY <1>1 DEF ToSet
  <2>2. PICK m \in 1..Len(r) : e = q[n + m]
    <3>1. PICK m \in 1..Len(r) : e = r[m]
      BY <1>2, <1>5 DEF ToSet
    <3> QED  BY <1>2, <3>1
  <2>3. j \in 1..Len(q) /\ n + m \in 1..Len(q) /\ j # n + m
    BY <1>0, <1>2, <2>1, <2>2
  <2>4. DOMAIN q = 1..Len(q)
    BY <1>0
  <2> QED  BY <1>0, <2>1, <2>2, <2>3, <2>4 DEF IsInjective
<1>6. ASSUME NEW e \in ToSet(q), e \notin ToSet(f)  PROVE e \in ToSet(r)
  <2>1. PICK m \in 1..Len(q) : e = q[m]
    BY <1>0, <1>6 DEF ToSet
  <2>2. m > n
    BY <1>0, <1>1, <1>6, <2>1 DEF ToSet
  <2>3. m - n \in 1..Len(r) /\ r[m - n] = e
    BY <1>0, <1>2, <2>1, <2>2
  <2> QED  BY <1>2, <2>3 DEF ToSet
<1> QED  BY <1>2, <1>3, <1>4, <1>5, <1>6 DEF Queue, f, r

-----------------------------------------------------------------------------
\* The inductive invariant.

\* Counts in Redis are absent or not negative; no more new likes wait than there are.
CountsInv ==
  \A b \in Blogs :
    /\ IsFiniteSet(likes[b])
    /\ count[b] \in Nat \cup {Absent} /\ baseline[b] \in Nat \cup {Absent}
    /\ delta[b] <= Cardinality(likes[b])

\* A blog that was not clicked yet is as it was; a request has read its counter.
OldDataInv ==
  /\ \A b \in Blogs : baseline[b] = Absent =>
       /\ likes[b] = OldLikes[b] /\ count[b] = OldCount[b] /\ liked[b] = OldLiked[b]
       /\ delta[b] = 0 /\ processing[b] = 0
  /\ \A u \in Users : seed[u] # NoRequest => seed[u].liked = OldLiked[seed[u].blog]

\* A reconciliation works on tracked blogs, has one left where it takes one, and
\* keeps its readings until it leaves.
JobInv(i) ==
  /\ \A b \in ToSet(due[i]) \cup ToSet(todo[i]) : baseline[b] # Absent
  /\ \A b \in Blogs : counts[i][b] # Absent => counts[i][b] \in Nat /\ baseline[b] # Absent
  /\ pc[i] = "prepare" => due[i] # <<>>
  /\ pc[i] \in {"prepare", "overwrite", "rotate"} => todo[i] # <<>>
  /\ pc[i] \notin {"prepare", "overwrite", "rotate"} => counts[i] = NoCounts

JobsInv == \A i \in Instances : JobInv(i)

\* What a batch id stands for at each call of a flush.
IdInv(i) ==
  /\ pc[i] \in {"claim", "read", "apply", "ack", "ackEmpty"} => id[i] \in Batches
  /\ pc[i] = "claim" =>
       /\ id[i] \notin applied \cup {batch}
       /\ \A j \in Instances : id[i] \notin candidates[j] /\ (id[j] = id[i] => j = i)
  /\ pc[i] = "apply" => id[i] \in applied \/ (batch = id[i] /\ deltas[i] = processing)
  /\ pc[i] = "ack" => id[i] \in applied
  /\ pc[i] = "ackEmpty" => batch # id[i]
  /\ batch \notin candidates[i]

FlushInv == \A i \in Instances : IdInv(i)

DataInv == CountsInv /\ OldDataInv /\ CountExact /\ QueueExact

IInv == TypeOK /\ DataInv /\ JobsInv /\ FlushInv

\* A step that spoils no counter, and after which the database has to show what it had
\* to show before, unless it has got a batch.
KeepsBacklog ==
  \A b \in Blogs :
    /\ Exact(b) => Exact(b)'
    /\ baseline[b] # Absent => Owed(b)' = Owed(b) \/ AppliesTo(b)

-----------------------------------------------------------------------------
\* The initial state.

LEMMA InitInv == Init => IInv
<1> SUFFICES ASSUME Init PROVE IInv
  OBVIOUS
<1> USE NamesAssumption, OldDataAssumption, BoundsAssumption
<1>1. TypeOK
  <2>1. OldCount \in [Blogs -> Int]
    OBVIOUS
  <2>2. NoDelta \in [Blogs -> Int] /\ NoCounts \in [Blogs -> Int]
    BY DEF NoDelta, NoCounts, Absent
  <2>3. <<>> \in Seq(Blogs)
    OBVIOUS
  <2>4. \A i \in Instances : "idle" \in Pc
    BY DEF Pc
  <2>5. faults \in [{"db", "redis", "lease", "crash"} -> Nat]
    BY DEF Init
  <2> QED  BY <2>1, <2>2, <2>3, <2>4, <2>5 DEF Init, TypeOK
<1>2. \A b \in Blogs : Cardinality(OldLikes[b]) \in Nat
  BY FS_CardinalityType
<1>3. CountsInv /\ OldDataInv /\ CountExact
  BY <1>2 DEF Init, CountsInv, OldDataInv, CountExact, NoDelta, NoCounts, Absent
<1>4. QueueExact
  BY DEF Init, QueueExact, NoDelta, NoCounts, ToSet, IsInjective
<1>5. JobsInv
  BY DEF Init, JobsInv, JobInv, NoCounts, ToSet
<1>6. FlushInv
  BY DEF Init, FlushInv, IdInv
<1> QED  BY <1>1, <1>3, <1>4, <1>5, <1>6 DEF IInv, DataInv

-----------------------------------------------------------------------------
\* A click.

\* What the script does to a blog: `base` likes are not in the set.
Toggled(b, base, change) ==
  /\ likes'[b] \subseteq Users /\ IsFiniteSet(likes'[b])
  /\ Cardinality(likes'[b]) = Cardinality(likes[b]) + change
  /\ likes' = [likes EXCEPT ![b] = likes'[b]]
  /\ baseline' = [baseline EXCEPT ![b] = base]
  /\ count' = [count EXCEPT ![b] = base + Cardinality(likes'[b])]
  /\ delta' = [delta EXCEPT ![b] = @ + change]
  /\ dirty' \in Queue /\ ToSet(dirty') = {c \in Blogs : delta'[c] # 0}
  /\ tracked' \in Queue /\ ToSet(tracked') = ToSet(tracked) \cup {b}
  /\ UNCHANGED <<processing, batch>>

\* The likes that are not in the set when the blog is clicked.
Base(b) ==
  IF baseline[b] = Absent THEN OldLiked[b] - Cardinality(likes[b]) ELSE baseline[b]

LEMMA ToggleFacts ==
  ASSUME TypeOK, DataInv, NEW u \in Users, NEW b \in Blogs, NEW initial \in Int,
         count[b] = Absent => initial = OldLiked[b],
         ToggleLike(u, b, initial)
  PROVE  /\ Base(b) \in Nat
         /\ Toggled(b, Base(b), IF u \in likes[b] THEN -1 ELSE 1)
<1> DEFINE change == IF u \in likes[b] THEN -1 ELSE 1
           current == CurrentLiked(b, initial)
<1> USE DEF DataInv
<1>1. /\ IsFiniteSet(likes[b]) /\ Cardinality(likes[b]) \in Nat /\ OldLiked[b] \in Nat
      /\ OldCount[b] \in {Absent, OldLiked[b]} /\ Cardinality(OldLikes[b]) <= OldLiked[b]
      /\ Absent \notin Nat /\ Absent \in Int
  BY OldDataAssumption, FS_CardinalityType DEF CountsInv, Absent
<1>2. /\ likes'[b] = IF u \in likes[b] THEN likes[b] \ {u} ELSE likes[b] \cup {u}
      /\ likes' = [likes EXCEPT ![b] = likes'[b]] /\ likes'[b] \subseteq Users
  BY DEF ToggleLike, TypeOK
<1>3. /\ IsFiniteSet(likes'[b]) /\ Cardinality(likes'[b]) \in Nat
      /\ Cardinality(likes'[b]) = Cardinality(likes[b]) + change
  <2>1. CASE u \in likes[b]
    <3>1. likes'[b] = likes[b] \ {u} /\ change = -1
      BY <1>2, <2>1
    <3>2. IsFiniteSet(likes'[b]) /\ Cardinality(likes'[b]) = Cardinality(likes[b]) - 1
      BY <1>1, <2>1, <3>1, FS_RemoveElement
    <3> QED  BY <1>1, <3>1, <3>2, FS_CardinalityType
  <2>2. CASE u \notin likes[b]
    <3>1. likes'[b] = likes[b] \cup {u} /\ change = 1
      BY <1>2, <2>2
    <3>2. IsFiniteSet(likes'[b]) /\ Cardinality(likes'[b]) = Cardinality(likes[b]) + 1
      BY <1>1, <2>2, <3>1, FS_AddElement
    <3> QED  BY <1>1, <3>1, <3>2, FS_CardinalityType
  <2> QED  BY <2>1, <2>2
<1>4. /\ Base(b) \in Nat
      /\ current = Base(b) + Cardinality(likes[b])
  <2>1. CASE baseline[b] = Absent
    <3>1. likes[b] = OldLikes[b] /\ count[b] = OldCount[b]
      BY <2>1 DEF OldDataInv
    <3>2. current = OldLiked[b]
      BY <1>1, <3>1 DEF CurrentLiked
    <3> QED  BY <1>1, <2>1, <3>1, <3>2 DEF Base
  <2>2. CASE baseline[b] # Absent
    <3>1. baseline[b] \in Nat /\ count[b] = baseline[b] + Cardinality(likes[b])
      BY <2>2 DEF CountsInv, CountExact
    <3>2. current = count[b]
      BY <1>1, <3>1 DEF CurrentLiked
    <3> QED  BY <2>2, <3>1, <3>2 DEF Base
  <2> QED  BY <2>1, <2>2
<1> HIDE DEF current, change
<1>5. /\ baseline' = [baseline EXCEPT ![b] = Base(b)]
      /\ count' = [count EXCEPT ![b] = Base(b) + Cardinality(likes'[b])]
      /\ delta' = [delta EXCEPT ![b] = @ + change]
      /\ UNCHANGED <<processing, batch>>
  <2>0. change \in Int
    BY DEF change
  <2>1. NotNegative(current - Cardinality(likes[b])) = Base(b)
    BY <1>1, <1>4 DEF NotNegative
  <2>2. NotNegative(current + change) = Base(b) + Cardinality(likes'[b])
    BY <1>1, <1>3, <1>4, <2>0 DEF NotNegative
  <2>3. /\ baseline' = [baseline EXCEPT ![b] =
                          IF @ = Absent THEN NotNegative(current - Cardinality(likes[b])) ELSE @]
        /\ count' = [count EXCEPT ![b] = NotNegative(current + change)]
        /\ delta' = [delta EXCEPT ![b] = @ + change]
        /\ UNCHANGED <<processing, batch>>
    BY DEF ToggleLike, current, change
  <2>4. baseline' = [baseline EXCEPT ![b] = Base(b)]
    BY <2>1, <2>3 DEF Base
  <2> QED  BY <2>2, <2>3, <2>4
<1>6. dirty \in Queue /\ tracked \in Queue /\ ToSet(dirty) = {c \in Blogs : delta[c] # 0}
  BY DEF TypeOK, QueueExact, Queue
<1>7. dirty' \in Queue /\ ToSet(dirty') = {c \in Blogs : delta'[c] # 0}
  <2>1. MarkDirty(b, delta'[b])
    BY <1>5 DEF ToggleLike, TypeOK, change
  <2>2. \A c \in Blogs : c # b => delta'[c] = delta[c]
    BY <1>5 DEF TypeOK
  <2>3. CASE delta'[b] = 0
    <3>1. dirty' = Without(dirty, b)
      BY <2>1, <2>3 DEF MarkDirty
    <3> QED  BY <1>6, <2>2, <2>3, <3>1, WithoutFacts
  <2>4. CASE delta'[b] # 0 /\ b \in ToSet(dirty)
    <3>1. dirty' = dirty
      BY <2>1, <2>4 DEF MarkDirty
    <3> QED  BY <1>6, <2>2, <2>4, <3>1
  <2>5. CASE delta'[b] # 0 /\ b \notin ToSet(dirty)
    <3>1. dirty' = Append(dirty, b)
      BY <2>1, <2>5 DEF MarkDirty
    <3>2. dirty' \in Queue /\ ToSet(dirty') = ToSet(dirty) \cup {b}
      BY <1>6, <2>5, <3>1, AddFacts
    <3> QED  BY <1>6, <2>2, <2>5, <3>2
  <2> QED  BY <2>3, <2>4, <2>5
<1>8. tracked' \in Queue /\ ToSet(tracked') = ToSet(tracked) \cup {b}
  BY <1>6, AddFacts DEF ToggleLike
<1> QED  BY <1>2, <1>3, <1>4, <1>5, <1>7, <1>8 DEF Toggled, change

LEMMA ToggledKeepsData ==
  ASSUME TypeOK, DataInv, NEW b \in Blogs, NEW change \in {-1, 1},
         Base(b) \in Nat, Toggled(b, Base(b), change), UNCHANGED db,
         \A u \in Users : seed'[u] \in {seed[u], NoRequest}
  PROVE  DataInv' /\ KeepsBacklog
<1> USE DEF DataInv, TypeOK
<1>1. /\ \A c \in Blogs : Cardinality(likes[c]) \in Nat
      /\ likes'[b] \subseteq Users /\ IsFiniteSet(likes'[b]) /\ Cardinality(likes'[b]) \in Nat
      /\ Cardinality(likes'[b]) = Cardinality(likes[b]) + change
      /\ OldLiked[b] \in Nat /\ Absent \notin Nat /\ change \in Int
  <2>1. \A c \in Blogs : IsFiniteSet(likes[c])
    BY DEF CountsInv
  <2>2. \A c \in Blogs : Cardinality(likes[c]) \in Nat
    BY <2>1, FS_CardinalityType
  <2>3. /\ likes'[b] \subseteq Users /\ IsFiniteSet(likes'[b])
        /\ Cardinality(likes'[b]) = Cardinality(likes[b]) + change
    BY DEF Toggled
  <2>4. Cardinality(likes'[b]) \in Nat
    BY <2>3, FS_CardinalityType
  <2> QED  BY <2>2, <2>3, <2>4, OldDataAssumption DEF Absent
<1>2. /\ baseline'[b] = Base(b) /\ count'[b] = Base(b) + Cardinality(likes'[b])
      /\ delta'[b] = delta[b] + change
      /\ \A c \in Blogs \ {b} : /\ likes'[c] = likes[c] /\ baseline'[c] = baseline[c]
                                /\ count'[c] = count[c] /\ delta'[c] = delta[c]
      /\ UNCHANGED <<processing, batch, liked, applied>>
  BY DEF Toggled, db
<1>3. CountsInv'
  <2>1. delta'[b] <= Cardinality(likes'[b])
    BY <1>1, <1>2 DEF CountsInv
  <2>2. Base(b) + Cardinality(likes'[b]) \in Nat
    BY <1>1
  <2> QED  BY <1>1, <1>2, <2>1, <2>2 DEF CountsInv
<1>4. OldDataInv'
  <2>1. \A u \in Users : seed'[u] # NoRequest => seed'[u] = seed[u]
    OBVIOUS
  <2>2. baseline'[b] # Absent
    BY <1>1, <1>2
  <2> QED  BY <1>2, <2>1, <2>2 DEF OldDataInv
<1>5. CountExact'
  BY <1>1, <1>2 DEF CountExact
<1>6. QueueExact'
  <2>1. ToSet(tracked') = {c \in Blogs : baseline'[c] # Absent}
    BY <1>1, <1>2 DEF QueueExact, Toggled
  <2> QED  BY <1>2, <2>1 DEF QueueExact, Toggled, Queue
<1>7. KeepsBacklog
  <2>1. \A c \in Blogs : Unapplied(c)' = Unapplied(c)
    BY <1>2 DEF Unapplied
  <2>2. \A c \in Blogs \ {b} : Owed(c)' = Owed(c) /\ liked'[c] = liked[c] /\ baseline'[c] = baseline[c]
    BY <1>2, <2>1 DEF Owed
  <2>3. Unapplied(b) \in Int /\ liked[b] \in Nat /\ delta[b] \in Int /\ Cardinality(likes[b]) \in Nat
    BY <1>1 DEF Unapplied
  <2>4. Owed(b)' = Base(b) + Cardinality(likes[b]) - delta[b] - Unapplied(b)
    <3>1. Owed(b)' = Base(b) + (Cardinality(likes[b]) + change) - (delta[b] + change) - Unapplied(b)
      BY <1>1, <1>2, <2>1 DEF Owed
    <3> HIDE DEF TypeOK, DataInv
    <3> QED  BY <1>1, <2>3, <3>1
  <2>5. CASE baseline[b] = Absent
    <3>1. liked[b] = OldLiked[b] /\ delta[b] = 0 /\ Unapplied(b) = 0
      BY <2>5 DEF OldDataInv, Unapplied
    <3>2. liked'[b] = Owed(b)'
      BY <1>1, <1>2, <2>3, <2>4, <2>5, <3>1 DEF Base
    <3> QED  BY <2>2, <2>5, <3>2 DEF KeepsBacklog, Exact
  <2>6. CASE baseline[b] # Absent
    <3>1. Owed(b)' = Owed(b) /\ liked'[b] = liked[b]
      BY <1>2, <2>4, <2>6 DEF Base, Owed
    <3> QED  BY <2>2, <2>6, <3>1 DEF KeepsBacklog, Exact
  <2> QED  BY <2>5, <2>6
<1> QED  BY <1>3, <1>4, <1>5, <1>6, <1>7

LEMMA LikeFacts ==
  ASSUME TypeOK, DataInv, NEW u \in Users,
         LikeSeeded(u) \/ \E b \in Blogs : Like(u, b)
  PROVE  \E b \in Blogs, change \in {-1, 1} : Base(b) \in Nat /\ Toggled(b, Base(b), change)
<1>1. CASE LikeSeeded(u)
  <2>1. /\ seed[u].blog \in Blogs /\ seed[u].liked \in Int
        /\ seed[u].liked = OldLiked[seed[u].blog]
    BY <1>1 DEF LikeSeeded, TypeOK, DataInv, OldDataInv
  <2> QED  BY <1>1, <2>1, ToggleFacts DEF LikeSeeded
<1>2. ASSUME NEW b \in Blogs, Like(u, b)
      PROVE  \E c \in Blogs, change \in {-1, 1} : Base(c) \in Nat /\ Toggled(c, Base(c), change)
  BY <1>2, ToggleFacts DEF Like, Absent
<1> QED  BY <1>1, <1>2

-----------------------------------------------------------------------------
\* The flush.

LEMMA ClaimFacts ==
  ASSUME TypeOK, DataInv, NEW i \in Instances, ClaimDelta(i), batch = NoBatch
  PROVE  \E taken \in SUBSET Blogs :
           /\ taken \subseteq {b \in Blogs : delta[b] # 0}
           /\ dirty' \in Queue /\ ToSet(dirty') = ToSet(dirty) \ taken
           /\ processing' = [b \in Blogs |-> IF b \in taken THEN delta[b] ELSE 0]
           /\ delta' = [b \in Blogs |-> IF b \in taken THEN 0 ELSE delta[b]]
           /\ batch' = IF taken = {} THEN NoBatch ELSE id[i]
           /\ UNCHANGED <<likes, count, baseline, tracked>>
<1> DEFINE n == IF Len(dirty) < BatchSize THEN Len(dirty) ELSE BatchSize
           taken == ToSet(SubSeq(dirty, 1, n))
<1>1. dirty \in Queue /\ ToSet(dirty) = {b \in Blogs : delta[b] # 0}
  BY DEF TypeOK, DataInv, QueueExact, Queue
<1>2. n \in 0..Len(dirty)
  BY BoundsAssumption DEF TypeOK
<1>3. /\ taken \subseteq {b \in Blogs : delta[b] # 0}
      /\ SubSeq(dirty, n + 1, Len(dirty)) \in Queue
      /\ ToSet(SubSeq(dirty, n + 1, Len(dirty))) = ToSet(dirty) \ taken
  BY <1>1, <1>2, SplitFacts
<1>4. /\ dirty' = SubSeq(dirty, n + 1, Len(dirty))
      /\ processing' = [b \in Blogs |-> IF b \in taken THEN delta[b] ELSE 0]
      /\ delta' = [b \in Blogs |-> IF b \in taken THEN 0 ELSE delta[b]]
      /\ batch' = IF taken = {} THEN NoBatch ELSE id[i]
      /\ UNCHANGED <<likes, count, baseline, tracked>>
  BY DEF ClaimDelta, Waiting
<1> HIDE DEF taken, n
<1> QED  BY <1>3, <1>4

LEMMA ClaimKeepsData ==
  ASSUME IInv, NEW i \in Instances, ClaimDelta(i)
  PROVE  DataInv' /\ KeepsBacklog
<1> USE DEF IInv, DataInv
<1>0. UNCHANGED <<liked, applied, seed>>
  BY DEF ClaimDelta, db
<1>1. CASE batch # NoBatch
  <2>1. UNCHANGED redis
    BY <1>1 DEF ClaimDelta
  <2> QED  BY <1>0, <2>1 DEF redis, CountsInv, OldDataInv, CountExact, QueueExact, KeepsBacklog, Exact, Owed, Unapplied
<1>2. CASE batch = NoBatch
  <2>1. PICK taken \in SUBSET Blogs :
           /\ taken \subseteq {b \in Blogs : delta[b] # 0}
           /\ dirty' \in Queue /\ ToSet(dirty') = ToSet(dirty) \ taken
           /\ processing' = [b \in Blogs |-> IF b \in taken THEN delta[b] ELSE 0]
           /\ delta' = [b \in Blogs |-> IF b \in taken THEN 0 ELSE delta[b]]
           /\ batch' = IF taken = {} THEN NoBatch ELSE id[i]
           /\ UNCHANGED <<likes, count, baseline, tracked>>
    BY <1>2, ClaimFacts
  <2>2. \A b \in Blogs : Cardinality(likes[b]) \in Nat
    BY FS_CardinalityType DEF CountsInv
  <2>3. CountsInv' /\ OldDataInv' /\ CountExact'
    BY <1>0, <2>1, <2>2 DEF CountsInv, OldDataInv, CountExact, TypeOK
  <2>4. id[i] \in Batches /\ id[i] \notin applied /\ id[i] # NoBatch
    BY NamesAssumption DEF FlushInv, IdInv, ClaimDelta
  <2>5. QueueExact'
    <3>1. ToSet(dirty') = {b \in Blogs : delta'[b] # 0} /\ IsInjective(dirty')
      BY <2>1 DEF QueueExact, TypeOK, Queue
    <3>2. ToSet(tracked') = {b \in Blogs : baseline'[b] # Absent} /\ IsInjective(tracked')
      BY <2>1 DEF QueueExact
    <3>3. CASE taken = {}
      BY <2>1, <3>1, <3>2, <3>3 DEF QueueExact, NoDelta
    <3>4. ASSUME NEW b \in taken  PROVE QueueExact'
      <4>1. processing'[b] # 0 /\ NoDelta[b] = 0
        BY <2>1, <3>4 DEF NoDelta
      <4> QED  BY <2>1, <2>4, <3>1, <3>2, <4>1 DEF QueueExact
    <3> QED  BY <3>3, <3>4
  <2>6. KeepsBacklog
    <3>1. \A b \in Blogs : Unapplied(b) = 0
      BY <1>2 DEF QueueExact, NoDelta, Unapplied
    <3>2. \A b \in Blogs : Unapplied(b)' = processing'[b]
      BY <1>0, <2>1, <2>4 DEF Unapplied, NoDelta
    <3>3. \A b \in Blogs : /\ processing'[b] + delta'[b] = delta[b]
                           /\ processing'[b] \in Int /\ delta'[b] \in Int
      BY <2>1 DEF TypeOK
    <3>4. \A b \in Blogs : baseline[b] \in Int
      BY DEF TypeOK
    <3>5. \A b \in Blogs : Owed(b)' = Owed(b)
      BY <2>1, <2>2, <3>1, <3>2, <3>3, <3>4 DEF Owed
    <3> QED  BY <1>0, <2>1, <3>5 DEF KeepsBacklog, Exact
  <2> QED  BY <2>3, <2>5, <2>6
<1> QED  BY <1>1, <1>2

LEMMA ApplyKeepsData ==
  ASSUME IInv, NEW i \in Instances, ApplyBatch(i)
  PROVE  DataInv' /\ KeepsBacklog
<1> USE DEF IInv, DataInv
<1>0. UNCHANGED <<redis, seed>> /\ applied' = applied \cup {id[i]}
  BY DEF ApplyBatch
<1>1. CASE id[i] \in applied
  <2>1. UNCHANGED <<liked, applied>>
    BY <1>0, <1>1 DEF ApplyBatch
  <2> QED  BY <1>0, <2>1 DEF redis, CountsInv, OldDataInv, CountExact, QueueExact, KeepsBacklog, Exact, Owed, Unapplied
<1>2. CASE id[i] \notin applied
  <2>1. batch = id[i] /\ deltas[i] = processing
    BY <1>2 DEF FlushInv, IdInv, ApplyBatch
  <2>2. liked' = [b \in Blogs |-> NotNegative(liked[b] + processing[b])]
    BY <1>2, <2>1 DEF ApplyBatch
  <2>3. \A b \in Blogs : liked[b] \in Nat /\ processing[b] \in Int /\ delta[b] \in Int
    BY DEF TypeOK
  <2>4. CountsInv' /\ CountExact' /\ QueueExact'
    BY <1>0 DEF redis, CountsInv, CountExact, QueueExact
  <2>5. OldDataInv'
    BY <1>0, <2>2, <2>3 DEF redis, OldDataInv, NotNegative
  <2>6. ASSUME NEW b \in Blogs, baseline[b] # Absent
        PROVE  /\ Owed(b)' = Owed(b) + processing[b]
               /\ Exact(b) => Exact(b)'
    <3>1. Unapplied(b) = processing[b] /\ Unapplied(b)' = 0
      BY <1>0, <1>2, <2>1 DEF Unapplied, redis
    <3>2. /\ Cardinality(likes[b]) \in Nat /\ delta[b] <= Cardinality(likes[b])
          /\ baseline[b] \in Nat /\ UNCHANGED <<baseline, likes, delta>>
      BY <1>0, <2>6, FS_CardinalityType DEF CountsInv, redis
    <3>3. /\ Owed(b) = baseline[b] + Cardinality(likes[b]) - delta[b] - processing[b]
          /\ Owed(b)' = baseline[b] + Cardinality(likes[b]) - delta[b]
      BY <2>3, <3>1, <3>2 DEF Owed
    <3>4. Owed(b)' = Owed(b) + processing[b] /\ Owed(b)' >= 0
      BY <2>3, <3>2, <3>3
    <3>5. ASSUME liked[b] = Owed(b)  PROVE liked'[b] = Owed(b)'
      BY <2>2, <2>3, <3>4, <3>5 DEF NotNegative
    <3> QED  BY <2>6, <3>4, <3>5 DEF Exact
  <2>7. \A b \in Blogs : processing[b] # 0 => AppliesTo(b)
    BY <1>0, <1>2, <2>1 DEF AppliesTo, ApplyBatch
  <2>8. ASSUME NEW b \in Blogs
        PROVE  /\ Exact(b) => Exact(b)'
               /\ baseline[b] # Absent => Owed(b)' = Owed(b) \/ AppliesTo(b)
    <3>1. CASE baseline[b] = Absent
      BY <1>0, <3>1 DEF Exact, redis
    <3>2. CASE baseline[b] # Absent /\ processing[b] # 0
      BY <2>6, <2>7, <3>2
    <3>3. CASE baseline[b] # Absent /\ processing[b] = 0
      <4>1. Owed(b) \in Int
        BY <3>3, FS_CardinalityType DEF Owed, Unapplied, TypeOK, CountsInv
      <4> QED  BY <2>6, <3>3, <4>1
    <3> QED  BY <3>1, <3>2, <3>3
  <2>9. KeepsBacklog
    BY <2>8 DEF KeepsBacklog
  <2> QED  BY <2>4, <2>5, <2>9
<1> QED  BY <1>1, <1>2

\* Only the batch that is in the database is deleted.
LEMMA AckFacts ==
  ASSUME IInv, NEW i \in Instances, AckBatch(i), batch = id[i]
  PROVE  batch \in applied
<1>1. pc[i] = "ack"
  BY DEF IInv, FlushInv, IdInv, AckBatch
<1> QED  BY <1>1 DEF IInv, FlushInv, IdInv

LEMMA AckKeepsData ==
  ASSUME IInv, NEW i \in Instances, AckBatch(i)
  PROVE  DataInv' /\ KeepsBacklog
<1> USE DEF IInv, DataInv
<1>0. UNCHANGED <<likes, count, baseline, delta, dirty, tracked, liked, applied, seed>>
  BY DEF AckBatch, db
<1>1. CASE batch # id[i]
  <2>1. UNCHANGED <<processing, batch>>
    BY <1>1 DEF AckBatch
  <2> QED  BY <1>0, <2>1 DEF CountsInv, OldDataInv, CountExact, QueueExact, KeepsBacklog, Exact, Owed, Unapplied
<1>2. CASE batch = id[i]
  <2>1. batch' = NoBatch /\ processing' = NoDelta /\ batch \in applied
    BY <1>2, AckFacts DEF AckBatch
  <2>2. CountsInv' /\ OldDataInv' /\ CountExact' /\ QueueExact'
    BY <1>0, <2>1 DEF CountsInv, OldDataInv, CountExact, QueueExact, NoDelta
  <2>3. \A b \in Blogs : Unapplied(b) = 0 /\ Unapplied(b)' = 0
    BY <2>1 DEF Unapplied, NoDelta
  <2> QED  BY <1>0, <2>2, <2>3 DEF KeepsBacklog, Exact, Owed
<1> QED  BY <1>1, <1>2

-----------------------------------------------------------------------------
\* The reconciliation.

LEMMA PrepareFacts ==
  ASSUME IInv, NEW i \in Instances, PrepareReconciliation(i)
  PROVE  /\ Head(todo[i]) \in Blogs /\ count' \in [Blogs -> Int]
         /\ \A b \in Blogs :
              \/ count'[b] = count[b]
              \/ baseline[b] # Absent /\ count'[b] = baseline[b] + Cardinality(likes[b])
<1> DEFINE h == Head(todo[i])
<1>1. h \in Blogs
  BY DEF IInv, TypeOK, JobsInv, JobInv, PrepareReconciliation
<1>2. \/ UNCHANGED count
      \/ baseline[h] # Absent /\ count' = [count EXCEPT ![h] = baseline[h] + Cardinality(likes[h])]
  BY DEF PrepareReconciliation, Settled
<1> HIDE DEF h
<1>3. baseline[h] + Cardinality(likes[h]) \in Int
  BY <1>1, FS_CardinalityType DEF IInv, DataInv, CountsInv, TypeOK
<1>4. count \in [Blogs -> Int]
  BY DEF IInv, TypeOK
<1>5. /\ count' \in [Blogs -> Int]
      /\ \A b \in Blogs :
           \/ count'[b] = count[b]
           \/ baseline[b] # Absent /\ count'[b] = baseline[b] + Cardinality(likes[b])
  BY <1>1, <1>2, <1>3, <1>4
<1> QED  BY <1>1, <1>5 DEF h

LEMMA PrepareKeepsData ==
  ASSUME IInv, NEW i \in Instances, PrepareReconciliation(i)
  PROVE  DataInv' /\ KeepsBacklog
<1> USE DEF IInv, DataInv
<1>0. UNCHANGED <<likes, baseline, delta, dirty, processing, batch, tracked, liked, applied, seed>>
  BY DEF PrepareReconciliation, db
<1>1. CountsInv' /\ OldDataInv' /\ CountExact'
  <2>1. \A b \in Blogs : Cardinality(likes[b]) \in Nat
    BY FS_CardinalityType DEF CountsInv
  <2>2. \A b \in Blogs : \/ count'[b] = count[b]
                         \/ baseline[b] # Absent /\ count'[b] = baseline[b] + Cardinality(likes[b])
    BY PrepareFacts DEF TypeOK
  <2> QED  BY <1>0, <2>1, <2>2 DEF CountsInv, OldDataInv, CountExact
<1>2. QueueExact' /\ KeepsBacklog
  BY <1>0 DEF QueueExact, KeepsBacklog, Exact, Owed, Unapplied
<1> QED  BY <1>1, <1>2

\* Only a counter of a reading that differs changes.
LEMMA OverwriteKeepsData ==
  ASSUME IInv, NEW i \in Instances, Overwrite(i)
  PROVE  /\ DataInv'
         /\ UNCHANGED <<redis, applied>>
         /\ liked' = [b \in Blogs |-> IF counts[i][b] = Absent THEN liked[b] ELSE counts[i][b]]
         /\ \A b \in Blogs : Owed(b)' = Owed(b)
         /\ \A b \in Blogs : counts[i][b] \in {Absent, liked[b]} /\ Exact(b) => Exact(b)'
<1> USE DEF IInv, DataInv
<1>0. UNCHANGED <<redis, applied, seed>>
  BY DEF Overwrite
<1>1. liked' = [b \in Blogs |-> IF counts[i][b] = Absent THEN liked[b] ELSE counts[i][b]]
  BY DEF Overwrite
<1>2. CountsInv' /\ CountExact' /\ QueueExact'
  BY <1>0 DEF redis, CountsInv, CountExact, QueueExact
<1>3. OldDataInv'
  BY <1>0, <1>1 DEF redis, OldDataInv, JobsInv, JobInv
<1>4. \A b \in Blogs : Owed(b)' = Owed(b) /\ baseline'[b] = baseline[b]
  BY <1>0 DEF redis, Owed, Unapplied
<1>5. \A b \in Blogs : counts[i][b] \in {Absent, liked[b]} => liked'[b] = liked[b]
  BY <1>1
<1>6. \A b \in Blogs : counts[i][b] \in {Absent, liked[b]} /\ Exact(b) => Exact(b)'
  BY <1>4, <1>5 DEF Exact
<1> QED  BY <1>0, <1>1, <1>2, <1>3, <1>4, <1>6

\* So nothing changes when the readings agree with the column.
LEMMA OverwriteSame ==
  ASSUME IInv, NEW i \in Instances, Overwrite(i), \A b \in Blogs : counts[i][b] \in {Absent, liked[b]}
  PROVE  liked' = liked
<1>1. liked' = [b \in Blogs |-> IF counts[i][b] = Absent THEN liked[b] ELSE counts[i][b]]
  BY OverwriteKeepsData
<1>2. liked \in [Blogs -> Nat]
  BY DEF IInv, TypeOK
<1> QED  BY <1>1, <1>2

LEMMA RotateFacts ==
  ASSUME IInv, NEW i \in Instances, Rotate(i)
  PROVE  Head(todo[i]) \in Blogs /\ tracked' \in Queue /\ ToSet(tracked') = ToSet(tracked)
<1> DEFINE b == Head(todo[i])
<1>0. todo[i] \in Seq(Blogs) /\ todo[i] # <<>> /\ tracked \in Queue
  BY DEF IInv, DataInv, QueueExact, TypeOK, JobsInv, JobInv, Rotate, Queue
<1>1. b \in Blogs /\ b \in ToSet(todo[i])
  BY <1>0 DEF ToSet
<1>2. b \in ToSet(tracked)
  BY <1>1 DEF IInv, DataInv, QueueExact, JobsInv, JobInv
<1>3. Without(tracked, b) \in Queue /\ ToSet(Without(tracked, b)) = ToSet(tracked) \ {b}
  BY <1>0, WithoutFacts
<1>4. /\ Append(Without(tracked, b), b) \in Queue
      /\ ToSet(Append(Without(tracked, b), b)) = ToSet(Without(tracked, b)) \cup {b}
  BY <1>1, <1>3, AddFacts
<1> QED  BY <1>1, <1>2, <1>3, <1>4 DEF Rotate

LEMMA RotateKeepsData ==
  ASSUME IInv, NEW i \in Instances, Rotate(i)
  PROVE  DataInv' /\ KeepsBacklog
<1>1. UNCHANGED <<likes, count, baseline, delta, dirty, processing, batch, liked, applied, seed>>
  BY DEF Rotate, db
<1>2. QueueExact'
  BY <1>1, RotateFacts DEF IInv, DataInv, QueueExact, Queue
<1> QED
  BY <1>1, <1>2 DEF IInv, DataInv, CountsInv, OldDataInv, CountExact, KeepsBacklog, Exact, Owed, Unapplied

-----------------------------------------------------------------------------
\* The scheduler threads.

\* A thread leaves its job.
Exit(i) ==
  /\ \E p \in {"idle", "unlockFlush", "unlockReconcile"} : pc' = [pc EXCEPT ![i] = p]
  /\ Forget(i)

LEMMA ExitFacts ==
  ASSUME NEW i \in Instances
  PROVE  /\ Leave(i) => Exit(i)
         /\ Crash(i) => Exit(i)
         /\ CallFails(i) => Exit(i)
         /\ Unlock(i) => Exit(i)
BY DEF Leave, Crash, CallFails, Unlock, Reply, Exit, Goto

\* A blog keeps its baseline.
LEMMA BaselineStays ==
  ASSUME IInv, [Next]_vars
  PROVE  \A b \in Blogs : baseline[b] # Absent => baseline'[b] # Absent
<1>1. CASE UNCHANGED baseline
  BY <1>1
<1>2. ASSUME NEW u \in Users, LikeSeeded(u) \/ \E b \in Blogs : Like(u, b)
      PROVE  \A c \in Blogs : baseline[c] # Absent => baseline'[c] # Absent
  <2>1. PICK b \in Blogs, change \in {-1, 1} : Base(b) \in Nat /\ Toggled(b, Base(b), change)
    BY <1>2, LikeFacts DEF IInv
  <2> QED  BY <2>1 DEF Toggled, IInv, TypeOK, Absent
<1>3. ASSUME NEW u \in Users, NEW b \in Blogs, ReadLiked(u, b)
      PROVE  UNCHANGED baseline
  BY <1>3 DEF ReadLiked, redis
<1>4. ASSUME NEW i \in Instances,
             \/ StartFlush(i) \/ StartReconcile(i) \/ StartCleanup(i)
             \/ Flush(i) \/ Reconcile(i) \/ \E old \in SUBSET Batches : DeleteBatches(i, old)
             \/ Unlock(i) \/ CallFails(i) \/ Crash(i)
      PROVE  UNCHANGED baseline
  BY <1>4 DEF StartFlush, StartReconcile, StartCleanup, Flush, ClaimDelta, ReadDelta, ApplyBatch,
              AckBatch, Reconcile, FindDue, PrepareReconciliation, Overwrite, Rotate, DeleteBatches,
              Unlock, CallFails, Crash, redis
<1>5. ASSUME NEW l \in Locks, LeaseExpires(l)  PROVE UNCHANGED baseline
  BY <1>5 DEF LeaseExpires, redis
<1>6. UNCHANGED vars => UNCHANGED baseline
  BY DEF vars, redis
<1> QED  BY <1>1, <1>2, <1>3, <1>4, <1>5, <1>6 DEF Next

\* Which step moves a thread, and which one the batches.
LEMMA StepCases ==
  ASSUME IInv, [Next]_vars
  PROVE  \/ UNCHANGED <<thread, processing, batch, applied>>
         \/ \E i \in Instances :
              \/ /\ UNCHANGED <<processing, batch, applied>>
                 /\ \/ Exit(i) \/ StartFlush(i) \/ StartReconcile(i) \/ StartCleanup(i)
                    \/ Reconcile(i)
              \/ Flush(i) \/ \E old \in SUBSET Batches : DeleteBatches(i, old)
<1>1. ASSUME NEW u \in Users, LikeSeeded(u) \/ \E b \in Blogs : Like(u, b) \/ ReadLiked(u, b)
      PROVE  UNCHANGED <<thread, processing, batch, applied>>
  BY <1>1 DEF LikeSeeded, Like, ReadLiked, ToggleLike, redis, db
<1>2. ASSUME NEW l \in Locks, LeaseExpires(l)
      PROVE  UNCHANGED <<thread, processing, batch, applied>>
  BY <1>2 DEF LeaseExpires, redis, db
<1>3. UNCHANGED vars => UNCHANGED <<thread, processing, batch, applied>>
  BY DEF vars, redis, db
<1>4. ASSUME NEW i \in Instances,
             StartFlush(i) \/ StartReconcile(i) \/ StartCleanup(i) \/ Reconcile(i)
      PROVE  UNCHANGED <<processing, batch, applied>>
  BY <1>4 DEF StartFlush, StartReconcile, StartCleanup, Reconcile, FindDue, PrepareReconciliation,
              Overwrite, Rotate, redis, db
<1>5. ASSUME NEW i \in Instances, Unlock(i) \/ CallFails(i) \/ Crash(i)
      PROVE  Exit(i) /\ UNCHANGED <<processing, batch, applied>>
  BY <1>5, ExitFacts DEF Unlock, CallFails, Crash, redis, db
<1> QED  BY <1>1, <1>2, <1>3, <1>4, <1>5 DEF Next

LEMMA JobsNext ==
  ASSUME IInv, [Next]_vars
  PROVE  JobsInv'
<1> DEFINE Working == {"prepare", "overwrite", "rotate"}
<1>0. /\ pc \in [Instances -> Pc] /\ counts \in [Instances -> [Blogs -> Int]]
      /\ due \in [Instances -> Seq(Blogs)] /\ todo \in [Instances -> Seq(Blogs)]
      /\ \A i \in Instances : JobInv(i)
  BY DEF IInv, TypeOK, JobsInv
<1>1. \A b \in Blogs : baseline[b] # Absent => baseline'[b] # Absent
  BY BaselineStays
<1>a. ASSUME NEW j \in Instances, UNCHANGED <<due[j], todo[j], counts[j]>>,
             pc'[j] = pc[j] \/ {pc[j], pc'[j]} \cap Working = {}
      PROVE  JobInv(j)'
  <2>1. ToSet(due[j]) \cup ToSet(todo[j]) \subseteq Blogs
    BY <1>0 DEF ToSet
  <2> QED  BY <1>0, <1>1, <1>a, <2>1 DEF JobInv
<1>2. ASSUME UNCHANGED thread  PROVE JobsInv'
  BY <1>a, <1>2 DEF thread, work, JobsInv
<1>3. ASSUME NEW i \in Instances, Exit(i)  PROVE JobsInv'
  <2>1. JobInv(i)'
    BY <1>0, <1>3 DEF Exit, Forget, NoCounts, ToSet, JobInv
  <2>2. ASSUME NEW j \in Instances \ {i}  PROVE JobInv(j)'
    BY <1>0, <1>a, <1>3 DEF Exit, Forget
  <2> QED  BY <2>1, <2>2 DEF JobsInv
<1>4. ASSUME NEW i \in Instances, pc[i] \notin Working, UNCHANGED <<due, todo, counts>>,
             NEW p \in Pc \ Working, Goto(i, p)
      PROVE  JobsInv'
  BY <1>0, <1>a, <1>4 DEF Goto, JobsInv
<1>5. ASSUME NEW i \in Instances, StartFlush(i) \/ StartReconcile(i) \/ StartCleanup(i)
      PROVE  JobsInv'
  BY <1>2, <1>4, <1>5 DEF StartFlush, StartReconcile, StartCleanup, thread, work, Pc
<1>6. ASSUME NEW i \in Instances, Flush(i)
      PROVE  JobsInv'
  BY <1>3, <1>4, <1>6, ExitFacts
     DEF Flush, ClaimDelta, ReadDelta, ApplyBatch, AckBatch, Reply, work, Pc
<1>7. ASSUME NEW i \in Instances, NEW n \in 0..ReconcileBatch, FindDue(i, n)
      PROVE  JobsInv'
  <2>1. CASE n = 0
    BY <1>3, <1>7, <2>1, ExitFacts DEF FindDue
  <2>2. CASE n # 0
    <3> DEFINE ids == SubSeq(tracked, 1, n)
    <3>1. ids \in Seq(Blogs) /\ ids # <<>> /\ \A b \in ToSet(ids) : baseline[b] # Absent
      <4>1. tracked \in Queue /\ n \in 0..Len(tracked)
        BY <1>7 DEF IInv, TypeOK, DataInv, QueueExact, Queue, FindDue
      <4>2. ids \in Seq(Blogs) /\ Len(ids) = n
        BY <4>1 DEF Queue
      <4> QED  BY <2>2, <4>1, <4>2, SplitFacts DEF IInv, DataInv, QueueExact
    <3>2. /\ pc[i] = "find" /\ Goto(i, "prepare") /\ due' = [due EXCEPT ![i] = ids]
          /\ todo' = [todo EXCEPT ![i] = ids] /\ UNCHANGED counts
      BY <1>7, <2>2 DEF FindDue
    <3> HIDE DEF ids
    <3>3. JobInv(i)'
      <4>1. due'[i] = ids /\ todo'[i] = ids /\ pc'[i] = "prepare" /\ counts'[i] = counts[i]
        BY <1>0, <3>2 DEF Goto
      <4>2. ToSet(ids) \subseteq Blogs
        BY <3>1 DEF ToSet
      <4> QED  BY <1>0, <1>1, <3>1, <3>2, <4>1, <4>2 DEF JobInv
    <3>4. \A j \in Instances \ {i} : JobInv(j)'
      BY <1>0, <1>a, <3>2 DEF Goto
    <3> QED  BY <3>3, <3>4 DEF JobsInv
  <2> QED  BY <2>1, <2>2
<1>8. ASSUME NEW i \in Instances, PrepareReconciliation(i)
      PROVE  JobsInv'
  <2> DEFINE h == Head(todo[i])
             e == baseline[h] + Cardinality(likes[h])
             read == IF Settled(h) THEN [counts[i] EXCEPT ![h] = e] ELSE counts[i]
             last == Len(todo[i]) = 1
  <2>1. /\ pc[i] = "prepare" /\ todo[i] \in Seq(Blogs) /\ todo[i] # <<>> /\ due[i] # <<>>
        /\ counts[i] \in [Blogs -> Int] /\ h \in Blogs
    BY <1>0, <1>8 DEF PrepareReconciliation, JobInv
  <2>2. \A b \in Blogs : read[b] # Absent => read[b] \in Nat /\ baseline[b] # Absent
    <3>1. Settled(h) => e \in Nat /\ baseline[h] # Absent
      BY <2>1, FS_CardinalityType DEF IInv, DataInv, CountsInv, Settled
    <3> HIDE DEF e, h
    <3> QED  BY <1>0, <2>1, <3>1 DEF JobInv
  <2>3. CASE /\ counts' = [counts EXCEPT ![i] = read]
             /\ todo' = [todo EXCEPT ![i] = IF last THEN due[i] ELSE Tail(@)]
             /\ IF last THEN AfterPrepare(i, read) ELSE Goto(i, "prepare")
             /\ UNCHANGED <<id, deltas, due, candidates>>
    <3>1. /\ counts'[i] = read /\ due'[i] = due[i]
          /\ todo'[i] = IF last THEN due[i] ELSE Tail(todo[i])
          /\ pc'[i] \in Working /\ (pc'[i] = "prepare" => ~last)
      BY <1>0, <2>3 DEF AfterPrepare, Goto
    <3>2. /\ todo'[i] # <<>>
          /\ ToSet(todo'[i]) \subseteq ToSet(due[i]) \cup ToSet(todo[i])
      <4>1. CASE last
        BY <2>1, <3>1, <4>1
      <4>2. CASE ~last
        BY <2>1, <3>1, <4>2, TailOfQueue
      <4> QED  BY <4>1, <4>2
    <3>3. JobInv(i)'
      <4>1. ToSet(due[i]) \cup ToSet(todo[i]) \subseteq Blogs
        BY <1>0 DEF ToSet
      <4> HIDE DEF read, last
      <4> QED  BY <1>0, <1>1, <2>1, <2>2, <3>1, <3>2, <4>1 DEF JobInv
    <3>4. \A j \in Instances \ {i} : JobInv(j)'
      BY <1>0, <1>a, <2>3 DEF AfterPrepare, Goto
    <3> QED  BY <3>3, <3>4 DEF JobsInv
  <2> QED  BY <1>3, <1>8, <2>3, ExitFacts DEF PrepareReconciliation, Reply
<1>9. ASSUME NEW i \in Instances, Overwrite(i)
      PROVE  JobsInv'
  <2>1. CASE Goto(i, "rotate") /\ UNCHANGED work
    <3>1. \A j \in Instances \ {i} : JobInv(j)'
      BY <1>0, <1>a, <2>1 DEF Goto, work
    <3>2. JobInv(i)'
      <4>1. ToSet(due[i]) \cup ToSet(todo[i]) \subseteq Blogs
        BY <1>0 DEF ToSet
      <4> QED  BY <1>0, <1>1, <1>9, <2>1, <4>1 DEF Overwrite, Goto, work, JobInv
    <3> QED  BY <3>1, <3>2 DEF JobsInv
  <2> QED  BY <1>3, <1>9, <2>1, ExitFacts DEF Overwrite, Reply
<1>10. ASSUME NEW i \in Instances, Rotate(i)
      PROVE  JobsInv'
  <2>1. CASE /\ Len(todo[i]) # 1 /\ todo' = [todo EXCEPT ![i] = Tail(@)]
             /\ UNCHANGED <<pc, id, deltas, due, counts, candidates>>
    <3>1. todo[i] \in Seq(Blogs) /\ todo[i] # <<>> /\ todo'[i] = Tail(todo[i]) /\ pc[i] = "rotate"
      BY <1>0, <1>10, <2>1 DEF Rotate, JobInv
    <3>2. todo'[i] # <<>> /\ ToSet(todo'[i]) \subseteq ToSet(todo[i])
      BY <2>1, <3>1, TailOfQueue
    <3>3. JobInv(i)'
      <4>1. ToSet(due[i]) \cup ToSet(todo[i]) \subseteq Blogs
        BY <1>0 DEF ToSet
      <4> QED  BY <1>0, <1>1, <2>1, <3>1, <3>2, <4>1 DEF JobInv
    <3>4. \A j \in Instances \ {i} : JobInv(j)'
      BY <1>0, <1>a, <2>1
    <3> QED  BY <3>3, <3>4 DEF JobsInv
  <2> QED  BY <1>3, <1>10, <2>1, ExitFacts DEF Rotate, Reply
<1>11. ASSUME NEW i \in Instances, NEW old \in SUBSET Batches, DeleteBatches(i, old)
      PROVE  JobsInv'
  BY <1>3, <1>11, ExitFacts DEF DeleteBatches, Reply
<1> QED
  BY <1>2, <1>3, <1>5, <1>6, <1>7, <1>8, <1>9, <1>10, <1>11, StepCases DEF Reconcile


LEMMA FlushNext ==
  ASSUME IInv, [Next]_vars
  PROVE  FlushInv'
<1> DEFINE Flushing == {"claim", "read", "apply", "ack", "ackEmpty"}
<1>0. /\ pc \in [Instances -> Pc] /\ id \in [Instances -> Batches \cup {NoBatch}]
      /\ deltas \in [Instances -> [Blogs -> Int]] /\ candidates \in [Instances -> SUBSET Batches]
      /\ batch \in Batches \cup {NoBatch} /\ applied \subseteq Batches /\ NoBatch \notin Batches
      /\ batch = NoBatch <=> processing = NoDelta
      /\ \A i \in Instances : IdInv(i)
  BY NamesAssumption DEF IInv, TypeOK, FlushInv, DataInv, QueueExact
\* Exit of one thread, seen from itself and from the others.
<1>1. ASSUME NEW i \in Instances, Exit(i)
      PROVE  /\ pc'[i] \notin Flushing /\ id'[i] = NoBatch /\ candidates'[i] = {}
             /\ IdInv(i)'
             /\ \A j \in Instances \ {i} :
                  UNCHANGED <<pc[j], id[j], deltas[j], candidates[j]>>
  BY <1>0, <1>1 DEF Exit, Forget, IdInv
<1>2. ASSUME UNCHANGED <<thread, processing, batch, applied>>  PROVE FlushInv'
  BY <1>0, <1>2 DEF thread, work, FlushInv, IdInv
<1>3. ASSUME NEW i \in Instances, Exit(i), UNCHANGED <<processing, batch, applied>>
      PROVE  FlushInv'
  BY <1>0, <1>1, <1>3 DEF FlushInv, IdInv
<1>4. ASSUME NEW i \in Instances, {pc[i], pc'[i]} \cap Flushing = {},
             pc' = [pc EXCEPT ![i] = pc'[i]],
             UNCHANGED <<id, deltas, candidates, processing, batch, applied>>
      PROVE  FlushInv'
  BY <1>0, <1>4 DEF FlushInv, IdInv
<1>5. ASSUME NEW i \in Instances, StartFlush(i), UNCHANGED <<processing, batch, applied>>
      PROVE  FlushInv'
  <2>1. CASE Spend("redis") /\ UNCHANGED thread
    BY <1>2, <1>5, <2>1
  <2>2. ASSUME NEW new \in NewIds, Goto(i, "claim"), id' = [id EXCEPT ![i] = new],
               UNCHANGED <<deltas, candidates>>
        PROVE  FlushInv'
    <3>1. /\ new \in Batches /\ new \notin applied \cup {batch}
          /\ \A j \in Instances : new # id[j] /\ new \notin candidates[j]
      BY DEF NewIds
    <3>2. pc' = [pc EXCEPT ![i] = "claim"]
      BY <2>2 DEF Goto
    <3> QED  BY <1>0, <1>5, <2>2, <3>1, <3>2 DEF FlushInv, IdInv
  <2> QED  BY <1>5, <2>1, <2>2 DEF StartFlush
<1>6. ASSUME NEW i \in Instances, StartReconcile(i), UNCHANGED <<processing, batch, applied>>
      PROVE  FlushInv'
  <2>1. CASE Goto(i, "find")
    BY <1>0, <1>4, <1>6, <2>1 DEF StartReconcile, work, Goto
  <2> QED  BY <1>2, <1>6, <2>1 DEF StartReconcile, work, thread
<1>7. ASSUME NEW i \in Instances, StartCleanup(i), UNCHANGED <<processing, batch, applied>>
      PROVE  FlushInv'
  <2>1. /\ pc' = [pc EXCEPT ![i] = "delete"] /\ UNCHANGED <<id, deltas>>
        /\ candidates' = [candidates EXCEPT ![i] = applied \ {batch}]
    BY <1>7 DEF StartCleanup, Goto, Deletable
  <2> QED  BY <1>0, <1>7, <2>1 DEF FlushInv, IdInv
<1>8. ASSUME NEW i \in Instances, Reconcile(i), UNCHANGED <<processing, batch, applied>>
      PROVE  FlushInv'
  <2>1. \/ Exit(i)
        \/ /\ {pc[i], pc'[i]} \cap Flushing = {} /\ pc' = [pc EXCEPT ![i] = pc'[i]]
           /\ UNCHANGED <<id, deltas, candidates>>
    <3>1. ASSUME NEW n \in 0..ReconcileBatch, FindDue(i, n)
          PROVE  \/ Exit(i)
                 \/ /\ {pc[i], pc'[i]} \cap Flushing = {} /\ pc' = [pc EXCEPT ![i] = pc'[i]]
                    /\ UNCHANGED <<id, deltas, candidates>>
      BY <1>0, <3>1, ExitFacts DEF FindDue, Goto
    <3>2. CASE PrepareReconciliation(i) \/ Overwrite(i) \/ Rotate(i)
      BY <1>0, <3>2, ExitFacts
         DEF PrepareReconciliation, Overwrite, Rotate, Reply, AfterPrepare, Goto, work
    <3> QED  BY <1>8, <3>1, <3>2 DEF Reconcile
  <2> QED  BY <1>3, <1>4, <1>8, <2>1
<1>9. ASSUME NEW i \in Instances, ClaimDelta(i)  PROVE FlushInv'
  <2>1. pc[i] = "claim" /\ UNCHANGED applied /\ id[i] \in Batches
    BY <1>0, <1>9 DEF ClaimDelta, db, IdInv
  <2>2. CASE batch # NoBatch
    <3>1. /\ UNCHANGED <<processing, batch, applied>>
          /\ \/ Exit(i)
             \/ Goto(i, "read") /\ id' = [id EXCEPT ![i] = batch] /\ UNCHANGED <<deltas, candidates>>
      BY <1>9, <2>1, <2>2, ExitFacts DEF ClaimDelta, Reply, redis
    <3>2. CASE Goto(i, "read") /\ id' = [id EXCEPT ![i] = batch] /\ UNCHANGED <<deltas, candidates>>
      <4>1. pc' = [pc EXCEPT ![i] = "read"]
        BY <3>2 DEF Goto
      <4> QED  BY <1>0, <2>2, <3>1, <3>2, <4>1 DEF FlushInv, IdInv
    <3> QED  BY <1>3, <3>1, <3>2
  <2>3. CASE batch = NoBatch
    <3>1. batch' \in {NoBatch, id[i]}
      BY <1>9, <2>3, ClaimFacts DEF IInv
    <3>2. Exit(i) \/ (pc' = [pc EXCEPT ![i] = "read"] /\ UNCHANGED <<id, deltas, candidates>>)
      BY <1>9, <2>3, ExitFacts DEF ClaimDelta, Reply, Goto, work
    <3>3. \A j \in Instances \ {i} : pc[j] = "apply" => id[j] \in applied
      BY <1>0, <2>3 DEF IdInv
    <3>4. \A j \in Instances : id[i] \notin candidates[j] /\ (id[j] = id[i] => j = i)
      BY <1>0, <2>1 DEF IdInv
    <3>5. CASE Exit(i)
      <4>1. \A j \in Instances \ {i} : IdInv(j)'
        BY <1>0, <1>1, <2>1, <2>3, <3>1, <3>3, <3>4, <3>5 DEF IdInv
      <4> QED  BY <1>1, <3>5, <4>1 DEF FlushInv
    <3>6. CASE pc' = [pc EXCEPT ![i] = "read"] /\ UNCHANGED <<id, deltas, candidates>>
      BY <1>0, <2>1, <2>3, <3>1, <3>3, <3>4, <3>6 DEF FlushInv, IdInv
    <3> QED  BY <3>2, <3>5, <3>6
  <2> QED  BY <2>2, <2>3
<1>10. ASSUME NEW i \in Instances, ReadDelta(i)  PROVE FlushInv'
  <2>1. /\ pc[i] = "read" /\ id[i] \in Batches
        /\ UNCHANGED <<processing, batch, applied, id, candidates>>
    BY <1>0, <1>10 DEF ReadDelta, redis, db, IdInv
  <2>2. CASE batch = id[i] /\ processing # NoDelta
    <3>1. pc' = [pc EXCEPT ![i] = "apply"] /\ deltas' = [deltas EXCEPT ![i] = processing]
      BY <1>10, <2>2 DEF ReadDelta, Goto
    <3> QED  BY <1>0, <2>1, <2>2, <3>1 DEF FlushInv, IdInv
  <2>3. CASE ~(batch = id[i] /\ processing # NoDelta)
    <3>1. pc' = [pc EXCEPT ![i] = "ackEmpty"] /\ UNCHANGED deltas
      BY <1>10, <2>3 DEF ReadDelta, Goto
    <3>2. batch # id[i]
      BY <1>0, <2>1, <2>3
    <3> QED  BY <1>0, <2>1, <3>1, <3>2 DEF FlushInv, IdInv
  <2> QED  BY <2>2, <2>3
<1>11. ASSUME NEW i \in Instances, ApplyBatch(i)  PROVE FlushInv'
  <2>1. /\ pc[i] = "apply" /\ id[i] \in Batches /\ applied' = applied \cup {id[i]}
        /\ UNCHANGED <<processing, batch>>
        /\ Exit(i) \/ (pc' = [pc EXCEPT ![i] = "ack"] /\ UNCHANGED <<id, deltas, candidates>>)
    BY <1>0, <1>11, ExitFacts DEF ApplyBatch, Reply, Goto, redis, work, IdInv
  <2>2. \A j \in Instances : pc[j] = "claim" => id[j] # id[i]
    BY <1>0, <2>1 DEF IdInv
  <2>3. CASE Exit(i)
    <3>1. \A j \in Instances \ {i} : IdInv(j)'
      BY <1>0, <1>1, <2>1, <2>2, <2>3 DEF IdInv
    <3> QED  BY <1>1, <2>3, <3>1 DEF FlushInv
  <2>4. CASE pc' = [pc EXCEPT ![i] = "ack"] /\ UNCHANGED <<id, deltas, candidates>>
    BY <1>0, <2>1, <2>2, <2>4 DEF FlushInv, IdInv
  <2> QED  BY <2>1, <2>3, <2>4
<1>12. ASSUME NEW i \in Instances, AckBatch(i)  PROVE FlushInv'
  <2>1. Exit(i) /\ UNCHANGED applied
    BY <1>12, ExitFacts DEF AckBatch, Reply, db
  <2>2. CASE batch # id[i]
    BY <1>3, <1>12, <2>1, <2>2 DEF AckBatch
  <2>3. CASE batch = id[i]
    <3>1. batch' = NoBatch /\ batch \in applied
      BY <1>12, <2>3, AckFacts DEF AckBatch
    <3>2. \A j \in Instances \ {i} : IdInv(j)'
      BY <1>0, <1>1, <2>1, <3>1 DEF IdInv
    <3> QED  BY <1>1, <2>1, <3>2 DEF FlushInv
  <2> QED  BY <2>2, <2>3
<1>13. ASSUME NEW i \in Instances, NEW old \in SUBSET Batches, DeleteBatches(i, old)
       PROVE  FlushInv'
  <2>1. /\ Exit(i) /\ UNCHANGED <<processing, batch>> /\ applied' = applied \ old
        /\ \A j \in Instances : id[j] \notin old
    BY <1>13, ExitFacts DEF DeleteBatches, Reply, redis
  <2>2. \A j \in Instances \ {i} : IdInv(j)'
    BY <1>0, <1>1, <2>1 DEF IdInv
  <2> QED  BY <1>1, <2>1, <2>2 DEF FlushInv
<1> QED
  BY <1>2, <1>3, <1>5, <1>6, <1>7, <1>8, <1>9, <1>10, <1>11, <1>12, <1>13, StepCases DEF Flush

-----------------------------------------------------------------------------
\* Every step.

LEMMA ReadLikedKeepsData ==
  ASSUME IInv, NEW u \in Users, NEW b \in Blogs, ReadLiked(u, b)
  PROVE  DataInv' /\ KeepsBacklog
<1> USE DEF IInv, DataInv
<1>1. UNCHANGED <<redis, db>> /\ seed' = [seed EXCEPT ![u] = [blog |-> b, liked |-> liked[b]]]
  BY DEF ReadLiked
<1>2. baseline[b] = Absent
  BY FS_CardinalityType DEF CountsInv, CountExact, ReadLiked, Absent
<1>3. liked[b] = OldLiked[b]
  BY <1>2 DEF OldDataInv
<1>4. OldDataInv'
  BY <1>1, <1>3 DEF OldDataInv, TypeOK, redis, db
<1> QED
  BY <1>1, <1>4 DEF CountsInv, CountExact, QueueExact, KeepsBacklog, Exact, Owed, Unapplied, redis, db

LEMMA LikeKeepsData ==
  ASSUME IInv, NEW u \in Users, LikeSeeded(u) \/ \E b \in Blogs : Like(u, b)
  PROVE  DataInv' /\ KeepsBacklog
<1>1. PICK b \in Blogs, change \in {-1, 1} : Base(b) \in Nat /\ Toggled(b, Base(b), change)
  BY LikeFacts DEF IInv
<1>2. UNCHANGED db /\ \A v \in Users : seed'[v] \in {seed[v], NoRequest}
  BY DEF LikeSeeded, Like, IInv, TypeOK
<1> QED  BY <1>1, <1>2, ToggledKeepsData DEF IInv

\* Batches that a cleanup deletes are not the active one.
LEMMA DeleteKeepsData ==
  ASSUME IInv, NEW i \in Instances, NEW old \in SUBSET Batches, DeleteBatches(i, old)
  PROVE  DataInv' /\ KeepsBacklog
<1>1. UNCHANGED <<redis, liked, seed>> /\ (batch \in applied' <=> batch \in applied)
  BY DEF DeleteBatches, IInv, FlushInv, IdInv
<1> QED
  BY <1>1 DEF IInv, DataInv, CountsInv, OldDataInv, CountExact, QueueExact, KeepsBacklog, Exact, Owed, Unapplied, redis

LEMMA SameKeepsData ==
  ASSUME IInv, UNCHANGED <<redis, db, seed>>
  PROVE  DataInv' /\ KeepsBacklog
BY DEF IInv, DataInv, CountsInv, OldDataInv, CountExact, QueueExact, KeepsBacklog, Exact, Owed, Unapplied, redis, db

LEMMA OthersKeepData ==
  ASSUME [Next]_vars
  PROVE  \/ \E u \in Users : LikeSeeded(u) \/ \E b \in Blogs : Like(u, b) \/ ReadLiked(u, b)
         \/ \E i \in Instances :
              \/ ClaimDelta(i) \/ ApplyBatch(i) \/ AckBatch(i)
              \/ PrepareReconciliation(i) \/ Overwrite(i) \/ Rotate(i)
              \/ \E old \in SUBSET Batches : DeleteBatches(i, old)
         \/ UNCHANGED <<redis, db, seed>>
<1>1. ASSUME NEW i \in Instances,
             \/ StartFlush(i) \/ StartReconcile(i) \/ StartCleanup(i) \/ ReadDelta(i)
             \/ \E n \in 0..ReconcileBatch : FindDue(i, n)
             \/ Unlock(i) \/ CallFails(i) \/ Crash(i)
      PROVE  UNCHANGED <<redis, db, seed>>
  BY <1>1 DEF StartFlush, StartReconcile, StartCleanup, ReadDelta, FindDue, Unlock, CallFails, Crash
<1>2. ASSUME NEW l \in Locks, LeaseExpires(l)  PROVE UNCHANGED <<redis, db, seed>>
  BY <1>2 DEF LeaseExpires
<1> QED  BY <1>1, <1>2 DEF Next, Flush, Reconcile, vars

\* All but a reconciliation keeps the backlog exact.
LEMMA DataNext ==
  ASSUME IInv, [Next]_vars
  PROVE  /\ DataInv'
         /\ \A b \in Blogs :
              /\ Exact(b) =>
                   \/ Exact(b)'
                   \/ \E i \in Instances : Overwrite(i) /\ counts[i][b] \notin {Absent, liked[b]}
              /\ baseline[b] # Absent => Owed(b)' = Owed(b) \/ AppliesTo(b)
<1>1. ASSUME NEW u \in Users, LikeSeeded(u) \/ \E b \in Blogs : Like(u, b) \/ ReadLiked(u, b)
      PROVE  DataInv' /\ KeepsBacklog
  BY <1>1, LikeKeepsData, ReadLikedKeepsData
<1>2. ASSUME NEW i \in Instances,
             ClaimDelta(i) \/ ApplyBatch(i) \/ AckBatch(i) \/ PrepareReconciliation(i) \/ Rotate(i)
      PROVE  DataInv' /\ KeepsBacklog
  BY <1>2, ClaimKeepsData, ApplyKeepsData, AckKeepsData, PrepareKeepsData, RotateKeepsData
<1>3. ASSUME NEW i \in Instances, NEW old \in SUBSET Batches, DeleteBatches(i, old)
      PROVE  DataInv' /\ KeepsBacklog
  BY <1>3, DeleteKeepsData
<1>4. UNCHANGED <<redis, db, seed>> => DataInv' /\ KeepsBacklog
  BY SameKeepsData
<1>5. ASSUME NEW i \in Instances, Overwrite(i)
      PROVE  /\ DataInv'
             /\ \A b \in Blogs :
                  /\ Exact(b) => Exact(b)' \/ counts[i][b] \notin {Absent, liked[b]}
                  /\ Owed(b)' = Owed(b)
  BY <1>5, OverwriteKeepsData
<1>6. CASE DataInv' /\ KeepsBacklog
  BY <1>6 DEF KeepsBacklog
<1>7. CASE \E i \in Instances : Overwrite(i)
  BY <1>5, <1>7
<1> QED  BY <1>1, <1>2, <1>3, <1>4, <1>6, <1>7, OthersKeepData

-----------------------------------------------------------------------------
\* Types.

LEMMA StoreTypes ==
  ASSUME IInv, [Next]_vars
  PROVE  /\ likes' \in [Blogs -> SUBSET Users]
         /\ count' \in [Blogs -> Int] /\ baseline' \in [Blogs -> Int]
         /\ delta' \in [Blogs -> Int] /\ processing' \in [Blogs -> Int]
         /\ dirty' \in Seq(Blogs) /\ tracked' \in Seq(Blogs)
         /\ batch' \in Batches \cup {NoBatch}
         /\ liked' \in [Blogs -> Nat]
         /\ applied' \subseteq Batches
         /\ seed' \in [Users -> [blog : Blogs, liked : Nat] \cup {NoRequest}]
<1> DEFINE Goal == /\ likes' \in [Blogs -> SUBSET Users]
                   /\ count' \in [Blogs -> Int] /\ baseline' \in [Blogs -> Int]
                   /\ delta' \in [Blogs -> Int] /\ processing' \in [Blogs -> Int]
                   /\ dirty' \in Seq(Blogs) /\ tracked' \in Seq(Blogs)
                   /\ batch' \in Batches \cup {NoBatch}
                   /\ liked' \in [Blogs -> Nat]
                   /\ applied' \subseteq Batches
                   /\ seed' \in [Users -> [blog : Blogs, liked : Nat] \cup {NoRequest}]
<1>0. /\ TypeOK /\ DataInv /\ JobsInv /\ FlushInv
  BY DEF IInv
<1>1. ASSUME UNCHANGED <<redis, db, seed>>  PROVE Goal
  BY <1>0, <1>1 DEF redis, db, TypeOK
<1>2. ASSUME NEW u \in Users, LikeSeeded(u) \/ \E b \in Blogs : Like(u, b)
      PROVE  Goal
  <2>1. PICK b \in Blogs, change \in {-1, 1} : Base(b) \in Nat /\ Toggled(b, Base(b), change)
    BY <1>0, <1>2, LikeFacts
  <2>2. UNCHANGED db /\ seed' \in [Users -> [blog : Blogs, liked : Nat] \cup {NoRequest}]
    BY <1>0, <1>2 DEF LikeSeeded, Like, TypeOK
  <2>3. Cardinality(likes'[b]) \in Nat /\ change \in Int
    BY <2>1, FS_CardinalityType DEF Toggled
  <2>4. dirty' \in Seq(Blogs) /\ tracked' \in Seq(Blogs)
    BY <2>1 DEF Toggled, Queue
  <2>5. likes' \in [Blogs -> SUBSET Users]
    BY <1>0, <2>1 DEF Toggled, TypeOK
  <2>6. count' \in [Blogs -> Int] /\ baseline' \in [Blogs -> Int] /\ delta' \in [Blogs -> Int]
    BY <1>0, <2>1, <2>3 DEF Toggled, TypeOK
  <2>7. UNCHANGED <<processing, batch, liked, applied>>
    BY <2>1, <2>2 DEF Toggled, db
  <2> QED  BY <1>0, <2>2, <2>4, <2>5, <2>6, <2>7 DEF TypeOK
<1>3. ASSUME NEW u \in Users, NEW b \in Blogs, ReadLiked(u, b)  PROVE Goal
  BY <1>0, <1>3 DEF ReadLiked, redis, db, TypeOK
<1>4. ASSUME NEW i \in Instances, ClaimDelta(i)  PROVE Goal
  <2>1. CASE batch # NoBatch
    BY <1>1, <1>4, <2>1 DEF ClaimDelta
  <2>2. CASE batch = NoBatch
    <3>1. PICK taken \in SUBSET Blogs :
             /\ dirty' \in Queue
             /\ processing' = [b \in Blogs |-> IF b \in taken THEN delta[b] ELSE 0]
             /\ delta' = [b \in Blogs |-> IF b \in taken THEN 0 ELSE delta[b]]
             /\ batch' = IF taken = {} THEN NoBatch ELSE id[i]
             /\ UNCHANGED <<likes, count, baseline, tracked>>
      BY <1>0, <1>4, <2>2, ClaimFacts
    <3>2. UNCHANGED <<liked, applied, seed>> /\ id[i] \in Batches \cup {NoBatch}
      BY <1>0, <1>4 DEF ClaimDelta, db, TypeOK
    <3>3. dirty' \in Seq(Blogs)
      BY <3>1 DEF Queue
    <3>4. delta' \in [Blogs -> Int] /\ processing' \in [Blogs -> Int]
      <4>1. delta \in [Blogs -> Int]
        BY <1>0 DEF TypeOK
      <4> QED  BY <3>1, <4>1
    <3>5. batch' \in Batches \cup {NoBatch}
      BY <3>1, <3>2
    <3> QED  BY <1>0, <3>1, <3>2, <3>3, <3>4, <3>5 DEF TypeOK
  <2> QED  BY <2>1, <2>2
<1>5. ASSUME NEW i \in Instances, ApplyBatch(i)  PROVE Goal
  <2>1. /\ UNCHANGED <<redis, seed>> /\ id[i] \in Batches /\ applied' = applied \cup {id[i]}
        /\ deltas[i] \in [Blogs -> Int] /\ liked \in [Blogs -> Nat]
    BY <1>0, <1>5 DEF ApplyBatch, FlushInv, IdInv, TypeOK
  <2>2. liked' \in [Blogs -> Nat]
    BY <1>5, <2>1 DEF ApplyBatch, NotNegative
  <2> QED  BY <1>0, <2>1, <2>2 DEF TypeOK, redis
<1>6. ASSUME NEW i \in Instances, AckBatch(i)  PROVE Goal
  <2>1. UNCHANGED <<likes, count, baseline, delta, dirty, tracked, liked, applied, seed>>
    BY <1>6 DEF AckBatch, db
  <2>2. batch' \in {batch, NoBatch} /\ processing' \in {processing, NoDelta}
    BY <1>6 DEF AckBatch
  <2>3. NoDelta \in [Blogs -> Int]
    BY DEF NoDelta
  <2> QED  BY <1>0, <2>1, <2>2, <2>3 DEF TypeOK
<1>7. ASSUME NEW i \in Instances, PrepareReconciliation(i)  PROVE Goal
  BY <1>0, <1>7, PrepareFacts DEF PrepareReconciliation, TypeOK, db
<1>8. ASSUME NEW i \in Instances, Overwrite(i)  PROVE Goal
  <2>1. liked' \in [Blogs -> Nat]
    BY <1>0, <1>8 DEF Overwrite, TypeOK, JobsInv, JobInv
  <2> QED  BY <1>0, <1>8, <2>1 DEF Overwrite, TypeOK, redis
<1>9. ASSUME NEW i \in Instances, Rotate(i)  PROVE Goal
  <2>1. UNCHANGED <<likes, count, baseline, delta, dirty, processing, batch, liked, applied, seed>>
    BY <1>9 DEF Rotate, db
  <2>2. tracked' \in Seq(Blogs)
    BY <1>9, RotateFacts DEF Queue
  <2> QED  BY <1>0, <2>1, <2>2 DEF TypeOK
<1>10. ASSUME NEW i \in Instances, NEW old \in SUBSET Batches, DeleteBatches(i, old)  PROVE Goal
  BY <1>0, <1>10 DEF DeleteBatches, TypeOK, redis
<1> HIDE DEF Goal
<1>11. Goal
  BY <1>1, <1>2, <1>3, <1>4, <1>5, <1>6, <1>7, <1>8, <1>9, <1>10, OthersKeepData
<1> QED  BY <1>11 DEF Goal

LEMMA SpendFacts ==
  ASSUME TypeOK, NEW kind \in {"db", "redis", "lease", "crash"}, Spend(kind)
  PROVE  faults' \in [{"db", "redis", "lease", "crash"} -> Nat]
BY DEF TypeOK, Spend


LEMMA ThreadTypes ==
  ASSUME IInv, [Next]_vars
  PROVE  /\ pc' \in [Instances -> Pc]
         /\ id' \in [Instances -> Batches \cup {NoBatch}]
         /\ deltas' \in [Instances -> [Blogs -> Int]]
         /\ due' \in [Instances -> Seq(Blogs)] /\ todo' \in [Instances -> Seq(Blogs)]
         /\ counts' \in [Instances -> [Blogs -> Int]]
         /\ candidates' \in [Instances -> SUBSET Batches]
<1> DEFINE Goal == /\ pc' \in [Instances -> Pc]
                   /\ id' \in [Instances -> Batches \cup {NoBatch}]
                   /\ deltas' \in [Instances -> [Blogs -> Int]]
                   /\ due' \in [Instances -> Seq(Blogs)] /\ todo' \in [Instances -> Seq(Blogs)]
                   /\ counts' \in [Instances -> [Blogs -> Int]]
                   /\ candidates' \in [Instances -> SUBSET Batches]
<1>0. /\ pc \in [Instances -> Pc]
      /\ id \in [Instances -> Batches \cup {NoBatch}]
      /\ deltas \in [Instances -> [Blogs -> Int]]
      /\ due \in [Instances -> Seq(Blogs)] /\ todo \in [Instances -> Seq(Blogs)]
      /\ counts \in [Instances -> [Blogs -> Int]]
      /\ candidates \in [Instances -> SUBSET Batches]
  BY DEF IInv, TypeOK
<1>1. ASSUME UNCHANGED thread  PROVE Goal
  BY <1>0, <1>1 DEF thread, work
<1>2. ASSUME NEW i \in Instances, Exit(i)  PROVE Goal
  <2>1. NoDelta \in [Blogs -> Int] /\ NoCounts \in [Blogs -> Int] /\ <<>> \in Seq(Blogs)
    BY DEF NoDelta, NoCounts, Absent
  <2>2. {"idle", "unlockFlush", "unlockReconcile"} \subseteq Pc
    BY DEF Pc
  <2> QED  BY <1>0, <1>2, <2>1, <2>2 DEF Exit, Forget
<1>3. ASSUME NEW i \in Instances, NEW p \in Pc, Goto(i, p), UNCHANGED work  PROVE Goal
  BY <1>0, <1>3 DEF Goto, work
<1>4. ASSUME NEW i \in Instances, StartFlush(i)  PROVE Goal
  <2>1. CASE UNCHANGED thread
    BY <1>1, <2>1
  <2>2. ASSUME NEW new \in NewIds, Goto(i, "claim"), id' = [id EXCEPT ![i] = new],
               UNCHANGED <<deltas, due, todo, counts, candidates>>
        PROVE  Goal
    <3>1. new \in Batches /\ "claim" \in Pc
      BY DEF NewIds, Pc
    <3> QED  BY <1>0, <2>2, <3>1 DEF Goto
  <2> QED  BY <1>4, <2>1, <2>2 DEF StartFlush
<1>5. ASSUME NEW i \in Instances, StartReconcile(i)  PROVE Goal
  BY <1>1, <1>3, <1>5 DEF StartReconcile, thread, Pc
<1>6. ASSUME NEW i \in Instances, StartCleanup(i)  PROVE Goal
  BY <1>0, <1>6 DEF StartCleanup, Deletable, Goto, Pc, IInv, TypeOK
<1>7. ASSUME NEW i \in Instances, ClaimDelta(i)  PROVE Goal
  <2>1. batch \in Batches \cup {NoBatch} /\ "read" \in Pc
    BY DEF IInv, TypeOK, Pc
  <2>2. \/ Exit(i)
        \/ Goto(i, "read") /\ UNCHANGED work
        \/ /\ Goto(i, "read") /\ id' = [id EXCEPT ![i] = batch]
           /\ UNCHANGED <<deltas, due, todo, counts, candidates>>
    BY <1>7, ExitFacts DEF ClaimDelta, Reply
  <2> QED  BY <1>0, <1>2, <1>3, <2>1, <2>2 DEF Goto
<1>8. ASSUME NEW i \in Instances, ReadDelta(i)  PROVE Goal
  <2>1. processing \in [Blogs -> Int] /\ {"apply", "ackEmpty"} \subseteq Pc
    BY DEF IInv, TypeOK, Pc
  <2>2. /\ \/ Goto(i, "apply") /\ deltas' = [deltas EXCEPT ![i] = processing]
           \/ Goto(i, "ackEmpty") /\ UNCHANGED deltas
        /\ UNCHANGED <<id, due, todo, counts, candidates>>
    BY <1>8 DEF ReadDelta
  <2> QED  BY <1>0, <2>1, <2>2 DEF Goto
<1>9. ASSUME NEW i \in Instances, ApplyBatch(i) \/ AckBatch(i) \/ Overwrite(i)  PROVE Goal
  BY <1>2, <1>3, <1>9, ExitFacts DEF ApplyBatch, AckBatch, Overwrite, Reply, Pc
<1>10. ASSUME NEW i \in Instances, NEW n \in 0..ReconcileBatch, FindDue(i, n)  PROVE Goal
  <2>1. n \in 0..Len(tracked) /\ tracked \in Seq(Blogs)
    BY <1>10 DEF FindDue, IInv, TypeOK
  <2>2. SubSeq(tracked, 1, n) \in Seq(Blogs)
    BY <2>1
  <2> QED  BY <1>0, <1>2, <1>10, <2>2, ExitFacts DEF FindDue, Goto, Pc
<1>11. ASSUME NEW i \in Instances, PrepareReconciliation(i)  PROVE Goal
  <2> DEFINE h == Head(todo[i])
             e == baseline[h] + Cardinality(likes[h])
             read == IF Settled(h) THEN [counts[i] EXCEPT ![h] = e] ELSE counts[i]
             last == Len(todo[i]) = 1
  <2>1. h \in Blogs /\ e \in Int /\ counts[i] \in [Blogs -> Int]
    <3>1. h \in Blogs
      BY <1>11, PrepareFacts
    <3>2. baseline[h] \in Int /\ Cardinality(likes[h]) \in Nat
      BY <3>1, FS_CardinalityType DEF IInv, DataInv, CountsInv, TypeOK
    <3> QED  BY <1>0, <3>1, <3>2
  <2>2. todo[i] \in Seq(Blogs) /\ todo[i] # <<>> /\ due[i] \in Seq(Blogs)
    BY <1>0, <1>11 DEF IInv, JobsInv, JobInv, PrepareReconciliation
  <2> HIDE DEF h, e
  <2>3. read \in [Blogs -> Int] /\ Tail(todo[i]) \in Seq(Blogs)
    BY <2>1, <2>2
  <2>4. CASE /\ counts' = [counts EXCEPT ![i] = read]
             /\ todo' = [todo EXCEPT ![i] = IF last THEN due[i] ELSE Tail(@)]
             /\ IF last THEN AfterPrepare(i, read) ELSE Goto(i, "prepare")
             /\ UNCHANGED <<id, deltas, due, candidates>>
    <3>1. pc' \in [Instances -> Pc]
      BY <1>0, <2>4 DEF AfterPrepare, Goto, Pc
    <3> HIDE DEF read, last
    <3> QED  BY <1>0, <2>2, <2>3, <2>4, <3>1
  <2> QED  BY <1>2, <1>11, <2>4, ExitFacts DEF PrepareReconciliation, Reply, h, e
<1>12. ASSUME NEW i \in Instances, Rotate(i)  PROVE Goal
  <2>1. todo[i] \in Seq(Blogs) /\ todo[i] # <<>>
    BY <1>0, <1>12 DEF IInv, JobsInv, JobInv, Rotate
  <2>2. Tail(todo[i]) \in Seq(Blogs)
    BY <2>1
  <2> QED  BY <1>0, <1>2, <1>12, <2>2, ExitFacts DEF Rotate, Reply
<1>13. ASSUME NEW i \in Instances, NEW old \in SUBSET Batches, DeleteBatches(i, old)  PROVE Goal
  BY <1>2, <1>13, ExitFacts DEF DeleteBatches, Reply
<1> HIDE DEF Goal
<1>14. Goal
  BY <1>1, <1>2, <1>4, <1>5, <1>6, <1>7, <1>8, <1>9, <1>10, <1>11, <1>12, <1>13, StepCases
     DEF Flush, Reconcile
<1> QED  BY <1>14 DEF Goal

LEMMA ControlTypes ==
  ASSUME IInv, [Next]_vars
  PROVE  /\ lock' \in [Locks -> Instances \cup {Free, Orphan}]
         /\ faults' \in [{"db", "redis", "lease", "crash"} -> Nat]
<1>0. /\ TypeOK
      /\ lock \in [Locks -> Instances \cup {Free, Orphan}]
      /\ faults \in [{"db", "redis", "lease", "crash"} -> Nat]
  BY DEF IInv, TypeOK
<1>1. ASSUME UNCHANGED lock \/ \E i \in Instances, l \in Locks : TryLock(i, l)
      PROVE  lock' \in [Locks -> Instances \cup {Free, Orphan}]
  BY <1>0, <1>1 DEF TryLock
<1>2. ASSUME NEW l \in Locks, LeaseExpires(l)
      PROVE  lock' \in [Locks -> Instances \cup {Free, Orphan}]
  BY <1>0, <1>2 DEF LeaseExpires
<1>3. ASSUME NEW i \in Instances, Unlock(i) \/ Crash(i)
      PROVE  lock' \in [Locks -> Instances \cup {Free, Orphan}]
  BY <1>0, <1>3 DEF Unlock, Crash
<1>4. lock' \in [Locks -> Instances \cup {Free, Orphan}]
  BY <1>1, <1>2, <1>3
     DEF Next, LikeSeeded, Like, ReadLiked, StartFlush, StartReconcile, StartCleanup, Flush, ClaimDelta,
         ReadDelta, ApplyBatch, AckBatch, Reconcile, FindDue, PrepareReconciliation, Overwrite, Rotate,
         DeleteBatches, CallFails, Locks, vars
<1>5. UNCHANGED faults \/ \E kind \in {"db", "redis", "lease", "crash"} : Spend(kind)
  BY DEF Next, LikeSeeded, Like, ReadLiked, StartFlush, StartReconcile, StartCleanup, Flush, ClaimDelta,
         ReadDelta, ApplyBatch, AckBatch, Reconcile, FindDue, PrepareReconciliation, Overwrite, Rotate,
         DeleteBatches, CallFails, Unlock, Crash, LeaseExpires, Reply, vars
<1> QED  BY <1>0, <1>4, <1>5, SpendFacts

LEMMA NextInv ==
  ASSUME IInv, [Next]_vars
  PROVE  IInv'
<1>1. TypeOK'
  BY StoreTypes, ThreadTypes, ControlTypes DEF TypeOK
<1> QED  BY <1>1, DataNext, JobsNext, FlushNext DEF IInv

LEMMA Invariance == Spec => []IInv
BY InitInv, NextInv, PTL DEF Spec

-----------------------------------------------------------------------------
\* Theorems.

\* Every counter, queue and thread keeps its type, and no counter of the database
\* goes below zero, for any users, blogs, instances and faults.
THEOREM TypeCorrect == Spec => []TypeOK
<1>1. IInv => TypeOK
  BY DEF IInv
<1> QED  BY <1>1, Invariance, PTL

\* The count that pages show is the number of likes, whatever the jobs do.
THEOREM CountsAreExact == Spec => []CountExact
<1>1. IInv => CountExact
  BY DEF IInv, DataInv
<1> QED  BY <1>1, Invariance, PTL

\* Both queues hold what has to be done, once, and a snapshot never lacks its id.
THEOREM QueuesAreExact == Spec => []QueueExact
<1>1. IInv => QueueExact
  BY DEF IInv, DataInv
<1> QED  BY <1>1, Invariance, PTL

-----------------------------------------------------------------------------
\* Reconciliations that do not spoil anything.

LEMMA InitBacklog == Init => BacklogExact
BY DEF Init, BacklogExact, Exact, NoCounts

NoReconciliation ==
  \A i \in Instances : pc[i] \notin {"find", "prepare", "overwrite", "rotate"}

LEMMA NoReconciliationNext ==
  ASSUME Reconcilers = {}, IInv, NoReconciliation, [Next]_vars
  PROVE  NoReconciliation'
<1>0. pc \in [Instances -> Pc]
  BY DEF IInv, TypeOK
<1>1. UNCHANGED pc => NoReconciliation'
  BY DEF NoReconciliation
<1>2. ASSUME NEW i \in Instances, Exit(i)  PROVE NoReconciliation'
  BY <1>0, <1>2 DEF NoReconciliation, Exit
<1>3. ASSUME NEW i \in Instances,
             NEW p \in {"claim", "read", "apply", "ack", "ackEmpty", "delete"}, Goto(i, p)
      PROVE  NoReconciliation'
  BY <1>0, <1>3 DEF NoReconciliation, Goto
<1>4. ASSUME NEW i \in Instances, StartFlush(i) \/ StartReconcile(i) \/ StartCleanup(i)
      PROVE  NoReconciliation'
  BY <1>1, <1>3, <1>4 DEF StartFlush, StartReconcile, StartCleanup, thread
<1>5. ASSUME NEW i \in Instances, Flush(i) \/ \E old \in SUBSET Batches : DeleteBatches(i, old)
      PROVE  NoReconciliation'
  BY <1>2, <1>3, <1>5, ExitFacts
     DEF Flush, ClaimDelta, ReadDelta, ApplyBatch, AckBatch, DeleteBatches, Reply
<1>6. ASSUME NEW i \in Instances, Reconcile(i)
      PROVE  FALSE
  BY <1>6 DEF Reconcile, FindDue, PrepareReconciliation, Overwrite, Rotate, NoReconciliation
<1> QED  BY <1>1, <1>2, <1>4, <1>5, <1>6, StepCases DEF thread

\* Without reconciliations no like is lost and none is counted twice, for any number
\* of instances that flush and whatever fails.
THEOREM FlushesAreExact ==
  ASSUME Reconcilers = {}
  PROVE  Spec => []BacklogExact
<1>1. Init => NoReconciliation
  BY DEF Init, NoReconciliation
<1>2. IInv /\ NoReconciliation /\ BacklogExact /\ [Next]_vars => NoReconciliation' /\ BacklogExact'
  BY NoReconciliationNext, DataNext DEF NoReconciliation, Overwrite, BacklogExact
<1> QED  BY <1>1, <1>2, InitBacklog, Invariance, PTL DEF Spec

\* The database agrees with what a reconciliation has read.
ReadingsInv ==
  \A i \in Instances, b \in Blogs : counts[i][b] \in {Absent, liked[b]}

OneInstance == \A i, j \in Instances : i = j

LEMMA LikedSteps ==
  ASSUME [Next]_vars
  PROVE  UNCHANGED liked \/ \E i \in Instances : ApplyBatch(i) \/ Overwrite(i)
BY OthersKeepData
   DEF db, LikeSeeded, Like, ReadLiked, ClaimDelta, AckBatch, PrepareReconciliation, Rotate,
       DeleteBatches

LEMMA CountsSteps ==
  ASSUME IInv, [Next]_vars
  PROVE  UNCHANGED counts \/ \E i \in Instances : Exit(i) \/ PrepareReconciliation(i)
<1>1. ASSUME NEW i \in Instances,
             \/ StartFlush(i) \/ StartReconcile(i) \/ StartCleanup(i)
             \/ Flush(i) \/ Reconcile(i) \/ \E old \in SUBSET Batches : DeleteBatches(i, old)
      PROVE  UNCHANGED counts \/ Exit(i) \/ PrepareReconciliation(i)
  BY <1>1, ExitFacts
     DEF StartFlush, StartReconcile, StartCleanup, Flush, ClaimDelta, ReadDelta, ApplyBatch, AckBatch,
         Reconcile, FindDue, Overwrite, Rotate, DeleteBatches, Reply, work, thread
<1> QED  BY <1>1, StepCases DEF thread, work

\* What a reconciliation reads is what the database has to show.
LEMMA SettledOwes ==
  ASSUME IInv, NEW b \in Blogs, Settled(b)
  PROVE  baseline[b] + Cardinality(likes[b]) = Owed(b)
<1>1. baseline[b] \in Int /\ Cardinality(likes[b]) \in Nat /\ delta[b] = 0 /\ Unapplied(b) = 0
  BY FS_CardinalityType DEF IInv, DataInv, CountsInv, TypeOK, Settled, Unapplied
<1> QED  BY <1>1 DEF Owed

LEMMA ReadingsNext ==
  ASSUME OneInstance, IInv, BacklogExact, ReadingsInv, [Next]_vars
  PROVE  ReadingsInv'
<1>0. /\ counts \in [Instances -> [Blogs -> Int]] /\ liked \in [Blogs -> Nat]
      /\ \A i \in Instances : JobInv(i)
  BY DEF IInv, TypeOK, JobsInv
<1>1. ASSUME NEW i \in Instances, ApplyBatch(i)
      PROVE  ReadingsInv'
  <2>1. counts[i] = NoCounts
    BY <1>0, <1>1 DEF ApplyBatch, JobInv
  <2>2. counts'[i] = NoCounts
    BY <1>0, <1>1, <2>1 DEF ApplyBatch, Reply, Leave, Forget, work
  <2> QED  BY <2>2 DEF OneInstance, ReadingsInv, NoCounts
<1>2. UNCHANGED liked \/ \E i \in Instances : ApplyBatch(i)
  <2>1. ASSUME NEW i \in Instances, Overwrite(i)  PROVE UNCHANGED liked
    BY <2>1, OverwriteSame DEF ReadingsInv
  <2> QED  BY <2>1, LikedSteps
<1>3. CASE UNCHANGED liked /\ UNCHANGED counts
  BY <1>3 DEF ReadingsInv
<1>4. ASSUME UNCHANGED liked, NEW i \in Instances, Exit(i)
      PROVE  ReadingsInv'
  BY <1>0, <1>4 DEF ReadingsInv, Exit, Forget, NoCounts
<1>5. ASSUME UNCHANGED liked, NEW i \in Instances, PrepareReconciliation(i)
      PROVE  ReadingsInv'
  <2> DEFINE h == Head(todo[i])
             e == baseline[h] + Cardinality(likes[h])
             read == IF Settled(h) THEN [counts[i] EXCEPT ![h] = e] ELSE counts[i]
  <2>1. h \in Blogs
    BY <1>5, PrepareFacts
  <2>2. Settled(h) => e = liked[h]
    BY <2>1, SettledOwes DEF BacklogExact, Exact, Settled
  <2> HIDE DEF e, h
  <2>3. \A b \in Blogs : read[b] \in {Absent, liked[b]}
    BY <1>0, <2>1, <2>2 DEF ReadingsInv
  <2>4. counts' = [counts EXCEPT ![i] = read] \/ Exit(i)
    BY <1>5, ExitFacts DEF PrepareReconciliation, Reply, h, e
  <2> HIDE DEF read
  <2> QED  BY <1>0, <1>4, <1>5, <2>3, <2>4 DEF ReadingsInv
<1> QED  BY <1>1, <1>2, <1>3, <1>4, <1>5, CountsSteps

LEMMA OneInstanceInvariance ==
  ASSUME OneInstance
  PROVE  Spec => [](IInv /\ BacklogExact /\ ReadingsInv)
<1>1. Init => ReadingsInv
  BY DEF Init, ReadingsInv, NoCounts
<1>2. IInv /\ BacklogExact /\ ReadingsInv /\ [Next]_vars => BacklogExact' /\ ReadingsInv'
  <2> SUFFICES ASSUME IInv, BacklogExact, ReadingsInv, [Next]_vars
               PROVE  BacklogExact' /\ ReadingsInv'
    OBVIOUS
  <2>1. ReadingsInv'
    BY ReadingsNext
  <2>2. BacklogExact'
    BY DataNext DEF ReadingsInv, BacklogExact
  <2> QED  BY <2>1, <2>2
<1> QED  BY <1>1, <1>2, InitBacklog, Invariance, PTL DEF Spec

\* On one instance reconciliations lose no like either, whatever fails and however
\* often the instance dies or loses a lock.
THEOREM OneInstanceIsExact ==
  ASSUME OneInstance
  PROVE  Spec => []BacklogExact
BY OneInstanceInvariance, PTL

\* On one instance a reconciliation finds nothing to repair.
THEOREM OneInstanceRepairsNothing ==
  ASSUME OneInstance
  PROVE  Spec => RepairsNothing
<1>1. IInv /\ BacklogExact /\ ReadingsInv /\ [Next]_vars =>
        [\A i \in Instances : pc[i] = "overwrite" /\ pc'[i] = "rotate" => liked' = liked]_vars
  <2> SUFFICES ASSUME IInv, BacklogExact, ReadingsInv, [Next]_vars,
                      NEW i \in Instances, pc[i] = "overwrite"
               PROVE  liked' = liked
    OBVIOUS
  <2>1. ASSUME NEW j \in Instances, ApplyBatch(j)  PROVE FALSE
    BY <2>1 DEF OneInstance, ApplyBatch
  <2>2. ASSUME NEW j \in Instances, Overwrite(j)  PROVE liked' = liked
    BY <2>2, OverwriteSame DEF ReadingsInv
  <2> QED  BY <2>1, <2>2, LikedSteps
<1> QED  BY <1>1, OneInstanceInvariance, PTL DEF Spec, RepairsNothing

-----------------------------------------------------------------------------
\* Reconciliations on several instances.

\* A reading that no batch has overtaken is what the database has to show.
HistoryInv ==
  /\ reading \in [Instances -> [Blogs -> States]]
  /\ \A i \in Instances, b \in Blogs :
       /\ counts[i][b] = Absent => reading[i][b] = "none"
       /\ counts[i][b] # Absent =>
            reading[i][b] = "overtaken" \/ (reading[i][b] = "right" /\ counts[i][b] = Owed(b))

\* A count stays, is forgotten, or is read and right.
LEMMA CountsSource ==
  ASSUME IInv, [Next]_vars, NEW i \in Instances, NEW b \in Blogs
  PROVE  counts'[i][b] \in {Absent, counts[i][b]} \/ counts'[i][b] = Owed(b)'
<1>0. counts \in [Instances -> [Blogs -> Int]]
  BY DEF IInv, TypeOK
<1>1. ASSUME NEW j \in Instances, Exit(j)
      PROVE  counts'[i][b] \in {Absent, counts[i][b]}
  BY <1>0, <1>1 DEF Exit, Forget, NoCounts
<1>2. ASSUME NEW j \in Instances, PrepareReconciliation(j), ~Exit(j)
      PROVE  counts'[i][b] \in {Absent, counts[i][b]} \/ counts'[i][b] = Owed(b)'
  <2> DEFINE h == Head(todo[j])
             e == baseline[h] + Cardinality(likes[h])
  <2>1. h \in Blogs
    BY <1>2, PrepareFacts
  <2>2. counts' = [counts EXCEPT ![j] = IF Settled(h) THEN [counts[j] EXCEPT ![h] = e] ELSE counts[j]]
    BY <1>2, ExitFacts DEF PrepareReconciliation, Reply
  <2>3. Settled(h) => e = Owed(h)
    BY <2>1, SettledOwes
  <2>4. Owed(b)' = Owed(b)
    BY <1>2 DEF PrepareReconciliation, Owed, Unapplied, db
  <2> HIDE DEF e, h
  <2> QED  BY <1>0, <2>1, <2>2, <2>3, <2>4
<1> QED  BY <1>1, <1>2, CountsSteps

LEMMA HistoryNext ==
  ASSUME IInv, HistoryInv, ReadingNext
  PROVE  HistoryInv'
<1>0. reading' = [i \in Instances |-> [b \in Blogs |-> NextState(i, b)]] /\ [Next]_vars
  BY DEF ReadingNext
<1>1. ASSUME NEW i \in Instances, NEW b \in Blogs
      PROVE  /\ NextState(i, b) \in States
             /\ counts'[i][b] = Absent => NextState(i, b) = "none"
             /\ counts'[i][b] # Absent =>
                  \/ NextState(i, b) = "overtaken"
                  \/ NextState(i, b) = "right" /\ counts'[i][b] = Owed(b)'
  <2>1. reading[i][b] \in States /\ "none" \in States /\ "right" \in States /\ "overtaken" \in States
    BY DEF HistoryInv, States
  <2>2. CASE counts'[i][b] = Absent
    BY <2>1, <2>2 DEF NextState
  <2>3. CASE counts'[i][b] # Absent /\ counts[i][b] = Absent
    <3>1. counts'[i][b] = Owed(b)'
      BY <1>0, <2>3, CountsSource
    <3> QED  BY <2>1, <2>3, <3>1 DEF NextState
  <2>4. CASE counts'[i][b] # Absent /\ counts[i][b] # Absent
    <3>1. /\ reading[i][b] = "overtaken" \/ (reading[i][b] = "right" /\ counts[i][b] = Owed(b))
          /\ baseline[b] # Absent
      BY <2>4 DEF HistoryInv, IInv, JobsInv, JobInv
    <3>2. NextState(i, b) = IF reading[i][b] = "right" /\ AppliesTo(b) THEN "overtaken" ELSE reading[i][b]
      BY <2>4 DEF NextState
    <3>3. counts'[i][b] = counts[i][b] \/ counts'[i][b] = Owed(b)'
      BY <1>0, <2>4, CountsSource
    <3>4. Owed(b)' = Owed(b) \/ AppliesTo(b)
      BY <1>0, <3>1, DataNext
    <3> QED  BY <2>1, <2>4, <3>1, <3>2, <3>3, <3>4
  <2> QED  BY <2>2, <2>3, <2>4
<1>2. reading' \in [Instances -> [Blogs -> States]]
  BY <1>0, <1>1
<1>3. \A i \in Instances, b \in Blogs : reading'[i][b] = NextState(i, b)
  BY <1>0
<1> QED  BY <1>1, <1>2, <1>3 DEF HistoryInv

LEMMA HistoryInvariance == ReadingSpec => [](IInv /\ HistoryInv)
<1>1. ReadingInit => Init /\ HistoryInv
  BY DEF ReadingInit, HistoryInv, States, Init, NoCounts
<1>2. [ReadingNext]_ReadingVars => [Next]_vars
  BY DEF ReadingNext, ReadingVars
<1>3. IInv /\ HistoryInv /\ [ReadingNext]_ReadingVars => HistoryInv'
  <2>1. ASSUME HistoryInv, UNCHANGED ReadingVars  PROVE HistoryInv'
    BY <2>1 DEF HistoryInv, ReadingVars, vars, thread, work, redis, db, Owed, Unapplied
  <2> QED  BY <2>1, HistoryNext
<1> QED  BY <1>1, <1>2, <1>3, InitInv, NextInv, PTL DEF ReadingSpec

\* On any number of instances that lose locks, replies and their lives, a counter is
\* spoiled only by a reconciliation that writes a count which was right when it was
\* read and which a batch has overtaken since; any other count it writes is right.
THEOREM OnlyReconciliationsSpoil == ReadingSpec => OnlyOldReadingsSpoil
<1> DEFINE Spoils ==
      \A b \in Blogs :
        /\ Exact(b) /\ ~Exact(b)' => \E i \in Instances : Overwrite(i) /\ reading[i][b] = "overtaken"
        /\ \A i \in Instances : Overwrite(i) /\ reading[i][b] = "right" => Exact(b)'
<1>1. IInv /\ HistoryInv /\ [ReadingNext]_ReadingVars => Spoils
  <2> SUFFICES ASSUME IInv, HistoryInv, [ReadingNext]_ReadingVars, NEW b \in Blogs
               PROVE  /\ Exact(b) /\ ~Exact(b)' =>
                           \E i \in Instances : Overwrite(i) /\ reading[i][b] = "overtaken"
                      /\ \A i \in Instances : Overwrite(i) /\ reading[i][b] = "right" => Exact(b)'
    OBVIOUS
  <2>1. [Next]_vars
    BY DEF ReadingNext, ReadingVars
  <2>2. \A i \in Instances :
          /\ reading[i][b] = "right" => counts[i][b] # Absent
          /\ counts[i][b] # Absent =>
               /\ baseline[b] # Absent
               /\ reading[i][b] = "overtaken" \/ (reading[i][b] = "right" /\ counts[i][b] = Owed(b))
    BY DEF HistoryInv, IInv, JobsInv, JobInv
  <2>3. ASSUME Exact(b), ~Exact(b)'
        PROVE  \E i \in Instances : Overwrite(i) /\ reading[i][b] = "overtaken"
    <3>1. PICK i \in Instances : Overwrite(i) /\ counts[i][b] \notin {Absent, liked[b]}
      BY <2>1, <2>3, DataNext
    <3>2. counts[i][b] # Owed(b)
      BY <2>2, <2>3, <3>1 DEF Exact
    <3> QED  BY <2>2, <3>1, <3>2
  <2>4. ASSUME NEW i \in Instances, Overwrite(i), reading[i][b] = "right"
        PROVE  Exact(b)'
    <3>1. counts[i][b] # Absent /\ counts[i][b] = Owed(b)
      BY <2>2, <2>4
    <3>2. liked'[b] = counts[i][b] /\ Owed(b)' = Owed(b)
      BY <2>4, <3>1, OverwriteKeepsData
    <3> QED  BY <3>1, <3>2 DEF Exact
  <2> QED  BY <2>3, <2>4
<1>2. IInv /\ HistoryInv /\ [ReadingNext]_ReadingVars => [Spoils]_ReadingVars
  BY <1>1
<1> QED  BY <1>2, HistoryInvariance, PTL DEF ReadingSpec, OnlyOldReadingsSpoil

=================================================================================
