------------------------- MODULE AgentExecutorProofs -------------------------
(***************************************************************************)
(* What TLAPS proves of AgentExecutor, for any runs, models, settings of   *)
(* the retries, the breakers and the semaphore, with a cache or without:   *)
(* type correctness, that the semaphore's slots return, that streams end   *)
(* once and never mix attempts, and that the audit log tells the truth.    *)
(***************************************************************************)
EXTENDS AgentExecutor, FiniteSetTheorems, SequenceTheorems, TLAPS

\* What the consumer of r has and is to get without another attempt.
Stream(r) == got[r] \o pending[r]

\* Of the chunks c, the last one says done and no other.
EndsOnce(c) == c # <<>> /\ \A i \in DOMAIN c : Ending(c[i]) <=> i = Len(c)

\* A run with a cache has its key from the moment it goes to the loop.
Keyed(r) ==
  /\ phase[r] \in {"new", "raised"} => key[r] = NoKey
  /\ phase[r] \notin {"new", "raised"} =>
       ModelOf(r) \in Model /\ (buffered => key[r] \in Key)

\* What a run has handed out and what it keeps, by where it stands: nothing
\* before the loop, no end within it, and a stream with one end after it.
Staged(r) ==
  /\ phase[r] \in {"new", "raised", "left"} => got[r] = <<>> /\ pending[r] = <<>>
  /\ phase[r] \in {"waiting", "queued", "entering", "streaming"} =>
       /\ pending[r] = <<>>
       /\ \A i \in DOMAIN got[r] : ~Ending(got[r][i])
       /\ buffered => got[r] = <<>>
  /\ phase[r] \in {"replaying", "hit", "over"} => got[r] # <<>> /\ EndsOnce(Stream(r))
  /\ phase[r] = "replaying" => Last(Stream(r)) = ChunkOf(r, "output")
  /\ phase[r] = "over" \/ ~buffered => pending[r] = <<>>
  /\ phase[r] = "hit" => buffered

\* With a buffer, that stream is the whole answer of one attempt, or an error.
Whole(r) ==
  /\ buffered /\ phase[r] \in {"replaying", "hit"} => Complete(Stream(r), key[r])
  /\ buffered /\ phase[r] = "over" =>
       \/ Complete(got[r], key[r])
       \/ Len(got[r]) = 1 /\ got[r][1].kind = "error"

CacheWhole == buffered => \A k \in Key : cache[k] # <<>> => Complete(cache[k], k)

\* A breaker counts no failure that its model's runs did not have, and is not
\* tripped without enough of them.
Tripped(m) ==
  /\ breakers[m].failures <= Cardinality(FailuresAt(m))
  /\ breakers[m].state # "closed" => FailureThreshold <= Cardinality(FailuresAt(m))

\* What RecordsTrue says of r, and that a run on record is over.
Recorded(r) ==
  /\ audit[r] = "success" =>
       phase[r] = "over" /\ Last(got[r]).kind = "output" /\ Last(got[r]).run = r
  /\ audit[r] = "failure" =>
       /\ phase[r] = "over" /\ Last(got[r]).kind = "error"
       /\ FailureThreshold <= Cardinality(FailuresAt(ModelOf(r)))

Runs == \A r \in Run : Keyed(r) /\ Staged(r) /\ Whole(r)

IInv ==
  /\ TypeOK /\ SlotsReturn /\ Runs /\ CacheWhole
  /\ \A m \in Model : Tripped(m)
  /\ \A r \in Run : Recorded(r)

----------------------------------------------------------------------------
(***************************************************************************)
(* Lemmas on streams                                                       *)
(***************************************************************************)

LEMMA ChunkType ==
  ASSUME TypeOK, NEW r \in Run, NEW kind \in {"part", "output", "error"}
  PROVE  ChunkOf(r, kind) \in Chunk
  BY DEF TypeOK, ChunkOf, Chunk

LEMMA ConcatFacts ==
  ASSUME NEW g \in Seq(Chunk), NEW p \in Seq(Chunk)
  PROVE  /\ g \o p \in Seq(Chunk)
         /\ Len(g) \in Nat /\ Len(p) \in Nat /\ Len(g \o p) = Len(g) + Len(p)
         /\ DOMAIN g = 1..Len(g) /\ DOMAIN (g \o p) = 1..Len(g \o p)
         /\ \A i \in DOMAIN g : i \in DOMAIN (g \o p) /\ (g \o p)[i] = g[i]
         /\ p = <<>> => g \o p = g
         /\ g # <<>> => Len(g) > 0
         /\ p # <<>> => Len(p) > 0
  <1>1. /\ g \o p \in Seq(Chunk) /\ Len(g \o p) = Len(g) + Len(p)
        /\ \A i \in 1..Len(g) + Len(p) : (g \o p)[i] = IF i <= Len(g) THEN g[i] ELSE p[i - Len(g)]
    BY ConcatProperties
  <1>2. /\ Len(g) \in Nat /\ Len(p) \in Nat /\ DOMAIN g = 1..Len(g)
        /\ DOMAIN (g \o p) = 1..Len(g \o p)
    BY <1>1, LenProperties
  <1>3. \A i \in DOMAIN g : i \in DOMAIN (g \o p) /\ (g \o p)[i] = g[i]
    BY <1>1, <1>2
  <1>4. p = <<>> => g \o p = g
    BY ConcatEmptySeq
  <1>5. (g # <<>> => Len(g) > 0) /\ (p # <<>> => Len(p) > 0)
    BY <1>2, EmptySeq
  <1> QED
    BY <1>1, <1>2, <1>3, <1>4, <1>5

\* A chunk that moves from what is to come to what was got changes nothing.
LEMMA MovedAlong ==
  ASSUME NEW g \in Seq(Chunk), NEW p \in Seq(Chunk), p # <<>>
  PROVE  /\ Append(g, Head(p)) \in Seq(Chunk) /\ Append(g, Head(p)) # <<>>
         /\ Tail(p) \in Seq(Chunk)
         /\ Append(g, Head(p)) \o Tail(p) = g \o p
  <1> DEFINE h == Append(g, Head(p))
             q == Tail(p)
             new == h \o q
             old == g \o p
  <1>1. Head(p) \in Chunk /\ q \in Seq(Chunk) /\ Len(q) = Len(p) - 1
        /\ \A i \in 1..Len(q) : q[i] = p[i + 1]
    BY HeadTailProperties
  <1>2. Len(p) \in Nat /\ Len(p) # 0 /\ Head(p) = p[1] /\ Len(g) \in Nat
    BY LenProperties, EmptySeq
  <1>3. /\ h \in Seq(Chunk) /\ h # <<>> /\ Len(h) = Len(g) + 1
        /\ \A i \in 1..Len(g) : h[i] = g[i]
        /\ h[Len(g) + 1] = p[1]
    BY <1>1, <1>2, AppendProperties
  <1> HIDE DEF h, q
  <1>4. /\ new \in Seq(Chunk) /\ Len(new) = Len(h) + Len(q)
        /\ \A i \in 1..Len(h) + Len(q) : new[i] = IF i <= Len(h) THEN h[i] ELSE q[i - Len(h)]
    BY <1>1, <1>3, ConcatProperties
  <1>5. /\ old \in Seq(Chunk) /\ Len(old) = Len(g) + Len(p)
        /\ \A i \in 1..Len(g) + Len(p) : old[i] = IF i <= Len(g) THEN g[i] ELSE p[i - Len(g)]
    BY ConcatProperties
  <1> HIDE DEF new, old
  <1>6. Len(new) = Len(old)
    BY <1>1, <1>2, <1>3, <1>4, <1>5
  <1>7. ASSUME NEW i \in 1..Len(new)
        PROVE  new[i] = old[i]
    <2>1. i \in 1..Len(h) + Len(q) /\ i \in 1..Len(g) + Len(p)
      BY <1>4, <1>5, <1>6
    <2>2. CASE i <= Len(g)
      <3>1. new[i] = h[i] /\ old[i] = g[i] /\ i \in 1..Len(g) /\ i <= Len(h)
        BY <1>2, <1>3, <1>4, <1>5, <2>1, <2>2
      <3> QED
        BY <1>3, <3>1
    <2>3. CASE i = Len(g) + 1
      <3>1. i <= Len(h) /\ ~(i <= Len(g)) /\ i - Len(g) = 1
        BY <1>2, <1>3, <2>3
      <3>2. new[i] = h[i] /\ old[i] = p[1]
        BY <1>4, <1>5, <2>1, <3>1
      <3> QED
        BY <1>3, <2>3, <3>2
    <2>4. CASE i > Len(g) + 1
      <3>1. new[i] = q[i - Len(h)] /\ old[i] = p[i - Len(g)]
        BY <1>2, <1>3, <1>4, <1>5, <2>1, <2>4
      <3>2. i - Len(h) \in 1..Len(q) /\ (i - Len(h)) + 1 = i - Len(g)
        BY <1>1, <1>2, <1>3, <2>1, <2>4
      <3> QED
        BY <1>1, <3>1, <3>2
    <2>5. i <= Len(g) \/ i = Len(g) + 1 \/ i > Len(g) + 1
      BY <1>2, <2>1
    <2> QED
      BY <2>2, <2>3, <2>4, <2>5
  <1>8. new = old
    BY <1>4, <1>5, <1>6, <1>7, SeqEqual
  <1> QED
    BY <1>1, <1>3, <1>8 DEF h, q, new, old

\* Whole answers end once, with an output.
LEMMA CompleteEnds ==
  ASSUME NEW c \in Seq(Chunk), NEW k, Complete(c, k)
  PROVE  EndsOnce(c) /\ Last(c).kind = "output" /\ \A i \in DOMAIN c : c[i].kind # "error"
  <1>1. c # <<>> /\ Len(c) \in Nat /\ Len(c) # 0 /\ DOMAIN c = 1..Len(c) /\ c[1] \in Chunk
    <2>1. c # <<>>
      BY DEF Complete
    <2>2. Len(c) \in Nat /\ Len(c) # 0 /\ DOMAIN c = 1..Len(c)
      BY <2>1, LenProperties, EmptySeq
    <2> QED
      BY <2>1, <2>2, ElementOfSeq
  <1>2. \A i \in 1..Len(c) : c[i].kind = IF i < Len(c) THEN "part" ELSE "output"
    BY <1>1 DEF Complete, Chunk
  <1>3. EndsOnce(c)
    BY <1>1, <1>2 DEF EndsOnce, Ending
  <1>4. c[Len(c)].kind = "output"
    BY <1>1, <1>2
  <1> QED
    BY <1>1, <1>2, <1>3, <1>4 DEF Last

\* What a consumer has of a stream that ends once has an end only as its last.
LEMMA GotEnds ==
  ASSUME NEW g \in Seq(Chunk), NEW p \in Seq(Chunk), EndsOnce(g \o p)
  PROVE  \A i \in DOMAIN g : Ending(g[i]) => i = Len(g)
  BY ConcatFacts DEF EndsOnce

LEMMA AnswerFacts ==
  ASSUME TypeOK, NEW r \in Run, NEW n \in 0..MaxParts
  PROVE  /\ Answer(r, n) \in Seq(Chunk) /\ Answer(r, n) # <<>>
         /\ Complete(Answer(r, n), key[r])
         /\ Last(Answer(r, n)) = ChunkOf(r, "output")
  <1> DEFINE a == Answer(r, n)
  <1>1. n \in Nat
    BY ExecutorAssumption
  <1>2. \A i \in 1..(n + 1) : a[i] = ChunkOf(r, IF i <= n THEN "part" ELSE "output")
    BY DEF Answer
  <1>3. a \in [1..(n + 1) -> Chunk]
    BY ChunkType DEF Answer
  <1>4. a \in Seq(Chunk) /\ Len(a) = n + 1 /\ DOMAIN a = 1..(n + 1)
    BY <1>1, <1>3, SeqDef, LenProperties
  <1> HIDE DEF a
  <1>5. a # <<>>
    BY <1>1, <1>4, EmptySeq
  <1>6. \A i \in 1..(n + 1) :
          /\ a[i].run = r /\ a[i].attempt = attempt[r]
          /\ a[i].kind = IF i <= n THEN "part" ELSE "output"
          /\ a[i] \in Chunk
    BY <1>2, <1>3 DEF ChunkOf
  <1>7. Complete(a, key[r])
    <2>1. 1 \in 1..(n + 1) /\ a[1].run = r
      BY <1>1, <1>6
    <2>2. ASSUME NEW i \in DOMAIN a
          PROVE  a[i] = [a[1] EXCEPT !.kind = IF i < Len(a) THEN "part" ELSE "output"]
      <3>1. a[1] \in Chunk /\ a[1].run = r /\ a[1].attempt = attempt[r]
        BY <1>6, <2>1
      <3>2. i \in 1..(n + 1) /\ (i <= n <=> i < Len(a))
        BY <1>1, <1>4
      <3>3. a[i] \in Chunk /\ a[i].run = r /\ a[i].attempt = attempt[r]
            /\ a[i].kind = IF i < Len(a) THEN "part" ELSE "output"
        BY <1>6, <3>2
      <3> QED
        BY <3>1, <3>3 DEF Chunk
    <2> QED
      BY <1>5, <2>1, <2>2 DEF Complete
  <1>8. Last(a) = ChunkOf(r, "output")
    <2>1. n + 1 \in 1..(n + 1) /\ ~(n + 1 <= n)
      BY <1>1
    <2> QED
      BY <1>2, <1>4, <2>1 DEF Last
  <1> QED
    BY <1>4, <1>5, <1>7, <1>8 DEF a

----------------------------------------------------------------------------
(***************************************************************************)
(* Lemmas on failures                                                      *)
(***************************************************************************)

\* Only a run that is over has an error in its stream.
LEMMA OnlyAttempts ==
  ASSUME TypeOK, NEW r \in Run, Staged(r), Whole(r), phase[r] # "over"
  PROVE  FailuresOf(r) = attempt[r]
  <1> SUFFICES ASSUME got[r] # <<>>, Last(got[r]).kind = "error" PROVE FALSE
    BY DEF FailuresOf, TypeOK
  <1>1. got[r] \in Seq(Chunk) /\ pending[r] \in Seq(Chunk) /\ phase[r] \in Phase
    BY DEF TypeOK
  <1>2. Len(got[r]) \in DOMAIN got[r] /\ got[r][Len(got[r])].kind = "error"
    BY <1>1, ConcatFacts DEF Last
  <1>3. Ending(got[r][Len(got[r])])
    BY <1>2 DEF Ending
  <1>4. phase[r] \in {"replaying", "hit"}
    BY <1>1, <1>2, <1>3 DEF Staged, Phase
  <1>5. CASE buffered
    <2>1. Complete(Stream(r), key[r]) /\ Stream(r) \in Seq(Chunk)
      BY <1>1, <1>4, <1>5, ConcatFacts DEF Whole, Stream
    <2>2. \A i \in DOMAIN Stream(r) : Stream(r)[i].kind # "error"
      BY <2>1, CompleteEnds
    <2>3. Len(got[r]) \in DOMAIN Stream(r) /\ Stream(r)[Len(got[r])] = got[r][Len(got[r])]
      <3>1. \A i \in DOMAIN got[r] : i \in DOMAIN (got[r] \o pending[r])
                                    /\ (got[r] \o pending[r])[i] = got[r][i]
        BY <1>1, ConcatFacts
      <3> QED
        BY <1>2, <3>1 DEF Stream
    <2> QED
      BY <1>2, <2>2, <2>3
  <1>6. CASE ~buffered
    <2>1. Stream(r) = got[r] /\ Last(Stream(r)) = ChunkOf(r, "output")
      BY <1>1, <1>4, <1>6, ConcatFacts DEF Staged, Stream
    <2> QED
      BY <1>2, <2>1 DEF Last, ChunkOf
  <1> QED
    BY <1>5, <1>6

LEMMA FailuresFinite ==
  ASSUME NEW S \in SUBSET (Run \X (1..(MaxRetries + 1)))
  PROVE  IsFiniteSet(S) /\ Cardinality(S) \in Nat
  <1>1. MaxRetries + 1 \in Int
    BY ExecutorAssumption
  <1>2. IsFiniteSet(1..(MaxRetries + 1))
    BY <1>1, FS_Interval
  <1>3. IsFiniteSet(Run \X (1..(MaxRetries + 1)))
    BY <1>2, ExecutorAssumption, FS_Product
  <1> QED
    BY <1>3, FS_Subset, FS_CardinalityType

LEMMA FailuresType ==
  ASSUME TypeOK, NEW r \in Run
  PROVE  FailuresOf(r) \in 0..(MaxRetries + 1)
  BY ExecutorAssumption DEF TypeOK, FailuresOf

----------------------------------------------------------------------------
(***************************************************************************)
(* Lemmas on the semaphore                                                 *)
(***************************************************************************)

\* A new waiter goes behind the others.
LEMMA QueueAppend ==
  ASSUME NEW s \in Seq(Run), IsInjective(s), NEW x \in Run, x \notin ToSet(s)
  PROVE  /\ Append(s, x) \in Seq(Run)
         /\ IsInjective(Append(s, x))
         /\ ToSet(Append(s, x)) = ToSet(s) \cup {x}
  <1> DEFINE a == Append(s, x)
             n == Len(s)
  <1>1. /\ a \in Seq(Run) /\ n \in Nat /\ Len(a) = n + 1
        /\ \A i \in 1..n : a[i] = s[i]
        /\ a[n + 1] = x
    BY AppendProperties, LenProperties
  <1>2. DOMAIN a = 1..(n + 1) /\ DOMAIN s = 1..n
    BY <1>1, LenProperties
  <1> HIDE DEF a, n
  <1>3. DOMAIN a = DOMAIN s \cup {n + 1} /\ n + 1 \notin DOMAIN s
    BY <1>1, <1>2
  <1>4. \A i \in DOMAIN s : a[i] = s[i] /\ a[i] # x
    BY <1>1, <1>2 DEF ToSet
  <1>5. IsInjective(a)
    BY <1>1, <1>3, <1>4 DEF IsInjective
  <1>6. ToSet(a) = ToSet(s) \cup {x}
    BY <1>1, <1>3, <1>4 DEF ToSet
  <1> QED
    BY <1>1, <1>5, <1>6 DEF a

\* A waiter that goes leaves the others in their order.
LEMMA QueueRemove ==
  ASSUME NEW s \in Seq(Run), IsInjective(s), NEW i \in DOMAIN s
  PROVE  /\ RemoveAt(s, i) \in Seq(Run)
         /\ IsInjective(RemoveAt(s, i))
         /\ ToSet(RemoveAt(s, i)) = ToSet(s) \ {s[i]}
  <1> DEFINE n == Len(s)
             front == SubSeq(s, 1, i - 1)
             back == SubSeq(s, i + 1, n)
             q == RemoveAt(s, i)
  <1>1. n \in Nat /\ DOMAIN s = 1..n /\ i \in 1..n
    BY LenProperties
  <1>2. \A j \in 1..n : s[j] \in Run
    BY ElementOfSeq
  <1>3. /\ front \in Seq(Run) /\ Len(front) = i - 1
        /\ \A j \in 1..(i - 1) : front[j] = s[j]
    <2>1. 1 \in Int /\ i - 1 \in Int /\ \A j \in 1..(i - 1) : s[j] \in Run
      BY <1>1, <1>2
    <2>2. /\ front \in Seq(Run) /\ Len(front) = IF 1 <= i - 1 THEN (i - 1) - 1 + 1 ELSE 0
          /\ \A j \in 1..((i - 1) - 1 + 1) : front[j] = s[1 + j - 1]
      BY <2>1, SubSeqProperties
    <2> HIDE DEF front
    <2> QED
      BY <1>1, <2>2
  <1>4. /\ back \in Seq(Run) /\ Len(back) = n - i
        /\ \A j \in 1..(n - i) : back[j] = s[i + j]
    <2>1. i + 1 \in Int /\ n \in Int /\ \A j \in (i + 1)..n : s[j] \in Run
      BY <1>1, <1>2
    <2>2. /\ back \in Seq(Run) /\ Len(back) = IF i + 1 <= n THEN n - (i + 1) + 1 ELSE 0
          /\ \A j \in 1..(n - (i + 1) + 1) : back[j] = s[(i + 1) + j - 1]
      BY <2>1, SubSeqProperties
    <2>3. n - (i + 1) + 1 = n - i /\ (i + 1 <= n \/ n - i = 0)
      BY <1>1
    <2>4. \A j \in 1..(n - i) : (i + 1) + j - 1 = i + j
      BY <1>1
    <2> HIDE DEF back, n
    <2> QED
      BY <2>2, <2>3, <2>4
  <1>5. q = front \o back
    BY DEF RemoveAt
  <1> HIDE DEF front, back, q, n
  <1>6. /\ q \in Seq(Run) /\ Len(q) = (i - 1) + (n - i)
        /\ \A j \in 1..((i - 1) + (n - i)) :
             q[j] = IF j <= i - 1 THEN front[j] ELSE back[j - (i - 1)]
    <2>1. /\ front \o back \in Seq(Run) /\ Len(front \o back) = Len(front) + Len(back)
          /\ \A j \in 1..(Len(front) + Len(back)) :
               (front \o back)[j] = IF j <= Len(front) THEN front[j] ELSE back[j - Len(front)]
      BY <1>3, <1>4, ConcatProperties
    <2>2. Len(front) = i - 1 /\ Len(back) = n - i
      BY <1>3, <1>4
    <2> QED
      BY <1>5, <2>1, <2>2, Zenon
  <1>7. DOMAIN q = 1..(n - 1)
    BY <1>1, <1>6, LenProperties
  <1>8. ASSUME NEW j \in DOMAIN q
        PROVE  q[j] = s[IF j < i THEN j ELSE j + 1]
    <2>1. q[j] = IF j <= i - 1 THEN front[j] ELSE back[j - (i - 1)]
      BY <1>1, <1>6, <1>7
    <2>2. CASE j < i
      BY <1>1, <1>3, <1>7, <2>1, <2>2
    <2>3. CASE ~(j < i)
      <3>1. j - (i - 1) \in 1..(n - i) /\ i + (j - (i - 1)) = j + 1 /\ ~(j <= i - 1)
        BY <1>1, <1>7, <2>3
      <3> QED
        BY <1>4, <2>1, <2>3, <3>1
    <2> QED
      BY <2>2, <2>3
  <1>9. IsInjective(q)
    <2> SUFFICES ASSUME NEW j \in DOMAIN q, NEW k \in DOMAIN q, q[j] = q[k] PROVE j = k
      BY DEF IsInjective
    <2> DEFINE f == IF j < i THEN j ELSE j + 1
               g == IF k < i THEN k ELSE k + 1
    <2>1. f \in DOMAIN s /\ g \in DOMAIN s /\ (f = g => j = k)
      BY <1>1, <1>7
    <2>2. s[f] = s[g]
      BY <1>8
    <2> HIDE DEF f, g
    <2> QED
      BY <2>1, <2>2 DEF IsInjective
  <1>10. ASSUME NEW x \in ToSet(q) PROVE x \in ToSet(s) /\ x # s[i]
    <2>1. PICK j \in DOMAIN q : x = q[j]
      BY DEF ToSet
    <2> DEFINE f == IF j < i THEN j ELSE j + 1
    <2>2. f \in DOMAIN s /\ f # i
      BY <1>1, <1>7
    <2>3. x = s[f]
      BY <1>8, <2>1
    <2> HIDE DEF f
    <2> QED
      BY <2>2, <2>3 DEF ToSet, IsInjective
  <1>11. ASSUME NEW x \in ToSet(s), x # s[i] PROVE x \in ToSet(q)
    <2>1. PICK k \in DOMAIN s : x = s[k]
      BY DEF ToSet
    <2> DEFINE j == IF k < i THEN k ELSE k - 1
    <2>2. k # i
      BY <1>11, <2>1
    <2>3. j \in DOMAIN q /\ (IF j < i THEN j ELSE j + 1) = k
      BY <1>1, <1>7, <2>2
    <2>4. q[j] = x
      BY <1>8, <2>1, <2>3
    <2> HIDE DEF j
    <2> QED
      BY <2>3, <2>4 DEF ToSet
  <1>12. ToSet(q) = ToSet(s) \ {s[i]}
    BY <1>10, <1>11
  <1> QED
    BY <1>6, <1>9, <1>12 DEF q

\* So does the first.
LEMMA QueueTail ==
  ASSUME NEW s \in Seq(Run), IsInjective(s), s # <<>>
  PROVE  /\ Tail(s) \in Seq(Run)
         /\ IsInjective(Tail(s))
         /\ Head(s) \in ToSet(s)
         /\ ToSet(Tail(s)) = ToSet(s) \ {Head(s)}
  <1>1. Len(s) \in Nat /\ Len(s) # 0 /\ DOMAIN s = 1..Len(s) /\ Head(s) = s[1]
    BY LenProperties, EmptySeq
  <1>2. 1 \in DOMAIN s
    BY <1>1
  <1>3. Tail(s) = SubSeq(s, 2, Len(s)) /\ Tail(s) \in Seq(Run)
    BY TailIsSubSeq, HeadTailProperties
  <1>4. SubSeq(s, 1, 0) = <<>>
    BY SubSeqEmpty
  <1>5. <<>> \o Tail(s) = Tail(s)
    BY <1>3, ConcatEmptySeq
  <1>6. RemoveAt(s, 1) = SubSeq(s, 1, 1 - 1) \o SubSeq(s, 1 + 1, Len(s))
    BY DEF RemoveAt
  <1>7. 1 - 1 = 0 /\ 1 + 1 = 2
    OBVIOUS
  <1>8. RemoveAt(s, 1) = Tail(s)
    BY <1>3, <1>4, <1>5, <1>6, <1>7
  <1>9. IsInjective(Tail(s)) /\ ToSet(Tail(s)) = ToSet(s) \ {s[1]}
    BY <1>2, <1>8, QueueRemove
  <1>10. s[1] \in ToSet(s)
    BY <1>2 DEF ToSet
  <1> QED
    BY <1>1, <1>3, <1>9, <1>10

LEMMA HoldersFinite ==
  ASSUME NEW S \in SUBSET Run
  PROVE  IsFiniteSet(S) /\ Cardinality(S) \in Nat
  BY ExecutorAssumption, FS_Subset, FS_CardinalityType

\* A phase in which a run has a place of the semaphore.
Holding(p) == p \in {"entering", "streaming", "replaying"}

\* Nothing is amiss when a run keeps what it has of the semaphore.
LEMMA KeepsPlace ==
  ASSUME TypeOK, SlotsReturn, NEW r \in Run, NEW p \in Phase, Goto(r, p),
         phase[r] # "queued", p # "queued", Holding(phase[r]) <=> Holding(p)
  PROVE  SlotsReturn'
  <1>1. phase' = [phase EXCEPT ![r] = p] /\ UNCHANGED <<free, queue>>
        /\ phase \in [Run -> Phase]
    BY DEF Goto, TypeOK
  <1>2. Holders' = Holders
    BY <1>1 DEF Holders, Holding
  <1>3. {q \in Run : phase'[q] = "queued"} = {q \in Run : phase[q] = "queued"}
    BY <1>1
  <1> QED
    BY <1>1, <1>2, <1>3 DEF SlotsReturn

\* A place that is left goes to the first waiter or back to the value.
LEMMA LeavesPlace ==
  ASSUME TypeOK, SlotsReturn, NEW r \in Holders, NEW p \in Phase \ {"queued"}, ~Holding(p),
         ReleaseAndGoto(r, p)
  PROVE  /\ SlotsReturn'
         /\ free' \in 0..MaxConcurrency /\ queue' \in Seq(Run)
         /\ phase' \in [Run -> Phase] /\ phase'[r] = p
         /\ \A q \in Run \ {r} : \/ phase'[q] = phase[q]
                                 \/ phase[q] = "queued" /\ phase'[q] = "entering"
  <1>1. /\ r \in Run /\ Holding(phase[r]) /\ phase \in [Run -> Phase]
        /\ free \in 0..MaxConcurrency /\ queue \in Seq(Run)
        /\ MaxConcurrency \in Nat /\ Holders \in SUBSET Run
    BY ExecutorAssumption DEF Holders, Holding, TypeOK
  <1>2. /\ free + Cardinality(Holders) = MaxConcurrency
        /\ IsInjective(queue)
        /\ ToSet(queue) = {q \in Run : phase[q] = "queued"}
        /\ queue # <<>> => free = 0
    BY DEF SlotsReturn
  <1>3. /\ Cardinality(Holders \ {r}) = Cardinality(Holders) - 1
        /\ IsFiniteSet(Holders \ {r})
        /\ Cardinality(Holders) \in Nat /\ Cardinality(Holders \ {r}) \in Nat
    <2>1. IsFiniteSet(Holders) /\ Cardinality(Holders) \in Nat
          /\ IsFiniteSet(Holders \ {r}) /\ Cardinality(Holders \ {r}) \in Nat
      BY <1>1, HoldersFinite
    <2> QED
      BY <2>1, FS_RemoveElement
  <1>4. CASE queue = <<>>
    <2>1. free' = free + 1 /\ phase' = [phase EXCEPT ![r] = p] /\ queue' = queue
      BY <1>4 DEF ReleaseAndGoto
    <2>2. Holders' = Holders \ {r}
      BY <1>1, <2>1 DEF Holders, Holding
    <2>3. {q \in Run : phase'[q] = "queued"} = {q \in Run : phase[q] = "queued"}
      BY <1>1, <2>1 DEF Holding
    <2>4. free' + Cardinality(Holders') = MaxConcurrency /\ free' \in 0..MaxConcurrency
      BY <1>1, <1>2, <1>3, <2>1, <2>2
    <2>5. SlotsReturn'
      BY <1>2, <1>4, <2>1, <2>3, <2>4 DEF SlotsReturn
    <2> QED
      BY <1>1, <2>1, <2>4, <2>5
  <1>5. CASE queue # <<>>
    <2> DEFINE h == Head(queue)
    <2>1. /\ phase' = [phase EXCEPT ![r] = p, ![h] = "entering"]
          /\ queue' = Tail(queue) /\ free' = free
      BY <1>5 DEF ReleaseAndGoto
    <2>2. /\ queue' \in Seq(Run) /\ IsInjective(queue')
          /\ h \in ToSet(queue) /\ ToSet(queue') = ToSet(queue) \ {h}
      BY <1>1, <1>2, <1>5, <2>1, QueueTail
    <2> HIDE DEF h
    <2>3. h \in Run /\ phase[h] = "queued" /\ h # r /\ phase[r] # "queued"
      BY <1>1, <1>2, <2>2 DEF Holding
    <2>4. /\ phase' \in [Run -> Phase] /\ phase'[r] = p /\ phase'[h] = "entering"
          /\ \A q \in Run \ {r, h} : phase'[q] = phase[q]
      BY <1>1, <2>1, <2>3 DEF Phase
    <2>5. Holders' = (Holders \ {r}) \cup {h} /\ h \notin Holders \ {r}
      BY <1>1, <2>3, <2>4 DEF Holders, Holding
    <2>6. Cardinality(Holders') = Cardinality(Holders)
      BY <1>3, <2>5, FS_AddElement
    <2>7. ToSet(queue') = {q \in Run : phase'[q] = "queued"}
      <3>1. \A q \in Run : phase'[q] = "queued" <=> phase[q] = "queued" /\ q # h
        BY <1>1, <2>3, <2>4
      <3> QED
        BY <1>2, <2>2, <3>1
    <2>8. SlotsReturn'
      BY <1>2, <1>5, <2>1, <2>2, <2>6, <2>7 DEF SlotsReturn
    <2> QED
      BY <1>1, <2>1, <2>2, <2>3, <2>4, <2>8
  <1> QED
    BY <1>4, <1>5

----------------------------------------------------------------------------
(***************************************************************************)
(* Lemmas on the breakers                                                  *)
(***************************************************************************)

\* c has counted no more failures than b, and is not tripped unless b was.
Milder(b, c) == c.failures <= b.failures /\ (c.state # "closed" => b.state # "closed")

LEMMA NewBreakerOK ==
  NewBreaker \in Breaker /\ NewBreaker.state = "closed" /\ NewBreaker.failures = 0
  BY BreakerConfigAssumption DEF NewBreaker, Breaker, CircuitState

LEMMA RecoverMilder ==
  ASSUME NEW b \in Breaker
  PROVE  AfterCanExecute(b) \in Breaker /\ Milder(b, AfterCanExecute(b))
  <1> DEFINE r == [b EXCEPT !.state = "half_open", !.probes = 0, !.successes = 0]
  <1>1. 0 \in 0..HalfOpenMaxCalls /\ 0 \in 0..SuccessThreshold /\ b.failures \in Int
    BY BreakerConfigAssumption DEF Breaker
  <1>2. r \in Breaker /\ r.failures = b.failures
    BY <1>1 DEF Breaker, CircuitState
  <1>3. AfterCanExecute(b) = IF RecoveryDue(b) THEN r ELSE b
    BY DEF AfterCanExecute, MaybeRecover
  <1>4. RecoveryDue(b) => b.state # "closed"
    BY DEF RecoveryDue
  <1> HIDE DEF r
  <1> QED
    BY <1>1, <1>2, <1>3, <1>4 DEF Milder

LEMMA PreCallMilder ==
  ASSUME NEW b \in Breaker, CanExecute(b)
  PROVE  PreCall(b) \in Breaker /\ Milder(b, PreCall(b))
  <1> DEFINE r == MaybeRecover(b)
  <1>1. r \in Breaker /\ Milder(b, r)
    BY RecoverMilder DEF AfterCanExecute
  <1>2. r.state = "closed" \/ (r.state = "half_open" /\ r.probes < HalfOpenMaxCalls)
    BY DEF CanExecute, Permits
  <1>3. PreCall(b) = IF r.state = "half_open" THEN [r EXCEPT !.probes = @ + 1] ELSE r
    BY DEF PreCall
  <1> HIDE DEF r
  <1>4. CASE r.state = "half_open"
    <2>1. PreCall(b) = [r EXCEPT !.probes = r.probes + 1] /\ r.probes + 1 \in 0..HalfOpenMaxCalls
      BY <1>1, <1>2, <1>3, <1>4, BreakerConfigAssumption DEF Breaker
    <2>2. PreCall(b) \in Breaker /\ PreCall(b).failures = r.failures /\ PreCall(b).state = r.state
      BY <1>1, <2>1 DEF Breaker
    <2> QED
      BY <1>1, <2>2 DEF Milder
  <1>5. CASE r.state # "half_open"
    BY <1>1, <1>3, <1>5
  <1> QED
    BY <1>4, <1>5

LEMMA SuccessMilder ==
  ASSUME NEW b \in Breaker
  PROVE  RecordSuccess(b) \in Breaker /\ Milder(b, RecordSuccess(b))
  <1>1. b.failures \in Int /\ 0 <= b.failures /\ b.successes \in Nat
    BY BreakerConfigAssumption DEF Breaker
  <1>2. CASE b.state = "half_open" /\ b.successes + 1 >= SuccessThreshold
    BY <1>1, <1>2, NewBreakerOK DEF RecordSuccess, TripClosed, Milder
  <1>3. CASE b.state = "half_open" /\ ~(b.successes + 1 >= SuccessThreshold)
    <2>1. RecordSuccess(b) = [b EXCEPT !.successes = b.successes + 1]
      BY <1>3 DEF RecordSuccess, Breaker
    <2>2. b.successes + 1 \in 0..SuccessThreshold
      BY <1>3, BreakerConfigAssumption DEF Breaker
    <2> QED
      BY <1>1, <1>3, <2>1, <2>2 DEF Breaker, Milder
  <1>4. CASE b.state # "half_open"
    <2>1. RecordSuccess(b) = [b EXCEPT !.failures = 0] /\ 0 \in 0..FailureThreshold
      BY <1>4, BreakerConfigAssumption DEF RecordSuccess
    <2> QED
      BY <1>1, <2>1 DEF Breaker, Milder
  <1> QED
    BY <1>2, <1>3, <1>4

LEMMA AgedMilder ==
  ASSUME NEW b \in Breaker
  PROVE  Aged(b) \in Breaker /\ Milder(b, Aged(b))
  <1>1. (IF b.age < RecoveryTimeout THEN b.age + 1 ELSE b.age) \in 0..RecoveryTimeout
    BY BreakerConfigAssumption DEF Breaker
  <1>2. b.failures \in Int
    BY DEF Breaker
  <1> QED
    BY <1>1, <1>2 DEF Aged, Breaker, Milder

\* A failure is counted, or trips the breaker that has enough of them.
LEMMA FailureCounts ==
  ASSUME NEW b \in Breaker
  PROVE  /\ RecordFailure(b) \in Breaker
         /\ \/ RecordFailure(b).failures = b.failures + 1 /\ RecordFailure(b).state = b.state
            \/ /\ RecordFailure(b).failures = FailureThreshold
               /\ b.state # "closed" \/ b.failures + 1 >= FailureThreshold
  <1>1. CASE b.state = "half_open" \/ b.failures + 1 >= FailureThreshold
    <2>1. 0 \in 0..RecoveryTimeout /\ 0 \in 0..SuccessThreshold
          /\ FailureThreshold \in 0..FailureThreshold
      BY BreakerConfigAssumption
    <2>2. TripOpen(b) \in Breaker /\ TripOpen(b).failures = FailureThreshold
      BY <2>1 DEF TripOpen, Breaker, CircuitState
    <2>3. RecordFailure(b) = TripOpen(b)
      BY <1>1 DEF RecordFailure
    <2>4. b.state = "half_open" => b.state # "closed"
      OBVIOUS
    <2> QED
      BY <1>1, <2>2, <2>3, <2>4
  <1>2. CASE ~(b.state = "half_open" \/ b.failures + 1 >= FailureThreshold)
    <2>1. RecordFailure(b) = [b EXCEPT !.failures = b.failures + 1]
      BY <1>2 DEF RecordFailure, Breaker
    <2>2. b.failures + 1 \in 0..FailureThreshold
      BY <1>2, BreakerConfigAssumption DEF Breaker
    <2> QED
      BY <1>2, <2>1, <2>2 DEF Breaker
  <1> QED
    BY <1>1, <1>2

----------------------------------------------------------------------------
(***************************************************************************)
(* Lemmas on steps                                                         *)
(***************************************************************************)

\* A run whose turn it is not: all that can happen to it is that it is given
\* the semaphore.
Same(q) ==
  /\ got'[q] = got[q] /\ pending'[q] = pending[q]
  /\ attempt'[q] = attempt[q] /\ key'[q] = key[q]
  /\ phase'[q] = phase[q] \/ (phase[q] = "queued" /\ phase'[q] = "entering")

\* A key is given once.
KeysStay == \A q \in Run : key[q] # NoKey => key'[q] = key[q]

LEMMA CompleteKept ==
  ASSUME KeysStay, NEW c \in Seq(Chunk), NEW k, k # NoKey, Complete(c, k)
  PROVE  Complete(c, k)'
  <1>1. c # <<>> /\ key[c[1].run] = k
    BY DEF Complete
  <1>2. c[1] \in Chunk
    <2>1. Len(c) \in Nat /\ Len(c) # 0
      BY <1>1, EmptySeq
    <2> QED
      BY <2>1, ElementOfSeq
  <1>3. key'[c[1].run] = k
    BY <1>1, <1>2 DEF KeysStay, Chunk
  <1> QED
    BY <1>3 DEF Complete

LEMMA SameKeeps ==
  ASSUME IInv, UNCHANGED buffered, KeysStay, NEW q \in Run, Same(q)
  PROVE  Keyed(q)' /\ Staged(q)' /\ Whole(q)' /\ FailuresOf(q)' = FailuresOf(q)
  <1>1. Keyed(q) /\ Staged(q) /\ Whole(q)
    BY DEF IInv, Runs
  <1>2. /\ got[q] \in Seq(Chunk) /\ pending[q] \in Seq(Chunk) /\ phase[q] \in Phase
        /\ Stream(q) \in Seq(Chunk) /\ key[q] \in Key \cup {NoKey}
    BY ConcatFacts DEF IInv, TypeOK, Stream
  <1>3. Stream(q)' = Stream(q) /\ FailuresOf(q)' = FailuresOf(q)
        /\ ChunkOf(q, "output")' = ChunkOf(q, "output")
    BY DEF Same, Stream, FailuresOf, ChunkOf
  <1>4. Keyed(q)'
    BY <1>1 DEF Keyed, Same
  <1>5. Staged(q)'
    BY <1>1, <1>3 DEF Staged, Same
  <1>6. Whole(q)'
    <2>1. buffered /\ phase'[q] \in {"replaying", "hit"} => Complete(Stream(q), key[q])'
      <3> SUFFICES ASSUME buffered, phase'[q] \in {"replaying", "hit"}
                   PROVE  Complete(Stream(q), key[q])'
        OBVIOUS
      <3>1. PICK c \in Seq(Chunk), k \in Key \cup {NoKey} : c = Stream(q) /\ k = key[q]
        BY <1>2
      <3>2. Complete(c, k) /\ k \in Key
        BY <1>1, <3>1 DEF Whole, Keyed, Same
      <3>3. Complete(c, k)'
        BY <3>2, CompleteKept, ExecutorAssumption DEF Key
      <3> QED
        BY <1>3, <3>1, <3>3 DEF Same, Complete
    <2>2. buffered /\ phase'[q] = "over" =>
             Complete(got[q], key[q])' \/ (Len(got[q]) = 1 /\ got[q][1].kind = "error")
      <3> SUFFICES ASSUME buffered, phase'[q] = "over",
                          ~(Len(got[q]) = 1 /\ got[q][1].kind = "error")
                   PROVE  Complete(got[q], key[q])'
        OBVIOUS
      <3>1. PICK c \in Seq(Chunk), k \in Key \cup {NoKey} : c = got[q] /\ k = key[q]
        BY <1>2
      <3>2. Complete(c, k) /\ k \in Key
        BY <1>1, <3>1 DEF Whole, Keyed, Same
      <3>3. Complete(c, k)'
        BY <3>2, CompleteKept, ExecutorAssumption DEF Key
      <3> QED
        BY <3>1, <3>3 DEF Same, Complete
    <2> QED
      BY <2>1, <2>2 DEF Whole, Same
  <1> QED
    BY <1>3, <1>4, <1>5, <1>6

LEMMA FailuresInt ==
  ASSUME TypeOK, TypeOK'
  PROVE  \A q \in Run : FailuresOf(q) \in Int /\ FailuresOf(q)' \in Int
  <1>1. \A q \in Run : attempt[q] \in 0..MaxRetries /\ attempt'[q] \in 0..MaxRetries
    BY DEF TypeOK
  <1>2. \A q \in Run : attempt[q] \in Int /\ attempt'[q] \in Int
    BY <1>1
  <1> QED
    BY <1>2 DEF FailuresOf

\* More failures of each run are more failures of each model.
LEMMA FailuresMore ==
  ASSUME TypeOK, TypeOK', \A q \in Run : FailuresOf(q) <= FailuresOf(q)', NEW m
  PROVE  Cardinality(FailuresAt(m)) <= Cardinality(FailuresAt(m)')
  <1>1. \A q \in Run : FailuresOf(q) \in Int /\ FailuresOf(q)' \in Int
    BY FailuresInt
  <1>2. ASSUME NEW f \in FailuresAt(m) PROVE f \in FailuresAt(m)'
    <2>1. /\ f \in Run \X (1..(MaxRetries + 1)) /\ ModelOf(f[1]) = m
          /\ f[2] <= FailuresOf(f[1])
      BY DEF FailuresAt
    <2>2. f[1] \in Run /\ f[2] \in Int
      BY <2>1, ExecutorAssumption
    <2>3. f[2] <= FailuresOf(f[1])'
      BY <1>1, <2>1, <2>2
    <2> QED
      BY <2>1, <2>3 DEF FailuresAt
  <1>3. FailuresAt(m)' \in SUBSET (Run \X (1..(MaxRetries + 1)))
    BY DEF FailuresAt
  <1>4. IsFiniteSet(FailuresAt(m)')
    BY <1>3, FailuresFinite
  <1> QED
    BY <1>2, <1>4, FS_Subset

LEMMA FailuresGrow ==
  ASSUME IInv, TypeOK', NEW r \in Run, phase[r] # "over", attempt[r] <= attempt'[r]
  PROVE  FailuresOf(r) <= FailuresOf(r)'
  <1>1. FailuresOf(r) = attempt[r]
    BY OnlyAttempts DEF IInv, Runs
  <1>2. FailuresOf(r)' = attempt'[r] \/ FailuresOf(r)' = attempt'[r] + 1
    BY DEF FailuresOf, TypeOK
  <1>3. attempt[r] \in Int /\ attempt'[r] \in Int
    BY DEF IInv, TypeOK
  <1> QED
    BY <1>1, <1>2, <1>3

\* A step of r, which is not over.  What is left to show of it is what it makes
\* of r, of the breakers and of the cache.
LEMMA StepKeeps ==
  ASSUME IInv, TypeOK', SlotsReturn', UNCHANGED buffered, KeysStay, CacheWhole',
         NEW r \in Run, phase[r] # "over", attempt[r] <= attempt'[r],
         \A q \in Run \ {r} : Same(q) /\ audit'[q] \in {audit[q], "none"},
         Keyed(r)', Staged(r)', Whole(r)',
         audit'[r] \in {audit[r], "none"} \/ Recorded(r)',
         \A m \in Model : Tripped(m)'
  PROVE  IInv'
  <1>1. \A q \in Run \ {r} : Keyed(q)' /\ Staged(q)' /\ Whole(q)' /\ FailuresOf(q)' = FailuresOf(q)
    BY SameKeeps
  <1>2. Runs'
    BY <1>1 DEF Runs
  <1>3. \A q \in Run : FailuresOf(q) <= FailuresOf(q)'
    <2> SUFFICES ASSUME NEW q \in Run PROVE FailuresOf(q) <= FailuresOf(q)'
      OBVIOUS
    <2>1. CASE q = r
      BY <2>1, FailuresGrow
    <2>2. CASE q # r
      <3>1. FailuresOf(q) \in Int
        BY FailuresType DEF IInv
      <3> QED
        BY <1>1, <2>2, <3>1
    <2> QED
      BY <2>1, <2>2
  <1>4. \A m : /\ Cardinality(FailuresAt(m)) <= Cardinality(FailuresAt(m)')
               /\ Cardinality(FailuresAt(m)) \in Nat /\ Cardinality(FailuresAt(m)') \in Nat
    <2> SUFFICES ASSUME NEW m
                 PROVE  /\ Cardinality(FailuresAt(m)) <= Cardinality(FailuresAt(m)')
                        /\ Cardinality(FailuresAt(m)) \in Nat /\ Cardinality(FailuresAt(m)') \in Nat
      OBVIOUS
    <2>1. Cardinality(FailuresAt(m)) <= Cardinality(FailuresAt(m)')
      BY <1>3, FailuresMore DEF IInv
    <2>2. /\ FailuresAt(m) \in SUBSET (Run \X (1..(MaxRetries + 1)))
          /\ FailuresAt(m)' \in SUBSET (Run \X (1..(MaxRetries + 1)))
      BY DEF FailuresAt
    <2> QED
      BY <2>1, <2>2, FailuresFinite
  <1>5. ASSUME NEW q \in Run PROVE Recorded(q)'
    <2>1. Recorded(q)
      BY DEF IInv
    <2>2. CASE q = r /\ audit'[r] \in {audit[r], "none"}
      <3>1. audit'[q] # "success" /\ audit'[q] # "failure"
        BY <2>1, <2>2 DEF Recorded
      <3> QED
        BY <3>1 DEF Recorded
    <2>3. CASE q = r /\ Recorded(r)'
      BY <2>3
    <2>4. CASE q # r
      <3>1. phase[q] = "over" => phase'[q] = "over" /\ got'[q] = got[q]
        BY <2>4 DEF Same
      <3>2. audit'[q] = audit[q] \/ audit'[q] = "none"
        BY <2>4
      <3>3. FailureThreshold <= Cardinality(FailuresAt(ModelOf(q)))
              => FailureThreshold <= Cardinality(FailuresAt(ModelOf(q))')
        BY <1>4, BreakerConfigAssumption
      <3> QED
        BY <2>1, <3>1, <3>2, <3>3 DEF Recorded
    <2> QED
      BY <2>2, <2>3, <2>4
  <1> QED
    BY <1>2, <1>5 DEF IInv
----------------------------------------------------------------------------
(***************************************************************************)
(* Lemmas that put the two together                                        *)
(***************************************************************************)

LEMMA ModelOfType == \A r \in Run : ModelOf(r) \in Model \cup {None}
  BY ExecutorAssumption DEF ModelOf, ResolveModel

\* As long as no breaker gets worse and no failure is forgotten, none is
\* tripped too soon.
LEMMA TrippedKept ==
  ASSUME IInv, TypeOK', NEW r \in Run, phase[r] # "over", attempt[r] <= attempt'[r],
         UNCHANGED buffered, KeysStay, \A q \in Run \ {r} : Same(q),
         \A m \in Model : Milder(breakers[m], breakers'[m])
  PROVE  \A m \in Model : Tripped(m)'
  <1>1. \A q \in Run : FailuresOf(q) <= FailuresOf(q)'
    <2> SUFFICES ASSUME NEW q \in Run PROVE FailuresOf(q) <= FailuresOf(q)'
      OBVIOUS
    <2>1. CASE q = r
      BY <2>1, FailuresGrow
    <2>2. CASE q # r
      <3>1. FailuresOf(q) \in Int /\ FailuresOf(q)' = FailuresOf(q)
        BY <2>2, FailuresType, SameKeeps DEF IInv
      <3> QED
        BY <3>1
    <2> QED
      BY <2>1, <2>2
  <1> SUFFICES ASSUME NEW m \in Model PROVE Tripped(m)'
    OBVIOUS
  <1>2. Cardinality(FailuresAt(m)) <= Cardinality(FailuresAt(m)')
    BY <1>1, FailuresMore DEF IInv
  <1>3. /\ FailuresAt(m) \in SUBSET (Run \X (1..(MaxRetries + 1)))
        /\ FailuresAt(m)' \in SUBSET (Run \X (1..(MaxRetries + 1)))
    BY DEF FailuresAt
  <1>4. Cardinality(FailuresAt(m)) \in Nat /\ Cardinality(FailuresAt(m)') \in Nat
    BY <1>3, FailuresFinite
  <1>5. breakers[m] \in Breaker /\ breakers'[m] \in Breaker
    BY DEF IInv, TypeOK
  <1>6. breakers[m].failures \in Int /\ breakers'[m].failures \in Int /\ FailureThreshold \in Int
    BY <1>5, BreakerConfigAssumption DEF Breaker
  <1>7. Tripped(m) /\ Milder(breakers[m], breakers'[m])
    BY DEF IInv
  <1> QED
    BY <1>2, <1>4, <1>6, <1>7 DEF Tripped, Milder

LEMMA BreakerSet ==
  ASSUME IInv, NEW r \in Run, ModelOf(r) \in Model, NEW b \in Breaker, SetBreaker(r, b)
  PROVE  /\ breakers' \in [Model -> Breaker]
         /\ breakers'[ModelOf(r)] = b
         /\ \A m \in Model \ {ModelOf(r)} : breakers'[m] = breakers[m]
  BY DEF IInv, TypeOK, SetBreaker

LEMMA MilderSame == ASSUME NEW b \in Breaker PROVE Milder(b, b)
  <1>1. b.failures \in Int
    BY DEF Breaker
  <1> QED
    BY <1>1 DEF Milder

\* One breaker set to a milder value.
LEMMA MilderSet ==
  ASSUME IInv, NEW r \in Run, ModelOf(r) \in Model, NEW b \in Breaker,
         Milder(BreakerOf(r), b), SetBreaker(r, b)
  PROVE  breakers' \in [Model -> Breaker] /\ \A m \in Model : Milder(breakers[m], breakers'[m])
  <1>1. /\ breakers' \in [Model -> Breaker]
        /\ breakers'[ModelOf(r)] = b
        /\ \A m \in Model \ {ModelOf(r)} : breakers'[m] = breakers[m]
    BY BreakerSet
  <1>2. \A m \in Model : breakers[m] \in Breaker
    BY DEF IInv, TypeOK
  <1>3. \A m \in Model \ {ModelOf(r)} : Milder(breakers[m], breakers'[m])
    BY <1>1, <1>2, MilderSame
  <1> QED
    BY <1>1, <1>3 DEF BreakerOf

LEMMA BreakerOfType ==
  ASSUME IInv, NEW r \in Run, ModelOf(r) \in Model
  PROVE  BreakerOf(r) \in Breaker
  BY DEF IInv, TypeOK, BreakerOf

\* The cache stays whole if every entry stays or goes.
LEMMA CacheKept ==
  ASSUME IInv, KeysStay, UNCHANGED buffered,
         \A k \in Key : cache'[k] = cache[k] \/ cache'[k] = <<>>
  PROVE  CacheWhole'
  <1> SUFFICES ASSUME buffered, NEW k \in Key, cache'[k] # <<>>, cache'[k] = cache[k]
               PROVE  Complete(cache[k], k)'
    BY DEF CacheWhole
  <1>1. PICK c \in Seq(Chunk) : c = cache[k]
    BY DEF IInv, TypeOK
  <1>2. Complete(c, k) /\ k # NoKey
    BY <1>1, ExecutorAssumption DEF IInv, CacheWhole, Key
  <1>3. Complete(c, k)'
    BY <1>2, CompleteKept
  <1> QED
    BY <1>1, <1>3 DEF Complete

\* Keys do not change but in Begin.
LEMMA KeysKept == ASSUME UNCHANGED key PROVE KeysStay
  BY DEF KeysStay

----------------------------------------------------------------------------
(***************************************************************************)
(* Every action keeps the invariant                                        *)
(***************************************************************************)

LEMMA InitInv == Init => IInv
  <1> SUFFICES ASSUME Init PROVE IInv
    OBVIOUS
  <1>1. 0 \in 0..MaxRetries /\ 0 \in 0..MaxLeaves /\ MaxConcurrency \in 0..MaxConcurrency
        /\ MaxConcurrency \in Nat
    BY ExecutorAssumption
  <1>2. \A S : <<>> \in Seq(S)
    BY EmptySeq
  <1>3. TypeOK
    BY <1>1, <1>2, NewBreakerOK DEF Init, TypeOK, Phase
  <1>4. Holders = {} /\ {r \in Run : phase[r] = "queued"} = {}
    BY DEF Init, Holders
  <1>5. IsInjective(queue) /\ ToSet(queue) = {}
    BY DEF Init, IsInjective, ToSet
  <1>6. SlotsReturn
    BY <1>1, <1>4, <1>5, FS_EmptySet DEF SlotsReturn, Init
  <1>7. Runs
    BY DEF Init, Runs, Keyed, Staged, Whole
  <1>8. CacheWhole
    BY DEF Init, CacheWhole
  <1>9. \A m \in Model : Tripped(m)
    <2> SUFFICES ASSUME NEW m \in Model PROVE Tripped(m)
      OBVIOUS
    <2>1. FailuresAt(m) \in SUBSET (Run \X (1..(MaxRetries + 1)))
      BY DEF FailuresAt
    <2>2. Cardinality(FailuresAt(m)) \in Nat
      BY <2>1, FailuresFinite
    <2> QED
      BY <2>2, NewBreakerOK DEF Init, Tripped
  <1>10. \A r \in Run : Recorded(r)
    BY DEF Init, Recorded
  <1> QED
    BY <1>3, <1>6, <1>7, <1>8, <1>9, <1>10 DEF IInv

\* The first chunk of c handed out to one who had nothing, the others kept.
LEMMA HandsOut ==
  ASSUME NEW r \in Run, NEW c \in Seq(Chunk), c # <<>>, got[r] = <<>>,
         got'[r] = Append(got[r], Head(c)), pending'[r] = Tail(c)
  PROVE  /\ got'[r] \in Seq(Chunk) /\ got'[r] # <<>> /\ pending'[r] \in Seq(Chunk)
         /\ Stream(r)' = c
  <1>1. <<>> \in Seq(Chunk) /\ <<>> \o c = c
    BY EmptySeq, ConcatEmptySeq
  <1>2. /\ Append(<<>>, Head(c)) \in Seq(Chunk) /\ Append(<<>>, Head(c)) # <<>>
        /\ Tail(c) \in Seq(Chunk)
        /\ Append(<<>>, Head(c)) \o Tail(c) = <<>> \o c
    BY <1>1, MovedAlong
  <1> QED
    BY <1>1, <1>2 DEF Stream

LEMMA BeginRaised ==
  ASSUME IInv, NEW r \in Run, phase[r] = "new", Goto(r, "raised"),
         UNCHANGED <<buffered, attempt, key, pending, got, breakers, cache, audit, leaves>>
  PROVE  IInv'
  <1>1. TypeOK /\ SlotsReturn /\ Keyed(r) /\ Staged(r) /\ "raised" \in Phase
    BY DEF IInv, Runs, Phase
  <1>2. TypeOK'
    BY <1>1 DEF TypeOK, Goto
  <1>3. SlotsReturn'
    BY <1>1, KeepsPlace DEF Holding
  <1>4. phase'[r] = "raised" /\ attempt[r] <= attempt'[r]
    BY <1>1 DEF Goto, TypeOK
  <1>5. \A q \in Run \ {r} : Same(q)
    BY <1>1 DEF Same, Goto, TypeOK
  <1>6. Keyed(r)' /\ Staged(r)' /\ Whole(r)'
    BY <1>1, <1>4 DEF Keyed, Staged, Whole
  <1>7. KeysStay /\ CacheWhole'
    BY KeysKept, CacheKept
  <1>8. \A m \in Model : Tripped(m)'
    BY <1>1, <1>2, <1>4, <1>5, <1>7, MilderSame, TrippedKept DEF TypeOK
  <1> QED
    BY <1>2, <1>3, <1>4, <1>5, <1>6, <1>7, <1>8, StepKeeps

LEMMA BeginFound ==
  ASSUME IInv, NEW r \in Run, phase[r] = "new", ModelOf(r) # None,
         Goto(r, "waiting"), buffered => key'[r] \in Key,
         key'[r] \in Key \cup {NoKey}, key' = [key EXCEPT ![r] = key'[r]],
         UNCHANGED <<buffered, attempt, pending, got, breakers, cache, audit, leaves>>
  PROVE  IInv'
  <1>1. TypeOK /\ SlotsReturn /\ Keyed(r) /\ Staged(r) /\ "waiting" \in Phase
        /\ ModelOf(r) \in Model
    BY ModelOfType DEF IInv, Runs, Phase
  <1>2. TypeOK'
    BY <1>1 DEF TypeOK, Goto
  <1>3. SlotsReturn'
    BY <1>1, KeepsPlace DEF Holding
  <1>4. phase'[r] = "waiting" /\ attempt[r] <= attempt'[r] /\ got[r] = <<>> /\ pending[r] = <<>>
    BY <1>1 DEF Goto, TypeOK, Staged
  <1>5. \A q \in Run \ {r} : Same(q)
    BY <1>1 DEF Same, Goto, TypeOK
  <1>6. Keyed(r)' /\ Staged(r)' /\ Whole(r)'
    BY <1>1, <1>4 DEF Keyed, Staged, Whole
  <1>7. KeysStay
    BY <1>1 DEF Keyed, KeysStay, TypeOK
  <1>8. CacheWhole'
    BY <1>7, CacheKept
  <1>9. \A m \in Model : Tripped(m)'
    BY <1>1, <1>2, <1>4, <1>5, <1>7, MilderSame, TrippedKept DEF TypeOK
  <1> QED
    BY <1>2, <1>3, <1>4, <1>5, <1>6, <1>7, <1>8, <1>9, StepKeeps

\* A hit hands out the whole answer of one attempt, made for the same key.
LEMMA BeginHit ==
  ASSUME IInv, NEW r \in Run, phase[r] = "new", ModelOf(r) # None, buffered,
         NEW k \in Key, key' = [key EXCEPT ![r] = k], cache[k] # <<>>,
         Yield(r, Head(cache[k])), pending' = [pending EXCEPT ![r] = Tail(cache[k])],
         Goto(r, "hit"),
         UNCHANGED <<buffered, attempt, breakers, cache, audit, leaves>>
  PROVE  IInv'
  <1>1. TypeOK /\ SlotsReturn /\ Keyed(r) /\ Staged(r) /\ "hit" \in Phase
        /\ ModelOf(r) \in Model
    BY ModelOfType DEF IInv, Runs, Phase
  <1>2. PICK c \in Seq(Chunk) : c = cache[k]
    BY <1>1 DEF TypeOK
  <1>3. got[r] = <<>> /\ key[r] = NoKey /\ k # NoKey
    BY <1>1, ExecutorAssumption DEF Staged, Keyed, Key
  <1>4. /\ got' = [got EXCEPT ![r] = got'[r]] /\ pending' = [pending EXCEPT ![r] = pending'[r]]
        /\ got'[r] = Append(got[r], Head(c)) /\ pending'[r] = Tail(c)
    BY <1>1, <1>2 DEF Yield, TypeOK
  <1>5. /\ got'[r] \in Seq(Chunk) /\ got'[r] # <<>> /\ pending'[r] \in Seq(Chunk)
        /\ Stream(r)' = c
    BY <1>2, <1>3, <1>4, HandsOut
  <1>6. phase'[r] = "hit" /\ attempt[r] <= attempt'[r] /\ key'[r] = k
    BY <1>1 DEF Goto, TypeOK
  <1>7. TypeOK'
    BY <1>1, <1>4, <1>5 DEF TypeOK, Goto
  <1>8. SlotsReturn'
    BY <1>1, KeepsPlace DEF Holding
  <1>9. \A q \in Run \ {r} : Same(q)
    BY <1>1, <1>4 DEF Same, Goto, TypeOK
  <1>10. KeysStay
    BY <1>1, <1>3 DEF KeysStay, TypeOK
  <1>11. CacheWhole'
    BY <1>10, CacheKept
  <1>12. Complete(c, k) /\ Complete(c, k)'
    BY <1>2, <1>3, <1>10, CompleteKept DEF IInv, CacheWhole
  <1>13. EndsOnce(c)
    BY <1>12, CompleteEnds
  <1>14. Keyed(r)'
    BY <1>1, <1>6 DEF Keyed
  <1>15. Staged(r)'
    BY <1>5, <1>6, <1>13 DEF Staged, EndsOnce, Ending
  <1>16. Whole(r)'
    BY <1>5, <1>6, <1>12 DEF Whole, Complete
  <1>17. \A m \in Model : Tripped(m)'
    BY <1>1, <1>6, <1>7, <1>9, <1>10, MilderSame, TrippedKept DEF TypeOK
  <1> QED
    BY <1>6, <1>7, <1>8, <1>9, <1>10, <1>11, <1>14, <1>15, <1>16, <1>17, StepKeeps

LEMMA BeginKeeps ==
  ASSUME IInv, NEW r \in Run, Begin(r)
  PROVE  IInv'
  <1>1. phase[r] = "new" /\ UNCHANGED <<buffered, attempt, breakers, cache, audit, leaves>>
    BY DEF Begin
  <1>2. CASE Goto(r, "raised") /\ UNCHANGED <<key, got, pending>>
    BY <1>1, <1>2, BeginRaised
  <1>3. CASE buffered /\ ModelOf(r) # None
             /\ \E p \in Payload :
                  LET k == MakeKey(ModelOf(r), p)
                  IN /\ key' = [key EXCEPT ![r] = k]
                     /\ IF cache[k] # <<>>
                        THEN /\ Yield(r, Head(cache[k]))
                             /\ pending' = [pending EXCEPT ![r] = Tail(cache[k])]
                             /\ Goto(r, "hit")
                        ELSE /\ Goto(r, "waiting")
                             /\ UNCHANGED <<got, pending>>
    <2>1. PICK p \in Payload :
            LET k == MakeKey(ModelOf(r), p)
            IN /\ key' = [key EXCEPT ![r] = k]
               /\ IF cache[k] # <<>>
                  THEN /\ Yield(r, Head(cache[k]))
                       /\ pending' = [pending EXCEPT ![r] = Tail(cache[k])]
                       /\ Goto(r, "hit")
                  ELSE /\ Goto(r, "waiting")
                       /\ UNCHANGED <<got, pending>>
      BY <1>3
    <2>2. PICK k \in Key : k = MakeKey(ModelOf(r), p)
      BY <1>3, ModelOfType DEF MakeKey, Key
    <2>3. key' = [key EXCEPT ![r] = k] /\ key \in [Run -> Key \cup {NoKey}] /\ key'[r] = k
      BY <2>1, <2>2 DEF IInv, TypeOK
    <2>4. CASE cache[k] # <<>>
      BY <1>1, <1>3, <2>1, <2>2, <2>3, <2>4, BeginHit
    <2>5. CASE cache[k] = <<>>
      BY <1>1, <1>3, <2>1, <2>2, <2>3, <2>5, BeginFound
    <2> QED
      BY <2>4, <2>5
  <1>4. CASE ~buffered /\ ModelOf(r) # None /\ Goto(r, "waiting") /\ UNCHANGED <<key, got, pending>>
    <2>1. key'[r] \in Key \cup {NoKey} /\ key' = [key EXCEPT ![r] = key'[r]]
      BY <1>4 DEF IInv, TypeOK
    <2> QED
      BY <1>1, <1>4, <2>1, BeginFound
  <1> QED
    BY <1>2, <1>3, <1>4 DEF Begin

\* pre_call() lets r through to a place of the semaphore, or to the queue.
LEMMA AdmitKeeps ==
  ASSUME IInv, NEW r \in Run, Admit(r)
  PROVE  IInv'
  <1>1. /\ phase[r] = "waiting" /\ CanExecute(BreakerOf(r))
        /\ SetBreaker(r, PreCall(BreakerOf(r)))
        /\ UNCHANGED <<buffered, attempt, key, pending, got, cache, audit, leaves>>
    BY DEF Admit
  <1>2. TypeOK /\ SlotsReturn /\ Keyed(r) /\ Staged(r) /\ ModelOf(r) \in Model
    BY <1>1 DEF IInv, Runs, Keyed
  <1>3. PreCall(BreakerOf(r)) \in Breaker /\ Milder(BreakerOf(r), PreCall(BreakerOf(r)))
    BY <1>1, <1>2, BreakerOfType, PreCallMilder
  <1>4. breakers' \in [Model -> Breaker] /\ \A m \in Model : Milder(breakers[m], breakers'[m])
    BY <1>1, <1>2, <1>3, MilderSet
  <1>5. /\ free + Cardinality(Holders) = MaxConcurrency
        /\ IsInjective(queue)
        /\ ToSet(queue) = {q \in Run : phase[q] = "queued"}
        /\ queue # <<>> => free = 0
        /\ free \in 0..MaxConcurrency /\ MaxConcurrency \in Nat
        /\ phase \in [Run -> Phase] /\ queue \in Seq(Run)
    BY <1>2, ExecutorAssumption DEF SlotsReturn, TypeOK
  <1>6. Holders \in SUBSET Run /\ r \notin Holders /\ Cardinality(Holders) \in Nat
        /\ IsFiniteSet(Holders)
    BY <1>1, HoldersFinite DEF Holders
  <1>7. \E p \in {"entering", "queued"} :
          /\ phase' = [phase EXCEPT ![r] = p]
          /\ free' \in 0..MaxConcurrency /\ queue' \in Seq(Run) /\ SlotsReturn'
    <2>1. CASE free > 0
      <3>1. free' = free - 1 /\ phase' = [phase EXCEPT ![r] = "entering"] /\ queue' = queue
        BY <2>1 DEF Admit
      <3>2. Holders' = Holders \cup {r}
        BY <1>1, <1>5, <3>1 DEF Holders
      <3>3. Cardinality(Holders') = Cardinality(Holders) + 1
        BY <1>6, <3>2, FS_AddElement
      <3>4. free' \in 0..MaxConcurrency /\ free' + Cardinality(Holders') = MaxConcurrency
        BY <1>5, <1>6, <2>1, <3>1, <3>3
      <3>5. {q \in Run : phase'[q] = "queued"} = {q \in Run : phase[q] = "queued"}
        BY <1>1, <1>5, <3>1
      <3>6. queue = <<>>
        BY <1>5, <2>1
      <3> QED
        BY <1>5, <3>1, <3>4, <3>5, <3>6 DEF SlotsReturn
    <2>2. CASE ~(free > 0)
      <3>1. free' = free /\ phase' = [phase EXCEPT ![r] = "queued"] /\ queue' = Append(queue, r)
        BY <2>2 DEF Admit
      <3>2. Holders' = Holders
        BY <1>1, <1>5, <3>1 DEF Holders
      <3>3. r \notin ToSet(queue)
        BY <1>1, <1>5
      <3>4. queue' \in Seq(Run) /\ IsInjective(queue') /\ ToSet(queue') = ToSet(queue) \cup {r}
        BY <1>5, <3>1, <3>3, QueueAppend
      <3>5. ToSet(queue') = {q \in Run : phase'[q] = "queued"}
        <4>1. \A q \in Run : phase'[q] = "queued" <=> phase[q] = "queued" \/ q = r
          BY <1>5, <3>1
        <4> QED
          BY <1>5, <3>4, <4>1
      <3>6. free' = 0
        BY <1>5, <2>2, <3>1
      <3> QED
        BY <1>5, <3>1, <3>2, <3>4, <3>5, <3>6 DEF SlotsReturn
    <2> QED
      BY <2>1, <2>2
  <1>8. TypeOK'
    BY <1>1, <1>2, <1>4, <1>7 DEF TypeOK, Phase
  <1>9. phase'[r] \in {"entering", "queued"} /\ attempt[r] <= attempt'[r]
    BY <1>1, <1>2, <1>7 DEF TypeOK
  <1>10. \A q \in Run \ {r} : Same(q)
    BY <1>1, <1>2, <1>7 DEF Same, TypeOK
  <1>11. Keyed(r)' /\ Staged(r)' /\ Whole(r)'
    BY <1>1, <1>2, <1>9 DEF Keyed, Staged, Whole
  <1>12. KeysStay /\ CacheWhole'
    BY <1>1, KeysKept, CacheKept
  <1>13. \A m \in Model : Tripped(m)'
    BY <1>1, <1>4, <1>8, <1>9, <1>10, <1>12, TrippedKept
  <1> QED
    BY <1>1, <1>7, <1>8, <1>9, <1>10, <1>11, <1>12, <1>13, StepKeeps

\* A chunk added to those r has.
LEMMA OneMore ==
  ASSUME NEW g \in Seq(Chunk), NEW e \in Chunk, \A i \in DOMAIN g : ~Ending(g[i])
  PROVE  /\ Append(g, e) \in Seq(Chunk) /\ Append(g, e) # <<>>
         /\ Last(Append(g, e)) = e
         /\ Append(g, e) \o <<>> = Append(g, e)
         /\ Ending(e) => EndsOnce(Append(g, e))
         /\ ~Ending(e) => \A i \in DOMAIN Append(g, e) : ~Ending(Append(g, e)[i])
         /\ g = <<>> => Len(Append(g, e)) = 1 /\ Append(g, e)[1] = e
  <1> DEFINE a == Append(g, e)
             n == Len(g)
  <1>1. /\ a \in Seq(Chunk) /\ a # <<>> /\ n \in Nat /\ Len(a) = n + 1
        /\ \A i \in 1..n : a[i] = g[i]
        /\ a[n + 1] = e
        /\ g = <<>> => n = 0
    BY AppendProperties, LenProperties, EmptySeq
  <1>2. DOMAIN a = 1..(n + 1) /\ DOMAIN g = 1..n
    BY <1>1, LenProperties
  <1>3. a \o <<>> = a
    BY <1>1, ConcatEmptySeq
  <1> HIDE DEF a, n
  <1>4. \A i \in DOMAIN a : IF i = Len(a) THEN a[i] = e ELSE ~Ending(a[i])
    <2> SUFFICES ASSUME NEW i \in DOMAIN a, i # n + 1 PROVE ~Ending(a[i])
      BY <1>1
    <2>1. i \in DOMAIN g /\ a[i] = g[i]
      BY <1>1, <1>2
    <2> QED
      BY <2>1
  <1>5. Last(a) = e
    BY <1>1 DEF Last
  <1>6. Ending(e) => EndsOnce(a)
    BY <1>1, <1>4 DEF EndsOnce
  <1>7. ~Ending(e) => \A i \in DOMAIN a : ~Ending(a[i])
    BY <1>4
  <1>8. g = <<>> => Len(a) = 1 /\ a[1] = e
    BY <1>1
  <1> QED
    BY <1>1, <1>3, <1>5, <1>6, <1>7, <1>8 DEF a

\* r ends with an error.
LEMMA ErrorEnds ==
  ASSUME IInv, NEW r \in Run, phase[r] \in {"waiting", "entering", "streaming"},
         phase'[r] = "over", Yield(r, ChunkOf(r, "error")), UNCHANGED <<buffered, pending, key>>
  PROVE  /\ got' \in [Run -> Seq(Chunk)] /\ got'[r] # <<>>
         /\ Last(got'[r]).kind = "error"
         /\ \A q \in Run \ {r} : got'[q] = got[q]
         /\ Keyed(r)' /\ Staged(r)' /\ Whole(r)'
  <1>1. TypeOK /\ Keyed(r) /\ Staged(r)
    BY DEF IInv, Runs
  <1>2. PICK g \in Seq(Chunk), e \in Chunk : g = got[r] /\ e = ChunkOf(r, "error")
    BY <1>1, ChunkType DEF TypeOK
  <1>3. e.kind = "error" /\ Ending(e)
    BY <1>2 DEF ChunkOf, Ending
  <1>4. /\ \A i \in DOMAIN g : ~Ending(g[i])
        /\ pending[r] = <<>> /\ (buffered => g = <<>>)
    BY <1>1, <1>2 DEF Staged
  <1>5. /\ Append(g, e) \in Seq(Chunk) /\ Append(g, e) # <<>>
        /\ Last(Append(g, e)) = e
        /\ Append(g, e) \o <<>> = Append(g, e)
        /\ EndsOnce(Append(g, e))
        /\ g = <<>> => Len(Append(g, e)) = 1 /\ Append(g, e)[1] = e
    BY <1>3, <1>4, OneMore
  <1>6. got' = [got EXCEPT ![r] = Append(g, e)] /\ got'[r] = Append(g, e)
    BY <1>1, <1>2 DEF Yield, TypeOK
  <1>7. Stream(r)' = Append(g, e) /\ pending'[r] = <<>>
    BY <1>4, <1>5, <1>6 DEF Stream
  <1>8. Keyed(r)'
    BY <1>1 DEF Keyed
  <1>9. Staged(r)'
    BY <1>5, <1>6, <1>7 DEF Staged, EndsOnce, Ending
  <1>10. Whole(r)'
    BY <1>3, <1>4, <1>5, <1>6 DEF Whole
  <1> QED
    BY <1>1, <1>3, <1>5, <1>6, <1>8, <1>9, <1>10 DEF TypeOK

\* A refusal: its breaker was tripped, and had been by enough failures.
LEMMA RefuseKeeps ==
  ASSUME IInv, NEW r \in Run, Refuse(r)
  PROVE  IInv'
  <1> DEFINE b == AfterCanExecute(BreakerOf(r))
             m == ModelOf(r)
  <1>1. /\ phase[r] = "waiting" /\ ~CanExecute(BreakerOf(r)) /\ SetBreaker(r, b)
        /\ Yield(r, ChunkOf(r, "error")) /\ Goto(r, "over") /\ Record(r, "failure")
        /\ UNCHANGED <<buffered, attempt, key, pending, cache, leaves>>
    BY DEF Refuse
  <1>2. TypeOK /\ SlotsReturn /\ Keyed(r) /\ m \in Model /\ "over" \in Phase
    BY <1>1 DEF IInv, Runs, Keyed, Phase
  <1>3. b \in Breaker /\ Milder(BreakerOf(r), b) /\ b.state # "closed"
    BY <1>1, <1>2, BreakerOfType, RecoverMilder DEF AfterCanExecute, CanExecute, Permits
  <1> HIDE DEF b
  <1>4. /\ breakers' \in [Model -> Breaker] /\ breakers'[m] = b
        /\ \A n \in Model : Milder(breakers[n], breakers'[n])
    BY <1>1, <1>2, <1>3, MilderSet, BreakerSet
  <1>5. phase'[r] = "over" /\ attempt[r] <= attempt'[r]
    BY <1>1, <1>2 DEF Goto, TypeOK
  <1>6. /\ got' \in [Run -> Seq(Chunk)] /\ Last(got'[r]).kind = "error"
        /\ \A q \in Run \ {r} : got'[q] = got[q]
        /\ Keyed(r)' /\ Staged(r)' /\ Whole(r)'
    BY <1>1, <1>5, ErrorEnds
  <1>7. audit' \in [Run -> {"none", "success", "failure"}]
        /\ audit'[r] \in {audit[r], "failure"} /\ \A q \in Run \ {r} : audit'[q] = audit[q]
    BY <1>1, <1>2 DEF Record, TypeOK
  <1>8. TypeOK'
    BY <1>1, <1>2, <1>4, <1>6, <1>7 DEF TypeOK, Goto
  <1>9. SlotsReturn'
    BY <1>1, <1>2, KeepsPlace DEF Holding
  <1>10. \A q \in Run \ {r} : Same(q)
    BY <1>1, <1>2, <1>6 DEF Same, Goto, TypeOK
  <1>11. KeysStay /\ CacheWhole'
    BY <1>1, KeysKept, CacheKept
  <1>12. \A n \in Model : Tripped(n)'
    BY <1>1, <1>4, <1>5, <1>8, <1>10, <1>11, TrippedKept
  <1>13. audit'[r] \in {audit[r], "none"} \/ Recorded(r)'
    <2>1. Tripped(m)' /\ breakers'[m].state # "closed"
      BY <1>2, <1>3, <1>4, <1>12
    <2>2. FailureThreshold <= Cardinality(FailuresAt(m)')
      BY <2>1 DEF Tripped
    <2> QED
      BY <1>5, <1>6, <1>7, <2>2 DEF Recorded
  <1>14. /\ phase[r] # "over" /\ UNCHANGED buffered
         /\ \A q \in Run \ {r} : Same(q) /\ audit'[q] \in {audit[q], "none"}
    BY <1>1, <1>7, <1>10
  <1> QED
    BY <1>5, <1>6, <1>8, <1>9, <1>11, <1>12, <1>13, <1>14, StepKeeps

\* A failed attempt is one more failure of the run's model.
LEMMA FailureAdded ==
  ASSUME IInv, TypeOK', NEW r \in Run, phase[r] # "over", attempt[r] + 1 <= FailuresOf(r)',
         \A q \in Run \ {r} : FailuresOf(q)' = FailuresOf(q)
  PROVE  Cardinality(FailuresAt(ModelOf(r))) + 1 <= Cardinality(FailuresAt(ModelOf(r))')
  <1> DEFINE m == ModelOf(r)
             f == <<r, attempt[r] + 1>>
  <1>1. FailuresOf(r) = attempt[r] /\ attempt[r] \in 0..MaxRetries /\ MaxRetries \in Nat
    BY OnlyAttempts, ExecutorAssumption DEF IInv, Runs, TypeOK
  <1>2. \A q \in Run : FailuresOf(q) \in Int /\ FailuresOf(q)' \in Int
    BY FailuresInt DEF IInv
  <1>3. f \in Run \X (1..(MaxRetries + 1)) /\ f[1] = r /\ f[2] = attempt[r] + 1
    BY <1>1
  <1>4. f \notin FailuresAt(m) /\ f \in FailuresAt(m)'
    <2>1. ~(attempt[r] + 1 <= FailuresOf(r))
      BY <1>1
    <2> QED
      BY <1>3, <2>1 DEF FailuresAt
  <1>5. FailuresAt(m) \in SUBSET (FailuresAt(m)')
    <2> SUFFICES ASSUME NEW e \in FailuresAt(m) PROVE e \in FailuresAt(m)'
      OBVIOUS
    <2>1. /\ e \in Run \X (1..(MaxRetries + 1)) /\ ModelOf(e[1]) = m
          /\ e[2] <= FailuresOf(e[1])
      BY DEF FailuresAt
    <2>2. e[1] \in Run /\ e[2] \in Int
      BY <2>1
    <2>3. FailuresOf(e[1]) <= FailuresOf(e[1])'
      <3>1. PICK q \in Run : q = e[1]
        BY <2>2
      <3>2. CASE q = r
        <4>1. FailuresOf(r) <= FailuresOf(r)'
          BY <1>1, <1>2
        <4> QED
          BY <3>1, <3>2, <4>1 DEF FailuresOf
      <3>3. CASE q # r
        <4>1. FailuresOf(q)' = FailuresOf(q) /\ FailuresOf(q) \in Int
          BY <1>2, <3>3
        <4>2. FailuresOf(q) <= FailuresOf(q)'
          BY <4>1
        <4> QED
          BY <3>1, <4>2 DEF FailuresOf
      <3> QED
        BY <3>2, <3>3
    <2>4. FailuresOf(e[1]) \in Int /\ FailuresOf(e[1])' \in Int
      <3>1. PICK q \in Run : q = e[1]
        BY <2>2
      <3>2. FailuresOf(q) \in Int /\ FailuresOf(q)' \in Int
        BY <1>2
      <3> QED
        BY <3>1, <3>2 DEF FailuresOf
    <2>5. e[2] <= FailuresOf(e[1])'
      BY <2>1, <2>2, <2>3, <2>4
    <2> QED
      BY <2>1, <2>5 DEF FailuresAt
  <1>6. /\ FailuresAt(m) \in SUBSET (Run \X (1..(MaxRetries + 1)))
        /\ FailuresAt(m)' \in SUBSET (Run \X (1..(MaxRetries + 1)))
    BY DEF FailuresAt
  <1>7. /\ IsFiniteSet(FailuresAt(m)) /\ Cardinality(FailuresAt(m)) \in Nat
        /\ IsFiniteSet(FailuresAt(m)') /\ Cardinality(FailuresAt(m)') \in Nat
    BY <1>6, FailuresFinite
  <1> HIDE DEF m, f
  <1>8. Cardinality(FailuresAt(m) \cup {f}) = Cardinality(FailuresAt(m)) + 1
    BY <1>4, <1>7, FS_AddElement
  <1>9. FailuresAt(m) \cup {f} \subseteq FailuresAt(m)'
    BY <1>4, <1>5
  <1>10. Cardinality(FailuresAt(m) \cup {f}) <= Cardinality(FailuresAt(m)')
    BY <1>7, <1>9, FS_Subset
  <1> QED
    BY <1>8, <1>10 DEF m

\* So its breaker may count it, and be tripped by it.
LEMMA FailureTrips ==
  ASSUME IInv, TypeOK', UNCHANGED buffered, KeysStay,
         NEW r \in Run, phase[r] # "over", attempt[r] + 1 <= FailuresOf(r)',
         \A q \in Run \ {r} : Same(q), attempt[r] <= attempt'[r], ModelOf(r) \in Model,
         SetBreaker(r, RecordFailure(BreakerOf(r)))
  PROVE  \A m \in Model : Tripped(m)'
  <1> DEFINE b == RecordFailure(BreakerOf(r))
  <1>1. \A q \in Run \ {r} : FailuresOf(q)' = FailuresOf(q)
    BY SameKeeps
  <1>2. /\ b \in Breaker
        /\ \/ b.failures = BreakerOf(r).failures + 1 /\ b.state = BreakerOf(r).state
           \/ /\ b.failures = FailureThreshold
              /\ BreakerOf(r).state # "closed" \/ BreakerOf(r).failures + 1 >= FailureThreshold
    BY BreakerOfType, FailureCounts
  <1> HIDE DEF b
  <1>3. /\ breakers'[ModelOf(r)] = b
        /\ \A m \in Model \ {ModelOf(r)} : breakers'[m] = breakers[m]
    BY <1>2, BreakerSet DEF b
  <1>4. \A q \in Run : FailuresOf(q) <= FailuresOf(q)'
    <2> SUFFICES ASSUME NEW q \in Run PROVE FailuresOf(q) <= FailuresOf(q)'
      OBVIOUS
    <2>1. CASE q = r
      BY <2>1, FailuresGrow
    <2>2. CASE q # r
      <3>1. FailuresOf(q) \in Int
        BY FailuresType DEF IInv
      <3> QED
        BY <1>1, <2>2, <3>1
    <2> QED
      BY <2>1, <2>2
  <1>5. \A m : /\ Cardinality(FailuresAt(m)) <= Cardinality(FailuresAt(m)')
               /\ Cardinality(FailuresAt(m)) \in Nat /\ Cardinality(FailuresAt(m)') \in Nat
    <2> SUFFICES ASSUME NEW m
                 PROVE  /\ Cardinality(FailuresAt(m)) <= Cardinality(FailuresAt(m)')
                        /\ Cardinality(FailuresAt(m)) \in Nat /\ Cardinality(FailuresAt(m)') \in Nat
      OBVIOUS
    <2>1. Cardinality(FailuresAt(m)) <= Cardinality(FailuresAt(m)')
      BY <1>4, FailuresMore DEF IInv
    <2>2. /\ FailuresAt(m) \in SUBSET (Run \X (1..(MaxRetries + 1)))
          /\ FailuresAt(m)' \in SUBSET (Run \X (1..(MaxRetries + 1)))
      BY DEF FailuresAt
    <2> QED
      BY <2>1, <2>2, FailuresFinite
  <1> SUFFICES ASSUME NEW m \in Model PROVE Tripped(m)'
    OBVIOUS
  <1>6. breakers[m] \in Breaker /\ breakers'[m] \in Breaker /\ Tripped(m)
    BY DEF IInv, TypeOK
  <1>7. breakers[m].failures \in Int /\ breakers'[m].failures \in Int /\ FailureThreshold \in Int
    BY <1>6, BreakerConfigAssumption DEF Breaker
  <1>8. CASE m # ModelOf(r)
    <2>1. breakers'[m] = breakers[m]
      BY <1>3, <1>8
    <2> QED
      BY <1>5, <1>6, <1>7, <2>1 DEF Tripped
  <1>9. CASE m = ModelOf(r)
    <2>1. Cardinality(FailuresAt(m)) + 1 <= Cardinality(FailuresAt(m)')
      <3>1. Cardinality(FailuresAt(ModelOf(r))) + 1 <= Cardinality(FailuresAt(ModelOf(r))')
        BY <1>1, FailureAdded
      <3> QED
        BY <1>9, <3>1 DEF FailuresAt
    <2>2. breakers'[m] = b /\ BreakerOf(r) = breakers[m]
      BY <1>3, <1>9 DEF BreakerOf
    <2>3. CASE b.failures = breakers[m].failures + 1 /\ b.state = breakers[m].state
      BY <1>5, <1>6, <1>7, <2>1, <2>2, <2>3 DEF Tripped
    <2>4. CASE /\ b.failures = FailureThreshold
               /\ breakers[m].state # "closed" \/ breakers[m].failures + 1 >= FailureThreshold
      <3>1. FailureThreshold <= Cardinality(FailuresAt(m)')
        BY <1>5, <1>6, <1>7, <2>1, <2>4 DEF Tripped
      <3> QED
        BY <2>2, <2>4, <3>1 DEF Tripped
    <2> QED
      BY <1>2, <2>2, <2>3, <2>4
  <1> QED
    BY <1>8, <1>9

\* An attempt that raises leaves the semaphore, for another or for good.
LEMMA FailKeeps ==
  ASSUME IInv, NEW r \in Run, Fail(r)
  PROVE  IInv'
  <1>1. /\ phase[r] \in {"entering", "streaming"}
        /\ SetBreaker(r, RecordFailure(BreakerOf(r)))
        /\ UNCHANGED <<buffered, key, pending, cache, audit, leaves>>
    BY DEF Fail, Retry
  <1>2. TypeOK /\ SlotsReturn /\ Keyed(r) /\ Staged(r) /\ Whole(r) /\ ModelOf(r) \in Model
        /\ r \in Holders /\ attempt[r] \in 0..MaxRetries /\ MaxRetries \in Nat
    BY <1>1, ExecutorAssumption DEF IInv, Runs, Keyed, Holders, TypeOK
  <1>3. breakers' \in [Model -> Breaker]
    BY <1>1, <1>2, BreakerOfType, FailureCounts, BreakerSet
  <1>4. KeysStay /\ CacheWhole'
    BY <1>1, KeysKept, CacheKept
  <1>5. CASE attempt[r] < MaxRetries
    <2>1. /\ attempt' = [attempt EXCEPT ![r] = attempt[r] + 1]
          /\ ReleaseAndGoto(r, "waiting") /\ got' = got
      BY <1>5 DEF Fail, Retry
    <2>2. /\ SlotsReturn'
          /\ free' \in 0..MaxConcurrency /\ queue' \in Seq(Run)
          /\ phase' \in [Run -> Phase] /\ phase'[r] = "waiting"
          /\ \A q \in Run \ {r} : \/ phase'[q] = phase[q]
                                  \/ phase[q] = "queued" /\ phase'[q] = "entering"
      <3>1. "waiting" \in Phase \ {"queued"} /\ ~Holding("waiting")
        BY DEF Phase, Holding
      <3> QED
        BY <1>2, <2>1, <3>1, LeavesPlace
    <2>3. attempt'[r] = attempt[r] + 1 /\ attempt' \in [Run -> 0..MaxRetries]
      BY <1>2, <1>5, <2>1 DEF TypeOK
    <2>4. TypeOK'
      BY <1>1, <1>2, <1>3, <2>1, <2>2, <2>3 DEF TypeOK
    <2>5. \A q \in Run \ {r} : Same(q)
      BY <1>1, <1>2, <2>1, <2>2 DEF Same, TypeOK
    <2>6. Keyed(r)' /\ Staged(r)' /\ Whole(r)'
      BY <1>1, <1>2, <2>1, <2>2 DEF Keyed, Staged, Whole
    <2>7. attempt[r] + 1 <= FailuresOf(r)' /\ attempt[r] <= attempt'[r]
      <3>1. FailuresOf(r)' = attempt'[r] \/ FailuresOf(r)' = attempt'[r] + 1
        BY <2>4 DEF FailuresOf, TypeOK
      <3> QED
        BY <1>2, <2>3, <3>1
    <2>8. \A m \in Model : Tripped(m)'
      BY <1>1, <1>2, <1>4, <2>4, <2>5, <2>7, FailureTrips
    <2> QED
      BY <1>1, <1>4, <2>2, <2>4, <2>5, <2>6, <2>7, <2>8, StepKeeps
  <1>6. CASE ~(attempt[r] < MaxRetries)
    <2>1. /\ Yield(r, ChunkOf(r, "error")) /\ ReleaseAndGoto(r, "over") /\ attempt' = attempt
      BY <1>6 DEF Fail, Retry
    <2>2. /\ SlotsReturn'
          /\ free' \in 0..MaxConcurrency /\ queue' \in Seq(Run)
          /\ phase' \in [Run -> Phase] /\ phase'[r] = "over"
          /\ \A q \in Run \ {r} : \/ phase'[q] = phase[q]
                                  \/ phase[q] = "queued" /\ phase'[q] = "entering"
      <3>1. "over" \in Phase \ {"queued"} /\ ~Holding("over")
        BY DEF Phase, Holding
      <3> QED
        BY <1>2, <2>1, <3>1, LeavesPlace
    <2>3. /\ got' \in [Run -> Seq(Chunk)] /\ got'[r] # <<>>
          /\ Last(got'[r]).kind = "error"
          /\ \A q \in Run \ {r} : got'[q] = got[q]
          /\ Keyed(r)' /\ Staged(r)' /\ Whole(r)'
      BY <1>1, <2>1, <2>2, ErrorEnds
    <2>4. TypeOK'
      BY <1>1, <1>2, <1>3, <2>1, <2>2, <2>3 DEF TypeOK
    <2>5. \A q \in Run \ {r} : Same(q)
      BY <1>1, <1>2, <2>1, <2>2, <2>3 DEF Same
    <2>6. attempt[r] + 1 <= FailuresOf(r)' /\ attempt[r] <= attempt'[r]
      <3>1. attempt'[r] = MaxRetries
        BY <1>2, <1>6, <2>1
      <3>2. FailuresOf(r)' = attempt'[r] + 1
        BY <2>3, <3>1 DEF FailuresOf
      <3> QED
        BY <1>2, <2>1, <3>2
    <2>7. \A m \in Model : Tripped(m)'
      BY <1>1, <1>2, <1>4, <2>4, <2>5, <2>6, FailureTrips
    <2> QED
      BY <1>1, <1>4, <2>2, <2>3, <2>4, <2>5, <2>6, <2>7, StepKeeps
  <1> QED
    BY <1>5, <1>6

----------------------------------------------------------------------------
\* A stream that is to come, handed out from its first chunk.
LEMMA CollectKeeps ==
  ASSUME IInv, NEW r \in Run, Collect(r)
  PROVE  IInv'
  <1>1. /\ buffered /\ phase[r] = "entering" /\ Goto(r, "replaying")
        /\ UNCHANGED <<buffered, attempt, key, breakers, audit, leaves>>
    BY DEF Collect
  <1>2. TypeOK /\ SlotsReturn /\ Keyed(r) /\ Staged(r) /\ "replaying" \in Phase
        /\ ModelOf(r) \in Model
    BY <1>1 DEF IInv, Runs, Phase, Keyed
  <1>3. PICK n \in 0..MaxParts :
          /\ cache' = [cache EXCEPT ![key[r]] = Answer(r, n)]
          /\ Yield(r, Head(Answer(r, n)))
          /\ pending' = [pending EXCEPT ![r] = Tail(Answer(r, n))]
    BY DEF Collect
  <1>4. PICK c \in Seq(Chunk), k \in Key : c = Answer(r, n) /\ k = key[r]
    BY <1>1, <1>2, AnswerFacts DEF Keyed
  <1>5. c # <<>> /\ Complete(c, k) /\ Last(c) = ChunkOf(r, "output")
    BY <1>2, <1>4, AnswerFacts
  <1>6. got[r] = <<>> /\ k # NoKey /\ KeysStay
    BY <1>1, <1>2, ExecutorAssumption, KeysKept DEF Staged, Key
  <1>7. /\ got' = [got EXCEPT ![r] = got'[r]] /\ pending' = [pending EXCEPT ![r] = pending'[r]]
        /\ got'[r] = Append(got[r], Head(c)) /\ pending'[r] = Tail(c)
    BY <1>2, <1>3, <1>4 DEF Yield, TypeOK
  <1>8. /\ got'[r] \in Seq(Chunk) /\ got'[r] # <<>> /\ pending'[r] \in Seq(Chunk)
        /\ Stream(r)' = c
    BY <1>5, <1>6, <1>7, HandsOut
  <1>9. phase'[r] = "replaying" /\ attempt[r] <= attempt'[r] /\ key'[r] = k
    BY <1>1, <1>2, <1>4 DEF Goto, TypeOK
  <1>10. cache' = [cache EXCEPT ![k] = c] /\ cache' \in [Key -> Seq(Chunk)]
    BY <1>2, <1>3, <1>4 DEF TypeOK
  <1>11. TypeOK'
    BY <1>1, <1>2, <1>7, <1>8, <1>10 DEF TypeOK, Goto
  <1>12. SlotsReturn'
    BY <1>1, <1>2, KeepsPlace DEF Holding
  <1>13. \A q \in Run \ {r} : Same(q)
    BY <1>1, <1>2, <1>7 DEF Same, Goto, TypeOK
  <1>14. Complete(c, k)'
    BY <1>5, <1>6, CompleteKept
  <1>15. CacheWhole'
    <2> SUFFICES ASSUME buffered, NEW l \in Key, cache'[l] # <<>> PROVE Complete(cache[l], l)'
      BY <1>1 DEF CacheWhole
    <2>1. CASE l = k
      BY <1>2, <1>10, <1>14, <2>1 DEF TypeOK, Complete
    <2>2. CASE l # k
      <3>1. PICK d \in Seq(Chunk) : d = cache[l]
        BY <1>2 DEF TypeOK
      <3>2. cache'[l] = d /\ Complete(d, l) /\ l # NoKey
        BY <1>2, <1>10, <2>2, <3>1, ExecutorAssumption DEF TypeOK, IInv, CacheWhole, Key
      <3>3. Complete(d, l)'
        BY <1>6, <3>2, CompleteKept
      <3> QED
        BY <3>2, <3>3 DEF Complete
    <2> QED
      BY <2>1, <2>2
  <1>16. EndsOnce(c)
    BY <1>5, CompleteEnds
  <1>17. Keyed(r)'
    BY <1>1, <1>2, <1>9 DEF Keyed
  <1>18. Last(Stream(r))' = ChunkOf(r, "output")'
    BY <1>1, <1>5, <1>8 DEF ChunkOf, Last
  <1>19. Staged(r)'
    BY <1>1, <1>8, <1>9, <1>16, <1>18 DEF Staged, EndsOnce, Ending
  <1>20. Whole(r)'
    BY <1>8, <1>9, <1>14 DEF Whole, Complete
  <1>21. \A m \in Model : Tripped(m)'
    BY <1>1, <1>2, <1>6, <1>9, <1>11, <1>13, MilderSame, TrippedKept DEF TypeOK
  <1> QED
    BY <1>1, <1>6, <1>9, <1>11, <1>12, <1>13, <1>15, <1>17, <1>19, <1>20, <1>21, StepKeeps

\* Without a buffer, one chunk more: not the last, or the last.
LEMMA PassKeeps ==
  ASSUME IInv, NEW r \in Run, Pass(r)
  PROVE  IInv'
  <1>1. /\ ~buffered /\ phase[r] \in {"entering", "streaming"}
        /\ UNCHANGED <<buffered, attempt, key, pending, breakers, cache, audit, leaves>>
    BY DEF Pass
  <1>2. TypeOK /\ SlotsReturn /\ Keyed(r) /\ Staged(r)
    BY DEF IInv, Runs
  <1>3. PICK kind \in {"part", "output"}, p \in {"streaming", "replaying"} :
          /\ Yield(r, ChunkOf(r, kind)) /\ Goto(r, p)
          /\ kind = "output" <=> p = "replaying"
    BY DEF Pass
  <1>4. PICK g \in Seq(Chunk), e \in Chunk : g = got[r] /\ e = ChunkOf(r, kind)
    BY <1>2, ChunkType DEF TypeOK
  <1>5. Ending(e) <=> kind = "output"
    BY <1>4 DEF ChunkOf, Ending
  <1>6. (\A i \in DOMAIN g : ~Ending(g[i])) /\ pending[r] = <<>>
    BY <1>1, <1>2, <1>4 DEF Staged
  <1>7. /\ Append(g, e) \in Seq(Chunk) /\ Append(g, e) # <<>>
        /\ Last(Append(g, e)) = e
        /\ Append(g, e) \o <<>> = Append(g, e)
        /\ Ending(e) => EndsOnce(Append(g, e))
        /\ ~Ending(e) => \A i \in DOMAIN Append(g, e) : ~Ending(Append(g, e)[i])
    BY <1>6, OneMore
  <1>8. PICK a \in Seq(Chunk) : a = Append(g, e)
    BY <1>7
  <1>9. got' = [got EXCEPT ![r] = a] /\ got'[r] = a /\ Stream(r)' = a
        /\ got' \in [Run -> Seq(Chunk)] /\ pending'[r] = <<>>
    BY <1>1, <1>2, <1>3, <1>4, <1>6, <1>7, <1>8 DEF Yield, TypeOK, Stream
  <1>10. /\ phase' = [phase EXCEPT ![r] = p] /\ phase'[r] = p /\ p \in Phase
         /\ attempt[r] <= attempt'[r]
    BY <1>1, <1>2, <1>3 DEF Goto, TypeOK, Phase
  <1>11. TypeOK'
    BY <1>1, <1>2, <1>3, <1>9, <1>10 DEF TypeOK, Goto
  <1>12. SlotsReturn'
    <2>1. Holding(phase[r]) /\ Holding(p) /\ phase[r] # "queued" /\ p # "queued"
      BY <1>1, <1>3 DEF Holding
    <2> QED
      BY <1>2, <1>3, <1>10, <2>1, KeepsPlace
  <1>13. \A q \in Run \ {r} : Same(q)
    BY <1>1, <1>2, <1>9, <1>10 DEF Same, TypeOK
  <1>14. KeysStay /\ CacheWhole'
    BY <1>1, KeysKept, CacheKept
  <1>15. Keyed(r)'
    BY <1>1, <1>2, <1>10 DEF Keyed
  <1>16. Staged(r)'
    <2>1. CASE p = "streaming"
      BY <1>1, <1>3, <1>5, <1>7, <1>8, <1>9, <1>10, <2>1 DEF Staged, Ending
    <2>2. CASE p = "replaying"
      <3>1. EndsOnce(a) /\ a # <<>> /\ e = ChunkOf(r, "output") /\ Last(a) = e
        BY <1>3, <1>4, <1>5, <1>7, <1>8, <2>2
      <3>2. Last(Stream(r))' = ChunkOf(r, "output")'
        BY <1>1, <1>9, <3>1 DEF Last, ChunkOf
      <3> QED
        BY <1>1, <1>9, <1>10, <2>2, <3>1, <3>2 DEF Staged, EndsOnce, Ending
    <2> QED
      BY <2>1, <2>2
  <1>17. Whole(r)'
    BY <1>1 DEF Whole
  <1>18. \A m \in Model : Tripped(m)'
    BY <1>1, <1>2, <1>10, <1>11, <1>13, <1>14, MilderSame, TrippedKept DEF TypeOK
  <1> QED
    BY <1>1, <1>10, <1>11, <1>12, <1>13, <1>14, <1>15, <1>16, <1>17, <1>18, StepKeeps

\* A chunk that is handed out is one less to come.
LEMMA ReplayKeeps ==
  ASSUME IInv, NEW r \in Run, Replay(r)
  PROVE  IInv'
  <1>1. /\ phase[r] \in {"replaying", "hit"} /\ pending[r] # <<>>
        /\ Yield(r, Head(pending[r])) /\ pending' = [pending EXCEPT ![r] = Tail(pending[r])]
        /\ UNCHANGED <<buffered, phase, attempt, key, breakers, free, queue, cache, audit, leaves>>
    BY DEF Replay, shared
  <1>2. TypeOK /\ SlotsReturn /\ Keyed(r) /\ Staged(r) /\ Whole(r)
    BY DEF IInv, Runs
  <1>3. PICK g \in Seq(Chunk), p \in Seq(Chunk) : g = got[r] /\ p = pending[r]
    BY <1>2 DEF TypeOK
  <1>4. /\ Append(g, Head(p)) \in Seq(Chunk) /\ Append(g, Head(p)) # <<>>
        /\ Tail(p) \in Seq(Chunk)
        /\ Append(g, Head(p)) \o Tail(p) = g \o p
    BY <1>1, <1>3, MovedAlong
  <1>5. /\ got' = [got EXCEPT ![r] = got'[r]] /\ pending' = [pending EXCEPT ![r] = pending'[r]]
        /\ got'[r] = Append(g, Head(p)) /\ pending'[r] = Tail(p)
    BY <1>1, <1>2, <1>3 DEF Yield, TypeOK
  <1>6. /\ Stream(r)' = Stream(r)
        /\ got'[r] \in Seq(Chunk) /\ got'[r] # <<>> /\ pending'[r] \in Seq(Chunk)
    BY <1>3, <1>4, <1>5 DEF Stream
  <1>7. TypeOK'
    <2>1. got' \in [Run -> Seq(Chunk)] /\ pending' \in [Run -> Seq(Chunk)]
      BY <1>2, <1>5, <1>6 DEF TypeOK
    <2> QED
      BY <1>1, <1>2, <2>1 DEF TypeOK
  <1>8. SlotsReturn'
    BY <1>1, <1>2 DEF SlotsReturn, Holders
  <1>9. \A q \in Run \ {r} : Same(q)
    BY <1>1, <1>2, <1>5 DEF Same, TypeOK
  <1>10. KeysStay /\ CacheWhole' /\ attempt[r] <= attempt'[r]
    BY <1>1, <1>2, KeysKept, CacheKept DEF TypeOK
  <1>11. Keyed(r)'
    BY <1>1, <1>2 DEF Keyed
  <1>12. buffered /\ ChunkOf(r, "output")' = ChunkOf(r, "output")
    BY <1>1, <1>2 DEF Staged, ChunkOf
  <1>13. Staged(r)'
    BY <1>1, <1>2, <1>4, <1>5, <1>6, <1>12 DEF Staged, EndsOnce, Last
  <1>14. Whole(r)'
    BY <1>1, <1>2, <1>6, <1>12 DEF Whole, Complete
  <1>15. \A m \in Model : Tripped(m)'
    BY <1>1, <1>2, <1>7, <1>9, <1>10, MilderSame, TrippedKept DEF TypeOK
  <1> QED
    BY <1>1, <1>7, <1>8, <1>9, <1>10, <1>11, <1>13, <1>14, <1>15, StepKeeps

\* The end of an attempt that went well: its breaker hears of it, and so does
\* the audit log, once the last chunk is the run's own output.
LEMMA SucceedKeeps ==
  ASSUME IInv, NEW r \in Run, Succeed(r)
  PROVE  IInv'
  <1> DEFINE b == RecordSuccess(BreakerOf(r))
  <1>1. /\ phase[r] = "replaying" /\ pending[r] = <<>> /\ SetBreaker(r, b)
        /\ Record(r, "success") /\ ReleaseAndGoto(r, "over")
        /\ UNCHANGED <<buffered, attempt, key, pending, got, cache, leaves>>
    BY DEF Succeed
  <1>2. TypeOK /\ SlotsReturn /\ Keyed(r) /\ Staged(r) /\ Whole(r) /\ ModelOf(r) \in Model
        /\ r \in Holders
    BY <1>1 DEF IInv, Runs, Keyed, Holders
  <1>3. b \in Breaker /\ Milder(BreakerOf(r), b)
    BY <1>2, BreakerOfType, SuccessMilder
  <1> HIDE DEF b
  <1>4. breakers' \in [Model -> Breaker] /\ \A m \in Model : Milder(breakers[m], breakers'[m])
    BY <1>1, <1>2, <1>3, MilderSet
  <1>5. /\ SlotsReturn'
        /\ free' \in 0..MaxConcurrency /\ queue' \in Seq(Run)
        /\ phase' \in [Run -> Phase] /\ phase'[r] = "over"
        /\ \A q \in Run \ {r} : \/ phase'[q] = phase[q]
                                \/ phase[q] = "queued" /\ phase'[q] = "entering"
    <2>1. "over" \in Phase \ {"queued"} /\ ~Holding("over")
      BY DEF Phase, Holding
    <2> QED
      BY <1>1, <1>2, <2>1, LeavesPlace
  <1>6. audit' \in [Run -> {"none", "success", "failure"}]
        /\ audit'[r] \in {audit[r], "success"} /\ \A q \in Run \ {r} : audit'[q] = audit[q]
    BY <1>1, <1>2 DEF Record, TypeOK
  <1>7. TypeOK'
    BY <1>1, <1>2, <1>4, <1>5, <1>6 DEF TypeOK
  <1>8. \A q \in Run \ {r} : Same(q)
    BY <1>1, <1>5 DEF Same
  <1>9. KeysStay /\ CacheWhole' /\ attempt[r] <= attempt'[r]
    BY <1>1, <1>2, KeysKept, CacheKept DEF TypeOK
  <1>10. Stream(r) = got[r] /\ Stream(r)' = got[r] /\ Last(got[r]) = ChunkOf(r, "output")
    <2>1. PICK g \in Seq(Chunk) : g = got[r]
      BY <1>2 DEF TypeOK
    <2>2. g \o <<>> = g
      BY <2>1, ConcatEmptySeq
    <2>3. Stream(r) = got[r] /\ Stream(r)' = got[r]
      BY <1>1, <2>1, <2>2 DEF Stream
    <2> QED
      BY <1>1, <1>2, <2>3 DEF Staged
  <1>11. Keyed(r)'
    BY <1>1, <1>2, <1>5 DEF Keyed
  <1>12. Staged(r)'
    BY <1>1, <1>2, <1>5, <1>10 DEF Staged, EndsOnce
  <1>13. Whole(r)'
    BY <1>1, <1>2, <1>5, <1>10 DEF Whole, Complete
  <1>14. audit'[r] \in {audit[r], "none"} \/ Recorded(r)'
    <2>1. Last(got'[r]).kind = "output" /\ Last(got'[r]).run = r
      BY <1>1, <1>10 DEF ChunkOf
    <2> QED
      BY <1>5, <1>6, <2>1 DEF Recorded
  <1>15. \A m \in Model : Tripped(m)'
    BY <1>1, <1>4, <1>7, <1>8, <1>9, TrippedKept
  <1> QED
    BY <1>1, <1>5, <1>6, <1>7, <1>8, <1>9, <1>11, <1>12, <1>13, <1>14, <1>15, StepKeeps

LEMMA HitEndsKeeps ==
  ASSUME IInv, NEW r \in Run, HitEnds(r)
  PROVE  IInv'
  <1>1. /\ phase[r] = "hit" /\ pending[r] = <<>> /\ Goto(r, "over")
        /\ UNCHANGED <<buffered, attempt, key, pending, got, breakers, cache, audit, leaves>>
    BY DEF HitEnds
  <1>2. TypeOK /\ SlotsReturn /\ Keyed(r) /\ Staged(r) /\ Whole(r) /\ "over" \in Phase
    BY DEF IInv, Runs, Phase
  <1>3. phase'[r] = "over" /\ attempt[r] <= attempt'[r]
    BY <1>1, <1>2 DEF Goto, TypeOK
  <1>4. TypeOK'
    BY <1>1, <1>2 DEF TypeOK, Goto
  <1>5. SlotsReturn'
    BY <1>1, <1>2, KeepsPlace DEF Holding
  <1>6. \A q \in Run \ {r} : Same(q)
    BY <1>1, <1>2 DEF Same, Goto, TypeOK
  <1>7. KeysStay /\ CacheWhole'
    BY <1>1, KeysKept, CacheKept
  <1>8. Stream(r) = got[r] /\ Stream(r)' = got[r]
    <2>1. PICK g \in Seq(Chunk) : g = got[r]
      BY <1>2 DEF TypeOK
    <2>2. g \o <<>> = g
      BY <2>1, ConcatEmptySeq
    <2> QED
      BY <1>1, <2>1, <2>2 DEF Stream
  <1>9. Keyed(r)'
    BY <1>1, <1>2, <1>3 DEF Keyed
  <1>10. Staged(r)'
    BY <1>1, <1>2, <1>3, <1>8 DEF Staged, EndsOnce
  <1>11. Whole(r)'
    BY <1>1, <1>2, <1>3, <1>8 DEF Whole, Complete
  <1>12. \A m \in Model : Tripped(m)'
    BY <1>1, <1>2, <1>3, <1>4, <1>6, <1>7, MilderSame, TrippedKept DEF TypeOK
  <1> QED
    BY <1>1, <1>3, <1>4, <1>5, <1>6, <1>7, <1>9, <1>10, <1>11, <1>12, StepKeeps

\* Who leaves the queue leaves the others in it, and a place if it had one.
LEMMA LeaveSlots ==
  ASSUME IInv, NEW r \in Run, Leave(r)
  PROVE  /\ SlotsReturn'
         /\ free' \in 0..MaxConcurrency /\ queue' \in Seq(Run)
         /\ phase' \in [Run -> Phase] /\ phase'[r] = "left"
         /\ \A q \in Run \ {r} : \/ phase'[q] = phase[q]
                                 \/ phase[q] = "queued" /\ phase'[q] = "entering"
  <1>1. /\ TypeOK /\ SlotsReturn
        /\ "left" \in Phase /\ "left" \in Phase \ {"queued"} /\ ~Holding("left")
        /\ phase \in [Run -> Phase] /\ queue \in Seq(Run) /\ free \in 0..MaxConcurrency
    BY DEF IInv, TypeOK, Phase, Holding
  <1>2. CASE phase[r] \in {"waiting", "hit"} /\ Goto(r, "left")
    <2>1. SlotsReturn'
      BY <1>1, <1>2, KeepsPlace DEF Holding
    <2> QED
      BY <1>1, <1>2, <2>1 DEF Goto
  <1>3. CASE r \in Holders /\ ReleaseAndGoto(r, "left")
    BY <1>1, <1>3, LeavesPlace
  <1>4. CASE /\ phase[r] = "queued"
             /\ \E i \in DOMAIN queue : queue[i] = r /\ queue' = RemoveAt(queue, i)
             /\ phase' = [phase EXCEPT ![r] = "left"]
             /\ UNCHANGED free
    <2>1. PICK i \in DOMAIN queue : queue[i] = r /\ queue' = RemoveAt(queue, i)
      BY <1>4
    <2>2. /\ free + Cardinality(Holders) = MaxConcurrency
          /\ IsInjective(queue)
          /\ ToSet(queue) = {q \in Run : phase[q] = "queued"}
          /\ queue # <<>> => free = 0
      BY <1>1 DEF SlotsReturn
    <2>3. queue' \in Seq(Run) /\ IsInjective(queue') /\ ToSet(queue') = ToSet(queue) \ {r}
      BY <1>1, <2>1, <2>2, QueueRemove
    <2>4. Holders' = Holders
      BY <1>1, <1>4 DEF Holders
    <2>5. ToSet(queue') = {q \in Run : phase'[q] = "queued"}
      <3>1. \A q \in Run : phase'[q] = "queued" <=> phase[q] = "queued" /\ q # r
        BY <1>1, <1>4
      <3> QED
        BY <2>2, <2>3, <3>1
    <2>6. queue # <<>>
      <3>1. DOMAIN <<>> = {}
        OBVIOUS
      <3> QED
        BY <2>1, <3>1
    <2>7. SlotsReturn'
      BY <1>4, <2>2, <2>3, <2>4, <2>5, <2>6 DEF SlotsReturn
    <2> QED
      BY <1>1, <1>4, <2>3, <2>7
  <1> QED
    BY <1>2, <1>3, <1>4 DEF Leave

LEMMA LeaveKeeps ==
  ASSUME IInv, NEW r \in Run, Leave(r)
  PROVE  IInv'
  <1>1. /\ leaves < MaxLeaves /\ leaves' = leaves + 1
        /\ pending' = [pending EXCEPT ![r] = <<>>] /\ got' = [got EXCEPT ![r] = <<>>]
        /\ phase[r] \in {"waiting", "hit", "queued", "entering", "streaming", "replaying"}
        /\ UNCHANGED <<buffered, attempt, key, breakers, cache, audit>>
    BY DEF Leave, Holders
  <1>2. TypeOK /\ Keyed(r)
    BY DEF IInv, Runs
  <1>3. /\ SlotsReturn'
        /\ free' \in 0..MaxConcurrency /\ queue' \in Seq(Run)
        /\ phase' \in [Run -> Phase] /\ phase'[r] = "left"
        /\ \A q \in Run \ {r} : \/ phase'[q] = phase[q]
                                \/ phase[q] = "queued" /\ phase'[q] = "entering"
    BY LeaveSlots
  <1>4. leaves' \in 0..MaxLeaves
    BY <1>1, <1>2, ExecutorAssumption DEF TypeOK
  <1>5. /\ got' \in [Run -> Seq(Chunk)] /\ pending' \in [Run -> Seq(Chunk)]
        /\ got'[r] = <<>> /\ pending'[r] = <<>>
        /\ \A q \in Run \ {r} : got'[q] = got[q] /\ pending'[q] = pending[q]
    <2>1. <<>> \in Seq(Chunk)
      BY EmptySeq
    <2> QED
      BY <1>1, <1>2, <2>1 DEF TypeOK
  <1>6. TypeOK'
    BY <1>1, <1>2, <1>3, <1>4, <1>5 DEF TypeOK
  <1>7. \A q \in Run \ {r} : Same(q)
    BY <1>1, <1>3, <1>5 DEF Same
  <1>8. KeysStay /\ CacheWhole' /\ attempt[r] <= attempt'[r] /\ phase[r] # "over"
    BY <1>1, <1>2, KeysKept, CacheKept DEF TypeOK
  <1>9. Keyed(r)' /\ Staged(r)' /\ Whole(r)'
    BY <1>1, <1>2, <1>3, <1>5 DEF Keyed, Staged, Whole
  <1>10. \A m \in Model : Tripped(m)'
    BY <1>1, <1>2, <1>6, <1>7, <1>8, MilderSame, TrippedKept DEF TypeOK
  <1> QED
    BY <1>1, <1>3, <1>6, <1>7, <1>8, <1>9, <1>10, StepKeeps

----------------------------------------------------------------------------
\* A step of no run: of the cache, of the audit log, of the clock.
LEMMA NobodyKeeps ==
  ASSUME IInv, TypeOK',
         UNCHANGED <<buffered, phase, attempt, key, pending, got, free, queue>>,
         \A r \in Run : audit'[r] \in {audit[r], "none"},
         \A k \in Key : cache'[k] = cache[k] \/ cache'[k] = <<>>,
         \A m \in Model : Milder(breakers[m], breakers'[m])
  PROVE  IInv'
  <1>1. KeysStay /\ CacheWhole'
    BY KeysKept, CacheKept
  <1>2. \A q \in Run : Same(q)
    BY DEF Same
  <1>3. Runs'
    BY <1>1, <1>2, SameKeeps DEF Runs
  <1>4. SlotsReturn'
    BY DEF IInv, SlotsReturn, Holders
  <1>5. \A m : FailuresAt(m)' = FailuresAt(m)
    BY DEF FailuresAt, FailuresOf
  <1>6. ASSUME NEW m \in Model PROVE Tripped(m)'
    <2>1. FailuresAt(m) \in SUBSET (Run \X (1..(MaxRetries + 1)))
      BY DEF FailuresAt
    <2>2. Cardinality(FailuresAt(m)) \in Nat
      BY <2>1, FailuresFinite
    <2>3. breakers[m] \in Breaker /\ breakers'[m] \in Breaker /\ Tripped(m)
          /\ Milder(breakers[m], breakers'[m])
      BY DEF IInv, TypeOK
    <2>4. breakers[m].failures \in Int /\ breakers'[m].failures \in Int
      BY <2>3 DEF Breaker
    <2> QED
      BY <1>5, <2>2, <2>3, <2>4 DEF Tripped, Milder
  <1>7. ASSUME NEW r \in Run PROVE Recorded(r)'
    <2>1. Recorded(r) /\ audit'[r] \in {audit[r], "none"}
      BY DEF IInv
    <2>2. FailuresAt(ModelOf(r))' = FailuresAt(ModelOf(r))
      BY <1>5 DEF FailuresAt
    <2> QED
      BY <2>1, <2>2 DEF Recorded
  <1> QED
    BY <1>1, <1>3, <1>4, <1>6, <1>7 DEF IInv

LEMMA OthersKeep ==
  ASSUME IInv, (\E k \in Key : Drop(k)) \/ ClearAudit \/ Tick \/ UNCHANGED vars
  PROVE  IInv'
  <1>1. TypeOK /\ \A m \in Model : Milder(breakers[m], breakers[m])
    BY MilderSame DEF IInv, TypeOK
  <1>2. ASSUME NEW k \in Key, Drop(k) PROVE IInv'
    <2>1. cache' \in [Key -> Seq(Chunk)] /\ \A l \in Key : cache'[l] = cache[l] \/ cache'[l] = <<>>
      <3>1. <<>> \in Seq(Chunk)
        BY EmptySeq
      <3> QED
        BY <1>1, <1>2, <3>1 DEF Drop, TypeOK
    <2>2. TypeOK'
      BY <1>1, <1>2, <2>1 DEF Drop, TypeOK
    <2> QED
      BY <1>1, <1>2, <2>1, <2>2, NobodyKeeps DEF Drop
  <1>3. CASE ClearAudit
    <2>1. TypeOK'
      BY <1>1, <1>3 DEF ClearAudit, TypeOK, shared
    <2> QED
      BY <1>1, <1>3, <2>1, NobodyKeeps DEF ClearAudit, shared
  <1>4. CASE Tick
    <2>1. breakers' \in [Model -> Breaker] /\ \A m \in Model : Milder(breakers[m], breakers'[m])
      BY <1>1, <1>4, AgedMilder DEF Tick, TypeOK
    <2>2. TypeOK'
      BY <1>1, <1>4, <2>1 DEF Tick, TypeOK
    <2> QED
      BY <1>4, <2>1, <2>2, NobodyKeeps DEF Tick
  <1>5. CASE UNCHANGED vars
    <2>1. TypeOK'
      BY <1>1, <1>5 DEF vars, TypeOK, shared
    <2> QED
      BY <1>1, <1>5, <2>1, NobodyKeeps DEF vars, shared
  <1> QED
    BY <1>2, <1>3, <1>4, <1>5

LEMMA NextInv == IInv /\ [Next]_vars => IInv'
  <1> SUFFICES ASSUME IInv, [Next]_vars PROVE IInv'
    OBVIOUS
  <1>1. ASSUME NEW r \in Run, Begin(r) \/ Advance(r) \/ Leave(r) PROVE IInv'
    BY <1>1, BeginKeeps, AdmitKeeps, RefuseKeeps, FailKeeps, CollectKeeps, PassKeeps,
       ReplayKeeps, SucceedKeeps, HitEndsKeeps, LeaveKeeps DEF Advance
  <1> QED
    BY <1>1, OthersKeep DEF Next

----------------------------------------------------------------------------
(***************************************************************************)
(* The theorems                                                            *)
(***************************************************************************)

\* IInv holds in every state of the executor's runs.
THEOREM Invariant == Spec => []IInv
  BY InitInv, NextInv, PTL DEF Spec

\* The variables keep their types, whatever the settings and the runs.
THEOREM TypeCorrect == Spec => []TypeOK
  <1>1. IInv => TypeOK
    BY DEF IInv
  <1> QED
    BY <1>1, Invariant, PTL

\* No attempt that fails, no consumer that leaves and no cancelled task keeps
\* a slot of the semaphore, or its place in the queue.
THEOREM SlotsAlwaysReturn == Spec => []SlotsReturn
  <1>1. IInv => SlotsReturn
    BY DEF IInv
  <1> QED
    BY <1>1, Invariant, PTL

\* A stream ends once, at its end; with a buffer what a consumer sees is the
\* whole answer of one attempt for its own key, or the error alone, through
\* failed attempts, cached answers and entries that go meanwhile.
THEOREM StreamsAlwaysClean == Spec => []CleanStream
  <1>1. IInv => CleanStream
    <2> SUFFICES ASSUME IInv PROVE CleanStream
      OBVIOUS
    <2>1. ASSUME NEW r \in Run
          PROVE  /\ \A i \in DOMAIN got[r] : Ending(got[r][i]) => i = Len(got[r])
                 /\ phase[r] = "over" => got[r] # <<>> /\ Ending(Last(got[r]))
                 /\ buffered /\ got[r] # <<>> =>
                      \/ Complete(got[r] \o pending[r], key[r])
                      \/ Len(got[r]) = 1 /\ got[r][1].kind = "error"
      <3>1. /\ got[r] \in Seq(Chunk) /\ pending[r] \in Seq(Chunk) /\ phase[r] \in Phase
            /\ Staged(r) /\ Whole(r)
        BY DEF IInv, TypeOK, Runs
      <3>2. CASE phase[r] \in {"new", "raised", "left"}
        BY <3>1, <3>2 DEF Staged
      <3>3. CASE phase[r] \in {"waiting", "queued", "entering", "streaming"}
        BY <3>1, <3>3 DEF Staged
      <3>4. CASE phase[r] \in {"replaying", "hit"}
        <4>1. EndsOnce(got[r] \o pending[r])
          BY <3>1, <3>4 DEF Staged, Stream
        <4>2. \A i \in DOMAIN got[r] : Ending(got[r][i]) => i = Len(got[r])
          BY <3>1, <4>1, GotEnds
        <4> QED
          BY <3>1, <3>4, <4>2 DEF Whole, Stream
      <3>5. CASE phase[r] = "over"
        <4>1. pending[r] = <<>> /\ got[r] # <<>> /\ EndsOnce(got[r] \o pending[r])
          BY <3>1, <3>5 DEF Staged, Stream
        <4>2. got[r] \o pending[r] = got[r]
          BY <3>1, <4>1, ConcatFacts
        <4>3. \A i \in DOMAIN got[r] : Ending(got[r][i]) <=> i = Len(got[r])
          BY <4>1, <4>2 DEF EndsOnce
        <4>4. Len(got[r]) \in DOMAIN got[r]
          BY <3>1, <4>1, ConcatFacts
        <4>5. Ending(Last(got[r]))
          BY <4>3, <4>4 DEF Last
        <4>6. buffered => \/ Complete(got[r], key[r])
                          \/ Len(got[r]) = 1 /\ got[r][1].kind = "error"
          BY <3>1, <3>5 DEF Whole
        <4> QED
          BY <4>1, <4>2, <4>3, <4>5, <4>6
      <3> QED
        BY <3>1, <3>2, <3>3, <3>4, <3>5 DEF Phase
    <2> QED
      BY <2>1 DEF CleanStream, IInv, CacheWhole
  <1> QED
    BY <1>1, Invariant, PTL

\* What the audit log says of a run is true, whatever other runs shared its
\* breaker, and however often the log was cleared.
THEOREM RecordsAlwaysTrue == Spec => []RecordsTrue
  <1>1. IInv => RecordsTrue
    <2> SUFFICES ASSUME IInv, NEW r \in Run
                 PROVE  /\ audit[r] = "success" =>
                             /\ phase[r] = "over"
                             /\ Last(got[r]).kind = "output"
                             /\ Last(got[r]).run = r
                        /\ audit[r] = "failure" =>
                             /\ Last(got[r]).kind = "error"
                             /\ Cardinality(FailuresAt(ModelOf(r))) >= FailureThreshold
      BY DEF RecordsTrue
    <2>1. Recorded(r)
      BY DEF IInv
    <2>2. FailuresAt(ModelOf(r)) \in SUBSET (Run \X (1..(MaxRetries + 1)))
      BY DEF FailuresAt
    <2>3. Cardinality(FailuresAt(ModelOf(r))) \in Nat /\ FailureThreshold \in Nat
      BY <2>2, FailuresFinite, BreakerConfigAssumption
    <2> QED
      BY <2>1, <2>3 DEF Recorded
  <1> QED
    BY <1>1, Invariant, PTL
=============================================================================
