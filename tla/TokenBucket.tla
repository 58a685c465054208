---------------------------- MODULE TokenBucket ----------------------------
(***************************************************************************)
(* The token bucket of ratelimit.py: coroutines that block in acquire()    *)
(* behind an asyncio.Lock, and callers of try_acquire(), which ignores the *)
(* lock.  Tokens and time are integers here; the code's are floats.        *)
(***************************************************************************)
EXTENDS Integers, Sequences

CONSTANTS
  Client,    \* coroutines that call acquire()
  Rate,      \* tokens per tick
  Capacity,  \* burst allowance
  MaxTries,  \* bound: successful calls of try_acquire()
  Window     \* bound: the longest stretch of time looked at, in ticks

ASSUME BucketAssumption ==
  /\ Rate \in Nat \ {0}
  /\ Capacity \in Nat \ {0}
  /\ MaxTries \in Nat
  /\ Window \in Nat

VARIABLES
  tokens,   \* _tokens
  elapsed,  \* ticks since _last_refill, cut off where the bucket is full
  lock,     \* who holds _lock, and behind it who waits for it, in order,
            \* each with the tokens it has asked for
  sleep,    \* ticks the holder of the lock has left to sleep
  tries,    \* counted for the bound
  spent,    \* history: tokens consumed since an arbitrary moment
  since     \* history: ticks since that moment

bucketVars == <<tokens, elapsed, lock, sleep, tries, spent, since>>

Amount == 1..Capacity  \* acquire() raises ValueError for more than capacity

BucketTypeOK ==
  /\ tokens \in 0..Capacity
  /\ elapsed \in 0..Capacity
  /\ lock \in Seq(Client \X Amount)
  /\ sleep \in 0..Capacity
  /\ tries \in 0..MaxTries
  /\ spent \in Nat
  /\ since \in 0..Window

BucketInit ==
  /\ tokens = Capacity
  /\ elapsed = 0
  /\ lock = <<>>
  /\ sleep = 0
  /\ tries = 0
  /\ spent = 0
  /\ since = 0

----------------------------------------------------------------------------
AtMost(limit, n) == IF n < limit THEN n ELSE limit

\* No tokens come in while someone waits for them.
Refilled_Never == tokens

\* The bucket takes in all that has accrued.
Refilled_Uncapped == tokens + elapsed * Rate

\* _refill(): the tokens there are now.
Refilled == AtMost(Capacity, tokens + elapsed * Rate)

\* The clock of the next refill is not started anew.
TakeOrWait_ClockKept(n) ==
  /\ tokens' = IF Refilled >= n THEN Refilled - n ELSE Refilled
  /\ spent' = IF Refilled >= n THEN spent + n ELSE spent
  /\ UNCHANGED elapsed

\* _refill(), then n tokens are consumed if they are there.
TakeOrWait(n) ==
  /\ tokens' = IF Refilled >= n THEN Refilled - n ELSE Refilled
  /\ spent' = IF Refilled >= n THEN spent + n ELSE spent
  /\ elapsed' = 0

Waiting(c) == \E i \in DOMAIN lock : lock[i][1] = c

\* acquire(n) is called and lines up for the lock.
Arrive(c, n) ==
  /\ ~Waiting(c)
  /\ lock' = Append(lock, <<c, n>>)
  /\ UNCHANGED <<tokens, elapsed, sleep, tries, spent, since>>

\* (n - tokens) / rate, rounded up to whole ticks.
WaitFor(n) == (n - Refilled + Rate - 1) \div Rate

\* The holder of the lock goes once round acquire()'s loop: it has its
\* tokens and lets go of the lock, or sleeps with the lock in hand.
Loop ==
  /\ lock # <<>>
  /\ sleep = 0
  /\ LET n == Head(lock)[2]
     IN /\ TakeOrWait(n)
        /\ IF Refilled >= n
           THEN lock' = Tail(lock) /\ UNCHANGED sleep
           ELSE sleep' = WaitFor(n) /\ UNCHANGED lock
  /\ UNCHANGED <<tries, since>>

\* acquire() is cancelled, in line or asleep: it leaves the lock.
Cancel(c) ==
  /\ \E i \in DOMAIN lock :
       /\ lock[i][1] = c
       /\ lock' = SubSeq(lock, 1, i - 1) \o SubSeq(lock, i + 1, Len(lock))
       /\ sleep' = IF i = 1 THEN 0 ELSE sleep
  /\ UNCHANGED <<tokens, elapsed, tries, spent, since>>

\* try_acquire(n); one that fails, like available_tokens, only refills.
TryAcquire(n) ==
  /\ IF Refilled >= n THEN tries < MaxTries /\ tries' = tries + 1 ELSE UNCHANGED tries
  /\ TakeOrWait(n)
  /\ UNCHANGED <<lock, sleep, since>>

BucketTick ==
  /\ elapsed' = AtMost(Capacity, elapsed + 1)
  /\ sleep' = IF sleep > 0 THEN sleep - 1 ELSE 0
  /\ IF since < Window
     THEN since' = since + 1 /\ UNCHANGED spent
     ELSE since' = 0 /\ spent' = 0
  /\ UNCHANGED <<tokens, lock, tries>>

\* The stretch of time that spent and since are about begins now.
Observe ==
  /\ spent' = 0
  /\ since' = 0
  /\ UNCHANGED <<tokens, elapsed, lock, sleep, tries>>

BucketNext ==
  \/ \E c \in Client : Cancel(c) \/ \E n \in Amount : Arrive(c, n)
  \/ \E n \in Amount : TryAcquire(n)
  \/ Loop \/ BucketTick \/ Observe

BucketSpec == BucketInit /\ [][BucketNext]_bucketVars

\* Time passes, and a sleeper that is due wakes up.
BucketFairness == WF_bucketVars(BucketTick) /\ WF_bucketVars(Loop)

FairBucketSpec == BucketSpec /\ BucketFairness

----------------------------------------------------------------------------
(***************************************************************************)
(* Properties                                                              *)
(***************************************************************************)

\* Over any stretch of time no more than a burst and what the rate brings
\* in is consumed, by acquire() and try_acquire() together.
RateBound == spent <= Capacity + Rate * since

\* Whoever waits in acquire() gets its tokens or is cancelled, whatever it
\* asks for and whoever is before it, once try_acquire() stops taking them.
Served == \A c \in Client : Waiting(c) ~> ~Waiting(c)

=============================================================================
