---------------------------- MODULE MCAdmission -----------------------------
(***************************************************************************)
(* The rate limiter's bucket and the result cache share no variable, so    *)
(* what the steps of one do is the same whatever the other does between    *)
(* them: a behaviour here is one of either, while the other waits in an    *)
(* initial state.                                                          *)
(***************************************************************************)
EXTENDS TokenBucket, ResultCache

VARIABLE subject  \* the component that takes steps

AdmissionInit ==
  /\ BucketInit /\ CacheInit
  /\ subject \in {"bucket", "cache"}
  /\ subject = "bucket" => policy = "lru"

AdmissionNext ==
  \/ subject = "bucket" /\ BucketNext /\ UNCHANGED <<cacheVars, subject>>
  \/ subject = "cache" /\ CacheNext /\ UNCHANGED <<bucketVars, subject>>

\* The bucket's fairness leaves out the behaviours of the cache, of which only
\* safety is asked.
AdmissionSpec ==
  /\ AdmissionInit
  /\ [][AdmissionNext]_<<bucketVars, cacheVars, subject>>
  /\ BucketFairness

=============================================================================
