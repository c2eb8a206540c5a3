---------------------------- MODULE BucketServer ----------------------------
(***************************************************************************)
(* The ORI bucket server's CreateBucket (ori/bucket/server/                *)
(* bucket_create.go).  A call generates a fresh claim name, builds an      *)
(* ObjectBucketClaim, writes it to the Kubernetes API with client.Create,  *)
(* then reads the claim's access secret if required and converts claim    *)
(* and secret into the ORI bucket it returns.  Calls run concurrently, one *)
(* goroutine per gRPC request; they share only the API server's claims.    *)
(*                                                                         *)
(* The caller (the bucket pool agent, outside this repository) retries a   *)
(* failed CreateBucket for the same bucket with a new request; it gives up *)
(* after MaxAttempts.  A request is the pair <<bucket, attempt>>.          *)
(*                                                                         *)
(* Data is abstracted: labels, class and metadata are not tracked; a       *)
(* claim records only the request that created it.  Every error the code   *)
(* can return is a step outcome, enabled when its fail point is in         *)
(* FailPoints and at most MaxFailures times in a behaviour.                *)
(***************************************************************************)
EXTENDS Naturals, FiniteSets, Functions, TLC

CONSTANTS
  Buckets,      \* the ORI buckets callers ask for
  Names,        \* the names idGen.Generate can return
  MaxAttempts,  \* how often a caller sends CreateBucket for one bucket
  FailPoints,   \* subset of {"meta","create","createCommitted","secret","convert"}
  MaxFailures,  \* bound on injected errors in one behaviour
  None          \* no name generated yet

Attempts == 1..MaxAttempts
Requests == Buckets \X Attempts

VARIABLES
  claims,    \* the API server's ObjectBucketClaims: name -> creating request
  pc,        \* per request: "unsent", "creating", "fetching", "ok", "failed"
  name,      \* per request: the generated claim name (bucketClaim in the code)
  failures   \* injected errors so far

vars == <<claims, pc, name, failures>>

PCs == {"unsent", "creating", "fetching", "ok", "failed"}
InFlight == {"creating", "fetching"}

TypeOK ==
  /\ DOMAIN claims \subseteq Names
  /\ \A n \in DOMAIN claims : claims[n] \in Requests
  /\ pc \in [Requests -> PCs]
  /\ name \in [Requests -> Names \cup {None}]
  /\ failures \in 0..MaxFailures

Init ==
  /\ claims = <<>>
  /\ pc = [r \in Requests |-> "unsent"]
  /\ name = [r \in Requests |-> None]
  /\ failures = 0

\* An error injected at fail point p is possible in this step.
CanFail(p) == p \in FailPoints /\ failures < MaxFailures

\* The request answers with an error; the error came from an injected fault.
FailWith(r) ==
  /\ pc' = [pc EXCEPT ![r] = "failed"]
  /\ failures' = failures + 1

(***************************************************************************)
(* The caller sends CreateBucket for bucket b: the first attempt, or a     *)
(* retry after the previous attempt was answered with an error.            *)
(***************************************************************************)
RequestCreateBucket(b, k) ==
  /\ pc[<<b, k>>] = "unsent"
  /\ k > 1 => pc[<<b, k - 1>>] = "failed"
  /\ pc' = [pc EXCEPT ![<<b, k>>] = "creating"]
  /\ UNCHANGED <<claims, name, failures>>

(***************************************************************************)
(* createBucketClaimAndAccessSecretFromBucket up to and including          *)
(* client.Create: idGen.Generate picks the name, SetObjectMetadata may     *)
(* fail before anything is written, and Create either stores the claim,    *)
(* is refused because the name exists (AlreadyExists), fails without       *)
(* effect, or fails after the API server committed the claim (a timeout   *)
(* or a lost answer).  Every error returns from the call.                  *)
(***************************************************************************)
CreateBucketClaim(r) ==
  /\ pc[r] = "creating"
  /\ \E n \in Names :
       /\ name' = [name EXCEPT ![r] = n]
       /\ \/ /\ CanFail("meta")
             /\ FailWith(r)
             /\ UNCHANGED claims
          \/ /\ n \in DOMAIN claims
             /\ pc' = [pc EXCEPT ![r] = "failed"]
             /\ UNCHANGED <<claims, failures>>
          \/ /\ n \notin DOMAIN claims
             /\ claims' = claims @@ (n :> r)
             /\ pc' = [pc EXCEPT ![r] = "fetching"]
             /\ UNCHANGED failures
          \/ /\ n \notin DOMAIN claims
             /\ CanFail("create")
             /\ FailWith(r)
             /\ UNCHANGED claims
          \/ /\ n \notin DOMAIN claims
             /\ CanFail("createCommitted")
             /\ claims' = claims @@ (n :> r)
             /\ FailWith(r)

(***************************************************************************)
(* The rest of CreateBucket once the claim is written:                     *)
(* getBucketAccessSecretIfRequired and convertBucketClaimAndAccessSecret-  *)
(* ToBucket each return early on error; neither removes the claim.         *)
(***************************************************************************)
CompleteCreateBucket(r) ==
  /\ pc[r] = "fetching"
  /\ \/ /\ pc' = [pc EXCEPT ![r] = "ok"]
        /\ UNCHANGED failures
     \/ CanFail("secret") /\ FailWith(r)
     \/ CanFail("convert") /\ FailWith(r)
  /\ UNCHANGED <<claims, name>>

Next ==
  \/ \E b \in Buckets, k \in Attempts : RequestCreateBucket(b, k)
  \/ \E r \in Requests : CreateBucketClaim(r) \/ CompleteCreateBucket(r)

\* gRPC serves every request on its own goroutine; the properties are safety.
Spec == Init /\ [][Next]_vars

(***************************************************************************)
(* No claim leaks: every claim in the API belongs to a request that is     *)
(* still running or that answered with success, so the caller knows it.   *)
(* A claim written by a call that then returned an error (lines 58-66,     *)
(* 84-87) is known to nobody.                                              *)
(***************************************************************************)
NoLeakedClaim ==
  \A n \in DOMAIN claims : pc[claims[n]] \in InFlight \cup {"ok"}
=============================================================================
