----------------------------- MODULE WorkQueue -----------------------------
(***************************************************************************)
(* The rate-limiting work queue the image reconciler takes from client-go  *)
(* (workqueue.NewRateLimitingQueue, image_controller.go:105).  The library *)
(* is not part of this repository, so its operations are modelled from the *)
(* contract of spec section 4.1 and client-go's documented behaviour.      *)
(*                                                                         *)
(* client-go keeps three structures: `dirty` (keys that must be processed),*)
(* `processing` (keys handed out by Get and not yet Done) and a FIFO       *)
(* `queue` that always holds exactly dirty \ processing.  The FIFO order   *)
(* is abstracted: Get may hand out any queued key, which contains every    *)
(* FIFO behaviour; the fairness of the composing module restores "every    *)
(* queued key is eventually handed out".  The rate limiter's back-off      *)
(* delay is abstracted to "some time later": a key given to                *)
(* AddRateLimited waits in `delayed` until its timer fires.                *)
(***************************************************************************)
CONSTANT Keys

VARIABLES
  dirty,        \* keys waiting to be processed (queued, or re-added while processing)
  processing,   \* keys handed out by Get and not yet Done
  delayed,      \* keys waiting for their AddRateLimited back-off to expire
  shuttingDown  \* ShutDown has been called

wqVars == <<dirty, processing, delayed, shuttingDown>>

WQTypeOK ==
  /\ dirty \subseteq Keys
  /\ processing \subseteq Keys
  /\ delayed \subseteq Keys
  /\ shuttingDown \in BOOLEAN

WQInit ==
  /\ dirty = {}
  /\ processing = {}
  /\ delayed = {}
  /\ shuttingDown = FALSE

\* The keys a blocked Get can hand out: client-go's `queue` slice.
Queued == dirty \ processing

(***************************************************************************)
(* Add of every key of S.  Add ignores keys after ShutDown and keys that   *)
(* are already dirty; a key that is being processed is only marked dirty   *)
(* and becomes queued again when Done is called for it.                    *)
(***************************************************************************)
AddAll(S) ==
  dirty' = IF shuttingDown THEN dirty ELSE dirty \cup S

\* Get returning key k: it leaves the queue and becomes processing.
GetKey(k) ==
  /\ k \in Queued
  /\ processing' = processing \cup {k}
  /\ dirty' = dirty \ {k}

\* Get returning the shutdown signal: only once the queue has drained.
GetShutdown ==
  /\ shuttingDown
  /\ Queued = {}

(***************************************************************************)
(* The end of processNextWorkItem: AddRateLimited(k) on failure (ignored   *)
(* after ShutDown, like AddAfter), Forget(k) on success (it only resets    *)
(* the back-off counter, which this model abstracts), then the deferred    *)
(* Done(k), which re-queues k if it was added again while processing.      *)
(***************************************************************************)
Release(k, failed) ==
  /\ processing' = processing \ {k}
  /\ delayed' = IF failed /\ ~shuttingDown THEN delayed \cup {k} ELSE delayed

\* The delaying queue's timer for k fires: k is Added.
FireDelayed(k) ==
  /\ k \in delayed
  /\ delayed' = delayed \ {k}
  /\ AddAll({k})

ShutDown ==
  /\ ~shuttingDown
  /\ shuttingDown' = TRUE
=============================================================================
