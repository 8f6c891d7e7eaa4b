---------------------------- MODULE BackendPromise ----------------------------
(***************************************************************************)
(* What a backend connection promises to the caller of PushBack            *)
(* (src/pkg/proxy/pool.go): a request is refused at once or accepted; an   *)
(* accepted request is answered once, by its own reply or by an error, and *)
(* its answer never changes; a request is answered only after it was       *)
(* accepted.  After Close a push no longer returns.                        *)
(***************************************************************************)
CONSTANTS
    Requests,
    Fragile     \* those nobody waits for (Batch = nil): a refusal panics

VARIABLES
    promise,  \* what has become of each request
    open      \* Close has not begun

vars == <<promise, open>>

Fates == {"new", "waiting", "reply", "error", "refused", "stuck"}

Init ==
    /\ promise = [r \in Requests |-> "new"]
    /\ open = TRUE

Becomes(r, before, after) ==
    /\ promise[r] = before
    /\ promise' = [promise EXCEPT ![r] = after]
    /\ UNCHANGED open

(* The caller goes on with an accepted request or without an answer.       *)
Accept(r) == open /\ Becomes(r, "new", "waiting")
Refuse(r) == open /\ r \notin Fragile /\ Becomes(r, "new", "refused")

(* PushBack panics on a closed connection, and on a full one for PINGs.    *)
Panic(r) == (~open \/ r \in Fragile) /\ Becomes(r, "new", "stuck")

Answer(r) == Becomes(r, "waiting", "reply") \/ Becomes(r, "waiting", "error")

Shut == open /\ open' = FALSE /\ UNCHANGED promise

Next ==
    \/ \E r \in Requests : Accept(r) \/ Refuse(r) \/ Panic(r) \/ Answer(r)
    \/ Shut

Spec == Init /\ [][Next]_vars
=============================================================================
