------------------------------- MODULE Sentinel -------------------------------
(***************************************************************************)
(* What Sentinel.Masters makes of the answers it gets                      *)
(* (src/pkg/utils/redis/sentinel.go 105-208), for one master name.         *)
(*                                                                         *)
(* Every sentinel is asked at once.  The results channel delivers the      *)
(* answers in the order in which they arrive, nil from a sentinel that     *)
(* failed; the deadline may come before the last of them.                  *)
(***************************************************************************)
EXTENDS Integers, SequencesExt

Nil == "nil"     \* a sentinel failed
Lost == "lost"   \* Masters returns the error "lost majority"

Majority(n) == 1 + n \div 2

Voted(results) == SelectSeq(results, LAMBDA m : m # Nil)

(* Answers are merged as they arrive: the last one wins, whatever its      *)
(* epoch; a nil one is no vote.                                            *)
Masters(results, n) ==
    IF Len(Voted(results)) < Majority(n) THEN Lost ELSE Last(Voted(results))

(* What may have arrived when Masters returns: the answers of these        *)
(* sentinels in any order, all of them or those before the deadline.       *)
Arrivals(fresh, stale, n) ==
    {results \in BoundedSeq({"fresh", "stale"}, n) :
        /\ Cardinality({i \in DOMAIN results : results[i] = "fresh"}) <= fresh
        /\ Cardinality({i \in DOMAIN results : results[i] = "stale"}) <= stale}
=============================================================================
