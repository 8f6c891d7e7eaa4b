------------------------------ MODULE Recursion ------------------------------
(***************************************************************************)
(* Recursive functions as loops have them: at a state that is done the     *)
(* function has a value, at another it is made of the value at the next    *)
(* one, which is of lower rank.  The loops of bufio2 and of the RESP       *)
(* encoder and decoder are instances (CodecProofs).                        *)
(*                                                                         *)
(* The parameters are constants, not operators that a theorem takes: an    *)
(* instance of the module gives them.                                      *)
(***************************************************************************)
EXTENDS Integers, WellFoundedInduction, TLAPS

CONSTANTS
    States, Rank(_),
    Done(_), Out(_),     \* the loop ends here, with this value
    Step(_), More(_, _), \* or goes on there, and adds this to the value
    Good(_, _)           \* a value that is good at a state

(* The loop ends: each round lowers the rank.                              *)
Descends ==
    \A s \in States :
        Rank(s) \in Nat /\ (~ Done(s) => Step(s) \in States /\ Rank(Step(s)) < Rank(s))

Value(f, s) == IF Done(s) THEN Out(s) ELSE More(s, f[Step(s)])

-----------------------------------------------------------------------------

Less == {p \in Nat \X Nat : p[1] < p[2]}

(* A set of natural numbers has a least one.                               *)
LEMMA Least ==
    ASSUME NEW T, T \subseteq Nat, T # {}
    PROVE  \E n \in T : \A m \in T : n <= m
<1>1. IsWellFoundedOn(Less, Nat)
  BY NatLessThanWellFounded DEF OpToRel, Less
<1>2. \E n \in T : \A m \in T : ~ (<<m, n>> \in Less)
  BY <1>1, WFMin
<1>3. \A m, n \in Nat : ~ (<<m, n>> \in Less) => n <= m
  BY DEF Less
<1> QED
  BY <1>2, <1>3

(* Some states are of the lowest rank among them.                          *)
LEMMA LowestState ==
    ASSUME Descends, NEW T, T \subseteq States, T # {}
    PROVE  \E s \in T : \A t \in T : Rank(s) <= Rank(t)
<1> DEFINE R == {Rank(s) : s \in T}
<1>1. R \subseteq Nat /\ R # {}
  BY DEF Descends
<1>2. PICK n \in R : \A m \in R : n <= m
  BY <1>1, Least
<1> QED
  BY <1>2

(* The function on the states of rank below n.                             *)
Below(n) == {s \in States : Rank(s) < n}
Solves(f, n) == f = [s \in Below(n) |-> Value(f, s)]

(* Two such functions agree where both are defined.                        *)
LEMMA SolutionsAgree ==
    ASSUME Descends, NEW m \in Nat, NEW n \in Nat, m <= n,
           NEW f, Solves(f, m), NEW g, Solves(g, n)
    PROVE  \A s \in Below(m) : f[s] = g[s]
<1> DEFINE T == {s \in Below(m) : f[s] # g[s]}
<1> SUFFICES ASSUME T # {} PROVE FALSE
  OBVIOUS
<1>1. PICK s \in T : \A t \in T : Rank(s) <= Rank(t)
  BY LowestState DEF Below
<1>2. s \in Below(m) /\ s \in Below(n) /\ s \in States /\ Rank(s) \in Nat
  BY <1>1 DEF Below, Descends
<1>3. f[s] = Value(f, s) /\ g[s] = Value(g, s)
  BY <1>2 DEF Solves
<1>4. CASE Done(s)
  BY <1>1, <1>3, <1>4 DEF Value
<1>5. CASE ~ Done(s)
  <2>1. Step(s) \in States /\ Rank(Step(s)) < Rank(s) /\ Rank(Step(s)) \in Nat
    BY <1>2, <1>5 DEF Descends
  <2>2. Step(s) \in Below(m)
    BY <1>2, <2>1 DEF Below
  <2>3. Step(s) \notin T
    BY <1>1, <1>2, <2>1
  <2> QED
    BY <1>1, <1>3, <1>5, <2>2, <2>3 DEF Value
<1> QED
  BY <1>4, <1>5

(* There is one below each rank.                                           *)
LEMMA SolutionBelow ==
    ASSUME Descends
    PROVE  \A n \in Nat : \E f : Solves(f, n)
<1> DEFINE T == {n \in Nat : ~ \E f : Solves(f, n)}
<1> SUFFICES ASSUME T # {} PROVE FALSE
  OBVIOUS
<1>1. PICK n \in T : \A m \in T : n <= m
  BY Least
<1>2. n # 0
  <2> SUFFICES ASSUME n = 0 PROVE FALSE
    OBVIOUS
  <2>1. Below(0) = {}
    BY DEF Below, Descends
  <2>2. Solves([s \in {} |-> s], 0)
    BY <2>1 DEF Solves
  <2> QED
    BY <1>1, <2>2
<1>3. n - 1 \in Nat /\ n - 1 \notin T
  BY <1>1, <1>2
<1>4. PICK f : Solves(f, n - 1)
  BY <1>3
<1> DEFINE g == [s \in Below(n) |-> Value(f, s)]
<1>5. \A s \in Below(n - 1) : g[s] = f[s]
  BY <1>3, <1>4 DEF Solves, Below, Descends
<1>6. ASSUME NEW s \in Below(n) PROVE Value(f, s) = Value(g, s)
  <2>1. CASE Done(s)
    BY <2>1 DEF Value
  <2>2. CASE ~ Done(s)
    <3>1. s \in States /\ Rank(s) \in Nat /\ Rank(s) < n
      BY <1>6 DEF Below, Descends
    <3>2. Step(s) \in Below(n - 1)
      BY <1>3, <2>2, <3>1 DEF Below, Descends
    <3> QED
      BY <1>5, <2>2, <3>2 DEF Value
  <2> QED
    BY <2>1, <2>2
<1>7. Solves(g, n)
  BY <1>6 DEF Solves
<1> QED
  BY <1>1, <1>7

(* What is defined so exists: when every round lowers the rank, there is a *)
(* function with the value at each state that one round gives it.  Each    *)
(* loop of bufio2 and the codec has to show that its rounds do             *)
(* (LoopsEnd in CodecProofs).                                              *)
LEMMA Exists ==
    ASSUME Descends
    PROVE  \E f : f = [s \in States |-> Value(f, s)]
<1> DEFINE F(n) == CHOOSE f : Solves(f, n)
           f == [s \in States |-> F(Rank(s) + 1)[s]]
<1>1. \A n \in Nat : Solves(F(n), n)
  BY SolutionBelow
<1> HIDE DEF F
<1>2. ASSUME NEW s \in States PROVE F(Rank(s) + 1)[s] = Value(f, s)
  <2>1. Rank(s) \in Nat /\ s \in Below(Rank(s) + 1)
    BY DEF Descends, Below
  <2>2. F(Rank(s) + 1)[s] = Value(F(Rank(s) + 1), s)
    BY <1>1, <2>1 DEF Solves
  <2>3. CASE Done(s)
    BY <2>2, <2>3 DEF Value
  <2>4. CASE ~ Done(s)
    <3> DEFINE t == Step(s)
    <3>1. t \in States /\ Rank(t) \in Nat /\ Rank(t) < Rank(s)
      BY <2>4 DEF Descends
    <3> HIDE DEF t
    <3>2. t \in Below(Rank(t) + 1)
      BY <3>1 DEF Below
    <3>3. F(Rank(t) + 1)[t] = F(Rank(s) + 1)[t]
      BY <1>1, <2>1, <3>1, <3>2, SolutionsAgree
    <3>4. f[t] = F(Rank(s) + 1)[t]
      BY <3>1, <3>3
    <3> QED
      BY <2>2, <2>4, <3>4 DEF Value, t
  <2> QED
    BY <2>3, <2>4
<1>3. f = [s \in States |-> Value(f, s)]
  BY <1>2
<1> QED
  BY <1>3

(* The rule of a loop's result: when the value is good at the end of the   *)
(* loop and a round that goes on from a good value returns a good one, the *)
(* result is good wherever the loop begins, however many rounds it takes.  *)
LEMMA Reaches ==
    ASSUME Descends, NEW f, f = [s \in States |-> Value(f, s)],
           \A s \in States : Done(s) => Good(s, Out(s)),
           \A s \in States : \A r : ~ Done(s) /\ Good(Step(s), r) => Good(s, More(s, r))
    PROVE  \A s \in States : Good(s, f[s])
<1> DEFINE T == {s \in States : ~ Good(s, f[s])}
<1> SUFFICES ASSUME T # {} PROVE FALSE
  OBVIOUS
<1>1. PICK s \in T : \A t \in T : Rank(s) <= Rank(t)
  BY LowestState
<1>2. f[s] = Value(f, s)
  BY <1>1
<1>3. CASE Done(s)
  BY <1>1, <1>2, <1>3 DEF Value
<1>4. CASE ~ Done(s)
  <2>1. /\ Step(s) \in States /\ Rank(Step(s)) < Rank(s)
        /\ Rank(s) \in Nat /\ Rank(Step(s)) \in Nat
    BY <1>1, <1>4 DEF Descends
  <2>2. Step(s) \notin T
    BY <1>1, <2>1
  <2>3. Good(Step(s), f[Step(s)])
    BY <2>1, <2>2
  <2> QED
    BY <1>1, <1>2, <1>4, <2>3 DEF Value
<1> QED
  BY <1>3, <1>4
=============================================================================
