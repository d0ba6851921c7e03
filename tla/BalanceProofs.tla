----------------------------- MODULE BalanceProofs -----------------------------
(***************************************************************************)
(* The properties of the balance for every number of users, administrators,*)
(* top-ups and posts.                                                      *)
(*                                                                         *)
(* CreditedOnce is not inductive: committing a review credits the top-up   *)
(* whatever its status.  That the status is still pending then, and that   *)
(* no second administrator is about to commit the same top-up, is what the *)
(* lock of the first statement is for (Locked).                            *)
(*                                                                         *)
(* BooksBalance is about sums, so the module first proves, by induction    *)
(* over finite sets, what a sum is.  It needs that there are finitely many *)
(* top-ups and requests at any time, and that they belong to users; the    *)
(* revenue page needs that what it summed is still approved; and that      *)
(* publishing implements PayPerPost needs that no post is there before its *)
(* INSERT (BooksInv).                                                      *)
(***************************************************************************)
EXTENDS Balance, FiniteSetTheorems, WellFoundedInduction, TLAPS

-----------------------------------------------------------------------------
(* Induction over the subsets of a finite set.  The induction theorems of  *)
(* the library take a predicate; this one takes the set of what satisfies  *)
(* it, and rests on a smallest counterexample.                             *)

LEMMA FiniteInduction ==
    ASSUME NEW S, IsFiniteSet(S), NEW Good,
           ASSUME NEW T, T \subseteq S, \A x \in T : T \ {x} \in Good
           PROVE  T \in Good
    PROVE  S \in Good
  <1> SUFFICES ASSUME S \notin Good PROVE FALSE
    OBVIOUS
  <1> DEFINE Bad == {T \in SUBSET S : T \notin Good}
             Less == StrictSubsetOrdering(S)
  <1>1. IsWellFoundedOn(Less, SUBSET S)
    <2>1. FiniteSubsetsOf(S) = SUBSET S
      BY FS_FiniteSubsetsOfFinite
    <2>2. IsWellFoundedOn(Less, FiniteSubsetsOf(S))
      BY FS_StrictSubsetOrderingWellFounded
    <2> HIDE DEF Less
    <2> QED
      BY <2>1, <2>2
  <1>2. Bad \subseteq SUBSET S /\ Bad # {}
    OBVIOUS
  <1>3. PICK T \in Bad : \A U \in Bad : ~(<<U, T>> \in Less)
    <2> HIDE DEF Less, Bad
    <2> QED
      BY <1>1, <1>2, WFMin
  <1>4. ASSUME NEW x \in T PROVE T \ {x} \in Good
    <2>1. T \ {x} \in SUBSET S /\ <<T \ {x}, T>> \in Less
      BY <1>3, <1>4 DEF StrictSubsetOrdering
    <2> QED
      BY <1>3, <2>1
  <1> QED
    BY <1>3, <1>4

-----------------------------------------------------------------------------
(* Sums *)

Some(T) == CHOOSE x \in T : TRUE

Rest(T) == T \ {Some(T)}

\* The function that SumFunctionOnSet defines recursively.
IsSum(g, f, S) ==
    g = [T \in SUBSET S |-> IF T = {} THEN 0 ELSE f[Some(T)] + g[Rest(T)]]

\* The element that the sum of a set starts with, and the others.
LEMMA SomeRest ==
    ASSUME NEW S, NEW T, T \subseteq S, T # {}
    PROVE  Some(T) \in T /\ Some(T) \in S /\ Rest(T) \subseteq S /\ T = Rest(T) \cup {Some(T)}
  BY DEF Some, Rest

\* The sum of the community modules is the value of such a function.
LEMMA SumDef ==
    ASSUME NEW f, NEW S, NEW h, IsSum(h, f, S)
    PROVE  \E g : IsSum(g, f, S) /\ SumFunctionOnSet(f, S) = g[S]
  BY DEF SumFunctionOnSet, FoldFunctionOnSet, MapThenFoldSet, IsSum, Some, Rest

\* What the recursion says of the sum of a set and of the empty set.
LEMMA SumValues ==
    ASSUME NEW g, NEW f, NEW S, IsSum(g, f, S)
    PROVE  /\ g[{}] = 0
           /\ \A T : T \subseteq S /\ T # {} => g[T] = f[Some(T)] + g[Rest(T)]
  BY DEF IsSum

\* It exists: there is one for the sets of every size.
LEMMA SumExists ==
    ASSUME NEW f, NEW S, IsFiniteSet(S)
    PROVE  \E g : IsSum(g, f, S)
  <1> DEFINE Body(g, U) == IF U = {} THEN 0 ELSE f[Some(U)] + g[Rest(U)]
             UpTo(g, T) == \A U \in SUBSET S :
                              Cardinality(U) <= Cardinality(T) => g[U] = Body(g, U)
             Good == {T \in SUBSET S : \E g : UpTo(g, T)}
  <1>1. ASSUME NEW T, T \subseteq S, \A x \in T : T \ {x} \in Good PROVE T \in Good
    <2>1. \A U \in SUBSET S : IsFiniteSet(U) /\ Cardinality(U) \in Nat
      BY FS_Subset, FS_CardinalityType
    <2>2. CASE T = {}
      <3>1. UpTo([U \in SUBSET S |-> 0], T)
        BY <2>1, <2>2, FS_EmptySet
      <3> QED
        BY <1>1, <3>1
    <2>3. CASE T # {}
      <3>1. PICK x \in T : TRUE
        BY <2>3
      <3>2. PICK g : UpTo(g, T \ {x})
        BY <1>1, <3>1
      <3>3. Cardinality(T) = Cardinality(T \ {x}) + 1 /\ Cardinality(T \ {x}) \in Nat
        BY <1>1, <2>1, <3>1, FS_RemoveElement
      <3> DEFINE h == [U \in SUBSET S |-> Body(g, U)]
      <3>4. ASSUME NEW U \in SUBSET S, Cardinality(U) <= Cardinality(T) PROVE h[U] = Body(h, U)
        <4>1. CASE U = {}
          BY <4>1
        <4>2. CASE U # {}
          <5>1. Rest(U) \in SUBSET S /\ Cardinality(Rest(U)) = Cardinality(U) - 1
            BY <2>1, <4>2, SomeRest, FS_RemoveElement DEF Rest
          <5>2. g[Rest(U)] = Body(g, Rest(U))
            BY <2>1, <3>2, <3>3, <3>4, <5>1
          <5>3. h[Rest(U)] = Body(g, Rest(U)) /\ h[U] = Body(g, U)
            BY <5>1
          <5> HIDE DEF h
          <5> QED
            BY <4>2, <5>2, <5>3
        <4> QED
          BY <4>1, <4>2
      <3> HIDE DEF h
      <3>5. UpTo(h, T)
        BY <3>4
      <3> QED
        BY <1>1, <3>5
    <2> QED
      BY <2>2, <2>3
  <1>2. S \in Good
    <2> HIDE DEF Good
    <2> QED
      BY <1>1, FiniteInduction
  <1>3. PICK g : UpTo(g, S)
    BY <1>2
  <1> DEFINE h == [U \in SUBSET S |-> g[U]]
  <1>4. ASSUME NEW U \in SUBSET S PROVE h[U] = Body(h, U)
    <2>1. g[U] = Body(g, U)
      BY <1>3, FS_Subset
    <2>2. U # {} => Rest(U) \in SUBSET S
      BY SomeRest
    <2> QED
      BY <2>1, <2>2
  <1>5. h = [U \in SUBSET S |-> Body(h, U)]
    <2>1. h = [U \in SUBSET S |-> h[U]]
      OBVIOUS
    <2> HIDE DEF h
    <2> QED
      BY <1>4, <2>1
  <1>6. IsSum(h, f, S)
    BY <1>5 DEF IsSum
  <1> QED
    BY <1>6

\* Functions that agree have the same sums.
LEMMA SumsAgree ==
    ASSUME NEW S, IsFiniteSet(S), NEW R, NEW Q, S \subseteq R, S \subseteq Q,
           NEW f, NEW e, \A x \in S : f[x] = e[x],
           NEW g, IsSum(g, f, R), NEW h, IsSum(h, e, Q)
    PROVE  g[S] = h[S]
  <1> DEFINE Good == {T \in SUBSET S : g[T] = h[T]}
  <1>1. ASSUME NEW T, T \subseteq S, \A x \in T : T \ {x} \in Good PROVE T \in Good
    <2>1. CASE T = {}
      BY <1>1, <2>1, SumValues
    <2>2. CASE T # {}
      <3>1. g[T] = f[Some(T)] + g[Rest(T)] /\ h[T] = e[Some(T)] + h[Rest(T)]
        BY <1>1, <2>2, SumValues
      <3>2. Some(T) \in T /\ Some(T) \in S /\ Rest(T) \in Good
        BY <1>1, <2>2, SomeRest DEF Rest
      <3> QED
        BY <1>1, <3>1, <3>2
    <2> QED
      BY <2>1, <2>2
  <1> HIDE DEF Good
  <1>2. S \in Good
    BY <1>1, FiniteInduction
  <1> QED
    BY <1>2 DEF Good

\* A sum of naturals is one.
LEMMA SumIsNat ==
    ASSUME NEW S, IsFiniteSet(S), NEW R, S \subseteq R,
           NEW f, \A x \in S : f[x] \in Nat, NEW g, IsSum(g, f, R)
    PROVE  g[S] \in Nat
  <1> DEFINE Good == {T \in SUBSET S : g[T] \in Nat}
  <1>1. ASSUME NEW T, T \subseteq S, \A x \in T : T \ {x} \in Good PROVE T \in Good
    <2>1. CASE T = {}
      BY <1>1, <2>1, SumValues
    <2>2. CASE T # {}
      <3>1. g[T] = f[Some(T)] + g[Rest(T)]
        BY <1>1, <2>2, SumValues
      <3>2. f[Some(T)] \in Nat /\ Rest(T) \in Good
        BY <1>1, <2>2, SomeRest DEF Rest
      <3> QED
        BY <1>1, <3>1, <3>2
    <2> QED
      BY <2>1, <2>2
  <1> HIDE DEF Good
  <1>2. S \in Good
    BY <1>1, FiniteInduction
  <1> QED
    BY <1>2 DEF Good

\* The order does not matter: any element may be the first.
LEMMA SumAnyFirst ==
    ASSUME NEW S, IsFiniteSet(S), NEW R, S \subseteq R,
           NEW f, \A x \in S : f[x] \in Nat, NEW g, IsSum(g, f, R), NEW y \in S
    PROVE  g[S] = f[y] + g[S \ {y}]
  <1> DEFINE Good == {T \in SUBSET S : \A x \in T : g[T] = f[x] + g[T \ {x}]}
  <1>a. ASSUME NEW T, T \subseteq S PROVE g[T] \in Nat
    BY <1>a, FS_Subset, SumIsNat
  <1>1. ASSUME NEW T, T \subseteq S, \A x \in T : T \ {x} \in Good PROVE T \in Good
    <2> SUFFICES ASSUME NEW x \in T PROVE g[T] = f[x] + g[T \ {x}]
      BY <1>1
    <2>1. PICK z : z = Some(T)
      OBVIOUS
    <2>2. z \in T /\ g[T] = f[z] + g[T \ {z}]
      BY <1>1, <2>1, SomeRest, SumValues DEF Rest
    <2>3. CASE x = z
      BY <2>2, <2>3
    <2>4. CASE x # z
      <3>1. g[T \ {z}] = f[x] + g[(T \ {z}) \ {x}]
        BY <1>1, <2>2, <2>4
      <3>2. g[T \ {x}] = f[z] + g[(T \ {x}) \ {z}]
        BY <1>1, <2>2, <2>4
      <3>3. (T \ {z}) \ {x} = (T \ {x}) \ {z}
        OBVIOUS
      <3>4. f[x] \in Nat /\ f[z] \in Nat /\ g[(T \ {x}) \ {z}] \in Nat
        BY <1>1, <1>a, <2>2
      <3>5. PICK U, V : U = T \ {z} /\ V = T \ {x}
        OBVIOUS
      <3>6. PICK W : W = U \ {x} /\ W = V \ {z}
        BY <3>3, <3>5
      <3>7. g[T] = f[z] + g[U] /\ g[U] = f[x] + g[W] /\ g[V] = f[z] + g[W] /\ g[W] \in Nat
        BY <2>2, <3>1, <3>2, <3>4, <3>5, <3>6
      <3>8. g[T] = f[x] + g[V]
        BY <3>4, <3>7
      <3> QED
        BY <3>5, <3>8
    <2> QED
      BY <2>3, <2>4
  <1> HIDE DEF Good
  <1>2. S \in Good
    BY <1>1, FiniteInduction
  <1> QED
    BY <1>2 DEF Good

\* So the sum of any finite set is the value of such a function.
LEMMA SumWorks ==
    ASSUME NEW f, NEW S, IsFiniteSet(S)
    PROVE  \E g : IsSum(g, f, S) /\ SumFunctionOnSet(f, S) = g[S]
  BY SumExists, SumDef

\* The facts about these functions, as facts about the sum.
LEMMA SumType ==
    ASSUME NEW f, NEW S, IsFiniteSet(S), \A x \in S : f[x] \in Nat
    PROVE  SumFunctionOnSet(f, S) \in Nat
  <1>1. PICK g : IsSum(g, f, S) /\ SumFunctionOnSet(f, S) = g[S]
    BY SumWorks
  <1> QED
    BY <1>1, SumIsNat

LEMMA SumEqual ==
    ASSUME NEW f, NEW e, NEW S, IsFiniteSet(S), \A x \in S : f[x] = e[x]
    PROVE  SumFunctionOnSet(f, S) = SumFunctionOnSet(e, S)
  <1>1. PICK g : IsSum(g, f, S) /\ SumFunctionOnSet(f, S) = g[S]
    BY SumWorks
  <1>2. PICK h : IsSum(h, e, S) /\ SumFunctionOnSet(e, S) = h[S]
    BY SumWorks
  <1> QED
    BY <1>1, <1>2, SumsAgree

LEMMA SumEmpty == \A f : SumFunctionOnSet(f, {}) = 0
  <1> SUFFICES ASSUME NEW f PROVE SumFunctionOnSet(f, {}) = 0
    OBVIOUS
  <1>1. PICK g : IsSum(g, f, {}) /\ SumFunctionOnSet(f, {}) = g[{}]
    BY SumWorks, FS_EmptySet
  <1> QED
    BY <1>1, SumValues

\* One more element.
LEMMA SumAdd ==
    ASSUME NEW f, NEW S, IsFiniteSet(S), NEW y, y \notin S,
           \A x \in S \cup {y} : f[x] \in Nat
    PROVE  SumFunctionOnSet(f, S \cup {y}) = SumFunctionOnSet(f, S) + f[y]
  <1> DEFINE R == S \cup {y}
  <1>1. IsFiniteSet(R)
    BY FS_AddElement
  <1>2. PICK h : IsSum(h, f, R) /\ SumFunctionOnSet(f, R) = h[R]
    BY <1>1, SumWorks
  <1>3. PICK g : IsSum(g, f, S) /\ SumFunctionOnSet(f, S) = g[S]
    BY SumWorks
  <1>4. R \ {y} = S
    OBVIOUS
  <1> HIDE DEF R
  <1>5. h[R] = f[y] + h[S]
    <2>1. y \in R /\ \A x \in R : f[x] \in Nat
      BY DEF R
    <2> QED
      BY <1>1, <1>2, <1>4, <2>1, SumAnyFirst
  <1>6. h[S] = g[S]
    <2>1. S \subseteq R
      BY DEF R
    <2> QED
      BY <1>2, <1>3, <2>1, SumsAgree
  <1>7. g[S] \in Nat
    BY <1>3, SumIsNat
  <1>8. f[y] \in Nat
    OBVIOUS
  <1>9. SumFunctionOnSet(f, R) = SumFunctionOnSet(f, S) + f[y]
    BY <1>2, <1>3, <1>5, <1>6, <1>7, <1>8
  <1> QED
    BY <1>9 DEF R

\* Smaller values have a smaller sum.
LEMMA SumsInOrder ==
    ASSUME NEW S, IsFiniteSet(S), NEW f, NEW e,
           \A x \in S : f[x] \in Nat /\ e[x] \in Nat /\ f[x] <= e[x],
           NEW g, IsSum(g, f, S), NEW h, IsSum(h, e, S)
    PROVE  g[S] <= h[S]
  <1> DEFINE Good == {T \in SUBSET S : g[T] <= h[T]}
  <1>a. ASSUME NEW T, T \subseteq S PROVE g[T] \in Nat /\ h[T] \in Nat
    BY <1>a, FS_Subset, SumIsNat
  <1>1. ASSUME NEW T, T \subseteq S, \A x \in T : T \ {x} \in Good PROVE T \in Good
    <2>1. CASE T = {}
      BY <1>1, <2>1, SumValues
    <2>2. CASE T # {}
      <3>1. g[T] = f[Some(T)] + g[Rest(T)] /\ h[T] = e[Some(T)] + h[Rest(T)]
        BY <1>1, <2>2, SumValues
      <3>2. Some(T) \in S /\ Rest(T) \subseteq S /\ g[Rest(T)] <= h[Rest(T)]
        BY <1>1, <2>2, SomeRest DEF Rest
      <3>3. PICK U : U = Rest(T)
        OBVIOUS
      <3>4. g[U] \in Nat /\ h[U] \in Nat
        BY <1>a, <3>2, <3>3
      <3>5. g[T] <= h[T]
        BY <3>1, <3>2, <3>3, <3>4
      <3> QED
        BY <1>1, <3>5
    <2> QED
      BY <2>1, <2>2
  <1> HIDE DEF Good
  <1>2. S \in Good
    BY <1>1, FiniteInduction
  <1> QED
    BY <1>2 DEF Good

\* The same for the sum itself.
LEMMA SumLeq ==
    ASSUME NEW f, NEW e, NEW S, IsFiniteSet(S),
           \A x \in S : f[x] \in Nat /\ e[x] \in Nat /\ f[x] <= e[x]
    PROVE  SumFunctionOnSet(f, S) <= SumFunctionOnSet(e, S)
  <1>1. PICK g : IsSum(g, f, S) /\ SumFunctionOnSet(f, S) = g[S]
    BY SumWorks
  <1>2. PICK h : IsSum(h, e, S) /\ SumFunctionOnSet(e, S) = h[S]
    BY SumWorks
  <1> QED
    BY <1>1, <1>2, SumsInOrder

-----------------------------------------------------------------------------
(* Top-ups and their review *)

CreditTypes ==
    /\ topup \in [Topups -> Topup]
    /\ review \in [Admins -> Review]
    /\ credits \in [Topups -> Nat]

\* An administrator at work holds a pending top-up that no other one holds.
Locked ==
    \A a \in Admins : review[a].pc # "idle" =>
        /\ review[a].topup \in Topups
        /\ topup[review[a].topup].status = "pending"
        /\ \A b \in Admins \ {a} : review[b].topup # review[a].topup

CreditInv == CreditTypes /\ Locked /\ CreditedOnce

-----------------------------------------------------------------------------

\* No review has begun and no top-up exists.
LEMMA CreditInit == Init => CreditInv
  BY NoneAssumption DEF Init, CreditInv, CreditTypes, Locked, CreditedOnce, Topup,
     Review, NoReview

\* What leaves top-ups, reviews and credits alone keeps the invariant.
LEMMA CreditFrame ==
    ASSUME CreditInv, UNCHANGED <<topup, review, credits>>
    PROVE  CreditInv'
  BY DEF CreditInv, CreditTypes, Locked, CreditedOnce

\* A new top-up was held by nobody, since it was absent.
LEMMA CreateTopupStep ==
    ASSUME CreditInv, NEW t \in Topups, NEW u \in Users, NEW amount \in Amounts,
           CreateTopup(t, u, amount)
    PROVE  CreditInv'
  <1>1. topup' \in [Topups -> Topup]
    BY DEF CreateTopup, CreditInv, CreditTypes, Topup
  <1>2. \A a \in Admins : review[a].pc # "idle" => review[a].topup # t
    BY DEF CreateTopup, CreditInv, Locked
  <1>3. Locked'
    BY <1>2 DEF CreateTopup, CreditInv, CreditTypes, Locked
  <1>4. CreditedOnce'
    BY DEF CreateTopup, CreditInv, CreditTypes, CreditedOnce
  <1> QED
    BY <1>1, <1>3, <1>4 DEF CreateTopup, CreditInv, CreditTypes

\* The first statement takes a pending top-up only if no other review holds it.
LEMMA ApproveStep ==
    ASSUME CreditInv, NEW a \in Admins, NEW t \in Topups, Approve(a, t)
    PROVE  CreditInv'
  <1>1. review' \in [Admins -> Review]
    BY DEF Approve, CreditInv, CreditTypes, Review
  <1>2. \A b \in Admins : review[b].topup # t
    BY DEF Approve, TopupLocked
  <1>3. Locked'
    BY <1>2 DEF Approve, CreditInv, CreditTypes, Locked
  <1> QED
    BY <1>1, <1>3 DEF Approve, CreditInv, CreditTypes, CreditedOnce

\* The second statement only moves the review on.
LEMMA ApproveCreditStep ==
    ASSUME CreditInv, NEW a \in Admins, ApproveCredit(a)
    PROVE  CreditInv'
  <1>1. review' \in [Admins -> Review]
    BY DEF ApproveCredit, CreditInv, CreditTypes, Review
  <1>2. Locked'
    BY DEF ApproveCredit, CreditInv, CreditTypes, Locked, Review
  <1> QED
    BY <1>1, <1>2 DEF ApproveCredit, CreditInv, CreditTypes, CreditedOnce

\* The commit approves a top-up that was pending, and so had no credit yet.
LEMMA ApproveCommitStep ==
    ASSUME CreditInv, NEW a \in Admins, ApproveCommit(a)
    PROVE  CreditInv'
  <1>1. PICK t \in Topups : t = review[a].topup
    BY DEF ApproveCommit, CreditInv, Locked
  <1>2. /\ topup[t].status = "pending"
        /\ \A b \in Admins \ {a} : review[b].topup # t
    BY <1>1 DEF ApproveCommit, CreditInv, Locked
  <1>3. credits[t] = 0
    BY <1>2 DEF CreditInv, CreditedOnce
  <1>4. /\ topup' = [topup EXCEPT ![t] = [topup[t] EXCEPT !.status = "approved"]]
        /\ credits' = [credits EXCEPT ![t] = credits[t] + 1]
        /\ review' = [review EXCEPT ![a] = NoReview]
    BY <1>1 DEF ApproveCommit
  <1>5. CreditTypes'
    <2>1. topup' \in [Topups -> Topup]
      BY <1>4 DEF CreditInv, CreditTypes, Topup
    <2>2. review' \in [Admins -> Review]
      BY <1>4 DEF CreditInv, CreditTypes, Review, NoReview
    <2> QED
      BY <1>4, <2>1, <2>2 DEF CreditInv, CreditTypes
  <1>6. Locked'
    <2> SUFFICES ASSUME NEW b \in Admins, review'[b].pc # "idle"
                 PROVE  /\ review'[b].topup \in Topups
                        /\ topup'[review'[b].topup].status = "pending"
                        /\ \A c \in Admins \ {b} : review'[c].topup # review'[b].topup
      BY DEF Locked
    <2>1. b # a /\ review'[b] = review[b]
      BY <1>4 DEF CreditInv, CreditTypes, NoReview
    <2>2. /\ review[b].topup \in Topups
          /\ review[b].topup # t
          /\ topup[review[b].topup].status = "pending"
          /\ \A c \in Admins \ {b} : review[c].topup # review[b].topup
      BY <1>2, <2>1 DEF CreditInv, Locked
    <2>3. topup'[review[b].topup] = topup[review[b].topup]
      BY <1>4, <2>2 DEF CreditInv, CreditTypes
    <2>4. \A c \in Admins \ {b} : review'[c].topup # review[b].topup
      BY <1>4, <2>2, NoneAssumption DEF CreditInv, CreditTypes, NoReview
    <2> QED
      BY <2>1, <2>2, <2>3, <2>4
  <1>7. CreditedOnce'
    BY <1>2, <1>3, <1>4 DEF CreditInv, CreditTypes, CreditedOnce, Topup
  <1> QED
    BY <1>5, <1>6, <1>7 DEF CreditInv

\* A rollback gives the top-up back as it was.
LEMMA ApproveRollbackStep ==
    ASSUME CreditInv, NEW a \in Admins, ApproveRollback(a)
    PROVE  CreditInv'
  <1>1. review' \in [Admins -> Review]
    BY DEF ApproveRollback, CreditInv, CreditTypes, Review, NoReview
  <1>2. Locked'
    BY NoneAssumption
    DEF ApproveRollback, CreditInv, CreditTypes, Locked, Review, NoReview
  <1> QED
    BY <1>1, <1>2 DEF ApproveRollback, CreditInv, CreditTypes, CreditedOnce

\* A rejection waits for the lock, too.
LEMMA RejectStep ==
    ASSUME CreditInv, NEW t \in Topups, Reject(t)
    PROVE  CreditInv'
  <1>1. topup' \in [Topups -> Topup]
    BY DEF Reject, CreditInv, CreditTypes, Topup
  <1>2. \A a \in Admins : review[a].topup # t
    BY DEF Reject, TopupLocked
  <1>3. Locked'
    BY <1>2 DEF Reject, CreditInv, CreditTypes, Locked
  <1>4. CreditedOnce'
    BY DEF Reject, CreditInv, CreditTypes, CreditedOnce
  <1> QED
    BY <1>1, <1>3, <1>4 DEF Reject, CreditInv, CreditTypes

-----------------------------------------------------------------------------

\* Every step keeps the invariant of the credits.
LEMMA CreditNext == CreditInv /\ [Next]_vars => CreditInv'
  <1> SUFFICES ASSUME CreditInv, [Next]_vars PROVE CreditInv'
    OBVIOUS
  <1>1. CASE TopupStep
    <2>1. PICK t \in Topups :
             \/ \E u \in Users, amount \in Amounts : CreateTopup(t, u, amount)
             \/ \E a \in Admins : Approve(a, t)
             \/ Reject(t)
      BY <1>1 DEF TopupStep
    <2> QED
      BY <2>1, CreateTopupStep, ApproveStep, RejectStep
  <1>2. CASE ReviewStep
    BY <1>2, ApproveCreditStep, ApproveCommitStep, ApproveRollbackStep DEF ReviewStep
  <1>3. CASE PurchaseStep
    <2>1. UNCHANGED <<topup, review, credits>>
      BY <1>3 DEF PurchaseStep, DeductBalance, CreatePost, CreatePostFails,
                  CreatePostUnanswered, AddBalance, PurchaseCut
    <2> QED
      BY <2>1, CreditFrame
  <1>4. CASE SumTopups \/ SumBalances
    <2>1. UNCHANGED <<topup, review, credits>>
      BY <1>4 DEF SumTopups, SumBalances
    <2> QED
      BY <2>1, CreditFrame
  <1>5. CASE UNCHANGED vars
    BY <1>5, CreditFrame DEF vars
  <1> QED
    BY <1>1, <1>2, <1>3, <1>4, <1>5 DEF Next

\* However many administrators approve and reject at the same time, and however
\* often their transactions are rolled back, a top-up is credited once if it
\* ends up approved and never otherwise.
THEOREM CreditedExactlyOnce == Spec => []CreditedOnce
  <1>1. CreditInv => CreditedOnce
    BY DEF CreditInv
  <1> QED
    BY <1>1, CreditInit, CreditNext, PTL DEF Spec

-----------------------------------------------------------------------------
(* The books *)

MoneyTypes ==
    /\ balance \in [Users -> Nat]
    /\ purchase \in [Posts -> Purchase]
    /\ published \in SUBSET Posts
    /\ stats \in Stats

\* Every top-up and every request that has begun belongs to a user.
OwnersOK ==
    /\ \A t \in Topups : topup[t].status # "absent" =>
           topup[t].user \in Users /\ topup[t].amount \in Amounts
    /\ \A p \in Posts : purchase[p].pc # "none" => purchase[p].user \in Users

Existing == {t \in Topups : topup[t].status # "absent"}
Begun == {p \in Posts : purchase[p].pc # "none"}

\* At any moment there are finitely many of them.
FinitelyMany == IsFiniteSet(Existing) /\ IsFiniteSet(Begun)

\* A post is there only once its request has got past the INSERT.
NotYetPublished == \A p \in Posts : purchase[p].pc \in {"none", "charged"} => p \notin published

\* What was approved before the balances are read is still approved.
SummedBefore == stats.pc = "summed" => stats.approved <= TotalApproved

MoneyInv ==
    MoneyTypes /\ OwnersOK /\ FinitelyMany /\ BooksBalance /\ NotYetPublished /\ SummedBefore

BooksInv == CreditInv /\ MoneyInv

Taken == {"charged", "refund", "done", "cut"}
Open == {"charged", "refund"}

-----------------------------------------------------------------------------

\* One fee more.
LEMMA TimesSucc ==
    \A n \in Nat : Cost * (n + 1) = Cost * n + Cost /\ Cost * n \in Nat
  BY CostAssumption

\* The fees of a user are those of finitely many requests.
LEMMA WithFinite ==
    ASSUME BooksInv, NEW u, NEW pcs, "none" \notin pcs
    PROVE  /\ IsFiniteSet(With(u, pcs))
           /\ Cardinality(With(u, pcs)) \in Nat
           /\ Cost * Cardinality(With(u, pcs)) \in Nat
  <1>1. With(u, pcs) \subseteq Begun
    BY DEF With, Begun
  <1>2. IsFiniteSet(With(u, pcs)) /\ Cardinality(With(u, pcs)) \in Nat
    BY <1>1, FS_Subset, FS_CardinalityType DEF BooksInv, MoneyInv, FinitelyMany
  <1> QED
    BY <1>2, TimesSucc

\* The approved amount of a user is a sum of finitely many amounts.
LEMMA ApprovedType ==
    ASSUME BooksInv, NEW u
    PROVE  /\ IsFiniteSet(ApprovedTopups(u))
           /\ \A t \in ApprovedTopups(u) : AmountOf[t] \in Nat
           /\ ApprovedOf(u) \in Nat
  <1>1. ApprovedTopups(u) \subseteq Existing
    BY DEF ApprovedTopups, Existing
  <1>2. IsFiniteSet(ApprovedTopups(u))
    BY <1>1, FS_Subset DEF BooksInv, MoneyInv, FinitelyMany
  <1>3. \A t \in ApprovedTopups(u) : AmountOf[t] \in Nat
    BY <1>1, AmountsAssumption DEF Existing, AmountOf, BooksInv, MoneyInv, OwnersOK
  <1> QED
    BY <1>2, <1>3, SumType DEF ApprovedOf

\* Nothing on the revenue page is negative, and no more is outstanding than
\* was approved.
LEMMA TotalsOK ==
    ASSUME BooksInv
    PROVE  /\ TotalApproved \in Nat
           /\ OutstandingBalance \in Nat
           /\ OutstandingBalance <= TotalApproved
  <1> DEFINE A == [u \in Users |-> ApprovedOf(u)]
  <1>1. \A u \in Users : A[u] = ApprovedOf(u) /\ A[u] \in Nat
    BY ApprovedType
  <1>2. \A u \in Users : balance[u] \in Nat
    BY DEF BooksInv, MoneyInv, MoneyTypes
  <1>3. ASSUME NEW u \in Users PROVE balance[u] <= A[u]
    <2>1. PICK fees \in Nat : fees = Cost * Cardinality(With(u, Taken))
      BY WithFinite DEF Taken
    <2>2. balance[u] + fees = A[u]
      BY <1>1, <2>1 DEF BooksInv, MoneyInv, BooksBalance, Taken
    <2> QED
      BY <1>1, <1>2, <2>1, <2>2
  <1> HIDE DEF A
  <1>4. SumFunctionOnSet(A, Users) \in Nat /\ SumFunctionOnSet(balance, Users) \in Nat
    BY <1>1, <1>2, SumType, UsersAssumption
  <1>5. SumFunctionOnSet(balance, Users) <= SumFunctionOnSet(A, Users)
    BY <1>1, <1>2, <1>3, SumLeq, UsersAssumption
  <1> QED
    BY <1>4, <1>5 DEF A, TotalApproved, OutstandingBalance

-----------------------------------------------------------------------------
(* Counting fees *)

\* The fees of one request more.
LEMMA OneMore ==
    ASSUME NEW W, IsFiniteSet(W), NEW p, p \notin W
    PROVE  Cost * Cardinality(W \cup {p}) = Cost * Cardinality(W) + Cost
  <1>1. Cardinality(W) \in Nat /\ Cardinality(W \cup {p}) = Cardinality(W) + 1
    BY FS_CardinalityType, FS_AddElement
  <1> QED
    BY <1>1, TimesSucc

\* The fees of one request less.
LEMMA OneLess ==
    ASSUME NEW W, IsFiniteSet(W), NEW p \in W
    PROVE  Cost * Cardinality(W) = Cost * Cardinality(W \ {p}) + Cost
  <1>1. IsFiniteSet(W \ {p}) /\ W = (W \ {p}) \cup {p}
    BY FS_RemoveElement
  <1> QED
    BY <1>1, OneMore

\* The request at hand among the requests of a user.
LEMMA WithHas ==
    ASSUME NEW p \in Posts, NEW u, NEW pcs
    PROVE  p \in With(u, pcs) <=> purchase[p].user = u /\ purchase[p].pc \in pcs
  BY DEF With

LEMMA WithSets ==
    ASSUME NEW u, NEW pcs, NEW p, p \notin With(u, pcs)
    PROVE  With(u, pcs) \ {p} = With(u, pcs)
  BY DEF With

-----------------------------------------------------------------------------
(* Steps of the top-ups *)

\* The approved amount of a user depends on what is approved only.
LEMMA ApprovedStays ==
    ASSUME BooksInv, NEW u, ApprovedTopups(u)' = ApprovedTopups(u),
           \A t \in ApprovedTopups(u) : topup'[t].amount = topup[t].amount
    PROVE  ApprovedOf(u)' = ApprovedOf(u)
  <1>1. \A t \in ApprovedTopups(u) : AmountOf'[t] = AmountOf[t]
    BY DEF ApprovedTopups, AmountOf
  <1> QED
    BY <1>1, SumEqual, ApprovedType DEF ApprovedOf

\* Whatever is approved is added to the balance as well, and the other way round.
LEMMA ApprovalsBalance ==
    ASSUME BooksInv, UNCHANGED <<purchase, published, stats>>, OwnersOK',
           IsFiniteSet(Existing'), balance' \in [Users -> Nat],
           \A u \in Users : \E d \in Nat :
               balance'[u] = balance[u] + d /\ ApprovedOf(u)' = ApprovedOf(u) + d
    PROVE  MoneyInv'
  <1>1. MoneyTypes' /\ FinitelyMany' /\ NotYetPublished'
    BY DEF BooksInv, MoneyInv, MoneyTypes, FinitelyMany, Begun, NotYetPublished
  <1>2. BooksBalance'
    <2> SUFFICES ASSUME NEW u \in Users
                 PROVE  balance'[u] + Cost * Cardinality(With(u, Taken)') = ApprovedOf(u)'
      BY DEF BooksBalance, Taken
    <2>1. PICK d \in Nat : balance'[u] = balance[u] + d /\ ApprovedOf(u)' = ApprovedOf(u) + d
      OBVIOUS
    <2>2. PICK fees \in Nat : fees = Cost * Cardinality(With(u, Taken))
      BY WithFinite DEF Taken
    <2>3. With(u, Taken)' = With(u, Taken)
      BY DEF With, Taken
    <2>4. balance[u] + fees = ApprovedOf(u) /\ balance[u] \in Nat
      BY <2>2 DEF BooksInv, MoneyInv, BooksBalance, MoneyTypes, Taken
    <2> QED
      BY <2>1, <2>2, <2>3, <2>4
  <1>3. SummedBefore'
    <2> DEFINE A == [u \in Users |-> ApprovedOf(u)]
    <2>1. \A u \in Users : A[u] \in Nat /\ A'[u] \in Nat /\ A[u] <= A'[u]
      BY ApprovedType
    <2>2. TotalApproved = SumFunctionOnSet(A, Users) /\ TotalApproved' = SumFunctionOnSet(A', Users)
      BY DEF TotalApproved
    <2> HIDE DEF A
    <2>3. TotalApproved <= TotalApproved' /\ TotalApproved \in Nat /\ TotalApproved' \in Nat
      BY <2>1, <2>2, SumLeq, SumType, UsersAssumption
    <2> QED
      BY <2>3 DEF BooksInv, MoneyInv, SummedBefore, MoneyTypes, Stats
  <1> QED
    BY <1>1, <1>2, <1>3 DEF MoneyInv

\* A new top-up is pending, and adds one to those there are.
LEMMA CreateTopupBooks ==
    ASSUME BooksInv, NEW t \in Topups, NEW u \in Users, NEW amount \in Amounts,
           CreateTopup(t, u, amount)
    PROVE  MoneyInv'
  <1>1. /\ topup[t].status = "absent"
        /\ topup' = [topup EXCEPT ![t] = [user |-> u, amount |-> amount, status |-> "pending"]]
        /\ topup \in [Topups -> Topup]
    BY DEF CreateTopup, BooksInv, CreditInv, CreditTypes
  <1>2. OwnersOK'
    BY <1>1 DEF CreateTopup, BooksInv, MoneyInv, OwnersOK
  <1>3. IsFiniteSet(Existing')
    <2>1. Existing' = Existing \cup {t}
      BY <1>1 DEF Existing
    <2> QED
      BY <2>1, FS_AddElement DEF BooksInv, MoneyInv, FinitelyMany
  <1>4. ASSUME NEW v \in Users PROVE ApprovedOf(v)' = ApprovedOf(v)
    <2>1. ApprovedTopups(v)' = ApprovedTopups(v) /\ t \notin ApprovedTopups(v)
      BY <1>1 DEF ApprovedTopups
    <2>2. \A s \in ApprovedTopups(v) : topup'[s].amount = topup[s].amount
      BY <1>1, <2>1 DEF ApprovedTopups
    <2> QED
      BY <2>1, <2>2, ApprovedStays
  <1>5. \A v \in Users : balance'[v] = balance[v] + 0 /\ ApprovedOf(v)' = ApprovedOf(v) + 0
    BY <1>4, ApprovedType DEF CreateTopup, BooksInv, MoneyInv, MoneyTypes
  <1> QED
    BY <1>2, <1>3, <1>5, ApprovalsBalance DEF CreateTopup, BooksInv, MoneyInv, MoneyTypes

\* A rejection approves nothing.
LEMMA RejectBooks ==
    ASSUME BooksInv, NEW t \in Topups, Reject(t)
    PROVE  MoneyInv'
  <1>1. /\ topup[t].status = "pending"
        /\ topup' = [topup EXCEPT ![t] = [topup[t] EXCEPT !.status = "rejected"]]
        /\ topup \in [Topups -> Topup]
    BY DEF Reject, BooksInv, CreditInv, CreditTypes
  <1>2. OwnersOK'
    BY <1>1 DEF Reject, BooksInv, MoneyInv, OwnersOK, Topup
  <1>3. IsFiniteSet(Existing')
    <2>1. Existing' = Existing
      BY <1>1 DEF Existing, Topup
    <2> QED
      BY <2>1 DEF BooksInv, MoneyInv, FinitelyMany
  <1>4. ASSUME NEW v \in Users PROVE ApprovedOf(v)' = ApprovedOf(v)
    <2>1. ApprovedTopups(v)' = ApprovedTopups(v) /\ t \notin ApprovedTopups(v)
      BY <1>1 DEF ApprovedTopups, Topup
    <2>2. \A s \in ApprovedTopups(v) : topup'[s].amount = topup[s].amount
      BY <1>1, <2>1 DEF ApprovedTopups
    <2> QED
      BY <2>1, <2>2, ApprovedStays
  <1>5. \A v \in Users : balance'[v] = balance[v] + 0 /\ ApprovedOf(v)' = ApprovedOf(v) + 0
    BY <1>4, ApprovedType DEF Reject, BooksInv, MoneyInv, MoneyTypes
  <1> QED
    BY <1>2, <1>3, <1>5, ApprovalsBalance DEF Reject, BooksInv, MoneyInv, MoneyTypes

\* What an open review does is seen by nobody.
LEMMA ReviewBooks ==
    ASSUME BooksInv, UNCHANGED <<balance, topup, purchase, published, stats>>
    PROVE  MoneyInv'
  <1>1. OwnersOK' /\ IsFiniteSet(Existing') /\ balance' \in [Users -> Nat]
    BY DEF BooksInv, MoneyInv, OwnersOK, FinitelyMany, Existing, MoneyTypes
  <1>2. ASSUME NEW v \in Users PROVE ApprovedOf(v)' = ApprovedOf(v)
    BY DEF ApprovedOf, ApprovedTopups, AmountOf
  <1>3. \A v \in Users : balance'[v] = balance[v] + 0 /\ ApprovedOf(v)' = ApprovedOf(v) + 0
    BY <1>2, ApprovedType DEF BooksInv, MoneyInv, MoneyTypes
  <1> QED
    BY <1>1, <1>3, ApprovalsBalance

\* The commit adds the amount of a top-up that was not among the approved ones
\* to the balance of its owner.
LEMMA ApproveCommitBooks ==
    ASSUME BooksInv, NEW a \in Admins, ApproveCommit(a)
    PROVE  MoneyInv'
  <1>1. PICK t \in Topups : t = review[a].topup /\ topup[t].status = "pending"
    BY DEF ApproveCommit, BooksInv, CreditInv, Locked
  <1>2. PICK u \in Users : u = topup[t].user
    BY <1>1 DEF BooksInv, MoneyInv, OwnersOK
  <1>3. PICK amount \in Nat : amount = topup[t].amount
    BY <1>1, AmountsAssumption DEF BooksInv, MoneyInv, OwnersOK
  <1>4. /\ topup' = [topup EXCEPT ![t] = [topup[t] EXCEPT !.status = "approved"]]
        /\ balance' = [balance EXCEPT ![u] = balance[u] + amount]
        /\ topup \in [Topups -> Topup] /\ balance \in [Users -> Nat]
    BY <1>1, <1>2, <1>3 DEF ApproveCommit, BooksInv, CreditInv, CreditTypes, MoneyInv, MoneyTypes
  <1>5. OwnersOK'
    BY <1>1, <1>4 DEF ApproveCommit, BooksInv, MoneyInv, OwnersOK, Topup
  <1>6. IsFiniteSet(Existing')
    <2>1. Existing' = Existing
      BY <1>1, <1>4 DEF Existing, Topup
    <2> QED
      BY <2>1 DEF BooksInv, MoneyInv, FinitelyMany
  <1>7. \A s \in Topups : topup'[s].amount = topup[s].amount
    BY <1>4 DEF Topup
  <1>8. ASSUME NEW v \in Users \ {u} PROVE ApprovedOf(v)' = ApprovedOf(v)
    <2>1. ApprovedTopups(v)' = ApprovedTopups(v)
      BY <1>2, <1>4 DEF ApprovedTopups, Topup
    <2> QED
      BY <1>7, <2>1, ApprovedStays DEF ApprovedTopups
  <1>9. ApprovedOf(u)' = ApprovedOf(u) + amount
    <2>1. ApprovedTopups(u)' = ApprovedTopups(u) \cup {t} /\ t \notin ApprovedTopups(u)
      BY <1>1, <1>2, <1>4 DEF ApprovedTopups, Topup
    <2>2. /\ IsFiniteSet(ApprovedTopups(u)) /\ IsFiniteSet(ApprovedTopups(u) \cup {t})
          /\ \A s \in ApprovedTopups(u) \cup {t} : AmountOf[s] \in Nat
      BY <1>3, ApprovedType, FS_AddElement DEF AmountOf
    <2>3. AmountOf' = AmountOf /\ AmountOf[t] = amount
      BY <1>3, <1>7 DEF AmountOf
    <2> QED
      BY <2>1, <2>2, <2>3, SumAdd DEF ApprovedOf
  <1>10. \A v \in Users : \E d \in Nat :
             balance'[v] = balance[v] + d /\ ApprovedOf(v)' = ApprovedOf(v) + d
    <2> SUFFICES ASSUME NEW v \in Users
                 PROVE  \E d \in Nat :
                            balance'[v] = balance[v] + d /\ ApprovedOf(v)' = ApprovedOf(v) + d
      OBVIOUS
    <2>1. CASE v = u
      BY <1>4, <1>9, <2>1
    <2>2. CASE v # u
      <3>1. balance'[v] = balance[v] + 0 /\ ApprovedOf(v)' = ApprovedOf(v) + 0
        BY <1>4, <1>8, <2>2, ApprovedType
      <3> QED
        BY <3>1
    <2> QED
      BY <2>1, <2>2
  <1>11. balance' \in [Users -> Nat] /\ UNCHANGED <<purchase, published, stats>>
    <2>1. balance[u] + amount \in Nat
      BY <1>4
    <2> QED
      BY <1>4, <2>1 DEF ApproveCommit
  <1> QED
    BY <1>5, <1>6, <1>10, <1>11, ApprovalsBalance

-----------------------------------------------------------------------------
(* Steps of the purchases *)

\* A step of one request that leaves balance and fees together as they were.
LEMMA PurchaseBalance ==
    ASSUME BooksInv, UNCHANGED <<topup, stats>>,
           NEW p \in Posts, NEW r \in Purchase, r.pc # "none", r.user \in Users,
           purchase' = [purchase EXCEPT ![p] = r],
           balance' \in [Users -> Nat], published' \in SUBSET Posts, NotYetPublished',
           \A u \in Users : balance'[u] + Cost * Cardinality(With(u, Taken)')
                                = balance[u] + Cost * Cardinality(With(u, Taken))
    PROVE  MoneyInv'
  <1>1. purchase \in [Posts -> Purchase]
    BY DEF BooksInv, MoneyInv, MoneyTypes
  <1>2. MoneyTypes'
    BY <1>1 DEF BooksInv, MoneyInv, MoneyTypes
  <1>3. OwnersOK'
    BY <1>1 DEF BooksInv, MoneyInv, OwnersOK
  <1>4. FinitelyMany'
    <2>1. Begun' \subseteq Begun \cup {p} /\ Existing' = Existing
      BY <1>1 DEF Begun, Existing
    <2>2. IsFiniteSet(Begun \cup {p})
      BY FS_AddElement DEF BooksInv, MoneyInv, FinitelyMany
    <2> QED
      BY <2>1, <2>2, FS_Subset DEF BooksInv, MoneyInv, FinitelyMany
  <1>5. \A u : ApprovedOf(u)' = ApprovedOf(u)
    BY DEF ApprovedOf, ApprovedTopups, AmountOf
  <1>6. BooksBalance'
    BY <1>5 DEF BooksInv, MoneyInv, BooksBalance, Taken
  <1>7. TotalApproved' = TotalApproved
    BY <1>5 DEF TotalApproved
  <1>8. SummedBefore'
    BY <1>7 DEF BooksInv, MoneyInv, SummedBefore
  <1> QED
    BY <1>2, <1>3, <1>4, <1>6, <1>8 DEF MoneyInv

\* A request that has taken the fee and goes on without paying it back.
LEMMA FeeKept ==
    ASSUME BooksInv, UNCHANGED <<topup, stats, balance>>,
           NEW p \in Posts, purchase[p].pc \in Taken, NEW pc \in Taken, Step(p, pc),
           published' \in SUBSET Posts, NotYetPublished'
    PROVE  MoneyInv'
  <1>1. PICK r \in Purchase : r.user = purchase[p].user /\ r.pc = pc
                              /\ purchase' = [purchase EXCEPT ![p] = r]
    <2>1. purchase[p] \in Purchase /\ purchase \in [Posts -> Purchase]
      BY DEF BooksInv, MoneyInv, MoneyTypes
    <2>2. [purchase[p] EXCEPT !.pc = pc] \in Purchase
      BY <2>1 DEF Purchase, Taken
    <2> QED
      BY <2>1, <2>2 DEF Step, Purchase
  <1>2. r.pc # "none" /\ r.user \in Users
    BY <1>1 DEF BooksInv, MoneyInv, OwnersOK, Taken
  <1>3. ASSUME NEW u \in Users PROVE With(u, Taken)' = With(u, Taken)
    BY <1>1 DEF With, BooksInv, MoneyInv, MoneyTypes
  <1>4. balance' \in [Users -> Nat]
    BY DEF BooksInv, MoneyInv, MoneyTypes
  <1> QED
    BY <1>1, <1>2, <1>3, <1>4, PurchaseBalance

\* The fee moves from the balance to the request.
LEMMA DeductBalanceBooks ==
    ASSUME BooksInv, NEW p \in Posts, NEW u \in Users, DeductBalance(p, u)
    PROVE  MoneyInv'
  <1>1. balance[u] \in Nat /\ balance[u] >= Cost /\ Cost \in Nat
    BY CostAssumption DEF DeductBalance, BooksInv, MoneyInv, MoneyTypes
  <1>2. PICK rest \in Nat : rest = balance[u] - Cost
    BY <1>1
  <1>3. balance' = [balance EXCEPT ![u] = rest] /\ balance \in [Users -> Nat]
    BY <1>2 DEF DeductBalance, BooksInv, MoneyInv, MoneyTypes
  <1>4. PICK r \in Purchase : r.user = u /\ r.pc = "charged"
                              /\ purchase' = [purchase EXCEPT ![p] = r]
    BY DEF DeductBalance, Purchase
  <1>5. ASSUME NEW v \in Users
        PROVE  balance'[v] + Cost * Cardinality(With(v, Taken)')
                   = balance[v] + Cost * Cardinality(With(v, Taken))
    <2>1. p \notin With(v, Taken)
      BY DEF DeductBalance, With, Taken
    <2>2. CASE v = u
      <3>1. With(v, Taken)' = With(v, Taken) \cup {p}
        BY <1>4, <2>2 DEF With, Taken, BooksInv, MoneyInv, MoneyTypes
      <3>2. PICK fees \in Nat : fees = Cost * Cardinality(With(v, Taken))
        BY WithFinite DEF Taken
      <3>3. Cost * Cardinality(With(v, Taken)') = fees + Cost
        BY <2>1, <3>1, <3>2, OneMore, WithFinite DEF Taken
      <3> QED
        BY <1>1, <1>2, <1>3, <2>2, <3>2, <3>3
    <2>3. CASE v # u
      <3>1. With(v, Taken)' = With(v, Taken)
        BY <1>4, <2>1, <2>3 DEF With, BooksInv, MoneyInv, MoneyTypes
      <3> QED
        BY <1>3, <2>3, <3>1
    <2> QED
      BY <2>2, <2>3
  <1>6. NotYetPublished'
    BY <1>4 DEF DeductBalance, BooksInv, MoneyInv, MoneyTypes, NotYetPublished
  <1>7. UNCHANGED <<topup, stats>> /\ published' \in SUBSET Posts /\ balance' \in [Users -> Nat]
    BY <1>3 DEF DeductBalance, BooksInv, MoneyInv, MoneyTypes
  <1> QED
    BY <1>4, <1>5, <1>6, <1>7, PurchaseBalance

\* The fee moves back.
LEMMA AddBalanceBooks ==
    ASSUME BooksInv, NEW p \in Posts, AddBalance(p)
    PROVE  MoneyInv'
  <1>1. PICK u \in Users : u = purchase[p].user
    BY DEF AddBalance, BooksInv, MoneyInv, OwnersOK
  <1>2. balance[u] \in Nat /\ Cost \in Nat
    BY CostAssumption DEF BooksInv, MoneyInv, MoneyTypes
  <1>3. PICK more \in Nat : more = balance[u] + Cost
    BY <1>2
  <1>4. balance' = [balance EXCEPT ![u] = more] /\ balance \in [Users -> Nat]
    BY <1>1, <1>3 DEF AddBalance, BooksInv, MoneyInv, MoneyTypes
  <1>5. PICK r \in Purchase : r.user = u /\ r.pc = "refunded"
                              /\ purchase' = [purchase EXCEPT ![p] = r]
    <2>1. purchase[p] \in Purchase
      BY DEF BooksInv, MoneyInv, MoneyTypes
    <2>2. [purchase[p] EXCEPT !.pc = "refunded"] \in Purchase
      BY <2>1 DEF Purchase
    <2> QED
      BY <1>1, <2>1, <2>2 DEF AddBalance, Step, Purchase
  <1>6. ASSUME NEW v \in Users
        PROVE  balance'[v] + Cost * Cardinality(With(v, Taken)')
                   = balance[v] + Cost * Cardinality(With(v, Taken))
    <2>a. "refunded" \notin Taken /\ purchase[p].pc \in Taken
      BY DEF AddBalance, Taken
    <2>1. With(v, Taken)' = With(v, Taken) \ {p}
      BY <1>5, <2>a DEF With, BooksInv, MoneyInv, MoneyTypes
    <2>2. p \in With(v, Taken) <=> v = u
      BY <1>1, <1>5, <2>a, WithHas
    <2>3. CASE v = u
      <3>1. PICK fees \in Nat : fees = Cost * Cardinality(With(v, Taken))
        BY WithFinite DEF Taken
      <3>2. PICK W : W = With(v, Taken) \ {p}
        OBVIOUS
      <3>3. fees = Cost * Cardinality(W) + Cost /\ IsFiniteSet(W)
        BY <2>2, <2>3, <3>1, <3>2, OneLess, WithFinite, FS_RemoveElement DEF Taken
      <3>4. Cost * Cardinality(W) \in Nat
        BY <3>3, FS_CardinalityType, TimesSucc
      <3> QED
        BY <1>2, <1>3, <1>4, <2>1, <2>3, <3>1, <3>2, <3>3, <3>4
    <2>4. CASE v # u
      <3>1. With(v, Taken)' = With(v, Taken)
        BY <2>1, <2>2, <2>4
      <3> QED
        BY <1>4, <2>4, <3>1
    <2> QED
      BY <2>3, <2>4
  <1>7. NotYetPublished'
    BY <1>5 DEF AddBalance, BooksInv, MoneyInv, MoneyTypes, NotYetPublished
  <1>8. UNCHANGED <<topup, stats>> /\ published' \in SUBSET Posts /\ balance' \in [Users -> Nat]
    BY <1>4 DEF AddBalance, BooksInv, MoneyInv, MoneyTypes
  <1> QED
    BY <1>5, <1>6, <1>7, <1>8, PurchaseBalance

\* The INSERT, answered or not, its failure, and a request that is cut.
LEMMA OtherPurchaseBooks ==
    ASSUME BooksInv, NEW p \in Posts,
           CreatePost(p) \/ CreatePostFails(p) \/ CreatePostUnanswered(p) \/ PurchaseCut(p)
    PROVE  MoneyInv'
  <1>1. /\ UNCHANGED <<topup, stats, balance>>
        /\ purchase[p].pc \in Taken
        /\ published' \in SUBSET Posts
    BY DEF BooksInv, MoneyInv, MoneyTypes, Taken,
           CreatePost, CreatePostFails, CreatePostUnanswered, PurchaseCut
  <1>2. PICK pc \in {"done", "refund", "cut"} :
           Step(p, pc) /\ published' \subseteq published \cup {p}
    BY DEF CreatePost, CreatePostFails, CreatePostUnanswered, PurchaseCut
  <1>3. NotYetPublished'
    BY <1>2 DEF Step, BooksInv, MoneyInv, MoneyTypes, Purchase, NotYetPublished
  <1> QED
    BY <1>1, <1>2, <1>3, FeeKept DEF Taken

-----------------------------------------------------------------------------
(* The revenue page *)

\* The first query: what is approved now is not more than what is approved.
LEMMA SumTopupsBooks ==
    ASSUME BooksInv, SumTopups
    PROVE  MoneyInv'
  <1>1. UNCHANGED <<balance, topup, purchase, published>>
    BY DEF SumTopups
  <1>2. /\ stats' = [pc |-> "summed", approved |-> TotalApproved, consumed |-> 0]
        /\ TotalApproved \in Nat
    BY TotalsOK DEF SumTopups
  <1>3. TotalApproved' = TotalApproved /\ \A u : ApprovedOf(u)' = ApprovedOf(u)
    BY <1>1 DEF TotalApproved, ApprovedOf, ApprovedTopups, AmountOf
  <1>4. MoneyTypes' /\ SummedBefore'
    BY <1>1, <1>2, <1>3 DEF BooksInv, MoneyInv, MoneyTypes, Stats, SummedBefore
  <1>5. BooksBalance'
    BY <1>1, <1>3 DEF BooksInv, MoneyInv, BooksBalance, With
  <1> QED
    BY <1>1, <1>4, <1>5
    DEF BooksInv, MoneyInv, OwnersOK, FinitelyMany, Existing, Begun, NotYetPublished

\* The second query, and the difference shown.
LEMMA SumBalancesShown ==
    ASSUME BooksInv, SumBalances
    PROVE  /\ stats'.consumed <= TotalApproved - OutstandingBalance
           /\ stats' \in Stats
           /\ stats'.pc = "shown"
  <1>1. /\ TotalApproved \in Nat /\ OutstandingBalance \in Nat
        /\ OutstandingBalance <= TotalApproved
    BY TotalsOK
  <1>2. stats \in Stats /\ stats.approved \in Nat /\ stats.approved <= TotalApproved
    BY DEF SumBalances, BooksInv, MoneyInv, MoneyTypes, Stats, SummedBefore
  <1>3. PICK consumed \in Nat :
           /\ consumed <= TotalApproved - OutstandingBalance
           /\ stats' = [stats EXCEPT !.pc = "shown", !.consumed = consumed]
    <2>1. PICK all, out \in Nat : /\ all = TotalApproved /\ out = OutstandingBalance
                                  /\ out <= all
      BY <1>1
    <2>2. PICK approved \in Nat : approved = stats.approved /\ approved <= all
      BY <1>2, <2>1
    <2>3. PICK consumed \in Nat :
             /\ consumed = IF approved - out < 0 THEN 0 ELSE approved - out
             /\ consumed <= all - out
      BY <2>1, <2>2
    <2> QED
      BY <2>1, <2>2, <2>3 DEF SumBalances
  <1> QED
    BY <1>2, <1>3 DEF Stats

\* The second query changes no books.
LEMMA SumBalancesBooks ==
    ASSUME BooksInv, SumBalances
    PROVE  MoneyInv'
  <1>1. UNCHANGED <<balance, topup, purchase, published>>
    BY DEF SumBalances
  <1>2. MoneyTypes' /\ SummedBefore'
    BY <1>1, SumBalancesShown DEF BooksInv, MoneyInv, MoneyTypes, SummedBefore
  <1>3. BooksBalance'
    BY <1>1 DEF BooksInv, MoneyInv, BooksBalance, With, ApprovedOf, ApprovedTopups, AmountOf
  <1> QED
    BY <1>1, <1>2, <1>3
    DEF BooksInv, MoneyInv, OwnersOK, FinitelyMany, Existing, Begun, NotYetPublished

-----------------------------------------------------------------------------

\* Nothing is approved, nothing is spent.
LEMMA BooksInit == Init => BooksInv
  <1> SUFFICES ASSUME Init PROVE BooksInv
    OBVIOUS
  <1>1. MoneyTypes /\ OwnersOK /\ NotYetPublished /\ SummedBefore
    BY DEF Init, MoneyTypes, Purchase, Stats, OwnersOK, NotYetPublished, SummedBefore
  <1>2. Existing = {} /\ Begun = {}
    BY DEF Init, Existing, Begun
  <1>3. ASSUME NEW u \in Users
        PROVE  balance[u] + Cost * Cardinality(With(u, Taken)) = ApprovedOf(u)
    <2>1. With(u, Taken) = {} /\ ApprovedTopups(u) = {}
      BY DEF Init, With, Taken, ApprovedTopups
    <2>2. ApprovedOf(u) = 0
      BY <2>1, SumEmpty DEF ApprovedOf
    <2>3. Cost * Cardinality({}) = 0
      BY FS_EmptySet, CostAssumption
    <2> QED
      BY <2>1, <2>2, <2>3 DEF Init
  <1>4. BooksBalance
    BY <1>3 DEF BooksBalance, Taken
  <1> QED
    BY <1>1, <1>2, <1>4, CreditInit, FS_EmptySet DEF BooksInv, MoneyInv, FinitelyMany

\* Every step keeps the books.
LEMMA BooksNext == BooksInv /\ [Next]_vars => BooksInv'
  <1> SUFFICES ASSUME BooksInv, [Next]_vars PROVE BooksInv'
    OBVIOUS
  <1>1. CASE TopupStep
    <2>1. PICK t \in Topups :
             \/ \E u \in Users, amount \in Amounts : CreateTopup(t, u, amount)
             \/ \E a \in Admins : Approve(a, t)
             \/ Reject(t)
      BY <1>1 DEF TopupStep
    <2>2. ASSUME NEW a \in Admins, Approve(a, t) PROVE MoneyInv'
      BY <2>2, ReviewBooks DEF Approve
    <2> QED
      BY <2>1, <2>2, CreditNext, CreateTopupBooks, RejectBooks DEF BooksInv
  <1>2. CASE ReviewStep
    <2>1. PICK a \in Admins : ApproveCredit(a) \/ ApproveCommit(a) \/ ApproveRollback(a)
      BY <1>2 DEF ReviewStep
    <2>2. ASSUME ApproveCredit(a) \/ ApproveRollback(a) PROVE MoneyInv'
      BY <2>2, ReviewBooks DEF ApproveCredit, ApproveRollback
    <2> QED
      BY <2>1, <2>2, CreditNext, ApproveCommitBooks DEF BooksInv
  <1>3. CASE PurchaseStep
    BY <1>3, CreditNext, DeductBalanceBooks, AddBalanceBooks, OtherPurchaseBooks
    DEF PurchaseStep, BooksInv
  <1>4. CASE SumTopups \/ SumBalances
    BY <1>4, CreditNext, SumTopupsBooks, SumBalancesBooks DEF BooksInv
  <1>5. CASE UNCHANGED vars
    BY <1>5, CreditNext, ReviewBooks DEF vars, BooksInv
  <1> QED
    BY <1>1, <1>2, <1>3, <1>4, <1>5 DEF Next

\* The inductive invariant of the books holds in every reachable state.
THEOREM BooksInvariance == Spec => []BooksInv
  BY BooksInit, BooksNext, PTL DEF Spec

-----------------------------------------------------------------------------
(* The purchase in one step *)

Wallet == [u \in Users |-> balance[u] + Cost * Cardinality(With(u, {"charged", "refund"}))]
Status == [t \in Topups |-> topup[t].status]

\* A wallet never holds less than the fees of its open requests.
LEMMA WalletType ==
    ASSUME BooksInv, NEW u \in Users
    PROVE  /\ Wallet[u] \in Nat
           /\ \A p \in With(u, Open) : Wallet[u] >= Cost
  <1>1. PICK fees \in Nat : fees = Cost * Cardinality(With(u, Open))
    BY WithFinite DEF Open
  <1>2. balance[u] \in Nat
    BY DEF BooksInv, MoneyInv, MoneyTypes
  <1>3. Wallet[u] = balance[u] + fees
    BY <1>1 DEF Wallet, Open
  <1>4. ASSUME NEW p \in With(u, Open) PROVE fees >= Cost
    <2>1. PICK W : W = With(u, Open) \ {p}
      OBVIOUS
    <2>2. fees = Cost * Cardinality(W) + Cost /\ IsFiniteSet(W)
      BY <1>1, <2>1, OneLess, WithFinite, FS_RemoveElement DEF Open
    <2>3. Cost * Cardinality(W) \in Nat /\ Cost \in Nat
      BY <2>2, FS_CardinalityType, TimesSucc, CostAssumption
    <2> QED
      BY <1>1, <2>2, <2>3
  <1> QED
    BY <1>1, <1>2, <1>3, <1>4, CostAssumption

\* Each step of a top-up is one of the contract: the request,
LEMMA RequestStep ==
    ASSUME BooksInv, NEW t \in Topups, NEW u \in Users, NEW amount \in Amounts,
           CreateTopup(t, u, amount)
    PROVE  Purchases!Request(t)
  <1>1. Wallet' = Wallet
    BY DEF Wallet, With, CreateTopup
  <1>2. Status[t] = "absent" /\ Status' = [Status EXCEPT ![t] = "pending"]
    BY DEF Status, CreateTopup, BooksInv, CreditInv, CreditTypes
  <1> QED
    BY <1>1, <1>2 DEF Wallet, Status, Purchases!Request, CreateTopup

\* its rejection,
LEMMA RejectedStep ==
    ASSUME BooksInv, NEW t \in Topups, Reject(t)
    PROVE  Purchases!Reject(t)
  <1>1. Wallet' = Wallet
    BY DEF Wallet, With, Reject
  <1>2. Status[t] = "pending" /\ Status' = [Status EXCEPT ![t] = "rejected"]
    BY DEF Status, Reject, BooksInv, CreditInv, CreditTypes, Topup
  <1> QED
    BY <1>1, <1>2 DEF Wallet, Status, Purchases!Reject, Reject

\* and its approval, when the transaction commits.
LEMMA ApprovedStep ==
    ASSUME BooksInv, NEW a \in Admins, ApproveCommit(a)
    PROVE  \E t \in Topups, u \in Users, amount \in Amounts : Purchases!Approve(t, u, amount)
  <1>1. PICK t \in Topups : t = review[a].topup /\ topup[t].status = "pending"
    BY DEF ApproveCommit, BooksInv, CreditInv, Locked
  <1>2. PICK u \in Users, amount \in Amounts : u = topup[t].user /\ amount = topup[t].amount
    BY <1>1 DEF BooksInv, MoneyInv, OwnersOK
  <1>3. balance' = [balance EXCEPT ![u] = balance[u] + amount]
    BY <1>1, <1>2 DEF ApproveCommit
  <1>4. Wallet' = [Wallet EXCEPT ![u] = Wallet[u] + amount]
    <2> DEFINE Fees(v) == Cost * Cardinality(With(v, {"charged", "refund"}))
    <2>1. ASSUME NEW v \in Users PROVE Fees(v)' = Fees(v) /\ Fees(v) \in Nat
      BY WithFinite DEF With, ApproveCommit
    <2>2. \A v \in Users : Wallet[v] = balance[v] + Fees(v) /\ Wallet'[v] = balance'[v] + Fees(v)
      BY <2>1 DEF Wallet
    <2>3. amount \in Nat /\ balance \in [Users -> Nat]
      BY AmountsAssumption DEF BooksInv, MoneyInv, MoneyTypes
    <2> HIDE DEF Fees
    <2>4. \A v \in Users : Wallet'[v] = IF v = u THEN Wallet[u] + amount ELSE Wallet[v]
      BY <1>3, <2>1, <2>2, <2>3
    <2>5. Wallet' = [v \in Users |-> Wallet'[v]] /\ Wallet = [v \in Users |-> Wallet[v]]
      BY DEF Wallet
    <2> QED
      BY <2>4, <2>5
  <1>5. Status[t] = "pending" /\ Status' = [Status EXCEPT ![t] = "approved"]
    BY <1>1 DEF Status, ApproveCommit, BooksInv, CreditInv, CreditTypes, Topup
  <1>6. Purchases!Approve(t, u, amount)
    BY <1>4, <1>5 DEF Wallet, Status, Purchases!Approve, ApproveCommit
  <1> QED
    BY <1>6

\* Taking the fee moves money inside the wallet.
LEMMA DeductedStep ==
    ASSUME BooksInv, NEW p \in Posts, NEW u \in Users, DeductBalance(p, u)
    PROVE  Wallet' = Wallet
  <1>1. ASSUME NEW v \in Users PROVE Wallet'[v] = Wallet[v]
    <2>1. /\ balance' = [balance EXCEPT ![u] = balance[u] - Cost]
          /\ balance \in [Users -> Nat] /\ Cost \in Nat
          /\ purchase' = [purchase EXCEPT ![p] = [pc |-> "charged", user |-> u]]
          /\ purchase \in [Posts -> Purchase]
      BY CostAssumption DEF DeductBalance, BooksInv, MoneyInv, MoneyTypes
    <2>2. p \notin With(v, Open)
      BY DEF DeductBalance, With, Open
    <2>3. PICK fees \in Nat : fees = Cost * Cardinality(With(v, Open))
      BY WithFinite DEF Open
    <2>4. Wallet[v] = balance[v] + fees
      BY <2>3 DEF Wallet, Open
    <2>5. Wallet'[v] = balance'[v] + Cost * Cardinality(With(v, Open)')
      BY DEF Wallet, Open
    <2>6. CASE v = u
      <3>1. With(v, Open)' = With(v, Open) \cup {p}
        BY <2>1, <2>6 DEF With, Open
      <3>2. Cost * Cardinality(With(v, Open)') = fees + Cost
        BY <2>2, <2>3, <3>1, OneMore, WithFinite DEF Open
      <3> QED
        BY <2>1, <2>3, <2>4, <2>5, <2>6, <3>2
    <2>7. CASE v # u
      <3>1. With(v, Open)' = With(v, Open)
        BY <2>1, <2>2, <2>7 DEF With
      <3> QED
        BY <2>1, <2>3, <2>4, <2>5, <2>7, <3>1
    <2> QED
      BY <2>6, <2>7
  <1> QED
    BY <1>1 DEF Wallet

\* Paying it back does so, too.
LEMMA PaidBackStep ==
    ASSUME BooksInv, NEW p \in Posts, AddBalance(p)
    PROVE  Wallet' = Wallet
  <1>1. ASSUME NEW v \in Users PROVE Wallet'[v] = Wallet[v]
    <2>1. PICK u \in Users : u = purchase[p].user
      BY DEF AddBalance, BooksInv, MoneyInv, OwnersOK
    <2>2. /\ balance' = [balance EXCEPT ![u] = balance[u] + Cost]
          /\ balance \in [Users -> Nat] /\ Cost \in Nat
          /\ purchase' = [purchase EXCEPT ![p].pc = "refunded"]
          /\ purchase \in [Posts -> Purchase]
      BY <2>1, CostAssumption DEF AddBalance, Step, BooksInv, MoneyInv, MoneyTypes
    <2>3. With(v, Open)' = With(v, Open) \ {p}
      BY <2>2 DEF With, Open, Purchase
    <2>4. p \in With(v, Open) <=> v = u
      BY <2>1 DEF With, Open, AddBalance
    <2>5. PICK fees \in Nat : fees = Cost * Cardinality(With(v, Open))
      BY WithFinite DEF Open
    <2>6. PICK W : W = With(v, Open) \ {p}
      OBVIOUS
    <2>7. Wallet[v] = balance[v] + fees /\ Wallet'[v] = balance'[v] + Cost * Cardinality(W)
      BY <2>3, <2>5, <2>6 DEF Wallet, Open
    <2>8. CASE v = u
      <3>1. fees = Cost * Cardinality(W) + Cost /\ IsFiniteSet(W)
        BY <2>4, <2>5, <2>6, <2>8, OneLess, WithFinite, FS_RemoveElement DEF Open
      <3>2. Cost * Cardinality(W) \in Nat
        BY <3>1, FS_CardinalityType, TimesSucc
      <3> QED
        BY <2>2, <2>5, <2>7, <2>8, <3>1, <3>2
    <2>9. CASE v # u
      <3>1. W = With(v, Open)
        BY <2>4, <2>6, <2>9, WithSets
      <3> QED
        BY <2>2, <2>5, <2>7, <2>9, <3>1
    <2> QED
      BY <2>8, <2>9
  <1> QED
    BY <1>1 DEF Wallet

\* The end of a request takes its fee out of the wallet.
LEMMA SpentStep ==
    ASSUME BooksInv, UNCHANGED balance, NEW p \in Posts, purchase[p].pc \in Open,
           NEW pc \in {"done", "cut"}, Step(p, pc)
    PROVE  \E u \in Users : Wallet[u] >= Cost /\ Wallet' = [Wallet EXCEPT ![u] = Wallet[u] - Cost]
  <1>1. PICK u \in Users : u = purchase[p].user
    BY DEF BooksInv, MoneyInv, OwnersOK, Open
  <1>2. p \in With(u, Open)
    BY <1>1 DEF With
  <1>3. Wallet[u] >= Cost
    BY <1>2, WalletType
  <1>4. ASSUME NEW v \in Users
        PROVE  Wallet'[v] = IF v = u THEN Wallet[u] - Cost ELSE Wallet[v]
    <2>1. /\ balance \in [Users -> Nat] /\ Cost \in Nat
          /\ purchase' = [purchase EXCEPT ![p].pc = pc]
          /\ purchase \in [Posts -> Purchase]
      BY CostAssumption DEF Step, BooksInv, MoneyInv, MoneyTypes
    <2>3. With(v, Open)' = With(v, Open) \ {p}
      BY <2>1 DEF With, Open, Purchase
    <2>4. p \in With(v, Open) <=> v = u
      BY <1>1 DEF With
    <2>5. PICK fees \in Nat : fees = Cost * Cardinality(With(v, Open))
      BY WithFinite DEF Open
    <2>6. PICK W : W = With(v, Open) \ {p}
      OBVIOUS
    <2>7. Wallet[v] = balance[v] + fees /\ Wallet'[v] = balance[v] + Cost * Cardinality(W)
      BY <2>3, <2>5, <2>6 DEF Wallet, Open
    <2>8. CASE v = u
      <3>1. fees = Cost * Cardinality(W) + Cost /\ IsFiniteSet(W)
        BY <2>4, <2>5, <2>6, <2>8, OneLess, WithFinite, FS_RemoveElement DEF Open
      <3>2. Cost * Cardinality(W) \in Nat
        BY <3>1, FS_CardinalityType, TimesSucc
      <3> QED
        BY <2>1, <2>5, <2>7, <2>8, <3>1, <3>2
    <2>9. CASE v # u
      <3>1. W = With(v, Open)
        BY <2>4, <2>6, <2>9, WithSets
      <3> QED
        BY <2>1, <2>5, <2>7, <2>9, <3>1
    <2> QED
      BY <2>8, <2>9
  <1>5. Wallet' = [v \in Users |-> Wallet'[v]] /\ Wallet = [v \in Users |-> Wallet[v]]
    BY DEF Wallet
  <1>6. Wallet' = [Wallet EXCEPT ![u] = Wallet[u] - Cost]
    BY <1>4, <1>5
  <1> QED
    BY <1>3, <1>6

\* A request that only goes on to its refund leaves the wallet alone.
LEMMA RefundStep ==
    ASSUME BooksInv, UNCHANGED balance, NEW p \in Posts, purchase[p].pc = "charged",
           Step(p, "refund")
    PROVE  Wallet' = Wallet
  <1>1. \A v : With(v, Open)' = With(v, Open)
    BY DEF With, Open, Step, Purchase, BooksInv, MoneyInv, MoneyTypes
  <1> QED
    BY <1>1 DEF Wallet, Open

\* The answered INSERT is the purchase.
LEMMA PublishStep ==
    ASSUME BooksInv, NEW p \in Posts, CreatePost(p)
    PROVE  \E u \in Users : Purchases!Publish(p, u)
  <1>1. purchase[p].pc \in Open /\ p \notin published
    BY DEF CreatePost, Open, BooksInv, MoneyInv, NotYetPublished
  <1>2. UNCHANGED balance /\ Step(p, "done")
    BY DEF CreatePost
  <1>3. PICK u \in Users : Wallet[u] >= Cost /\ Wallet' = [Wallet EXCEPT ![u] = Wallet[u] - Cost]
    BY <1>1, <1>2, SpentStep
  <1>4. Purchases!Publish(p, u)
    BY <1>1, <1>3 DEF Wallet, Purchases!Publish, CreatePost
  <1> QED
    BY <1>4

\* An INSERT without an answer publishes while the fee stays in the wallet.
LEMMA GiveAwayStep ==
    ASSUME BooksInv, NEW p \in Posts, CreatePostUnanswered(p)
    PROVE  \E u \in Users : Purchases!GiveAway(p, u)
  <1>1. purchase[p].pc = "charged" /\ p \notin published
    BY DEF CreatePostUnanswered, BooksInv, MoneyInv, NotYetPublished
  <1>2. Wallet' = Wallet
    BY <1>1, RefundStep DEF CreatePostUnanswered
  <1>3. PICK u \in Users : u = purchase[p].user
    BY <1>1 DEF BooksInv, MoneyInv, OwnersOK
  <1>4. Wallet[u] >= Cost
    <2>1. p \in With(u, Open)
      BY <1>1, <1>3 DEF With, Open
    <2> QED
      BY <2>1, WalletType
  <1>5. Purchases!GiveAway(p, u)
    BY <1>1, <1>2, <1>4 DEF Wallet, Purchases!GiveAway, CreatePostUnanswered
  <1> QED
    BY <1>5

\* A request that is cut loses its fee.
LEMMA LoseStep ==
    ASSUME BooksInv, NEW p \in Posts, PurchaseCut(p)
    PROVE  \E u \in Users : Purchases!Lose(u)
  <1>1. purchase[p].pc \in Open /\ UNCHANGED balance /\ Step(p, "cut")
    BY DEF PurchaseCut, Open
  <1>2. PICK u \in Users : Wallet[u] >= Cost /\ Wallet' = [Wallet EXCEPT ![u] = Wallet[u] - Cost]
    BY <1>1, SpentStep
  <1>3. Purchases!Lose(u)
    BY <1>2 DEF Wallet, Purchases!Lose, PurchaseCut
  <1> QED
    BY <1>3

\* All wallets are empty at first.
LEMMA PurchaseInit == Init => Purchases!Init
  <1> SUFFICES ASSUME Init PROVE Purchases!Init
    OBVIOUS
  <1>1. ASSUME NEW u \in Users PROVE Wallet[u] = 0
    <2>1. With(u, {"charged", "refund"}) = {}
      BY DEF Init, With
    <2>2. Cost * Cardinality({}) = 0
      BY FS_EmptySet, CostAssumption
    <2> QED
      BY <2>1, <2>2 DEF Init, Wallet
  <1>2. Wallet = [u \in Users |-> 0] /\ Status = [t \in Topups |-> "absent"]
    BY <1>1 DEF Init, Wallet, Status
  <1> QED
    BY <1>2 DEF Init, Wallet, Status, Purchases!Init

Moved == Purchases!Next \/ UNCHANGED <<Wallet, Status, published>>

\* What the contract sees of the steps of top-ups,
LEMMA TopupMoved == BooksInv /\ TopupStep => Moved
  <1> SUFFICES ASSUME BooksInv, TopupStep PROVE Moved
    OBVIOUS
  <1>1. PICK t \in Topups :
           \/ \E u \in Users, amount \in Amounts : CreateTopup(t, u, amount)
           \/ \E a \in Admins : Approve(a, t)
           \/ Reject(t)
    BY DEF TopupStep
  <1>2. CASE \E u \in Users, amount \in Amounts : CreateTopup(t, u, amount)
    BY <1>2, RequestStep DEF Moved, Purchases!Next
  <1>3. CASE \E a \in Admins : Approve(a, t)
    BY <1>3 DEF Approve, Moved, Wallet, Status, With
  <1>4. CASE Reject(t)
    BY <1>4, RejectedStep DEF Moved, Purchases!Next
  <1> QED
    BY <1>1, <1>2, <1>3, <1>4

\* of reviews,
LEMMA ReviewMoved == BooksInv /\ ReviewStep => Moved
  <1> SUFFICES ASSUME BooksInv, ReviewStep PROVE Moved
    OBVIOUS
  <1>1. PICK a \in Admins : ApproveCredit(a) \/ ApproveCommit(a) \/ ApproveRollback(a)
    BY DEF ReviewStep
  <1>2. CASE ApproveCommit(a)
    BY <1>2, ApprovedStep DEF Moved, Purchases!Next
  <1>3. CASE ApproveCredit(a) \/ ApproveRollback(a)
    BY <1>3 DEF ApproveCredit, ApproveRollback, Moved, Wallet, Status, With
  <1> QED
    BY <1>1, <1>2, <1>3

\* of purchases,
LEMMA PurchaseMoved == BooksInv /\ PurchaseStep => Moved
  <1> SUFFICES ASSUME BooksInv, PurchaseStep PROVE Moved
    OBVIOUS
  <1>1. PICK p \in Posts :
           \/ \E u \in Users : DeductBalance(p, u)
           \/ CreatePost(p) \/ CreatePostFails(p) \/ CreatePostUnanswered(p)
           \/ AddBalance(p) \/ PurchaseCut(p)
    BY DEF PurchaseStep
  <1>2. CASE \E u \in Users : DeductBalance(p, u)
    BY <1>2, DeductedStep DEF DeductBalance, Moved, Status
  <1>3. CASE CreatePost(p)
    BY <1>3, PublishStep DEF Moved, Purchases!Next
  <1>4. CASE CreatePostFails(p)
    BY <1>4, RefundStep DEF CreatePostFails, Moved, Status
  <1>5. CASE CreatePostUnanswered(p)
    BY <1>5, GiveAwayStep DEF Moved, Purchases!Next
  <1>6. CASE AddBalance(p)
    BY <1>6, PaidBackStep DEF AddBalance, Moved, Status
  <1>7. CASE PurchaseCut(p)
    BY <1>7, LoseStep DEF Moved, Purchases!Next
  <1> QED
    BY <1>1, <1>2, <1>3, <1>4, <1>5, <1>6, <1>7

\* and of every step.
LEMMA EveryStepMoved == BooksInv /\ [Next]_vars => Moved
  <1> SUFFICES ASSUME BooksInv, [Next]_vars PROVE Moved
    OBVIOUS
  <1>1. CASE SumTopups \/ SumBalances \/ UNCHANGED vars
    BY <1>1 DEF SumTopups, SumBalances, vars, Moved, Wallet, Status, With
  <1> QED
    BY <1>1, TopupMoved, ReviewMoved, PurchaseMoved DEF Next

-----------------------------------------------------------------------------

\* The balance never falls below zero, whatever fees, refunds and approvals
\* meet, and every row has the form the schema wants.
THEOREM TypeCorrect == Spec => []TypeOK
  <1>1. BooksInv => TypeOK
    BY DEF BooksInv, CreditInv, CreditTypes, MoneyInv, MoneyTypes, TypeOK
  <1> QED
    BY <1>1, BooksInvariance, PTL

\* For any number of users, top-ups and posts, and any amounts: what was
\* approved for a user is the balance and one fee for every request that took
\* it and did not pay it back.
THEOREM BooksAlwaysBalance == Spec => []BooksBalance
  <1>1. BooksInv => BooksBalance
    BY DEF BooksInv, MoneyInv
  <1> QED
    BY <1>1, BooksInvariance, PTL

\* The revenue page never shows more consumed revenue than there is when it
\* reads the balances, however much happens between its two queries.
THEOREM RevenueNeverOverstated == Spec => RevenueNotOverstated
  <1>1. BooksInv /\ [Next]_vars =>
            [stats.pc = "summed" /\ stats'.pc = "shown" =>
                stats'.consumed <= TotalApproved - OutstandingBalance]_vars
    <2> SUFFICES ASSUME BooksInv, [Next]_vars, stats.pc = "summed", stats'.pc = "shown"
                 PROVE  stats'.consumed <= TotalApproved - OutstandingBalance
      OBVIOUS
    <2>1. stats' # stats
      OBVIOUS
    <2>2. SumTopups \/ SumBalances
      BY <2>1 DEF Next, vars, TopupStep, ReviewStep, PurchaseStep, CreateTopup, Approve,
         Reject, ApproveCredit, ApproveCommit, ApproveRollback, DeductBalance, CreatePost,
         CreatePostFails, CreatePostUnanswered, AddBalance, PurchaseCut
    <2>3. SumBalances
      BY <2>2 DEF SumTopups
    <2> QED
      BY <2>3, SumBalancesShown
  <1> QED
    BY <1>1, BooksInvariance, PTL DEF Spec, RevenueNotOverstated

\* Publishing with its separate deduction, INSERT and refund implements the
\* purchase in one step; each of its steps is one of PayPerPost or a stutter.
THEOREM PurchaseInOneStep == Spec => ImplementsPayPerPost
  <1>1. BooksInv /\ [Next]_vars =>
            [Purchases!Next]_<<Wallet, Status, published>>
    BY EveryStepMoved DEF Moved
  <1> QED
    BY <1>1, PurchaseInit, BooksInvariance, PTL
    DEF Spec, ImplementsPayPerPost, Purchases!ASpec, Wallet, Status
=============================================================================
