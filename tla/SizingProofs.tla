---------------------------- MODULE SizingProofs ----------------------------
(***************************************************************************)
(* Theorems of Sizing, for any Pods, any hosts and any node and claim.     *)
(*                                                                         *)
(* The sums over Pods are folds.  What they compute is proved by the least *)
(* counterexample: the subsets of a finite set are well founded, so a set  *)
(* of sets for which a fact fails has a least member.                      *)
(***************************************************************************)
EXTENDS Sizing, FiniteSetTheorems, TLAPS

\* What the Pods of S request of r, and the function the fold is defined by.
SumOf(r, S) == MapThenSumSet(LAMBDA p : At(p.requests, r), S)
Pick(s) == CHOOSE x \in s : TRUE
IsSum(r, S, f) ==
    f = [s \in SUBSET S |-> IF s = {} THEN 0
           ELSE At(Pick(s).requests, r) + f[s \ {Pick(s)}]]

LEMMA SumIs ==
  ASSUME NEW r, NEW S PROVE SumOf(r, S) = (CHOOSE f : IsSum(r, S, f))[S]
  BY DEF SumOf, MapThenSumSet, MapThenFoldSet, IsSum, Pick

LEMMA TotalIs ==
  ASSUME NEW ps
  PROVE  Total(ps) = [r \in UNION {DOMAIN p.requests : p \in ps} |-> SumOf(r, ps)]
  BY DEF SumOf, Total

\* Sets of Pods are well founded.
LEMMA LeastSet ==
  ASSUME NEW B, B \subseteq SUBSET Pods, B # {}
  PROVE  \E T \in B : \A s \in B : ~(s \subseteq T /\ s # T)
  <1>1. IsWellFoundedOn(StrictSubsetOrdering(Pods), FiniteSubsetsOf(Pods))
    BY FS_StrictSubsetOrderingWellFounded
  <1>2. B \subseteq FiniteSubsetsOf(Pods)
    BY SizingAssumption, FS_Subset DEF FiniteSubsetsOf
  <1>3. \E T \in B : \A s \in B : <<s, T>> \notin StrictSubsetOrdering(Pods)
    BY <1>1, <1>2, WFMin
  <1> QED  BY <1>3 DEF StrictSubsetOrdering

LEMMA PickIn == ASSUME NEW s, s # {} PROVE Pick(s) \in s
  BY DEF Pick

LEMMA PodWeight == ASSUME NEW p \in Pods, NEW r PROVE At(p.requests, r) \in Nat
  BY SizingAssumption DEF At, IsList

-----------------------------------------------------------------------------
(***************************************************************************)
(* Sums.                                                                   *)
(***************************************************************************)

\* Two functions that sum agree wherever both are defined.
LEMMA SumUnique ==
  ASSUME NEW r, NEW S \in SUBSET Pods, NEW T \in SUBSET Pods, NEW f, NEW g,
         IsSum(r, S, f), IsSum(r, T, g), NEW s0 \in SUBSET (S \cap T)
  PROVE  f[s0] = g[s0]
  <1> DEFINE B == {s \in SUBSET (S \cap T) : f[s] # g[s]}
  <1> SUFFICES ASSUME B # {} PROVE FALSE
    OBVIOUS
  <1>1. PICK s \in B : \A t \in B : ~(t \subseteq s /\ t # s)
    <2>1. B \subseteq SUBSET Pods
      OBVIOUS
    <2> HIDE DEF B
    <2> QED  BY <2>1, LeastSet
  <1>2. /\ f[s] = IF s = {} THEN 0 ELSE At(Pick(s).requests, r) + f[s \ {Pick(s)}]
        /\ g[s] = IF s = {} THEN 0 ELSE At(Pick(s).requests, r) + g[s \ {Pick(s)}]
    BY DEF IsSum
  <1>3. s # {} => f[s \ {Pick(s)}] = g[s \ {Pick(s)}]
    BY <1>1, PickIn
  <1> QED  BY <1>2, <1>3

\* There is a function that sums.
LEMMA SumExists ==
  ASSUME NEW r, NEW S \in SUBSET Pods PROVE \E f : IsSum(r, S, f)
  <1> DEFINE B == {T \in SUBSET Pods : ~\E f : IsSum(r, T, f)}
  <1> SUFFICES ASSUME B # {} PROVE FALSE
    OBVIOUS
  <1>1. PICK T \in B : \A t \in B : ~(t \subseteq T /\ t # T)
    <2>1. B \subseteq SUBSET Pods
      OBVIOUS
    <2> HIDE DEF B
    <2> QED  BY <2>1, LeastSet
  <1> DEFINE F(t) == CHOOSE f : IsSum(r, t, f)
             f == [s \in SUBSET T |-> IF s = {} THEN 0
                     ELSE At(Pick(s).requests, r) + F(s \ {Pick(s)})[s \ {Pick(s)}]]
  <1>2. \A t \in SUBSET T : t # T => IsSum(r, t, F(t))
    BY <1>1
  <1> HIDE DEF F
  <1>3. ASSUME NEW t \in SUBSET T, t # T PROVE f[t] = F(t)[t]
    <2>1. F(t)[t] = IF t = {} THEN 0
                    ELSE At(Pick(t).requests, r) + F(t)[t \ {Pick(t)}]
      BY <1>2, <1>3 DEF IsSum
    <2>2. CASE t # {}
      <3>1. t \ {Pick(t)} \subseteq T /\ t \ {Pick(t)} # T
        BY <1>3, <2>2, PickIn
      <3>2. F(t)[t \ {Pick(t)}] = F(t \ {Pick(t)})[t \ {Pick(t)}]
        BY <1>2, <1>3, <3>1, SumUnique
      <3> QED  BY <2>1, <2>2, <3>2
    <2> QED  BY <2>1, <2>2
  <1>4. ASSUME NEW s \in SUBSET T, s # {}
        PROVE  F(s \ {Pick(s)})[s \ {Pick(s)}] = f[s \ {Pick(s)}]
    <2>1. s \ {Pick(s)} \subseteq T /\ s \ {Pick(s)} # T
      BY <1>4, PickIn
    <2> HIDE DEF f
    <2> QED  BY <1>3, <2>1
  <1>5. f = [s \in SUBSET T |-> IF s = {} THEN 0
               ELSE At(Pick(s).requests, r) + f[s \ {Pick(s)}]]
    BY <1>4
  <1>6. IsSum(r, T, f)
    BY <1>5 DEF IsSum
  <1> QED  BY <1>6

LEMMA SumStep ==
  ASSUME NEW r, NEW S \in SUBSET Pods
  PROVE  SumOf(r, S) = IF S = {} THEN 0
                       ELSE At(Pick(S).requests, r) + SumOf(r, S \ {Pick(S)})
  <1> DEFINE F(t) == CHOOSE f : IsSum(r, t, f)
             R == S \ {Pick(S)}
  <1>1. IsSum(r, S, F(S)) /\ IsSum(r, R, F(R))
    BY SumExists
  <1>2. SumOf(r, S) = F(S)[S] /\ SumOf(r, R) = F(R)[R]
    BY SumIs
  <1> HIDE DEF F
  <1>3. F(S)[S] = IF S = {} THEN 0 ELSE At(Pick(S).requests, r) + F(S)[R]
    BY <1>1 DEF IsSum
  <1>4. F(S)[R] = F(R)[R]
    BY <1>1, SumUnique
  <1> QED  BY <1>2, <1>3, <1>4

LEMMA SumNat ==
  ASSUME NEW r, NEW S \in SUBSET Pods PROVE SumOf(r, S) \in Nat
  <1> DEFINE B == {T \in SUBSET Pods : SumOf(r, T) \notin Nat}
  <1> SUFFICES ASSUME B # {} PROVE FALSE
    OBVIOUS
  <1>1. PICK T \in B : \A t \in B : ~(t \subseteq T /\ t # T)
    <2>1. B \subseteq SUBSET Pods
      OBVIOUS
    <2> HIDE DEF B
    <2> QED  BY <2>1, LeastSet
  <1>2. T # {} => /\ Pick(T) \in Pods /\ Pick(T) \in T
                  /\ SumOf(r, T \ {Pick(T)}) \in Nat
    BY <1>1, PickIn
  <1>3. T # {} => At(Pick(T).requests, r) \in Nat
    BY <1>2, PodWeight
  <1> QED  BY <1>2, <1>3, SumStep

\* Whichever Pod is taken out, the sum loses what it requests.
LEMMA SumRemove ==
  ASSUME NEW r, NEW S \in SUBSET Pods, NEW x \in S
  PROVE  SumOf(r, S) = At(x.requests, r) + SumOf(r, S \ {x})
  <1> DEFINE B == {T \in SUBSET Pods : \E y \in T :
                     SumOf(r, T) # At(y.requests, r) + SumOf(r, T \ {y})}
  <1> SUFFICES ASSUME B # {} PROVE FALSE
    OBVIOUS
  <1>1. PICK T \in B : \A t \in B : ~(t \subseteq T /\ t # T)
    <2>1. B \subseteq SUBSET Pods
      OBVIOUS
    <2> HIDE DEF B
    <2> QED  BY <2>1, LeastSet
  <1>2. PICK y \in T : SumOf(r, T) # At(y.requests, r) + SumOf(r, T \ {y})
    OBVIOUS
  <1> DEFINE p == Pick(T)
  <1>3. p \in T /\ SumOf(r, T) = At(p.requests, r) + SumOf(r, T \ {p})
    BY SumStep, PickIn
  <1>4. p # y
    BY <1>2, <1>3
  <1>5. ASSUME NEW u \in T, NEW v \in T, u # v
        PROVE  SumOf(r, T \ {u}) = At(v.requests, r) + SumOf(r, (T \ {u}) \ {v})
    <2> DEFINE R == T \ {u}
    <2>1. R \in SUBSET Pods /\ R \subseteq T /\ R # T /\ v \in R
      BY <1>5
    <2> HIDE DEF R
    <2>2. R \notin B
      BY <1>1, <2>1
    <2>3. SumOf(r, R) = At(v.requests, r) + SumOf(r, R \ {v})
      BY <2>1, <2>2
    <2> QED  BY <2>3 DEF R
  <1>6. /\ SumOf(r, T \ {p}) = At(y.requests, r) + SumOf(r, (T \ {p}) \ {y})
        /\ SumOf(r, T \ {y}) = At(p.requests, r) + SumOf(r, (T \ {y}) \ {p})
    <2>1. p \in T /\ y \in T
      BY <1>3
    <2> HIDE DEF p, B
    <2> QED  BY <1>4, <1>5, <2>1
  <1>7. (T \ {p}) \ {y} = (T \ {y}) \ {p}
    OBVIOUS
  <1>8. /\ At(p.requests, r) \in Nat /\ At(y.requests, r) \in Nat
        /\ SumOf(r, (T \ {y}) \ {p}) \in Nat
    BY <1>3, PodWeight, SumNat
  <1> HIDE DEF p, B
  <1> QED  BY <1>2, <1>3, <1>6, <1>7, <1>8

\* Sums of disjoint sets add up.
LEMMA SumUnion ==
  ASSUME NEW r, NEW S \in SUBSET Pods, NEW R \in SUBSET Pods, S \cap R = {}
  PROVE  SumOf(r, S \cup R) = SumOf(r, S) + SumOf(r, R)
  <1> DEFINE B == {T \in SUBSET Pods : T \cap R = {} /\
                     SumOf(r, T \cup R) # SumOf(r, T) + SumOf(r, R)}
  <1> SUFFICES ASSUME B # {} PROVE FALSE
    OBVIOUS
  <1>1. PICK T \in B : \A t \in B : ~(t \subseteq T /\ t # T)
    <2>1. B \subseteq SUBSET Pods
      OBVIOUS
    <2> HIDE DEF B
    <2> QED  BY <2>1, LeastSet
  <1>2. CASE T = {}
    <2>1. SumOf(r, {}) = 0 /\ SumOf(r, R) \in Nat
      BY SumStep, SumNat
    <2>2. {} \cup R = R
      OBVIOUS
    <2> QED  BY <1>2, <2>1, <2>2
  <1>3. CASE T # {}
    <2>1. PICK x \in T : TRUE
      BY <1>3
    <2>2. SumOf(r, T) = At(x.requests, r) + SumOf(r, T \ {x})
      BY SumRemove
    <2>3. SumOf(r, T \cup R) = At(x.requests, r) + SumOf(r, (T \cup R) \ {x})
      BY SumRemove
    <2>4. (T \cup R) \ {x} = (T \ {x}) \cup R
      OBVIOUS
    <2>5. SumOf(r, (T \cup R) \ {x}) = SumOf(r, T \ {x}) + SumOf(r, R)
      <3>1. SumOf(r, (T \ {x}) \cup R) = SumOf(r, T \ {x}) + SumOf(r, R)
        BY <1>1
      <3> QED  BY <2>4, <3>1
    <2>6. /\ At(x.requests, r) \in Nat /\ SumOf(r, T \ {x}) \in Nat /\ SumOf(r, R) \in Nat
      BY PodWeight, SumNat
    <2>7. SumOf(r, T \cup R) # SumOf(r, T) + SumOf(r, R)
      OBVIOUS
    <2> DEFINE a == SumOf(r, T)
               b == SumOf(r, T \cup R)
               c == SumOf(r, T \ {x})
               d == SumOf(r, R)
               e == SumOf(r, (T \cup R) \ {x})
               w == At(x.requests, r)
    <2>8. a = w + c /\ b = w + e /\ e = c + d /\ w \in Nat /\ c \in Nat /\ d \in Nat
      BY <2>2, <2>3, <2>5, <2>6
    <2> HIDE DEF B, a, b, c, d, e, w
    <2>9. b = a + d
      BY <2>8
    <2> QED  BY <2>7, <2>9 DEF a, b, d
  <1> QED  BY <1>2, <1>3

LEMMA SumGrows ==
  ASSUME NEW r, NEW S \in SUBSET Pods, NEW T \in SUBSET Pods, S \subseteq T
  PROVE  SumOf(r, S) <= SumOf(r, T)
  <1>1. S \cup (T \ S) = T /\ S \cap (T \ S) = {} /\ T \ S \in SUBSET Pods
    OBVIOUS
  <1>2. SumOf(r, T) = SumOf(r, S) + SumOf(r, T \ S)
    BY <1>1, SumUnion
  <1> QED  BY <1>1, <1>2, SumNat

LEMMA SumZero ==
  ASSUME NEW r, NEW S \in SUBSET Pods, \A p \in S : r \notin DOMAIN p.requests
  PROVE  SumOf(r, S) = 0
  <1> DEFINE B == {T \in SUBSET S : SumOf(r, T) # 0}
  <1> SUFFICES ASSUME B # {} PROVE FALSE
    OBVIOUS
  <1>1. PICK T \in B : \A t \in B : ~(t \subseteq T /\ t # T)
    <2>1. B \subseteq SUBSET Pods
      OBVIOUS
    <2> HIDE DEF B
    <2> QED  BY <2>1, LeastSet
  <1>2. T # {} => SumOf(r, T \ {Pick(T)}) = 0 /\ At(Pick(T).requests, r) = 0
    BY <1>1, PickIn DEF At
  <1> QED  BY <1>2, SumStep

\* The total's quantity of a resource is the sum, whether the total reports it or not.
LEMMA AtTotal ==
  ASSUME NEW r, NEW S \in SUBSET Pods
  PROVE  At(Total(S), r) = SumOf(r, S) /\ At(Total(S), r) \in Nat
  <1>1. At(Total(S), r) = SumOf(r, S)
    <2>1. CASE \E p \in S : r \in DOMAIN p.requests
      BY <2>1, TotalIs DEF At
    <2>2. CASE \A p \in S : r \notin DOMAIN p.requests
      BY <2>2, TotalIs, SumZero DEF At
    <2> QED  BY <2>1, <2>2
  <1> QED  BY <1>1, SumNat

-----------------------------------------------------------------------------
(***************************************************************************)
(* wholenode.go and clamp.go, on any resource lists.                       *)
(***************************************************************************)

LEMMA AtList == ASSUME NEW l, IsList(l), NEW r PROVE At(l, r) \in Nat
  BY DEF At, IsList

\* What a sizing asks for and gives up, where it is not refused.
LEMMA Clamped ==
  ASSUME NEW requests, NEW alloc, NEW ds, NEW r
  PROVE  LET z == Clamp(requests, alloc, ds)
             limit == provisionableLimit(alloc, ds, r)
             cut == /\ r \in DOMAIN requests \cap DOMAIN alloc
                    /\ limit > 0 /\ requests[r] > limit
         IN  /\ DOMAIN z.Requests = DOMAIN requests
             /\ r \in DOMAIN requests =>
                  \/ z.Requests[r] = requests[r]
                  \/ cut /\ z.Requests[r] = limit
             /\ ~z.Refused /\ r \in DOMAIN requests \cap DOMAIN alloc =>
                  /\ ~(limit <= 0 /\ requests[r] > 0)
                  /\ z.Requests[r] = IF cut THEN limit ELSE requests[r]
             /\ r \in DOMAIN z.Shortfall => cut /\ z.Shortfall[r] = requests[r] - limit
  <1> DEFINE limit(x) == provisionableLimit(alloc, ds, x)
             known == DOMAIN requests \cap DOMAIN alloc
             cut == {x \in known : limit(x) > 0 /\ requests[x] > limit(x)}
             refused == \E x \in known : limit(x) <= 0 /\ requests[x] > 0
             z == Clamp(requests, alloc, ds)
  <1>1. CASE refused
    <2>1. z = [Requests |-> requests, Limit |-> Empty, Shortfall |-> Empty, Refused |-> TRUE]
      BY <1>1 DEF Clamp, Unclamped
    <2> QED  BY <2>1 DEF Empty
  <1>2. CASE ~refused
    <2>1. z = [Requests  |-> [x \in DOMAIN requests |->
                                IF x \in cut THEN limit(x) ELSE requests[x]],
               Limit     |-> [x \in cut |-> limit(x)],
               Shortfall |-> [x \in cut |-> requests[x] - limit(x)],
               Refused   |-> FALSE]
      BY <1>2 DEF Clamp
    <2> QED  BY <1>2, <2>1
  <1> QED  BY <1>1, <1>2

\* What whole-node reservation leaves of a drain.
LEMMA Raised ==
  ASSUME NEW requests, IsList(requests), NEW alloc, IsList(alloc), NEW ds, IsList(ds),
         NEW pods, NEW r
  PROVE  LET out == WholeNode(requests, alloc, ds, pods)
             limit == provisionableLimit(alloc, ds, r)
         IN  /\ DOMAIN requests \subseteq DOMAIN out /\ At(out, r) \in Nat
             /\ r \in DOMAIN out => out[r] \in Nat
             /\ \/ At(out, r) = At(requests, r)
                \/ r \in DOMAIN alloc /\ limit > 0 /\ At(out, r) = limit
                \/ r \in DOMAIN alloc /\ ~(limit > 0) /\ At(out, r) > 0
                   /\ At(requests, r) = 0
             /\ pods # 0 /\ r \in binPackingResources /\ At(alloc, r) > 0 =>
                  At(out, r) > 0
  <1> DEFINE out == WholeNode(requests, alloc, ds, pods)
             limit == provisionableLimit(alloc, ds, r)
             v == raised(requests, alloc, ds, r)
             D == DOMAIN requests \cup
                    {s \in binPackingResources \cap DOMAIN alloc :
                       raised(requests, alloc, ds, s) > 0}
  <1>1. /\ At(requests, r) \in Nat /\ At(alloc, r) \in Nat /\ At(ds, r) \in Nat
        /\ r \in DOMAIN requests => requests[r] = At(requests, r)
        /\ r \notin DOMAIN requests => At(requests, r) = 0
        /\ r \in DOMAIN alloc => alloc[r] = At(alloc, r)
        /\ r \notin DOMAIN alloc => At(alloc, r) = 0
    BY AtList DEF At
  <1>2. CASE pods = 0 \/ DOMAIN alloc = {}
    <2>1. out = requests
      BY <1>2 DEF WholeNode
    <2> QED  BY <1>1, <1>2, <2>1
  <1>3. CASE ~(pods = 0 \/ DOMAIN alloc = {})
    <2>1. out = [x \in D |-> raised(requests, alloc, ds, x)]
      BY <1>3 DEF WholeNode
    <2>2. /\ DOMAIN out = D
          /\ At(out, r) = IF r \in D THEN v ELSE 0
          /\ r \in D => out[r] = v
      BY <2>1 DEF At
    <2>3. /\ r \in DOMAIN alloc => limit = At(alloc, r) - At(ds, r)
      BY <1>1 DEF provisionableLimit
    <2>4. v = IF r \notin DOMAIN alloc THEN At(requests, r)
              ELSE IF limit > 0
                   THEN IF r \in DOMAIN requests /\ At(requests, r) >= limit
                        THEN At(requests, r) ELSE limit
              ELSE IF r \in binPackingResources /\ At(requests, r) <= 0 /\ alloc[r] > 0
                   THEN alloc[r]
              ELSE At(requests, r)
      BY DEF raised
    <2>5. /\ r \in DOMAIN requests => r \in D
          /\ r \in binPackingResources /\ r \in DOMAIN alloc /\ v > 0 => r \in D
          /\ r \in D => r \in DOMAIN requests
                        \/ (r \in binPackingResources /\ r \in DOMAIN alloc)
      OBVIOUS
    <2> HIDE DEF out, limit, v, D
    <2>6. v \in Nat
      BY <1>1, <2>3, <2>4
    <2>7. At(out, r) \in Nat /\ (r \in DOMAIN out => out[r] \in Nat)
      BY <2>2, <2>6
    <2>8. CASE r \in D
      <3>1. \/ At(out, r) = At(requests, r)
            \/ r \in DOMAIN alloc /\ limit > 0 /\ At(out, r) = limit
            \/ r \in DOMAIN alloc /\ ~(limit > 0) /\ At(out, r) > 0
               /\ At(requests, r) = 0
        BY <1>1, <2>2, <2>4, <2>8
      <3>2. r \in binPackingResources /\ At(alloc, r) > 0 => At(out, r) > 0
        BY <1>1, <2>2, <2>3, <2>4, <2>8
      <3> QED  BY <2>7, <3>1, <3>2, <2>2 DEF D, out, limit
    <2>9. CASE r \notin D
      <3>1. At(out, r) = 0 /\ At(requests, r) = 0
        BY <1>1, <2>2, <2>5, <2>9
      <3>2. ~(r \in binPackingResources /\ At(alloc, r) > 0)
        BY <1>1, <2>3, <2>4, <2>5, <2>9
      <3> QED  BY <2>7, <3>1, <3>2, <2>2 DEF D, out, limit
    <2> QED  BY <2>8, <2>9
  <1> QED  BY <1>2, <1>3

-----------------------------------------------------------------------------
(***************************************************************************)
(* The candidate's node and the attempt.                                   *)
(***************************************************************************)

\* What kube-scheduler let onto the node may run there, and is packed into it.
Admitted(p) ==
    /\ p.selector \in {NoHost, Candidate}
    /\ p.terms # {} => \E t \in p.terms : t = {} \/ Candidate \in t

NodeInv ==
    /\ IsCluster(cluster)
    /\ bound \subseteq Pods /\ done \subseteq Pods /\ bound \cap done = {}
    /\ \A p \in OnNode : Admitted(p)
    /\ \A r \in Resources : At(Total(bound), r) <= At(cluster.nodeAllocatable, r)

\* As long as nothing moved, the gate's answer and the placeholder are today's sizing.
AttemptInv ==
    ~moved =>
      /\ pc \in {"anchored", "placed"} =>
           blocked(candidateRequests, cluster.limits, cluster.provisioned) = {}
      /\ pc = "placed" =>
           placeholder = candidateRequests /\ drain = ReschedulableRequests

SizingInv == NodeInv /\ AttemptInv

LEMMA SizingInit == Init => SizingInv
  <1> SUFFICES ASSUME Init PROVE SizingInv
    OBVIOUS
  <1>1. cluster \in Clusters /\ bound = {} /\ done = {} /\ pc = "idle"
    BY DEF Init
  <1>2. IsCluster(cluster)
    BY <1>1, SizingAssumption
  <1>3. \A r \in Resources : At(Total(bound), r) = 0
    BY <1>1, AtTotal, SumStep
  <1>4. \A r \in Resources : At(cluster.nodeAllocatable, r) \in Nat
    BY <1>2, AtList DEF IsCluster
  <1>5. NodeInv
    BY <1>1, <1>2, <1>3, <1>4 DEF NodeInv, OnNode
  <1> QED  BY <1>1, <1>5 DEF SizingInv, AttemptInv

LEMMA NodeStep ==
  ASSUME NodeInv, Next PROVE NodeInv'
  <1>1. CASE UNCHANGED <<cluster, bound, done>>
    BY <1>1 DEF NodeInv, OnNode
  <1>2. ASSUME NEW p \in Pods, Bind(p) PROVE NodeInv'
    <2>1. /\ bound' = bound \cup {p} /\ UNCHANGED <<cluster, done>> /\ p \notin OnNode
          /\ Admitted(p)
          /\ \A r \in DOMAIN Total(bound') :
               Total(bound')[r] <= At(cluster.nodeAllocatable, r)
      BY <1>2 DEF Bind, Admitted
    <2>2. \A r \in Resources : At(cluster.nodeAllocatable, r) \in Nat
      BY AtList DEF NodeInv, IsCluster
    <2>3. \A r \in Resources : At(Total(bound'), r) <= At(cluster.nodeAllocatable, r)
      BY <2>1, <2>2 DEF At
    <2>4. /\ bound' \subseteq Pods /\ bound' \cap done' = {}
          /\ \A q \in bound' \cup done' : Admitted(q)
      BY <2>1 DEF NodeInv, OnNode
    <2> QED  BY <2>1, <2>3, <2>4 DEF NodeInv, OnNode
  <1>3. ASSUME NEW p \in Pods, Complete(p) \/ Leave(p) PROVE NodeInv'
    <2>1. /\ bound' \subseteq bound /\ cluster' = cluster /\ done' \subseteq done \cup {p}
          /\ p \in OnNode /\ bound' = bound \ {p}
      BY <1>3 DEF Complete, Leave, OnNode
    <2>2. /\ bound' \in SUBSET Pods /\ bound \in SUBSET Pods /\ done' \subseteq Pods
          /\ bound' \cap done' = {}
          /\ \A q \in bound' \cup done' : Admitted(q)
      BY <2>1 DEF NodeInv, OnNode
    <2>3. ASSUME NEW r \in Resources
          PROVE  At(Total(bound'), r) <= At(cluster.nodeAllocatable, r)
      <3>1. /\ At(Total(bound'), r) = SumOf(r, bound') /\ At(Total(bound'), r) \in Nat
            /\ At(Total(bound), r) = SumOf(r, bound) /\ At(Total(bound), r) \in Nat
        BY <2>2, AtTotal
      <3>2. SumOf(r, bound') <= SumOf(r, bound)
        BY <2>1, <2>2, SumGrows
      <3>3. /\ At(Total(bound), r) <= At(cluster.nodeAllocatable, r)
            /\ At(cluster.nodeAllocatable, r) \in Nat
        BY AtList DEF NodeInv, IsCluster
      <3> QED  BY <3>1, <3>2, <3>3
    <2> QED  BY <2>1, <2>2, <2>3 DEF NodeInv, OnNode
  <1>4. ASSUME NEW r \in Resources, UsageGrows(r) PROVE NodeInv'
    <2> DEFINE new == [cluster.provisioned EXCEPT ![r] = cluster.provisioned[r] + 1]
    <2>1. /\ cluster' = [cluster EXCEPT !.provisioned = new]
          /\ r \in DOMAIN cluster.provisioned /\ UNCHANGED <<bound, done>>
      BY <1>4 DEF UsageGrows
    <2>2. IsList(new)
      BY <2>1 DEF NodeInv, IsCluster, IsList
    <2>3. /\ cluster'.nodeAllocatable = cluster.nodeAllocatable
          /\ cluster'.claimAllocatable = cluster.claimAllocatable
          /\ cluster'.wholeNode = cluster.wholeNode
          /\ cluster'.limits = cluster.limits /\ cluster'.provisioned = new
          /\ cluster' = [nodeAllocatable  |-> cluster.nodeAllocatable,
                         claimAllocatable |-> cluster.claimAllocatable,
                         wholeNode        |-> cluster.wholeNode,
                         limits           |-> cluster.limits,
                         provisioned      |-> new]
      <3>1. cluster = [nodeAllocatable  |-> cluster.nodeAllocatable,
                       claimAllocatable |-> cluster.claimAllocatable,
                       wholeNode        |-> cluster.wholeNode,
                       limits           |-> cluster.limits,
                       provisioned      |-> cluster.provisioned]
        BY DEF NodeInv, IsCluster
      <3> QED  BY <2>1, <3>1
    <2> HIDE DEF new
    <2>4. IsCluster(cluster')
      BY <2>2, <2>3 DEF NodeInv, IsCluster
    <2> QED  BY <2>1, <2>3, <2>4 DEF NodeInv, OnNode
  <1> QED
    BY <1>1, <1>2, <1>3, <1>4 DEF Next, HeadroomGate, createPlaceholder, AttemptEnds

LEMMA AttemptStep ==
  ASSUME AttemptInv, Next PROVE AttemptInv'
  <1>1. CASE HeadroomGate
    <2>1. blocked(candidateRequests, cluster.limits, cluster.provisioned) = {}
      BY <1>1 DEF HeadroomGate, Headroom
    <2>2. candidateRequests' = candidateRequests
      BY <1>1 DEF HeadroomGate, candidateRequests, placeholderSizing,
         ReschedulableRequests, DaemonSetRequests, CensusOnNode, OnNode, CensusBucket
    <2> QED  BY <1>1, <2>1, <2>2 DEF HeadroomGate, AttemptInv
  <1>2. CASE createPlaceholder
    <2>1. /\ candidateRequests' = candidateRequests
          /\ ReschedulableRequests' = ReschedulableRequests
      BY <1>2 DEF createPlaceholder, candidateRequests, placeholderSizing,
         ReschedulableRequests, DaemonSetRequests, CensusOnNode, OnNode, CensusBucket
    <2>2. placeholder' = candidateRequests /\ drain' = ReschedulableRequests
      BY <1>2 DEF createPlaceholder, candidateRequests
    <2> QED  BY <1>2, <2>1, <2>2 DEF createPlaceholder, AttemptInv
  <1>3. CASE AttemptEnds
    BY <1>3 DEF AttemptEnds, AttemptInv
  <1>4. CASE \/ \E p \in Pods : Bind(p) \/ Complete(p) \/ Leave(p)
             \/ \E r \in Resources : UsageGrows(r)
    BY <1>4 DEF Bind, Complete, Leave, UsageGrows, AttemptInv
  <1> QED  BY <1>1, <1>2, <1>3, <1>4 DEF Next

LEMMA SizingFrame == ASSUME SizingInv, UNCHANGED vars PROVE SizingInv'
  BY DEF vars, SizingInv, NodeInv, AttemptInv, OnNode, candidateRequests,
     placeholderSizing, ReschedulableRequests, DaemonSetRequests, CensusOnNode,
     CensusBucket

\* What the scheduler has packed and what an attempt may rely on while nothing moves, in
\* every reachable state.
THEOREM SizingInvHolds == Spec => []SizingInv
  <1>1. SizingInv /\ [Next]_vars => SizingInv'
    BY NodeStep, AttemptStep, SizingFrame DEF SizingInv
  <1> QED  BY <1>1, SizingInit, PTL DEF Spec

-----------------------------------------------------------------------------
(***************************************************************************)
(* The sizing of the candidate.                                            *)
(***************************************************************************)

LEMMA TotalList == ASSUME NEW S \in SUBSET Pods PROVE IsList(Total(S))
  <1>1. \A p \in S : DOMAIN p.requests \subseteq Resources
    BY SizingAssumption DEF IsList
  <1>2. \A r : SumOf(r, S) \in Nat
    BY SumNat
  <1> QED  BY <1>1, <1>2, TotalIs DEF IsList

\* The Pods whose requests are the drain, and those that are the overhead.
Drained == {p \in OnNode : reschedulable(p, p \in done)}
Overhead == {p \in OnNode : p.daemonSet /\ p \notin done}

LEMMA DrainAndOverhead ==
  ASSUME NodeInv
  PROVE  /\ Drained \in SUBSET bound /\ Overhead \in SUBSET bound
         /\ Drained \cap Overhead = {} /\ bound \in SUBSET Pods
         /\ ReschedulableRequests = Total(Drained) /\ DaemonSetRequests = Total(Overhead)
         /\ IsList(ReschedulableRequests) /\ IsList(DaemonSetRequests)
  <1>1. /\ Drained \in SUBSET bound /\ Overhead \in SUBSET bound
        /\ Drained \cap Overhead = {} /\ bound \in SUBSET Pods
    BY DEF NodeInv, OnNode, Drained, Overhead, reschedulable, IsInfraOrCompleted
  <1>2. ReschedulableRequests = Total(Drained) /\ DaemonSetRequests = Total(Overhead)
    BY DEF ReschedulableRequests, DaemonSetRequests, Drained, Overhead
  <1>3. IsList(Total(Drained)) /\ IsList(Total(Overhead))
    BY <1>1, TotalList
  <1> QED  BY <1>1, <1>2, <1>3

\* Drain and overhead together are packed in the node's allocatable.
LEMMA Packed ==
  ASSUME NodeInv, NEW r \in Resources
  PROVE  At(ReschedulableRequests, r) + At(DaemonSetRequests, r)
           <= At(cluster.nodeAllocatable, r)
  <1>1. /\ Drained \in SUBSET Pods /\ Overhead \in SUBSET Pods /\ bound \in SUBSET Pods
        /\ Drained \cap Overhead = {} /\ Drained \cup Overhead \subseteq bound
    BY DrainAndOverhead
  <1>2. /\ At(ReschedulableRequests, r) = SumOf(r, Drained)
        /\ At(DaemonSetRequests, r) = SumOf(r, Overhead)
        /\ At(Total(bound), r) = SumOf(r, bound)
    BY <1>1, AtTotal, DrainAndOverhead
  <1>3. SumOf(r, Drained \cup Overhead) = SumOf(r, Drained) + SumOf(r, Overhead)
    BY <1>1, SumUnion
  <1>4. SumOf(r, Drained \cup Overhead) <= SumOf(r, bound)
    BY <1>1, SumGrows
  <1>5. /\ SumOf(r, Drained) \in Nat /\ SumOf(r, Overhead) \in Nat
        /\ SumOf(r, bound) \in Nat
    BY <1>1, SumNat
  <1>6. /\ At(Total(bound), r) <= At(cluster.nodeAllocatable, r)
        /\ At(cluster.nodeAllocatable, r) \in Nat
    BY AtList DEF NodeInv, IsCluster
  <1> QED  BY <1>2, <1>3, <1>4, <1>5, <1>6

\* What is handed to the clamp.
Wanted ==
    IF cluster.wholeNode
    THEN WholeNode(ReschedulableRequests, cluster.claimAllocatable, DaemonSetRequests,
                   CensusOnNode("Counted"))
    ELSE ReschedulableRequests

LEMMA SizingIs ==
  placeholderSizing = Clamp(Wanted, cluster.claimAllocatable, DaemonSetRequests)
  BY DEF placeholderSizing, Wanted

LEMMA WantedIs ==
  ASSUME NodeInv, NEW r
  PROVE  LET alloc == cluster.claimAllocatable
             limit == provisionableLimit(alloc, DaemonSetRequests, r)
             want  == At(Wanted, r)
             moves == At(ReschedulableRequests, r)
         IN  /\ DOMAIN ReschedulableRequests \subseteq DOMAIN Wanted
             /\ want \in Nat /\ moves \in Nat
             /\ r \in DOMAIN Wanted => Wanted[r] = want
             /\ r \notin DOMAIN Wanted => want = 0
             /\ \/ want = moves
                \/ r \in DOMAIN alloc /\ limit > 0 /\ want = limit
                \/ r \in DOMAIN alloc /\ ~(limit > 0) /\ want > 0 /\ moves = 0
             /\ /\ cluster.wholeNode /\ CensusOnNode("Counted") # 0
                /\ r \in binPackingResources /\ At(alloc, r) > 0
                => want > 0
  <1>1. /\ IsList(ReschedulableRequests) /\ IsList(DaemonSetRequests)
        /\ IsList(cluster.claimAllocatable)
    BY DrainAndOverhead DEF NodeInv, IsCluster
  <1>2. At(ReschedulableRequests, r) \in Nat
    BY <1>1, AtList
  <1>3. /\ r \in DOMAIN Wanted => Wanted[r] = At(Wanted, r)
        /\ r \notin DOMAIN Wanted => At(Wanted, r) = 0
    BY DEF At
  <1>4. CASE cluster.wholeNode
    <2>1. Wanted = WholeNode(ReschedulableRequests, cluster.claimAllocatable,
                             DaemonSetRequests, CensusOnNode("Counted"))
      BY <1>4 DEF Wanted
    <2> QED  BY <1>1, <1>2, <1>3, <2>1, Raised
  <1>5. CASE ~cluster.wholeNode
    BY <1>2, <1>3, <1>5 DEF Wanted
  <1> QED  BY <1>4, <1>5

\* The quantities a sizing compares.
LEMMA Quantities ==
  ASSUME NodeInv, NEW r \in DOMAIN cluster.claimAllocatable
  PROVE  /\ r \in Resources /\ cluster.claimAllocatable[r] \in Nat
         /\ At(DaemonSetRequests, r) \in Nat
         /\ provisionableLimit(cluster.claimAllocatable, DaemonSetRequests, r)
              = cluster.claimAllocatable[r] - At(DaemonSetRequests, r)
  BY DrainAndOverhead, AtList DEF NodeInv, IsCluster, IsList, provisionableLimit

-----------------------------------------------------------------------------
(***************************************************************************)
(* The properties.                                                         *)
(***************************************************************************)

LEMMA WithinBand == ASSUME NodeInv PROVE ShortfallWithinBand
  <1> DEFINE alloc == cluster.claimAllocatable
             node  == cluster.nodeAllocatable
             short == placeholderSizing.Shortfall
  <1> SUFFICES ASSUME NEW r \in DOMAIN short, short[r] > At(Band(node, alloc), r)
               PROVE  FALSE
    BY DEF ShortfallWithinBand, ExceedsBand
  <1> DEFINE limit == provisionableLimit(alloc, DaemonSetRequests, r)
             want  == At(Wanted, r)
             moves == At(ReschedulableRequests, r)
             ds    == At(DaemonSetRequests, r)
             a     == alloc[r]
             n     == At(node, r)
             band  == At(Band(node, alloc), r)
  <1>1. /\ r \in DOMAIN Wanted \cap DOMAIN alloc /\ limit > 0 /\ Wanted[r] > limit
        /\ short[r] = Wanted[r] - limit
    BY SizingIs, Clamped
  <1>2. /\ r \in Resources /\ a \in Nat /\ ds \in Nat /\ limit = a - ds
    BY <1>1, Quantities
  <1>3. Wanted[r] = want /\ want \in Nat /\ moves \in Nat
        /\ (want = moves \/ want = limit \/ ~(limit > 0))
    BY <1>1, WantedIs
  <1>4. moves + ds <= n
    BY <1>2, Packed
  <1>5. n \in Nat
    BY AtList DEF NodeInv, IsCluster
  <1>6. r \in DOMAIN node => band = IF n > a THEN n - a ELSE 0
    BY <1>1 DEF Band, At
  <1>7. r \notin DOMAIN node => n = 0
    BY DEF At
  <1>8. short[r] > band
    OBVIOUS
  <1> DEFINE s == short[r]
  <1>9. s = want - limit /\ want > limit /\ s > band /\ limit > 0
    BY <1>1, <1>3, <1>8
  <1> HIDE DEF alloc, node, short, limit, want, moves, ds, a, n, band, s
  <1>10. want = moves
    BY <1>2, <1>3, <1>9
  <1>11. want - limit <= n - a
    BY <1>2, <1>3, <1>4, <1>5, <1>10
  <1> QED  BY <1>2, <1>3, <1>5, <1>6, <1>7, <1>9, <1>11

\* The sizing check of the gate and the surge's overflow report may rely on it: a clamp
\* gives up no more than the difference of the two allocatables, whatever was scheduled
\* and has completed (DaemonSetRequests, Clamp).
THEOREM ShortfallBounded == Spec => []ShortfallWithinBand
  <1>1. SizingInv => ShortfallWithinBand
    BY WithinBand DEF SizingInv
  <1> QED  BY <1>1, SizingInvHolds, PTL

\* A placeholder that is not refused fits, on top of the DaemonSets' overhead, the
\* allocatable that Karpenter plans the surge node with (Clamp).
THEOREM PlaceholderFits == Spec => []FitsFreshNode
  <1>1. ASSUME NodeInv PROVE FitsFreshNode
    <2> DEFINE z == placeholderSizing
    <2> SUFFICES ASSUME ~z.Refused,
                        NEW r \in DOMAIN z.Requests \cap DOMAIN cluster.claimAllocatable,
                        z.Requests[r] > 0
                 PROVE  z.Requests[r] + At(DaemonSetRequests, r)
                          <= cluster.claimAllocatable[r]
      BY DEF FitsFreshNode
    <2> DEFINE a     == cluster.claimAllocatable[r]
               ds    == At(DaemonSetRequests, r)
               limit == provisionableLimit(cluster.claimAllocatable, DaemonSetRequests, r)
               asked == z.Requests[r]
    <2>1. DOMAIN z.Requests = DOMAIN Wanted
      BY SizingIs, Clamped
    <2>2. /\ ~(limit <= 0 /\ Wanted[r] > 0)
          /\ asked = IF limit > 0 /\ Wanted[r] > limit THEN limit ELSE Wanted[r]
      BY <2>1, SizingIs, Clamped
    <2>3. a \in Nat /\ ds \in Nat /\ limit = a - ds
      BY <1>1, Quantities
    <2>4. Wanted[r] \in Nat
      BY <1>1, <2>1, WantedIs
    <2>5. asked > 0
      OBVIOUS
    <2> DEFINE w == Wanted[r]
    <2> HIDE DEF z, a, ds, limit, asked, w
    <2>6. asked + ds <= a
      BY <2>2, <2>3, <2>4, <2>5 DEF w
    <2> QED  BY <2>6 DEF asked, ds, a
  <1>2. SizingInv => FitsFreshNode
    BY <1>1 DEF SizingInv
  <1> QED  BY <1>2, SizingInvHolds, PTL

\* Every dimension some Pod has to find again is reserved, and with whole-node
\* reservation both packing dimensions are (placeholderSizing, createPlaceholder).
THEOREM EverythingReserved == Spec => []NothingUnreserved
  <1>1. ASSUME NodeInv, NEW r, At(Wanted, r) > 0
        PROVE  At(placeholderSizing.Requests, r) > 0
    <2>1. r \in DOMAIN Wanted /\ Wanted[r] > 0
      BY <1>1, WantedIs
    <2>2. r \in DOMAIN placeholderSizing.Requests
          /\ placeholderSizing.Requests[r] > 0
      BY <2>1, SizingIs, Clamped
    <2> QED  BY <2>2 DEF At
  <1>2. ASSUME NodeInv, NEW r \in DOMAIN ReschedulableRequests,
               ReschedulableRequests[r] > 0
        PROVE  At(placeholderSizing.Requests, r) > 0
    <2>1. At(ReschedulableRequests, r) > 0
      BY <1>2 DEF At
    <2>2. At(Wanted, r) > 0
      BY <1>2, <2>1, WantedIs
    <2> QED  BY <1>1, <1>2, <2>2
  <1>3. ASSUME NodeInv, cluster.wholeNode, CensusOnNode("Counted") > 0,
               NEW r \in binPackingResources, At(cluster.claimAllocatable, r) > 0
        PROVE  At(placeholderSizing.Requests, r) > 0
    <2>1. CensusOnNode("Counted") # 0
      BY <1>3
    <2>2. At(Wanted, r) > 0
      BY <1>3, <2>1, WantedIs
    <2> QED  BY <1>1, <1>3, <2>2
  <1>4. ASSUME SizingInv PROVE NothingUnreserved
    <2> SUFFICES ASSUME pc = "placed", ~moved
                 PROVE  /\ \A r \in DOMAIN drain : drain[r] > 0 => At(placeholder, r) > 0
                        /\ cluster.wholeNode /\ CensusOnNode("Counted") > 0 =>
                             \A r \in binPackingResources :
                               At(cluster.claimAllocatable, r) > 0
                                 => At(placeholder, r) > 0
      BY DEF NothingUnreserved
    <2>1. placeholder = placeholderSizing.Requests /\ drain = ReschedulableRequests
      BY <1>4 DEF SizingInv, AttemptInv, candidateRequests
    <2> QED  BY <1>2, <1>3, <1>4, <2>1 DEF SizingInv
  <1> QED  BY <1>4, SizingInvHolds, PTL

\* The drain is what has to move and can: the pinning rule is exact on every Pod the
\* scheduler may have put there (ReschedulableRequests, isNodePinned, Census).
THEOREM DrainExact == Spec => []DrainIsWhatMoves
  <1> DEFINE allowed(p, h) == /\ p.selector \in {NoHost, h}
                              /\ p.terms # {} => \E t \in p.terms : t = {} \/ h \in t
             moves(p) == /\ ~p.daemonSet /\ ~p.mirror
                         /\ \E h \in Hosts \ {Candidate} : allowed(p, h)
  <1>1. ASSUME NEW p \in Pods, Admitted(p)
        PROVE  isNodePinned(p, Candidate)
                 <=> ~\E h \in Hosts \ {Candidate} : allowed(p, h)
    <2>1. /\ Candidate \in Hosts /\ NoHost \notin Hosts
          /\ \E h \in Hosts : h # Candidate
          /\ p.terms \subseteq SUBSET Hosts
      BY SizingAssumption
    <2>2. CASE p.selector # NoHost
      BY <1>1, <2>1, <2>2 DEF Admitted, isNodePinned
    <2>3. CASE p.selector = NoHost /\ (p.terms = {} \/ {} \in p.terms)
      BY <2>1, <2>3 DEF isNodePinned
    <2>4. CASE p.selector = NoHost /\ p.terms # {} /\ {} \notin p.terms
      <3>1. \E t \in p.terms : Candidate \in t
        BY <1>1, <2>4 DEF Admitted
      <3>2. (UNION p.terms = {Candidate})
              <=> \A t \in p.terms : \A h \in t : h = Candidate
        BY <3>1
      <3>3. isNodePinned(p, Candidate) <=> UNION p.terms = {Candidate}
        BY <2>4 DEF isNodePinned
      <3>4. (\E h \in Hosts \ {Candidate} : allowed(p, h))
              <=> \E t \in p.terms : \E h \in t : h # Candidate
        BY <2>1, <2>4
      <3> QED  BY <3>2, <3>3, <3>4
    <2> QED  BY <2>2, <2>3, <2>4
  <1>2. ASSUME NodeInv
        PROVE  /\ Drained = {p \in bound : moves(p)}
               /\ {p \in OnNode : CensusBucket(p) = "Counted"} = {p \in bound : moves(p)}
    <2>1. \A p \in OnNode : /\ p \in Pods /\ Admitted(p)
                            /\ p \in bound <=> p \notin done
      BY <1>2 DEF NodeInv, OnNode
    <2>2. \A p \in OnNode : reschedulable(p, p \in done) <=> p \in bound /\ moves(p)
      BY <1>1, <2>1 DEF reschedulable, IsInfraOrCompleted
    <2>3. \A p \in OnNode : CensusBucket(p) = "Counted"
                              <=> reschedulable(p, p \in done)
      BY DEF CensusBucket, reschedulable, IsInfraOrCompleted
    <2>4. bound \subseteq OnNode
      BY DEF OnNode
    <2> HIDE DEF moves
    <2> QED  BY <2>2, <2>3, <2>4 DEF Drained
  <1>3. ASSUME SizingInv PROVE DrainIsWhatMoves
    <2>1. ReschedulableRequests = Total({p \in bound : moves(p)})
      BY <1>2, <1>3, DrainAndOverhead DEF SizingInv
    <2>2. CensusOnNode("Counted") = Cardinality({p \in bound : moves(p)})
      BY <1>2, <1>3 DEF SizingInv, CensusOnNode
    <2> QED  BY <2>1, <2>2 DEF DrainIsWhatMoves
  <1> QED  BY <1>3, SizingInvHolds, PTL

\* The budget was tested against the very placeholder that is created
\* (candidateRequests and createPlaceholder share placeholderSizing).
THEOREM GateTestsPlaceholder == Spec => []GatePrechecks
  <1>1. SizingInv => GatePrechecks
    BY DEF SizingInv, AttemptInv, GatePrechecks
  <1> QED  BY <1>1, SizingInvHolds, PTL

=============================================================================
