-------------------------- MODULE RebalancerProofs --------------------------
(***************************************************************************)
(* For any number of callers, nodes, keys and rebalances: one rebalance    *)
(* runs at a time, its report is honest, what it was started for arrives,  *)
(* and other keys stay in place.                                           *)
(***************************************************************************)
EXTENDS Rebalancer, TLAPS, FiniteSetTheorems

\* The part of the types that the argument needs, with the property itself.
ExclusionInv ==
    /\ in_progress \in BOOLEAN
    /\ pc \in [Caller -> {"idle", "listing", "migrating", "already_in_progress"}]
    /\ OneAtATime

\* A step that changes neither the flag nor any caller's place.
LEMMA FlagAndCallersUnchanged ==
    ASSUME ExclusionInv, UNCHANGED <<pc, in_progress>>
    PROVE  ExclusionInv'
BY DEF ExclusionInv, OneAtATime, Active

\* The steps of the rebalance in progress: what concerns listing and migrating
\* of keys leaves the flag alone, and only Complete resets it.
LEMMA ProgressKeepsExclusion ==
    ASSUME ExclusionInv, NEW c \in Caller, Progress(c)
    PROVE  ExclusionInv'
<1>1. ASSUME NEW n \in Node, FetchKeys(c, n) \/ FetchFails(c, n)
      PROVE  ExclusionInv'
  BY <1>1, FlagAndCallersUnchanged DEF FetchKeys, FetchFails, report
<1>2. CASE PlanMigrations(c)
  <2>1. /\ pc[c] = "listing"
        /\ pc' = [pc EXCEPT ![c] = "migrating"]
        /\ in_progress' = in_progress
    BY <1>2 DEF PlanMigrations
  <2>2. \A d \in Caller : Active(d)' <=> Active(d)
    BY <2>1 DEF ExclusionInv, Active
  <2> QED
    BY <2>1, <2>2 DEF ExclusionInv, OneAtATime
<1>3. ASSUME NEW t \in tasks,
             \/ Snapshot(c, t) \/ SnapshotFails(c, t)
             \/ LoadAcked(c, t) \/ LoadFails(c, t)
      PROVE  ExclusionInv'
  BY <1>3, FlagAndCallersUnchanged
     DEF Snapshot, SnapshotFails, LoadAcked, LoadFails, report
<1>4. CASE Complete(c)
  <2>1. /\ pc[c] = "migrating"
        /\ pc' = [pc EXCEPT ![c] = "idle"]
        /\ in_progress' = FALSE
    BY <1>4 DEF Complete
  <2>2. \A d \in Caller : d # c => ~ Active(d)
    BY <2>1 DEF ExclusionInv, OneAtATime, Active
  <2>3. \A d \in Caller : ~ Active(d)'
    BY <2>1, <2>2 DEF ExclusionInv, Active
  <2> QED
    BY <2>1, <2>3 DEF ExclusionInv, OneAtATime
<1> QED
  BY <1>1, <1>2, <1>3, <1>4 DEF Progress

\* Every step preserves the exclusion: a new rebalance starts only when the
\* flag is down, that is when no caller is active.
LEMMA StepKeepsExclusion ==
    ASSUME ExclusionInv, [Next]_vars
    PROVE  ExclusionInv'
<1>1. ASSUME NEW k \in Key, RoutePut(k) \/ \E n \in Node : Put(k, n) PROVE ExclusionInv'
  BY <1>1, FlagAndCallersUnchanged DEF RoutePut, Put, report
<1>2. ASSUME NEW n \in Node, NEW k \in Key, Forget(n, k) PROVE ExclusionInv'
  BY <1>2, FlagAndCallersUnchanged DEF Forget, report
<1>3. ASSUME NEW n \in Node, Crash(n) PROVE ExclusionInv'
  BY <1>3, FlagAndCallersUnchanged DEF Crash, report
<1>4. ASSUME NEW r \in Rings, ChangeTopology(r) PROVE ExclusionInv'
  BY <1>4, FlagAndCallersUnchanged DEF ChangeTopology, report
<1>5. ASSUME NEW c \in Caller, AlreadyInProgress(c) PROVE ExclusionInv'
  <2>1. /\ ~ Active(c)
        /\ pc' = [pc EXCEPT ![c] = "already_in_progress"]
        /\ in_progress' = in_progress
    BY <1>5 DEF AlreadyInProgress, report
  <2>2. \A d \in Caller : Active(d)' <=> Active(d)
    BY <2>1 DEF ExclusionInv, Active
  <2> QED
    BY <2>1, <2>2 DEF ExclusionInv, OneAtATime
<1>6. ASSUME NEW c \in Caller, NEW old \in Rings, NEW new \in Rings,
             NEW E \in SUBSET Node, Rebalance(c, old, new, E)
      PROVE  ExclusionInv'
  <2>1. /\ ~ in_progress
        /\ pc' = [pc EXCEPT ![c] = "listing"]
        /\ in_progress' = TRUE
    BY <1>6 DEF Rebalance
  <2>2. \A d \in Caller : ~ Active(d)
    BY <2>1 DEF ExclusionInv, OneAtATime
  <2>3. \A d \in Caller : Active(d)' <=> d = c
    BY <2>1, <2>2 DEF ExclusionInv, Active
  <2> QED
    BY <2>1, <2>3 DEF ExclusionInv, OneAtATime
<1>7. ASSUME NEW c \in Caller, Progress(c) PROVE ExclusionInv'
  BY <1>7, ProgressKeepsExclusion
<1>8. ASSUME NEW l \in loads, NEW e \in l.left, LoadEntry(l, e) PROVE ExclusionInv'
  BY <1>8, FlagAndCallersUnchanged DEF LoadEntry, report
<1>9. CASE UNCHANGED vars
  BY <1>9, FlagAndCallersUnchanged DEF vars, report
<1> QED
  BY <1>1, <1>2, <1>3, <1>4, <1>5, <1>6, <1>7, <1>8, <1>9 DEF Next

\* However many callers there are, one rebalance runs at a time and
\* in_progress says whether one does: rebalance() tests and sets the flag
\* without awaiting anything in between, and only the caller that set it
\* resets it.
THEOREM OneRebalanceAtATime == Spec => []OneAtATime
<1>1. Init => ExclusionInv
  BY DEF Init, ExclusionInv, OneAtATime, Active
<1>2. ExclusionInv /\ [Next]_vars => ExclusionInv'
  BY StepKeepsExclusion
<1>3. ExclusionInv => OneAtATime
  BY DEF ExclusionInv
<1> QED
  BY <1>1, <1>2, <1>3, PTL DEF Spec
-----------------------------------------------------------------------------
(* Induction, for the set of the numbers that have a property, and the sum of *)
(* the results of tasks.                                                       *)

\* A set of numbers with 0 and the successor of each of its members has all.
LEMMA SetInduction ==
    ASSUME NEW S, 0 \in S, \A n \in Nat : n \in S => n + 1 \in S
    PROVE  \A n \in Nat : n \in S
<1> SUFFICES ASSUME Nat \ S # {} PROVE FALSE
  OBVIOUS
<1> DEFINE R == {p \in Nat \X Nat : p[1] < p[2]}
<1>1. IsWellFoundedOn(R, Nat)
  BY NatLessThanWellFounded DEF OpToRel
<1>2. PICK x \in Nat \ S : \A y \in Nat \ S : ~ (<<y, x>> \in R)
  <2>1. Nat \ S \in SUBSET Nat
    OBVIOUS
  <2> HIDE DEF R
  <2> QED
    BY <1>1, <2>1, WFMin
<1>3. \A y \in Nat \ S : ~ (y < x)
  BY <1>2
<1>4. x # 0 /\ x - 1 \in Nat /\ x - 1 \in S
  <2>1. x # 0 /\ x - 1 \in Nat /\ x - 1 < x
    BY <1>2
  <2> QED
    BY <1>3, <2>1
<1>5. x \in S
  BY <1>4
<1> QED
  BY <1>5

Chosen(s) == CHOOSE x \in s : TRUE

\* One turn of the recursion of MapThenSumSet over the subsets of a set.
Added(I, s) == IF s = {} THEN 0 ELSE Chosen(s).result + I[s \ {Chosen(s)}]

IsSum(T, I) == I = [s \in SUBSET T |-> Added(I, s)]

\* The library's sum is the value, for the whole set, of a function that the
\* recursion describes, if there is one ...
LEMMA SumIsRecursive ==
    ASSUME NEW T
    PROVE  MapThenSumSet(LAMBDA t : t.result, T) = (CHOOSE I : IsSum(T, I))[T]
BY DEF MapThenSumSet, MapThenFoldSet, IsSum, Added, Chosen

\* A turn of the recursion takes one element out of the set.
LEMMA ChosenLeavesLess ==
    ASSUME NEW s, IsFiniteSet(s), s # {}, NEW n \in Nat, Cardinality(s) <= n + 1
    PROVE  /\ Chosen(s) \in s
           /\ IsFiniteSet(s \ {Chosen(s)})
           /\ Cardinality(s \ {Chosen(s)}) <= n
<1>1. Chosen(s) \in s
  BY DEF Chosen
<1>2. PICK x : x = Chosen(s)
  OBVIOUS
<1>3. IsFiniteSet(s \ {x}) /\ Cardinality(s \ {x}) = Cardinality(s) - 1
  BY <1>1, <1>2, FS_RemoveElement
<1>4. Cardinality(s) \in Nat
  BY FS_CardinalityType
<1>5. Cardinality(s \ {x}) <= n
  BY <1>3, <1>4
<1> QED
  BY <1>1, <1>2, <1>3, <1>5

\* ... and for a finite set there is one.
LEMMA SumExists ==
    ASSUME NEW T, IsFiniteSet(T)
    PROVE  \E I : IsSum(T, I)
<1> DEFINE Sums(n, I) == \A s \in SUBSET T : Cardinality(s) <= n => I[s] = Added(I, s)
           S == {n \in Nat : \E I : Sums(n, I)}
<1>0. \A s \in SUBSET T :
         IsFiniteSet(s) /\ Cardinality(s) \in Nat /\ Cardinality(s) <= Cardinality(T)
  BY FS_Subset, FS_CardinalityType
<1>1. 0 \in S
  <2> DEFINE I == [s \in SUBSET T |-> 0]
  <2>1. \A s \in SUBSET T : Cardinality(s) <= 0 => I[s] = Added(I, s)
    BY <1>0, FS_EmptySet DEF Added
  <2> QED
    BY <2>1
<1>2. ASSUME NEW n \in Nat, n \in S PROVE n + 1 \in S
  <2>1. PICK I : Sums(n, I)
    BY <1>2
  <2> DEFINE J == [s \in SUBSET T |-> Added(I, s)]
  <2>2. ASSUME NEW s \in SUBSET T, Cardinality(s) <= n + 1
        PROVE  J[s] = Added(J, s)
    <3>1. CASE s = {}
      BY <3>1 DEF Added
    <3>2. CASE s # {}
      <4> DEFINE r == s \ {Chosen(s)}
      <4>1. r \in SUBSET T /\ Cardinality(r) <= n
        BY <1>0, <2>2, <3>2, ChosenLeavesLess
      <4>2. I[r] = Added(I, r)
        BY <2>1, <4>1
      <4>3. J[r] = I[r]
        BY <4>1, <4>2
      <4>4. J[s] = Added(I, s)
        OBVIOUS
      <4> HIDE DEF J
      <4> QED
        BY <3>2, <4>3, <4>4 DEF Added
    <3> QED
      BY <3>1, <3>2
  <2>3. Sums(n + 1, J)
    <3> HIDE DEF J
    <3> QED
      BY <2>2
  <2> QED
    <3> HIDE DEF J, Sums
    <3> QED
      BY <2>3
<1>3. \E I : Sums(Cardinality(T), I)
  <2>1. Cardinality(T) \in Nat
    BY FS_CardinalityType
  <2>2. \A n \in Nat : n \in S
    <3> HIDE DEF S
    <3> QED
      BY <1>1, <1>2, SetInduction
  <2> QED
    BY <2>1, <2>2
<1>4. PICK I : Sums(Cardinality(T), I)
  BY <1>3
<1> DEFINE J == [s \in SUBSET T |-> I[s]]
<1>5. \A s \in SUBSET T : J[s] = Added(J, s)
  <2> SUFFICES ASSUME NEW s \in SUBSET T PROVE J[s] = Added(J, s)
    OBVIOUS
  <2>1. J[s] = Added(I, s)
    BY <1>0, <1>4
  <2>2. s \ {Chosen(s)} \in SUBSET T
    OBVIOUS
  <2>3. J[s \ {Chosen(s)}] = I[s \ {Chosen(s)}]
    BY <2>2
  <2> HIDE DEF J
  <2> QED
    BY <2>1, <2>3 DEF Added
<1>6. J = [s \in SUBSET T |-> J[s]]
  OBVIOUS
<1>7. IsSum(T, J)
  <2> HIDE DEF J
  <2> QED
    BY <1>5, <1>6 DEF IsSum
<1> QED
  BY <1>7

\* If every task counts no more than a share of a finite set U, and no two
\* shares overlap, the tasks together count no more than U has elements.
LEMMA SumOfShares ==
    ASSUME NEW T, IsFiniteSet(T), NEW U, IsFiniteSet(U), NEW F \in [T -> SUBSET U],
           \A t \in T : t.result \in Nat /\ t.result <= Cardinality(F[t]),
           \A t, u \in T : t # u => F[t] \cap F[u] = {}
    PROVE  /\ MapThenSumSet(LAMBDA t : t.result, T) \in Nat
           /\ MapThenSumSet(LAMBDA t : t.result, T) <= Cardinality(U)
<1>1. PICK I : /\ IsSum(T, I)
               /\ MapThenSumSet(LAMBDA t : t.result, T) = I[T]
  BY SumExists, SumIsRecursive
<1>2. \A s \in SUBSET T : I[s] = Added(I, s)
  BY <1>1 DEF IsSum
<1> DEFINE Share(s) == UNION {F[t] : t \in s}
           Fits(s) == I[s] \in Nat /\ I[s] <= Cardinality(Share(s))
           S == {n \in Nat : \A s \in SUBSET T : Cardinality(s) <= n => Fits(s)}
<1>3. \A s \in SUBSET T :
         IsFiniteSet(s) /\ Cardinality(s) \in Nat /\ Cardinality(s) <= Cardinality(T)
  BY FS_Subset, FS_CardinalityType
<1>4. \A s \in SUBSET T : /\ IsFiniteSet(Share(s))
                           /\ Cardinality(Share(s)) \in Nat
                           /\ Cardinality(Share(s)) <= Cardinality(U)
  <2> SUFFICES ASSUME NEW s \in SUBSET T
               PROVE  /\ IsFiniteSet(Share(s))
                      /\ Cardinality(Share(s)) \in Nat
                      /\ Cardinality(Share(s)) <= Cardinality(U)
    OBVIOUS
  <2>1. PICK W : W = Share(s)
    OBVIOUS
  <2>2. W \in SUBSET U
    BY <2>1
  <2>3. IsFiniteSet(W) /\ Cardinality(W) \in Nat /\ Cardinality(W) <= Cardinality(U)
    BY <2>2, FS_Subset, FS_CardinalityType
  <2> QED
    BY <2>1, <2>3
<1>5. \A t \in T : IsFiniteSet(F[t]) /\ Cardinality(F[t]) \in Nat
  <2> SUFFICES ASSUME NEW t \in T PROVE IsFiniteSet(F[t]) /\ Cardinality(F[t]) \in Nat
    OBVIOUS
  <2>1. PICK W : W = F[t]
    OBVIOUS
  <2>2. W \in SUBSET U
    BY <2>1
  <2> QED
    BY <2>1, <2>2, FS_Subset, FS_CardinalityType
<1>6. Fits({})
  <2>1. I[{}] = 0
    BY <1>2 DEF Added
  <2> QED
    BY <1>4, <2>1
<1>7. 0 \in S
  <2>1. \A s \in SUBSET T : Cardinality(s) <= 0 => s = {}
    BY <1>3, FS_EmptySet
  <2> HIDE DEF Fits
  <2> QED
    BY <1>6, <2>1
<1>8. ASSUME NEW n \in Nat, n \in S PROVE n + 1 \in S
  <2> SUFFICES ASSUME NEW s \in SUBSET T, Cardinality(s) <= n + 1, s # {}
               PROVE  Fits(s)
    <3> HIDE DEF Fits
    <3> QED
      BY <1>6
  <2>1. PICK x : x = Chosen(s)
    OBVIOUS
  <2>2. PICK r : r = s \ {x}
    OBVIOUS
  <2>3. /\ x \in T
        /\ x \in s
        /\ r \in SUBSET T
        /\ Cardinality(r) <= n
    BY <1>3, <2>1, <2>2, ChosenLeavesLess
  <2>4. Fits(r)
    <3> HIDE DEF Fits
    <3> QED
      BY <1>8, <2>3
  <2>5. I[s] = x.result + I[r]
    BY <1>2, <2>1, <2>2 DEF Added
  <2>6. PICK A, B, C : A = F[x] /\ B = Share(r) /\ C = Share(s)
    OBVIOUS
  <2>7. C = A \cup B
    BY <2>2, <2>3, <2>6
  <2>8. A \cap B = {}
    <3>1. \A t \in r : t \in T /\ t # x
      BY <2>2, <2>3
    <3>2. \A t \in r : F[x] \cap F[t] = {}
      BY <2>3, <3>1
    <3> QED
      BY <3>2, <2>6
  <2>9. Cardinality(C) = Cardinality(A) + Cardinality(B)
    <3>1. Cardinality(A \cap B) = 0
      BY <2>8, FS_EmptySet
    <3>2. IsFiniteSet(A) /\ IsFiniteSet(B) /\ Cardinality(A) \in Nat /\ Cardinality(B) \in Nat
      BY <1>4, <1>5, <2>3, <2>6
    <3>3. Cardinality(A \cup B) = Cardinality(A) + Cardinality(B) - Cardinality(A \cap B)
      BY <3>2, FS_Union
    <3> QED
      BY <2>7, <3>1, <3>2, <3>3
  <2>10. /\ x.result \in Nat /\ x.result <= Cardinality(A)
         /\ Cardinality(A) \in Nat /\ Cardinality(B) \in Nat
    BY <1>4, <1>5, <2>3, <2>6
  <2>11. I[r] \in Nat /\ I[r] <= Cardinality(B)
    BY <2>4, <2>6
  <2>12. I[s] \in Nat /\ I[s] <= Cardinality(C)
    <3> HIDE DEF Fits
    <3> QED
      BY <2>5, <2>9, <2>10, <2>11
  <2> QED
    BY <2>6, <2>12
<1>9. Fits(T)
  <2>1. Cardinality(T) \in S
    <3> HIDE DEF S
    <3> QED
      BY <1>7, <1>8, FS_CardinalityType, SetInduction
  <2> HIDE DEF Fits
  <2> QED
    BY <1>3, <2>1
<1>10. I[T] \in Nat /\ I[T] <= Cardinality(U)
  <2>1. /\ Cardinality(U) \in Nat
        /\ Cardinality(Share(T)) \in Nat
        /\ Cardinality(Share(T)) <= Cardinality(U)
    BY <1>4, FS_CardinalityType
  <2> QED
    BY <1>9, <2>1
<1> QED
  BY <1>1, <1>10
-----------------------------------------------------------------------------
(* What holds in every reachable state. *)

\* The sets whose elements are counted are finite, and the writes on their way
\* are within the bound.
Finite ==
    /\ IsFiniteSet(calls)
    /\ clock + Cardinality(calls) <= MaxWrites
    /\ \A n \in Node : IsFiniteSet(Keys(stores[n]))
    /\ IsFiniteSet(all_keys)
    /\ IsFiniteSet(tasks)
    /\ \A t \in tasks : IsFiniteSet(t.entries)
    /\ IsFiniteSet(landed)

\* What belongs to a rebalance exists while it is in that phase.
Phases ==
    /\ in_progress => runs >= 1 /\ migrated_keys = 0
    /\ ~ in_progress => tasks = {}
    /\ \A c \in Caller :
          pc[c] = "listing" => /\ tasks = {}
                               /\ landed = {}
                               /\ \A l \in loads : l.run # runs

\* A task moves keys from their old to their new owner, its entries are
\* values of these keys, and what it counts has landed.
TaskFits(t) ==
    /\ t.new \in affected_nodes
    /\ \A k \in t.keys : OwnerChanged(k) /\ args.old[k] = t.old /\ args.new[k] = t.new
    /\ \A e \in t.entries : e[1] \in t.keys
    /\ \A e, f \in t.entries : e[1] = f[1] => e = f
    /\ t.step = "snapshot" => LoadOf(t) = {}
    /\ t.result # 0 =>
          /\ t.step = "done"
          /\ t.result = Cardinality(t.entries)
          /\ \A e \in t.entries : <<Endpoint(t.new, Local8002), e[1]>> \in landed

TasksFit ==
    /\ \A t \in tasks : TaskFits(t)
    /\ \A t, u \in tasks : t.old = u.old /\ t.new = u.new => t = u

\* A bulk load of this rebalance puts keys that move on their new owner, and
\* what its task sent is still to be put or has landed.
LoadFits(l) ==
    /\ l.new \in affected_nodes
    /\ l.node = Endpoint(l.new, Local8002)
    /\ \A e \in l.left :
          OwnerChanged(e[1]) /\ args.old[e[1]] = l.old /\ args.new[e[1]] = l.new
    /\ \A t \in tasks :
          t.step = "load" /\ t.old = l.old /\ t.new = l.new =>
              \A e \in t.entries : e \in l.left \/ <<l.node, e[1]>> \in landed

LoadsFit == \A l \in loads : l.run <= runs /\ (l.run = runs => LoadFits(l))

\* The bulk loads of any rebalance have only keys that moved.
OnlyMovedKeys ==
    /\ \A k \in Key : OwnerChanged(k) => k \in moved
    /\ \A l \in loads : \A e \in l.left : e[1] \in moved

\* The two halves of ReportIsHonest.
Counted == migrated_keys <= Cardinality(landed)
ChangedAreNamed == \A p \in landed : p[1] \in affected_nodes \cup {Local8002}

\* The keys that were held and that nothing else happened to.
Kept == {k \in Key \ disturbed : held[k] # Nothing}

Arrived(k) == stores[args.new[k]][k] = held[k]

\* The old owner still has them, and a bulk load has no other values of them.
Unchanged ==
    /\ \A k \in Key : held[k] # Nothing => {args.old[k], args.new[k]} \subseteq args.endpoints
    /\ in_progress => \A k \in Kept : stores[args.old[k]][k] = held[k]
    /\ \A l \in loads :
          l.run = runs => \A e \in l.left : e[1] \in Kept => e[2] = held[e[1]]

\* None of them is overlooked: in each phase of the rebalance it is known how
\* the key will get to its new owner.
Carries(t, k) ==
    /\ k \in t.keys
    /\ t.step = "load" => \A l \in LoadOf(t) : <<k, held[k]>> \in l.left \/ Arrived(k)
    /\ t.step = "done" => Arrived(k)

OnTheirWay ==
    /\ \A c \in Caller, k \in Kept :
          /\ pc[c] = "listing" => args.old[k] \in unlisted \/ k \in all_keys
          /\ pc[c] = "migrating" /\ OwnerChanged(k) => \E t \in tasks : Carries(t, k)
    /\ UndisturbedKeysArrive

Inv ==
    /\ TypeOK
    /\ OneAtATime
    /\ Finite
    /\ Phases
    /\ TasksFit
    /\ LoadsFit
    /\ OnlyMovedKeys
    /\ Counted
    /\ ChangedAreNamed
    /\ Unchanged
    /\ OnTheirWay
-----------------------------------------------------------------------------
(* Types. *)

Value == Version \cup {Nothing}
Store == [Key -> Value]

TaskRecord == [old : Owner, new : Owner, keys : SUBSET Key,
               step : {"snapshot", "load", "done"},
               entries : SUBSET (Key \X Version), result : Nat]
LoadRecord == [run : 1..MaxRuns, old : Owner, new : Owner,
               node : Node, left : SUBSET (Key \X Version)]

\* A put changes the key that is put and clears at most one other.
LEMMA PutChanges ==
    ASSUME NEW s \in Store, NEW k \in Key, NEW v \in Version, NEW t \in AfterPut(s, k, v)
    PROVE  /\ t \in Store
           /\ t[k] = v
           /\ \A j \in Key : j # k => t[j] = s[j] \/ t[j] = Nothing
           /\ \A j \in Key : j # k /\ j \notin Lost(s, t) => t[j] = s[j]
           /\ IsFiniteSet(Keys(s)) => IsFiniteSet(Keys(t))
<1>0. v \in Value /\ Nothing \in Value
  BY DEF Value
<1>1. ASSUME t = [s EXCEPT ![k] = v]
      PROVE  /\ t \in Store
             /\ t[k] = v
             /\ \A i \in Key : i # k => t[i] = s[i] \/ t[i] = Nothing
  BY <1>0, <1>1 DEF Store
<1>2. ASSUME NEW j \in Key, t = [[s EXCEPT ![j] = Nothing] EXCEPT ![k] = v]
      PROVE  /\ t \in Store
             /\ t[k] = v
             /\ \A i \in Key : i # k => t[i] = s[i] \/ t[i] = Nothing
  BY <1>0, <1>2 DEF Store
<1>3. /\ t \in Store
      /\ t[k] = v
      /\ \A j \in Key : j # k => t[j] = s[j] \/ t[j] = Nothing
  <2>1. t = [s EXCEPT ![k] = v] \/ \E j \in Key : t = [[s EXCEPT ![j] = Nothing] EXCEPT ![k] = v]
    BY DEF AfterPut, Keys
  <2> QED
    BY <1>0, <1>1, <1>2, <2>1 DEF Store
<1>4. \A j \in Key : j # k /\ j \notin Lost(s, t) => t[j] = s[j]
  BY <1>3 DEF Lost
<1>5. Keys(t) \in SUBSET (Keys(s) \cup {k})
  BY <1>3 DEF Keys
<1>6. IsFiniteSet(Keys(s)) => IsFiniteSet(Keys(t))
  <2>1. PICK A, B : A = Keys(s) /\ B = Keys(t)
    OBVIOUS
  <2>2. IsFiniteSet(A) => IsFiniteSet(A \cup {k})
    BY FS_AddElement
  <2>3. B \in SUBSET (A \cup {k})
    BY <1>5, <2>1
  <2>4. IsFiniteSet(A) => IsFiniteSet(B)
    BY <2>2, <2>3, FS_Subset
  <2> QED
    BY <2>1, <2>4
<1> QED
  BY <1>3, <1>4, <1>6

\* The endpoint of an owner is a node or, by default, perhaps nobody.
LEMMA EndpointType ==
    ASSUME TypeOK, NEW n \in Owner, NEW d \in Owner
    PROVE  /\ Endpoint(n, d) \in Owner
           /\ n \in args.endpoints => Endpoint(n, d) = n
           /\ Endpoint(n, d) \in {n, d}
BY DEF Endpoint, TypeOK

\* What is moved out of a store is finite if the store is.
LEMMA FilteredIs ==
    ASSUME NEW s \in Store, NEW keys \in SUBSET Key
    PROVE  /\ Filtered(keys, s) \in SUBSET (Key \X Version)
           /\ \A e \in Filtered(keys, s) : e[1] \in keys /\ s[e[1]] = e[2]
           /\ \A k \in keys : s[k] # Nothing => <<k, s[k]>> \in Filtered(keys, s)
           /\ \A e, f \in Filtered(keys, s) : e[1] = f[1] => e = f
           /\ IsFiniteSet(Keys(s)) => IsFiniteSet(Filtered(keys, s))
<1>1. \A k \in Key : s[k] # Nothing => s[k] \in Version
  BY DEF Store, Value
<1>2. Filtered(keys, s) \in SUBSET (Key \X Version)
  BY <1>1 DEF Filtered, Keys
<1>3. \A e \in Filtered(keys, s) : \E k \in keys : e = <<k, s[k]>>
  BY DEF Filtered
<1>4. \A k \in keys : s[k] # Nothing => <<k, s[k]>> \in Filtered(keys, s)
  BY DEF Filtered, Keys
<1>5. /\ \A e \in Filtered(keys, s) : e[1] \in keys /\ s[e[1]] = e[2]
      /\ \A e, f \in Filtered(keys, s) : e[1] = f[1] => e = f
  BY <1>3
<1>6. ASSUME IsFiniteSet(Keys(s)) PROVE IsFiniteSet(Filtered(keys, s))
  <2>1. PICK A, B : A = Keys(s) \cap keys /\ B = Filtered(keys, s)
    OBVIOUS
  <2>2. IsFiniteSet(A)
    <3>1. PICK C : C = Keys(s)
      OBVIOUS
    <3>2. A \in SUBSET C /\ IsFiniteSet(C)
      BY <1>6, <2>1, <3>1
    <3> QED
      BY <3>2, FS_Subset
  <2> DEFINE f == [k \in A |-> <<k, s[k]>>]
  <2>3. B = {f[k] : k \in A}
    BY <2>1 DEF Filtered
  <2>4. f \in [A -> B] /\ \A e \in B : \E k \in A : f[k] = e
    BY <2>3
  <2>5. f \in Surjection(A, B)
    <3> HIDE DEF f
    <3> QED
      BY <2>4 DEF Surjection
  <2>6. IsFiniteSet(B)
    <3> HIDE DEF f
    <3> QED
      BY <2>2, <2>5, FS_Surjection
  <2> QED
    BY <2>1, <2>6
<1> QED
  BY <1>2, <1>4, <1>5, <1>6

\* A task that takes the place of another leaves the tasks finite and typed.
LEMMA ReplaceTask ==
    ASSUME Inv, NEW t \in tasks, NEW u \in TaskRecord, Replace(t, u), IsFiniteSet(u.entries)
    PROVE  /\ tasks' \subseteq TaskRecord
           /\ IsFiniteSet(tasks')
           /\ \A v \in tasks' : IsFiniteSet(v.entries)
<1>1. tasks' = (tasks \ {t}) \cup {u}
  BY DEF Replace
<1>2. tasks \subseteq TaskRecord /\ IsFiniteSet(tasks) /\ \A v \in tasks : IsFiniteSet(v.entries)
  BY DEF Inv, TypeOK, Finite, TaskRecord
<1>3. PICK A : A = tasks \ {t}
  OBVIOUS
<1>4. IsFiniteSet(A)
  BY <1>2, <1>3, FS_RemoveElement
<1>5. IsFiniteSet(A \cup {u})
  BY <1>4, FS_AddElement
<1> QED
  BY <1>1, <1>2, <1>3, <1>5
\* Types and finiteness are kept by what happens to the stores, ...
LEMMA TrafficTypes ==
    ASSUME Inv,
           \/ \E k \in Key : RoutePut(k)
           \/ \E k \in Key, n \in Node : Put(k, n)
           \/ \E n \in Node, k \in Key : Forget(n, k)
           \/ \E n \in Node : Crash(n)
           \/ \E r \in Rings : ChangeTopology(r)
    PROVE  TypeOK' /\ Finite'
<1> USE DEF Inv
<1>0. /\ stores \in [Node -> Store]
      /\ Nothing \in Value
      /\ clock \in Nat /\ MaxWrites \in Nat
      /\ IsFiniteSet(calls)
      /\ Cardinality(calls) \in Nat
      /\ clock + Cardinality(calls) <= MaxWrites
      /\ \A n \in Node : IsFiniteSet(Keys(stores[n]))
  BY RebalancerAssumption, FS_CardinalityType DEF TypeOK, Finite, Store, Value
<1>1. ASSUME NEW k \in Key, RoutePut(k) PROVE TypeOK' /\ Finite'
  <2>1. /\ ring[k] \in Node
        /\ clock + Cardinality(calls) < MaxWrites
        /\ <<k, ring[k]>> \notin calls
        /\ calls' = calls \cup {<<k, ring[k]>>}
        /\ UNCHANGED <<stores, ring, clock, pc, report, args, unlisted, all_keys, tasks,
                       loads, runs, history>>
    BY <1>1, RebalancerAssumption DEF RoutePut, TypeOK, Owner
  <2>2. calls' \subseteq Key \X Node
    BY <2>1 DEF TypeOK
  <2>3. PICK x : x = <<k, ring[k]>>
    OBVIOUS
  <2>4. IsFiniteSet(calls') /\ Cardinality(calls') = Cardinality(calls) + 1
    BY <1>0, <2>1, <2>3, FS_AddElement
  <2>5. clock' + Cardinality(calls') <= MaxWrites
    BY <1>0, <2>1, <2>4
  <2>6. TypeOK'
    BY <2>1, <2>2 DEF TypeOK, report, history
  <2>7. Finite'
    BY <2>1, <2>4, <2>5 DEF Finite, Keys, history
  <2> QED
    BY <2>6, <2>7
<1>2. ASSUME NEW k \in Key, NEW n \in Node, Put(k, n) PROVE TypeOK' /\ Finite'
  <2>1. /\ <<k, n>> \in calls
        /\ calls' = calls \ {<<k, n>>}
        /\ clock' = clock + 1
        /\ UNCHANGED <<ring, pc, report, args, unlisted, all_keys, tasks, loads, runs,
                       held, landed, moved>>
    BY <1>2 DEF Put
  <2>2. PICK s \in AfterPut(stores[n], k, clock + 1) :
             /\ stores' = [stores EXCEPT ![n] = s]
             /\ disturbed' = disturbed \cup {k} \cup Lost(stores[n], s)
    BY <1>2 DEF Put
  <2>3. PICK x : x = <<k, n>>
    OBVIOUS
  <2>4. /\ IsFiniteSet(calls')
        /\ Cardinality(calls') = Cardinality(calls) - 1
        /\ Cardinality(calls') \in Nat
    BY <1>0, <2>1, <2>3, FS_RemoveElement, FS_CardinalityType
  <2>5. /\ clock' \in Version
        /\ clock' \in 0..MaxWrites
        /\ clock' + Cardinality(calls') <= MaxWrites
    BY <1>0, <2>1, <2>4 DEF Version
  <2>6. PICK o \in Store, v \in Version : o = stores[n] /\ v = clock + 1
    BY <1>0, <2>1, <2>5
  <2>7. s \in Store /\ IsFiniteSet(Keys(s))
    BY <1>0, <2>2, <2>6, PutChanges
  <2>8. stores' \in [Node -> Store] /\ \A m \in Node : IsFiniteSet(Keys(stores'[m]))
    BY <1>0, <2>2, <2>7
  <2>9. disturbed' \subseteq Key
    BY <2>2 DEF Lost, TypeOK
  <2>10. TypeOK'
    BY <2>1, <2>5, <2>8, <2>9 DEF TypeOK, report, Store, Value
  <2>11. Finite'
    BY <2>1, <2>4, <2>5, <2>8 DEF Finite, Keys
  <2> QED
    BY <2>10, <2>11
<1>3. ASSUME NEW k \in Key, NEW n \in Node, Forget(n, k) PROVE TypeOK' /\ Finite'
  <2>1. /\ stores' = [stores EXCEPT ![n][k] = Nothing]
        /\ disturbed' = disturbed \cup {k}
        /\ UNCHANGED <<ring, calls, clock, pc, report, args, unlisted, all_keys, tasks, loads,
                       runs, held, landed, moved>>
    BY <1>3 DEF Forget
  <2>2. PICK s \in Store : s = [stores[n] EXCEPT ![k] = Nothing]
    BY <1>0 DEF Store
  <2>3. stores' = [stores EXCEPT ![n] = s]
    BY <1>0, <2>1, <2>2
  <2>4. Keys(s) \in SUBSET Keys(stores[n])
    BY <1>0, <2>2 DEF Keys, Store
  <2>5. IsFiniteSet(Keys(s))
    <3>1. PICK A, B : A = Keys(s) /\ B = Keys(stores[n])
      OBVIOUS
    <3>2. A \in SUBSET B /\ IsFiniteSet(B)
      BY <1>0, <2>4, <3>1
    <3> QED
      BY <3>1, <3>2, FS_Subset
  <2>6. stores' \in [Node -> Store] /\ \A m \in Node : IsFiniteSet(Keys(stores'[m]))
    BY <1>0, <2>2, <2>3, <2>5
  <2>7. disturbed' \subseteq Key
    BY <2>1 DEF TypeOK
  <2>8. TypeOK'
    BY <2>1, <2>6, <2>7 DEF TypeOK, report, Store, Value
  <2>9. Finite'
    BY <2>1, <2>6 DEF Finite, Keys
  <2> QED
    BY <2>8, <2>9
<1>4. ASSUME NEW n \in Node, Crash(n) PROVE TypeOK' /\ Finite'
  <2>1. /\ stores' = [stores EXCEPT ![n] = [k \in Key |-> Nothing]]
        /\ loads' = {l \in loads : l.node # n}
        /\ disturbed' = disturbed \cup Keys(stores[n])
        /\ UNCHANGED <<ring, calls, clock, pc, report, args, unlisted, all_keys, tasks, runs,
                       held, landed, moved>>
    BY <1>4 DEF Crash
  <2>2. PICK s \in Store : s = [k \in Key |-> Nothing]
    BY <1>0 DEF Store
  <2>3. Keys(s) = {}
    BY <2>2 DEF Keys
  <2>4. IsFiniteSet(Keys(s))
    BY <2>3, FS_EmptySet
  <2>5. stores' \in [Node -> Store] /\ \A m \in Node : IsFiniteSet(Keys(stores'[m]))
    BY <1>0, <2>1, <2>2, <2>4
  <2>6. disturbed' \subseteq Key /\ loads' \subseteq loads
    BY <2>1 DEF TypeOK, Keys
  <2>7. TypeOK'
    BY <2>1, <2>5, <2>6 DEF TypeOK, report, Store, Value
  <2>8. Finite'
    BY <2>1, <2>5 DEF Finite, Keys
  <2> QED
    BY <2>7, <2>8
<1>5. ASSUME NEW r \in Rings, ChangeTopology(r) PROVE TypeOK' /\ Finite'
  BY <1>5 DEF ChangeTopology, TypeOK, Finite, Keys, report, history
<1> QED
  BY <1>1, <1>2, <1>3, <1>4, <1>5
\* The tasks that are planned share out the keys by their two owners.
Shares(T, ks, old, new) ==
    /\ \A t \in T :
          /\ t.step = "snapshot" /\ t.entries = {} /\ t.result = 0
          /\ t.keys \subseteq ks
          /\ \A k \in t.keys : old[k] = t.old /\ new[k] = t.new
          /\ \E k \in ks : old[k] = t.old /\ new[k] = t.new
    /\ \A k \in ks : \E t \in T : k \in t.keys
    /\ \A t, u \in T : t.old = u.old /\ t.new = u.new => t = u

\* That is what TasksFor makes, one task for each pair.
LEMMA TasksForIs ==
    ASSUME NEW ks \in SUBSET Key, NEW old \in [Key -> Owner], NEW new \in [Key -> Owner],
           NEW T, T = TasksFor(ks, old, new)
    PROVE  /\ T \subseteq TaskRecord
           /\ Shares(T, ks, old, new)
           /\ IsFiniteSet(ks) => IsFiniteSet(T)
<1> DEFINE Of(k) == Task(old[k], new[k], {j \in ks : <<old[j], new[j]>> = <<old[k], new[k]>>})
<1>1. T = {Of(k) : k \in ks}
  <2> DEFINE Pairs == {<<old[k], new[k]>> : k \in ks}
             By(p) == Task(p[1], p[2], {k \in ks : <<old[k], new[k]>> = p})
  <2>1. T = {By(p) : p \in Pairs}
    BY DEF TasksFor
  <2>2. \A k \in ks : By(<<old[k], new[k]>>) = Of(k)
    OBVIOUS
  <2>3. \A p \in Pairs : \E k \in ks : p = <<old[k], new[k]>>
    OBVIOUS
  <2>4. \A k \in ks : <<old[k], new[k]>> \in Pairs
    OBVIOUS
  <2> HIDE DEF Of, By, Pairs
  <2>5. ASSUME NEW t \in T PROVE \E k \in ks : t = Of(k)
    BY <2>1, <2>2, <2>3
  <2>6. ASSUME NEW k \in ks PROVE Of(k) \in T
    <3>1. PICK p : p = <<old[k], new[k]>>
      OBVIOUS
    <3>2. p \in Pairs /\ By(p) = Of(k)
      BY <2>2, <2>4, <3>1
    <3> QED
      BY <2>1, <3>2
  <2> QED
    BY <2>5, <2>6
<1>2. \A k \in ks : /\ Of(k) \in TaskRecord
                    /\ Of(k).step = "snapshot" /\ Of(k).entries = {} /\ Of(k).result = 0
                    /\ Of(k).old = old[k] /\ Of(k).new = new[k]
                    /\ Of(k).keys = {j \in ks : <<old[j], new[j]>> = <<old[k], new[k]>>}
  BY DEF Task, TaskRecord
<1>3. \A j, k \in ks : old[j] = old[k] /\ new[j] = new[k] => Of(j) = Of(k)
  OBVIOUS
<1>4. ASSUME IsFiniteSet(ks) PROVE IsFiniteSet(T)
  <2> DEFINE f == [k \in ks |-> Of(k)]
  <2>1. f \in [ks -> T] /\ \A t \in T : \E k \in ks : f[k] = t
    <3> HIDE DEF Of
    <3> QED
      BY <1>1
  <2>2. f \in Surjection(ks, T)
    <3> HIDE DEF f
    <3> QED
      BY <2>1 DEF Surjection
  <2> HIDE DEF f
  <2> QED
    BY <1>4, <2>2, FS_Surjection
<1> HIDE DEF Of
<1>5. \A t \in T :
         /\ t \in TaskRecord
         /\ t.step = "snapshot" /\ t.entries = {} /\ t.result = 0
         /\ t.keys \subseteq ks
         /\ \A k \in t.keys : old[k] = t.old /\ new[k] = t.new
         /\ \E k \in ks : old[k] = t.old /\ new[k] = t.new
  BY <1>1, <1>2
<1>6. \A k \in ks : \E t \in T : k \in t.keys
  BY <1>1, <1>2
<1>7. \A t, u \in T : t.old = u.old /\ t.new = u.new => t = u
  BY <1>1, <1>2, <1>3
<1> QED
  BY <1>4, <1>5, <1>6, <1>7 DEF Shares

\* The results of the tasks add up to no more than has landed: what a task
\* counts has landed, and no key belongs to two tasks.
LEMMA CountedHaveLanded ==
    ASSUME Inv
    PROVE  /\ MapThenSumSet(LAMBDA t : t.result, tasks) \in Nat
           /\ MapThenSumSet(LAMBDA t : t.result, tasks) <= Cardinality(landed)
<1> DEFINE To(t) == Endpoint(t.new, Local8002)
           F == [t \in tasks |-> IF t.result = 0 THEN {} ELSE {<<To(t), e[1]>> : e \in t.entries}]
<1>1. /\ IsFiniteSet(tasks) /\ IsFiniteSet(landed)
      /\ tasks \subseteq TaskRecord
      /\ \A t \in tasks : TaskFits(t) /\ IsFiniteSet(t.entries)
      /\ \A t, u \in tasks : t.old = u.old /\ t.new = u.new => t = u
  BY DEF Inv, Finite, TypeOK, TasksFit, TaskRecord
<1>2. F \in [tasks -> SUBSET landed]
  BY <1>1 DEF TaskFits
<1>3. ASSUME NEW t \in tasks PROVE t.result \in Nat /\ t.result <= Cardinality(F[t])
  <2>1. PICK A, B, n : A = t.entries /\ B = F[t] /\ n = To(t)
    OBVIOUS
  <2>2. t.result \in Nat
    BY <1>1, <1>3 DEF TaskRecord
  <2>3. IsFiniteSet(B) /\ Cardinality(B) \in Nat
    BY <1>1, <1>2, <2>1, FS_Subset, FS_CardinalityType
  <2>4. CASE t.result = 0
    BY <2>1, <2>3, <2>4
  <2>5. CASE t.result # 0
    <3>1. /\ \A e, f \in A : e[1] = f[1] => e = f
          /\ t.result = Cardinality(A)
          /\ A \subseteq Key \X Version
      BY <1>1, <1>3, <2>1, <2>5 DEF TaskFits, TaskRecord
    <3> DEFINE f == [e \in A |-> <<n, e[1]>>]
    <3>2. B = {<<n, e[1]>> : e \in A}
      BY <2>1, <2>5
    <3>3. f \in [A -> B] /\ \A d, e \in A : f[d] = f[e] => d = e
      BY <3>1, <3>2
    <3>4. f \in Injection(A, B)
      <4> HIDE DEF f
      <4> QED
        BY <3>3 DEF Injection, IsInjective
    <3>5. Cardinality(A) <= Cardinality(B)
      <4> HIDE DEF f, F
      <4> QED
        BY <2>3, <3>4, FS_Injection
    <3> QED
      BY <2>1, <2>2, <3>1, <3>5
  <2> QED
    BY <2>4, <2>5
<1>4. ASSUME NEW t \in tasks, NEW u \in tasks, t # u PROVE F[t] \cap F[u] = {}
  <2> SUFFICES ASSUME NEW p \in F[t] \cap F[u] PROVE FALSE
    OBVIOUS
  <2>1. PICK d \in t.entries : p = <<To(t), d[1]>>
    OBVIOUS
  <2>2. PICK e \in u.entries : p = <<To(u), e[1]>>
    OBVIOUS
  <2>3. d[1] = e[1] /\ d[1] \in t.keys /\ e[1] \in u.keys
    BY <1>1, <2>1, <2>2 DEF TaskFits
  <2>4. t.old = u.old /\ t.new = u.new
    BY <1>1, <2>3 DEF TaskFits
  <2> QED
    BY <1>1, <1>4, <2>4
<1>5. PICK T, U : T = tasks /\ U = landed
  OBVIOUS
<1> HIDE DEF F
<1>6. /\ IsFiniteSet(T) /\ IsFiniteSet(U)
      /\ F \in [T -> SUBSET U]
      /\ \A t \in T : t.result \in Nat /\ t.result <= Cardinality(F[t])
      /\ \A t, u \in T : t # u => F[t] \cap F[u] = {}
  BY <1>1, <1>2, <1>3, <1>4, <1>5
<1>7. /\ MapThenSumSet(LAMBDA t : t.result, T) \in Nat
      /\ MapThenSumSet(LAMBDA t : t.result, T) <= Cardinality(U)
  BY <1>6, SumOfShares
<1> QED
  BY <1>5, <1>7
\* ... by the start, the listing and the planning of a rebalance, ...
LEMMA PlanningTypes ==
    ASSUME Inv,
           \/ \E c \in Caller : AlreadyInProgress(c)
           \/ \E c \in Caller, old, new \in Rings, E \in SUBSET Node : Rebalance(c, old, new, E)
           \/ \E c \in Caller, n \in Node : FetchKeys(c, n) \/ FetchFails(c, n)
           \/ \E c \in Caller : PlanMigrations(c)
    PROVE  TypeOK' /\ Finite'
<1> USE DEF Inv
<1>1. ASSUME NEW c \in Caller, AlreadyInProgress(c) PROVE TypeOK' /\ Finite'
  BY <1>1 DEF AlreadyInProgress, TypeOK, Finite, Keys, traffic, report, history
<1>2. ASSUME NEW c \in Caller, NEW old \in Rings, NEW new \in Rings,
             NEW E \in SUBSET Node, Rebalance(c, old, new, E)
      PROVE  TypeOK' /\ Finite'
  <2>1. /\ runs < MaxRuns
        /\ in_progress' = TRUE /\ migrated_keys' = 0 /\ affected_nodes' = {}
        /\ pc' = [pc EXCEPT ![c] = "listing"]
        /\ args' = [old |-> old, new |-> new, endpoints |-> E]
        /\ unlisted' = E /\ all_keys' = {} /\ runs' = runs + 1
        /\ held' = [k \in Key |-> IF {old[k], new[k]} \subseteq E
                                  THEN stores[old[k]][k] ELSE Nothing]
        /\ disturbed' = {} /\ landed' = {}
        /\ moved' = moved \cup {k \in Key : old[k] # new[k]}
        /\ UNCHANGED <<stores, ring, calls, clock, tasks, loads>>
    BY <1>2 DEF Rebalance, traffic
  <2>2. held' \in [Key -> Version \cup {Nothing}]
    BY <2>1 DEF TypeOK
  <2>3. runs' \in 0..MaxRuns
    BY <2>1, RebalancerAssumption DEF TypeOK
  <2>4. args' \in [old : Rings, new : Rings, endpoints : SUBSET Node]
    BY <2>1
  <2>5. pc' \in [Caller -> {"idle", "listing", "migrating", "already_in_progress"}]
    BY <2>1 DEF TypeOK
  <2>6. TypeOK'
    BY <2>1, <2>2, <2>3, <2>4, <2>5 DEF TypeOK
  <2>7. Finite'
    BY <2>1, FS_EmptySet DEF Finite, Keys
  <2> QED
    BY <2>6, <2>7
<1>3. ASSUME NEW c \in Caller, NEW n \in Node, FetchKeys(c, n) PROVE TypeOK' /\ Finite'
  <2>1. /\ unlisted' = unlisted \ {n}
        /\ all_keys' = all_keys \cup Keys(stores[n])
        /\ UNCHANGED <<traffic, pc, report, args, tasks, loads, runs, history>>
    BY <1>3 DEF FetchKeys
  <2>2. PICK A, B : A = all_keys /\ B = Keys(stores[n])
    OBVIOUS
  <2>3. IsFiniteSet(A) /\ IsFiniteSet(B) /\ A \subseteq Key /\ B \subseteq Key
    BY <2>2 DEF Finite, TypeOK, Keys
  <2>4. IsFiniteSet(all_keys') /\ all_keys' \subseteq Key
    BY <2>1, <2>2, <2>3, FS_Union
  <2>5. TypeOK'
    BY <2>1, <2>4 DEF TypeOK, traffic, report, history
  <2>6. Finite'
    BY <2>1, <2>4 DEF Finite, Keys, traffic, history
  <2> QED
    BY <2>5, <2>6
<1>4. ASSUME NEW c \in Caller, NEW n \in Node, FetchFails(c, n) PROVE TypeOK' /\ Finite'
  BY <1>4 DEF FetchFails, TypeOK, Finite, Keys, traffic, report
<1>5. ASSUME NEW c \in Caller, PlanMigrations(c) PROVE TypeOK' /\ Finite'
  <2>1. PICK ks : ks = {k \in all_keys : OwnerChanged(k)}
    OBVIOUS
  <2>2. /\ tasks' = TasksFor(ks, args.old, args.new)
        /\ affected_nodes' = UNION {{args.old[k], args.new[k]} : k \in ks}
        /\ all_keys' = {}
        /\ pc' = [pc EXCEPT ![c] = "migrating"]
        /\ UNCHANGED <<traffic, in_progress, migrated_keys, args, unlisted, loads, runs,
                       history>>
    BY <1>5, <2>1 DEF PlanMigrations
  <2>3. PICK old, new : old = args.old /\ new = args.new
    OBVIOUS
  <2>4. old \in [Key -> Owner] /\ new \in [Key -> Owner] /\ ks \in SUBSET Key
    BY <2>1, <2>3, RebalancerAssumption DEF TypeOK
  <2>5. IsFiniteSet(ks)
    <3>1. PICK A : A = all_keys
      OBVIOUS
    <3>2. IsFiniteSet(A) /\ ks \in SUBSET A
      BY <2>1, <3>1 DEF Finite
    <3> QED
      BY <3>2, FS_Subset
  <2>6. PICK T : T = tasks'
    OBVIOUS
  <2>7. T = TasksFor(ks, old, new)
    BY <2>2, <2>3, <2>6
  <2>8. /\ T \subseteq TaskRecord
        /\ IsFiniteSet(T)
        /\ \A t \in T : t.entries = {}
    BY <2>4, <2>5, <2>7, TasksForIs DEF Shares
  <2>9. affected_nodes' \subseteq Owner
    BY <2>2, <2>3, <2>4
  <2>10. pc' \in [Caller -> {"idle", "listing", "migrating", "already_in_progress"}]
    BY <2>2 DEF TypeOK
  <2>11. TypeOK'
    BY <2>2, <2>6, <2>8, <2>9, <2>10 DEF TypeOK, TaskRecord, traffic, history
  <2>12. Finite'
    BY <2>2, <2>6, <2>8, FS_EmptySet DEF Finite, Keys, traffic, history
  <2> QED
    BY <2>11, <2>12
<1> QED
  BY <1>1, <1>2, <1>3, <1>4, <1>5

\* ... by the steps of the tasks, ...
LEMMA TaskTypes ==
    ASSUME Inv, NEW c \in Caller, NEW t \in tasks,
           \/ Snapshot(c, t) \/ SnapshotFails(c, t)
           \/ LoadAcked(c, t) \/ LoadFails(c, t)
    PROVE  TypeOK' /\ Finite'
<1> USE DEF Inv
<1>0. /\ t \in TaskRecord /\ IsFiniteSet(t.entries) /\ t.entries \in SUBSET (Key \X Version)
      /\ t.old \in Owner /\ t.new \in Owner /\ t.keys \in SUBSET Key
  BY DEF TypeOK, Finite, TaskRecord
<1>1. CASE Snapshot(c, t)
  <2>1. PICK from, to : from = Endpoint(t.old, Local8001) /\ to = Endpoint(t.new, Local8002)
    OBVIOUS
  <2>2. PICK es : es = Filtered(t.keys, stores[from])
    OBVIOUS
  <2>3. PICK p : p = IF es = {} THEN "done" ELSE "load"
    OBVIOUS
  <2>4. /\ pc[c] = "migrating"
        /\ from # NoNode
        /\ Replace(t, [t EXCEPT !.entries = es, !.step = p])
        /\ loads' = IF es = {} \/ to = NoNode THEN loads
                    ELSE loads \cup {[run |-> runs, old |-> t.old, new |-> t.new,
                                      node |-> to, left |-> es]}
        /\ UNCHANGED <<traffic, pc, report, args, unlisted, all_keys, runs, history>>
    BY <1>1, <2>1, <2>2, <2>3 DEF Snapshot
  <2>5. from \in Node /\ to \in Owner
    BY <1>0, <2>1, <2>4, EndpointType, RebalancerAssumption DEF Owner
  <2>6. PICK s \in Store : s = stores[from] /\ IsFiniteSet(Keys(s))
    BY <2>5 DEF TypeOK, Store, Value, Finite
  <2>7. PICK ks \in SUBSET Key : ks = t.keys
    BY <1>0
  <2>8. es \in SUBSET (Key \X Version) /\ IsFiniteSet(es)
    BY <2>2, <2>6, <2>7, FilteredIs
  <2>9. PICK u : u = [t EXCEPT !.entries = es, !.step = p]
    OBVIOUS
  <2>10. u \in TaskRecord /\ u.entries = es
    BY <1>0, <2>3, <2>8, <2>9 DEF TaskRecord
  <2>11. /\ tasks' \subseteq TaskRecord
         /\ IsFiniteSet(tasks')
         /\ \A v \in tasks' : IsFiniteSet(v.entries)
    BY <2>4, <2>8, <2>9, <2>10, ReplaceTask
  <2>12. runs \in 1..MaxRuns
    BY <2>4 DEF TypeOK, Phases, OneAtATime, Active
  <2>13. loads' \subseteq LoadRecord
    <3>1. to # NoNode => [run |-> runs, old |-> t.old, new |-> t.new,
                          node |-> to, left |-> es] \in LoadRecord
      BY <1>0, <2>5, <2>8, <2>12 DEF LoadRecord, Owner
    <3>2. loads \subseteq LoadRecord
      BY DEF TypeOK, LoadRecord
    <3> QED
      BY <2>4, <3>1, <3>2
  <2>14. TypeOK'
    BY <2>4, <2>11, <2>13 DEF TypeOK, TaskRecord, LoadRecord, traffic, report, history
  <2>15. Finite'
    BY <2>4, <2>11 DEF Finite, Keys, traffic, history
  <2> QED
    BY <2>14, <2>15
<1>2. CASE SnapshotFails(c, t)
  <2>1. PICK u : u = [t EXCEPT !.step = "done"]
    OBVIOUS
  <2>2. u \in TaskRecord /\ IsFiniteSet(u.entries)
    BY <1>0, <2>1 DEF TaskRecord
  <2>3. /\ Replace(t, u)
        /\ disturbed' = disturbed \cup t.keys
        /\ UNCHANGED <<traffic, pc, report, args, unlisted, all_keys, loads, runs, held,
                       landed, moved>>
    BY <1>2, <2>1 DEF SnapshotFails
  <2>4. /\ tasks' \subseteq TaskRecord
        /\ IsFiniteSet(tasks')
        /\ \A v \in tasks' : IsFiniteSet(v.entries)
    BY <2>2, <2>3, ReplaceTask
  <2>5. TypeOK'
    BY <1>0, <2>3, <2>4 DEF TypeOK, TaskRecord, traffic, report
  <2>6. Finite'
    BY <2>3, <2>4 DEF Finite, Keys, traffic
  <2> QED
    BY <2>5, <2>6
<1>3. CASE LoadAcked(c, t)
  <2>1. PICK u, r : r = Cardinality(t.entries) /\ u = [t EXCEPT !.step = "done", !.result = r]
    OBVIOUS
  <2>2. r \in Nat
    <3>1. PICK A : A = t.entries
      OBVIOUS
    <3> QED
      BY <1>0, <2>1, <3>1, FS_CardinalityType
  <2>3. u \in TaskRecord /\ IsFiniteSet(u.entries)
    BY <1>0, <2>1, <2>2 DEF TaskRecord
  <2>4. /\ Replace(t, u)
        /\ loads' \subseteq loads
        /\ UNCHANGED <<traffic, pc, report, args, unlisted, all_keys, runs, history>>
    BY <1>3, <2>1 DEF LoadAcked
  <2>5. /\ tasks' \subseteq TaskRecord
        /\ IsFiniteSet(tasks')
        /\ \A v \in tasks' : IsFiniteSet(v.entries)
    BY <2>3, <2>4, ReplaceTask
  <2>6. TypeOK'
    BY <2>4, <2>5 DEF TypeOK, TaskRecord, traffic, report, history
  <2>7. Finite'
    BY <2>4, <2>5 DEF Finite, Keys, traffic, history
  <2> QED
    BY <2>6, <2>7
<1>4. CASE LoadFails(c, t)
  <2>1. PICK u : u = [t EXCEPT !.step = "done"]
    OBVIOUS
  <2>2. u \in TaskRecord /\ IsFiniteSet(u.entries)
    BY <1>0, <2>1 DEF TaskRecord
  <2>3. /\ Replace(t, u)
        /\ loads' \subseteq loads
        /\ disturbed' = disturbed \cup t.keys
        /\ UNCHANGED <<traffic, pc, report, args, unlisted, all_keys, runs, held,
                       landed, moved>>
    BY <1>4, <2>1 DEF LoadFails
  <2>4. /\ tasks' \subseteq TaskRecord
        /\ IsFiniteSet(tasks')
        /\ \A v \in tasks' : IsFiniteSet(v.entries)
    BY <2>2, <2>3, ReplaceTask
  <2>5. TypeOK'
    BY <1>0, <2>3, <2>4 DEF TypeOK, TaskRecord, traffic, report
  <2>6. Finite'
    BY <2>3, <2>4 DEF Finite, Keys, traffic
  <2> QED
    BY <2>5, <2>6
<1> QED
  BY <1>1, <1>2, <1>3, <1>4

\* ... and by the end of a rebalance and the puts of its bulk loads.
LEMMA LandingTypes ==
    ASSUME Inv,
           \/ \E c \in Caller : Complete(c)
           \/ \E l \in loads : \E e \in l.left : LoadEntry(l, e)
    PROVE  TypeOK' /\ Finite'
<1> USE DEF Inv
<1>1. ASSUME NEW c \in Caller, Complete(c) PROVE TypeOK' /\ Finite'
  <2>1. PICK r : r = MapThenSumSet(LAMBDA t : t.result, tasks)
    OBVIOUS
  <2>2. r \in Nat
    BY <2>1, CountedHaveLanded
  <2>3. /\ migrated_keys' = migrated_keys + r
        /\ tasks' = {} /\ in_progress' = FALSE
        /\ pc' = [pc EXCEPT ![c] = "idle"]
        /\ UNCHANGED <<traffic, affected_nodes, args, unlisted, all_keys, loads, runs,
                       history>>
    BY <1>1, <2>1 DEF Complete
  <2>4. migrated_keys' \in Nat
    BY <2>2, <2>3 DEF TypeOK
  <2>5. pc' \in [Caller -> {"idle", "listing", "migrating", "already_in_progress"}]
    BY <2>3 DEF TypeOK
  <2>6. TypeOK'
    BY <2>3, <2>4, <2>5 DEF TypeOK, traffic, history
  <2>7. Finite'
    BY <2>3, FS_EmptySet DEF Finite, Keys, traffic, history
  <2> QED
    BY <2>6, <2>7
<1>2. ASSUME NEW l \in loads, NEW e \in l.left, LoadEntry(l, e) PROVE TypeOK' /\ Finite'
  <2>0. /\ l \in LoadRecord /\ l.node \in Node /\ e[1] \in Key /\ e[2] \in Version
        /\ loads \subseteq LoadRecord
        /\ stores \in [Node -> Store]
        /\ \A n \in Node : IsFiniteSet(Keys(stores[n]))
    BY DEF TypeOK, LoadRecord, Store, Value, Finite
  <2>1. PICK rest : rest = [l EXCEPT !.left = @ \ {e}]
    OBVIOUS
  <2>2. PICK s \in AfterPut(stores[l.node], e[1], e[2]) :
              /\ stores' = [stores EXCEPT ![l.node] = s]
              /\ disturbed' = disturbed \cup Lost(stores[l.node], s) \cup
                                 (IF l.run = runs THEN {} ELSE {e[1]})
    BY <1>2 DEF LoadEntry
  <2>3. /\ landed' = IF l.run = runs THEN landed \cup {<<l.node, e[1]>>} ELSE landed
        /\ loads' \subseteq loads \cup {rest}
        /\ UNCHANGED <<ring, calls, clock, pc, report, args, unlisted, all_keys, tasks, runs,
                       held, moved>>
    BY <1>2, <2>1 DEF LoadEntry
  <2>4. PICK o \in Store, k \in Key, v \in Version :
              o = stores[l.node] /\ k = e[1] /\ v = e[2] /\ IsFiniteSet(Keys(o))
    BY <2>0
  <2>5. s \in Store /\ IsFiniteSet(Keys(s))
    BY <2>2, <2>4, PutChanges
  <2>6. stores' \in [Node -> Store] /\ \A m \in Node : IsFiniteSet(Keys(stores'[m]))
    BY <2>0, <2>2, <2>5
  <2>7. rest \in LoadRecord
    BY <2>0, <2>1 DEF LoadRecord
  <2>8. loads' \subseteq LoadRecord
    BY <2>0, <2>3, <2>7
  <2>9. disturbed' \subseteq Key
    BY <2>0, <2>2 DEF TypeOK, Lost
  <2>10. landed' \subseteq Node \X Key /\ IsFiniteSet(landed')
    <3>1. PICK p, A : p = <<l.node, e[1]>> /\ A = landed
      OBVIOUS
    <3>2. IsFiniteSet(A) /\ A \subseteq Node \X Key /\ p \in Node \X Key
      BY <2>0, <3>1 DEF Finite, TypeOK
    <3>3. IsFiniteSet(A \cup {p})
      BY <3>2, FS_AddElement
    <3> QED
      BY <2>3, <3>1, <3>2, <3>3
  <2>11. TypeOK'
    BY <2>3, <2>6, <2>8, <2>9, <2>10 DEF TypeOK, report, Store, Value, LoadRecord
  <2>12. Finite'
    BY <2>3, <2>6, <2>10 DEF Finite, Keys
  <2> QED
    BY <2>11, <2>12
<1> QED
  BY <1>1, <1>2
-----------------------------------------------------------------------------
(* Tasks, bulk loads and what they have put. *)

Work ==
    /\ Phases
    /\ TasksFit
    /\ LoadsFit
    /\ OnlyMovedKeys
    /\ ChangedAreNamed

\* A step that leaves the work of rebalances alone.
LEMMA WorkUntouched ==
    ASSUME Inv, UNCHANGED <<report, args, tasks, loads, runs, landed, moved>>,
           \A c \in Caller : pc'[c] = "listing" => pc[c] = "listing"
    PROVE  Work'
<1>1. Phases'
  BY DEF Inv, Phases, report
<1>2. TasksFit'
  BY DEF Inv, TasksFit, TaskFits, LoadOf, OwnerChanged, Endpoint, report
<1>3. LoadsFit'
  BY DEF Inv, LoadsFit, LoadFits, OwnerChanged, Endpoint, report
<1>4. OnlyMovedKeys' /\ ChangedAreNamed'
  BY DEF Inv, OnlyMovedKeys, ChangedAreNamed, OwnerChanged, report
<1> QED
  BY <1>1, <1>2, <1>3, <1>4 DEF Work

\* A crash of a node takes bulk loads away.
LEMMA CrashWork ==
    ASSUME Inv, NEW n \in Node, Crash(n)
    PROVE  Work'
<1>1. /\ loads' \subseteq loads
      /\ UNCHANGED <<pc, in_progress, migrated_keys, affected_nodes, args, tasks, runs,
                     landed, moved>>
  BY DEF Crash, report
<1>2. Phases'
  BY <1>1 DEF Inv, Phases
<1>3. TasksFit'
  BY <1>1 DEF Inv, TasksFit, TaskFits, LoadOf, OwnerChanged, Endpoint
<1>4. LoadsFit'
  BY <1>1 DEF Inv, LoadsFit, LoadFits, OwnerChanged, Endpoint
<1>5. OnlyMovedKeys' /\ ChangedAreNamed'
  BY <1>1 DEF Inv, OnlyMovedKeys, ChangedAreNamed, OwnerChanged
<1> QED
  BY <1>2, <1>3, <1>4, <1>5 DEF Work

\* A new rebalance begins when the last one has no task left, and the bulk
\* loads that are still going on belong to earlier ones.
LEMMA RebalanceWork ==
    ASSUME Inv, NEW c \in Caller, NEW old \in Rings, NEW new \in Rings,
           NEW E \in SUBSET Node, Rebalance(c, old, new, E)
    PROVE  Work'
<1>1. /\ ~ in_progress
      /\ in_progress' = TRUE /\ migrated_keys' = 0
      /\ args'.old = old /\ args'.new = new
      /\ runs' = runs + 1
      /\ landed' = {}
      /\ moved' = moved \cup {k \in Key : old[k] # new[k]}
      /\ tasks' = tasks /\ loads' = loads
  BY DEF Rebalance
<1>2. /\ tasks = {}
      /\ runs \in Nat
      /\ \A l \in loads : l.run \in Nat /\ l.run <= runs
      /\ \A l \in loads : \A e \in l.left : e[1] \in moved
  BY <1>1, RebalancerAssumption DEF Inv, Phases, TypeOK, LoadsFit, OnlyMovedKeys
<1>3. \A l \in loads' : l.run <= runs' /\ l.run # runs'
  BY <1>1, <1>2
<1>4. Phases'
  BY <1>1, <1>2, <1>3 DEF Phases
<1>5. TasksFit'
  BY <1>1, <1>2 DEF TasksFit
<1>6. LoadsFit'
  BY <1>3 DEF LoadsFit
<1>7. OnlyMovedKeys' /\ ChangedAreNamed'
  BY <1>1, <1>2 DEF OnlyMovedKeys, ChangedAreNamed, OwnerChanged
<1> QED
  BY <1>4, <1>5, <1>6, <1>7 DEF Work

\* The tasks are planned when nothing has landed.
LEMMA PlanWork ==
    ASSUME Inv, NEW c \in Caller, PlanMigrations(c)
    PROVE  Work'
<1>1. PICK ks : ks = {k \in all_keys : OwnerChanged(k)}
  OBVIOUS
<1>2. /\ pc[c] = "listing"
      /\ tasks' = TasksFor(ks, args.old, args.new)
      /\ affected_nodes' = UNION {{args.old[k], args.new[k]} : k \in ks}
      /\ pc' = [pc EXCEPT ![c] = "migrating"]
      /\ UNCHANGED <<in_progress, migrated_keys, args, loads, runs, landed, moved>>
  BY <1>1 DEF PlanMigrations, history
<1>3. PICK old, new, T : old = args.old /\ new = args.new /\ T = tasks'
  OBVIOUS
<1>4. old \in [Key -> Owner] /\ new \in [Key -> Owner] /\ ks \in SUBSET Key
  BY <1>1, <1>3, RebalancerAssumption DEF Inv, TypeOK
<1>5. T = TasksFor(ks, old, new)
  BY <1>2, <1>3
<1>6. Shares(T, ks, old, new)
  BY <1>4, <1>5, TasksForIs
<1>7. /\ in_progress
      /\ landed = {}
      /\ \A l \in loads : l.run # runs
      /\ \A d \in Caller : pc'[d] # "listing"
  BY <1>2 DEF Inv, Phases, OneAtATime, Active, TypeOK
<1>8. Phases'
  BY <1>2, <1>7 DEF Inv, Phases
<1>9. TasksFit'
  <2>1. ASSUME NEW t \in T PROVE TaskFits(t)'
    <3>1. t.new \in affected_nodes'
      BY <1>2, <1>3, <1>6, <2>1 DEF Shares
    <3>2. \A k \in t.keys : OwnerChanged(k)' /\ args'.old[k] = t.old /\ args'.new[k] = t.new
      BY <1>1, <1>2, <1>3, <1>6, <2>1 DEF OwnerChanged, Shares
    <3>3. LoadOf(t)' = {}
      BY <1>2, <1>7 DEF LoadOf
    <3> QED
      BY <1>6, <2>1, <3>1, <3>2, <3>3 DEF TaskFits, Shares
  <2> QED
    BY <1>3, <1>6, <2>1 DEF TasksFit, Shares
<1>10. LoadsFit'
  BY <1>2, <1>7 DEF Inv, LoadsFit
<1>11. OnlyMovedKeys' /\ ChangedAreNamed'
  BY <1>2, <1>7 DEF Inv, OnlyMovedKeys, ChangedAreNamed, OwnerChanged
<1> QED
  BY <1>8, <1>9, <1>10, <1>11 DEF Work

\* gather() has returned: the tasks are gone.
LEMMA CompleteWork ==
    ASSUME Inv, NEW c \in Caller, Complete(c)
    PROVE  Work'
<1>1. /\ tasks' = {} /\ in_progress' = FALSE
      /\ pc' = [pc EXCEPT ![c] = "idle"]
      /\ UNCHANGED <<affected_nodes, args, loads, runs, landed, moved>>
  BY DEF Complete, history
<1>2. \A d \in Caller : pc'[d] = "listing" => pc[d] = "listing"
  BY <1>1 DEF Inv, TypeOK
<1>3. Phases'
  BY <1>1, <1>2 DEF Inv, Phases
<1>4. TasksFit'
  BY <1>1 DEF TasksFit
<1>5. LoadsFit'
  BY <1>1 DEF Inv, LoadsFit, LoadFits, OwnerChanged, Endpoint
<1>6. OnlyMovedKeys' /\ ChangedAreNamed'
  BY <1>1 DEF Inv, OnlyMovedKeys, ChangedAreNamed, OwnerChanged
<1> QED
  BY <1>3, <1>4, <1>5, <1>6 DEF Work

\* A task becomes one with the same keys: what has to be shown of its new
\* state is that it fits, and of the bulk loads that a new one is its own.
LEMMA TaskMoves ==
    ASSUME Inv, NEW t \in tasks, NEW u, Replace(t, u),
           u.old = t.old, u.new = t.new,
           UNCHANGED <<pc, in_progress, migrated_keys, affected_nodes, args, runs, landed,
                       moved>>,
           TaskFits(u)',
           \A l \in loads' : l \in loads \/ (l.run = runs /\ l.old = t.old /\ l.new = t.new)
    PROVE  Phases' /\ TasksFit' /\ ChangedAreNamed'
<1>1. tasks' = (tasks \ {t}) \cup {u}
  BY DEF Replace
<1>2. Phases'
  BY DEF Inv, Phases
<1>3. ASSUME NEW v \in tasks, v # t PROVE TaskFits(v)'
  <2>1. TaskFits(v)
    BY <1>3 DEF Inv, TasksFit
  <2>2. ~ (v.old = t.old /\ v.new = t.new)
    BY <1>3 DEF Inv, TasksFit
  <2>3. LoadOf(v)' \subseteq LoadOf(v)
    BY <2>2 DEF LoadOf
  <2> QED
    BY <2>1, <2>3 DEF TaskFits, OwnerChanged, Endpoint
<1>4. \A v, w \in tasks' : v.old = w.old /\ v.new = w.new => v = w
  BY <1>1 DEF Inv, TasksFit
<1>5. TasksFit'
  BY <1>1, <1>3, <1>4 DEF TasksFit
<1>6. ChangedAreNamed'
  BY DEF Inv, ChangedAreNamed
<1> QED
  BY <1>2, <1>5, <1>6

\* A task that is done leaves the bulk loads that remain as they were.
LEMMA DoneWork ==
    ASSUME Inv, NEW t \in tasks, NEW u, Replace(t, u),
           u.old = t.old, u.new = t.new, u.step = "done",
           UNCHANGED <<pc, in_progress, migrated_keys, affected_nodes, args, runs, landed,
                       moved>>,
           TaskFits(u)', loads' \subseteq loads
    PROVE  Work'
<1>1. Phases' /\ TasksFit' /\ ChangedAreNamed'
  BY TaskMoves
<1>2. \A v \in tasks' : v.step = "load" => v \in tasks
  BY DEF Replace
<1>3. LoadsFit'
  BY <1>2 DEF Inv, LoadsFit, LoadFits, OwnerChanged, Endpoint
<1>4. OnlyMovedKeys'
  BY DEF Inv, OnlyMovedKeys, OwnerChanged
<1> QED
  BY <1>1, <1>3, <1>4 DEF Work
\* The snapshot is posted as a bulk load: the only one of this pair of owners.
LEMMA SnapshotWork ==
    ASSUME Inv, NEW c \in Caller, NEW t \in tasks, Snapshot(c, t)
    PROVE  Work'
<1>1. PICK from, to : from = Endpoint(t.old, Local8001) /\ to = Endpoint(t.new, Local8002)
  OBVIOUS
<1>2. PICK es : es = Filtered(t.keys, stores[from])
  OBVIOUS
<1>3. PICK p : p = IF es = {} THEN "done" ELSE "load"
  OBVIOUS
<1>4. PICK u : u = [t EXCEPT !.entries = es, !.step = p]
  OBVIOUS
<1>5. PICK m : m = [run |-> runs, old |-> t.old, new |-> t.new, node |-> to, left |-> es]
  OBVIOUS
<1>6. /\ t.step = "snapshot"
      /\ from # NoNode
      /\ Replace(t, u)
      /\ loads' \subseteq loads \cup {m}
      /\ UNCHANGED <<pc, in_progress, migrated_keys, affected_nodes, args, runs, landed,
                     moved>>
  BY <1>1, <1>2, <1>3, <1>4, <1>5 DEF Snapshot, report, history
<1>7. /\ t \in TaskRecord /\ TaskFits(t)
      /\ t.old \in Owner /\ t.new \in Owner /\ t.keys \in SUBSET Key
  BY DEF Inv, TypeOK, TasksFit, TaskRecord
<1>8. from \in Node
  BY <1>1, <1>6, <1>7, EndpointType, RebalancerAssumption DEF Owner, Inv
<1>9. PICK s \in Store, ks \in SUBSET Key : s = stores[from] /\ ks = t.keys
  BY <1>7, <1>8 DEF Inv, TypeOK, Store, Value
<1>10. /\ \A e \in es : e[1] \in t.keys
       /\ \A e, f \in es : e[1] = f[1] => e = f
  BY <1>2, <1>9, FilteredIs
<1>11. /\ u.old = t.old /\ u.new = t.new /\ u.keys = t.keys
       /\ u.entries = es /\ u.step = p /\ u.result = t.result
  BY <1>4, <1>7 DEF TaskRecord
<1>12. m.run = runs /\ m.old = t.old /\ m.new = t.new /\ m.node = to /\ m.left = es
  BY <1>5
<1>13. u.step # "snapshot" /\ u.result = 0
  BY <1>3, <1>6, <1>7, <1>11 DEF TaskFits
<1>14. TaskFits(u)'
  BY <1>6, <1>7, <1>10, <1>11, <1>13 DEF TaskFits, OwnerChanged
<1>15. Phases' /\ TasksFit' /\ ChangedAreNamed'
  <2>1. \A l \in loads' : l \in loads \/ (l.run = runs /\ l.old = t.old /\ l.new = t.new)
    BY <1>6, <1>12
  <2> QED
    BY <1>6, <1>11, <1>14, <2>1, TaskMoves
<1>16. tasks' = (tasks \ {t}) \cup {u}
  BY <1>6 DEF Replace
<1>17. \A k \in t.keys : OwnerChanged(k) /\ args.old[k] = t.old /\ args.new[k] = t.new
  BY <1>7 DEF TaskFits
<1>18. LoadsFit'
  <2>1. ASSUME NEW l \in loads, l.run = runs PROVE LoadFits(l)'
    <3>1. LoadFits(l)
      BY <2>1 DEF Inv, LoadsFit
    <3>2. l \notin LoadOf(t)
      BY <1>6, <1>7 DEF TaskFits
    <3>3. ~ (t.old = l.old /\ t.new = l.new)
      BY <2>1, <3>2 DEF LoadOf
    <3> QED
      BY <1>6, <1>11, <1>16, <3>1, <3>3 DEF LoadFits, OwnerChanged, Endpoint
  <2>2. LoadFits(m)'
    <3>1. m.new \in affected_nodes' /\ m.node = Endpoint(m.new, Local8002)'
      BY <1>1, <1>6, <1>7, <1>12 DEF TaskFits, Endpoint
    <3>2. \A e \in m.left : OwnerChanged(e[1])' /\ args'.old[e[1]] = m.old /\ args'.new[e[1]] = m.new
      BY <1>6, <1>10, <1>12, <1>17 DEF OwnerChanged
    <3>3. \A v \in tasks' : v.old = u.old /\ v.new = u.new => v = u
      BY <1>15, <1>16 DEF TasksFit
    <3>4. \A v \in tasks' : v.old = m.old /\ v.new = m.new => v.entries = m.left
      BY <1>11, <1>12, <3>3
    <3> QED
      BY <3>1, <3>2, <3>4 DEF LoadFits
  <2>3. \A l \in loads : l.run <= runs
    BY DEF Inv, LoadsFit
  <2>4. m.run <= runs
    BY <1>12, RebalancerAssumption DEF Inv, TypeOK
  <2>5. ASSUME NEW l \in loads' PROVE l.run <= runs' /\ (l.run = runs' => LoadFits(l)')
    BY <1>6, <2>1, <2>2, <2>3, <2>4, <2>5
  <2> QED
    BY <2>5 DEF LoadsFit
<1>19. OnlyMovedKeys'
  <2>1. \A k \in Key : OwnerChanged(k) => k \in moved
    BY DEF Inv, OnlyMovedKeys
  <2>2. \A e \in m.left : e[1] \in moved
    BY <1>7, <1>10, <1>12, <1>17, <2>1
  <2>3. \A l \in loads : \A e \in l.left : e[1] \in moved
    BY DEF Inv, OnlyMovedKeys
  <2> QED
    BY <1>6, <2>1, <2>2, <2>3 DEF OnlyMovedKeys, OwnerChanged
<1> QED
  BY <1>15, <1>18, <1>19 DEF Work

\* A failed request leaves the result of its task at zero.
LEMMA FailureWork ==
    ASSUME Inv, NEW c \in Caller, NEW t \in tasks, SnapshotFails(c, t) \/ LoadFails(c, t)
    PROVE  Work'
<1>1. PICK u : u = [t EXCEPT !.step = "done"]
  OBVIOUS
<1>2. /\ t.step # "done"
      /\ Replace(t, u)
      /\ loads' \subseteq loads
      /\ UNCHANGED <<pc, in_progress, migrated_keys, affected_nodes, args, runs, landed,
                     moved>>
  BY <1>1 DEF SnapshotFails, LoadFails, report
<1>3. t \in TaskRecord /\ TaskFits(t)
  BY DEF Inv, TypeOK, TasksFit, TaskRecord
<1>4. /\ u.old = t.old /\ u.new = t.new /\ u.keys = t.keys
      /\ u.entries = t.entries /\ u.step = "done" /\ u.result = 0
  BY <1>1, <1>2, <1>3 DEF TaskRecord, TaskFits
<1>5. TaskFits(u)'
  BY <1>2, <1>3, <1>4 DEF TaskFits, OwnerChanged
<1> QED
  BY <1>2, <1>4, <1>5, DoneWork

\* The node has acknowledged a bulk load of which nothing is left.
LEMMA AckWork ==
    ASSUME Inv, NEW c \in Caller, NEW t \in tasks, LoadAcked(c, t)
    PROVE  Work'
<1>1. PICK r, u : r = Cardinality(t.entries) /\ u = [t EXCEPT !.step = "done", !.result = r]
  OBVIOUS
<1>2. /\ t.step = "load"
      /\ Replace(t, u)
      /\ loads' \subseteq loads
      /\ UNCHANGED <<pc, in_progress, migrated_keys, affected_nodes, args, runs, landed,
                     moved>>
  BY <1>1 DEF LoadAcked, report, history
<1>3. PICK l \in LoadOf(t) : l.left = {}
  BY DEF LoadAcked
<1>4. t \in TaskRecord /\ TaskFits(t)
  BY DEF Inv, TypeOK, TasksFit, TaskRecord
<1>5. LoadFits(l) /\ l.old = t.old /\ l.new = t.new
  BY <1>3 DEF Inv, LoadsFit, LoadOf
<1>6. \A e \in t.entries : <<Endpoint(t.new, Local8002), e[1]>> \in landed
  BY <1>2, <1>3, <1>5 DEF LoadFits
<1>7. /\ u.old = t.old /\ u.new = t.new /\ u.keys = t.keys
      /\ u.entries = t.entries /\ u.step = "done" /\ u.result = r
  BY <1>1, <1>4 DEF TaskRecord
<1>8. TaskFits(u)'
  BY <1>1, <1>2, <1>4, <1>6, <1>7 DEF TaskFits, OwnerChanged, Endpoint
<1> QED
  BY <1>2, <1>7, <1>8, DoneWork

\* An entry leaves a bulk load and lands.
LEMMA LandingWork ==
    ASSUME Inv, NEW l \in loads, NEW e \in l.left, LoadEntry(l, e)
    PROVE  Work'
<1>1. PICK rest : rest = [l EXCEPT !.left = @ \ {e}]
  OBVIOUS
<1>2. /\ landed' = IF l.run = runs THEN landed \cup {<<l.node, e[1]>>} ELSE landed
      /\ loads' \subseteq loads \cup {rest}
      /\ UNCHANGED <<pc, in_progress, migrated_keys, affected_nodes, args, tasks, runs, moved>>
  BY <1>1 DEF LoadEntry, report
<1>3. l \in LoadRecord /\ l.new \in Owner
  BY DEF Inv, TypeOK, LoadRecord
<1>4. /\ rest.run = l.run /\ rest.old = l.old /\ rest.new = l.new /\ rest.node = l.node
      /\ rest.left = l.left \ {e}
  BY <1>1, <1>3 DEF LoadRecord
<1>5. l.run = runs => LoadFits(l)
  BY DEF Inv, LoadsFit
<1>6. landed \subseteq landed'
  BY <1>2
<1>7. Phases'
  <2>1. \A m \in loads' : m.run = runs => \E o \in loads : o.run = runs
    BY <1>2, <1>4
  <2>2. ASSUME NEW d \in Caller, pc'[d] = "listing"
        PROVE  tasks' = {} /\ landed' = {} /\ \A m \in loads' : m.run # runs'
    BY <1>2, <2>1, <2>2 DEF Inv, Phases
  <2> QED
    BY <1>2, <2>2 DEF Inv, Phases
<1>8. TasksFit'
  <2>1. ASSUME NEW t \in tasks PROVE TaskFits(t)'
    <3>1. TaskFits(t)
      BY DEF Inv, TasksFit
    <3>2. LoadOf(t) = {} => LoadOf(t)' = {}
      BY <1>2, <1>4 DEF LoadOf
    <3> QED
      BY <1>2, <1>6, <3>1, <3>2 DEF TaskFits, OwnerChanged, Endpoint
  <2> QED
    BY <1>2, <2>1 DEF Inv, TasksFit
<1>9. LoadsFit'
  <2>1. ASSUME NEW m \in loads, m.run = runs PROVE LoadFits(m)'
    <3>1. LoadFits(m)
      BY <2>1 DEF Inv, LoadsFit
    <3> QED
      BY <1>2, <1>6, <3>1 DEF LoadFits, OwnerChanged, Endpoint
  <2>2. ASSUME rest.run = runs PROVE LoadFits(rest)'
    <3>1. LoadFits(l) /\ <<l.node, e[1]>> \in landed'
      BY <1>2, <1>4, <1>5, <2>2
    <3>2. \A t \in tasks : t.step = "load" /\ t.old = l.old /\ t.new = l.new =>
              \A d \in t.entries : d \in rest.left \/ <<l.node, d[1]>> \in landed'
      BY <1>4, <1>6, <3>1 DEF LoadFits
    <3> QED
      BY <1>2, <1>4, <3>1, <3>2 DEF LoadFits, OwnerChanged, Endpoint
  <2>3. \A m \in loads : m.run <= runs
    BY DEF Inv, LoadsFit
  <2>4. ASSUME NEW m \in loads' PROVE m.run <= runs' /\ (m.run = runs' => LoadFits(m)')
    BY <1>2, <1>4, <2>1, <2>2, <2>3, <2>4
  <2> QED
    BY <2>4 DEF LoadsFit
<1>10. OnlyMovedKeys'
  BY <1>2, <1>4 DEF Inv, OnlyMovedKeys, OwnerChanged
<1>11. ChangedAreNamed'
  <2>1. \A p \in landed : p[1] \in affected_nodes \cup {Local8002}
    BY DEF Inv, ChangedAreNamed
  <2>2. l.run = runs => l.node \in affected_nodes \cup {Local8002}
    BY <1>5 DEF LoadFits, Endpoint
  <2> QED
    BY <1>2, <2>1, <2>2 DEF ChangedAreNamed
<1> QED
  BY <1>7, <1>8, <1>9, <1>10, <1>11 DEF Work
-----------------------------------------------------------------------------
(* The keys that nothing else happened to. *)

\* What a step may do to them: nothing, or put the value that was held on the
\* new owner.
Gentle ==
    \A k \in Kept', n \in Node :
       \/ stores'[n][k] = stores[n][k]
       \/ n = args.new[k] /\ n # args.old[k] /\ stores'[n][k] = held[k]

\* Both owners of a key that was held are nodes with an endpoint.
LEMMA KeptAreAtNodes ==
    ASSUME Inv, NEW k \in Kept
    PROVE  /\ k \in Key /\ k \notin disturbed /\ held[k] # Nothing
           /\ args.old[k] \in args.endpoints /\ args.new[k] \in args.endpoints
           /\ args.old[k] \in Node /\ args.new[k] \in Node
BY DEF Inv, Unchanged, Kept, TypeOK

\* A gentle step neither undoes an arrival nor takes a key from its old owner.
LEMMA GentleKeeps ==
    ASSUME Inv, disturbed \subseteq disturbed', UNCHANGED <<held, args>>, Gentle
    PROVE  /\ Kept' \subseteq Kept
           /\ \A k \in Kept' : Arrived(k) => Arrived(k)'
           /\ \A k \in Kept' :
                 stores[args.old[k]][k] = held[k] => stores'[args.old[k]][k] = held[k]
<1>1. Kept' \subseteq Kept
  BY DEF Kept
<1>2. \A k \in Kept' : args.old[k] \in Node /\ args.new[k] \in Node
  BY <1>1, KeptAreAtNodes
<1> QED
  BY <1>1, <1>2 DEF Gentle, Arrived

\* Steps that add no bulk load and end no phase.
LEMMA QuietStep ==
    ASSUME Inv, disturbed \subseteq disturbed', UNCHANGED <<held, args, runs, in_progress>>,
           Gentle, loads' \subseteq loads,
           \A c \in Caller : /\ pc'[c] = "listing" => pc[c] = "listing"
                             /\ pc'[c] = "migrating" => pc[c] = "migrating",
           \A k \in Kept' : args.old[k] \in unlisted \/ k \in all_keys =>
                               args.old[k] \in unlisted' \/ k \in all_keys',
           \A k \in Kept' : (\E t \in tasks : Carries(t, k)) =>
                               \E t \in tasks' : Carries(t, k)'
    PROVE  Unchanged' /\ OnTheirWay'
<1>1. /\ Kept' \subseteq Kept
      /\ \A k \in Kept' : Arrived(k) => Arrived(k)'
      /\ \A k \in Kept' :
            stores[args.old[k]][k] = held[k] => stores'[args.old[k]][k] = held[k]
  BY GentleKeeps
<1>2. Unchanged'
  BY <1>1 DEF Inv, Unchanged
<1>3. ASSUME NEW c \in Caller, NEW k \in Kept'
      PROVE  /\ pc'[c] = "listing" => args'.old[k] \in unlisted' \/ k \in all_keys'
             /\ pc'[c] = "migrating" /\ OwnerChanged(k)' => \E t \in tasks' : Carries(t, k)'
  BY <1>1, <1>3 DEF Inv, OnTheirWay, OwnerChanged
<1>4. UndisturbedKeysArrive'
  <2>1. ~ in_progress => \A k \in Kept : Arrived(k)
    BY DEF Inv, OnTheirWay, UndisturbedKeysArrive, Kept, Arrived
  <2>2. ~ in_progress' => \A k \in Kept' : Arrived(k)'
    BY <1>1, <2>1
  <2> QED
    BY <2>2 DEF UndisturbedKeysArrive, Kept, Arrived
<1> QED
  BY <1>2, <1>3, <1>4 DEF OnTheirWay

\* A task that no step touches goes on carrying its keys.
LEMMA CarriesOn ==
    ASSUME Inv, disturbed \subseteq disturbed', UNCHANGED <<held, args, runs>>, Gentle,
           NEW t, NEW k \in Kept', Carries(t, k),
           LoadOf(t)' \subseteq LoadOf(t)
    PROVE  Carries(t, k)'
<1>1. Arrived(k) => Arrived(k)'
  BY GentleKeeps
<1> QED
  BY <1>1 DEF Carries

\* Clients, expiry and crashes disturb every key that they change.
LEMMA TrafficKept ==
    ASSUME Inv,
           \/ \E k \in Key : RoutePut(k)
           \/ \E k \in Key, n \in Node : Put(k, n)
           \/ \E n \in Node, k \in Key : Forget(n, k)
           \/ \E n \in Node : Crash(n)
           \/ \E r \in Rings : ChangeTopology(r)
    PROVE  Unchanged' /\ OnTheirWay'
<1>1. /\ disturbed \subseteq disturbed'
      /\ loads' \subseteq loads
      /\ UNCHANGED <<held, args, runs, in_progress, pc, unlisted, all_keys, tasks>>
  BY DEF RoutePut, Put, Forget, Crash, ChangeTopology, report, history
<1>2. Gentle
  <2>0. stores \in [Node -> Store] /\ clock \in Nat /\ MaxWrites \in Nat
    BY RebalancerAssumption DEF Inv, TypeOK, Store, Value
  <2>1. CASE UNCHANGED stores
    BY <2>1 DEF Gentle
  <2>2. ASSUME NEW k \in Key, NEW n \in Node, Put(k, n) PROVE Gentle
    <3>1. TypeOK'
      BY <2>2, TrafficTypes
    <3>2. PICK s \in AfterPut(stores[n], k, clock + 1) :
               /\ stores' = [stores EXCEPT ![n] = s]
               /\ disturbed' = disturbed \cup {k} \cup Lost(stores[n], s)
      BY <2>2 DEF Put
    <3>3. clock + 1 \in Version
      BY <2>0, <2>2, <3>1 DEF Put, TypeOK, Version
    <3>4. PICK o \in Store, v \in Version : o = stores[n] /\ v = clock + 1
      BY <2>0, <3>3
    <3>5. \A j \in Key : j # k /\ j \notin Lost(stores[n], s) => s[j] = stores[n][j]
      BY <3>2, <3>4, PutChanges
    <3>6. \A j \in Kept' : j \in Key /\ j # k /\ j \notin Lost(stores[n], s)
      BY <3>2 DEF Kept
    <3> QED
      BY <2>0, <3>2, <3>5, <3>6 DEF Gentle
  <2>3. ASSUME NEW n \in Node, NEW k \in Key, Forget(n, k) PROVE Gentle
    <3>1. \A j \in Kept' : j \in Key /\ j # k
      BY <2>3 DEF Kept, Forget
    <3>2. stores' = [stores EXCEPT ![n][k] = Nothing]
      BY <2>3 DEF Forget
    <3> QED
      BY <2>0, <3>1, <3>2 DEF Gentle, Store
  <2>4. ASSUME NEW n \in Node, Crash(n) PROVE Gentle
    <3>1. \A j \in Kept' : j \in Key /\ stores[n][j] = Nothing
      BY <2>4 DEF Kept, Crash, Keys
    <3>2. stores' = [stores EXCEPT ![n] = [k \in Key |-> Nothing]]
      BY <2>4 DEF Crash
    <3> QED
      BY <2>0, <3>1, <3>2 DEF Gentle
  <2> QED
    BY <2>1, <2>2, <2>3, <2>4 DEF RoutePut, ChangeTopology
<1>3. \A k \in Kept', t \in tasks : Carries(t, k) => Carries(t, k)'
  <2>1. \A t \in tasks : LoadOf(t)' \subseteq LoadOf(t)
    BY <1>1 DEF LoadOf
  <2> QED
    BY <1>1, <1>2, <2>1, CarriesOn
<1> QED
  BY <1>1, <1>2, <1>3, QuietStep
\* A caller that is turned away, and the answers to GET /keys: a node that
\* answers lists what it holds, one that does not counts as a disturbance.
LEMMA ListingKept ==
    ASSUME Inv, NEW c \in Caller,
           \/ AlreadyInProgress(c)
           \/ \E n \in Node : FetchKeys(c, n) \/ FetchFails(c, n)
    PROVE  Unchanged' /\ OnTheirWay'
<1>1. /\ disturbed \subseteq disturbed'
      /\ UNCHANGED <<stores, loads, held, args, runs, in_progress, tasks>>
  BY DEF AlreadyInProgress, FetchKeys, FetchFails, traffic, report, history
<1>2. Gentle
  BY <1>1 DEF Gentle
<1>3. \A d \in Caller : /\ pc'[d] = "listing" => pc[d] = "listing"
                        /\ pc'[d] = "migrating" => pc[d] = "migrating"
  BY DEF AlreadyInProgress, FetchKeys, FetchFails, Inv, TypeOK
<1>4. \A k \in Kept', t \in tasks : Carries(t, k) => Carries(t, k)'
  <2>1. \A t \in tasks : LoadOf(t)' \subseteq LoadOf(t)
    BY <1>1 DEF LoadOf
  <2> QED
    BY <1>1, <1>2, <2>1, CarriesOn
<1>5. ASSUME NEW k \in Kept', args.old[k] \in unlisted \/ k \in all_keys
      PROVE  args.old[k] \in unlisted' \/ k \in all_keys'
  <2>1. CASE AlreadyInProgress(c)
    BY <1>5, <2>1 DEF AlreadyInProgress
  <2>2. ASSUME NEW n \in Node, FetchKeys(c, n)
        PROVE  args.old[k] \in unlisted' \/ k \in all_keys'
    <3>1. k \in Kept
      BY <1>1, <1>2, GentleKeeps
    <3>2. in_progress
      BY <2>2 DEF FetchKeys, Inv, OneAtATime, Active
    <3>3. k \in Key /\ stores[args.old[k]][k] # Nothing
      BY <3>1, <3>2, KeptAreAtNodes DEF Inv, Unchanged
    <3> QED
      BY <1>5, <2>2, <3>3 DEF FetchKeys, Keys
  <2>3. ASSUME NEW n \in Node, FetchFails(c, n)
        PROVE  args.old[k] \in unlisted' \/ k \in all_keys'
    <3>1. k \in Key /\ k \notin disturbed'
      BY DEF Kept
    <3> QED
      BY <1>5, <2>3, <3>1 DEF FetchFails
  <2> QED
    BY <2>1, <2>2, <2>3
<1> QED
  BY <1>1, <1>2, <1>3, <1>4, <1>5, QuietStep

\* A rebalance begins with what the old owners hold.
LEMMA RebalanceKept ==
    ASSUME Inv, NEW c \in Caller, NEW old \in Rings, NEW new \in Rings,
           NEW E \in SUBSET Node, Rebalance(c, old, new, E)
    PROVE  Unchanged' /\ OnTheirWay'
<1>1. /\ ~ in_progress
      /\ in_progress' = TRUE
      /\ pc' = [pc EXCEPT ![c] = "listing"]
      /\ args'.old = old /\ args'.new = new /\ args'.endpoints = E
      /\ unlisted' = E
      /\ runs' = runs + 1
      /\ held' = [k \in Key |-> IF {old[k], new[k]} \subseteq E
                                THEN stores[old[k]][k] ELSE Nothing]
      /\ UNCHANGED <<stores, loads>>
  BY DEF Rebalance, traffic
<1>2. \A l \in loads' : l.run # runs'
  BY <1>1, RebalancerAssumption DEF Inv, TypeOK, LoadsFit
<1>3. \A k \in Key : held'[k] # Nothing =>
          /\ {old[k], new[k]} \subseteq E
          /\ stores[old[k]][k] = held'[k]
  BY <1>1
<1>4. Unchanged'
  BY <1>1, <1>2, <1>3 DEF Unchanged, Kept
<1>5. \A d \in Caller : pc'[d] # "migrating"
  BY <1>1 DEF Inv, TypeOK, OneAtATime, Active
<1>6. \A k \in Kept' : args'.old[k] \in unlisted'
  BY <1>1, <1>3 DEF Kept
<1> QED
  BY <1>1, <1>4, <1>5, <1>6 DEF OnTheirWay, UndisturbedKeysArrive

\* All the keys that are held were listed, and those that move get a task.
LEMMA PlanKept ==
    ASSUME Inv, NEW c \in Caller, PlanMigrations(c)
    PROVE  Unchanged' /\ OnTheirWay'
<1>1. PICK ks : ks = {k \in all_keys : OwnerChanged(k)}
  OBVIOUS
<1>2. /\ pc[c] = "listing"
      /\ unlisted = {}
      /\ tasks' = TasksFor(ks, args.old, args.new)
      /\ pc' = [pc EXCEPT ![c] = "migrating"]
      /\ UNCHANGED <<stores, in_progress, args, loads, runs, held, disturbed>>
  BY <1>1 DEF PlanMigrations, history, traffic
<1>3. PICK old, new, T : old = args.old /\ new = args.new /\ T = tasks'
  OBVIOUS
<1>4. old \in [Key -> Owner] /\ new \in [Key -> Owner] /\ ks \in SUBSET Key
  BY <1>1, <1>3, RebalancerAssumption DEF Inv, TypeOK
<1>5. T = TasksFor(ks, old, new)
  BY <1>2, <1>3
<1>6. Shares(T, ks, old, new)
  BY <1>4, <1>5, TasksForIs
<1>7. Kept' = Kept
  BY <1>2 DEF Kept
<1>8. Unchanged'
  BY <1>2, <1>7 DEF Inv, Unchanged
<1>9. in_progress' /\ \A d \in Caller : pc'[d] # "listing"
  BY <1>2 DEF Inv, OneAtATime, Active, TypeOK
<1>10. ASSUME NEW k \in Kept, OwnerChanged(k) PROVE \E t \in T : Carries(t, k)'
  <2>1. k \in ks
    BY <1>1, <1>2, <1>10 DEF Inv, OnTheirWay
  <2>2. PICK t \in T : k \in t.keys /\ t.step = "snapshot"
    BY <1>6, <2>1 DEF Shares
  <2>3. Carries(t, k)'
    BY <2>2 DEF Carries
  <2> QED
    BY <2>3
<1>11. \A k \in Kept' : OwnerChanged(k)' => \E t \in tasks' : Carries(t, k)'
  BY <1>2, <1>3, <1>7, <1>10 DEF OwnerChanged
<1> QED
  BY <1>8, <1>9, <1>11 DEF OnTheirWay, UndisturbedKeysArrive

\* The snapshot of the old owner has what was held, and the bulk load that is
\* posted goes to the new owner.
LEMMA SnapshotKept ==
    ASSUME Inv, NEW c \in Caller, NEW t \in tasks, Snapshot(c, t)
    PROVE  Unchanged' /\ OnTheirWay'
<1>1. PICK from, to : from = Endpoint(t.old, Local8001) /\ to = Endpoint(t.new, Local8002)
  OBVIOUS
<1>2. PICK es : es = Filtered(t.keys, stores[from])
  OBVIOUS
<1>3. PICK p : p = IF es = {} THEN "done" ELSE "load"
  OBVIOUS
<1>4. PICK u : u = [t EXCEPT !.entries = es, !.step = p]
  OBVIOUS
<1>5. PICK m : m = [run |-> runs, old |-> t.old, new |-> t.new, node |-> to, left |-> es]
  OBVIOUS
<1>6. /\ pc[c] = "migrating"
      /\ t.step = "snapshot"
      /\ from # NoNode
      /\ Replace(t, u)
      /\ loads' \subseteq loads \cup {m}
      /\ UNCHANGED <<stores, pc, in_progress, args, runs, held, disturbed>>
  BY <1>1, <1>2, <1>3, <1>4, <1>5 DEF Snapshot, report, history, traffic
<1>7. /\ t \in TaskRecord /\ TaskFits(t)
      /\ t.old \in Owner /\ t.new \in Owner /\ t.keys \in SUBSET Key
  BY DEF Inv, TypeOK, TasksFit, TaskRecord
<1>8. from \in Node
  BY <1>1, <1>6, <1>7, EndpointType, RebalancerAssumption DEF Owner, Inv
<1>9. PICK s \in Store, ks \in SUBSET Key : s = stores[from] /\ ks = t.keys
  BY <1>7, <1>8 DEF Inv, TypeOK, Store, Value
<1>10. /\ \A e \in es : e[1] \in t.keys /\ s[e[1]] = e[2]
       /\ \A k \in t.keys : s[k] # Nothing => <<k, s[k]>> \in es
  BY <1>2, <1>9, FilteredIs
<1>11. /\ u.old = t.old /\ u.new = t.new /\ u.keys = t.keys /\ u.step = p
       /\ m.run = runs /\ m.old = t.old /\ m.new = t.new /\ m.left = es
  BY <1>4, <1>5, <1>7 DEF TaskRecord
<1>12. Kept' = Kept /\ in_progress
  BY <1>6 DEF Kept, Inv, OneAtATime, Active
<1>13. ASSUME NEW k \in Kept, k \in t.keys PROVE s[k] = held[k]
  <2>1. args.old[k] = t.old /\ args.old[k] \in args.endpoints
    BY <1>7, <1>13, KeptAreAtNodes DEF TaskFits
  <2>2. from = args.old[k]
    BY <1>1, <2>1 DEF Endpoint
  <2> QED
    BY <1>9, <1>12, <2>2 DEF Inv, Unchanged
<1>14. Unchanged'
  <2>1. \A e \in m.left : e[1] \in Kept => e[2] = held[e[1]]
    BY <1>10, <1>11, <1>13
  <2> QED
    BY <1>6, <1>12, <2>1 DEF Inv, Unchanged
<1>15. Gentle
  BY <1>6 DEF Gentle
<1>16. tasks' = (tasks \ {t}) \cup {u}
  BY <1>6 DEF Replace
<1>17. ASSUME NEW k \in Kept, NEW v \in tasks, Carries(v, k)
       PROVE  \E w \in tasks' : Carries(w, k)'
  <2>1. CASE v # t
    <3>1. ~ (v.old = t.old /\ v.new = t.new)
      BY <2>1 DEF Inv, TasksFit
    <3>2. LoadOf(v)' \subseteq LoadOf(v)
      BY <1>6, <1>11, <3>1 DEF LoadOf
    <3>3. Carries(v, k)'
      BY <1>6, <1>12, <1>15, <1>17, <3>2, CarriesOn
    <3> QED
      BY <1>16, <2>1, <3>3
  <2>2. CASE v = t
    <3>1. k \in t.keys /\ held[k] # Nothing
      BY <1>17, <2>2, KeptAreAtNodes DEF Carries
    <3>2. <<k, held[k]>> \in es
      BY <1>10, <1>13, <3>1
    <3>3. u.step = "load"
      BY <1>3, <1>11, <3>2
    <3>4. LoadOf(t) = {}
      BY <1>6, <1>7 DEF TaskFits
    <3>5. LoadOf(u)' \subseteq {m}
      BY <1>6, <1>11, <3>4 DEF LoadOf
    <3>6. Carries(u, k)'
      BY <1>6, <1>11, <3>1, <3>2, <3>3, <3>5 DEF Carries
    <3> QED
      BY <1>16, <3>6
  <2> QED
    BY <2>1, <2>2
<1>18. \A d \in Caller : pc[d] # "listing"
  BY DEF Inv, Phases
<1>19. ASSUME NEW d \in Caller, NEW k \in Kept', pc'[d] = "migrating", OwnerChanged(k)'
       PROVE  \E w \in tasks' : Carries(w, k)'
  BY <1>6, <1>12, <1>17, <1>19 DEF Inv, OnTheirWay, OwnerChanged
<1> QED
  BY <1>6, <1>12, <1>14, <1>18, <1>19 DEF OnTheirWay, UndisturbedKeysArrive
\* A failed request disturbs the keys of its task; of an acknowledged bulk load
\* nothing is left, so they have arrived.
LEMMA TaskEndKept ==
    ASSUME Inv, NEW c \in Caller, NEW t \in tasks,
           SnapshotFails(c, t) \/ LoadAcked(c, t) \/ LoadFails(c, t)
    PROVE  Unchanged' /\ OnTheirWay'
<1>1. PICK u : Replace(t, u) /\ u.step = "done" /\ u.keys = t.keys
  <2>1. t \in TaskRecord
    BY DEF Inv, TypeOK, TaskRecord
  <2>2. PICK r, v, w : /\ r = Cardinality(t.entries)
                       /\ v = [t EXCEPT !.step = "done"]
                       /\ w = [t EXCEPT !.step = "done", !.result = r]
    OBVIOUS
  <2>3. Replace(t, v) \/ Replace(t, w)
    BY <2>2 DEF SnapshotFails, LoadAcked, LoadFails
  <2>4. v.step = "done" /\ v.keys = t.keys /\ w.step = "done" /\ w.keys = t.keys
    BY <2>1, <2>2 DEF TaskRecord
  <2> QED
    BY <2>3, <2>4
<1>2. /\ disturbed \subseteq disturbed'
      /\ loads' \subseteq loads
      /\ UNCHANGED <<stores, held, args, runs, in_progress, pc, unlisted, all_keys>>
  BY DEF SnapshotFails, LoadAcked, LoadFails, traffic, report, history
<1>3. Gentle
  BY <1>2 DEF Gentle
<1>4. tasks' = (tasks \ {t}) \cup {u}
  BY <1>1 DEF Replace
<1>5. ASSUME NEW k \in Kept', NEW v \in tasks, Carries(v, k)
      PROVE  \E w \in tasks' : Carries(w, k)'
  <2>1. CASE v # t
    <3>1. LoadOf(v)' \subseteq LoadOf(v)
      BY <1>2 DEF LoadOf
    <3>2. Carries(v, k)'
      BY <1>2, <1>3, <1>5, <3>1, CarriesOn
    <3> QED
      BY <1>4, <2>1, <3>2
  <2>2. CASE v = t
    <3>1. k \in t.keys /\ k \notin disturbed'
      BY <1>5, <2>2 DEF Carries, Kept
    <3>2. LoadAcked(c, t)
      BY <3>1 DEF SnapshotFails, LoadFails
    <3>3. Arrived(k)
      BY <1>5, <2>2, <3>2 DEF LoadAcked, Carries
    <3>4. Arrived(k)'
      BY <1>2, <3>3 DEF Arrived
    <3>5. Carries(u, k)'
      BY <1>1, <3>1, <3>4 DEF Carries
    <3> QED
      BY <1>4, <3>5
  <2> QED
    BY <2>1, <2>2
<1> QED
  BY <1>2, <1>3, <1>5, QuietStep

\* An entry that lands has the value that was held, and it is put on the new
\* owner; an entry of an earlier rebalance disturbs its key.
LEMMA LandingKept ==
    ASSUME Inv, NEW l \in loads, NEW e \in l.left, LoadEntry(l, e)
    PROVE  Unchanged' /\ OnTheirWay'
<1>1. PICK rest : rest = [l EXCEPT !.left = @ \ {e}]
  OBVIOUS
<1>2. PICK s \in AfterPut(stores[l.node], e[1], e[2]) :
            /\ stores' = [stores EXCEPT ![l.node] = s]
            /\ disturbed' = disturbed \cup Lost(stores[l.node], s) \cup
                               (IF l.run = runs THEN {} ELSE {e[1]})
  BY DEF LoadEntry
<1>3. /\ loads' \subseteq (loads \ {l}) \cup {rest}
      /\ disturbed \subseteq disturbed'
      /\ UNCHANGED <<held, args, runs, in_progress, pc, unlisted, all_keys, tasks>>
  BY <1>1, <1>2 DEF LoadEntry, report
<1>4. /\ l \in LoadRecord /\ l.node \in Node /\ e[1] \in Key /\ e[2] \in Version
      /\ stores \in [Node -> Store]
  BY DEF Inv, TypeOK, LoadRecord, Store, Value
<1>5. PICK o \in Store, j \in Key, v \in Version : o = stores[l.node] /\ j = e[1] /\ v = e[2]
  BY <1>4
<1>6. /\ s[j] = v
      /\ \A i \in Key : i # j /\ i \notin Lost(o, s) => s[i] = o[i]
  BY <1>2, <1>5, PutChanges
<1>7. /\ rest.run = l.run /\ rest.old = l.old /\ rest.new = l.new
      /\ rest.left = l.left \ {e}
  BY <1>1, <1>4 DEF LoadRecord
<1>8. Kept' \subseteq Kept
  BY <1>3 DEF Kept
<1>9. ASSUME j \in Kept'
      PROVE  /\ l.run = runs
             /\ l.node = args.new[j] /\ l.node # args.old[j]
             /\ v = held[j]
  <2>1. l.run = runs
    BY <1>2, <1>5, <1>9 DEF Kept
  <2>2. LoadFits(l) /\ j \in Kept
    BY <1>8, <1>9, <2>1 DEF Inv, LoadsFit
  <2>3. OwnerChanged(j) /\ args.new[j] = l.new /\ l.node = Endpoint(l.new, Local8002)
    BY <1>5, <2>2 DEF LoadFits
  <2>4. l.node = args.new[j]
    BY <2>2, <2>3, KeptAreAtNodes DEF Endpoint
  <2>5. v = held[j]
    BY <1>5, <2>1, <2>2 DEF Inv, Unchanged
  <2> QED
    BY <2>1, <2>3, <2>4, <2>5 DEF OwnerChanged
<1>10. Gentle
  <2> SUFFICES ASSUME NEW k \in Kept', NEW n \in Node
               PROVE  \/ stores'[n][k] = stores[n][k]
                      \/ n = args.new[k] /\ n # args.old[k] /\ stores'[n][k] = held[k]
    BY DEF Gentle
  <2>1. CASE n # l.node
    BY <1>2, <1>4, <2>1
  <2>2. CASE n = l.node /\ k # j
    <3>1. k \in Key /\ k \notin Lost(o, s)
      BY <1>2, <1>5 DEF Kept
    <3> QED
      BY <1>2, <1>4, <1>5, <1>6, <2>2, <3>1
  <2>3. CASE n = l.node /\ k = j
    BY <1>2, <1>4, <1>6, <1>9, <2>3
  <2> QED
    BY <2>1, <2>2, <2>3
<1>11. /\ \A k \in Kept' : Arrived(k) => Arrived(k)'
       /\ \A k \in Kept' :
            stores[args.old[k]][k] = held[k] => stores'[args.old[k]][k] = held[k]
  BY <1>3, <1>10, GentleKeeps
<1>12. Unchanged'
  <2>1. \A m \in loads' : m.run = runs => \A d \in m.left : d[1] \in Kept => d[2] = held[d[1]]
    BY <1>3, <1>7 DEF Inv, Unchanged
  <2> QED
    BY <1>3, <1>8, <1>11, <2>1 DEF Inv, Unchanged
<1>13. ASSUME NEW k \in Kept', NEW t \in tasks, Carries(t, k) PROVE Carries(t, k)'
  <2>1. ASSUME t.step = "load", NEW m \in LoadOf(t)'
        PROVE  <<k, held[k]>> \in m.left \/ Arrived(k)'
    <3>1. CASE m \in loads
      <4>1. m \in LoadOf(t)
        BY <1>3, <2>1, <3>1 DEF LoadOf
      <4> QED
        BY <1>11, <1>13, <2>1, <4>1 DEF Carries
    <3>2. CASE m = rest
      <4>1. l \in LoadOf(t)
        BY <1>3, <1>7, <2>1, <3>2 DEF LoadOf
      <4>2. <<k, held[k]>> \in l.left \/ Arrived(k)'
        BY <1>11, <1>13, <2>1, <4>1 DEF Carries
      <4>3. CASE <<k, held[k]>> = e
        <5>1. k = j
          BY <1>5, <4>3
        <5>2. stores'[args.new[k]][k] = held[k]
          BY <1>2, <1>4, <1>6, <1>9, <1>13, <5>1
        <5> QED
          BY <1>3, <5>2 DEF Arrived
      <4>4. CASE <<k, held[k]>> # e
        BY <1>7, <3>2, <4>2, <4>4
      <4> QED
        BY <4>3, <4>4
    <3> QED
      BY <1>3, <2>1, <3>1, <3>2 DEF LoadOf
  <2> QED
    BY <1>3, <1>11, <1>13, <2>1 DEF Carries
<1>14. ASSUME NEW c \in Caller, NEW k \in Kept'
       PROVE  /\ pc'[c] = "listing" => args'.old[k] \in unlisted' \/ k \in all_keys'
              /\ pc'[c] = "migrating" /\ OwnerChanged(k)' => \E t \in tasks' : Carries(t, k)'
  BY <1>3, <1>8, <1>13, <1>14 DEF Inv, OnTheirWay, OwnerChanged
<1>15. UndisturbedKeysArrive'
  <2>1. ~ in_progress => \A k \in Kept : Arrived(k)
    BY DEF Inv, OnTheirWay, UndisturbedKeysArrive, Kept, Arrived
  <2>2. ~ in_progress' => \A k \in Kept' : Arrived(k)'
    BY <1>3, <1>8, <1>11, <2>1
  <2> QED
    BY <2>2 DEF UndisturbedKeysArrive, Kept, Arrived
<1> QED
  BY <1>12, <1>14, <1>15 DEF OnTheirWay

\* When all tasks are done, every key has arrived or never had to move.
LEMMA CompleteKept ==
    ASSUME Inv, NEW c \in Caller, Complete(c)
    PROVE  Unchanged' /\ OnTheirWay'
<1>1. /\ pc[c] = "migrating"
      /\ \A t \in tasks : t.step = "done"
      /\ in_progress' = FALSE
      /\ pc' = [pc EXCEPT ![c] = "idle"]
      /\ UNCHANGED <<stores, args, loads, runs, held, disturbed>>
  BY DEF Complete, traffic, history
<1>2. Kept' = Kept
  BY <1>1 DEF Kept
<1>3. Unchanged'
  BY <1>1, <1>2 DEF Inv, Unchanged
<1>4. in_progress /\ \A d \in Caller : pc'[d] \notin {"listing", "migrating"}
  BY <1>1 DEF Inv, OneAtATime, Active, TypeOK
<1>5. ASSUME NEW k \in Kept PROVE Arrived(k)
  <2>1. CASE OwnerChanged(k)
    BY <1>1, <2>1 DEF Inv, OnTheirWay, Carries
  <2>2. CASE ~ OwnerChanged(k)
    BY <1>4, <2>2 DEF Inv, Unchanged, OwnerChanged, Arrived
  <2> QED
    BY <2>1, <2>2
<1>6. UndisturbedKeysArrive'
  BY <1>1, <1>5 DEF UndisturbedKeysArrive, Kept, Arrived
<1> QED
  BY <1>3, <1>4, <1>6 DEF OnTheirWay
-----------------------------------------------------------------------------
(* The report, and the theorems. *)

\* The count is zero until the tasks are done, and then it is the sum of their
\* results; what has landed stays landed until the next rebalance.
LEMMA StepCounts ==
    ASSUME Inv, [Next]_vars
    PROVE  Counted'
<1>0. /\ migrated_keys \in Nat /\ migrated_keys <= Cardinality(landed)
      /\ IsFiniteSet(landed) /\ Cardinality(landed) \in Nat
  BY FS_CardinalityType DEF Inv, TypeOK, Finite, Counted
<1>1. CASE UNCHANGED <<migrated_keys, landed>>
  BY <1>0, <1>1 DEF Counted
<1>2. ASSUME NEW c \in Caller, NEW old \in Rings, NEW new \in Rings,
             NEW E \in SUBSET Node, Rebalance(c, old, new, E)
      PROVE  Counted'
  BY <1>2, FS_EmptySet DEF Rebalance, Counted
<1>3. ASSUME NEW c \in Caller, Complete(c) PROVE Counted'
  <2>1. in_progress /\ migrated_keys = 0
    BY <1>3 DEF Complete, Inv, OneAtATime, Active, Phases
  <2>2. PICK r : r = MapThenSumSet(LAMBDA t : t.result, tasks)
    OBVIOUS
  <2>3. r \in Nat /\ r <= Cardinality(landed)
    BY <2>2, CountedHaveLanded
  <2>4. migrated_keys' = migrated_keys + r /\ landed' = landed
    BY <1>3, <2>2 DEF Complete, history
  <2> QED
    BY <2>1, <2>3, <2>4 DEF Counted
<1>4. ASSUME NEW l \in loads, NEW e \in l.left, LoadEntry(l, e) PROVE Counted'
  <2>1. /\ migrated_keys' = migrated_keys
        /\ landed' = IF l.run = runs THEN landed \cup {<<l.node, e[1]>>} ELSE landed
    BY <1>4 DEF LoadEntry, report
  <2>2. PICK p, A : p = <<l.node, e[1]>> /\ A = landed
    OBVIOUS
  <2>3. Cardinality(A \cup {p}) \in {Cardinality(A), Cardinality(A) + 1}
    BY <1>0, <2>2, FS_AddElement
  <2>4. Cardinality(landed') \in Nat /\ Cardinality(landed') >= Cardinality(landed)
    BY <1>0, <2>1, <2>2, <2>3
  <2> QED
    BY <1>0, <2>1, <2>4 DEF Counted
<1>5. ASSUME NEW c \in Caller, Progress(c) PROVE UNCHANGED <<migrated_keys, landed>> \/ Complete(c)
  BY <1>5 DEF Progress, FetchKeys, FetchFails, PlanMigrations, Snapshot, SnapshotFails,
              LoadAcked, LoadFails, report, history
<1>6. ASSUME \/ \E k \in Key : RoutePut(k)
             \/ \E k \in Key, n \in Node : Put(k, n)
             \/ \E n \in Node, k \in Key : Forget(n, k)
             \/ \E n \in Node : Crash(n)
             \/ \E r \in Rings : ChangeTopology(r)
             \/ \E c \in Caller : AlreadyInProgress(c)
             \/ UNCHANGED vars
      PROVE  UNCHANGED <<migrated_keys, landed>>
  BY <1>6 DEF RoutePut, Put, Forget, Crash, ChangeTopology, AlreadyInProgress, vars, report,
              history
<1> QED
  BY <1>1, <1>2, <1>3, <1>4, <1>5, <1>6 DEF Next

\* Every step preserves the invariant.
LEMMA StepKeepsInv ==
    ASSUME Inv, [Next]_vars
    PROVE  Inv'
<1> DEFINE Goal == TypeOK' /\ Finite' /\ Work' /\ Unchanged' /\ OnTheirWay'
<1>1. OneAtATime' /\ Counted'
  <2>1. ExclusionInv
    BY DEF Inv, ExclusionInv, TypeOK
  <2> QED
    BY <2>1, StepKeepsExclusion, StepCounts DEF ExclusionInv
<1>2. ASSUME \/ \E k \in Key : RoutePut(k)
             \/ \E k \in Key, n \in Node : Put(k, n)
             \/ \E n \in Node, k \in Key : Forget(n, k)
             \/ \E r \in Rings : ChangeTopology(r)
      PROVE  Goal
  <2>1. /\ UNCHANGED <<report, args, tasks, loads, runs, landed, moved>>
        /\ pc' = pc
    BY <1>2 DEF RoutePut, Put, Forget, ChangeTopology, history
  <2> QED
    BY <1>2, <2>1, TrafficTypes, TrafficKept, WorkUntouched
<1>3. ASSUME NEW n \in Node, Crash(n) PROVE Goal
  BY <1>3, TrafficTypes, TrafficKept, CrashWork
<1>4. ASSUME NEW c \in Caller,
             \/ AlreadyInProgress(c)
             \/ \E n \in Node : FetchKeys(c, n) \/ FetchFails(c, n)
      PROVE  Goal
  <2>1. UNCHANGED <<report, args, tasks, loads, runs, landed, moved>>
    BY <1>4 DEF AlreadyInProgress, FetchKeys, FetchFails, history
  <2>2. \A d \in Caller : pc'[d] = "listing" => pc[d] = "listing"
    BY <1>4 DEF AlreadyInProgress, FetchKeys, FetchFails, Inv, TypeOK
  <2> QED
    BY <1>4, <2>1, <2>2, PlanningTypes, ListingKept, WorkUntouched
<1>5. ASSUME NEW c \in Caller, NEW old \in Rings, NEW new \in Rings,
             NEW E \in SUBSET Node, Rebalance(c, old, new, E)
      PROVE  Goal
  BY <1>5, PlanningTypes, RebalanceWork, RebalanceKept
<1>6. ASSUME NEW c \in Caller, PlanMigrations(c) PROVE Goal
  BY <1>6, PlanningTypes, PlanWork, PlanKept
<1>7. ASSUME NEW c \in Caller, NEW t \in tasks, Snapshot(c, t) PROVE Goal
  BY <1>7, TaskTypes, SnapshotWork, SnapshotKept
<1>8. ASSUME NEW c \in Caller, NEW t \in tasks,
             SnapshotFails(c, t) \/ LoadAcked(c, t) \/ LoadFails(c, t)
      PROVE  Goal
  BY <1>8, TaskTypes, FailureWork, AckWork, TaskEndKept
<1>9. ASSUME NEW c \in Caller, Complete(c) PROVE Goal
  BY <1>9, LandingTypes, CompleteWork, CompleteKept
<1>10. ASSUME NEW l \in loads, NEW e \in l.left, LoadEntry(l, e) PROVE Goal
  BY <1>10, LandingTypes, LandingWork, LandingKept
<1>11. ASSUME UNCHANGED vars PROVE Goal
  <2>1. TypeOK' /\ Finite'
    BY <1>11 DEF Inv, TypeOK, Finite, Keys, vars, traffic, report, history
  <2>2. Work'
    BY <1>11, WorkUntouched DEF vars, report, history
  <2>3. Unchanged' /\ OnTheirWay'
    BY <1>11 DEF Inv, Unchanged, OnTheirWay, UndisturbedKeysArrive, Kept, Arrived, Carries,
                 LoadOf, OwnerChanged, vars, traffic, report, history
  <2> QED
    BY <2>1, <2>2, <2>3
<1> HIDE DEF Goal
<1>12. Goal
  BY <1>2, <1>3, <1>4, <1>5, <1>6, <1>7, <1>8, <1>9, <1>10, <1>11 DEF Next, Progress
<1> QED
  BY <1>1, <1>12 DEF Goal, Inv, Work

\* Before the first rebalance nothing is held.
LEMMA InitInv == Init => Inv
<1> SUFFICES ASSUME Init PROVE Inv
  OBVIOUS
<1>1. /\ stores = [n \in Node |-> [k \in Key |-> Nothing]]
      /\ ring \in Rings
      /\ calls = {} /\ clock = 0
      /\ pc = [c \in Caller |-> "idle"]
      /\ in_progress = FALSE /\ migrated_keys = 0 /\ affected_nodes = {}
      /\ args.old = ring /\ args.new = ring /\ args.endpoints = {}
      /\ args \in [old : Rings, new : Rings, endpoints : SUBSET Node]
      /\ unlisted = {} /\ all_keys = {} /\ tasks = {} /\ loads = {}
      /\ runs = 0
      /\ held = [k \in Key |-> Nothing]
      /\ disturbed = {} /\ landed = {} /\ moved = {}
  BY DEF Init
<1>2. TypeOK
  <2>1. /\ stores \in [Node -> [Key -> Version \cup {Nothing}]]
        /\ held \in [Key -> Version \cup {Nothing}]
        /\ pc \in [Caller -> {"idle", "listing", "migrating", "already_in_progress"}]
    BY <1>1
  <2>2. clock \in 0..MaxWrites /\ runs \in 0..MaxRuns /\ migrated_keys \in Nat
    BY <1>1, RebalancerAssumption
  <2>3. /\ calls \subseteq Key \X Node
        /\ affected_nodes \subseteq Owner
        /\ unlisted \subseteq Node /\ all_keys \subseteq Key
        /\ tasks \subseteq TaskRecord /\ loads \subseteq LoadRecord
        /\ disturbed \subseteq Key /\ landed \subseteq Node \X Key /\ moved \subseteq Key
    BY <1>1
  <2>4. in_progress \in BOOLEAN
    BY <1>1
  <2> QED
    BY <1>1, <2>1, <2>2, <2>3, <2>4 DEF TypeOK, TaskRecord, LoadRecord
<1>3. OneAtATime /\ Phases
  BY <1>1 DEF OneAtATime, Active, Phases
<1>4. Finite
  <2>1. \A n \in Node : Keys(stores[n]) = {}
    BY <1>1 DEF Keys
  <2>2. IsFiniteSet({}) /\ Cardinality({}) = 0
    BY FS_EmptySet
  <2>3. clock + Cardinality(calls) <= MaxWrites
    BY <1>1, <2>2, RebalancerAssumption
  <2>4. \A n \in Node : IsFiniteSet(Keys(stores[n]))
    BY <2>1, <2>2
  <2>5. IsFiniteSet(calls) /\ IsFiniteSet(all_keys) /\ IsFiniteSet(tasks) /\ IsFiniteSet(landed)
    BY <1>1, <2>2
  <2> QED
    BY <1>1, <2>3, <2>4, <2>5 DEF Finite
<1>5. TasksFit /\ LoadsFit /\ OnlyMovedKeys /\ ChangedAreNamed
  BY <1>1 DEF TasksFit, LoadsFit, OnlyMovedKeys, ChangedAreNamed, OwnerChanged
<1>6. Kept = {} /\ \A k \in Key : held[k] = Nothing
  BY <1>1 DEF Kept
<1>7. Unchanged /\ OnTheirWay
  BY <1>1, <1>6 DEF Unchanged, OnTheirWay, UndisturbedKeysArrive
<1>8. Counted
  BY <1>1, FS_EmptySet DEF Counted
<1> QED
  BY <1>2, <1>3, <1>4, <1>5, <1>7, <1>8 DEF Inv

\* The invariant is inductive.
LEMMA AlwaysInv == Spec => []Inv
BY InitInv, StepKeepsInv, PTL DEF Spec

\* Every variable keeps its type, whatever the size of the cluster.
THEOREM TypeCorrect == Spec => []TypeOK
<1>1. Inv => TypeOK
  BY DEF Inv
<1> QED
  BY <1>1, AlwaysInv, PTL

\* The report of a rebalance never counts a key that no node has put, although
\* requests time out, nodes crash in the middle of a bulk load and others go
\* on with one that the gateway gave up; and every node that was changed is
\* among affected_nodes, or listens at the default address.
THEOREM ReportsAreHonest == Spec => []ReportIsHonest
<1>1. Inv => ReportIsHonest
  BY DEF Inv, ReportIsHonest, Counted, ChangedAreNamed
<1> QED
  BY <1>1, AlwaysInv, PTL

\* A rebalance moves what it was started for: after it, whatever happened to
\* other keys meanwhile, every key that the old owner held and that nothing
\* else happened to is at its new owner with the value it had.
THEOREM HeldKeysArrive == Spec => []UndisturbedKeysArrive
<1>1. Inv => UndisturbedKeysArrive
  BY DEF Inv, OnTheirWay
<1> QED
  BY <1>1, AlwaysInv, PTL

\* A key whose owner no rebalance found changed gets its values from clients
\* only: the snapshots contain it, and _migrate_keys filters it out.
THEOREM OtherKeysStay == Spec => OthersStayInPlace
<1> DEFINE Stays == \A n \in Node, k \in Key \ moved :
                       stores'[n][k] \notin {stores[n][k], Nothing} => clock' # clock
<1>1. ASSUME Inv, [Next]_vars PROVE [Stays]_vars
  <2>0. stores \in [Node -> Store] /\ clock \in Nat
    BY <1>1, RebalancerAssumption DEF Inv, TypeOK, Store, Value
  <2>1. CASE UNCHANGED stores
    BY <2>1
  <2>2. ASSUME NEW k \in Key, NEW n \in Node, Put(k, n) PROVE Stays
    BY <2>0, <2>2 DEF Put
  <2>3. ASSUME NEW k \in Key, NEW n \in Node, Forget(n, k) PROVE Stays
    BY <2>0, <2>3 DEF Forget, Store
  <2>4. ASSUME NEW n \in Node, Crash(n) PROVE Stays
    BY <2>0, <2>4 DEF Crash
  <2>5. ASSUME NEW l \in loads, NEW e \in l.left, LoadEntry(l, e) PROVE Stays
    <3>1. e[1] \in moved /\ e[1] \in Key /\ e[2] \in Version /\ l.node \in Node
      BY <1>1, <2>5 DEF Inv, TypeOK, OnlyMovedKeys
    <3>2. PICK s \in AfterPut(stores[l.node], e[1], e[2]) :
                stores' = [stores EXCEPT ![l.node] = s]
      BY <2>5 DEF LoadEntry
    <3>3. PICK o \in Store, j \in Key, v \in Version : o = stores[l.node] /\ j = e[1] /\ v = e[2]
      BY <2>0, <3>1
    <3>4. \A i \in Key : i # j => s[i] = o[i] \/ s[i] = Nothing
      BY <3>2, <3>3, PutChanges
    <3> QED
      BY <2>0, <3>1, <3>2, <3>3, <3>4
  <2>6. ASSUME \/ \E k \in Key : RoutePut(k)
               \/ \E r \in Rings : ChangeTopology(r)
               \/ \E c \in Caller : AlreadyInProgress(c)
               \/ \E c \in Caller, old, new \in Rings, E \in SUBSET Node :
                     Rebalance(c, old, new, E)
               \/ \E c \in Caller : Progress(c)
               \/ UNCHANGED vars
        PROVE  UNCHANGED stores
    BY <2>6 DEF RoutePut, ChangeTopology, AlreadyInProgress, Rebalance, Progress, FetchKeys,
                FetchFails, PlanMigrations, Snapshot, SnapshotFails, LoadAcked, LoadFails,
                Complete, vars, traffic
  <2> HIDE DEF Stays
  <2> QED
    BY <1>1, <2>1, <2>2, <2>3, <2>4, <2>5, <2>6 DEF Next
<1> QED
  BY <1>1, AlwaysInv, PTL DEF Spec, OthersStayInPlace
=============================================================================
