-------------------------- MODULE StageBoundsProofs -------------------------
(***************************************************************************)
(* The two bounds a stage keeps on its workers: how long stopping them may *)
(* take (ProcessShutdown) and how much memory they may hold                *)
(* (RuntimeMemoryGuard), for any number of workers and any sizes.  Both    *)
(* bounds are sums over a set of workers, so the first part of the module  *)
(* proves the arithmetic of such sums.                                     *)
(***************************************************************************)
EXTENDS ProcessShutdown, RuntimeMemoryGuard, FiniteSetTheorems, WellFoundedInduction, TLAPS

-----------------------------------------------------------------------------
(* Sums over finite sets.  MapThenSumSet takes the summands as an operator *)
(* and is a fold over a chosen recursive function; Total gives it a        *)
(* function instead, which a theorem can quantify over.  What a rule of    *)
(* induction over sets would need an operator for is shown by a least      *)
(* counterexample: a smallest subset for which the claim fails.            *)
Picked(s) == CHOOSE x \in s : TRUE
SumStep(g, f, s) == IF s = {} THEN 0 ELSE f[Picked(s)] + g[s \ {Picked(s)}]
IsSum(g, f, S) == g = [s \in SUBSET S |-> SumStep(g, f, s)]

LEMMA TotalIs == ASSUME NEW f, NEW S PROVE Total(f, S) = (CHOOSE g : IsSum(g, f, S))[S]
BY DEF Total, MapThenSumSet, MapThenFoldSet, IsSum, Picked, SumStep

LEMMA PickedIn == ASSUME NEW s, s # {} PROVE Picked(s) \in s
BY DEF Picked

\* A non-empty set of subsets of a finite set has a minimal one.
LEMMA MinimalSubset ==
  ASSUME NEW S, IsFiniteSet(S), NEW T \in SUBSET SUBSET S, T # {}
  PROVE  \E x \in T : \A y \in T : y \subseteq x => y = x
<1>1. IsWellFoundedOn(StrictSubsetOrdering(S), SUBSET S)
  BY FS_StrictSubsetOrderingWellFounded, FS_FiniteSubsetsOfFinite
<1>2. PICK x \in T : \A y \in T : ~ (<<y, x>> \in StrictSubsetOrdering(S))
  BY <1>1, WFMin
<1> QED
  BY <1>2 DEF StrictSubsetOrdering

\* The recursion determines its function.
LEMMA SumUnique ==
  ASSUME NEW f, NEW S, IsFiniteSet(S), NEW S1, NEW S2, NEW g, NEW h,
         S \subseteq S1, S \subseteq S2, IsSum(g, f, S1), IsSum(h, f, S2)
  PROVE  g[S] = h[S]
<1> DEFINE Differ == {s \in SUBSET S : g[s] # h[s]}
<1>0. Differ \in SUBSET SUBSET S
  OBVIOUS
<1>1. ASSUME Differ # {} PROVE FALSE
  <2>1. PICK s \in Differ : \A y \in Differ : y \subseteq s => y = s
    <3> HIDE DEF Differ
    <3> QED
      BY <1>0, <1>1, MinimalSubset
  <2>2. s \in SUBSET S1 /\ s \in SUBSET S2
    OBVIOUS
  <2>3. g[s] = SumStep(g, f, s) /\ h[s] = SumStep(h, f, s)
    BY <2>2 DEF IsSum
  <2>4. s # {}
    BY <2>3 DEF SumStep
  <2>5. g[s \ {Picked(s)}] = h[s \ {Picked(s)}]
    BY <2>1, <2>4, PickedIn
  <2> QED
    BY <2>3, <2>4, <2>5 DEF SumStep
<1> QED
  BY <1>1

\* The recursion has a function, on every finite set.
LEMMA SumExists ==
  ASSUME NEW f, NEW S, IsFiniteSet(S)
  PROVE  \E g : IsSum(g, f, S)
<1> DEFINE Bad == {s \in SUBSET S : ~ \E g : IsSum(g, f, s)}
<1>0. Bad \in SUBSET SUBSET S
  OBVIOUS
<1>1. ASSUME Bad # {} PROVE FALSE
  <2>1. PICK T \in Bad : \A y \in Bad : y \subseteq T => y = T
    <3> HIDE DEF Bad
    <3> QED
      BY <1>0, <1>1, MinimalSubset
  <2> DEFINE G(s) == CHOOSE g : IsSum(g, f, s)
             h == [s \in SUBSET T |-> IF s = T THEN SumStep([r \in {T \ {Picked(T)}} |-> G(r)[r]], f, T) ELSE G(s)[s]]
  <2>2. ASSUME NEW s \in SUBSET T, s # T PROVE IsSum(G(s), f, s)
    BY <2>1, <2>2
  <2> HIDE DEF G
  <2>3. ASSUME NEW s \in SUBSET T, s # T PROVE G(s)[s] = SumStep(G(s), f, s)
    BY <2>2, <2>3 DEF IsSum
  <2>4. ASSUME NEW s \in SUBSET T, s # T, NEW r \in SUBSET s PROVE G(s)[r] = G(r)[r]
    <3>1. IsFiniteSet(r)
      BY FS_Subset
    <3>2. r \subseteq T /\ r # T
      BY <2>4
    <3> QED
      BY <2>2, <2>4, <3>1, <3>2, SumUnique
  <2>5. ASSUME NEW s \in SUBSET T PROVE h[s] = SumStep(h, f, s)
    <3>1. CASE s = {}
      BY <3>1, <2>3 DEF SumStep
    <3>2. CASE s # {} /\ s = T
      <4>1. T \ {Picked(T)} \in SUBSET T /\ T \ {Picked(T)} # T
        BY <3>2, PickedIn
      <4> QED
        BY <3>2, <4>1 DEF SumStep
    <3>3. CASE s # {} /\ s # T
      <4>1. s \ {Picked(s)} \in SUBSET s /\ s \ {Picked(s)} # T /\ s \ {Picked(s)} \in SUBSET T
        BY <3>3, PickedIn
      <4>2. h[s] = G(s)[s] /\ h[s \ {Picked(s)}] = G(s \ {Picked(s)})[s \ {Picked(s)}]
        BY <3>3, <4>1
      <4>3. G(s)[s \ {Picked(s)}] = h[s \ {Picked(s)}]
        BY <2>4, <3>3, <4>1, <4>2
      <4> HIDE DEF h
      <4> QED
        BY <2>3, <3>3, <4>2, <4>3 DEF SumStep
    <3> QED
      BY <3>1, <3>2, <3>3
  <2>6. h = [s \in SUBSET T |-> SumStep(h, f, s)]
    <3>1. h = [s \in SUBSET T |-> h[s]]
      OBVIOUS
    <3> HIDE DEF h
    <3> QED
      BY <2>5, <3>1
  <2> QED
    BY <2>1, <2>6 DEF IsSum
<1> QED
  BY <1>1

\* A sum is one element's summand and the sum over the others.
LEMMA TotalPick ==
  ASSUME NEW f, NEW S, IsFiniteSet(S)
  PROVE  /\ S = {} => Total(f, S) = 0
         /\ S # {} => Total(f, S) = f[Picked(S)] + Total(f, S \ {Picked(S)})
<1> DEFINE G(s) == CHOOSE g : IsSum(g, f, s)
<1>1. IsSum(G(S), f, S)
  BY SumExists
<1>2. Total(f, S) = G(S)[S] /\ G(S)[S] = SumStep(G(S), f, S)
  <2>1. G(S)[S] = SumStep(G(S), f, S)
    <3> HIDE DEF G
    <3> QED BY <1>1 DEF IsSum
  <2> QED BY <2>1, TotalIs
<1>3. ASSUME S # {} PROVE G(S)[S \ {Picked(S)}] = Total(f, S \ {Picked(S)})
  <2> DEFINE R == S \ {Picked(S)}
  <2>1. IsFiniteSet(R) BY FS_Subset
  <2>2. IsSum(G(R), f, R) BY <2>1, SumExists
  <2>3. Total(f, R) = G(R)[R] BY TotalIs
  <2>4. G(S)[R] = G(R)[R]
    <3>1. R \subseteq S OBVIOUS
    <3> HIDE DEF G, R
    <3> QED BY <1>1, <2>1, <2>2, <3>1, SumUnique
  <2> QED BY <2>3, <2>4
<1> HIDE DEF G
<1> QED BY <1>2, <1>3 DEF SumStep

\* Sums of naturals are naturals.
LEMMA TotalType ==
  ASSUME NEW f, NEW S, IsFiniteSet(S), \A x \in S : f[x] \in Nat
  PROVE  Total(f, S) \in Nat
<1> DEFINE Bad == {T \in SUBSET S : Total(f, T) \notin Nat}
<1>0. Bad \in SUBSET SUBSET S
  OBVIOUS
<1>1. ASSUME Bad # {} PROVE FALSE
  <2>1. PICK T \in Bad : \A y \in Bad : y \subseteq T => y = T
    <3> HIDE DEF Bad
    <3> QED BY <1>0, <1>1, MinimalSubset
  <2>2. IsFiniteSet(T) BY FS_Subset
  <2>3. T # {}
    <3>1. T = {} => Total(f, T) = 0 BY <2>2, TotalPick
    <3> QED BY <3>1
  <2>4. Total(f, T \ {Picked(T)}) \in Nat BY <2>1, <2>3, PickedIn
  <2>5. f[Picked(T)] \in Nat BY <2>3, PickedIn
  <2> QED BY <2>2, <2>3, <2>4, <2>5, TotalPick
<1> QED BY <1>1

\* Any element may be taken out first.
LEMMA TotalAdd ==
  ASSUME NEW f, NEW S, IsFiniteSet(S), \A x \in S : f[x] \in Nat, NEW z \in S
  PROVE  Total(f, S) = f[z] + Total(f, S \ {z})
<1> DEFINE Bad == {T \in SUBSET S : ~ \A x \in T : Total(f, T) = f[x] + Total(f, T \ {x})}
<1>0. Bad \in SUBSET SUBSET S
  OBVIOUS
<1>1. ASSUME Bad # {} PROVE FALSE
  <2>1. PICK T \in Bad : \A y \in Bad : y \subseteq T => y = T
    <3> HIDE DEF Bad
    <3> QED BY <1>0, <1>1, MinimalSubset
  <2>2. PICK x \in T : Total(f, T) # f[x] + Total(f, T \ {x}) BY <2>1
  <2> DEFINE p == Picked(T)
  <2>3. p \in T BY PickedIn
  <2> HIDE DEF p
  <2>4. Total(f, T) = f[p] + Total(f, T \ {p})
    <3>1. IsFiniteSet(T) BY FS_Subset
    <3> QED BY <2>2, <3>1, TotalPick DEF p
  <2>5. x # p BY <2>2, <2>4
  <2>6. Total(f, T \ {p}) = f[x] + Total(f, (T \ {p}) \ {x})
    <3>1. T \ {p} \notin Bad BY <2>1, <2>3
    <3> QED BY <2>5, <3>1
  <2>7. Total(f, T \ {x}) = f[p] + Total(f, (T \ {x}) \ {p})
    <3>1. T \ {x} \notin Bad BY <2>1
    <3> QED BY <2>3, <2>5, <3>1
  <2>8. (T \ {p}) \ {x} = (T \ {x}) \ {p} OBVIOUS
  <2>9. Total(f, (T \ {x}) \ {p}) \in Nat
    <3>1. IsFiniteSet((T \ {x}) \ {p}) BY FS_Subset
    <3> QED BY <3>1, TotalType
  <2>10. f[x] \in Nat /\ f[p] \in Nat BY <2>3
  <2> QED BY <2>2, <2>4, <2>6, <2>7, <2>8, <2>9, <2>10
<1> QED BY <1>1

\* A sum is at most one that has a summand no smaller for every element that
\* contributes to it, whatever else the larger one adds up.
LEMMA TotalBound ==
  ASSUME NEW f, NEW g, NEW A, NEW B, IsFiniteSet(A), IsFiniteSet(B),
         \A x \in A : f[x] \in Nat, \A x \in B : g[x] \in Nat,
         \A x \in A \cap B : f[x] <= g[x], \A x \in A \ B : f[x] = 0
  PROVE  Total(f, A) <= Total(g, B)
<1> DEFINE All == A \cup B
           Bad == {R \in SUBSET All : ~ (Total(f, R \cap A) <= Total(g, R \cap B))}
<1>0. IsFiniteSet(All) /\ Bad \in SUBSET SUBSET All
  BY FS_Union
<1>1. ASSUME Bad # {} PROVE FALSE
  <2>1. PICK R \in Bad : \A y \in Bad : y \subseteq R => y = R
    <3> HIDE DEF Bad
    <3> QED BY <1>0, <1>1, MinimalSubset
  <2>2. R # {}
    <3>1. ASSUME R = {} PROVE FALSE
      <4>1. R \cap A = {} /\ R \cap B = {} BY <3>1
      <4>2. Total(f, R \cap A) = 0 /\ Total(g, R \cap B) = 0
        BY <4>1, FS_EmptySet, TotalPick
      <4> QED BY <4>2
    <3> QED BY <3>1
  <2>3. PICK x \in R : TRUE BY <2>2
  <2> DEFINE Q == R \ {x}
  <2>4. /\ IsFiniteSet(R \cap A) /\ IsFiniteSet(Q \cap A)
        /\ IsFiniteSet(R \cap B) /\ IsFiniteSet(Q \cap B)
    BY FS_Subset
  <2>5. Total(f, Q \cap A) <= Total(g, Q \cap B)
    <3>1. Q \notin Bad BY <2>1
    <3> QED BY <3>1
  <2>6. Total(f, Q \cap A) \in Nat /\ Total(g, Q \cap B) \in Nat BY <2>4, TotalType
  <2>7. /\ x \in A => Total(f, R \cap A) = f[x] + Total(f, Q \cap A)
        /\ x \notin A => Total(f, R \cap A) = Total(f, Q \cap A)
    <3>1. x \in A => x \in R \cap A /\ (R \cap A) \ {x} = Q \cap A OBVIOUS
    <3>2. x \notin A => R \cap A = Q \cap A OBVIOUS
    <3>3. x \in A => Total(f, R \cap A) = f[x] + Total(f, (R \cap A) \ {x})
      BY <2>4, TotalAdd
    <3> QED BY <3>1, <3>2, <3>3
  <2>8. /\ x \in B => Total(g, R \cap B) = g[x] + Total(g, Q \cap B)
        /\ x \notin B => Total(g, R \cap B) = Total(g, Q \cap B)
    <3>1. x \in B => x \in R \cap B /\ (R \cap B) \ {x} = Q \cap B OBVIOUS
    <3>2. x \notin B => R \cap B = Q \cap B OBVIOUS
    <3>3. x \in B => Total(g, R \cap B) = g[x] + Total(g, (R \cap B) \ {x})
      BY <2>4, TotalAdd
    <3> QED BY <3>1, <3>2, <3>3
  <2>9. /\ x \in A => f[x] \in Nat
        /\ x \in B => g[x] \in Nat
        /\ x \in A /\ x \in B => f[x] <= g[x]
        /\ x \in A /\ x \notin B => f[x] = 0
        /\ x \in A \/ x \in B
    OBVIOUS
  <2>10. ~ (Total(f, R \cap A) <= Total(g, R \cap B)) OBVIOUS
  <2> DEFINE fR == Total(f, R \cap A)
             gR == Total(g, R \cap B)
             fQ == Total(f, Q \cap A)
             gQ == Total(g, Q \cap B)
  <2>11. /\ fQ \in Nat /\ gQ \in Nat /\ fQ <= gQ /\ ~ (fR <= gR)
         /\ x \in A => fR = f[x] + fQ
         /\ x \notin A => fR = fQ
         /\ x \in B => gR = g[x] + gQ
         /\ x \notin B => gR = gQ
    BY <2>5, <2>6, <2>7, <2>8, <2>10
  <2> HIDE DEF fR, gR, fQ, gQ
  <2>12. CASE x \in A /\ x \in B BY <2>9, <2>11, <2>12
  <2>13. CASE x \in A /\ x \notin B
    <3>1. fR = fQ BY <2>9, <2>11, <2>13
    <3> QED BY <2>11, <2>13, <3>1
  <2>14. CASE x \notin A /\ x \in B BY <2>9, <2>11, <2>14
  <2> QED BY <2>9, <2>12, <2>13, <2>14
<1>2. All \notin Bad BY <1>1
<1>3. All \cap A = A /\ All \cap B = B OBVIOUS
<1> QED BY <1>2, <1>3

\* What one element's summand changes, the sum changes.
LEMMA TotalUpdate ==
  ASSUME NEW f, NEW g, NEW S, IsFiniteSet(S), NEW z \in S,
         \A x \in S : f[x] \in Nat /\ g[x] \in Nat, \A x \in S \ {z} : g[x] = f[x]
  PROVE  Total(g, S) - g[z] = Total(f, S) - f[z]
<1>1. IsFiniteSet(S \ {z}) BY FS_Subset
<1>2. Total(f, S \ {z}) \in Nat /\ Total(g, S \ {z}) \in Nat BY <1>1, TotalType
<1>3. Total(f, S \ {z}) <= Total(g, S \ {z}) /\ Total(g, S \ {z}) <= Total(f, S \ {z})
  BY <1>1, TotalBound
<1>4. Total(f, S) = f[z] + Total(f, S \ {z}) /\ Total(g, S) = g[z] + Total(g, S \ {z})
  BY TotalAdd
<1> QED BY <1>2, <1>3, <1>4

-----------------------------------------------------------------------------
(* Stopping the workers of a stage.                                        *)
(*                                                                         *)
(* No worker is killed before its allowance is used, and no Vulkan worker  *)
(* outlives its deadline by more than one reap.  The invariant ties the    *)
(* two clocks of a worker together: a Vulkan deadline is always the        *)
(* request plus the allowance, and the limit of the wait in progress is    *)
(* never earlier than that for the worker it waits for, because an         *)
(* ordinary budget starts when the parent turns to it.                     *)
Waiting == {"check", "waiting"}

\* The clocks and the entry, as far as the argument needs them.
Clocks ==
  /\ now \in Nat /\ limit \in Nat
  /\ pc \in {"idle", "term", "turn", "check", "waiting", "reap", "done"}
  /\ at \in 1..(Entries + 1)
  /\ pc \in Waiting \cup {"reap"} => at \in Positions
  /\ proc \in [Positions -> {"running", "killed", "gone"}]
  /\ requested \in [Positions -> Nat \cup {-1}]
  /\ deadline \in [Positions -> Nat \cup {-1}]
  /\ \A i \in Positions : requested[i] <= now

\* A Vulkan deadline is what its one request fixed.
Fixed ==
  \A i \in Positions :
    /\ deadline[i] # -1 => i \in Vulkan /\ requested[i] # -1
                             /\ deadline[i] = requested[i] + Allowance[i]
    /\ i \in Vulkan /\ requested[i] # -1 => deadline[i] # -1

\* After the first pass has gone by, whatever runs was asked to stop.
Asked ==
  \A i \in Positions :
    Running(i) /\ (pc \in Waiting \cup {"turn", "reap", "done"} \/ (pc = "term" /\ i < at))
      => requested[i] # -1

\* The wait in progress gives its worker at least the whole allowance.
Budget == pc \in Waiting /\ Running(at) => limit >= requested[at] + Allowance[at]

IInv == Clocks /\ Fixed /\ Asked /\ Budget

LEMMA InitIInv == Init => IInv
  BY ShutdownAssumption DEF Init, IInv, Clocks, Fixed, Asked, Budget, Waiting, Positions

LEMMA StepIInv ==
  ASSUME IInv, [Next]_vars
  PROVE  IInv'
<1> USE ShutdownAssumption DEF Positions, Running, Waiting
<1>1. CASE StopCalled
  BY <1>1 DEF StopCalled, IInv, Clocks, Fixed, Asked, Budget, entryVars, waitVars
<1>2. CASE RequestTermination
  <2>1. /\ at \in Positions /\ pc = "term" /\ at' = at + 1
        /\ UNCHANGED <<now, pc, proc, limit>>
    BY <1>2 DEF RequestTermination, waitVars
  <2>2. CASE Running(at) /\ ~(at \in Vulkan /\ requested[at] # -1)
    <3>1. requested' = [requested EXCEPT ![at] = now] BY <1>2, <2>2 DEF RequestTermination
    <3>2. CASE at \in Vulkan
      <4>1. deadline' = [deadline EXCEPT ![at] = now + Allowance[at]]
        BY <1>2, <2>2, <3>2 DEF RequestTermination
      <4>2. now + Allowance[at] \in Nat BY <2>1 DEF IInv, Clocks
      <4>3. Clocks' BY <2>1, <3>1, <4>1, <4>2 DEF IInv, Clocks
      <4>4. Fixed' BY <2>1, <3>1, <3>2, <4>1, <4>2 DEF IInv, Clocks, Fixed
      <4>5. Asked' BY <2>1, <3>1 DEF IInv, Clocks, Asked
      <4>6. Budget' BY <2>1 DEF Budget
      <4> QED BY <4>3, <4>4, <4>5, <4>6 DEF IInv
    <3>3. CASE at \notin Vulkan
      <4>1. deadline' = deadline BY <1>2, <2>2, <3>3 DEF RequestTermination
      <4>2. deadline[at] = -1 BY <2>1, <3>3 DEF IInv, Fixed
      <4> QED BY <2>1, <3>1, <4>1, <4>2, <3>3 DEF IInv, Clocks, Fixed, Asked, Budget
    <3> QED BY <3>2, <3>3
  <2>3. CASE ~(Running(at) /\ ~(at \in Vulkan /\ requested[at] # -1))
    <3>1. UNCHANGED <<requested, deadline>> BY <1>2, <2>3 DEF RequestTermination
    <3> QED BY <2>1, <2>3, <3>1 DEF IInv, Clocks, Fixed, Asked, Budget
  <2> QED BY <2>2, <2>3
<1>3. CASE SecondPass
  BY <1>3 DEF SecondPass, IInv, Clocks, Fixed, Asked, Budget, entryVars, waitVars
<1>4. CASE Turn
  <2>1. /\ pc = "turn" /\ pc' = "check" /\ at \in Positions
        /\ UNCHANGED <<now, at, proc, requested, deadline>>
    BY <1>4 DEF Turn, entryVars
  <2>2. limit' = IF at \in Vulkan THEN IF deadline[at] = -1 THEN now ELSE deadline[at]
                 ELSE now + Allowance[at]
    BY <1>4 DEF Turn
  <2>3. Clocks'
    <3>1. limit' \in Nat BY <2>1, <2>2 DEF IInv, Clocks
    <3> QED BY <2>1, <3>1 DEF IInv, Clocks
  <2>4. Fixed' /\ Asked' BY <2>1 DEF IInv, Fixed, Asked
  <2>5. Budget'
    <3> SUFFICES ASSUME Running(at)
                 PROVE  limit' >= requested[at] + Allowance[at]
      BY <2>1 DEF Budget
    <3>1. requested[at] # -1 BY <2>1 DEF IInv, Asked
    <3>2. CASE at \in Vulkan
      <4>1. deadline[at] = requested[at] + Allowance[at]
        BY <2>1, <3>1, <3>2 DEF IInv, Fixed
      <4> QED BY <2>1, <2>2, <3>1, <3>2, <4>1 DEF IInv, Clocks
    <3>3. CASE at \notin Vulkan
      BY <2>1, <2>2, <3>1, <3>3 DEF IInv, Clocks
    <3> QED BY <3>2, <3>3
  <2> QED BY <2>3, <2>4, <2>5 DEF IInv
<1>5. CASE Check
  <2>1. /\ pc = "check" /\ at \in Positions
        /\ proc' = [i \in Positions |-> IF i \in Expired THEN "killed" ELSE proc[i]]
        /\ UNCHANGED <<now, requested, deadline, limit>>
    BY <1>5 DEF Check, IInv, Clocks
  <2>2. \A i \in Positions : proc'[i] # "gone" => proc[i] # "gone"
    BY <2>1 DEF Expired, Pending
  <2>3. \/ pc' = "turn" /\ at' = at + 1
        \/ pc' = "reap" /\ at' = at
        \/ pc' = "waiting" /\ at' = at
    <3>1. CASE at \in timedOut' \cap Vulkan
      <4>1. IF at \in reaped THEN pc' = "turn" /\ at' = at + 1 /\ UNCHANGED until
            ELSE pc' = "reap" /\ until' = now + ReapTime /\ UNCHANGED at
        BY <1>5, <3>1, Zenon DEF Check
      <4> QED BY <4>1
    <3>2. CASE at \notin timedOut' \cap Vulkan
      BY <1>5, <3>2, Zenon DEF Check
    <3> QED BY <3>1, <3>2
  <2>4. proc' \in [Positions -> {"running", "killed", "gone"}]
    BY <2>1 DEF IInv, Clocks
  <2>5. Clocks' BY <2>1, <2>3, <2>4 DEF IInv, Clocks
  <2>6. Fixed' BY <2>1 DEF IInv, Fixed
  <2>7. Asked'
    <3>1. \A i \in Positions : requested'[i] # -1 \/ ~Running(i)'
      BY <2>1, <2>2 DEF IInv, Asked
    <3> QED BY <3>1 DEF Asked
  <2>8. Budget' BY <2>1, <2>2, <2>3 DEF IInv, Budget
  <2> QED BY <2>5, <2>6, <2>7, <2>8 DEF IInv
<1>6. CASE WaitReturns
  BY <1>6 DEF WaitReturns, IInv, Clocks, Fixed, Asked, Budget, entryVars, waitVars
<1>7. CASE WaitResumes
  BY <1>7 DEF WaitResumes, IInv, Clocks, Fixed, Asked, Budget, entryVars, waitVars
<1>8. CASE Overrun
  <2>1. /\ pc = "waiting" /\ at \in Positions /\ Running(at)
        /\ proc' = [proc EXCEPT ![at] = "killed"]
        /\ UNCHANGED <<now, requested, deadline, limit>>
    BY <1>8 DEF Overrun, IInv, Clocks
  <2>2. \/ pc' = "turn" /\ at' = at + 1
        \/ pc' = "reap" /\ at' = at
    BY <1>8 DEF Overrun
  <2>3. Clocks' BY <2>1, <2>2 DEF IInv, Clocks
  <2>4. Fixed' /\ Asked' BY <2>1, <2>2 DEF IInv, Clocks, Fixed, Asked
  <2>5. Budget' BY <2>1, <2>2 DEF IInv, Budget
  <2> QED BY <2>3, <2>4, <2>5 DEF IInv
<1>9. CASE ReapFails
  BY <1>9 DEF ReapFails, IInv, Clocks, Fixed, Asked, Budget, entryVars, waitVars
<1>10. CASE Return
  BY <1>10 DEF Return, IInv, Clocks, Fixed, Asked, Budget, entryVars, waitVars
<1>11. CASE WorkerExits
  BY <1>11 DEF WorkerExits, IInv, Clocks, Fixed, Asked, Budget, waitVars
<1>12. CASE Tick
  <2>1. now' = now + 1 /\ UNCHANGED <<pc, at, proc, requested, deadline, limit>>
    BY <1>12 DEF Tick, entryVars, waitVars
  <2>2. \A i \in Positions : requested[i] <= now + 1
    <3> TAKE i \in Positions
    <3>1. requested[i] <= now /\ now \in Nat /\ requested[i] \in Nat \cup {-1}
      BY DEF IInv, Clocks
    <3> QED BY <3>1
  <2>3. Clocks' BY <2>1, <2>2 DEF IInv, Clocks
  <2>4. Fixed' /\ Asked' /\ Budget' BY <2>1 DEF IInv, Fixed, Asked, Budget
  <2> QED BY <2>3, <2>4 DEF IInv
<1>13. CASE UNCHANGED vars
  BY <1>13 DEF vars, entryVars, waitVars, IInv, Clocks, Fixed, Asked, Budget
<1> QED BY <1>1, <1>2, <1>3, <1>4, <1>5, <1>6, <1>7, <1>8, <1>9, <1>10, <1>11, <1>12,
           <1>13 DEF Next

\* The clocks, deadlines and budgets of one call of stop_stage_processes agree.
THEOREM ClocksAgree == Spec => []IInv
<1>1. Init => IInv BY InitIInv
<1>2. IInv /\ [Next]_vars => IInv' BY StepIInv
<1> QED BY <1>1, <1>2, PTL DEF Spec

\* Only an expired deadline or an overrun limit kills.
LEMMA KillIsLate ==
  ASSUME IInv, Next, NEW i \in Positions, proc[i] = "running", proc'[i] = "killed"
  PROVE  requested[i] # -1 /\ now >= requested[i] + Allowance[i]
<1> USE ShutdownAssumption DEF Positions, Running, Waiting
<1>1. CASE Check
  <2>1. i \in Expired BY <1>1 DEF Check, IInv, Clocks
  <2>2. deadline[i] # -1 /\ now >= deadline[i] BY <2>1 DEF Expired, Pending
  <2> QED BY <2>2 DEF IInv, Clocks, Fixed
<1>2. CASE Overrun
  <2>1. i = at BY <1>2 DEF Overrun, IInv, Clocks
  <2>2. pc = "waiting" /\ Running(at) /\ now >= limit BY <1>2 DEF Overrun
  <2> QED BY <2>1, <2>2 DEF IInv, Clocks, Asked, Budget
<1>3. CASE WorkerExits
  BY <1>3 DEF WorkerExits, IInv, Clocks
<1>4. CASE StopCalled \/ RequestTermination \/ SecondPass \/ Turn \/ WaitReturns
             \/ WaitResumes \/ ReapFails \/ Return \/ Tick
  BY <1>4 DEF StopCalled, RequestTermination, SecondPass, Turn, WaitReturns, WaitResumes,
              ReapFails, Return, Tick, entryVars
<1> QED BY <1>1, <1>2, <1>3, <1>4 DEF Next

\* No worker is killed before the whole allowance since its SIGTERM request has
\* passed (wait_with_deadlines, expire_vulkan_deadlines, kill_vulkan).
THEOREM NobodyIsKilledEarly == Spec => NoEarlyKill
<1>1. IInv /\ [Next]_vars
        => [\A i \in Positions :
              proc[i] = "running" /\ proc'[i] = "killed" =>
                requested[i] # -1 /\ now >= requested[i] + Allowance[i]]_vars
  BY KillIsLate
<1> QED BY <1>1, ClocksAgree, PTL DEF Spec, NoEarlyKill

-----------------------------------------------------------------------------
(* How late a Vulkan deadline is kept.  Time passes only in a wait or in a *)
(* reap; a wait ends at the first pending deadline, a reap begins after    *)
(* the expired ones were dealt with and lasts ReapTime.                    *)

\* Min is a CHOOSE over a set: of naturals it is the smallest.
LEMMA MinOfNaturals ==
  ASSUME NEW S \in SUBSET Nat, S # {}
  PROVE  Min(S) \in S /\ \A x \in S : Min(S) <= x
<1> DEFINE R == OpToRel(<, Nat)
<1>1. IsWellFoundedOn(R, Nat) BY NatLessThanWellFounded
<1> HIDE DEF R
<1>2. \E x \in S : \A y \in S : <<y, x>> \notin R
  BY <1>1, WFMin
<1>3. PICK x \in S : \A y \in S : <<y, x>> \notin R BY <1>2
<1>4. \A y \in S : ~(y < x)
  <2> TAKE y \in S
  <2>1. <<y, x>> \in Nat \X Nat OBVIOUS
  <2>2. <<y, x>> \notin R BY <1>3
  <2> QED BY <2>1, <2>2 DEF R, OpToRel
<1>5. \A y \in S : x <= y BY <1>4
<1>6. \E z \in S : \A y \in S : z =< y BY <1>5
<1> QED BY <1>6 DEF Min

\* The wait or the reap in progress, against every deadline still pending.
Punctual ==
  /\ until \in Nat
  /\ pc \in {"waiting", "reap"} => now <= until
  /\ \A i \in Pending :
       /\ now <= deadline[i] + ReapTime
       /\ pc = "waiting" => until <= deadline[i]
       /\ pc = "reap" => until <= deadline[i] + ReapTime

LEMMA InitPunctual == Init => Punctual
<1> SUFFICES ASSUME Init PROVE Punctual
  OBVIOUS
<1>1. Pending = {} BY ShutdownAssumption DEF Init, Pending, Positions
<1> QED BY <1>1 DEF Init, Punctual

LEMMA CheckPunctual ==
  ASSUME IInv, Punctual, Check
  PROVE  Punctual'
<1> USE ShutdownAssumption DEF Positions, Running, Waiting
<1>1. /\ pc = "check" /\ at \in Positions
      /\ proc' = [i \in Positions |-> IF i \in Expired THEN "killed" ELSE proc[i]]
      /\ timedOut' = timedOut \cup Expired
      /\ now' = now /\ deadline' = deadline
  BY DEF Check, IInv, Clocks
<1>2. Pending' \subseteq Pending \ Expired
  BY <1>1 DEF Pending, Expired
<1>3. now \in Nat /\ limit \in Nat BY DEF IInv, Clocks
<1>4. \A i \in Pending : deadline[i] \in Nat BY DEF Pending, IInv, Clocks
<1>5. \A i \in Pending' : i \in Pending /\ now < deadline[i] /\ deadline[i] \in Nat
  BY <1>2, <1>3, <1>4 DEF Expired
<1>6. CASE at \in timedOut' \cap Vulkan
  <2>1. IF at \in reaped THEN pc' = "turn" /\ at' = at + 1 /\ UNCHANGED until
        ELSE pc' = "reap" /\ until' = now + ReapTime /\ UNCHANGED at
    BY <1>6, Zenon DEF Check
  <2> QED BY <1>1, <1>3, <1>5, <2>1 DEF Punctual
<1>7. CASE at \notin timedOut' \cap Vulkan
  <2> DEFINE own == IF limit > now THEN limit ELSE now
             S == {own} \cup {deadline[i] : i \in Pending \ Expired}
  <2>1. until' = Min(S) /\ pc' = "waiting" BY <1>7, Zenon DEF Check
  <2>2. own \in Nat /\ now <= own BY <1>3
  <2>3. \A x \in S : x \in Nat /\ now <= x
    BY <1>3, <1>4, <2>2 DEF Expired
  <2>4. \A i \in Pending' : deadline[i] \in S BY <1>2
  <2>5. S \in SUBSET Nat /\ S # {} BY <2>3
  <2> HIDE DEF S
  <2>6. Min(S) \in S /\ \A x \in S : Min(S) <= x BY <2>5, MinOfNaturals
  <2>7. until' \in Nat /\ now <= until' BY <2>1, <2>3, <2>6
  <2>8. \A i \in Pending' : until' <= deadline[i] BY <2>1, <2>4, <2>6
  <2> QED BY <1>1, <1>3, <1>5, <2>1, <2>7, <2>8 DEF Punctual
<1> QED BY <1>6, <1>7

LEMMA StepPunctual ==
  ASSUME IInv, Punctual, [Next]_vars
  PROVE  Punctual'
<1> USE ShutdownAssumption DEF Positions, Running
<1>1. CASE StopCalled \/ SecondPass \/ Turn \/ ReapFails \/ Return \/ WaitReturns \/ WaitResumes
  <2>1. /\ pc' \notin {"waiting", "reap"}
        /\ UNCHANGED <<now, proc, deadline, timedOut, until>>
    BY <1>1 DEF StopCalled, SecondPass, Turn, ReapFails, Return, WaitReturns, WaitResumes,
                entryVars, waitVars
  <2>2. Pending' = Pending BY <2>1 DEF Pending
  <2> QED BY <2>1, <2>2 DEF Punctual
<1>2. CASE RequestTermination
  <2>1. /\ pc = "term" /\ pc' = "term" /\ at \in Positions
        /\ UNCHANGED <<now, proc, timedOut, until>>
    BY <1>2 DEF RequestTermination, waitVars
  <2>2. /\ now \in Nat /\ ReapTime \in Nat
        /\ deadline \in [Positions -> Nat \cup {-1}] /\ Allowance[at] \in Nat
    BY <2>1 DEF IInv, Clocks
  <2>3. deadline' = deadline \/ deadline' = [deadline EXCEPT ![at] = now + Allowance[at]]
    BY <1>2 DEF RequestTermination
  <2>4. \A i \in Pending' : deadline'[i] = deadline[i] \/ deadline'[i] = now + Allowance[at]
    BY <2>2, <2>3 DEF Pending
  <2>5. \A i \in Pending' : now <= deadline'[i] + ReapTime
    <3> TAKE i \in Pending'
    <3>1. CASE deadline'[i] = now + Allowance[at] BY <3>1, <2>2
    <3>2. CASE deadline'[i] = deadline[i]
      <4>1. i \in Pending BY <2>1, <3>2 DEF Pending
      <4> QED BY <4>1, <3>2 DEF Punctual
    <3> QED BY <2>4, <3>1, <3>2
  <2> QED BY <2>1, <2>5 DEF Punctual
<1>3. CASE Check BY <1>3, CheckPunctual
<1>4. CASE Overrun
  <2>1. /\ pc = "waiting" /\ now = until
        /\ proc' = [proc EXCEPT ![at] = "killed"] /\ timedOut' = timedOut \cup {at}
        /\ UNCHANGED <<now, deadline>>
    BY <1>4 DEF Overrun
  <2>2. \/ pc' = "turn" /\ until' = until
        \/ pc' = "reap" /\ until' = now + ReapTime
    BY <1>4 DEF Overrun
  <2>3. Pending' \subseteq Pending BY <1>4, <2>1 DEF Overrun, Pending, IInv, Clocks
  <2>4. now \in Nat /\ \A i \in Pending : deadline[i] \in Nat
    BY DEF IInv, Clocks, Pending
  <2>5. \A i \in Pending' : now <= deadline[i] /\ deadline[i] \in Nat
    BY <2>1, <2>3, <2>4 DEF Punctual
  <2> QED BY <2>1, <2>2, <2>4, <2>5 DEF Punctual
<1>5. CASE WorkerExits
  <2>1. UNCHANGED <<now, pc, deadline, timedOut, until>> BY <1>5 DEF WorkerExits, waitVars
  <2>2. Pending' \subseteq Pending BY <1>5 DEF WorkerExits, Pending, IInv, Clocks
  <2> QED BY <2>1, <2>2 DEF Punctual
<1>6. CASE Tick
  <2>1. /\ pc \in {"waiting", "reap"} /\ now < until /\ now' = now + 1
        /\ UNCHANGED <<pc, deadline, timedOut, proc, until>>
    BY <1>6 DEF Tick, entryVars, waitVars
  <2>2. Pending' = Pending BY <2>1 DEF Pending
  <2>3. now \in Nat /\ ReapTime \in Nat /\ \A i \in Pending : deadline[i] \in Nat
    BY DEF IInv, Clocks, Pending
  <2> QED BY <2>1, <2>2, <2>3 DEF Punctual
<1>7. CASE UNCHANGED vars
  <2>1. UNCHANGED <<now, pc, proc, deadline, timedOut, until>>
    BY <1>7 DEF vars, entryVars, waitVars
  <2>2. Pending' = Pending BY <2>1 DEF Pending
  <2> QED BY <2>1, <2>2 DEF Punctual
<1> QED BY <1>1, <1>2, <1>3, <1>4, <1>5, <1>6, <1>7 DEF Next

\* A Vulkan deadline is overrun by at most one reap of another worker, for any list,
\* any allowances and any number of calls (expire_vulkan_deadlines).
THEOREM DeadlinesAreKept == Spec => []LateByOneReap
<1>1. Init => IInv /\ Punctual BY InitIInv, InitPunctual
<1>2. IInv /\ Punctual /\ [Next]_vars => (IInv /\ Punctual)'
  BY StepIInv, StepPunctual
<1>3. Punctual => LateByOneReap BY DEF Punctual, LateByOneReap
<1> QED BY <1>1, <1>2, <1>3, PTL DEF Spec

LEMMA StepType ==
  ASSUME IInv, Punctual', TypeOK, [Next]_vars
  PROVE  TypeOK'
<1> USE ShutdownAssumption DEF Positions
<1>1. IInv' BY StepIInv
<1>2. timedOut' \subseteq Positions /\ reaped' \subseteq Positions
  <2>1. CASE Check
    <3>1. Expired \subseteq Positions BY DEF Expired, Pending
    <3>2. at \in Positions BY <2>1 DEF Check, IInv, Clocks, Waiting
    <3>3. timedOut' = timedOut \cup Expired /\ reaped' \in {reaped, reaped \cup {at}}
      BY <2>1, Zenon DEF Check
    <3> QED BY <3>1, <3>2, <3>3 DEF TypeOK
  <2>2. CASE Overrun
    BY <2>2 DEF Overrun, TypeOK, IInv, Clocks, Waiting
  <2>3. CASE ~(Check \/ Overrun)
    BY <2>3 DEF Next, vars, StopCalled, RequestTermination, SecondPass, Turn, WaitReturns,
      WaitResumes, ReapFails, Return, WorkerExits, Tick, entryVars, TypeOK
  <2> QED BY <2>1, <2>2, <2>3
<1>3. calls' \in 0..MaxCalls /\ began' \in Nat
  BY DEF Next, vars, StopCalled, RequestTermination, SecondPass, Turn, Check, WaitReturns,
    WaitResumes, Overrun, ReapFails, Return, WorkerExits, Tick, TypeOK
<1> QED BY <1>1, <1>2, <1>3 DEF IInv, Clocks, Punctual, TypeOK

\* Every variable of a shutdown keeps its type.
THEOREM ShutdownTypeCorrect == Spec => []TypeOK
<1>1. Init => IInv /\ Punctual /\ TypeOK
  BY InitIInv, InitPunctual, ShutdownAssumption DEF Init, TypeOK, Positions
<1>2. IInv /\ Punctual /\ TypeOK /\ [Next]_vars => (IInv /\ Punctual /\ TypeOK)'
  BY StepIInv, StepPunctual, StepType
<1> QED BY <1>1, <1>2, PTL DEF Spec

-----------------------------------------------------------------------------
(* What a call leaves behind.  The second pass handles the entries one by  *)
(* one, and a kill in the middle of another entry's wait never undoes what *)
(* was done for an entry before it: its deadline is no longer pending.     *)

SecondPassPcs == {"turn", "check", "waiting", "reap"}

\* The entries the second pass has left, and the one it is reaping, are handled.
Past ==
  /\ \A i \in timedOut \cap Positions : proc[i] # "running"
  /\ \A i \in Vulkan : proc[i] = "killed" => i \in timedOut
  /\ pc \in SecondPassPcs => \A i \in 1..(at - 1) : Handled(i)
  /\ pc = "reap" => Handled(at)
  /\ pc = "done" => \A i \in Positions : Handled(i)

LEMMA StepPast ==
  ASSUME IInv, Past, [Next]_vars
  PROVE  Past'
<1> USE ShutdownAssumption DEF Positions, Running, Waiting, Handled, SecondPassPcs
<1>1. CASE StopCalled
  BY <1>1 DEF StopCalled, Past, entryVars
<1>2. CASE RequestTermination
  BY <1>2 DEF RequestTermination, Past
<1>3. CASE SecondPass
  BY <1>3 DEF SecondPass, Past, entryVars
<1>4. CASE Turn
  BY <1>4 DEF Turn, Past, entryVars
<1>5. CASE Check
  <2>1. /\ pc = "check" /\ at \in Positions
        /\ proc' = [i \in Positions |-> IF i \in Expired THEN "killed" ELSE proc[i]]
        /\ timedOut' = timedOut \cup Expired
    BY <1>5 DEF Check, IInv, Clocks
  <2>2. \A i \in Expired : i \in Vulkan /\ i \notin timedOut /\ proc[i] # "gone"
    BY DEF Expired, Pending
  <2>3. /\ \A i \in timedOut' \cap Positions : proc'[i] # "running"
        /\ \A i \in Vulkan : proc'[i] = "killed" => i \in timedOut'
    BY <2>1, <2>2 DEF Past
  <2>4. \A i \in Positions : Handled(i) => i \notin Expired /\ proc'[i] = proc[i]
    BY <2>1, <2>2 DEF Past, IInv, Clocks
  <2>5. CASE at \in timedOut' \cap Vulkan
    <3>1. /\ IF at \in reaped THEN pc' = "turn" /\ at' = at + 1 /\ UNCHANGED until
             ELSE pc' = "reap" /\ until' = now + ReapTime /\ UNCHANGED at
          /\ reaped' = reaped \cup {at}
      BY <1>5, <2>5, Zenon DEF Check
    <3>2. \A i \in 1..(at - 1) : Handled(i)' BY <2>1, <2>4, <3>1 DEF Past
    <3>3. proc'[at] # "running" /\ at \in reaped' BY <2>1, <2>3, <2>5, <3>1
    <3>4. CASE at \in reaped
      <4>1. pc' = "turn" /\ at' = at + 1 BY <3>1, <3>4
      <4>2. \A i \in 1..(at' - 1) : i = at \/ i \in 1..(at - 1) BY <2>1, <4>1
      <4>3. \A i \in 1..(at' - 1) : Handled(i)' BY <3>2, <3>3, <4>2
      <4> QED BY <2>3, <4>1, <4>3 DEF Past
    <3>5. CASE at \notin reaped
      BY <2>1, <2>3, <3>1, <3>2, <3>3, <3>5 DEF Past
    <3> QED BY <3>4, <3>5
  <2>6. CASE at \notin timedOut' \cap Vulkan
    <3>1. pc' = "waiting" /\ UNCHANGED <<at, reaped>> BY <1>5, <2>6, Zenon DEF Check
    <3> QED BY <2>1, <2>3, <2>4, <3>1 DEF Past
  <2> QED BY <2>5, <2>6
<1>6. CASE WaitReturns
  BY <1>6 DEF WaitReturns, Past, entryVars, IInv, Clocks
<1>7. CASE WaitResumes
  BY <1>7 DEF WaitResumes, Past, entryVars
<1>8. CASE Overrun
  <2>1. /\ pc = "waiting" /\ at \in Positions
        /\ proc' = [proc EXCEPT ![at] = "killed"] /\ timedOut' = timedOut \cup {at}
        /\ reaped' = IF at \in Vulkan THEN reaped \cup {at} ELSE reaped
    BY <1>8 DEF Overrun, IInv, Clocks
  <2>2. \/ pc' = "turn" /\ at' = at + 1
        \/ pc' = "reap" /\ at' = at
    BY <1>8 DEF Overrun
  <2>3. proc \in [Positions -> {"running", "killed", "gone"}] BY DEF IInv, Clocks
  <2> QED BY <2>1, <2>2, <2>3 DEF Past
<1>9. CASE ReapFails
  BY <1>9 DEF ReapFails, Past, entryVars, IInv, Clocks
<1>10. CASE Return
  BY <1>10 DEF Return, Past, entryVars
<1>11. CASE WorkerExits
  BY <1>11 DEF WorkerExits, Past, IInv, Clocks
<1>12. CASE Tick
  BY <1>12 DEF Tick, Past, entryVars
<1>13. CASE UNCHANGED vars
  BY <1>13 DEF vars, entryVars, Past
<1> QED BY <1>1, <1>2, <1>3, <1>4, <1>5, <1>6, <1>7, <1>8, <1>9, <1>10, <1>11, <1>12,
           <1>13 DEF Next

\* Every call returns with every worker of the list exited, or sent SIGKILL and, if it
\* is a Vulkan worker, reaped: for any list, any deadlines and any number of calls
\* (the finally and except branches of the second loop of stop_stage_processes).
THEOREM CallsLeaveNone == Spec => []StoppedLeavesNone
<1>1. Init => IInv /\ Past
  BY InitIInv, ShutdownAssumption DEF Init, Past, Positions, SecondPassPcs
<1>2. IInv /\ Past /\ [Next]_vars => (IInv /\ Past)'
  BY StepIInv, StepPast
<1>3. Past => StoppedLeavesNone BY DEF Past, StoppedLeavesNone
<1> QED BY <1>1, <1>2, <1>3, PTL DEF Spec

-----------------------------------------------------------------------------
(* How long one call takes.  The time is charged entry by entry: what the  *)
(* entries before k may have used, and what entry k may use while it is    *)
(* waited for.  Vulkan allowances are not charged one by one, since all of *)
(* them started before the first wait.                                     *)

\* Max is a CHOOSE over a set: of bounded naturals it is the largest.
LEMMA MaxOfNaturals ==
  ASSUME NEW S \in SUBSET Nat, S # {}, NEW b \in Nat, \A x \in S : x <= b
  PROVE  Max(S) \in S /\ \A x \in S : x <= Max(S)
<1> DEFINE D == {b - x : x \in S}
<1>0. \A x \in S : x \in Nat /\ x <= b OBVIOUS
<1>1. D \in SUBSET Nat /\ D # {}
  <2>1. \A x \in S : b - x \in Nat BY <1>0
  <2> QED BY <2>1
<1>2. Min(D) \in D /\ \A y \in D : Min(D) <= y
  <2> HIDE DEF D
  <2> QED BY <1>1, MinOfNaturals
<1>3. PICK m \in S : Min(D) = b - m BY <1>2
<1>4. \A x \in S : m >= x
  <2> TAKE x \in S
  <2>1. b - x \in D OBVIOUS
  <2>2. b - m <= b - x BY <1>2, <1>3, <2>1
  <2> QED BY <2>2
<1>5. \E z \in S : \A x \in S : z >= x BY <1>4
<1>6. Max(S) \in S /\ \A x \in S : Max(S) >= x BY <1>5 DEF Max
<1> QED BY <1>6

LongestVulkan == Max({0} \cup {Allowance[i] : i \in Vulkan})
Before(k) == (1..(k - 1)) \ Vulkan

\* What the entries before k may have used, and with the wait for k.
Used(k) == LongestVulkan + Total(Allowance, Before(k)) + (k - 1) * ReapTime
UpTo(k) == Used(k) + IF k \in Vulkan THEN 0 ELSE Allowance[k]

\* Positions and all their subsets are finite, and allowances are naturals.
LEMMA FinitePositions ==
  /\ \A S \in SUBSET Positions : IsFiniteSet(S)
  /\ \A i \in Positions : Allowance[i] \in Nat
<1>1. IsFiniteSet(1..Entries) BY ShutdownAssumption, FS_Interval
<1> QED BY <1>1, FS_Subset, ShutdownAssumption DEF Positions

\* Every Vulkan allowance is within the longest one.
LEMMA LongestVulkanIs ==
  LongestVulkan \in Nat /\ \A i \in Vulkan : Allowance[i] <= LongestVulkan
<1> DEFINE S == {0} \cup {Allowance[i] : i \in Vulkan}
           b == Total(Allowance, Vulkan)
<1>1. IsFiniteSet(Vulkan) /\ \A i \in Vulkan : Allowance[i] \in Nat
  BY FinitePositions, ShutdownAssumption
<1>2. b \in Nat BY <1>1, TotalType
<1>3. \A i \in Vulkan : Allowance[i] <= b
  <2> TAKE i \in Vulkan
  <2>1. b = Allowance[i] + Total(Allowance, Vulkan \ {i}) BY <1>1, TotalAdd
  <2>2. Total(Allowance, Vulkan \ {i}) \in Nat
    <3>1. IsFiniteSet(Vulkan \ {i}) BY <1>1, FS_Subset
    <3> QED BY <1>1, <3>1, TotalType
  <2> HIDE DEF b
  <2> QED BY <1>1, <2>1, <2>2
<1> HIDE DEF b
<1>4. S \in SUBSET Nat /\ S # {} /\ \A x \in S : x <= b BY <1>1, <1>2, <1>3
<1>5. \A i \in Vulkan : Allowance[i] \in S OBVIOUS
<1> HIDE DEF S
<1>6. Max(S) \in S /\ \A x \in S : x <= Max(S) BY <1>2, <1>4, MaxOfNaturals
<1>7. LongestVulkan = Max(S) BY DEF LongestVulkan, S
<1> QED BY <1>4, <1>5, <1>6, <1>7

\* The charges are naturals, add up entry by entry, and cover a Vulkan allowance
\* from the start.
LEMMA Charges ==
  ASSUME NEW k \in Positions
  PROVE  /\ Used(k) \in Nat /\ UpTo(k) \in Nat /\ Used(k) <= UpTo(k)
         /\ Used(k + 1) = UpTo(k) + ReapTime
         /\ k \in Vulkan => UpTo(k) = Used(k)
         /\ k \notin Vulkan => UpTo(k) = Used(k) + Allowance[k]
         /\ \A i \in Vulkan : Allowance[i] <= Used(k)
<1> USE ShutdownAssumption
<1>1. k \in Nat /\ Entries \in Nat /\ 1 <= k /\ k <= Entries BY DEF Positions
<1>2. /\ Before(k) \in SUBSET Positions /\ Before(k + 1) \in SUBSET Positions
      /\ IsFiniteSet(Before(k)) /\ IsFiniteSet(Before(k + 1))
  <2>1. Before(k) \in SUBSET Positions /\ Before(k + 1) \in SUBSET Positions
    BY <1>1 DEF Before, Positions
  <2> QED BY <2>1, FinitePositions
<1>3. Total(Allowance, Before(k)) \in Nat BY <1>2, FinitePositions, TotalType
<1>4. LongestVulkan \in Nat /\ \A i \in Vulkan : Allowance[i] <= LongestVulkan
  BY LongestVulkanIs
<1>5. (k - 1) * ReapTime \in Nat /\ k * ReapTime = (k - 1) * ReapTime + ReapTime
  BY <1>1
<1>6. Used(k) \in Nat BY <1>3, <1>4, <1>5 DEF Used
<1>7. \A i \in Vulkan : Allowance[i] <= Used(k)
  <2> TAKE i \in Vulkan
  <2>1. Allowance[i] \in Nat /\ Allowance[i] <= LongestVulkan
    BY <1>4, FinitePositions
  <2>2. Used(k) = LongestVulkan + Total(Allowance, Before(k)) + (k - 1) * ReapTime
    BY DEF Used
  <2> QED BY <1>3, <1>4, <1>5, <2>1, <2>2
<1>8. Used(k + 1) = LongestVulkan + Total(Allowance, Before(k + 1)) + k * ReapTime
  <2>1. (k + 1) - 1 = k BY <1>1
  <2> QED BY <2>1 DEF Used
<1>9. CASE k \in Vulkan
  <2>1. Before(k + 1) = Before(k) BY <1>1, <1>9 DEF Before
  <2>2. UpTo(k) = Used(k) BY <1>6, <1>9 DEF UpTo
  <2>3. Used(k + 1) = Used(k) + ReapTime
    <3>1. Total(Allowance, Before(k + 1)) = Total(Allowance, Before(k)) BY <2>1
    <3>2. Used(k) = LongestVulkan + Total(Allowance, Before(k)) + (k - 1) * ReapTime
      BY DEF Used
    <3> QED BY <1>3, <1>4, <1>5, <1>8, <3>1, <3>2
  <2> QED BY <1>6, <1>7, <1>9, <2>2, <2>3
<1>10. CASE k \notin Vulkan
  <2>1. k \in Before(k + 1) /\ Before(k + 1) \ {k} = Before(k)
    BY <1>1, <1>10 DEF Before
  <2>2. Total(Allowance, Before(k + 1)) = Allowance[k] + Total(Allowance, Before(k))
    <3>1. Total(Allowance, Before(k + 1))
            = Allowance[k] + Total(Allowance, Before(k + 1) \ {k})
      BY <1>2, <2>1, FinitePositions, TotalAdd
    <3> QED BY <2>1, <3>1
  <2>3. Allowance[k] \in Nat BY FinitePositions
  <2>4. UpTo(k) = Used(k) + Allowance[k] BY <1>10 DEF UpTo
  <2>5. Used(k + 1) = Used(k) + Allowance[k] + ReapTime
    <3>1. Used(k) = LongestVulkan + Total(Allowance, Before(k)) + (k - 1) * ReapTime
      BY DEF Used
    <3> QED BY <1>3, <1>4, <1>5, <1>8, <2>2, <2>3, <3>1
  <2> QED BY <1>6, <1>7, <1>10, <2>3, <2>4, <2>5
<1> QED BY <1>9, <1>10

\* What the entries before any entry may have used is within the longest call.
LEMMA UsedIsWithinLongest ==
  ASSUME NEW k \in 1..(Entries + 1)
  PROVE  Used(k) \in Nat /\ Used(k) <= Longest /\ Longest \in Nat
<1> USE ShutdownAssumption
<1>1. k \in Nat /\ Entries \in Nat /\ 1 <= k /\ k - 1 <= Entries OBVIOUS
<1> DEFINE All == Positions \ Vulkan
<1>2. /\ Before(k) \in SUBSET All /\ All \in SUBSET Positions
      /\ IsFiniteSet(All) /\ IsFiniteSet(Before(k))
  <2>1. Before(k) \in SUBSET All /\ All \in SUBSET Positions
    BY <1>1 DEF Before, Positions
  <2> QED BY <2>1, FinitePositions
<1>3. Longest = Total(Allowance, All) + LongestVulkan + Entries * ReapTime
  BY DEF Longest, Total, LongestVulkan
<1>4. Total(Allowance, All) \in Nat /\ Total(Allowance, Before(k)) \in Nat
  BY <1>2, FinitePositions, TotalType
<1>5. Total(Allowance, Before(k)) <= Total(Allowance, All)
  <2> HIDE DEF All
  <2> QED BY <1>2, FinitePositions, TotalBound
<1>6. /\ (k - 1) * ReapTime \in Nat /\ Entries * ReapTime \in Nat
      /\ (k - 1) * ReapTime <= Entries * ReapTime
  BY <1>1
<1>7. LongestVulkan \in Nat BY LongestVulkanIs
<1>8. Used(k) = LongestVulkan + Total(Allowance, Before(k)) + (k - 1) * ReapTime
  BY DEF Used
<1> HIDE DEF All
<1> QED BY <1>3, <1>4, <1>5, <1>6, <1>7, <1>8


\* During a call no Vulkan deadline is further away than the allowance from its begin.
Granted ==
  pc \notin {"idle", "done"} => \A i \in Vulkan : deadline[i] <= began + Allowance[i]

\* The time a call has used, at each place it can be at: what the entries before
\* this one are charged with, what this one may take while it is waited for, and one
\* reap.
OnTime ==
  /\ began \in Nat
  /\ Granted
  /\ pc = "term" => now = began
  /\ pc = "turn" => now - began <= Used(at)
  /\ pc \in Waiting => now - began <= UpTo(at) /\ limit - began <= UpTo(at)
  /\ pc = "waiting" => until - began <= UpTo(at)
  /\ pc = "reap" => until - began <= Used(at + 1)

\* A call starts on time, whatever deadlines earlier calls have fixed.
LEMMA CallStartsOnTime ==
  ASSUME IInv, OnTime, StopCalled
  PROVE  OnTime'
<1> USE ShutdownAssumption DEF Positions
<1>1. /\ began' = now /\ pc' = "term" /\ UNCHANGED <<now, deadline>>
  BY DEF StopCalled, entryVars
<1>2. now \in Nat BY DEF IInv, Clocks
<1>3. \A i \in Vulkan : deadline[i] <= now + Allowance[i]
  <2> TAKE i \in Vulkan
  <2>1. i \in Positions /\ Allowance[i] \in Nat /\ deadline[i] \in Nat \cup {-1}
    BY DEF IInv, Clocks
  <2>2. CASE deadline[i] = -1 BY <1>2, <2>1, <2>2
  <2>3. CASE deadline[i] # -1
    <3>1. requested[i] # -1 /\ deadline[i] = requested[i] + Allowance[i]
      BY <2>1, <2>3 DEF IInv, Fixed
    <3>2. requested[i] <= now /\ requested[i] \in Nat \cup {-1}
      BY <2>1 DEF IInv, Clocks
    <3> QED BY <1>2, <2>1, <3>1, <3>2
  <2> QED BY <2>2, <2>3
<1> QED BY <1>1, <1>2, <1>3 DEF OnTime, Granted, Waiting

\* The first pass takes no time.
LEMMA RequestOnTime ==
  ASSUME IInv, OnTime, RequestTermination
  PROVE  OnTime'
<1> USE ShutdownAssumption DEF Positions
<1>1. /\ pc = "term" /\ pc' = "term" /\ now' = now /\ began' = began /\ at \in Positions
      /\ now = began /\ began \in Nat
  BY DEF RequestTermination, OnTime
<1>2. deadline' = deadline \/ (at \in Vulkan /\ deadline' = [deadline EXCEPT ![at] = now + Allowance[at]])
  BY DEF RequestTermination
<1>3. \A i \in Vulkan : deadline'[i] <= began + Allowance[i]
  <2> TAKE i \in Vulkan
  <2>1. /\ i \in Positions /\ Allowance[i] \in Nat
        /\ deadline \in [Positions -> Nat \cup {-1}]
        /\ deadline[i] <= began + Allowance[i]
    BY <1>1 DEF IInv, Clocks, OnTime, Granted
  <2>2. deadline'[i] = deadline[i] \/ deadline'[i] = now + Allowance[i] BY <1>2, <2>1
  <2> QED BY <1>1, <2>1, <2>2
<1> QED BY <1>1, <1>3 DEF OnTime, Granted, Waiting

\* A turn gives a Vulkan worker what is left of its allowance, any other one a
\* budget of its own.
LEMMA TurnOnTime ==
  ASSUME IInv, OnTime, Turn
  PROVE  OnTime'
<1> USE ShutdownAssumption
<1>1. /\ pc = "turn" /\ pc' = "check" /\ at \in Positions
      /\ UNCHANGED <<now, at, deadline, began>>
  BY DEF Turn, entryVars
<1>2. limit' = IF at \in Vulkan THEN IF deadline[at] = -1 THEN now ELSE deadline[at]
               ELSE now + Allowance[at]
  BY DEF Turn
<1>3. /\ now \in Nat /\ began \in Nat /\ now - began <= Used(at)
      /\ Allowance[at] \in Nat
  BY <1>1, FinitePositions DEF IInv, Clocks, OnTime
<1>4. /\ Used(at) \in Nat /\ UpTo(at) \in Nat /\ Used(at) <= UpTo(at)
      /\ at \in Vulkan => Allowance[at] <= Used(at)
      /\ at \notin Vulkan => UpTo(at) = Used(at) + Allowance[at]
  BY <1>1, Charges
<1>5. now - began <= UpTo(at) BY <1>3, <1>4
<1>6. limit' - began <= UpTo(at)
  <2>1. CASE at \notin Vulkan
    <3>1. limit' = now + Allowance[at] BY <1>2, <2>1
    <3> QED BY <1>3, <1>4, <2>1, <3>1
  <2>2. CASE at \in Vulkan /\ deadline[at] = -1
    <3>1. limit' = now BY <1>2, <2>2
    <3> QED BY <1>5, <3>1
  <2>3. CASE at \in Vulkan /\ deadline[at] # -1
    <3>1. limit' = deadline[at] /\ deadline[at] <= began + Allowance[at]
      BY <1>1, <1>2, <2>3 DEF OnTime, Granted
    <3>2. deadline[at] \in Nat BY <1>1, <2>3 DEF IInv, Clocks
    <3> QED BY <1>3, <1>4, <2>3, <3>1, <3>2
  <2> QED BY <2>1, <2>2, <2>3
<1>7. Granted' BY <1>1 DEF OnTime, Granted
<1> QED BY <1>1, <1>3, <1>5, <1>6, <1>7 DEF OnTime, Waiting

\* What a wait was cut for is charged to the entry waited for.
LEMMA CheckOnTime ==
  ASSUME IInv, Punctual, OnTime, Check
  PROVE  OnTime'
<1> USE ShutdownAssumption DEF Running
<1>1. /\ pc = "check" /\ at \in Positions /\ at \in Nat
      /\ UNCHANGED <<now, deadline, limit, began>>
  BY DEF Check, IInv, Clocks, Waiting, Positions
<1>2. /\ now \in Nat /\ limit \in Nat /\ began \in Nat
      /\ now - began <= UpTo(at) /\ limit - began <= UpTo(at)
  BY <1>1 DEF IInv, Clocks, OnTime, Waiting
<1>3. /\ UpTo(at) \in Nat /\ Used(at + 1) = UpTo(at) + ReapTime /\ ReapTime \in Nat
  BY <1>1, Charges
<1>4. Granted' BY <1>1 DEF OnTime, Granted
<1>5. CASE at \in timedOut' \cap Vulkan
  <2>1. IF at \in reaped THEN pc' = "turn" /\ at' = at + 1 /\ UNCHANGED until
        ELSE pc' = "reap" /\ until' = now + ReapTime /\ UNCHANGED at
    BY <1>5, Zenon DEF Check
  <2>2. CASE at \in reaped
    <3>1. pc' = "turn" /\ at' = at + 1 BY <2>1, <2>2
    <3>2. now - began <= Used(at + 1) BY <1>2, <1>3
    <3> QED BY <1>1, <1>2, <1>4, <3>1, <3>2 DEF OnTime, Waiting
  <2>3. CASE at \notin reaped
    <3>1. pc' = "reap" /\ until' = now + ReapTime /\ at' = at BY <2>1, <2>3
    <3>2. until' - began <= Used(at + 1) BY <1>2, <1>3, <3>1
    <3> QED BY <1>1, <1>2, <1>4, <3>1, <3>2 DEF OnTime, Waiting
  <2> QED BY <2>2, <2>3
<1>6. CASE at \notin timedOut' \cap Vulkan
  <2> DEFINE own == IF limit > now THEN limit ELSE now
             S == {own} \cup {deadline[i] : i \in Pending \ Expired}
  <2>1. until' = Min(S) /\ pc' = "waiting" /\ at' = at BY <1>6, Zenon DEF Check
  <2>2. own \in Nat /\ own - began <= UpTo(at) BY <1>2
  <2>3. S \in SUBSET Nat /\ own \in S
    <3>1. \A i \in Pending : deadline[i] \in Nat BY DEF Pending, IInv, Clocks, Positions
    <3> QED BY <2>2, <3>1
  <2> HIDE DEF own, S
  <2>4. Min(S) \in Nat /\ Min(S) <= own
    <3>1. Min(S) \in S /\ \A x \in S : Min(S) <= x BY <2>3, MinOfNaturals
    <3> QED BY <2>3, <3>1
  <2>5. until' - began <= UpTo(at) BY <1>2, <1>3, <2>1, <2>2, <2>4
  <2> QED BY <1>1, <1>2, <1>4, <2>1, <2>5 DEF OnTime, Waiting
<1> QED BY <1>5, <1>6

\* The end of a wait or of a reap charges its entry, and the parent turns to the next.
LEMMA NextTurnOnTime ==
  ASSUME IInv, Punctual, OnTime, WaitReturns \/ Overrun \/ ReapFails
  PROVE  OnTime'
<1> USE ShutdownAssumption DEF Running
<1>1. /\ pc \in {"waiting", "reap"} /\ at \in Positions /\ at \in Nat
      /\ UNCHANGED <<now, deadline, limit, began>>
  BY DEF WaitReturns, Overrun, ReapFails, IInv, Clocks, Waiting, Positions, entryVars, waitVars
<1>2. /\ UpTo(at) \in Nat /\ Used(at + 1) = UpTo(at) + ReapTime /\ ReapTime \in Nat
  BY <1>1, Charges
<1>3. now \in Nat /\ began \in Nat /\ until \in Nat /\ now <= until
  BY <1>1 DEF IInv, Clocks, OnTime, Punctual
<1>4. /\ pc = "waiting" => until - began <= UpTo(at)
      /\ pc = "reap" => until - began <= Used(at + 1)
  BY DEF OnTime
<1>5. now - began <= Used(at + 1)
  <2>1. CASE pc = "waiting" BY <1>2, <1>3, <1>4, <2>1
  <2>2. CASE pc = "reap" BY <1>2, <1>3, <1>4, <2>2
  <2> QED BY <1>1, <2>1, <2>2
<1>6. Granted' BY <1>1 DEF OnTime, Granted
<1>7. CASE WaitReturns \/ ReapFails
  <2>1. pc' = "turn" /\ at' = at + 1 BY <1>7 DEF WaitReturns, ReapFails
  <2> QED BY <1>1, <1>3, <1>5, <1>6, <2>1 DEF OnTime, Waiting
<1>8. CASE Overrun
  <2>1. \/ pc' = "turn" /\ at' = at + 1
        \/ pc' = "reap" /\ until' = now + ReapTime /\ at' = at
    BY <1>8 DEF Overrun
  <2>2. now - began <= UpTo(at) BY <1>3, <1>4, <1>8 DEF Overrun
  <2>3. now + ReapTime - began <= Used(at + 1) BY <1>2, <1>3, <2>2
  <2> QED BY <1>1, <1>3, <1>5, <1>6, <2>1, <2>3 DEF OnTime, Waiting
<1> QED BY <1>7, <1>8

LEMMA StepOnTime ==
  ASSUME IInv, Punctual, OnTime, [Next]_vars
  PROVE  OnTime'
<1> USE ShutdownAssumption
<1>1. CASE SecondPass
  <2>1. /\ pc = "term" /\ pc' = "turn" /\ at = Entries + 1 /\ at' = 1
        /\ UNCHANGED <<now, deadline, began>>
    BY <1>1 DEF SecondPass, entryVars
  <2>2. now = began /\ now \in Nat BY <2>1 DEF OnTime, IInv, Clocks
  <2>3. Used(1) \in Nat BY UsedIsWithinLongest
  <2>4. Granted' BY <2>1 DEF OnTime, Granted
  <2> QED BY <2>1, <2>2, <2>3, <2>4 DEF OnTime, Waiting
<1>2. CASE WaitResumes
  <2>1. /\ pc = "waiting" /\ pc' = "check" /\ now = until
        /\ UNCHANGED <<now, at, deadline, limit, began>>
    BY <1>2 DEF WaitResumes, entryVars, waitVars
  <2>2. Granted' BY <2>1 DEF OnTime, Granted
  <2> QED BY <2>1, <2>2 DEF OnTime, Waiting
<1>3. CASE Return
  <2>1. pc' = "done" /\ began' = began BY <1>3 DEF Return
  <2> QED BY <2>1 DEF OnTime, Granted, Waiting
<1>4. CASE Tick
  <2>1. /\ pc \in {"waiting", "reap"} /\ now < until /\ now' = now + 1
        /\ UNCHANGED <<pc, at, deadline, limit, until, began>>
    BY <1>4 DEF Tick, entryVars, waitVars
  <2>2. now \in Nat /\ began \in Nat /\ until \in Nat
    BY DEF IInv, Clocks, OnTime, Punctual
  <2>3. Granted' BY <2>1 DEF OnTime, Granted
  <2>4. pc = "waiting" => now + 1 - began <= UpTo(at)
    <3> SUFFICES ASSUME pc = "waiting" PROVE now + 1 - began <= UpTo(at) OBVIOUS
    <3>1. until - began <= UpTo(at) BY DEF OnTime
    <3>2. UpTo(at) \in Nat BY Charges DEF IInv, Clocks, Waiting
    <3> QED BY <2>1, <2>2, <3>1, <3>2
  <2> QED BY <2>1, <2>2, <2>3, <2>4 DEF OnTime, Waiting
<1>5. CASE WorkerExits \/ UNCHANGED vars
  <2>1. UNCHANGED <<now, pc, at, deadline, limit, until, began>>
    BY <1>5 DEF WorkerExits, vars, entryVars, waitVars
  <2>2. Granted' BY <2>1 DEF OnTime, Granted
  <2> QED BY <2>1, <2>2 DEF OnTime, Waiting
<1> QED BY <1>1, <1>2, <1>3, <1>4, <1>5, CallStartsOnTime, RequestOnTime, TurnOnTime,
           CheckOnTime, NextTurnOnTime DEF Next

\* Wherever a call is, it is within the longest one.
LEMMA OnTimeBounds ==
  ASSUME IInv, Punctual, OnTime
  PROVE  CallBounded
<1> USE ShutdownAssumption
<1> SUFFICES ASSUME pc \notin {"idle", "done"} PROVE now - began <= Longest
  BY DEF CallBounded
<1>1. /\ now \in Nat /\ began \in Nat /\ at \in 1..(Entries + 1) /\ until \in Nat
      /\ pc \in {"term", "turn", "check", "waiting", "reap"}
  BY DEF IInv, Clocks, OnTime, Punctual
<1>2. Used(at) \in Nat /\ Used(at) <= Longest /\ Longest \in Nat
  BY <1>1, UsedIsWithinLongest
<1>3. CASE pc \in {"term", "turn"}
  BY <1>1, <1>2, <1>3 DEF OnTime
<1>4. CASE pc \in {"check", "waiting", "reap"}
  <2>1. at \in Positions /\ at + 1 \in 1..(Entries + 1)
    BY <1>4 DEF IInv, Clocks, Waiting, Positions
  <2>2. /\ UpTo(at) \in Nat /\ Used(at + 1) = UpTo(at) + ReapTime /\ ReapTime \in Nat
    BY <2>1, Charges
  <2>3. Used(at + 1) <= Longest BY <2>1, UsedIsWithinLongest
  <2>4. CASE pc = "reap"
    <3>1. now <= until /\ until - began <= Used(at + 1)
      BY <2>4 DEF OnTime, Punctual
    <3> QED BY <1>1, <1>2, <2>2, <2>3, <3>1
  <2>5. CASE pc \in Waiting
    <3>1. now - began <= UpTo(at) BY <2>5 DEF OnTime
    <3> QED BY <1>1, <1>2, <2>2, <2>3, <3>1
  <2> QED BY <1>4, <2>4, <2>5 DEF Waiting
<1> QED BY <1>1, <1>3, <1>4

\* One call of stop_stage_processes takes at most the ordinary budgets one after
\* another, the longest Vulkan allowance and one reap per entry, for any list, any
\* allowances and any number of earlier calls.
THEOREM CallsAreBounded == Spec => []CallBounded
<1>1. Init => IInv /\ Punctual /\ OnTime
  <2>1. Init => OnTime BY ShutdownAssumption DEF Init, OnTime, Granted, Waiting
  <2> QED BY <2>1, InitIInv, InitPunctual
<1>2. IInv /\ Punctual /\ OnTime /\ [Next]_vars => (IInv /\ Punctual /\ OnTime)'
  BY StepIInv, StepPunctual, StepOnTime
<1>3. IInv /\ Punctual /\ OnTime => CallBounded BY OnTimeBounds
<1> QED BY <1>1, <1>2, <1>3, PTL DEF Spec

-----------------------------------------------------------------------------
(* The memory the workers of a stage hold.                                 *)
(*                                                                         *)
(* Under pressure nothing is granted, whatever the reserve: the allowance  *)
(* never leaves 0..headroom, because every release is capped by the        *)
(* headroom of the sample in force.                                        *)
\* The part of the state the argument needs: the allowance lies within the
\* headroom, and what a worker is allocating is part of what it has claimed, and
\* nothing once it cleans up.
Accounts ==
  /\ headroom \in Nat /\ allowance \in 0..headroom
  /\ reading \in Levels \cup {Unread}
  /\ ledger \in [Workers -> Nat] /\ asked \in [Workers -> Nat]
  /\ st \in [Workers -> {"running", "granted", "rejected", "stopping", "destroyed", "gone"}]
  /\ \A w \in Workers : asked[w] <= ledger[w]
  /\ \A w \in Workers : st[w] \in {"running", "stopping", "destroyed"} => asked[w] = 0

LEMMA HeadroomType == ASSUME NEW level \in Nat PROVE HeadroomAt(level) \in Nat
  BY GuardAssumption DEF HeadroomAt

\* Min is a CHOOSE over a set: of two numbers it is the smaller one.
LEMMA MinOfTwo ==
  ASSUME NEW a \in Nat, NEW b \in Nat
  PROVE  Min({a, b}) \in 0..a
<1>1. \E x \in {a, b} : \A y \in {a, b} : x <= y
  <2>1. CASE a <= b BY <2>1
  <2>2. CASE ~(a <= b) BY <2>2
  <2> QED BY <2>1, <2>2
<1>2. Min({a, b}) \in {a, b} /\ \A y \in {a, b} : Min({a, b}) <= y
  BY <1>1 DEF Min
<1> QED BY <1>2

\* Releasing part of a claim keeps the allowance within the headroom.
LEMMA ReleaseAccounts ==
  ASSUME Accounts, NEW w \in Workers, NEW amount \in 0..ledger[w], Release(w, amount)
  PROVE  /\ allowance' \in 0..headroom
         /\ ledger' \in [Workers -> Nat]
         /\ ledger'[w] = ledger[w] - amount
         /\ \A v \in Workers \ {w} : ledger'[v] = ledger[v]
<1>1. allowance + amount \in Nat BY DEF Accounts
<1>2. allowance' \in 0..headroom BY <1>1, MinOfTwo DEF Accounts, Release
<1>3. ledger[w] - amount \in Nat BY DEF Accounts
<1>4. ledger' = [ledger EXCEPT ![w] = ledger[w] - amount] BY DEF Release
<1> QED BY <1>2, <1>3, <1>4 DEF Accounts

\* A release credits the allowance with no more than what was claimed.
LEMMA ReleaseCredits ==
  ASSUME Accounts, NEW w \in Workers, NEW amount \in 0..ledger[w], Release(w, amount)
  PROVE  allowance' <= allowance + amount
<1>1. headroom \in Nat /\ allowance + amount \in Nat BY DEF Accounts
<1>2. allowance' = Min({headroom, allowance + amount}) BY DEF Release
<1>3. {headroom, allowance + amount} = {allowance + amount, headroom} OBVIOUS
<1>4. Min({allowance + amount, headroom}) \in 0..(allowance + amount)
  BY <1>1, MinOfTwo
<1> QED BY <1>1, <1>2, <1>3, <1>4

LEMMA InitAccounts == GuardInit => Accounts
<1> SUFFICES ASSUME GuardInit PROVE Accounts
  OBVIOUS
<1>1. PICK level \in Levels : headroom = HeadroomAt(level) BY DEF GuardInit
<1>2. headroom \in Nat BY <1>1, HeadroomType, GuardAssumption
<1> QED BY <1>2 DEF GuardInit, Accounts

LEMMA StepAccounts ==
  ASSUME Accounts, [GuardNext]_guardVars
  PROVE  Accounts'
<1>1. CASE SampleRead
  BY <1>1 DEF SampleRead, Accounts, fileVars, workerVars
<1>2. CASE Update
  <2>1. reading \in Nat BY <1>2, GuardAssumption DEF Update, Accounts
  <2>2. HeadroomAt(reading) \in Nat BY <2>1, HeadroomType
  <2> QED BY <1>2, <2>2 DEF Update, Accounts, workerVars
<1>3. ASSUME NEW w \in Workers, NEW request \in Requests, Claim(w, request)
      PROVE  Accounts'
  <2>1. request \in Nat BY GuardAssumption
  <2>2. CASE Allowed(request)
    BY <1>3, <2>1, <2>2 DEF Claim, Allowed, Accounts
  <2>3. CASE ~Allowed(request)
    BY <1>3, <2>3 DEF Claim, Accounts
  <2> QED BY <2>2, <2>3
<1>4. ASSUME NEW w \in Workers, Allocated(w) PROVE Accounts'
  BY <1>4 DEF Allocated, Accounts, fileVars
<1>5. ASSUME NEW w \in Workers,
             AllocationFails(w) \/ PollsStop(w) \/ Finishes(w) \/ Destroys(w)
      PROVE  Accounts'
  BY <1>5 DEF AllocationFails, PollsStop, Finishes, Destroys, Accounts, fileVars
<1>6. ASSUME NEW w \in Workers, ReleaseRejected(w) PROVE Accounts'
  <2>1. asked[w] \in 0..ledger[w] BY DEF Accounts
  <2>2. Release(w, asked[w]) BY <1>6 DEF ReleaseRejected
  <2>3. /\ allowance' \in 0..headroom
        /\ ledger' \in [Workers -> Nat]
        /\ \A v \in Workers \ {w} : ledger'[v] = ledger[v]
    BY <2>1, <2>2, ReleaseAccounts
  <2>4. /\ asked' = [asked EXCEPT ![w] = 0]
        /\ st' = [st EXCEPT ![w] = "running"]
        /\ UNCHANGED <<headroom, reading>>
    BY <1>6 DEF ReleaseRejected
  <2> QED BY <2>3, <2>4 DEF Accounts
<1>7. ASSUME NEW w \in Workers, ClosesClaims(w) PROVE Accounts'
  <2>1. asked[w] = 0 BY <1>7 DEF ClosesClaims, Accounts
  <2>2. Release(w, ledger[w]) /\ ledger[w] \in 0..ledger[w]
    BY <1>7 DEF ClosesClaims, Accounts
  <2>3. /\ allowance' \in 0..headroom
        /\ ledger' \in [Workers -> Nat]
        /\ \A v \in Workers \ {w} : ledger'[v] = ledger[v]
    BY <2>2, ReleaseAccounts
  <2>4. /\ st' = [st EXCEPT ![w] = "gone"]
        /\ UNCHANGED <<headroom, reading, asked>>
    BY <1>7 DEF ClosesClaims
  <2> QED BY <2>1, <2>3, <2>4 DEF Accounts
<1>8. ASSUME NEW w \in Workers, Dies(w) PROVE Accounts'
  BY <1>8 DEF Dies, Accounts, fileVars
<1>9. CASE UNCHANGED guardVars
  BY <1>9 DEF guardVars, fileVars, workerVars, Accounts
<1> QED BY <1>1, <1>2, <1>3, <1>4, <1>5, <1>6, <1>7, <1>8, <1>9 DEF GuardNext, Works

\* The allowance workers are granted from always lies within the headroom of the
\* sample in force, and no worker allocates what it has not claimed.
THEOREM AccountsAreKept == GuardSpec => []Accounts
<1>1. GuardInit => Accounts BY InitAccounts
<1>2. Accounts /\ [GuardNext]_guardVars => Accounts' BY StepAccounts
<1> QED BY <1>1, <1>2, PTL DEF GuardSpec

\* No step grants a claim while the sample in force shows no headroom.
LEMMA NoGrantWithoutHeadroom ==
  ASSUME Accounts, GuardNext, headroom = 0, NEW v \in Workers
  PROVE  ledger'[v] <= ledger[v]
<1>1. CASE SampleRead \/ Update
  BY <1>1 DEF SampleRead, Update, workerVars, Accounts
<1>2. ASSUME NEW w \in Workers, NEW request \in Requests, Claim(w, request)
      PROVE  ledger'[v] <= ledger[v]
  <2>1. request > 0 /\ request \in Nat BY GuardAssumption
  <2>2. ~Allowed(request) BY <2>1 DEF Allowed, Accounts
  <2>3. ledger' = ledger BY <1>2, <2>2 DEF Claim
  <2> QED BY <2>3 DEF Accounts
<1>3. ASSUME NEW w \in Workers, ReleaseRejected(w) PROVE ledger'[v] <= ledger[v]
  <2>1. asked[w] \in 0..ledger[w] /\ Release(w, asked[w])
    BY <1>3 DEF ReleaseRejected, Accounts
  <2>2. /\ ledger'[w] = ledger[w] - asked[w]
        /\ \A u \in Workers \ {w} : ledger'[u] = ledger[u]
    BY <2>1, ReleaseAccounts
  <2> QED BY <2>2 DEF Accounts
<1>4. ASSUME NEW w \in Workers, ClosesClaims(w) PROVE ledger'[v] <= ledger[v]
  <2>1. ledger[w] \in 0..ledger[w] /\ Release(w, ledger[w])
    BY <1>4 DEF ClosesClaims, Accounts
  <2>2. /\ ledger'[w] = ledger[w] - ledger[w]
        /\ \A u \in Workers \ {w} : ledger'[u] = ledger[u]
    BY <2>1, ReleaseAccounts
  <2> QED BY <2>2 DEF Accounts
<1>5. ASSUME NEW w \in Workers,
             Allocated(w) \/ AllocationFails(w) \/ PollsStop(w) \/ Finishes(w)
               \/ Destroys(w) \/ Dies(w)
      PROVE  ledger'[v] <= ledger[v]
  BY <1>5 DEF Allocated, AllocationFails, PollsStop, Finishes, Destroys, Dies, Accounts
<1> QED BY <1>1, <1>2, <1>3, <1>4, <1>5 DEF GuardNext, Works

\* Below the reserve nothing is granted, whatever is released meanwhile
\* (claim_runtime_allocation_growth, release_runtime_allocation_claim).
THEOREM PressureStopsGrowth == GuardSpec => NoGrowthUnderPressure
<1>1. Accounts /\ [GuardNext]_guardVars
        => [headroom = 0 => \A w \in Workers : ledger'[w] <= ledger[w]]_guardVars
  BY NoGrantWithoutHeadroom
<1> QED BY <1>1, AccountsAreKept, PTL DEF GuardSpec, NoGrowthUnderPressure

-----------------------------------------------------------------------------
(* The types of what the accounts leave open.  The counter of emergency    *)
(* samples stops with the stage loop: no sample is read once it is full.   *)
Counted ==
  /\ lowSamples \in 0..EmergencySamples /\ terminate \in BOOLEAN
  /\ ~terminate => lowSamples < EmergencySamples
  /\ reading # Unread => ~terminate
  /\ held \in [Workers -> Nat]

LEMMA StepCounted ==
  ASSUME Accounts, Counted, [GuardNext]_guardVars
  PROVE  Counted'
<1> USE GuardAssumption
<1>1. CASE SampleRead
  BY <1>1 DEF SampleRead, Counted, fileVars, workerVars
<1>2. CASE Update
  <2>1. /\ lowSamples' = IF reading < Emergency THEN lowSamples + 1 ELSE 0
        /\ terminate' = (terminate \/ lowSamples' >= EmergencySamples)
        /\ reading' = Unread /\ held' = held
    BY <1>2 DEF Update, workerVars
  <2>2. ~terminate /\ lowSamples \in Nat /\ lowSamples < EmergencySamples
    BY <1>2 DEF Update, Counted
  <2>3. lowSamples' \in 0..EmergencySamples BY <2>1, <2>2
  <2>4. terminate' \in BOOLEAN BY <2>1, Zenon
  <2>5. ~terminate' => lowSamples' < EmergencySamples
    <3> SUFFICES ASSUME ~terminate' PROVE lowSamples' < EmergencySamples OBVIOUS
    <3>1. ~(lowSamples' >= EmergencySamples) BY <2>1, Zenon
    <3> QED BY <3>1, <2>3
  <2> QED BY <2>1, <2>3, <2>4, <2>5 DEF Counted
<1>3. ASSUME NEW w \in Workers,
             \/ \E request \in Requests : Claim(w, request)
             \/ AllocationFails(w) \/ ReleaseRejected(w) \/ PollsStop(w) \/ Finishes(w)
             \/ ClosesClaims(w)
      PROVE  Counted'
  BY <1>3 DEF Claim, AllocationFails, ReleaseRejected, PollsStop, Finishes, ClosesClaims,
    Counted, fileVars
<1>4. ASSUME NEW w \in Workers, Allocated(w) \/ Destroys(w) \/ Dies(w)
      PROVE  Counted'
  BY <1>4 DEF Allocated, Destroys, Dies, Counted, Accounts, fileVars
<1>5. CASE UNCHANGED guardVars
  BY <1>5 DEF guardVars, fileVars, workerVars, Counted
<1> QED BY <1>1, <1>2, <1>3, <1>4, <1>5 DEF GuardNext, Works

\* Every variable of the guard keeps its type, the counter of low samples its bound.
THEOREM GuardTypeCorrect == GuardSpec => []GuardTypeOK
<1>1. GuardInit => Counted
  <2> SUFFICES ASSUME GuardInit PROVE Counted OBVIOUS
  <2>1. /\ lowSamples = 0 /\ ~terminate /\ terminate \in BOOLEAN /\ reading = Unread
        /\ held = [w \in Workers |-> 0]
    BY Zenon DEF GuardInit
  <2> QED BY <2>1, GuardAssumption DEF Counted
<1>2. Accounts /\ Counted /\ [GuardNext]_guardVars => Counted' BY StepCounted
<1>3. Accounts /\ Counted => GuardTypeOK BY DEF Accounts, Counted, GuardTypeOK
<1> QED BY <1>1, <1>2, <1>3, AccountsAreKept, PTL DEF GuardSpec

-----------------------------------------------------------------------------
(* How much the workers may hold.  What they hold is charged to a ledger,  *)
(* and the ledgers of the live workers grow only by what the allowance     *)
(* shrinks, whichever sample replaced it in between.                       *)

\* Whatever a worker has allocated or may be allocating was claimed, and a worker
\* that has cleaned up holds nothing, although its claim may stay charged.
Covered ==
  /\ held \in [Workers -> Nat]
  /\ \A w \in Workers : held[w] + asked[w] <= ledger[w]
  /\ \A w \in Workers : st[w] \in {"destroyed", "gone"} => held[w] = 0

\* Since the sample in force was applied, the live claims have grown by no more than
\* the allowance has shrunk.
Charged == Total(ledger, Alive) <= claimed + headroom - allowance

Backed == claimed \in Nat /\ Charged

LEMMA StepCovered ==
  ASSUME Accounts, Covered, [GuardNext]_guardVars
  PROVE  Covered'
<1>1. CASE SampleRead \/ Update \/ UNCHANGED guardVars
  BY <1>1 DEF SampleRead, Update, guardVars, workerVars, Covered
<1>2. ASSUME NEW w \in Workers, NEW request \in Requests, Claim(w, request)
      PROVE  Covered'
  <2>1. request \in Nat BY GuardAssumption
  <2>2. held' = held /\ st[w] \in {"running", "granted"} BY <1>2 DEF Claim
  <2>3. CASE Allowed(request)
    <3>1. /\ ledger' = [ledger EXCEPT ![w] = @ + request]
          /\ asked' = [asked EXCEPT ![w] = @ + request]
          /\ st' = [st EXCEPT ![w] = "granted"]
      BY <1>2, <2>3 DEF Claim
    <3> QED BY <2>1, <2>2, <3>1 DEF Covered, Accounts
  <2>4. CASE ~Allowed(request)
    <3>1. /\ UNCHANGED <<ledger, asked>>
          /\ st' = [st EXCEPT ![w] = IF @ = "granted" THEN "rejected" ELSE @]
      BY <1>2, <2>4 DEF Claim
    <3> QED BY <2>2, <3>1 DEF Covered, Accounts
  <2> QED BY <2>3, <2>4
<1>3. ASSUME NEW w \in Workers, Allocated(w) PROVE Covered'
  BY <1>3 DEF Allocated, Covered, Accounts
<1>4. ASSUME NEW w \in Workers,
             AllocationFails(w) \/ PollsStop(w) \/ Finishes(w) \/ Destroys(w) \/ Dies(w)
      PROVE  Covered'
  BY <1>4 DEF AllocationFails, PollsStop, Finishes, Destroys, Dies, Covered, Accounts
<1>5. ASSUME NEW w \in Workers, ReleaseRejected(w) PROVE Covered'
  <2>1. asked[w] \in 0..ledger[w] /\ Release(w, asked[w])
    BY <1>5 DEF ReleaseRejected, Accounts
  <2>2. /\ ledger' \in [Workers -> Nat] /\ ledger'[w] = ledger[w] - asked[w]
        /\ \A v \in Workers \ {w} : ledger'[v] = ledger[v]
    BY <2>1, ReleaseAccounts
  <2>3. /\ st[w] = "rejected" /\ held' = held
        /\ asked' = [asked EXCEPT ![w] = 0]
        /\ st' = [st EXCEPT ![w] = "running"]
    BY <1>5 DEF ReleaseRejected
  <2> QED BY <2>2, <2>3 DEF Covered, Accounts
<1>6. ASSUME NEW w \in Workers, ClosesClaims(w) PROVE Covered'
  <2>1. ledger[w] \in 0..ledger[w] /\ Release(w, ledger[w])
    BY <1>6 DEF ClosesClaims, Accounts
  <2>2. /\ ledger' \in [Workers -> Nat] /\ ledger'[w] = ledger[w] - ledger[w]
        /\ \A v \in Workers \ {w} : ledger'[v] = ledger[v]
    BY <2>1, ReleaseAccounts
  <2>3. /\ st[w] = "destroyed" /\ UNCHANGED <<held, asked>>
        /\ st' = [st EXCEPT ![w] = "gone"]
    BY <1>6 DEF ClosesClaims
  <2>4. held[w] = 0 /\ asked[w] = 0 BY <2>3 DEF Covered, Accounts
  <2> QED BY <2>2, <2>3, <2>4 DEF Covered, Accounts
<1> QED BY <1>1, <1>2, <1>3, <1>4, <1>5, <1>6 DEF GuardNext, Works

\* The live workers are finitely many, their ledgers naturals, and a change of one
\* ledger changes their sum by as much.
LEMMA LiveLedgers ==
  ASSUME Accounts
  PROVE  /\ IsFiniteSet(Alive) /\ Alive \in SUBSET Workers
         /\ \A w \in Alive : ledger[w] \in Nat
         /\ Total(ledger, Alive) \in Nat
<1>1. IsFiniteSet(Alive) /\ Alive \in SUBSET Workers
  BY GuardAssumption, FS_Subset DEF Alive
<1>2. \A w \in Alive : ledger[w] \in Nat BY <1>1 DEF Accounts
<1> QED BY <1>1, <1>2, TotalType

\* A step that keeps the live workers and moves the ledger of one of them and the
\* allowance in opposite directions keeps the charge.
LEMMA OneLedger ==
  ASSUME Accounts, Backed, Accounts', NEW w \in Alive, Alive' = Alive,
         \A v \in Workers \ {w} : ledger'[v] = ledger[v],
         ledger'[w] - ledger[w] <= allowance - allowance',
         UNCHANGED <<claimed, headroom>>
  PROVE  Backed'
<1>1. /\ IsFiniteSet(Alive) /\ Alive \in SUBSET Workers /\ Total(ledger, Alive) \in Nat
      /\ \A v \in Alive : ledger[v] \in Nat
  BY LiveLedgers
<1>2. \A v \in Alive : ledger'[v] \in Nat BY <1>1 DEF Accounts
<1>3. Total(ledger', Alive) \in Nat BY <1>1, <1>2, TotalType
<1>4. Total(ledger', Alive) - ledger'[w] = Total(ledger, Alive) - ledger[w]
  BY <1>1, <1>2, TotalUpdate
<1>5. /\ claimed \in Nat /\ headroom \in Nat /\ allowance \in Nat /\ allowance' \in Nat
      /\ ledger[w] \in Nat /\ ledger'[w] \in Nat
      /\ Total(ledger, Alive) <= claimed + headroom - allowance
  BY <1>1, <1>2 DEF Accounts, Backed, Charged
<1>6. Total(ledger', Alive) <= claimed + headroom - allowance'
  BY <1>1, <1>3, <1>4, <1>5
<1>7. Total(ledger, Alive)' = Total(ledger', Alive) OBVIOUS
<1> QED BY <1>5, <1>6, <1>7 DEF Backed, Charged

\* A worker that is gone leaves the sum, with whatever it was charged.
LEMMA OneGone ==
  ASSUME Accounts, Backed, Accounts', NEW w \in Alive, Alive' = Alive \ {w},
         \A v \in Workers \ {w} : ledger'[v] = ledger[v],
         allowance' <= allowance + ledger[w],
         UNCHANGED <<claimed, headroom>>
  PROVE  Backed'
<1>1. /\ IsFiniteSet(Alive) /\ Alive \in SUBSET Workers /\ Total(ledger, Alive) \in Nat
      /\ \A v \in Alive : ledger[v] \in Nat
  BY LiveLedgers
<1>2. Total(ledger, Alive) = ledger[w] + Total(ledger, Alive \ {w}) BY <1>1, TotalAdd
<1>3. IsFiniteSet(Alive \ {w}) BY <1>1, FS_Subset
<1>4. \A v \in Alive \ {w} : ledger'[v] \in Nat /\ ledger'[v] <= ledger[v]
  BY <1>1
<1>5. /\ Total(ledger', Alive \ {w}) <= Total(ledger, Alive \ {w})
      /\ Total(ledger', Alive \ {w}) \in Nat /\ Total(ledger, Alive \ {w}) \in Nat
  BY <1>1, <1>3, <1>4, TotalBound, TotalType
<1>6. /\ claimed \in Nat /\ headroom \in Nat /\ allowance \in Nat /\ allowance' \in Nat
      /\ ledger[w] \in Nat
      /\ Total(ledger, Alive) <= claimed + headroom - allowance
  BY <1>1 DEF Accounts, Backed, Charged
<1>7. Total(ledger', Alive \ {w}) <= claimed + headroom - allowance'
  BY <1>2, <1>5, <1>6
<1>8. Total(ledger, Alive)' = Total(ledger', Alive \ {w}) OBVIOUS
<1> QED BY <1>6, <1>7, <1>8 DEF Backed, Charged

LEMMA StepBacked ==
  ASSUME Accounts, Backed, [GuardNext]_guardVars
  PROVE  Backed'
<1>0. Accounts' BY StepAccounts
<1>1. CASE SampleRead \/ UNCHANGED guardVars
  <2>1. UNCHANGED <<ledger, st, claimed, headroom, allowance>>
    BY <1>1 DEF SampleRead, guardVars, fileVars, workerVars
  <2> QED BY <2>1 DEF Backed, Charged, Alive
<1>2. CASE Update
  <2>1. /\ UNCHANGED <<ledger, st>> /\ claimed' = Total(ledger, Alive)
        /\ headroom' = allowance'
    BY <1>2 DEF Update, workerVars
  <2>2. Total(ledger, Alive)' = Total(ledger, Alive) BY <2>1 DEF Alive
  <2>3. Total(ledger, Alive) \in Nat BY LiveLedgers
  <2>4. headroom' \in Nat BY <1>0 DEF Accounts
  <2> QED BY <2>1, <2>2, <2>3, <2>4 DEF Backed, Charged
<1>3. ASSUME NEW w \in Workers, NEW request \in Requests, Claim(w, request)
      PROVE  Backed'
  <2>1. /\ request \in Nat /\ w \in Alive /\ UNCHANGED <<claimed, headroom>>
    BY <1>3, GuardAssumption DEF Claim, Alive
  <2>2. CASE Allowed(request)
    <3>1. /\ ledger' = [ledger EXCEPT ![w] = @ + request]
          /\ allowance' = allowance - request
          /\ st' = [st EXCEPT ![w] = "granted"]
      BY <1>3, <2>2 DEF Claim
    <3>2. Alive' = Alive BY <2>1, <3>1 DEF Alive, Accounts
    <3>3. ledger'[w] - ledger[w] <= allowance - allowance'
      BY <2>1, <3>1 DEF Accounts
    <3>4. \A v \in Workers \ {w} : ledger'[v] = ledger[v] BY <3>1 DEF Accounts
    <3> QED BY <1>0, <2>1, <3>2, <3>3, <3>4, OneLedger
  <2>3. CASE ~Allowed(request)
    <3>1. /\ UNCHANGED <<ledger, allowance>>
          /\ st' = [st EXCEPT ![w] = IF @ = "granted" THEN "rejected" ELSE @]
      BY <1>3, <2>3 DEF Claim
    <3>2. Alive' = Alive BY <2>1, <3>1 DEF Alive, Accounts
    <3> QED BY <2>1, <3>1, <3>2 DEF Backed, Charged
  <2> QED BY <2>2, <2>3
<1>4. ASSUME NEW w \in Workers,
             Allocated(w) \/ AllocationFails(w) \/ PollsStop(w) \/ Finishes(w) \/ Destroys(w)
      PROVE  Backed'
  <2>1. /\ UNCHANGED <<ledger, claimed, headroom, allowance>>
        /\ st[w] # "gone" /\ \E p \in {"running", "rejected", "stopping", "destroyed"} :
                                st' = [st EXCEPT ![w] = p]
    BY <1>4 DEF Allocated, AllocationFails, PollsStop, Finishes, Destroys, fileVars
  <2>2. Alive' = Alive BY <2>1 DEF Alive, Accounts
  <2> QED BY <2>1, <2>2 DEF Backed, Charged
<1>5. ASSUME NEW w \in Workers, ReleaseRejected(w) PROVE Backed'
  <2>1. asked[w] \in 0..ledger[w] /\ Release(w, asked[w])
    BY <1>5 DEF ReleaseRejected, Accounts
  <2>2. /\ ledger'[w] = ledger[w] - asked[w]
        /\ \A v \in Workers \ {w} : ledger'[v] = ledger[v]
    BY <2>1, ReleaseAccounts
  <2>3. /\ w \in Alive /\ UNCHANGED <<claimed, headroom>>
        /\ st' = [st EXCEPT ![w] = "running"]
    BY <1>5 DEF ReleaseRejected, Alive
  <2>4. Alive' = Alive BY <2>3 DEF Alive, Accounts
  <2>5. allowance' <= allowance + asked[w] BY <2>1, ReleaseCredits
  <2>6. ledger'[w] - ledger[w] <= allowance - allowance'
    <3>1. /\ allowance \in Nat /\ allowance' \in Nat /\ ledger[w] \in Nat /\ asked[w] \in Nat
      BY <1>0 DEF Accounts
    <3> QED BY <2>2, <2>5, <3>1
  <2> QED BY <1>0, <2>2, <2>3, <2>4, <2>6, OneLedger
<1>6. ASSUME NEW w \in Workers, ClosesClaims(w) PROVE Backed'
  <2>1. ledger[w] \in 0..ledger[w] /\ Release(w, ledger[w])
    BY <1>6 DEF ClosesClaims, Accounts
  <2>2. \A v \in Workers \ {w} : ledger'[v] = ledger[v]
    BY <2>1, ReleaseAccounts
  <2>3. /\ w \in Alive /\ UNCHANGED <<claimed, headroom>>
        /\ st' = [st EXCEPT ![w] = "gone"]
    BY <1>6 DEF ClosesClaims, Alive
  <2>4. Alive' = Alive \ {w} BY <2>3 DEF Alive, Accounts
  <2>5. allowance' <= allowance + ledger[w] BY <2>1, ReleaseCredits
  <2> QED BY <1>0, <2>2, <2>3, <2>4, <2>5, OneGone
<1>7. ASSUME NEW w \in Workers, Dies(w) PROVE Backed'
  <2>1. /\ w \in Alive /\ UNCHANGED <<ledger, claimed, headroom, allowance>>
        /\ st' = [st EXCEPT ![w] = "gone"]
    BY <1>7 DEF Dies, Alive, fileVars
  <2>2. Alive' = Alive \ {w} BY <2>1 DEF Alive, Accounts
  <2>3. allowance' <= allowance + ledger[w] BY <2>1 DEF Accounts
  <2> QED BY <1>0, <2>1, <2>2, <2>3, OneGone
<1> QED BY <1>1, <1>2, <1>3, <1>4, <1>5, <1>6, <1>7 DEF GuardNext, Works

\* Before the workers claim anything, nothing is charged or held.
LEMMA InitBacked == GuardInit => Covered /\ Backed
<1> SUFFICES ASSUME GuardInit PROVE Covered /\ Backed
  OBVIOUS
<1>1. Accounts BY InitAccounts
<1>2. /\ headroom \in Nat /\ allowance = headroom /\ claimed = 0
      /\ ledger = [w \in Workers |-> 0] /\ held = [w \in Workers |-> 0]
      /\ asked = [w \in Workers |-> 0]
  BY <1>1 DEF GuardInit, Accounts
<1>3. Total(ledger, Alive) <= Total(ledger, {})
  <2>1. /\ IsFiniteSet(Alive) /\ \A w \in Alive : ledger[w] \in Nat /\ ledger[w] = 0
    BY <1>1, <1>2, LiveLedgers
  <2> QED BY <2>1, FS_EmptySet, TotalBound
<1>4. Total(ledger, {}) = 0 BY FS_EmptySet, TotalPick
<1>5. Covered BY <1>2 DEF Covered
<1>6. Total(ledger, Alive) \in Nat BY <1>1, LiveLedgers
<1>7. Backed BY <1>2, <1>3, <1>4, <1>6 DEF Backed, Charged
<1> QED BY <1>5, <1>7

\* What the workers hold is within what the live ones are charged with.
LEMMA HeldIsBacked == ASSUME Accounts, Covered, Backed PROVE GrowthWithinSample
<1>1. /\ IsFiniteSet(Alive) /\ Alive \in SUBSET Workers /\ Total(ledger, Alive) \in Nat
      /\ \A w \in Alive : ledger[w] \in Nat
  BY LiveLedgers
<1>2. IsFiniteSet(Workers) BY GuardAssumption
<1>3. /\ \A w \in Workers : held[w] \in Nat
      /\ \A w \in Workers \ Alive : held[w] = 0
  BY DEF Covered, Alive
<1>4. \A w \in Alive : held[w] <= ledger[w]
  <2> TAKE w \in Alive
  <2>1. /\ held[w] \in Nat /\ asked[w] \in Nat /\ ledger[w] \in Nat
        /\ held[w] + asked[w] <= ledger[w]
    BY <1>1 DEF Covered, Accounts
  <2> QED BY <2>1
<1>5. Total(held, Workers) <= Total(ledger, Alive)
  BY <1>1, <1>2, <1>3, <1>4, TotalBound
<1>6. Total(held, Workers) \in Nat BY <1>2, <1>3, TotalType
<1>7. /\ claimed \in Nat /\ headroom \in Nat /\ allowance \in Nat
      /\ Total(ledger, Alive) <= claimed + headroom - allowance
  BY DEF Accounts, Backed, Charged
<1> QED BY <1>1, <1>5, <1>6, <1>7 DEF GrowthWithinSample

\* However updates, claims, releases and deaths interleave, the workers never hold
\* more than the live claims at the latest sample and the headroom it found
\* (update_runtime_memory_guard overwriting the allowance).
THEOREM GrowthIsBounded == GuardSpec => []GrowthWithinSample
<1>1. GuardInit => Covered /\ Backed BY InitBacked
<1>2. Accounts /\ Covered /\ Backed /\ [GuardNext]_guardVars => (Covered /\ Backed)'
  BY StepCovered, StepBacked
<1>3. Accounts /\ Covered /\ Backed => GrowthWithinSample BY HeldIsBacked
<1> QED BY <1>1, <1>2, <1>3, AccountsAreKept, PTL DEF GuardSpec
=============================================================================
