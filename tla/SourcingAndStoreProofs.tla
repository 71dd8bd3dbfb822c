---------------------- MODULE SourcingAndStoreProofs ------------------------
(***************************************************************************)
(* Sourcing and the Store for any number of staff, jobs, requests, forms,  *)
(* units and rows.                                                         *)
(*                                                                         *)
(* What is reserved of a part, what a delivery was drawn on and what is on *)
(* the shelf are sums over records, so the first section proves what a     *)
(* finite sum is: the community modules define it as a recursive function, *)
(* whose existence and equation are shown by induction on the size, and on *)
(* the subsets, of a finite set.                                           *)
(***************************************************************************)
EXTENDS Sourcing, Store, FiniteSetTheorems, TLAPS

-----------------------------------------------------------------------------
(***************************************************************************)
(* Finite sums                                                             *)
(***************************************************************************)
\* What SumFunctionOnSet unfolds to: the element it takes from a set first,
\* one step of its recursion over a collection C of sets, and its graph.
Pick(s)       == CHOOSE x \in s : TRUE
Body(g, f, C) == [s \in C |-> IF s = {} THEN 0 ELSE f[Pick(s)] + g[s \ {Pick(s)}]]
Graph(f, S)   == CHOOSE g : g = Body(g, f, SUBSET S)

\* The subsets of S with at most n elements.
Small(S, n) == {s \in SUBSET S : Cardinality(s) <= n}

\* The definition, unfolded.
LEMMA SumUnfolds == ASSUME NEW f, NEW S PROVE SumFunctionOnSet(f, S) = Graph(f, S)[S]
BY DEF SumFunctionOnSet, FoldFunctionOnSet, MapThenFoldSet, Graph, Body, Pick

\* Every non-empty set of natural numbers has a least element.
LEMMA LeastNat ==
  ASSUME NEW B \in SUBSET Nat, B # {}
  PROVE \E m \in B : \A k \in B : m <= k
<1>1. PICK m \in B : \A k \in B : ~(<<k, m>> \in OpToRel(<, Nat))
  BY NatLessThanWellFounded, WFMin
<1>2. \A k \in B : ~(k < m)
  BY <1>1 DEF OpToRel
<1>3. \A k \in B : k \in Nat /\ m \in Nat
  OBVIOUS
<1>4. \A k \in B : m <= k
  BY <1>2, <1>3
<1>. QED BY <1>4

\* The element that is picked is one of the set.
LEMMA PickIn == ASSUME NEW s, s # {} PROVE Pick(s) \in s
BY DEF Pick

\* A function with the equation of the sum exists on the sets of up to n
\* elements: the least n without one would get it from its predecessor.
LEMMA GraphExistsSmall ==
  ASSUME NEW f, NEW S, IsFiniteSet(S), NEW n \in Nat
  PROVE  \E g : g = Body(g, f, Small(S, n))
<1> DEFINE B == {k \in Nat : ~ \E g : g = Body(g, f, Small(S, k))}
<1>1. SUFFICES ASSUME B # {} PROVE FALSE
  OBVIOUS
<1>2. PICK m \in B : \A k \in B : m <= k
  BY <1>1, LeastNat
<1>0. \A s \in SUBSET S : IsFiniteSet(s) /\ Cardinality(s) \in Nat
  BY FS_Subset, FS_CardinalityType
<1>3. m # 0
  <2> DEFINE g == [s \in {{}} |-> 0]
  <2>1. Small(S, 0) = {{}}
    BY <1>0, FS_EmptySet DEF Small
  <2>2. g = Body(g, f, Small(S, 0))
    BY <2>1 DEF Body
  <2>. QED
    BY <2>2
<1>4. m - 1 \in Nat /\ m - 1 \notin B
  BY <1>2, <1>3
<1>5. PICK g : g = Body(g, f, Small(S, m - 1))
  BY <1>4
<1> DEFINE h == [s \in Small(S, m) |-> IF s \in Small(S, m - 1) THEN g[s]
                                       ELSE f[Pick(s)] + g[s \ {Pick(s)}]]
<1>6. \A s \in Small(S, m) : s # {} => s \ {Pick(s)} \in Small(S, m - 1)
  <2> TAKE s \in Small(S, m)
  <2> HAVE s # {}
  <2>1. s \in SUBSET S /\ IsFiniteSet(s) /\ Cardinality(s) <= m /\ Cardinality(s) \in Nat
    BY <1>0 DEF Small
  <2>2. Cardinality(s \ {Pick(s)}) = Cardinality(s) - 1
    BY <2>1, PickIn, FS_RemoveElement
  <2>. QED
    BY <2>1, <2>2 DEF Small
<1>7. Small(S, m - 1) \subseteq Small(S, m)
  BY <1>0 DEF Small
<1>8. {} \in Small(S, m - 1)
  BY <1>4, FS_EmptySet DEF Small
<1>9. ASSUME NEW s \in Small(S, m)
      PROVE  h[s] = IF s = {} THEN 0 ELSE f[Pick(s)] + h[s \ {Pick(s)}]
  <2>1. CASE s = {}
    BY <2>1, <1>5, <1>7, <1>8 DEF Body
  <2>2. CASE s # {} /\ s \in Small(S, m - 1)
    <3>1. h[s] = g[s]
      BY <2>2
    <3>2. g[s] = f[Pick(s)] + g[s \ {Pick(s)}]
      BY <2>2, <1>5 DEF Body
    <3>3. h[s \ {Pick(s)}] = g[s \ {Pick(s)}]
      BY <2>2, <1>6, <1>7
    <3>. QED
      BY <2>2, <3>1, <3>2, <3>3
  <2>3. CASE s # {} /\ s \notin Small(S, m - 1)
    <3>1. h[s] = f[Pick(s)] + g[s \ {Pick(s)}]
      BY <2>3
    <3>3. h[s \ {Pick(s)}] = g[s \ {Pick(s)}]
      BY <2>3, <1>6, <1>7
    <3>. QED
      BY <2>3, <3>1, <3>3
  <2>. QED
    BY <2>1, <2>2, <2>3
<1>10. h = Body(h, f, Small(S, m))
  <2> HIDE DEF h
  <2>1. h = [s \in Small(S, m) |-> h[s]]
    BY DEF h
  <2>2. [s \in Small(S, m) |-> h[s]] = Body(h, f, Small(S, m))
    BY <1>9 DEF Body
  <2>. QED
   BY <2>1, <2>2
<1>. QED
  BY <1>10

\* Induction over the subsets of a finite set.  The property is given as the
\* set H of the subsets that have it.
LEMMA SubsetInduction ==
  ASSUME NEW S, IsFiniteSet(S), NEW H,
         \A T \in SUBSET S : (\A U \in SUBSET T : U # T => U \in H) => T \in H
  PROVE  S \in H
<1> DEFINE B == {T \in SUBSET S : T \notin H}
<1>1. SUFFICES ASSUME B # {} PROVE FALSE
  BY S \in SUBSET S
<1>2. IsWellFoundedOn(StrictSubsetOrdering(S), SUBSET S)
  BY FS_StrictSubsetOrderingWellFounded, FS_FiniteSubsetsOfFinite
<1>3. PICK T \in B : \A U \in B : ~(<<U, T>> \in StrictSubsetOrdering(S))
  <2>1. B \subseteq SUBSET S
    OBVIOUS
  <2>. HIDE DEF B
  <2>. QED
    BY <1>1, <1>2, <2>1, WFMin
<1>4. \A U \in SUBSET T : U # T => U \in H
  BY <1>3 DEF StrictSubsetOrdering
<1>. QED
  BY <1>3, <1>4

\* The graph of the sum satisfies its recursive equation.
LEMMA GraphUnfolds ==
  ASSUME NEW f, NEW S, IsFiniteSet(S)
  PROVE  \A T \in SUBSET S : Graph(f, S)[T] = IF T = {} THEN 0 ELSE f[Pick(T)] + Graph(f, S)[T \ {Pick(T)}]
<1>1. Small(S, Cardinality(S)) = SUBSET S
  BY FS_Subset DEF Small
<1>2. \E g : g = Body(g, f, SUBSET S)
  BY <1>1, GraphExistsSmall, FS_CardinalityType
<1>3. Graph(f, S) = Body(Graph(f, S), f, SUBSET S)
  BY <1>2 DEF Graph
<1>. QED
  BY <1>3 DEF Body

\* Sums of functions that agree on a set agree on it, whatever larger sets the
\* two graphs are defined over.
LEMMA SameSum ==
  ASSUME NEW f, NEW g, NEW S, NEW T, IsFiniteSet(S), IsFiniteSet(T),
         NEW V, V \subseteq S, V \subseteq T, \A x \in V : f[x] = g[x]
  PROVE  Graph(f, S)[V] = Graph(g, T)[V]
<1> DEFINE H == {U \in SUBSET V : Graph(f, S)[U] = Graph(g, T)[U]}
<1>1. ASSUME NEW U \in SUBSET V, \A W \in SUBSET U : W # U => W \in H
      PROVE  U \in H
  <2>1. CASE U = {}
    BY <2>1, GraphUnfolds
  <2>2. CASE U # {}
    <3>1. Pick(U) \in U /\ U \ {Pick(U)} \in SUBSET U /\ U \ {Pick(U)} # U
      BY <2>2, PickIn
    <3>2. Graph(f, S)[U \ {Pick(U)}] = Graph(g, T)[U \ {Pick(U)}]
      BY <1>1, <3>1
    <3>3. f[Pick(U)] = g[Pick(U)]
      BY <3>1
    <3>4. /\ Graph(f, S)[U] = f[Pick(U)] + Graph(f, S)[U \ {Pick(U)}]
          /\ Graph(g, T)[U] = g[Pick(U)] + Graph(g, T)[U \ {Pick(U)}]
      <4>1. U \in SUBSET S /\ U \in SUBSET T
        OBVIOUS
      <4>2. Graph(f, S)[U] = f[Pick(U)] + Graph(f, S)[U \ {Pick(U)}]
        BY <2>2, <4>1, GraphUnfolds
      <4>3. Graph(g, T)[U] = g[Pick(U)] + Graph(g, T)[U \ {Pick(U)}]
        BY <2>2, <4>1, GraphUnfolds
      <4>. QED
        BY <4>2, <4>3
    <3>. QED
      BY <3>2, <3>3, <3>4
  <2>. QED
    BY <2>1, <2>2
<1>2. IsFiniteSet(V)
  BY FS_Subset
<1> HIDE DEF H
<1>3. V \in H
  BY <1>1, <1>2, SubsetInduction
<1>. QED
  BY <1>3 DEF H

\* The sum over no elements is 0.
LEMMA SumEmpty == ASSUME NEW f PROVE SumFunctionOnSet(f, {}) = 0
BY SumUnfolds, GraphUnfolds, FS_EmptySet

\* The sum over S depends only on the values on S.
LEMMA SumAgrees ==
  ASSUME NEW S, IsFiniteSet(S), NEW f, NEW g, \A x \in S : f[x] = g[x]
  PROVE  SumFunctionOnSet(f, S) = SumFunctionOnSet(g, S)
BY SumUnfolds, SameSum

\* The sum takes the picked element first.
LEMMA SumPick ==
  ASSUME NEW S, IsFiniteSet(S), S # {}, NEW f
  PROVE  SumFunctionOnSet(f, S) = f[Pick(S)] + SumFunctionOnSet(f, S \ {Pick(S)})
<1> DEFINE R == S \ {Pick(S)}
<1>1. Graph(f, S)[R] = Graph(f, R)[R]
  <2>1. IsFiniteSet(R)
    BY FS_RemoveElement
  <2>. QED
    BY <2>1, SameSum
<1>. QED
  BY <1>1, SumUnfolds, GraphUnfolds

\* A sum of natural numbers is one.
LEMMA SumNat ==
  ASSUME NEW S, IsFiniteSet(S), NEW f, \A x \in S : f[x] \in Nat
  PROVE  SumFunctionOnSet(f, S) \in Nat
<1> DEFINE H == {T \in SUBSET S : SumFunctionOnSet(f, T) \in Nat}
<1>1. ASSUME NEW T \in SUBSET S, \A U \in SUBSET T : U # T => U \in H
      PROVE  T \in H
  <2>1. CASE T = {}
    BY <2>1, SumEmpty
  <2>2. CASE T # {}
    <3>1. Pick(T) \in T /\ T \ {Pick(T)} \in SUBSET T /\ T \ {Pick(T)} # T
      BY <2>2, PickIn
    <3>2. SumFunctionOnSet(f, T \ {Pick(T)}) \in Nat /\ f[Pick(T)] \in Nat
      BY <1>1, <3>1
    <3>3. IsFiniteSet(T)
      BY FS_Subset
    <3>4. SumFunctionOnSet(f, T) = f[Pick(T)] + SumFunctionOnSet(f, T \ {Pick(T)})
      BY <2>2, <3>3, SumPick
    <3>. QED
      BY <3>2, <3>4
  <2>. QED
    BY <2>1, <2>2
<1> HIDE DEF H
<1>3. S \in H
  BY <1>1, SubsetInduction
<1>. QED
  BY <1>3 DEF H

\* The order does not matter: any element may be taken first.
LEMMA SumRemove ==
  ASSUME NEW S, IsFiniteSet(S), NEW f, \A x \in S : f[x] \in Nat, NEW y \in S
  PROVE  SumFunctionOnSet(f, S) = f[y] + SumFunctionOnSet(f, S \ {y})
<1> DEFINE H == {T \in SUBSET S : \A x \in T : SumFunctionOnSet(f, T) = f[x] + SumFunctionOnSet(f, T \ {x})}
<1>1. ASSUME NEW T \in SUBSET S, \A U \in SUBSET T : U # T => U \in H
      PROVE  T \in H
  <2>0. \A U \in SUBSET S : IsFiniteSet(U) /\ SumFunctionOnSet(f, U) \in Nat
    BY FS_Subset, SumNat
  <2>1. ASSUME NEW x \in T
        PROVE  SumFunctionOnSet(f, T) = f[x] + SumFunctionOnSet(f, T \ {x})
    <3> DEFINE c == Pick(T)
    <3>1. c \in T /\ SumFunctionOnSet(f, T) = f[c] + SumFunctionOnSet(f, T \ {c})
      BY <2>0, PickIn, SumPick
    <3>2. CASE x = c
      BY <3>1, <3>2
    <3>3. CASE x # c
      <4>1. T \ {c} \in H /\ T \ {x} \in H
        BY <1>1, <3>1
      <4>2. SumFunctionOnSet(f, T \ {c}) = f[x] + SumFunctionOnSet(f, (T \ {c}) \ {x})
        BY <4>1, <3>3
      <4>3. SumFunctionOnSet(f, T \ {x}) = f[c] + SumFunctionOnSet(f, (T \ {x}) \ {c})
        BY <4>1, <3>3, <3>1
      <4>4. (T \ {c}) \ {x} = (T \ {x}) \ {c}
        OBVIOUS
      <4>5. f[x] \in Nat /\ f[c] \in Nat /\ SumFunctionOnSet(f, (T \ {c}) \ {x}) \in Nat
        BY <2>0, <3>1
      <4>. HIDE DEF c
      <4>. QED
        BY <3>1, <4>2, <4>3, <4>4, <4>5
    <3>. QED
      BY <3>2, <3>3
  <2>. QED
    BY <2>1
<1> HIDE DEF H
<1>3. S \in H
  BY <1>1, SubsetInduction
<1>. QED
  BY <1>3 DEF H

\* A sum over one more element, or one less.
LEMMA SumGrows ==
  ASSUME NEW A, IsFiniteSet(A), NEW y, y \notin A, NEW f, NEW g,
         DOMAIN f = A, DOMAIN g = A \cup {y},
         \A x \in A : f[x] = g[x], \A x \in A \cup {y} : g[x] \in Nat
  PROVE  SumFunction(g) = g[y] + SumFunction(f)
<1>1. IsFiniteSet(A \cup {y}) /\ (A \cup {y}) \ {y} = A
  BY FS_AddElement
<1>2. SumFunctionOnSet(g, A \cup {y}) = g[y] + SumFunctionOnSet(g, A)
  BY <1>1, SumRemove
<1>3. SumFunctionOnSet(g, A) = SumFunctionOnSet(f, A)
  BY SumAgrees
<1>. QED
  BY <1>2, <1>3 DEF SumFunction

-----------------------------------------------------------------------------
(***************************************************************************)
(* The inductive invariant                                                 *)
(***************************************************************************)
\* Whose hands a parts request has been through, by its stage.
HandsOnSlip(r) ==
  /\ r.state = "PENDING_STORE_APPROVAL" => \E h \in Staff \ {r.by} : r.hod = {h}
  /\ r.state \in {"APPROVED", "RELEASED"} =>
       \E h \in Staff \ {r.by} : \E m \in Staff \ {r.by, h} : r.hod = {h} /\ r.storeMan = {m}

\* The same of an outside purchase.
HandsOnPurchase(r) ==
  /\ r.state = "APPROVED" => \E m \in Staff \ {r.by} : r.approver = {m}
  /\ r.state = "DISBURSED" =>
       \E m \in Staff \ {r.by} : \E k \in Staff \ {r.by, m} : r.approver = {m} /\ r.payer = {k}

Hands ==
  /\ \A s \in Raised(slips, SlipIds) : HandsOnSlip(slips[s])
  /\ \A e \in Raised(purchases, PurchaseIds) : HandsOnPurchase(purchases[e])

\* What a request in flight was allowed to do when it read stays allowed as
\* long as its claim would succeed.
MayStill(u, w) ==
  /\ w.op = "hod" => /\ w.slip \in Raised(slips, SlipIds)
                     /\ u # slips[w.slip].by
  /\ w.op = "approve" => /\ w.purchase \in Raised(purchases, PurchaseIds)
                         /\ u # purchases[w.purchase].by
  /\ w.op = "disburse" =>
       /\ w.purchase \in Raised(purchases, PurchaseIds)
       /\ purchases[w.purchase].state \in {"APPROVED", "DISBURSED", "REJECTED"}
       /\ purchases[w.purchase].state = "APPROVED" =>
            u \notin {purchases[w.purchase].by} \cup purchases[w.purchase].approver

InFlightLegal == \A u \in Staff : MayStill(u, doing[u])

SInv ==
  /\ TypeOK
  /\ OneLiveRequest
  /\ ReservedForApproved
  /\ NeverOversold
  /\ FinishedHoldsNoStock
  /\ Hands
  /\ InFlightLegal

-----------------------------------------------------------------------------
(***************************************************************************)
(* Rows                                                                    *)
(***************************************************************************)
SlipForms ==
  [state : SlipStages, job : Jobs, by : Staff, hod : SUBSET Staff, storeMan : SUBSET Staff]
PurchaseForms ==
  [state : PurchaseStages, job : Jobs, by : Staff, reviewer : SUBSET Staff,
   approver : SUBSET Staff, payer : SUBSET Staff, total : Nat]

LEMMA FormIsRow ==
  /\ \A r \in SlipForms : r \in SlipRows /\ r # None
  /\ \A r \in PurchaseForms : r \in PurchaseRows /\ r # None
  /\ None \in SlipRows /\ None \in PurchaseRows
<1>1. "none" \notin SlipStages /\ "none" \notin PurchaseStages
  BY DEF SlipStages, PurchaseStages
<1>2. \A r \in SlipForms : r.state \in SlipStages
  BY DEF SlipForms
<1>3. \A r \in PurchaseForms : r.state \in PurchaseStages
  BY DEF PurchaseForms
<1>4. None.state = "none"
  BY DEF None
<1>5. \A r \in SlipForms : r # None
  BY <1>1, <1>2, <1>4
<1>6. \A r \in PurchaseForms : r # None
  BY <1>1, <1>3, <1>4
<1>. QED
  BY <1>5, <1>6 DEF SlipForms, PurchaseForms, SlipRows, PurchaseRows

LEMMA RaisedRow ==
  ASSUME TypeOK
  PROVE  /\ \A s \in Raised(slips, SlipIds) : s \in SlipIds /\ slips[s] \in SlipForms
         /\ \A e \in Raised(purchases, PurchaseIds) :
              e \in PurchaseIds /\ purchases[e] \in PurchaseForms
BY DEF TypeOK, Raised, SlipForms, PurchaseForms, SlipRows, PurchaseRows

\* What a request in flight is about follows from its kind.
LEMMA KindTellsTheSet ==
  ASSUME NEW w \in InFlight
  PROVE  /\ w.op \in {"slip", "purchase"} => w.job \in Jobs
         /\ w.op = "hod" => w.slip \in SlipIds
         /\ w.op = "approve" => w.purchase \in PurchaseIds /\ w.total \in Nat
         /\ w.op = "disburse" => w.purchase \in PurchaseIds
         /\ w.op = "extra" => w.purchase \in PurchaseIds /\ w.line \in ExtraIds /\ w.amount \in Nat
<1>1. CASE w = Idle
  BY <1>1 DEF Idle
<1>2. CASE w \in [op : {"slip", "purchase"}, job : Jobs]
  BY <1>2
<1>3. CASE w \in [op : {"hod"}, slip : SlipIds]
  BY <1>3
<1>4. CASE w \in [op : {"approve"}, purchase : PurchaseIds, total : Nat]
  BY <1>4
<1>5. CASE w \in [op : {"disburse"}, purchase : PurchaseIds]
  BY <1>5
<1>6. CASE w \in [op : {"extra"}, purchase : PurchaseIds, line : ExtraIds, new : BOOLEAN, amount : Nat]
  BY <1>6
<1>. QED
  BY <1>1, <1>2, <1>3, <1>4, <1>5, <1>6, Zenon DEF InFlight

LEMMA IdleTyped == Idle \in InFlight /\ Idle.op = "idle"
BY DEF InFlight, Idle

-----------------------------------------------------------------------------
(***************************************************************************)
(* What most steps leave alone                                             *)
(***************************************************************************)
\* A row keeps who asked and for which job, and a request that was turned down
\* stays so.
SlipsGoOn ==
  \A s \in Raised(slips, SlipIds) :
    /\ s \in Raised(slips, SlipIds)'
    /\ slips'[s].job = slips[s].job /\ slips'[s].by = slips[s].by
    /\ slips[s].state = "REJECTED" => slips'[s].state = "REJECTED"

\* The same of a purchase, which besides is approved once.
PurchasesGoOn ==
  \A e \in Raised(purchases, PurchaseIds) :
    /\ e \in Raised(purchases, PurchaseIds)'
    /\ purchases'[e].job = purchases[e].job /\ purchases'[e].by = purchases[e].by
    /\ purchases[e].state = "REJECTED" => purchases'[e].state = "REJECTED"
    /\ purchases[e].state \in {"APPROVED", "DISBURSED", "REJECTED"} =>
         /\ purchases'[e].state \in {"APPROVED", "DISBURSED", "REJECTED"}
         /\ purchases'[e].state = "APPROVED" =>
              purchases[e].state = "APPROVED" /\ purchases'[e].approver = purchases[e].approver

LEMMA SameRowsGoOn ==
  /\ UNCHANGED slips => SlipsGoOn
  /\ UNCHANGED purchases => PurchasesGoOn
BY DEF SlipsGoOn, PurchasesGoOn, Raised

\* Nobody's request in flight loses what it may still do.
LEMMA InFlightKept ==
  ASSUME SInv, SlipsGoOn, PurchasesGoOn, UNCHANGED doing \/ \E u \in Staff : Done(u)
  PROVE  InFlightLegal' /\ doing' \in [Staff -> InFlight]
<1>1. \A u \in Staff : doing'[u] = doing[u] \/ doing'[u] = Idle
  BY DEF Done, SInv, TypeOK
<1>2. ASSUME NEW u \in Staff
      PROVE  MayStill(u, doing[u])'
  <2>1. CASE doing'[u] = Idle
    BY <2>1, IdleTyped DEF MayStill
  <2>2. CASE doing'[u] = doing[u]
    <3>1. MayStill(u, doing[u])
      BY DEF SInv, InFlightLegal
    <3>. QED
      BY <2>2, <3>1 DEF MayStill, SlipsGoOn, PurchasesGoOn
  <2>. QED
    BY <1>1, <2>1, <2>2
<1>3. doing' \in [Staff -> InFlight]
  BY IdleTyped DEF Done, SInv, TypeOK
<1>. QED
  BY <1>2, <1>3 DEF InFlightLegal

\* No second live request appears while no row does.
LEMMA OneLiveKept ==
  ASSUME SInv, SlipsGoOn, PurchasesGoOn,
         Raised(slips, SlipIds)' \subseteq Raised(slips, SlipIds),
         Raised(purchases, PurchaseIds)' \subseteq Raised(purchases, PurchaseIds)
  PROVE  OneLiveRequest'
BY DEF SInv, OneLiveRequest, SlipsGoOn, PurchasesGoOn

\* The approved requests and their jobs are as they were.
SameApproved ==
  /\ In(slips, SlipIds, "APPROVED")' = In(slips, SlipIds, "APPROVED")
  /\ \A s \in In(slips, SlipIds, "APPROVED") : slips'[s].job = slips[s].job

Held(p) == SumFunction([s \in In(slips, SlipIds, "APPROVED") |-> Need[slips[s].job][p]])

LEMMA ApprovedFinite ==
  /\ IsFiniteSet(In(slips, SlipIds, "APPROVED"))
  /\ In(slips, SlipIds, "APPROVED") \subseteq SlipIds
BY RowsAssumption, FS_Subset DEF In, Raised

LEMMA NeedTyped ==
  ASSUME TypeOK, NEW s \in In(slips, SlipIds, "APPROVED"), NEW p \in Parts
  PROVE  slips[s].job \in Jobs /\ Need[slips[s].job][p] \in Nat
BY RaisedRow, NeedAssumption DEF In, SlipForms

\* Nothing that was approved changes: stock, if it moves, only arrives.
LEMMA StockKept ==
  ASSUME SInv, SameApproved, UNCHANGED reserved,
         onHand' \in [Parts -> Nat], \A p \in Parts : onHand'[p] >= onHand[p],
         \A j \in Jobs : job'[j] = "FINISHED" => job[j] = "FINISHED"
  PROVE  ReservedForApproved' /\ NeverOversold' /\ FinishedHoldsNoStock'
<1>1. ASSUME NEW p \in Parts
      PROVE  Held(p)' = Held(p)
  BY DEF Held, SameApproved
<1>2. ReservedForApproved'
  BY <1>1 DEF Held, SInv, ReservedForApproved
<1>3. NeverOversold'
  BY DEF SInv, NeverOversold, TypeOK
<1>4. FinishedHoldsNoStock'
  <2>1. \A s \in In(slips, SlipIds, "APPROVED") : slips[s].job \in Jobs /\ job[slips[s].job] # "FINISHED"
    BY RaisedRow DEF SInv, FinishedHoldsNoStock, In, SlipForms
  <2>. QED
    BY <2>1 DEF FinishedHoldsNoStock, SameApproved
<1>. QED
  BY <1>2, <1>3, <1>4

LEMMA HandsKept ==
  ASSUME SInv, UNCHANGED <<slips, purchases>>
  PROVE  Hands'
BY DEF SInv, Hands, Raised, HandsOnSlip, HandsOnPurchase

-----------------------------------------------------------------------------
(***************************************************************************)
(* Steps that only read, and steps that end without a change               *)
(***************************************************************************)
LEMMA StartKeeps ==
  ASSUME SInv, NEW u \in Staff, NEW w \in InFlight, Start(u, w), MayStill(u, w),
         UNCHANGED <<jobs, slips, purchases, extras, stock>>
  PROVE  SInv'
<1>1. TypeOK'
  BY DEF SInv, TypeOK, Start, jobs, stock
<1>2. UNCHANGED <<slips, purchases, reserved, onHand, job>>
  BY DEF jobs, stock
<1>3. OneLiveRequest' /\ Hands'
  BY <1>2, SameRowsGoOn, OneLiveKept, HandsKept DEF Raised
<1>4. SameApproved
  BY <1>2 DEF SameApproved, In, Raised
<1>5. ReservedForApproved' /\ NeverOversold' /\ FinishedHoldsNoStock'
  BY <1>2, <1>4, StockKept DEF SInv, TypeOK
<1>6. InFlightLegal'
  <2>1. \A v \in Staff : MayStill(v, doing'[v])
    BY DEF Start, SInv, TypeOK, InFlightLegal
  <2>. QED
    BY <1>2, <2>1 DEF InFlightLegal, MayStill, Raised
<1>. QED
  BY <1>1, <1>3, <1>5, <1>6 DEF SInv

LEMMA GiveUpKeeps ==
  ASSUME SInv, NEW u \in Staff, GiveUp(u)
  PROVE  SInv'
<1>1. UNCHANGED <<slips, purchases, reserved, onHand, job>>
  BY DEF GiveUp, jobs, stock
<1>2. InFlightLegal' /\ doing' \in [Staff -> InFlight]
  BY <1>1, SameRowsGoOn, InFlightKept DEF GiveUp
<1>3. TypeOK'
  BY <1>2 DEF SInv, TypeOK, GiveUp, jobs, stock
<1>4. OneLiveRequest' /\ Hands'
  BY <1>1, SameRowsGoOn, OneLiveKept, HandsKept DEF Raised
<1>5. SameApproved
  BY <1>1 DEF SameApproved, In, Raised
<1>6. ReservedForApproved' /\ NeverOversold' /\ FinishedHoldsNoStock'
  BY <1>1, <1>5, StockKept DEF SInv, TypeOK
<1>. QED
  BY <1>2, <1>3, <1>4, <1>6 DEF SInv

LEMMA SlipReadKeeps ==
  ASSUME SInv, NEW u \in Staff,
         \/ \E j \in Jobs : ReadForSlip(u, j) \/ ReadForPurchase(u, j)
         \/ \E s \in SlipIds : ReadForHod(u, s)
  PROVE  SInv'
<1>1. ASSUME NEW j \in Jobs, NEW op \in {"slip", "purchase"}, Start(u, [op |-> op, job |-> j]),
             UNCHANGED <<jobs, slips, purchases, extras, stock>>
      PROVE  SInv'
  <2> DEFINE w == [op |-> op, job |-> j]
  <2>1. w \in InFlight
    BY DEF InFlight
  <2>2. MayStill(u, w)
    BY DEF MayStill
  <2>. HIDE DEF w
  <2>3. Start(u, w)
    BY <1>1 DEF w
  <2>. QED
    BY <1>1, <2>1, <2>2, <2>3, StartKeeps
<1>2. ASSUME NEW s \in SlipIds, ReadForHod(u, s)
      PROVE  SInv'
  <2> DEFINE w == [op |-> "hod", slip |-> s]
  <2>1. w \in InFlight
    BY DEF InFlight
  <2>2. MayStill(u, w)
    BY <1>2 DEF MayStill, ReadForHod, In
  <2>3. Start(u, w) /\ UNCHANGED <<jobs, slips, purchases, extras, stock>>
    BY <1>2 DEF ReadForHod
  <2>. HIDE DEF w
  <2>. QED
    BY <2>1, <2>2, <2>3, StartKeeps
<1>. QED
  BY <1>1, <1>2 DEF ReadForSlip, ReadForPurchase

\* The total that is read is a sum.
LEMMA FullTotalTyped ==
  ASSUME TypeOK, NEW e \in Raised(purchases, PurchaseIds)
  PROVE  FullTotal(e) \in Nat
<1>1. purchases[e].job \in Jobs /\ e \in PurchaseIds
  BY RaisedRow DEF PurchaseForms
<1>2. extras[e] \in [ExtraIds -> Nat]
  BY <1>1 DEF TypeOK
<1>3. SumFunctionOnSet(extras[e], ExtraIds) \in Nat
  BY <1>2, RowsAssumption, SumNat
<1>4. DOMAIN extras[e] = ExtraIds
  BY <1>2
<1>. QED
  BY <1>1, <1>3, <1>4, CostAssumption DEF FullTotal, SumFunction

LEMMA PurchaseReadKeeps ==
  ASSUME SInv, NEW u \in Staff, NEW e \in PurchaseIds,
         \/ \E x \in ExtraIds, n \in ExtraAmounts \cup {0} : ReadForExtra(u, e, x, n)
         \/ ReadForApproval(u, e)
         \/ ReadForDisbursement(u, e)
  PROVE  SInv'
<1>1. ASSUME NEW x \in ExtraIds, NEW n \in ExtraAmounts \cup {0}, ReadForExtra(u, e, x, n)
      PROVE  SInv'
  <2> DEFINE w == [op |-> "extra", purchase |-> e, line |-> x, new |-> extras[e][x] = 0, amount |-> n]
  <2>1. w \in InFlight
    <3>1. n \in Nat
      BY AmountsAssumption
    <3>2. (extras[e][x] = 0) \in BOOLEAN
      OBVIOUS
    <3>. QED
      BY <3>1, <3>2 DEF InFlight
  <2>2. MayStill(u, w)
    BY DEF MayStill
  <2>3. Start(u, w) /\ UNCHANGED <<jobs, slips, purchases, extras, stock>>
    BY <1>1 DEF ReadForExtra
  <2>. HIDE DEF w
  <2>. QED
    BY <2>1, <2>2, <2>3, StartKeeps
<1>2. ASSUME ReadForApproval(u, e)
      PROVE  SInv'
  <2> DEFINE w == [op |-> "approve", purchase |-> e, total |-> FullTotal(e)]
  <2>0. e \in Raised(purchases, PurchaseIds) /\ u # purchases[e].by
    BY <1>2 DEF ReadForApproval, In
  <2>1. w \in InFlight
    BY <2>0, FullTotalTyped DEF SInv, InFlight
  <2>2. MayStill(u, w)
    BY <2>0 DEF MayStill
  <2>3. Start(u, w) /\ UNCHANGED <<jobs, slips, purchases, extras, stock>>
    BY <1>2 DEF ReadForApproval
  <2>. HIDE DEF w
  <2>. QED
    BY <2>1, <2>2, <2>3, StartKeeps
<1>3. ASSUME ReadForDisbursement(u, e)
      PROVE  SInv'
  <2> DEFINE w == [op |-> "disburse", purchase |-> e]
  <2>1. w \in InFlight
    BY DEF InFlight
  <2>2. MayStill(u, w)
    BY <1>3 DEF MayStill, ReadForDisbursement, MayPayOut, In
  <2>3. Start(u, w) /\ UNCHANGED <<jobs, slips, purchases, extras, stock>>
    BY <1>3 DEF ReadForDisbursement
  <2>. HIDE DEF w
  <2>. QED
    BY <2>1, <2>2, <2>3, StartKeeps
<1>. QED
  BY <1>1, <1>2, <1>3

-----------------------------------------------------------------------------
(***************************************************************************)
(* Parts requests                                                          *)
(***************************************************************************)
\* A step on parts requests alone, put together from its parts.
LEMMA SlipStepKeeps ==
  ASSUME SInv, UNCHANGED <<jobs, purchases, extras>>,
         slips' \in [SlipIds -> SlipRows],
         onHand' \in [Parts -> Nat], reserved' \in [Parts -> Nat],
         UNCHANGED doing \/ \E u \in Staff : Done(u),
         SlipsGoOn, \A s \in Raised(slips, SlipIds)' : HandsOnSlip(slips'[s]),
         ReservedForApproved', NeverOversold', FinishedHoldsNoStock', OneLiveRequest'
  PROVE  SInv'
<1>1. InFlightLegal' /\ doing' \in [Staff -> InFlight]
  BY SameRowsGoOn, InFlightKept
<1>2. TypeOK'
  BY <1>1 DEF SInv, TypeOK, jobs
<1>3. Hands'
  BY DEF SInv, Hands, Raised, HandsOnPurchase, HandsOnSlip
<1>. QED
  BY <1>1, <1>2, <1>3 DEF SInv

\* No row appears: one live request is left as it is.
LEMMA SlipOneLive ==
  ASSUME SInv, UNCHANGED purchases, SlipsGoOn,
         Raised(slips, SlipIds)' \subseteq Raised(slips, SlipIds)
  PROVE  OneLiveRequest'
BY SameRowsGoOn, OneLiveKept DEF Raised

LEMMA SaveSlipKeeps ==
  ASSUME SInv, NEW u \in Staff, NEW s \in SlipIds, SaveSlip(u, s)
  PROVE  SInv'
<1> DEFINE r == [state |-> "PENDING_HOD_APPROVAL", job |-> doing[u].job, by |-> u, hod |-> {}, storeMan |-> {}]
<1>1. doing[u].job \in Jobs
  BY KindTellsTheSet DEF SaveSlip, SInv, TypeOK
<1>2. r \in SlipForms
  BY <1>1 DEF SlipForms, SlipStages
<1>3. r.state = "PENDING_HOD_APPROVAL" /\ r.job = doing[u].job
  OBVIOUS
<1>4. /\ slips' = [slips EXCEPT ![s] = r] /\ slips[s] = None
      /\ NothingActive(slips, SlipIds, doing[u].job)
      /\ UNCHANGED <<jobs, purchases, extras, onHand, reserved, job>> /\ Done(u)
  BY DEF SaveSlip, jobs, stock
<1>. HIDE DEF r
<1>5. slips' \in [SlipIds -> SlipRows] /\ Raised(slips, SlipIds)' = Raised(slips, SlipIds) \cup {s}
  BY <1>2, <1>4, FormIsRow DEF SInv, TypeOK, Raised
<1>6. SlipsGoOn
  BY <1>4, <1>5 DEF SInv, TypeOK, SlipsGoOn, Raised
<1>7. \A t \in Raised(slips, SlipIds)' : HandsOnSlip(slips'[t])
  <2>1. HandsOnSlip(r)
    BY <1>3 DEF HandsOnSlip
  <2>2. \A t \in Raised(slips, SlipIds) : HandsOnSlip(slips[t])
    BY DEF SInv, Hands
  <2>3. \A t \in Raised(slips, SlipIds)' : slips'[t] = r \/ (t \in Raised(slips, SlipIds) /\ slips'[t] = slips[t])
    BY <1>4, <1>5 DEF SInv, TypeOK, Raised
  <2>. QED
    BY <2>1, <2>2, <2>3
<1>8. SameApproved
  BY <1>3, <1>4, <1>5 DEF SInv, TypeOK, SameApproved, In, Raised
<1>9. ReservedForApproved' /\ NeverOversold' /\ FinishedHoldsNoStock'
  BY <1>4, <1>8, StockKept DEF SInv, TypeOK
<1>10. OneLiveRequest'
  <2>1. \A t \in Raised(slips, SlipIds) : t # s /\ slips'[t] = slips[t]
    BY <1>4 DEF Raised, SInv, TypeOK
  <2>2. \A t \in Raised(slips, SlipIds) : slips[t].job = slips'[s].job => slips[t].state = "REJECTED"
    BY <1>3, <1>4 DEF NothingActive, Of, SInv, TypeOK
  <2>3. \A t, v \in Raised(slips, SlipIds)' :
          slips'[t].job = slips'[v].job /\ slips'[t].state # "REJECTED" /\ slips'[v].state # "REJECTED" => t = v
    BY <1>5, <2>1, <2>2 DEF SInv, OneLiveRequest
  <2>. QED
    BY <1>4, <2>3 DEF SInv, OneLiveRequest, Raised
<1>. QED
  BY <1>4, <1>5, <1>6, <1>7, <1>9, <1>10, SlipStepKeeps DEF SInv, TypeOK

\* A claimed request moves to its next stage, of those that hold no stock.
LEMMA UnheldSlipKeeps ==
  ASSUME SInv, NEW s \in Raised(slips, SlipIds), NEW r \in SlipForms,
         slips' = [slips EXCEPT ![s] = r],
         slips[s].state \in {"PENDING_HOD_APPROVAL", "PENDING_STORE_APPROVAL"},
         r.state \in {"PENDING_STORE_APPROVAL", "REJECTED"},
         r.job = slips[s].job, r.by = slips[s].by, HandsOnSlip(r),
         UNCHANGED <<jobs, purchases, extras, stock>>,
         UNCHANGED doing \/ \E u \in Staff : Done(u)
  PROVE  SInv'
<1>1. s \in SlipIds /\ slips \in [SlipIds -> SlipRows]
  BY DEF Raised, SInv, TypeOK
<1>2. slips' \in [SlipIds -> SlipRows] /\ Raised(slips, SlipIds)' = Raised(slips, SlipIds)
  BY <1>1, FormIsRow DEF Raised
<1>3. SlipsGoOn
  BY <1>1, <1>2 DEF SlipsGoOn
<1>4. \A t \in Raised(slips, SlipIds)' : HandsOnSlip(slips'[t])
  BY <1>1, <1>2 DEF SInv, Hands
<1>5. SameApproved
  BY <1>1, <1>2 DEF SameApproved, In
<1>6. UNCHANGED <<job, onHand, reserved>>
  BY DEF jobs, stock
<1>7. ReservedForApproved' /\ NeverOversold' /\ FinishedHoldsNoStock'
  BY <1>5, <1>6, StockKept DEF SInv, TypeOK
<1>8. OneLiveRequest'
  BY <1>2, <1>3, SlipOneLive
<1>. QED
  BY <1>2, <1>3, <1>4, <1>6, <1>7, <1>8, SlipStepKeeps DEF SInv, TypeOK

LEMMA SaveHodKeeps ==
  ASSUME SInv, NEW u \in Staff, SaveHod(u)
  PROVE  SInv'
<1> DEFINE s == doing[u].slip
           r == [slips[s] EXCEPT !.state = "PENDING_STORE_APPROVAL", !.hod = {u}]
<1>1. s \in Raised(slips, SlipIds) /\ u # slips[s].by
  BY DEF SaveHod, SInv, InFlightLegal, MayStill
<1>2. slips[s] \in SlipForms /\ s \in SlipIds
  BY <1>1, RaisedRow DEF SInv
<1>3. r \in SlipForms /\ r.state = "PENDING_STORE_APPROVAL" /\ r.job = slips[s].job /\ r.by = slips[s].by
      /\ r.hod = {u}
  BY <1>2 DEF SlipForms, SlipStages
<1>4. HandsOnSlip(r)
  BY <1>1, <1>3 DEF HandsOnSlip
<1>5. slips' = [slips EXCEPT ![s] = r]
  BY <1>2 DEF SaveHod, SInv, TypeOK
<1>6. /\ slips[s].state = "PENDING_HOD_APPROVAL"
      /\ UNCHANGED <<jobs, purchases, extras, stock>> /\ Done(u)
  BY DEF SaveHod
<1>. HIDE DEF s, r
<1>. QED
  BY <1>1, <1>3, <1>4, <1>5, <1>6, UnheldSlipKeeps

LEMMA RejectSlipKeeps ==
  ASSUME SInv, NEW u \in Staff, NEW s \in SlipIds, RejectSlip(u, s)
  PROVE  SInv'
<1> DEFINE r == [slips[s] EXCEPT !.state = "REJECTED"]
<1>1. /\ s \in Raised(slips, SlipIds)
      /\ slips[s].state \in {"PENDING_HOD_APPROVAL", "PENDING_STORE_APPROVAL"}
  BY DEF RejectSlip, In
<1>2. slips[s] \in SlipForms
  BY <1>1, RaisedRow DEF SInv
<1>3. r \in SlipForms /\ r.state = "REJECTED" /\ r.job = slips[s].job /\ r.by = slips[s].by
  BY <1>2 DEF SlipForms, SlipStages
<1>4. HandsOnSlip(r)
  BY <1>3 DEF HandsOnSlip
<1>5. slips' = [slips EXCEPT ![s] = r]
  BY <1>2 DEF RejectSlip, SInv, TypeOK
<1>6. UNCHANGED <<jobs, purchases, extras, stock, doing>>
  BY DEF RejectSlip
<1>. HIDE DEF r
<1>. QED
  BY <1>1, <1>3, <1>4, <1>5, <1>6, UnheldSlipKeeps

\* recordGoodsReceipt.
LEMMA ReceiveGoodsKeeps ==
  ASSUME SInv, NEW u \in Staff, NEW p \in Parts, NEW n \in Deliveries, ReceiveGoods(u, p, n)
  PROVE  SInv'
<1>1. n \in Nat
  BY AmountsAssumption
<1>2. UNCHANGED <<jobs, job, slips, purchases, extras, reserved, doing>>
  BY DEF ReceiveGoods, jobs
<1>3. onHand' \in [Parts -> Nat] /\ \A q \in Parts : onHand'[q] >= onHand[q]
  BY <1>1 DEF ReceiveGoods, SInv, TypeOK
<1>4. SlipsGoOn /\ Raised(slips, SlipIds)' = Raised(slips, SlipIds)
  BY <1>2, SameRowsGoOn DEF Raised
<1>5. SameApproved
  BY <1>2 DEF SameApproved, In, Raised
<1>6. ReservedForApproved' /\ NeverOversold' /\ FinishedHoldsNoStock'
  BY <1>2, <1>3, <1>5, StockKept
<1>7. OneLiveRequest'
  BY <1>2, <1>4, SlipOneLive
<1>8. \A t \in Raised(slips, SlipIds)' : HandsOnSlip(slips'[t])
  BY <1>2, <1>4 DEF SInv, Hands
<1>. QED
  BY <1>2, <1>3, <1>4, <1>6, <1>7, <1>8, SlipStepKeeps DEF SInv, TypeOK

\* One more approved request, or one less, is that much more or less held.
LEMMA HeldGrows ==
  ASSUME TypeOK, NEW s \in SlipIds, s \notin In(slips, SlipIds, "APPROVED"),
         In(slips, SlipIds, "APPROVED")' = In(slips, SlipIds, "APPROVED") \cup {s},
         \A t \in In(slips, SlipIds, "APPROVED") \cup {s} : slips'[t].job = slips[t].job,
         slips[s].job \in Jobs, NEW p \in Parts
  PROVE  Held(p)' = Need[slips[s].job][p] + Held(p)
<1> DEFINE A == In(slips, SlipIds, "APPROVED")
           f == [t \in A |-> Need[slips[t].job][p]]
           g == [t \in A \cup {s} |-> Need[slips'[t].job][p]]
<1>1. IsFiniteSet(A)
  BY ApprovedFinite
<1>2. \A t \in A \cup {s} : Need[slips[t].job][p] \in Nat
  BY NeedTyped, NeedAssumption
<1>3. \A t \in A \cup {s} : g[t] = Need[slips[t].job][p]
  OBVIOUS
<1>4. DOMAIN f = A /\ DOMAIN g = A \cup {s} /\ \A t \in A : f[t] = g[t]
  OBVIOUS
<1>5. Held(p) = SumFunction(f) /\ Held(p)' = SumFunction(g)
  BY DEF Held
<1>. HIDE DEF A, f, g
<1>6. SumFunction(g) = g[s] + SumFunction(f)
  <2>1. s \notin A
    BY DEF A
  <2>2. \A t \in A \cup {s} : g[t] \in Nat
    BY <1>2, <1>3
  <2>. QED
    BY ONLY <1>1, <1>4, <2>1, <2>2, SumGrows
<1>. QED
  BY <1>3, <1>5, <1>6

LEMMA HeldShrinks ==
  ASSUME TypeOK, NEW s \in In(slips, SlipIds, "APPROVED"),
         In(slips, SlipIds, "APPROVED")' = In(slips, SlipIds, "APPROVED") \ {s},
         \A t \in In(slips, SlipIds, "APPROVED") \ {s} : slips'[t].job = slips[t].job,
         NEW p \in Parts
  PROVE  /\ Held(p) = Need[slips[s].job][p] + Held(p)'
         /\ Held(p)' \in Nat
<1> DEFINE A == In(slips, SlipIds, "APPROVED") \ {s}
           f == [t \in A |-> Need[slips'[t].job][p]]
           g == [t \in A \cup {s} |-> Need[slips[t].job][p]]
<1>1. IsFiniteSet(A) /\ A \cup {s} = In(slips, SlipIds, "APPROVED") /\ s \notin A
  BY ApprovedFinite, FS_RemoveElement
<1>2. \A t \in A \cup {s} : Need[slips[t].job][p] \in Nat
  BY <1>1, NeedTyped
<1>3. \A t \in A \cup {s} : g[t] = Need[slips[t].job][p]
  OBVIOUS
<1>4. DOMAIN f = A /\ DOMAIN g = A \cup {s} /\ \A t \in A : f[t] = g[t]
  OBVIOUS
<1>5. Held(p) = SumFunction(g) /\ Held(p)' = SumFunction(f)
  BY <1>1 DEF Held
<1>. HIDE DEF A, f, g
<1>6. SumFunction(g) = g[s] + SumFunction(f)
  <2>1. \A t \in A \cup {s} : g[t] \in Nat
    BY <1>2, <1>3
  <2>. QED
    BY <1>1, <1>4, <2>1, SumGrows
<1>7. SumFunction(f) \in Nat
  BY <1>1, <1>2, <1>3, <1>4, SumNat DEF SumFunction
<1>. QED
  BY <1>3, <1>5, <1>6, <1>7

\* approvePartRequestSlipByStore.
LEMMA ApproveByStoreKeeps ==
  ASSUME SInv, NEW u \in Staff, NEW s \in SlipIds, ApproveByStore(u, s)
  PROVE  SInv'
<1> DEFINE r == [slips[s] EXCEPT !.state = "APPROVED", !.storeMan = {u}]
           j == slips[s].job
<1>1. s \in Raised(slips, SlipIds) /\ slips[s].state = "PENDING_STORE_APPROVAL"
  BY DEF ApproveByStore, In
<1>2. slips[s] \in SlipForms /\ j \in Jobs
  BY <1>1, RaisedRow DEF SInv, SlipForms
<1>3. /\ r \in SlipForms /\ r.state = "APPROVED" /\ r.job = j
      /\ r.by = slips[s].by /\ r.hod = slips[s].hod /\ r.storeMan = {u}
  BY <1>2 DEF SlipForms, SlipStages
<1>4. HandsOnSlip(r)
  <2>1. PICK h \in Staff \ {slips[s].by} : slips[s].hod = {h}
    BY <1>1 DEF SInv, Hands, HandsOnSlip
  <2>2. u \in Staff \ {slips[s].by, h}
    BY <2>1 DEF ApproveByStore, MayApproveOut
  <2>. QED
    BY <1>3, <2>1, <2>2 DEF HandsOnSlip
<1>5. /\ slips' = [slips EXCEPT ![s] = r]
      /\ reserved' = [p \in Parts |-> reserved[p] + Need[j][p]]
      /\ UNCHANGED <<jobs, job, purchases, extras, onHand, doing>>
  BY <1>2 DEF ApproveByStore, SInv, TypeOK, jobs
<1>6. \A p \in Parts : Need[j][p] \in Nat /\ (Need[j][p] > 0 => onHand[p] - reserved[p] >= Need[j][p])
  BY <1>2, NeedAssumption DEF ApproveByStore, Available
<1>7. job[j] # "FINISHED"
  BY DEF ApproveByStore, StillOpen
<1>. HIDE DEF r, j
<1>8. slips' \in [SlipIds -> SlipRows] /\ Raised(slips, SlipIds)' = Raised(slips, SlipIds)
  BY <1>1, <1>3, <1>5, FormIsRow DEF Raised, SInv, TypeOK
<1>9. SlipsGoOn
  BY <1>1, <1>3, <1>5, <1>8 DEF SlipsGoOn, SInv, TypeOK, j
<1>10. /\ s \notin In(slips, SlipIds, "APPROVED")
       /\ In(slips, SlipIds, "APPROVED")' = In(slips, SlipIds, "APPROVED") \cup {s}
       /\ \A t \in In(slips, SlipIds, "APPROVED") \cup {s} : slips'[t].job = slips[t].job
  BY <1>1, <1>3, <1>5, <1>8 DEF In, SInv, TypeOK, j
<1>11. \A p \in Parts : Held(p)' = Need[j][p] + Held(p)
  BY <1>2, <1>10, HeldGrows DEF SInv, j
<1>12. ReservedForApproved'
  <2>1. \A p \in Parts : reserved[p] = Held(p) /\ reserved[p] \in Nat
    BY DEF SInv, TypeOK, ReservedForApproved, Held
  <2>2. \A p \in Parts : reserved'[p] = Held(p)'
    BY <1>5, <1>6, <1>11, <2>1
  <2>. QED
    BY <2>2 DEF ReservedForApproved, Held
<1>13. NeverOversold' /\ reserved' \in [Parts -> Nat]
  BY <1>5, <1>6 DEF SInv, NeverOversold, TypeOK
<1>14. FinishedHoldsNoStock'
  BY <1>5, <1>7, <1>10 DEF SInv, FinishedHoldsNoStock, j
<1>15. OneLiveRequest'
  BY <1>5, <1>8, <1>9, SlipOneLive
<1>16. \A t \in Raised(slips, SlipIds)' : HandsOnSlip(slips'[t])
  BY <1>4, <1>5, <1>8 DEF SInv, TypeOK, Hands
<1>. QED
  BY <1>5, <1>8, <1>9, <1>12, <1>13, <1>14, <1>15, <1>16, SlipStepKeeps DEF SInv, TypeOK

\* releasePartRequestSlip.
LEMMA ReleaseKeeps ==
  ASSUME SInv, NEW u \in Staff, NEW s \in SlipIds, Release(u, s)
  PROVE  SInv'
<1> DEFINE r == [slips[s] EXCEPT !.state = "RELEASED"]
           j == slips[s].job
<1>1. /\ s \in Raised(slips, SlipIds) /\ slips[s].state = "APPROVED"
      /\ s \in In(slips, SlipIds, "APPROVED")
  BY DEF Release, In
<1>2. slips[s] \in SlipForms /\ j \in Jobs
  BY <1>1, RaisedRow DEF SInv, SlipForms
<1>3. /\ r \in SlipForms /\ r.state = "RELEASED" /\ r.job = j
      /\ r.by = slips[s].by /\ r.hod = slips[s].hod /\ r.storeMan = slips[s].storeMan
  BY <1>2 DEF SlipForms, SlipStages
<1>4. HandsOnSlip(r)
  BY <1>1, <1>3 DEF SInv, Hands, HandsOnSlip
<1>5. /\ slips' = [slips EXCEPT ![s] = r]
      /\ reserved' = [p \in Parts |-> reserved[p] - Need[j][p]]
      /\ onHand' = [p \in Parts |-> onHand[p] - Need[j][p]]
      /\ UNCHANGED <<jobs, job, purchases, extras, doing>>
  BY <1>2 DEF Release, TakenFromReserve, SInv, TypeOK, jobs
<1>6. \A p \in Parts : Need[j][p] \in Nat
  BY <1>2, NeedAssumption
<1>. HIDE DEF r, j
<1>8. slips' \in [SlipIds -> SlipRows] /\ Raised(slips, SlipIds)' = Raised(slips, SlipIds)
  BY <1>1, <1>3, <1>5, FormIsRow DEF Raised, SInv, TypeOK
<1>9. SlipsGoOn
  BY <1>1, <1>3, <1>5, <1>8 DEF SlipsGoOn, SInv, TypeOK, j
<1>10. /\ In(slips, SlipIds, "APPROVED")' = In(slips, SlipIds, "APPROVED") \ {s}
       /\ \A t \in In(slips, SlipIds, "APPROVED") \ {s} : slips'[t].job = slips[t].job
  BY <1>1, <1>3, <1>5, <1>8 DEF In, SInv, TypeOK
<1>11. \A p \in Parts : Held(p) = Need[j][p] + Held(p)' /\ Held(p)' \in Nat
  BY <1>1, <1>10, HeldShrinks DEF SInv, j
<1>12. \A p \in Parts : /\ reserved[p] = Held(p) /\ reserved[p] \in Nat
                        /\ onHand[p] \in Nat /\ reserved[p] <= onHand[p]
  BY DEF SInv, TypeOK, ReservedForApproved, NeverOversold, Held
<1>13. \A p \in Parts : /\ reserved'[p] = Held(p)' /\ reserved'[p] \in Nat
                        /\ onHand'[p] \in Nat /\ reserved'[p] <= onHand'[p]
  BY <1>5, <1>6, <1>11, <1>12
<1>14. ReservedForApproved' /\ NeverOversold'
  <2>1. ReservedForApproved'
    <3>1. \A p \in Parts : reserved'[p] = Held(p)'
      BY <1>13
    <3>. QED
      BY <3>1 DEF ReservedForApproved, Held
  <2>2. \A p \in Parts : 0 <= reserved'[p] /\ reserved'[p] <= onHand'[p]
    BY <1>13
  <2>. QED
    BY <2>1, <2>2 DEF NeverOversold
<1>15. reserved' \in [Parts -> Nat] /\ onHand' \in [Parts -> Nat]
  BY <1>5, <1>13
<1>16. FinishedHoldsNoStock'
  BY <1>5, <1>10 DEF SInv, FinishedHoldsNoStock
<1>17. OneLiveRequest'
  BY <1>5, <1>8, <1>9, SlipOneLive
<1>18. \A t \in Raised(slips, SlipIds)' : HandsOnSlip(slips'[t])
  BY <1>4, <1>5, <1>8 DEF SInv, TypeOK, Hands
<1>. QED
  BY <1>5, <1>8, <1>9, <1>14, <1>15, <1>16, <1>17, <1>18, SlipStepKeeps

-----------------------------------------------------------------------------
(***************************************************************************)
(* Outside purchases                                                       *)
(***************************************************************************)
\* A step on purchases and their lines alone, put together from its parts.
LEMMA PurchaseStepKeeps ==
  ASSUME SInv, UNCHANGED <<jobs, slips, stock>>,
         purchases' \in [PurchaseIds -> PurchaseRows],
         extras' \in [PurchaseIds -> [ExtraIds -> Nat]],
         UNCHANGED doing \/ \E u \in Staff : Done(u),
         PurchasesGoOn, \A e \in Raised(purchases, PurchaseIds)' : HandsOnPurchase(purchases'[e]),
         OneLiveRequest'
  PROVE  SInv'
<1>1. InFlightLegal' /\ doing' \in [Staff -> InFlight]
  BY SameRowsGoOn, InFlightKept
<1>2. UNCHANGED <<slips, reserved, onHand, job>>
  BY DEF jobs, stock
<1>3. TypeOK'
  BY <1>1 DEF SInv, TypeOK, jobs, stock
<1>4. Hands'
  BY DEF SInv, Hands, Raised, HandsOnPurchase, HandsOnSlip
<1>5. SameApproved
  BY <1>2 DEF SameApproved, In, Raised
<1>6. ReservedForApproved' /\ NeverOversold' /\ FinishedHoldsNoStock'
  BY <1>2, <1>5, StockKept DEF SInv, TypeOK
<1>. QED
  BY <1>1, <1>3, <1>4, <1>6 DEF SInv

\* requestExternalProcurementBatch.
LEMMA SavePurchaseKeeps ==
  ASSUME SInv, NEW u \in Staff, NEW e \in PurchaseIds, SavePurchase(u, e)
  PROVE  SInv'
<1> DEFINE r == [state |-> "PENDING_FINANCE_REVIEW", job |-> doing[u].job, by |-> u,
                 reviewer |-> {}, approver |-> {}, payer |-> {}, total |-> 0]
<1>1. doing[u].job \in Jobs
  BY KindTellsTheSet DEF SavePurchase, SInv, TypeOK
<1>2. r \in PurchaseForms
  BY <1>1 DEF PurchaseForms, PurchaseStages
<1>3. r.state = "PENDING_FINANCE_REVIEW" /\ r.job = doing[u].job
  OBVIOUS
<1>4. /\ purchases' = [purchases EXCEPT ![e] = r] /\ purchases[e] = None
      /\ NothingActive(purchases, PurchaseIds, doing[u].job)
      /\ UNCHANGED <<jobs, slips, extras, stock>> /\ Done(u)
  BY DEF SavePurchase
<1>. HIDE DEF r
<1>5. /\ purchases' \in [PurchaseIds -> PurchaseRows]
      /\ Raised(purchases, PurchaseIds)' = Raised(purchases, PurchaseIds) \cup {e}
  BY <1>2, <1>4, FormIsRow DEF SInv, TypeOK, Raised
<1>6. \A d \in Raised(purchases, PurchaseIds) : d # e /\ purchases'[d] = purchases[d]
  BY <1>4 DEF Raised, SInv, TypeOK
<1>7. purchases'[e] = r
  BY <1>4 DEF SInv, TypeOK
<1>8. PurchasesGoOn
  BY <1>5, <1>6 DEF PurchasesGoOn
<1>9. \A d \in Raised(purchases, PurchaseIds)' : HandsOnPurchase(purchases'[d])
  BY <1>3, <1>5, <1>6, <1>7 DEF SInv, Hands, HandsOnPurchase
<1>10. OneLiveRequest'
  <2>1. \A d \in Raised(purchases, PurchaseIds) :
          purchases[d].job = purchases'[e].job => purchases[d].state = "REJECTED"
    BY <1>3, <1>4, <1>7 DEF NothingActive, Of
  <2>2. \A c, d \in Raised(purchases, PurchaseIds)' :
          purchases'[c].job = purchases'[d].job
          /\ purchases'[c].state # "REJECTED" /\ purchases'[d].state # "REJECTED" => c = d
    BY <1>5, <1>6, <2>1 DEF SInv, OneLiveRequest
  <2>. QED
    BY <1>4, <2>2 DEF SInv, OneLiveRequest, Raised
<1>. QED
  BY <1>4, <1>5, <1>8, <1>9, <1>10, PurchaseStepKeeps DEF SInv, TypeOK

\* A claimed purchase moves to its next stage.
LEMMA ClaimedPurchaseKeeps ==
  ASSUME SInv, NEW e \in Raised(purchases, PurchaseIds), NEW r \in PurchaseForms,
         purchases' = [purchases EXCEPT ![e] = r],
         r.job = purchases[e].job, r.by = purchases[e].by, HandsOnPurchase(r),
         \/ /\ purchases[e].state \in {"PENDING_FINANCE_REVIEW", "PENDING_MANAGER_APPROVAL"}
            /\ r.state \in {"PENDING_MANAGER_APPROVAL", "APPROVED", "REJECTED"}
         \/ purchases[e].state = "APPROVED" /\ r.state = "DISBURSED",
         UNCHANGED <<jobs, slips, extras, stock>>,
         UNCHANGED doing \/ \E u \in Staff : Done(u)
  PROVE  SInv'
<1>1. e \in PurchaseIds /\ purchases \in [PurchaseIds -> PurchaseRows]
  BY DEF Raised, SInv, TypeOK
<1>2. /\ purchases' \in [PurchaseIds -> PurchaseRows]
      /\ Raised(purchases, PurchaseIds)' = Raised(purchases, PurchaseIds)
  BY <1>1, FormIsRow DEF Raised
<1>3. PurchasesGoOn
  BY <1>1, <1>2 DEF PurchasesGoOn
<1>4. \A d \in Raised(purchases, PurchaseIds)' : HandsOnPurchase(purchases'[d])
  BY <1>1, <1>2 DEF SInv, Hands
<1>5. OneLiveRequest'
  BY <1>2, <1>3, SameRowsGoOn, OneLiveKept DEF Raised
<1>. QED
  BY <1>2, <1>3, <1>4, <1>5, PurchaseStepKeeps DEF SInv, TypeOK

\* add-, edit- and removeExternalProcurementSupplementaryLine.
LEMMA SaveExtraKeeps ==
  ASSUME SInv, NEW u \in Staff, SaveExtra(u)
  PROVE  SInv'
<1>1. doing[u].purchase \in PurchaseIds /\ doing[u].line \in ExtraIds /\ doing[u].amount \in Nat
  BY KindTellsTheSet DEF SaveExtra, SInv, TypeOK
<1>2. extras' \in [PurchaseIds -> [ExtraIds -> Nat]]
  BY <1>1 DEF SaveExtra, SInv, TypeOK
<1>3. UNCHANGED <<jobs, slips, purchases, stock>> /\ Done(u)
  BY DEF SaveExtra
<1>4. OneLiveRequest' /\ PurchasesGoOn
  BY <1>3, SameRowsGoOn, OneLiveKept DEF Raised
<1>5. \A e \in Raised(purchases, PurchaseIds)' : HandsOnPurchase(purchases'[e])
  BY <1>3 DEF SInv, Hands, Raised
<1>. QED
  BY <1>2, <1>3, <1>4, <1>5, PurchaseStepKeeps DEF SInv, TypeOK

\* sendExternalProcurementToManager.
LEMMA SendToManagerKeeps ==
  ASSUME SInv, NEW u \in Staff, NEW e \in PurchaseIds, SendToManager(u, e)
  PROVE  SInv'
<1> DEFINE r == [purchases[e] EXCEPT !.state = "PENDING_MANAGER_APPROVAL", !.reviewer = {u}]
<1>1. e \in Raised(purchases, PurchaseIds) /\ purchases[e].state = "PENDING_FINANCE_REVIEW"
  BY DEF SendToManager, In
<1>2. purchases[e] \in PurchaseForms
  BY <1>1, RaisedRow DEF SInv
<1>3. /\ r \in PurchaseForms /\ r.state = "PENDING_MANAGER_APPROVAL"
      /\ r.job = purchases[e].job /\ r.by = purchases[e].by
  BY <1>2 DEF PurchaseForms, PurchaseStages
<1>4. HandsOnPurchase(r)
  BY <1>3 DEF HandsOnPurchase
<1>5. purchases' = [purchases EXCEPT ![e] = r]
  BY <1>2 DEF SendToManager, SInv, TypeOK
<1>6. UNCHANGED <<jobs, slips, extras, stock, doing>>
  BY DEF SendToManager
<1>. HIDE DEF r
<1>. QED
  BY <1>1, <1>3, <1>4, <1>5, <1>6, ClaimedPurchaseKeeps

\* approveExternalProcurementRequest.
LEMMA SaveApprovalKeeps ==
  ASSUME SInv, NEW u \in Staff, SaveApproval(u)
  PROVE  SInv'
<1> DEFINE e == doing[u].purchase
           r == [purchases[e] EXCEPT !.state = "APPROVED", !.approver = {u}, !.total = doing[u].total]
<1>0. doing[u].total \in Nat
  BY KindTellsTheSet DEF SaveApproval, SInv, TypeOK
<1>1. /\ e \in Raised(purchases, PurchaseIds) /\ u # purchases[e].by
      /\ purchases[e].state = "PENDING_MANAGER_APPROVAL"
  BY DEF SaveApproval, SInv, InFlightLegal, MayStill
<1>2. purchases[e] \in PurchaseForms /\ e \in PurchaseIds
  BY <1>1, RaisedRow DEF SInv
<1>3. /\ r \in PurchaseForms /\ r.state = "APPROVED" /\ r.approver = {u}
      /\ r.job = purchases[e].job /\ r.by = purchases[e].by
  BY <1>0, <1>2 DEF PurchaseForms, PurchaseStages
<1>4. HandsOnPurchase(r)
  BY <1>1, <1>3 DEF HandsOnPurchase
<1>5. purchases' = [purchases EXCEPT ![e] = r]
  BY <1>2 DEF SaveApproval, SInv, TypeOK
<1>6. UNCHANGED <<jobs, slips, extras, stock>> /\ Done(u)
  BY DEF SaveApproval
<1>. HIDE DEF e, r
<1>. QED
  BY <1>1, <1>3, <1>4, <1>5, <1>6, ClaimedPurchaseKeeps

\* disburseExternalProcurementRequest.
LEMMA SaveDisbursementKeeps ==
  ASSUME SInv, NEW u \in Staff, SaveDisbursement(u)
  PROVE  SInv'
<1> DEFINE e == doing[u].purchase
           r == [purchases[e] EXCEPT !.state = "DISBURSED", !.payer = {u}]
<1>1. /\ e \in Raised(purchases, PurchaseIds)
      /\ u \notin {purchases[e].by} \cup purchases[e].approver
      /\ purchases[e].state = "APPROVED"
  BY DEF SaveDisbursement, StillApproved, SInv, InFlightLegal, MayStill
<1>2. purchases[e] \in PurchaseForms /\ e \in PurchaseIds
  BY <1>1, RaisedRow DEF SInv
<1>3. /\ r \in PurchaseForms /\ r.state = "DISBURSED" /\ r.payer = {u}
      /\ r.approver = purchases[e].approver
      /\ r.job = purchases[e].job /\ r.by = purchases[e].by
  BY <1>2 DEF PurchaseForms, PurchaseStages
<1>4. HandsOnPurchase(r)
  <2>1. PICK m \in Staff \ {purchases[e].by} : purchases[e].approver = {m}
    BY <1>1 DEF SInv, Hands, HandsOnPurchase
  <2>2. u \in Staff \ {purchases[e].by, m}
    BY <1>1, <2>1
  <2>. HIDE DEF r
  <2>. QED
    BY <1>3, <2>1, <2>2 DEF HandsOnPurchase
<1>5. purchases' = [purchases EXCEPT ![e] = r]
  BY <1>2 DEF SaveDisbursement, SInv, TypeOK
<1>6. UNCHANGED <<jobs, slips, extras, stock>> /\ Done(u)
  BY DEF SaveDisbursement
<1>. HIDE DEF e, r
<1>. QED
  BY <1>1, <1>3, <1>4, <1>5, <1>6, ClaimedPurchaseKeeps

\* rejectExternalProcurementRequest.
LEMMA RejectPurchaseKeeps ==
  ASSUME SInv, NEW u \in Staff, NEW e \in PurchaseIds, RejectPurchase(u, e)
  PROVE  SInv'
<1> DEFINE r == [purchases[e] EXCEPT !.state = "REJECTED"]
<1>1. /\ e \in Raised(purchases, PurchaseIds)
      /\ purchases[e].state \in {"PENDING_FINANCE_REVIEW", "PENDING_MANAGER_APPROVAL"}
  BY DEF RejectPurchase, In
<1>2. purchases[e] \in PurchaseForms
  BY <1>1, RaisedRow DEF SInv
<1>3. r \in PurchaseForms /\ r.state = "REJECTED" /\ r.job = purchases[e].job /\ r.by = purchases[e].by
  BY <1>2 DEF PurchaseForms, PurchaseStages
<1>4. HandsOnPurchase(r)
  BY <1>3 DEF HandsOnPurchase
<1>5. purchases' = [purchases EXCEPT ![e] = r]
  BY <1>2 DEF RejectPurchase, SInv, TypeOK
<1>6. UNCHANGED <<jobs, slips, extras, stock, doing>>
  BY DEF RejectPurchase
<1>. HIDE DEF r
<1>. QED
  BY <1>1, <1>3, <1>4, <1>5, <1>6, ClaimedPurchaseKeeps

-----------------------------------------------------------------------------
(***************************************************************************)
(* The Job Card                                                            *)
(***************************************************************************)
\* A step on Job Cards that finishes none.
LEMMA JobOnlyKeeps ==
  ASSUME SInv, UNCHANGED <<slips, purchases, extras, stock, doing>>,
         job' \in [Jobs -> {"SOURCEABLE", "PAST", "FINISHED"}],
         finishing' \in SUBSET Jobs,
         seen' \in [PurchaseIds -> PurchaseStages \cup {NotSeen}],
         \A j \in Jobs : job'[j] = "FINISHED" => job[j] = "FINISHED"
  PROVE  SInv'
<1>1. UNCHANGED <<reserved, onHand>>
  BY DEF stock
<1>2. InFlightLegal'
  BY SameRowsGoOn, InFlightKept
<1>3. TypeOK'
  BY <1>1 DEF SInv, TypeOK
<1>4. OneLiveRequest' /\ Hands'
  BY SameRowsGoOn, OneLiveKept, HandsKept DEF Raised
<1>5. SameApproved
  BY DEF SameApproved, In, Raised
<1>6. ReservedForApproved' /\ NeverOversold' /\ FinishedHoldsNoStock'
  BY <1>1, <1>5, StockKept DEF SInv, TypeOK
<1>. QED
  BY <1>2, <1>3, <1>4, <1>6 DEF SInv

LEMMA MoveOnKeeps ==
  ASSUME SInv, NEW u \in Staff, NEW j \in Jobs, MoveOn(u, j)
  PROVE  SInv'
<1>1. /\ job' \in [Jobs -> {"SOURCEABLE", "PAST", "FINISHED"}]
      /\ \A k \in Jobs : job'[k] = "FINISHED" => job[k] = "FINISHED"
  BY DEF MoveOn, StillOpen, SInv, TypeOK
<1>2. UNCHANGED <<finishing, seen, slips, purchases, extras, stock, doing>>
  BY DEF MoveOn
<1>. QED
  BY <1>1, <1>2, JobOnlyKeeps DEF SInv, TypeOK

\* approveCloseRequest and approveCancellationRequest, until the commit.
LEMMA StartFinishKeeps ==
  ASSUME SInv, NEW u \in Staff, NEW j \in Jobs, StartFinish(u, j)
  PROVE  SInv'
<1>1. seen' \in [PurchaseIds -> PurchaseStages \cup {NotSeen}]
  <2>1. \A e \in Raised(purchases, PurchaseIds) : purchases[e].state \in PurchaseStages
    BY RaisedRow DEF SInv, PurchaseForms
  <2>. QED
    BY <2>1 DEF StartFinish, Note, Of, SInv, TypeOK
<1>2. finishing' \in SUBSET Jobs /\ UNCHANGED <<job, slips, purchases, extras, stock, doing>>
  BY DEF StartFinish, SInv, TypeOK
<1>. QED
  BY <1>1, <1>2, JobOnlyKeeps DEF SInv, TypeOK

LEMMA AbandonFinishKeeps ==
  ASSUME SInv, NEW j \in Jobs, AbandonFinish(j)
  PROVE  SInv'
<1>1. seen' \in [PurchaseIds -> PurchaseStages \cup {NotSeen}]
  BY DEF AbandonFinish, Forget, Note, SInv, TypeOK
<1>2. finishing' \in SUBSET Jobs /\ UNCHANGED <<job, slips, purchases, extras, stock, doing>>
  BY DEF AbandonFinish, SInv, TypeOK
<1>. QED
  BY <1>1, <1>2, JobOnlyKeeps DEF SInv, TypeOK

\* withdrawOpenSourcing gives back exactly what the job's approved request
\* held.
LEMMA GivenBackExactly ==
  ASSUME SInv, NEW j \in Jobs,
         reserved' = GivenBack(j),
         In(slips, SlipIds, "APPROVED")' = {s \in In(slips, SlipIds, "APPROVED") : slips[s].job # j},
         \A s \in In(slips, SlipIds, "APPROVED")' : slips'[s].job = slips[s].job
  PROVE  /\ \A p \in Parts : /\ reserved'[p] = Held(p)'
                             /\ reserved'[p] \in Nat
                             /\ reserved'[p] <= reserved[p]
         /\ reserved' \in [Parts -> Nat]
<1> DEFINE approved == {s \in OpenSlips(j) : slips[s].state = "APPROVED"}
<1>1. approved = {s \in In(slips, SlipIds, "APPROVED") : slips[s].job = j}
  BY DEF OpenSlips, Of, In
<1>2. /\ reserved' = [p \in Parts |-> LET rest == reserved[p] - Cardinality(approved) * Need[j][p]
                                      IN IF rest < 0 THEN 0 ELSE rest]
  BY DEF GivenBack
<1>3. \A p \in Parts : Need[j][p] \in Nat /\ reserved[p] = Held(p) /\ reserved[p] \in Nat
  BY NeedAssumption DEF SInv, TypeOK, ReservedForApproved, Held
<1>. HIDE DEF approved
<1>4. CASE approved = {}
  <2>1. Cardinality(approved) = 0
    BY <1>4, FS_EmptySet
  <2>2. \A p \in Parts : reserved'[p] = reserved[p]
    BY <1>2, <1>3, <2>1
  <2>3. SameApproved
    BY <1>1, <1>4 DEF SameApproved
  <2>4. \A p \in Parts : Held(p)' = Held(p)
    BY <2>3 DEF Held, SameApproved
  <2>. QED
    BY <1>2, <1>3, <2>2, <2>4
<1>5. CASE approved # {}
  <2>1. PICK s \in approved : TRUE
    BY <1>5
  <2>2. s \in In(slips, SlipIds, "APPROVED") /\ slips[s].job = j
    BY <1>1, <2>1
  <2>3. approved = {s}
    BY <1>1, <2>2 DEF SInv, OneLiveRequest, In
  <2>4. Cardinality(approved) = 1
    BY <2>3, FS_Singleton
  <2>5. /\ In(slips, SlipIds, "APPROVED")' = In(slips, SlipIds, "APPROVED") \ {s}
        /\ \A t \in In(slips, SlipIds, "APPROVED") \ {s} : slips'[t].job = slips[t].job
    BY <1>1, <2>3
  <2>6. \A p \in Parts : Held(p) = Need[j][p] + Held(p)' /\ Held(p)' \in Nat
    BY <2>2, <2>5, HeldShrinks DEF SInv
  <2>7. \A p \in Parts : Held(p)' = reserved[p] - 1 * Need[j][p] /\ Held(p)' >= 0
    BY <1>3, <2>6
  <2>8. ASSUME NEW p \in Parts
        PROVE  reserved'[p] = Held(p)'
    <3> DEFINE rest == reserved[p] - Cardinality(approved) * Need[j][p]
    <3>1. reserved'[p] = IF rest < 0 THEN 0 ELSE rest
      BY <1>2
    <3>2. rest = Held(p)'
      BY <2>4, <2>7
    <3>3. Held(p)' \in Nat
      BY <2>6
    <3>. HIDE DEF rest
    <3>. QED
      BY <3>1, <3>2, <3>3
  <2>. QED
    BY <1>2, <1>3, <2>6, <2>8
<1>. QED
  BY <1>4, <1>5

\* approveCloseRequest and approveCancellationRequest, with
\* withdrawOpenSourcing.
LEMMA CommitFinishKeeps ==
  ASSUME SInv, NEW j \in Jobs, CommitFinish(j)
  PROVE  SInv'
<1>1. /\ job' = [job EXCEPT ![j] = "FINISHED"] /\ finishing' = finishing \ {j}
      /\ Forget(j) /\ reserved' = GivenBack(j) /\ UNCHANGED <<extras, onHand, doing>>
  BY DEF CommitFinish
<1>2. \A s \in SlipIds : slips'[s] = IF s \in OpenSlips(j) THEN [slips[s] EXCEPT !.state = "REJECTED"]
                                     ELSE slips[s]
  BY DEF CommitFinish
<1>3. \A e \in PurchaseIds :
        purchases'[e] = IF e \in OpenAsSeen(j) THEN [purchases[e] EXCEPT !.state = "REJECTED"]
                        ELSE purchases[e]
  BY DEF CommitFinish
<1>4. ASSUME NEW s \in OpenSlips(j)
      PROVE  /\ s \in Raised(slips, SlipIds) /\ s \in SlipIds /\ slips[s].job = j
             /\ slips[s].state \notin {"RELEASED", "REJECTED"}
             /\ slips'[s] \in SlipForms
             /\ slips'[s].state = "REJECTED"
             /\ slips'[s].job = slips[s].job /\ slips'[s].by = slips[s].by
  <2>1. /\ s \in Raised(slips, SlipIds) /\ slips[s].job = j
        /\ slips[s].state \notin {"RELEASED", "REJECTED"}
    BY DEF OpenSlips, Of
  <2>2. slips[s] \in SlipForms /\ s \in SlipIds
    BY <2>1, RaisedRow DEF SInv
  <2>3. slips'[s] = [slips[s] EXCEPT !.state = "REJECTED"]
    BY <1>2, <2>2
  <2>. QED
    BY <2>1, <2>2, <2>3 DEF SlipForms, SlipStages
<1>5. ASSUME NEW e \in OpenAsSeen(j)
      PROVE  /\ e \in Raised(purchases, PurchaseIds) /\ e \in PurchaseIds
             /\ purchases[e].state \notin {"DISBURSED", "REJECTED"}
             /\ purchases'[e] \in PurchaseForms
             /\ purchases'[e].state = "REJECTED"
             /\ purchases'[e].job = purchases[e].job /\ purchases'[e].by = purchases[e].by
  <2>1. /\ e \in Raised(purchases, PurchaseIds)
        /\ purchases[e].state \notin {"DISBURSED", "REJECTED"}
    BY DEF OpenAsSeen, Of
  <2>2. purchases[e] \in PurchaseForms /\ e \in PurchaseIds
    BY <2>1, RaisedRow DEF SInv
  <2>3. purchases'[e] = [purchases[e] EXCEPT !.state = "REJECTED"]
    BY <1>3, <2>2
  <2>. QED
    BY <2>1, <2>2, <2>3 DEF PurchaseForms, PurchaseStages
<1>6. slips' \in [SlipIds -> SlipRows] /\ Raised(slips, SlipIds)' = Raised(slips, SlipIds)
  <2>1. \A s \in SlipIds : slips'[s] \in SlipRows /\ (slips'[s] # None <=> slips[s] # None)
    BY <1>2, <1>4, FormIsRow DEF SInv, TypeOK, Raised
  <2>. QED
    BY <2>1 DEF CommitFinish, Raised
<1>7. /\ purchases' \in [PurchaseIds -> PurchaseRows]
      /\ Raised(purchases, PurchaseIds)' = Raised(purchases, PurchaseIds)
  <2>1. \A e \in PurchaseIds : /\ purchases'[e] \in PurchaseRows
                               /\ purchases'[e] # None <=> purchases[e] # None
    BY <1>3, <1>5, FormIsRow DEF SInv, TypeOK, Raised
  <2>. QED
    BY <2>1 DEF CommitFinish, Raised
<1>8. SlipsGoOn
  BY <1>2, <1>4, <1>6 DEF SlipsGoOn, Raised
<1>9. PurchasesGoOn
  BY <1>3, <1>5, <1>7 DEF PurchasesGoOn, Raised
<1>10. InFlightLegal'
  BY <1>1, <1>8, <1>9, InFlightKept
<1>11. Hands'
  <2>1. ASSUME NEW s \in Raised(slips, SlipIds)
        PROVE  HandsOnSlip(slips'[s])
    <3>1. CASE s \in OpenSlips(j)
      BY <1>4, <3>1 DEF HandsOnSlip
    <3>2. CASE s \notin OpenSlips(j)
      <4>1. slips'[s] = slips[s]
        BY <1>2, <3>2 DEF Raised
      <4>. QED
        BY <4>1 DEF SInv, Hands
    <3>. QED
      BY <3>1, <3>2
  <2>2. ASSUME NEW e \in Raised(purchases, PurchaseIds)
        PROVE  HandsOnPurchase(purchases'[e])
    <3>1. CASE e \in OpenAsSeen(j)
      BY <1>5, <3>1 DEF HandsOnPurchase
    <3>2. CASE e \notin OpenAsSeen(j)
      <4>1. purchases'[e] = purchases[e]
        BY <1>3, <3>2 DEF Raised
      <4>. QED
        BY <4>1 DEF SInv, Hands
    <3>. QED
      BY <3>1, <3>2
  <2>. QED
    BY <1>6, <1>7, <2>1, <2>2 DEF Hands, HandsOnSlip, HandsOnPurchase
<1>12. OneLiveRequest'
  BY <1>6, <1>7, <1>8, <1>9, OneLiveKept
<1>13. /\ In(slips, SlipIds, "APPROVED")' = {s \in In(slips, SlipIds, "APPROVED") : slips[s].job # j}
       /\ \A s \in In(slips, SlipIds, "APPROVED")' : slips'[s].job = slips[s].job
  <2>1. ASSUME NEW s \in Raised(slips, SlipIds)
        PROVE  slips'[s].state = "APPROVED" <=> slips[s].state = "APPROVED" /\ slips[s].job # j
    BY <1>2, <1>4 DEF OpenSlips, Of, Raised
  <2>. QED
    BY <1>6, <1>8, <2>1 DEF In, SlipsGoOn
<1>14. /\ \A p \in Parts : /\ reserved'[p] = Held(p)'
                           /\ reserved'[p] \in Nat
                           /\ reserved'[p] <= reserved[p]
       /\ reserved' \in [Parts -> Nat]
  BY <1>1, <1>13, GivenBackExactly
<1>15. ReservedForApproved'
  BY <1>14 DEF ReservedForApproved, Held
<1>16. NeverOversold'
  BY <1>1, <1>14 DEF SInv, TypeOK, NeverOversold
<1>17. FinishedHoldsNoStock'
  BY <1>1, <1>13 DEF SInv, FinishedHoldsNoStock, TypeOK
<1>18. TypeOK'
  <2>1. seen' \in [PurchaseIds -> PurchaseStages \cup {NotSeen}]
    BY <1>1 DEF Forget, Note, SInv, TypeOK
  <2>. QED
    BY <1>1, <1>6, <1>7, <1>14, <2>1 DEF SInv, TypeOK
<1>. QED
  BY <1>10, <1>11, <1>12, <1>15, <1>16, <1>17, <1>18 DEF SInv

-----------------------------------------------------------------------------
(***************************************************************************)
(* The invariant is inductive                                              *)
(***************************************************************************)
LEMMA InitHolds == Init => SInv
<1> SUFFICES ASSUME Init PROVE SInv
  OBVIOUS
<1>1. \A u \in Staff : doing[u] = Idle
  BY DEF Init
<1>2. TypeOK
  BY FormIsRow, IdleTyped DEF Init, TypeOK
<1>3. Raised(slips, SlipIds) = {} /\ Raised(purchases, PurchaseIds) = {}
  BY DEF Init, Raised
<1>4. In(slips, SlipIds, "APPROVED") = {}
  BY <1>3 DEF In
<1>5. OneLiveRequest /\ Hands /\ FinishedHoldsNoStock
  BY <1>3, <1>4 DEF OneLiveRequest, Hands, FinishedHoldsNoStock
<1>6. InFlightLegal
  BY <1>1, IdleTyped DEF InFlightLegal, MayStill
<1>7. ReservedForApproved
  <2>1. \A p \in Parts : Held(p) = 0
    BY <1>4, SumEmpty DEF Held, SumFunction
  <2>. QED
    BY <2>1 DEF ReservedForApproved, Held, Init
<1>8. NeverOversold
  BY DEF Init, NeverOversold
<1>. QED
  BY <1>2, <1>5, <1>6, <1>7, <1>8 DEF SInv

LEMMA NextKeeps == SInv /\ [Next]_vars => SInv'
<1> SUFFICES ASSUME SInv, [Next]_vars PROVE SInv'
  OBVIOUS
<1>1. CASE JobStep
  <2>1. PICK j \in Jobs : \/ \E u \in Staff : MoveOn(u, j) \/ StartFinish(u, j)
                          \/ CommitFinish(j)
                          \/ AbandonFinish(j)
    BY <1>1 DEF JobStep
  <2>. QED
    BY <2>1, MoveOnKeeps, StartFinishKeeps, CommitFinishKeeps, AbandonFinishKeeps
<1>2. ASSUME NEW u \in Staff, SlipStep(u)
      PROVE  SInv'
  <2>1. CASE \E j \in Jobs : ReadForSlip(u, j)
    BY <2>1, SlipReadKeeps
  <2>2. ASSUME NEW s \in SlipIds,
               \/ SaveSlip(u, s)
               \/ ReadForHod(u, s)
               \/ ApproveByStore(u, s)
               \/ Release(u, s)
               \/ RejectSlip(u, s)
        PROVE  SInv'
    BY <2>2, SaveSlipKeeps, SlipReadKeeps, ApproveByStoreKeeps, ReleaseKeeps, RejectSlipKeeps
  <2>3. CASE SaveHod(u)
    BY <2>3, SaveHodKeeps
  <2>4. CASE \E p \in Parts, n \in Deliveries : ReceiveGoods(u, p, n)
    BY <2>4, ReceiveGoodsKeeps
  <2>. QED
    BY <1>2, <2>1, <2>2, <2>3, <2>4 DEF SlipStep
<1>3. ASSUME NEW u \in Staff, PurchaseStep(u)
      PROVE  SInv'
  <2>1. CASE \E j \in Jobs : ReadForPurchase(u, j)
    BY <2>1, SlipReadKeeps
  <2>2. ASSUME NEW e \in PurchaseIds,
               \/ SavePurchase(u, e)
               \/ \E x \in ExtraIds, n \in ExtraAmounts \cup {0} : ReadForExtra(u, e, x, n)
               \/ SendToManager(u, e)
               \/ ReadForApproval(u, e)
               \/ ReadForDisbursement(u, e)
               \/ RejectPurchase(u, e)
        PROVE  SInv'
    BY <2>2, SavePurchaseKeeps, PurchaseReadKeeps, SendToManagerKeeps, RejectPurchaseKeeps
  <2>3. CASE SaveExtra(u) \/ SaveApproval(u) \/ SaveDisbursement(u)
    BY <2>3, SaveExtraKeeps, SaveApprovalKeeps, SaveDisbursementKeeps
  <2>. QED
    BY <1>3, <2>1, <2>2, <2>3 DEF PurchaseStep
<1>4. ASSUME NEW u \in Staff, GiveUp(u)
      PROVE  SInv'
  BY <1>4, GiveUpKeeps
<1>5. CASE UNCHANGED vars
  BY <1>5, JobOnlyKeeps DEF vars, jobs, SInv, TypeOK
<1>. QED
  BY <1>1, <1>2, <1>3, <1>4, <1>5 DEF Next

LEMMA AlwaysSInv == Spec => []SInv
BY InitHolds, NextKeeps, PTL DEF Spec

-----------------------------------------------------------------------------
(***************************************************************************)
(* The theorems                                                            *)
(***************************************************************************)
\* Every row of parts requests and purchases, the stock and the requests in
\* flight keep the form the portal's tables give them.
THEOREM TypeCorrect == Spec => []TypeOK
BY AlwaysSInv, PTL DEF SInv

\* approvePartRequestSlipByStore, releasePartRequestSlip and
\* withdrawOpenSourcing: what is reserved of a part is exactly the sum of what
\* the approved, unreleased requests ask for, for any number of them.
THEOREM NoReservationLeaks == Spec => []ReservedForApproved
BY AlwaysSInv, PTL DEF SInv

\* approvePartRequestSlipByStore and releasePartRequestSlip: the store never
\* promises or hands out units it does not have.
THEOREM StockCoversReservations == Spec => []NeverOversold
BY AlwaysSInv, PTL DEF SInv

\* withdrawOpenSourcing: a closed or cancelled Job Card holds no stock, in
\* whichever order the store's approval and the manager's commit come.
THEOREM FinishedJobReleasesStock == Spec => []FinishedHoldsNoStock
BY AlwaysSInv, PTL DEF SInv

\* requestPartRequestSlip, requestExternalProcurementBatch: however many staff
\* ask at once, a job has one live parts request and one live purchase.
THEOREM NoDoubleRequest == Spec => []OneLiveRequest
BY AlwaysSInv, PTL DEF SInv

\* Three different people have their hands on every release of parts and on
\* every payment.
THEOREM SeparationOfDuties == Spec => []ThreeHands
<1>1. ASSUME NEW a, NEW b, NEW c, a # b, c # a, c # b
      PROVE  Cardinality({a} \cup {b} \cup {c}) = 3
  <2>1. IsFiniteSet({a}) /\ Cardinality({a}) = 1
    BY FS_Singleton
  <2>2. IsFiniteSet({a} \cup {b}) /\ Cardinality({a} \cup {b}) = 2
    BY <1>1, <2>1, FS_AddElement
  <2>3. c \notin {a} \cup {b}
    BY <1>1
  <2>. QED
    BY <2>2, <2>3, FS_AddElement
<1>2. SInv => ThreeHands
  <2> SUFFICES ASSUME SInv PROVE ThreeHands
    OBVIOUS
  <2>1. ASSUME NEW s \in In(slips, SlipIds, "APPROVED") \cup In(slips, SlipIds, "RELEASED")
        PROVE  Cardinality({slips[s].by} \cup slips[s].hod \cup slips[s].storeMan) = 3
    <3>1. PICK h \in Staff \ {slips[s].by} : \E m \in Staff \ {slips[s].by, h} :
            slips[s].hod = {h} /\ slips[s].storeMan = {m}
      BY DEF SInv, Hands, HandsOnSlip, In
    <3>2. PICK m \in Staff \ {slips[s].by, h} : slips[s].hod = {h} /\ slips[s].storeMan = {m}
      BY <3>1
    <3>3. slips[s].by # h /\ m # slips[s].by /\ m # h
      OBVIOUS
    <3>4. Cardinality({slips[s].by} \cup {h} \cup {m}) = 3
      BY <1>1, <3>3
    <3>. QED
      BY <3>2, <3>4
  <2>2. ASSUME NEW e \in In(purchases, PurchaseIds, "DISBURSED")
        PROVE  Cardinality({purchases[e].by} \cup purchases[e].approver \cup purchases[e].payer) = 3
    <3>1. PICK m \in Staff \ {purchases[e].by} : \E k \in Staff \ {purchases[e].by, m} :
            purchases[e].approver = {m} /\ purchases[e].payer = {k}
      BY DEF SInv, Hands, HandsOnPurchase, In
    <3>2. PICK k \in Staff \ {purchases[e].by, m} :
            purchases[e].approver = {m} /\ purchases[e].payer = {k}
      BY <3>1
    <3>3. purchases[e].by # m /\ k # purchases[e].by /\ k # m
      OBVIOUS
    <3>4. Cardinality({purchases[e].by} \cup {m} \cup {k}) = 3
      BY <1>1, <3>3
    <3>. QED
      BY <3>2, <3>4
  <2>. QED
    BY <2>1, <2>2 DEF ThreeHands
<1>. QED
  BY <1>2, AlwaysSInv, PTL

\* rejectExternalProcurementRequest, withdrawOpenSourcing and
\* disburseExternalProcurementRequest: no later step of anybody, and no step
\* that read earlier, reopens a purchase that was paid, turned down or
\* withdrawn.
THEOREM PaymentsAndRefusalsStand == Spec => PaidIsFinal
<1> DEFINE Stand == \A e \in Raised(purchases, PurchaseIds) :
      purchases[e].state \in {"DISBURSED", "REJECTED"} => purchases'[e].state = purchases[e].state
<1>1. ASSUME SInv, Next
      PROVE  Stand
  <2> SUFFICES ASSUME NEW e \in Raised(purchases, PurchaseIds),
                      purchases[e].state \in {"DISBURSED", "REJECTED"}
               PROVE  purchases'[e].state = purchases[e].state
    OBVIOUS
  <2>0. purchases \in [PurchaseIds -> PurchaseRows] /\ e \in PurchaseIds
    BY <1>1 DEF SInv, TypeOK, Raised
  <2>2. CASE UNCHANGED purchases
    BY <2>2
  <2>3. CASE \E j \in Jobs : CommitFinish(j)
    <3>1. PICK j \in Jobs : CommitFinish(j)
      BY <2>3
    <3>2. e \notin OpenAsSeen(j)
      BY DEF OpenAsSeen
    <3>. QED
      BY <2>0, <3>1, <3>2 DEF CommitFinish
  <2>4. ASSUME NEW u \in Staff, NEW d \in PurchaseIds,
               SavePurchase(u, d) \/ SendToManager(u, d) \/ RejectPurchase(u, d)
        PROVE  purchases'[e].state = purchases[e].state
    <3>1. d # e
      BY <2>4 DEF SavePurchase, SendToManager, RejectPurchase, In, Raised
    <3>. QED
      BY <2>0, <2>4, <3>1 DEF SavePurchase, SendToManager, RejectPurchase
  <2>5. ASSUME NEW u \in Staff, SaveApproval(u) \/ SaveDisbursement(u)
        PROVE  purchases'[e].state = purchases[e].state
    <3>1. doing[u].purchase # e
      BY <2>5 DEF SaveApproval, SaveDisbursement, StillApproved
    <3>. QED
      BY <2>0, <2>5, <3>1 DEF SaveApproval, SaveDisbursement
  <2>6. ASSUME NEW u \in Staff, SlipStep(u)
        PROVE  UNCHANGED purchases
    BY <2>6 DEF SlipStep, ReadForSlip, SaveSlip, ReadForHod, SaveHod, ApproveByStore, Release,
         RejectSlip, ReceiveGoods
  <2>7. ASSUME NEW u \in Staff, PurchaseStep(u)
        PROVE  purchases'[e].state = purchases[e].state
    <3>1. CASE \/ \E j \in Jobs : ReadForPurchase(u, j)
               \/ \E d \in PurchaseIds :
                    \/ \E x \in ExtraIds, n \in ExtraAmounts \cup {0} : ReadForExtra(u, d, x, n)
                    \/ ReadForApproval(u, d)
                    \/ ReadForDisbursement(u, d)
               \/ SaveExtra(u)
      BY <3>1, <2>2 DEF ReadForPurchase, ReadForExtra, ReadForApproval, ReadForDisbursement, SaveExtra
    <3>. QED
      BY <2>4, <2>5, <2>7, <3>1 DEF PurchaseStep
  <2>8. ASSUME NEW u \in Staff, NEW j \in Jobs, MoveOn(u, j) \/ StartFinish(u, j) \/ AbandonFinish(j)
        PROVE  UNCHANGED purchases
    BY <2>8 DEF MoveOn, StartFinish, AbandonFinish
  <2>9. ASSUME NEW j \in Jobs, AbandonFinish(j)
        PROVE  UNCHANGED purchases
    BY <2>9 DEF AbandonFinish
  <2>10. ASSUME NEW u \in Staff, GiveUp(u)
         PROVE  UNCHANGED purchases
    BY <2>10 DEF GiveUp
  <2>. QED
    BY <1>1, <2>2, <2>3, <2>6, <2>7, <2>8, <2>9, <2>10 DEF Next, JobStep
<1>2. SInv /\ [Next]_vars => [Stand]_vars
  BY <1>1
<1>. QED
  BY <1>2, AlwaysSInv, PTL DEF Spec, PaidIsFinal

-----------------------------------------------------------------------------
(***************************************************************************)
(* The Store: sums over its records                                        *)
(***************************************************************************)
\* A sum of which one value changes.
LEMMA SumChanges ==
  ASSUME NEW A, IsFiniteSet(A), NEW f, NEW g, NEW y \in A, DOMAIN f = A, DOMAIN g = A,
         \A x \in A : f[x] \in Nat /\ g[x] \in Nat, \A x \in A \ {y} : f[x] = g[x]
  PROVE  /\ SumFunction(g) = SumFunction(f) - f[y] + g[y]
         /\ SumFunction(f) \in Nat /\ SumFunction(g) \in Nat /\ f[y] <= SumFunction(f)
<1>1. IsFiniteSet(A \ {y})
  BY FS_Subset
<1>2. SumFunctionOnSet(f, A \ {y}) = SumFunctionOnSet(g, A \ {y})
  BY <1>1, SumAgrees
<1>3. SumFunctionOnSet(f, A \ {y}) \in Nat
  BY <1>1, SumNat
<1>4. SumFunctionOnSet(f, A) = f[y] + SumFunctionOnSet(f, A \ {y})
  BY SumRemove
<1>5. SumFunctionOnSet(g, A) = g[y] + SumFunctionOnSet(g, A \ {y})
  BY SumRemove
<1>. QED
  BY <1>2, <1>3, <1>4, <1>5 DEF SumFunction

\* A sum of zeros.
LEMMA SumZero ==
  ASSUME NEW A, IsFiniteSet(A), NEW f, DOMAIN f = A, \A x \in A : f[x] = 0
  PROVE  SumFunction(f) = 0
<1> DEFINE H == {T \in SUBSET A : SumFunctionOnSet(f, T) = 0}
<1>1. ASSUME NEW T \in SUBSET A, \A U \in SUBSET T : U # T => U \in H
      PROVE  T \in H
  <2>1. CASE T = {}
    BY <2>1, SumEmpty
  <2>2. CASE T # {}
    <3>1. Pick(T) \in T /\ T \ {Pick(T)} \in SUBSET T /\ T \ {Pick(T)} # T
      BY <2>2, PickIn
    <3>2. SumFunctionOnSet(f, T \ {Pick(T)}) = 0 /\ f[Pick(T)] = 0
      BY <1>1, <3>1
    <3>3. SumFunctionOnSet(f, T) = f[Pick(T)] + SumFunctionOnSet(f, T \ {Pick(T)})
      BY <2>2, FS_Subset, SumPick
    <3>. QED
      BY <3>2, <3>3
  <2>. QED
    BY <2>1, <2>2
<1> HIDE DEF H
<1>3. A \in H
  BY <1>1, SubsetInduction
<1>. QED
  BY <1>3 DEF H, SumFunction

\* The sum of differences.
LEMMA SumMinus ==
  ASSUME NEW A, IsFiniteSet(A), NEW f, NEW g, NEW h, DOMAIN f = A, DOMAIN g = A, DOMAIN h = A,
         \A x \in A : f[x] \in Nat /\ g[x] \in Nat /\ h[x] = f[x] - g[x] /\ h[x] \in Nat
  PROVE  SumFunction(h) = SumFunction(f) - SumFunction(g)
<1> DEFINE H == {T \in SUBSET A : SumFunctionOnSet(h, T) = SumFunctionOnSet(f, T) - SumFunctionOnSet(g, T)}
<1>1. ASSUME NEW T \in SUBSET A, \A U \in SUBSET T : U # T => U \in H
      PROVE  T \in H
  <2>1. CASE T = {}
    BY <2>1, SumEmpty
  <2>2. CASE T # {}
    <3>. DEFINE c == Pick(T)
                R == T \ {c}
    <3>1. c \in T /\ R \in SUBSET T /\ R # T
      BY <2>2, PickIn
    <3>2. R \in H
      BY <1>1, <3>1
    <3>3. IsFiniteSet(T) /\ IsFiniteSet(R)
      BY FS_Subset
    <3>4. SumFunctionOnSet(f, T) = f[c] + SumFunctionOnSet(f, R)
      BY <2>2, <3>3, SumPick
    <3>5. SumFunctionOnSet(g, T) = g[c] + SumFunctionOnSet(g, R)
      BY <2>2, <3>3, SumPick
    <3>6. SumFunctionOnSet(h, T) = h[c] + SumFunctionOnSet(h, R)
      BY <2>2, <3>3, SumPick
    <3>7. SumFunctionOnSet(f, R) \in Nat /\ SumFunctionOnSet(g, R) \in Nat
      BY <3>3, SumNat
    <3>8. f[c] \in Nat /\ g[c] \in Nat /\ h[c] = f[c] - g[c]
      BY <3>1
    <3>. HIDE DEF c, R
    <3>. QED
      BY <3>2, <3>4, <3>5, <3>6, <3>7, <3>8
  <2>. QED
    BY <2>1, <2>2
<1> HIDE DEF H
<1>3. A \in H
  BY <1>1, SubsetInduction
<1>. QED
  BY <1>3 DEF H, SumFunction

-----------------------------------------------------------------------------
(***************************************************************************)
(* The Store: the inductive invariant                                      *)
(***************************************************************************)
\* The delivery a use counts against: the one it names, or the one there was
\* when it happened.
Source(use) == IF use.lot = NoLot THEN CHOOSE f \in Forms : use.arrived = {f} ELSE use.lot

\* What the uses us took from a delivery, and what they took for a request.
TakenFrom(us, l) == SumFunction([i \in DOMAIN us |-> IF Source(us[i]) = l THEN us[i].qty ELSE 0])
TakenFor(us, p)  == SumFunction([i \in DOMAIN us |-> IF us[i].slip = p THEN us[i].qty ELSE 0])

\* What a delivery still holds, without replaying.
Holds(l) == received[l] - TakenFrom(uses, l)

\* A use names a delivery that is there. One that names none is the first, from
\* before deliveries were recorded.
UsesNamed ==
  \A i \in DOMAIN uses :
    /\ uses[i].lot # NoLot => uses[i].lot \in Present /\ uses[i].slip \in Slips
    /\ uses[i].lot = NoLot =>
         /\ i = 1 /\ uses[i].slip = OldSlip
         /\ \E f \in Forms \cap Present : uses[i].arrived = {f} /\ uses[i].qty <= received[f]

\* The deliveries are in order, each once, the opening balance first.
LotsInOrder ==
  /\ \A i, j \in DOMAIN lots : lots[i] = lots[j] => i = j
  /\ Opening \in Present => lots[1] = Opening
  /\ \A l \in Lots \ Present : received[l] = 0

\* No delivery gave more than it brought, and what a batch is said to hold is
\* what it was not used for.
NothingOverdrawn ==
  /\ tracking # "SERIALIZED" => \A l \in Lots : Holds(l) >= 0
  /\ left = [l \in Lots |-> IF tracking = "BATCH" THEN Holds(l) ELSE 0]

\* Units are the records of a serialized part, and only of one.
UnitsOf(l) == {x \in Serials : unitOf[x] = l}
UnitsTracked ==
  /\ \A x \in Serials : unitOf[x] = NoLot => issuedTo[x] = NoSlip
  /\ tracking = "SERIALIZED" => uses = <<>> /\ \A l \in Lots : Cardinality(UnitsOf(l)) = received[l]
  /\ tracking # "SERIALIZED" => \A x \in Serials : unitOf[x] = NoLot

\* At most one import is under way, of an opening balance that is not there.
OneImport ==
  /\ \A u, v \in Staff : doing[u].op = "open" /\ doing[v].op = "open" => u = v
  /\ Importing => Opening \notin Present

\* A release in flight has chosen as many units as are asked for.
UnitsChosen ==
  \A u \in Staff : doing[u].op = "release" =>
    IF tracking = "SERIALIZED" THEN Cardinality(doing[u].units) = want[doing[u].slip]
                               ELSE doing[u].units = {}

StoreInv ==
  /\ StoreTypeOK
  /\ UsesNamed
  /\ LotsInOrder
  /\ NothingOverdrawn
  /\ UnitsTracked
  /\ OneImport
  /\ UnitsChosen
  /\ ShelfMatchesRecords
  /\ ReleasesAreTraced

-----------------------------------------------------------------------------
(***************************************************************************)
(* The Store: what the uses add up to                                      *)
(***************************************************************************)
LEMMA Names ==
  /\ Opening \in Lots /\ NoLot \notin Lots /\ Opening # NoLot /\ OldSlip \notin Slips
  /\ \A f \in Forms : f \in Lots /\ f # Opening
  /\ IsFiniteSet(Lots) /\ IsFiniteSet(Forms) /\ IsFiniteSet(Slips) /\ IsFiniteSet(Serials)
BY NamesAssumption, TablesAssumption, FS_AddElement DEF Lots, Opening, NoLot

\* The use that names no delivery is of the one there was.
LEMMA SourceIs ==
  ASSUME NEW use, NEW f \in Forms, use.lot = NoLot, use.arrived = {f}
  PROVE  Source(use) = f
BY DEF Source

\* A recorded use took something.
LEMMA UseTyped ==
  ASSUME NEW us \in Seq(Uses), NEW i \in DOMAIN us
  PROVE  us[i] \in Uses /\ us[i].qty \in Nat /\ us[i].qty > 0 /\ us[i].lot \in Lots \cup {NoLot}
<1>1. us[i] \in Uses
  OBVIOUS
<1>. QED
  BY <1>1, QtyAssumption DEF Uses

\* A sum over a sequence, one longer.
LEMMA SumLonger ==
  ASSUME NEW n \in Nat, NEW f, NEW g, DOMAIN f = 1..n, DOMAIN g = 1..(n + 1),
         \A x \in 1..n : f[x] = g[x], \A x \in 1..(n + 1) : g[x] \in Nat
  PROVE  SumFunction(f) \in Nat /\ SumFunction(g) = SumFunction(f) + g[n + 1]
<1>1. PICK A, y : A = 1..n /\ y = n + 1
  OBVIOUS
<1>2. y \notin A /\ A \cup {y} = 1..(n + 1)
  BY <1>1
<1>3. IsFiniteSet(A)
  BY <1>1, FS_Interval
<1>4. DOMAIN f = A /\ DOMAIN g = A \cup {y} /\ (\A x \in A : f[x] = g[x]) /\ \A x \in A \cup {y} : g[x] \in Nat
  BY <1>1, <1>2
<1>5. SumFunction(g) = g[y] + SumFunction(f)
  BY ONLY <1>2, <1>3, <1>4, SumGrows
<1>6. SumFunction(f) \in Nat
  <2>1. \A x \in A : f[x] \in Nat
    BY <1>4
  <2>. QED
    BY <1>3, <1>4, <2>1, SumNat DEF SumFunction
<1>7. g[y] \in Nat
  BY <1>4
<1>. QED
  BY <1>1, <1>5, <1>6, <1>7

\* One more use adds what it took.
LEMMA OneMoreUse ==
  ASSUME NEW us \in Seq(Uses), NEW use \in Uses
  PROVE  /\ Append(us, use) \in Seq(Uses)
         /\ \A l : TakenFrom(Append(us, use), l) = TakenFrom(us, l) + (IF Source(use) = l THEN use.qty ELSE 0)
         /\ \A p : TakenFor(Append(us, use), p) = TakenFor(us, p) + (IF use.slip = p THEN use.qty ELSE 0)
<1>. DEFINE n    == Len(us)
            more == Append(us, use)
<1>1. /\ more \in Seq(Uses) /\ n \in Nat /\ DOMAIN us = 1..n /\ DOMAIN more = 1..(n + 1)
      /\ (\A i \in 1..n : more[i] = us[i]) /\ more[n + 1] = use
  OBVIOUS
<1>2. \A i \in 1..(n + 1) : more[i].qty \in Nat
  BY <1>1, UseTyped
<1>3. n + 1 \in 1..(n + 1) /\ \A i \in 1..n : i \in 1..(n + 1)
  BY <1>1
<1>. HIDE DEF n, more
<1>4. ASSUME NEW l
      PROVE  TakenFrom(more, l) = TakenFrom(us, l) + (IF Source(use) = l THEN use.qty ELSE 0)
  <2>. DEFINE f == [i \in DOMAIN us |-> IF Source(us[i]) = l THEN us[i].qty ELSE 0]
              g == [i \in DOMAIN more |-> IF Source(more[i]) = l THEN more[i].qty ELSE 0]
  <2>1. /\ DOMAIN f = 1..n /\ DOMAIN g = 1..(n + 1)
        /\ \A x \in 1..n : f[x] = g[x]
        /\ \A x \in 1..(n + 1) : g[x] \in Nat
    BY <1>1, <1>2, <1>3
  <2>2. g[n + 1] = IF Source(use) = l THEN use.qty ELSE 0
    BY <1>1, <1>3
  <2>3. SumFunction(f) = TakenFrom(us, l) /\ SumFunction(g) = TakenFrom(more, l)
    BY DEF TakenFrom
  <2>. HIDE DEF f, g
  <2>4. SumFunction(g) = SumFunction(f) + g[n + 1]
    BY <1>1, <2>1, SumLonger
  <2>. QED
    BY <2>2, <2>3, <2>4
<1>5. ASSUME NEW p
      PROVE  TakenFor(more, p) = TakenFor(us, p) + (IF use.slip = p THEN use.qty ELSE 0)
  <2>. DEFINE f == [i \in DOMAIN us |-> IF us[i].slip = p THEN us[i].qty ELSE 0]
              g == [i \in DOMAIN more |-> IF more[i].slip = p THEN more[i].qty ELSE 0]
  <2>1. /\ DOMAIN f = 1..n /\ DOMAIN g = 1..(n + 1)
        /\ \A x \in 1..n : f[x] = g[x]
        /\ \A x \in 1..(n + 1) : g[x] \in Nat
    BY <1>1, <1>2, <1>3
  <2>2. g[n + 1] = IF use.slip = p THEN use.qty ELSE 0
    BY <1>1, <1>3
  <2>3. SumFunction(f) = TakenFor(us, p) /\ SumFunction(g) = TakenFor(more, p)
    BY DEF TakenFor
  <2>. HIDE DEF f, g
  <2>4. SumFunction(g) = SumFunction(f) + g[n + 1]
    BY <1>1, <2>1, SumLonger
  <2>. QED
    BY <2>2, <2>3, <2>4
<1>. QED
  BY <1>1, <1>4, <1>5 DEF more

\* Before any use nothing was taken.
LEMMA NoUse ==
  /\ \A l : TakenFrom(<<>>, l) = 0
  /\ \A p : TakenFor(<<>>, p) = 0
<1>1. DOMAIN <<>> = {}
  OBVIOUS
<1>2. ASSUME NEW l PROVE TakenFrom(<<>>, l) = 0
  BY <1>1, SumEmpty DEF TakenFrom, SumFunction
<1>3. ASSUME NEW p PROVE TakenFor(<<>>, p) = 0
  BY <1>1, SumEmpty DEF TakenFor, SumFunction
<1>. QED
  BY <1>2, <1>3

\* What was taken is never negative.
LEMMA TakenNat ==
  ASSUME NEW us \in Seq(Uses)
  PROVE  /\ \A l : TakenFrom(us, l) \in Nat
         /\ \A p : TakenFor(us, p) \in Nat
<1>1. DOMAIN us = 1..Len(us) /\ Len(us) \in Nat /\ IsFiniteSet(DOMAIN us)
  BY FS_Interval
<1>2. ASSUME NEW l PROVE TakenFrom(us, l) \in Nat
  <2>. DEFINE f == [i \in DOMAIN us |-> IF Source(us[i]) = l THEN us[i].qty ELSE 0]
  <2>1. \A i \in DOMAIN us : f[i] \in Nat
    BY UseTyped
  <2>. HIDE DEF f
  <2>2. SumFunctionOnSet(f, DOMAIN us) \in Nat
    BY <1>1, <2>1, SumNat
  <2>. QED
    BY <2>2 DEF f, TakenFrom, SumFunction
<1>3. ASSUME NEW p PROVE TakenFor(us, p) \in Nat
  <2>. DEFINE f == [i \in DOMAIN us |-> IF us[i].slip = p THEN us[i].qty ELSE 0]
  <2>1. \A i \in DOMAIN us : f[i] \in Nat
    BY UseTyped
  <2>. HIDE DEF f
  <2>2. SumFunctionOnSet(f, DOMAIN us) \in Nat
    BY <1>1, <2>1, SumNat
  <2>. QED
    BY <2>2 DEF f, TakenFor, SumFunction
<1>. QED
  BY <1>2, <1>3

\* Nothing was taken from a delivery that no use is of.
LEMMA NoneTaken ==
  ASSUME NEW us \in Seq(Uses)
  PROVE  /\ \A l : (\A i \in DOMAIN us : Source(us[i]) # l) => TakenFrom(us, l) = 0
         /\ \A p : (\A i \in DOMAIN us : us[i].slip # p) => TakenFor(us, p) = 0
<1>1. DOMAIN us = 1..Len(us) /\ Len(us) \in Nat /\ IsFiniteSet(DOMAIN us)
  BY FS_Interval
<1>2. ASSUME NEW l, \A i \in DOMAIN us : Source(us[i]) # l PROVE TakenFrom(us, l) = 0
  <2>. DEFINE f == [i \in DOMAIN us |-> IF Source(us[i]) = l THEN us[i].qty ELSE 0]
  <2>1. DOMAIN f = DOMAIN us /\ \A i \in DOMAIN us : f[i] = 0
    BY <1>2
  <2>. HIDE DEF f
  <2>2. SumFunction(f) = 0
    BY <1>1, <2>1, SumZero
  <2>. QED
    BY <2>2 DEF f, TakenFrom
<1>3. ASSUME NEW p, \A i \in DOMAIN us : us[i].slip # p PROVE TakenFor(us, p) = 0
  <2>. DEFINE f == [i \in DOMAIN us |-> IF us[i].slip = p THEN us[i].qty ELSE 0]
  <2>1. DOMAIN f = DOMAIN us /\ \A i \in DOMAIN us : f[i] = 0
    BY <1>3
  <2>. HIDE DEF f
  <2>2. SumFunction(f) = 0
    BY <1>1, <2>1, SumZero
  <2>. QED
    BY <2>2 DEF f, TakenFor
<1>. QED
  BY <1>2, <1>3

-----------------------------------------------------------------------------
(***************************************************************************)
(* The Store: the replay of the uses                                       *)
(***************************************************************************)
LEMMA PositionIs ==
  ASSUME StoreTypeOK, LotsInOrder, NEW i \in DOMAIN lots
  PROVE  /\ Position(lots[i]) = i /\ Older(lots[i]) = {lots[j] : j \in 1..(i - 1)}
         /\ lots[i] \in Present /\ lots[i] \notin Older(lots[i])
<1>1. Position(lots[i]) = i
  BY DEF Position, LotsInOrder
<1>2. Older(lots[i]) = {lots[j] : j \in 1..(i - 1)}
  BY <1>1 DEF Older
<1>3. DOMAIN lots = 1..Len(lots) /\ Len(lots) \in Nat
  BY DEF StoreTypeOK
<1>4. \A j \in 1..(i - 1) : j \in DOMAIN lots /\ j # i
  BY <1>3
<1>5. lots[i] \notin Older(lots[i])
  BY <1>2, <1>4 DEF LotsInOrder
<1>. QED
  BY <1>1, <1>2, <1>5 DEF Present

\* Every delivery that came has its place.
LEMMA HasPosition ==
  ASSUME StoreTypeOK, LotsInOrder, NEW l \in Present
  PROVE  \E i \in DOMAIN lots : lots[i] = l /\ Position(l) = i
BY PositionIs DEF Present

\* Deliveries that are there are deliveries.
LEMMA PresentIsLots == ASSUME StoreTypeOK PROVE Present \subseteq Lots
BY DEF Present, StoreTypeOK

\* What the first n uses left of a delivery, without replaying.
LeftAfter(n, l) ==
  received[l] - SumFunction([i \in 1..n |-> IF Source(uses[i]) = l THEN uses[i].qty ELSE 0])

\* One use further, that use is taken from its source.
LEMMA LeftAfterNext ==
  ASSUME StoreTypeOK, NEW n \in 1..Len(uses), NEW l \in Lots
  PROVE  /\ LeftAfter(n, l) = LeftAfter(n - 1, l) - (IF Source(uses[n]) = l THEN uses[n].qty ELSE 0)
         /\ LeftAfter(n, l) \in Int /\ LeftAfter(n - 1, l) \in Int
<1>1. DOMAIN uses = 1..Len(uses) /\ Len(uses) \in Nat /\ uses \in Seq(Uses)
  BY DEF StoreTypeOK
<1>. DEFINE m == n - 1
            f == [i \in 1..m |-> IF Source(uses[i]) = l THEN uses[i].qty ELSE 0]
            g == [i \in 1..n |-> IF Source(uses[i]) = l THEN uses[i].qty ELSE 0]
<1>2. m \in Nat /\ m + 1 = n /\ n \in 1..n /\ \A i \in 1..m : i \in 1..n
  BY <1>1
<1>3. \A i \in 1..n : uses[i].qty \in Nat
  <2>1. \A i \in 1..n : i \in DOMAIN uses
    BY <1>1
  <2>. QED
    BY <1>1, <2>1, UseTyped
<1>4. /\ DOMAIN f = 1..m /\ DOMAIN g = 1..(m + 1)
      /\ \A x \in 1..m : f[x] = g[x]
      /\ \A x \in 1..(m + 1) : g[x] \in Nat
  BY <1>2, <1>3
<1>5. g[n] = IF Source(uses[n]) = l THEN uses[n].qty ELSE 0
  BY <1>2
<1>6. LeftAfter(n, l) = received[l] - SumFunction(g) /\ LeftAfter(n - 1, l) = received[l] - SumFunction(f)
  BY DEF LeftAfter
<1>. HIDE DEF f, g
<1>7. received[l] \in Int /\ g[n] \in Nat
  <2>1. received[l] \in 0..MaxQty
    BY DEF StoreTypeOK
  <2>. QED
    BY <1>2, <1>4, <2>1, QtyAssumption
<1>8. SumFunction(f) \in Nat /\ SumFunction(g) = SumFunction(f) + g[m + 1]
  BY <1>2, <1>4, SumLonger
<1>. QED
  BY <1>2, <1>5, <1>6, <1>7, <1>8

\* One step of the replay takes a use from its source.
LEMMA ReplayStep ==
  ASSUME StoreTypeOK, UsesNamed, LotsInOrder, NEW n \in 1..Len(uses)
  PROVE  AfterUse([l \in Lots |-> LeftAfter(n - 1, l)], uses[n]) = [l \in Lots |-> LeftAfter(n, l)]
<1>1. n \in DOMAIN uses /\ uses[n] \in Uses /\ uses[n].qty \in Nat
  BY UseTyped DEF StoreTypeOK
<1>. DEFINE use == uses[n]
            rem == [l \in Lots |-> LeftAfter(n - 1, l)]
<1>2. CASE use.lot # NoLot
  <2>1. use.lot \in Present /\ use.lot \in Lots /\ Source(use) = use.lot
    BY <1>1, <1>2, PresentIsLots DEF UsesNamed, Source
  <2>2. AfterUse(rem, use) = [l \in Lots |-> IF l = use.lot THEN rem[l] - use.qty ELSE rem[l]]
    BY <2>1 DEF AfterUse
  <2>3. \A l \in Lots : LeftAfter(n, l) = IF l = use.lot THEN rem[l] - use.qty ELSE rem[l]
    BY <2>1, LeftAfterNext
  <2>. QED
    BY <2>2, <2>3
<1>3. CASE use.lot = NoLot
  <2>1. PICK f \in Forms \cap Present : n = 1 /\ use.arrived = {f} /\ use.qty <= received[f]
    BY <1>1, <1>3 DEF UsesNamed
  <2>2. Source(use) = f /\ f \in Lots /\ use.lot \notin Present
    BY <1>3, <2>1, SourceIs, Names, PresentIsLots
  <2>3. rem[f] = received[f]
    <3>1. SumFunction([i \in 1..(n - 1) |-> IF Source(uses[i]) = f THEN uses[i].qty ELSE 0]) = 0
      BY <2>1, SumEmpty DEF SumFunction
    <3>. QED
      BY <2>2, <3>1 DEF LeftAfter, StoreTypeOK
  <2>4. \A l \in Lots : Draw(use.qty, rem, {f})[l] = IF l = f THEN use.qty ELSE 0
    <3>1. PICK i \in DOMAIN lots : lots[i] = f
      BY <2>1, HasPosition
    <3>2. {f} \cap Older(f) = {}
      BY <3>1, PositionIs
    <3>3. Total(rem, {f} \cap Older(f)) = 0
      BY <3>2, SumEmpty DEF Total
    <3>4. Least(Positive(received[f]), Positive(use.qty - 0)) = use.qty
      BY <1>1, <2>1, <2>2 DEF Least, Positive, StoreTypeOK
    <3>. HIDE DEF use, rem
    <3>. QED
      BY <2>2, <2>3, <3>3, <3>4 DEF Draw
  <2>5. AfterUse(rem, use) = [l \in Lots |-> rem[l] - Draw(use.qty, rem, {f})[l]]
    BY <2>1, <2>2 DEF AfterUse
  <2>6. \A l \in Lots : LeftAfter(n, l) = rem[l] - Draw(use.qty, rem, {f})[l]
    BY <1>1, <2>2, <2>4, LeftAfterNext
  <2>. QED
    BY <2>5, <2>6
<1>. QED
  BY <1>2, <1>3

\* The equation of the replay, and its only solution.
ReplayGraph ==
  CHOOSE F : F = [n \in 0..Len(uses) |-> IF n = 0 THEN received ELSE AfterUse(F[n - 1], uses[n])]

\* The replay is the last value of the recursion.
LEMMA ReplayUnfolds == Replay = ReplayGraph[Len(uses)]
BY DEF Replay, ReplayGraph

\* replayQuantityFifo finds in each delivery what it brought less what was taken
\* from it: its recursion has one solution, and the closed form is one.
LEMMA ReplayIsHolds ==
  ASSUME StoreTypeOK, UsesNamed, LotsInOrder
  PROVE  Replay = [l \in Lots |-> Holds(l)]
<1>. DEFINE A == [n \in 0..Len(uses) |-> [l \in Lots |-> LeftAfter(n, l)]]
<1>0. Len(uses) \in Nat /\ DOMAIN uses = 1..Len(uses)
  BY DEF StoreTypeOK
<1>1. A[0] = received
  <2>1. \A l \in Lots : LeftAfter(0, l) = received[l]
    <3>. TAKE l \in Lots
    <3>1. SumFunction([i \in 1..0 |-> IF Source(uses[i]) = l THEN uses[i].qty ELSE 0]) = 0
      BY SumEmpty DEF SumFunction
    <3>. QED
      BY <3>1 DEF LeftAfter, StoreTypeOK
  <2>2. received = [l \in Lots |-> received[l]]
    BY DEF StoreTypeOK
  <2>. QED
    BY <1>0, <2>1, <2>2
<1>2. \A n \in 1..Len(uses) : A[n] = AfterUse(A[n - 1], uses[n])
  BY <1>0, ReplayStep
<1>3. A = [n \in 0..Len(uses) |-> IF n = 0 THEN received ELSE AfterUse(A[n - 1], uses[n])]
  <2>. HIDE DEF A
  <2>1. \A n \in 0..Len(uses) : A[n] = IF n = 0 THEN received ELSE AfterUse(A[n - 1], uses[n])
    BY <1>0, <1>1, <1>2
  <2>2. A = [n \in 0..Len(uses) |-> A[n]]
    BY DEF A
  <2>. QED
    BY <2>1, <2>2
<1>. DEFINE F == ReplayGraph
<1>4. F = [n \in 0..Len(uses) |-> IF n = 0 THEN received ELSE AfterUse(F[n - 1], uses[n])]
  <2>. HIDE DEF A
  <2>. QED
    BY <1>3 DEF ReplayGraph
<1>. HIDE DEF A, F
<1>5. \A n \in 0..Len(uses) : F[n] = IF n = 0 THEN received ELSE AfterUse(F[n - 1], uses[n])
  BY <1>4
<1>. DEFINE B == {n \in 0..Len(uses) : F[n] # A[n]}
<1>6. B = {}
  <2>. SUFFICES ASSUME B # {} PROVE FALSE
    OBVIOUS
  <2>1. PICK m \in B : \A k \in B : m <= k
    <3>1. B \in SUBSET Nat
      BY <1>0
    <3>. HIDE DEF B
    <3>. QED
      BY <3>1, LeastNat
  <2>2. m # 0
    BY <1>0, <1>1, <1>5
  <2>3. m - 1 \in 0..Len(uses) /\ m - 1 \notin B /\ m \in 1..Len(uses)
    BY <1>0, <2>1, <2>2
  <2>4. F[m - 1] = A[m - 1]
    BY <2>3
  <2>5. F[m] = A[m]
    BY <1>2, <1>5, <2>2, <2>3, <2>4
  <2>. QED
    BY <2>1, <2>5
<1>7. F[Len(uses)] = A[Len(uses)]
  BY <1>0, <1>6
<1>8. A[Len(uses)] = [l \in Lots |-> Holds(l)]
  <2>1. \A l \in Lots : LeftAfter(Len(uses), l) = Holds(l)
    BY <1>0 DEF LeftAfter, Holds, TakenFrom
  <2>. QED
    BY <1>0, <2>1 DEF A
<1>. QED
  BY <1>7, <1>8, ReplayUnfolds DEF F

-----------------------------------------------------------------------------
(***************************************************************************)
(* The Store: first in, first out                                          *)
(***************************************************************************)
\* A sum over fewer elements is not larger.
LEMMA SumSubset ==
  ASSUME NEW T, IsFiniteSet(T), NEW f, \A x \in T : f[x] \in Nat, NEW S \in SUBSET T
  PROVE  SumFunctionOnSet(f, S) <= SumFunctionOnSet(f, T)
<1>. DEFINE H == {U \in SUBSET T : \A V \in SUBSET U : SumFunctionOnSet(f, V) <= SumFunctionOnSet(f, U)}
<1>0. \A U \in SUBSET T : IsFiniteSet(U) /\ SumFunctionOnSet(f, U) \in Nat
  BY FS_Subset, SumNat
<1>1. ASSUME NEW U \in SUBSET T, \A W \in SUBSET U : W # U => W \in H
      PROVE  U \in H
  <2>1. ASSUME NEW V \in SUBSET U
        PROVE  SumFunctionOnSet(f, V) <= SumFunctionOnSet(f, U)
    <3>1. CASE V = U
      BY <1>0, <3>1
    <3>2. CASE V # U
      <4>1. PICK y \in U : y \notin V
        BY <3>2
      <4>2. U \ {y} \in H /\ V \in SUBSET (U \ {y})
        BY <1>1, <4>1
      <4>3. SumFunctionOnSet(f, V) <= SumFunctionOnSet(f, U \ {y})
        BY <4>2
      <4>4. SumFunctionOnSet(f, U) = f[y] + SumFunctionOnSet(f, U \ {y})
        BY <1>0, SumRemove
      <4>5. f[y] \in Nat /\ SumFunctionOnSet(f, V) \in Nat /\ SumFunctionOnSet(f, U \ {y}) \in Nat
        BY <1>0
      <4>. QED
        BY <4>3, <4>4, <4>5
    <3>. QED
      BY <3>1, <3>2
  <2>. QED
    BY <2>1
<1>. HIDE DEF H
<1>2. T \in H
  BY <1>1, SubsetInduction
<1>. QED
  BY <1>2 DEF H

\* Over naturals, Total is the sum.
LEMMA TotalIs ==
  ASSUME NEW S, IsFiniteSet(S), NEW q, \A l \in S : q[l] \in Nat
  PROVE  Total(q, S) = SumFunctionOnSet(q, S) /\ Total(q, S) \in Nat
<1>. DEFINE f == [l \in S |-> Positive(q[l])]
<1>1. \A l \in S : f[l] = q[l]
  BY DEF Positive
<1>. HIDE DEF f
<1>2. SumFunctionOnSet(f, S) = SumFunctionOnSet(q, S)
  BY <1>1, SumAgrees
<1>. QED
  BY <1>2, SumNat DEF Total, f

\* The first k deliveries.
First(k) == {lots[i] : i \in 1..k}

\* The first k deliveries, one by one: those before the k-th are the older ones.
LEMMA FirstFacts ==
  ASSUME StoreTypeOK, LotsInOrder
  PROVE  /\ First(0) = {} /\ First(Len(lots)) = Present /\ Len(lots) \in Nat
         /\ \A k \in 0..Len(lots) : First(k) \in SUBSET Present /\ IsFiniteSet(First(k))
         /\ \A k \in 1..Len(lots) : /\ First(k) = First(k - 1) \cup {lots[k]}
                                    /\ lots[k] \in Present
                                    /\ lots[k] \notin First(k - 1) /\ Older(lots[k]) = First(k - 1)
         /\ \A j, k \in 0..Len(lots) : j <= k => First(j) \subseteq First(k)
<1>1. DOMAIN lots = 1..Len(lots) /\ Len(lots) \in Nat
  BY DEF StoreTypeOK
<1>2. First(0) = {} /\ First(Len(lots)) = Present
  BY <1>1 DEF First, Present
<1>3. IsFiniteSet(Present)
  BY PresentIsLots, Names, FS_Subset
<1>4. \A k \in 0..Len(lots) : First(k) \in SUBSET Present
  BY <1>1 DEF First, Present
<1>5. ASSUME NEW k \in 1..Len(lots)
      PROVE  /\ First(k) = First(k - 1) \cup {lots[k]}
             /\ lots[k] \in Present
             /\ lots[k] \notin First(k - 1) /\ Older(lots[k]) = First(k - 1)
  <2>1. 1..k = 1..(k - 1) \cup {k}
    BY <1>1
  <2>2. First(k) = First(k - 1) \cup {lots[k]}
    BY <2>1 DEF First
  <2>. QED
    BY <1>1, <2>2, PositionIs DEF First
<1>6. \A j, k \in 0..Len(lots) : j <= k => First(j) \subseteq First(k)
  BY <1>1 DEF First
<1>. QED
  BY <1>1, <1>2, <1>3, <1>4, <1>5, <1>6, FS_Subset

\* What the first k deliveries have, one by one.
LEMMA TotalNext ==
  ASSUME StoreTypeOK, LotsInOrder, NEW q, \A l \in Lots : q[l] \in Nat, NEW k \in 1..Len(lots)
  PROVE  /\ Total(q, First(k)) = Total(q, First(k - 1)) + q[lots[k]]
         /\ Total(q, First(k - 1)) \in Nat
<1>1. lots[k] \in Lots /\ First(k) \in SUBSET Lots /\ First(k - 1) \in SUBSET Lots
  BY FirstFacts, PresentIsLots
<1>2. IsFiniteSet(First(k)) /\ IsFiniteSet(First(k - 1))
  BY FirstFacts
<1>3. First(k) \ {lots[k]} = First(k - 1) /\ lots[k] \in First(k)
  BY FirstFacts
<1>4. Total(q, First(k)) = SumFunctionOnSet(q, First(k))
  BY <1>1, <1>2, TotalIs
<1>5. Total(q, First(k - 1)) = SumFunctionOnSet(q, First(k - 1)) /\ Total(q, First(k - 1)) \in Nat
  BY <1>1, <1>2, TotalIs
<1>6. SumFunctionOnSet(q, First(k)) = q[lots[k]] + SumFunctionOnSet(q, First(k) \ {lots[k]})
  BY <1>1, <1>2, <1>3, SumRemove
<1>7. SumFunctionOnSet(q, First(k)) = q[lots[k]] + SumFunctionOnSet(q, First(k - 1))
  BY <1>3, <1>6
<1>8. q[lots[k]] \in Nat
  BY <1>1
<1>. QED
  BY ONLY <1>4, <1>5, <1>7, <1>8

\* More deliveries have no less.
LEMMA TotalGrows ==
  ASSUME StoreTypeOK, LotsInOrder, NEW q, \A l \in Lots : q[l] \in Nat,
         NEW j \in 0..Len(lots), NEW k \in 0..Len(lots), j <= k
  PROVE  Total(q, First(j)) <= Total(q, First(k)) /\ Total(q, First(j)) \in Nat /\ Total(q, First(k)) \in Nat
<1>1. First(j) \in SUBSET First(k) /\ First(k) \in SUBSET Lots /\ IsFiniteSet(First(j)) /\ IsFiniteSet(First(k))
  BY FirstFacts, PresentIsLots
<1>2. Total(q, First(j)) = SumFunctionOnSet(q, First(j)) /\ Total(q, First(j)) \in Nat
  BY <1>1, TotalIs
<1>3. Total(q, First(k)) = SumFunctionOnSet(q, First(k)) /\ Total(q, First(k)) \in Nat
  BY <1>1, TotalIs
<1>. QED
  BY <1>1, <1>2, <1>3, SumSubset

\* What is drawn from each delivery.
LEMMA DrawnFrom ==
  ASSUME StoreTypeOK, LotsInOrder, NEW qty \in Nat, NEW rem, \A l \in Lots : rem[l] \in Nat
  PROVE  /\ DOMAIN Draw(qty, rem, Present) = Lots
         /\ \A l \in Lots \ Present : Draw(qty, rem, Present)[l] = 0
         /\ \A k \in 1..Len(lots) :
              Draw(qty, rem, Present)[lots[k]] = Least(rem[lots[k]], Positive(qty - Total(rem, First(k - 1))))
         /\ \A l \in Lots : Draw(qty, rem, Present)[l] \in Nat /\ Draw(qty, rem, Present)[l] <= rem[l]
<1>. DEFINE drawn == Draw(qty, rem, Present)
<1>1. DOMAIN drawn = Lots /\ \A l \in Lots \ Present : drawn[l] = 0
  BY DEF Draw
<1>2. ASSUME NEW k \in 1..Len(lots)
      PROVE  /\ drawn[lots[k]] = Least(rem[lots[k]], Positive(qty - Total(rem, First(k - 1))))
             /\ drawn[lots[k]] \in Nat /\ drawn[lots[k]] <= rem[lots[k]]
  <2>1. lots[k] \in Present /\ lots[k] \in Lots /\ Present \cap Older(lots[k]) = First(k - 1)
    BY FirstFacts, PresentIsLots
  <2>2. Positive(rem[lots[k]]) = rem[lots[k]] /\ rem[lots[k]] \in Nat
    BY <2>1 DEF Positive
  <2>3. drawn[lots[k]] = Least(rem[lots[k]], Positive(qty - Total(rem, First(k - 1))))
    BY <2>1, <2>2 DEF Draw
  <2>4. Total(rem, First(k - 1)) \in Nat
    BY TotalNext
  <2>. HIDE DEF drawn
  <2>. QED
    BY <2>2, <2>3, <2>4 DEF Least, Positive
<1>3. \A l \in Present : \E k \in 1..Len(lots) : l = lots[k]
  BY DEF Present, StoreTypeOK
<1>. HIDE DEF drawn
<1>4. \A l \in Lots : drawn[l] \in Nat /\ drawn[l] <= rem[l]
  BY <1>1, <1>2, <1>3
<1>. QED
  BY <1>1, <1>2, <1>4 DEF drawn

\* The whole quantity is drawn, as far as the deliveries go.
LEMMA DrawnInAll ==
  ASSUME StoreTypeOK, LotsInOrder, NEW qty \in Nat, NEW rem, \A l \in Lots : rem[l] \in Nat
  PROVE  Total(Draw(qty, rem, Present), Present) = Least(qty, Total(rem, Present))
<1>. DEFINE drawn == Draw(qty, rem, Present)
            B == {k \in 0..Len(lots) : Total(drawn, First(k)) # Least(qty, Total(rem, First(k)))}
<1>0. Len(lots) \in Nat /\ First(0) = {} /\ First(Len(lots)) = Present
  BY FirstFacts
<1>1. \A l \in Lots : drawn[l] \in Nat
  BY DrawnFrom
<1>2. \A k \in 1..Len(lots) :
        drawn[lots[k]] = Least(rem[lots[k]], Positive(qty - Total(rem, First(k - 1))))
  BY DrawnFrom
<1>. HIDE DEF drawn
<1>3. B = {}
  <2>. SUFFICES ASSUME B # {} PROVE FALSE
    OBVIOUS
  <2>1. PICK m \in B : \A k \in B : m <= k
    <3>1. B \in SUBSET Nat
      BY <1>0
    <3>. HIDE DEF B
    <3>. QED
      BY <3>1, LeastNat
  <2>2. m # 0
    <3>1. Total(drawn, {}) = 0 /\ Total(rem, {}) = 0
      BY SumEmpty DEF Total
    <3>2. Least(qty, 0) = 0
      BY DEF Least
    <3>. QED
      BY <1>0, <3>1, <3>2
  <2>3. m \in 1..Len(lots) /\ m - 1 \in 0..Len(lots) /\ m - 1 \notin B
    BY <1>0, <2>1, <2>2
  <2>4. Total(drawn, First(m - 1)) = Least(qty, Total(rem, First(m - 1)))
    BY <2>3
  <2>5. /\ Total(rem, First(m)) = Total(rem, First(m - 1)) + rem[lots[m]]
        /\ Total(rem, First(m - 1)) \in Nat
    BY <2>3, TotalNext
  <2>6. Total(drawn, First(m)) = Total(drawn, First(m - 1)) + drawn[lots[m]]
    BY <1>1, <2>3, TotalNext
  <2>7. rem[lots[m]] \in Nat
    BY <2>3, FirstFacts, PresentIsLots
  <2>8. drawn[lots[m]] = Least(rem[lots[m]], Positive(qty - Total(rem, First(m - 1))))
    BY <1>2, <2>3
  <2>9. Total(drawn, First(m)) = Least(qty, Total(rem, First(m)))
    BY ONLY qty \in Nat, <2>4, <2>5, <2>6, <2>7, <2>8 DEF Least, Positive
  <2>. QED
    BY <2>1, <2>9
<1>4. Len(lots) \notin B /\ Len(lots) \in 0..Len(lots)
  BY <1>0, <1>3
<1>. QED
  BY <1>0, <1>4 DEF drawn

\* Who draws from a delivery empties the older ones.
LEMMA OlderEmptied ==
  ASSUME StoreTypeOK, LotsInOrder, NEW qty \in Nat, NEW rem, \A l \in Lots : rem[l] \in Nat,
         NEW l \in Present, Draw(qty, rem, Present)[l] > 0, NEW o \in Older(l)
  PROVE  o \in Lots /\ Draw(qty, rem, Present)[o] = rem[o]
<1>. DEFINE drawn == Draw(qty, rem, Present)
<1>0. Len(lots) \in Nat /\ DOMAIN lots = 1..Len(lots)
  BY FirstFacts DEF StoreTypeOK
<1>1. PICK k \in 1..Len(lots) : lots[k] = l
  BY <1>0 DEF Present
<1>2. Older(l) = First(k - 1)
  BY <1>1, FirstFacts
<1>3. PICK j \in 1..(k - 1) : lots[j] = o
  BY <1>2 DEF First
<1>4. j \in 1..Len(lots) /\ j \in 0..Len(lots) /\ k - 1 \in 0..Len(lots) /\ j <= k - 1
  BY <1>0
<1>5. Total(rem, First(j)) <= Total(rem, First(k - 1))
  BY <1>4, TotalGrows
<1>6. Total(rem, First(j)) = Total(rem, First(j - 1)) + rem[o] /\ Total(rem, First(j - 1)) \in Nat
  BY <1>3, <1>4, TotalNext
<1>7. Total(rem, First(k - 1)) \in Nat
  BY <1>1, TotalNext
<1>8. o \in Lots /\ rem[o] \in Nat /\ rem[l] \in Nat
  BY <1>3, <1>4, FirstFacts, PresentIsLots
<1>9. drawn[o] = Least(rem[o], Positive(qty - Total(rem, First(j - 1))))
  BY <1>3, <1>4, DrawnFrom
<1>10. drawn[l] = Least(rem[l], Positive(qty - Total(rem, First(k - 1))))
  BY <1>1, DrawnFrom
<1>11. drawn[l] > 0
  OBVIOUS
<1>. HIDE DEF drawn
<1>12. drawn[o] = rem[o]
  BY ONLY qty \in Nat, <1>5, <1>6, <1>7, <1>8, <1>9, <1>10, <1>11 DEF Least, Positive
<1>. QED
  BY <1>8, <1>12 DEF drawn

-----------------------------------------------------------------------------
(***************************************************************************)
(* The Store: the uses a release records                                   *)
(***************************************************************************)
\* The recursion of g from b has values up to m.
Reaches(m, T, b, g) ==
  \E F \in [0..m -> T] : F[0] = b /\ \A k \in 1..m : F[k] = g[<<k, F[k - 1]>>]

\* A recursion over 1..n that stays in a set T has a value at every step.
LEMMA StepsExist ==
  ASSUME NEW n \in Nat, NEW T, NEW b \in T, NEW g \in [(1..n) \X T -> T]
  PROVE  Reaches(n, T, b, g)
<1>. DEFINE B == {m \in 0..n : ~ Reaches(m, T, b, g)}
<1>1. B = {}
  <2>. SUFFICES ASSUME B # {} PROVE FALSE
    OBVIOUS
  <2>1. PICK m \in B : \A k \in B : m <= k
    <3>1. B \in SUBSET Nat
      OBVIOUS
    <3>. HIDE DEF B
    <3>. QED
      BY <3>1, LeastNat
  <2>2. m # 0
    <3>. DEFINE F == [k \in 0..0 |-> b]
    <3>1. F \in [0..0 -> T] /\ F[0] = b /\ \A k \in 1..0 : F[k] = g[<<k, F[k - 1]>>]
      OBVIOUS
    <3>2. Reaches(0, T, b, g)
      BY <3>1 DEF Reaches
    <3>. QED
      BY <3>2
  <2>3. m \in 1..n /\ m - 1 \in 0..n
    BY <2>1, <2>2
  <2>4. m - 1 \notin B
    BY <2>1, <2>3
  <2>5. PICK F \in [0..(m - 1) -> T] : F[0] = b /\ \A k \in 1..(m - 1) : F[k] = g[<<k, F[k - 1]>>]
    BY <2>3, <2>4 DEF Reaches
  <2>. DEFINE G == [k \in 0..m |-> IF k = m THEN g[<<m, F[m - 1]>>] ELSE F[k]]
  <2>6. F[m - 1] \in T /\ g[<<m, F[m - 1]>>] \in T
    BY <2>3, <2>5
  <2>7. G \in [0..m -> T]
    BY <2>3, <2>5, <2>6
  <2>8. G[0] = b
    BY <2>3, <2>5
  <2>9. ASSUME NEW k \in 1..m PROVE G[k] = g[<<k, G[k - 1]>>]
    <3>1. k - 1 \in 0..m /\ k - 1 # m /\ k \in 0..m
      BY <2>3
    <3>2. G[k - 1] = F[k - 1]
      BY <3>1
    <3>3. CASE k = m
      BY <3>1, <3>2, <3>3
    <3>4. CASE k # m
      <4>1. k \in 1..(m - 1)
        BY <2>3, <3>4
      <4>2. G[k] = F[k]
        BY <3>1, <3>4
      <4>3. F[k] = g[<<k, F[k - 1]>>]
        BY <2>5, <4>1
      <4>. QED
        BY <3>2, <4>2, <4>3
    <3>. QED
      BY <3>3, <3>4
  <2>. HIDE DEF G
  <2>10. Reaches(m, T, b, g)
    BY <2>7, <2>8, <2>9 DEF Reaches
  <2>. QED
    BY <2>1, <2>10
<1>2. n \in 0..n
  OBVIOUS
<1>. QED
  BY <1>1, <1>2

\* The use a release of p records of the k-th delivery, and the uses then.
UseOf(p, drawn, k) == [slip |-> p, lot |-> lots[k], qty |-> drawn[lots[k]], arrived |-> Present]
LogUse(us, p, drawn, k) == IF drawn[lots[k]] > 0 THEN Append(us, UseOf(p, drawn, k)) ELSE us

\* The uses us are those there were and the ones of the first k deliveries.
Logged(us, p, drawn, k) ==
  /\ us \in Seq(Uses) /\ Len(us) >= Len(uses)
  /\ \A i \in 1..Len(uses) : us[i] = uses[i]
  /\ \A i \in (Len(uses) + 1)..Len(us) : us[i].slip = p /\ us[i].lot \in Present /\ drawn[us[i].lot] > 0
  /\ \A l \in Lots : TakenFrom(us, l) = TakenFrom(uses, l) + (IF l \in First(k) THEN drawn[l] ELSE 0)
  /\ \A q : TakenFor(us, q) = TakenFor(uses, q) + (IF q = p THEN Total(drawn, First(k)) ELSE 0)

\* Before the first delivery, nothing was recorded.
LEMMA NothingLogged ==
  ASSUME StoreTypeOK, LotsInOrder, NEW p, NEW drawn
  PROVE  Logged(uses, p, drawn, 0)
<1>1. uses \in Seq(Uses) /\ Len(uses) \in Nat
  BY DEF StoreTypeOK
<1>2. First(0) = {} /\ Total(drawn, First(0)) = 0
  BY FirstFacts, SumEmpty DEF Total
<1>3. /\ \A l : TakenFrom(uses, l) \in Nat
      /\ \A q : TakenFor(uses, q) \in Nat
  BY <1>1, TakenNat
<1>. QED
  BY <1>1, <1>2, <1>3 DEF Logged

\* The k-th step of the recording.
LEMMA OneLogged ==
  ASSUME StoreTypeOK, LotsInOrder, NEW p \in Slips, NEW drawn, \A l \in Lots : drawn[l] \in 0..MaxQty,
         NEW k \in 1..Len(lots), NEW us, Logged(us, p, drawn, k - 1)
  PROVE  Logged(LogUse(us, p, drawn, k), p, drawn, k)
<1>1. /\ First(k) = First(k - 1) \cup {lots[k]} /\ lots[k] \notin First(k - 1)
      /\ lots[k] \in Present /\ lots[k] \in Lots
  BY FirstFacts, PresentIsLots
<1>2. \A l \in Lots : drawn[l] \in Nat
  BY QtyAssumption
<1>3. /\ Total(drawn, First(k)) = Total(drawn, First(k - 1)) + drawn[lots[k]]
      /\ Total(drawn, First(k - 1)) \in Nat
  BY <1>2, TotalNext
<1>4. us \in Seq(Uses) /\ Len(us) \in Nat /\ Len(uses) \in Nat /\ uses \in Seq(Uses)
  BY DEF Logged, StoreTypeOK
<1>5. CASE drawn[lots[k]] > 0
  <2>. DEFINE use == UseOf(p, drawn, k)
              more == Append(us, use)
  <2>1. /\ use \in Uses /\ use.slip = p /\ use.lot = lots[k] /\ use.qty = drawn[lots[k]]
        /\ Source(use) = lots[k]
    <3>1. drawn[lots[k]] \in 1..MaxQty
      BY <1>1, <1>5, QtyAssumption
    <3>2. Present \in SUBSET Lots /\ lots[k] # NoLot
      BY <1>1, PresentIsLots, Names
    <3>. QED
      BY <1>1, <3>1, <3>2 DEF UseOf, Uses, Source
  <2>. HIDE DEF use
  <2>2. LogUse(us, p, drawn, k) = more
    BY <1>5 DEF LogUse, use
  <2>3. /\ more \in Seq(Uses) /\ Len(more) = Len(us) + 1
        /\ (\A i \in 1..Len(us) : more[i] = us[i]) /\ more[Len(us) + 1] = use
    BY <1>4, <2>1
  <2>4. /\ \A l : TakenFrom(more, l) = TakenFrom(us, l) + (IF Source(use) = l THEN use.qty ELSE 0)
        /\ \A q : TakenFor(more, q) = TakenFor(us, q) + (IF use.slip = q THEN use.qty ELSE 0)
    BY <1>4, <2>1, OneMoreUse
  <2>. HIDE DEF more
  <2>5. /\ \A l : TakenFrom(uses, l) \in Nat
        /\ \A q : TakenFor(uses, q) \in Nat
    BY <1>4, TakenNat
  <2>6. Len(more) >= Len(uses) /\ \A i \in 1..Len(uses) : more[i] = uses[i]
    BY <1>4, <2>3 DEF Logged
  <2>7. \A i \in (Len(uses) + 1)..Len(more) : more[i].slip = p /\ more[i].lot \in Present /\ drawn[more[i].lot] > 0
    <3>. TAKE i \in (Len(uses) + 1)..Len(more)
    <3>1. CASE i = Len(us) + 1
      BY <1>1, <1>5, <2>1, <2>3, <3>1
    <3>2. CASE i # Len(us) + 1
      <4>1. i \in (Len(uses) + 1)..Len(us) /\ i \in 1..Len(us)
        BY <1>4, <2>3, <3>2
      <4>. QED
        BY <2>3, <4>1 DEF Logged
    <3>. QED
      BY <3>1, <3>2
  <2>8. \A l \in Lots : TakenFrom(more, l) = TakenFrom(uses, l) + (IF l \in First(k) THEN drawn[l] ELSE 0)
    <3>. TAKE l \in Lots
    <3>1. TakenFrom(us, l) = TakenFrom(uses, l) + (IF l \in First(k - 1) THEN drawn[l] ELSE 0)
      BY DEF Logged
    <3>2. TakenFrom(more, l) = TakenFrom(us, l) + (IF l = lots[k] THEN drawn[l] ELSE 0)
      BY <2>1, <2>4
    <3>. QED
      BY <1>1, <1>2, <2>5, <3>1, <3>2
  <2>9. \A q : TakenFor(more, q) = TakenFor(uses, q) + (IF q = p THEN Total(drawn, First(k)) ELSE 0)
    <3>. TAKE q
    <3>1. TakenFor(us, q) = TakenFor(uses, q) + (IF q = p THEN Total(drawn, First(k - 1)) ELSE 0)
      BY DEF Logged
    <3>2. TakenFor(more, q) = TakenFor(us, q) + (IF q = p THEN drawn[lots[k]] ELSE 0)
      BY <2>1, <2>4
    <3>. QED
      BY <1>1, <1>2, <1>3, <2>5, <3>1, <3>2
  <2>. QED
    BY <2>2, <2>3, <2>6, <2>7, <2>8, <2>9 DEF Logged
<1>6. CASE ~(drawn[lots[k]] > 0)
  <2>1. drawn[lots[k]] = 0 /\ LogUse(us, p, drawn, k) = us
    BY <1>1, <1>2, <1>6 DEF LogUse
  <2>2. \A l \in Lots : (IF l \in First(k) THEN drawn[l] ELSE 0) = (IF l \in First(k - 1) THEN drawn[l] ELSE 0)
    BY <1>1, <2>1
  <2>3. Total(drawn, First(k)) = Total(drawn, First(k - 1))
    BY <1>3, <2>1
  <2>. QED
    BY <2>1, <2>2, <2>3 DEF Logged
<1>. QED
  BY <1>5, <1>6

\* The recursion of UsesWith, and its solution.
LogGraph(p, drawn) ==
  CHOOSE F : F = [k \in 0..Len(lots) |-> IF k = 0 THEN uses ELSE LogUse(F[k - 1], p, drawn, k)]

\* When nothing is short, the uses recorded are the last value of the recursion.
LEMMA UsesWithUnfolds ==
  ASSUME NEW p, NEW drawn, want[p] - Total(drawn, Present) = 0
  PROVE  UsesWith(p, drawn) = LogGraph(p, drawn)[Len(lots)]
<1>1. ~(want[p] - Total(drawn, Present) > 0)
  OBVIOUS
<1>. QED
  BY <1>1 DEF UsesWith, LogGraph, LogUse, UseOf

\* The recursion has a solution, so it has the values its equation says.
LEMMA LogGraphRuns ==
  ASSUME StoreTypeOK, LotsInOrder, NEW p \in Slips, NEW drawn, \A l \in Lots : drawn[l] \in 0..MaxQty
  PROVE  /\ LogGraph(p, drawn)[0] = uses
         /\ \A k \in 1..Len(lots) :
              LogGraph(p, drawn)[k] = LogUse(LogGraph(p, drawn)[k - 1], p, drawn, k)
<1>. DEFINE n == Len(lots)
            g == [x \in (1..n) \X Seq(Uses) |-> LogUse(x[2], p, drawn, x[1])]
<1>1. n \in Nat /\ uses \in Seq(Uses)
  BY DEF StoreTypeOK
<1>2. ASSUME NEW k \in 1..n, NEW us \in Seq(Uses)
      PROVE  LogUse(us, p, drawn, k) \in Seq(Uses)
  <2>1. lots[k] \in Lots /\ lots[k] \in Present /\ Present \in SUBSET Lots
    BY FirstFacts, PresentIsLots
  <2>2. CASE drawn[lots[k]] > 0
    <3>1. drawn[lots[k]] \in 1..MaxQty
      BY <2>1, <2>2, QtyAssumption
    <3>2. UseOf(p, drawn, k) \in Uses
      BY <2>1, <3>1 DEF UseOf, Uses
    <3>. QED
      BY <2>2, <3>2 DEF LogUse
  <2>3. CASE ~(drawn[lots[k]] > 0)
    BY <2>3 DEF LogUse
  <2>. QED
    BY <2>2, <2>3
<1>3. g \in [(1..n) \X Seq(Uses) -> Seq(Uses)]
  BY <1>2
<1>4. \A k \in 1..n, us \in Seq(Uses) : g[<<k, us>>] = LogUse(us, p, drawn, k)
  OBVIOUS
<1>. HIDE DEF n, g
<1>5. PICK F \in [0..n -> Seq(Uses)] : F[0] = uses /\ \A k \in 1..n : F[k] = g[<<k, F[k - 1]>>]
  <2>1. Reaches(n, Seq(Uses), uses, g)
    BY ONLY <1>1, <1>3, StepsExist
  <2>. QED
    BY <2>1 DEF Reaches
<1>6. \A k \in 1..n : F[k] = LogUse(F[k - 1], p, drawn, k)
  <2>. TAKE k \in 1..n
  <2>1. k - 1 \in 0..n
    BY <1>1
  <2>2. F[k - 1] \in Seq(Uses)
    BY <1>5, <2>1
  <2>. QED
    BY <1>4, <1>5, <2>2
<1>7. F = [k \in 0..n |-> IF k = 0 THEN uses ELSE LogUse(F[k - 1], p, drawn, k)]
  <2>1. \A k \in 0..n : F[k] = IF k = 0 THEN uses ELSE LogUse(F[k - 1], p, drawn, k)
    BY <1>1, <1>5, <1>6
  <2>2. F = [k \in 0..n |-> F[k]]
    BY <1>5
  <2>. QED
    BY <2>1, <2>2
<1>. DEFINE L == LogGraph(p, drawn)
<1>8. L = [k \in 0..n |-> IF k = 0 THEN uses ELSE LogUse(L[k - 1], p, drawn, k)]
  BY <1>7 DEF LogGraph, n
<1>. HIDE DEF L
<1>9. L[0] = uses /\ \A k \in 1..n : L[k] = LogUse(L[k - 1], p, drawn, k)
  <2>1. 0 \in 0..n /\ \A k \in 1..n : k \in 0..n /\ k # 0
    BY <1>1
  <2>. QED
    BY <1>8, <2>1
<1>. QED
  BY <1>9 DEF L, n

\* All that a release records.
LEMMA ReleaseLogged ==
  ASSUME StoreTypeOK, LotsInOrder, NEW p \in Slips, NEW drawn, \A l \in Lots : drawn[l] \in 0..MaxQty,
         want[p] = Total(drawn, Present)
  PROVE  Logged(UsesWith(p, drawn), p, drawn, Len(lots))
<1>. DEFINE L == LogGraph(p, drawn)
            B == {k \in 0..Len(lots) : ~ Logged(L[k], p, drawn, k)}
<1>1. Len(lots) \in Nat
  BY FirstFacts
<1>2. L[0] = uses /\ \A k \in 1..Len(lots) : L[k] = LogUse(L[k - 1], p, drawn, k)
  BY LogGraphRuns
<1>. HIDE DEF L
<1>3. B = {}
  <2>. SUFFICES ASSUME B # {} PROVE FALSE
    OBVIOUS
  <2>1. PICK m \in B : \A k \in B : m <= k
    <3>1. B \in SUBSET Nat
      BY <1>1
    <3>. HIDE DEF B
    <3>. QED
      BY <3>1, LeastNat
  <2>2. m # 0
    BY <1>2, NothingLogged
  <2>3. m \in 1..Len(lots) /\ m - 1 \in 0..Len(lots)
    BY <1>1, <2>1, <2>2
  <2>4. m - 1 \notin B
    BY <2>1, <2>3
  <2>5. Logged(L[m - 1], p, drawn, m - 1)
    BY <2>3, <2>4
  <2>6. Logged(LogUse(L[m - 1], p, drawn, m), p, drawn, m)
    BY <2>3, <2>5, OneLogged
  <2>7. Logged(L[m], p, drawn, m)
    BY <1>2, <2>3, <2>6
  <2>. QED
    BY <2>1, <2>7
<1>4. Logged(L[Len(lots)], p, drawn, Len(lots))
  <2>1. Len(lots) \in 0..Len(lots)
    BY <1>1
  <2>. QED
    BY <1>3, <2>1
<1>5. want[p] - Total(drawn, Present) = 0
  <2>1. want[p] \in Int
    BY QtyAssumption DEF StoreTypeOK
  <2>. QED
    BY <2>1
<1>. QED
  BY <1>4, <1>5, UsesWithUnfolds DEF L

-----------------------------------------------------------------------------
(***************************************************************************)
(* The Store: what is on the shelf, without replaying                      *)
(***************************************************************************)
Records  == StoreTypeOK /\ UsesNamed /\ LotsInOrder /\ NothingOverdrawn
OnShelf  == IF tracking = "SERIALIZED" THEN Cardinality(InStock) ELSE SumFunction([l \in Lots |-> Holds(l)])
Asked    == [p \in Slips |-> IF slip[p] = "APPROVED" THEN want[p] ELSE 0]
Promised == SumFunction(Asked)

\* What each delivery still holds, stored or replayed.
LEMMA RemainingIs ==
  Records /\ tracking # "SERIALIZED" => Remaining = [l \in Lots |-> Holds(l)]
<1>. SUFFICES ASSUME Records, tracking # "SERIALIZED" PROVE Remaining = [l \in Lots |-> Holds(l)]
  OBVIOUS
<1>1. CASE tracking = "BATCH"
  BY <1>1 DEF Remaining, Records, NothingOverdrawn
<1>2. CASE tracking # "BATCH"
  BY <1>2, ReplayIsHolds DEF Remaining, Records
<1>. QED
  BY <1>1, <1>2

\* The same in the next state.
LEMMA RemainingIsNext ==
  (Records /\ tracking # "SERIALIZED" => Remaining = [l \in Lots |-> Holds(l)])'
BY RemainingIs, PTL

\* The shelf and the records agree, said without replaying.
LEMMA ShelfIs ==
  Records => (ShelfMatchesRecords <=>
                quantityOnHand = OnShelf /\ quantityReserved = Promised /\ quantityReserved <= quantityOnHand)
BY RemainingIs DEF ShelfMatchesRecords, OnShelf, Promised, Asked

\* The same in the next state.
LEMMA ShelfIsNext ==
  (Records => (ShelfMatchesRecords <=>
                 quantityOnHand = OnShelf /\ quantityReserved = Promised /\ quantityReserved <= quantityOnHand))'
BY ShelfIs, PTL

-----------------------------------------------------------------------------
(***************************************************************************)
(* The Store: steps that leave the records alone                           *)
(***************************************************************************)
LEMMA RequestTyped ==
  ASSUME NEW w \in StoreRequests
  PROVE  /\ w.op = "receive" => w.form \in Forms /\ w.qty \in 1..MaxQty /\ w.units \in SUBSET Serials
         /\ w.op = "open" => w.qty \in 1..MaxQty /\ w.units \in SUBSET Serials
         /\ w.op = "release" => w.slip \in Slips /\ w.units \in SUBSET Serials
<1>1. CASE w = Idle
  BY <1>1 DEF Idle
<1>2. CASE w \in [op : {"receive"}, form : Forms, qty : 1..MaxQty, units : SUBSET Serials]
  BY <1>2
<1>3. CASE w \in [op : {"open"}, qty : 1..MaxQty, units : SUBSET Serials]
  BY <1>3
<1>4. CASE w \in [op : {"release"}, slip : Slips, units : SUBSET Serials]
  BY <1>4
<1>. QED
  BY <1>1, <1>2, <1>3, <1>4, Zenon DEF StoreRequests

\* Having nothing in flight.
LEMMA IdleRequest == Idle \in StoreRequests /\ Idle.op = "idle"
BY DEF Idle, StoreRequests

\* What approved requests ask for are naturals.
LEMMA AskedNat ==
  StoreTypeOK => DOMAIN Asked = Slips /\ \A p \in Slips : Asked[p] \in Nat
BY QtyAssumption DEF StoreTypeOK, Asked

StoreKept == UNCHANGED <<tracking, partStock, records, slip, want>>

\* Records and requests stay; only what is in flight changes.
LEMMA QuietKeeps ==
  ASSUME StoreInv, StoreKept,
         doing' \in [Staff -> StoreRequests], OneImport', UnitsChosen'
  PROVE  StoreInv'
<1>1. UNCHANGED <<tracking, quantityOnHand, quantityReserved, lots, received, left, uses, unitOf, issuedTo, slip, want>>
  BY DEF StoreKept, partStock, records
<1>2. StoreTypeOK'
  BY <1>1 DEF StoreInv, StoreTypeOK
<1>3. Present' = Present /\ \A l : Holds(l)' = Holds(l)
  BY <1>1 DEF Present, Holds
<1>4. UsesNamed' /\ LotsInOrder' /\ NothingOverdrawn'
  BY <1>1, <1>3 DEF StoreInv, UsesNamed, LotsInOrder, NothingOverdrawn
<1>5. UnitsTracked'
  BY <1>1 DEF StoreInv, UnitsTracked, UnitsOf
<1>6. ReleasesAreTraced'
  BY <1>1, <1>3 DEF StoreInv, ReleasesAreTraced
<1>7. OnShelf' = OnShelf /\ Promised' = Promised
  BY <1>1, <1>3 DEF OnShelf, InStock, Promised, Asked
<1>8. ShelfMatchesRecords'
  <2>1. Records /\ Records'
    BY <1>2, <1>4 DEF StoreInv, Records
  <2>. QED
    BY <1>1, <1>7, <2>1, ShelfIs, ShelfIsNext DEF StoreInv
<1>. QED
  BY <1>2, <1>4, <1>5, <1>6, <1>8 DEF StoreInv

\* What a request that starts has checked.
Starts(w) ==
  /\ w.op = "open" => ~ Importing /\ Opening \notin Present
  /\ w.op = "release" =>
       IF tracking = "SERIALIZED" THEN Cardinality(w.units) = want[w.slip] ELSE w.units = {}

\* A request that starts, having checked what it must, changes no record.
LEMMA RequestStarts ==
  ASSUME StoreInv, StoreKept,
         NEW u \in Staff, NEW w \in StoreRequests, Starts(w), doing' = [doing EXCEPT ![u] = w]
  PROVE  StoreInv'
<1>1. doing \in [Staff -> StoreRequests] /\ doing' \in [Staff -> StoreRequests]
  BY DEF StoreInv, StoreTypeOK
<1>2. \A v \in Staff : doing'[v] = IF v = u THEN w ELSE doing[v]
  BY <1>1
<1>3. Present' = Present
  BY DEF StoreKept, Present, records
<1>4. \A v \in Staff : doing[v].op = "open" => Importing
  BY IdleRequest DEF Importing
<1>5. OneImport'
  <2>1. \A v, x \in Staff : doing'[v].op = "open" /\ doing'[x].op = "open" => v = x
    BY <1>2, <1>4 DEF StoreInv, OneImport, Starts
  <2>2. Importing' => Opening \notin Present
    <3>1. ASSUME NEW v \in Staff, doing'[v].op = "open" PROVE Opening \notin Present
      BY <1>2, <1>4, <3>1 DEF StoreInv, OneImport, Starts
    <3>. QED
      BY <3>1 DEF Importing
  <2>. QED
    BY <1>3, <2>1, <2>2 DEF OneImport
<1>6. UnitsChosen'
  <2>1. UNCHANGED <<tracking, want>>
    BY DEF StoreKept
  <2>. QED
    BY <1>2, <2>1 DEF StoreInv, UnitsChosen, Starts
<1>. QED
  BY <1>1, <1>5, <1>6, QuietKeeps

\* recordGoodsReceipt, before its transaction.
LEMMA ReadForReceiptKeeps ==
  ASSUME StoreInv, NEW u \in Staff, NEW f \in Forms, NEW qty \in 1..MaxQty, NEW units \in SUBSET Serials,
         ReadForReceipt(u, f, qty, units)
  PROVE  StoreInv'
<1>. DEFINE w == [op |-> "receive", form |-> f, qty |-> qty, units |-> units]
<1>1. w \in StoreRequests /\ w.op = "receive"
  BY DEF StoreRequests
<1>2. doing' = [doing EXCEPT ![u] = w] /\ StoreKept
  BY DEF StoreKept, ReadForReceipt, Start
<1>. HIDE DEF w
<1>3. Starts(w)
  BY <1>1 DEF Starts
<1>. QED
  BY <1>1, <1>2, <1>3, RequestStarts

\* releasePartRequestSlip, before its transaction.
LEMMA ReadForReleaseKeeps ==
  ASSUME StoreInv, NEW u \in Staff, NEW p \in Slips, NEW units \in SUBSET Serials,
         ReadForRelease(u, p, units)
  PROVE  StoreInv'
<1>. DEFINE w == [op |-> "release", slip |-> p, units |-> units]
<1>1. w \in StoreRequests /\ w.op = "release" /\ w.slip = p /\ w.units = units
  BY DEF StoreRequests
<1>2. /\ doing' = [doing EXCEPT ![u] = w] /\ StoreKept
      /\ IF tracking = "SERIALIZED" THEN Cardinality(units) = want[p] ELSE units = {}
  BY DEF StoreKept, ReadForRelease, Start
<1>. HIDE DEF w
<1>3. Starts(w)
  BY <1>1, <1>2 DEF Starts
<1>. QED
  BY <1>1, <1>2, <1>3, RequestStarts

\* loadStock, as it starts.
LEMMA ReadForOpeningKeeps ==
  ASSUME StoreInv, NEW u \in Staff, NEW qty \in 1..MaxQty, NEW units \in SUBSET Serials,
         ReadForOpening(u, qty, units)
  PROVE  StoreInv'
<1>. DEFINE w == [op |-> "open", qty |-> qty, units |-> units]
<1>1. w \in StoreRequests /\ w.op = "open"
  BY DEF StoreRequests
<1>2. doing' = [doing EXCEPT ![u] = w] /\ StoreKept
  BY DEF StoreKept, ReadForOpening, Start
<1>3. ~ Importing /\ Opening \notin Present
  BY DEF ReadForOpening, NoHistory, Present
<1>. HIDE DEF w
<1>4. Starts(w)
  BY <1>1, <1>3 DEF Starts
<1>. QED
  BY <1>1, <1>2, <1>4, RequestStarts

\* A refusal, a rollback or a lost server.
LEMMA GiveUpAtStoreKeeps ==
  ASSUME StoreInv, NEW u \in Staff, GiveUpAtStore(u)
  PROVE  StoreInv'
<1>1. doing' = [doing EXCEPT ![u] = Idle] /\ StoreKept
  BY DEF StoreKept, GiveUpAtStore, Done
<1>2. Starts(Idle)
  BY IdleRequest DEF Starts
<1>. QED
  BY <1>1, <1>2, IdleRequest, RequestStarts

\* A request is approved or withdrawn: only what is promised changes.
LEMMA PromiseKeeps ==
  ASSUME StoreInv, UNCHANGED <<tracking, quantityOnHand, records, want, doing>>,
         NEW p \in Slips, NEW s \in {"APPROVED", "WITHDRAWN"}, slip' = [slip EXCEPT ![p] = s],
         slip[p] # "RELEASED", quantityReserved' = Promised', quantityReserved' <= quantityOnHand
  PROVE  StoreInv'
<1>1. UNCHANGED <<tracking, quantityOnHand, lots, received, left, uses, unitOf, issuedTo, want, doing>>
  BY DEF records
<1>2. slip' \in [Slips -> {"PENDING", "APPROVED", "RELEASED", "WITHDRAWN"}]
  BY DEF StoreInv, StoreTypeOK
<1>3. Promised' \in Nat
  <2>1. \A q \in Slips : Asked'[q] \in Nat
    BY <1>1, <1>2, QtyAssumption DEF Asked, StoreInv, StoreTypeOK
  <2>2. DOMAIN Asked' = Slips
    BY DEF Asked
  <2>3. SumFunctionOnSet(Asked', Slips) \in Nat
    BY <2>1, Names, SumNat
  <2>. QED
    BY <2>2, <2>3 DEF Promised, SumFunction
<1>4. StoreTypeOK'
  BY <1>1, <1>2, <1>3 DEF StoreInv, StoreTypeOK
<1>5. Present' = Present /\ \A l : Holds(l)' = Holds(l)
  BY <1>1 DEF Present, Holds
<1>6. UsesNamed' /\ LotsInOrder' /\ NothingOverdrawn'
  BY <1>1, <1>5 DEF StoreInv, UsesNamed, LotsInOrder, NothingOverdrawn
<1>7. UnitsTracked'
  BY <1>1 DEF StoreInv, UnitsTracked, UnitsOf
<1>8. \A q \in Slips : (IF slip'[q] = "RELEASED" THEN want'[q] ELSE 0) = (IF slip[q] = "RELEASED" THEN want[q] ELSE 0)
  BY <1>1 DEF StoreInv, StoreTypeOK
<1>9. ReleasesAreTraced'
  BY <1>1, <1>5, <1>8 DEF StoreInv, ReleasesAreTraced
<1>10. OneImport' /\ UnitsChosen'
  BY <1>1, <1>5 DEF StoreInv, OneImport, Importing, UnitsChosen
<1>11. OnShelf' = OnShelf
  BY <1>1, <1>5 DEF OnShelf, InStock
<1>12. ShelfMatchesRecords'
  <2>1. Records /\ Records'
    BY <1>4, <1>6 DEF StoreInv, Records
  <2>. QED
    BY <1>1, <1>11, <2>1, ShelfIs, ShelfIsNext DEF StoreInv
<1>. QED
  BY <1>4, <1>6, <1>7, <1>9, <1>10, <1>12 DEF StoreInv

\* approvePartRequestSlip promises what is there.
LEMMA ApproveKeeps ==
  ASSUME StoreInv, NEW p \in Slips, Approve(p)
  PROVE  StoreInv'
<1>1. /\ slip[p] = "PENDING" /\ slip' = [slip EXCEPT ![p] = "APPROVED"]
      /\ quantityOnHand - quantityReserved >= want[p]
      /\ quantityReserved' = quantityReserved + want[p]
      /\ UNCHANGED <<tracking, quantityOnHand, records, want, doing>>
  BY DEF Approve
<1>2. quantityReserved = Promised
  BY ShelfIs DEF StoreInv, Records
<1>3. quantityOnHand \in Nat /\ quantityReserved \in Nat /\ want[p] \in Nat /\ slip \in [Slips -> {"PENDING", "APPROVED", "RELEASED", "WITHDRAWN"}]
  BY QtyAssumption DEF StoreInv, StoreTypeOK
<1>4. /\ DOMAIN Asked = Slips /\ DOMAIN Asked' = Slips
      /\ \A q \in Slips : Asked[q] \in Nat /\ Asked'[q] \in Nat
      /\ \A q \in Slips \ {p} : Asked[q] = Asked'[q]
      /\ Asked[p] = 0 /\ Asked'[p] = want[p]
  BY <1>1, <1>3, QtyAssumption DEF Asked, StoreInv, StoreTypeOK
<1>5. Promised' = Promised + want[p]
  <2>1. SumFunction(Asked') = SumFunction(Asked) - Asked[p] + Asked'[p] /\ SumFunction(Asked) \in Nat
    BY <1>4, Names, SumChanges
  <2>. QED
    BY <1>3, <1>4, <2>1 DEF Promised
<1>6. quantityReserved' = Promised' /\ quantityReserved' <= quantityOnHand
  BY <1>1, <1>2, <1>3, <1>5
<1>. QED
  BY <1>1, <1>6, PromiseKeeps

\* withdrawOpenSourcing gives back what was promised.
LEMMA WithdrawKeeps ==
  ASSUME StoreInv, NEW p \in Slips, Withdraw(p)
  PROVE  StoreInv'
<1>1. /\ slip[p] \in {"PENDING", "APPROVED"} /\ slip' = [slip EXCEPT ![p] = "WITHDRAWN"]
      /\ quantityReserved' = IF slip[p] = "APPROVED" THEN quantityReserved - want[p] ELSE quantityReserved
      /\ UNCHANGED <<tracking, quantityOnHand, records, want, doing>>
  BY DEF Withdraw
<1>2. quantityReserved = Promised /\ quantityReserved <= quantityOnHand
  BY ShelfIs DEF StoreInv, Records
<1>3. quantityOnHand \in Nat /\ quantityReserved \in Nat /\ want[p] \in Nat /\ slip \in [Slips -> {"PENDING", "APPROVED", "RELEASED", "WITHDRAWN"}]
  BY QtyAssumption DEF StoreInv, StoreTypeOK
<1>4. /\ DOMAIN Asked = Slips /\ DOMAIN Asked' = Slips
      /\ \A q \in Slips : Asked[q] \in Nat /\ Asked'[q] \in Nat
      /\ \A q \in Slips \ {p} : Asked[q] = Asked'[q]
      /\ Asked[p] = (IF slip[p] = "APPROVED" THEN want[p] ELSE 0) /\ Asked'[p] = 0
  BY <1>1, <1>3, QtyAssumption DEF Asked, StoreInv, StoreTypeOK
<1>5. Promised' = Promised - Asked[p]
  <2>1. SumFunction(Asked') = SumFunction(Asked) - Asked[p] + Asked'[p] /\ SumFunction(Asked) \in Nat
    BY <1>4, Names, SumChanges
  <2>. QED
    BY <1>3, <1>4, <2>1 DEF Promised
<1>6. quantityReserved' = Promised' /\ quantityReserved' <= quantityOnHand
  BY <1>1, <1>2, <1>3, <1>4, <1>5
<1>. QED
  BY <1>1, <1>6, PromiseKeeps

-----------------------------------------------------------------------------
(***************************************************************************)
(* The Store: a delivery arrives                                           *)
(***************************************************************************)
\* A use is of a delivery that is there.
LEMMA SourcePresent ==
  ASSUME StoreTypeOK, UsesNamed, NEW i \in DOMAIN uses
  PROVE  Source(uses[i]) \in Present
<1>1. CASE uses[i].lot # NoLot
  BY <1>1 DEF UsesNamed, Source
<1>2. CASE uses[i].lot = NoLot
  <2>1. PICK f \in Forms \cap Present : uses[i].arrived = {f}
    BY <1>2 DEF UsesNamed
  <2>. QED
    BY <1>2, <2>1, SourceIs
<1>. QED
  BY <1>1, <1>2

\* Nothing was brought by, or taken from, a delivery that is not there.
LEMMA NotThere ==
  ASSUME StoreTypeOK, UsesNamed, LotsInOrder, NEW n \in Lots \ Present
  PROVE  received[n] = 0 /\ TakenFrom(uses, n) = 0 /\ Holds(n) = 0
<1>1. \A i \in DOMAIN uses : Source(uses[i]) # n
  BY SourcePresent
<1>2. TakenFrom(uses, n) = 0
  BY <1>1, NoneTaken DEF StoreTypeOK
<1>. QED
  BY <1>2 DEF LotsInOrder, Holds

\* What a delivery holds is a number.
LEMMA HoldsInt ==
  StoreTypeOK => \A l \in Lots : Holds(l) \in Int /\ TakenFrom(uses, l) \in Nat /\ received[l] \in Nat
<1>. SUFFICES ASSUME StoreTypeOK, NEW l \in Lots
              PROVE  Holds(l) \in Int /\ TakenFrom(uses, l) \in Nat /\ received[l] \in Nat
  OBVIOUS
<1>1. TakenFrom(uses, l) \in Nat
  BY TakenNat DEF StoreTypeOK
<1>2. received[l] \in Nat
  BY QtyAssumption DEF StoreTypeOK
<1>. QED
  BY <1>1, <1>2 DEF Holds

\* What is in flight after a request is done with.
LEMMA DoneWith ==
  ASSUME StoreInv, NEW u \in Staff, doing' = [doing EXCEPT ![u] = Idle], UNCHANGED <<tracking, want>>
  PROVE  /\ doing' \in [Staff -> StoreRequests] /\ UnitsChosen'
         /\ \A v, x \in Staff : doing'[v].op = "open" /\ doing'[x].op = "open" => v = x
         /\ \A v \in Staff : doing'[v].op = "open" => doing[v].op = "open" /\ Opening \notin Present /\ v # u
<1>1. doing \in [Staff -> StoreRequests]
  BY DEF StoreInv, StoreTypeOK
<1>2. \A v \in Staff : doing'[v] = IF v = u THEN Idle ELSE doing[v]
  BY <1>1
<1>3. doing' \in [Staff -> StoreRequests]
  BY <1>1, IdleRequest
<1>4. UnitsChosen'
  BY <1>2, IdleRequest DEF StoreInv, UnitsChosen
<1>5. \A v \in Staff : doing[v].op = "open" => Importing
  BY IdleRequest DEF Importing
<1>6. \A v, x \in Staff : doing'[v].op = "open" /\ doing'[x].op = "open" => v = x
  BY <1>2, IdleRequest DEF StoreInv, OneImport
<1>7. \A v \in Staff : doing'[v].op = "open" => doing[v].op = "open" /\ Opening \notin Present /\ v # u
  BY <1>2, <1>5, IdleRequest DEF StoreInv, OneImport
<1>. QED
  BY <1>3, <1>4, <1>6, <1>7

\* A delivery that was not there arrives, in its place.
LEMMA ArrivalKeeps ==
  ASSUME StoreInv, NEW u \in Staff, NEW n \in Lots \ Present, NEW qty \in 1..MaxQty, NEW units \in SUBSET Serials,
         Deliverable(qty, units), Arrives(n, qty, units), doing' = [doing EXCEPT ![u] = Idle],
         lots' \in Seq(Lots), Present' = Present \cup {n}, LotsInOrder', OneImport'
  PROVE  StoreInv'
<1>1. /\ received' = [received EXCEPT ![n] = qty]
      /\ left' = [left EXCEPT ![n] = IF tracking = "BATCH" THEN qty ELSE 0]
      /\ unitOf' = [x \in Serials |-> IF x \in units THEN n ELSE unitOf[x]]
      /\ quantityOnHand' = quantityOnHand + qty
      /\ UNCHANGED <<tracking, quantityReserved, uses, issuedTo, slip, want>>
  BY DEF Arrives
<1>2. /\ StoreTypeOK /\ UsesNamed /\ LotsInOrder /\ n \in Lots /\ n \notin Present /\ n # NoLot
      /\ qty \in Nat /\ qty \in 0..MaxQty
  BY Names, QtyAssumption DEF StoreInv
<1>3. UnitsChosen' /\ doing' \in [Staff -> StoreRequests]
  BY <1>1, DoneWith
<1>4. StoreTypeOK'
  <2>1. received' \in [Lots -> 0..MaxQty] /\ left' \in [Lots -> 0..MaxQty]
    BY <1>1, <1>2, QtyAssumption DEF StoreTypeOK
  <2>2. unitOf' \in [Serials -> Lots \cup {NoLot}]
    BY <1>1, <1>2 DEF StoreTypeOK
  <2>3. quantityOnHand' \in Nat
    BY <1>1, <1>2 DEF StoreTypeOK
  <2>. QED
    BY <1>1, <1>2, <1>3, <2>1, <2>2, <2>3 DEF StoreTypeOK
<1>5. \A l \in Lots : received'[l] = IF l = n THEN qty ELSE received[l]
  BY <1>1, <1>2 DEF StoreTypeOK
<1>6. \A l \in Lots : Holds(l) \in Int /\ Holds(l)' = IF l = n THEN qty ELSE Holds(l)
  BY <1>1, <1>2, <1>5, NotThere, HoldsInt DEF Holds
<1>7. UsesNamed'
  <2>1. \A f \in Forms \cap Present : received'[f] = received[f]
    BY <1>2, <1>5, Names
  <2>. QED
    BY <1>1, <1>2, <2>1 DEF UsesNamed
<1>8. NothingOverdrawn'
  <2>1. tracking # "SERIALIZED" => \A l \in Lots : Holds(l)' >= 0
    BY <1>2, <1>6 DEF StoreInv, NothingOverdrawn
  <2>2. left' = [l \in Lots |-> IF tracking = "BATCH" THEN Holds(l)' ELSE 0]
    <3>1. left = [l \in Lots |-> IF tracking = "BATCH" THEN Holds(l) ELSE 0]
      BY DEF StoreInv, NothingOverdrawn
    <3>2. left' = [l \in Lots |-> IF l = n THEN (IF tracking = "BATCH" THEN qty ELSE 0) ELSE left[l]]
      BY <1>1, <3>1
    <3>. QED
      BY <1>6, <3>1, <3>2
  <2>. QED
    BY <1>1, <2>1, <2>2 DEF NothingOverdrawn
<1>9. /\ \A x \in units : unitOf[x] = NoLot /\ issuedTo[x] = NoSlip
      /\ tracking = "SERIALIZED" => Cardinality(units) = qty
      /\ tracking # "SERIALIZED" => units = {}
  BY DEF Deliverable, StoreInv, UnitsTracked
<1>10. UnitsTracked'
  <2>1. \A x \in Serials : unitOf'[x] = NoLot => issuedTo'[x] = NoSlip
    BY <1>1, <1>2 DEF StoreInv, UnitsTracked
  <2>2. ASSUME tracking = "SERIALIZED"
        PROVE  uses' = <<>> /\ \A l \in Lots : Cardinality(UnitsOf(l))' = received'[l]
    <3>1. uses = <<>> /\ \A l \in Lots : Cardinality(UnitsOf(l)) = received[l]
      BY <2>2 DEF StoreInv, UnitsTracked
    <3>2. \A l \in Lots \ {n} : UnitsOf(l)' = UnitsOf(l)
      BY <1>1, <1>9, Names DEF UnitsOf
    <3>3. UnitsOf(n)' = units
      <4>1. Cardinality(UnitsOf(n)) = 0
        BY <1>2, <3>1, NotThere
      <4>2. IsFiniteSet(UnitsOf(n))
        BY Names, FS_Subset DEF UnitsOf
      <4>3. UnitsOf(n) = {}
        BY <4>1, <4>2, FS_EmptySet
      <4>. QED
        BY <1>1, <4>3 DEF UnitsOf
    <3>. QED
      BY <1>1, <1>5, <1>9, <2>2, <3>1, <3>2, <3>3
  <2>3. ASSUME tracking # "SERIALIZED" PROVE \A x \in Serials : unitOf'[x] = NoLot
    BY <1>1, <1>9, <2>3 DEF StoreInv, UnitsTracked
  <2>. QED
    BY <1>1, <2>1, <2>2, <2>3 DEF UnitsTracked
<1>11. OnShelf' = OnShelf + qty
  <2>1. CASE tracking = "SERIALIZED"
    <3>1. InStock' = InStock \cup units /\ InStock \cap units = {}
      BY <1>1, <1>2, <1>9 DEF InStock
    <3>2. IsFiniteSet(InStock) /\ IsFiniteSet(units)
      BY Names, FS_Subset DEF InStock
    <3>3. Cardinality(InStock') = Cardinality(InStock) + Cardinality(units)
      <4>1. Cardinality(InStock \cap units) = 0
        BY <3>1, FS_EmptySet
      <4>2. Cardinality(InStock \cup units) = Cardinality(InStock) + Cardinality(units) - Cardinality(InStock \cap units)
        BY <3>2, FS_Union
      <4>3. Cardinality(InStock) \in Nat /\ Cardinality(units) \in Nat
        BY <3>2, FS_CardinalityType
      <4>. QED
        BY <3>1, <4>1, <4>2, <4>3
    <3>. QED
      BY <1>1, <1>9, <2>1, <3>3 DEF OnShelf
  <2>2. CASE tracking # "SERIALIZED"
    <3>. DEFINE f == [l \in Lots |-> Holds(l)]
                g == [l \in Lots |-> Holds(l)']
    <3>1. \A l \in Lots : f[l] \in Nat
      BY <1>6, <2>2 DEF StoreInv, NothingOverdrawn
    <3>2. \A l \in Lots : g[l] = IF l = n THEN qty ELSE f[l]
      BY <1>6
    <3>3. f[n] = 0
      BY <1>2, NotThere
    <3>4. DOMAIN f = Lots /\ DOMAIN g = Lots
      OBVIOUS
    <3>. HIDE DEF f, g
    <3>5. SumFunction(g) = SumFunction(f) - f[n] + g[n] /\ SumFunction(f) \in Nat
      <4>1. (\A l \in Lots : f[l] \in Nat /\ g[l] \in Nat) /\ \A l \in Lots \ {n} : f[l] = g[l]
        BY <1>2, <3>1, <3>2
      <4>2. n \in Lots /\ IsFiniteSet(Lots)
        BY <1>2, Names
      <4>. QED
        BY ONLY <3>4, <4>1, <4>2, SumChanges
    <3>6. SumFunction(g) = SumFunction(f) + qty
      BY <1>2, <3>2, <3>3, <3>5
    <3>. QED
      BY <1>1, <2>2, <3>6 DEF OnShelf, f, g
  <2>. QED
    BY <2>1, <2>2
<1>12. ShelfMatchesRecords'
  <2>1. Records /\ Records'
    BY <1>4, <1>7, <1>8 DEF StoreInv, Records
  <2>2. Promised' = Promised
    BY <1>1 DEF Promised, Asked
  <2>3. quantityOnHand = OnShelf /\ quantityReserved = Promised /\ quantityReserved <= quantityOnHand
    BY <2>1, ShelfIs DEF StoreInv
  <2>4. quantityReserved' <= quantityOnHand'
    BY <1>1, <1>2, <2>3 DEF StoreTypeOK
  <2>. QED
    BY <1>1, <1>11, <2>1, <2>2, <2>3, <2>4, ShelfIsNext
<1>13. ReleasesAreTraced'
  BY <1>1 DEF StoreInv, ReleasesAreTraced
<1>. QED
  BY <1>3, <1>4, <1>7, <1>8, <1>10, <1>12, <1>13 DEF StoreInv

\* A goods receipt comes last.
LEMMA SaveReceiptKeeps ==
  ASSUME StoreInv, NEW u \in Staff, SaveReceipt(u)
  PROVE  StoreInv'
<1>. DEFINE w == doing[u]
<1>1. /\ w.op = "receive" /\ w.form \notin Present /\ Deliverable(w.qty, w.units)
      /\ lots' = Append(lots, w.form) /\ Arrives(w.form, w.qty, w.units) /\ doing' = [doing EXCEPT ![u] = Idle]
  BY DEF SaveReceipt, KeyIsFree, Done
<1>2. w.form \in Forms /\ w.qty \in 1..MaxQty /\ w.units \in SUBSET Serials
  <2>1. w \in StoreRequests
    BY DEF StoreInv, StoreTypeOK
  <2>. HIDE DEF w
  <2>. QED
    BY <1>1, <2>1, RequestTyped
<1>. HIDE DEF w
<1>3. PICK f : f = w.form
  OBVIOUS
<1>4. f \in Lots \ Present /\ f # Opening
  BY <1>1, <1>2, <1>3, Names
<1>5. /\ lots \in Seq(Lots) /\ lots' \in Seq(Lots) /\ Len(lots) \in Nat
      /\ DOMAIN lots = 1..Len(lots) /\ DOMAIN lots' = 1..(Len(lots) + 1)
      /\ (\A i \in 1..Len(lots) : lots'[i] = lots[i]) /\ lots'[Len(lots) + 1] = f
  BY <1>1, <1>3, <1>4 DEF StoreInv, StoreTypeOK
<1>6. \A i \in 1..(Len(lots) + 1) : i = Len(lots) + 1 \/ i \in 1..Len(lots)
  BY <1>5
<1>7. Present' = Present \cup {f}
  <2>1. \A i \in 1..Len(lots) : i \in 1..(Len(lots) + 1)
    BY <1>5
  <2>2. Len(lots) + 1 \in 1..(Len(lots) + 1)
    BY <1>5
  <2>. QED
    BY <1>5, <1>6, <2>1, <2>2 DEF Present
<1>8. LotsInOrder'
  <2>1. \A i \in 1..Len(lots) : lots[i] # f
    BY <1>4, <1>5 DEF Present
  <2>2. \A i, j \in DOMAIN lots' : lots'[i] = lots'[j] => i = j
    BY <1>5, <1>6, <2>1 DEF StoreInv, LotsInOrder
  <2>3. Opening \in Present' => lots'[1] = Opening
    <3>1. ASSUME Opening \in Present PROVE lots'[1] = Opening
      <4>1. 1 \in 1..Len(lots) /\ lots[1] = Opening
        BY <1>5, <3>1 DEF StoreInv, LotsInOrder, Present
      <4>. QED
        BY <1>5, <4>1
    <3>. QED
      BY <1>4, <1>7, <3>1
  <2>4. \A l \in Lots \ Present' : received'[l] = 0
    <3>1. \A l \in Lots \ {f} : received'[l] = received[l]
      BY <1>1, <1>3 DEF Arrives, StoreInv, StoreTypeOK
    <3>. QED
      BY <1>7, <3>1 DEF StoreInv, LotsInOrder
  <2>. QED
    BY <2>2, <2>3, <2>4 DEF LotsInOrder
<1>9. OneImport'
  <2>1. UNCHANGED <<tracking, want>>
    BY <1>1 DEF Arrives
  <2>2. /\ \A v, x \in Staff : doing'[v].op = "open" /\ doing'[x].op = "open" => v = x
        /\ \A v \in Staff : doing'[v].op = "open" => Opening \notin Present
    BY <1>1, <2>1, DoneWith
  <2>. QED
    BY <1>4, <1>7, <2>2 DEF OneImport, Importing
<1>. QED
  BY <1>1, <1>2, <1>3, <1>4, <1>5, <1>7, <1>8, <1>9, ArrivalKeeps

\* The opening balance comes first, and its import was the only one.
LEMMA SaveOpeningKeeps ==
  ASSUME StoreInv, NEW u \in Staff, SaveOpening(u)
  PROVE  StoreInv'
<1>. DEFINE w == doing[u]
<1>1. /\ w.op = "open" /\ Deliverable(w.qty, w.units)
      /\ lots' = <<Opening>> \o lots /\ Arrives(Opening, w.qty, w.units) /\ doing' = [doing EXCEPT ![u] = Idle]
  BY DEF SaveOpening, Done
<1>2. w.qty \in 1..MaxQty /\ w.units \in SUBSET Serials
  <2>1. w \in StoreRequests
    BY DEF StoreInv, StoreTypeOK
  <2>. HIDE DEF w
  <2>. QED
    BY <1>1, <2>1, RequestTyped
<1>3. Opening \in Lots \ Present
  <2>1. Importing
    BY <1>1, IdleRequest DEF Importing
  <2>. QED
    BY <2>1, Names DEF StoreInv, OneImport
<1>4. /\ lots \in Seq(Lots) /\ lots' \in Seq(Lots) /\ Len(lots) \in Nat
      /\ DOMAIN lots = 1..Len(lots) /\ DOMAIN lots' = 1..(Len(lots) + 1)
      /\ lots'[1] = Opening /\ \A i \in 1..Len(lots) : lots'[i + 1] = lots[i]
  BY <1>1, <1>3 DEF StoreInv, StoreTypeOK
<1>5. \A i \in 1..(Len(lots) + 1) : i = 1 \/ \E j \in 1..Len(lots) : i = j + 1 /\ lots'[i] = lots[j]
  <2>. TAKE i \in 1..(Len(lots) + 1)
  <2>1. CASE i # 1
    <3>1. i - 1 \in 1..Len(lots) /\ i = (i - 1) + 1
      BY <1>4, <2>1
    <3>. QED
      BY <1>4, <3>1
  <2>. QED
    BY <2>1
<1>6. Present' = Present \cup {Opening}
  <2>1. 1 \in 1..(Len(lots) + 1) /\ \A i \in 1..Len(lots) : i + 1 \in 1..(Len(lots) + 1)
    BY <1>4
  <2>2. Present' = {lots'[i] : i \in 1..(Len(lots) + 1)} /\ Present = {lots[i] : i \in 1..Len(lots)}
    BY <1>4 DEF Present
  <2>3. Present' \subseteq Present \cup {Opening}
    BY <1>4, <1>5, <2>2
  <2>4. Opening \in Present' /\ \A i \in 1..Len(lots) : lots[i] \in Present'
    BY <1>4, <2>1, <2>2
  <2>. QED
    BY <2>2, <2>3, <2>4
<1>7. LotsInOrder'
  <2>1. \A i \in 1..Len(lots) : lots[i] # Opening
    BY <1>3, <1>4 DEF Present
  <2>2. \A i, j \in 1..Len(lots) : lots[i] = lots[j] => i = j
    BY <1>4 DEF StoreInv, LotsInOrder
  <2>3. \A i, j \in DOMAIN lots' : lots'[i] = lots'[j] => i = j
    BY <1>4, <1>5, <2>1, <2>2
  <2>4. \A l \in Lots \ Present' : received'[l] = 0
    <3>1. \A l \in Lots \ {Opening} : received'[l] = received[l]
      BY <1>1 DEF Arrives, StoreInv, StoreTypeOK
    <3>. QED
      BY <1>6, <3>1 DEF StoreInv, LotsInOrder
  <2>. QED
    BY <1>4, <2>3, <2>4 DEF LotsInOrder
<1>8. OneImport'
  <2>1. UNCHANGED <<tracking, want>>
    BY <1>1 DEF Arrives
  <2>2. \A v \in Staff : doing'[v].op = "open" => doing[v].op = "open" /\ v # u
    BY <1>1, <2>1, DoneWith
  <2>3. \A v \in Staff : doing'[v].op # "open"
    BY <1>1, <2>2 DEF StoreInv, OneImport
  <2>. QED
    BY <2>3 DEF OneImport, Importing
<1>. QED
  BY <1>1, <1>2, <1>3, <1>4, <1>6, <1>7, <1>8, ArrivalKeeps

-----------------------------------------------------------------------------
(***************************************************************************)
(* The Store: a release                                                    *)
(***************************************************************************)
\* Zeros outside a set do not count.
LEMMA SumWithin ==
  ASSUME NEW T, IsFiniteSet(T), NEW S, NEW f, \A x \in T : f[x] \in Nat, \A x \in T \ S : f[x] = 0
  PROVE  SumFunctionOnSet(f, T) = SumFunctionOnSet(f, T \cap S)
<1>. DEFINE H == {U \in SUBSET T : SumFunctionOnSet(f, U) = SumFunctionOnSet(f, U \cap S)}
<1>0. \A U \in SUBSET T : IsFiniteSet(U) /\ SumFunctionOnSet(f, U) \in Nat
  BY FS_Subset, SumNat
<1>1. ASSUME NEW U \in SUBSET T, \A W \in SUBSET U : W # U => W \in H
      PROVE  U \in H
  <2>1. CASE U = {}
    BY <2>1
  <2>2. CASE U # {}
    <3>1. PICK y \in U : TRUE
      BY <2>2
    <3>. DEFINE V == U \ {y}
    <3>2. SumFunctionOnSet(f, V) = SumFunctionOnSet(f, V \cap S)
      BY <1>1
    <3>3. SumFunctionOnSet(f, U) = f[y] + SumFunctionOnSet(f, V)
      BY <1>0, SumRemove
    <3>4. CASE y \in S
      <4>1. y \in U \cap S /\ (U \cap S) \ {y} = V \cap S /\ IsFiniteSet(U \cap S)
        BY <1>0, <3>4
      <4>2. SumFunctionOnSet(f, U \cap S) = f[y] + SumFunctionOnSet(f, V \cap S)
        BY <4>1, SumRemove
      <4>. QED
        BY <3>2, <3>3, <4>2
    <3>5. CASE y \notin S
      <4>1. U \cap S = V \cap S /\ f[y] = 0 /\ SumFunctionOnSet(f, V) \in Nat
        BY <1>0, <3>5
      <4>2. SumFunctionOnSet(f, U) = SumFunctionOnSet(f, V)
        BY <3>3, <4>1
      <4>. QED
        BY <3>2, <4>1, <4>2
    <3>. QED
      BY <3>4, <3>5
  <2>. QED
    BY <2>1, <2>2
<1>. HIDE DEF H
<1>2. T \in H
  BY <1>1, SubsetInduction
<1>. QED
  BY <1>2 DEF H

\* What the deliveries that are there hold is what all hold.
LEMMA TotalOfAll ==
  ASSUME StoreTypeOK, NEW q, DOMAIN q = Lots, \A l \in Lots : q[l] \in Nat, \A l \in Lots \ Present : q[l] = 0
  PROVE  Total(q, Present) = SumFunction(q) /\ SumFunction(q) \in Nat
<1>1. IsFiniteSet(Lots) /\ IsFiniteSet(Present) /\ Present \in SUBSET Lots /\ Lots \cap Present = Present
  BY Names, PresentIsLots, FS_Subset
<1>2. SumFunctionOnSet(q, Lots) = SumFunctionOnSet(q, Lots \cap Present)
  BY <1>1, SumWithin
<1>3. Total(q, Present) = SumFunctionOnSet(q, Present) /\ Total(q, Present) \in Nat
  BY <1>1, TotalIs
<1>. QED
  BY <1>1, <1>2, <1>3 DEF SumFunction

DrawnBy(p) == Draw(want[p], Remaining, Present)

\* What is promised to a request is on the shelf.
LEMMA PromiseCovered ==
  ASSUME StoreInv, NEW p \in Slips, slip[p] = "APPROVED"
  PROVE  /\ Records /\ quantityOnHand = OnShelf /\ quantityReserved = Promised
         /\ want[p] <= quantityReserved /\ quantityReserved <= quantityOnHand
         /\ want[p] \in Nat /\ quantityReserved \in Nat /\ quantityOnHand \in Nat
<1>1. Records /\ quantityOnHand = OnShelf /\ quantityReserved = Promised /\ quantityReserved <= quantityOnHand
  BY ShelfIs DEF StoreInv, Records
<1>2. want[p] \in Nat /\ quantityReserved \in Nat /\ quantityOnHand \in Nat
  BY QtyAssumption DEF StoreInv, StoreTypeOK
<1>3. DOMAIN Asked = Slips /\ (\A q \in Slips : Asked[q] \in Nat) /\ Asked[p] = want[p]
  BY AskedNat DEF StoreInv, Asked
<1>4. Asked[p] <= SumFunction(Asked)
  BY <1>3, Names, SumChanges
<1>. QED
  BY <1>1, <1>2, <1>3, <1>4 DEF Promised

\* What a release of a QUANTITY or BATCH part draws and records.
LEMMA ReleaseDraws ==
  ASSUME StoreInv, NEW p \in Slips, slip[p] = "APPROVED", tracking # "SERIALIZED",
         uses' = UsesWith(p, DrawnBy(p)), UNCHANGED <<lots, received>>
  PROVE  /\ DOMAIN DrawnBy(p) = Lots /\ SumFunction(DrawnBy(p)) = want[p]
         /\ \A l \in Lots : DrawnBy(p)[l] \in Nat /\ Holds(l) \in Nat /\ DrawnBy(p)[l] <= Holds(l)
         /\ \A l \in Lots : Holds(l)' = Holds(l) - DrawnBy(p)[l]
         /\ \A l \in Present : DrawnBy(p)[l] > 0 => \A o \in Older(l) : o \in Lots /\ DrawnBy(p)[o] = Holds(o)
         /\ Logged(uses', p, DrawnBy(p), Len(lots)) /\ First(Len(lots)) = Present
         /\ Total(DrawnBy(p), Present) = want[p]
<1>1. PICK rem : rem = [l \in Lots |-> Holds(l)] /\ rem = Remaining
  BY RemainingIs, PromiseCovered
<1>2. StoreTypeOK /\ UsesNamed /\ LotsInOrder /\ NothingOverdrawn
  BY DEF StoreInv
<1>3. \A l \in Lots : rem[l] \in Nat /\ rem[l] <= MaxQty /\ Holds(l) = rem[l]
  <2>. TAKE l \in Lots
  <2>1. Holds(l) \in Int /\ Holds(l) >= 0 /\ TakenFrom(uses, l) \in Nat
    BY <1>2, HoldsInt DEF NothingOverdrawn
  <2>2. received[l] \in 0..MaxQty
    BY <1>2 DEF StoreTypeOK
  <2>. QED
    BY <1>1, <2>1, <2>2, QtyAssumption DEF Holds
<1>4. /\ want[p] \in Nat /\ want[p] <= Total(rem, Present) /\ Total(rem, Present) \in Nat
  <2>1. \A l \in Lots \ Present : rem[l] = 0
    BY <1>1, <1>2, NotThere
  <2>2. Total(rem, Present) = SumFunction(rem) /\ SumFunction(rem) \in Nat
    BY <1>1, <1>2, <1>3, <2>1, TotalOfAll
  <2>3. OnShelf = SumFunction(rem)
    BY <1>1 DEF OnShelf
  <2>. QED
    BY <2>2, <2>3, PromiseCovered
<1>5. PICK qty \in Nat : qty = want[p]
  BY <1>4
<1>6. PICK drawn : drawn = Draw(qty, rem, Present) /\ drawn = DrawnBy(p)
  BY <1>1, <1>5 DEF DrawnBy
<1>7. \A l \in Lots : rem[l] \in Nat
  BY <1>3
<1>8. /\ DOMAIN drawn = Lots /\ \A l \in Lots \ Present : drawn[l] = 0
      /\ \A l \in Lots : drawn[l] \in Nat /\ drawn[l] <= rem[l]
  <2>1. /\ DOMAIN Draw(qty, rem, Present) = Lots
        /\ \A l \in Lots \ Present : Draw(qty, rem, Present)[l] = 0
        /\ \A l \in Lots : Draw(qty, rem, Present)[l] \in Nat /\ Draw(qty, rem, Present)[l] <= rem[l]
    BY <1>2, <1>7, DrawnFrom
  <2>. QED
    BY <1>6, <2>1
<1>9. Total(drawn, Present) = want[p]
  <2>1. Total(drawn, Present) = Least(qty, Total(rem, Present))
    BY ONLY <1>2, <1>6, <1>7, DrawnInAll
  <2>. QED
    BY <1>4, <1>5, <2>1 DEF Least
<1>10. SumFunction(drawn) = want[p]
  BY <1>2, <1>8, <1>9, TotalOfAll
<1>11. Logged(uses', p, drawn, Len(lots))
  <2>1. \A l \in Lots : drawn[l] \in 0..MaxQty
    BY <1>3, <1>8, QtyAssumption
  <2>2. Logged(UsesWith(p, drawn), p, drawn, Len(lots))
    BY <1>2, <1>9, <2>1, ReleaseLogged
  <2>. QED
    BY <1>6, <2>2
<1>12. First(Len(lots)) = Present
  BY <1>2, FirstFacts
<1>13. \A l \in Lots : Holds(l)' = Holds(l) - drawn[l]
  <2>. TAKE l \in Lots
  <2>1. TakenFrom(uses', l) = TakenFrom(uses, l) + (IF l \in Present THEN drawn[l] ELSE 0)
    BY <1>11, <1>12 DEF Logged
  <2>2. Holds(l)' = received[l] - TakenFrom(uses', l)
    BY DEF Holds
  <2>3. TakenFrom(uses, l) \in Nat /\ received[l] \in Nat
    BY <1>2, HoldsInt
  <2>4. drawn[l] \in Nat /\ (l \notin Present => drawn[l] = 0)
    BY <1>8
  <2>. QED
    BY <2>1, <2>2, <2>3, <2>4 DEF Holds
<1>14. \A l \in Present : drawn[l] > 0 => \A o \in Older(l) : o \in Lots /\ drawn[o] = Holds(o)
  <2>. SUFFICES ASSUME NEW l \in Present, drawn[l] > 0, NEW o \in Older(l)
                PROVE  o \in Lots /\ drawn[o] = Holds(o)
    OBVIOUS
  <2>1. o \in Lots /\ drawn[o] = rem[o]
    BY ONLY <1>2, <1>6, <1>7, drawn[l] > 0, OlderEmptied
  <2>. QED
    BY <1>3, <2>1
<1>. QED
  BY <1>3, <1>6, <1>8, <1>9, <1>10, <1>11, <1>12, <1>13, <1>14

\* A release leaves the type of everything, and is no longer in flight.
LEMMA ReleaseTyped ==
  ASSUME StoreInv, NEW u \in Staff, SaveRelease(u), uses' \in Seq(Uses), left' \in [Lots -> 0..MaxQty]
  PROVE  /\ doing[u].slip \in Slips /\ doing[u].units \in SUBSET Serials /\ slip[doing[u].slip] = "APPROVED"
         /\ slip' = [slip EXCEPT ![doing[u].slip] = "RELEASED"]
         /\ StoreTypeOK' /\ LotsInOrder' /\ OneImport' /\ UnitsChosen' /\ Present' = Present
         /\ quantityReserved' = Promised' /\ quantityReserved' <= quantityOnHand'
<1>. DEFINE w == doing[u]
<1>1. /\ w.op = "release" /\ slip[w.slip] = "APPROVED"
      /\ slip' = [slip EXCEPT ![w.slip] = "RELEASED"]
      /\ quantityOnHand' = quantityOnHand - want[w.slip]
      /\ quantityReserved' = quantityReserved - want[w.slip]
      /\ issuedTo' = [x \in Serials |-> IF x \in w.units THEN w.slip ELSE issuedTo[x]]
      /\ doing' = [doing EXCEPT ![u] = Idle]
      /\ UNCHANGED <<tracking, lots, received, unitOf, want>>
  BY DEF SaveRelease, StillToRelease, Done
<1>2. w.slip \in Slips /\ w.units \in SUBSET Serials
  <2>1. w \in StoreRequests
    BY DEF StoreInv, StoreTypeOK
  <2>. HIDE DEF w
  <2>. QED
    BY <1>1, <2>1, RequestTyped
<1>. HIDE DEF w
<1>3. PICK p \in Slips : p = w.slip
  BY <1>2
<1>4. /\ quantityReserved = Promised /\ want[p] <= quantityReserved /\ quantityReserved <= quantityOnHand
      /\ want[p] \in Nat /\ quantityReserved \in Nat /\ quantityOnHand \in Nat
  BY <1>1, <1>3, PromiseCovered
<1>5. /\ UnitsChosen' /\ doing' \in [Staff -> StoreRequests]
      /\ \A v, x \in Staff : doing'[v].op = "open" /\ doing'[x].op = "open" => v = x
      /\ \A v \in Staff : doing'[v].op = "open" => Opening \notin Present
  BY <1>1, DoneWith
<1>6. Present' = Present
  BY <1>1 DEF Present
<1>7. LotsInOrder'
  BY <1>1, <1>6 DEF StoreInv, LotsInOrder
<1>8. OneImport'
  BY <1>5, <1>6 DEF OneImport, Importing
<1>9. StoreTypeOK'
  <2>1. slip' \in [Slips -> {"PENDING", "APPROVED", "RELEASED", "WITHDRAWN"}]
    BY <1>1 DEF StoreInv, StoreTypeOK
  <2>2. issuedTo' \in [Serials -> Slips \cup {NoSlip}]
    BY <1>1, <1>2 DEF StoreInv, StoreTypeOK
  <2>3. quantityOnHand' \in Nat /\ quantityReserved' \in Nat
    BY <1>1, <1>3, <1>4
  <2>. QED
    BY <1>1, <1>5, <2>1, <2>2, <2>3 DEF StoreInv, StoreTypeOK
<1>10. Promised' = Promised - want[p]
  <2>1. /\ DOMAIN Asked = Slips /\ DOMAIN Asked' = Slips
        /\ \A q \in Slips : Asked[q] \in Nat /\ Asked'[q] \in Nat
        /\ \A q \in Slips \ {p} : Asked[q] = Asked'[q]
        /\ Asked[p] = want[p] /\ Asked'[p] = 0
    BY <1>1, <1>3, QtyAssumption DEF Asked, StoreInv, StoreTypeOK
  <2>2. SumFunction(Asked') = SumFunction(Asked) - Asked[p] + Asked'[p] /\ SumFunction(Asked) \in Nat
    <3>1. IsFiniteSet(Slips) /\ p \in Slips
      BY Names
    <3>. QED
      BY ONLY <2>1, <3>1, SumChanges
  <2>. QED
    BY <1>4, <2>1, <2>2 DEF Promised
<1>11. quantityReserved' = Promised' /\ quantityReserved' <= quantityOnHand'
  BY <1>1, <1>3, <1>4, <1>10
<1>. QED
  BY <1>1, <1>2, <1>5, <1>6, <1>7, <1>8, <1>9, <1>11 DEF w

\* A release of the units of a serialized part.
LEMMA UnitsReleased ==
  ASSUME StoreInv, NEW u \in Staff, SaveRelease(u), tracking = "SERIALIZED"
  PROVE  StoreInv'
<1>. DEFINE w == doing[u]
<1>1. /\ w.op = "release" /\ w.units \subseteq InStock
      /\ uses' = uses /\ left' = left
      /\ quantityOnHand' = quantityOnHand - want[w.slip]
      /\ issuedTo' = [x \in Serials |-> IF x \in w.units THEN w.slip ELSE issuedTo[x]]
      /\ UNCHANGED <<tracking, lots, received, unitOf, want>>
  BY DEF SaveRelease, StillInStock
<1>2. uses' \in Seq(Uses) /\ left' \in [Lots -> 0..MaxQty]
  BY <1>1 DEF StoreInv, StoreTypeOK
<1>3. PICK p \in Slips, units \in SUBSET Serials : p = w.slip /\ units = w.units
  BY <1>2, ReleaseTyped
<1>4. /\ slip[p] = "APPROVED" /\ slip' = [slip EXCEPT ![p] = "RELEASED"]
      /\ StoreTypeOK' /\ LotsInOrder' /\ OneImport' /\ UnitsChosen' /\ Present' = Present
      /\ quantityReserved' = Promised' /\ quantityReserved' <= quantityOnHand'
  BY <1>2, <1>3, ReleaseTyped
<1>5. Cardinality(units) = want[p] /\ units \subseteq InStock
  BY <1>1, <1>3 DEF StoreInv, UnitsChosen
<1>6. \A x \in Serials : issuedTo'[x] = IF x \in units THEN p ELSE issuedTo[x]
  BY <1>1, <1>3
<1>. HIDE DEF w
<1>7. \A x \in units : unitOf[x] # NoLot /\ issuedTo[x] = NoSlip
  BY <1>5 DEF InStock
<1>8. p # NoSlip
  BY NamesAssumption
<1>9. uses = <<>> /\ \A l \in Lots : Cardinality(UnitsOf(l)) = received[l]
  BY DEF StoreInv, UnitsTracked
<1>10. \A l \in Lots : Holds(l)' = Holds(l)
  BY <1>1 DEF Holds
<1>11. UsesNamed'
  BY <1>1, <1>4 DEF StoreInv, UsesNamed
<1>12. NothingOverdrawn'
  BY <1>1, <1>10 DEF StoreInv, NothingOverdrawn
<1>13. UnitsTracked'
  <2>1. \A x \in Serials : unitOf'[x] = NoLot => issuedTo'[x] = NoSlip
    BY <1>1, <1>6, <1>7 DEF StoreInv, UnitsTracked
  <2>2. \A l \in Lots : UnitsOf(l)' = UnitsOf(l)
    BY <1>1 DEF UnitsOf
  <2>. QED
    BY <1>1, <1>9, <2>1, <2>2 DEF StoreInv, UnitsTracked
<1>14. Cardinality(InStock') = Cardinality(InStock) - want[p]
  <2>1. InStock' = InStock \ units
    BY <1>1, <1>6, <1>8 DEF InStock
  <2>2. IsFiniteSet(InStock) /\ IsFiniteSet(units)
    BY Names, FS_Subset DEF InStock
  <2>3. Cardinality(InStock \ units) = Cardinality(InStock) - Cardinality(InStock \cap units)
    BY <2>2, FS_Difference
  <2>4. InStock \cap units = units
    BY <1>5
  <2>. QED
    BY <1>5, <2>1, <2>3, <2>4
<1>15. ShelfMatchesRecords'
  <2>1. Records /\ Records'
    BY <1>4, <1>11, <1>12 DEF StoreInv, Records
  <2>2. quantityOnHand = OnShelf
    BY <2>1, ShelfIs DEF StoreInv
  <2>3. quantityOnHand' = OnShelf'
    BY <1>1, <1>3, <1>14, <2>2 DEF OnShelf
  <2>. QED
    BY <1>4, <2>1, <2>3, ShelfIsNext
<1>16. ReleasesAreTraced'
  <2>. DEFINE Issued(q) == {x \in Serials : issuedTo[x] = q}
  <2>1. \A q \in Slips : TakenFor(uses, q) = 0 /\ TakenFor(uses', q) = 0
    BY <1>1, <1>9, NoUse
  <2>2. \A q \in Slips : Cardinality(Issued(q)) \in Nat
    BY Names, FS_Subset, FS_CardinalityType
  <2>3. \A q \in Slips : Cardinality(Issued(q)) = IF slip[q] = "RELEASED" THEN want[q] ELSE 0
    <3>1. \A q \in Slips : TakenFor(uses, q) + Cardinality(Issued(q)) = IF slip[q] = "RELEASED" THEN want[q] ELSE 0
      BY DEF StoreInv, ReleasesAreTraced, TakenFor
    <3>. HIDE DEF Issued
    <3>. QED
      BY <2>1, <2>2, <3>1
  <2>4. \A q \in Slips \ {p} : Issued(q)' = Issued(q)
    BY <1>6, <1>7, NamesAssumption
  <2>5. Issued(p)' = units
    <3>1. Issued(p) = {}
      <4>1. IsFiniteSet(Issued(p)) /\ Cardinality(Issued(p)) = 0
        BY <1>4, <2>3, Names, FS_Subset
      <4>. QED
        BY <4>1, FS_EmptySet
    <3>. QED
      BY <1>6, <3>1
  <2>6. \A q \in Slips : slip'[q] = IF q = p THEN "RELEASED" ELSE slip[q]
    BY <1>4 DEF StoreInv, StoreTypeOK
  <2>7. \A q \in Slips : Cardinality(Issued(q))' = IF slip'[q] = "RELEASED" THEN want'[q] ELSE 0
    BY <1>1, <1>5, <2>3, <2>4, <2>5, <2>6
  <2>8. \A q \in Slips : TakenFor(uses', q) + Cardinality(Issued(q))' = IF slip'[q] = "RELEASED" THEN want'[q] ELSE 0
    <3>1. \A q \in Slips : want'[q] \in Nat
      BY <1>4, QtyAssumption DEF StoreTypeOK
    <3>. HIDE DEF Issued
    <3>. QED
      BY <2>1, <2>7, <3>1
  <2>. QED
    BY <1>1, <1>9, <2>8 DEF ReleasesAreTraced, TakenFor
<1>. QED
  BY <1>4, <1>11, <1>12, <1>13, <1>15, <1>16 DEF StoreInv

\* A release drawn from deliveries.
LEMMA DeliveriesReleased ==
  ASSUME StoreInv, NEW u \in Staff, SaveRelease(u), tracking # "SERIALIZED"
  PROVE  StoreInv'
<1>. DEFINE w == doing[u]
<1>1. /\ w.op = "release" /\ slip[w.slip] = "APPROVED"
      /\ uses' = UsesWith(w.slip, DrawnBy(w.slip))
      /\ left' = IF tracking = "BATCH" THEN [l \in Lots |-> left[l] - DrawnBy(w.slip)[l]] ELSE left
      /\ quantityOnHand' = quantityOnHand - want[w.slip]
      /\ issuedTo' = [x \in Serials |-> IF x \in w.units THEN w.slip ELSE issuedTo[x]]
      /\ UNCHANGED <<tracking, lots, received, unitOf, want>>
  BY DEF SaveRelease, StillToRelease, DrawnBy
<1>2. w.slip \in Slips /\ w.units = {}
  <2>1. w \in StoreRequests
    BY DEF StoreInv, StoreTypeOK
  <2>2. w.units = {}
    BY <1>1 DEF StoreInv, UnitsChosen
  <2>. HIDE DEF w
  <2>. QED
    BY <1>1, <2>1, <2>2, RequestTyped
<1>3. PICK p \in Slips : p = w.slip
  BY <1>2
<1>. HIDE DEF w
<1>4. PICK drawn : drawn = DrawnBy(p)
  OBVIOUS
<1>5. /\ DOMAIN drawn = Lots /\ SumFunction(drawn) = want[p]
      /\ Logged(uses', p, drawn, Len(lots)) /\ First(Len(lots)) = Present
      /\ Total(drawn, Present) = want[p]
  BY <1>1, <1>3, <1>4, ReleaseDraws
<1>6. /\ \A l \in Lots : drawn[l] \in Nat /\ Holds(l) \in Nat /\ drawn[l] <= Holds(l)
      /\ \A l \in Lots : Holds(l)' = Holds(l) - drawn[l]
  BY <1>1, <1>3, <1>4, ReleaseDraws
<1>7. uses' \in Seq(Uses)
  BY <1>5 DEF Logged
<1>8. left' = [l \in Lots |-> IF tracking = "BATCH" THEN Holds(l)' ELSE 0]
  <2>1. left = [l \in Lots |-> IF tracking = "BATCH" THEN Holds(l) ELSE 0]
    BY DEF StoreInv, NothingOverdrawn
  <2>. QED
    BY <1>1, <1>3, <1>4, <1>6, <2>1
<1>9. left' \in [Lots -> 0..MaxQty]
  <2>. SUFFICES ASSUME NEW l \in Lots PROVE left'[l] \in 0..MaxQty
    BY <1>8
  <2>1. Holds(l) <= MaxQty
    <3>1. TakenFrom(uses, l) \in Nat
      BY HoldsInt DEF StoreInv
    <3>2. received[l] \in 0..MaxQty
      BY DEF StoreInv, StoreTypeOK
    <3>. QED
      BY <3>1, <3>2, QtyAssumption DEF Holds
  <2>2. left'[l] = IF tracking = "BATCH" THEN Holds(l) - drawn[l] ELSE 0
    BY <1>6, <1>8
  <2>. QED
    BY <1>6, <2>1, <2>2, QtyAssumption
<1>10. /\ slip[p] = "APPROVED" /\ slip' = [slip EXCEPT ![p] = "RELEASED"]
       /\ StoreTypeOK' /\ LotsInOrder' /\ OneImport' /\ UnitsChosen' /\ Present' = Present
       /\ quantityReserved' = Promised' /\ quantityReserved' <= quantityOnHand'
  BY <1>3, <1>7, <1>9, ReleaseTyped DEF w
<1>11. /\ Len(uses) \in Nat /\ Len(uses') \in Nat /\ Len(uses') >= Len(uses)
       /\ DOMAIN uses = 1..Len(uses) /\ DOMAIN uses' = 1..Len(uses')
       /\ \A i \in 1..Len(uses) : uses'[i] = uses[i]
  BY <1>5 DEF StoreInv, StoreTypeOK, Logged
<1>12. \A i \in DOMAIN uses' : \/ i \in DOMAIN uses /\ uses'[i] = uses[i]
                               \/ uses'[i].slip = p /\ uses'[i].lot \in Present /\ uses'[i].lot # NoLot
  <2>. TAKE i \in DOMAIN uses'
  <2>1. CASE i \in DOMAIN uses
    BY <1>11, <2>1
  <2>2. CASE i \notin DOMAIN uses
    <3>1. i \in (Len(uses) + 1)..Len(uses')
      BY <1>11, <2>2
    <3>2. uses'[i].slip = p /\ uses'[i].lot \in Present
      BY <1>5, <3>1 DEF Logged
    <3>. QED
      BY <3>2, PresentIsLots, Names DEF StoreInv
  <2>. QED
    BY <2>1, <2>2
<1>13. UsesNamed'
  BY <1>1, <1>10, <1>12 DEF StoreInv, UsesNamed
<1>14. NothingOverdrawn'
  BY <1>1, <1>6, <1>8 DEF NothingOverdrawn
<1>15. issuedTo' = issuedTo
  BY <1>1, <1>2 DEF StoreInv, StoreTypeOK
<1>16. UnitsTracked'
  BY <1>1, <1>15 DEF StoreInv, UnitsTracked
<1>17. ShelfMatchesRecords'
  <2>1. Records /\ Records'
    BY <1>10, <1>13, <1>14 DEF StoreInv, Records
  <2>2. quantityOnHand = OnShelf
    BY <2>1, ShelfIs DEF StoreInv
  <2>. DEFINE f == [l \in Lots |-> Holds(l)]
              h == [l \in Lots |-> Holds(l)']
  <2>3. /\ DOMAIN f = Lots /\ DOMAIN h = Lots
        /\ \A l \in Lots : f[l] \in Nat /\ drawn[l] \in Nat /\ h[l] = f[l] - drawn[l] /\ h[l] \in Nat
    BY <1>6
  <2>4. OnShelf = SumFunction(f) /\ OnShelf' = SumFunction(h)
    BY <1>1 DEF OnShelf
  <2>. HIDE DEF f, h
  <2>5. SumFunction(h) = SumFunction(f) - SumFunction(drawn)
    <3>1. IsFiniteSet(Lots)
      BY Names
    <3>. QED
      BY ONLY <1>5, <2>3, <3>1, SumMinus
  <2>6. quantityOnHand' = OnShelf'
    BY <1>1, <1>3, <1>5, <2>2, <2>4, <2>5
  <2>. QED
    BY <1>10, <2>1, <2>6, ShelfIsNext
<1>18. ReleasesAreTraced'
  <2>1. \A q : TakenFor(uses', q) = TakenFor(uses, q) + (IF q = p THEN want[p] ELSE 0)
    BY <1>5 DEF Logged
  <2>2. \A q \in Slips : slip'[q] = IF q = p THEN "RELEASED" ELSE slip[q]
    BY <1>10 DEF StoreInv, StoreTypeOK
  <2>. DEFINE Issued(q) == Cardinality({x \in Serials : issuedTo[x] = q})
  <2>3. \A q \in Slips : TakenFor(uses, q) + Issued(q) = IF slip[q] = "RELEASED" THEN want[q] ELSE 0
    BY DEF StoreInv, ReleasesAreTraced, TakenFor
  <2>4. \A q \in Slips : Issued(q) \in Nat /\ TakenFor(uses, q) \in Nat /\ want[q] \in Nat
    <3>1. \A q \in Slips : Issued(q) \in Nat
      BY Names, FS_Subset, FS_CardinalityType
    <3>2. \A q \in Slips : TakenFor(uses, q) \in Nat /\ want[q] \in Nat
      BY TakenNat, QtyAssumption DEF StoreInv, StoreTypeOK
    <3>. QED
      BY <3>1, <3>2
  <2>5. \A q \in Slips : Issued(q)' = Issued(q)
    BY <1>15
  <2>. HIDE DEF Issued
  <2>6. \A q \in Slips : TakenFor(uses', q) + Issued(q)' = IF slip'[q] = "RELEASED" THEN want'[q] ELSE 0
    BY <1>1, <1>10, <2>1, <2>2, <2>3, <2>4, <2>5
  <2>7. \A q \in Slips : \A i \in DOMAIN uses' : uses'[i].slip = q => uses'[i].lot \in Present'
    BY <1>10, <1>12 DEF StoreInv, ReleasesAreTraced
  <2>. QED
    BY <2>6, <2>7 DEF ReleasesAreTraced, TakenFor, Issued
<1>. QED
  BY <1>10, <1>13, <1>14, <1>16, <1>17, <1>18 DEF StoreInv

\* A release keeps the invariant, however the part is tracked.
LEMMA SaveReleaseKeeps ==
  ASSUME StoreInv, NEW u \in Staff, SaveRelease(u)
  PROVE  StoreInv'
BY UnitsReleased, DeliveriesReleased

-----------------------------------------------------------------------------
(***************************************************************************)
(* The Store: the opening balance is reversed                              *)
(***************************************************************************)
LEMMA ReverseOpeningKeeps ==
  ASSUME StoreInv, ReverseOpening
  PROVE  StoreInv'
<1>1. /\ ~ Importing /\ Opening \in Present /\ quantityReserved = 0
      /\ \A i \in DOMAIN uses : uses[i].lot # Opening
      /\ \A x \in Serials : unitOf[x] = Opening => issuedTo[x] = NoSlip
  BY DEF ReverseOpening, Blocked
<1>2. /\ lots' = RemoveAt(lots, Position(Opening))
      /\ quantityOnHand' = quantityOnHand - received[Opening]
      /\ received' = [received EXCEPT ![Opening] = 0]
      /\ left' = [left EXCEPT ![Opening] = 0]
      /\ unitOf' = [x \in Serials |-> IF unitOf[x] = Opening THEN NoLot ELSE unitOf[x]]
      /\ UNCHANGED <<tracking, quantityReserved, uses, issuedTo, slip, want, doing>>
  BY DEF ReverseOpening
<1>3. StoreTypeOK /\ UsesNamed /\ LotsInOrder /\ Opening \in Lots /\ Opening # NoLot
  BY Names DEF StoreInv
<1>4. lots \in Seq(Lots) /\ Len(lots) \in Nat /\ DOMAIN lots = 1..Len(lots) /\ 1 \in DOMAIN lots /\ lots[1] = Opening
  BY <1>1, <1>3 DEF StoreTypeOK, LotsInOrder, Present
<1>5. Position(Opening) = 1
  BY <1>3, <1>4, PositionIs
<1>6. /\ lots' \in Seq(Lots) /\ DOMAIN lots' = 1..(Len(lots) - 1)
      /\ \A i \in 1..(Len(lots) - 1) : lots'[i] = lots[i + 1]
  <2>1. lots' = SubSeq(lots, 1, 0) \o SubSeq(lots, 2, Len(lots))
    BY <1>2, <1>5 DEF RemoveAt
  <2>2. SubSeq(lots, 1, 0) = <<>>
    BY <1>4
  <2>3. /\ SubSeq(lots, 2, Len(lots)) \in Seq(Lots)
        /\ Len(SubSeq(lots, 2, Len(lots))) = Len(lots) - 1
        /\ \A i \in 1..(Len(lots) - 1) : SubSeq(lots, 2, Len(lots))[i] = lots[i + 1]
    BY <1>4
  <2>4. lots' = SubSeq(lots, 2, Len(lots))
    BY <2>1, <2>2, <2>3
  <2>. QED
    BY <1>4, <2>3, <2>4
<1>7. \A i, j \in 1..Len(lots) : lots[i] = lots[j] => i = j
  BY <1>3, <1>4 DEF LotsInOrder
<1>8. Present' = Present \ {Opening}
  <2>1. \A i \in 1..(Len(lots) - 1) : i + 1 \in 1..Len(lots) /\ i + 1 # 1
    BY <1>4
  <2>2. \A l \in Present \ {Opening} : \E i \in 1..(Len(lots) - 1) : lots[i + 1] = l
    <3>. TAKE l \in Present \ {Opening}
    <3>1. PICK j \in 1..Len(lots) : lots[j] = l
      BY <1>4 DEF Present
    <3>2. j # 1
      BY <1>4, <3>1
    <3>3. j - 1 \in 1..(Len(lots) - 1) /\ (j - 1) + 1 = j
      BY <1>4, <3>2
    <3>. QED
      BY <3>1, <3>3
  <2>3. \A i \in 1..(Len(lots) - 1) : lots[i + 1] \in Present \ {Opening}
    BY <1>4, <1>7, <2>1 DEF Present
  <2>4. Present' = {lots[i + 1] : i \in 1..(Len(lots) - 1)}
    BY <1>6 DEF Present
  <2>. QED
    BY <2>2, <2>3, <2>4
<1>9. \A l \in Lots : received'[l] = IF l = Opening THEN 0 ELSE received[l]
  BY <1>2, <1>3 DEF StoreTypeOK
<1>10. LotsInOrder'
  <2>1. \A i, j \in DOMAIN lots' : lots'[i] = lots'[j] => i = j
    <3>1. \A i \in 1..(Len(lots) - 1) : i + 1 \in 1..Len(lots)
      BY <1>4
    <3>2. \A i, j \in 1..(Len(lots) - 1) : i + 1 = j + 1 => i = j
      BY <1>4
    <3>. QED
      BY <1>6, <1>7, <3>1, <3>2
  <2>. QED
    BY <1>3, <1>8, <1>9, <2>1 DEF LotsInOrder
<1>11. TakenFrom(uses, Opening) = 0
  <2>1. \A i \in DOMAIN uses : Source(uses[i]) # Opening
    <3>. TAKE i \in DOMAIN uses
    <3>1. CASE uses[i].lot # NoLot
      BY <1>1, <3>1 DEF Source
    <3>2. CASE uses[i].lot = NoLot
      <4>1. PICK f \in Forms : uses[i].arrived = {f}
        BY <1>3, <3>2 DEF UsesNamed
      <4>. QED
        BY <3>2, <4>1, SourceIs, Names
    <3>. QED
      BY <3>1, <3>2
  <2>. QED
    BY <1>3, <2>1, NoneTaken DEF StoreTypeOK
<1>12. /\ \A l \in Lots : Holds(l)' = IF l = Opening THEN 0 ELSE Holds(l)
       /\ Holds(Opening) = received[Opening] /\ received[Opening] \in Nat
  <2>1. Holds(Opening) = received[Opening] /\ received[Opening] \in Nat
    BY <1>3, <1>11, HoldsInt DEF Holds
  <2>2. \A l \in Lots : Holds(l)' = received'[l] - TakenFrom(uses, l)
    BY <1>2 DEF Holds
  <2>. QED
    BY <1>9, <1>11, <2>1, <2>2 DEF Holds
<1>13. UsesNamed'
  <2>1. \A f \in Forms \cap Present : f # Opening /\ f \in Present' /\ received'[f] = received[f]
    BY <1>8, <1>9, Names
  <2>. QED
    BY <1>1, <1>2, <1>3, <1>8, <2>1 DEF UsesNamed
<1>14. NothingOverdrawn'
  <2>1. left = [l \in Lots |-> IF tracking = "BATCH" THEN Holds(l) ELSE 0]
    BY DEF StoreInv, NothingOverdrawn
  <2>2. left' = [l \in Lots |-> IF tracking = "BATCH" THEN Holds(l)' ELSE 0]
    BY <1>2, <1>12, <2>1
  <2>3. tracking # "SERIALIZED" => \A l \in Lots : Holds(l)' >= 0
    BY <1>12 DEF StoreInv, NothingOverdrawn
  <2>. QED
    BY <1>2, <2>2, <2>3 DEF NothingOverdrawn
<1>15. UnitsTracked'
  <2>1. \A x \in Serials : unitOf'[x] = NoLot => issuedTo'[x] = NoSlip
    BY <1>1, <1>2 DEF StoreInv, UnitsTracked
  <2>2. ASSUME tracking = "SERIALIZED"
        PROVE  uses' = <<>> /\ \A l \in Lots : Cardinality(UnitsOf(l))' = received'[l]
    <3>1. uses = <<>> /\ \A l \in Lots : Cardinality(UnitsOf(l)) = received[l]
      BY <2>2 DEF StoreInv, UnitsTracked
    <3>2. \A l \in Lots \ {Opening} : UnitsOf(l)' = UnitsOf(l)
      BY <1>2, Names DEF UnitsOf
    <3>3. UnitsOf(Opening)' = {}
      BY <1>2, <1>3 DEF UnitsOf
    <3>. QED
      BY <1>2, <1>9, <3>1, <3>2, <3>3, FS_EmptySet
  <2>3. ASSUME tracking # "SERIALIZED" PROVE \A x \in Serials : unitOf'[x] = NoLot
    BY <1>2, <2>3 DEF StoreInv, UnitsTracked
  <2>. QED
    BY <1>2, <2>1, <2>2, <2>3 DEF UnitsTracked
<1>16. OneImport' /\ UnitsChosen'
  <2>1. ~ Importing'
    BY <1>1, <1>2 DEF Importing
  <2>. QED
    BY <1>2, <2>1 DEF StoreInv, OneImport, UnitsChosen
<1>17. Records /\ quantityOnHand = OnShelf /\ quantityReserved = Promised
  BY ShelfIs DEF StoreInv, Records
<1>18. OnShelf' = OnShelf - received[Opening] /\ OnShelf' \in Nat
  <2>1. CASE tracking = "SERIALIZED"
    <3>1. InStock' = InStock \ UnitsOf(Opening)
      BY <1>2, <1>3 DEF InStock, UnitsOf
    <3>2. InStock \cap UnitsOf(Opening) = UnitsOf(Opening)
      BY <1>1, <1>3 DEF InStock, UnitsOf
    <3>3. IsFiniteSet(InStock)
      BY Names, FS_Subset DEF InStock
    <3>4. /\ Cardinality(InStock \ UnitsOf(Opening)) = Cardinality(InStock) - Cardinality(UnitsOf(Opening))
          /\ IsFiniteSet(InStock \ UnitsOf(Opening))
      BY <3>2, <3>3, FS_Difference
    <3>5. Cardinality(InStock \ UnitsOf(Opening)) \in Nat
      BY <3>4, FS_CardinalityType
    <3>6. Cardinality(UnitsOf(Opening)) = received[Opening]
      BY <1>3, <2>1 DEF StoreInv, UnitsTracked
    <3>. QED
      BY <1>2, <2>1, <3>1, <3>4, <3>5, <3>6 DEF OnShelf
  <2>2. CASE tracking # "SERIALIZED"
    <3>. DEFINE f == [l \in Lots |-> Holds(l)]
                g == [l \in Lots |-> Holds(l)']
    <3>1. \A l \in Lots : f[l] \in Nat
      BY <1>3, <2>2, HoldsInt DEF StoreInv, NothingOverdrawn
    <3>2. \A l \in Lots : g[l] = IF l = Opening THEN 0 ELSE f[l]
      BY <1>12
    <3>3. DOMAIN f = Lots /\ DOMAIN g = Lots /\ f[Opening] = received[Opening] /\ g[Opening] = 0
      BY <1>3, <1>12
    <3>4. OnShelf = SumFunction(f) /\ OnShelf' = SumFunction(g)
      BY <1>2, <2>2 DEF OnShelf
    <3>. HIDE DEF f, g
    <3>5. SumFunction(g) = SumFunction(f) - f[Opening] + g[Opening] /\ SumFunction(f) \in Nat /\ SumFunction(g) \in Nat
      <4>1. (\A l \in Lots : f[l] \in Nat /\ g[l] \in Nat) /\ \A l \in Lots \ {Opening} : f[l] = g[l]
        BY <3>1, <3>2
      <4>2. Opening \in Lots /\ IsFiniteSet(Lots)
        BY Names
      <4>. QED
        BY ONLY <3>3, <4>1, <4>2, SumChanges
    <3>. QED
      BY <1>12, <3>3, <3>4, <3>5
  <2>. QED
    BY <2>1, <2>2
<1>19. StoreTypeOK'
  <2>1. received' \in [Lots -> 0..MaxQty] /\ left' \in [Lots -> 0..MaxQty]
    BY <1>2, <1>3, QtyAssumption DEF StoreTypeOK
  <2>2. unitOf' \in [Serials -> Lots \cup {NoLot}]
    BY <1>2, <1>3 DEF StoreTypeOK
  <2>3. quantityOnHand' \in Nat
    BY <1>2, <1>17, <1>18
  <2>. QED
    BY <1>2, <1>3, <1>6, <2>1, <2>2, <2>3 DEF StoreTypeOK
<1>20. ShelfMatchesRecords'
  <2>1. Records'
    BY <1>10, <1>13, <1>14, <1>19 DEF Records
  <2>2. Promised' = Promised
    BY <1>2 DEF Promised, Asked
  <2>3. quantityOnHand' = OnShelf' /\ quantityReserved' <= quantityOnHand'
    BY <1>1, <1>2, <1>17, <1>18
  <2>. QED
    BY <1>2, <1>17, <2>1, <2>2, <2>3, ShelfIsNext
<1>21. ReleasesAreTraced'
  <2>1. \A p \in Slips : \A i \in DOMAIN uses' : uses'[i].slip = p => uses'[i].lot \in Present'
    BY <1>1, <1>2, <1>8 DEF StoreInv, ReleasesAreTraced
  <2>. QED
    BY <1>2, <2>1 DEF StoreInv, ReleasesAreTraced
<1>. QED
  BY <1>10, <1>13, <1>14, <1>15, <1>16, <1>19, <1>20, <1>21 DEF StoreInv

-----------------------------------------------------------------------------
(***************************************************************************)
(* The Store: the theorems                                                 *)
(***************************************************************************)
LEMMA StoreStarts == StoreInit => StoreInv
<1>. SUFFICES ASSUME StoreInit PROVE StoreInv
  OBVIOUS
<1>1. /\ tracking \in Trackings /\ quantityReserved = 0
      /\ left = [l \in Lots |-> 0] /\ unitOf = [x \in Serials |-> NoLot]
      /\ issuedTo = [x \in Serials |-> NoSlip] /\ slip = [p \in Slips |-> "PENDING"]
      /\ want \in [Slips -> 1..MaxQty] /\ doing = [u \in Staff |-> Idle]
  BY DEF StoreInit
<1>2. OneImport /\ UnitsChosen
  BY <1>1, IdleRequest DEF OneImport, Importing, UnitsChosen
<1>3. InStock = {} /\ Cardinality(InStock) = 0
  BY <1>1, FS_EmptySet DEF InStock
<1>4. Promised = 0
  <2>1. DOMAIN Asked = Slips /\ \A p \in Slips : Asked[p] = 0
    BY <1>1 DEF Asked
  <2>. QED
    BY <2>1, Names, SumZero DEF Promised
<1>5. \A p \in Slips : Cardinality({x \in Serials : issuedTo[x] = p}) = 0
  <2>. TAKE p \in Slips
  <2>1. {x \in Serials : issuedTo[x] = p} = {}
    BY <1>1, NamesAssumption
  <2>. QED
    BY <2>1, FS_EmptySet
<1>6. CASE lots = <<>> /\ uses = <<>> /\ quantityOnHand = 0 /\ received = [l \in Lots |-> 0]
  <2>1. StoreTypeOK
    BY <1>1, <1>6, IdleRequest, QtyAssumption DEF StoreTypeOK
  <2>2. Present = {} /\ DOMAIN uses = {} /\ DOMAIN lots = {}
    BY <1>6 DEF Present
  <2>3. \A l \in Lots : Holds(l) = 0
    BY <1>6, NoUse DEF Holds
  <2>4. UsesNamed /\ LotsInOrder /\ NothingOverdrawn
    BY <1>1, <1>6, <2>2, <2>3 DEF UsesNamed, LotsInOrder, NothingOverdrawn
  <2>5. UnitsTracked
    <3>1. \A l \in Lots : UnitsOf(l) = {}
      BY <1>1, Names DEF UnitsOf
    <3>2. \A l \in Lots : Cardinality(UnitsOf(l)) = received[l]
      BY <1>6, <3>1, FS_EmptySet
    <3>. QED
      BY <1>1, <1>6, <3>2 DEF UnitsTracked
  <2>6. OnShelf = 0
    <3>1. SumFunction([l \in Lots |-> Holds(l)]) = 0
      BY <2>3, Names, SumZero
    <3>. QED
      BY <1>3, <3>1 DEF OnShelf
  <2>7. ShelfMatchesRecords
    BY <1>1, <1>4, <1>6, <2>1, <2>4, <2>6, ShelfIs DEF Records
  <2>8. ReleasesAreTraced
    <3>1. \A p \in Slips : TakenFor(uses, p) = 0
      BY <1>6, NoUse
    <3>. QED
      BY <1>1, <1>5, <2>2, <3>1 DEF ReleasesAreTraced, TakenFor
  <2>. QED
    BY <1>2, <2>1, <2>4, <2>5, <2>7, <2>8 DEF StoreInv
<1>7. ASSUME NEW f \in Forms, NEW came \in 1..MaxQty, NEW went \in 1..came,
             tracking = "QUANTITY", lots = <<f>>,
             received = [l \in Lots |-> IF l = f THEN came ELSE 0],
             uses = <<[slip |-> OldSlip, lot |-> NoLot, qty |-> went, arrived |-> {f}]>>,
             quantityOnHand = came - went
      PROVE  StoreInv
  <2>. DEFINE use == [slip |-> OldSlip, lot |-> NoLot, qty |-> went, arrived |-> {f}]
  <2>1. f \in Lots /\ f # Opening /\ went \in 1..MaxQty /\ went <= came /\ came \in 0..MaxQty
    BY <1>7, Names, QtyAssumption
  <2>2. use \in Uses
    BY <2>1 DEF Uses
  <2>3. uses = Append(<<>>, use) /\ DOMAIN uses = {1} /\ uses[1] = use /\ uses \in Seq(Uses)
    BY <1>7, <2>2
  <2>4. Source(use) = f
    BY SourceIs
  <2>5. /\ \A l : TakenFrom(uses, l) = IF l = f THEN went ELSE 0
        /\ \A p : TakenFor(uses, p) = IF p = OldSlip THEN went ELSE 0
    <3>1. <<>> \in Seq(Uses)
      OBVIOUS
    <3>2. use.qty = went /\ use.slip = OldSlip /\ went \in Nat
      OBVIOUS
    <3>. HIDE DEF use
    <3>3. /\ \A l : TakenFrom(Append(<<>>, use), l) = TakenFrom(<<>>, l) + (IF Source(use) = l THEN use.qty ELSE 0)
          /\ \A p : TakenFor(Append(<<>>, use), p) = TakenFor(<<>>, p) + (IF use.slip = p THEN use.qty ELSE 0)
      BY ONLY <2>2, <3>1, OneMoreUse
    <3>4. uses = Append(<<>>, use)
      BY <2>3
    <3>. QED
      BY <2>4, <3>2, <3>3, <3>4, NoUse
  <2>6. DOMAIN lots = {1} /\ lots[1] = f /\ Present = {f} /\ lots \in Seq(Lots)
    BY <1>7, <2>1 DEF Present
  <2>7. StoreTypeOK
    <3>1. received \in [Lots -> 0..MaxQty] /\ quantityOnHand \in Nat
      BY <1>7, <2>1, QtyAssumption
    <3>. QED
      BY <1>1, <2>3, <2>6, <3>1, IdleRequest, QtyAssumption DEF StoreTypeOK
  <2>8. \A l \in Lots : Holds(l) = IF l = f THEN came - went ELSE 0
    BY <1>7, <2>5 DEF Holds
  <2>9. UsesNamed
    <3>1. received[f] = came
      BY <1>7, <2>1
    <3>2. uses[1].lot = NoLot /\ uses[1].slip = OldSlip /\ uses[1].arrived = {f} /\ uses[1].qty <= received[f]
      BY <2>1, <2>3, <3>1
    <3>. QED
      BY <2>3, <2>6, <3>2 DEF UsesNamed
  <2>10. LotsInOrder
    BY <1>7, <2>1, <2>6 DEF LotsInOrder
  <2>11. NothingOverdrawn
    <3>1. \A l \in Lots : Holds(l) >= 0
      BY <2>1, <2>8
    <3>2. tracking # "BATCH"
      BY <1>7
    <3>. QED
      BY <1>1, <3>1, <3>2 DEF NothingOverdrawn
  <2>12. UnitsTracked
    BY <1>1, <1>7 DEF UnitsTracked
  <2>13. OnShelf = quantityOnHand
    <3>. DEFINE g == [l \in Lots |-> 0]
                h == [l \in Lots |-> Holds(l)]
    <3>1. /\ DOMAIN g = Lots /\ DOMAIN h = Lots /\ (\A l \in Lots : g[l] \in Nat /\ h[l] \in Nat)
          /\ (\A l \in Lots : g[l] = 0) /\ (\A l \in Lots \ {f} : g[l] = h[l]) /\ h[f] = came - went
      BY <2>1, <2>8
    <3>2. OnShelf = SumFunction(h)
      BY <1>7 DEF OnShelf
    <3>. HIDE DEF g, h
    <3>3. SumFunction(g) = 0
      BY <3>1, Names, SumZero
    <3>4. SumFunction(h) = SumFunction(g) - g[f] + h[f]
      <4>1. IsFiniteSet(Lots)
        BY Names
      <4>. QED
        BY ONLY <2>1, <3>1, <4>1, SumChanges
    <3>. QED
      BY <1>7, <2>1, <3>1, <3>2, <3>3, <3>4
  <2>14. ShelfMatchesRecords
    BY <1>1, <1>4, <2>7, <2>9, <2>10, <2>11, <2>13, ShelfIs DEF Records, StoreTypeOK
  <2>15. ReleasesAreTraced
    <3>1. \A p \in Slips : TakenFor(uses, p) = 0 /\ uses[1].slip # p
      BY <2>3, <2>5, Names
    <3>. QED
      BY <1>1, <1>5, <2>3, <3>1 DEF ReleasesAreTraced, TakenFor
  <2>. QED
    BY <1>2, <2>7, <2>9, <2>10, <2>11, <2>12, <2>14, <2>15 DEF StoreInv
<1>. QED
  BY <1>6, <1>7 DEF StoreInit

\* Every step of the Store keeps the invariant.
LEMMA StoreKeeps == StoreInv /\ [StoreNext]_storeVars => StoreInv'
<1>. SUFFICES ASSUME StoreInv, [StoreNext]_storeVars PROVE StoreInv'
  OBVIOUS
<1>1. ASSUME NEW p \in Slips, Approve(p) PROVE StoreInv'
  BY <1>1, ApproveKeeps
<1>2. ASSUME NEW p \in Slips, Withdraw(p) PROVE StoreInv'
  BY <1>2, WithdrawKeeps
<1>3. CASE ReverseOpening
  BY <1>3, ReverseOpeningKeeps
<1>4. ASSUME NEW u \in Staff, NEW f \in Forms, NEW qty \in 1..MaxQty, NEW units \in SUBSET Serials,
             ReadForReceipt(u, f, qty, units)
      PROVE  StoreInv'
  BY <1>4, ReadForReceiptKeeps
<1>5. ASSUME NEW u \in Staff, NEW p \in Slips, NEW units \in SUBSET Serials, ReadForRelease(u, p, units)
      PROVE  StoreInv'
  BY <1>5, ReadForReleaseKeeps
<1>6. ASSUME NEW u \in Staff, NEW qty \in 1..MaxQty, NEW units \in SUBSET Serials, ReadForOpening(u, qty, units)
      PROVE  StoreInv'
  BY <1>6, ReadForOpeningKeeps
<1>7. ASSUME NEW u \in Staff, SaveReceipt(u) PROVE StoreInv'
  BY <1>7, SaveReceiptKeeps
<1>8. ASSUME NEW u \in Staff, SaveRelease(u) PROVE StoreInv'
  BY <1>8, SaveReleaseKeeps
<1>9. ASSUME NEW u \in Staff, SaveOpening(u) PROVE StoreInv'
  BY <1>9, SaveOpeningKeeps
<1>10. ASSUME NEW u \in Staff, GiveUpAtStore(u) PROVE StoreInv'
  BY <1>10, GiveUpAtStoreKeeps
<1>11. CASE UNCHANGED storeVars
  <2>1. StoreKept /\ UNCHANGED doing
    BY <1>11 DEF storeVars, StoreKept
  <2>2. OneImport' /\ UnitsChosen'
    <3>1. Present' = Present
      BY <2>1 DEF StoreKept, records, Present
    <3>. QED
      BY <2>1, <3>1 DEF StoreKept, StoreInv, OneImport, Importing, UnitsChosen
  <2>. QED
    BY <2>1, <2>2, QuietKeeps DEF StoreInv, StoreTypeOK
<1>. QED
  BY <1>1, <1>2, <1>3, <1>4, <1>5, <1>6, <1>7, <1>8, <1>9, <1>10, <1>11 DEF StoreNext

\* The invariant holds in every state the Store reaches.
LEMMA AlwaysStoreInv == StoreSpec => []StoreInv
BY StoreStarts, StoreKeeps, PTL DEF StoreSpec

\* Quantities never leave the naturals and every record names what exists:
\* stock is never below zero, a batch never gives more than it brought, a use
\* is of a known delivery and a unit is issued to a known request.
THEOREM StoreTypeCorrect == StoreSpec => []StoreTypeOK
<1>1. StoreInv => StoreTypeOK
  BY DEF StoreInv
<1>. QED
  BY <1>1, AlwaysStoreInv, PTL

\* "Stock and the receipt never disagree", for any number of staff, forms,
\* requests and units and any quantities: the aggregate of part_stock is what
\* the replayed deliveries, the batches or the units in stock add up to, what
\* is reserved is what is promised, and no more is promised than is there.
THEOREM ShelfAgrees == StoreSpec => []ShelfMatchesRecords
<1>1. StoreInv => ShelfMatchesRecords
  BY DEF StoreInv
<1>. QED
  BY <1>1, AlwaysStoreInv, PTL

\* Every release names deliveries or units for exactly what it took, and
\* nothing is recorded for a request that was not released.
THEOREM ReleasesTraced == StoreSpec => []ReleasesAreTraced
<1>1. StoreInv => ReleasesAreTraced
  BY DEF StoreInv
<1>. QED
  BY <1>1, AlwaysStoreInv, PTL

\* The closed form the proofs use for replayQuantityFifo: whatever was
\* recorded, and in whatever order, replaying every use from the start finds
\* in each delivery what it brought less what was taken from it, and never
\* less than nothing.
THEOREM ReplayFindsWhatIsLeft ==
  StoreSpec => [](tracking = "QUANTITY" => /\ Replay = [l \in Lots |-> Holds(l)]
                                           /\ \A l \in Lots : Holds(l) \in Nat)
<1>1. StoreInv => (tracking = "QUANTITY" => /\ Replay = [l \in Lots |-> Holds(l)]
                                            /\ \A l \in Lots : Holds(l) \in Nat)
  BY ReplayIsHolds, HoldsInt DEF StoreInv, NothingOverdrawn
<1>. QED
  BY <1>1, AlwaysStoreInv, PTL

\* Only a release records uses, and one that draws from a delivery empties the
\* older ones.
LEMMA OldestDrawnFirst ==
  ASSUME StoreInv, StoreInv', [StoreNext]_storeVars, NEW i \in DOMAIN uses' \ DOMAIN uses,
         uses'[i].lot \in Present, NEW l \in Older(uses'[i].lot)
  PROVE  Remaining'[l] = 0
<1>1. uses' # uses
  OBVIOUS
<1>2. PICK u \in Staff : SaveRelease(u) /\ tracking # "SERIALIZED"
  <2>1. ASSUME NEW p \in Slips PROVE ~ Approve(p) /\ ~ Withdraw(p)
    BY <1>1 DEF Approve, Withdraw, records
  <2>2. ~ ReverseOpening /\ ~ UNCHANGED storeVars
    BY <1>1 DEF ReverseOpening, storeVars, records
  <2>3. ASSUME NEW u \in Staff
        PROVE  /\ \A f \in Forms, qty \in 1..MaxQty, units \in SUBSET Serials : ~ ReadForReceipt(u, f, qty, units)
               /\ \A p \in Slips, units \in SUBSET Serials : ~ ReadForRelease(u, p, units)
               /\ \A qty \in 1..MaxQty, units \in SUBSET Serials : ~ ReadForOpening(u, qty, units)
               /\ ~ SaveReceipt(u) /\ ~ SaveOpening(u) /\ ~ GiveUpAtStore(u)
    BY <1>1 DEF ReadForReceipt, ReadForRelease, ReadForOpening, SaveReceipt, SaveOpening, GiveUpAtStore, Arrives, records
  <2>4. PICK u \in Staff : SaveRelease(u)
    BY <2>1, <2>2, <2>3 DEF StoreNext
  <2>5. tracking # "SERIALIZED"
    BY <1>1, <2>4 DEF SaveRelease
  <2>. QED
    BY <2>4, <2>5
<1>. DEFINE p == doing[u].slip
<1>3. /\ slip[p] = "APPROVED" /\ uses' = UsesWith(p, DrawnBy(p))
      /\ UNCHANGED <<tracking, lots, received>>
  BY <1>2 DEF SaveRelease, StillToRelease, DrawnBy
<1>4. p \in Slips
  <2>1. uses' \in Seq(Uses) /\ left' \in [Lots -> 0..MaxQty]
    BY DEF StoreInv, StoreTypeOK
  <2>. QED
    BY <1>2, <2>1, ReleaseTyped
<1>. HIDE DEF p
<1>5. PICK drawn : drawn = DrawnBy(p)
  OBVIOUS
<1>6. /\ \A o \in Lots : drawn[o] \in Nat /\ Holds(o) \in Nat /\ Holds(o)' = Holds(o) - drawn[o]
      /\ Logged(uses', p, drawn, Len(lots))
      /\ \A d \in Present : drawn[d] > 0 => \A o \in Older(d) : o \in Lots /\ drawn[o] = Holds(o)
  BY <1>2, <1>3, <1>4, <1>5, ReleaseDraws
<1>7. drawn[uses'[i].lot] > 0
  <2>1. uses \in Seq(Uses) /\ uses' \in Seq(Uses)
    BY DEF StoreInv, StoreTypeOK
  <2>2. i \in (Len(uses) + 1)..Len(uses')
    BY <2>1
  <2>. QED
    BY <1>6, <2>2 DEF Logged
<1>8. l \in Lots /\ drawn[l] = Holds(l)
  BY <1>6, <1>7
<1>9. Holds(l)' = 0
  BY <1>6, <1>8
<1>10. Remaining' = [d \in Lots |-> Holds(d)']
  <2>1. Records' /\ tracking' # "SERIALIZED"
    BY <1>2, <1>3 DEF StoreInv, Records
  <2>. QED
    BY <2>1, RemainingIsNext
<1>. QED
  BY <1>8, <1>9, <1>10

\* First in, first out: whatever was received, reversed, loaded or released
\* before, a release leaves nothing in a delivery older than one it draws from.
THEOREM FirstInFirstOut == StoreSpec => OldestFirst
<1>1. StoreInv /\ StoreInv' /\ [StoreNext]_storeVars =>
        [\A i \in DOMAIN uses' \ DOMAIN uses :
           (uses'[i].lot \in Present =>
             \A l \in Older(uses'[i].lot) : Remaining'[l] = 0)]_storeVars
  BY OldestDrawnFirst
<1>. QED
  BY <1>1, AlwaysStoreInv, PTL DEF StoreSpec, OldestFirst
=============================================================================
