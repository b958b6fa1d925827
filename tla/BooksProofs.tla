---------------------------- MODULE BooksProofs ----------------------------
(***************************************************************************)
(* For any transactions, accounts, cards, callers and currencies: history  *)
(* that was confirmed is not rewritten, what is deleted is reversed, and,  *)
(* as long as no account is renamed, the entries of a transaction describe *)
(* it.  However transactions are grouped and whatever their number, the    *)
(* pages and the exports of one period agree, and they agree with the      *)
(* ledger.  Balances and reports are sums over finite sets: what the       *)
(* provers are told of sums is proved here first, by induction over        *)
(* subsets.                                                                *)
(***************************************************************************)
EXTENDS Reports, FiniteSetTheorems, WellFoundedInduction, TLAPS

-----------------------------------------------------------------------------
(* Sums over finite sets *)

\* What holds of a finite set as soon as it holds of its proper subsets.
LEMMA SubsetInduction ==
  ASSUME NEW T, IsFiniteSet(T), NEW Good,
         \A s \in SUBSET T : (\A u \in SUBSET s : u # s => u \in Good) => s \in Good
  PROVE  SUBSET T \subseteq Good
<1> DEFINE Bad == (SUBSET T) \ Good
<1>1. Bad \subseteq FiniteSubsetsOf(T)
  BY FS_Subset DEF FiniteSubsetsOf
<1>2. SUFFICES ASSUME Bad # {} PROVE FALSE
  OBVIOUS
<1>3. \E x \in Bad : \A y \in Bad : ~(<<y, x>> \in StrictSubsetOrdering(T))
  <2> HIDE DEF Bad
  <2> QED BY <1>1, <1>2, FS_StrictSubsetOrderingWellFounded, WFMin
<1>4. PICK x \in Bad : \A y \in Bad : ~(<<y, x>> \in StrictSubsetOrdering(T))
  BY <1>3
<1>5. \A u \in SUBSET x : u # x => u \in Good
  <2> SUFFICES ASSUME NEW u \in SUBSET x, u # x, u \notin Good PROVE FALSE
    OBVIOUS
  <2>1. u \in Bad /\ <<u, x>> \in StrictSubsetOrdering(T)
    BY DEF StrictSubsetOrdering
  <2> QED BY <1>4, <2>1
<1>6. x \in Good
  BY <1>5
<1> QED BY <1>6

Pick(s) == CHOOSE x \in s : TRUE

\* The partial sums of f over the subsets of S, as the recursion of Functions
\* that g solves computes them.
PartialSums(f, S, g) ==
  [s \in SUBSET S |-> IF s = {} THEN 0 ELSE f[Pick(s)] + g[s \ {Pick(s)}]]

Solution(f, S) == CHOOSE g : g = PartialSums(f, S, g)

LEMMA Picked == ASSUME NEW s, s # {} PROVE Pick(s) \in s
BY DEF Pick

LEMMA SumIsSolution ==
  ASSUME NEW f, NEW S PROVE SumFunctionOnSet(f, S) = Solution(f, S)[S]
BY DEF SumFunctionOnSet, FoldFunctionOnSet, MapThenFoldSet, Solution, PartialSums, Pick

LEMMA SolutionsAgree ==
  ASSUME NEW f, NEW T, IsFiniteSet(T), NEW S \in SUBSET T, NEW g, g = PartialSums(f, S, g),
         NEW h, h = PartialSums(f, T, h)
  PROVE  \A u \in SUBSET S : g[u] = h[u]
<1> DEFINE Good == {u \in SUBSET S : g[u] = h[u]}
<1>1. IsFiniteSet(S)
  BY FS_Subset
<1>2. ASSUME NEW s \in SUBSET S, \A u \in SUBSET s : u # s => u \in Good PROVE s \in Good
  <2>1. /\ g[s] = IF s = {} THEN 0 ELSE f[Pick(s)] + g[s \ {Pick(s)}]
        /\ h[s] = IF s = {} THEN 0 ELSE f[Pick(s)] + h[s \ {Pick(s)}]
    BY DEF PartialSums
  <2>2. s # {} => g[s \ {Pick(s)}] = h[s \ {Pick(s)}]
    BY <1>2, Picked
  <2> QED BY <2>1, <2>2
<1> HIDE DEF Good
<1>3. SUBSET S \subseteq Good
  BY <1>1, <1>2, SubsetInduction
<1> QED BY <1>3 DEF Good

LEMMA SolutionExists ==
  ASSUME NEW f, NEW T, IsFiniteSet(T)
  PROVE  Solution(f, T) = PartialSums(f, T, Solution(f, T))
<1> DEFINE Good == {s \in SUBSET T : Solution(f, s) = PartialSums(f, s, Solution(f, s))}
<1>1. ASSUME NEW s \in SUBSET T, \A u \in SUBSET s : u # s => u \in Good PROVE s \in Good
  <2> DEFINE rest == s \ {Pick(s)}
             total == IF s = {} THEN 0 ELSE f[Pick(s)] + Solution(f, rest)[rest]
             h == [u \in SUBSET s |-> IF u = s THEN total ELSE Solution(f, u)[u]]
  <2>1. \A u \in SUBSET s : u # s => Solution(f, u) = PartialSums(f, u, Solution(f, u))
    BY <1>1
  <2>2. ASSUME NEW u \in SUBSET s
        PROVE  h[u] = IF u = {} THEN 0 ELSE f[Pick(u)] + h[u \ {Pick(u)}]
    <3>1. CASE u = s
      <4>1. s # {} => rest \in SUBSET s /\ rest # s
        BY Picked
      <4> QED BY <3>1, <4>1
    <3>2. CASE u # s /\ u = {}
      <4>1. Solution(f, u)[u] = 0
        BY <2>1, <3>2 DEF PartialSums
      <4> QED BY <3>2, <4>1
    <3>3. CASE u # s /\ u # {}
      <4> DEFINE v == u \ {Pick(u)}
      <4>1. v \in SUBSET u /\ v \in SUBSET s /\ v # s
        BY <3>3, Picked
      <4>2. Solution(f, u)[u] = f[Pick(u)] + Solution(f, u)[v]
        BY <2>1, <3>3 DEF PartialSums
      <4>3. Solution(f, v)[v] = Solution(f, u)[v]
        <5>1. IsFiniteSet(u) /\ v \in SUBSET v
          BY FS_Subset
        <5>2. /\ Solution(f, u) = PartialSums(f, u, Solution(f, u))
              /\ Solution(f, v) = PartialSums(f, v, Solution(f, v))
          BY <2>1, <3>3, <4>1
        <5> HIDE DEF v
        <5> QED BY <4>1, <5>1, <5>2, SolutionsAgree
      <4> QED BY <3>3, <4>1, <4>2, <4>3
    <3> QED BY <3>1, <3>2, <3>3
  <2> HIDE DEF h
  <2>3. h = PartialSums(f, s, h)
    <3>1. h = [u \in SUBSET s |-> h[u]]
      BY DEF h
    <3> QED BY <2>2, <3>1 DEF PartialSums
  <2>4. Solution(f, s) = PartialSums(f, s, Solution(f, s))
    BY <2>3 DEF Solution
  <2> QED BY <2>4
<1> HIDE DEF Good
<1>2. SUBSET T \subseteq Good
  BY <1>1, SubsetInduction
<1> QED BY <1>2 DEF Good

LEMMA SumEmpty == ASSUME NEW f PROVE SumFunctionOnSet(f, {}) = 0
<1>1. IsFiniteSet({})
  BY FS_EmptySet
<1>2. Solution(f, {}) = PartialSums(f, {}, Solution(f, {}))
  BY <1>1, SolutionExists
<1>3. Solution(f, {})[{}] = 0
  BY <1>2 DEF PartialSums
<1> QED BY <1>3, SumIsSolution

LEMMA SumPicked ==
  ASSUME NEW f, NEW S, IsFiniteSet(S), S # {}
  PROVE  SumFunctionOnSet(f, S) = f[Pick(S)] + SumFunctionOnSet(f, S \ {Pick(S)})
<1> DEFINE rest == S \ {Pick(S)}
<1>1. rest \in SUBSET S /\ IsFiniteSet(rest)
  BY FS_Subset
<1> HIDE DEF rest
<1>2. /\ Solution(f, S) = PartialSums(f, S, Solution(f, S))
      /\ Solution(f, rest) = PartialSums(f, rest, Solution(f, rest))
  BY <1>1, SolutionExists
<1>3. Solution(f, S)[S] = f[Pick(S)] + Solution(f, S)[rest]
  BY <1>2 DEF PartialSums, rest
<1>4. Solution(f, rest)[rest] = Solution(f, S)[rest]
  BY <1>1, <1>2, SolutionsAgree
<1> QED BY <1>3, <1>4, SumIsSolution DEF rest

LEMMA SumType ==
  ASSUME NEW T, IsFiniteSet(T), NEW f, \A x \in T : f[x] \in Int
  PROVE  SumFunctionOnSet(f, T) \in Int
<1> DEFINE Good == {s \in SUBSET T : SumFunctionOnSet(f, s) \in Int}
<1>1. ASSUME NEW s \in SUBSET T, \A u \in SUBSET s : u # s => u \in Good PROVE s \in Good
  <2>1. CASE s = {}
    BY <2>1, SumEmpty
  <2>2. CASE s # {}
    <3>1. IsFiniteSet(s) /\ Pick(s) \in s
      BY <2>2, FS_Subset, Picked
    <3>2. SumFunctionOnSet(f, s \ {Pick(s)}) \in Int
      BY <1>1, <3>1
    <3>3. SumFunctionOnSet(f, s) = f[Pick(s)] + SumFunctionOnSet(f, s \ {Pick(s)})
      BY <2>2, <3>1, SumPicked
    <3>4. f[Pick(s)] \in Int
      BY <3>1
    <3> QED BY <3>2, <3>3, <3>4
  <2> QED BY <2>1, <2>2
<1> HIDE DEF Good
<1>2. SUBSET T \subseteq Good
  BY <1>1, SubsetInduction
<1> QED BY <1>2 DEF Good

\* Any element may be taken out first.
LEMMA SumRemove ==
  ASSUME NEW T, IsFiniteSet(T), NEW f, \A x \in T : f[x] \in Int, NEW y \in T
  PROVE  SumFunctionOnSet(f, T) = f[y] + SumFunctionOnSet(f, T \ {y})
<1> DEFINE Good == {s \in SUBSET T : \A x \in s :
                      SumFunctionOnSet(f, s) = f[x] + SumFunctionOnSet(f, s \ {x})}
<1>1. ASSUME NEW s \in SUBSET T, \A u \in SUBSET s : u # s => u \in Good PROVE s \in Good
  <2> SUFFICES ASSUME NEW x \in s
               PROVE  SumFunctionOnSet(f, s) = f[x] + SumFunctionOnSet(f, s \ {x})
    OBVIOUS
  <2> DEFINE p == Pick(s)
             u == s \ {p}
             v == s \ {x}
             w == s \ {p, x}
  <2>1. /\ IsFiniteSet(s) /\ p \in s /\ IsFiniteSet(v) /\ IsFiniteSet(w)
        /\ f[p] \in Int /\ f[x] \in Int
    BY FS_Subset, Picked
  <2>2. SumFunctionOnSet(f, s) = f[p] + SumFunctionOnSet(f, u)
    BY <2>1, SumPicked
  <2>3. CASE p = x
    BY <2>2, <2>3
  <2>4. CASE p # x
    <3>1. /\ u \in SUBSET s /\ u # s /\ x \in u /\ u \ {x} = w
          /\ v \in SUBSET s /\ v # s /\ p \in v /\ v \ {p} = w
      BY <2>1, <2>4
    <3>2. u \in Good /\ v \in Good
      BY <1>1, <3>1
    <3>3. /\ SumFunctionOnSet(f, u) = f[x] + SumFunctionOnSet(f, w)
          /\ SumFunctionOnSet(f, v) = f[p] + SumFunctionOnSet(f, w)
      BY <3>1, <3>2
    <3>4. SumFunctionOnSet(f, w) \in Int
      BY <2>1, SumType
    <3> QED BY <2>1, <2>2, <3>3, <3>4
  <2> QED BY <2>3, <2>4
<1> HIDE DEF Good
<1>2. SUBSET T \subseteq Good
  BY <1>1, SubsetInduction
<1>3. T \in Good
  BY <1>2
<1> QED BY <1>3 DEF Good

\* A sum is over the values of the function, whatever it is called elsewhere.
LEMMA SumSame ==
  ASSUME NEW T, IsFiniteSet(T), NEW f, NEW g, \A x \in T : f[x] = g[x]
  PROVE  SumFunctionOnSet(f, T) = SumFunctionOnSet(g, T)
<1> DEFINE Good == {s \in SUBSET T : SumFunctionOnSet(f, s) = SumFunctionOnSet(g, s)}
<1>1. ASSUME NEW s \in SUBSET T, \A u \in SUBSET s : u # s => u \in Good PROVE s \in Good
  <2>1. CASE s = {}
    BY <2>1, SumEmpty
  <2>2. CASE s # {}
    <3>1. IsFiniteSet(s) /\ Pick(s) \in s
      BY <2>2, FS_Subset, Picked
    <3>2. SumFunctionOnSet(f, s \ {Pick(s)}) = SumFunctionOnSet(g, s \ {Pick(s)})
      BY <1>1, <3>1
    <3> QED BY <2>2, <3>1, <3>2, SumPicked
  <2> QED BY <2>1, <2>2
<1> HIDE DEF Good
<1>2. SUBSET T \subseteq Good
  BY <1>1, SubsetInduction
<1> QED BY <1>2 DEF Good

\* Terms that are zero may be left out.
LEMMA SumSkip ==
  ASSUME NEW T, IsFiniteSet(T), NEW f, \A x \in T : f[x] \in Int,
         NEW S \in SUBSET T, \A x \in T \ S : f[x] = 0
  PROVE  SumFunctionOnSet(f, S) = SumFunctionOnSet(f, T)
<1> DEFINE Good == {s \in SUBSET T : SumFunctionOnSet(f, s \cap S) = SumFunctionOnSet(f, s)}
<1>1. ASSUME NEW s \in SUBSET T, \A u \in SUBSET s : u # s => u \in Good PROVE s \in Good
  <2>1. CASE s \subseteq S
    <3>1. s \cap S = s
      BY <2>1
    <3> QED BY <3>1
  <2>2. CASE ~(s \subseteq S)
    <3>1. PICK x \in s : x \notin S
      BY <2>2
    <3>2. IsFiniteSet(s) /\ IsFiniteSet(s \ {x})
      BY FS_Subset
    <3>3. SumFunctionOnSet(f, s) = f[x] + SumFunctionOnSet(f, s \ {x})
      BY <3>2, SumRemove
    <3>4. f[x] = 0 /\ SumFunctionOnSet(f, s \ {x}) \in Int
      BY <3>1, <3>2, SumType
    <3>5. (s \ {x}) \cap S = s \cap S /\ s \ {x} \in Good
      BY <1>1, <3>1
    <3>6. SumFunctionOnSet(f, s \cap S) = SumFunctionOnSet(f, s \ {x})
      BY <3>5
    <3>7. SumFunctionOnSet(f, s \cap S) = SumFunctionOnSet(f, s)
      BY <3>3, <3>4, <3>6
    <3> QED BY <3>7
  <2> QED BY <2>1, <2>2
<1> HIDE DEF Good
<1>2. T \in Good
  BY <1>1, SubsetInduction
<1>3. T \cap S = S
  OBVIOUS
<1> QED BY <1>2, <1>3 DEF Good

\* A term that joins a sum.
LEMMA SumAdd ==
  ASSUME NEW T, IsFiniteSet(T), NEW f, \A x \in T : f[x] \in Int, NEW y, y \notin T, f[y] \in Int
  PROVE  SumFunctionOnSet(f, T \cup {y}) = f[y] + SumFunctionOnSet(f, T)
<1>1. (T \cup {y}) \ {y} = T /\ y \in T \cup {y} /\ IsFiniteSet(T \cup {y})
  BY FS_AddElement
<1>2. \A x \in T \cup {y} : f[x] \in Int
  OBVIOUS
<1> QED BY <1>1, <1>2, SumRemove

-----------------------------------------------------------------------------
(* Histories *)

\* A transaction is a record, if only the blank one.
Shape ==
  /\ tx = [t \in Txs |-> tx[t]] /\ pair = [t \in Txs |-> pair[t]]
  /\ \A t \in Txs : tx[t] = NewTx(tx[t].status, tx[t].type, tx[t].amount, tx[t].currency,
                                  tx[t].account, tx[t].card)

\* Only what is kept for good has entries, and they are mirrored with its deletion.
Posted ==
  \A t \in Txs :
    /\ pair[t] # None => tx[t].status \in {"confirmed", "voided"}
    /\ t \in reversed <=> pair[t] # None /\ tx[t].status = "voided"

Inv == Shape /\ Posted

\* What an action may do to a transaction.
Steady == UNCHANGED <<tx, pair, reversed>>

\* A draft is written or overwritten.
Draft(t) ==
  /\ tx[t].status \in {"absent", "draft"}
  /\ \E type, amount, c, a, k : tx' = [tx EXCEPT ![t] = NewTx("draft", type, amount, c, a, k)]
  /\ UNCHANGED <<pair, reversed>>

\* A transaction enters as confirmed, posted at once or, for a correction, as it was.
Enter(t) ==
  /\ tx[t].status = "absent"
  /\ \E type, amount, c, a, k : tx' = [tx EXCEPT ![t] = NewTx("confirmed", type, amount, c, a, k)]
  /\ \E p : pair' = [pair EXCEPT ![t] = p]
  /\ UNCHANGED reversed

LEMMA InitInv == Init => Inv
  BY DEF Init, Inv, Shape, Posted, NoTx, NewTx

LEMMA DraftingSplit ==
  ASSUME NEW t \in Txs, Drafting(t)
  PROVE  Draft(t) \/ Enter(t)
<1>1. PICK type \in Types, n \in Typed, c \in Currencies, a \in Accounts, k \in Cards \cup {None} :
        \/ CreateManual(t, type, n, c, a, k)
        \/ UpdateManual(t, type, n, c, a, k)
        \/ Accept(t, type, n, c, a, k)
        \/ \E own \in Names, other \in BookNames : AcceptPosted(t, type, n, c, a, k, own, other)
  BY DEF Drafting
<1>2. CASE \/ CreateManual(t, type, n, c, a, k)
           \/ UpdateManual(t, type, n, c, a, k)
           \/ Accept(t, type, n, c, a, k)
  BY <1>2 DEF CreateManual, UpdateManual, Accept, Editable, Drafted, Draft
<1>3. CASE \E own \in Names, other \in BookNames : AcceptPosted(t, type, n, c, a, k, own, other)
  <2>1. PICK own \in Names, other \in BookNames : AcceptPosted(t, type, n, c, a, k, own, other)
    BY <1>3
  <2>2. pair' = [pair EXCEPT ![t] = PairFor(type, n, c, own, other)]
    BY <2>1 DEF AcceptPosted
  <2>3. tx' = [tx EXCEPT ![t] = NewTx("confirmed", type, n, c, a, k)]
    BY <2>1 DEF AcceptPosted
  <2>4. tx[t].status = "absent" /\ UNCHANGED reversed
    BY <2>1 DEF AcceptPosted
  <2> QED BY <2>2, <2>3, <2>4 DEF Enter
<1> QED BY <1>1, <1>2, <1>3

LEMMA OpeningSplit ==
  ASSUME NEW p \in Callers, Opening(p)
  PROVE  Steady \/ \E t \in Txs : Enter(t)
<1>1. CASE \/ \E a \in Accounts : BeginOpening(p, a)
           \/ \E a \in Accounts, m \in Openings : BeginCorrection(p, a, m)
  BY <1>1 DEF BeginOpening, BeginCorrection, Steady
<1>2. CASE \E t \in Txs : FinishOpening(p, t)
  <2>1. PICK t \in Txs : FinishOpening(p, t)
    BY <1>2
  <2>2. CASE UNCHANGED <<book, tx, pair>>
    BY <2>1, <2>2 DEF FinishOpening, Steady
  <2>3. CASE ~UNCHANGED <<book, tx, pair>>
    BY <2>1, <2>3 DEF FinishOpening, Enter
  <2> QED BY <2>2, <2>3
<1> QED BY <1>1, <1>2 DEF Opening

LEMMA DraftStep ==
  ASSUME Inv, NEW t \in Txs, Draft(t)
  PROVE  Inv'
<1> USE DEF Inv
<1>1. PICK type, amount, c, a, k : tx' = [tx EXCEPT ![t] = NewTx("draft", type, amount, c, a, k)]
  BY DEF Draft
<1>2. Shape'
  BY <1>1 DEF Shape, Draft, NewTx
<1>3. Posted'
  BY <1>1 DEF Shape, Posted, Draft, NewTx
<1> QED BY <1>2, <1>3

LEMMA EnterStep ==
  ASSUME Inv, NEW t \in Txs, Enter(t)
  PROVE  Inv'
<1> USE DEF Inv
<1>1. PICK type, amount, c, a, k :
        tx' = [tx EXCEPT ![t] = NewTx("confirmed", type, amount, c, a, k)]
  BY DEF Enter
<1>2. PICK p : pair' = [pair EXCEPT ![t] = p]
  BY DEF Enter
<1>3. Shape'
  BY <1>1, <1>2 DEF Shape, NewTx
<1>4. Posted'
  BY <1>1, <1>2 DEF Shape, Posted, Enter, NewTx
<1> QED BY <1>3, <1>4

LEMMA KeepingStep ==
  ASSUME Inv, NEW t \in Txs, Keeping(t)
  PROVE  Inv'
<1> USE DEF Inv
<1>1. CASE Resave(t)
  <2>1. Draft(t)
    BY <1>1 DEF Resave, UpdateManual, Editable, Drafted, Draft
  <2> QED BY <2>1, DraftStep
<1>2. CASE Confirm(t)
  <2>1. Shape'
    BY <1>2 DEF Confirm, Shape, NewTx
  <2>2. Posted'
    BY <1>2 DEF Confirm, Shape, Posted, NewTx
  <2> QED BY <2>1, <2>2
<1>3. CASE Delete(t)
  <2>1. Shape'
    BY <1>3 DEF Delete, Shape, NewTx
  <2>2. Posted'
    BY <1>3 DEF Delete, Mirrored, NothingToUndo, Shape, Posted, NewTx
  <2> QED BY <2>1, <2>2
<1>4. CASE \E own \in Names, other \in BookNames : Post(t, own, other)
  <2>1. PICK own \in Names, other \in BookNames : Post(t, own, other)
    BY <1>4
  <2>2. PICK p : pair' = [pair EXCEPT ![t] = p]
    BY <2>1 DEF Post
  <2> QED BY <2>1, <2>2 DEF Post, Shape, Posted
<1>5. CASE \E type \in Types, a \in Accounts, k \in Cards \cup {None} : Correct(t, type, a, k)
  <2>1. PICK type \in Types, a \in Accounts, k \in Cards \cup {None} : Correct(t, type, a, k)
    BY <1>5
  <2>2. Shape'
    BY <2>1 DEF Correct, Shape, NewTx
  <2>3. Posted'
    BY <2>1 DEF Correct, Correctable, Shape, Posted, NewTx
  <2> QED BY <2>2, <2>3
<1> QED BY <1>1, <1>2, <1>3, <1>4, <1>5 DEF Keeping

\* The rest of the program leaves transactions and entries alone.
LEMMA SteadyActions ==
  ASSUME \/ \E a \in Accounts : EnsureLedger(a)
         \/ \E edit \in AdminEdits, v \in Names \cup AccountTypes \cup Currencies :
              AdminEdit(edit[1], edit[2], v)
         \/ \E k \in Cards, a \in Accounts, s \in Accounts \cup {None} : UpdateMapping(k, a, s)
  PROVE  Steady
  BY DEF EnsureLedger, AdminEdit, UpdateMapping, Steady

LEMMA NextSplit ==
  ASSUME Next
  PROVE  \/ Steady
         \/ \E t \in Txs : Draft(t) \/ Enter(t) \/ Keeping(t)
  BY DraftingSplit, OpeningSplit, SteadyActions DEF Next

LEMMA SteadyStep == ASSUME Inv, Steady PROVE Inv'
  BY DEF Inv, Steady, Shape, Posted

LEMMA InvAlways == Spec => []Inv
<1>1. Inv /\ [Next]_vars => Inv'
  <2> SUFFICES ASSUME Inv, [Next]_vars PROVE Inv'
    OBVIOUS
  <2>1. CASE UNCHANGED vars
    BY <2>1, SteadyStep DEF vars, Steady
  <2>2. CASE Next
    BY <2>2, NextSplit, SteadyStep, DraftStep, EnterStep, KeepingStep
  <2> QED BY <2>1, <2>2
<1> QED BY <1>1, InitInv, PTL DEF Spec

\* What is posted stays as it was posted, but for the void of its deletion.
LEMMA KeepingKeeps ==
  ASSUME Inv, NEW t \in Txs, Keeping(t)
  PROVE  /\ \A x \in Txs \ {t} : tx'[x] = tx[x] /\ pair'[x] = pair[x]
         /\ tx[t].status = "confirmed" =>
              tx'[t].status \in {"confirmed", "voided"} /\ tx'[t].amount = tx[t].amount
         /\ tx[t].status = "voided" => tx'[t] = tx[t]
         /\ pair[t] # None => /\ pair'[t] = pair[t]
                              /\ tx'[t] \in {tx[t], [tx[t] EXCEPT !.status = "voided"]}
         /\ \A x \in reversed : x \in reversed'
<1> USE DEF Inv
<1>1. CASE Resave(t)
  BY <1>1 DEF Resave, UpdateManual, Editable, Drafted, Shape, Posted
<1>2. CASE Confirm(t)
  BY <1>2 DEF Confirm, Shape, Posted
<1>3. CASE Delete(t)
  <2>1. tx'[t] = [tx[t] EXCEPT !.status = "voided"] /\ tx[t].status # "voided"
    BY <1>3 DEF Delete, Shape
  <2>2. tx'[t].status = "voided" /\ tx'[t].amount = tx[t].amount
    BY <2>1 DEF Shape, NewTx
  <2>3. \A x \in Txs \ {t} : tx'[x] = tx[x]
    BY <1>3 DEF Delete, Shape
  <2> QED BY <1>3, <2>1, <2>2, <2>3 DEF Delete, Mirrored
<1>4. CASE \E own \in Names, other \in BookNames : Post(t, own, other)
  BY <1>4 DEF Post, Shape, Posted
<1>5. CASE \E type \in Types, a \in Accounts, k \in Cards \cup {None} : Correct(t, type, a, k)
  <2>1. PICK type \in Types, a \in Accounts, k \in Cards \cup {None} : Correct(t, type, a, k)
    BY <1>5
  <2>2. tx' = [tx EXCEPT ![t] = NewTx("confirmed", type, tx[t].amount, tx[t].currency, a, k)]
    BY <2>1 DEF Correct
  <2>3. /\ \A x \in Txs \ {t} : tx'[x] = tx[x]
        /\ tx'[t].status = "confirmed" /\ tx'[t].amount = tx[t].amount
    BY <2>2 DEF Shape, NewTx
  <2> QED BY <2>1, <2>3 DEF Correct, Correctable
<1> QED BY <1>1, <1>2, <1>3, <1>4, <1>5 DEF Keeping

LEMMA EntersAnew ==
  ASSUME Inv, NEW t \in Txs, Draft(t) \/ Enter(t)
  PROVE  /\ tx[t].status \in {"absent", "draft"} /\ pair[t] = None
         /\ \A x \in Txs \ {t} : tx'[x] = tx[x] /\ pair'[x] = pair[x]
         /\ reversed' = reversed
<1>1. CASE Draft(t)
  <2>1. PICK type, amount, c, a, k : tx' = [tx EXCEPT ![t] = NewTx("draft", type, amount, c, a, k)]
    BY <1>1 DEF Draft
  <2> QED BY <1>1, <2>1 DEF Draft, Inv, Shape, Posted
<1>2. CASE Enter(t)
  <2>1. PICK type, amount, c, a, k :
          tx' = [tx EXCEPT ![t] = NewTx("confirmed", type, amount, c, a, k)]
    BY <1>2 DEF Enter
  <2>2. PICK p : pair' = [pair EXCEPT ![t] = p]
    BY <1>2 DEF Enter
  <2> QED BY <1>2, <2>1, <2>2 DEF Enter, Inv, Shape, Posted
<1> QED BY <1>1, <1>2

\* What no step may do to a transaction that was confirmed or posted.
Kept(t) ==
  /\ tx[t].status = "confirmed" =>
       tx'[t].status \in {"confirmed", "voided"} /\ tx'[t].amount = tx[t].amount
  /\ tx[t].status = "voided" => tx'[t] = tx[t]
  /\ pair[t] # None =>
       /\ pair'[t] = pair[t]
       /\ tx'[t] \in {tx[t], [tx[t] EXCEPT !.status = "voided"]}
  /\ t \in reversed => t \in reversed'

LEMMA StepKeeps == ASSUME Inv, Next, NEW x \in Txs PROVE Kept(x)
<1>1. CASE Steady
  BY <1>1 DEF Steady, Kept
<1>2. ASSUME NEW t \in Txs, Draft(t) \/ Enter(t) PROVE Kept(x)
  BY <1>2, EntersAnew DEF Kept
<1>3. ASSUME NEW t \in Txs, Keeping(t) PROVE Kept(x)
  <2>1. CASE x = t
    BY <1>3, <2>1, KeepingKeeps DEF Kept
  <2>2. CASE x # t
    BY <1>3, <2>2, KeepingKeeps DEF Kept
  <2> QED BY <2>1, <2>2
<1> QED BY <1>1, <1>2, <1>3, NextSplit

\* Confirmed history is only ever voided: update_manual_transaction,
\* correct_confirmed_transaction, delete_transaction and the opening-balance services
\* leave amounts, entries and what was voided alone, for any number of transactions.
THEOREM HistoryAlwaysKept == Spec => HistoryKept
<1>1. ASSUME Inv, [Next]_vars PROVE [\A t \in Txs : Kept(t)]_vars
  BY <1>1, StepKeeps
<1> QED BY <1>1, InvAlways, PTL DEF Spec, HistoryKept, Kept

\* The deletion of a posted transaction and the reversal of its entries are one: no
\* entry stands without its transaction and none is mirrored under one that counts
\* (delete_transaction, reverse_transaction_postings).
ReversedWhenVoided ==
  \A t \in Txs : t \in reversed <=> pair[t] # None /\ tx[t].status = "voided"

\* It holds for any number of transactions, whoever posts and deletes them.
THEOREM DeletionReverses == Spec => []ReversedWhenVoided
<1>1. Inv => ReversedWhenVoided
  BY DEF Inv, Posted, ReversedWhenVoided
<1> QED BY <1>1, InvAlways, PTL

-----------------------------------------------------------------------------
(* The entries of a transaction describe it *)

\* No account is renamed after its ledger account was made.
NoRenames == \A edit \in AdminEdits : edit[2] # "name"

AccountsNamed ==
  /\ account \in [Accounts -> Financial]
  /\ \A a \in Accounts : account[a].name = InitialAccounts[a].name

CallsNamed ==
  /\ call = [p \in Callers |-> call[p]]
  /\ \A p \in Callers : call[p] # None =>
       /\ call[p].account \in Accounts /\ call[p].target \in Int
       /\ call[p].seen \in Financial
       /\ call[p].seen.name = InitialAccounts[call[p].account].name

\* The ledger accounts of a chart that stand for a financial account.
StandingIn(books, a) == {n \in BookNames : books[n] # None /\ books[n].of = a}

\* A ledger account of a financial account bears its name, and no other stands for one.
OwnedIn(books) ==
  /\ books = [n \in BookNames |-> books[n]]
  /\ \A n \in BookNames : books[n] # None =>
       IF n \in Names THEN books[n].of \in Accounts /\ InitialAccounts[books[n].of].name = n
       ELSE books[n].of = None

Chart == AccountsNamed /\ CallsNamed /\ OwnedIn(book)

LEMMA InitChart == Init => Chart
<1> SUFFICES ASSUME Init PROVE Chart
  OBVIOUS
<1>1. AccountsNamed /\ CallsNamed
  BY BooksAssumption DEF Init, AccountsNamed, CallsNamed
<1>2. OwnedIn(book)
  BY BooksAssumption DEF Init, OwnedIn, BookNames
<1> QED BY <1>1, <1>2 DEF Chart

\* ensure_ledger_account_for gives an account a ledger account of its own and takes
\* none from another.
LEMMA LedgerMade ==
  ASSUME OwnedIn(book), NEW a \in Accounts, NEW fa \in Financial,
         fa.name = InitialAccounts[a].name
  PROVE  /\ OwnedIn(WithLedger(a, fa))
         /\ \A x \in Accounts \cup {None} : Standing(x) \subseteq StandingIn(WithLedger(a, fa), x)
         /\ LedgerName(a, fa) \in StandingIn(WithLedger(a, fa), a)
<1>0. fa.name \in Names /\ fa.name \in BookNames
  BY DEF Financial, BookNames
<1>1. CASE Standing(a) # {}
  <2>1. WithLedger(a, fa) = book /\ LedgerName(a, fa) \in Standing(a)
    BY <1>1 DEF WithLedger, LedgerName
  <2> QED BY <2>1 DEF Standing, StandingIn
<1>2. CASE Standing(a) = {}
  <2>1. book[fa.name] = None
    <3>1. SUFFICES ASSUME book[fa.name] # None PROVE FALSE
      OBVIOUS
    <3>2. /\ book[fa.name].of \in Accounts
          /\ InitialAccounts[book[fa.name].of].name = InitialAccounts[a].name
      BY <1>0, <3>1 DEF OwnedIn
    <3>3. book[fa.name].of = a
      BY <3>2, BooksAssumption
    <3> QED BY <1>0, <1>2, <3>1, <3>3 DEF Standing
  <2> DEFINE new == [type |-> LedgerTypes[fa.type], of |-> a]
  <2>2. new \in LedgerAccounts /\ new.of = a
    BY DEF LedgerAccounts, Financial, LedgerTypes
  <2>3. new # None
    BY <2>2, BooksAssumption
  <2>4. WithLedger(a, fa) = [book EXCEPT ![fa.name] = new] /\ LedgerName(a, fa) = fa.name
    BY <1>2, <2>1 DEF WithLedger, LedgerName
  <2>5. /\ WithLedger(a, fa)[fa.name] = new
        /\ \A n \in BookNames \ {fa.name} : WithLedger(a, fa)[n] = book[n]
        /\ WithLedger(a, fa) = [n \in BookNames |-> WithLedger(a, fa)[n]]
    BY <1>0, <2>4 DEF OwnedIn
  <2> HIDE DEF new
  <2>6. OwnedIn(WithLedger(a, fa))
    BY <1>0, <2>2, <2>5 DEF OwnedIn
  <2>7. \A x \in Accounts \cup {None} : Standing(x) \subseteq StandingIn(WithLedger(a, fa), x)
    BY <1>0, <2>1, <2>5 DEF Standing, StandingIn
  <2>8. LedgerName(a, fa) \in StandingIn(WithLedger(a, fa), a)
    BY <1>0, <2>2, <2>3, <2>4, <2>5 DEF StandingIn
  <2> QED BY <2>6, <2>7, <2>8
<1> QED BY <1>1, <1>2

LEMMA EquityMade ==
  ASSUME NEW books, OwnedIn(books)
  PROVE  /\ OwnedIn(WithEquity(books))
         /\ \A x \in Accounts \cup {None} : StandingIn(books, x) \subseteq StandingIn(WithEquity(books), x)
<1> DEFINE equity == [type |-> "equity", of |-> None]
<1>1. equity.of = None
  OBVIOUS
<1>2. Equity \in BookNames /\ Equity \notin Names /\ None \notin Accounts
  BY BooksAssumption DEF BookNames
<1>4. equity # None
  <2>1. equity \in LedgerAccounts
    BY DEF LedgerAccounts
  <2> QED BY <2>1, BooksAssumption
<1>3. /\ WithEquity(books)[Equity] = equity
      /\ \A n \in BookNames \ {Equity} : WithEquity(books)[n] = books[n]
      /\ WithEquity(books) = [n \in BookNames |-> WithEquity(books)[n]]
  BY <1>2 DEF WithEquity, OwnedIn
<1> HIDE DEF equity
<1>5. OwnedIn(WithEquity(books))
  BY <1>1, <1>2, <1>3 DEF OwnedIn
<1>6. \A x \in Accounts \cup {None} : StandingIn(books, x) \subseteq StandingIn(WithEquity(books), x)
  BY <1>1, <1>2, <1>3, <1>4 DEF OwnedIn, StandingIn
<1> QED BY <1>5, <1>6

\* The ledger accounts that stand for an account stay.
Grows == \A x \in Accounts \cup {None} : Standing(x) \subseteq StandingIn(book', x)

LEMMA StandingIs == \A x : Standing(x) = StandingIn(book, x)
  BY DEF Standing, StandingIn

LEMMA ChartSame ==
  ASSUME Chart, UNCHANGED <<account, book, call>>
  PROVE  Chart' /\ Grows
  BY StandingIs DEF Chart, AccountsNamed, CallsNamed, OwnedIn, Grows, StandingIn

LEMMA TransactionsOnly ==
  ASSUME NEW t \in Txs, Drafting(t) \/ Keeping(t)
  PROVE  UNCHANGED <<account, book, call>>
  BY DEF Drafting, Keeping, CreateManual, UpdateManual, Accept, Drafted, AcceptPosted, Confirm,
         Resave, Delete, Post, Correct

LEMMA BeginStep ==
  ASSUME Chart, NEW p \in Callers, NEW a \in Accounts,
         BeginOpening(p, a) \/ \E m \in Openings : BeginCorrection(p, a, m)
  PROVE  Chart' /\ Grows
<1>1. UNCHANGED <<account, book>>
  BY DEF BeginOpening, BeginCorrection
<1>2. PICK target, already, corrects :
        /\ call' = [call EXCEPT ![p] = [account |-> a, corrects |-> corrects, target |-> target,
                                        already |-> already, seen |-> account[a]]]
        /\ target \in Int
  <2>1. CASE BeginOpening(p, a)
    <3>1. account[a].opening.minor \in Int
      BY <2>1 DEF BeginOpening, Chart, AccountsNamed, Financial, Sums
    <3> QED BY <2>1, <3>1 DEF BeginOpening
  <2>2. CASE \E m \in Openings : BeginCorrection(p, a, m)
    BY <2>2, BooksAssumption DEF BeginCorrection
  <2> QED BY <2>1, <2>2
<1>3. CallsNamed'
  <2> DEFINE new == [account |-> a, corrects |-> corrects, target |-> target,
                     already |-> already, seen |-> account[a]]
  <2>1. /\ new.account = a /\ new.target \in Int
        /\ new.seen \in Financial /\ new.seen.name = InitialAccounts[a].name
    BY <1>2 DEF Chart, AccountsNamed
  <2>2. /\ call'[p] = new /\ \A q \in Callers \ {p} : call'[q] = call[q]
        /\ call' = [q \in Callers |-> call'[q]]
    BY <1>2 DEF Chart, CallsNamed
  <2> HIDE DEF new
  <2> QED BY <2>1, <2>2 DEF Chart, CallsNamed
<1>4. AccountsNamed' /\ OwnedIn(book')
  BY <1>1 DEF Chart, AccountsNamed
<1>5. Grows
  BY <1>1, StandingIs DEF Grows
<1> QED BY <1>3, <1>4, <1>5 DEF Chart

\* The two entries of an opening balance: what account they are on, and their amount.
LEMMA FinishStep ==
  ASSUME Chart, NEW p \in Callers, NEW t \in Txs, FinishOpening(p, t)
  PROVE  /\ Chart' /\ Grows
         /\ call[p].account \in Accounts
         /\ \/ UNCHANGED <<tx, pair>>
            \/ /\ LedgerName(call[p].account, call[p].seen) \in StandingIn(book', call[p].account)
               /\ tx[t].status = "absent"
               /\ \E amount, grows :
                    LET n == LedgerName(call[p].account, call[p].seen)
                        c == call[p].seen.currency
                    IN /\ tx' = [tx EXCEPT ![t] = NewTx("confirmed", "opening_balance", amount, c,
                                                        call[p].account, None)]
                       /\ pair' = [pair EXCEPT ![t] =
                            [debit |-> IF grows THEN n ELSE Equity,
                             credit |-> IF grows THEN Equity ELSE n,
                             amount |-> amount, currency |-> c]]
<1> DEFINE a == call[p].account
           seen == call[p].seen
           difference == call[p].target - call[p].already
<1>1. /\ a \in Accounts /\ seen \in Financial /\ call[p].target \in Int
      /\ seen.name = InitialAccounts[a].name
  BY DEF FinishOpening, Chart, CallsNamed
<1>2. AccountsNamed'
  <2>1. CASE account' = account
    BY <2>1 DEF Chart, AccountsNamed
  <2>2. CASE account' = [account EXCEPT ![a].opening =
                           [minor |-> call[p].target, currency |-> seen.currency]]
    <3>1. [minor |-> call[p].target, currency |-> seen.currency] \in Sums
      BY <1>1 DEF Financial, Sums
    <3>2. \A o \in Sums : [account[a] EXCEPT !.opening = o] \in Financial
      BY <1>1 DEF Chart, AccountsNamed, Financial
    <3>3. account' = [account EXCEPT ![a] = [account[a] EXCEPT !.opening =
                        [minor |-> call[p].target, currency |-> seen.currency]]]
      BY <2>2
    <3>4. \A o \in Sums : [account[a] EXCEPT !.opening = o].name = account[a].name
      BY <1>1 DEF Chart, AccountsNamed, Financial
    <3> QED BY <1>1, <3>1, <3>2, <3>3, <3>4 DEF Chart, AccountsNamed
  <2> QED BY <2>1, <2>2 DEF FinishOpening
<1>3. CallsNamed'
  <2>1. call' = [call EXCEPT ![p] = None]
    BY DEF FinishOpening
  <2> QED BY <2>1 DEF Chart, CallsNamed
<1>4. CASE difference = 0
  <2>1. UNCHANGED <<book, tx, pair>>
    BY <1>4 DEF FinishOpening
  <2>2. OwnedIn(book') /\ Grows
    BY <2>1, StandingIs DEF Chart, Grows
  <2> QED BY <1>1, <1>2, <1>3, <2>1, <2>2 DEF Chart
<1>5. CASE difference # 0
  <2> DEFINE books == WithLedger(a, seen)
             n == LedgerName(a, seen)
  <2>1. /\ book' = WithEquity(books)
        /\ tx[t].status = "absent"
        /\ tx' = [tx EXCEPT ![t] = NewTx("confirmed", "opening_balance", Magnitude(difference),
                                         seen.currency, a, None)]
        /\ pair' = [pair EXCEPT ![t] = OpeningPair(n, books, difference, seen.currency)]
    BY <1>5 DEF FinishOpening
  <2>2. /\ OwnedIn(books) /\ n \in StandingIn(books, a)
        /\ \A x \in Accounts \cup {None} : Standing(x) \subseteq StandingIn(books, x)
    BY <1>1, LedgerMade DEF Chart
  <2> HIDE DEF books, n
  <2>3. OwnedIn(book') /\ n \in StandingIn(book', a) /\ Grows
    BY <1>1, <2>1, <2>2, EquityMade DEF Grows
  <2>4. OpeningPair(n, books, difference, seen.currency) =
          [debit |-> IF Debited(books[n], difference) THEN n ELSE Equity,
           credit |-> IF Debited(books[n], difference) THEN Equity ELSE n,
           amount |-> Magnitude(difference), currency |-> seen.currency]
    BY DEF OpeningPair
  <2> QED BY <1>1, <1>2, <1>3, <2>1, <2>3, <2>4 DEF Chart, n
<1> QED BY <1>4, <1>5

LEMMA AdminStep ==
  ASSUME NoRenames, Chart, NEW edit \in AdminEdits,
         NEW v \in Names \cup AccountTypes \cup Currencies, AdminEdit(edit[1], edit[2], v)
  PROVE  Chart' /\ Grows
<1>1. edit[1] \in Accounts /\ edit[2] \in {"account_type", "currency"}
  BY BooksAssumption DEF NoRenames
<1>2. UNCHANGED <<book, call>>
  BY DEF AdminEdit
<1>3. AccountsNamed'
  <2> DEFINE a == edit[1]
  <2>1. CASE edit[2] = "account_type"
    <3>1. v \in DOMAIN LedgerTypes /\ account' = [account EXCEPT ![a] = [account[a] EXCEPT !.type = v]]
      BY <2>1, BooksAssumption DEF AdminEdit
    <3>2. /\ [account[a] EXCEPT !.type = v] \in Financial
          /\ [account[a] EXCEPT !.type = v].name = account[a].name
      BY <1>1, <3>1 DEF Chart, AccountsNamed, Financial
    <3> QED BY <1>1, <3>1, <3>2 DEF Chart, AccountsNamed
  <2>2. CASE edit[2] = "currency"
    <3>1. v \in Currencies /\ account' = [account EXCEPT ![a] = [account[a] EXCEPT !.currency = v]]
      BY <2>2 DEF AdminEdit
    <3>2. /\ [account[a] EXCEPT !.currency = v] \in Financial
          /\ [account[a] EXCEPT !.currency = v].name = account[a].name
      BY <1>1, <3>1 DEF Chart, AccountsNamed, Financial
    <3> QED BY <1>1, <3>1, <3>2 DEF Chart, AccountsNamed
  <2> QED BY <1>1, <2>1, <2>2
<1>4. CallsNamed' /\ OwnedIn(book')
  BY <1>2 DEF Chart, CallsNamed
<1>5. Grows
  BY <1>2, StandingIs DEF Grows
<1> QED BY <1>3, <1>4, <1>5 DEF Chart

LEMMA EnsureStep ==
  ASSUME Chart, NEW a \in Accounts, EnsureLedger(a)
  PROVE  Chart' /\ Grows
<1>1. account[a] \in Financial /\ account[a].name = InitialAccounts[a].name
  BY DEF Chart, AccountsNamed
<1>2. /\ OwnedIn(WithLedger(a, account[a]))
      /\ \A x \in Accounts \cup {None} : Standing(x) \subseteq StandingIn(WithLedger(a, account[a]), x)
  BY <1>1, LedgerMade DEF Chart
<1>3. book' = WithLedger(a, account[a]) /\ UNCHANGED <<account, call>>
  BY DEF EnsureLedger
<1> QED BY <1>2, <1>3 DEF Chart, Grows, AccountsNamed, CallsNamed

LEMMA ChartStep ==
  ASSUME NoRenames, Chart, Next
  PROVE  Chart' /\ Grows
<1>1. CASE \E t \in Txs : Drafting(t) \/ Keeping(t)
  BY <1>1, TransactionsOnly, ChartSame
<1>2. CASE \E p \in Callers : Opening(p)
  BY <1>2, BeginStep, FinishStep DEF Opening
<1>3. CASE \E a \in Accounts : EnsureLedger(a)
  BY <1>3, EnsureStep
<1>4. CASE \E edit \in AdminEdits, v \in Names \cup AccountTypes \cup Currencies :
             AdminEdit(edit[1], edit[2], v)
  BY <1>4, AdminStep
<1>5. CASE \E k \in Cards, a \in Accounts, s \in Accounts \cup {None} : UpdateMapping(k, a, s)
  BY <1>5, ChartSame DEF UpdateMapping
<1> QED BY <1>1, <1>2, <1>3, <1>4, <1>5 DEF Next

\* What EntriesDescribe says of one posted transaction, read in a chart.
Describes(x, p, books) ==
  /\ x.status \in {"confirmed", "voided"}
  /\ p.amount = x.amount /\ p.currency = x.currency
  /\ IF x.type = "opening_balance"
     THEN \E n \in StandingIn(books, x.account) : {p.debit, p.credit} = {n, Equity}
     ELSE /\ x.type \in DOMAIN PostingRules
          /\ \E n \in StandingIn(books, x.account) :
               n = IF PostingRules[x.type] = "in" THEN p.debit ELSE p.credit

LEMMA DescribesIs ==
  EntriesDescribe <=> \A t \in Txs : pair[t] # None => Describes(tx[t], pair[t], book)
  BY StandingIs DEF EntriesDescribe, Describes

\* The pair a rule makes is on the transaction's own account.
LEMMA PairDescribes ==
  ASSUME NEW x, NEW books, NEW own \in StandingIn(books, x.account), NEW other,
         x.type \in DOMAIN PostingRules, x.status = "confirmed"
  PROVE  Describes(x, PairFor(x.type, x.amount, x.currency, own, other), books)
<1>1. x.type # "opening_balance"
  BY DEF PostingRules
<1> QED BY <1>1 DEF Describes, PairFor

\* A transaction that gets its entries in this step is described by them.
LEMMA NewPairDescribes ==
  ASSUME Inv, Chart, Next, NEW t \in Txs, pair[t] = None, pair'[t] # None
  PROVE  Describes(tx'[t], pair'[t], book')
<1> USE DEF Inv
<1>1. ASSUME NEW x \in Txs, NEW type \in Types, NEW n \in Typed, NEW c \in Currencies,
             NEW a \in Accounts, NEW k \in Cards \cup {None}, NEW own \in Names,
             NEW other \in BookNames, AcceptPosted(x, type, n, c, a, k, own, other)
      PROVE  Describes(tx'[t], pair'[t], book')
  <2>1. /\ tx' = [tx EXCEPT ![x] = NewTx("confirmed", type, n, c, a, k)]
        /\ pair' = [pair EXCEPT ![x] = PairFor(type, n, c, own, other)]
        /\ type \in DOMAIN PostingRules /\ book' = book /\ own \in StandingIn(book, a)
    BY <1>1, StandingIs DEF AcceptPosted
  <2>2. x = t
    BY <2>1 DEF Shape
  <2>3. tx'[t] = NewTx("confirmed", type, n, c, a, k) /\ pair'[t] = PairFor(type, n, c, own, other)
    BY <2>1, <2>2 DEF Shape
  <2> DEFINE new == tx'[t]
  <2>4. /\ new.status = "confirmed" /\ new.type = type /\ new.amount = n /\ new.currency = c
        /\ new.account = a
    BY <2>3 DEF NewTx
  <2> HIDE DEF new
  <2>5. Describes(new, PairFor(new.type, new.amount, new.currency, own, other), book')
    BY <2>1, <2>4, PairDescribes
  <2> QED BY <2>3, <2>4, <2>5 DEF new
<1>2. ASSUME NEW x \in Txs, NEW own \in Names, NEW other \in BookNames, Post(x, own, other)
      PROVE  Describes(tx'[t], pair'[t], book')
  <2>1. /\ pair' = [pair EXCEPT ![x] = PairFor(tx[x].type, tx[x].amount, tx[x].currency, own, other)]
        /\ UNCHANGED <<tx, book>> /\ own \in StandingIn(book, tx[x].account)
        /\ tx[x].type \in DOMAIN PostingRules /\ tx[x].status = "confirmed"
    BY <1>2, StandingIs DEF Post
  <2>2. x = t
    BY <2>1 DEF Shape
  <2>3. pair'[t] = PairFor(tx[t].type, tx[t].amount, tx[t].currency, own, other)
    BY <2>1, <2>2 DEF Shape
  <2> QED BY <2>1, <2>2, <2>3, PairDescribes
<1>3. ASSUME NEW p \in Callers, NEW x \in Txs, FinishOpening(p, x)
      PROVE  Describes(tx'[t], pair'[t], book')
  <2> DEFINE a == call[p].account
             n == LedgerName(call[p].account, call[p].seen)
             c == call[p].seen.currency
  <2>1. /\ a \in Accounts /\ n \in StandingIn(book', a)
        /\ \E amount, grows :
             /\ tx' = [tx EXCEPT ![x] = NewTx("confirmed", "opening_balance", amount, c, a, None)]
             /\ pair' = [pair EXCEPT ![x] =
                  [debit |-> IF grows THEN n ELSE Equity, credit |-> IF grows THEN Equity ELSE n,
                   amount |-> amount, currency |-> c]]
    BY <1>3, FinishStep
  <2> HIDE DEF a, n, c
  <2>2. PICK amount, grows :
          /\ tx' = [tx EXCEPT ![x] = NewTx("confirmed", "opening_balance", amount, c, a, None)]
          /\ pair' = [pair EXCEPT ![x] =
               [debit |-> IF grows THEN n ELSE Equity, credit |-> IF grows THEN Equity ELSE n,
                amount |-> amount, currency |-> c]]
    BY <2>1
  <2>3. x = t
    BY <2>2 DEF Shape
  <2>4. /\ tx'[t].status = "confirmed" /\ tx'[t].type = "opening_balance"
        /\ tx'[t].amount = amount /\ tx'[t].currency = c /\ tx'[t].account = a
    BY <2>2, <2>3 DEF Shape, NewTx
  <2>5. /\ {pair'[t].debit, pair'[t].credit} = {n, Equity}
        /\ pair'[t].amount = amount /\ pair'[t].currency = c
    BY <2>2, <2>3 DEF Shape
  <2> QED BY <2>1, <2>4, <2>5 DEF Describes
<1>4. CASE pair' = pair
  BY <1>4
<1>5. CASE \E x \in Txs : Drafting(x)
  <2>1. PICK x \in Txs, type \in Types, n \in Typed, c \in Currencies, a \in Accounts,
             k \in Cards \cup {None} :
          \/ CreateManual(x, type, n, c, a, k)
          \/ UpdateManual(x, type, n, c, a, k)
          \/ Accept(x, type, n, c, a, k)
          \/ \E own \in Names, other \in BookNames : AcceptPosted(x, type, n, c, a, k, own, other)
    BY <1>5 DEF Drafting
  <2>2. CASE \/ CreateManual(x, type, n, c, a, k)
             \/ UpdateManual(x, type, n, c, a, k)
             \/ Accept(x, type, n, c, a, k)
    BY <1>4, <2>2 DEF CreateManual, UpdateManual, Accept, Drafted
  <2>3. CASE \E own \in Names, other \in BookNames : AcceptPosted(x, type, n, c, a, k, own, other)
    BY <1>1, <2>3
  <2> QED BY <2>1, <2>2, <2>3
<1>6. CASE \E x \in Txs : Keeping(x)
  <2>1. PICK x \in Txs : Keeping(x)
    BY <1>6
  <2>2. CASE \E own \in Names, other \in BookNames : Post(x, own, other)
    BY <1>2, <2>2
  <2>3. CASE ~\E own \in Names, other \in BookNames : Post(x, own, other)
    BY <1>4, <2>1, <2>3 DEF Keeping, Confirm, Resave, UpdateManual, Drafted, Delete, Correct
  <2> QED BY <2>2, <2>3
<1>7. CASE \E p \in Callers : Opening(p)
  BY <1>3, <1>4, <1>7 DEF Opening, BeginOpening, BeginCorrection
<1>8. CASE \/ \E a \in Accounts : EnsureLedger(a)
           \/ \E edit \in AdminEdits, v \in Names \cup AccountTypes \cup Currencies :
                AdminEdit(edit[1], edit[2], v)
           \/ \E k \in Cards, a \in Accounts, s \in Accounts \cup {None} : UpdateMapping(k, a, s)
  BY <1>4, <1>8, SteadyActions DEF Steady
<1> QED BY <1>5, <1>6, <1>7, <1>8 DEF Next

LEMMA DescribeStep ==
  ASSUME NoRenames, Inv, Chart, EntriesDescribe, Next
  PROVE  EntriesDescribe'
<1>1. SUFFICES ASSUME NEW t \in Txs, pair'[t] # None
               PROVE  Describes(tx'[t], pair'[t], book')
  BY DEF EntriesDescribe, Describes, Standing, StandingIn
<1>2. CASE pair[t] = None
  BY <1>1, <1>2, NewPairDescribes
<1>3. CASE pair[t] # None
  <2>1. Describes(tx[t], pair[t], book)
    BY <1>3, DescribesIs
  <2>2. pair'[t] = pair[t] /\ tx'[t] \in {tx[t], [tx[t] EXCEPT !.status = "voided"]}
    BY <1>3, StepKeeps DEF Kept
  <2>3. /\ tx'[t].status \in {"confirmed", "voided"}
        /\ tx'[t].amount = tx[t].amount /\ tx'[t].currency = tx[t].currency
        /\ tx'[t].type = tx[t].type /\ tx'[t].account = tx[t].account
    BY <2>1, <2>2 DEF Describes, Inv, Shape, NewTx
  <2>4. StandingIn(book, tx[t].account) \subseteq StandingIn(book', tx[t].account)
    <3>1. CASE tx[t].account \in Accounts
      BY <3>1, ChartStep, StandingIs DEF Grows
    <3>2. CASE tx[t].account \notin Accounts
      <4>1. \E n \in StandingIn(book, tx[t].account) : TRUE
        BY <2>1 DEF Describes
      <4>2. tx[t].account = None
        BY <3>2, <4>1 DEF Chart, OwnedIn, StandingIn
      <4> QED BY <4>2, ChartStep, StandingIs DEF Grows
    <3> QED BY <3>1, <3>2
  <2> QED BY <2>1, <2>2, <2>3, <2>4 DEF Describes
<1> QED BY <1>2, <1>3

LEMMA DescribedAlways == ASSUME NoRenames PROVE Spec => [](Chart /\ EntriesDescribe)
<1>1. Init => EntriesDescribe
  BY DEF Init, EntriesDescribe
<1>2. ASSUME Inv, Chart, EntriesDescribe, [Next]_vars PROVE Chart' /\ EntriesDescribe'
  <2>1. CASE UNCHANGED vars
    BY <1>2, <2>1 DEF vars, Chart, AccountsNamed, CallsNamed, OwnedIn, EntriesDescribe, Standing
  <2>2. CASE Next
    BY <1>2, <2>2, ChartStep, DescribeStep
  <2> QED BY <1>2, <2>1, <2>2
<1> QED BY <1>1, <1>2, InitChart, InvAlways, PTL DEF Spec

\* However transactions are typed, accepted, posted, corrected and deleted, and
\* whatever is done to their accounts but renaming, the entries of a posted
\* transaction describe it as it is (LEDGER_BEARING_FIELDS); a rename lets
\* ensure_ledger_account_for hand an account the ledger account of another.
THEOREM EntriesAlwaysDescribe == ASSUME NoRenames PROVE Spec => []EntriesDescribe
BY DescribedAlways, PTL

-----------------------------------------------------------------------------
(* Types *)

LEMMA SumFunctionType ==
  ASSUME NEW S, IsFiniteSet(S), NEW f, DOMAIN f = S, \A x \in S : f[x] \in Int
  PROVE  SumFunction(f) \in Int
BY SumType DEF SumFunction

LEMMA TxsFinite == ASSUME NEW S \in SUBSET Txs PROVE IsFiniteSet(S)
BY FS_Subset, BooksAssumption

LEMMA MovedType ==
  ASSUME TypeOK, NEW t \in Txs, pair[t] # None, NEW n PROVE Moved(pair[t], n) \in Int
<1>1. pair[t].amount \in Int
  BY DEF TypeOK, Pairs
<1> QED BY <1>1 DEF Moved

LEMMA NetType ==
  ASSUME TypeOK, NEW n, NEW S \in SUBSET Txs, \A t \in S : pair[t] # None
  PROVE  Net(n, S) \in Int
<1> DEFINE f == [t \in S |-> IF t \in reversed THEN 0 ELSE Moved(pair[t], n)]
<1>1. \A t \in S : f[t] \in Int
  BY MovedType
<1>2. IsFiniteSet(S) /\ DOMAIN f = S
  BY TxsFinite
<1> HIDE DEF f
<1>3. SumFunction(f) \in Int
  BY <1>1, <1>2, SumFunctionType
<1> QED BY <1>3 DEF Net, f

LEMMA PostedOpeningType == ASSUME TypeOK, NEW a PROVE PostedOpening(a) \in Int
<1> DEFINE n == CHOOSE n \in Standing(a) : TRUE
           Opened == {t \in Txs : pair[t] # None /\ tx[t].type = "opening_balance"
                                   /\ t \notin reversed}
<1>1. Net(n, Opened) \in Int
  BY NetType
<1> HIDE DEF n, Opened
<1>2. Signed(n, Net(n, Opened)) \in Int
  BY <1>1 DEF Signed
<1> QED BY <1>2 DEF PostedOpening, n, Opened

LEMMA NewTxType ==
  ASSUME NEW status \in {"draft", "confirmed", "voided"}, NEW type \in AllTypes,
         NEW amount \in Nat, NEW c \in Currencies, NEW a \in Accounts, NEW k \in Cards \cup {None}
  PROVE  NewTx(status, type, amount, c, a, k) \in Transactions
BY DEF NewTx, Transactions

LEMMA TxFacts ==
  ASSUME TypeOK, NEW t \in Txs, tx[t].status # "absent"
  PROVE  /\ tx[t] \in Transactions
         /\ tx[t].status \in {"draft", "confirmed", "voided"} /\ tx[t].type \in AllTypes
         /\ tx[t].amount \in Nat /\ tx[t].currency \in Currencies
         /\ tx[t].account \in Accounts /\ tx[t].card \in Cards \cup {None}
         /\ \A s \in {"draft", "confirmed", "voided"} : [tx[t] EXCEPT !.status = s] \in Transactions
<1>1. tx[t] \in Transactions
  BY DEF TypeOK, NoTx
<1> QED BY <1>1 DEF Transactions

LEMMA DraftedType ==
  ASSUME TypeOK, NEW t \in Txs, NEW type \in AllTypes, NEW amount \in Nat, NEW c \in Currencies,
         NEW a \in Accounts, NEW k \in Cards \cup {None}, Drafted(t, type, amount, c, a, k)
  PROVE  TypeOK'
<1>1. NewTx("draft", type, amount, c, a, k) \in Transactions
  BY NewTxType
<1> QED BY <1>1 DEF Drafted, TypeOK

LEMMA PairForType ==
  ASSUME NEW type \in DOMAIN PostingRules, NEW amount \in Int, NEW c \in Currencies,
         NEW own \in BookNames, NEW other \in BookNames
  PROVE  PairFor(type, amount, c, own, other) \in Pairs
BY DEF PairFor, Pairs

LEMMA TypeTransactions ==
  ASSUME TypeOK, NEW t \in Txs, Drafting(t) \/ Keeping(t)
  PROVE  TypeOK'
<1> USE BooksAssumption
<1>1. ASSUME NEW type \in Types, NEW n \in Typed, NEW c \in Currencies, NEW a \in Accounts,
             NEW k \in Cards \cup {None},
             \/ CreateManual(t, type, n, c, a, k)
             \/ UpdateManual(t, type, n, c, a, k)
             \/ Accept(t, type, n, c, a, k)
      PROVE  TypeOK'
  <2>1. type \in AllTypes /\ n \in Nat
    OBVIOUS
  <2>2. Drafted(t, type, n, c, a, k)
    BY <1>1 DEF CreateManual, UpdateManual, Accept
  <2> QED BY <2>1, <2>2, DraftedType
<1>2. ASSUME NEW type \in Types, NEW n \in Typed, NEW c \in Currencies, NEW a \in Accounts,
             NEW k \in Cards \cup {None}, NEW own \in Names, NEW other \in BookNames,
             AcceptPosted(t, type, n, c, a, k, own, other)
      PROVE  TypeOK'
  <2>1. NewTx("confirmed", type, n, c, a, k) \in Transactions
    BY NewTxType
  <2>2. PairFor(type, n, c, own, other) \in Pairs
    <3>1. own \in BookNames /\ n \in Int /\ type \in DOMAIN PostingRules
      BY <1>2 DEF BookNames, AcceptPosted
    <3> QED BY <3>1, PairForType
  <2> QED BY <1>2, <2>1, <2>2 DEF AcceptPosted, TypeOK
<1>3. CASE Drafting(t)
  BY <1>1, <1>2, <1>3 DEF Drafting
<1>4. CASE Confirm(t)
  <2>1. [tx[t] EXCEPT !.status = "confirmed"] \in Transactions
    BY <1>4, TxFacts DEF Confirm
  <2>2. tx' = [tx EXCEPT ![t] = [tx[t] EXCEPT !.status = "confirmed"]]
    BY <1>4 DEF Confirm
  <2> QED BY <1>4, <2>1, <2>2 DEF Confirm, TypeOK
<1>5. CASE Resave(t)
  <2>1. tx[t].status = "draft"
    BY <1>5 DEF Resave, UpdateManual, Editable
  <2>2. Shown(t) \in Nat
    <3>1. tx[t].amount \in Nat /\ Exponent[tx[t].currency] \in {0, 2}
      BY <2>1, TxFacts
    <3> QED BY <3>1 DEF Shown
  <2> QED BY <1>5, <2>1, <2>2, TxFacts, DraftedType DEF Resave, UpdateManual
<1>6. CASE Delete(t)
  <2>1. [tx[t] EXCEPT !.status = "voided"] \in Transactions
    BY <1>6, TxFacts DEF Delete
  <2>2. tx' = [tx EXCEPT ![t] = [tx[t] EXCEPT !.status = "voided"]] /\ reversed' \subseteq Txs
    BY <1>6 DEF Delete, Mirrored, TypeOK
  <2> QED BY <1>6, <2>1, <2>2 DEF Delete, TypeOK
<1>7. ASSUME NEW own \in Names, NEW other \in BookNames, Post(t, own, other) PROVE TypeOK'
  <2>1. /\ tx[t].amount \in Int /\ tx[t].currency \in Currencies
        /\ tx[t].type \in DOMAIN PostingRules /\ own \in BookNames
    <3>1. tx[t].status # "absent" /\ tx[t].type \in DOMAIN PostingRules
      BY <1>7 DEF Post
    <3>2. tx[t].amount \in Nat /\ tx[t].currency \in Currencies
      BY <3>1, TxFacts
    <3> QED BY <3>1, <3>2 DEF BookNames
  <2>2. PairFor(tx[t].type, tx[t].amount, tx[t].currency, own, other) \in Pairs
    BY <2>1, PairForType
  <2> QED BY <1>7, <2>2 DEF Post, TypeOK
<1>8. ASSUME NEW type \in Types, NEW a \in Accounts, NEW k \in Cards \cup {None}, Correct(t, type, a, k)
      PROVE  TypeOK'
  <2>1. tx[t].amount \in Nat /\ tx[t].currency \in Currencies /\ type \in AllTypes
    BY <1>8, TxFacts DEF Correct, Correctable
  <2>2. NewTx("confirmed", type, tx[t].amount, tx[t].currency, a, k) \in Transactions
    BY <2>1, NewTxType
  <2> QED BY <1>8, <2>2 DEF Correct, TypeOK
<1> QED BY <1>3, <1>4, <1>5, <1>6, <1>7, <1>8 DEF Keeping

LEMMA LedgerType ==
  ASSUME TypeOK, NEW a \in Accounts, NEW fa \in Financial
  PROVE  /\ WithLedger(a, fa) \in [BookNames -> LedgerAccounts \cup {None}]
         /\ LedgerName(a, fa) \in BookNames
<1>1. [type |-> LedgerTypes[fa.type], of |-> a] \in LedgerAccounts
  BY DEF LedgerAccounts, Financial, LedgerTypes
<1>2. WithLedger(a, fa) \in [BookNames -> LedgerAccounts \cup {None}]
  BY <1>1 DEF WithLedger, TypeOK
<1>3. LedgerName(a, fa) \in BookNames
  BY DEF LedgerName, Standing, Financial, BookNames
<1> QED BY <1>2, <1>3

LEMMA EquityType ==
  ASSUME NEW books \in [BookNames -> LedgerAccounts \cup {None}]
  PROVE  WithEquity(books) \in [BookNames -> LedgerAccounts \cup {None}]
<1>1. [type |-> "equity", of |-> None] \in LedgerAccounts
  BY DEF LedgerAccounts
<1> QED BY <1>1 DEF WithEquity

LEMMA OpeningPairType ==
  ASSUME NEW n \in BookNames, NEW books, NEW minor \in Int, NEW c \in Currencies
  PROVE  Magnitude(minor) \in Nat /\ OpeningPair(n, books, minor, c) \in Pairs
<1>1. Magnitude(minor) \in Nat
  BY DEF Magnitude
<1>2. Equity \in BookNames
  BY DEF BookNames
<1> QED BY <1>1, <1>2 DEF OpeningPair, Pairs

LEMMA TypeOpening ==
  ASSUME TypeOK, NEW p \in Callers, Opening(p)
  PROVE  TypeOK'
<1> USE BooksAssumption
<1>1. ASSUME NEW a \in Accounts, BeginOpening(p, a) PROVE TypeOK'
  <2>1. account[a] \in Financial /\ account[a].opening.minor \in Int
    BY <1>1 DEF BeginOpening, TypeOK, Financial, Sums
  <2>2. [account |-> a, corrects |-> FALSE, target |-> account[a].opening.minor, already |-> 0,
         seen |-> account[a]] \in Calls
    BY <2>1 DEF Calls
  <2> QED BY <1>1, <2>2 DEF BeginOpening, TypeOK
<1>2. ASSUME NEW a \in Accounts, NEW m \in Openings, BeginCorrection(p, a, m) PROVE TypeOK'
  <2>1. account[a] \in Financial /\ m \in Int /\ PostedOpening(a) \in Int
    BY PostedOpeningType DEF TypeOK
  <2>2. [account |-> a, corrects |-> TRUE, target |-> m, already |-> PostedOpening(a),
         seen |-> account[a]] \in Calls
    BY <2>1 DEF Calls
  <2> QED BY <1>2, <2>2 DEF BeginCorrection, TypeOK
<1>3. ASSUME NEW t \in Txs, FinishOpening(p, t) PROVE TypeOK'
  <2> DEFINE a == call[p].account
             seen == call[p].seen
             difference == call[p].target - call[p].already
  <2>1. /\ a \in Accounts /\ seen \in Financial /\ call[p].target \in Int /\ difference \in Int
        /\ seen.currency \in Currencies
    <3>1. call[p] \in Calls
      BY <1>3 DEF FinishOpening, TypeOK
    <3> QED BY <3>1 DEF Calls, Financial
  <2>2. account' \in [Accounts -> Financial]
    <3>1. [account[a] EXCEPT !.opening = [minor |-> call[p].target, currency |-> seen.currency]]
            \in Financial
      <4>1. [minor |-> call[p].target, currency |-> seen.currency] \in Sums
        BY <2>1 DEF Sums
      <4>2. account[a] \in Financial
        BY <2>1 DEF TypeOK
      <4>3. \A o \in Sums : [account[a] EXCEPT !.opening = o] \in Financial
        BY <4>2 DEF Financial
      <4> QED BY <4>1, <4>3
    <3>2. \/ account' = account
          \/ account' = [account EXCEPT ![a] = [account[a] EXCEPT !.opening =
                           [minor |-> call[p].target, currency |-> seen.currency]]]
      BY <1>3 DEF FinishOpening
    <3> QED BY <2>1, <3>1, <3>2 DEF TypeOK
  <2>3. call' \in [Callers -> Calls \cup {None}] /\ UNCHANGED <<card, reversed>>
    BY <1>3 DEF FinishOpening, TypeOK
  <2>4. CASE difference = 0
    BY <1>3, <2>2, <2>3, <2>4 DEF FinishOpening, TypeOK
  <2>5. CASE difference # 0
    <3> DEFINE books == WithLedger(a, seen)
               n == LedgerName(a, seen)
    <3>1. /\ book' = WithEquity(books)
          /\ tx' = [tx EXCEPT ![t] = NewTx("confirmed", "opening_balance", Magnitude(difference),
                                           seen.currency, a, None)]
          /\ pair' = [pair EXCEPT ![t] = OpeningPair(n, books, difference, seen.currency)]
      BY <1>3, <2>5 DEF FinishOpening
    <3>2. books \in [BookNames -> LedgerAccounts \cup {None}] /\ n \in BookNames
      BY <2>1, LedgerType
    <3> HIDE DEF a, seen, difference, books, n
    <3>3. Magnitude(difference) \in Nat /\ OpeningPair(n, books, difference, seen.currency) \in Pairs
      BY <2>1, <3>2, OpeningPairType
    <3>4. NewTx("confirmed", "opening_balance", Magnitude(difference), seen.currency, a, None)
            \in Transactions
      <4>1. "opening_balance" \in AllTypes
        BY DEF AllTypes
      <4> QED BY <2>1, <3>3, <4>1, NewTxType
    <3>5. book' \in [BookNames -> LedgerAccounts \cup {None}]
      BY <3>1, <3>2, EquityType
    <3> QED BY <2>2, <2>3, <3>1, <3>3, <3>4, <3>5 DEF TypeOK
  <2> QED BY <2>4, <2>5
<1> QED BY <1>1, <1>2, <1>3 DEF Opening

LEMMA TypeRest ==
  ASSUME TypeOK,
         \/ \E a \in Accounts : EnsureLedger(a)
         \/ \E edit \in AdminEdits, v \in Names \cup AccountTypes \cup Currencies :
              AdminEdit(edit[1], edit[2], v)
         \/ \E k \in Cards, a \in Accounts, s \in Accounts \cup {None} : UpdateMapping(k, a, s)
  PROVE  TypeOK'
<1> USE BooksAssumption
<1>1. ASSUME NEW a \in Accounts, EnsureLedger(a) PROVE TypeOK'
  <2>1. WithLedger(a, account[a]) \in [BookNames -> LedgerAccounts \cup {None}]
    BY LedgerType DEF TypeOK
  <2> QED BY <1>1, <2>1 DEF EnsureLedger, TypeOK
<1>2. ASSUME NEW edit \in AdminEdits, NEW v \in Names \cup AccountTypes \cup Currencies,
             AdminEdit(edit[1], edit[2], v)
      PROVE  TypeOK'
  <2> DEFINE a == edit[1]
             field == edit[2]
             fa == CASE field = "name" -> [account[a] EXCEPT !.name = v]
                     [] field = "account_type" -> [account[a] EXCEPT !.type = v]
                     [] field = "currency" -> [account[a] EXCEPT !.currency = v]
  <2>1. a \in Accounts /\ field \in {"name", "account_type", "currency"} /\ account[a] \in Financial
    BY DEF TypeOK
  <2>2. account' = [account EXCEPT ![a] = fa] /\ UNCHANGED <<card, book, tx, pair, reversed, call>>
    BY <1>2 DEF AdminEdit
  <2>3. CASE field = "name"
    <3>1. v \in Names
      BY <1>2, <2>3 DEF AdminEdit
    <3>2. fa \in Financial
      BY <2>1, <2>3, <3>1 DEF Financial
    <3> QED BY <2>1, <2>2, <3>2 DEF TypeOK
  <2>4. CASE field = "account_type"
    <3>1. v \in DOMAIN LedgerTypes
      BY <1>2, <2>4 DEF AdminEdit
    <3>2. fa \in Financial
      BY <2>1, <2>4, <3>1 DEF Financial
    <3> QED BY <2>1, <2>2, <3>2 DEF TypeOK
  <2>5. CASE field = "currency"
    <3>1. v \in Currencies
      BY <1>2, <2>5 DEF AdminEdit
    <3>2. fa \in Financial
      BY <2>1, <2>5, <3>1 DEF Financial
    <3> QED BY <2>1, <2>2, <3>2 DEF TypeOK
  <2> QED BY <2>1, <2>3, <2>4, <2>5
<1>3. ASSUME NEW k \in Cards, NEW a \in Accounts, NEW s \in Accounts \cup {None},
             UpdateMapping(k, a, s)
      PROVE  TypeOK'
  BY <1>3 DEF UpdateMapping, TypeOK
<1> QED BY <1>1, <1>2, <1>3

\* What is stored keeps its type; in particular amounts stay integers of minor
\* units, which is what makes a balance a number (balances.py: "every total here is integer minor
\* units the whole way through").
THEOREM BooksTyped == Spec => []TypeOK
<1>1. Init => TypeOK
  <2> SUFFICES ASSUME Init PROVE TypeOK
    OBVIOUS
  <2>1. [type |-> "expense", of |-> None] \in LedgerAccounts
    BY DEF LedgerAccounts
  <2> QED BY <2>1, BooksAssumption DEF Init, TypeOK
<1>2. ASSUME TypeOK, [Next]_vars PROVE TypeOK'
  <2>1. CASE UNCHANGED vars
    BY <1>2, <2>1 DEF vars, TypeOK
  <2>2. CASE Next
    BY <1>2, <2>2, TypeTransactions, TypeOpening, TypeRest DEF Next
  <2> QED BY <1>2, <2>1, <2>2
<1> QED BY <1>1, <1>2, PTL DEF Spec

-----------------------------------------------------------------------------
(* Balances *)

\* What the entries of a transaction come to on a ledger account.
Effect(n) == [t \in Txs |-> IF t \in reversed THEN 0 ELSE Moved(pair[t], n)]

LEMMA NetIs ==
  ASSUME NEW n, NEW S \in SUBSET Txs
  PROVE  Net(n, S) = SumFunctionOnSet(Effect(n), S)
<1> DEFINE f == [t \in S |-> IF t \in reversed THEN 0 ELSE Moved(pair[t], n)]
<1>1. DOMAIN f = S /\ \A t \in S : f[t] = Effect(n)[t]
  BY DEF Effect
<1>2. Net(n, S) = SumFunction(f)
  BY DEF Net
<1> HIDE DEF f
<1>3. SumFunctionOnSet(f, S) = SumFunctionOnSet(Effect(n), S)
  BY <1>1, TxsFinite, SumSame
<1> QED BY <1>1, <1>2, <1>3 DEF SumFunction

LEMMA EffectType ==
  ASSUME TypeOK, NEW t \in Txs, pair[t] # None, NEW n
  PROVE  Effect(n)[t] \in Int
BY MovedType DEF Effect

\* Transactions whose entries come to nothing may be left out.
LEMMA NetSkip ==
  ASSUME TypeOK, NEW n, NEW T \in SUBSET Txs, \A t \in T : pair[t] # None,
         NEW S \in SUBSET T, \A t \in T \ S : t \in reversed \/ Moved(pair[t], n) = 0
  PROVE  Net(n, S) = Net(n, T)
<1>1. \A t \in T : Effect(n)[t] \in Int
  BY EffectType
<1>2. \A t \in T \ S : Effect(n)[t] = 0
  BY DEF Effect
<1>3. SumFunctionOnSet(Effect(n), S) = SumFunctionOnSet(Effect(n), T)
  BY <1>1, <1>2, TxsFinite, SumSkip
<1> QED BY <1>3, NetIs

\* For any history of any number of transactions, the balance of a ledger account
\* over confirmed transactions is its balance over every entry ever written:
\* what is left out was reversed (balances.py _entries, delete_transaction).
THEOREM BalancesAlwaysAgree == Spec => []BalancesAgree
<1>1. ASSUME TypeOK, Inv PROVE BalancesAgree
  <2> SUFFICES ASSUME NEW n \in BookNames, NEW c \in Currencies
               PROVE  Balance(n, c) = RawBalance(n, c)
    BY DEF BalancesAgree
  <2> DEFINE Counted == {t \in Txs : pair[t] # None /\ tx[t].status = "confirmed"
                                       /\ pair[t].currency = c}
             Written == {t \in Txs : pair[t] # None /\ pair[t].currency = c}
  <2>1. \A t \in Written \ Counted : t \in reversed
    BY <1>1 DEF Inv, Posted
  <2>2. /\ Written \in SUBSET Txs /\ Counted \in SUBSET Written
        /\ \A t \in Written : pair[t] # None
    OBVIOUS
  <2> HIDE DEF Counted, Written
  <2>3. Net(n, Counted) = Net(n, Written)
    BY <1>1, <2>1, <2>2, NetSkip
  <2> QED BY <2>3 DEF Balance, RawBalance, Counted, Written
<1>2. TypeOK /\ Inv => BalancesAgree
  BY <1>1
<1> QED BY <1>2, BooksTyped, InvAlways, PTL

-----------------------------------------------------------------------------
(* Opening balances *)

\* No two calls of the opening-balance services run at once.
OneCaller == \A p, q \in Callers : p = q

NameOf(a) == InitialAccounts[a].name

\* The opening entries of an account that were not reversed.
OpenedOf(a) ==
  {t \in Txs : pair[t] # None /\ tx[t].type = "opening_balance" /\ t \notin reversed
                 /\ tx[t].account = a}

LEMMA MinusZero == -0 = 0
<1>1. \E x \in Int : x = 0 /\ -x = x
  OBVIOUS
<1> QED BY <1>1

\* What the services read of the ledger is those entries, on the account's own
\* ledger account.
OpeningRead ==
  \A a \in Accounts : PostedOpening(a) = Signed(NameOf(a), Net(NameOf(a), OpenedOf(a)))

LEMMA OpeningIsRead ==
  ASSUME TypeOK, Inv, Chart, EntriesDescribe
  PROVE  OpeningRead
<1> SUFFICES ASSUME NEW a \in Accounts
             PROVE  PostedOpening(a) = Signed(NameOf(a), Net(NameOf(a), OpenedOf(a)))
  BY DEF OpeningRead
<1> DEFINE n == NameOf(a)
           Opened == {t \in Txs : pair[t] # None /\ tx[t].type = "opening_balance"
                                   /\ t \notin reversed}
<1>1. n \in Names /\ n # Equity
  BY BooksAssumption DEF NameOf, Financial
<1>2. \A b \in Accounts : Standing(b) \subseteq {NameOf(b)}
  BY BooksAssumption DEF Chart, OwnedIn, Standing, NameOf
<1>3. ASSUME NEW t \in Opened
      PROVE  /\ tx[t].account \in Accounts /\ NameOf(tx[t].account) \in Standing(tx[t].account)
             /\ {pair[t].debit, pair[t].credit} = {NameOf(tx[t].account), Equity}
  <2>1. tx[t].account \in Accounts
    <3>1. tx[t].status # "absent"
      BY <1>3 DEF Inv, Posted
    <3> QED BY <3>1, TxFacts
  <2>2. PICK m \in Standing(tx[t].account) : {pair[t].debit, pair[t].credit} = {m, Equity}
    BY <1>3 DEF EntriesDescribe
  <2> QED BY <1>2, <2>1, <2>2
<1>4. ASSUME NEW t \in Opened, tx[t].account # a PROVE Moved(pair[t], n) = 0
  <2>1. NameOf(tx[t].account) # n
    BY <1>3, <1>4, BooksAssumption DEF NameOf
  <2>2. pair[t].debit # n /\ pair[t].credit # n
    BY <1>1, <1>3, <2>1
  <2> QED BY <2>2 DEF Moved
<1>5. Net(n, OpenedOf(a)) = Net(n, Opened)
  <2>1. /\ Opened \in SUBSET Txs /\ OpenedOf(a) \in SUBSET Opened
        /\ \A t \in Opened : pair[t] # None
    BY DEF OpenedOf
  <2>2. \A t \in Opened \ OpenedOf(a) : Moved(pair[t], n) = 0
    BY <1>4 DEF OpenedOf
  <2> HIDE DEF Opened, n
  <2> QED BY <2>1, <2>2, NetSkip
<1>6. CASE Standing(a) # {}
  <2>1. (CHOOSE m \in Standing(a) : TRUE) = n
    BY <1>2, <1>6
  <2> QED BY <1>5, <1>6, <2>1 DEF PostedOpening
<1>7. CASE Standing(a) = {}
  <2>1. OpenedOf(a) = {}
    BY <1>3, <1>7 DEF OpenedOf
  <2>2. Net(n, OpenedOf(a)) = 0
    BY <2>1, NetIs, SumEmpty
  <2>3. Signed(n, 0) = 0
    BY MinusZero DEF Signed
  <2> QED BY <1>7, <2>2, <2>3 DEF PostedOpening
<1> QED BY <1>6, <1>7

Base == TypeOK /\ Inv /\ Chart /\ EntriesDescribe /\ OpeningRead

\* An opening posting of the account was deleted.
Withdrawn(a) ==
  \E t \in Txs : tx[t].type = "opening_balance" /\ tx[t].account = a /\ tx[t].status = "voided"

LEMMA StaysWithdrawn == ASSUME Inv, Next, NEW a, Withdrawn(a) PROVE Withdrawn(a)'
<1>1. \A t \in Txs : tx[t].status = "voided" => tx'[t] = tx[t]
  BY StepKeeps DEF Kept
<1> QED BY <1>1 DEF Withdrawn

\* A ledger account keeps its type.
LEMMA LedgerStays ==
  ASSUME Chart, Next, NEW n \in Names, book[n] # None
  PROVE  book'[n] = book[n]
<1>1. n \in BookNames /\ n # Equity /\ book = [m \in BookNames |-> book[m]]
  BY BooksAssumption DEF BookNames, Chart, OwnedIn
<1>2. \A a, fa : WithLedger(a, fa)[n] = book[n]
  BY <1>1 DEF WithLedger
<1>3. \A a, fa : WithEquity(WithLedger(a, fa))[n] = book[n]
  <2> SUFFICES ASSUME NEW a, NEW fa PROVE WithEquity(WithLedger(a, fa))[n] = book[n]
    OBVIOUS
  <2>1. WithEquity(WithLedger(a, fa))[n] = WithLedger(a, fa)[n]
    <3>1. n \in DOMAIN WithLedger(a, fa)
      BY <1>1 DEF WithLedger
    <3> QED BY <1>1, <3>1 DEF WithEquity
  <2> QED BY <1>2, <2>1
<1>4. CASE \E p \in Callers : Opening(p)
  <2>1. PICK p \in Callers : Opening(p)
    BY <1>4
  <2>2. \/ book' = book
        \/ book' = WithEquity(WithLedger(call[p].account, call[p].seen))
    BY <2>1 DEF Opening, BeginOpening, BeginCorrection, FinishOpening
  <2> QED BY <1>3, <2>2
<1>5. CASE \E t \in Txs : Drafting(t) \/ Keeping(t)
  BY <1>5, TransactionsOnly
<1>6. CASE \E a \in Accounts : EnsureLedger(a)
  BY <1>2, <1>6 DEF EnsureLedger
<1>7. CASE \/ \E edit \in AdminEdits, v \in Names \cup AccountTypes \cup Currencies :
                AdminEdit(edit[1], edit[2], v)
           \/ \E k \in Cards, a \in Accounts, s \in Accounts \cup {None} : UpdateMapping(k, a, s)
  BY <1>7 DEF AdminEdit, UpdateMapping
<1> QED BY <1>4, <1>5, <1>6, <1>7 DEF Next

\* Only the opening-balance services post opening balances.
LEMMA NewOpening ==
  ASSUME Inv, Next, NEW t \in Txs, pair[t] = None, pair'[t] # None,
         tx'[t].type = "opening_balance"
  PROVE  \E p \in Callers : FinishOpening(p, t)
<1> USE DEF Inv
<1>1. "opening_balance" \notin DOMAIN PostingRules
  BY DEF PostingRules
<1>2. ASSUME NEW x \in Txs, NEW type \in Types, NEW n \in Typed, NEW c \in Currencies,
             NEW a \in Accounts, NEW k \in Cards \cup {None}, NEW own \in Names,
             NEW other \in BookNames, AcceptPosted(x, type, n, c, a, k, own, other)
      PROVE  FALSE
  <2>1. /\ tx' = [tx EXCEPT ![x] = NewTx("confirmed", type, n, c, a, k)]
        /\ pair' = [pair EXCEPT ![x] = PairFor(type, n, c, own, other)]
        /\ type \in DOMAIN PostingRules
    BY <1>2 DEF AcceptPosted
  <2>2. x = t
    BY <2>1 DEF Shape
  <2>3. tx'[t].type = type
    BY <2>1, <2>2 DEF Shape, NewTx
  <2> QED BY <1>1, <2>1, <2>3
<1>3. ASSUME NEW x \in Txs, NEW own \in Names, NEW other \in BookNames, Post(x, own, other)
      PROVE  FALSE
  <2>1. x = t /\ tx' = tx /\ tx[x].type \in DOMAIN PostingRules
    BY <1>3 DEF Post, Shape
  <2> QED BY <1>1, <2>1
<1>4. pair' # pair
  OBVIOUS
<1>5. ASSUME NEW x \in Txs, Drafting(x) PROVE FALSE
  BY <1>2, <1>4, <1>5 DEF Drafting, CreateManual, UpdateManual, Accept, Drafted
<1>6. ASSUME NEW x \in Txs, Keeping(x) PROVE FALSE
  BY <1>3, <1>4, <1>6 DEF Keeping, Confirm, Resave, UpdateManual, Drafted, Delete, Correct
<1>7. ASSUME NEW p \in Callers, Opening(p) PROVE FinishOpening(p, t)
  <2>1. PICK x \in Txs : FinishOpening(p, x)
    BY <1>4, <1>7 DEF Opening, BeginOpening, BeginCorrection
  <2>2. \E v : pair' = [pair EXCEPT ![x] = v]
    BY <1>4, <2>1 DEF FinishOpening
  <2>3. x = t
    BY <2>2 DEF Shape
  <2> QED BY <2>1, <2>3
<1>8. CASE \/ \E a \in Accounts : EnsureLedger(a)
           \/ \E edit \in AdminEdits, v \in Names \cup AccountTypes \cup Currencies :
                AdminEdit(edit[1], edit[2], v)
           \/ \E k \in Cards, a \in Accounts, s \in Accounts \cup {None} : UpdateMapping(k, a, s)
  BY <1>4, <1>8, SteadyActions DEF Steady
<1> QED BY <1>5, <1>6, <1>7, <1>8 DEF Next

LEMMA NameFacts ==
  ASSUME NEW a \in Accounts
  PROVE  /\ NameOf(a) \in Names /\ NameOf(a) \in BookNames /\ NameOf(a) # Equity
         /\ \A books : OwnedIn(books) => StandingIn(books, a) \subseteq {NameOf(a)}
<1>1. NameOf(a) \in Names /\ NameOf(a) \in BookNames /\ NameOf(a) # Equity
  BY BooksAssumption DEF NameOf, Financial, BookNames
<1>2. \A books : OwnedIn(books) => StandingIn(books, a) \subseteq {NameOf(a)}
  BY BooksAssumption DEF OwnedIn, StandingIn, NameOf
<1> QED BY <1>1, <1>2

\* An account with opening entries has its ledger account.
LEMMA OpenedStands ==
  ASSUME Base, NEW a \in Accounts, NEW t \in OpenedOf(a)
  PROVE  book[NameOf(a)] # None
<1>1. \E n \in Standing(a) : TRUE
  BY DEF Base, EntriesDescribe, OpenedOf
<1>2. Standing(a) \subseteq {NameOf(a)}
  BY NameFacts, StandingIs DEF Base, Chart
<1> QED BY <1>1, <1>2 DEF Standing

\* The amount in the ledger, seen from the ledger account as it is afterwards.
LEMMA PostedIs ==
  ASSUME Base, Next, NEW a \in Accounts
  PROVE  LET N == Net(NameOf(a), OpenedOf(a))
         IN N \in Int /\ PostedOpening(a) = IF DebitNormal(book'[NameOf(a)]) THEN N ELSE -N
<1> DEFINE n == NameOf(a)
           N == Net(NameOf(a), OpenedOf(a))
<1>1. PostedOpening(a) = Signed(n, N) /\ n \in Names
  BY NameFacts DEF Base, OpeningRead
<1>2. N \in Int
  BY NetType DEF OpenedOf, Base
<1>3. CASE OpenedOf(a) = {}
  <2>1. N = 0
    BY <1>3, NetIs, SumEmpty
  <2> HIDE DEF N
  <2>2. Signed(n, N) = 0
    BY <2>1, MinusZero DEF Signed
  <2> QED BY <1>1, <1>2, <2>1, <2>2, MinusZero DEF N
<1>4. CASE OpenedOf(a) # {}
  <2>1. book'[n] = book[n]
    BY <1>1, <1>4, OpenedStands, LedgerStays DEF Base
  <2> HIDE DEF N
  <2> QED BY <1>1, <1>2, <2>1 DEF Signed, N
<1> QED BY <1>3, <1>4

\* Unless an opening posting of the account is made or deleted, the ledger says
\* of its opening balance what it said.
LEMMA PostedSame ==
  ASSUME Base, Base', Next, NEW a \in Accounts, ~Withdrawn(a)',
         \A t \in Txs : pair[t] = None /\ pair'[t] # None =>
                          ~(tx'[t].type = "opening_balance" /\ tx'[t].account = a)
  PROVE  PostedOpening(a)' = PostedOpening(a)
<1> DEFINE n == NameOf(a)
<1>1. ASSUME NEW t \in Txs, pair[t] # None
      PROVE  /\ pair'[t] = pair[t] /\ tx'[t].type = tx[t].type /\ tx'[t].account = tx[t].account
             /\ t \in reversed => t \in reversed'
             /\ t \in reversed' => tx'[t].status = "voided"
  <2>1. Kept(t)
    BY StepKeeps DEF Base
  <2>2. tx'[t].type = tx[t].type /\ tx'[t].account = tx[t].account
    BY <1>1, <2>1 DEF Kept, Base, Inv, Shape, NewTx
  <2> QED BY <1>1, <2>1, <2>2 DEF Kept, Base, Inv, Posted
<1>2. \A t \in OpenedOf(a) : t \in OpenedOf(a)' /\ pair'[t] = pair[t]
  BY <1>1 DEF OpenedOf, Withdrawn
<1>3. \A t \in OpenedOf(a)' : t \in OpenedOf(a)
  BY <1>1 DEF OpenedOf
<1>4. OpenedOf(a)' = OpenedOf(a)
  BY <1>2, <1>3
<1>5. Net(n, OpenedOf(a))' = Net(n, OpenedOf(a))
  <2>1. \A t \in OpenedOf(a) : t \notin reversed /\ t \notin reversed' /\ pair'[t] = pair[t]
    BY <1>2 DEF OpenedOf
  <2>2. [t \in OpenedOf(a)' |-> IF t \in reversed' THEN 0 ELSE Moved(pair'[t], n)]
          = [t \in OpenedOf(a) |-> IF t \in reversed THEN 0 ELSE Moved(pair[t], n)]
    BY <1>4, <2>1
  <2> QED BY <2>2 DEF Net, NameOf
<1>6. PostedOpening(a)' = Signed(n, Net(n, OpenedOf(a)))'
  BY DEF Base, OpeningRead
<1>7. PostedOpening(a)' = IF DebitNormal(book'[n]) THEN Net(n, OpenedOf(a)) ELSE -Net(n, OpenedOf(a))
  BY <1>5, <1>6 DEF Signed, NameOf
<1> QED BY <1>7, PostedIs

\* An opening posting changes what the ledger says by the difference it was made for.
LEMMA PostedMore ==
  ASSUME Base, Base', Next, NEW p \in Callers, NEW t \in Txs, FinishOpening(p, t),
         NEW a \in Accounts, a = call[p].account, NEW difference,
         difference = call[p].target - call[p].already, difference # 0
  PROVE  PostedOpening(a)' = PostedOpening(a) + difference
<1> DEFINE seen == call[p].seen
           n == NameOf(a)
           books == WithLedger(a, seen)
           new == OpeningPair(LedgerName(a, seen), books, difference, seen.currency)
           S == OpenedOf(a)
           g == [x \in S \cup {t} |-> IF x \in reversed' THEN 0 ELSE Moved(pair'[x], n)]
           d == DebitNormal(book'[n])
<1>1. /\ a \in Accounts /\ seen \in Financial /\ difference \in Int /\ seen.currency \in Currencies
  <2>1. call[p] \in Calls
    BY DEF FinishOpening, Base, TypeOK
  <2> QED BY <2>1 DEF Calls, Financial
<1>2. /\ tx[t].status = "absent"
      /\ tx' = [tx EXCEPT ![t] = NewTx("confirmed", "opening_balance", Magnitude(difference),
                                       seen.currency, a, None)]
      /\ pair' = [pair EXCEPT ![t] = new]
      /\ book' = WithEquity(books) /\ reversed' = reversed
  BY DEF FinishOpening
<1>3. pair[t] = None /\ t \notin reversed
  BY <1>2 DEF Base, Inv, Posted
<1>4. LedgerName(a, seen) = n
  <2>1. seen.name = InitialAccounts[a].name
    BY DEF Base, Chart, CallsNamed, FinishOpening
  <2>2. OwnedIn(books) /\ LedgerName(a, seen) \in StandingIn(books, a)
    BY <1>1, <2>1, LedgerMade DEF Base, Chart
  <2> QED BY <1>1, <2>2, NameFacts
<1>5. new \in Pairs /\ new # None
  <2>1. LedgerName(a, seen) \in BookNames
    BY <1>1, LedgerType DEF Base
  <2>2. new \in Pairs
    BY <1>1, <2>1, OpeningPairType
  <2> QED BY <2>2, NoneIsNothing
<1>6. /\ tx'[t].type = "opening_balance" /\ tx'[t].account = a /\ pair'[t] = new
      /\ \A x \in Txs \ {t} : tx'[x] = tx[x] /\ pair'[x] = pair[x]
  <2> HIDE DEF new
  <2> QED BY <1>2 DEF Base, Inv, Shape, NewTx
<1>7. OpenedOf(a)' = S \cup {t} /\ t \notin S
  <2> HIDE DEF new
  <2> QED BY <1>2, <1>3, <1>5, <1>6 DEF OpenedOf
<1>8. Net(n, OpenedOf(a))' = g[t] + Net(n, S) /\ g[t] = Moved(new, n) /\ g[t] \in Int
  <2>1. \A x \in S : g[x] = Effect(n)[x] /\ g[x] \in Int
    <3> SUFFICES ASSUME NEW x \in S PROVE g[x] = Effect(n)[x] /\ g[x] \in Int
      OBVIOUS
    <3>1. x \in Txs /\ x # t /\ pair'[x] = pair[x] /\ pair[x] # None
      BY <1>6, <1>7 DEF OpenedOf
    <3>2. g[x] = Effect(n)[x]
      BY <1>2, <3>1 DEF Effect
    <3> QED BY <3>1, <3>2, EffectType DEF Base
  <2>2. g[t] = Moved(new, n)
    BY <1>2, <1>3, <1>6
  <2>3. g[t] \in Int
    <3>1. new.amount \in Int
      BY <1>5 DEF Pairs
    <3> HIDE DEF new
    <3> QED BY <2>2, <3>1 DEF Moved
  <2>4. Net(n, OpenedOf(a))' = SumFunctionOnSet(g, S \cup {t})
    BY <1>7 DEF Net, SumFunction, NameOf
  <2>5. IsFiniteSet(S)
    BY TxsFinite DEF OpenedOf
  <2> HIDE DEF g
  <2>6. SumFunctionOnSet(g, S \cup {t}) = g[t] + SumFunctionOnSet(g, S)
    BY <1>7, <2>1, <2>3, <2>5, SumAdd
  <2>7. SumFunctionOnSet(g, S) = Net(n, S)
    <3>1. SumFunctionOnSet(g, S) = SumFunctionOnSet(Effect(n), S)
      BY <2>1, <2>5, SumSame
    <3> QED BY <3>1, NetIs DEF OpenedOf
  <2> QED BY <2>2, <2>3, <2>4, <2>6, <2>7
<1>9. difference = IF d THEN Moved(new, n) ELSE -Moved(new, n)
  <2>1. n # Equity /\ n \in BookNames
    BY NameFacts
  <2>2. book'[n] = books[n]
    <3>1. n \in DOMAIN books
      BY <2>1 DEF WithLedger, Base, TypeOK
    <3> QED BY <1>2, <2>1, <3>1 DEF WithEquity
  <2>3. /\ new.debit = (IF Debited(books[n], difference) THEN n ELSE Equity)
        /\ new.credit = (IF Debited(books[n], difference) THEN Equity ELSE n)
        /\ new.amount = Magnitude(difference)
    BY <1>4 DEF OpeningPair
  <2>4. Debited(books[n], difference) = ((difference > 0) = d)
    BY <2>2 DEF Debited
  <2> HIDE DEF new
  <2>5. Moved(new, n) = IF Debited(books[n], difference) THEN Magnitude(difference)
                        ELSE -Magnitude(difference)
    BY <1>1, <2>1, <2>3 DEF Moved, Magnitude
  <2>6. d \in BOOLEAN
    BY DEF DebitNormal
  <2> HIDE DEF d, books
  <2>7. CASE difference > 0
    BY <1>1, <2>4, <2>5, <2>6, <2>7 DEF Magnitude
  <2>8. CASE ~(difference > 0)
    <3>1. Magnitude(difference) = -difference /\ -(-difference) = difference
      BY <1>1, <2>8 DEF Magnitude
    <3>2. Debited(books[n], difference) = ~d
      BY <2>4, <2>6, <2>8
    <3> QED BY <2>5, <3>1, <3>2
  <2> QED BY <2>7, <2>8
<1> DEFINE N == Net(n, S)
           N2 == Net(n, OpenedOf(a))'
<1>10. N \in Int /\ PostedOpening(a) = IF d THEN N ELSE -N
  BY PostedIs
<1>11. PostedOpening(a)' = IF d THEN N2 ELSE -N2
  <2>1. PostedOpening(a)' = Signed(n, Net(n, OpenedOf(a)))'
    BY DEF Base, OpeningRead
  <2> QED BY <2>1 DEF Signed, NameOf
<1>12. N2 = Moved(new, n) + N /\ Moved(new, n) \in Int
  BY <1>8
<1> HIDE DEF N, N2, d, new
<1>13. CASE d
  BY <1>9, <1>10, <1>11, <1>12, <1>13
<1>14. CASE ~d
  BY <1>1, <1>9, <1>10, <1>11, <1>12, <1>14
<1> QED BY <1>13, <1>14

LEMMA BaseAlways == ASSUME NoRenames PROVE Spec => []Base
<1>1. TypeOK /\ Inv /\ Chart /\ EntriesDescribe => Base
  BY OpeningIsRead DEF Base
<1> QED BY <1>1, BooksTyped, InvAlways, DescribedAlways, PTL

\* What the ledger holds of an account is nothing or what the account records, and
\* a call that has read it has read what is still there; the first posting is of
\* the balance the account still records.
Recorded(a) ==
  \/ PostedOpening(a) = 0
  \/ account[a].opening # None /\ PostedOpening(a) = account[a].opening.minor

ReadBy(p, a) ==
  call[p] # None /\ call[p].account = a =>
    /\ call[p].already = PostedOpening(a)
    /\ ~call[p].corrects => account[a].opening # None /\ account[a].opening.minor = call[p].target

Settled(a) == Withdrawn(a) \/ (Recorded(a) /\ \A p \in Callers : ReadBy(p, a))

OpeningInv == \A a \in Accounts : Settled(a)

\* Nothing but the end of a call changes what an account records.
LEMMA RecordStays ==
  ASSUME TypeOK, Next, ~\E p \in Callers, t \in Txs : FinishOpening(p, t), NEW a \in Accounts
  PROVE  account'[a].opening = account[a].opening
<1>1. CASE UNCHANGED account
  BY <1>1
<1>2. CASE \E edit \in AdminEdits, v \in Names \cup AccountTypes \cup Currencies :
             AdminEdit(edit[1], edit[2], v)
  <2>1. PICK edit \in AdminEdits, v \in Names \cup AccountTypes \cup Currencies :
         AdminEdit(edit[1], edit[2], v)
    BY <1>2
  <2>2. edit[1] \in Accounts /\ edit[2] \in {"name", "account_type", "currency"}
    BY BooksAssumption
  <2>3. /\ account[edit[1]] \in Financial
        /\ \A x : /\ [account[edit[1]] EXCEPT !.name = x].opening = account[edit[1]].opening
                  /\ [account[edit[1]] EXCEPT !.type = x].opening = account[edit[1]].opening
                  /\ [account[edit[1]] EXCEPT !.currency = x].opening = account[edit[1]].opening
    BY <2>2 DEF TypeOK, Financial
  <2>4. \E new : /\ account' = [account EXCEPT ![edit[1]] = new]
                 /\ new.opening = account[edit[1]].opening
    <3>1. CASE edit[2] = "name"
      BY <2>1, <2>3, <3>1 DEF AdminEdit
    <3>2. CASE edit[2] = "account_type"
      BY <2>1, <2>3, <3>2 DEF AdminEdit
    <3>3. CASE edit[2] = "currency"
      BY <2>1, <2>3, <3>3 DEF AdminEdit
    <3> QED BY <2>2, <3>1, <3>2, <3>3
  <2> QED BY <2>2, <2>4 DEF TypeOK
<1>3. ASSUME NEW p \in Callers, Opening(p) PROVE UNCHANGED account
  BY <1>3 DEF Opening, BeginOpening, BeginCorrection
<1>4. CASE \E t \in Txs : Drafting(t) \/ Keeping(t)
  BY <1>1, <1>4, TransactionsOnly
<1>5. CASE \/ \E x \in Accounts : EnsureLedger(x)
           \/ \E k \in Cards, x \in Accounts, s \in Accounts \cup {None} : UpdateMapping(k, x, s)
  BY <1>1, <1>5 DEF EnsureLedger, UpdateMapping
<1> QED BY <1>1, <1>2, <1>3, <1>4, <1>5 DEF Next

\* A step that ends no call makes no opening posting, so a call that starts reads
\* what the others left.
LEMMA SettledElse ==
  ASSUME Base, Base', Next, ~\E p \in Callers, t \in Txs : FinishOpening(p, t),
         NEW a \in Accounts, Settled(a)
  PROVE  Settled(a)'
<1>1. CASE Withdrawn(a)
  BY <1>1, StaysWithdrawn DEF Base, Settled
<1>2. CASE ~Withdrawn(a) /\ ~Withdrawn(a)'
  <2>1. PostedOpening(a)' = PostedOpening(a)
    <3>1. \A t \in Txs : pair[t] = None /\ pair'[t] # None => tx'[t].type # "opening_balance"
      BY NewOpening DEF Base
    <3> QED BY <1>2, <3>1, PostedSame
  <2>2. account'[a].opening = account[a].opening
    BY RecordStays DEF Base
  <2>3. Recorded(a) /\ \A p \in Callers : ReadBy(p, a)
    BY <1>2 DEF Settled
  <2>4. Recorded(a)'
    BY <2>1, <2>2, <2>3 DEF Recorded
  <2>5. ASSUME NEW p \in Callers PROVE ReadBy(p, a)'
    <3>1. CASE call'[p] = call[p]
      BY <2>1, <2>2, <2>3, <3>1 DEF ReadBy
    <3>2. CASE call'[p] # call[p]
      <4>1. PICK q \in Callers : Opening(q)
        <5>1. call' # call
          BY <3>2
        <5> QED BY <5>1, TransactionsOnly DEF Next, EnsureLedger, AdminEdit, UpdateMapping
      <4>2. PICK b \in Accounts : BeginOpening(q, b) \/ \E m \in Openings : BeginCorrection(q, b, m)
        BY <4>1 DEF Opening
      <4>3. p = q
        BY <3>2, <4>2 DEF BeginOpening, BeginCorrection, Base, TypeOK
      <4>4. call = [c \in Callers |-> call[c]]
        BY DEF Base, TypeOK
      <4>5. CASE BeginOpening(q, b)
        BY <2>1, <2>2, <4>3, <4>4, <4>5 DEF BeginOpening, ReadBy
      <4>6. CASE \E m \in Openings : BeginCorrection(q, b, m)
        BY <2>1, <2>2, <4>3, <4>4, <4>6 DEF BeginCorrection, ReadBy
      <4> QED BY <4>2, <4>5, <4>6
    <3> QED BY <3>1, <3>2
  <2> QED BY <2>4, <2>5 DEF Settled
<1> QED BY <1>1, <1>2 DEF Settled

\* The end of the only call brings the ledger to what the account records then.
LEMMA SettledFinish ==
  ASSUME OneCaller, Base, Base', Next, NEW p \in Callers, NEW t \in Txs, FinishOpening(p, t),
         NEW a \in Accounts, Settled(a)
  PROVE  Settled(a)'
<1>1. \A q \in Callers : ReadBy(q, a)'
  <2>1. \A q \in Callers : call'[q] = None
    BY DEF OneCaller, FinishOpening, Base, TypeOK
  <2> QED BY <2>1 DEF ReadBy
<1>2. CASE Withdrawn(a)
  BY <1>2, StaysWithdrawn DEF Base, Settled
<1>3. CASE ~Withdrawn(a) /\ ~Withdrawn(a)'
  <2>1. Recorded(a) /\ ReadBy(p, a)
    BY <1>3 DEF Settled
  <2>2. call[p] # None /\ call[p] \in Calls
    BY DEF FinishOpening, Base, TypeOK
  <2>3. \A x \in Txs \ {t} : pair'[x] = pair[x]
    <3>1. pair' = pair \/ \E new : pair' = [pair EXCEPT ![t] = new]
      BY DEF FinishOpening
    <3> QED BY <3>1 DEF Base, TypeOK
  <2>4. CASE call[p].account # a
    <3>1. account'[a].opening = account[a].opening
      BY <2>4 DEF FinishOpening, Base, TypeOK
    <3>2. PostedOpening(a)' = PostedOpening(a)
      <4>1. pair'[t] # pair[t] => tx'[t].account = call[p].account
        BY DEF FinishOpening, NewTx, Base, TypeOK
      <4>2. \A x \in Txs : pair[x] = None /\ pair'[x] # None =>
                            ~(tx'[x].type = "opening_balance" /\ tx'[x].account = a)
        BY <2>3, <2>4, <4>1
      <4> QED BY <1>3, <4>2, PostedSame
    <3>3. Recorded(a)'
      BY <2>1, <3>1, <3>2 DEF Recorded
    <3> QED BY <1>1, <3>3 DEF Settled
  <2>5. CASE call[p].account = a
    <3>1. PICK target \in Int : target = call[p].target
      BY <2>2 DEF Calls
    <3>2. call[p].already = PostedOpening(a) /\ PostedOpening(a) \in Int
      BY <2>1, <2>2, <2>5 DEF ReadBy, Calls
    <3>3. account'[a].opening # None /\ account'[a].opening.minor = target
      <4>1. CASE call[p].corrects
        <5> DEFINE new == [minor |-> target, currency |-> call[p].seen.currency]
        <5>1. new \in Sums /\ new.minor = target
          BY <2>2 DEF Calls, Financial, Sums
        <5>2. account'[a].opening = new
          BY <2>5, <3>1, <4>1 DEF FinishOpening, Base, TypeOK, Financial
        <5> HIDE DEF new
        <5> QED BY <5>1, <5>2, NoneIsNothing
      <4>2. CASE ~call[p].corrects
        BY <2>1, <2>2, <2>5, <3>1, <4>2 DEF FinishOpening, ReadBy
      <4> QED BY <4>1, <4>2
    <3>4. PostedOpening(a)' = target
      <4>1. PICK difference \in Int : difference = target - call[p].already
        BY <3>2
      <4>2. CASE difference = 0
        <5>1. pair' = pair
          BY <3>1, <4>1, <4>2 DEF FinishOpening
        <5>2. PostedOpening(a)' = PostedOpening(a)
          BY <1>3, <5>1, PostedSame
        <5> QED BY <3>2, <4>1, <4>2, <5>2
      <4>3. CASE difference # 0
        <5>1. PostedOpening(a)' = PostedOpening(a) + difference
          BY <2>5, <3>1, <4>1, <4>3, PostedMore
        <5> QED BY <3>2, <4>1, <5>1
      <4> QED BY <4>2, <4>3
    <3>5. Recorded(a)'
      BY <3>3, <3>4 DEF Recorded
    <3> QED BY <1>1, <3>5 DEF Settled
  <2> QED BY <2>4, <2>5
<1> QED BY <1>2, <1>3 DEF Settled

\* Whatever is posted, deleted and corrected around them, one call at a time of the
\* opening-balance services leaves in the ledger the opening balance the account
\* records, or none (post_opening_balance, correct_opening_balance); two calls that
\* overlap post it twice, and a rename can hand them another account's ledger.
THEOREM OpeningAlwaysStands ==
  ASSUME OneCaller, NoRenames PROVE Spec => []OpeningStands
<1>1. Init => OpeningInv
  <2> SUFFICES ASSUME Init, NEW a \in Accounts PROVE Settled(a)
    BY DEF OpeningInv
  <2>1. PostedOpening(a) = 0
    <3>1. Standing(a) = {}
      BY BooksAssumption DEF Init, Standing
    <3> QED BY <3>1 DEF PostedOpening
  <2>2. \A p \in Callers : call[p] = None
    BY DEF Init
  <2> QED BY <2>1, <2>2 DEF Settled, Recorded, ReadBy
<1>2. ASSUME Base, Base', OpeningInv, [Next]_vars PROVE OpeningInv'
  <2> SUFFICES ASSUME NEW a \in Accounts PROVE Settled(a)'
    BY DEF OpeningInv
  <2>1. Settled(a)
    BY <1>2 DEF OpeningInv
  <2>2. CASE UNCHANGED vars
    BY <2>1, <2>2 DEF vars, Settled, Withdrawn, Recorded, ReadBy, PostedOpening, Standing, Signed,
       DebitNormal, Net
  <2>3. CASE Next
    BY <1>2, <2>1, <2>3, SettledElse, SettledFinish
  <2> QED BY <1>2, <2>2, <2>3
<1>3. OpeningInv => OpeningStands
  BY DEF OpeningInv, Settled, Withdrawn, Recorded, OpeningStands
<1> QED BY <1>1, <1>2, <1>3, BaseAlways, PTL DEF Spec
-----------------------------------------------------------------------------
(* Sums over the classes of a set *)

LEMMA FiniteKeys ==
  ASSUME NEW T, IsFiniteSet(T), NEW key PROVE IsFiniteSet({key[x] : x \in T})
<1> DEFINE K == {key[x] : x \in T}
           f == [x \in T |-> key[x]]
<1>1. f \in Surjection(T, K)
  BY DEF Surjection
<1> HIDE DEF f, K
<1>2. IsFiniteSet(K)
  BY <1>1, FS_Surjection
<1> QED BY <1>2 DEF K

\* What the members of S come to, key by key.
Cells(f, S, key, K) == [k \in K |-> SumFunctionOnSet(f, {x \in S : key[x] = k})]

LEMMA CellsType ==
  ASSUME NEW S, IsFiniteSet(S), NEW f, \A x \in S : f[x] \in Int, NEW key, NEW K, NEW k \in K
  PROVE  Cells(f, S, key, K)[k] \in Int
<1>1. IsFiniteSet({x \in S : key[x] = k})
  BY FS_Subset
<1> QED BY <1>1, SumType DEF Cells

\* A set adds up to the sum of its classes.
LEMMA SumByKey ==
  ASSUME NEW T, IsFiniteSet(T), NEW f, \A x \in T : f[x] \in Int,
         NEW K, IsFiniteSet(K), NEW key, \A x \in T : key[x] \in K
  PROVE  SumFunctionOnSet(Cells(f, T, key, K), K) = SumFunctionOnSet(f, T)
<1> DEFINE Good == {s \in SUBSET T :
                      SumFunctionOnSet(Cells(f, s, key, K), K) = SumFunctionOnSet(f, s)}
<1>1. ASSUME NEW s \in SUBSET T, \A u \in SUBSET s : u # s => u \in Good PROVE s \in Good
  <2>0. IsFiniteSet(s)
    BY FS_Subset
  <2>1. CASE s = {}
    <3> DEFINE g == Cells(f, s, key, K)
    <3>1. \A k \in K : g[k] = 0
      <4> SUFFICES ASSUME NEW k \in K PROVE g[k] = 0
        OBVIOUS
      <4>1. {x \in s : key[x] = k} = {}
        BY <2>1
      <4> QED BY <4>1, SumEmpty DEF Cells
    <3> HIDE DEF g
    <3>2. SumFunctionOnSet(g, {}) = SumFunctionOnSet(g, K)
      BY <3>1, SumSkip
    <3>3. SumFunctionOnSet(g, K) = 0
      BY <3>2, SumEmpty
    <3> QED BY <2>1, <3>3, SumEmpty DEF g
  <2>2. CASE s # {}
    <3> DEFINE y == Pick(s)
               rest == s \ {y}
               g == Cells(f, s, key, K)
               h == Cells(f, rest, key, K)
    <3>1. y \in s /\ y \in T /\ key[y] \in K
      BY <2>2, Picked
    <3>2. rest \in SUBSET s /\ rest # s /\ rest \in SUBSET T /\ IsFiniteSet(rest)
      BY <2>0, <3>1, FS_Subset
    <3>3. SumFunctionOnSet(h, K) = SumFunctionOnSet(f, rest)
      BY <1>1, <3>2
    <3>4. SumFunctionOnSet(f, s) = f[y] + SumFunctionOnSet(f, rest)
      BY <2>0, <3>1, SumRemove
    <3>5. \A k \in K : g[k] \in Int /\ h[k] \in Int
      BY <2>0, <3>2, CellsType
    <3>6. \A k \in K \ {key[y]} : g[k] = h[k]
      <4> SUFFICES ASSUME NEW k \in K \ {key[y]} PROVE g[k] = h[k]
        OBVIOUS
      <4>1. {x \in s : key[x] = k} = {x \in rest : key[x] = k}
        OBVIOUS
      <4> QED BY <4>1 DEF Cells
    <3>7. g[key[y]] = f[y] + h[key[y]]
      <4> DEFINE C == {x \in s : key[x] = key[y]}
      <4>1. C \ {y} = {x \in rest : key[x] = key[y]} /\ y \in C /\ C \in SUBSET T
        BY <3>1
      <4>2. g[key[y]] = SumFunctionOnSet(f, C) /\ h[key[y]] = SumFunctionOnSet(f, C \ {y})
        BY <3>1, <4>1 DEF Cells
      <4>3. IsFiniteSet(C) /\ \A x \in C : f[x] \in Int
        BY <2>0, FS_Subset
      <4> HIDE DEF C
      <4> QED BY <4>1, <4>2, <4>3, SumRemove
    <3> HIDE DEF g, h, y, rest
    <3>8. /\ SumFunctionOnSet(g, K) = g[key[y]] + SumFunctionOnSet(g, K \ {key[y]})
          /\ SumFunctionOnSet(h, K) = h[key[y]] + SumFunctionOnSet(h, K \ {key[y]})
      BY <3>1, <3>5, SumRemove
    <3>9. IsFiniteSet(K \ {key[y]})
      BY FS_Subset
    <3>10. /\ SumFunctionOnSet(g, K \ {key[y]}) = SumFunctionOnSet(h, K \ {key[y]})
           /\ SumFunctionOnSet(h, K \ {key[y]}) \in Int
      BY <3>5, <3>6, <3>9, SumSame, SumType
    <3>11. f[y] \in Int /\ h[key[y]] \in Int
      BY <3>1, <3>5
    <3>12. SumFunctionOnSet(g, K) = f[y] + SumFunctionOnSet(h, K)
      BY <3>7, <3>8, <3>10, <3>11
    <3>13. SumFunctionOnSet(g, K) = SumFunctionOnSet(f, s)
      BY <3>3, <3>4, <3>12
    <3> QED BY <3>13 DEF g
  <2> QED BY <2>1, <2>2
<1> HIDE DEF Good
<1>2. T \in Good
  BY <1>1, SubsetInduction
<1> QED BY <1>2 DEF Good

\* A set adds up to the sum of its two halves.
LEMMA SumSplit ==
  ASSUME NEW T, IsFiniteSet(T), NEW f, \A x \in T : f[x] \in Int, NEW A \in SUBSET T
  PROVE  SumFunctionOnSet(f, T) = SumFunctionOnSet(f, A) + SumFunctionOnSet(f, T \ A)
<1> DEFINE key == [x \in T |-> IF x \in A THEN 1 ELSE 0]
           g == Cells(f, T, key, {0, 1})
<1>1. {x \in T : key[x] = 1} = A /\ {x \in T : key[x] = 0} = T \ A
  OBVIOUS
<1>2. g[1] = SumFunctionOnSet(f, A) /\ g[0] = SumFunctionOnSet(f, T \ A)
  BY <1>1 DEF Cells
<1>3. IsFiniteSet({0, 1}) /\ {0, 1} \ {1} = {0} /\ IsFiniteSet({0}) /\ {0} \ {0} = {}
  <2>1. IsFiniteSet({0}) /\ IsFiniteSet({0} \cup {1}) /\ {0} \cup {1} = {0, 1}
    BY FS_Singleton, FS_AddElement
  <2> QED BY <2>1
<1>4. g[0] \in Int /\ g[1] \in Int
  BY CellsType
<1>5. \A x \in T : key[x] \in {0, 1}
  OBVIOUS
<1> HIDE DEF key
<1>6. SumFunctionOnSet(g, {0, 1}) = SumFunctionOnSet(f, T)
  BY <1>3, <1>5, SumByKey
<1> HIDE DEF g
<1>7. SumFunctionOnSet(g, {0, 1}) = g[1] + SumFunctionOnSet(g, {0})
  BY <1>3, <1>4, SumRemove
<1>8. SumFunctionOnSet(g, {0}) = g[0] + SumFunctionOnSet(g, {})
  BY <1>3, <1>4, SumRemove
<1> QED BY <1>2, <1>4, <1>6, <1>7, <1>8, SumEmpty

LEMMA SumOne == ASSUME NEW f, NEW x, f[x] \in Int PROVE SumFunctionOnSet(f, {x}) = f[x]
<1>1. IsFiniteSet({x}) /\ {x} \ {x} = {}
  BY FS_Singleton
<1>2. SumFunctionOnSet(f, {x}) = f[x] + SumFunctionOnSet(f, {x} \ {x})
  BY <1>1, SumRemove
<1> QED BY <1>1, <1>2, SumEmpty

\* A sum over things is the sum over what each is written as.
LEMMA SumImage ==
  ASSUME NEW T, IsFiniteSet(T), NEW f, \A x \in T : f[x] \in Int,
         NEW key, \A x, y \in T : key[x] = key[y] => x = y,
         NEW g, \A x \in T : g[key[x]] = f[x]
  PROVE  SumFunctionOnSet(g, {key[x] : x \in T}) = SumFunctionOnSet(f, T)
<1> DEFINE K == {key[x] : x \in T}
           cells == Cells(f, T, key, K)
<1>1. IsFiniteSet(K)
  BY FiniteKeys
<1>2. \A k \in K : g[k] = cells[k]
  <2> SUFFICES ASSUME NEW x \in T PROVE g[key[x]] = cells[key[x]]
    OBVIOUS
  <2>1. {y \in T : key[y] = key[x]} = {x}
    OBVIOUS
  <2>2. cells[key[x]] = SumFunctionOnSet(f, {x})
    BY <2>1 DEF Cells
  <2> QED BY <2>2, SumOne
<1>3. \A x \in T : key[x] \in K
  OBVIOUS
<1> HIDE DEF K
<1>4. SumFunctionOnSet(cells, K) = SumFunctionOnSet(f, T)
  BY <1>1, <1>3, SumByKey
<1> HIDE DEF cells
<1>5. SumFunctionOnSet(g, K) = SumFunctionOnSet(cells, K)
  BY <1>1, <1>2, SumSame
<1> QED BY <1>4, <1>5 DEF K

LEMMA SumNegate ==
  ASSUME NEW T, IsFiniteSet(T), NEW f, NEW g, \A x \in T : f[x] \in Int /\ g[x] = -f[x]
  PROVE  SumFunctionOnSet(g, T) = -SumFunctionOnSet(f, T)
<1> DEFINE Good == {s \in SUBSET T : SumFunctionOnSet(g, s) = -SumFunctionOnSet(f, s)}
<1>1. ASSUME NEW s \in SUBSET T, \A u \in SUBSET s : u # s => u \in Good PROVE s \in Good
  <2>1. CASE s = {}
    BY <2>1, SumEmpty, MinusZero
  <2>2. CASE s # {}
    <3> DEFINE y == Pick(s)
               rest == s \ {y}
    <3>1. y \in s /\ f[y] \in Int /\ g[y] = -f[y]
      BY <2>2, Picked
    <3>2. rest \in SUBSET s /\ rest # s /\ IsFiniteSet(rest) /\ IsFiniteSet(s)
      BY <3>1, FS_Subset
    <3>3. rest \in Good
      BY <1>1, <3>2
    <3>4. /\ SumFunctionOnSet(f, s) = f[y] + SumFunctionOnSet(f, rest)
          /\ SumFunctionOnSet(g, s) = g[y] + SumFunctionOnSet(g, rest)
      BY <2>2, <3>2, SumPicked
    <3>5. SumFunctionOnSet(f, rest) \in Int
      BY <3>2, SumType
    <3> HIDE DEF y, rest
    <3>6. SumFunctionOnSet(g, s) = -SumFunctionOnSet(f, s)
      BY <3>1, <3>3, <3>4, <3>5
    <3> QED BY <3>6
  <2> QED BY <2>1, <2>2
<1> HIDE DEF Good
<1>2. T \in Good
  BY <1>1, SubsetInduction
<1> QED BY <1>2 DEF Good

-----------------------------------------------------------------------------
(* Totals *)

\* A set of reportable transactions.
Reported(rows) ==
  rows \in SUBSET Txs /\ \A t \in rows : tx[t].type \in AllTypes \ OpeningTypes /\ tx[t].amount \in Nat

Amounts == [t \in Txs |-> tx[t].amount]

LEMMA RowsReported ==
  ASSUME TypeOK, NEW period \in SUBSET Txs, NEW c PROVE Reported(Rows(period, c))
BY TxFacts DEF Rows, Reportable, Reported, OpeningTypes

LEMMA TotalIs ==
  ASSUME NEW rows, Reported(rows), NEW S \in SUBSET rows
  PROVE  /\ Total(S) = SumFunctionOnSet(Amounts, S) /\ Total(S) \in Int /\ IsFiniteSet(S)
         /\ S \in SUBSET Txs /\ \A t \in S : Amounts[t] \in Int /\ Amounts[t] = tx[t].amount
<1> DEFINE f == [t \in S |-> tx[t].amount]
<1>1. S \in SUBSET Txs /\ IsFiniteSet(S)
  BY TxsFinite DEF Reported
<1>2. \A t \in S : Amounts[t] \in Int /\ Amounts[t] = tx[t].amount /\ f[t] = tx[t].amount
  BY <1>1 DEF Reported, Amounts
<1>3. Total(S) = SumFunction(f) /\ DOMAIN f = S
  BY DEF Total
<1> HIDE DEF f
<1>4. Total(S) = SumFunctionOnSet(Amounts, S)
  BY <1>1, <1>2, <1>3, SumSame DEF SumFunction
<1> QED BY <1>1, <1>2, <1>4, SumType

LEMMA TotalSplit ==
  ASSUME NEW rows, Reported(rows), NEW S \in SUBSET rows, NEW A \in SUBSET S
  PROVE  Total(S) = Total(A) + Total(S \ A)
BY TotalIs, SumSplit

\* The column of a report is the total of the rows that went to it.
LEMMA ColumnTotal ==
  ASSUME NEW rows, Reported(rows), NEW key, NEW column, NEW columns, NEW col \in columns,
         NEW S \in SUBSET rows
  PROVE  ColumnSum(Lines(S, key, column, columns), col) = Total({t \in S : column[t] = col})
<1> DEFINE K == {key[t] : t \in S}
           C == {t \in S : column[t] = col}
           lines == Lines(S, key, column, columns)
           sums == [k \in K |-> lines[k][col]]
           cells == Cells(Amounts, C, key, K)
<1>1. IsFiniteSet(K)
  <2>1. IsFiniteSet(S)
    BY TotalIs
  <2> QED BY <2>1, FiniteKeys
<1>2. DOMAIN lines = K
  BY DEF Lines
<1>3. \A k \in K : sums[k] = cells[k]
  <2> SUFFICES ASSUME NEW k \in K PROVE sums[k] = cells[k]
    OBVIOUS
  <2>1. sums[k] = Total({t \in S : key[t] = k /\ column[t] = col})
    BY DEF Lines
  <2>2. {t \in S : key[t] = k /\ column[t] = col} = {t \in C : key[t] = k}
    OBVIOUS
  <2>3. Total({t \in C : key[t] = k}) = SumFunctionOnSet(Amounts, {t \in C : key[t] = k})
    BY TotalIs
  <2> QED BY <2>1, <2>2, <2>3 DEF Cells
<1>4. ColumnSum(lines, col) = SumFunctionOnSet(sums, K)
  BY <1>2 DEF ColumnSum, SumFunction
<1>5. Total(C) = SumFunctionOnSet(Amounts, C) /\ IsFiniteSet(C) /\ \A t \in C : Amounts[t] \in Int
  BY TotalIs
<1>6. \A t \in C : key[t] \in K
  OBVIOUS
<1> HIDE DEF K, C, sums
<1>7. SumFunctionOnSet(cells, K) = SumFunctionOnSet(Amounts, C)
  BY <1>1, <1>5, <1>6, SumByKey
<1> HIDE DEF cells, lines
<1>8. SumFunctionOnSet(sums, K) = SumFunctionOnSet(cells, K)
  BY <1>1, <1>3, SumSame
<1> QED BY <1>4, <1>5, <1>7, <1>8 DEF lines, C

-----------------------------------------------------------------------------
(* The pages agree *)

Buckets == {"spending", "income", "refund", "neutral", "unresolved"}

LEMMA BucketsAre == DOMAIN Members = Buckets
  BY DEF Members, Buckets

\* What each page makes of a transaction, by its bucket.
LEMMA Meaning ==
  ASSUME NEW t, tx[t].type \in AllTypes \ OpeningTypes
  PROVE  /\ Bucket(t) \in Buckets
         /\ tx[t].type \in SpendingOrRefund <=> Bucket(t) \in {"spending", "refund"}
         /\ OverviewField(t) = "income" <=> Bucket(t) = "income"
         /\ OverviewField(t) = "refunds" <=> Bucket(t) = "refund"
         /\ OverviewField(t) = "unresolved" <=> Bucket(t) = "unresolved"
         /\ OverviewField(t) \in {"card_expenses", "cash_expenses"} <=> Bucket(t) = "spending"
         /\ OverviewField(t) \in {"cash_withdrawals", "settlements", "transfers"}
              <=> Bucket(t) = "neutral"
         /\ ActivityColumn(t) \in ActivityColumns
         /\ ActivityColumn(t) = "gross_spending" <=> Bucket(t) = "spending"
         /\ ActivityColumn(t) = "refunds" <=> Bucket(t) = "refund"
         /\ ActivityColumn(t) = "income" <=> Bucket(t) = "income"
         /\ ActivityColumn(t) = "settlements" <=> OverviewField(t) = "settlements"
         /\ ActivityColumn(t) = "movement"
              <=> OverviewField(t) \in {"cash_withdrawals", "transfers"}
<1>1. AllTypes \ OpeningTypes =
        {"purchase", "income", "bank_transfer", "internal_transfer", "credit_card_payment",
         "cash_withdrawal", "refund", "fee", "interest", "loan_payment", "adjustment", "unknown"}
  BY DEF AllTypes, PostingRules, OpeningTypes
<1>2. CASE tx[t].type \in SpendingTypes
  <2>1. Bucket(t) = "spending" /\ ~IsSettlement(t)
    <3>1. Bucket(t) = "spending"
      BY <1>2 DEF Bucket, BucketOf, SpendingTypes, IncomeTypes, RefundTypes, NeutralTypes,
         UnresolvedTypes
    <3>2. ~IsSettlement(t)
      BY <1>2 DEF SpendingTypes, IsSettlement, SettlementTypes
    <3> QED BY <3>1, <3>2
  <2>2. OverviewField(t) \in {"card_expenses", "cash_expenses"}
    BY <2>1 DEF OverviewField
  <2>3. ActivityColumn(t) = "gross_spending"
    BY <2>1 DEF ActivityColumn
  <2> QED BY <1>2, <2>1, <2>2, <2>3 DEF Buckets, ActivityColumns, SpendingOrRefund
<1>3. CASE tx[t].type \in IncomeTypes \cup RefundTypes \cup UnresolvedTypes
  <2>1. /\ Bucket(t) = IF tx[t].type = "income" THEN "income"
                       ELSE IF tx[t].type = "refund" THEN "refund" ELSE "unresolved"
        /\ ~IsSettlement(t)
    BY <1>3 DEF Bucket, BucketOf, SpendingTypes, IncomeTypes, RefundTypes, NeutralTypes,
       UnresolvedTypes, IsSettlement, SettlementTypes
  <2>2. /\ Bucket(t) = "income" => OverviewField(t) = "income" /\ ActivityColumn(t) = "income"
        /\ Bucket(t) = "refund" => OverviewField(t) = "refunds" /\ ActivityColumn(t) = "refunds"
        /\ Bucket(t) = "unresolved" =>
             OverviewField(t) = "unresolved" /\ ActivityColumn(t) = "unresolved"
    BY DEF OverviewField, ActivityColumn
  <2> QED BY <1>3, <2>1, <2>2 DEF Buckets, ActivityColumns, SpendingOrRefund, SpendingTypes,
          IncomeTypes, RefundTypes, UnresolvedTypes
<1>4. CASE tx[t].type \in NeutralTypes
  <2>1. Bucket(t) = "neutral" /\ tx[t].type \notin SpendingOrRefund
    <3>1. tx[t].type \notin SpendingTypes \cup IncomeTypes \cup RefundTypes \cup UnresolvedTypes
      BY <1>4 DEF SpendingTypes, IncomeTypes, RefundTypes, NeutralTypes, UnresolvedTypes
    <3>2. Bucket(t) = "neutral"
      BY <1>4, <3>1 DEF Bucket, BucketOf
    <3> QED BY <3>1, <3>2 DEF SpendingOrRefund
  <2>2. CASE IsSettlement(t)
    <3>1. OverviewField(t) = "settlements"
      BY <2>1, <2>2 DEF OverviewField, IsSettlement, SettlementTypes
    <3>2. ActivityColumn(t) = "settlements"
      BY <2>1, <2>2 DEF ActivityColumn
    <3> QED BY <2>1, <3>1, <3>2 DEF Buckets, ActivityColumns
  <2>3. CASE ~IsSettlement(t)
    <3>1. OverviewField(t) \in {"cash_withdrawals", "transfers"}
      BY <2>1, <2>3 DEF OverviewField
    <3>2. ActivityColumn(t) = "movement"
      BY <2>1, <2>3 DEF ActivityColumn
    <3> QED BY <2>1, <3>1, <3>2 DEF Buckets, ActivityColumns
  <2> QED BY <2>2, <2>3
<1> QED BY <1>1, <1>2, <1>3, <1>4
        DEF SpendingTypes, IncomeTypes, RefundTypes, NeutralTypes, UnresolvedTypes

InBucket(rows, b) == {t \in rows : Bucket(t) = b}

InField(rows, f) == {t \in rows : OverviewField(t) = f}

LEMMA TotalsAre ==
  ASSUME NEW rows
  PROVE  /\ \A b \in Buckets : Totals(rows)[b] = Total(InBucket(rows, b))
         /\ \A f \in Counters : Overview(rows)[f] = Total(InField(rows, f))
BY BucketsAre DEF Totals, Overview, InBucket, InField

\* The lines of a breakdown add up to the month.
LEMMA BreakdownReconciles ==
  ASSUME NEW rows, Reported(rows), NEW key
  PROVE  Reconciles(Breakdown(rows, key), Totals(rows))
<1> DEFINE S == SpendingRows(rows)
           column == [t \in S |-> BreakdownColumn(t)]
           columns == {"gross_spending", "refunds"}
           lines == Lines(S, key, column, columns)
<1>1. S \in SUBSET rows /\ Breakdown(rows, key) = lines
  BY DEF SpendingRows, Breakdown
<1>2. {t \in S : column[t] = "gross_spending"} = InBucket(rows, "spending")
  BY Meaning DEF SpendingRows, BreakdownColumn, InBucket, Reported
<1>3. {t \in S : column[t] = "refunds"} = InBucket(rows, "refund")
  BY Meaning DEF SpendingRows, BreakdownColumn, InBucket, Reported
<1> HIDE DEF column, S
<1>4. /\ ColumnSum(lines, "gross_spending") = Total({t \in S : column[t] = "gross_spending"})
      /\ ColumnSum(lines, "refunds") = Total({t \in S : column[t] = "refunds"})
  BY <1>1, ColumnTotal
<1>5. /\ Totals(rows)["spending"] = Total(InBucket(rows, "spending"))
      /\ Totals(rows)["refund"] = Total(InBucket(rows, "refund"))
  BY TotalsAre DEF Buckets
<1> HIDE DEF lines
<1> QED BY <1>1, <1>2, <1>3, <1>4, <1>5 DEF Reconciles, BreakdownNet, NetSpending

\* The fields of the overview are parts of the buckets.
LEMMA OverviewReconciles ==
  ASSUME NEW rows, Reported(rows)
  PROVE  /\ Total(InBucket(rows, "spending")) = Total(InField(rows, "card_expenses"))
                                                + Total(InField(rows, "cash_expenses"))
         /\ InBucket(rows, "refund") = InField(rows, "refunds")
         /\ InBucket(rows, "unresolved") = InField(rows, "unresolved")
         /\ Total(InBucket(rows, "neutral")) =
              Total(InField(rows, "cash_withdrawals")) + Total(InField(rows, "settlements"))
                + Total(InField(rows, "transfers"))
<1>1. \A t \in rows : tx[t].type \in AllTypes \ OpeningTypes
  BY DEF Reported
<1>2. /\ InBucket(rows, "refund") = InField(rows, "refunds")
      /\ InBucket(rows, "unresolved") = InField(rows, "unresolved")
  BY <1>1, Meaning DEF InBucket, InField
<1>3. \A b, f : InBucket(rows, b) \in SUBSET rows /\ InField(rows, f) \in SUBSET rows
  BY DEF InBucket, InField
<1>4. Total(InBucket(rows, "spending")) =
        Total(InField(rows, "card_expenses")) + Total(InField(rows, "cash_expenses"))
  <2>1. /\ InField(rows, "card_expenses") \in SUBSET InBucket(rows, "spending")
        /\ InBucket(rows, "spending") \ InField(rows, "card_expenses")
             = InField(rows, "cash_expenses")
    BY <1>1, Meaning DEF InBucket, InField
  <2> QED BY <1>3, <2>1, TotalSplit
<1>5. Total(InBucket(rows, "neutral")) =
        Total(InField(rows, "cash_withdrawals")) + Total(InField(rows, "settlements"))
          + Total(InField(rows, "transfers"))
  <2> DEFINE N == InBucket(rows, "neutral")
             W == InField(rows, "cash_withdrawals")
             S == InField(rows, "settlements")
             F == InField(rows, "transfers")
  <2>1. W \in SUBSET N /\ S \in SUBSET (N \ W) /\ (N \ W) \ S = F
    BY <1>1, Meaning DEF InBucket, InField
  <2>2. N \in SUBSET rows /\ N \ W \in SUBSET rows /\ W \in SUBSET rows /\ S \in SUBSET rows
        /\ F \in SUBSET rows
    BY <1>3
  <2> HIDE DEF N, W, S, F
  <2>3. Total(N) = Total(W) + Total(N \ W) /\ Total(N \ W) = Total(S) + Total(F)
    BY <2>1, <2>2, TotalSplit
  <2>4. Total(W) \in Int /\ Total(S) \in Int /\ Total(F) \in Int
    BY <2>2, TotalIs
  <2>5. Total(N) = Total(W) + Total(S) + Total(F)
    BY <2>3, <2>4
  <2> QED BY <2>5 DEF N, W, S, F
<1> QED BY <1>2, <1>4, <1>5

\* The columns of an activity page, whatever it is grouped by.
LEMMA ActivityReconciles ==
  ASSUME NEW rows, Reported(rows), NEW key
  PROVE  LET lines == Activity(rows, key)
         IN /\ ColumnSum(lines, "gross_spending") = Total(InBucket(rows, "spending"))
            /\ ColumnSum(lines, "settlements") = Total(InField(rows, "settlements"))
            /\ ColumnSum(lines, "movement") =
                 Total(InField(rows, "cash_withdrawals")) + Total(InField(rows, "transfers"))
<1> DEFINE column == [t \in rows |-> ActivityColumn(t)]
           lines == Lines(rows, key, column, ActivityColumns)
           M == {t \in rows : column[t] = "movement"}
           W == InField(rows, "cash_withdrawals")
<1>1. Activity(rows, key) = lines
  BY DEF Activity
<1>2. \A t \in rows : tx[t].type \in AllTypes \ OpeningTypes
  BY DEF Reported
<1>3. /\ {t \in rows : column[t] = "gross_spending"} = InBucket(rows, "spending")
      /\ {t \in rows : column[t] = "settlements"} = InField(rows, "settlements")
  BY <1>2, Meaning DEF InBucket, InField
<1>4. M \in SUBSET rows /\ W \in SUBSET M /\ M \ W = InField(rows, "transfers")
  BY <1>2, Meaning DEF InField
<1> HIDE DEF column
<1>5. \A col \in ActivityColumns :
        ColumnSum(lines, col) = Total({t \in rows : column[t] = col})
  BY ColumnTotal
<1>6. {"gross_spending", "settlements", "movement"} \subseteq ActivityColumns
  BY DEF ActivityColumns
<1> HIDE DEF lines
<1>7. ColumnSum(lines, "movement") = Total(W) + Total(InField(rows, "transfers"))
  <2>1. ColumnSum(lines, "movement") = Total(M)
    BY <1>5, <1>6
  <2>2. Total(M) = Total(W) + Total(M \ W)
    BY <1>4, TotalSplit
  <2> QED BY <1>4, <2>1, <2>2
<1> QED BY <1>1, <1>3, <1>5, <1>6, <1>7

\* An export carries the amounts of each bucket once.
LEMMA ExportReconciles ==
  ASSUME NEW rows, Reported(rows), NEW b
  PROVE  SumFunction([x \in {e \in ExportRows(rows) : e.bucket = b} |-> x.amount])
           = Total(InBucket(rows, b))
<1> DEFINE B == InBucket(rows, b)
           E == {e \in ExportRows(rows) : e.bucket = b}
           written == [t \in Txs |-> [transaction |-> t, bucket |-> Bucket(t),
                                     amount |-> tx[t].amount, status |-> tx[t].status]]
           g == [x \in E |-> x.amount]
<1>1. B \in SUBSET rows /\ rows \in SUBSET Txs
  BY DEF InBucket, Reported
<1>2. ExportRows(rows) = {written[t] : t \in rows}
  BY <1>1 DEF ExportRows
<1>3. \A t \in Txs : /\ written[t].transaction = t /\ written[t].bucket = Bucket(t)
                     /\ written[t].amount = tx[t].amount
  OBVIOUS
<1> HIDE DEF written
<1>4. E = {written[t] : t \in B}
  BY <1>1, <1>2, <1>3 DEF InBucket
<1>5. \A t \in B : g[written[t]] = Amounts[t]
  BY <1>1, <1>3, <1>4 DEF Amounts
<1>6. \A x, y \in B : written[x] = written[y] => x = y
  BY <1>1, <1>3
<1>7. Total(B) = SumFunctionOnSet(Amounts, B) /\ IsFiniteSet(B) /\ \A t \in B : Amounts[t] \in Int
  BY <1>1, TotalIs
<1>8. SumFunction(g) = SumFunctionOnSet(g, E)
  BY DEF SumFunction
<1> HIDE DEF B, E, g
<1>9. SumFunctionOnSet(g, {written[t] : t \in B}) = SumFunctionOnSet(Amounts, B)
  BY <1>5, <1>6, <1>7, SumImage
<1> QED BY <1>4, <1>7, <1>8, <1>9 DEF B, E, g

\* Whatever was typed, corrected, deleted and reversed, and however many rows a
\* period holds, the month, the overview, the activity of accounts and of cards,
\* the breakdowns by any key and the export of one period and currency agree
\* (reconciles, which test_category_reports.py and test_report_performance.py assert
\* of the histories they build).
THEOREM ReportsAlwaysAgree == Spec => []ReportsAgree
<1>1. ASSUME TypeOK PROVE ReportsAgree
  <2> SUFFICES ASSUME NEW period \in SUBSET Txs, NEW c \in Currencies, NEW rows,
                      rows = Rows(period, c)
               PROVE  PagesAgree(rows)
    BY DEF ReportsAgree
  <2>1. Reported(rows)
    BY <1>1, RowsReported
  <2> DEFINE totals == Totals(rows)
             over == Overview(rows)
  <2>2. \A key : Reconciles(Breakdown(rows, key), totals)
    BY <2>1, BreakdownReconciles
  <2>3. /\ \A b \in Buckets : totals[b] = Total(InBucket(rows, b))
        /\ \A f \in Counters : over[f] = Total(InField(rows, f))
    BY TotalsAre
  <2>4. /\ {"spending", "refund", "neutral", "unresolved"} \subseteq Buckets
        /\ {"card_expenses", "cash_expenses", "refunds", "unresolved", "cash_withdrawals",
            "settlements", "transfers"} \subseteq Counters
    BY DEF Buckets, Counters
  <2>5. /\ Total(InBucket(rows, "spending")) = OverviewGross(over)
        /\ totals["refund"] = over["refunds"] /\ over["unresolved"] = totals["unresolved"]
        /\ Excluded(over) = totals["neutral"]
    BY <2>1, <2>3, <2>4, OverviewReconciles DEF OverviewGross, Excluded
  <2>6. OverviewGross(over) - over["refunds"] = NetSpending(totals)
    BY <2>3, <2>4, <2>5 DEF NetSpending
  <2>7. \A lines \in {AccountActivity(rows), CardActivity(rows)} :
          /\ ColumnSum(lines, "gross_spending") = OverviewGross(over)
          /\ ColumnSum(lines, "settlements") = over["settlements"]
          /\ ColumnSum(lines, "movement") = over["cash_withdrawals"] + over["transfers"]
    BY <2>1, <2>3, <2>4, <2>5, ActivityReconciles DEF AccountActivity, CardActivity
  <2>8. \A b \in DOMAIN Members :
          SumFunction([x \in {e \in ExportRows(rows) : e.bucket = b} |-> x.amount]) = totals[b]
    BY <2>1, <2>3, BucketsAre, ExportReconciles
  <2> HIDE DEF totals, over
  <2> QED BY <2>2, <2>5, <2>6, <2>7, <2>8 DEF totals, over, PagesAgree
<1> QED BY <1>1, BooksTyped, PTL

-----------------------------------------------------------------------------
(* The reports and the ledger *)

\* Money comes in with the types that have an income or a refund column.
LEMMA Directions ==
  ASSUME NEW t, tx[t].type \in DOMAIN PostingRules
  PROVE  /\ tx[t].type \in AllTypes \ OpeningTypes
         /\ PostingRules[tx[t].type] = "in" <=> ActivityColumn(t) \in {"income", "refunds"}
<1>1. DOMAIN PostingRules =
        {"purchase", "income", "bank_transfer", "internal_transfer", "credit_card_payment",
         "cash_withdrawal", "refund", "fee", "interest", "loan_payment", "adjustment"}
  BY DEF PostingRules
<1>2. tx[t].type \in AllTypes \ OpeningTypes
  BY <1>1 DEF AllTypes, OpeningTypes
<1>3. PostingRules[tx[t].type] = "in" <=> tx[t].type \in {"income", "refund"}
  BY <1>1 DEF PostingRules
<1>4. ActivityColumn(t) \in {"income", "refunds"} <=> Bucket(t) \in {"income", "refund"}
  BY <1>2, Meaning DEF ActivityColumn, Buckets
<1>5. Bucket(t) \in {"income", "refund"} <=> tx[t].type \in {"income", "refund"}
  BY <1>1 DEF Bucket, BucketOf, SpendingTypes, IncomeTypes, RefundTypes, NeutralTypes,
     UnresolvedTypes
<1> QED BY <1>2, <1>3, <1>4, <1>5

Written(c) == {t \in Txs : pair[t] # None /\ tx[t].status = "confirmed" /\ pair[t].currency = c}

OpeningsIn(c) ==
  {t \in Txs : /\ tx[t].type \in OpeningTypes /\ tx[t].status = "confirmed"
              /\ pair[t] # None /\ tx[t].currency = c}

\* The reportable transactions of an account.
RowsOf(a, c) == {t \in Rows(Txs, c) : tx[t].account = a}

\* What the entries of a transaction that is no opening balance do to the ledger
\* account of an account whose own other side they are not on.
LEMMA EntryOn ==
  ASSUME TypeOK, Inv, Chart, EntriesDescribe, NEW a \in Accounts, NEW c, SettledInLedger(a, c),
         NEW n \in Standing(a), NEW t \in Txs, pair[t] # None, tx[t].type \notin OpeningTypes
  PROVE  /\ tx[t].type \in DOMAIN PostingRules
         /\ Moved(pair[t], n) =
              IF tx[t].account # a THEN 0
              ELSE IF PostingRules[tx[t].type] = "in" THEN tx[t].amount ELSE -tx[t].amount
<1>1. tx[t].account \in Accounts /\ tx[t].amount \in Nat
  <2>1. tx[t].status # "absent"
    BY DEF Inv, Posted
  <2> QED BY <2>1, TxFacts
<1>2. /\ tx[t].type \in DOMAIN PostingRules /\ pair[t].amount = tx[t].amount
      /\ \E m \in Standing(tx[t].account) :
           m = IF PostingRules[tx[t].type] = "in" THEN pair[t].debit ELSE pair[t].credit
  BY DEF EntriesDescribe, OpeningTypes
<1>3. PICK m \in Standing(tx[t].account) :
        m = IF PostingRules[tx[t].type] = "in" THEN pair[t].debit ELSE pair[t].credit
  BY <1>2
<1>4. n = NameOf(a) /\ m = NameOf(tx[t].account)
  BY <1>1, NameFacts, StandingIs DEF Chart
<1>5. (IF PostingRules[tx[t].type] = "in" THEN pair[t].credit ELSE pair[t].debit) # n
  BY DEF SettledInLedger
<1>6. CASE tx[t].account # a
  <2>1. m # n
    BY <1>1, <1>4, <1>6, BooksAssumption DEF NameOf
  <2>2. pair[t].debit # n /\ pair[t].credit # n
    BY <1>3, <1>5, <2>1
  <2> QED BY <1>2, <1>6, <2>2 DEF Moved
<1>7. CASE tx[t].account = a
  <2>1. m = n
    BY <1>4, <1>7
  <2>2. CASE PostingRules[tx[t].type] = "in"
    <3>1. pair[t].debit = n /\ pair[t].credit # n
      BY <1>3, <1>5, <2>1, <2>2
    <3> QED BY <1>1, <1>2, <1>7, <2>2, <3>1 DEF Moved
  <2>3. CASE PostingRules[tx[t].type] # "in"
    <3>1. pair[t].credit = n /\ pair[t].debit # n
      BY <1>3, <1>5, <2>1, <2>3
    <3> QED BY <1>1, <1>2, <1>7, <2>3, <3>1 DEF Moved
  <2> QED BY <2>2, <2>3
<1> QED BY <1>2, <1>6, <1>7

\* The balance is what the account's own rows and the opening postings come to.
LEMMA BalanceIs ==
  ASSUME TypeOK, Inv, Chart, EntriesDescribe, NEW a \in Accounts, NEW c, SettledInLedger(a, c),
         NEW n \in Standing(a)
  PROVE  /\ Net(n, Written(c)) = Net(n, RowsOf(a, c)) + OpeningShare(n, c)
         /\ \A t \in RowsOf(a, c) :
              /\ tx[t].type \in DOMAIN PostingRules
              /\ Effect(n)[t] =
                   IF PostingRules[tx[t].type] = "in" THEN tx[t].amount ELSE -tx[t].amount
<1> DEFINE W == Written(c)
           O == OpeningsIn(c)
           R == RowsOf(a, c)
<1>1. \A t \in Txs : pair[t] # None => pair[t].currency = tx[t].currency
  BY DEF EntriesDescribe
<1>2. \A t \in R : /\ t \in Txs /\ pair[t] # None /\ tx[t].status = "confirmed" /\ t \notin reversed
                   /\ tx[t].type \notin OpeningTypes /\ tx[t].account = a /\ tx[t].currency = c
  BY DEF RowsOf, Rows, Reportable, SettledInLedger, Inv, Posted
<1>3. O \in SUBSET W /\ R \in SUBSET (W \ O)
  BY <1>1, <1>2 DEF Written, OpeningsIn
<1>4. \A t \in (W \ O) \ R : Moved(pair[t], n) = 0
  <2> SUFFICES ASSUME NEW t \in (W \ O) \ R PROVE Moved(pair[t], n) = 0
    OBVIOUS
  <2>1. /\ t \in Txs /\ pair[t] # None /\ tx[t].status = "confirmed" /\ tx[t].currency = c
        /\ tx[t].type \notin OpeningTypes
    BY <1>1 DEF Written, OpeningsIn
  <2>2. tx[t].account # a
    BY <2>1 DEF RowsOf, Rows, Reportable
  <2> QED BY <2>1, <2>2, EntryOn
<1>5. W \in SUBSET Txs /\ \A t \in W : pair[t] # None /\ Effect(n)[t] \in Int
  BY EffectType DEF Written
<1>6. OpeningShare(n, c) = Net(n, O)
  BY DEF OpeningShare, OpeningsIn
<1>7. ASSUME NEW t \in R
      PROVE  /\ tx[t].type \in DOMAIN PostingRules
             /\ Effect(n)[t] =
                  IF PostingRules[tx[t].type] = "in" THEN tx[t].amount ELSE -tx[t].amount
  <2>1. Effect(n)[t] = Moved(pair[t], n)
    BY <1>2 DEF Effect
  <2> QED BY <1>2, <1>7, <2>1, EntryOn
<1> HIDE DEF W, O, R
<1>8. Net(n, W) = Net(n, O) + Net(n, W \ O)
  BY <1>3, <1>5, TxsFinite, NetIs, SumSplit
<1>9. Net(n, R) = Net(n, W \ O)
  BY <1>3, <1>4, <1>5, NetSkip
<1>10. Net(n, O) \in Int /\ Net(n, W \ O) \in Int
  BY <1>3, <1>5, NetType
<1> QED BY <1>6, <1>7, <1>8, <1>9, <1>10 DEF W, R

InColumn(rows, col) == {t \in rows : ActivityColumn(t) = col}

\* The columns of an account's line, with their signs, are what its rows come to in
\* the ledger.
LEMMA NetMovementIs ==
  ASSUME NEW rows, Reported(rows), NEW n,
         \A t \in rows :
           /\ tx[t].type \in DOMAIN PostingRules
           /\ Effect(n)[t] =
                IF PostingRules[tx[t].type] = "in" THEN tx[t].amount ELSE -tx[t].amount
  PROVE  NetMovement([col \in ActivityColumns |-> Total(InColumn(rows, col))]) = Net(n, rows)
<1> DEFINE In == InColumn(rows, "income") \cup InColumn(rows, "refunds")
           Out == rows \ In
           f == Effect(n)
           line == [col \in ActivityColumns |-> Total(InColumn(rows, col))]
           S(col) == InColumn(rows, col)
<1>1. \A col : S(col) \in SUBSET rows /\ Total(S(col)) \in Int
  <2>1. \A col : S(col) \in SUBSET rows
    BY DEF InColumn
  <2> HIDE DEF S
  <2> QED BY <2>1, TotalIs
<1>2. In \in SUBSET rows /\ Out \in SUBSET rows
  BY DEF InColumn
<1>3. /\ \A t \in In : f[t] = Amounts[t]
      /\ \A t \in Out : f[t] = -Amounts[t]
      /\ \A t \in rows : Amounts[t] \in Int /\ f[t] \in Int
  <2>1. \A t \in rows : Amounts[t] = tx[t].amount /\ tx[t].amount \in Nat
    BY DEF Reported, Amounts
  <2>2. \A t \in rows : PostingRules[tx[t].type] = "in" <=> t \in In
    BY Directions DEF InColumn
  <2> HIDE DEF In
  <2> QED BY <1>2, <2>1, <2>2
<1>4. rows \in SUBSET Txs /\ IsFiniteSet(rows) /\ IsFiniteSet(In) /\ IsFiniteSet(Out)
  BY <1>2, TotalIs DEF Reported
<1>5. Net(n, rows) = Total(In) - Total(Out)
  <2> HIDE DEF In
  <2>1. Net(n, rows) = SumFunctionOnSet(f, rows)
    BY <1>4, NetIs
  <2> HIDE DEF f
  <2>2. SumFunctionOnSet(f, rows) = SumFunctionOnSet(f, In) + SumFunctionOnSet(f, Out)
    BY <1>2, <1>3, <1>4, SumSplit
  <2>3. SumFunctionOnSet(f, In) = SumFunctionOnSet(Amounts, In)
    BY <1>3, <1>4, SumSame
  <2> HIDE DEF Out
  <2>4. SumFunctionOnSet(f, Out) = -SumFunctionOnSet(Amounts, Out)
    BY <1>2, <1>3, <1>4, SumNegate
  <2>5. /\ Total(In) = SumFunctionOnSet(Amounts, In) /\ Total(In) \in Int
        /\ Total(Out) = SumFunctionOnSet(Amounts, Out) /\ Total(Out) \in Int
    BY <1>2, TotalIs
  <2> QED BY <2>1, <2>2, <2>3, <2>4, <2>5
<1>6. Total(In) = Total(S("income")) + Total(S("refunds"))
  <2>1. S("income") \in SUBSET In /\ In \ S("income") = S("refunds")
    BY DEF InColumn
  <2> HIDE DEF In, S
  <2> QED BY <1>2, <2>1, TotalSplit
<1>7. Total(Out) = Total(S("gross_spending")) + Total(S("settlements")) + Total(S("movement"))
                     + Total(S("unresolved"))
  <2> DEFINE A == Out \ S("gross_spending")
             B == A \ S("settlements")
  <2>1. \A t \in rows : ActivityColumn(t) \in ActivityColumns
    BY Meaning DEF Reported
  <2>2. /\ S("gross_spending") \in SUBSET Out /\ S("settlements") \in SUBSET A
        /\ S("movement") \in SUBSET B /\ B \ S("movement") = S("unresolved")
        /\ A \in SUBSET rows /\ B \in SUBSET rows
    BY <2>1 DEF InColumn, ActivityColumns
  <2> HIDE DEF Out, S
  <2>3. /\ Total(Out) = Total(S("gross_spending")) + Total(A)
        /\ Total(A) = Total(S("settlements")) + Total(B)
        /\ Total(B) = Total(S("movement")) + Total(S("unresolved"))
    BY <1>2, <2>2, TotalSplit
  <2> HIDE DEF A, B
  <2> QED BY <1>1, <2>3
<1>8. NetMovement(line) = Total(S("income")) + Total(S("refunds")) - Total(S("gross_spending"))
                            - Total(S("settlements")) - Total(S("movement")) - Total(S("unresolved"))
  BY DEF NetMovement, ActivityColumns
<1> HIDE DEF In, Out, S, line
<1>9. NetMovement(line) = Net(n, rows)
  BY <1>1, <1>5, <1>6, <1>7, <1>8
<1> QED BY <1>9 DEF line

\* For any number of transactions, with anything corrected, deleted and reversed on
\* the way: where all of an account's history is posted, its balance is what its
\* activity line says happened on it, and its opening postings (balances.py's
\* "consistent with the reports by construction").  A rename would hand an account
\* the ledger account of another.
THEOREM ReportsAlwaysMatchLedger == ASSUME NoRenames PROVE Spec => []ReportsMatchLedger
<1>1. ASSUME TypeOK, Inv, Chart, EntriesDescribe PROVE ReportsMatchLedger
  <2> SUFFICES ASSUME NEW a \in Accounts, NEW c \in Currencies, SettledInLedger(a, c),
                      NEW n \in Standing(a)
               PROVE  LET lines == AccountActivity(Rows(Txs, c))
                          moved == IF a \in DOMAIN lines THEN NetMovement(lines[a]) ELSE 0
                      IN Balance(n, c) = Signed(n, moved + OpeningShare(n, c))
    BY DEF ReportsMatchLedger
  <2> DEFINE rows == Rows(Txs, c)
             lines == AccountActivity(rows)
             moved == IF a \in DOMAIN lines THEN NetMovement(lines[a]) ELSE 0
  <2>1. Reported(rows) /\ Reported(RowsOf(a, c))
    BY <1>1, RowsReported DEF RowsOf, Reported
  <2>2. Balance(n, c) = Signed(n, Net(n, RowsOf(a, c)) + OpeningShare(n, c))
    BY <1>1, BalanceIs DEF Balance, Written
  <2>3. a \in DOMAIN lines <=> RowsOf(a, c) # {}
    BY DEF AccountActivity, Activity, Lines, RowsOf
  <2>4. CASE RowsOf(a, c) = {}
    <3>1. Net(n, RowsOf(a, c)) = 0
      BY <2>4, NetIs, SumEmpty
    <3> QED BY <2>2, <2>3, <2>4, <3>1
  <2>5. CASE RowsOf(a, c) # {}
    <3>1. lines[a] = [col \in ActivityColumns |-> Total(InColumn(RowsOf(a, c), col))]
      <4>1. \A col : {t \in rows : tx[t].account = a /\ ActivityColumn(t) = col}
                       = InColumn(RowsOf(a, c), col)
        BY DEF RowsOf, InColumn
      <4>2. \A col : {t \in rows : [x \in rows |-> tx[x].account][t] = a
                                   /\ [x \in rows |-> ActivityColumn(x)][t] = col}
                       = InColumn(RowsOf(a, c), col)
        BY <4>1
      <4>3. a \in {[x \in rows |-> tx[x].account][t] : t \in rows}
        BY <2>5 DEF RowsOf
      <4> QED BY <4>2, <4>3 DEF AccountActivity, Activity, Lines
    <3>2. NetMovement(lines[a]) = Net(n, RowsOf(a, c))
      BY <1>1, <2>1, <3>1, BalanceIs, NetMovementIs
    <3> QED BY <2>2, <2>3, <2>5, <3>2
  <2> QED BY <2>4, <2>5
<1> QED BY <1>1, BooksTyped, InvAlways, DescribedAlways, PTL
=============================================================================
