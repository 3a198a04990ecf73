------------------------------ MODULE LeftFolds ------------------------------
(***************************************************************************)
(* The function over the prefixes of a sequence by which Retarget!Folded   *)
(* is defined exists, for any step.  The step is a constant of this module *)
(* so that each fold of Ledger is an instance of it; ctx carries what the  *)
(* step of a fold refers to besides its two operands.                      *)
(***************************************************************************)
EXTENDS FiniteSums

CONSTANT Step(_, _, _)

Unfolds(f, ctx, base, seq, n) ==
    f = [i \in 0..n |-> IF i = 0 THEN base ELSE Step(ctx, f[i - 1], seq[i])]

(* Whatever the step, the fold has a value at each prefix.                 *)
LEMMA LeftFoldExists ==
  ASSUME NEW ctx, NEW base, NEW seq, NEW n \in Nat
  PROVE  \E f : Unfolds(f, ctx, base, seq, n)
<1> DEFINE Good == {k \in Nat : \E f : Unfolds(f, ctx, base, seq, k)}
<1>1. \E f : Unfolds(f, ctx, base, seq, 0)
  <2>1. Unfolds([i \in 0..0 |-> base], ctx, base, seq, 0)
    BY DEF Unfolds
  <2> QED
    BY <2>1
<1>2. ASSUME NEW k \in Nat, NEW h, Unfolds(h, ctx, base, seq, k)
      PROVE  \E f : Unfolds(f, ctx, base, seq, k + 1)
  <2> DEFINE f == [i \in 0..(k + 1) |-> IF i = 0 THEN base ELSE Step(ctx, h[i - 1], seq[i])]
  <2>1. \A i \in 0..k : f[i] = h[i]
    BY <1>2 DEF Unfolds
  <2>2. Unfolds(f, ctx, base, seq, k + 1)
    <3>1. \A i \in 0..(k + 1) : i # 0 => i - 1 \in 0..k
      OBVIOUS
    <3>2. \A i \in 0..(k + 1) : i # 0 => Step(ctx, f[i - 1], seq[i]) = Step(ctx, h[i - 1], seq[i])
      BY <2>1, <3>1
    <3> QED
      BY <3>2 DEF Unfolds
  <2> QED
    BY <2>2
<1> QED
  <2>1. 0 \in Good /\ \A k \in Nat : k < n /\ k \in Good => k + 1 \in Good
    BY <1>1, <1>2
  <2>2. n \in Good
    <3> HIDE DEF Good
    <3> QED
      BY <2>1, UpTo
  <2> QED
    BY <2>2

(* Two folds over sequences with a common prefix agree on it.              *)
LEMMA LeftFoldsAgree ==
  ASSUME NEW ctx, NEW base, NEW s, NEW t, NEW f, NEW g, NEW n \in Nat, NEW m \in Nat,
         n <= m, Unfolds(f, ctx, base, s, n), Unfolds(g, ctx, base, t, m),
         \A i \in 1..n : s[i] = t[i]
  PROVE  \A k \in 0..n : f[k] = g[k]
<1> DEFINE Good == {k \in Nat : f[k] = g[k]}
<1>1. 0 \in Good
  BY DEF Unfolds
<1>2. ASSUME NEW k \in Nat, k < n, k \in Good
      PROVE  k + 1 \in Good
  <2>1. k + 1 \in 0..n /\ k + 1 \in 0..m /\ k + 1 # 0 /\ (k + 1) - 1 = k /\ s[k + 1] = t[k + 1]
    BY <1>2
  <2>2. f[k + 1] = Step(ctx, f[k], s[k + 1]) /\ g[k + 1] = Step(ctx, g[k], t[k + 1])
    BY <2>1 DEF Unfolds
  <2> QED
    BY <1>2, <2>1, <2>2
<1>3. \A k \in 0..n : k \in Good
  <2> HIDE DEF Good
  <2> QED
    BY <1>1, <1>2, UpTo
<1> QED
  BY <1>3
=============================================================================
