----------------------------- MODULE AgentTurnProofs -----------------------------
(***************************************************************************)
(* Proofs about AgentTurn: the turns, their calls, the money and the books *)
(* of it, for any number of turns, calls, plans, prices, bills, approvals  *)
(* and faults.                                                             *)
(*                                                                         *)
(* A step of AgentTurn is long, and most of what it does is nothing to a   *)
(* given part of the invariant.  So a step is looked at four times, each   *)
(* time as one of a few moves: what it does to the calls, turns and plans  *)
(* (CallMoves), to the money (MoneyMoves), to the books (BookMoves), and   *)
(* to the warning and the failures.  CallMovesCover, MoneyCover and        *)
(* BooksCover say that every step is such a move; the parts of the         *)
(* invariant are then kept by every move:                                  *)
(*                                                                         *)
(*   AllTypes   the types;                                                 *)
(*   CallsInv   calls are numbered, one at a time is waited for, content   *)
(*              is shown in the last call of a round, attempts are metered *)
(*              by the places of the plan;                                 *)
(*   MoneyInv   who holds a reservation or a debit, and the sums: what is  *)
(*              spent, committed, reserved, and foreseen under the cap;    *)
(*   BooksInv   claims follow stages, writes follow claims, outcomes come  *)
(*              once, and turns that act have their calls on record;       *)
(*   FailInv    lost money aborts the run; a call over the cap has its     *)
(*              warning.                                                   *)
(***************************************************************************)
EXTENDS AgentTurn, FiniteSetTheorems, WellFoundedInduction, TLAPS

-----------------------------------------------------------------------------
(* Induction, from the least member of a set of numbers.                     *)

(* A set of numbers has a least member. *)
LEMMA Least ==
    ASSUME NEW T, T \subseteq Nat, T # {}
    PROVE  \E x \in T : \A y \in T : x <= y
<1> DEFINE R == OpToRel(<, Nat)
<1>1. \A x, y \in Nat : y < x => <<y, x>> \in R
  BY DEF OpToRel
<1> HIDE DEF R
<1>2. IsWellFoundedOn(R, Nat)
  BY NatLessThanWellFounded DEF R
<1>3. PICK x \in T : \A y \in T : ~ (<<y, x>> \in R)
  BY <1>2, WFMin
<1>4. ASSUME NEW y \in T PROVE x <= y
  <2>1. x \in Nat /\ y \in Nat
    OBVIOUS
  <2>2. ~ (y < x)
    BY <1>1, <1>3, <2>1
  <2> QED BY <2>1, <2>2
<1> QED BY <1>4

(* So a set with nought and the successors of its members holds every number. *)
LEMMA SetInduction ==
    ASSUME NEW S, 0 \in S, \A n \in Nat : n \in S => n + 1 \in S
    PROVE  Nat \subseteq S
<1> SUFFICES ASSUME Nat \ S # {} PROVE FALSE
  OBVIOUS
<1>1. PICK x \in Nat \ S : \A y \in Nat \ S : x <= y
  BY Least
<1>2. x # 0 /\ x - 1 \in Nat
  BY <1>1
<1>3. x - 1 \in S
  <2>1. ~ (x <= x - 1)
    BY <1>2
  <2> QED BY <1>1, <1>2, <2>1
<1>4. x - 1 + 1 \in S
  BY <1>2, <1>3
<1>5. x - 1 + 1 = x
  BY <1>1, <1>2
<1> QED BY <1>1, <1>4, <1>5

(* A family of sets that grows by single members holds every part of S. *)
LEMMA SubsetInduction ==
    ASSUME NEW S, IsFiniteSet(S), NEW T, {} \in T,
           \A s \in SUBSET S : \A x \in S : x \notin s /\ s \in T => s \cup {x} \in T
    PROVE  SUBSET S \subseteq T
<1> DEFINE N == {n \in Nat : \A s \in SUBSET S : Cardinality(s) = n => s \in T}
<1>1. \A s \in SUBSET S : IsFiniteSet(s) /\ Cardinality(s) \in Nat
  BY FS_Subset, FS_CardinalityType
<1>2. 0 \in N
  BY <1>1, FS_EmptySet
<1>3. ASSUME NEW n \in Nat, n \in N PROVE n + 1 \in N
  <2> SUFFICES ASSUME NEW s \in SUBSET S, Cardinality(s) = n + 1 PROVE s \in T
    OBVIOUS
  <2>1. s # {}
    BY <1>1, FS_EmptySet
  <2>2. PICK x \in s : TRUE
    BY <2>1
  <2>3. Cardinality(s \ {x}) = n
    <3>1. Cardinality(s \ {x}) = Cardinality(s) - 1
      BY <1>1, <2>2, FS_RemoveElement
    <3> QED BY <3>1
  <2>4. s \ {x} \in T
    BY <1>3, <2>3
  <2>5. (s \ {x}) \cup {x} = s
    BY <2>2
  <2> QED BY <2>4, <2>5
<1>4. Nat \subseteq N
  <2> HIDE DEF N
  <2> QED BY <1>2, <1>3, SetInduction
<1> QED BY <1>1, <1>4

-----------------------------------------------------------------------------
(* Sums.  MapThenSumSet takes the members of a set in an order of its own:   *)
(* PartSums is what it computes for every part of the set.                   *)

Pick(s) == CHOOSE x \in s : TRUE

IsPartSums(g, f, S) == g = [s \in SUBSET S |-> IF s = {} THEN 0 ELSE f[Pick(s)] + g[s \ {Pick(s)}]]

PartSums(f, S) == CHOOSE g : IsPartSums(g, f, S)

SumOf(f, S) == PartSums(f, S)[S]

(* There is such a function. *)
LEMMA PartSumsDefined ==
    ASSUME NEW S, IsFiniteSet(S), NEW f
    PROVE  IsPartSums(PartSums(f, S), f, S)
<1> DEFINE Small(n) == {s \in SUBSET S : Cardinality(s) <= n}
           Step(g, s) == IF s = {} THEN 0 ELSE f[Pick(s)] + g[s \ {Pick(s)}]
           N == {n \in Nat : \E g : DOMAIN g = Small(n) /\ \A s \in Small(n) : g[s] = Step(g, s)}
<1>1. \A s \in SUBSET S : IsFiniteSet(s) /\ Cardinality(s) \in Nat
  BY FS_Subset, FS_CardinalityType
<1>2. \A s \in SUBSET S : s # {} => Pick(s) \in s /\ s \ {Pick(s)} \in SUBSET S
                                    /\ Cardinality(s \ {Pick(s)}) = Cardinality(s) - 1
  <2> SUFFICES ASSUME NEW s \in SUBSET S, s # {}
               PROVE  Pick(s) \in s /\ s \ {Pick(s)} \in SUBSET S /\ Cardinality(s \ {Pick(s)}) = Cardinality(s) - 1
    OBVIOUS
  <2>1. Pick(s) \in s
    BY DEF Pick
  <2> QED BY <1>1, <2>1, FS_RemoveElement
<1>3. 0 \in N
  <2>1. \A s \in Small(0) : s = {}
    BY <1>1, FS_EmptySet
  <2> DEFINE g == [s \in Small(0) |-> 0]
  <2>2. DOMAIN g = Small(0) /\ \A s \in Small(0) : g[s] = Step(g, s)
    BY <2>1
  <2> QED BY <2>2
<1>4. ASSUME NEW n \in Nat, n \in N PROVE n + 1 \in N
  <2>1. PICK g : DOMAIN g = Small(n) /\ \A s \in Small(n) : g[s] = Step(g, s)
    BY <1>4
  <2> DEFINE h == [s \in Small(n + 1) |-> Step(g, s)]
  <2>2. ASSUME NEW s \in Small(n + 1) PROVE h[s] = Step(h, s)
    <3>1. CASE s = {}
      BY <3>1
    <3>2. CASE s # {}
      <4>1. s \ {Pick(s)} \in Small(n) /\ s \ {Pick(s)} \in Small(n + 1)
        BY <1>1, <1>2, <3>2
      <4>2. h[s \ {Pick(s)}] = g[s \ {Pick(s)}]
        BY <2>1, <4>1
      <4> QED BY <3>2, <4>2
    <3> QED BY <3>1, <3>2
  <2>3. DOMAIN h = Small(n + 1)
    OBVIOUS
  <2> HIDE DEF h, Small, Step
  <2> QED BY <2>2, <2>3
<1>5. Nat \subseteq N
  <2> HIDE DEF N
  <2> QED BY <1>3, <1>4, SetInduction
<1>6. PICK n \in Nat : n = Cardinality(S)
  BY FS_CardinalityType
<1>7. Small(n) = SUBSET S
  <2>1. \A s \in SUBSET S : Cardinality(s) <= n
    BY <1>6, FS_Subset
  <2> QED BY <2>1
<1>8. n \in N
  BY <1>5
<1>9. PICK g : DOMAIN g = SUBSET S /\ \A s \in SUBSET S : g[s] = Step(g, s)
  BY <1>7, <1>8
<1> DEFINE h == [s \in SUBSET S |-> g[s]]
<1>10. \A s \in SUBSET S : h[s] = Step(h, s)
  BY <1>9
<1>11. IsPartSums(h, f, S)
  <2>1. h = [s \in SUBSET S |-> Step(h, s)]
    BY <1>10
  <2> HIDE DEF h
  <2> QED BY <2>1 DEF IsPartSums
<1> QED BY <1>11 DEF PartSums

(* Any member of a part may be taken out first. *)
LEMMA TakeOut ==
    ASSUME NEW S, IsFiniteSet(S), NEW f \in [S -> Int]
    PROVE  /\ PartSums(f, S)[{}] = 0
           /\ \A s \in SUBSET S : PartSums(f, S)[s] \in Int
           /\ \A s \in SUBSET S : \A x \in s : PartSums(f, S)[s] = f[x] + PartSums(f, S)[s \ {x}]
<1> DEFINE h == PartSums(f, S)
<1>1. h = [s \in SUBSET S |-> IF s = {} THEN 0 ELSE f[Pick(s)] + h[s \ {Pick(s)}]]
  BY PartSumsDefined DEF IsPartSums
<1>2. h[{}] = 0 /\ \A s \in SUBSET S : s # {} => h[s] = f[Pick(s)] + h[s \ {Pick(s)}]
  BY <1>1
<1> HIDE DEF h
<1>3. \A s \in SUBSET S : IsFiniteSet(s) /\ Cardinality(s) \in Nat
  BY FS_Subset, FS_CardinalityType
<1>4. \A s \in SUBSET S : \A x \in s : Cardinality(s \ {x}) = Cardinality(s) - 1
  BY <1>3, FS_RemoveElement
<1>5. \A s \in SUBSET S : s # {} => Pick(s) \in s
  BY DEF Pick
<1>6. \A s \in SUBSET S : h[s] \in Int
  <2> DEFINE N == {n \in Nat : \A s \in SUBSET S : Cardinality(s) = n => h[s] \in Int}
  <2>1. 0 \in N
    <3>1. \A s \in SUBSET S : Cardinality(s) = 0 => s = {}
      BY <1>3, FS_EmptySet
    <3>2. h[{}] \in Int
      BY <1>2
    <3> QED BY <3>1, <3>2
  <2>2. ASSUME NEW n \in Nat, n \in N PROVE n + 1 \in N
    <3> SUFFICES ASSUME NEW s \in SUBSET S, Cardinality(s) = n + 1 PROVE h[s] \in Int
      OBVIOUS
    <3>1. s # {}
      BY FS_EmptySet
    <3>2. Pick(s) \in s /\ s \ {Pick(s)} \in SUBSET S /\ Cardinality(s \ {Pick(s)}) = n
      BY <1>4, <1>5, <3>1
    <3>3. f[Pick(s)] \in Int /\ h[s \ {Pick(s)}] \in Int
      BY <2>2, <3>2
    <3> QED BY <1>2, <3>1, <3>3
  <2>3. Nat \subseteq N
    <3> HIDE DEF N
    <3> QED BY <2>1, <2>2, SetInduction
  <2> QED BY <1>3, <2>3
<1> DEFINE N == {n \in Nat : \A s \in SUBSET S : Cardinality(s) = n => \A x \in s : h[s] = f[x] + h[s \ {x}]}
<1>7. 0 \in N
  BY <1>3, FS_EmptySet
<1>8. ASSUME NEW n \in Nat, n \in N PROVE n + 1 \in N
  <2> SUFFICES ASSUME NEW s \in SUBSET S, Cardinality(s) = n + 1, NEW x \in s
               PROVE  h[s] = f[x] + h[s \ {x}]
    OBVIOUS
  <2>1. PICK p : p = Pick(s)
    OBVIOUS
  <2>2. p \in s /\ h[s] = f[p] + h[s \ {p}]
    BY <1>2, <1>5, <2>1
  <2>3. CASE x = p
    BY <2>2, <2>3
  <2>4. CASE x # p
    <3>1. x \in s \ {p} /\ p \in s \ {x} /\ (s \ {p}) \ {x} = (s \ {x}) \ {p}
      BY <2>2, <2>4
    <3>2. /\ s \ {p} \in SUBSET S /\ s \ {x} \in SUBSET S
          /\ Cardinality(s \ {p}) = n /\ Cardinality(s \ {x}) = n
      <4>1. s \ {p} \in SUBSET S /\ s \ {x} \in SUBSET S
        OBVIOUS
      <4> QED BY <1>4, <2>2, <4>1
    <3>3. h[s \ {p}] = f[x] + h[(s \ {p}) \ {x}]
      BY <1>8, <3>1, <3>2
    <3>4. h[s \ {x}] = f[p] + h[(s \ {x}) \ {p}]
      BY <1>8, <3>1, <3>2
    <3>5. (s \ {p}) \ {x} \in SUBSET S /\ x \in S /\ p \in S
      BY <2>2
    <3>6. h[(s \ {p}) \ {x}] \in Int /\ f[x] \in Int /\ f[p] \in Int
      BY <1>6, <3>5
    <3>7. h[s \ {x}] = f[p] + h[(s \ {p}) \ {x}]
      BY <3>1, <3>4
    <3> QED BY <2>2, <3>3, <3>6, <3>7
  <2> QED BY <2>3, <2>4
<1>9. Nat \subseteq N
  <2> HIDE DEF N
  <2> QED BY <1>7, <1>8, SetInduction
<1> QED BY <1>2, <1>3, <1>6, <1>9 DEF h

(* The sum only depends on what is added. *)
LEMMA SumSame ==
    ASSUME NEW S, NEW f, NEW g, \A x \in S : f[x] = g[x]
    PROVE  SumOf(f, S) = SumOf(g, S)
<1>1. \A h : IsPartSums(h, f, S) <=> IsPartSums(h, g, S)
  BY DEF IsPartSums, Pick
<1> QED BY <1>1 DEF SumOf, PartSums

(* Two sums compare as their terms do, and the sums of sums add up. *)
LEMMA SumsCompare ==
    ASSUME NEW S, IsFiniteSet(S), NEW f \in [S -> Int], NEW g \in [S -> Int]
    PROVE  /\ SumOf(f, S) \in Int
           /\ (\A x \in S : f[x] <= g[x]) => SumOf(f, S) <= SumOf(g, S)
           /\ \A x \in S : (\A y \in S \ {x} : f[y] = g[y]) => SumOf(g, S) = SumOf(f, S) + g[x] - f[x]
<1> DEFINE F(s) == PartSums(f, S)[s]
           G(s) == PartSums(g, S)[s]
<1>1. /\ F({}) = 0 /\ G({}) = 0
      /\ \A s \in SUBSET S : F(s) \in Int /\ G(s) \in Int
      /\ \A s \in SUBSET S : \A x \in s : F(s) = f[x] + F(s \ {x}) /\ G(s) = g[x] + G(s \ {x})
  <2>1. /\ F({}) = 0 /\ \A s \in SUBSET S : F(s) \in Int
        /\ \A s \in SUBSET S : \A x \in s : F(s) = f[x] + F(s \ {x})
    BY TakeOut
  <2>2. /\ G({}) = 0 /\ \A s \in SUBSET S : G(s) \in Int
        /\ \A s \in SUBSET S : \A x \in s : G(s) = g[x] + G(s \ {x})
    BY TakeOut
  <2> HIDE DEF F, G
  <2> QED BY <2>1, <2>2
<1> HIDE DEF F, G
<1>2. \A s \in SUBSET S : \A x \in S : x \notin s => F(s \cup {x}) = f[x] + F(s) /\ G(s \cup {x}) = g[x] + G(s)
  <2> SUFFICES ASSUME NEW s \in SUBSET S, NEW x \in S, x \notin s
               PROVE  F(s \cup {x}) = f[x] + F(s) /\ G(s \cup {x}) = g[x] + G(s)
    OBVIOUS
  <2>1. s \cup {x} \in SUBSET S /\ x \in s \cup {x} /\ (s \cup {x}) \ {x} = s
    OBVIOUS
  <2> QED BY <1>1, <2>1
<1>3. ASSUME \A x \in S : f[x] <= g[x] PROVE F(S) <= G(S)
  <2> DEFINE T == {s \in SUBSET S : F(s) <= G(s)}
  <2>1. {} \in T
    BY <1>1
  <2>2. ASSUME NEW s \in SUBSET S, NEW x \in S, x \notin s, s \in T PROVE s \cup {x} \in T
    <3>1. F(s \cup {x}) = f[x] + F(s) /\ G(s \cup {x}) = g[x] + G(s)
      BY <1>2, <2>2
    <3>2. F(s) \in Int /\ G(s) \in Int /\ f[x] \in Int /\ g[x] \in Int /\ f[x] <= g[x] /\ F(s) <= G(s)
      BY <1>1, <1>3, <2>2
    <3>3. F(s \cup {x}) <= G(s \cup {x})
      BY <3>1, <3>2
    <3> QED BY <3>3
  <2>3. SUBSET S \subseteq T
    <3> HIDE DEF T
    <3> QED BY <2>1, <2>2, SubsetInduction
  <2> QED BY <2>3
<1>4. ASSUME NEW x \in S, \A y \in S \ {x} : f[y] = g[y] PROVE F(S \ {x}) = G(S \ {x})
  <2> DEFINE T == {s \in SUBSET S : x \notin s => F(s) = G(s)}
  <2>1. {} \in T
    BY <1>1
  <2>2. ASSUME NEW s \in SUBSET S, NEW y \in S, y \notin s, s \in T PROVE s \cup {y} \in T
    <3>1. F(s \cup {y}) = f[y] + F(s) /\ G(s \cup {y}) = g[y] + G(s)
      BY <1>2, <2>2
    <3>2. CASE y = x
      BY <3>2
    <3>3. CASE y # x
      <4>1. f[y] = g[y]
        BY <1>4, <3>3
      <4>2. x \notin s => F(s) = G(s)
        BY <2>2
      <4>3. x \notin s \cup {y} => F(s \cup {y}) = G(s \cup {y})
        BY <3>1, <4>1, <4>2
      <4> QED BY <4>3
    <3> QED BY <3>2, <3>3
  <2>3. SUBSET S \subseteq T
    <3> HIDE DEF T
    <3> QED BY <2>1, <2>2, SubsetInduction
  <2>4. S \ {x} \in T
    BY <2>3
  <2> QED BY <2>4
<1>5. ASSUME NEW x \in S, \A y \in S \ {x} : f[y] = g[y] PROVE G(S) = F(S) + g[x] - f[x]
  <2>1. F(S) = f[x] + F(S \ {x}) /\ G(S) = g[x] + G(S \ {x})
    BY <1>1
  <2>2. F(S \ {x}) = G(S \ {x})
    BY <1>4, <1>5
  <2>3. F(S \ {x}) \in Int /\ f[x] \in Int /\ g[x] \in Int
    BY <1>1
  <2> QED BY <2>1, <2>2, <2>3
<1>6. F(S) \in Int
  BY <1>1
<1> QED BY <1>3, <1>5, <1>6 DEF F, G, SumOf

(* The sum of two functions is the sum of their sums. *)
LEMMA SumsAdd ==
    ASSUME NEW S, IsFiniteSet(S), NEW f \in [S -> Int], NEW g \in [S -> Int], NEW k \in [S -> Int],
           \A x \in S : k[x] = f[x] + g[x]
    PROVE  SumOf(k, S) = SumOf(f, S) + SumOf(g, S)
<1> DEFINE F(s) == PartSums(f, S)[s]
           G(s) == PartSums(g, S)[s]
           K(s) == PartSums(k, S)[s]
<1>1. /\ F({}) = 0 /\ G({}) = 0 /\ K({}) = 0
      /\ \A s \in SUBSET S : F(s) \in Int /\ G(s) \in Int /\ K(s) \in Int
      /\ \A s \in SUBSET S : \A x \in s : /\ F(s) = f[x] + F(s \ {x}) /\ G(s) = g[x] + G(s \ {x})
                                          /\ K(s) = k[x] + K(s \ {x})
  <2>1. /\ F({}) = 0 /\ \A s \in SUBSET S : F(s) \in Int
        /\ \A s \in SUBSET S : \A x \in s : F(s) = f[x] + F(s \ {x})
    BY TakeOut
  <2>2. /\ G({}) = 0 /\ \A s \in SUBSET S : G(s) \in Int
        /\ \A s \in SUBSET S : \A x \in s : G(s) = g[x] + G(s \ {x})
    BY TakeOut
  <2>3. /\ K({}) = 0 /\ \A s \in SUBSET S : K(s) \in Int
        /\ \A s \in SUBSET S : \A x \in s : K(s) = k[x] + K(s \ {x})
    BY TakeOut
  <2> HIDE DEF F, G, K
  <2> QED BY <2>1, <2>2, <2>3
<1> HIDE DEF F, G, K
<1> DEFINE T == {s \in SUBSET S : K(s) = F(s) + G(s)}
<1>2. {} \in T
  BY <1>1
<1>3. ASSUME NEW s \in SUBSET S, NEW x \in S, x \notin s, s \in T PROVE s \cup {x} \in T
  <2>1. s \cup {x} \in SUBSET S /\ x \in s \cup {x} /\ (s \cup {x}) \ {x} = s
    BY <1>3
  <2>2. F(s \cup {x}) = f[x] + F(s) /\ G(s \cup {x}) = g[x] + G(s) /\ K(s \cup {x}) = k[x] + K(s)
    BY <1>1, <2>1
  <2>3. F(s) \in Int /\ G(s) \in Int /\ K(s) = F(s) + G(s) /\ f[x] \in Int /\ g[x] \in Int /\ k[x] = f[x] + g[x]
    BY <1>1, <1>3
  <2>4. K(s \cup {x}) = F(s \cup {x}) + G(s \cup {x})
    BY <2>2, <2>3
  <2> QED BY <2>1, <2>4
<1>4. SUBSET S \subseteq T
  <2> HIDE DEF T
  <2> QED BY <1>2, <1>3, SubsetInduction
<1>5. K(S) = F(S) + G(S)
  BY <1>4
<1> QED BY <1>5 DEF F, G, K, SumOf

(* No term is negative: then neither is the sum, and no term exceeds it. *)
LEMMA SumOfNaturals ==
    ASSUME NEW S, IsFiniteSet(S), NEW f \in [S -> Nat]
    PROVE  SumOf(f, S) \in Nat /\ \A x \in S : f[x] <= SumOf(f, S)
<1> DEFINE zero == [x \in S |-> 0]
<1>1. f \in [S -> Int] /\ zero \in [S -> Int] /\ \A x \in S : zero[x] <= f[x] /\ zero[x] = 0
  OBVIOUS
<1>2. SumOf(zero, S) = 0
  <2> DEFINE Z(s) == PartSums(zero, S)[s]
             T == {s \in SUBSET S : Z(s) = 0}
  <2>1. /\ Z({}) = 0 /\ \A s \in SUBSET S : Z(s) \in Int
        /\ \A s \in SUBSET S : \A x \in s : Z(s) = zero[x] + Z(s \ {x})
    <3> HIDE DEF zero
    <3> QED BY <1>1, TakeOut
  <2> HIDE DEF Z, zero
  <2>2. {} \in T
    BY <2>1
  <2>3. ASSUME NEW s \in SUBSET S, NEW x \in S, x \notin s, s \in T PROVE s \cup {x} \in T
    <3>1. s \cup {x} \in SUBSET S /\ x \in s \cup {x} /\ (s \cup {x}) \ {x} = s
      BY <2>3
    <3>2. Z(s \cup {x}) = zero[x] + Z(s)
      BY <2>1, <3>1
    <3>3. Z(s \cup {x}) = 0
      BY <1>1, <2>3, <3>2
    <3> QED BY <3>1, <3>3
  <2>4. SUBSET S \subseteq T
    <3> HIDE DEF T
    <3> QED BY <2>2, <2>3, SubsetInduction
  <2>5. Z(S) = 0
    BY <2>4
  <2> QED BY <2>5 DEF Z, SumOf
<1> HIDE DEF zero
<1>3. SumOf(f, S) \in Int /\ SumOf(zero, S) <= SumOf(f, S)
  BY <1>1, SumsCompare
<1>4. ASSUME NEW x \in S PROVE f[x] <= SumOf(f, S)
  <2> DEFINE g == [zero EXCEPT ![x] = f[x]]
  <2>1. g \in [S -> Int] /\ g[x] = f[x] /\ \A y \in S \ {x} : zero[y] = g[y]
    BY <1>1
  <2>2. \A y \in S : g[y] <= f[y]
    BY <1>1, <2>1
  <2> HIDE DEF g
  <2>3. SumOf(g, S) = SumOf(zero, S) + g[x] - zero[x]
    BY <1>1, <2>1, SumsCompare
  <2>4. SumOf(g, S) <= SumOf(f, S)
    BY <1>1, <2>1, <2>2, SumsCompare
  <2>5. SumOf(g, S) = f[x]
    BY <1>1, <1>2, <2>1, <2>3
  <2> QED BY <2>4, <2>5
<1> QED BY <1>2, <1>3, <1>4

-----------------------------------------------------------------------------
(* Calls, turns and plans.                                                   *)

(* A call is a turn and a number. *)
LEMMA CallParts ==
    /\ \A c \in Calls : c[1] \in Turns /\ c[2] \in Nat \ {0} /\ c[2] <= MaxCalls[c[1]] /\ c = <<c[1], c[2]>>
    /\ \A t \in Turns, i \in Nat \ {0} : i <= MaxCalls[t] => <<t, i>> \in Calls
    /\ \A t \in Turns : MaxCalls[t] \in Nat \ {0}
<1>1. \A c \in Calls : \E t \in Turns : \E i \in 1..MaxCalls[t] : c = <<t, i>>
  BY DEF Calls
<1>2. \A t \in Turns : \A i \in 1..MaxCalls[t] : <<t, i>> \in Calls
  BY DEF Calls
<1> QED BY <1>1, <1>2, DispatchAssumption

(* There are finitely many of both. *)
LEMMA FiniteCalls == IsFiniteSet(Turns) /\ IsFiniteSet(Calls)
<1>1. IsFiniteSet(Turns)
  BY DispatchAssumption
<1> DEFINE Group(t) == {t} \X (1..MaxCalls[t])
           All == {Group(t) : t \in Turns}
<1>2. IsFiniteSet(All)
  <2> DEFINE f == [t \in Turns |-> Group(t)]
  <2>1. f \in Surjection(Turns, All)
    BY DEF Surjection
  <2> QED BY <1>1, <2>1, FS_Surjection
<1>3. \A t \in Turns : IsFiniteSet(Group(t))
  <2> SUFFICES ASSUME NEW t \in Turns PROVE IsFiniteSet(Group(t))
    OBVIOUS
  <2>1. 1 \in Int /\ MaxCalls[t] \in Int
    BY DispatchAssumption
  <2>2. IsFiniteSet({t}) /\ IsFiniteSet(1..MaxCalls[t])
    BY <2>1, FS_Singleton, FS_Interval
  <2> QED BY <2>2, FS_Product
<1>4. \A s \in All : IsFiniteSet(s)
  BY <1>3
<1>5. Calls = UNION All
  BY DEF Calls
<1> QED BY <1>1, <1>2, <1>4, <1>5, FS_UNION

(* What is assumed of plans, prices and limits. *)
LEMMA PlanParts ==
    /\ Len(Plan) \in Nat \ {0} /\ \A i \in 1..Len(Plan) : Plan[i] \in Providers
    /\ \A p \in Providers : MaxAttempts[p] \in Nat \ {0} /\ Quote[p] \in Nat \cup {NoPrice, Unrepresentable}
    /\ \A t \in Turns : Approved[t] \in Nat \cup {NoAllowance}
    /\ Bills \subseteq Nat /\ MaxFaults \in Nat /\ Errors \subseteq ErrorKinds
<1>1. Len(Plan) \in Nat \ {0} /\ \A i \in 1..Len(Plan) : Plan[i] \in Providers
  BY ChainAssumption
<1>2. \A p \in Providers : MaxAttempts[p] \in Nat \ {0} /\ Quote[p] \in Nat \cup {NoPrice, Unrepresentable}
  BY ChainAssumption, TurnAssumption
<1>3. \A t \in Turns : Approved[t] \in Nat \cup {NoAllowance}
  BY GovernorAssumption
<1> QED BY <1>1, <1>2, <1>3, MoneyAssumption, TurnAssumption

-----------------------------------------------------------------------------
(* The steps.                                                                *)

(* Every step is one of these. *)
StepKinds ==
    \/ UNCHANGED vars
    \/ \E c \in Calls : PreAttemptJoined(c) \/ CheckFails(c) \/ CheckHeld(c) \/ Evaluate(c) \/ Admitted(c) \/
                        BeginJoined(c) \/ Unmarked(c) \/ NotAsked(c) \/ Ask(c) \/ Succeed(c) \/ Fail(c) \/
                        Deadline(c) \/ RetryClosed(c) \/ NativeRetry(c) \/ LateReceipt(c)
    \/ \E t \in Turns : ChainFails(t) \/ EntryPassed(t) \/ StartAttempt(t) \/ ToolsJoined(t) \/ ToolsReturn(t) \/
                        TurnCaptured(t) \/ DispatchEnds(t) \/ Abandon(t)
    \/ \E t \in Turns : \E p \in Providers : CoolsOff(t, p)
    \/ \E j \in Joiners : Loops(j)
    \/ OutcomeSettles \/ MarkerSettles \/ CommitSettles \/ WarningAppended \/ WarningThrows \/
       Cancel \/ LegacyJobSettles

(* The next-state relation, flat. *)
LEMMA StepCases == [Next]_vars <=> StepKinds
<1>1. Calls \subseteq Joiners /\ Turns \subseteq Joiners /\ Joiners = Calls \cup Turns
  BY DEF Joiners
<1> QED BY <1>1 DEF Next, CallStep, ProviderStep, TurnStep, StoreStep, StepKinds

(* before its reservation is given up *)
Holding == {"warned", "told", "begin", "marker", "unmarked", "acked", "asked"}

Ongoing == Acquiring \cup {"asked"}

(* Calls are made one after the other. *)
Numbered ==
    /\ \A t \in Turns : made[t] <= MaxCalls[t]
    /\ \A c \in Calls : stage[c] = "none" <=> c[2] > made[c[1]]

(* The one call that a turn waits for is its last. *)
OneAtATime ==
    /\ \A c \in Calls \ closed : stage[c] \in Ongoing => step[c[1]] = "attempt" /\ made[c[1]] = c[2]
    /\ \A t \in Turns : step[t] = "attempt" => entry[t] <= Len(Plan)

(* Content is shown in the end, and only native retries outlive their attempt. *)
InOrder ==
    \A c \in Calls :
        /\ c \in shown => stage[c] \in {"late", "over"}
        /\ c \in native => stage[c] # "none"
        /\ c \in closed => c \in native /\ stage[c] # "asked"

(* A call is paid for, or its bill unknown, in the end. *)
Billed ==
    \A c \in Calls :
        /\ paid[c] # NoBill => stage[c] = "over"
        /\ c \in unknown => stage[c] \in {"late", "over"}
        /\ stage[c] = "late" => c \in unknown

(* Who holds a reservation. *)
Reserves ==
    \A c \in Calls :
        /\ stage[c] \notin Holding => reserved[c] = 0
        /\ reserved[c] \in {0, Estimate(c)}
        /\ stage[c] \in Holding /\ c \notin closed => reserved[c] = Estimate(c)

(* A turn has one debit at most, and its owner knows. *)
Debits ==
    /\ \A c \in Calls : stage[c] \notin Holding => c \notin debit
    /\ \A c, d \in debit : c[1] = d[1] => c = d
    /\ \A t \in Turns : allowance[t].inFlight <=> \E c \in debit : c[1] = t

(* Lost money aborts the run. *)
LossAborts == /\ broken \/ commitBroken => Aborted
              /\ failure => broken
              /\ commitFailure => commitBroken

(* The sums. *)
PaidFor == [c \in Calls |-> Larger(paid[c], 0)]

Committed == [c \in Calls |-> IF c \in unknown THEN Estimate(c) ELSE 0]

Accounts ==
    /\ spent = total
    /\ total = SumOf(PaidFor, Calls)
    /\ conservative = SumOf(Committed, Calls)
    /\ reservedCost = SumOf(reserved, Calls)

(* what was foreseen of a call *)
Base(c) ==
    CASE c \in unknown -> Estimate(c)
      [] c \notin unknown /\ paid[c] # NoBill -> IF paid[c] <= Estimate(c) THEN paid[c] ELSE Estimate(c)
      [] OTHER -> reserved[c]

Within == [c \in Calls |-> IF HasToken(c[1]) THEN 0 ELSE Base(c)]

Beyond == [c \in Calls |-> IF HasToken(c[1]) THEN Base(c) ELSE 0]

Left == [t \in Turns |-> IF HasToken(t) THEN allowance[t].remaining ELSE 0]

Granted == [t \in Turns |-> Larger(Approved[t], 0)]

Foreseen ==
    /\ policy \in {"fail", "pause"} /\ Cap > 0 => SumOf(Within, Calls) <= Cap
    /\ SumOf(Beyond, Calls) + SumOf(Left, Turns) <= SumOf(Granted, Turns)

(* A warning is armed, on its way, written, or lost with the run. *)
Warned ==
    /\ warningArmed \/ warning \/ announced \/ Aborted
    /\ \A c \in Calls : stage[c] = "warned" => warning
    /\ \A c \in overCap :
          /\ stage[c] \notin {"none", "join", "check", "held"}
          /\ stage[c] = "told" => announced \/ Aborted
          /\ stage[c] \in {"begin", "marker", "acked", "asked", "late"} => announced

(* the outcome of a call is written or queued *)
Queued(c, w) == \E i \in DOMAIN ledger : ledger[i].call = c /\ ledger[i].write = w

Logged(c, w) == \E i \in DOMAIN log[c] : log[c][i] = w

(* The claim on a call follows its stage. *)
Claimed ==
    \A c \in Calls :
        /\ stage[c] \in (Acquiring \ {"acked"}) \cup {"none"} => claim[c] = "none"
        /\ stage[c] \in {"acked", "asked"} => claim[c] = "pending"
        /\ stage[c] = "late" => claim[c] = "incomplete"
        /\ stage[c] = "over" => claim[c] \in {"none", "finished"}

(* A call waits for its marker. *)
Marking ==
    /\ \A c \in Calls : Queued(c, "pending") => stage[c] = "marker"
    /\ \A i, j \in DOMAIN ledger : ledger[i].write = "pending" /\ ledger[j] = ledger[i] => i = j

(* What is written of a call, or about to be, follows its claim. *)
Written(c) ==
    /\ claim[c] = "none" => log[c] = <<>> /\ (\A w \in Outcomes : ~ Queued(c, w)) /\ c \notin unknown
    /\ claim[c] = "pending" => \A w \in Outcomes : ~ Queued(c, w) /\ ~ Logged(c, w)
    /\ claim[c] = "incomplete" => \A w \in Outcomes \ {"waiting"} : ~ Queued(c, w) /\ ~ Logged(c, w)
    /\ claim[c] # "none" => log[c] # <<>> /\ log[c][1] = "pending"
    /\ \A w \in {"waiting", "incomplete"} : Queued(c, w) \/ Logged(c, w) => c \in unknown
    /\ Queued(c, "released") \/ Logged(c, "released") => stage[c] = "over" /\ paid[c] = NoBill /\ c \notin shown

Writing ==
    /\ \A c \in Calls : Written(c)
    /\ \A i \in DOMAIN commits : commits[i] \in unknown

(* Two outcomes of one call: the first only said that a receipt is awaited. *)
Follows(v, w) == v = "waiting" /\ w \in {"settled", "incomplete"}

Twice(c) ==
    /\ \A i, j \in DOMAIN log[c] :
          i < j /\ log[c][i] \in Outcomes /\ log[c][j] \in Outcomes => Follows(log[c][i], log[c][j])
    /\ \A i \in DOMAIN log[c], j \in DOMAIN ledger :
          ledger[j].call = c /\ log[c][i] \in Outcomes /\ ledger[j].write \in Outcomes
              => Follows(log[c][i], ledger[j].write)
    /\ \A i, j \in DOMAIN ledger :
          i < j /\ ledger[i].call = c /\ ledger[j].call = c
              /\ ledger[i].write \in Outcomes /\ ledger[j].write \in Outcomes
              => Follows(ledger[i].write, ledger[j].write)

Resolved == \A c \in Calls : Twice(c)

-----------------------------------------------------------------------------
(* TypeOK in parts, so that a step only has to look at what it changes.      *)

BudgetTypes ==
    /\ policy \in Policies /\ spent \in Nat /\ conservative \in Nat /\ reservedCost \in Nat
    /\ reserved \in [Calls -> Nat] /\ total \in Nat /\ paid \in [Calls -> Nat \cup {NoBill}]

AllowanceTypes ==
    /\ allowance \in [Turns -> [remaining: Nat, inFlight: BOOLEAN, closed: BOOLEAN, exhausted: BOOLEAN]]
    /\ debit \subseteq Calls

WarningTypes == warningArmed \in BOOLEAN /\ warning \in BOOLEAN /\ announced \in BOOLEAN /\ overCap \subseteq Calls

CommitTypes == commits \in Seq(Calls) /\ commitFailure \in BOOLEAN /\ commitBroken \in BOOLEAN /\ unknown \subseteq Calls

LedgerTypes == ledger \in Seq([call: Calls, write: Writes]) /\ failure \in BOOLEAN /\ broken \in BOOLEAN

ClaimTypes == claim \in [Calls -> {"none", "pending", "incomplete", "finished"}]

LogTypes == log \in [Calls -> Seq(Writes \cup {"committed"})]

JoinTypes == observed \in [Joiners -> Nat \cup {Free}]

RunTypes == run \in {"running", "failed", "cancelled"} /\ faults \in 0..MaxFaults /\ legacyHold \in BOOLEAN

ChainTypes == /\ entry \in [Turns -> 1..(Len(Plan) + 1)]
              /\ tries \in [Turns -> Nat] /\ bonus \in [Turns -> Nat] /\ refreshed \in [Turns -> SUBSET Providers]

StageTypes == stage \in [Calls -> Stages]

CallTypes == /\ via \in [Calls -> Providers] /\ shown \subseteq Calls /\ native \subseteq Calls
             /\ closed \subseteq native /\ roundOf \in [Calls -> Nat]

TurnTypes == /\ step \in [Turns -> {"chain", "attempt", "join", "tools", "closing", "boundary", "ended"}]
             /\ round \in [Turns -> Nat] /\ made \in [Turns -> Nat]

OtherTypes == /\ result \in [Turns -> {"none", "done", "failed", "paused"}] /\ current \in [Turns -> Nat]
              /\ abandoned \subseteq Turns /\ cooled \in [Turns -> SUBSET Providers]

(* TypeOK is all of its parts. *)
LEMMA Types ==
    TypeOK <=> /\ BudgetTypes /\ AllowanceTypes /\ WarningTypes /\ CommitTypes /\ LedgerTypes /\ ClaimTypes /\ LogTypes
               /\ JoinTypes /\ RunTypes /\ ChainTypes /\ StageTypes /\ CallTypes /\ TurnTypes /\ OtherTypes
BY DEF TypeOK, GovernorTypeOK, MoneyTypeOK, ChainTypeOK, BudgetTypes, AllowanceTypes, WarningTypes, CommitTypes,
       LedgerTypes, ClaimTypes, LogTypes, JoinTypes, RunTypes, ChainTypes, StageTypes, CallTypes, TurnTypes, OtherTypes

-----------------------------------------------------------------------------
(* What a step does to the calls, their turns and their plans.               *)

callMoveVars == <<stage, shown, closed, via, native, roundOf, made>>
turnMoveVars == <<step, round, entry, tries, bonus, refreshed>>

(* a failed attempt of turn t: the next entry, once more, once more with a new credential, or the end *)
FailureMove(t, committed) ==
    /\ UNCHANGED round
    /\ \/ /\ ~committed
          /\ step' = [step EXCEPT ![t] = "chain"] /\ UNCHANGED refreshed
          /\ entry' = [entry EXCEPT ![t] = entry[t] + 1]
          /\ tries' = [tries EXCEPT ![t] = 0] /\ bonus' = [bonus EXCEPT ![t] = 0]
       \/ /\ ~committed /\ BudgetLeft(t)
          /\ step' = [step EXCEPT ![t] = "chain"] /\ UNCHANGED <<entry, tries, bonus, refreshed>>
       \/ /\ ~committed /\ Provider(t) \notin refreshed[t]
          /\ step' = [step EXCEPT ![t] = "chain"]
          /\ refreshed' = [refreshed EXCEPT ![t] = refreshed[t] \cup {Provider(t)}]
          /\ bonus' = [bonus EXCEPT ![t] = bonus[t] + 1] /\ UNCHANGED <<entry, tries>>
       \/ /\ step' = [step EXCEPT ![t] = "closing"] /\ UNCHANGED <<entry, tries, bonus>>
          /\ \/ UNCHANGED refreshed
             \/ refreshed' = [refreshed EXCEPT ![t] = refreshed[t] \cup {Provider(t)}]

PassMove(c) ==
    /\ \E s \in (Acquiring \ {"join"}) \cup {"asked"} :
          stage[c] \in Acquiring /\ stage' = [stage EXCEPT ![c] = s] /\ (s = "asked" => c \notin closed /\ ~Aborted)
    /\ UNCHANGED <<shown, closed, via, native, roundOf, made, turnMoveVars>>

WarningMove ==
    /\ \E s \in {"told", "unmarked"} : stage' = [c \in Calls |-> IF stage[c] = "warned" THEN s ELSE stage[c]]
    /\ UNCHANGED <<shown, closed, via, native, roundOf, made, turnMoveVars>>

EndMove(c) ==
    /\ stage[c] \in Ongoing
    /\ \E s \in {"late", "over"} : stage' = [stage EXCEPT ![c] = s] /\ (s = "late" => stage[c] = "asked")
    /\ shown' = shown \/ (shown' = shown \cup {c} /\ stage[c] = "asked")
    /\ UNCHANGED <<closed, via, native, roundOf, made>>
    /\ \/ c \in closed /\ UNCHANGED turnMoveVars
       \/ c \notin closed /\ FailureMove(c[1], c \in shown')

AnswerMove(c) ==
    /\ stage[c] = "asked" /\ stage' = [stage EXCEPT ![c] = "over"] /\ shown' = shown \cup {c}
    /\ \E s \in {"join", "closing"} : step' = [step EXCEPT ![c[1]] = s]
    /\ UNCHANGED <<closed, via, native, roundOf, made, round, entry, tries, bonus, refreshed>>

LateMove(c) ==
    /\ stage[c] = "late" /\ stage' = [stage EXCEPT ![c] = "over"]
    /\ UNCHANGED <<shown, closed, via, native, roundOf, made, turnMoveVars>>

CloseMove(c) ==
    /\ c \in native \ closed /\ stage[c] \in Acquiring \ {"acked"} /\ closed' = closed \cup {c}
    /\ UNCHANGED <<stage, shown, via, native, roundOf, made>>
    /\ FailureMove(c[1], FALSE)

(* a new call of turn t, at provider p *)
Made(t, p) ==
    LET d == <<t, made[t] + 1>>
    IN  /\ made[t] < MaxCalls[t] /\ made' = [made EXCEPT ![t] = made[t] + 1]
        /\ via' = [via EXCEPT ![d] = p] /\ roundOf' = [roundOf EXCEPT ![d] = round[t]]

RetryMove(c) ==
    LET d == <<c[1], made[c[1]] + 1>>
    IN  /\ stage[c] = "asked" /\ stage' = [stage EXCEPT ![c] = "over", ![d] = "join"]
        /\ native' = native \cup {d} /\ Made(c[1], via[c])
        /\ UNCHANGED <<shown, closed, turnMoveVars>>

StartMove(t) ==
    LET d == <<t, made[t] + 1>>
    IN  /\ step[t] = "chain" /\ step' = [step EXCEPT ![t] = "attempt"] /\ entry[t] <= Len(Plan)
        /\ stage' = [stage EXCEPT ![d] = "join"] /\ Made(t, Provider(t))
        /\ tries' = [tries EXCEPT ![t] = tries[t] + 1]
        /\ UNCHANGED <<shown, closed, native, round, entry, bonus, refreshed>>

TurnMove(t) ==
    /\ UNCHANGED callMoveVars
    /\ \/ /\ step[t] = "join" /\ ~Aborted /\ commits = <<>> /\ ledger = <<>> /\ step' = [step EXCEPT ![t] = "tools"]
          /\ UNCHANGED <<round, entry, tries, bonus, refreshed>>
       \/ /\ step[t] = "boundary" /\ commits = <<>> /\ (commitFailure \/ ledger = <<>>) /\ step' = [step EXCEPT ![t] = "ended"]
          /\ UNCHANGED <<round, entry, tries, bonus, refreshed>>
       \/ /\ \E s \in {"closing", "boundary"} : step[t] \notin {"attempt", "ended"} /\ step' = [step EXCEPT ![t] = s]
          /\ UNCHANGED <<round, entry, tries, bonus, refreshed>>
       \/ /\ step[t] = "tools" /\ step' = [step EXCEPT ![t] = "chain"] /\ round' = [round EXCEPT ![t] = round[t] + 1]
          /\ entry' = [entry EXCEPT ![t] = 1] /\ tries' = [tries EXCEPT ![t] = 0] /\ bonus' = [bonus EXCEPT ![t] = 0]
          /\ UNCHANGED refreshed
       \/ /\ step[t] = "chain" /\ entry[t] <= Len(Plan) /\ tries[t] = 0
          /\ entry' = [entry EXCEPT ![t] = entry[t] + 1]
          /\ tries' = [tries EXCEPT ![t] = 0] /\ bonus' = [bonus EXCEPT ![t] = 0]
          /\ UNCHANGED <<step, round, refreshed>>

CallMoves ==
    \/ UNCHANGED callMoveVars /\ UNCHANGED turnMoveVars
    \/ WarningMove
    \/ \E c \in Calls : \/ PassMove(c) \/ EndMove(c) \/ AnswerMove(c) \/ LateMove(c) \/ CloseMove(c) \/ RetryMove(c)
    \/ \E t \in Turns : StartMove(t) \/ TurnMove(t)

(* #afterFailure and the attempt loop. *)
LEMMA FailureMoves ==
    ASSUME NEW t \in Turns, NEW kind, NEW committed \in BOOLEAN, NEW renews, refreshed \in [Turns -> SUBSET Providers],
           FailureNoted(t, kind, committed, renews), UNCHANGED round,
           step' = [step EXCEPT ![t] = IF AfterFailure(t, kind, committed, renews) = "fatal"
                                       THEN "closing" ELSE "chain"]
    PROVE  FailureMove(t, committed)
<1> DEFINE verdict == AfterFailure(t, kind, committed, renews)
           noted(k) == IF kind = k /\ ~committed THEN {Provider(t)} ELSE {}
<1>1. /\ verdict \in {"fatal", "auth-refreshed", "retryable", "advance"} /\ (committed => verdict = "fatal")
      /\ verdict = "auth-refreshed" => ~committed /\ kind = "auth" /\ Provider(t) \notin refreshed[t]
      /\ verdict \in {"retryable", "advance"} => kind # "auth"
  BY DEF AfterFailure
<1>2. /\ refreshed' = [refreshed EXCEPT ![t] = refreshed[t] \cup noted("auth")]
      /\ verdict = "auth-refreshed" => bonus' = [bonus EXCEPT ![t] = bonus[t] + 1] /\ UNCHANGED <<entry, tries>>
      /\ verdict = "advance" \/ (verdict = "retryable" /\ ~BudgetLeft(t)) => AtEntry(t, entry[t] + 1)
      /\ verdict = "fatal" \/ (verdict = "retryable" /\ BudgetLeft(t)) => UNCHANGED <<entry, tries, bonus>>
  BY <1>1 DEF FailureNoted
<1>3. step' = [step EXCEPT ![t] = IF verdict = "fatal" THEN "closing" ELSE "chain"]
  OBVIOUS
<1> HIDE DEF verdict
<1>4. kind # "auth" \/ committed => refreshed' = refreshed
  <2>1. ASSUME kind # "auth" \/ committed PROVE refreshed' = refreshed
    <3>1. refreshed' = [refreshed EXCEPT ![t] = refreshed[t] \cup {}]
      BY <1>2, <2>1
    <3> QED BY <3>1
  <2> QED BY <2>1
<1>5. CASE verdict = "auth-refreshed"
  <2>1. refreshed' = [refreshed EXCEPT ![t] = refreshed[t] \cup {Provider(t)}]
    BY <1>1, <1>2, <1>5
  <2> HIDE DEF noted
  <2> QED BY <1>1, <1>2, <1>3, <1>5, <2>1 DEF FailureMove
<1>6. CASE verdict = "advance" \/ (verdict = "retryable" /\ ~BudgetLeft(t))
  BY <1>1, <1>2, <1>3, <1>4, <1>6 DEF FailureMove, AtEntry
<1>7. CASE verdict = "retryable" /\ BudgetLeft(t)
  BY <1>1, <1>2, <1>3, <1>4, <1>7 DEF FailureMove
<1>8. CASE verdict = "fatal"
  <2>1. refreshed' = refreshed \/ refreshed' = [refreshed EXCEPT ![t] = refreshed[t] \cup {Provider(t)}]
    <3>1. CASE kind = "auth" /\ ~committed
      BY <1>2, <3>1
    <3> QED BY <1>4, <3>1
  <2> HIDE DEF noted
  <2> QED BY <1>2, <1>3, <1>8, <2>1 DEF FailureMove
<1> QED BY <1>1, <1>5, <1>6, <1>7, <1>8

(* The end of an attempt. *)
LEMMA EndMoves ==
    ASSUME NEW c \in Calls, NEW kind, NEW renews, NEW s \in {"late", "over"}, refreshed \in [Turns -> SUBSET Providers],
           stage[c] \in Ongoing, s = "late" => stage[c] = "asked", UNCHANGED closed,
           shown' = shown \/ (shown' = shown \cup {c} /\ stage[c] = "asked"),
           Ends(c, kind, renews, s)
    PROVE  EndMove(c)
<1> DEFINE verdict == AfterFailure(c[1], kind, c \in shown', renews)
<1>1. stage' = [stage EXCEPT ![c] = s] /\ UNCHANGED <<via, native, roundOf>> /\ c[1] \in Turns
  BY CallParts DEF Ends
<1>2. ASSUME c \in closed PROVE UNCHANGED <<made, turnMoveVars>>
  BY <1>2 DEF Ends, chainVars, turnVars, turnMoveVars
<1>3. ASSUME c \notin closed PROVE UNCHANGED made /\ FailureMove(c[1], c \in shown')
  <2>1. FailureNoted(c[1], kind, c \in shown', renews)
    BY <1>3 DEF Ends
  <2>2. /\ verdict = "fatal" => step' = [step EXCEPT ![c[1]] = "closing"] /\ UNCHANGED <<round, made>>
        /\ verdict # "fatal" => step' = [step EXCEPT ![c[1]] = "chain"] /\ UNCHANGED <<round, made>>
    <3> HIDE DEF verdict
    <3> QED BY <1>3 DEF Ends, Closes, verdict
  <2>3. step' = [step EXCEPT ![c[1]] = IF verdict = "fatal" THEN "closing" ELSE "chain"] /\ UNCHANGED <<round, made>>
    <3> HIDE DEF verdict
    <3> QED BY <2>2
  <2>4. (c \in shown') \in BOOLEAN
    OBVIOUS
  <2> QED BY <1>1, <2>1, <2>3, <2>4, FailureMoves
<1> QED BY <1>1, <1>2, <1>3 DEF EndMove

(* Every step moves the calls in one of these ways. *)
LEMMA CallMovesCover ==
    ASSUME ChainTypes, LedgerTypes, Marking, [Next]_vars
    PROVE  CallMoves
<1>0. ChainTypes /\ refreshed \in [Turns -> SUBSET Providers]
  BY DEF ChainTypes
<1>1. ASSUME UNCHANGED vars \/ OutcomeSettles \/ CommitSettles \/ Cancel \/ LegacyJobSettles PROVE CallMoves
  <2>1. UNCHANGED callMoveVars /\ UNCHANGED turnMoveVars
    BY <1>1 DEF vars, chainVars, callVars, turnVars, OutcomeSettles, CommitSettles, Cancel, Outside,
        LegacyJobSettles, callMoveVars, turnMoveVars
  <2> QED BY <2>1 DEF CallMoves
<1>2. ASSUME NEW c \in Calls, PreAttemptJoined(c) PROVE CallMoves
  <2>1. stage[c] \in Acquiring /\ stage[c] \in Ongoing /\ UNCHANGED <<closed, shown>>
    BY <1>2 DEF PreAttemptJoined, At, Acquiring, Ongoing
  <2>2. CASE Ends(c, "other", FALSE, "over")
    BY <2>1, <2>2, <1>0, EndMoves DEF CallMoves
  <2>3. CASE ~ (Ends(c, "other", FALSE, "over"))
    <3>1. PassMove(c)
      BY <1>2, <2>1, <2>3 DEF PreAttemptJoined, PassMove, chainVars, turnVars, turnMoveVars, Acquiring
    <3> QED BY <3>1 DEF CallMoves
  <2> QED BY <2>2, <2>3
<1>3. ASSUME NEW c \in Calls, CheckFails(c) PROVE CallMoves
  <2>1. Ends(c, "other", FALSE, "over") /\ stage[c] \in Ongoing /\ UNCHANGED <<closed, shown>>
    BY <1>3 DEF CheckFails, At, Ongoing, Acquiring
  <2> QED BY <2>1, <1>0, EndMoves DEF CallMoves
<1>4. ASSUME NEW c \in Calls, CheckHeld(c) PROVE CallMoves
  <2>1. stage[c] \in Acquiring /\ stage' = [stage EXCEPT ![c] = "held"]
    BY <1>4 DEF CheckHeld, At, Acquiring
  <2>2. UNCHANGED <<shown, closed, via, native, roundOf, made, turnMoveVars>>
    BY <1>4 DEF CheckHeld, chainVars, turnVars, turnMoveVars
  <2>3. "held" \in (Acquiring \ {"join"}) \cup {"asked"} /\ "held" # "asked"
    BY DEF Acquiring
  <2>4. PassMove(c)
    BY <2>1, <2>2, <2>3 DEF PassMove
  <2> QED BY <2>4 DEF CallMoves
<1>5. ASSUME NEW c \in Calls, Evaluate(c) PROVE CallMoves
  <2>1. stage[c] \in Acquiring /\ stage[c] \in Ongoing /\ UNCHANGED <<closed, shown>>
    BY <1>5 DEF Evaluate, At, Acquiring, Ongoing
  <2>2. CASE \E kind \in {"other", "pause"} : Ends(c, kind, FALSE, "over")
    BY <2>1, <2>2, <1>0, EndMoves DEF CallMoves
  <2>3. CASE ~ (\E kind \in {"other", "pause"} : Ends(c, kind, FALSE, "over"))
    <3>1. PassMove(c)
      BY <1>5, <2>1, <2>3 DEF Evaluate, Begins, PassMove, chainVars, turnVars, turnMoveVars, Acquiring
    <3> QED BY <3>1 DEF CallMoves
  <2> QED BY <2>2, <2>3
<1>6. ASSUME NEW c \in Calls, Admitted(c) PROVE CallMoves
  <2>1. stage[c] \in Acquiring /\ stage[c] \in Ongoing /\ UNCHANGED <<closed, shown>>
    BY <1>6 DEF Admitted, At, Acquiring, Ongoing
  <2>2. CASE Ends(c, "other", FALSE, "over")
    BY <2>1, <2>2, <1>0, EndMoves DEF CallMoves
  <2>3. CASE ~ (Ends(c, "other", FALSE, "over"))
    <3>1. PassMove(c)
      BY <1>6, <2>1, <2>3 DEF Admitted, Begins, PassMove, chainVars, turnVars, turnMoveVars, Acquiring
    <3> QED BY <3>1 DEF CallMoves
  <2> QED BY <2>2, <2>3
<1>7. ASSUME NEW c \in Calls, BeginJoined(c) PROVE CallMoves
  <2>1. stage[c] \in Acquiring /\ stage[c] \in Ongoing /\ UNCHANGED <<closed, shown>>
    BY <1>7 DEF BeginJoined, At, Acquiring, Ongoing
  <2>2. CASE Ends(c, "other", FALSE, "over")
    BY <2>1, <2>2, <1>0, EndMoves DEF CallMoves
  <2>3. CASE ~ (Ends(c, "other", FALSE, "over"))
    <3>1. PassMove(c)
      BY <1>7, <2>1, <2>3 DEF BeginJoined, PassMove, chainVars, turnVars, turnMoveVars, Acquiring
    <3> QED BY <3>1 DEF CallMoves
  <2> QED BY <2>2, <2>3
<1>8. ASSUME NEW c \in Calls, Unmarked(c) PROVE CallMoves
  <2>1. Ends(c, "other", FALSE, "over") /\ stage[c] \in Ongoing /\ UNCHANGED <<closed, shown>>
    BY <1>8 DEF Unmarked, At, Ongoing, Acquiring
  <2> QED BY <2>1, <1>0, EndMoves DEF CallMoves
<1>9. ASSUME NEW c \in Calls, NotAsked(c) PROVE CallMoves
  <2>1. \E kind \in ErrorKinds, renews \in BOOLEAN :
           Ends(c, kind, renews, "over") /\ stage[c] \in Ongoing /\ UNCHANGED <<closed, shown>>
    BY <1>9 DEF NotAsked, Uninvoked, At, Ongoing, Acquiring, ErrorKinds
  <2> QED BY <2>1, <1>0, EndMoves DEF CallMoves
<1>10. ASSUME NEW c \in Calls, Ask(c) PROVE CallMoves
  <2>1. PassMove(c)
    BY <1>10, <1>0, CallParts DEF Ask, chainVars, turnVars, PassMove, turnMoveVars, At, Acquiring
  <2> QED BY <2>1 DEF CallMoves
<1>11. ASSUME NEW c \in Calls, Succeed(c) PROVE CallMoves
  <2>1. AnswerMove(c)
    BY <1>11, <1>0, CallParts DEF Succeed, AnswerFrame, Answered, chainVars, Closes, AnswerMove, At
  <2> QED BY <2>1 DEF CallMoves
<1>12. ASSUME NEW c \in Calls, Fail(c) PROVE CallMoves
  <2>1. \E kind \in Errors \cup {"other"}, renews \in BOOLEAN :
           Ends(c, kind, renews, "over") /\ stage[c] = "asked" /\ UNCHANGED closed /\ shown' \in {shown, shown \cup {c}}
    BY <1>12 DEF Fail, At, AnswerFrame, Shown
  <2>2. stage[c] \in Ongoing
    BY <2>1 DEF Ongoing
  <2> QED BY <2>1, <2>2, <1>0, EndMoves DEF CallMoves
<1>13. ASSUME NEW c \in Calls, Deadline(c) PROVE CallMoves
  <2>1. \E kind \in {"other", "retryable"} :
           Ends(c, kind, FALSE, "late") /\ stage[c] = "asked" /\ UNCHANGED closed /\ shown' \in {shown, shown \cup {c}}
    BY <1>13 DEF Deadline, At, AnswerFrame, Shown
  <2>2. stage[c] \in Ongoing
    BY <2>1 DEF Ongoing
  <2> QED BY <2>1, <2>2, <1>0, EndMoves DEF CallMoves
<1>14. ASSUME NEW c \in Calls, RetryClosed(c) PROVE CallMoves
  <2>1. /\ c[1] \in Turns /\ c \in native \ closed /\ stage[c] \in Acquiring \ {"acked"} /\ closed' = closed \cup {c}
        /\ UNCHANGED <<stage, shown, via, native, roundOf, made, round>>
    BY <1>14, CallParts DEF RetryClosed, Closes
  <2>2. FailureNoted(c[1], IF Aborted THEN "other" ELSE "retryable", FALSE, FALSE)
    BY <1>14 DEF RetryClosed
  <2>3. step' = [step EXCEPT ![c[1]] = IF AfterFailure(c[1], IF Aborted THEN "other" ELSE "retryable", FALSE, FALSE) = "fatal"
                                       THEN "closing" ELSE "chain"]
    BY <1>14 DEF RetryClosed, Closes, AfterFailure
  <2>4. FailureMove(c[1], FALSE)
    BY <2>1, <2>2, <2>3, <1>0, FailureMoves
  <2> QED BY <2>1, <2>4 DEF CloseMove, CallMoves
<1>15. ASSUME NEW c \in Calls, NativeRetry(c) PROVE CallMoves
  <2>1. RetryMove(c)
    BY <1>15, <1>0, CallParts DEF NativeRetry, chainVars, RetryMove, Made, turnMoveVars, At
  <2> QED BY <2>1 DEF CallMoves
<1>16. ASSUME NEW c \in Calls, LateReceipt(c) PROVE CallMoves
  <2>1. LateMove(c)
    BY <1>16, <1>0, CallParts DEF LateReceipt, AnswerFrame, chainVars, turnVars, LateMove, turnMoveVars, At
  <2> QED BY <2>1 DEF CallMoves
<1>17. ASSUME NEW t \in Turns, ChainFails(t) PROVE CallMoves
  <2>1. TurnMove(t)
    BY <1>17, <1>0, CallParts DEF ChainFails, StandsStill, chainVars, Closes, callVars, TurnMove, callMoveVars
  <2> QED BY <2>1 DEF CallMoves
<1>18. ASSUME NEW t \in Turns, EntryPassed(t) PROVE CallMoves
  <2>1. TurnMove(t)
    BY <1>18, <1>0, CallParts DEF EntryPassed, NextEntry, StandsStill, turnVars, AtEntry, callVars, TurnMove,
        callMoveVars, PlanExhausted, ChainTypes
  <2> QED BY <2>1 DEF CallMoves
<1>19. ASSUME NEW t \in Turns, StartAttempt(t) PROVE CallMoves
  <2>1. StartMove(t)
    BY <1>19, <1>0, CallParts DEF StartAttempt, NewCall, Tried, StartMove, Made, Provider, PlanExhausted,
        ChainTypes
  <2> QED BY <2>1 DEF CallMoves
<1>20. ASSUME NEW t \in Turns, ToolsJoined(t) PROVE CallMoves
  <2>1. TurnMove(t)
    BY <1>20, <1>0, CallParts DEF ToolsJoined, JoinDone, JoinMoves, JoinFailed, JoinFrame, Closes,
        chainVars, callVars, TurnMove, callMoveVars
  <2> QED BY <2>1 DEF CallMoves
<1>21. ASSUME NEW t \in Turns, ToolsReturn(t) PROVE CallMoves
  <2>1. TurnMove(t)
    BY <1>21, <1>0, CallParts DEF ToolsReturn, StandsStill, Restarted, Closes, chainVars, callVars, AtEntry,
        TurnMove, callMoveVars
  <2> QED BY <2>1 DEF CallMoves
<1>22. ASSUME NEW t \in Turns, TurnCaptured(t) PROVE CallMoves
  <2>1. TurnMove(t)
    BY <1>22, <1>0, CallParts DEF TurnCaptured, JoinFrame, chainVars, callVars, TurnMove, callMoveVars
  <2> QED BY <2>1 DEF CallMoves
<1>23. ASSUME NEW t \in Turns, DispatchEnds(t) PROVE CallMoves
  <2>1. TurnMove(t)
    BY <1>23, <1>0, CallParts DEF DispatchEnds, JoinDone, JoinMoves, JoinFrame, chainVars, callVars,
        TurnMove, callMoveVars
  <2> QED BY <2>1 DEF CallMoves
<1>24. ASSUME NEW t \in Turns, Abandon(t) PROVE CallMoves
  <2>1. UNCHANGED callMoveVars /\ UNCHANGED turnMoveVars
    BY <1>24 DEF Abandon, Outside, chainVars, callVars, callMoveVars, turnMoveVars
  <2> QED BY <2>1 DEF CallMoves
<1>25. ASSUME NEW t \in Turns, NEW p \in Providers, CoolsOff(t, p) PROVE CallMoves
  <2>1. UNCHANGED callMoveVars /\ UNCHANGED turnMoveVars
    BY <1>25 DEF CoolsOff, CooldownEnds, Outside, turnVars, callVars, callMoveVars, turnMoveVars
  <2> QED BY <2>1 DEF CallMoves
<1>26. ASSUME NEW j \in Joiners, Loops(j) PROVE CallMoves
  <2>1. UNCHANGED callMoveVars /\ UNCHANGED turnMoveVars
    BY <1>26 DEF Loops, chainVars, callVars, turnVars, callMoveVars, turnMoveVars
  <2> QED BY <2>1 DEF CallMoves
<1>27. ASSUME MarkerSettles PROVE CallMoves
  <2>1. PICK c \in Calls, s \in {"acked", "unmarked"} :
           /\ ledger # <<>> /\ Head(ledger) = [call |-> c, write |-> "pending"] /\ stage' = [stage EXCEPT ![c] = s]
           /\ UNCHANGED <<shown, closed, via, native, roundOf, made, turnMoveVars>>
    BY <1>27 DEF MarkerSettles, MarkerLands, MarkerLost, Settled, chainVars, turnVars, turnMoveVars
  <2>2. Queued(c, "pending")
    <3>1. 1 \in DOMAIN ledger /\ ledger[1] = Head(ledger)
      BY <2>1 DEF LedgerTypes
    <3> QED BY <2>1, <3>1 DEF Queued
  <2>3. stage[c] = "marker"
    BY <2>2 DEF Marking
  <2>4. PassMove(c)
    BY <2>1, <2>3 DEF PassMove, Acquiring
  <2> QED BY <2>4 DEF CallMoves
<1>28. ASSUME WarningAppended PROVE CallMoves
  <2>1. WarningMove
    BY <1>28, <1>0, CallParts DEF WarningAppended, Told, chainVars, turnVars, WarningMove, turnMoveVars
  <2> QED BY <2>1 DEF CallMoves
<1>29. ASSUME WarningThrows PROVE CallMoves
  <2>1. WarningMove
    BY <1>29, <1>0, CallParts DEF WarningThrows, Told, chainVars, turnVars, WarningMove, turnMoveVars
  <2> QED BY <2>1 DEF CallMoves
<1> QED BY <1>1, <1>2, <1>3, <1>4, <1>5, <1>6, <1>7, <1>8, <1>9, <1>10, <1>11, <1>12, <1>13, <1>14, <1>15, <1>16, <1>17, <1>18, <1>19, <1>20, <1>21, <1>22, <1>23, <1>24, <1>25, <1>26, <1>27, <1>28, <1>29, StepCases DEF StepKinds

(* A new call is one that was not made before. *)
LEMMA MadeFacts ==
    ASSUME TurnTypes, CallTypes, Numbered, NEW t \in Turns, NEW p \in Providers, Made(t, p)
    PROVE  /\ <<t, made[t] + 1>> \in Calls /\ stage[<<t, made[t] + 1>>] = "none"
           /\ made' \in [Turns -> Nat] /\ made'[t] = made[t] + 1 /\ made'[t] <= MaxCalls[t]
           /\ \A u \in Turns \ {t} : made'[u] = made[u]
           /\ via' \in [Calls -> Providers] /\ via'[<<t, made[t] + 1>>] = p
           /\ \A c \in Calls \ {<<t, made[t] + 1>>} : via'[c] = via[c] /\ roundOf'[c] = roundOf[c]
           /\ roundOf' \in [Calls -> Nat] /\ roundOf'[<<t, made[t] + 1>>] = round[t]
<1> DEFINE d == <<t, made[t] + 1>>
<1>1. made[t] \in Nat /\ MaxCalls[t] \in Nat /\ made[t] < MaxCalls[t] /\ round[t] \in Nat
  BY CallParts DEF TurnTypes, Made
<1>2. d \in Calls /\ d[1] = t /\ d[2] = made[t] + 1
  <2>1. made[t] + 1 \in Nat \ {0} /\ made[t] + 1 <= MaxCalls[t]
    BY <1>1
  <2>2. \A i \in Nat \ {0} : i <= MaxCalls[t] => <<t, i>> \in Calls
    BY CallParts
  <2> QED BY <2>1, <2>2
<1>3. d[2] > made[d[1]]
  BY <1>1, <1>2
<1>4. stage[d] = "none"
  BY <1>2, <1>3 DEF Numbered
<1>5. /\ made' = [made EXCEPT ![t] = made[t] + 1]
      /\ via' = [via EXCEPT ![d] = p] /\ roundOf' = [roundOf EXCEPT ![d] = round[t]]
  BY DEF Made
<1> HIDE DEF d
<1>6. made' \in [Turns -> Nat] /\ made'[t] = made[t] + 1 /\ made'[t] <= MaxCalls[t] /\ \A u \in Turns \ {t} : made'[u] = made[u]
  BY <1>1, <1>5 DEF TurnTypes
<1>7. /\ via' \in [Calls -> Providers] /\ via'[d] = p /\ roundOf' \in [Calls -> Nat] /\ roundOf'[d] = round[t]
      /\ \A c \in Calls \ {d} : via'[c] = via[c] /\ roundOf'[c] = roundOf[c]
  BY <1>1, <1>2, <1>5 DEF CallTypes
<1> QED BY <1>2, <1>4, <1>6, <1>7 DEF d

(* Call d is the native retry of call c. *)
Retried(c, d) ==
    /\ d # c /\ d[1] = c[1] /\ d[2] = made[c[1]] + 1 /\ stage[d] = "none" /\ stage[c] = "asked"
    /\ stage' \in [Calls -> Stages] /\ stage'[c] = "over" /\ stage'[d] = "join"
    /\ \A x \in Calls \ {c, d} : stage'[x] = stage[x]
    /\ native' = native \cup {d} /\ UNCHANGED <<shown, closed, turnMoveVars>>
    /\ made' \in [Turns -> Nat] /\ made'[c[1]] = made[c[1]] + 1 /\ made'[c[1]] <= MaxCalls[c[1]]
    /\ \A u \in Turns \ {c[1]} : made'[u] = made[u]
    /\ via' \in [Calls -> Providers] /\ via'[d] = via[c]
    /\ \A x \in Calls \ {d} : via'[x] = via[x] /\ roundOf'[x] = roundOf[x]
    /\ roundOf' \in [Calls -> Nat] /\ roundOf'[d] = round[c[1]]

(* A native retry ends one call and makes the next one. *)
LEMMA RetryFacts ==
    ASSUME TurnTypes, CallTypes, StageTypes, Numbered, NEW c \in Calls, RetryMove(c)
    PROVE  \E d \in Calls : Retried(c, d)
<1> DEFINE d == <<c[1], made[c[1]] + 1>>
<1>1. c[1] \in Turns /\ via[c] \in Providers /\ Made(c[1], via[c])
  BY CallParts DEF CallTypes, RetryMove
<1>2. d[1] = c[1] /\ d[2] = made[c[1]] + 1
  OBVIOUS
<1>3. /\ stage[c] = "asked" /\ stage' = [stage EXCEPT ![c] = "over", ![d] = "join"]
      /\ native' = native \cup {d} /\ UNCHANGED <<shown, closed, turnMoveVars>>
  BY DEF RetryMove
<1>4. /\ d \in Calls /\ stage[d] = "none"
      /\ made' \in [Turns -> Nat] /\ made'[c[1]] = made[c[1]] + 1 /\ made'[c[1]] <= MaxCalls[c[1]]
      /\ \A u \in Turns \ {c[1]} : made'[u] = made[u]
      /\ via' \in [Calls -> Providers] /\ via'[d] = via[c]
      /\ \A x \in Calls \ {d} : via'[x] = via[x] /\ roundOf'[x] = roundOf[x]
      /\ roundOf' \in [Calls -> Nat] /\ roundOf'[d] = round[c[1]]
  BY <1>1, MadeFacts
<1> HIDE DEF d
<1>5. /\ d # c /\ stage' \in [Calls -> Stages] /\ stage'[c] = "over" /\ stage'[d] = "join"
      /\ \A x \in Calls \ {c, d} : stage'[x] = stage[x]
  BY <1>3, <1>4 DEF StageTypes, Stages, Acquiring
<1> QED BY <1>2, <1>3, <1>4, <1>5 DEF Retried

(* Call d starts an attempt of turn t. *)
Started(t, d) ==
    /\ d[1] = t /\ d[2] = made[t] + 1 /\ stage[d] = "none" /\ entry[t] <= Len(Plan)
    /\ Provider(t) \in Providers /\ step[t] = "chain" /\ step' = [step EXCEPT ![t] = "attempt"]
    /\ stage' \in [Calls -> Stages] /\ stage'[d] = "join"
    /\ \A x \in Calls \ {d} : stage'[x] = stage[x]
    /\ UNCHANGED <<shown, closed, native, round, entry, bonus, refreshed>>
    /\ tries' = [tries EXCEPT ![t] = tries[t] + 1]
    /\ made' \in [Turns -> Nat] /\ made'[t] = made[t] + 1 /\ made'[t] <= MaxCalls[t]
    /\ \A u \in Turns \ {t} : made'[u] = made[u]
    /\ via' \in [Calls -> Providers] /\ via'[d] = Provider(t)
    /\ \A x \in Calls \ {d} : via'[x] = via[x] /\ roundOf'[x] = roundOf[x]
    /\ roundOf' \in [Calls -> Nat] /\ roundOf'[d] = round[t]

(* An attempt makes a call. *)
LEMMA StartFacts ==
    ASSUME TurnTypes, CallTypes, StageTypes, ChainTypes, Numbered, NEW t \in Turns, StartMove(t)
    PROVE  \E d \in Calls : Started(t, d)
<1> DEFINE d == <<t, made[t] + 1>>
<1>1. entry[t] <= Len(Plan) /\ Provider(t) \in Providers /\ Made(t, Provider(t))
  <2>1. entry[t] <= Len(Plan) /\ entry[t] \in 1..(Len(Plan) + 1) /\ Len(Plan) \in Nat /\ Made(t, Provider(t))
    BY PlanParts DEF ChainTypes, StartMove
  <2>2. entry[t] \in 1..Len(Plan)
    BY <2>1
  <2> QED BY <2>1, <2>2, PlanParts DEF Provider
<1>2. d[1] = t /\ d[2] = made[t] + 1
  OBVIOUS
<1>3. /\ stage' = [stage EXCEPT ![d] = "join"] /\ step[t] = "chain" /\ step' = [step EXCEPT ![t] = "attempt"]
      /\ UNCHANGED <<shown, closed, native, round, entry, bonus, refreshed>>
      /\ tries' = [tries EXCEPT ![t] = tries[t] + 1]
  BY DEF StartMove
<1>4. /\ d \in Calls /\ stage[d] = "none"
      /\ made' \in [Turns -> Nat] /\ made'[t] = made[t] + 1 /\ made'[t] <= MaxCalls[t]
      /\ \A u \in Turns \ {t} : made'[u] = made[u]
      /\ via' \in [Calls -> Providers] /\ via'[d] = Provider(t)
      /\ \A x \in Calls \ {d} : via'[x] = via[x] /\ roundOf'[x] = roundOf[x]
      /\ roundOf' \in [Calls -> Nat] /\ roundOf'[d] = round[t]
  BY <1>1, MadeFacts
<1> HIDE DEF d
<1>5. stage' \in [Calls -> Stages] /\ stage'[d] = "join" /\ \A x \in Calls \ {d} : stage'[x] = stage[x]
  BY <1>3, <1>4 DEF StageTypes, Stages, Acquiring
<1> QED BY <1>1, <1>2, <1>3, <1>4, <1>5 DEF Started

(* A failure leaves a turn in its chain, or closes it. *)
LEMMA FailureFacts ==
    ASSUME TurnTypes, ChainTypes, NEW t \in Turns, NEW committed \in BOOLEAN, entry[t] <= Len(Plan), FailureMove(t, committed)
    PROVE  /\ ChainTypes' /\ UNCHANGED round /\ step' \in [Turns -> {"chain", "attempt", "join", "tools", "closing", "boundary", "ended"}]
           /\ step'[t] \in {"chain", "closing"} /\ (committed => step'[t] = "closing")
           /\ \A u \in Turns \ {t} : /\ step'[u] = step[u] /\ entry'[u] = entry[u] /\ tries'[u] = tries[u]
                                     /\ bonus'[u] = bonus[u] /\ refreshed'[u] = refreshed[u]
<1>1. /\ entry[t] \in Nat /\ entry[t] >= 1 /\ entry[t] <= Len(Plan) /\ Len(Plan) \in Nat /\ Provider(t) \in Providers
      /\ tries[t] \in Nat /\ bonus[t] \in Nat
  BY PlanParts DEF ChainTypes, Provider
<1>2. entry[t] + 1 \in 1..(Len(Plan) + 1)
  BY <1>1
<1>3. /\ step' \in [Turns -> {"chain", "attempt", "join", "tools", "closing", "boundary", "ended"}]
      /\ step'[t] \in {"chain", "closing"} /\ (committed => step'[t] = "closing")
      /\ \A u \in Turns \ {t} : step'[u] = step[u]
  BY DEF FailureMove, TurnTypes
<1>4. entry' \in [Turns -> 1..(Len(Plan) + 1)] /\ \A u \in Turns \ {t} : entry'[u] = entry[u]
  BY <1>2 DEF FailureMove, ChainTypes
<1>5. /\ tries' \in [Turns -> Nat] /\ bonus' \in [Turns -> Nat]
      /\ \A u \in Turns \ {t} : tries'[u] = tries[u] /\ bonus'[u] = bonus[u]
  <2>1. tries \in [Turns -> Nat] /\ (tries' = tries \/ tries' = [tries EXCEPT ![t] = 0])
    BY DEF FailureMove, ChainTypes
  <2>2. bonus \in [Turns -> Nat] /\ (\/ bonus' = bonus \/ bonus' = [bonus EXCEPT ![t] = 0]
                                    \/ bonus' = [bonus EXCEPT ![t] = bonus[t] + 1])
    BY DEF FailureMove, ChainTypes
  <2> QED BY <1>1, <2>1, <2>2
<1>6. refreshed' \in [Turns -> SUBSET Providers] /\ \A u \in Turns \ {t} : refreshed'[u] = refreshed[u]
  BY <1>1 DEF FailureMove, ChainTypes
<1>7. UNCHANGED round
  BY DEF FailureMove
<1> QED BY <1>3, <1>4, <1>5, <1>6, <1>7 DEF ChainTypes

(* Every call keeps a stage. *)
LEMMA StageTyped ==
    ASSUME ChainTypes, LedgerTypes, Marking, StageTypes, [Next]_vars
    PROVE  StageTypes'
<1>1. ASSUME UNCHANGED callMoveVars, UNCHANGED turnMoveVars PROVE StageTypes'
  BY <1>1, CallParts DEF callMoveVars, turnMoveVars, StageTypes, Stages, Acquiring, Ongoing
<1>2. ASSUME WarningMove PROVE StageTypes'
  BY <1>2, CallParts DEF WarningMove, turnMoveVars, StageTypes, Stages, Acquiring, Ongoing
<1>3. ASSUME NEW c \in Calls, PassMove(c) PROVE StageTypes'
  BY <1>3, CallParts DEF PassMove, turnMoveVars, StageTypes, Stages, Acquiring, Ongoing
<1>4. ASSUME NEW c \in Calls, EndMove(c) PROVE StageTypes'
  BY <1>4, CallParts DEF EndMove, FailureMove, turnMoveVars, StageTypes, Stages, Acquiring, Ongoing
<1>5. ASSUME NEW c \in Calls, AnswerMove(c) PROVE StageTypes'
  BY <1>5, CallParts DEF AnswerMove, StageTypes, Stages, Acquiring, Ongoing
<1>6. ASSUME NEW c \in Calls, LateMove(c) PROVE StageTypes'
  BY <1>6, CallParts DEF LateMove, turnMoveVars, StageTypes, Stages, Acquiring, Ongoing
<1>7. ASSUME NEW c \in Calls, CloseMove(c) PROVE StageTypes'
  BY <1>7, CallParts DEF CloseMove, FailureMove, StageTypes, Stages, Acquiring, Ongoing
<1>8. ASSUME NEW c \in Calls, RetryMove(c) PROVE StageTypes'
  BY <1>8, CallParts DEF RetryMove, Made, turnMoveVars, StageTypes, Stages, Acquiring, Ongoing
<1>9. ASSUME NEW t \in Turns, StartMove(t) PROVE StageTypes'
  BY <1>9, CallParts DEF StartMove, Made, StageTypes, Stages, Acquiring, Ongoing
<1>10. ASSUME NEW t \in Turns, TurnMove(t) PROVE StageTypes'
  BY <1>10, CallParts DEF TurnMove, callMoveVars, StageTypes, Stages, Acquiring, Ongoing
<1> QED BY <1>1, <1>2, <1>3, <1>4, <1>5, <1>6, <1>7, <1>8, <1>9, <1>10, CallMovesCover DEF CallMoves

(* Every turn keeps a step, a round and a count of calls. *)
LEMMA TurnTyped ==
    ASSUME ChainTypes, LedgerTypes, Marking, TurnTypes, [Next]_vars
    PROVE  TurnTypes'
<1>1. ASSUME UNCHANGED callMoveVars, UNCHANGED turnMoveVars PROVE TurnTypes'
  BY <1>1, CallParts DEF callMoveVars, turnMoveVars, TurnTypes
<1>2. ASSUME WarningMove PROVE TurnTypes'
  BY <1>2, CallParts DEF WarningMove, turnMoveVars, TurnTypes
<1>3. ASSUME NEW c \in Calls, PassMove(c) PROVE TurnTypes'
  BY <1>3, CallParts DEF PassMove, turnMoveVars, TurnTypes
<1>4. ASSUME NEW c \in Calls, EndMove(c) PROVE TurnTypes'
  BY <1>4, CallParts DEF EndMove, FailureMove, turnMoveVars, TurnTypes
<1>5. ASSUME NEW c \in Calls, AnswerMove(c) PROVE TurnTypes'
  BY <1>5, CallParts DEF AnswerMove, TurnTypes
<1>6. ASSUME NEW c \in Calls, LateMove(c) PROVE TurnTypes'
  BY <1>6, CallParts DEF LateMove, turnMoveVars, TurnTypes
<1>7. ASSUME NEW c \in Calls, CloseMove(c) PROVE TurnTypes'
  BY <1>7, CallParts DEF CloseMove, FailureMove, TurnTypes
<1>8. ASSUME NEW c \in Calls, RetryMove(c) PROVE TurnTypes'
  BY <1>8, CallParts DEF RetryMove, Made, turnMoveVars, TurnTypes
<1>9. ASSUME NEW t \in Turns, StartMove(t) PROVE TurnTypes'
  BY <1>9, CallParts DEF StartMove, Made, TurnTypes
<1>10. ASSUME NEW t \in Turns, TurnMove(t) PROVE TurnTypes'
  <2>1. UNCHANGED made
    BY <1>10 DEF TurnMove, callMoveVars
  <2>2. round' = round \/ round' = [round EXCEPT ![t] = round[t] + 1]
    BY <1>10 DEF TurnMove
  <2>3. step' = step \/ \E s \in {"chain", "tools", "closing", "boundary", "ended"} : step' = [step EXCEPT ![t] = s]
    BY <1>10 DEF TurnMove
  <2> QED BY <2>1, <2>2, <2>3 DEF TurnTypes
<1> QED BY <1>1, <1>2, <1>3, <1>4, <1>5, <1>6, <1>7, <1>8, <1>9, <1>10, CallMovesCover DEF CallMoves

(* What is noted of a call keeps its type. *)
LEMMA CallTyped ==
    ASSUME ChainTypes, LedgerTypes, Marking, TurnTypes, StageTypes, CallTypes, Numbered, [Next]_vars
    PROVE  CallTypes'
<1>1. ASSUME UNCHANGED callMoveVars, UNCHANGED turnMoveVars PROVE CallTypes'
  BY <1>1, CallParts DEF callMoveVars, turnMoveVars, CallTypes
<1>2. ASSUME WarningMove PROVE CallTypes'
  BY <1>2, CallParts DEF WarningMove, turnMoveVars, CallTypes
<1>3. ASSUME NEW c \in Calls, PassMove(c) PROVE CallTypes'
  BY <1>3, CallParts DEF PassMove, turnMoveVars, CallTypes
<1>4. ASSUME NEW c \in Calls, EndMove(c) PROVE CallTypes'
  BY <1>4, CallParts DEF EndMove, FailureMove, turnMoveVars, CallTypes
<1>5. ASSUME NEW c \in Calls, AnswerMove(c) PROVE CallTypes'
  BY <1>5, CallParts DEF AnswerMove, CallTypes
<1>6. ASSUME NEW c \in Calls, LateMove(c) PROVE CallTypes'
  BY <1>6, CallParts DEF LateMove, turnMoveVars, CallTypes
<1>7. ASSUME NEW c \in Calls, CloseMove(c) PROVE CallTypes'
  BY <1>7, CallParts DEF CloseMove, FailureMove, CallTypes
<1>8. ASSUME NEW c \in Calls, RetryMove(c) PROVE CallTypes'
  <2>1. RetryMove(c)
    BY <1>8
  <2>2. PICK d \in Calls : Retried(c, d)
    BY <2>1, RetryFacts
  <2> QED BY <2>2, CallParts DEF Retried, CallTypes, turnMoveVars
<1>9. ASSUME NEW t \in Turns, StartMove(t) PROVE CallTypes'
  <2>1. StartMove(t)
    BY <1>9
  <2>2. PICK d \in Calls : Started(t, d)
    BY <2>1, StartFacts
  <2> QED BY <2>2, CallParts DEF Started, CallTypes
<1>10. ASSUME NEW t \in Turns, TurnMove(t) PROVE CallTypes'
  BY <1>10, CallParts DEF TurnMove, callMoveVars, CallTypes
<1> QED BY <1>1, <1>2, <1>3, <1>4, <1>5, <1>6, <1>7, <1>8, <1>9, <1>10, CallMovesCover DEF CallMoves

(* A chain never leaves its plan by more than one entry. *)
LEMMA ChainTyped ==
    ASSUME ChainTypes, LedgerTypes, Marking, TurnTypes, StageTypes, CallTypes, Numbered, OneAtATime, [Next]_vars
    PROVE  ChainTypes'
<1>1. ASSUME UNCHANGED callMoveVars, UNCHANGED turnMoveVars PROVE ChainTypes'
  BY <1>1, CallParts, PlanParts DEF callMoveVars, turnMoveVars, ChainTypes
<1>2. ASSUME WarningMove PROVE ChainTypes'
  BY <1>2, CallParts, PlanParts DEF WarningMove, turnMoveVars, ChainTypes
<1>3. ASSUME NEW c \in Calls, PassMove(c) PROVE ChainTypes'
  BY <1>3, CallParts, PlanParts DEF PassMove, turnMoveVars, ChainTypes
<1>4. ASSUME NEW c \in Calls, EndMove(c) PROVE ChainTypes'
  <2>1. CASE c \in closed
    BY <1>4, <2>1 DEF EndMove, turnMoveVars, ChainTypes
  <2>2. CASE c \notin closed
    <3>1. FailureMove(c[1], c \in shown') /\ c[1] \in Turns /\ entry[c[1]] <= Len(Plan)
      BY <1>4, <2>2, CallParts DEF EndMove, OneAtATime
    <3>2. (c \in shown') \in BOOLEAN
      OBVIOUS
    <3> QED BY <3>1, <3>2, FailureFacts
  <2> QED BY <2>1, <2>2
<1>5. ASSUME NEW c \in Calls, AnswerMove(c) PROVE ChainTypes'
  BY <1>5, CallParts, PlanParts DEF AnswerMove, ChainTypes
<1>6. ASSUME NEW c \in Calls, LateMove(c) PROVE ChainTypes'
  BY <1>6, CallParts, PlanParts DEF LateMove, turnMoveVars, ChainTypes
<1>7. ASSUME NEW c \in Calls, CloseMove(c) PROVE ChainTypes'
  <2>1. FailureMove(c[1], FALSE) /\ c[1] \in Turns /\ entry[c[1]] <= Len(Plan)
    BY <1>7, CallParts DEF CloseMove, OneAtATime, Ongoing
  <2> QED BY <2>1, FailureFacts
<1>8. ASSUME NEW c \in Calls, RetryMove(c) PROVE ChainTypes'
  <2>1. RetryMove(c)
    BY <1>8
  <2>2. PICK d \in Calls : Retried(c, d)
    BY <2>1, RetryFacts
  <2> QED BY <2>2, CallParts DEF Retried, ChainTypes, turnMoveVars
<1>9. ASSUME NEW t \in Turns, StartMove(t) PROVE ChainTypes'
  <2>1. StartMove(t)
    BY <1>9
  <2>2. PICK d \in Calls : Started(t, d)
    BY <2>1, StartFacts
  <2> QED BY <2>2, CallParts DEF Started, ChainTypes
<1>10. ASSUME NEW t \in Turns, TurnMove(t) PROVE ChainTypes'
  <2>1. entry[t] \in Nat /\ entry[t] >= 1 /\ Len(Plan) \in Nat /\ 1 \in 1..(Len(Plan) + 1)
    BY PlanParts DEF ChainTypes
  <2>2. entry[t] <= Len(Plan) => entry[t] + 1 \in 1..(Len(Plan) + 1)
    BY <2>1
  <2>3. entry' \in [Turns -> 1..(Len(Plan) + 1)]
    BY <1>10, <2>1, <2>2 DEF TurnMove, ChainTypes
  <2>4. /\ tries' = tries \/ tries' = [tries EXCEPT ![t] = 0]
        /\ bonus' = bonus \/ bonus' = [bonus EXCEPT ![t] = 0]
        /\ UNCHANGED refreshed
    BY <1>10 DEF TurnMove
  <2>0. tries \in [Turns -> Nat] /\ bonus \in [Turns -> Nat]
    BY DEF ChainTypes
  <2>5. tries' \in [Turns -> Nat]
    BY <2>0, <2>4
  <2>6. bonus' \in [Turns -> Nat]
    BY <2>0, <2>4
  <2> QED BY <2>3, <2>4, <2>5, <2>6 DEF ChainTypes
<1> QED BY <1>1, <1>2, <1>3, <1>4, <1>5, <1>6, <1>7, <1>8, <1>9, <1>10, CallMovesCover DEF CallMoves

(* Calls stay numbered in the order they are made. *)
LEMMA NumberedStep ==
    ASSUME ChainTypes, LedgerTypes, Marking, TurnTypes, StageTypes, CallTypes, Numbered, [Next]_vars
    PROVE  Numbered'
<1>1. ASSUME UNCHANGED callMoveVars, UNCHANGED turnMoveVars PROVE Numbered'
  BY <1>1, CallParts DEF callMoveVars, turnMoveVars, Numbered, TurnTypes, StageTypes, Acquiring, Ongoing
<1>2. ASSUME WarningMove PROVE Numbered'
  BY <1>2, CallParts DEF WarningMove, turnMoveVars, Numbered, TurnTypes, StageTypes, Acquiring, Ongoing
<1>3. ASSUME NEW c \in Calls, PassMove(c) PROVE Numbered'
  BY <1>3, CallParts DEF PassMove, turnMoveVars, Numbered, TurnTypes, StageTypes, Acquiring, Ongoing
<1>4. ASSUME NEW c \in Calls, EndMove(c) PROVE Numbered'
  BY <1>4, CallParts DEF EndMove, FailureMove, turnMoveVars, Numbered, TurnTypes, StageTypes, Acquiring,
        Ongoing
<1>5. ASSUME NEW c \in Calls, AnswerMove(c) PROVE Numbered'
  BY <1>5, CallParts DEF AnswerMove, Numbered, TurnTypes, StageTypes, Acquiring, Ongoing
<1>6. ASSUME NEW c \in Calls, LateMove(c) PROVE Numbered'
  BY <1>6, CallParts DEF LateMove, turnMoveVars, Numbered, TurnTypes, StageTypes, Acquiring, Ongoing
<1>7. ASSUME NEW c \in Calls, CloseMove(c) PROVE Numbered'
  BY <1>7, CallParts DEF CloseMove, FailureMove, Numbered, TurnTypes, StageTypes, Acquiring, Ongoing
<1>8. ASSUME NEW c \in Calls, RetryMove(c) PROVE Numbered'
  <2>1. RetryMove(c)
    BY <1>8
  <2>0. PICK d \in Calls : Retried(c, d)
    BY <2>1, RetryFacts
  <2>2. /\ d # c /\ d[1] = c[1] /\ d[2] = made[c[1]] + 1 /\ stage[d] = "none" /\ stage[c] = "asked"
        /\ stage'[c] = "over" /\ stage'[d] = "join" /\ (\A x \in Calls \ {c, d} : stage'[x] = stage[x])
        /\ made' \in [Turns -> Nat] /\ made'[c[1]] = made[c[1]] + 1 /\ made'[c[1]] <= MaxCalls[c[1]]
        /\ \A u \in Turns \ {c[1]} : made'[u] = made[u]
    BY <2>0 DEF Retried
  <2>3. ASSUME NEW x \in Calls PROVE stage'[x] = "none" <=> x[2] > made'[x[1]]
    <3>1. x[1] \in Turns /\ x[2] \in Nat /\ x = <<x[1], x[2]>> /\ d = <<d[1], d[2]>> /\ made[x[1]] \in Nat /\ made[c[1]] \in Nat
      BY CallParts DEF TurnTypes
    <3>2. CASE x = d
      BY <2>2, <3>1, <3>2
    <3>3. CASE x = c
      BY <2>2, <3>1, <3>3 DEF Numbered
    <3>4. CASE x # c /\ x # d /\ x[1] = c[1]
      <4>1. x[2] # made[c[1]] + 1
        BY <2>2, <3>1, <3>4
      <4>2. stage[x] = "none" <=> x[2] > made[x[1]]
        BY DEF Numbered
      <4> QED BY <2>2, <3>1, <3>4, <4>1, <4>2
    <3>5. CASE x # c /\ x # d /\ x[1] # c[1]
      BY <2>2, <3>1, <3>5 DEF Numbered
    <3> QED BY <3>2, <3>3, <3>4, <3>5
  <2>4. \A t \in Turns : made'[t] <= MaxCalls[t]
    BY <2>2 DEF Numbered
  <2> QED BY <2>3, <2>4 DEF Numbered
<1>9. ASSUME NEW t \in Turns, StartMove(t) PROVE Numbered'
  <2>1. StartMove(t)
    BY <1>9
  <2>0. PICK d \in Calls : Started(t, d)
    BY <2>1, StartFacts
  <2>2. /\ d[1] = t /\ d[2] = made[t] + 1 /\ stage[d] = "none"
        /\ stage'[d] = "join" /\ (\A x \in Calls \ {d} : stage'[x] = stage[x])
        /\ made' \in [Turns -> Nat] /\ made'[t] = made[t] + 1 /\ made'[t] <= MaxCalls[t]
        /\ \A u \in Turns \ {t} : made'[u] = made[u]
    BY <2>0 DEF Started
  <2>3. ASSUME NEW x \in Calls PROVE stage'[x] = "none" <=> x[2] > made'[x[1]]
    <3>1. x[1] \in Turns /\ x[2] \in Nat /\ x = <<x[1], x[2]>> /\ d = <<d[1], d[2]>> /\ made[x[1]] \in Nat /\ made[t] \in Nat
      BY CallParts DEF TurnTypes
    <3>2. CASE x = d
      BY <2>2, <3>1, <3>2
    <3>3. CASE x # d /\ x[1] = t
      <4>1. x[2] # made[t] + 1
        BY <2>2, <3>1, <3>3
      <4>2. stage[x] = "none" <=> x[2] > made[x[1]]
        BY DEF Numbered
      <4> QED BY <2>2, <3>1, <3>3, <4>1, <4>2
    <3>4. CASE x # d /\ x[1] # t
      BY <2>2, <3>1, <3>4 DEF Numbered
    <3> QED BY <3>2, <3>3, <3>4
  <2>4. \A u \in Turns : made'[u] <= MaxCalls[u]
    BY <2>2 DEF Numbered
  <2> QED BY <2>3, <2>4 DEF Numbered
<1>10. ASSUME NEW t \in Turns, TurnMove(t) PROVE Numbered'
  BY <1>10, CallParts DEF TurnMove, callMoveVars, Numbered, TurnTypes, StageTypes, Acquiring, Ongoing
<1> QED BY <1>1, <1>2, <1>3, <1>4, <1>5, <1>6, <1>7, <1>8, <1>9, <1>10, CallMovesCover DEF CallMoves

(* Content stays at the end of a call, and closed attempts stay native retries. *)
LEMMA InOrderStep ==
    ASSUME ChainTypes, LedgerTypes, Marking, TurnTypes, StageTypes, CallTypes, Numbered, InOrder, [Next]_vars
    PROVE  InOrder'
<1>1. ASSUME UNCHANGED callMoveVars, UNCHANGED turnMoveVars PROVE InOrder'
  BY <1>1, CallParts DEF callMoveVars, turnMoveVars, InOrder, CallTypes, StageTypes, Stages, Acquiring,
        Ongoing
<1>2. ASSUME WarningMove PROVE InOrder'
  BY <1>2, CallParts DEF WarningMove, turnMoveVars, InOrder, CallTypes, StageTypes, Stages, Acquiring,
        Ongoing
<1>3. ASSUME NEW c \in Calls, PassMove(c) PROVE InOrder'
  BY <1>3, CallParts DEF PassMove, turnMoveVars, InOrder, CallTypes, StageTypes, Stages, Acquiring,
        Ongoing
<1>4. ASSUME NEW c \in Calls, EndMove(c) PROVE InOrder'
  BY <1>4, CallParts DEF EndMove, FailureMove, turnMoveVars, InOrder, CallTypes, StageTypes, Stages,
        Acquiring, Ongoing
<1>5. ASSUME NEW c \in Calls, AnswerMove(c) PROVE InOrder'
  BY <1>5, CallParts DEF AnswerMove, InOrder, CallTypes, StageTypes, Stages, Acquiring, Ongoing
<1>6. ASSUME NEW c \in Calls, LateMove(c) PROVE InOrder'
  BY <1>6, CallParts DEF LateMove, turnMoveVars, InOrder, CallTypes, StageTypes, Stages, Acquiring,
        Ongoing
<1>7. ASSUME NEW c \in Calls, CloseMove(c) PROVE InOrder'
  BY <1>7, CallParts DEF CloseMove, FailureMove, InOrder, CallTypes, StageTypes, Stages, Acquiring,
        Ongoing
<1>8. ASSUME NEW c \in Calls, RetryMove(c) PROVE InOrder'
  <2>1. RetryMove(c)
    BY <1>8
  <2>2. PICK d \in Calls : Retried(c, d)
    BY <2>1, RetryFacts
  <2> QED BY <2>2, CallParts DEF Retried, InOrder, CallTypes
<1>9. ASSUME NEW t \in Turns, StartMove(t) PROVE InOrder'
  <2>1. StartMove(t)
    BY <1>9
  <2>2. PICK d \in Calls : Started(t, d)
    BY <2>1, StartFacts
  <2> QED BY <2>2, CallParts DEF Started, InOrder, CallTypes
<1>10. ASSUME NEW t \in Turns, TurnMove(t) PROVE InOrder'
  BY <1>10, CallParts DEF TurnMove, callMoveVars, InOrder, CallTypes, StageTypes, Stages, Acquiring,
        Ongoing
<1> QED BY <1>1, <1>2, <1>3, <1>4, <1>5, <1>6, <1>7, <1>8, <1>9, <1>10, CallMovesCover DEF CallMoves

(* A turn still waits for one call, its last. *)
LEMMA OneAtATimeStep ==
    ASSUME ChainTypes, LedgerTypes, Marking, TurnTypes, StageTypes, CallTypes, Numbered, InOrder, OneAtATime, [Next]_vars
    PROVE  OneAtATime'
<1>1. ASSUME UNCHANGED callMoveVars, UNCHANGED turnMoveVars PROVE OneAtATime'
  BY <1>1, CallParts DEF callMoveVars, turnMoveVars, OneAtATime, ChainTypes, TurnTypes, StageTypes,
        Stages, Acquiring, Ongoing
<1>2. ASSUME WarningMove PROVE OneAtATime'
  BY <1>2, CallParts DEF WarningMove, turnMoveVars, OneAtATime, ChainTypes, TurnTypes, StageTypes,
        Stages, Acquiring, Ongoing
<1>3. ASSUME NEW c \in Calls, PassMove(c) PROVE OneAtATime'
  BY <1>3, CallParts DEF PassMove, turnMoveVars, OneAtATime, ChainTypes, TurnTypes, StageTypes, Stages,
        Acquiring, Ongoing
<1>4. ASSUME NEW c \in Calls, EndMove(c) PROVE OneAtATime'
  <2>1. CASE c \in closed
    BY <1>4, <2>1 DEF EndMove, turnMoveVars, OneAtATime, StageTypes
  <2>2. CASE c \notin closed
    <3>1. FailureMove(c[1], c \in shown') /\ c[1] \in Turns /\ entry[c[1]] <= Len(Plan) /\ step[c[1]] = "attempt"
          /\ made[c[1]] = c[2] /\ UNCHANGED <<closed, made>>
      BY <1>4, <2>2, CallParts DEF EndMove, OneAtATime
    <3>0. (c \in shown') \in BOOLEAN
      OBVIOUS
    <3>2. /\ step'[c[1]] \in {"chain", "closing"}
          /\ \A u \in Turns \ {c[1]} : step'[u] = step[u] /\ entry'[u] = entry[u]
      BY <3>0, <3>1, FailureFacts
    <3>3. stage'[c] \in {"late", "over"} /\ \A d \in Calls \ {c} : stage'[d] = stage[d]
      BY <1>4 DEF EndMove, StageTypes
    <3>4. \A d \in Calls : d[1] \in Turns /\ d = <<d[1], d[2]>>
      BY CallParts
    <3>5. ASSUME NEW d \in Calls \ closed, stage'[d] \in Ongoing PROVE step'[d[1]] = "attempt" /\ made'[d[1]] = d[2]
      <4>1. d # c /\ stage[d] \in Ongoing
        BY <3>3, <3>5 DEF Ongoing, Acquiring
      <4>2. step[d[1]] = "attempt" /\ made[d[1]] = d[2]
        BY <3>5, <4>1 DEF OneAtATime
      <4>3. d[1] # c[1]
        BY <3>1, <3>4, <4>1, <4>2
      <4> QED BY <3>1, <3>2, <3>4, <4>2, <4>3
    <3>6. ASSUME NEW t \in Turns, step'[t] = "attempt" PROVE entry'[t] <= Len(Plan)
      BY <3>2, <3>6 DEF OneAtATime
    <3> QED BY <3>1, <3>5, <3>6 DEF OneAtATime
  <2> QED BY <2>1, <2>2
<1>5. ASSUME NEW c \in Calls, AnswerMove(c) PROVE OneAtATime'
  <2>1. c \notin closed /\ c[1] \in Turns
    BY <1>5, CallParts DEF AnswerMove, InOrder
  <2>2. step[c[1]] = "attempt" /\ made[c[1]] = c[2]
    BY <1>5, <2>1 DEF AnswerMove, OneAtATime, Ongoing
  <2>3. /\ stage'[c] = "over" /\ (\A d \in Calls \ {c} : stage'[d] = stage[d]) /\ UNCHANGED <<closed, made, entry>>
        /\ step'[c[1]] # "attempt" /\ \A u \in Turns \ {c[1]} : step'[u] = step[u]
    BY <1>5, <2>1 DEF AnswerMove, StageTypes, TurnTypes
  <2>4. \A d \in Calls : d[1] \in Turns /\ d = <<d[1], d[2]>>
    BY CallParts
  <2>5. ASSUME NEW d \in Calls \ closed, stage'[d] \in Ongoing PROVE step'[d[1]] = "attempt" /\ made'[d[1]] = d[2]
    <3>1. d # c /\ stage[d] \in Ongoing
      BY <2>3, <2>5 DEF Ongoing, Acquiring
    <3>2. step[d[1]] = "attempt" /\ made[d[1]] = d[2]
      BY <2>5, <3>1 DEF OneAtATime
    <3>3. d[1] # c[1]
      BY <2>2, <2>4, <3>1, <3>2
    <3> QED BY <2>3, <2>4, <3>2, <3>3
  <2>6. ASSUME NEW t \in Turns, step'[t] = "attempt" PROVE entry'[t] <= Len(Plan)
    BY <2>3, <2>6 DEF OneAtATime
  <2> QED BY <2>3, <2>5, <2>6 DEF OneAtATime
<1>6. ASSUME NEW c \in Calls, LateMove(c) PROVE OneAtATime'
  BY <1>6, CallParts DEF LateMove, turnMoveVars, OneAtATime, ChainTypes, TurnTypes, StageTypes, Stages,
        Acquiring, Ongoing
<1>7. ASSUME NEW c \in Calls, CloseMove(c) PROVE OneAtATime'
  <2>1. FailureMove(c[1], FALSE) /\ c[1] \in Turns /\ entry[c[1]] <= Len(Plan) /\ step[c[1]] = "attempt"
        /\ made[c[1]] = c[2] /\ UNCHANGED <<made, stage>> /\ closed' = closed \cup {c}
    BY <1>7, CallParts DEF CloseMove, OneAtATime, Ongoing
  <2>2. /\ step'[c[1]] \in {"chain", "closing"}
        /\ \A u \in Turns \ {c[1]} : step'[u] = step[u] /\ entry'[u] = entry[u]
    BY <2>1, FailureFacts
  <2>3. \A d \in Calls : d[1] \in Turns /\ d = <<d[1], d[2]>>
    BY CallParts
  <2>4. ASSUME NEW d \in Calls \ closed', stage'[d] \in Ongoing PROVE step'[d[1]] = "attempt" /\ made'[d[1]] = d[2]
    <3>1. d # c /\ step[d[1]] = "attempt" /\ made[d[1]] = d[2]
      BY <2>1, <2>4 DEF OneAtATime
    <3>2. d[1] # c[1]
      BY <2>1, <2>3, <3>1
    <3> QED BY <2>1, <2>2, <2>3, <3>1, <3>2
  <2>5. ASSUME NEW t \in Turns, step'[t] = "attempt" PROVE entry'[t] <= Len(Plan)
    BY <2>2, <2>5 DEF OneAtATime
  <2> QED BY <2>4, <2>5 DEF OneAtATime
<1>8. ASSUME NEW c \in Calls, RetryMove(c) PROVE OneAtATime'
  <2>1. RetryMove(c)
    BY <1>8
  <2>0. PICK d \in Calls : Retried(c, d)
    BY <2>1, RetryFacts
  <2>2. /\ d # c /\ d[1] = c[1] /\ d[2] = made[c[1]] + 1 /\ stage[d] = "none" /\ stage[c] = "asked"
        /\ stage'[c] = "over" /\ stage'[d] = "join" /\ (\A x \in Calls \ {c, d} : stage'[x] = stage[x])
        /\ made'[c[1]] = made[c[1]] + 1 /\ (\A u \in Turns \ {c[1]} : made'[u] = made[u])
        /\ UNCHANGED <<closed, step, entry>>
    BY <2>0 DEF Retried, turnMoveVars
  <2>3. c \notin closed /\ step[c[1]] = "attempt" /\ made[c[1]] = c[2]
    BY <2>2 DEF InOrder, OneAtATime, Ongoing
  <2>4. \A x \in Calls : x[1] \in Turns /\ x = <<x[1], x[2]>>
    BY CallParts
  <2>5. ASSUME NEW x \in Calls \ closed, stage'[x] \in Ongoing PROVE step'[x[1]] = "attempt" /\ made'[x[1]] = x[2]
    <3>1. CASE x = d
      BY <2>2, <2>3, <3>1
    <3>2. CASE x # d
      <4>1. x # c /\ stage[x] \in Ongoing
        BY <2>2, <2>5, <3>2 DEF Ongoing, Acquiring
      <4>2. step[x[1]] = "attempt" /\ made[x[1]] = x[2]
        BY <2>5, <4>1 DEF OneAtATime
      <4>3. x[1] # c[1]
        BY <2>3, <2>4, <4>1, <4>2
      <4> QED BY <2>2, <2>4, <4>2, <4>3
    <3> QED BY <3>1, <3>2
  <2> QED BY <2>2, <2>5 DEF OneAtATime
<1>9. ASSUME NEW t \in Turns, StartMove(t) PROVE OneAtATime'
  <2>1. StartMove(t)
    BY <1>9
  <2>0. PICK d \in Calls : Started(t, d)
    BY <2>1, StartFacts
  <2>2. /\ d[1] = t /\ d[2] = made[t] + 1 /\ stage[d] = "none" /\ entry[t] <= Len(Plan)
        /\ step[t] = "chain" /\ step' = [step EXCEPT ![t] = "attempt"] /\ UNCHANGED <<closed, entry>>
        /\ stage'[d] = "join" /\ (\A x \in Calls \ {d} : stage'[x] = stage[x])
        /\ made'[t] = made[t] + 1 /\ \A u \in Turns \ {t} : made'[u] = made[u]
    BY <2>0 DEF Started
  <2>3. step'[t] = "attempt" /\ \A u \in Turns \ {t} : step'[u] = step[u]
    BY <2>2 DEF TurnTypes
  <2>4. \A x \in Calls : x[1] \in Turns
    BY CallParts
  <2>5. ASSUME NEW x \in Calls \ closed, stage'[x] \in Ongoing PROVE step'[x[1]] = "attempt" /\ made'[x[1]] = x[2]
    <3>1. CASE x = d
      BY <2>2, <2>3, <3>1
    <3>2. CASE x # d
      <4>1. step[x[1]] = "attempt" /\ made[x[1]] = x[2]
        BY <2>2, <2>5, <3>2 DEF OneAtATime
      <4> QED BY <2>2, <2>3, <2>4, <4>1
    <3> QED BY <3>1, <3>2
  <2> QED BY <2>2, <2>3, <2>5 DEF OneAtATime
<1>10. ASSUME NEW t \in Turns, TurnMove(t) PROVE OneAtATime'
  <2>1. UNCHANGED <<closed, stage, made>> /\ step[t] # "attempt"
    BY <1>10 DEF TurnMove, callMoveVars
  <2>2. \A u \in Turns \ {t} : step'[u] = step[u] /\ entry'[u] = entry[u]
    BY <1>10 DEF TurnMove, TurnTypes, ChainTypes
  <2>3. step'[t] # "attempt"
    BY <1>10, <2>1 DEF TurnMove, TurnTypes
  <2>4. ASSUME NEW d \in Calls \ closed', stage'[d] \in Ongoing PROVE step'[d[1]] = "attempt" /\ made'[d[1]] = d[2]
    <3>1. step[d[1]] = "attempt" /\ made[d[1]] = d[2] /\ d[1] \in Turns
      BY <2>1, <2>4, CallParts DEF OneAtATime
    <3> QED BY <2>1, <2>2, <3>1
  <2>5. ASSUME NEW u \in Turns, step'[u] = "attempt" PROVE entry'[u] <= Len(Plan)
    <3>1. u # t
      BY <2>3, <2>5
    <3> QED BY <2>2, <2>5, <3>1 DEF OneAtATime
  <2> QED BY <2>4, <2>5 DEF OneAtATime
<1> QED BY <1>1, <1>2, <1>3, <1>4, <1>5, <1>6, <1>7, <1>8, <1>9, <1>10, CallMovesCover DEF CallMoves

-----------------------------------------------------------------------------
(* What a step does to the money.                                            *)

sumVars == <<policy, spent, conservative, reservedCost, reserved, total, paid, unknown>>

(* before a reservation is made *)
Before == {"none", "join", "check", "held"}

(* Call x holds on to what it holds. *)
Keeps(x) ==
    /\ \/ stage'[x] = stage[x]
       \/ stage[x] \in Before /\ stage'[x] \in Before \cup {"over"}
       \/ stage[x] \in Holding /\ stage'[x] \in Holding
    /\ via'[x] = via[x] \/ stage[x] = "none"

(* The owner of call c is free again, and gets back this much or less. *)
Repays(c, back) ==
    /\ AllowanceTypes' /\ debit' = debit \ {c}
    /\ c \in debit => ~allowance'[c[1]].inFlight /\ allowance'[c[1]].remaining <= allowance[c[1]].remaining + back
    /\ c \notin debit => allowance' = allowance
    /\ \A t \in Turns \ {c[1]} : allowance'[t] = allowance[t]

SumsStill ==
    /\ UNCHANGED <<sumVars, debit>> /\ AllowanceTypes'
    /\ \A t \in Turns : allowance'[t].remaining = allowance[t].remaining /\ allowance'[t].inFlight = allowance[t].inFlight
    /\ \A x \in Calls : Keeps(x)

Admission(c) ==
    /\ stage[c] \in {"check", "held"} /\ stage'[c] \in Holding /\ UNCHANGED via
    /\ \A x \in Calls \ {c} : stage'[x] = stage[x]
    /\ reserved' = [reserved EXCEPT ![c] = Estimate(c)] /\ reservedCost' = reservedCost + Estimate(c)
    /\ UNCHANGED <<policy, spent, conservative, total, paid, unknown>>
    /\ \/ /\ ~HasToken(c[1]) /\ UNCHANGED allowanceVars
          /\ policy \in {"fail", "pause"} /\ Cap > 0 =>
                Estimate(c) = 0 \/ spent + conservative + reservedCost + Estimate(c) <= Cap
       \/ /\ HasToken(c[1]) /\ ~allowance[c[1]].inFlight /\ AllowanceTypes' /\ debit' = debit \cup {c}
          /\ allowance'[c[1]].inFlight /\ allowance'[c[1]].remaining = allowance[c[1]].remaining - Estimate(c)
          /\ \A t \in Turns \ {c[1]} : allowance'[t] = allowance[t]

(* Call c gives up its reservation. *)
Freed(c) ==
    /\ reserved' = [reserved EXCEPT ![c] = 0] /\ reservedCost' = reservedCost - reserved[c]
    /\ via'[c] = via[c] /\ \A x \in Calls \ {c} : Keeps(x)
    /\ UNCHANGED policy

GivenBack(c) ==
    /\ stage[c] \in Ongoing /\ (stage'[c] = "over" \/ (stage'[c] = stage[c] /\ c \in closed'))
    /\ Freed(c) /\ Repays(c, reserved[c])
    /\ UNCHANGED <<spent, conservative, total, paid, unknown>>

Charge(c, cost) ==
    /\ stage[c] = "asked" /\ stage'[c] = "over"
    /\ Freed(c) /\ Repays(c, Larger(reserved[c] - cost, 0))
    /\ spent' = spent + cost /\ total' = total + cost /\ paid' = [paid EXCEPT ![c] = cost]
    /\ UNCHANGED <<conservative, unknown>>

Retention(c) ==
    /\ stage[c] = "asked" /\ stage'[c] \in {"late", "over"}
    /\ Freed(c) /\ Repays(c, 0)
    /\ conservative' = conservative + reserved[c] /\ unknown' = unknown \cup {c}
    /\ UNCHANGED <<spent, total, paid>>

Receipt(c) ==
    /\ stage[c] = "late" /\ stage' = [stage EXCEPT ![c] = "over"]
    /\ \/ UNCHANGED <<spent, total, paid>>
       \/ \E cost \in Nat : spent' = spent + cost /\ total' = total + cost /\ paid' = [paid EXCEPT ![c] = cost]
    /\ UNCHANGED <<policy, conservative, reservedCost, reserved, unknown, via, allowanceVars>>

MoneyMoves ==
    /\ closed \subseteq closed'
    /\ \/ SumsStill
       \/ \E c \in Calls : \/ Admission(c) \/ GivenBack(c) \/ Retention(c) \/ Receipt(c)
                           \/ \E cost \in Nat : Charge(c, cost)

(* finish of an AllowanceDebit. *)
LEMMA Finishes ==
    ASSUME AllowanceTypes, NEW c \in Calls, NEW live \in BOOLEAN, NEW back \in Nat, NEW extra \in Nat, FinishDebit(c, live, back, extra),
           back = 0 \/ extra = 0
    PROVE  Repays(c, back)
<1>1. c[1] \in Turns /\ debit' = debit \ {c} /\ debit' \subseteq Calls
  BY CallParts DEF FinishDebit, AllowanceTypes
<1>2. CASE c \notin debit
  BY <1>1, <1>2 DEF FinishDebit, Repays, AllowanceTypes
<1>3. CASE c \in debit
  <2> DEFINE a == allowance[c[1]]
             left == IF extra >= a.remaining /\ extra > 0 THEN 0 ELSE a.remaining + back - extra
             now == IF Owns(c[1], live)
                    THEN [a EXCEPT !.remaining = left,
                                   !.exhausted = @ \/ (Approved[c[1]] > 0 /\ left = 0)]
                    ELSE [a EXCEPT !.closed = TRUE]
  <2>1. a \in [remaining: Nat, inFlight: BOOLEAN, closed: BOOLEAN, exhausted: BOOLEAN]
    BY <1>1 DEF AllowanceTypes
  <2>2. a.remaining \in Nat /\ left \in Nat /\ left <= a.remaining + back
    BY <2>1
  <2>3. allowance' = [allowance EXCEPT ![c[1]] = [now EXCEPT !.inFlight = FALSE]]
    BY <1>3 DEF FinishDebit, Finished
  <2> HIDE DEF left
  <2>4. /\ now \in [remaining: Nat, inFlight: BOOLEAN, closed: BOOLEAN, exhausted: BOOLEAN]
        /\ now.remaining <= a.remaining + back
    <3>1. CASE Owns(c[1], live)
      <4>1. now = [remaining |-> left, inFlight |-> a.inFlight, closed |-> a.closed,
                   exhausted |-> (a.exhausted \/ (Approved[c[1]] > 0 /\ left = 0))]
        BY <2>1, <3>1
      <4>2. (a.exhausted \/ (Approved[c[1]] > 0 /\ left = 0)) \in BOOLEAN /\ a.inFlight \in BOOLEAN /\ a.closed \in BOOLEAN
        BY <2>1
      <4> HIDE DEF a, now
      <4> QED BY <2>2, <4>1, <4>2
    <3>2. CASE ~Owns(c[1], live)
      <4>1. now = [remaining |-> a.remaining, inFlight |-> a.inFlight, closed |-> TRUE, exhausted |-> a.exhausted]
        BY <2>1, <3>2
      <4>2. a.exhausted \in BOOLEAN /\ a.inFlight \in BOOLEAN
        BY <2>1
      <4> HIDE DEF a, now
      <4> QED BY <2>2, <4>1, <4>2
    <3> QED BY <3>1, <3>2
  <2> HIDE DEF now
  <2>5. /\ [now EXCEPT !.inFlight = FALSE] \in [remaining: Nat, inFlight: BOOLEAN, closed: BOOLEAN, exhausted: BOOLEAN]
        /\ ~[now EXCEPT !.inFlight = FALSE].inFlight /\ [now EXCEPT !.inFlight = FALSE].remaining = now.remaining
    BY <2>4
  <2>6. /\ allowance' \in [Turns -> [remaining: Nat, inFlight: BOOLEAN, closed: BOOLEAN, exhausted: BOOLEAN]]
        /\ ~allowance'[c[1]].inFlight /\ allowance'[c[1]].remaining = now.remaining
        /\ \A t \in Turns \ {c[1]} : allowance'[t] = allowance[t]
    <3> DEFINE new == [now EXCEPT !.inFlight = FALSE]
    <3>1. allowance' = [allowance EXCEPT ![c[1]] = new]
      BY <2>3
    <3>2. new \in [remaining: Nat, inFlight: BOOLEAN, closed: BOOLEAN, exhausted: BOOLEAN] /\ ~new.inFlight /\ new.remaining = now.remaining
      BY <2>5
    <3> HIDE DEF new, now
    <3> QED BY <1>1, <3>1, <3>2 DEF AllowanceTypes
  <2> QED BY <1>1, <1>3, <2>4, <2>6 DEF Repays, AllowanceTypes
<1> QED BY <1>2, <1>3

(* settle and settleAtReservedEstimate, of a call that was asked. *)
LEMMA Charges ==
    ASSUME BudgetTypes, AllowanceTypes, CallTypes, Reserves, Accounts, NEW c \in Calls, NEW bill \in Nat, Charged(c, bill)
    PROVE  \E cost \in Nat :
              /\ TakeReservation(c) /\ Repays(c, Larger(reserved[c] - cost, 0))
              /\ spent' = spent + cost /\ total' = total + cost /\ paid' = [paid EXCEPT ![c] = cost]
              /\ UNCHANGED <<conservative, unknown>>
<1>1. /\ reserved[c] \in Nat /\ spent \in Nat /\ total = spent /\ conservative \in Nat /\ Live(c[1]) \in BOOLEAN
      /\ reserved[c] \in {0, Estimate(c)}
  BY DEF BudgetTypes, Accounts, Live, Reserves
<1>2. CASE Priced(c)
  <2>1. /\ Settle(c, Live(c[1]), bill, total + bill) /\ total' = total + bill /\ paid' = [paid EXCEPT ![c] = bill]
        /\ UNCHANGED unknown
    BY <1>2 DEF Charged
  <2>2. spent' = spent + bill
    BY <1>1, <2>1 DEF Settle, Larger
  <2>3. TakeReservation(c) /\ UNCHANGED conservative
        /\ FinishDebit(c, Live(c[1]), Larger(reserved[c] - bill, 0), Larger(bill - reserved[c], 0))
    BY <2>1 DEF Settle
  <2>4. Larger(reserved[c] - bill, 0) \in Nat /\ Larger(bill - reserved[c], 0) \in Nat
        /\ (Larger(reserved[c] - bill, 0) = 0 \/ Larger(bill - reserved[c], 0) = 0)
    BY <1>1 DEF Larger
  <2>5. Repays(c, Larger(reserved[c] - bill, 0))
    BY <1>1, <2>3, <2>4, Finishes
  <2> QED BY <2>1, <2>2, <2>3, <2>5
<1>3. CASE ~Priced(c)
  <2>1. /\ SettleAtReservedEstimate(c, Live(c[1])) /\ total' = total + 0 /\ paid' = [paid EXCEPT ![c] = 0]
        /\ UNCHANGED unknown
    BY <1>3 DEF Charged
  <2>2. reserved[c] = 0
    BY <1>1, <1>3 DEF Estimate, Larger, Priced, NoPrice
  <2>3. TakeReservation(c) /\ conservative' = conservative + reserved[c] /\ UNCHANGED spent
        /\ FinishDebit(c, Live(c[1]), 0, 0)
    BY <2>1 DEF SettleAtReservedEstimate
  <2>4. Repays(c, 0)
    BY <1>1, <2>3, Finishes
  <2>5. Larger(reserved[c] - 0, 0) = 0 /\ conservative' = conservative /\ spent' = spent + 0
    BY <1>1, <2>2, <2>3 DEF Larger
  <2> QED BY <2>1, <2>3, <2>4, <2>5
<1> QED BY <1>2, <1>3

(* Usage unknown: the reservation becomes a commitment. *)
LEMMA Retains ==
    ASSUME BudgetTypes, AllowanceTypes, NEW c \in Calls, NEW kind, NEW w, Retained(c, kind, w)
    PROVE  /\ TakeReservation(c) /\ Repays(c, 0)
           /\ conservative' = conservative + reserved[c] /\ unknown' = unknown \cup {c}
           /\ UNCHANGED <<spent, total, paid>>
<1>1. Live(c[1]) \in BOOLEAN
  BY DEF Live
<1>2. /\ TakeReservation(c) /\ FinishDebit(c, Live(c[1]), 0, 0) /\ conservative' = conservative + reserved[c]
      /\ unknown' = unknown \cup {c} /\ UNCHANGED <<spent, total, paid>>
  BY DEF Retained, SettleAtReservedEstimate
<1> QED BY <1>1, <1>2, Finishes

(* release. *)
LEMMA Releases ==
    ASSUME BudgetTypes, AllowanceTypes, NEW c \in Calls, Returned(c, Live(c[1]))
    PROVE  TakeReservation(c) /\ Repays(c, reserved[c]) /\ UNCHANGED <<spent, conservative>>
<1>1. Live(c[1]) \in BOOLEAN /\ reserved[c] \in Nat
  BY DEF Live, BudgetTypes
<1>2. TakeReservation(c) /\ FinishDebit(c, Live(c[1]), reserved[c], 0) /\ UNCHANGED <<spent, conservative>>
  BY DEF Returned
<1> QED BY <1>1, <1>2, Finishes

(* acquire: the owner is taken, and so much of its allowance. *)
LEMMA AcquiredRecord ==
    ASSUME NEW a \in [remaining: Nat, inFlight: BOOLEAN, closed: BOOLEAN, exhausted: BOOLEAN], NEW q \in Nat, q <= a.remaining,
           NEW new, new = [a EXCEPT !.inFlight = TRUE, !.remaining = @ - q]
    PROVE  /\ new \in [remaining: Nat, inFlight: BOOLEAN, closed: BOOLEAN, exhausted: BOOLEAN]
           /\ new.inFlight /\ new.remaining = a.remaining - q
<1> DEFINE b == [a EXCEPT !.inFlight = TRUE]
<1>1. /\ b \in [remaining: Nat, inFlight: BOOLEAN, closed: BOOLEAN, exhausted: BOOLEAN]
      /\ b.inFlight /\ b.remaining = a.remaining
  OBVIOUS
<1>2. new = [b EXCEPT !.remaining = a.remaining - q] /\ a.remaining - q \in Nat
  OBVIOUS
<1> HIDE DEF b
<1> QED BY <1>1, <1>2

(* The #admit of a call. *)
LEMMA Admissions ==
    ASSUME BudgetTypes, AllowanceTypes, CallTypes, NEW c \in Calls, Admit(c, Quote[via[c]]), Admits(c[1], Quote[via[c]]),
           ~AllowanceRefused(c[1], Live(c[1]), FALSE)
    PROVE  /\ reserved' = [reserved EXCEPT ![c] = Estimate(c)] /\ reservedCost' = reservedCost + Estimate(c)
           /\ UNCHANGED <<policy, spent, conservative>>
           /\ \/ /\ ~HasToken(c[1]) /\ UNCHANGED allowanceVars
                 /\ policy \in {"fail", "pause"} /\ Cap > 0 =>
                       Estimate(c) = 0 \/ spent + conservative + reservedCost + Estimate(c) <= Cap
              \/ /\ HasToken(c[1]) /\ ~allowance[c[1]].inFlight /\ AllowanceTypes' /\ debit' = debit \cup {c}
                 /\ allowance'[c[1]].inFlight /\ allowance'[c[1]].remaining = allowance[c[1]].remaining - Estimate(c)
                 /\ \A t \in Turns \ {c[1]} : allowance'[t] = allowance[t]
<1> DEFINE quote == Quote[via[c]]
<1>1. quote \in Nat \cup {NoPrice, Unrepresentable} /\ c[1] \in Turns /\ Estimate(c) = Larger(quote, 0)
  BY CallParts, PlanParts DEF CallTypes, Estimate
<1>2. /\ reserved' = [reserved EXCEPT ![c] = Larger(quote, 0)] /\ reservedCost' = reservedCost + Larger(quote, 0)
      /\ UNCHANGED <<policy, spent, conservative>>
      /\ HasToken(c[1]) => debit' = debit \cup {c} /\ allowance' = Acquired(c[1], quote)
      /\ ~HasToken(c[1]) => UNCHANGED allowanceVars
  BY DEF Admit
<1>0. Permits(c[1], quote) /\ (HasToken(c[1]) => ~Overdrawn(c[1], quote))
  BY DEF Admits
<1> HIDE DEF quote
<1>3. CASE ~HasToken(c[1])
  <2>1. ASSUME policy \in {"fail", "pause"}, Cap > 0
        PROVE  Larger(quote, 0) = 0 \/ spent + conservative + reservedCost + Larger(quote, 0) <= Cap
    <3>1. Verdict(quote) \in {"allow", "warn", "unpriced"}
      BY <1>0, <1>3 DEF Permits
    <3>2. CASE quote = NoPrice
      BY <3>2 DEF Larger, NoPrice
    <3>3. CASE quote # NoPrice
      <4>1. quote >= 0 /\ (Cap = 0 \/ Projected(quote) <= Cap)
        BY <1>1, <2>1, <3>1, <3>3 DEF Verdict
      <4> QED BY <1>1, <2>1, <4>1, GovernorAssumption DEF Projected, Larger
    <3> QED BY <3>2, <3>3
  <2> QED BY <1>1, <1>2, <1>3, <2>1
<1>4. CASE HasToken(c[1])
  <2> DEFINE a == allowance[c[1]]
             new == [a EXCEPT !.inFlight = TRUE, !.remaining = @ - Larger(quote, 0)]
  <2>1. a \in [remaining: Nat, inFlight: BOOLEAN, closed: BOOLEAN, exhausted: BOOLEAN] /\ ~a.inFlight
    BY <1>1, <1>4 DEF AllowanceTypes, AllowanceRefused
  <2>2. Larger(quote, 0) \in Nat /\ Larger(quote, 0) <= a.remaining /\ a.remaining \in Nat
    BY <1>0, <1>1, <1>4, <2>1 DEF Overdrawn, Larger, NoPrice, Unrepresentable
  <2>3. allowance' = [allowance EXCEPT ![c[1]] = new]
    BY <1>2, <1>4 DEF Acquired
  <2>4. /\ new \in [remaining: Nat, inFlight: BOOLEAN, closed: BOOLEAN, exhausted: BOOLEAN]
        /\ new.inFlight /\ new.remaining = a.remaining - Larger(quote, 0)
    <3>1. new = [a EXCEPT !.inFlight = TRUE, !.remaining = @ - Larger(quote, 0)]
      OBVIOUS
    <3> HIDE DEF a, new
    <3> QED BY <2>1, <2>2, <3>1, AcquiredRecord
  <2> HIDE DEF new
  <2>5. /\ allowance' \in [Turns -> [remaining: Nat, inFlight: BOOLEAN, closed: BOOLEAN, exhausted: BOOLEAN]]
        /\ allowance'[c[1]] = new /\ \A t \in Turns \ {c[1]} : allowance'[t] = allowance[t]
    BY <1>1, <2>3, <2>4 DEF AllowanceTypes
  <2>6. debit' = debit \cup {c} /\ debit' \subseteq Calls
    BY <1>2, <1>4 DEF AllowanceTypes
  <2> QED BY <1>1, <1>2, <1>4, <2>1, <2>4, <2>5, <2>6 DEF AllowanceTypes
<1> QED BY <1>3, <1>4

(* Ends, for the call; a new call of an attempt and of a native retry. *)
LEMMA EndStage ==
    ASSUME NEW c, NEW kind, NEW renews, NEW s, Ends(c, kind, renews, s)
    PROVE  stage' = [stage EXCEPT ![c] = s] /\ UNCHANGED <<via, native, roundOf>>
BY DEF Ends

(* A started attempt is a new call. *)
LEMMA Starts ==
    ASSUME ChainTypes, TurnTypes, CallTypes, StageTypes, Numbered, NEW t \in Turns, StartAttempt(t)
    PROVE  \E d \in Calls : Started(t, d)
<1>1. StartMove(t)
  BY PlanParts DEF StartAttempt, NewCall, Tried, StartMove, Made, Provider, PlanExhausted, ChainTypes
<1> QED BY <1>1, StartFacts

(* So is a native retry. *)
LEMMA Retries ==
    ASSUME TurnTypes, CallTypes, StageTypes, Numbered, NEW c \in Calls, NativeRetry(c)
    PROVE  \E d \in Calls : Retried(c, d)
<1>1. RetryMove(c)
  BY CallParts DEF NativeRetry, chainVars, RetryMove, Made, turnMoveVars, At
<1> QED BY <1>1, RetryFacts

(* A step that touches no sum. *)
LEMMA StillSums ==
    ASSUME AllowanceTypes, UNCHANGED <<sumVars, allowanceVars, closed>>, \A x \in Calls : Keeps(x)
    PROVE  MoneyMoves
BY DEF MoneyMoves, SumsStill, AllowanceTypes, allowanceVars, sumVars

(* An answer, priced or retained. *)
LEMMA Answers ==
    ASSUME BudgetTypes, AllowanceTypes, StageTypes, CallTypes, Reserves, Accounts, NEW c \in Calls,
           stage[c] = "asked", NEW s \in {"late", "over"}, stage' = [stage EXCEPT ![c] = s], UNCHANGED <<via, closed>>
    PROVE  /\ \A bill \in Bills : s = "over" /\ Charged(c, bill) => MoneyMoves
           /\ \A kind, w : Retained(c, kind, w) => MoneyMoves
<1>1. stage'[c] = s /\ \A x \in Calls \ {c} : stage'[x] = stage[x]
  BY DEF StageTypes
<1>2. ASSUME NEW bill \in Bills, s = "over", Charged(c, bill) PROVE MoneyMoves
  <2>1. bill \in Nat
    BY PlanParts
  <2>2. PICK cost \in Nat :
           /\ TakeReservation(c) /\ Repays(c, Larger(reserved[c] - cost, 0))
           /\ spent' = spent + cost /\ total' = total + cost /\ paid' = [paid EXCEPT ![c] = cost]
           /\ UNCHANGED <<conservative, unknown>>
    BY <1>2, <2>1, Charges
  <2>3. Charge(c, cost)
    BY <1>1, <1>2, <2>2 DEF Charge, Freed, Keeps, TakeReservation
  <2> QED BY <2>3 DEF MoneyMoves
<1>3. ASSUME NEW kind, NEW w, Retained(c, kind, w) PROVE MoneyMoves
  <2>1. /\ TakeReservation(c) /\ Repays(c, 0)
        /\ conservative' = conservative + reserved[c] /\ unknown' = unknown \cup {c}
        /\ UNCHANGED <<spent, total, paid>>
    BY <1>3, Retains
  <2>2. Retention(c)
    BY <1>1, <2>1 DEF Retention, Freed, Keeps, TakeReservation
  <2> QED BY <2>2 DEF MoneyMoves
<1> QED BY <1>2, <1>3

(* Every step is one of these. *)
LEMMA MoneyCover ==
    ASSUME BudgetTypes, AllowanceTypes, StageTypes, CallTypes, ChainTypes, TurnTypes, LedgerTypes, Marking, Numbered, Reserves, Accounts, [Next]_vars
    PROVE  MoneyMoves
<1>1. ASSUME UNCHANGED vars \/ OutcomeSettles \/ CommitSettles \/ Cancel \/ LegacyJobSettles PROVE MoneyMoves
  <2>1. UNCHANGED <<sumVars, allowanceVars, closed, stage, via>>
    BY <1>1 DEF vars, governorVars, callVars, tallyVars, budgetVars, allowanceVars, OutcomeSettles,
        CommitSettles, Cancel, Outside, LegacyJobSettles, sumVars
  <2>2. \A x \in Calls : Keeps(x)
    BY <2>1 DEF Keeps
  <2> QED BY <2>1, <2>2, StillSums
<1>2. ASSUME NEW c \in Calls, PreAttemptJoined(c) PROVE MoneyMoves
  <2>1. UNCHANGED <<sumVars, allowanceVars, closed>>
    BY <1>2 DEF PreAttemptJoined, budgetVars, allowanceVars, tallyVars, sumVars
  <2>2. UNCHANGED via /\ stage[c] \in {"join"} /\ \E s \in {"check", "over"} : stage' = [stage EXCEPT ![c] = s]
    BY <1>2, EndStage DEF PreAttemptJoined, At
  <2>3. \A x \in Calls : Keeps(x)
    BY <2>2 DEF Keeps, StageTypes, Before, Holding
  <2> QED BY <2>1, <2>3, StillSums
<1>3. ASSUME NEW c \in Calls, CheckFails(c) PROVE MoneyMoves
  <2>1. UNCHANGED <<sumVars, allowanceVars, closed>>
    BY <1>3 DEF CheckFails, budgetVars, allowanceVars, tallyVars, sumVars
  <2>2. UNCHANGED via /\ stage[c] \in {"check"} /\ \E s \in {"over"} : stage' = [stage EXCEPT ![c] = s]
    BY <1>3, EndStage DEF CheckFails, At
  <2>3. \A x \in Calls : Keeps(x)
    BY <2>2 DEF Keeps, StageTypes, Before, Holding
  <2> QED BY <2>1, <2>3, StillSums
<1>4. ASSUME NEW c \in Calls, CheckHeld(c) PROVE MoneyMoves
  <2>1. UNCHANGED <<sumVars, allowanceVars, closed>>
    BY <1>4 DEF CheckHeld, governorVars, tallyVars, budgetVars, allowanceVars, sumVars
  <2>2. UNCHANGED via /\ stage[c] \in {"check"} /\ \E s \in {"held"} : stage' = [stage EXCEPT ![c] = s]
    BY <1>4, EndStage DEF CheckHeld, At
  <2>3. \A x \in Calls : Keeps(x)
    BY <2>2 DEF Keeps, StageTypes, Before, Holding
  <2> QED BY <2>1, <2>3, StillSums
<1>5. ASSUME NEW c \in Calls, Evaluate(c) PROVE MoneyMoves
  <2> DEFINE quote == Quote[via[c]]
             refused == AllowanceRefused(c[1], Live(c[1]), FALSE)
  <2>1. UNCHANGED <<total, paid, unknown, closed, via>> /\ stage[c] \in {"check", "held"} /\ c[1] \in Turns
    BY <1>5, EndStage, CallParts DEF Evaluate, At, tallyVars, Begins
  <2>2. CASE refused \/ ~Admits(c[1], quote)
    <3>1. /\ stage' = [stage EXCEPT ![c] = "over"]
          /\ UNCHANGED <<budgetVars, allowanceVars>> \/ Refuse(c[1], quote)
      BY <1>5, <2>2, EndStage DEF Evaluate
    <3>2. UNCHANGED <<budgetVars, debit>> /\ (allowance' = allowance \/ allowance' = Exhausted(c[1]))
      BY <3>1 DEF Refuse, allowanceVars
    <3>3. /\ AllowanceTypes'
          /\ \A t \in Turns : allowance'[t].remaining = allowance[t].remaining /\ allowance'[t].inFlight = allowance[t].inFlight
      <4> DEFINE a == allowance[c[1]]
                 new == [a EXCEPT !.exhausted = TRUE]
      <4>1. a \in [remaining: Nat, inFlight: BOOLEAN, closed: BOOLEAN, exhausted: BOOLEAN]
        BY <2>1 DEF AllowanceTypes
      <4>2. /\ new \in [remaining: Nat, inFlight: BOOLEAN, closed: BOOLEAN, exhausted: BOOLEAN]
            /\ new.remaining = a.remaining /\ new.inFlight = a.inFlight
        BY <4>1
      <4>3. allowance' = allowance \/ allowance' = [allowance EXCEPT ![c[1]] = new]
        BY <3>2 DEF Exhausted
      <4>4. debit' \subseteq Calls
        BY <3>2 DEF AllowanceTypes
      <4> HIDE DEF new
      <4> QED BY <2>1, <4>2, <4>3, <4>4 DEF AllowanceTypes
    <3>4. \A x \in Calls : Keeps(x)
      BY <2>1, <3>1 DEF Keeps, StageTypes, Before, Holding
    <3> QED BY <2>1, <3>2, <3>3, <3>4 DEF MoneyMoves, SumsStill, sumVars, budgetVars
  <2>3. CASE ~refused /\ Admits(c[1], quote) /\ UNCHANGED <<budgetVars, allowanceVars>> /\ stage' = [stage EXCEPT ![c] = "over"]
    <3>1. \A x \in Calls : Keeps(x)
      BY <2>1, <2>3 DEF Keeps, StageTypes, Before, Holding
    <3>2. UNCHANGED <<sumVars, allowanceVars, closed>>
      BY <2>1, <2>3 DEF sumVars, budgetVars
    <3> QED BY <3>1, <3>2, StillSums
  <2>4. CASE ~refused /\ Admits(c[1], quote) /\ Admit(c, quote) /\ \E s \in {"begin", "warned", "told"} : stage' = [stage EXCEPT ![c] = s]
    <3>1. Admission(c)
      BY <2>1, <2>4, Admissions DEF Admission, StageTypes, Holding
    <3> QED BY <2>1, <3>1 DEF MoneyMoves
  <2>5. CASE ~refused /\ Admits(c[1], quote) /\ ~ Admit(c, quote)
    <3>1. UNCHANGED <<budgetVars, allowanceVars>> /\ stage' = [stage EXCEPT ![c] = "over"]
      BY <1>5, <2>5, EndStage DEF Evaluate
    <3> QED BY <2>3, <2>5, <3>1
  <2>6. CASE ~refused /\ Admits(c[1], quote) /\ Admit(c, quote)
    <3>1. \/ UNCHANGED <<budgetVars, allowanceVars>> /\ stage' = [stage EXCEPT ![c] = "over"]
          \/ \E s \in {"begin", "warned", "told"} : stage' = [stage EXCEPT ![c] = s]
      BY <1>5, <2>6, EndStage DEF Evaluate, Begins
    <3> QED BY <2>3, <2>4, <2>6, <3>1
  <2> QED BY <2>2, <2>5, <2>6
<1>6. ASSUME NEW c \in Calls, Admitted(c) PROVE MoneyMoves
  <2>1. UNCHANGED <<total, paid, unknown, closed>> /\ stage[c] = "told"
    BY <1>6 DEF Admitted, At, tallyVars
  <2>2. CASE Unwanted(c) \/ AllowanceRefused(c[1], Live(c[1]), TRUE)
    <3>1. stage' = [stage EXCEPT ![c] = "over"] /\ UNCHANGED via /\ UNCHANGED <<total, paid, unknown, closed>> /\ stage[c] = "told"
      BY <1>6, <2>1, <2>2, EndStage DEF Admitted, Uninvoked
    <3>2. Returned(c, Live(c[1]))
      BY <1>6, <2>2 DEF Admitted, Uninvoked, Release
    <3>3. GivenBack(c)
      BY <3>1, <3>2, Releases DEF GivenBack, Freed, Keeps, StageTypes, CallTypes, Ongoing, Acquiring, TakeReservation
    <3> QED BY <3>1, <3>3 DEF MoneyMoves
  <2>3. CASE ~ (Unwanted(c) \/ AllowanceRefused(c[1], Live(c[1]), TRUE))
    <3>1. UNCHANGED <<sumVars, allowanceVars, closed>> /\ UNCHANGED via /\ stage' = [stage EXCEPT ![c] = "begin"]
      BY <1>6, <2>1, <2>3 DEF Admitted, Begins, sumVars, budgetVars, allowanceVars
    <3>2. \A x \in Calls : Keeps(x)
      BY <2>1, <3>1 DEF Keeps, StageTypes, Before, Holding
    <3> QED BY <3>1, <3>2, StillSums
  <2> QED BY <2>2, <2>3
<1>7. ASSUME NEW c \in Calls, BeginJoined(c) PROVE MoneyMoves
  <2>1. UNCHANGED <<total, paid, unknown, closed>> /\ stage[c] = "begin"
    BY <1>7 DEF BeginJoined, At, tallyVars
  <2>2. CASE JoinFailed
    <3>1. stage' = [stage EXCEPT ![c] = "over"] /\ UNCHANGED via /\ UNCHANGED <<total, paid, unknown, closed>> /\ stage[c] = "begin"
      BY <1>7, <2>1, <2>2, EndStage DEF BeginJoined, Uninvoked
    <3>2. Returned(c, Live(c[1]))
      BY <1>7, <2>2 DEF BeginJoined, Uninvoked, Release
    <3>3. GivenBack(c)
      BY <3>1, <3>2, Releases DEF GivenBack, Freed, Keeps, StageTypes, CallTypes, Ongoing, Acquiring, TakeReservation
    <3> QED BY <3>1, <3>3 DEF MoneyMoves
  <2>3. CASE ~ (JoinFailed)
    <3>1. UNCHANGED <<sumVars, allowanceVars, closed>> /\ UNCHANGED via /\ stage' = [stage EXCEPT ![c] = "marker"]
      BY <1>7, <2>1, <2>3 DEF BeginJoined, Begins, sumVars, budgetVars, allowanceVars
    <3>2. \A x \in Calls : Keeps(x)
      BY <2>1, <3>1 DEF Keeps, StageTypes, Before, Holding
    <3> QED BY <3>1, <3>2, StillSums
  <2> QED BY <2>2, <2>3
<1>8. ASSUME NEW c \in Calls, Unmarked(c) PROVE MoneyMoves
  <2>1. UNCHANGED <<total, paid, unknown, closed>> /\ stage[c] = "unmarked"
    BY <1>8 DEF Unmarked, At, tallyVars, Uninvoked
  <2>2. stage' = [stage EXCEPT ![c] = "over"] /\ UNCHANGED via
    BY <1>8, EndStage DEF Unmarked, Uninvoked
  <2>3. Returned(c, Live(c[1]))
    BY <1>8 DEF Unmarked, Uninvoked, Release
  <2>4. GivenBack(c)
    BY <2>1, <2>2, <2>3, Releases DEF GivenBack, Freed, Keeps, StageTypes, CallTypes, Ongoing, Acquiring,
        TakeReservation
  <2> QED BY <2>1, <2>4 DEF MoneyMoves
<1>9. ASSUME NEW c \in Calls, NotAsked(c) PROVE MoneyMoves
  <2>1. UNCHANGED <<total, paid, unknown, closed>> /\ stage[c] = "acked"
    BY <1>9 DEF NotAsked, At, tallyVars, Uninvoked
  <2>2. stage' = [stage EXCEPT ![c] = "over"] /\ UNCHANGED via
    BY <1>9, EndStage DEF NotAsked, Uninvoked
  <2>3. Returned(c, Live(c[1]))
    BY <1>9 DEF NotAsked, Uninvoked, Release
  <2>4. GivenBack(c)
    BY <2>1, <2>2, <2>3, Releases DEF GivenBack, Freed, Keeps, StageTypes, CallTypes, Ongoing, Acquiring,
        TakeReservation
  <2> QED BY <2>1, <2>4 DEF MoneyMoves
<1>10. ASSUME NEW c \in Calls, Ask(c) PROVE MoneyMoves
  <2>1. UNCHANGED <<sumVars, allowanceVars, closed>>
    BY <1>10 DEF Ask, governorVars, tallyVars, budgetVars, allowanceVars, sumVars
  <2>2. UNCHANGED via /\ stage[c] \in {"acked"} /\ \E s \in {"asked"} : stage' = [stage EXCEPT ![c] = s]
    BY <1>10, EndStage DEF Ask, At
  <2>3. \A x \in Calls : Keeps(x)
    BY <2>2 DEF Keeps, StageTypes, Before, Holding
  <2> QED BY <2>1, <2>3, StillSums
<1>11. ASSUME NEW c \in Calls, Succeed(c) PROVE MoneyMoves
  <2>1. stage[c] = "asked" /\ stage' = [stage EXCEPT ![c] = "over"] /\ UNCHANGED <<via, closed>>
    BY <1>11 DEF Succeed, Answered, At, AnswerFrame
  <2>2. CASE \E bill \in Bills : Charged(c, bill)
    <3>1. PICK bill \in Bills : Charged(c, bill)
      BY <2>2
    <3> QED BY <2>1, <3>1, Answers
  <2>3. CASE Retained(c, "retired", "incomplete")
    BY <2>1, <2>3, Answers
  <2> QED BY <1>11, <2>2, <2>3 DEF Succeed
<1>12. ASSUME NEW c \in Calls, Fail(c) PROVE MoneyMoves
  <2>1. stage[c] = "asked" /\ stage' = [stage EXCEPT ![c] = "over"] /\ UNCHANGED <<via, closed>>
    BY <1>12, EndStage DEF Fail, At, AnswerFrame
  <2>2. \/ \E bill \in Bills : Charged(c, bill)
        \/ Retained(c, "retired", "incomplete")
        \/ Release(c, Live(c[1])) /\ UNCHANGED <<paid, total, unknown>>
    BY <1>12 DEF Fail
  <2>3. CASE \E bill \in Bills : Charged(c, bill)
    <3>1. PICK bill \in Bills : Charged(c, bill)
      BY <2>3
    <3> QED BY <2>1, <3>1, Answers
  <2>4. CASE Retained(c, "retired", "incomplete")
    BY <2>1, <2>4, Answers
  <2>5. CASE Release(c, Live(c[1])) /\ UNCHANGED <<paid, total, unknown>>
    <3>1. Returned(c, Live(c[1]))
      BY <2>5 DEF Release
    <3>2. GivenBack(c)
      BY <2>1, <2>5, <3>1, Releases DEF GivenBack, Freed, Keeps, StageTypes, CallTypes, Ongoing, Acquiring,
          TakeReservation
    <3> QED BY <2>1, <3>2 DEF MoneyMoves
  <2> QED BY <2>2, <2>3, <2>4, <2>5
<1>13. ASSUME NEW c \in Calls, Deadline(c) PROVE MoneyMoves
  <2>1. stage[c] = "asked" /\ stage' = [stage EXCEPT ![c] = "late"] /\ UNCHANGED <<via, closed>>
    BY <1>13, EndStage DEF Deadline, At, AnswerFrame
  <2>2. Retained(c, "incomplete", "waiting")
    BY <1>13 DEF Deadline
  <2> QED BY <2>1, <2>2, Answers
<1>14. ASSUME NEW c \in Calls, RetryClosed(c) PROVE MoneyMoves
  <2>1. /\ UNCHANGED <<total, paid, unknown, stage, via>> /\ stage[c] \in Ongoing /\ closed' = closed \cup {c}
        /\ UNCHANGED <<budgetVars, allowanceVars>> \/ Returned(c, Live(c[1]))
    BY <1>14 DEF RetryClosed, tallyVars, Ongoing, Release
  <2>2. \A x \in Calls : Keeps(x)
    BY <2>1 DEF Keeps
  <2>3. CASE UNCHANGED <<budgetVars, allowanceVars>>
    <3>1. SumsStill
      BY <2>1, <2>2, <2>3 DEF SumsStill, sumVars, budgetVars, allowanceVars, AllowanceTypes
    <3> QED BY <2>1, <3>1 DEF MoneyMoves
  <2>4. CASE Returned(c, Live(c[1]))
    <3>1. GivenBack(c)
      BY <2>1, <2>2, <2>4, Releases DEF GivenBack, Freed, TakeReservation
    <3> QED BY <2>1, <3>1 DEF MoneyMoves
  <2> QED BY <2>1, <2>3, <2>4
<1>15. ASSUME NEW c \in Calls, NativeRetry(c) PROVE MoneyMoves
  <2>1. PICK d \in Calls : Retried(c, d)
    BY <1>15, Retries
  <2>2. /\ stage[c] = "asked" /\ stage'[c] = "over" /\ via'[c] = via[c] /\ UNCHANGED closed
        /\ \A x \in Calls \ {c} : Keeps(x)
    BY <2>1 DEF Retried, Keeps, Before
  <2>3. \/ Retained(c, "retired", "incomplete")
        \/ Release(c, Live(c[1])) /\ UNCHANGED <<paid, total, unknown>>
    BY <1>15 DEF NativeRetry
  <2>4. CASE Retained(c, "retired", "incomplete")
    <3>1. /\ TakeReservation(c) /\ Repays(c, 0)
          /\ conservative' = conservative + reserved[c] /\ unknown' = unknown \cup {c}
          /\ UNCHANGED <<spent, total, paid>>
      BY <2>4, Retains
    <3>2. Retention(c)
      BY <2>2, <3>1 DEF Retention, Freed, TakeReservation
    <3> QED BY <2>2, <3>2 DEF MoneyMoves
  <2>5. CASE Release(c, Live(c[1])) /\ UNCHANGED <<paid, total, unknown>>
    <3>1. Returned(c, Live(c[1]))
      BY <2>5 DEF Release
    <3>2. GivenBack(c)
      BY <2>2, <2>5, <3>1, Releases DEF GivenBack, Freed, TakeReservation, Ongoing
    <3> QED BY <2>2, <3>2 DEF MoneyMoves
  <2> QED BY <2>3, <2>4, <2>5
<1>16. ASSUME NEW c \in Calls, LateReceipt(c) PROVE MoneyMoves
  <2>1. stage[c] = "late" /\ stage' = [stage EXCEPT ![c] = "over"] /\ UNCHANGED <<closed, unknown, via>> /\ spent = total /\ total \in Nat
    BY <1>16 DEF LateReceipt, At, AnswerFrame, Accounts, BudgetTypes
  <2>2. \/ UNCHANGED <<budgetVars, allowanceVars, paid, total>>
        \/ \E cost \in Nat : UpdateCost(total + cost) /\ total' = total + cost /\ paid' = [paid EXCEPT ![c] = cost]
    <3>1. \A bill \in Bills : (IF Priced(c) THEN bill ELSE 0) \in Nat
      BY PlanParts
    <3> QED BY <1>16, <3>1 DEF LateReceipt
  <2>3. CASE UNCHANGED <<budgetVars, allowanceVars, paid, total>>
    <3>1. Receipt(c)
      BY <2>1, <2>3 DEF Receipt, budgetVars, allowanceVars
    <3> QED BY <2>1, <3>1 DEF MoneyMoves
  <2>4. CASE \E cost \in Nat : UpdateCost(total + cost) /\ total' = total + cost /\ paid' = [paid EXCEPT ![c] = cost]
    <3>1. PICK cost \in Nat : UpdateCost(total + cost) /\ total' = total + cost /\ paid' = [paid EXCEPT ![c] = cost]
      BY <2>4
    <3>2. spent' = spent + cost
      BY <2>1, <3>1 DEF UpdateCost, Larger
    <3>3. Receipt(c)
      BY <2>1, <3>1, <3>2 DEF Receipt, UpdateCost, allowanceVars
    <3> QED BY <2>1, <3>3 DEF MoneyMoves
  <2> QED BY <2>2, <2>3, <2>4
<1>17. ASSUME NEW t \in Turns,
              ChainFails(t) \/ EntryPassed(t) \/ ToolsJoined(t) \/ ToolsReturn(t) \/ TurnCaptured(t) \/
              Abandon(t)
       PROVE  MoneyMoves
  <2>1. UNCHANGED <<sumVars, allowanceVars, closed, stage, via>>
    BY <1>17 DEF ChainFails, StandsStill, governorVars, callVars, tallyVars, budgetVars, allowanceVars,
        EntryPassed, ToolsJoined, JoinFrame, ToolsReturn, TurnCaptured, Abandon, Outside, sumVars
  <2>2. \A x \in Calls : Keeps(x)
    BY <2>1 DEF Keeps
  <2> QED BY <2>1, <2>2, StillSums
<1>18. ASSUME NEW t \in Turns, StartAttempt(t) PROVE MoneyMoves
  <2>1. PICK d \in Calls : Started(t, d)
    BY <1>18, Starts
  <2>2. \A x \in Calls : Keeps(x)
    BY <2>1 DEF Started, Keeps, Before
  <2>3. UNCHANGED <<sumVars, allowanceVars, closed>>
    BY <1>18 DEF StartAttempt, governorVars, tallyVars, NewCall, budgetVars, allowanceVars, sumVars
  <2> QED BY <2>2, <2>3, StillSums
<1>19. ASSUME NEW t \in Turns, DispatchEnds(t) PROVE MoneyMoves
  <2>1. UNCHANGED <<sumVars, debit, closed, stage, via>> /\ allowance' = [allowance EXCEPT ![t].closed = TRUE]
    BY <1>19 DEF DispatchEnds, JoinFrame, sumVars, budgetVars, callVars
  <2>2. /\ AllowanceTypes'
        /\ \A u \in Turns : allowance'[u].remaining = allowance[u].remaining /\ allowance'[u].inFlight = allowance[u].inFlight
    BY <2>1 DEF AllowanceTypes
  <2>3. \A x \in Calls : Keeps(x)
    BY <2>1 DEF Keeps
  <2> QED BY <2>1, <2>2, <2>3 DEF MoneyMoves, SumsStill
<1>20. ASSUME NEW t \in Turns, NEW p \in Providers, CoolsOff(t, p) PROVE MoneyMoves
  <2>1. UNCHANGED <<sumVars, allowanceVars, closed, stage, via>>
    BY <1>20 DEF CoolsOff, Outside, budgetVars, allowanceVars, callVars, tallyVars, sumVars
  <2>2. \A x \in Calls : Keeps(x)
    BY <2>1 DEF Keeps
  <2> QED BY <2>1, <2>2, StillSums
<1>21. ASSUME NEW j \in Joiners, Loops(j) PROVE MoneyMoves
  <2>1. UNCHANGED <<sumVars, allowanceVars, closed, stage, via>>
    BY <1>21 DEF Loops, JoinLoops, callVars, tallyVars, governorVars, budgetVars, allowanceVars, sumVars
  <2>2. \A x \in Calls : Keeps(x)
    BY <2>1 DEF Keeps
  <2> QED BY <2>1, <2>2, StillSums
<1>22. ASSUME MarkerSettles PROVE MoneyMoves
  <2>1. UNCHANGED <<sumVars, allowanceVars, closed, via>>
    BY <1>22 DEF MarkerSettles, budgetVars, allowanceVars, tallyVars, sumVars
  <2>2. PICK c \in Calls, s \in {"acked", "unmarked"} :
           ledger # <<>> /\ Head(ledger) = [call |-> c, write |-> "pending"] /\ stage' = [stage EXCEPT ![c] = s]
    BY <1>22 DEF MarkerSettles, MarkerLands, MarkerLost, Settled
  <2>3. stage[c] = "marker"
    <3>1. 1 \in DOMAIN ledger /\ ledger[1] = Head(ledger)
      BY <2>2 DEF LedgerTypes
    <3> QED BY <2>2, <3>1 DEF Queued, Marking
  <2>4. \A x \in Calls : Keeps(x)
    BY <2>1, <2>2, <2>3 DEF Keeps, StageTypes, Before, Holding
  <2> QED BY <2>1, <2>4, StillSums
<1>23. ASSUME WarningAppended PROVE MoneyMoves
  <2>1. UNCHANGED <<sumVars, allowanceVars, closed, via>>
    BY <1>23 DEF WarningAppended, budgetVars, allowanceVars, sumVars
  <2>2. \E s \in {"told", "unmarked"} : stage' = [c \in Calls |-> IF stage[c] = "warned" THEN s ELSE stage[c]]
    BY <1>23 DEF WarningAppended, Told
  <2>3. \A x \in Calls : Keeps(x)
    BY <2>1, <2>2 DEF Keeps, StageTypes, Before, Holding
  <2> QED BY <2>1, <2>3, StillSums
<1>24. ASSUME WarningThrows PROVE MoneyMoves
  <2>1. UNCHANGED <<sumVars, allowanceVars, closed, via>>
    BY <1>24 DEF WarningThrows, budgetVars, allowanceVars, sumVars
  <2>2. \E s \in {"told", "unmarked"} : stage' = [c \in Calls |-> IF stage[c] = "warned" THEN s ELSE stage[c]]
    BY <1>24 DEF WarningThrows, Told
  <2>3. \A x \in Calls : Keeps(x)
    BY <2>1, <2>2 DEF Keeps, StageTypes, Before, Holding
  <2> QED BY <2>1, <2>3, StillSums
<1> QED BY <1>1, <1>2, <1>3, <1>4, <1>5, <1>6, <1>7, <1>8, <1>9, <1>10, <1>11, <1>12, <1>13, <1>14, <1>15, <1>16,
    <1>17, <1>18, <1>19, <1>20, <1>21, <1>22, <1>23, <1>24, StepCases DEF StepKinds

(* What the sums add up, and what changes when one call does. *)
LEMMA TermTypes ==
    ASSUME BudgetTypes, CallTypes
    PROVE  /\ PaidFor \in [Calls -> Nat] /\ Committed \in [Calls -> Nat] /\ reserved \in [Calls -> Nat]
           /\ \A c \in Calls : Estimate(c) \in Nat
<1>1. \A c \in Calls : Estimate(c) \in Nat
  BY PlanParts DEF CallTypes, Estimate, Larger, NoPrice, Unrepresentable
<1>2. \A c \in Calls : Larger(paid[c], 0) \in Nat
  BY DEF BudgetTypes, Larger, NoBill
<1> QED BY <1>1, <1>2 DEF PaidFor, Committed, BudgetTypes

(* Sums that differ in one call. *)
LEMMA OneTerm ==
    ASSUME NEW f \in [Calls -> Int], NEW g \in [Calls -> Int], NEW c \in Calls, \A x \in Calls \ {c} : f[x] = g[x]
    PROVE  SumOf(g, Calls) = SumOf(f, Calls) + g[c] - f[c] /\ SumOf(f, Calls) \in Int
BY FiniteCalls, SumsCompare

(* Nothing is charged. *)
LEMMA PaidSame ==
    ASSUME UNCHANGED paid
    PROVE  SumOf(PaidFor', Calls) = SumOf(PaidFor, Calls)
BY DEF PaidFor

(* One call is charged, once. *)
LEMMA PaidOnce ==
    ASSUME BudgetTypes, NEW c \in Calls, NEW cost \in Nat, paid[c] = NoBill, paid' = [paid EXCEPT ![c] = cost]
    PROVE  SumOf(PaidFor', Calls) = SumOf(PaidFor, Calls) + cost
<1> DEFINE f == [x \in Calls |-> Larger(paid[x], 0)]
           g == [x \in Calls |-> Larger(paid'[x], 0)]
<1>1. \A x \in Calls : Larger(paid[x], 0) \in Int /\ Larger(paid'[x], 0) \in Int
  BY DEF BudgetTypes, Larger, NoBill
<1>2. f \in [Calls -> Int] /\ g \in [Calls -> Int]
  BY <1>1
<1>3. /\ f[c] = 0 /\ g[c] = cost /\ \A x \in Calls \ {c} : f[x] = g[x]
  BY DEF BudgetTypes, Larger, NoBill
<1> HIDE DEF f, g
<1>4. SumOf(g, Calls) = SumOf(f, Calls) + g[c] - f[c] /\ SumOf(f, Calls) \in Int
  BY <1>2, <1>3, OneTerm
<1>5. SumOf(g, Calls) = SumOf(f, Calls) + cost
  BY <1>3, <1>4
<1> QED BY <1>5 DEF PaidFor, f, g

(* No commitment is added. *)
LEMMA CommittedSame ==
    ASSUME UNCHANGED unknown, \A x \in Calls : x \in unknown => Estimate(x)' = Estimate(x)
    PROVE  SumOf(Committed', Calls) = SumOf(Committed, Calls)
<1>1. \A x \in Calls : (IF x \in unknown' THEN Estimate(x)' ELSE 0) = (IF x \in unknown THEN Estimate(x) ELSE 0)
  OBVIOUS
<1>2. Committed' = Committed
  BY <1>1 DEF Committed
<1> QED BY <1>2

(* One commitment is added, once. *)
LEMMA CommittedOnce ==
    ASSUME BudgetTypes, CallTypes, NEW c \in Calls, c \notin unknown, unknown' = unknown \cup {c},
           \A x \in Calls : x \in unknown' => Estimate(x)' = Estimate(x)
    PROVE  SumOf(Committed', Calls) = SumOf(Committed, Calls) + Estimate(c)
<1> DEFINE e(x) == Estimate(x)
           f == [x \in Calls |-> IF x \in unknown THEN e(x) ELSE 0]
           g == [x \in Calls |-> IF x \in unknown' THEN e(x) ELSE 0]
<1>1. \A x \in Calls : e(x) \in Nat
  BY TermTypes
<1>2. Committed = f /\ Committed' = g
  <2>1. \A x \in Calls : (IF x \in unknown' THEN Estimate(x)' ELSE 0) = (IF x \in unknown' THEN Estimate(x) ELSE 0)
    OBVIOUS
  <2> QED BY <2>1 DEF Committed
<1> HIDE DEF e
<1>3. f \in [Calls -> Int] /\ g \in [Calls -> Int] /\ f[c] = 0 /\ g[c] = e(c) /\ \A x \in Calls \ {c} : f[x] = g[x]
  BY <1>1
<1> HIDE DEF f, g
<1>4. SumOf(g, Calls) = SumOf(f, Calls) + g[c] - f[c] /\ SumOf(f, Calls) \in Int
  BY <1>3, OneTerm
<1>5. SumOf(g, Calls) = SumOf(f, Calls) + e(c)
  BY <1>1, <1>3, <1>4
<1> QED BY <1>2, <1>5 DEF e

(* One reservation changes. *)
LEMMA ReservedOnce ==
    ASSUME BudgetTypes, NEW c \in Calls, NEW v \in Nat, reserved' = [reserved EXCEPT ![c] = v]
    PROVE  SumOf(reserved', Calls) = SumOf(reserved, Calls) + v - reserved[c]
<1>1. /\ reserved \in [Calls -> Int] /\ reserved' \in [Calls -> Int] /\ reserved'[c] = v
      /\ \A x \in Calls \ {c} : reserved[x] = reserved'[x]
  BY DEF BudgetTypes
<1> QED BY <1>1, OneTerm

(* No reservation is larger than their sum. *)
LEMMA ReservedBelow ==
    ASSUME BudgetTypes, Accounts
    PROVE  \A c \in Calls : reserved[c] <= reservedCost
<1>1. reserved \in [Calls -> Nat]
  BY DEF BudgetTypes
<1>2. \A c \in Calls : reserved[c] <= SumOf(reserved, Calls)
  BY <1>1, FiniteCalls, SumOfNaturals
<1> QED BY <1>2 DEF Accounts

(* A call is charged at its end. *)
LEMMA BilledStep ==
    ASSUME BudgetTypes, AllowanceTypes, StageTypes, CallTypes, InOrder, InOrder', Billed, Accounts, MoneyMoves
    PROVE  Billed'
<1>0. /\ closed \subseteq closed' /\ \A x \in Calls : x \in closed => stage[x] # "asked"
      /\ \A x \in Calls : x \in closed' => stage'[x] # "asked"
  BY DEF MoneyMoves, InOrder
<1>1. ASSUME SumsStill PROVE Billed'
  BY <1>1, <1>0 DEF SumsStill, Keeps, sumVars, Billed, BudgetTypes, NoBill, StageTypes, Before, Holding,
        Ongoing, Acquiring
<1>2. ASSUME NEW c \in Calls, Admission(c) PROVE Billed'
  BY <1>2, <1>0 DEF Admission, Billed, BudgetTypes, NoBill, StageTypes, Before, Holding, Ongoing,
        Acquiring
<1>3. ASSUME NEW c \in Calls, GivenBack(c) PROVE Billed'
  BY <1>3, <1>0 DEF GivenBack, Freed, Repays, Keeps, Billed, BudgetTypes, NoBill, StageTypes, Before,
        Holding, Ongoing, Acquiring
<1>4. ASSUME NEW c \in Calls, NEW cost \in Nat, Charge(c, cost) PROVE Billed'
  BY <1>4, <1>0 DEF Charge, Freed, Repays, Keeps, Billed, BudgetTypes, NoBill, StageTypes, Before,
        Holding, Ongoing, Acquiring
<1>5. ASSUME NEW c \in Calls, Retention(c) PROVE Billed'
  BY <1>5, <1>0 DEF Retention, Freed, Repays, Keeps, Billed, BudgetTypes, NoBill, StageTypes, Before,
        Holding, Ongoing, Acquiring
<1>6. ASSUME NEW c \in Calls, Receipt(c) PROVE Billed'
  BY <1>6, <1>0 DEF Receipt, allowanceVars, Billed, BudgetTypes, NoBill, StageTypes, Before, Holding,
        Ongoing, Acquiring
<1> QED BY <1>1, <1>2, <1>3, <1>4, <1>5, <1>6 DEF MoneyMoves

(* A reservation is held from the admission to the end of the call. *)
LEMMA ReservesStep ==
    ASSUME BudgetTypes, AllowanceTypes, StageTypes, CallTypes, InOrder, InOrder', Billed, Reserves, Debits, Accounts, MoneyMoves
    PROVE  Reserves'
<1>0. /\ closed \subseteq closed' /\ \A x \in Calls : x \in closed => stage[x] # "asked"
      /\ \A x \in Calls : x \in closed' => stage'[x] # "asked"
  BY DEF MoneyMoves, InOrder
<1>1. ASSUME SumsStill PROVE Reserves'
  <2>1. UNCHANGED reserved /\ \A x \in Calls : Keeps(x)
    BY <1>1 DEF SumsStill, sumVars
  <2>2. \A x \in Calls : Estimate(x)' = Estimate(x) \/ stage[x] = "none"
    BY <2>1 DEF Keeps, Estimate
  <2>3. ASSUME NEW x \in Calls
        PROVE  /\ stage'[x] \notin Holding => reserved'[x] = 0
               /\ reserved'[x] \in {0, Estimate(x)'}
               /\ stage'[x] \in Holding /\ x \notin closed' => reserved'[x] = Estimate(x)'
    BY <1>0, <2>1, <2>2 DEF Keeps, Reserves, Holding, Before
  <2> QED BY <2>3 DEF Reserves
<1>2. ASSUME NEW c \in Calls, Admission(c) PROVE Reserves'
  <2>1. reserved'[c] = Estimate(c) /\ \A x \in Calls \ {c} : reserved'[x] = reserved[x]
    BY <1>2 DEF Admission, BudgetTypes
  <2>2. Estimate(c)' = Estimate(c) /\ \A x \in Calls : Estimate(x)' = Estimate(x) \/ stage[x] = "none"
    BY <1>2 DEF Admission, Keeps, Estimate
  <2>3. ASSUME NEW x \in Calls
        PROVE  /\ stage'[x] \notin Holding => reserved'[x] = 0
               /\ reserved'[x] \in {0, Estimate(x)'}
               /\ stage'[x] \in Holding /\ x \notin closed' => reserved'[x] = Estimate(x)'
    <3>1. CASE x = c
      BY <1>2, <1>0, <2>1, <2>2, <3>1 DEF Admission, Keeps, Reserves, StageTypes, Holding, Before, Ongoing, Acquiring
    <3>2. CASE x # c
      BY <1>2, <1>0, <2>1, <2>2, <3>2 DEF Admission, Keeps, Reserves, StageTypes, Holding, Before
    <3> QED BY <3>1, <3>2
  <2> QED BY <2>3 DEF Reserves
<1>3. ASSUME NEW c \in Calls, GivenBack(c) PROVE Reserves'
  <2>1. reserved'[c] = 0 /\ \A x \in Calls \ {c} : reserved'[x] = reserved[x]
    BY <1>3 DEF GivenBack, Freed, BudgetTypes
  <2>2. Estimate(c)' = Estimate(c) /\ \A x \in Calls : Estimate(x)' = Estimate(x) \/ stage[x] = "none"
    BY <1>3 DEF GivenBack, Freed, Keeps, Estimate
  <2>3. ASSUME NEW x \in Calls
        PROVE  /\ stage'[x] \notin Holding => reserved'[x] = 0
               /\ reserved'[x] \in {0, Estimate(x)'}
               /\ stage'[x] \in Holding /\ x \notin closed' => reserved'[x] = Estimate(x)'
    <3>1. CASE x = c
      BY <1>3, <1>0, <2>1, <2>2, <3>1 DEF GivenBack, Freed, Keeps, Reserves, StageTypes, Holding, Before, Ongoing, Acquiring
    <3>2. CASE x # c
      BY <1>3, <1>0, <2>1, <2>2, <3>2 DEF GivenBack, Freed, Keeps, Reserves, StageTypes, Holding, Before
    <3> QED BY <3>1, <3>2
  <2> QED BY <2>3 DEF Reserves
<1>4. ASSUME NEW c \in Calls, NEW cost \in Nat, Charge(c, cost) PROVE Reserves'
  <2>1. reserved'[c] = 0 /\ \A x \in Calls \ {c} : reserved'[x] = reserved[x]
    BY <1>4 DEF Charge, Freed, BudgetTypes
  <2>2. Estimate(c)' = Estimate(c) /\ \A x \in Calls : Estimate(x)' = Estimate(x) \/ stage[x] = "none"
    BY <1>4 DEF Charge, Freed, Keeps, Estimate
  <2>3. ASSUME NEW x \in Calls
        PROVE  /\ stage'[x] \notin Holding => reserved'[x] = 0
               /\ reserved'[x] \in {0, Estimate(x)'}
               /\ stage'[x] \in Holding /\ x \notin closed' => reserved'[x] = Estimate(x)'
    <3>1. CASE x = c
      BY <1>4, <1>0, <2>1, <2>2, <3>1 DEF Charge, Freed, Keeps, Reserves, StageTypes, Holding, Before, Ongoing, Acquiring
    <3>2. CASE x # c
      BY <1>4, <1>0, <2>1, <2>2, <3>2 DEF Charge, Freed, Keeps, Reserves, StageTypes, Holding, Before
    <3> QED BY <3>1, <3>2
  <2> QED BY <2>3 DEF Reserves
<1>5. ASSUME NEW c \in Calls, Retention(c) PROVE Reserves'
  <2>1. reserved'[c] = 0 /\ \A x \in Calls \ {c} : reserved'[x] = reserved[x]
    BY <1>5 DEF Retention, Freed, BudgetTypes
  <2>2. Estimate(c)' = Estimate(c) /\ \A x \in Calls : Estimate(x)' = Estimate(x) \/ stage[x] = "none"
    BY <1>5 DEF Retention, Freed, Keeps, Estimate
  <2>3. ASSUME NEW x \in Calls
        PROVE  /\ stage'[x] \notin Holding => reserved'[x] = 0
               /\ reserved'[x] \in {0, Estimate(x)'}
               /\ stage'[x] \in Holding /\ x \notin closed' => reserved'[x] = Estimate(x)'
    <3>1. CASE x = c
      BY <1>5, <1>0, <2>1, <2>2, <3>1 DEF Retention, Freed, Keeps, Reserves, StageTypes, Holding, Before, Ongoing, Acquiring
    <3>2. CASE x # c
      BY <1>5, <1>0, <2>1, <2>2, <3>2 DEF Retention, Freed, Keeps, Reserves, StageTypes, Holding, Before
    <3> QED BY <3>1, <3>2
  <2> QED BY <2>3 DEF Reserves
<1>6. ASSUME NEW c \in Calls, Receipt(c) PROVE Reserves'
  <2>1. reserved' = reserved /\ stage[c] = "late" /\ stage' = [stage EXCEPT ![c] = "over"] /\ UNCHANGED via
    BY <1>6 DEF Receipt
  <2>2. Estimate(c)' = Estimate(c) /\ \A x \in Calls : Estimate(x)' = Estimate(x) \/ stage[x] = "none"
    BY <1>6 DEF Receipt, Keeps, Estimate
  <2>3. ASSUME NEW x \in Calls
        PROVE  /\ stage'[x] \notin Holding => reserved'[x] = 0
               /\ reserved'[x] \in {0, Estimate(x)'}
               /\ stage'[x] \in Holding /\ x \notin closed' => reserved'[x] = Estimate(x)'
    <3>1. CASE x = c
      BY <1>6, <1>0, <2>1, <2>2, <3>1 DEF Receipt, Keeps, Reserves, StageTypes, Holding, Before, Ongoing, Acquiring
    <3>2. CASE x # c
      BY <1>6, <1>0, <2>1, <2>2, <3>2 DEF Receipt, Keeps, Reserves, StageTypes, Holding, Before
    <3> QED BY <3>1, <3>2
  <2> QED BY <2>3 DEF Reserves
<1> QED BY <1>1, <1>2, <1>3, <1>4, <1>5, <1>6 DEF MoneyMoves

(* A debit that is finished frees its turn. *)
LEMMA Repaid ==
    ASSUME Debits, AllowanceTypes, NEW c \in Calls, NEW back, Repays(c, back),
           \A x \in Calls \ {c} : stage'[x] \notin Holding => stage[x] \notin Holding
    PROVE  Debits'
<1>1. debit' = debit \ {c} /\ debit \subseteq Calls /\ c[1] \in Turns
  BY CallParts DEF Repays, AllowanceTypes
<1>2. \A t \in Turns : allowance'[t].inFlight <=> \E d \in debit' : d[1] = t
  <2>1. CASE c \in debit
    <3>1. ~allowance'[c[1]].inFlight /\ \A t \in Turns \ {c[1]} : allowance'[t] = allowance[t]
      BY <2>1 DEF Repays
    <3>2. \A d \in debit : d[1] = c[1] => d = c
      BY <2>1 DEF Debits
    <3> QED BY <1>1, <2>1, <3>1, <3>2 DEF Debits
  <2>2. CASE c \notin debit
    BY <1>1, <2>2 DEF Repays, Debits
  <2> QED BY <2>1, <2>2
<1>3. \A x \in Calls : stage'[x] \notin Holding => x \notin debit'
  BY <1>1 DEF Debits
<1>4. \A x, y \in debit' : x[1] = y[1] => x = y
  BY <1>1 DEF Debits
<1> QED BY <1>2, <1>3, <1>4 DEF Debits

(* A turn has one debit at most. *)
LEMMA DebitsStep ==
    ASSUME BudgetTypes, AllowanceTypes, StageTypes, CallTypes, InOrder, InOrder', Billed, Reserves, Debits, Accounts, MoneyMoves
    PROVE  Debits'
<1>0. /\ closed \subseteq closed' /\ \A x \in Calls : x \in closed => stage[x] # "asked"
      /\ \A x \in Calls : x \in closed' => stage'[x] # "asked"
  BY DEF MoneyMoves, InOrder
<1>1. ASSUME SumsStill PROVE Debits'
  <2>1. UNCHANGED debit /\ \A t \in Turns : allowance'[t].inFlight = allowance[t].inFlight
    BY <1>1 DEF SumsStill
  <2>2. \A x \in Calls : stage'[x] \notin Holding => stage[x] \notin Holding
    BY <1>1 DEF SumsStill, Keeps, Before, Holding
  <2> QED BY <2>1, <2>2 DEF Debits
<1>2. ASSUME NEW c \in Calls, Admission(c) PROVE Debits'
  <2>1. \A x \in Calls : stage'[x] \notin Holding => stage[x] \notin Holding
    BY <1>2 DEF Admission, Holding
  <2>2. CASE UNCHANGED allowanceVars
    BY <2>1, <2>2 DEF Debits, allowanceVars
  <2>3. CASE ~ UNCHANGED allowanceVars
    <3>1. /\ ~allowance[c[1]].inFlight /\ debit' = debit \cup {c} /\ allowance'[c[1]].inFlight
          /\ \A t \in Turns \ {c[1]} : allowance'[t] = allowance[t]
      BY <1>2, <2>3 DEF Admission
    <3>2. \A d \in debit : d[1] # c[1]
      BY <3>1, CallParts DEF Debits
    <3>3. stage'[c] \in Holding /\ c[1] \in Turns
      BY <1>2, CallParts DEF Admission
    <3> QED BY <2>1, <3>1, <3>2, <3>3 DEF Debits
  <2> QED BY <2>2, <2>3
<1>3. ASSUME NEW c \in Calls, GivenBack(c) PROVE Debits'
  <2>1. Repays(c, reserved[c]) /\ c[1] \in Turns
    BY <1>3, CallParts DEF GivenBack
  <2>2. \A x \in Calls \ {c} : stage'[x] \notin Holding => stage[x] \notin Holding
    BY <1>3 DEF GivenBack, Freed, Keeps, Before, Holding
  <2> QED BY <2>1, <2>2, Repaid
<1>4. ASSUME NEW c \in Calls, NEW cost \in Nat, Charge(c, cost) PROVE Debits'
  <2>1. Repays(c, Larger(reserved[c] - cost, 0)) /\ c[1] \in Turns
    BY <1>4, CallParts DEF Charge
  <2>2. \A x \in Calls \ {c} : stage'[x] \notin Holding => stage[x] \notin Holding
    BY <1>4 DEF Charge, Freed, Keeps, Before, Holding
  <2> QED BY <2>1, <2>2, Repaid
<1>5. ASSUME NEW c \in Calls, Retention(c) PROVE Debits'
  <2>1. Repays(c, 0) /\ c[1] \in Turns
    BY <1>5, CallParts DEF Retention
  <2>2. \A x \in Calls \ {c} : stage'[x] \notin Holding => stage[x] \notin Holding
    BY <1>5 DEF Retention, Freed, Keeps, Before, Holding
  <2> QED BY <2>1, <2>2, Repaid
<1>6. ASSUME NEW c \in Calls, Receipt(c) PROVE Debits'
  <2>1. UNCHANGED allowanceVars /\ \A x \in Calls : stage'[x] \notin Holding => stage[x] \notin Holding
    BY <1>6 DEF Receipt, StageTypes, Holding
  <2> QED BY <2>1 DEF Debits, allowanceVars
<1> QED BY <1>1, <1>2, <1>3, <1>4, <1>5, <1>6 DEF MoneyMoves

(* The sums follow the calls. *)
LEMMA AccountsStep ==
    ASSUME BudgetTypes, AllowanceTypes, StageTypes, CallTypes, InOrder, InOrder', Billed, Reserves, Debits, Accounts, MoneyMoves
    PROVE  Accounts'
<1>0. /\ closed \subseteq closed' /\ \A x \in Calls : x \in closed => stage[x] # "asked"
      /\ \A x \in Calls : x \in closed' => stage'[x] # "asked"
  BY DEF MoneyMoves, InOrder
<1>1. ASSUME SumsStill PROVE Accounts'
  <2>1. UNCHANGED sumVars
    BY <1>1 DEF SumsStill
  <2>2. \A x \in Calls : x \in unknown => Estimate(x)' = Estimate(x)
    BY <1>1 DEF SumsStill, Keeps, Estimate, Billed
  <2> QED BY <2>1, <2>2, PaidSame, CommittedSame DEF Accounts, sumVars
<1>2. ASSUME NEW c \in Calls, Admission(c) PROVE Accounts'
  <2>1. \A x \in Calls : x \in unknown' => Estimate(x)' = Estimate(x)
    BY <1>2 DEF Admission, Estimate, Billed
  <2>2. SumOf(PaidFor', Calls) = SumOf(PaidFor, Calls) /\ UNCHANGED <<total, spent>>
    BY <1>2, PaidSame DEF Admission
  <2>3. SumOf(Committed', Calls) = SumOf(Committed, Calls) /\ UNCHANGED conservative
    <3>1. UNCHANGED <<unknown, conservative>>
      BY <1>2 DEF Admission
    <3> QED BY <2>1, <3>1, CommittedSame
  <2>4. SumOf(reserved', Calls) = SumOf(reserved, Calls) + Estimate(c) /\ reservedCost' = reservedCost + Estimate(c)
    <3>1. reserved[c] = 0 /\ Estimate(c) \in Nat
      BY <1>2, TermTypes DEF Admission, Reserves, Holding
    <3>2. reserved' = [reserved EXCEPT ![c] = Estimate(c)] /\ reservedCost' = reservedCost + Estimate(c)
      BY <1>2 DEF Admission
    <3>3. SumOf(reserved', Calls) = SumOf(reserved, Calls) + Estimate(c) - reserved[c] /\ reservedCost = SumOf(reserved, Calls)
      BY <3>1, <3>2, ReservedOnce DEF Accounts
    <3> QED BY <3>1, <3>2, <3>3 DEF BudgetTypes
  <2> QED BY <2>2, <2>3, <2>4 DEF Accounts
<1>3. ASSUME NEW c \in Calls, GivenBack(c) PROVE Accounts'
  <2>1. \A x \in Calls : x \in unknown' => Estimate(x)' = Estimate(x)
    BY <1>3 DEF GivenBack, Freed, Keeps, Estimate, Billed
  <2>2. SumOf(PaidFor', Calls) = SumOf(PaidFor, Calls) /\ UNCHANGED <<total, spent>>
    BY <1>3, PaidSame DEF GivenBack
  <2>3. SumOf(Committed', Calls) = SumOf(Committed, Calls) /\ UNCHANGED conservative
    <3>1. UNCHANGED <<unknown, conservative>>
      BY <1>3 DEF GivenBack
    <3> QED BY <2>1, <3>1, CommittedSame
  <2>4. SumOf(reserved', Calls) = SumOf(reserved, Calls) - reserved[c] /\ reservedCost' = reservedCost - reserved[c]
    <3>1. reserved' = [reserved EXCEPT ![c] = 0] /\ reservedCost' = reservedCost - reserved[c]
      BY <1>3 DEF GivenBack, Freed
    <3>2. SumOf(reserved', Calls) = SumOf(reserved, Calls) + 0 - reserved[c] /\ reservedCost = SumOf(reserved, Calls) /\ reserved[c] \in Nat
      BY <3>1, ReservedOnce DEF Accounts, BudgetTypes
    <3> QED BY <3>1, <3>2 DEF BudgetTypes
  <2> QED BY <2>2, <2>3, <2>4 DEF Accounts
<1>4. ASSUME NEW c \in Calls, NEW cost \in Nat, Charge(c, cost) PROVE Accounts'
  <2>1. \A x \in Calls : x \in unknown' => Estimate(x)' = Estimate(x)
    BY <1>4 DEF Charge, Freed, Keeps, Estimate, Billed
  <2>2. SumOf(PaidFor', Calls) = SumOf(PaidFor, Calls) + cost /\ total' = total + cost /\ spent' = spent + cost
    <3>1. paid[c] = NoBill /\ paid' = [paid EXCEPT ![c] = cost]
      BY <1>4 DEF Charge, Billed
    <3> QED BY <1>4, <3>1, PaidOnce DEF Charge
  <2>3. SumOf(Committed', Calls) = SumOf(Committed, Calls) /\ UNCHANGED conservative
    <3>1. UNCHANGED <<unknown, conservative>>
      BY <1>4 DEF Charge
    <3> QED BY <2>1, <3>1, CommittedSame
  <2>4. SumOf(reserved', Calls) = SumOf(reserved, Calls) - reserved[c] /\ reservedCost' = reservedCost - reserved[c]
    <3>1. reserved' = [reserved EXCEPT ![c] = 0] /\ reservedCost' = reservedCost - reserved[c]
      BY <1>4 DEF Charge, Freed
    <3>2. SumOf(reserved', Calls) = SumOf(reserved, Calls) + 0 - reserved[c] /\ reservedCost = SumOf(reserved, Calls) /\ reserved[c] \in Nat
      BY <3>1, ReservedOnce DEF Accounts, BudgetTypes
    <3> QED BY <3>1, <3>2 DEF BudgetTypes
  <2> QED BY <2>2, <2>3, <2>4 DEF Accounts
<1>5. ASSUME NEW c \in Calls, Retention(c) PROVE Accounts'
  <2>1. \A x \in Calls : x \in unknown' => Estimate(x)' = Estimate(x)
    BY <1>5 DEF Retention, Freed, Keeps, Estimate, Billed
  <2>2. SumOf(PaidFor', Calls) = SumOf(PaidFor, Calls) /\ UNCHANGED <<total, spent>>
    BY <1>5, PaidSame DEF Retention
  <2>3. SumOf(Committed', Calls) = SumOf(Committed, Calls) + reserved[c] /\ conservative' = conservative + reserved[c]
    <3>1. c \notin unknown /\ unknown' = unknown \cup {c}
      BY <1>5 DEF Retention, Billed
    <3>2. reserved[c] = Estimate(c)
      BY <1>5, <1>0 DEF Retention, Reserves, Holding
    <3> QED BY <1>5, <2>1, <3>1, <3>2, CommittedOnce DEF Retention
  <2>4. SumOf(reserved', Calls) = SumOf(reserved, Calls) - reserved[c] /\ reservedCost' = reservedCost - reserved[c]
    <3>1. reserved' = [reserved EXCEPT ![c] = 0] /\ reservedCost' = reservedCost - reserved[c]
      BY <1>5 DEF Retention, Freed
    <3>2. SumOf(reserved', Calls) = SumOf(reserved, Calls) + 0 - reserved[c] /\ reservedCost = SumOf(reserved, Calls) /\ reserved[c] \in Nat
      BY <3>1, ReservedOnce DEF Accounts, BudgetTypes
    <3> QED BY <3>1, <3>2 DEF BudgetTypes
  <2> QED BY <2>2, <2>3, <2>4 DEF Accounts
<1>6. ASSUME NEW c \in Calls, Receipt(c) PROVE Accounts'
  <2>1. \A x \in Calls : x \in unknown' => Estimate(x)' = Estimate(x)
    BY <1>6 DEF Receipt, Estimate
  <2>2. /\ SumOf(Committed', Calls) = SumOf(Committed, Calls) /\ UNCHANGED conservative
        /\ SumOf(reserved', Calls) = SumOf(reserved, Calls) /\ UNCHANGED reservedCost
    <3>1. UNCHANGED <<unknown, conservative, reserved, reservedCost>>
      BY <1>6 DEF Receipt
    <3> QED BY <2>1, <3>1, CommittedSame
  <2>3. CASE UNCHANGED <<spent, total, paid>>
    BY <2>2, <2>3, PaidSame DEF Accounts
  <2>4. CASE \E cost \in Nat : spent' = spent + cost /\ total' = total + cost /\ paid' = [paid EXCEPT ![c] = cost]
    <3>1. PICK cost \in Nat : spent' = spent + cost /\ total' = total + cost /\ paid' = [paid EXCEPT ![c] = cost]
      BY <2>4
    <3>2. paid[c] = NoBill
      BY <1>6 DEF Receipt, Billed
    <3>3. SumOf(PaidFor', Calls) = SumOf(PaidFor, Calls) + cost
      BY <3>1, <3>2, PaidOnce
    <3> QED BY <2>2, <3>1, <3>3 DEF Accounts
  <2> QED BY <1>6, <2>3, <2>4 DEF Receipt
<1> QED BY <1>1, <1>2, <1>3, <1>4, <1>5, <1>6 DEF MoneyMoves

(* The budget keeps its types: no sum falls below nought. *)
LEMMA BudgetTyped ==
    ASSUME BudgetTypes, AllowanceTypes, StageTypes, CallTypes, InOrder, InOrder', Billed, Reserves, Debits, Accounts, MoneyMoves
    PROVE  BudgetTypes'
<1>0. /\ closed \subseteq closed' /\ \A x \in Calls : x \in closed => stage[x] # "asked"
      /\ \A x \in Calls : x \in closed' => stage'[x] # "asked"
  BY DEF MoneyMoves, InOrder
<1>1. ASSUME SumsStill PROVE BudgetTypes'
  BY <1>1 DEF SumsStill, sumVars, BudgetTypes
<1>2. ASSUME NEW c \in Calls, Admission(c) PROVE BudgetTypes'
  <2>1. Estimate(c) \in Nat
    BY TermTypes
  <2> QED BY <1>2, <2>1 DEF Admission, BudgetTypes
<1>3. ASSUME NEW c \in Calls, GivenBack(c) PROVE BudgetTypes'
  <2>1. reserved[c] <= reservedCost
    BY ReservedBelow
  <2> QED BY <1>3, <2>1 DEF GivenBack, Freed, BudgetTypes
<1>4. ASSUME NEW c \in Calls, NEW cost \in Nat, Charge(c, cost) PROVE BudgetTypes'
  <2>1. reserved[c] <= reservedCost
    BY ReservedBelow
  <2> QED BY <1>4, <2>1 DEF Charge, Freed, BudgetTypes
<1>5. ASSUME NEW c \in Calls, Retention(c) PROVE BudgetTypes'
  <2>1. reserved[c] <= reservedCost
    BY ReservedBelow
  <2> QED BY <1>5, <2>1 DEF Retention, Freed, BudgetTypes
<1>6. ASSUME NEW c \in Calls, Receipt(c) PROVE BudgetTypes'
  BY <1>6 DEF Receipt, BudgetTypes
<1> QED BY <1>1, <1>2, <1>3, <1>4, <1>5, <1>6 DEF MoneyMoves

(* So do the allowances. *)
LEMMA AllowanceTyped ==
    ASSUME BudgetTypes, AllowanceTypes, StageTypes, CallTypes, InOrder, InOrder', Billed, Reserves, Debits, Accounts, MoneyMoves
    PROVE  AllowanceTypes'
<1>0. /\ closed \subseteq closed' /\ \A x \in Calls : x \in closed => stage[x] # "asked"
      /\ \A x \in Calls : x \in closed' => stage'[x] # "asked"
  BY DEF MoneyMoves, InOrder
<1>1. ASSUME SumsStill PROVE AllowanceTypes'
  BY <1>1 DEF SumsStill, Repays, AllowanceTypes, allowanceVars
<1>2. ASSUME NEW c \in Calls, Admission(c) PROVE AllowanceTypes'
  BY <1>2 DEF Admission, Repays, AllowanceTypes, allowanceVars
<1>3. ASSUME NEW c \in Calls, GivenBack(c) PROVE AllowanceTypes'
  BY <1>3 DEF GivenBack, Repays, AllowanceTypes, allowanceVars
<1>4. ASSUME NEW c \in Calls, NEW cost \in Nat, Charge(c, cost) PROVE AllowanceTypes'
  BY <1>4 DEF Charge, Repays, AllowanceTypes, allowanceVars
<1>5. ASSUME NEW c \in Calls, Retention(c) PROVE AllowanceTypes'
  BY <1>5 DEF Retention, Repays, AllowanceTypes, allowanceVars
<1>6. ASSUME NEW c \in Calls, Receipt(c) PROVE AllowanceTypes'
  BY <1>6 DEF Receipt, Repays, AllowanceTypes, allowanceVars
<1> QED BY <1>1, <1>2, <1>3, <1>4, <1>5, <1>6 DEF MoneyMoves

(* What was foreseen of a call. *)
LEMMA BaseTypes ==
    ASSUME BudgetTypes, CallTypes, AllowanceTypes
    PROVE  /\ \A c \in Calls : Base(c) \in Nat
           /\ Within \in [Calls -> Nat] /\ Beyond \in [Calls -> Nat] /\ Left \in [Turns -> Nat] /\ Granted \in [Turns -> Nat]
<1>1. ASSUME NEW c \in Calls PROVE Base(c) \in Nat
  <2>1. Estimate(c) \in Nat /\ reserved[c] \in Nat /\ paid[c] \in Nat \cup {NoBill}
    BY TermTypes DEF BudgetTypes
  <2> HIDE DEF Estimate
  <2> QED BY <2>1 DEF Base
<1>2. \A t \in Turns : (IF HasToken(t) THEN allowance[t].remaining ELSE 0) \in Nat /\ Larger(Approved[t], 0) \in Nat
  BY PlanParts DEF AllowanceTypes, Larger, NoAllowance
<1> QED BY <1>1, <1>2 DEF Within, Beyond, Left, Granted

(* What was foreseen of a call that does not move stays. *)
LEMMA BaseKept ==
    ASSUME NEW x \in Calls, Keeps(x), Billed, reserved'[x] = reserved[x], paid'[x] = paid[x], x \in unknown' <=> x \in unknown
    PROVE  Base(x)' = Base(x)
<1>1. CASE via'[x] = via[x]
  <2>1. Estimate(x)' = Estimate(x)
    BY <1>1 DEF Estimate
  <2> QED BY <2>1 DEF Base
<1>2. CASE stage[x] = "none"
  <2>1. x \notin unknown /\ paid[x] = NoBill
    BY <1>2 DEF Billed
  <2> QED BY <2>1 DEF Base
<1> QED BY <1>1, <1>2 DEF Keeps

(* What the governor counts of a call, and altogether. *)
Counted == [c \in Calls |-> PaidFor[c] + Committed[c] + reserved[c]]

(* What is spent, committed and reserved, call by call. *)
LEMMA CountedSum ==
    ASSUME BudgetTypes, CallTypes, Accounts
    PROVE  /\ Counted \in [Calls -> Int] /\ SumOf(Counted, Calls) = spent + conservative + reservedCost
           /\ \A c \in Calls : Counted[c] = (IF paid[c] >= 0 THEN paid[c] ELSE 0)
                                            + (IF c \in unknown THEN Estimate(c) ELSE 0) + reserved[c]
           /\ \A f \in [Calls -> Int] : (\A c \in Calls : f[c] <= Counted[c]) => SumOf(f, Calls) <= spent + conservative + reservedCost
<1> DEFINE two == [c \in Calls |-> PaidFor[c] + Committed[c]]
           three == [c \in Calls |-> two[c] + reserved[c]]
<1>1. /\ PaidFor \in [Calls -> Int] /\ Committed \in [Calls -> Int] /\ reserved \in [Calls -> Int]
      /\ two \in [Calls -> Int] /\ three \in [Calls -> Int] /\ Counted = three
  BY TermTypes DEF Counted
<1>2. SumOf(two, Calls) = SumOf(PaidFor, Calls) + SumOf(Committed, Calls) /\ SumOf(three, Calls) = SumOf(two, Calls) + SumOf(reserved, Calls)
  <2>1. (\A c \in Calls : two[c] = PaidFor[c] + Committed[c]) /\ \A c \in Calls : three[c] = two[c] + reserved[c]
    OBVIOUS
  <2> HIDE DEF two, three
  <2> QED BY <1>1, <2>1, FiniteCalls, SumsAdd
<1>3. /\ spent = SumOf(PaidFor, Calls) /\ conservative = SumOf(Committed, Calls) /\ reservedCost = SumOf(reserved, Calls)
      /\ spent \in Nat /\ conservative \in Nat /\ reservedCost \in Nat
  BY DEF Accounts, BudgetTypes
<1> HIDE DEF two, three
<1>4. SumOf(Counted, Calls) = spent + conservative + reservedCost
  BY <1>1, <1>2, <1>3
<1>5. \A f \in [Calls -> Int] : (\A c \in Calls : f[c] <= Counted[c]) => SumOf(f, Calls) <= SumOf(Counted, Calls)
  BY <1>1, FiniteCalls, SumsCompare
<1>6. \A c \in Calls : Counted[c] = (IF paid[c] >= 0 THEN paid[c] ELSE 0)
                                    + (IF c \in unknown THEN Estimate(c) ELSE 0) + reserved[c]
  BY DEF Counted, PaidFor, Committed, Larger
<1> QED BY <1>1, <1>4, <1>5, <1>6

(* The governor's sums cover what was foreseen. *)
LEMMA WithinSums ==
    ASSUME BudgetTypes, CallTypes, AllowanceTypes, Accounts
    PROVE  SumOf(Within, Calls) <= spent + conservative + reservedCost
<1>1. Within \in [Calls -> Int]
  BY BaseTypes
<1>2. ASSUME NEW c \in Calls PROVE Within[c] <= Counted[c]
  <2>1. Estimate(c) \in Nat /\ reserved[c] \in Nat /\ paid[c] \in Nat \cup {NoBill}
    BY TermTypes DEF BudgetTypes
  <2>2. Counted[c] = (IF paid[c] >= 0 THEN paid[c] ELSE 0) + (IF c \in unknown THEN Estimate(c) ELSE 0) + reserved[c]
    BY CountedSum
  <2>3. Base(c) <= Counted[c] /\ 0 <= Counted[c]
    BY <2>1, <2>2 DEF Base, NoBill
  <2> QED BY <2>3 DEF Within
<1> QED BY <1>1, <1>2, CountedSum

(* A step of one call: either its allowance pays for it, or the cap allows it. *)
LEMMA ForeseenOnce ==
    ASSUME BudgetTypes, BudgetTypes', CallTypes, CallTypes', AllowanceTypes, AllowanceTypes', Foreseen, NEW c \in Calls, UNCHANGED policy,
           \A x \in Calls \ {c} : Base(x)' = Base(x),
           \A t \in Turns \ {c[1]} : allowance'[t].remaining = allowance[t].remaining,
           HasToken(c[1]) => Base(c)' + allowance'[c[1]].remaining <= Base(c) + allowance[c[1]].remaining,
           ~HasToken(c[1]) /\ policy \in {"fail", "pause"} /\ Cap > 0 =>
               Base(c)' <= Base(c) \/ SumOf(Within, Calls) + Base(c)' - Base(c) <= Cap
    PROVE  Foreseen'
<1> DEFINE W == Within'  B == Beyond'  E == Left'
<1>1. /\ Within \in [Calls -> Nat] /\ Beyond \in [Calls -> Nat] /\ Left \in [Turns -> Nat] /\ \A x \in Calls : Base(x) \in Nat
  BY BaseTypes
<1>2. /\ W \in [Calls -> Nat] /\ B \in [Calls -> Nat] /\ E \in [Turns -> Nat] /\ \A x \in Calls : Base(x)' \in Nat
  <2>1. \A x \in Calls : Estimate(x)' \in Nat
    <3>1. \A x \in Calls : via'[x] \in Providers
      BY DEF CallTypes
    <3>2. \A p \in Providers : Larger(Quote[p], 0) \in Nat
      BY PlanParts DEF Larger, NoPrice, Unrepresentable
    <3> QED BY <3>1, <3>2 DEF Estimate
  <2>2. ASSUME NEW x \in Calls PROVE Base(x)' \in Nat
    <3>1. Estimate(x)' \in Nat /\ reserved'[x] \in Nat /\ paid'[x] \in Nat \cup {NoBill}
      BY <2>1 DEF BudgetTypes
    <3> QED BY <3>1 DEF Base
  <2>3. \A t \in Turns : (IF HasToken(t) THEN allowance'[t].remaining ELSE 0) \in Nat
    BY DEF AllowanceTypes
  <2> QED BY <2>2, <2>3 DEF Within, Beyond, Left
<1>3. c[1] \in Turns /\ IsFiniteSet(Turns) /\ IsFiniteSet(Calls)
  BY CallParts, FiniteCalls
<1>4. /\ \A x \in Calls \ {c} : Within[x] = W[x] /\ Beyond[x] = B[x]
      /\ HasToken(c[1]) => Within[c] = 0 /\ W[c] = 0 /\ Beyond[c] = Base(c) /\ B[c] = Base(c)'
      /\ ~HasToken(c[1]) => Within[c] = Base(c) /\ W[c] = Base(c)' /\ Beyond[c] = 0 /\ B[c] = 0
  BY DEF Within, Beyond
<1>5. /\ \A t \in Turns \ {c[1]} : Left[t] = E[t]
      /\ HasToken(c[1]) => Left[c[1]] = allowance[c[1]].remaining /\ E[c[1]] = allowance'[c[1]].remaining
      /\ ~HasToken(c[1]) => Left[c[1]] = 0 /\ E[c[1]] = 0
  BY <1>3 DEF Left
<1>6. /\ Within \in [Calls -> Int] /\ Beyond \in [Calls -> Int] /\ Left \in [Turns -> Int]
      /\ W \in [Calls -> Int] /\ B \in [Calls -> Int] /\ E \in [Turns -> Int]
  BY <1>1, <1>2
<1>7. (Foreseen' <=> /\ policy \in {"fail", "pause"} /\ Cap > 0 => SumOf(W, Calls) <= Cap
                     /\ SumOf(B, Calls) + SumOf(E, Turns) <= SumOf(Granted, Turns))
  BY DEF Foreseen, Granted
<1> HIDE DEF W, B, E
<1>8. /\ SumOf(W, Calls) = SumOf(Within, Calls) + W[c] - Within[c] /\ SumOf(Within, Calls) \in Int
      /\ SumOf(B, Calls) = SumOf(Beyond, Calls) + B[c] - Beyond[c] /\ SumOf(Beyond, Calls) \in Int
  BY <1>4, <1>6, OneTerm
<1>9. SumOf(E, Turns) = SumOf(Left, Turns) + E[c[1]] - Left[c[1]] /\ SumOf(Left, Turns) \in Int
  BY <1>3, <1>5, <1>6, SumsCompare
<1>10. SumOf(Granted, Turns) \in Int
  <2>1. Granted \in [Turns -> Int]
    BY BaseTypes
  <2> QED BY <1>3, <2>1, SumsCompare
<1>11. /\ policy \in {"fail", "pause"} /\ Cap > 0 => SumOf(Within, Calls) <= Cap
       /\ SumOf(Beyond, Calls) + SumOf(Left, Turns) <= SumOf(Granted, Turns)
  BY DEF Foreseen
<1>12. Cap \in Nat /\ W[c] \in Nat /\ Within[c] \in Nat /\ B[c] \in Nat /\ Beyond[c] \in Nat /\ E[c[1]] \in Nat /\ Left[c[1]] \in Nat
  BY <1>1, <1>2, <1>3, GovernorAssumption
<1>13. /\ HasToken(c[1]) => B[c] + E[c[1]] <= Beyond[c] + Left[c[1]]
       /\ ~HasToken(c[1]) => B[c] + E[c[1]] = Beyond[c] + Left[c[1]]
  BY <1>4, <1>5
<1>14. policy \in {"fail", "pause"} /\ Cap > 0 => SumOf(Within, Calls) + W[c] - Within[c] <= Cap
  <2>1. CASE HasToken(c[1])
    BY <1>4, <1>8, <1>11, <2>1
  <2>2. CASE ~HasToken(c[1])
    <3>1. Within[c] = Base(c) /\ W[c] = Base(c)'
      BY <1>4, <2>2
    <3>2. policy \in {"fail", "pause"} /\ Cap > 0 => W[c] <= Within[c] \/ SumOf(Within, Calls) + W[c] - Within[c] <= Cap
      BY <2>2, <3>1
    <3> QED BY <1>8, <1>11, <1>12, <3>2
  <2> QED BY <2>1, <2>2
<1>15. SumOf(B, Calls) + SumOf(E, Turns) <= SumOf(Granted, Turns)
  BY <1>8, <1>9, <1>10, <1>11, <1>12, <1>13
<1> QED BY <1>7, <1>8, <1>14, <1>15

(* What was foreseen stays below the cap, and below what was granted. *)
LEMMA ForeseenStep ==
    ASSUME BudgetTypes, AllowanceTypes, StageTypes, CallTypes, InOrder, InOrder', Billed, Reserves, Debits, Accounts, Foreseen, BudgetTypes', CallTypes', AllowanceTypes', MoneyMoves
    PROVE  Foreseen'
<1>0. /\ closed \subseteq closed' /\ \A x \in Calls : x \in closed => stage[x] # "asked"
      /\ \A x \in Calls : x \in closed' => stage'[x] # "asked"
  BY DEF MoneyMoves, InOrder
<1>1. ASSUME SumsStill PROVE Foreseen'
  <2>1. UNCHANGED sumVars /\ (\A t \in Turns : allowance'[t].remaining = allowance[t].remaining) /\ \A x \in Calls : Keeps(x)
    BY <1>1 DEF SumsStill
  <2>2. \A x \in Calls : Base(x)' = Base(x)
    BY <2>1, BaseKept DEF sumVars
  <2>3. Within' = Within /\ Beyond' = Beyond /\ Left' = Left /\ Granted' = Granted
    BY <2>1, <2>2 DEF Within, Beyond, Left, Granted
  <2>4. UNCHANGED policy
    BY <2>1 DEF sumVars
  <2> QED BY <2>3, <2>4 DEF Foreseen
<1>2. ASSUME NEW c \in Calls, Admission(c) PROVE Foreseen'
  <2>1. \A x \in Calls \ {c} : Base(x)' = Base(x)
    <3>1. \A x \in Calls \ {c} : /\ Keeps(x) /\ reserved'[x] = reserved[x] /\ paid'[x] = paid[x]
                                 /\ x \in unknown' <=> x \in unknown
      BY <1>2 DEF Admission, Keeps, StageTypes, BudgetTypes
    <3> QED BY <3>1, BaseKept
  <2>2. UNCHANGED policy /\ c[1] \in Turns /\ Base(c) \in Nat /\ reserved[c] \in Nat
    BY <1>2, CallParts, BaseTypes DEF Admission, BudgetTypes
  <2>3. Base(c) = 0 /\ Base(c)' = Estimate(c) /\ Estimate(c) \in Nat
    <3>1. c \notin unknown /\ paid[c] = NoBill /\ reserved[c] = 0
      BY <1>2 DEF Admission, Billed, Reserves, Holding
    <3>2. c \notin unknown' /\ paid'[c] = NoBill /\ reserved'[c] = Estimate(c)
      BY <1>2, <3>1 DEF Admission, BudgetTypes
    <3> QED BY <3>1, <3>2, TermTypes DEF Base
  <2>4. /\ \A t \in Turns \ {c[1]} : allowance'[t].remaining = allowance[t].remaining
        /\ HasToken(c[1]) => Base(c)' + allowance'[c[1]].remaining <= Base(c) + allowance[c[1]].remaining
        /\ ~HasToken(c[1]) /\ policy \in {"fail", "pause"} /\ Cap > 0 =>
               Base(c)' <= Base(c) \/ SumOf(Within, Calls) + Base(c)' - Base(c) <= Cap
    <3>1. CASE HasToken(c[1])
      <4>1. /\ allowance'[c[1]].remaining = allowance[c[1]].remaining - Estimate(c)
            /\ \A t \in Turns \ {c[1]} : allowance'[t] = allowance[t]
        BY <1>2, <3>1 DEF Admission
      <4>2. allowance[c[1]].remaining \in Nat
        BY <2>2 DEF AllowanceTypes
      <4> QED BY <2>3, <3>1, <4>1, <4>2
    <3>2. CASE ~HasToken(c[1])
      <4>1. /\ UNCHANGED allowance
            /\ policy \in {"fail", "pause"} /\ Cap > 0 =>
                  Estimate(c) = 0 \/ spent + conservative + reservedCost + Estimate(c) <= Cap
        BY <1>2, <3>2 DEF Admission, allowanceVars
      <4>2. SumOf(Within, Calls) <= spent + conservative + reservedCost /\ SumOf(Within, Calls) \in Int
        <5>1. Within \in [Calls -> Int]
          BY BaseTypes
        <5> QED BY <5>1, WithinSums, FiniteCalls, SumsCompare
      <4>3. spent \in Nat /\ conservative \in Nat /\ reservedCost \in Nat /\ Cap \in Nat
        BY GovernorAssumption DEF BudgetTypes
      <4> QED BY <2>3, <3>2, <4>1, <4>2, <4>3
    <3> QED BY <3>1, <3>2
  <2> QED BY <2>1, <2>2, <2>3, <2>4, ForeseenOnce
<1>3. ASSUME NEW c \in Calls, GivenBack(c) PROVE Foreseen'
  <2>1. \A x \in Calls \ {c} : Base(x)' = Base(x)
    <3>1. \A x \in Calls \ {c} : /\ Keeps(x) /\ reserved'[x] = reserved[x] /\ paid'[x] = paid[x]
                                 /\ x \in unknown' <=> x \in unknown
      BY <1>3 DEF GivenBack, Freed, BudgetTypes
    <3> QED BY <3>1, BaseKept
  <2>2. UNCHANGED policy /\ c[1] \in Turns /\ Base(c) \in Nat /\ reserved[c] \in Nat
    BY <1>3, CallParts, BaseTypes DEF GivenBack, Freed, BudgetTypes
  <2>3. Base(c) = reserved[c] /\ Base(c)' = 0
    <3>1. c \notin unknown /\ paid[c] = NoBill
      BY <1>3 DEF GivenBack, Billed, Ongoing, Acquiring
    <3>2. c \notin unknown' /\ paid'[c] = NoBill /\ reserved'[c] = 0
      BY <1>3, <3>1 DEF GivenBack, Freed, BudgetTypes
    <3> QED BY <3>1, <3>2 DEF Base
  <2>4. /\ \A t \in Turns \ {c[1]} : allowance'[t].remaining = allowance[t].remaining
        /\ HasToken(c[1]) => Base(c)' + allowance'[c[1]].remaining <= Base(c) + allowance[c[1]].remaining
        /\ Base(c)' <= Base(c)
    <3>1. Repays(c, reserved[c])
      BY <1>3 DEF GivenBack
    <3>2. /\ \A t \in Turns \ {c[1]} : allowance'[t].remaining = allowance[t].remaining
          /\ allowance[c[1]].remaining \in Nat /\ allowance'[c[1]].remaining \in Nat
      BY <2>2, <3>1 DEF Repays, AllowanceTypes
    <3>3. allowance'[c[1]].remaining <= allowance[c[1]].remaining + reserved[c]
      BY <2>2, <3>1, <3>2 DEF Repays
    <3> QED BY <2>2, <2>3, <3>2, <3>3
  <2> QED BY <2>1, <2>2, <2>3, <2>4, ForeseenOnce
<1>4. ASSUME NEW c \in Calls, NEW cost \in Nat, Charge(c, cost) PROVE Foreseen'
  <2>1. \A x \in Calls \ {c} : Base(x)' = Base(x)
    <3>1. \A x \in Calls \ {c} : /\ Keeps(x) /\ reserved'[x] = reserved[x] /\ paid'[x] = paid[x]
                                 /\ x \in unknown' <=> x \in unknown
      BY <1>4 DEF Charge, Freed, BudgetTypes
    <3> QED BY <3>1, BaseKept
  <2>2. UNCHANGED policy /\ c[1] \in Turns /\ Base(c) \in Nat /\ reserved[c] \in Nat
    BY <1>4, CallParts, BaseTypes DEF Charge, Freed, BudgetTypes
  <2>3. Base(c) = reserved[c] /\ Base(c)' = (IF cost <= reserved[c] THEN cost ELSE reserved[c])
    <3>1. c \notin unknown /\ paid[c] = NoBill
      BY <1>4 DEF Charge, Billed, Ongoing, Acquiring
    <3>2. c \notin unknown' /\ paid'[c] = cost /\ reserved[c] = Estimate(c) /\ Estimate(c)' = Estimate(c)
      BY <1>4, <1>0, <3>1 DEF Charge, Freed, Reserves, Holding, BudgetTypes, Estimate
    <3>3. cost # NoBill
      BY DEF NoBill
    <3> QED BY <3>1, <3>2, <3>3 DEF Base
  <2>4. /\ \A t \in Turns \ {c[1]} : allowance'[t].remaining = allowance[t].remaining
        /\ HasToken(c[1]) => Base(c)' + allowance'[c[1]].remaining <= Base(c) + allowance[c[1]].remaining
        /\ Base(c)' <= Base(c)
    <3>1. Repays(c, Larger(reserved[c] - cost, 0))
      BY <1>4 DEF Charge
    <3>2. /\ \A t \in Turns \ {c[1]} : allowance'[t].remaining = allowance[t].remaining
          /\ allowance[c[1]].remaining \in Nat /\ allowance'[c[1]].remaining \in Nat
      BY <2>2, <3>1 DEF Repays, AllowanceTypes
    <3>3. allowance'[c[1]].remaining <= allowance[c[1]].remaining + Larger(reserved[c] - cost, 0)
      BY <2>2, <3>1, <3>2 DEF Repays, Larger
    <3> QED BY <2>2, <2>3, <3>2, <3>3 DEF Larger
  <2> QED BY <2>1, <2>2, <2>3, <2>4, ForeseenOnce
<1>5. ASSUME NEW c \in Calls, Retention(c) PROVE Foreseen'
  <2>1. \A x \in Calls \ {c} : Base(x)' = Base(x)
    <3>1. \A x \in Calls \ {c} : /\ Keeps(x) /\ reserved'[x] = reserved[x] /\ paid'[x] = paid[x]
                                 /\ x \in unknown' <=> x \in unknown
      BY <1>5 DEF Retention, Freed, BudgetTypes
    <3> QED BY <3>1, BaseKept
  <2>2. UNCHANGED policy /\ c[1] \in Turns /\ Base(c) \in Nat /\ reserved[c] \in Nat
    BY <1>5, CallParts, BaseTypes DEF Retention, Freed, BudgetTypes
  <2>3. Base(c) = reserved[c] /\ Base(c)' = reserved[c]
    <3>1. c \notin unknown /\ paid[c] = NoBill
      BY <1>5 DEF Retention, Billed, Ongoing, Acquiring
    <3>2. c \in unknown' /\ reserved[c] = Estimate(c) /\ Estimate(c)' = Estimate(c)
      BY <1>5, <1>0 DEF Retention, Freed, Reserves, Holding, Estimate
    <3> QED BY <3>1, <3>2 DEF Base
  <2>4. /\ \A t \in Turns \ {c[1]} : allowance'[t].remaining = allowance[t].remaining
        /\ HasToken(c[1]) => Base(c)' + allowance'[c[1]].remaining <= Base(c) + allowance[c[1]].remaining
        /\ Base(c)' <= Base(c)
    <3>1. Repays(c, 0)
      BY <1>5 DEF Retention
    <3>2. /\ \A t \in Turns \ {c[1]} : allowance'[t].remaining = allowance[t].remaining
          /\ allowance[c[1]].remaining \in Nat /\ allowance'[c[1]].remaining \in Nat
      BY <2>2, <3>1 DEF Repays, AllowanceTypes
    <3>3. allowance'[c[1]].remaining <= allowance[c[1]].remaining + 0
      BY <2>2, <3>1, <3>2 DEF Repays
    <3> QED BY <2>2, <2>3, <3>2, <3>3
  <2> QED BY <2>1, <2>2, <2>3, <2>4, ForeseenOnce
<1>6. ASSUME NEW c \in Calls, Receipt(c) PROVE Foreseen'
  <2>1. \A x \in Calls \ {c} : Base(x)' = Base(x)
    <3>1. \A x \in Calls \ {c} : /\ Keeps(x) /\ reserved'[x] = reserved[x] /\ paid'[x] = paid[x]
                                 /\ x \in unknown' <=> x \in unknown
      BY <1>6 DEF Receipt, Keeps, StageTypes, BudgetTypes
    <3> QED BY <3>1, BaseKept
  <2>2. UNCHANGED policy /\ c[1] \in Turns /\ Base(c) \in Nat /\ reserved[c] \in Nat
    BY <1>6, CallParts, BaseTypes DEF Receipt, BudgetTypes
  <2>3. Base(c)' = Base(c)
    <3>1. c \in unknown /\ c \in unknown' /\ Estimate(c)' = Estimate(c)
      BY <1>6 DEF Receipt, Billed, Estimate
    <3> QED BY <3>1 DEF Base
  <2>4. /\ UNCHANGED allowance
        /\ HasToken(c[1]) => Base(c)' + allowance'[c[1]].remaining <= Base(c) + allowance[c[1]].remaining
        /\ Base(c)' <= Base(c)
    <3>1. UNCHANGED allowance /\ allowance[c[1]].remaining \in Nat
      BY <1>6, <2>2 DEF Receipt, allowanceVars, AllowanceTypes
    <3> QED BY <2>2, <2>3, <3>1
  <2> QED BY <2>1, <2>2, <2>3, <2>4, ForeseenOnce
<1> QED BY <1>1, <1>2, <1>3, <1>4, <1>5, <1>6 DEF MoneyMoves

-----------------------------------------------------------------------------
(* What a step does to the books: the ledger, the claims, the log and the    *)
(* commitments.                                                              *)

bookVars == <<ledger, claim, log, commits, unknown, paid, shown, broken, commitBroken>>

Entries == [call: Calls, write: Writes]

(* before a call has its marker *)
Early == Acquiring \ {"marker", "acked"}

(* Call x touches no book. *)
Steady(x) ==
    \/ stage'[x] = stage[x]
    \/ stage[x] \in Early \cup {"none"} /\ stage'[x] \in Early \cup {"over"}
    \/ stage[x] = "acked" /\ stage'[x] = "asked"

BooksStill == UNCHANGED bookVars /\ \A x \in Calls : Steady(x)

MarkerQueued(c) ==
    /\ ledger = <<>> /\ commits = <<>> /\ stage[c] = "begin" /\ stage'[c] = "marker" /\ \A x \in Calls \ {c} : Steady(x)
    /\ ledger' = Append(ledger, [call |-> c, write |-> "pending"])
    /\ UNCHANGED <<claim, log, commits, unknown, paid, shown, broken, commitBroken>>

(* An outcome of call c is accounted for, and its commitment if its usage is not known. *)
OutcomeQueued(c, w) ==
    /\ stage[c] \in {"acked", "asked", "late"} /\ stage'[c] = (IF w = "waiting" THEN "late" ELSE "over")
    /\ stage[c] = "late" => w \in {"settled", "incomplete"}
    /\ stage[c] = "acked" => w = "released"
    /\ claim' = [claim EXCEPT ![c] = IF w = "waiting" THEN "incomplete" ELSE "finished"]
    /\ ledger' = Append(ledger, [call |-> c, write |-> w])
    /\ \/ UNCHANGED <<unknown, commits>> /\ (w \in {"waiting", "incomplete"} => c \in unknown)
       \/ unknown' = unknown \cup {c} /\ commits' = IF Estimate(c) > 0 THEN Append(commits, c) ELSE commits
    /\ w = "released" => UNCHANGED <<paid, unknown>> /\ c \notin shown'
    /\ \A x \in Calls \ {c} : Steady(x) /\ paid'[x] = paid[x] /\ (x \in shown' <=> x \in shown)
    /\ UNCHANGED <<log, broken, commitBroken>>

(* The first write settles. *)
Settles(w) ==
    /\ ledger # <<>> /\ Head(ledger) = w /\ ledger' = Tail(ledger)
    /\ UNCHANGED <<commits, unknown, paid, shown, commitBroken>>

MarkerTaken(c) ==
    /\ ~Aborted /\ Settles([call |-> c, write |-> "pending"]) /\ stage' = [stage EXCEPT ![c] = "acked"]
    /\ log' = [log EXCEPT ![c] = Append(log[c], "pending")] /\ claim' = [claim EXCEPT ![c] = "pending"]
    /\ UNCHANGED broken

MarkerDropped(c) ==
    /\ Settles([call |-> c, write |-> "pending"]) /\ stage' = [stage EXCEPT ![c] = "unmarked"]
    /\ broken' = TRUE /\ UNCHANGED <<log, claim>>

OutcomeTaken(w) ==
    /\ w.write \in Outcomes /\ Settles(w) /\ log' = [log EXCEPT ![w.call] = Append(log[w.call], w.write)]
    /\ UNCHANGED <<stage, claim, broken>>

OutcomeDropped(w) ==
    /\ w.write \in Outcomes /\ Settles(w)
    /\ broken' = TRUE /\ UNCHANGED <<stage, claim, log>>

CommitTaken ==
    /\ commits # <<>> /\ commits' = Tail(commits)
    /\ log' = [log EXCEPT ![Head(commits)] = Append(log[Head(commits)], "committed")]
    /\ UNCHANGED <<stage, claim, ledger, unknown, paid, shown, broken, commitBroken>>

CommitDropped ==
    /\ commits # <<>> /\ commits' = Tail(commits) /\ commitBroken' = TRUE
    /\ UNCHANGED <<stage, claim, ledger, log, unknown, paid, shown, broken>>

BookMoves ==
    \/ BooksStill
    \/ \E c \in Calls : \/ MarkerQueued(c) \/ MarkerTaken(c) \/ MarkerDropped(c)
                        \/ \E w \in Outcomes : OutcomeQueued(c, w)
    \/ \E w \in Entries : OutcomeTaken(w) \/ OutcomeDropped(w)
    \/ CommitTaken \/ CommitDropped

(* A step that writes nothing. *)
LEMMA StillBooks ==
    ASSUME UNCHANGED bookVars, \A x \in Calls : Steady(x)
    PROVE  BookMoves
BY DEF BookMoves, BooksStill

(* settle, and settleAtReservedEstimate, in front of the ledger. *)
LEMMA ChargeBooked ==
    ASSUME BudgetTypes, ClaimTypes, CallTypes, Reserves, NEW c \in Calls, NEW bill \in Nat, Charged(c, bill),
           claim[c] \in {"pending", "incomplete"}
    PROVE  /\ claim' = [claim EXCEPT ![c] = "finished"] /\ ledger' = Append(ledger, [call |-> c, write |-> "settled"])
           /\ UNCHANGED <<commits, unknown, commitBroken>> /\ \A x \in Calls \ {c} : paid'[x] = paid[x]
<1>1. claim' = [claim EXCEPT ![c] = "finished"] /\ ledger' = Append(ledger, [call |-> c, write |-> "settled"])
  BY DEF Charged, Account, MayClaim
<1>2. UNCHANGED unknown /\ \A x \in Calls \ {c} : paid'[x] = paid[x]
  BY DEF Charged, BudgetTypes
<1>3. UNCHANGED <<commits, commitBroken>>
  <2>1. CASE Priced(c)
    BY <2>1 DEF Charged, Settle, commitVars
  <2>2. CASE ~Priced(c)
    <3>1. reserved[c] = 0
      BY <2>2 DEF Reserves, Estimate, Larger, Priced, NoPrice
    <3> QED BY <2>2, <3>1 DEF Charged, SettleAtReservedEstimate
  <2> QED BY <2>1, <2>2
<1> QED BY <1>1, <1>2, <1>3

(* settleAtReservedEstimate in front of the ledger. *)
LEMMA RetentionBooked ==
    ASSUME BudgetTypes, ClaimTypes, CallTypes, Reserves, InOrder, NEW c \in Calls, stage[c] = "asked", claim[c] = "pending",
           NEW kind \in {"retired", "incomplete"}, NEW w, Retained(c, kind, w)
    PROVE  /\ claim' = [claim EXCEPT ![c] = IF kind = "incomplete" THEN "incomplete" ELSE "finished"]
           /\ ledger' = Append(ledger, [call |-> c, write |-> w])
           /\ unknown' = unknown \cup {c} /\ commits' = (IF Estimate(c) > 0 THEN Append(commits, c) ELSE commits)
           /\ UNCHANGED <<commitBroken, paid>>
<1>1. /\ claim' = [claim EXCEPT ![c] = IF kind = "incomplete" THEN "incomplete" ELSE "finished"]
      /\ ledger' = Append(ledger, [call |-> c, write |-> w])
  BY DEF Retained, Account, MayClaim
<1>2. unknown' = unknown \cup {c} /\ UNCHANGED paid /\ SettleAtReservedEstimate(c, Live(c[1]))
  BY DEF Retained
<1>3. reserved[c] = Estimate(c)
  BY DEF Reserves, InOrder, Holding
<1>4. commits' = (IF Estimate(c) > 0 THEN Append(commits, c) ELSE commits) /\ UNCHANGED commitBroken
  <2> HIDE DEF Estimate
  <2> QED BY <1>2, <1>3 DEF SettleAtReservedEstimate
<1> QED BY <1>1, <1>2, <1>4

(* release in front of the ledger. *)
LEMMA ReleaseBooked ==
    ASSUME ClaimTypes, NEW c \in Calls, claim[c] = "pending", NEW kind \in {"retired", "released"},
           Release(c, Live(c[1])), Account(c, kind, "released")
    PROVE  /\ claim' = [claim EXCEPT ![c] = "finished"] /\ ledger' = Append(ledger, [call |-> c, write |-> "released"])
           /\ UNCHANGED <<commits, commitBroken>>
BY DEF Release, commitVars, Account, MayClaim

(* Every step is one of these moves. *)
LEMMA BooksCover ==
    ASSUME BudgetTypes, ClaimTypes, StageTypes, CallTypes, ChainTypes, TurnTypes, Numbered, Reserves, InOrder, Billed, Claimed, [Next]_vars
    PROVE  BookMoves
<1>1. ASSUME UNCHANGED vars \/ Cancel \/ LegacyJobSettles PROVE BookMoves
  <2>1. UNCHANGED <<bookVars, stage>>
    BY <1>1 DEF vars, governorVars, moneyVars, callVars, commitVars,
        bookVars, Cancel, Outside, LegacyJobSettles
  <2> QED BY <2>1, StillBooks DEF Steady
<1>2. ASSUME NEW c \in Calls, PreAttemptJoined(c) PROVE BookMoves
  <2>1. UNCHANGED bookVars
    BY <1>2 DEF PreAttemptJoined, JoinEnds, bookVars
  <2>2. stage[c] \in {"join"} /\ \E s \in {"check", "over"} : stage' = [stage EXCEPT ![c] = s]
    BY <1>2, EndStage DEF PreAttemptJoined, At
  <2>3. \A x \in Calls : Steady(x)
    BY <2>2 DEF Steady, StageTypes, Early, Acquiring
  <2> QED BY <2>1, <2>3, StillBooks
<1>3. ASSUME NEW c \in Calls, CheckFails(c) PROVE BookMoves
  <2>1. UNCHANGED bookVars
    BY <1>3 DEF CheckFails, bookVars
  <2>2. stage[c] \in {"check"} /\ \E s \in {"over"} : stage' = [stage EXCEPT ![c] = s]
    BY <1>3, EndStage DEF CheckFails, At
  <2>3. \A x \in Calls : Steady(x)
    BY <2>2 DEF Steady, StageTypes, Early, Acquiring
  <2> QED BY <2>1, <2>3, StillBooks
<1>4. ASSUME NEW c \in Calls, CheckHeld(c) PROVE BookMoves
  <2>1. UNCHANGED bookVars
    BY <1>4 DEF CheckHeld, governorVars, moneyVars, commitVars, bookVars
  <2>2. stage[c] \in {"check"} /\ \E s \in {"held"} : stage' = [stage EXCEPT ![c] = s]
    BY <1>4, EndStage DEF CheckHeld, At
  <2>3. \A x \in Calls : Steady(x)
    BY <2>2 DEF Steady, StageTypes, Early, Acquiring
  <2> QED BY <2>1, <2>3, StillBooks
<1>5. ASSUME NEW c \in Calls, Evaluate(c) PROVE BookMoves
  <2>1. UNCHANGED bookVars
    BY <1>5 DEF Evaluate, commitVars, bookVars
  <2>2. stage[c] \in {"check", "held"} /\ \E s \in {"over", "begin", "warned", "told"} : stage' = [stage EXCEPT ![c] = s]
    <3>1. stage[c] \in {"check", "held"}
      BY <1>5 DEF Evaluate, At
    <3>2. \/ \E kind \in {"other", "pause"} : Ends(c, kind, FALSE, "over")
          \/ stage' = [stage EXCEPT ![c] = "begin"]
          \/ stage' = [stage EXCEPT ![c] = IF AwaitsWarning THEN "warned" ELSE "told"]
      BY <1>5 DEF Evaluate, Begins
    <3>3. (IF AwaitsWarning THEN "warned" ELSE "told") \in {"warned", "told"}
      OBVIOUS
    <3> QED BY <3>1, <3>2, <3>3, EndStage
  <2>3. \A x \in Calls : Steady(x)
    BY <2>2 DEF Steady, StageTypes, Early, Acquiring
  <2> QED BY <2>1, <2>3, StillBooks
<1>6. ASSUME NEW c \in Calls, Admitted(c) PROVE BookMoves
  <2>1. UNCHANGED bookVars
    BY <1>6 DEF Admitted, Release, commitVars, bookVars
  <2>2. stage[c] \in {"told"} /\ \E s \in {"over", "begin"} : stage' = [stage EXCEPT ![c] = s]
    BY <1>6, EndStage DEF Admitted, At, Begins
  <2>3. \A x \in Calls : Steady(x)
    BY <2>2 DEF Steady, StageTypes, Early, Acquiring
  <2> QED BY <2>1, <2>3, StillBooks
<1>7. ASSUME NEW c \in Calls, BeginJoined(c) PROVE BookMoves
  <2>1. stage[c] = "begin" /\ UNCHANGED <<claim, log, commits, unknown, paid, shown, broken, commitBroken>>
    BY <1>7 DEF BeginJoined, At, JoinEnds
  <2>2. CASE JoinFailed
    <3>1. UNCHANGED ledger /\ stage' = [stage EXCEPT ![c] = "over"]
      BY <1>7, <2>2, EndStage DEF BeginJoined
    <3>2. \A x \in Calls : Steady(x)
      BY <2>1, <3>1 DEF Steady, StageTypes, Early, Acquiring
    <3> QED BY <2>1, <3>1, <3>2, StillBooks DEF bookVars
  <2>3. CASE ~JoinFailed
    <3>1. ledger' = Append(ledger, [call |-> c, write |-> "pending"]) /\ stage' = [stage EXCEPT ![c] = "marker"]
      BY <1>7, <2>3 DEF BeginJoined
    <3>0. ledger = <<>> /\ commits = <<>>
      BY <1>7, <2>3 DEF BeginJoined, JoinDone, JoinMoves, JoinFailed
    <3>2. MarkerQueued(c)
      BY <2>1, <3>0, <3>1 DEF MarkerQueued, Steady, StageTypes
    <3> QED BY <3>2 DEF BookMoves
  <2> QED BY <2>2, <2>3
<1>8. ASSUME NEW c \in Calls, Unmarked(c) PROVE BookMoves
  <2>1. UNCHANGED bookVars
    BY <1>8 DEF Unmarked, Release, commitVars, bookVars
  <2>2. stage[c] \in {"unmarked"} /\ \E s \in {"over"} : stage' = [stage EXCEPT ![c] = s]
    BY <1>8, EndStage DEF Unmarked, At
  <2>3. \A x \in Calls : Steady(x)
    BY <2>2 DEF Steady, StageTypes, Early, Acquiring
  <2> QED BY <2>1, <2>3, StillBooks
<1>9. ASSUME NEW c \in Calls, NotAsked(c) PROVE BookMoves
  <2>1. stage[c] = "acked" /\ claim[c] = "pending" /\ c \notin shown
    BY <1>9 DEF NotAsked, At, Claimed, InOrder
  <2>2. \E kind \in {"other", "auth"}, renews \in BOOLEAN : Uninvoked(c, kind, renews)
    BY <1>9 DEF NotAsked
  <2>3. PICK kind \in {"retired", "released"} : Release(c, Live(c[1])) /\ Account(c, kind, "released")
    BY <2>2 DEF Uninvoked
  <2>4. stage' = [stage EXCEPT ![c] = "over"] /\ UNCHANGED <<log, unknown, paid, shown, broken>>
    BY <2>2, EndStage DEF Uninvoked
  <2>5. /\ claim' = [claim EXCEPT ![c] = "finished"] /\ ledger' = Append(ledger, [call |-> c, write |-> "released"])
        /\ UNCHANGED <<commits, commitBroken>>
    BY <2>1, <2>3, ReleaseBooked
  <2>6. OutcomeQueued(c, "released")
    BY <2>1, <2>4, <2>5 DEF OutcomeQueued, Steady, StageTypes
  <2> QED BY <2>6 DEF BookMoves, Outcomes
<1>10. ASSUME NEW c \in Calls, Ask(c) PROVE BookMoves
  <2>1. UNCHANGED bookVars
    BY <1>10 DEF Ask, governorVars, moneyVars, commitVars, bookVars
  <2>2. stage[c] \in {"acked"} /\ \E s \in {"asked"} : stage' = [stage EXCEPT ![c] = s]
    BY <1>10, EndStage DEF Ask, At
  <2>3. \A x \in Calls : Steady(x)
    BY <2>2 DEF Steady, StageTypes, Early, Acquiring
  <2> QED BY <2>1, <2>3, StillBooks
<1>11. ASSUME NEW c \in Calls, Succeed(c) PROVE BookMoves
  <2>1. /\ stage[c] = "asked" /\ claim[c] = "pending" /\ stage' = [stage EXCEPT ![c] = "over"]
        /\ UNCHANGED <<log, broken>> /\ shown' \in {shown, shown \cup {c}}
    BY <1>11, EndStage DEF Succeed, At, Claimed, AnswerFrame, Answered
  <2>2. CASE \E bill \in Bills : Charged(c, bill)
    <3>1. /\ claim' = [claim EXCEPT ![c] = "finished"] /\ ledger' = Append(ledger, [call |-> c, write |-> "settled"])
          /\ UNCHANGED <<commits, unknown, commitBroken>> /\ \A x \in Calls \ {c} : paid'[x] = paid[x]
      BY <2>1, <2>2, PlanParts, ChargeBooked
    <3>2. OutcomeQueued(c, "settled")
      BY <2>1, <3>1 DEF OutcomeQueued, Steady, StageTypes
    <3> QED BY <3>2 DEF BookMoves, Outcomes
  <2>3. CASE Retained(c, "retired", "incomplete")
    <3>1. /\ claim' = [claim EXCEPT ![c] = "finished"] /\ ledger' = Append(ledger, [call |-> c, write |-> "incomplete"])
          /\ unknown' = unknown \cup {c} /\ commits' = (IF Estimate(c) > 0 THEN Append(commits, c) ELSE commits)
          /\ UNCHANGED <<commitBroken, paid>>
      BY <2>1, <2>3, RetentionBooked
    <3>2. OutcomeQueued(c, "incomplete")
      BY <2>1, <3>1 DEF OutcomeQueued, Steady, StageTypes
    <3> QED BY <3>2 DEF BookMoves, Outcomes
  <2> QED BY <1>11, <2>2, <2>3 DEF Succeed
<1>12. ASSUME NEW c \in Calls, Fail(c) PROVE BookMoves
  <2>1. /\ stage[c] = "asked" /\ claim[c] = "pending" /\ stage' = [stage EXCEPT ![c] = "over"]
        /\ UNCHANGED <<log, broken>> /\ shown' \in {shown, shown \cup {c}}
    BY <1>12, EndStage DEF Fail, At, Claimed, AnswerFrame, Shown
  <2>2. CASE \E bill \in Bills : Charged(c, bill)
    <3>1. /\ claim' = [claim EXCEPT ![c] = "finished"] /\ ledger' = Append(ledger, [call |-> c, write |-> "settled"])
          /\ UNCHANGED <<commits, unknown, commitBroken>> /\ \A x \in Calls \ {c} : paid'[x] = paid[x]
      BY <2>1, <2>2, PlanParts, ChargeBooked
    <3>2. OutcomeQueued(c, "settled")
      BY <2>1, <3>1 DEF OutcomeQueued, Steady, StageTypes
    <3> QED BY <3>2 DEF BookMoves, Outcomes
  <2>3. CASE Retained(c, "retired", "incomplete")
    <3>1. /\ claim' = [claim EXCEPT ![c] = "finished"] /\ ledger' = Append(ledger, [call |-> c, write |-> "incomplete"])
          /\ unknown' = unknown \cup {c} /\ commits' = (IF Estimate(c) > 0 THEN Append(commits, c) ELSE commits)
          /\ UNCHANGED <<commitBroken, paid>>
      BY <2>1, <2>3, RetentionBooked
    <3>2. OutcomeQueued(c, "incomplete")
      BY <2>1, <3>1 DEF OutcomeQueued, Steady, StageTypes
    <3> QED BY <3>2 DEF BookMoves, Outcomes
  <2>4. CASE Release(c, Live(c[1])) /\ Account(c, "released", "released") /\ UNCHANGED <<paid, total, unknown>> /\ c \notin shown'
    <3>1. /\ claim' = [claim EXCEPT ![c] = "finished"] /\ ledger' = Append(ledger, [call |-> c, write |-> "released"])
          /\ UNCHANGED <<commits, commitBroken>>
      BY <2>1, <2>4, ReleaseBooked
    <3>2. OutcomeQueued(c, "released")
      BY <2>1, <2>4, <3>1 DEF OutcomeQueued, Steady, StageTypes
    <3> QED BY <3>2 DEF BookMoves, Outcomes
  <2> QED BY <1>12, <2>2, <2>3, <2>4 DEF Fail, Refusable
<1>13. ASSUME NEW c \in Calls, Deadline(c) PROVE BookMoves
  <2>1. /\ stage[c] = "asked" /\ claim[c] = "pending" /\ stage' = [stage EXCEPT ![c] = "late"]
        /\ UNCHANGED <<log, broken>> /\ shown' \in {shown, shown \cup {c}}
    <3>1. \E kind \in {"other", "retryable"} : Ends(c, kind, FALSE, "late")
      BY <1>13 DEF Deadline
    <3>2. stage' = [stage EXCEPT ![c] = "late"]
      BY <3>1, EndStage
    <3> QED BY <1>13, <3>2 DEF Deadline, At, Claimed, AnswerFrame, Shown
  <2>2. Retained(c, "incomplete", "waiting")
    BY <1>13 DEF Deadline
  <2>3. /\ claim' = [claim EXCEPT ![c] = "incomplete"] /\ ledger' = Append(ledger, [call |-> c, write |-> "waiting"])
          /\ unknown' = unknown \cup {c} /\ commits' = (IF Estimate(c) > 0 THEN Append(commits, c) ELSE commits)
          /\ UNCHANGED <<commitBroken, paid>>
      BY <2>1, <2>2, RetentionBooked
  <2>4. OutcomeQueued(c, "waiting")
      BY <2>1, <2>3 DEF OutcomeQueued, Steady, StageTypes
  <2> QED BY <2>4 DEF BookMoves, Outcomes
<1>14. ASSUME NEW c \in Calls, RetryClosed(c) PROVE BookMoves
  <2>1. UNCHANGED <<bookVars, stage>>
    BY <1>14 DEF RetryClosed, commitVars, Release, bookVars, callVars
  <2> QED BY <2>1, StillBooks DEF Steady
<1>15. ASSUME NEW c \in Calls, NativeRetry(c) PROVE BookMoves
  <2>1. PICK d \in Calls : Retried(c, d)
    BY <1>15, Retries
  <2>2. /\ stage[c] = "asked" /\ claim[c] = "pending" /\ c \notin shown /\ stage'[c] = "over" /\ UNCHANGED <<log, broken, shown>>
        /\ \A x \in Calls \ {c} : Steady(x)
    BY <1>15, <2>1 DEF NativeRetry, At, Claimed, InOrder, Retried, Steady, Early, Acquiring
  <2>3. CASE Release(c, Live(c[1])) /\ Account(c, "released", "released") /\ UNCHANGED <<paid, total, unknown>>
    <3>1. /\ claim' = [claim EXCEPT ![c] = "finished"] /\ ledger' = Append(ledger, [call |-> c, write |-> "released"])
          /\ UNCHANGED <<commits, commitBroken>>
      BY <2>2, <2>3, ReleaseBooked
    <3>2. OutcomeQueued(c, "released")
      BY <2>2, <2>3, <3>1 DEF OutcomeQueued
    <3> QED BY <3>2 DEF BookMoves, Outcomes
  <2>4. CASE Retained(c, "retired", "incomplete")
    <3>1. /\ claim' = [claim EXCEPT ![c] = "finished"] /\ ledger' = Append(ledger, [call |-> c, write |-> "incomplete"])
          /\ unknown' = unknown \cup {c} /\ commits' = (IF Estimate(c) > 0 THEN Append(commits, c) ELSE commits)
          /\ UNCHANGED <<commitBroken, paid>>
      BY <2>2, <2>4, RetentionBooked
    <3>2. OutcomeQueued(c, "incomplete")
      BY <2>2, <3>1 DEF OutcomeQueued
    <3> QED BY <3>2 DEF BookMoves, Outcomes
  <2> QED BY <1>15, <2>3, <2>4 DEF NativeRetry
<1>16. ASSUME NEW c \in Calls, LateReceipt(c) PROVE BookMoves
  <2>1. /\ stage[c] = "late" /\ claim[c] = "incomplete" /\ c \in unknown /\ stage' = [stage EXCEPT ![c] = "over"]
        /\ UNCHANGED <<log, broken, shown, unknown>>
    BY <1>16 DEF LateReceipt, At, Claimed, Billed, AnswerFrame
  <2>2. /\ UNCHANGED <<commits, commitBroken>> /\ \A x \in Calls \ {c} : paid'[x] = paid[x]
        /\ Account(c, "complete", "settled") \/ Account(c, "retired", "incomplete")
    BY <1>16 DEF LateReceipt, UpdateCost, commitVars, BudgetTypes
  <2>3. PICK w \in {"settled", "incomplete"} :
           claim' = [claim EXCEPT ![c] = "finished"] /\ ledger' = Append(ledger, [call |-> c, write |-> w])
    BY <2>1, <2>2 DEF Account, MayClaim
  <2>4. OutcomeQueued(c, w)
    BY <2>1, <2>2, <2>3 DEF OutcomeQueued, Steady, StageTypes
  <2> QED BY <2>4 DEF BookMoves, Outcomes
<1>17. ASSUME NEW t \in Turns,
              ChainFails(t) \/ EntryPassed(t) \/ ToolsJoined(t) \/ ToolsReturn(t) \/ TurnCaptured(t) \/
              DispatchEnds(t)
       PROVE  BookMoves
  <2>1. UNCHANGED <<bookVars, stage>>
    BY <1>17 DEF ChainFails, StandsStill, governorVars, callVars,
        commitVars, bookVars, EntryPassed, ToolsJoined, JoinEnds, JoinFrame, ToolsReturn, TurnCaptured,
        DispatchEnds
  <2> QED BY <2>1, StillBooks DEF Steady
<1>18. ASSUME NEW t \in Turns, StartAttempt(t) PROVE BookMoves
  <2>1. PICK d \in Calls : Started(t, d)
    BY <1>18, Starts
  <2>2. \A x \in Calls : Steady(x)
    BY <2>1 DEF Started, Steady, Early, Acquiring
  <2>3. UNCHANGED bookVars
    BY <1>18 DEF StartAttempt, governorVars, NewCall, commitVars, bookVars
  <2> QED BY <2>2, <2>3, StillBooks
<1>19. ASSUME NEW t \in Turns, Abandon(t) PROVE BookMoves
  <2>1. UNCHANGED <<bookVars, stage>>
    BY <1>19 DEF Abandon, Outside, commitVars, moneyVars, callVars,
        bookVars
  <2> QED BY <2>1, StillBooks DEF Steady
<1>20. ASSUME NEW t \in Turns, NEW p \in Providers, CoolsOff(t, p) PROVE BookMoves
  <2>1. UNCHANGED <<bookVars, stage>>
    BY <1>20 DEF CoolsOff, Outside, commitVars, moneyVars, callVars,
        bookVars
  <2> QED BY <2>1, StillBooks DEF Steady
<1>21. ASSUME NEW j \in Joiners, Loops(j) PROVE BookMoves
  <2>1. UNCHANGED <<bookVars, stage>>
    BY <1>21 DEF Loops, JoinLoops, callVars, governorVars,
        commitVars, bookVars
  <2> QED BY <2>1, StillBooks DEF Steady
<1>22. ASSUME OutcomeSettles PROVE BookMoves
  <2>1. PICK w \in Entries : OutcomeTaken(w) \/ OutcomeDropped(w)
    BY <1>22 DEF OutcomeSettles, OutcomeLands, OutcomeLost, Settled, OutcomeTaken, OutcomeDropped, Settles, commitVars, callVars,
       Entries, Writes
  <2> QED BY <2>1 DEF BookMoves
<1>23. ASSUME MarkerSettles PROVE BookMoves
  <2>1. PICK c \in Calls : MarkerTaken(c) \/ MarkerDropped(c)
    BY <1>23 DEF MarkerSettles, MarkerLands, MarkerRefused, MarkerLost, Settled, MarkerTaken, MarkerDropped, Settles, commitVars
  <2> QED BY <2>1 DEF BookMoves
<1>24. ASSUME CommitSettles PROVE BookMoves
  <2>1. CommitTaken \/ CommitDropped
    BY <1>24 DEF CommitSettles, CommitLands, CommitLost, CommitTaken, CommitDropped, callVars
  <2> QED BY <2>1 DEF BookMoves
<1>25. ASSUME WarningAppended PROVE BookMoves
  <2>1. UNCHANGED bookVars
    BY <1>25 DEF WarningAppended, commitVars, moneyVars, bookVars
  <2>2. \A x \in Calls : Steady(x)
    BY <1>25 DEF WarningAppended, Told, Steady, StageTypes, Early, Acquiring
  <2> QED BY <2>1, <2>2, StillBooks
<1>26. ASSUME WarningThrows PROVE BookMoves
  <2>1. UNCHANGED bookVars
    BY <1>26 DEF WarningThrows, commitVars, moneyVars, bookVars
  <2>2. \A x \in Calls : Steady(x)
    BY <1>26 DEF WarningThrows, Told, Steady, StageTypes, Early, Acquiring
  <2> QED BY <2>1, <2>2, StillBooks
<1> QED BY <1>1, <1>2, <1>3, <1>4, <1>5, <1>6, <1>7, <1>8, <1>9, <1>10, <1>11, <1>12, <1>13, <1>14, <1>15, <1>16, <1>17, <1>18, <1>19, <1>20, <1>21, <1>22, <1>23, <1>24, <1>25, <1>26, StepCases DEF StepKinds

(* What is at the end of a sequence, and what its tail leaves. *)
LEMMA AppendFacts ==
    ASSUME NEW S, NEW s \in Seq(S), NEW e \in S
    PROVE  /\ Append(s, e) \in Seq(S) /\ Len(Append(s, e)) = Len(s) + 1 /\ Len(s) \in Nat
           /\ DOMAIN Append(s, e) = 1..(Len(s) + 1) /\ DOMAIN s = 1..Len(s)
           /\ Append(s, e)[Len(s) + 1] = e /\ \A i \in 1..Len(s) : Append(s, e)[i] = s[i]
OBVIOUS

(* A sequence without its head. *)
LEMMA TailFacts ==
    ASSUME NEW S, NEW s \in Seq(S), s # <<>>
    PROVE  /\ Tail(s) \in Seq(S) /\ Len(Tail(s)) = Len(s) - 1 /\ Len(s) \in Nat \ {0}
           /\ DOMAIN Tail(s) = 1..(Len(s) - 1) /\ DOMAIN s = 1..Len(s)
           /\ Head(s) = s[1] /\ Head(s) \in S /\ \A i \in 1..(Len(s) - 1) : Tail(s)[i] = s[i + 1]
OBVIOUS

(* An entry of the ledger. *)
LEMMA EntryFacts ==
    ASSUME LedgerTypes
    PROVE  /\ ledger \in Seq(Entries)
           /\ \A c \in Calls, w \in Writes : /\ [call |-> c, write |-> w] \in Entries
                                             /\ [call |-> c, write |-> w].call = c /\ [call |-> c, write |-> w].write = w
           /\ \A e \in Entries : e.call \in Calls /\ e.write \in Writes /\ e = [call |-> e.call, write |-> e.write]
BY DEF LedgerTypes, Entries

(* What a write that is queued, or that settles, adds and leaves. *)
LEMMA QueuedAppend ==
    ASSUME LedgerTypes, NEW c \in Calls, NEW w \in Writes, ledger' = Append(ledger, [call |-> c, write |-> w])
    PROVE  /\ ledger' \in Seq(Entries)
           /\ \A x \in Calls, v \in Writes : Queued(x, v)' <=> Queued(x, v) \/ (x = c /\ v = w)
<1> DEFINE e == [call |-> c, write |-> w]
<1>1. ledger \in Seq(Entries) /\ e \in Entries /\ e.call = c /\ e.write = w
  BY EntryFacts
<1> HIDE DEF e
<1>2. ledger' = Append(ledger, e)
  BY DEF e
<1>3. /\ ledger' \in Seq(Entries) /\ DOMAIN ledger' = 1..(Len(ledger) + 1) /\ DOMAIN ledger = 1..Len(ledger) /\ Len(ledger) \in Nat
      /\ ledger'[Len(ledger) + 1] = e /\ \A i \in 1..Len(ledger) : ledger'[i] = ledger[i]
  BY <1>1, <1>2, AppendFacts
<1>4. \A x \in Calls, v \in Writes : Queued(x, v)' <=> Queued(x, v) \/ (x = c /\ v = w)
  BY <1>1, <1>3 DEF Queued
<1> QED BY <1>3, <1>4

(* What is queued once the first write has settled. *)
LEMMA QueuedTail ==
    ASSUME LedgerTypes, ledger # <<>>, ledger' = Tail(ledger)
    PROVE  /\ ledger' \in Seq(Entries) /\ Head(ledger) \in Entries /\ Queued(Head(ledger).call, Head(ledger).write)
           /\ \A x \in Calls, v \in Writes :
                 /\ Queued(x, v)' => Queued(x, v)
                 /\ Queued(x, v) => Queued(x, v)' \/ (x = Head(ledger).call /\ v = Head(ledger).write)
<1>1. ledger \in Seq(Entries)
  BY EntryFacts
<1>2. /\ ledger' \in Seq(Entries) /\ DOMAIN ledger' = 1..(Len(ledger) - 1) /\ DOMAIN ledger = 1..Len(ledger) /\ Len(ledger) \in Nat \ {0}
      /\ Head(ledger) = ledger[1] /\ Head(ledger) \in Entries /\ \A i \in 1..(Len(ledger) - 1) : ledger'[i] = ledger[i + 1]
  BY <1>1, TailFacts
<1>3. ASSUME NEW x \in Calls, NEW v \in Writes
      PROVE  /\ Queued(x, v)' => Queued(x, v)
             /\ Queued(x, v) => Queued(x, v)' \/ (x = Head(ledger).call /\ v = Head(ledger).write)
  <2>1. ASSUME NEW i \in DOMAIN ledger', ledger'[i].call = x, ledger'[i].write = v PROVE Queued(x, v)
    BY <1>2, <2>1 DEF Queued
  <2>2. ASSUME NEW i \in DOMAIN ledger, ledger[i].call = x, ledger[i].write = v, i # 1 PROVE Queued(x, v)'
    <3>1. i - 1 \in 1..(Len(ledger) - 1) /\ ledger'[i - 1] = ledger[i]
      BY <1>2, <2>2
    <3> QED BY <1>2, <2>2, <3>1 DEF Queued
  <2> QED BY <1>2, <2>1, <2>2 DEF Queued
<1>4. Queued(Head(ledger).call, Head(ledger).write)
  BY <1>2 DEF Queued
<1> QED BY <1>2, <1>3, <1>4

(* What is logged once a write has landed. *)
LEMMA LoggedAppend ==
    ASSUME LogTypes, NEW c \in Calls, NEW w \in Writes \cup {"committed"}, log' = [log EXCEPT ![c] = Append(log[c], w)]
    PROVE  /\ log' \in [Calls -> Seq(Writes \cup {"committed"})] /\ \A x \in Calls \ {c} : log'[x] = log[x]
           /\ \A x \in Calls, v \in Writes \cup {"committed"} : Logged(x, v)' <=> Logged(x, v) \/ (x = c /\ v = w)
           /\ \A x \in Calls : log[x] # <<>> => log'[x] # <<>> /\ log'[x][1] = log[x][1]
           /\ log'[c] # <<>> /\ (log[c] = <<>> => log'[c][1] = w)
           /\ DOMAIN log[c] = 1..Len(log[c]) /\ Len(log[c]) \in Nat /\ DOMAIN log'[c] = 1..(Len(log[c]) + 1)
           /\ log'[c][Len(log[c]) + 1] = w /\ \A i \in 1..Len(log[c]) : log'[c][i] = log[c][i]
<1> DEFINE A == Writes \cup {"committed"}
           s == log[c]
<1>1. s \in Seq(A) /\ w \in A
  BY DEF LogTypes
<1>2. log' \in [Calls -> Seq(A)] /\ log'[c] = Append(s, w) /\ \A x \in Calls \ {c} : log'[x] = log[x]
  <2>1. Append(s, w) \in Seq(A)
    BY <1>1, AppendFacts
  <2> HIDE DEF A
  <2> QED BY <2>1 DEF LogTypes, A
<1> HIDE DEF A
<1>3. /\ Len(s) \in Nat /\ DOMAIN Append(s, w) = 1..(Len(s) + 1) /\ DOMAIN s = 1..Len(s)
      /\ Append(s, w)[Len(s) + 1] = w /\ \A i \in 1..Len(s) : Append(s, w)[i] = s[i]
  BY <1>1, AppendFacts
<1>4. /\ s # <<>> => Append(s, w) # <<>> /\ Append(s, w)[1] = s[1]
      /\ Append(s, w) # <<>> /\ (s = <<>> => Append(s, w)[1] = w)
  BY <1>1
<1>5. \A v \in A : Logged(c, v)' <=> Logged(c, v) \/ v = w
  <2>1. log'[c] = Append(s, w)
    BY <1>2
  <2> QED BY <1>3, <2>1 DEF Logged
<1>6. \A x \in Calls \ {c}, v \in A : Logged(x, v)' <=> Logged(x, v)
  BY <1>2 DEF Logged
<1>7. \A x \in Calls : log[x] # <<>> => log'[x] # <<>> /\ log'[x][1] = log[x][1]
  BY <1>2, <1>4
<1> QED BY <1>2, <1>3, <1>4, <1>5, <1>6, <1>7 DEF A

(* The books keep their types. *)
LEMMA BooksTyped ==
    ASSUME StageTypes, LedgerTypes, ClaimTypes, LogTypes, CommitTypes, BookMoves
    PROVE  ledger' \in Seq(Entries) /\ ClaimTypes' /\ LogTypes' /\ commits' \in Seq(Calls) /\ unknown' \subseteq Calls
<1>1. ASSUME BooksStill PROVE ledger' \in Seq(Entries) /\ ClaimTypes' /\ LogTypes' /\ commits' \in Seq(Calls) /\ unknown' \subseteq Calls
  <2>1. UNCHANGED <<ledger, claim, log, commits, unknown>>
    BY <1>1 DEF BooksStill, bookVars
  <2> QED BY <2>1, EntryFacts DEF ClaimTypes, LogTypes, CommitTypes
<1>2. ASSUME NEW c \in Calls, MarkerQueued(c) PROVE ledger' \in Seq(Entries) /\ ClaimTypes' /\ LogTypes' /\ commits' \in Seq(Calls) /\ unknown' \subseteq Calls
  <2>1. "pending" \in Writes /\ ledger' = Append(ledger, [call |-> c, write |-> "pending"])
    BY <1>2 DEF Writes, MarkerQueued
  <2>2. ledger' \in Seq(Entries)
    BY <2>1, QueuedAppend
  <2>3. ClaimTypes' /\ LogTypes' /\ unknown' \subseteq Calls /\ (commits' = commits \/ commits' = Append(commits, c))
    BY <1>2 DEF MarkerQueued, ClaimTypes, LogTypes, CommitTypes
  <2>4. commits' \in Seq(Calls)
    BY <2>3, AppendFacts DEF CommitTypes
  <2> QED BY <2>2, <2>3, <2>4
<1>3. ASSUME NEW c \in Calls, NEW w \in Outcomes, OutcomeQueued(c, w) PROVE ledger' \in Seq(Entries) /\ ClaimTypes' /\ LogTypes' /\ commits' \in Seq(Calls) /\ unknown' \subseteq Calls
  <2>1. w \in Writes /\ ledger' = Append(ledger, [call |-> c, write |-> w])
    BY <1>3 DEF Writes, OutcomeQueued
  <2>2. ledger' \in Seq(Entries)
    BY <2>1, QueuedAppend
  <2>3. ClaimTypes' /\ LogTypes' /\ unknown' \subseteq Calls /\ (commits' = commits \/ commits' = Append(commits, c))
    BY <1>3 DEF OutcomeQueued, ClaimTypes, LogTypes, CommitTypes
  <2>4. commits' \in Seq(Calls)
    BY <2>3, AppendFacts DEF CommitTypes
  <2> QED BY <2>2, <2>3, <2>4
<1>4. ASSUME NEW c \in Calls, MarkerTaken(c) PROVE ledger' \in Seq(Entries) /\ ClaimTypes' /\ LogTypes' /\ commits' \in Seq(Calls) /\ unknown' \subseteq Calls
  <2>1. ledger' \in Seq(Entries)
    BY <1>4, QueuedTail DEF MarkerTaken, Settles
  <2>2. c \in Calls /\ "pending" \in Writes \cup {"committed"} /\ log' = [log EXCEPT ![c] = Append(log[c], "pending")]
    BY <1>4 DEF Entries, Writes, MarkerTaken
  <2>3. LogTypes'
    BY <2>2, LoggedAppend DEF LogTypes
  <2>4. ClaimTypes' /\ commits' \in Seq(Calls) /\ unknown' \subseteq Calls
    BY <1>4 DEF MarkerTaken, Settles, ClaimTypes, CommitTypes
  <2> QED BY <2>1, <2>3, <2>4
<1>5. ASSUME NEW c \in Calls, MarkerDropped(c) PROVE ledger' \in Seq(Entries) /\ ClaimTypes' /\ LogTypes' /\ commits' \in Seq(Calls) /\ unknown' \subseteq Calls
  <2>1. ledger' \in Seq(Entries)
    BY <1>5, QueuedTail DEF MarkerDropped, Settles
  <2>3. LogTypes'
    BY <1>5 DEF MarkerDropped, LogTypes
  <2>4. ClaimTypes' /\ commits' \in Seq(Calls) /\ unknown' \subseteq Calls
    BY <1>5 DEF MarkerDropped, Settles, ClaimTypes, CommitTypes
  <2> QED BY <2>1, <2>3, <2>4
<1>6. ASSUME NEW w \in Entries, OutcomeTaken(w) PROVE ledger' \in Seq(Entries) /\ ClaimTypes' /\ LogTypes' /\ commits' \in Seq(Calls) /\ unknown' \subseteq Calls
  <2>1. ledger' \in Seq(Entries)
    BY <1>6, QueuedTail DEF OutcomeTaken, Settles
  <2>2. w.call \in Calls /\ w.write \in Writes \cup {"committed"} /\ log' = [log EXCEPT ![w.call] = Append(log[w.call], w.write)]
    BY <1>6 DEF Entries, Writes, OutcomeTaken
  <2>3. LogTypes'
    BY <2>2, LoggedAppend DEF LogTypes
  <2>4. ClaimTypes' /\ commits' \in Seq(Calls) /\ unknown' \subseteq Calls
    BY <1>6 DEF OutcomeTaken, Settles, ClaimTypes, CommitTypes
  <2> QED BY <2>1, <2>3, <2>4
<1>7. ASSUME NEW w \in Entries, OutcomeDropped(w) PROVE ledger' \in Seq(Entries) /\ ClaimTypes' /\ LogTypes' /\ commits' \in Seq(Calls) /\ unknown' \subseteq Calls
  <2>1. ledger' \in Seq(Entries)
    BY <1>7, QueuedTail DEF OutcomeDropped, Settles
  <2>3. LogTypes'
    BY <1>7 DEF OutcomeDropped, LogTypes
  <2>4. ClaimTypes' /\ commits' \in Seq(Calls) /\ unknown' \subseteq Calls
    BY <1>7 DEF OutcomeDropped, Settles, ClaimTypes, CommitTypes
  <2> QED BY <2>1, <2>3, <2>4
<1>8. ASSUME CommitTaken PROVE ledger' \in Seq(Entries) /\ ClaimTypes' /\ LogTypes' /\ commits' \in Seq(Calls) /\ unknown' \subseteq Calls
  <2>1. commits' \in Seq(Calls) /\ Head(commits) \in Calls
    BY <1>8, TailFacts DEF CommitTaken, CommitTypes
  <2>2. ledger' \in Seq(Entries) /\ ClaimTypes' /\ unknown' \subseteq Calls
    BY <1>8, EntryFacts DEF CommitTaken, ClaimTypes, CommitTypes
  <2>3. LogTypes'
    <3>1. log' = [log EXCEPT ![Head(commits)] = Append(log[Head(commits)], "committed")]
      BY <1>8 DEF CommitTaken
    <3> QED BY <2>1, <3>1, LoggedAppend DEF LogTypes
  <2> QED BY <2>1, <2>2, <2>3
<1>9. ASSUME CommitDropped PROVE ledger' \in Seq(Entries) /\ ClaimTypes' /\ LogTypes' /\ commits' \in Seq(Calls) /\ unknown' \subseteq Calls
  <2>1. commits' \in Seq(Calls) /\ Head(commits) \in Calls
    BY <1>9, TailFacts DEF CommitDropped, CommitTypes
  <2>2. ledger' \in Seq(Entries) /\ ClaimTypes' /\ unknown' \subseteq Calls
    BY <1>9, EntryFacts DEF CommitDropped, ClaimTypes, CommitTypes
  <2>3. LogTypes'
    BY <1>9 DEF CommitDropped, LogTypes
  <2> QED BY <2>1, <2>2, <2>3
<1> QED BY <1>1, <1>2, <1>3, <1>4, <1>5, <1>6, <1>7, <1>8, <1>9 DEF BookMoves

(* A marker is queued once, and its call waits for it. *)
LEMMA MarkingStep ==
    ASSUME StageTypes, LedgerTypes, ClaimTypes, LogTypes, CommitTypes, Marking, BookMoves
    PROVE  Marking'
<1>1. ASSUME BooksStill PROVE Marking'
  <2>1. UNCHANGED ledger /\ \A x \in Calls : stage[x] = "marker" => stage'[x] = "marker"
    BY <1>1 DEF BooksStill, bookVars, Steady, Early
  <2> QED BY <2>1 DEF Marking, Queued
<1>2. ASSUME NEW c \in Calls, MarkerQueued(c) PROVE Marking'
  <2>1. "pending" \in Writes /\ ledger' = Append(ledger, [call |-> c, write |-> "pending"])
    BY <1>2 DEF MarkerQueued, Writes
  <2>2. \A x \in Calls, v \in Writes : Queued(x, v)' <=> Queued(x, v) \/ (x = c /\ v = "pending")
    BY <2>1, QueuedAppend
  <2>3. /\ ledger \in Seq(Entries) /\ [call |-> c, write |-> "pending"] \in Entries /\ [call |-> c, write |-> "pending"].call = c
        /\ [call |-> c, write |-> "pending"].write = "pending"
    BY <2>1, EntryFacts
  <2>4. /\ DOMAIN ledger' = 1..(Len(ledger) + 1) /\ DOMAIN ledger = 1..Len(ledger) /\ Len(ledger) \in Nat
        /\ ledger'[Len(ledger) + 1] = [call |-> c, write |-> "pending"] /\ \A i \in 1..Len(ledger) : ledger'[i] = ledger[i]
    BY <2>1, <2>3, AppendFacts
  <2>5. \A i \in DOMAIN ledger : ~ (ledger[i].call = c /\ ledger[i].write = "pending")
    BY <1>2 DEF MarkerQueued, Marking, Queued
  <2>6. ASSUME NEW x \in Calls, Queued(x, "pending")' PROVE stage'[x] = "marker"
    <3>1. CASE x = c
      BY <1>2, <3>1 DEF MarkerQueued
    <3>2. CASE x # c
      <4>1. stage[x] = "marker"
        BY <2>1, <2>2, <2>6, <3>2 DEF Marking
      <4> QED BY <1>2, <3>2, <4>1 DEF MarkerQueued, Steady, Early
    <3> QED BY <3>1, <3>2
  <2>7. ASSUME NEW i \in DOMAIN ledger', NEW j \in DOMAIN ledger', ledger'[i].write = "pending", ledger'[j] = ledger'[i] PROVE i = j
    <3>1. CASE i \in DOMAIN ledger /\ j \in DOMAIN ledger
      BY <2>4, <2>7, <3>1 DEF Marking
    <3>2. CASE i \notin DOMAIN ledger \/ j \notin DOMAIN ledger
      BY <2>3, <2>4, <2>5, <2>7, <3>2
    <3> QED BY <3>1, <3>2
  <2> QED BY <2>6, <2>7 DEF Marking
<1>3. ASSUME NEW c \in Calls, NEW w \in Outcomes, OutcomeQueued(c, w) PROVE Marking'
  <2>1. w \in Writes /\ ledger' = Append(ledger, [call |-> c, write |-> w])
    BY <1>3 DEF OutcomeQueued, Writes
  <2>2. \A x \in Calls, v \in Writes : Queued(x, v)' <=> Queued(x, v) \/ (x = c /\ v = w)
    BY <2>1, QueuedAppend
  <2>3. /\ ledger \in Seq(Entries) /\ [call |-> c, write |-> w] \in Entries /\ [call |-> c, write |-> w].call = c
        /\ [call |-> c, write |-> w].write = w
    BY <2>1, EntryFacts
  <2>4. /\ DOMAIN ledger' = 1..(Len(ledger) + 1) /\ DOMAIN ledger = 1..Len(ledger) /\ Len(ledger) \in Nat
        /\ ledger'[Len(ledger) + 1] = [call |-> c, write |-> w] /\ \A i \in 1..Len(ledger) : ledger'[i] = ledger[i]
    BY <2>1, <2>3, AppendFacts
  <2>5. w # "pending" /\ "pending" \in Writes
    BY DEF Outcomes, Writes
  <2>6. ASSUME NEW x \in Calls, Queued(x, "pending")' PROVE stage'[x] = "marker"
    <3>1. stage[x] = "marker"
      BY <2>2, <2>5, <2>6 DEF Marking
    <3>2. x # c
      BY <1>3, <3>1 DEF OutcomeQueued
    <3> QED BY <1>3, <3>1, <3>2 DEF OutcomeQueued, Steady, Early
  <2>7. ASSUME NEW i \in DOMAIN ledger', NEW j \in DOMAIN ledger', ledger'[i].write = "pending", ledger'[j] = ledger'[i] PROVE i = j
    <3>1. CASE i \in DOMAIN ledger /\ j \in DOMAIN ledger
      BY <2>4, <2>7, <3>1 DEF Marking
    <3>2. CASE i \notin DOMAIN ledger \/ j \notin DOMAIN ledger
      BY <2>3, <2>4, <2>5, <2>7, <3>2
    <3> QED BY <3>1, <3>2
  <2> QED BY <2>6, <2>7 DEF Marking
<1>4. ASSUME NEW c \in Calls, MarkerTaken(c) PROVE Marking'
  <2>1. ledger # <<>> /\ ledger' = Tail(ledger)
    BY <1>4 DEF MarkerTaken, Settles
  <2>2. /\ Head(ledger) \in Entries /\ Queued(Head(ledger).call, Head(ledger).write)
        /\ \A x \in Calls, v \in Writes :
              /\ Queued(x, v)' => Queued(x, v)
              /\ Queued(x, v) => Queued(x, v)' \/ (x = Head(ledger).call /\ v = Head(ledger).write)
    BY <2>1, QueuedTail
  <2>3. ledger \in Seq(Entries) /\ "pending" \in Writes
    BY EntryFacts DEF Writes
  <2>4. /\ DOMAIN ledger' = 1..(Len(ledger) - 1) /\ DOMAIN ledger = 1..Len(ledger) /\ Len(ledger) \in Nat \ {0}
        /\ Head(ledger) = ledger[1] /\ \A i \in 1..(Len(ledger) - 1) : ledger'[i] = ledger[i + 1]
    BY <2>1, <2>3, TailFacts
  <2>5. ASSUME NEW i \in DOMAIN ledger', NEW j \in DOMAIN ledger', ledger'[i].write = "pending", ledger'[j] = ledger'[i] PROVE i = j
    <3>1. i + 1 \in DOMAIN ledger /\ j + 1 \in DOMAIN ledger /\ ledger[i + 1].write = "pending" /\ ledger[j + 1] = ledger[i + 1]
      BY <2>4, <2>5
    <3>2. i + 1 = j + 1
      BY <3>1 DEF Marking
    <3> QED BY <2>4, <3>2
  <2>6. Head(ledger) = [call |-> c, write |-> "pending"]
    BY <1>4 DEF MarkerTaken, Settles
  <2>7. ASSUME NEW x \in Calls, Queued(x, "pending")' PROVE stage'[x] = "marker"
    <3>1. PICK i \in DOMAIN ledger' : ledger'[i].call = x /\ ledger'[i].write = "pending"
      BY <2>7 DEF Queued
    <3>2. i + 1 \in DOMAIN ledger /\ ledger[i + 1].call = x /\ ledger[i + 1].write = "pending" /\ ledger[i + 1] \in Entries
      BY <2>3, <2>4, <3>1
    <3>3. x # c
      <4> SUFFICES ASSUME x = c PROVE FALSE
        OBVIOUS
      <4>1. ledger[i + 1] = ledger[1]
        BY <2>4, <2>6, <3>2, EntryFacts
      <4>2. 1 \in DOMAIN ledger /\ ledger[1].write = "pending"
        BY <2>4, <2>6
      <4>3. i + 1 = 1
        BY <3>2, <4>1, <4>2 DEF Marking
      <4> QED BY <2>4, <4>3
    <3>4. stage[x] = "marker"
      BY <2>2, <2>3, <2>7 DEF Marking
    <3> QED BY <1>4, <3>3, <3>4 DEF MarkerTaken, StageTypes
  <2> QED BY <2>5, <2>7 DEF Marking
<1>5. ASSUME NEW c \in Calls, MarkerDropped(c) PROVE Marking'
  <2>1. ledger # <<>> /\ ledger' = Tail(ledger)
    BY <1>5 DEF MarkerDropped, Settles
  <2>2. /\ Head(ledger) \in Entries /\ Queued(Head(ledger).call, Head(ledger).write)
        /\ \A x \in Calls, v \in Writes :
              /\ Queued(x, v)' => Queued(x, v)
              /\ Queued(x, v) => Queued(x, v)' \/ (x = Head(ledger).call /\ v = Head(ledger).write)
    BY <2>1, QueuedTail
  <2>3. ledger \in Seq(Entries) /\ "pending" \in Writes
    BY EntryFacts DEF Writes
  <2>4. /\ DOMAIN ledger' = 1..(Len(ledger) - 1) /\ DOMAIN ledger = 1..Len(ledger) /\ Len(ledger) \in Nat \ {0}
        /\ Head(ledger) = ledger[1] /\ \A i \in 1..(Len(ledger) - 1) : ledger'[i] = ledger[i + 1]
    BY <2>1, <2>3, TailFacts
  <2>5. ASSUME NEW i \in DOMAIN ledger', NEW j \in DOMAIN ledger', ledger'[i].write = "pending", ledger'[j] = ledger'[i] PROVE i = j
    <3>1. i + 1 \in DOMAIN ledger /\ j + 1 \in DOMAIN ledger /\ ledger[i + 1].write = "pending" /\ ledger[j + 1] = ledger[i + 1]
      BY <2>4, <2>5
    <3>2. i + 1 = j + 1
      BY <3>1 DEF Marking
    <3> QED BY <2>4, <3>2
  <2>6. Head(ledger) = [call |-> c, write |-> "pending"]
    BY <1>5 DEF MarkerDropped, Settles
  <2>7. ASSUME NEW x \in Calls, Queued(x, "pending")' PROVE stage'[x] = "marker"
    <3>1. PICK i \in DOMAIN ledger' : ledger'[i].call = x /\ ledger'[i].write = "pending"
      BY <2>7 DEF Queued
    <3>2. i + 1 \in DOMAIN ledger /\ ledger[i + 1].call = x /\ ledger[i + 1].write = "pending" /\ ledger[i + 1] \in Entries
      BY <2>3, <2>4, <3>1
    <3>3. x # c
      <4> SUFFICES ASSUME x = c PROVE FALSE
        OBVIOUS
      <4>1. ledger[i + 1] = ledger[1]
        BY <2>4, <2>6, <3>2, EntryFacts
      <4>2. 1 \in DOMAIN ledger /\ ledger[1].write = "pending"
        BY <2>4, <2>6
      <4>3. i + 1 = 1
        BY <3>2, <4>1, <4>2 DEF Marking
      <4> QED BY <2>4, <4>3
    <3>4. stage[x] = "marker"
      BY <2>2, <2>3, <2>7 DEF Marking
    <3> QED BY <1>5, <3>3, <3>4 DEF MarkerDropped, StageTypes
  <2> QED BY <2>5, <2>7 DEF Marking
<1>6. ASSUME NEW w \in Entries, OutcomeTaken(w) PROVE Marking'
  <2>1. ledger # <<>> /\ ledger' = Tail(ledger)
    BY <1>6 DEF OutcomeTaken, Settles
  <2>2. /\ Head(ledger) \in Entries /\ Queued(Head(ledger).call, Head(ledger).write)
        /\ \A x \in Calls, v \in Writes :
              /\ Queued(x, v)' => Queued(x, v)
              /\ Queued(x, v) => Queued(x, v)' \/ (x = Head(ledger).call /\ v = Head(ledger).write)
    BY <2>1, QueuedTail
  <2>3. ledger \in Seq(Entries) /\ "pending" \in Writes
    BY EntryFacts DEF Writes
  <2>4. /\ DOMAIN ledger' = 1..(Len(ledger) - 1) /\ DOMAIN ledger = 1..Len(ledger) /\ Len(ledger) \in Nat \ {0}
        /\ Head(ledger) = ledger[1] /\ \A i \in 1..(Len(ledger) - 1) : ledger'[i] = ledger[i + 1]
    BY <2>1, <2>3, TailFacts
  <2>5. ASSUME NEW i \in DOMAIN ledger', NEW j \in DOMAIN ledger', ledger'[i].write = "pending", ledger'[j] = ledger'[i] PROVE i = j
    <3>1. i + 1 \in DOMAIN ledger /\ j + 1 \in DOMAIN ledger /\ ledger[i + 1].write = "pending" /\ ledger[j + 1] = ledger[i + 1]
      BY <2>4, <2>5
    <3>2. i + 1 = j + 1
      BY <3>1 DEF Marking
    <3> QED BY <2>4, <3>2
  <2>7. ASSUME NEW x \in Calls, Queued(x, "pending")' PROVE stage'[x] = "marker"
    BY <1>6, <2>2, <2>3, <2>7 DEF OutcomeTaken, Marking
  <2> QED BY <2>5, <2>7 DEF Marking
<1>7. ASSUME NEW w \in Entries, OutcomeDropped(w) PROVE Marking'
  <2>1. ledger # <<>> /\ ledger' = Tail(ledger)
    BY <1>7 DEF OutcomeDropped, Settles
  <2>2. /\ Head(ledger) \in Entries /\ Queued(Head(ledger).call, Head(ledger).write)
        /\ \A x \in Calls, v \in Writes :
              /\ Queued(x, v)' => Queued(x, v)
              /\ Queued(x, v) => Queued(x, v)' \/ (x = Head(ledger).call /\ v = Head(ledger).write)
    BY <2>1, QueuedTail
  <2>3. ledger \in Seq(Entries) /\ "pending" \in Writes
    BY EntryFacts DEF Writes
  <2>4. /\ DOMAIN ledger' = 1..(Len(ledger) - 1) /\ DOMAIN ledger = 1..Len(ledger) /\ Len(ledger) \in Nat \ {0}
        /\ Head(ledger) = ledger[1] /\ \A i \in 1..(Len(ledger) - 1) : ledger'[i] = ledger[i + 1]
    BY <2>1, <2>3, TailFacts
  <2>5. ASSUME NEW i \in DOMAIN ledger', NEW j \in DOMAIN ledger', ledger'[i].write = "pending", ledger'[j] = ledger'[i] PROVE i = j
    <3>1. i + 1 \in DOMAIN ledger /\ j + 1 \in DOMAIN ledger /\ ledger[i + 1].write = "pending" /\ ledger[j + 1] = ledger[i + 1]
      BY <2>4, <2>5
    <3>2. i + 1 = j + 1
      BY <3>1 DEF Marking
    <3> QED BY <2>4, <3>2
  <2>7. ASSUME NEW x \in Calls, Queued(x, "pending")' PROVE stage'[x] = "marker"
    BY <1>7, <2>2, <2>3, <2>7 DEF OutcomeDropped, Marking
  <2> QED BY <2>5, <2>7 DEF Marking
<1>8. ASSUME CommitTaken PROVE Marking'
  <2>1. UNCHANGED ledger /\ \A x \in Calls : stage[x] = "marker" => stage'[x] = "marker"
    BY <1>8 DEF CommitTaken, bookVars, Steady, Early
  <2> QED BY <2>1 DEF Marking, Queued
<1>9. ASSUME CommitDropped PROVE Marking'
  <2>1. UNCHANGED ledger /\ \A x \in Calls : stage[x] = "marker" => stage'[x] = "marker"
    BY <1>9 DEF CommitDropped, bookVars, Steady, Early
  <2> QED BY <2>1 DEF Marking, Queued
<1> QED BY <1>1, <1>2, <1>3, <1>4, <1>5, <1>6, <1>7, <1>8, <1>9 DEF BookMoves

(* The claim on a call follows its stage. *)
LEMMA ClaimedStep ==
    ASSUME StageTypes, LedgerTypes, ClaimTypes, LogTypes, CommitTypes, Marking, Claimed, BookMoves
    PROVE  Claimed'
<1>1. ASSUME BooksStill PROVE Claimed'
  BY <1>1 DEF BooksStill, bookVars, Claimed, Steady, Early, Acquiring, StageTypes, ClaimTypes
<1>2. ASSUME NEW c \in Calls, MarkerQueued(c) PROVE Claimed'
  BY <1>2 DEF MarkerQueued, Claimed, Steady, Early, Acquiring, StageTypes, ClaimTypes
<1>3. ASSUME NEW c \in Calls, NEW w \in Outcomes, OutcomeQueued(c, w) PROVE Claimed'
  BY <1>3 DEF OutcomeQueued, Claimed, Steady, Early, Acquiring, StageTypes, ClaimTypes
<1>4. ASSUME NEW c \in Calls, MarkerTaken(c) PROVE Claimed'
  <2>1. ledger # <<>> /\ ledger' = Tail(ledger)
    BY <1>4 DEF MarkerTaken, Settles
  <2>2. /\ Head(ledger) \in Entries /\ Queued(Head(ledger).call, Head(ledger).write)
        /\ \A x \in Calls, v \in Writes :
              /\ Queued(x, v)' => Queued(x, v)
              /\ Queued(x, v) => Queued(x, v)' \/ (x = Head(ledger).call /\ v = Head(ledger).write)
    BY <2>1, QueuedTail
  <2>3. stage[c] = "marker" /\ "pending" \in Writes
    <3>1. Head(ledger) = [call |-> c, write |-> "pending"]
      BY <1>4 DEF MarkerTaken, Settles
    <3> QED BY <2>2, <3>1 DEF Marking, Writes
  <2> QED BY <1>4, <2>3 DEF MarkerTaken, Claimed, Acquiring, StageTypes, ClaimTypes
<1>5. ASSUME NEW c \in Calls, MarkerDropped(c) PROVE Claimed'
  <2>1. ledger # <<>> /\ ledger' = Tail(ledger)
    BY <1>5 DEF MarkerDropped, Settles
  <2>2. /\ Head(ledger) \in Entries /\ Queued(Head(ledger).call, Head(ledger).write)
        /\ \A x \in Calls, v \in Writes :
              /\ Queued(x, v)' => Queued(x, v)
              /\ Queued(x, v) => Queued(x, v)' \/ (x = Head(ledger).call /\ v = Head(ledger).write)
    BY <2>1, QueuedTail
  <2>3. stage[c] = "marker" /\ "pending" \in Writes
    <3>1. Head(ledger) = [call |-> c, write |-> "pending"]
      BY <1>5 DEF MarkerDropped, Settles
    <3> QED BY <2>2, <3>1 DEF Marking, Writes
  <2> QED BY <1>5, <2>3 DEF MarkerDropped, Claimed, Acquiring, StageTypes, ClaimTypes
<1>6. ASSUME NEW w \in Entries, OutcomeTaken(w) PROVE Claimed'
  BY <1>6 DEF OutcomeTaken, Settles, Claimed, Steady, Early, Acquiring, StageTypes, ClaimTypes
<1>7. ASSUME NEW w \in Entries, OutcomeDropped(w) PROVE Claimed'
  BY <1>7 DEF OutcomeDropped, Settles, Claimed, Steady, Early, Acquiring, StageTypes, ClaimTypes
<1>8. ASSUME CommitTaken PROVE Claimed'
  BY <1>8 DEF CommitTaken, Claimed, Steady, Early, Acquiring, StageTypes, ClaimTypes
<1>9. ASSUME CommitDropped PROVE Claimed'
  BY <1>9 DEF CommitDropped, Claimed, Steady, Early, Acquiring, StageTypes, ClaimTypes
<1> QED BY <1>1, <1>2, <1>3, <1>4, <1>5, <1>6, <1>7, <1>8, <1>9 DEF BookMoves

(* A call of which nothing new is written. *)
LEMMA WrittenSame ==
    ASSUME NEW x \in Calls, Written(x), claim'[x] = claim[x],
           \A v \in Outcomes : Queued(x, v)' \/ Logged(x, v)' => Queued(x, v) \/ Logged(x, v),
           claim[x] = "none" => log'[x] = log[x] /\ \A v \in Outcomes : ~ Queued(x, v)',
           log[x] # <<>> => log'[x] # <<>> /\ log'[x][1] = log[x][1],
           x \in unknown' <=> x \in unknown, stage[x] = "over" => stage'[x] = "over",
           paid'[x] = paid[x], x \in shown' <=> x \in shown
    PROVE  Written(x)'
<1>1. {"waiting", "incomplete", "released"} \subseteq Outcomes
  BY DEF Outcomes
<1>2. \A v \in Outcomes : (Queued(x, v) \/ Logged(x, v))' => Queued(x, v) \/ Logged(x, v)
  OBVIOUS
<1>3. /\ claim'[x] = "none" => log'[x] = <<>> /\ (\A w \in Outcomes : ~ Queued(x, w)') /\ x \notin unknown'
      /\ claim'[x] = "pending" => \A w \in Outcomes : ~ Queued(x, w)' /\ ~ Logged(x, w)'
      /\ claim'[x] = "incomplete" => \A w \in Outcomes \ {"waiting"} : ~ Queued(x, w)' /\ ~ Logged(x, w)'
      /\ claim'[x] # "none" => log'[x] # <<>> /\ log'[x][1] = "pending"
  BY <1>2 DEF Written
<1>4. /\ \A w \in {"waiting", "incomplete"} : Queued(x, w)' \/ Logged(x, w)' => x \in unknown'
      /\ Queued(x, "released")' \/ Logged(x, "released")' => stage'[x] = "over" /\ paid'[x] = NoBill /\ x \notin shown'
  BY <1>1, <1>2 DEF Written
<1> QED BY <1>3, <1>4 DEF Written

(* What is written of a call follows its claim. *)
LEMMA WritingStep ==
    ASSUME StageTypes, LedgerTypes, ClaimTypes, LogTypes, CommitTypes, Billed, Marking, Claimed, Writing, BookMoves
    PROVE  Writing'
<1>1. ASSUME BooksStill PROVE Writing'
  <2>0. Outcomes \subseteq Writes /\ "committed" \notin Outcomes /\ "pending" \in Writes /\ "pending" \notin Outcomes
    BY DEF Outcomes, Writes
  <2>1. UNCHANGED bookVars /\ \A x \in Calls : stage[x] = "over" => stage'[x] = "over"
    BY <1>1 DEF BooksStill, Steady, Early, Acquiring
  <2>2. \A x \in Calls, v \in Outcomes : (Queued(x, v)' <=> Queued(x, v)) /\ (Logged(x, v)' <=> Logged(x, v))
    BY <2>1 DEF bookVars, Queued, Logged
  <2>7. ASSUME NEW x \in Calls PROVE Written(x)'
    <3>1. Written(x) /\ claim'[x] = claim[x] /\ log'[x] = log[x] /\ (x \in unknown' <=> x \in unknown)
          /\ paid'[x] = paid[x] /\ (x \in shown' <=> x \in shown)
      BY <2>1 DEF bookVars, Writing
    <3>2. claim[x] = "none" => \A v \in Outcomes : ~ Queued(x, v)'
      BY <2>2, <3>1 DEF Written
    <3> QED BY <2>1, <2>2, <3>1, <3>2, WrittenSame
  <2>8. \A i \in DOMAIN commits' : commits'[i] \in unknown'
    BY <1>1 DEF BooksStill, Settles, bookVars, Writing
  <2> QED BY <2>7, <2>8 DEF Writing
<1>2. ASSUME NEW c \in Calls, MarkerQueued(c) PROVE Writing'
  <2>0. Outcomes \subseteq Writes /\ "committed" \notin Outcomes /\ "pending" \in Writes /\ "pending" \notin Outcomes
    BY DEF Outcomes, Writes
  <2>1. "pending" \in Writes /\ ledger' = Append(ledger, [call |-> c, write |-> "pending"])
    BY <1>2 DEF MarkerQueued, Writes
  <2>2. \A x \in Calls, v \in Writes : Queued(x, v)' <=> Queued(x, v) \/ (x = c /\ v = "pending")
    BY <2>1, QueuedAppend
  <2>3. \A x \in Calls, v \in Outcomes : (Queued(x, v)' <=> Queued(x, v)) /\ (Logged(x, v)' <=> Logged(x, v))
    <3>1. UNCHANGED log
      BY <1>2 DEF MarkerQueued
    <3> QED BY <2>0, <2>2, <3>1 DEF Logged
  <2>7. ASSUME NEW x \in Calls PROVE Written(x)'
    <3>1. Written(x) /\ claim'[x] = claim[x] /\ log'[x] = log[x] /\ (x \in unknown' <=> x \in unknown)
          /\ paid'[x] = paid[x] /\ (x \in shown' <=> x \in shown) /\ (stage[x] = "over" => stage'[x] = "over")
      BY <1>2 DEF MarkerQueued, Writing, Steady, Early, Acquiring
    <3>2. claim[x] = "none" => \A v \in Outcomes : ~ Queued(x, v)'
      BY <2>3, <3>1 DEF Written
    <3> QED BY <2>3, <3>1, <3>2, WrittenSame
  <2>8. \A i \in DOMAIN commits' : commits'[i] \in unknown'
    BY <1>2 DEF MarkerQueued, Settles, bookVars, Writing
  <2> QED BY <2>7, <2>8 DEF Writing
<1>3. ASSUME NEW c \in Calls, NEW w \in Outcomes, OutcomeQueued(c, w) PROVE Writing'
  <2>0. Outcomes \subseteq Writes /\ "committed" \notin Outcomes /\ "pending" \in Writes /\ "pending" \notin Outcomes
    BY DEF Outcomes, Writes
  <2>1. w \in Writes /\ ledger' = Append(ledger, [call |-> c, write |-> w])
    BY <1>3 DEF OutcomeQueued, Writes
  <2>2. \A x \in Calls, v \in Writes : Queued(x, v)' <=> Queued(x, v) \/ (x = c /\ v = w)
    BY <2>1, QueuedAppend
  <2>3. \A x \in Calls, v \in Outcomes : Logged(x, v)' <=> Logged(x, v)
    <3>1. UNCHANGED log
      BY <1>3 DEF OutcomeQueued
    <3> QED BY <3>1 DEF Logged
  <2>4. ASSUME NEW x \in Calls, x # c PROVE Written(x)'
    <3>1. Written(x) /\ claim'[x] = claim[x] /\ log'[x] = log[x] /\ (x \in unknown' <=> x \in unknown)
          /\ paid'[x] = paid[x] /\ (x \in shown' <=> x \in shown) /\ (stage[x] = "over" => stage'[x] = "over")
      BY <1>3, <2>4 DEF OutcomeQueued, Writing, Steady, Early, Acquiring, ClaimTypes
    <3>2. \A v \in Outcomes : Queued(x, v)' <=> Queued(x, v)
      BY <2>0, <2>2, <2>4
    <3>3. claim[x] = "none" => \A v \in Outcomes : ~ Queued(x, v)'
      BY <3>1, <3>2 DEF Written
    <3> QED BY <2>3, <3>1, <3>2, <3>3, WrittenSame
  <2>5. Written(c)'
    <3>1. /\ Written(c) /\ log'[c] = log[c] /\ claim'[c] = (IF w = "waiting" THEN "incomplete" ELSE "finished")
          /\ stage[c] \in {"acked", "asked", "late"} /\ stage'[c] = (IF w = "waiting" THEN "late" ELSE "over")
          /\ (stage[c] = "late" => w \in {"settled", "incomplete"}) /\ (stage[c] = "acked" => w = "released")
          /\ (w \in {"waiting", "incomplete"} => c \in unknown') /\ (c \in unknown => c \in unknown')
          /\ w = "released" => UNCHANGED paid /\ c \notin shown'
      BY <1>3 DEF OutcomeQueued, Writing, ClaimTypes
    <3>2. claim[c] \in {"pending", "incomplete"} /\ (claim[c] = "incomplete" <=> stage[c] = "late") /\ (w = "released" => paid[c] = NoBill)
      BY <3>1 DEF Claimed, Billed
    <3>3. \A v \in Outcomes : /\ Queued(c, v)' <=> Queued(c, v) \/ v = w
                              /\ Queued(c, v) \/ Logged(c, v) => stage[c] = "late" /\ v = "waiting"
      BY <2>0, <2>2, <3>1, <3>2 DEF Written
    <3>4. {"waiting", "incomplete", "released"} \subseteq Outcomes
      BY DEF Outcomes
    <3>5. /\ claim'[c] = "incomplete" => \A v \in Outcomes \ {"waiting"} : ~ Queued(c, v)' /\ ~ Logged(c, v)'
          /\ log'[c] # <<>> /\ log'[c][1] = "pending"
      BY <2>3, <3>1, <3>2, <3>3 DEF Written
    <3>6. \A v \in {"waiting", "incomplete"} : Queued(c, v)' \/ Logged(c, v)' => c \in unknown'
      <4>1. \A v \in {"waiting", "incomplete"} : Queued(c, v) \/ Logged(c, v) => c \in unknown
        BY <3>1 DEF Written
      <4> QED BY <2>3, <3>1, <3>3, <3>4, <4>1
    <3>7. Queued(c, "released")' \/ Logged(c, "released")' => stage'[c] = "over" /\ paid'[c] = NoBill /\ c \notin shown'
      BY <2>3, <3>1, <3>2, <3>3, <3>4
    <3> QED BY <3>1, <3>5, <3>6, <3>7 DEF Written
  <2>7. \A x \in Calls : Written(x)'
    BY <2>4, <2>5
  <2>8. \A i \in DOMAIN commits' : commits'[i] \in unknown'
    <3>1. unknown \subseteq unknown' /\ (commits' = commits \/ (commits' = Append(commits, c) /\ c \in unknown'))
      BY <1>3 DEF OutcomeQueued
    <3>2. CASE commits' = commits
      BY <3>1, <3>2 DEF Writing
    <3>3. CASE commits' = Append(commits, c) /\ c \in unknown'
      <4>1. /\ DOMAIN commits' = 1..(Len(commits) + 1) /\ DOMAIN commits = 1..Len(commits) /\ Len(commits) \in Nat
            /\ commits'[Len(commits) + 1] = c /\ \A i \in 1..Len(commits) : commits'[i] = commits[i]
        BY <3>3, AppendFacts DEF CommitTypes
      <4>2. \A i \in DOMAIN commits : commits[i] \in unknown
        BY DEF Writing
      <4>3. unknown \subseteq unknown' /\ c \in unknown'
        BY <3>1, <3>3
      <4>4. ASSUME NEW i \in DOMAIN commits' PROVE commits'[i] \in unknown'
        <5>1. i = Len(commits) + 1 \/ i \in DOMAIN commits
          BY <4>1, <4>4
        <5> QED BY <4>1, <4>2, <4>3, <5>1
      <4> QED BY <4>4
    <3> QED BY <3>1, <3>2, <3>3
  <2> QED BY <2>7, <2>8 DEF Writing
<1>4. ASSUME NEW c \in Calls, MarkerTaken(c) PROVE Writing'
  <2>0. Outcomes \subseteq Writes /\ "committed" \notin Outcomes /\ "pending" \in Writes /\ "pending" \notin Outcomes
    BY DEF Outcomes, Writes
  <2>1. ledger # <<>> /\ ledger' = Tail(ledger)
    BY <1>4 DEF MarkerTaken, Settles
  <2>2. /\ Head(ledger) \in Entries /\ Queued(Head(ledger).call, Head(ledger).write)
        /\ \A x \in Calls, v \in Writes :
              /\ Queued(x, v)' => Queued(x, v)
              /\ Queued(x, v) => Queued(x, v)' \/ (x = Head(ledger).call /\ v = Head(ledger).write)
    BY <2>1, QueuedTail
  <2>3. Head(ledger) = [call |-> c, write |-> "pending"] /\ stage[c] = "marker" /\ claim[c] = "none"
    <3>1. Head(ledger) = [call |-> c, write |-> "pending"]
      BY <1>4 DEF MarkerTaken, Settles
    <3>2. stage[c] = "marker"
      BY <2>2, <3>1 DEF Marking
    <3> QED BY <3>1, <3>2 DEF Claimed, Acquiring
  <2>4. /\ \A x \in Calls \ {c} : log'[x] = log[x]
        /\ \A x \in Calls, v \in Outcomes : Logged(x, v)' <=> Logged(x, v)
        /\ log'[c] # <<>> /\ (log[c] = <<>> => log'[c][1] = "pending")
    <3>1. log' = [log EXCEPT ![c] = Append(log[c], "pending")] /\ "pending" \in Writes \cup {"committed"}
      BY <1>4, <2>0 DEF MarkerTaken
    <3>2. /\ \A x \in Calls \ {c} : log'[x] = log[x]
          /\ \A x \in Calls, v \in Writes \cup {"committed"} : Logged(x, v)' <=> Logged(x, v) \/ (x = c /\ v = "pending")
          /\ log'[c] # <<>> /\ (log[c] = <<>> => log'[c][1] = "pending")
      BY <3>1, LoggedAppend
    <3> QED BY <2>0, <3>2
  <2>5. ASSUME NEW x \in Calls, x # c PROVE Written(x)'
    <3>1. Written(x) /\ claim'[x] = claim[x] /\ log'[x] = log[x] /\ (x \in unknown' <=> x \in unknown)
          /\ paid'[x] = paid[x] /\ (x \in shown' <=> x \in shown) /\ (stage[x] = "over" => stage'[x] = "over")
      BY <1>4, <2>4, <2>5 DEF MarkerTaken, Settles, Writing, ClaimTypes, StageTypes
    <3>2. \A v \in Outcomes : Queued(x, v)' => Queued(x, v)
      BY <2>0, <2>2
    <3>3. claim[x] = "none" => \A v \in Outcomes : ~ Queued(x, v)'
      BY <3>1, <3>2 DEF Written
    <3> QED BY <2>4, <3>1, <3>2, <3>3, WrittenSame
  <2>6. Written(c)'
    <3>1. Written(c) /\ claim'[c] = "pending" /\ UNCHANGED unknown
      BY <1>4 DEF MarkerTaken, Settles, Writing, ClaimTypes
    <3>2. log[c] = <<>> /\ \A v \in Outcomes : ~ Queued(c, v) /\ ~ Logged(c, v)
      BY <2>3, <3>1 DEF Written, Logged
    <3>3. \A v \in Outcomes : ~ Queued(c, v)' /\ ~ Logged(c, v)'
      BY <2>0, <2>2, <2>4, <3>2
    <3>4. {"waiting", "incomplete", "released"} \subseteq Outcomes
      BY DEF Outcomes
    <3> QED BY <2>4, <3>1, <3>2, <3>3, <3>4 DEF Written
  <2>7. \A x \in Calls : Written(x)'
    BY <2>5, <2>6
  <2>8. \A i \in DOMAIN commits' : commits'[i] \in unknown'
    BY <1>4 DEF MarkerTaken, Settles, bookVars, Writing
  <2> QED BY <2>7, <2>8 DEF Writing
<1>5. ASSUME NEW c \in Calls, MarkerDropped(c) PROVE Writing'
  <2>0. Outcomes \subseteq Writes /\ "committed" \notin Outcomes /\ "pending" \in Writes /\ "pending" \notin Outcomes
    BY DEF Outcomes, Writes
  <2>1. ledger # <<>> /\ ledger' = Tail(ledger)
    BY <1>5 DEF MarkerDropped, Settles
  <2>2. /\ Head(ledger) \in Entries /\ Queued(Head(ledger).call, Head(ledger).write)
        /\ \A x \in Calls, v \in Writes :
              /\ Queued(x, v)' => Queued(x, v)
              /\ Queued(x, v) => Queued(x, v)' \/ (x = Head(ledger).call /\ v = Head(ledger).write)
    BY <2>1, QueuedTail
  <2>3. \A x \in Calls, v \in Outcomes : (Queued(x, v)' => Queued(x, v)) /\ (Logged(x, v)' <=> Logged(x, v))
    <3>1. UNCHANGED log
      BY <1>5 DEF MarkerDropped
    <3> QED BY <2>0, <2>2, <3>1 DEF Logged
  <2>4. \A x \in Calls : stage[x] = "over" => stage'[x] = "over"
    <3>1. Head(ledger) = [call |-> c, write |-> "pending"]
      BY <1>5 DEF MarkerDropped, Settles
    <3>2. stage[c] = "marker"
      BY <2>2, <3>1 DEF Marking
    <3> QED BY <1>5, <3>2 DEF MarkerDropped, StageTypes
  <2>7. ASSUME NEW x \in Calls PROVE Written(x)'
    <3>1. Written(x) /\ claim'[x] = claim[x] /\ log'[x] = log[x] /\ (x \in unknown' <=> x \in unknown)
          /\ paid'[x] = paid[x] /\ (x \in shown' <=> x \in shown)
      BY <1>5 DEF MarkerDropped, Settles, Writing
    <3>2. claim[x] = "none" => \A v \in Outcomes : ~ Queued(x, v)'
      BY <2>3, <3>1 DEF Written
    <3> QED BY <2>3, <2>4, <3>1, <3>2, WrittenSame
  <2>8. \A i \in DOMAIN commits' : commits'[i] \in unknown'
    BY <1>5 DEF MarkerDropped, Settles, bookVars, Writing
  <2> QED BY <2>7, <2>8 DEF Writing
<1>6. ASSUME NEW w \in Entries, OutcomeTaken(w) PROVE Writing'
  <2>0. Outcomes \subseteq Writes /\ "committed" \notin Outcomes /\ "pending" \in Writes /\ "pending" \notin Outcomes
    BY DEF Outcomes, Writes
  <2>1. ledger # <<>> /\ ledger' = Tail(ledger)
    BY <1>6 DEF OutcomeTaken, Settles
  <2>2. /\ Head(ledger) \in Entries /\ Queued(Head(ledger).call, Head(ledger).write)
        /\ \A x \in Calls, v \in Writes :
              /\ Queued(x, v)' => Queued(x, v)
              /\ Queued(x, v) => Queued(x, v)' \/ (x = Head(ledger).call /\ v = Head(ledger).write)
    BY <2>1, QueuedTail
  <2>3. w = Head(ledger) /\ w.call \in Calls /\ w.write \in Outcomes /\ Queued(w.call, w.write)
    BY <1>6, <2>2 DEF OutcomeTaken, Settles, Entries
  <2>4. /\ \A x \in Calls \ {w.call} : log'[x] = log[x]
        /\ \A x \in Calls, v \in Outcomes : Logged(x, v)' <=> Logged(x, v) \/ (x = w.call /\ v = w.write)
        /\ \A x \in Calls : log[x] # <<>> => log'[x] # <<>> /\ log'[x][1] = log[x][1]
    <3>1. log' = [log EXCEPT ![w.call] = Append(log[w.call], w.write)] /\ w.write \in Writes \cup {"committed"}
      BY <1>6, <2>0, <2>3 DEF OutcomeTaken
    <3> QED BY <2>0, <2>3, <3>1, LoggedAppend
  <2>7. ASSUME NEW x \in Calls PROVE Written(x)'
    <3>1. Written(x) /\ claim'[x] = claim[x] /\ (x \in unknown' <=> x \in unknown)
          /\ paid'[x] = paid[x] /\ (x \in shown' <=> x \in shown) /\ (stage[x] = "over" => stage'[x] = "over")
      BY <1>6 DEF OutcomeTaken, Settles, Writing
    <3>2. \A v \in Outcomes : Queued(x, v)' \/ Logged(x, v)' => Queued(x, v) \/ Logged(x, v)
      BY <2>0, <2>2, <2>3, <2>4
    <3>3. claim[x] = "none" => log'[x] = log[x] /\ \A v \in Outcomes : ~ Queued(x, v)'
      BY <2>0, <2>2, <2>3, <2>4, <3>1 DEF Written
    <3> QED BY <2>4, <3>1, <3>2, <3>3, WrittenSame
  <2>8. \A i \in DOMAIN commits' : commits'[i] \in unknown'
    BY <1>6 DEF OutcomeTaken, Settles, bookVars, Writing
  <2> QED BY <2>7, <2>8 DEF Writing
<1>7. ASSUME NEW w \in Entries, OutcomeDropped(w) PROVE Writing'
  <2>0. Outcomes \subseteq Writes /\ "committed" \notin Outcomes /\ "pending" \in Writes /\ "pending" \notin Outcomes
    BY DEF Outcomes, Writes
  <2>1. ledger # <<>> /\ ledger' = Tail(ledger)
    BY <1>7 DEF OutcomeDropped, Settles
  <2>2. /\ Head(ledger) \in Entries /\ Queued(Head(ledger).call, Head(ledger).write)
        /\ \A x \in Calls, v \in Writes :
              /\ Queued(x, v)' => Queued(x, v)
              /\ Queued(x, v) => Queued(x, v)' \/ (x = Head(ledger).call /\ v = Head(ledger).write)
    BY <2>1, QueuedTail
  <2>3. \A x \in Calls, v \in Outcomes : (Queued(x, v)' => Queued(x, v)) /\ (Logged(x, v)' <=> Logged(x, v))
    <3>1. UNCHANGED log
      BY <1>7 DEF OutcomeDropped
    <3> QED BY <2>0, <2>2, <3>1 DEF Logged
  <2>4. \A x \in Calls : stage[x] = "over" => stage'[x] = "over"
    BY <1>7 DEF OutcomeDropped
  <2>7. ASSUME NEW x \in Calls PROVE Written(x)'
    <3>1. Written(x) /\ claim'[x] = claim[x] /\ log'[x] = log[x] /\ (x \in unknown' <=> x \in unknown)
          /\ paid'[x] = paid[x] /\ (x \in shown' <=> x \in shown)
      BY <1>7 DEF OutcomeDropped, Settles, Writing
    <3>2. claim[x] = "none" => \A v \in Outcomes : ~ Queued(x, v)'
      BY <2>3, <3>1 DEF Written
    <3> QED BY <2>3, <2>4, <3>1, <3>2, WrittenSame
  <2>8. \A i \in DOMAIN commits' : commits'[i] \in unknown'
    BY <1>7 DEF OutcomeDropped, Settles, bookVars, Writing
  <2> QED BY <2>7, <2>8 DEF Writing
<1>8. ASSUME CommitTaken PROVE Writing'
  <2>0. Outcomes \subseteq Writes /\ "committed" \notin Outcomes /\ "pending" \in Writes /\ "pending" \notin Outcomes
    BY DEF Outcomes, Writes
  <2>1. Head(commits) \in Calls /\ Head(commits) \in unknown
    <3>1. Head(commits) \in Calls /\ 1 \in DOMAIN commits /\ Head(commits) = commits[1]
      BY <1>8, TailFacts DEF CommitTaken, CommitTypes
    <3> QED BY <3>1 DEF Writing
  <2>2. /\ \A x \in Calls \ {Head(commits)} : log'[x] = log[x]
        /\ \A x \in Calls, v \in Outcomes : Logged(x, v)' <=> Logged(x, v)
        /\ \A x \in Calls : log[x] # <<>> => log'[x] # <<>> /\ log'[x][1] = log[x][1]
    <3>1. log' = [log EXCEPT ![Head(commits)] = Append(log[Head(commits)], "committed")]
      BY <1>8 DEF CommitTaken
    <3>2. "committed" \in Writes \cup {"committed"}
      OBVIOUS
    <3>3. /\ \A x \in Calls \ {Head(commits)} : log'[x] = log[x]
          /\ \A x \in Calls, v \in Writes \cup {"committed"} :
                Logged(x, v)' <=> Logged(x, v) \/ (x = Head(commits) /\ v = "committed")
          /\ \A x \in Calls : log[x] # <<>> => log'[x] # <<>> /\ log'[x][1] = log[x][1]
      BY <2>1, <3>1, <3>2, LoggedAppend
    <3> QED BY <2>0, <3>3
  <2>3. \A x \in Calls : claim[x] = "none" => log'[x] = log[x]
    BY <2>1, <2>2 DEF Writing, Written
  <2>4. \A x \in Calls, v \in Outcomes : Queued(x, v)' <=> Queued(x, v)
    BY <1>8 DEF CommitTaken, Queued
  <2>7. ASSUME NEW x \in Calls PROVE Written(x)'
    <3>1. Written(x) /\ claim'[x] = claim[x] /\ (x \in unknown' <=> x \in unknown)
          /\ paid'[x] = paid[x] /\ (x \in shown' <=> x \in shown) /\ (stage[x] = "over" => stage'[x] = "over")
      BY <1>8 DEF CommitTaken, Writing
    <3>2. claim[x] = "none" => \A v \in Outcomes : ~ Queued(x, v)'
      BY <2>4, <3>1 DEF Written
    <3> QED BY <2>2, <2>3, <2>4, <3>1, <3>2, WrittenSame
  <2>8. \A i \in DOMAIN commits' : commits'[i] \in unknown'
    <3>1. /\ DOMAIN commits' = 1..(Len(commits) - 1) /\ DOMAIN commits = 1..Len(commits) /\ Len(commits) \in Nat \ {0}
          /\ \A i \in 1..(Len(commits) - 1) : commits'[i] = commits[i + 1]
      BY <1>8, TailFacts DEF CommitTaken, CommitTypes
    <3>2. \A i \in DOMAIN commits' : i + 1 \in DOMAIN commits
      BY <3>1
    <3> QED BY <1>8, <3>1, <3>2 DEF CommitTaken, Writing
  <2> QED BY <2>7, <2>8 DEF Writing
<1>9. ASSUME CommitDropped PROVE Writing'
  <2>0. Outcomes \subseteq Writes /\ "committed" \notin Outcomes /\ "pending" \in Writes /\ "pending" \notin Outcomes
    BY DEF Outcomes, Writes
  <2>1. UNCHANGED log
    BY <1>9 DEF CommitDropped
  <2>2. /\ \A x \in Calls, v \in Outcomes : Logged(x, v)' <=> Logged(x, v)
        /\ \A x \in Calls : log[x] # <<>> => log'[x] # <<>> /\ log'[x][1] = log[x][1]
    BY <2>1 DEF Logged
  <2>3. \A x \in Calls : claim[x] = "none" => log'[x] = log[x]
    BY <2>1
  <2>4. \A x \in Calls, v \in Outcomes : Queued(x, v)' <=> Queued(x, v)
    BY <1>9 DEF CommitDropped, Queued
  <2>7. ASSUME NEW x \in Calls PROVE Written(x)'
    <3>1. Written(x) /\ claim'[x] = claim[x] /\ (x \in unknown' <=> x \in unknown)
          /\ paid'[x] = paid[x] /\ (x \in shown' <=> x \in shown) /\ (stage[x] = "over" => stage'[x] = "over")
      BY <1>9 DEF CommitDropped, Writing
    <3>2. claim[x] = "none" => \A v \in Outcomes : ~ Queued(x, v)'
      BY <2>4, <3>1 DEF Written
    <3> QED BY <2>2, <2>3, <2>4, <3>1, <3>2, WrittenSame
  <2>8. \A i \in DOMAIN commits' : commits'[i] \in unknown'
    <3>1. /\ DOMAIN commits' = 1..(Len(commits) - 1) /\ DOMAIN commits = 1..Len(commits) /\ Len(commits) \in Nat \ {0}
          /\ \A i \in 1..(Len(commits) - 1) : commits'[i] = commits[i + 1]
      BY <1>9, TailFacts DEF CommitDropped, CommitTypes
    <3>2. \A i \in DOMAIN commits' : i + 1 \in DOMAIN commits
      BY <3>1
    <3> QED BY <1>9, <3>1, <3>2 DEF CommitDropped, Writing
  <2> QED BY <2>7, <2>8 DEF Writing
<1> QED BY <1>1, <1>2, <1>3, <1>4, <1>5, <1>6, <1>7, <1>8, <1>9 DEF BookMoves

(* Two outcomes of one call: the first awaited a receipt. *)
LEMMA ResolvedStep ==
    ASSUME StageTypes, LedgerTypes, ClaimTypes, LogTypes, CommitTypes, Claimed, Writing, Resolved, BookMoves
    PROVE  Resolved'
<1>1. ASSUME BooksStill PROVE Resolved'
  <2>1. UNCHANGED <<log, ledger>>
    BY <1>1 DEF BooksStill, bookVars
  <2> QED BY <2>1 DEF Resolved, Twice
<1>2. ASSUME NEW c \in Calls, MarkerQueued(c) PROVE Resolved'
  <2>0. "committed" \notin Outcomes /\ "pending" \notin Outcomes /\ Outcomes \subseteq Writes /\ "pending" \in Writes
    BY DEF Outcomes, Writes
  <2>1. "pending" \in Writes /\ ledger' = Append(ledger, [call |-> c, write |-> "pending"])
    BY <1>2 DEF MarkerQueued, Writes
  <2>2. ledger \in Seq(Entries) /\ [call |-> c, write |-> "pending"] \in Entries
    BY <2>1, EntryFacts
  <2>9. /\ DOMAIN ledger' = 1..(Len(ledger) + 1) /\ DOMAIN ledger = 1..Len(ledger) /\ Len(ledger) \in Nat
        /\ ledger'[Len(ledger) + 1] = [call |-> c, write |-> "pending"] /\ \A i \in 1..Len(ledger) : ledger'[i] = ledger[i]
    BY <2>1, <2>2, AppendFacts
  <2>4. ledger'[Len(ledger) + 1].call = c /\ ledger'[Len(ledger) + 1].write = "pending"
    BY <2>9
  <2>6. \A x \in Calls : \A i \in DOMAIN log'[x] : log'[x][i] \in Outcomes => i \in DOMAIN log[x] /\ log'[x][i] = log[x][i]
    <3>1. UNCHANGED log
      BY <1>2 DEF MarkerQueued
    <3> QED BY <3>1
  <2>3. \A i \in DOMAIN ledger' : ledger'[i].write \in Outcomes => i \in DOMAIN ledger /\ ledger'[i] = ledger[i]
    <3> SUFFICES ASSUME NEW i \in DOMAIN ledger', ledger'[i].write \in Outcomes PROVE i \in DOMAIN ledger /\ ledger'[i] = ledger[i]
      OBVIOUS
    <3>1. i # Len(ledger) + 1
      BY <2>0, <2>4
    <3> QED BY <2>9, <3>1
  <2>7. ASSUME NEW x \in Calls PROVE Twice(x)'
    <3>1. Twice(x)
      BY DEF Resolved
    <3>2. \A i, j \in DOMAIN log'[x] :
             i < j /\ log'[x][i] \in Outcomes /\ log'[x][j] \in Outcomes => Follows(log'[x][i], log'[x][j])
      BY <2>6, <3>1 DEF Twice
    <3>3. \A i \in DOMAIN log'[x], j \in DOMAIN ledger' :
             ledger'[j].call = x /\ log'[x][i] \in Outcomes /\ ledger'[j].write \in Outcomes
                 => Follows(log'[x][i], ledger'[j].write)
      BY <2>6, <2>3, <3>1 DEF Twice
    <3>4. \A i, j \in DOMAIN ledger' :
             i < j /\ ledger'[i].call = x /\ ledger'[j].call = x
                 /\ ledger'[i].write \in Outcomes /\ ledger'[j].write \in Outcomes
                 => Follows(ledger'[i].write, ledger'[j].write)
      <4> SUFFICES ASSUME NEW i \in DOMAIN ledger', NEW j \in DOMAIN ledger', i < j, ledger'[i].call = x, ledger'[j].call = x,
                          ledger'[i].write \in Outcomes, ledger'[j].write \in Outcomes
                   PROVE  Follows(ledger'[i].write, ledger'[j].write)
        OBVIOUS
      <4> QED BY <2>2, <2>3, <3>1 DEF Twice
    <3> QED BY <3>2, <3>3, <3>4 DEF Twice, Follows
  <2> QED BY <2>7 DEF Resolved
<1>3. ASSUME NEW c \in Calls, NEW w \in Outcomes, OutcomeQueued(c, w) PROVE Resolved'
  <2>0. "committed" \notin Outcomes /\ "pending" \notin Outcomes /\ Outcomes \subseteq Writes /\ "pending" \in Writes
    BY DEF Outcomes, Writes
  <2>1. w \in Writes /\ ledger' = Append(ledger, [call |-> c, write |-> w])
    BY <1>3 DEF OutcomeQueued, Writes
  <2>2. ledger \in Seq(Entries) /\ [call |-> c, write |-> w] \in Entries
    BY <2>1, EntryFacts
  <2>3. /\ DOMAIN ledger' = 1..(Len(ledger) + 1) /\ DOMAIN ledger = 1..Len(ledger) /\ Len(ledger) \in Nat
        /\ ledger'[Len(ledger) + 1] = [call |-> c, write |-> w] /\ \A i \in 1..Len(ledger) : ledger'[i] = ledger[i]
    BY <2>1, <2>2, AppendFacts
  <2>4. ledger'[Len(ledger) + 1].call = c /\ ledger'[Len(ledger) + 1].write = w
    BY <2>3
  <2>6. \A x \in Calls : \A i \in DOMAIN log'[x] : log'[x][i] \in Outcomes => i \in DOMAIN log[x] /\ log'[x][i] = log[x][i]
    <3>1. UNCHANGED log
      BY <1>3 DEF OutcomeQueued
    <3> QED BY <3>1
  <2>5. \A v \in Outcomes : Queued(c, v) \/ Logged(c, v) => Follows(v, w)
    <3>1. /\ Written(c) /\ stage[c] \in {"acked", "asked", "late"} /\ (stage[c] = "late" => w \in {"settled", "incomplete"})
      BY <1>3 DEF OutcomeQueued, Writing
    <3>2. stage[c] \in {"acked", "asked"} => claim[c] = "pending"
      BY DEF Claimed
    <3>3. stage[c] = "late" => claim[c] = "incomplete"
      BY DEF Claimed
    <3> QED BY <3>1, <3>2, <3>3 DEF Written, Follows
  <2>7. ASSUME NEW x \in Calls PROVE Twice(x)'
    <3>1. Twice(x) /\ log'[x] = log[x]
      BY <1>3 DEF Resolved, OutcomeQueued
    <3>2. \A i \in DOMAIN ledger' : ledger'[i].call = x /\ i \notin DOMAIN ledger => i = Len(ledger) + 1 /\ x = c /\ ledger'[i].write = w
      BY <2>3, <2>4
    <3>3. \A i \in DOMAIN ledger : ledger'[i] = ledger[i] /\ i < Len(ledger) + 1
      BY <2>3
    <3>4. \A i \in DOMAIN log'[x], j \in DOMAIN ledger' :
             ledger'[j].call = x /\ log'[x][i] \in Outcomes /\ ledger'[j].write \in Outcomes
                 => Follows(log'[x][i], ledger'[j].write)
      <4> SUFFICES ASSUME NEW i \in DOMAIN log'[x], NEW j \in DOMAIN ledger', ledger'[j].call = x, log'[x][i] \in Outcomes,
                          ledger'[j].write \in Outcomes
                   PROVE  Follows(log'[x][i], ledger'[j].write)
        OBVIOUS
      <4>1. CASE j \in DOMAIN ledger
        BY <3>1, <3>3, <4>1 DEF Twice
      <4>2. CASE j \notin DOMAIN ledger
        <5>1. Logged(c, log[c][i]) /\ log'[x][i] = log[c][i] /\ ledger'[j].write = w
          BY <3>1, <3>2, <4>2 DEF Logged
        <5> QED BY <2>5, <5>1
      <4> QED BY <4>1, <4>2
    <3>5. \A i, j \in DOMAIN ledger' :
             i < j /\ ledger'[i].call = x /\ ledger'[j].call = x
                 /\ ledger'[i].write \in Outcomes /\ ledger'[j].write \in Outcomes
                 => Follows(ledger'[i].write, ledger'[j].write)
      <4> SUFFICES ASSUME NEW i \in DOMAIN ledger', NEW j \in DOMAIN ledger', i < j, ledger'[i].call = x, ledger'[j].call = x,
                          ledger'[i].write \in Outcomes, ledger'[j].write \in Outcomes
                   PROVE  Follows(ledger'[i].write, ledger'[j].write)
        OBVIOUS
      <4>0. i \in DOMAIN ledger
        BY <2>3
      <4>1. CASE j \in DOMAIN ledger
        BY <3>1, <3>3, <4>0, <4>1 DEF Twice
      <4>2. CASE j \notin DOMAIN ledger
        <5>1. Queued(c, ledger[i].write) /\ ledger'[i] = ledger[i] /\ ledger'[j].write = w
          BY <3>2, <3>3, <4>0, <4>2 DEF Queued
        <5> QED BY <2>5, <5>1
      <4> QED BY <4>1, <4>2
    <3> QED BY <3>1, <3>4, <3>5 DEF Twice, Follows
  <2> QED BY <2>7 DEF Resolved
<1>4. ASSUME NEW c \in Calls, MarkerTaken(c) PROVE Resolved'
  <2>0. "committed" \notin Outcomes /\ "pending" \notin Outcomes /\ Outcomes \subseteq Writes /\ "pending" \in Writes
    BY DEF Outcomes, Writes
  <2>1. ledger # <<>> /\ ledger' = Tail(ledger) /\ ledger \in Seq(Entries)
    BY <1>4, EntryFacts DEF MarkerTaken, Settles
  <2>2. /\ DOMAIN ledger' = 1..(Len(ledger) - 1) /\ DOMAIN ledger = 1..Len(ledger) /\ Len(ledger) \in Nat \ {0}
        /\ Head(ledger) = ledger[1] /\ \A i \in 1..(Len(ledger) - 1) : ledger'[i] = ledger[i + 1]
    BY <2>1, TailFacts
  <2>3. \A i \in DOMAIN ledger' : i + 1 \in DOMAIN ledger /\ ledger'[i] = ledger[i + 1]
    BY <2>2
  <2>5. /\ \A x \in Calls \ {c} : log'[x] = log[x]
        /\ DOMAIN log[c] = 1..Len(log[c]) /\ Len(log[c]) \in Nat /\ DOMAIN log'[c] = 1..(Len(log[c]) + 1)
        /\ log'[c][Len(log[c]) + 1] = "pending" /\ \A i \in 1..Len(log[c]) : log'[c][i] = log[c][i]
    <3>1. log' = [log EXCEPT ![c] = Append(log[c], "pending")] /\ "pending" \in Writes \cup {"committed"} /\ c \in Calls
      BY <1>4, <2>0 DEF MarkerTaken
    <3> QED BY <3>1, LoggedAppend
  <2>6. \A x \in Calls : \A i \in DOMAIN log'[x] : log'[x][i] \in Outcomes => i \in DOMAIN log[x] /\ log'[x][i] = log[x][i]
    <3> SUFFICES ASSUME NEW x \in Calls, NEW i \in DOMAIN log'[x], log'[x][i] \in Outcomes
                 PROVE  i \in DOMAIN log[x] /\ log'[x][i] = log[x][i]
      OBVIOUS
    <3>1. CASE x = c
      <4>1. i # Len(log[c]) + 1 /\ i \in 1..(Len(log[c]) + 1)
        BY <2>0, <2>5, <3>1
      <4> QED BY <2>5, <3>1, <4>1
    <3>2. CASE x # c
      BY <2>5, <3>2
    <3> QED BY <3>1, <3>2
  <2>7. ASSUME NEW x \in Calls PROVE Twice(x)'
    <3>1. Twice(x)
      BY DEF Resolved
    <3>2. \A i, j \in DOMAIN log'[x] :
             i < j /\ log'[x][i] \in Outcomes /\ log'[x][j] \in Outcomes => Follows(log'[x][i], log'[x][j])
      BY <2>6, <3>1 DEF Twice
    <3>3. \A i \in DOMAIN log'[x], j \in DOMAIN ledger' :
             ledger'[j].call = x /\ log'[x][i] \in Outcomes /\ ledger'[j].write \in Outcomes
                 => Follows(log'[x][i], ledger'[j].write)
      BY <2>6, <2>3, <3>1 DEF Twice
    <3>4. \A i, j \in DOMAIN ledger' :
             i < j /\ ledger'[i].call = x /\ ledger'[j].call = x
                 /\ ledger'[i].write \in Outcomes /\ ledger'[j].write \in Outcomes
                 => Follows(ledger'[i].write, ledger'[j].write)
      <4> SUFFICES ASSUME NEW i \in DOMAIN ledger', NEW j \in DOMAIN ledger', i < j, ledger'[i].call = x, ledger'[j].call = x,
                          ledger'[i].write \in Outcomes, ledger'[j].write \in Outcomes
                   PROVE  Follows(ledger'[i].write, ledger'[j].write)
        OBVIOUS
      <4> QED BY <2>2, <2>3, <3>1 DEF Twice
    <3> QED BY <3>2, <3>3, <3>4 DEF Twice, Follows
  <2> QED BY <2>7 DEF Resolved
<1>5. ASSUME NEW c \in Calls, MarkerDropped(c) PROVE Resolved'
  <2>0. "committed" \notin Outcomes /\ "pending" \notin Outcomes /\ Outcomes \subseteq Writes /\ "pending" \in Writes
    BY DEF Outcomes, Writes
  <2>1. ledger # <<>> /\ ledger' = Tail(ledger) /\ ledger \in Seq(Entries)
    BY <1>5, EntryFacts DEF MarkerDropped, Settles
  <2>2. /\ DOMAIN ledger' = 1..(Len(ledger) - 1) /\ DOMAIN ledger = 1..Len(ledger) /\ Len(ledger) \in Nat \ {0}
        /\ Head(ledger) = ledger[1] /\ \A i \in 1..(Len(ledger) - 1) : ledger'[i] = ledger[i + 1]
    BY <2>1, TailFacts
  <2>3. \A i \in DOMAIN ledger' : i + 1 \in DOMAIN ledger /\ ledger'[i] = ledger[i + 1]
    BY <2>2
  <2>6. \A x \in Calls : \A i \in DOMAIN log'[x] : log'[x][i] \in Outcomes => i \in DOMAIN log[x] /\ log'[x][i] = log[x][i]
    <3>1. UNCHANGED log
      BY <1>5 DEF MarkerDropped
    <3> QED BY <3>1
  <2>7. ASSUME NEW x \in Calls PROVE Twice(x)'
    <3>1. Twice(x)
      BY DEF Resolved
    <3>2. \A i, j \in DOMAIN log'[x] :
             i < j /\ log'[x][i] \in Outcomes /\ log'[x][j] \in Outcomes => Follows(log'[x][i], log'[x][j])
      BY <2>6, <3>1 DEF Twice
    <3>3. \A i \in DOMAIN log'[x], j \in DOMAIN ledger' :
             ledger'[j].call = x /\ log'[x][i] \in Outcomes /\ ledger'[j].write \in Outcomes
                 => Follows(log'[x][i], ledger'[j].write)
      BY <2>6, <2>3, <3>1 DEF Twice
    <3>4. \A i, j \in DOMAIN ledger' :
             i < j /\ ledger'[i].call = x /\ ledger'[j].call = x
                 /\ ledger'[i].write \in Outcomes /\ ledger'[j].write \in Outcomes
                 => Follows(ledger'[i].write, ledger'[j].write)
      <4> SUFFICES ASSUME NEW i \in DOMAIN ledger', NEW j \in DOMAIN ledger', i < j, ledger'[i].call = x, ledger'[j].call = x,
                          ledger'[i].write \in Outcomes, ledger'[j].write \in Outcomes
                   PROVE  Follows(ledger'[i].write, ledger'[j].write)
        OBVIOUS
      <4> QED BY <2>2, <2>3, <3>1 DEF Twice
    <3> QED BY <3>2, <3>3, <3>4 DEF Twice, Follows
  <2> QED BY <2>7 DEF Resolved
<1>6. ASSUME NEW w \in Entries, OutcomeTaken(w) PROVE Resolved'
  <2>0. "committed" \notin Outcomes /\ "pending" \notin Outcomes /\ Outcomes \subseteq Writes /\ "pending" \in Writes
    BY DEF Outcomes, Writes
  <2>1. ledger # <<>> /\ ledger' = Tail(ledger) /\ ledger \in Seq(Entries)
    BY <1>6, EntryFacts DEF OutcomeTaken, Settles
  <2>2. /\ DOMAIN ledger' = 1..(Len(ledger) - 1) /\ DOMAIN ledger = 1..Len(ledger) /\ Len(ledger) \in Nat \ {0}
        /\ Head(ledger) = ledger[1] /\ \A i \in 1..(Len(ledger) - 1) : ledger'[i] = ledger[i + 1]
    BY <2>1, TailFacts
  <2>3. \A i \in DOMAIN ledger' : i + 1 \in DOMAIN ledger /\ ledger'[i] = ledger[i + 1]
    BY <2>2
  <2>4. w = ledger[1] /\ w.call \in Calls /\ w.write \in Outcomes /\ 1 \in DOMAIN ledger
    BY <1>6, <2>2 DEF OutcomeTaken, Settles, Entries
  <2>5. /\ \A x \in Calls \ {w.call} : log'[x] = log[x]
        /\ DOMAIN log[w.call] = 1..Len(log[w.call]) /\ Len(log[w.call]) \in Nat /\ DOMAIN log'[w.call] = 1..(Len(log[w.call]) + 1)
        /\ log'[w.call][Len(log[w.call]) + 1] = w.write /\ \A i \in 1..Len(log[w.call]) : log'[w.call][i] = log[w.call][i]
    <3>1. log' = [log EXCEPT ![w.call] = Append(log[w.call], w.write)] /\ w.write \in Writes \cup {"committed"} /\ w.call \in Calls
      BY <1>6, <2>0, <2>4 DEF OutcomeTaken
    <3> QED BY <3>1, LoggedAppend
  <2>7. ASSUME NEW x \in Calls PROVE Twice(x)'
    <3>1. Twice(x)
      BY DEF Resolved
    <3>2. ASSUME NEW i \in DOMAIN log'[x], log'[x][i] \in Outcomes
          PROVE  \/ i \in DOMAIN log[x] /\ log'[x][i] = log[x][i]
                 \/ x = w.call /\ i = Len(log[x]) + 1 /\ log'[x][i] = w.write
      BY <2>5, <3>2
    <3>3. \A i, j \in DOMAIN log'[x] :
             i < j /\ log'[x][i] \in Outcomes /\ log'[x][j] \in Outcomes => Follows(log'[x][i], log'[x][j])
      <4> SUFFICES ASSUME NEW i \in DOMAIN log'[x], NEW j \in DOMAIN log'[x], i < j, log'[x][i] \in Outcomes, log'[x][j] \in Outcomes
                   PROVE  Follows(log'[x][i], log'[x][j])
        OBVIOUS
      <4>1. CASE j \in DOMAIN log[x] /\ log'[x][j] = log[x][j]
        <5>1. i \in DOMAIN log[x] /\ log'[x][i] = log[x][i]
          BY <2>5, <3>2, <4>1
        <5> QED BY <3>1, <4>1, <5>1 DEF Twice
      <4>2. CASE x = w.call /\ j = Len(log[x]) + 1 /\ log'[x][j] = w.write
        <5>1. i \in DOMAIN log[x] /\ log'[x][i] = log[x][i]
          BY <2>5, <3>2, <4>2
        <5> QED BY <2>4, <3>1, <4>2, <5>1 DEF Twice
      <4> QED BY <3>2, <4>1, <4>2
    <3>4. \A i \in DOMAIN log'[x], j \in DOMAIN ledger' :
             ledger'[j].call = x /\ log'[x][i] \in Outcomes /\ ledger'[j].write \in Outcomes
                 => Follows(log'[x][i], ledger'[j].write)
      <4> SUFFICES ASSUME NEW i \in DOMAIN log'[x], NEW j \in DOMAIN ledger', ledger'[j].call = x, log'[x][i] \in Outcomes,
                          ledger'[j].write \in Outcomes
                   PROVE  Follows(log'[x][i], ledger'[j].write)
        OBVIOUS
      <4>1. j + 1 \in DOMAIN ledger /\ ledger'[j] = ledger[j + 1] /\ 1 < j + 1
        BY <2>2, <2>3
      <4>2. CASE i \in DOMAIN log[x] /\ log'[x][i] = log[x][i]
        BY <3>1, <4>1, <4>2 DEF Twice
      <4>3. CASE x = w.call /\ log'[x][i] = w.write
        BY <2>4, <3>1, <4>1, <4>3 DEF Twice
      <4> QED BY <3>2, <4>2, <4>3
    <3>5. \A i, j \in DOMAIN ledger' :
             i < j /\ ledger'[i].call = x /\ ledger'[j].call = x
                 /\ ledger'[i].write \in Outcomes /\ ledger'[j].write \in Outcomes
                 => Follows(ledger'[i].write, ledger'[j].write)
      <4> SUFFICES ASSUME NEW i \in DOMAIN ledger', NEW j \in DOMAIN ledger', i < j, ledger'[i].call = x, ledger'[j].call = x,
                          ledger'[i].write \in Outcomes, ledger'[j].write \in Outcomes
                   PROVE  Follows(ledger'[i].write, ledger'[j].write)
        OBVIOUS
      <4> QED BY <2>2, <2>3, <3>1 DEF Twice
    <3> QED BY <3>3, <3>4, <3>5 DEF Twice, Follows
  <2> QED BY <2>7 DEF Resolved
<1>7. ASSUME NEW w \in Entries, OutcomeDropped(w) PROVE Resolved'
  <2>0. "committed" \notin Outcomes /\ "pending" \notin Outcomes /\ Outcomes \subseteq Writes /\ "pending" \in Writes
    BY DEF Outcomes, Writes
  <2>1. ledger # <<>> /\ ledger' = Tail(ledger) /\ ledger \in Seq(Entries)
    BY <1>7, EntryFacts DEF OutcomeDropped, Settles
  <2>2. /\ DOMAIN ledger' = 1..(Len(ledger) - 1) /\ DOMAIN ledger = 1..Len(ledger) /\ Len(ledger) \in Nat \ {0}
        /\ Head(ledger) = ledger[1] /\ \A i \in 1..(Len(ledger) - 1) : ledger'[i] = ledger[i + 1]
    BY <2>1, TailFacts
  <2>3. \A i \in DOMAIN ledger' : i + 1 \in DOMAIN ledger /\ ledger'[i] = ledger[i + 1]
    BY <2>2
  <2>6. \A x \in Calls : \A i \in DOMAIN log'[x] : log'[x][i] \in Outcomes => i \in DOMAIN log[x] /\ log'[x][i] = log[x][i]
    <3>1. UNCHANGED log
      BY <1>7 DEF OutcomeDropped
    <3> QED BY <3>1
  <2>7. ASSUME NEW x \in Calls PROVE Twice(x)'
    <3>1. Twice(x)
      BY DEF Resolved
    <3>2. \A i, j \in DOMAIN log'[x] :
             i < j /\ log'[x][i] \in Outcomes /\ log'[x][j] \in Outcomes => Follows(log'[x][i], log'[x][j])
      BY <2>6, <3>1 DEF Twice
    <3>3. \A i \in DOMAIN log'[x], j \in DOMAIN ledger' :
             ledger'[j].call = x /\ log'[x][i] \in Outcomes /\ ledger'[j].write \in Outcomes
                 => Follows(log'[x][i], ledger'[j].write)
      BY <2>6, <2>3, <3>1 DEF Twice
    <3>4. \A i, j \in DOMAIN ledger' :
             i < j /\ ledger'[i].call = x /\ ledger'[j].call = x
                 /\ ledger'[i].write \in Outcomes /\ ledger'[j].write \in Outcomes
                 => Follows(ledger'[i].write, ledger'[j].write)
      <4> SUFFICES ASSUME NEW i \in DOMAIN ledger', NEW j \in DOMAIN ledger', i < j, ledger'[i].call = x, ledger'[j].call = x,
                          ledger'[i].write \in Outcomes, ledger'[j].write \in Outcomes
                   PROVE  Follows(ledger'[i].write, ledger'[j].write)
        OBVIOUS
      <4> QED BY <2>2, <2>3, <3>1 DEF Twice
    <3> QED BY <3>2, <3>3, <3>4 DEF Twice, Follows
  <2> QED BY <2>7 DEF Resolved
<1>8. ASSUME CommitTaken PROVE Resolved'
  <2>0. "committed" \notin Outcomes /\ "pending" \notin Outcomes /\ Outcomes \subseteq Writes /\ "pending" \in Writes
    BY DEF Outcomes, Writes
  <2>4. Head(commits) \in Calls /\ UNCHANGED ledger
    BY <1>8, TailFacts DEF CommitTaken, CommitTypes
  <2>2. ledger \in Seq(Entries)
    BY EntryFacts
  <2>3. DOMAIN ledger' = DOMAIN ledger /\ \A i \in DOMAIN ledger : ledger'[i] = ledger[i]
    BY <2>4
  <2>5. /\ \A x \in Calls \ {Head(commits)} : log'[x] = log[x]
        /\ DOMAIN log[Head(commits)] = 1..Len(log[Head(commits)]) /\ Len(log[Head(commits)]) \in Nat /\ DOMAIN log'[Head(commits)] = 1..(Len(log[Head(commits)]) + 1)
        /\ log'[Head(commits)][Len(log[Head(commits)]) + 1] = "committed" /\ \A i \in 1..Len(log[Head(commits)]) : log'[Head(commits)][i] = log[Head(commits)][i]
    <3>1. log' = [log EXCEPT ![Head(commits)] = Append(log[Head(commits)], "committed")] /\ "committed" \in Writes \cup {"committed"} /\ Head(commits) \in Calls
      BY <1>8, <2>0, <2>4 DEF CommitTaken
    <3> QED BY <3>1, LoggedAppend
  <2>6. \A x \in Calls : \A i \in DOMAIN log'[x] : log'[x][i] \in Outcomes => i \in DOMAIN log[x] /\ log'[x][i] = log[x][i]
    <3> SUFFICES ASSUME NEW x \in Calls, NEW i \in DOMAIN log'[x], log'[x][i] \in Outcomes
                 PROVE  i \in DOMAIN log[x] /\ log'[x][i] = log[x][i]
      OBVIOUS
    <3>1. CASE x = Head(commits)
      <4>1. i # Len(log[Head(commits)]) + 1 /\ i \in 1..(Len(log[Head(commits)]) + 1)
        BY <2>0, <2>5, <3>1
      <4> QED BY <2>5, <3>1, <4>1
    <3>2. CASE x # Head(commits)
      BY <2>5, <3>2
    <3> QED BY <3>1, <3>2
  <2>7. ASSUME NEW x \in Calls PROVE Twice(x)'
    <3>1. Twice(x)
      BY DEF Resolved
    <3>2. \A i, j \in DOMAIN log'[x] :
             i < j /\ log'[x][i] \in Outcomes /\ log'[x][j] \in Outcomes => Follows(log'[x][i], log'[x][j])
      BY <2>6, <3>1 DEF Twice
    <3>3. \A i \in DOMAIN log'[x], j \in DOMAIN ledger' :
             ledger'[j].call = x /\ log'[x][i] \in Outcomes /\ ledger'[j].write \in Outcomes
                 => Follows(log'[x][i], ledger'[j].write)
      BY <2>6, <2>3, <3>1 DEF Twice
    <3>4. \A i, j \in DOMAIN ledger' :
             i < j /\ ledger'[i].call = x /\ ledger'[j].call = x
                 /\ ledger'[i].write \in Outcomes /\ ledger'[j].write \in Outcomes
                 => Follows(ledger'[i].write, ledger'[j].write)
      <4> SUFFICES ASSUME NEW i \in DOMAIN ledger', NEW j \in DOMAIN ledger', i < j, ledger'[i].call = x, ledger'[j].call = x,
                          ledger'[i].write \in Outcomes, ledger'[j].write \in Outcomes
                   PROVE  Follows(ledger'[i].write, ledger'[j].write)
        OBVIOUS
      <4> QED BY <2>2, <2>3, <3>1 DEF Twice
    <3> QED BY <3>2, <3>3, <3>4 DEF Twice, Follows
  <2> QED BY <2>7 DEF Resolved
<1>9. ASSUME CommitDropped PROVE Resolved'
  <2>1. UNCHANGED <<log, ledger>>
    BY <1>9 DEF CommitDropped, bookVars
  <2> QED BY <2>1 DEF Resolved, Twice
<1> QED BY <1>1, <1>2, <1>3, <1>4, <1>5, <1>6, <1>7, <1>8, <1>9 DEF BookMoves

-----------------------------------------------------------------------------
(* What is left: the types of the rest, lost money and the warning.          *)

(* A failed append leaves the run aborted. *)
LEMMA AppendFailed ==
    ASSUME RunTypes, AppendFails
    PROVE  RunTypes' /\ Aborted'
<1>1. faults \in Nat /\ MaxFaults \in Nat /\ faults < MaxFaults /\ faults' = faults + 1
  BY PlanParts DEF RunTypes, AppendFails
<1>2. faults' \in 0..MaxFaults
  BY <1>1
<1>3. run' \in {"failed", "cancelled"} /\ legacyHold' = FALSE
  BY DEF RunTypes, AppendFails, Aborted
<1> QED BY <1>2, <1>3 DEF RunTypes, Aborted

(* A turn that waits for a call stands at a provider. *)
LEMMA AtProvider ==
    ASSUME ChainTypes, OneAtATime, NEW c \in Calls, stage[c] \in Ongoing, c \notin closed
    PROVE  Provider(c[1]) \in Providers
<1>1. c[1] \in Turns /\ entry[c[1]] <= Len(Plan) /\ entry[c[1]] \in 1..(Len(Plan) + 1) /\ Len(Plan) \in Nat
  BY CallParts, PlanParts DEF ChainTypes, OneAtATime
<1>2. entry[c[1]] \in 1..Len(Plan)
  BY <1>1
<1> QED BY <1>2, PlanParts DEF Provider

(* #afterFailure: which providers cool down. *)
LEMMA CooledTyped ==
    ASSUME OtherTypes, NEW t \in Turns, Provider(t) \in Providers, NEW kind, NEW committed, NEW renews,
           FailureNoted(t, kind, committed, renews)
    PROVE  cooled' \in [Turns -> SUBSET Providers]
<1> DEFINE noted == IF kind = "rate_limit" /\ ~committed THEN {Provider(t)} ELSE {}
<1>1. cooled' = [cooled EXCEPT ![t] = cooled[t] \cup noted]
  BY DEF FailureNoted
<1>2. noted \subseteq Providers
  OBVIOUS
<1> HIDE DEF noted
<1> QED BY <1>1, <1>2 DEF OtherTypes

(* A turn that closes, or goes back to its chain. *)
LEMMA ClosedTyped ==
    ASSUME OtherTypes, NEW t \in Turns, cooled' \in [Turns -> SUBSET Providers], UNCHANGED abandoned,
           current' = [current EXCEPT ![t] = 0],
           UNCHANGED result \/ \E how \in {"done", "failed", "paused"} : result' = [result EXCEPT ![t] = how]
    PROVE  OtherTypes'
BY DEF OtherTypes

(* The end of an attempt. *)
LEMMA EndTyped ==
    ASSUME OtherTypes, NEW c \in Calls, NEW kind, NEW renews, NEW s, Ends(c, kind, renews, s),
           c \notin closed => Provider(c[1]) \in Providers
    PROVE  OtherTypes'
<1> DEFINE verdict == AfterFailure(c[1], kind, c \in shown', renews)
<1>0. c[1] \in Turns
  BY CallParts
<1>1. CASE c \in closed
  BY <1>1 DEF Ends, chainVars, turnVars, OtherTypes
<1>2. CASE c \notin closed
  <2>1. FailureNoted(c[1], kind, c \in shown', renews)
    BY <1>2 DEF Ends
  <2>2. cooled' \in [Turns -> SUBSET Providers]
    BY <1>0, <1>2, <2>1, CooledTyped
  <2>3. /\ UNCHANGED abandoned /\ current' = [current EXCEPT ![c[1]] = 0]
        /\ UNCHANGED result \/ \E how \in {"done", "failed", "paused"} : result' = [result EXCEPT ![c[1]] = how]
    <3> HIDE DEF verdict
    <3>1. CASE verdict = "fatal"
      <4>1. Closes(c[1], IF kind = "pause" /\ round[c[1]] = 0 THEN "paused" ELSE "failed")
        BY <1>2, <3>1 DEF Ends, verdict
      <4> QED BY <4>1 DEF Closes
    <3>2. CASE verdict # "fatal"
      BY <1>2, <3>2 DEF Ends, verdict
    <3> QED BY <3>1, <3>2
  <2> QED BY <1>0, <2>2, <2>3, ClosedTyped
<1> QED BY <1>1, <1>2

(* A step that loses no money and revives no run. *)
NoLoss ==
    /\ UNCHANGED <<broken, commitBroken>> /\ (failure' => failure) /\ (commitFailure' => commitFailure)
    /\ Aborted => Aborted'

(* A step that leaves the warning and the calls over the cap alone. *)
Quiet ==
    /\ warningArmed => warningArmed'
    /\ UNCHANGED <<warning, overCap>> /\ (announced => announced') /\ (Aborted => Aborted')

(* The steps that do not. *)
Warns == (\E c \in Calls : Evaluate(c)) \/ WarningAppended \/ WarningThrows

(* Call x is not taken past the warning. *)
Cautious(x) ==
    \/ stage'[x] = stage[x]
    \/ stage'[x] \in {"over", "unmarked"}
    \/ stage[x] \in Before /\ stage'[x] \in Before
    \/ stage[x] = "told" /\ stage'[x] = "begin" /\ ~Aborted
    \/ stage[x] \in {"begin", "marker", "acked", "asked"} /\ stage'[x] \in {"begin", "marker", "acked", "asked", "late"}

(* One call moves on. *)
LEMMA OneCautious ==
    ASSUME StageTypes, NEW c \in Calls, NEW s, stage' = [stage EXCEPT ![c] = s],
           \/ s \in {"over", "unmarked"}
           \/ stage[c] \in Before /\ s \in Before
           \/ stage[c] = "told" /\ s = "begin" /\ ~Aborted
           \/ stage[c] \in {"begin", "marker", "acked", "asked"} /\ s \in {"begin", "marker", "acked", "asked", "late"}
    PROVE  \A x \in Calls : Cautious(x)
<1>1. stage'[c] = s /\ \A x \in Calls \ {c} : stage'[x] = stage[x]
  BY DEF StageTypes
<1> QED BY <1>1 DEF Cautious

(* The warning keeps its types. *)
LEMMA WarningTyped ==
    ASSUME WarningTypes, [Next]_vars
    PROVE  WarningTypes'
<1>1. ASSUME UNCHANGED vars \/ OutcomeSettles \/ MarkerSettles \/ CommitSettles \/ Cancel \/
             LegacyJobSettles
      PROVE  WarningTypes'
  BY <1>1 DEF vars, governorVars, callVars, tallyVars, warningVars, OutcomeSettles, MarkerSettles,
        CommitSettles, Cancel, Outside, LegacyJobSettles, WarningTypes
<1>2. ASSUME NEW c \in Calls,
             PreAttemptJoined(c) \/ CheckFails(c) \/ CheckHeld(c) \/ Admitted(c) \/ BeginJoined(c) \/
             Unmarked(c)
      PROVE  WarningTypes'
  BY <1>2 DEF PreAttemptJoined, warningVars, tallyVars, CheckFails, CheckHeld, governorVars, Admitted,
        Release, Returned, BeginJoined, Unmarked, WarningTypes
<1>3. ASSUME NEW c \in Calls, Evaluate(c) PROVE WarningTypes'
  BY <1>3 DEF Evaluate, tallyVars, warningVars, WarningTypes
<1>4. ASSUME NEW c \in Calls, NotAsked(c) \/ Ask(c) \/ RetryClosed(c) PROVE WarningTypes'
  BY <1>4 DEF NotAsked, Uninvoked, Release, tallyVars, Returned, warningVars, Ask, governorVars,
        RetryClosed, WarningTypes
<1>5. ASSUME NEW c \in Calls, Succeed(c) PROVE WarningTypes'
  BY <1>5 DEF Succeed, AnswerFrame, Charged, Retained, Settle, SettleAtReservedEstimate, WarningTypes
<1>6. ASSUME NEW c \in Calls, Fail(c) PROVE WarningTypes'
  BY <1>6 DEF Fail, AnswerFrame, Charged, Retained, Release, Settle, SettleAtReservedEstimate, Returned,
        warningVars, WarningTypes
<1>7. ASSUME NEW c \in Calls, Deadline(c) PROVE WarningTypes'
  BY <1>7 DEF Deadline, AnswerFrame, Retained, SettleAtReservedEstimate, WarningTypes
<1>8. ASSUME NEW c \in Calls, NativeRetry(c) PROVE WarningTypes'
  BY <1>8 DEF NativeRetry, Release, Retained, Returned, SettleAtReservedEstimate, warningVars,
        WarningTypes
<1>9. ASSUME NEW c \in Calls, LateReceipt(c) PROVE WarningTypes'
  BY <1>9 DEF LateReceipt, AnswerFrame, UpdateCost, warningVars, WarningTypes
<1>10. ASSUME NEW t \in Turns,
              ChainFails(t) \/ EntryPassed(t) \/ StartAttempt(t) \/ ToolsJoined(t) \/ ToolsReturn(t) \/
              TurnCaptured(t)
       PROVE  WarningTypes'
  BY <1>10 DEF ChainFails, StandsStill, governorVars, callVars, tallyVars, warningVars, EntryPassed,
        StartAttempt, NewCall, ToolsJoined, JoinFrame, ToolsReturn, TurnCaptured, WarningTypes
<1>11. ASSUME NEW t \in Turns, DispatchEnds(t) \/ Abandon(t) PROVE WarningTypes'
  BY <1>11 DEF DispatchEnds, JoinFrame, warningVars, callVars, Abandon, Outside, tallyVars, WarningTypes
<1>12. ASSUME NEW t \in Turns, NEW p \in Providers, CoolsOff(t, p) PROVE WarningTypes'
  BY <1>12 DEF CoolsOff, Outside, warningVars, callVars, tallyVars, WarningTypes
<1>13. ASSUME NEW j \in Joiners, Loops(j) PROVE WarningTypes'
  BY <1>13 DEF Loops, JoinLoops, callVars, tallyVars, governorVars, warningVars, WarningTypes
<1>14. ASSUME WarningAppended PROVE WarningTypes'
  BY <1>14 DEF WarningAppended, WarningTypes
<1>15. ASSUME WarningThrows PROVE WarningTypes'
  BY <1>15 DEF WarningThrows, WarningTypes
<1> QED BY <1>1, <1>2, <1>3, <1>4, <1>5, <1>6, <1>7, <1>8, <1>9, <1>10, <1>11, <1>12, <1>13, <1>14, <1>15, StepCases DEF StepKinds

(* The run keeps its types. *)
LEMMA RunTyped ==
    ASSUME RunTypes, [Next]_vars
    PROVE  RunTypes'
<1>1. ASSUME UNCHANGED vars PROVE RunTypes'
  BY <1>1 DEF vars, governorVars, runVars, RunTypes
<1>2. ASSUME NEW c \in Calls,
             PreAttemptJoined(c) \/ CheckFails(c) \/ CheckHeld(c) \/ Evaluate(c) \/ Admitted(c) \/
             BeginJoined(c)
      PROVE  RunTypes'
  BY <1>2 DEF PreAttemptJoined, runVars, CheckFails, CheckHeld, governorVars, Evaluate, Admitted,
        BeginJoined, RunTypes
<1>3. ASSUME NEW c \in Calls,
             Unmarked(c) \/ NotAsked(c) \/ Ask(c) \/ Succeed(c) \/ Fail(c) \/ Deadline(c)
      PROVE  RunTypes'
  BY <1>3 DEF Unmarked, runVars, NotAsked, Uninvoked, Ask, governorVars, Succeed, AnswerFrame, Fail,
        Deadline, RunTypes
<1>4. ASSUME NEW c \in Calls, RetryClosed(c) \/ NativeRetry(c) \/ LateReceipt(c) PROVE RunTypes'
  BY <1>4 DEF RetryClosed, runVars, NativeRetry, LateReceipt, AnswerFrame, RunTypes
<1>5. ASSUME NEW t \in Turns,
             ChainFails(t) \/ EntryPassed(t) \/ StartAttempt(t) \/ ToolsJoined(t) \/ ToolsReturn(t) \/
             TurnCaptured(t)
      PROVE  RunTypes'
  BY <1>5 DEF ChainFails, StandsStill, governorVars, runVars, EntryPassed, StartAttempt, ToolsJoined,
        ToolsReturn, TurnCaptured, RunTypes
<1>6. ASSUME NEW t \in Turns, DispatchEnds(t) PROVE RunTypes'
  BY <1>6 DEF DispatchEnds, RunTypes
<1>7. ASSUME NEW t \in Turns, Abandon(t) PROVE RunTypes'
  BY <1>7 DEF Abandon, Outside, RunTypes
<1>8. ASSUME NEW t \in Turns, NEW p \in Providers, CoolsOff(t, p) PROVE RunTypes'
  BY <1>8 DEF CoolsOff, Outside, RunTypes
<1>9. ASSUME NEW j \in Joiners, Loops(j) PROVE RunTypes'
  BY <1>9 DEF Loops, JoinLoops, runVars, governorVars, RunTypes
<1>10. ASSUME OutcomeSettles PROVE RunTypes'
  <2>1. CASE AppendFails
    BY <2>1, AppendFailed
  <2>2. CASE ~AppendFails
    BY <1>10, <2>2 DEF OutcomeSettles, OutcomeLands, OutcomeLost, runVars, RunTypes
  <2> QED BY <2>1, <2>2
<1>11. ASSUME MarkerSettles PROVE RunTypes'
  <2>1. CASE AppendFails
    BY <2>1, AppendFailed
  <2>2. CASE ~AppendFails
    BY <1>11, <2>2 DEF MarkerSettles, MarkerLands, MarkerLost, runVars, RunTypes
  <2> QED BY <2>1, <2>2
<1>12. ASSUME CommitSettles PROVE RunTypes'
  <2>1. CASE AppendFails
    BY <2>1, AppendFailed
  <2>2. CASE ~AppendFails
    BY <1>12, <2>2 DEF CommitSettles, CommitLands, CommitLost, runVars, RunTypes
  <2> QED BY <2>1, <2>2
<1>13. ASSUME WarningAppended PROVE RunTypes'
  <2>1. CASE AppendFails
    BY <2>1, AppendFailed
  <2>2. CASE ~AppendFails
    BY <1>13, <2>2 DEF WarningAppended, runVars, RunTypes
  <2> QED BY <2>1, <2>2
<1>14. ASSUME WarningThrows PROVE RunTypes'
  <2>1. faults \in Nat /\ MaxFaults \in Nat /\ faults < MaxFaults /\ faults' = faults + 1
    BY <1>14, PlanParts DEF WarningThrows, RunTypes
  <2>2. faults' \in 0..MaxFaults
    BY <2>1
  <2> QED BY <1>14, <2>2 DEF WarningThrows, RunTypes
<1>15. ASSUME Cancel PROVE RunTypes'
  BY <1>15 DEF Cancel, Outside, RunTypes
<1>16. ASSUME LegacyJobSettles PROVE RunTypes'
  BY <1>16 DEF LegacyJobSettles, Outside, RunTypes
<1> QED BY <1>1, <1>2, <1>3, <1>4, <1>5, <1>6, <1>7, <1>8, <1>9, <1>10, <1>11, <1>12, <1>13, <1>14, <1>15, <1>16, StepCases DEF StepKinds

(* What the ledger and the governor remember of a failure is true or false. *)
LEMMA FlagsTyped ==
    ASSUME failure \in BOOLEAN, broken \in BOOLEAN, commitFailure \in BOOLEAN, commitBroken \in BOOLEAN, [Next]_vars
    PROVE  failure' \in BOOLEAN /\ broken' \in BOOLEAN /\ commitFailure' \in BOOLEAN /\ commitBroken' \in BOOLEAN
<1>1. ASSUME UNCHANGED vars \/ WarningAppended \/ WarningThrows \/ Cancel \/ LegacyJobSettles
      PROVE  failure' \in BOOLEAN /\ broken' \in BOOLEAN /\ commitFailure' \in BOOLEAN /\ commitBroken' \in BOOLEAN
  BY <1>1 DEF vars, governorVars, moneyVars, commitVars, WarningAppended, WarningThrows, Cancel,
        Outside, LegacyJobSettles
<1>2. ASSUME NEW c \in Calls,
             PreAttemptJoined(c)
      PROVE  failure' \in BOOLEAN /\ broken' \in BOOLEAN /\ commitFailure' \in BOOLEAN /\ commitBroken' \in BOOLEAN
  BY <1>2 DEF PreAttemptJoined, JoinEnds
<1>3. ASSUME NEW c \in Calls,
             CheckFails(c)
      PROVE  failure' \in BOOLEAN /\ broken' \in BOOLEAN /\ commitFailure' \in BOOLEAN /\ commitBroken' \in BOOLEAN
  BY <1>3 DEF CheckFails
<1>4. ASSUME NEW c \in Calls,
             CheckHeld(c) \/ Evaluate(c) \/ Admitted(c) \/ Unmarked(c) \/ NotAsked(c) \/ Ask(c)
      PROVE  failure' \in BOOLEAN /\ broken' \in BOOLEAN /\ commitFailure' \in BOOLEAN /\ commitBroken' \in BOOLEAN
  BY <1>4 DEF CheckHeld, governorVars, moneyVars, commitVars, Evaluate, Admitted, Release, Unmarked,
        NotAsked, Uninvoked, Ask
<1>5. ASSUME NEW c \in Calls,
             BeginJoined(c)
      PROVE  failure' \in BOOLEAN /\ broken' \in BOOLEAN /\ commitFailure' \in BOOLEAN /\ commitBroken' \in BOOLEAN
  BY <1>5 DEF BeginJoined, JoinEnds
<1>6. ASSUME NEW c \in Calls,
             Succeed(c) \/ Fail(c) \/ Deadline(c) \/ RetryClosed(c) \/ NativeRetry(c) \/
             LateReceipt(c)
      PROVE  failure' \in BOOLEAN /\ broken' \in BOOLEAN /\ commitFailure' \in BOOLEAN /\ commitBroken' \in BOOLEAN
  BY <1>6 DEF Succeed, AnswerFrame, Charged, Retained, Settle, SettleAtReservedEstimate, commitVars,
        Fail, Release, Deadline, RetryClosed, NativeRetry, LateReceipt, UpdateCost
<1>7. ASSUME NEW t \in Turns,
             ChainFails(t) \/ EntryPassed(t) \/ StartAttempt(t) \/ ToolsReturn(t) \/ Abandon(t)
      PROVE  failure' \in BOOLEAN /\ broken' \in BOOLEAN /\ commitFailure' \in BOOLEAN /\ commitBroken' \in BOOLEAN
  BY <1>7 DEF ChainFails, StandsStill, governorVars, commitVars, EntryPassed, StartAttempt, ToolsReturn,
        Abandon, Outside, moneyVars
<1>8. ASSUME NEW t \in Turns,
             ToolsJoined(t)
      PROVE  failure' \in BOOLEAN /\ broken' \in BOOLEAN /\ commitFailure' \in BOOLEAN /\ commitBroken' \in BOOLEAN
  BY <1>8 DEF ToolsJoined, JoinEnds
<1>9. ASSUME NEW t \in Turns,
             TurnCaptured(t)
      PROVE  failure' \in BOOLEAN /\ broken' \in BOOLEAN /\ commitFailure' \in BOOLEAN /\ commitBroken' \in BOOLEAN
  BY <1>9 DEF TurnCaptured, JoinEnds
<1>10. ASSUME NEW t \in Turns,
              DispatchEnds(t)
       PROVE  failure' \in BOOLEAN /\ broken' \in BOOLEAN /\ commitFailure' \in BOOLEAN /\ commitBroken' \in BOOLEAN
  BY <1>10 DEF DispatchEnds, JoinEnds
<1>11. ASSUME NEW t \in Turns, NEW p \in Providers,
              CoolsOff(t, p)
       PROVE  failure' \in BOOLEAN /\ broken' \in BOOLEAN /\ commitFailure' \in BOOLEAN /\ commitBroken' \in BOOLEAN
  BY <1>11 DEF CoolsOff, Outside, commitVars, moneyVars
<1>12. ASSUME NEW j \in Joiners,
              Loops(j)
       PROVE  failure' \in BOOLEAN /\ broken' \in BOOLEAN /\ commitFailure' \in BOOLEAN /\ commitBroken' \in BOOLEAN
  BY <1>12 DEF Loops, JoinLoops, governorVars, commitVars
<1>13. ASSUME OutcomeSettles
       PROVE  failure' \in BOOLEAN /\ broken' \in BOOLEAN /\ commitFailure' \in BOOLEAN /\ commitBroken' \in BOOLEAN
  BY <1>13 DEF OutcomeSettles, OutcomeLands, OutcomeLost, commitVars
<1>14. ASSUME MarkerSettles
       PROVE  failure' \in BOOLEAN /\ broken' \in BOOLEAN /\ commitFailure' \in BOOLEAN /\ commitBroken' \in BOOLEAN
  BY <1>14 DEF MarkerSettles, MarkerLands, MarkerLost, commitVars
<1>15. ASSUME CommitSettles
       PROVE  failure' \in BOOLEAN /\ broken' \in BOOLEAN /\ commitFailure' \in BOOLEAN /\ commitBroken' \in BOOLEAN
  BY <1>15 DEF CommitSettles, CommitLands, CommitLost
<1> QED BY <1>1, <1>2, <1>3, <1>4, <1>5, <1>6, <1>7, <1>8, <1>9, <1>10, <1>11, <1>12, <1>13, <1>14, <1>15, StepCases DEF StepKinds

(* So does the rest. *)
LEMMA OtherTyped ==
    ASSUME OtherTypes, ChainTypes, TurnTypes, OneAtATime, [Next]_vars
    PROVE  OtherTypes'
<1>1. ASSUME UNCHANGED vars \/ OutcomeSettles \/ MarkerSettles \/ CommitSettles \/ WarningAppended \/
             WarningThrows
      PROVE  OtherTypes'
  BY <1>1 DEF vars, chainVars, turnVars, OutcomeSettles, MarkerSettles, CommitSettles, WarningAppended,
        WarningThrows, OtherTypes
<1>2. ASSUME NEW c \in Calls, PreAttemptJoined(c) PROVE OtherTypes'
  <2>1. CASE Ends(c, "other", FALSE, "over")
    BY <1>2, <2>1, EndTyped, AtProvider DEF PreAttemptJoined, At, Ongoing, Acquiring
  <2>2. CASE ~ (Ends(c, "other", FALSE, "over"))
    BY <1>2, <2>2 DEF PreAttemptJoined, Begins, chainVars, turnVars, OtherTypes
  <2> QED BY <2>1, <2>2
<1>3. ASSUME NEW c \in Calls, CheckFails(c) PROVE OtherTypes'
  <2>1. stage[c] \in Ongoing /\ \E kind \in {"other"}, renews \in {FALSE} : Ends(c, kind, renews, "over")
    BY <1>3 DEF CheckFails, At, Ongoing, Acquiring
  <2> QED BY <2>1, EndTyped, AtProvider
<1>4. ASSUME NEW c \in Calls, CheckHeld(c) \/ Ask(c) \/ LateReceipt(c) PROVE OtherTypes'
  BY <1>4 DEF CheckHeld, chainVars, turnVars, Ask, LateReceipt, OtherTypes
<1>5. ASSUME NEW c \in Calls, Evaluate(c) PROVE OtherTypes'
  <2>1. CASE \E kind \in {"other", "pause"} : Ends(c, kind, FALSE, "over")
    BY <1>5, <2>1, EndTyped, AtProvider DEF Evaluate, At, Ongoing, Acquiring
  <2>2. CASE ~ (\E kind \in {"other", "pause"} : Ends(c, kind, FALSE, "over"))
    BY <1>5, <2>2 DEF Evaluate, Begins, chainVars, turnVars, OtherTypes
  <2> QED BY <2>1, <2>2
<1>6. ASSUME NEW c \in Calls, Admitted(c) PROVE OtherTypes'
  <2>1. CASE Ends(c, "other", FALSE, "over")
    BY <1>6, <2>1, EndTyped, AtProvider DEF Admitted, At, Ongoing, Acquiring
  <2>2. CASE ~ (Ends(c, "other", FALSE, "over"))
    BY <1>6, <2>2 DEF Admitted, Begins, chainVars, turnVars, OtherTypes
  <2> QED BY <2>1, <2>2
<1>7. ASSUME NEW c \in Calls, BeginJoined(c) PROVE OtherTypes'
  <2>1. CASE Ends(c, "other", FALSE, "over")
    BY <1>7, <2>1, EndTyped, AtProvider DEF BeginJoined, At, Ongoing, Acquiring
  <2>2. CASE ~ (Ends(c, "other", FALSE, "over"))
    BY <1>7, <2>2 DEF BeginJoined, Begins, chainVars, turnVars, OtherTypes
  <2> QED BY <2>1, <2>2
<1>8. ASSUME NEW c \in Calls, Unmarked(c) PROVE OtherTypes'
  <2>1. stage[c] \in Ongoing /\ \E kind \in {"other"}, renews \in {FALSE} : Ends(c, kind, renews, "over")
    BY <1>8 DEF Unmarked, At, Ongoing, Acquiring
  <2> QED BY <2>1, EndTyped, AtProvider
<1>9. ASSUME NEW c \in Calls, NotAsked(c) PROVE OtherTypes'
  <2>1. stage[c] \in Ongoing /\ \E kind \in {"other", "auth"}, renews \in BOOLEAN : Ends(c, kind, renews, "over")
    BY <1>9 DEF NotAsked, Uninvoked, At, Ongoing, Acquiring
  <2> QED BY <2>1, EndTyped, AtProvider
<1>10. ASSUME NEW c \in Calls, Succeed(c) PROVE OtherTypes'
  <2>1. UNCHANGED <<cooled, abandoned>> /\ current' = [current EXCEPT ![c[1]] = 0]
    BY <1>10 DEF Succeed, Answered, chainVars, Closes
  <2>2. UNCHANGED result \/ \E how \in {"done", "failed", "paused"} : result' = [result EXCEPT ![c[1]] = how]
    BY <1>10 DEF Succeed, Answered, Closes
  <2> QED BY <2>1, <2>2, CallParts, ClosedTyped DEF OtherTypes
<1>11. ASSUME NEW c \in Calls, Fail(c) PROVE OtherTypes'
  <2>1. stage[c] \in Ongoing /\ \E kind \in Errors \cup {"other"}, renews \in BOOLEAN : Ends(c, kind, renews, "over")
    BY <1>11 DEF Fail, At, Ongoing, Acquiring
  <2> QED BY <2>1, EndTyped, AtProvider
<1>12. ASSUME NEW c \in Calls, Deadline(c) PROVE OtherTypes'
  <2>1. stage[c] \in Ongoing /\ \E kind \in {"other", "retryable"}, renews \in {FALSE} : Ends(c, kind, renews, "late")
    BY <1>12 DEF Deadline, At, Ongoing, Acquiring
  <2> QED BY <2>1, EndTyped, AtProvider
<1>13. ASSUME NEW c \in Calls, RetryClosed(c) PROVE OtherTypes'
  <2>1. stage[c] \in Ongoing /\ c \notin closed /\ \E kind \in {"other", "retryable"} : FailureNoted(c[1], kind, FALSE, FALSE)
    BY <1>13 DEF RetryClosed, Ongoing
  <2>2. cooled' \in [Turns -> SUBSET Providers]
    BY <2>1, CallParts, AtProvider, CooledTyped
  <2>3. UNCHANGED abandoned /\ current' = [current EXCEPT ![c[1]] = 0]
    BY <1>13 DEF RetryClosed, Closes
  <2>4. UNCHANGED result \/ \E how \in {"done", "failed", "paused"} : result' = [result EXCEPT ![c[1]] = how]
    BY <1>13 DEF RetryClosed, Closes
  <2> QED BY <2>2, <2>3, <2>4, CallParts, ClosedTyped
<1>14. ASSUME NEW c \in Calls, NativeRetry(c) PROVE OtherTypes'
  <2>1. c[1] \in Turns /\ made[c[1]] + 1 \in Nat
    BY CallParts DEF TurnTypes
  <2>2. UNCHANGED <<cooled, result, abandoned>> /\ current' = [current EXCEPT ![c[1]] = made[c[1]] + 1]
    BY <1>14 DEF NativeRetry, chainVars
  <2> QED BY <2>1, <2>2 DEF OtherTypes
<1>15. ASSUME NEW t \in Turns, ChainFails(t) PROVE OtherTypes'
  <2>1. CASE Closes(t, "failed")
    <3>1. UNCHANGED <<cooled, abandoned>> /\ current' = [current EXCEPT ![t] = 0] /\ result' = [result EXCEPT ![t] = "failed"]
      BY <1>15, <2>1 DEF ChainFails, JoinFrame, Restarted, chainVars, Closes
    <3> QED BY <3>1, ClosedTyped DEF OtherTypes
  <2>2. CASE ~ Closes(t, "failed")
    BY <1>15, <2>2 DEF ChainFails, JoinFrame, Restarted, chainVars, OtherTypes
  <2> QED BY <2>1, <2>2
<1>16. ASSUME NEW t \in Turns, EntryPassed(t) \/ DispatchEnds(t) PROVE OtherTypes'
  BY <1>16 DEF EntryPassed, NextEntry, turnVars, DispatchEnds, JoinFrame, chainVars, OtherTypes
<1>17. ASSUME NEW t \in Turns, StartAttempt(t) PROVE OtherTypes'
  <2>1. made[t] + 1 \in Nat
    BY DEF TurnTypes
  <2>2. UNCHANGED <<cooled, result, abandoned>> /\ current' = [current EXCEPT ![t] = made[t] + 1]
    BY <1>17 DEF StartAttempt, NewCall, Tried
  <2> QED BY <2>1, <2>2 DEF OtherTypes
<1>18. ASSUME NEW t \in Turns, ToolsJoined(t) PROVE OtherTypes'
  <2>1. CASE Closes(t, "failed")
    <3>1. UNCHANGED <<cooled, abandoned>> /\ current' = [current EXCEPT ![t] = 0] /\ result' = [result EXCEPT ![t] = "failed"]
      BY <1>18, <2>1 DEF ToolsJoined, JoinFrame, Restarted, chainVars, Closes
    <3> QED BY <3>1, ClosedTyped DEF OtherTypes
  <2>2. CASE ~ Closes(t, "failed")
    BY <1>18, <2>2 DEF ToolsJoined, JoinFrame, Restarted, chainVars, OtherTypes
  <2> QED BY <2>1, <2>2
<1>19. ASSUME NEW t \in Turns, ToolsReturn(t) PROVE OtherTypes'
  <2>1. CASE Closes(t, "failed")
    <3>1. UNCHANGED <<cooled, abandoned>> /\ current' = [current EXCEPT ![t] = 0] /\ result' = [result EXCEPT ![t] = "failed"]
      BY <1>19, <2>1 DEF ToolsReturn, JoinFrame, Restarted, chainVars, Closes
    <3> QED BY <3>1, ClosedTyped DEF OtherTypes
  <2>2. CASE ~ Closes(t, "failed")
    BY <1>19, <2>2 DEF ToolsReturn, JoinFrame, Restarted, chainVars, OtherTypes
  <2> QED BY <2>1, <2>2
<1>20. ASSUME NEW t \in Turns, TurnCaptured(t) PROVE OtherTypes'
  BY <1>20 DEF TurnCaptured, JoinFrame, chainVars, OtherTypes
<1>21. ASSUME NEW t \in Turns, Abandon(t) PROVE OtherTypes'
  BY <1>21 DEF Abandon, chainVars, OtherTypes
<1>22. ASSUME NEW t \in Turns, NEW p \in Providers, CoolsOff(t, p) PROVE OtherTypes'
  BY <1>22 DEF CoolsOff, CooldownEnds, turnVars, OtherTypes
<1>23. ASSUME NEW j \in Joiners, Loops(j) PROVE OtherTypes'
  BY <1>23 DEF Loops, chainVars, turnVars, OtherTypes
<1>24. ASSUME Cancel \/ LegacyJobSettles PROVE OtherTypes'
  BY <1>24 DEF Cancel, chainVars, turnVars, LegacyJobSettles, OtherTypes
<1> QED BY <1>1, <1>2, <1>3, <1>4, <1>5, <1>6, <1>7, <1>8, <1>9, <1>10, <1>11, <1>12, <1>13, <1>14, <1>15, <1>16, <1>17, <1>18, <1>19, <1>20, <1>21, <1>22, <1>23, <1>24, StepCases DEF StepKinds

(* An attempt that ends waits no more, and its turn may start to. *)
LEMMA EndObserves ==
    ASSUME observed \in [Joiners -> Nat \cup {Free}], Len(ledger') \in Nat, NEW c, NEW kind, NEW renews, NEW s, Ends(c, kind, renews, s)
    PROVE  JoinTypes'
<1>1. \E n \in Nat \cup {Free} :
         \/ observed' = [observed EXCEPT ![c] = Free, ![c[1]] = Len(ledger')]
         \/ observed' = [observed EXCEPT ![c] = Free, ![c[1]] = @]
  BY DEF Ends
<1>2. CASE observed' = [observed EXCEPT ![c] = Free, ![c[1]] = Len(ledger')]
  BY <1>2 DEF JoinTypes
<1>3. CASE observed' = [observed EXCEPT ![c] = Free, ![c[1]] = @]
  BY <1>3 DEF JoinTypes
<1> QED BY <1>1, <1>2, <1>3

(* The joins keep their types. *)
LEMMA JoinTyped ==
    ASSUME JoinTypes, LedgerTypes, ledger' \in Seq(Entries), [Next]_vars
    PROVE  JoinTypes'
<1>0. observed \in [Joiners -> Nat \cup {Free}] /\ Len(ledger) \in Nat /\ Len(ledger') \in Nat
  BY DEF JoinTypes, LedgerTypes, Entries
<1>1. ASSUME UNCHANGED vars \/ CommitSettles \/ WarningAppended \/ WarningThrows \/ Cancel \/
             LegacyJobSettles
      PROVE  JoinTypes'
  BY <1>1, <1>0 DEF vars, moneyVars, CommitSettles, WarningAppended, WarningThrows, Cancel, Outside,
        LegacyJobSettles, JoinTypes
<1>2. ASSUME NEW c \in Calls, PreAttemptJoined(c) PROVE JoinTypes'
  <2>1. CASE Ends(c, "other", FALSE, "over")
    BY <1>0, <2>1, EndObserves
  <2>2. CASE ~ (Ends(c, "other", FALSE, "over"))
    BY <1>2, <1>0, <2>2 DEF PreAttemptJoined, Begins, JoinTypes
  <2> QED BY <2>1, <2>2
<1>3. ASSUME NEW c \in Calls, CheckFails(c) PROVE JoinTypes'
  <2>1. \E kind \in {"other"}, renews \in {FALSE} : Ends(c, kind, renews, "over")
    BY <1>3 DEF CheckFails
  <2> QED BY <1>0, <2>1, EndObserves
<1>4. ASSUME NEW c \in Calls, CheckHeld(c) \/ Ask(c) \/ LateReceipt(c) PROVE JoinTypes'
  BY <1>4, <1>0 DEF CheckHeld, moneyVars, Ask, LateReceipt, JoinTypes
<1>5. ASSUME NEW c \in Calls, Evaluate(c) PROVE JoinTypes'
  <2>1. CASE \E kind \in {"other", "pause"} : Ends(c, kind, FALSE, "over")
    BY <1>0, <2>1, EndObserves
  <2>2. CASE ~ (\E kind \in {"other", "pause"} : Ends(c, kind, FALSE, "over"))
    BY <1>5, <1>0, <2>2 DEF Evaluate, Begins, JoinTypes
  <2> QED BY <2>1, <2>2
<1>6. ASSUME NEW c \in Calls, Admitted(c) PROVE JoinTypes'
  <2>1. CASE Ends(c, "other", FALSE, "over")
    BY <1>0, <2>1, EndObserves
  <2>2. CASE ~ (Ends(c, "other", FALSE, "over"))
    BY <1>6, <1>0, <2>2 DEF Admitted, Begins, JoinTypes
  <2> QED BY <2>1, <2>2
<1>7. ASSUME NEW c \in Calls, BeginJoined(c) PROVE JoinTypes'
  <2>1. CASE Ends(c, "other", FALSE, "over")
    BY <1>0, <2>1, EndObserves
  <2>2. CASE ~ (Ends(c, "other", FALSE, "over"))
    BY <1>7, <1>0, <2>2 DEF BeginJoined, Begins, JoinTypes
  <2> QED BY <2>1, <2>2
<1>8. ASSUME NEW c \in Calls, Unmarked(c) PROVE JoinTypes'
  <2>1. \E kind \in {"other"}, renews \in {FALSE} : Ends(c, kind, renews, "over")
    BY <1>8 DEF Unmarked
  <2> QED BY <1>0, <2>1, EndObserves
<1>9. ASSUME NEW c \in Calls, NotAsked(c) PROVE JoinTypes'
  <2>1. \E kind \in {"other", "auth"}, renews \in BOOLEAN : Ends(c, kind, renews, "over")
    BY <1>9 DEF NotAsked, Uninvoked
  <2> QED BY <1>0, <2>1, EndObserves
<1>10. ASSUME NEW c \in Calls, Succeed(c) PROVE JoinTypes'
  BY <1>10, <1>0 DEF Succeed, Answered, JoinTypes
<1>11. ASSUME NEW c \in Calls, Fail(c) PROVE JoinTypes'
  <2>1. \E kind \in Errors \cup {"other"}, renews \in BOOLEAN : Ends(c, kind, renews, "over")
    BY <1>11 DEF Fail
  <2> QED BY <1>0, <2>1, EndObserves
<1>12. ASSUME NEW c \in Calls, Deadline(c) PROVE JoinTypes'
  <2>1. \E kind \in {"other", "retryable"}, renews \in {FALSE} : Ends(c, kind, renews, "late")
    BY <1>12 DEF Deadline
  <2> QED BY <1>0, <2>1, EndObserves
<1>13. ASSUME NEW c \in Calls, RetryClosed(c) PROVE JoinTypes'
  BY <1>13, <1>0 DEF RetryClosed, JoinTypes
<1>14. ASSUME NEW c \in Calls, NativeRetry(c) PROVE JoinTypes'
  BY <1>14, <1>0 DEF NativeRetry, JoinTypes
<1>15. ASSUME NEW t \in Turns, ChainFails(t) PROVE JoinTypes'
  BY <1>15, <1>0 DEF ChainFails, JoinTypes
<1>16. ASSUME NEW t \in Turns, EntryPassed(t) \/ Abandon(t) PROVE JoinTypes'
  BY <1>16, <1>0 DEF EntryPassed, Abandon, Outside, moneyVars, JoinTypes
<1>17. ASSUME NEW t \in Turns, StartAttempt(t) PROVE JoinTypes'
  BY <1>17, <1>0 DEF StartAttempt, NewCall, JoinTypes
<1>18. ASSUME NEW t \in Turns, ToolsJoined(t) PROVE JoinTypes'
  BY <1>18, <1>0 DEF ToolsJoined, JoinTypes
<1>19. ASSUME NEW t \in Turns, ToolsReturn(t) PROVE JoinTypes'
  BY <1>19, <1>0 DEF ToolsReturn, JoinTypes
<1>20. ASSUME NEW t \in Turns, TurnCaptured(t) PROVE JoinTypes'
  BY <1>20, <1>0 DEF TurnCaptured, JoinTypes
<1>21. ASSUME NEW t \in Turns, DispatchEnds(t) PROVE JoinTypes'
  BY <1>21, <1>0 DEF DispatchEnds, JoinTypes
<1>22. ASSUME NEW t \in Turns, NEW p \in Providers, CoolsOff(t, p) PROVE JoinTypes'
  BY <1>22, <1>0 DEF CoolsOff, Outside, moneyVars, JoinTypes
<1>23. ASSUME NEW j \in Joiners, Loops(j) PROVE JoinTypes'
  BY <1>23, <1>0 DEF Loops, JoinLoops, JoinTypes
<1>24. ASSUME OutcomeSettles PROVE JoinTypes'
  <2>1. observed' = [j \in Joiners |-> IF observed[j] > 0 THEN observed[j] - 1 ELSE observed[j]]
    BY <1>24 DEF OutcomeSettles, OutcomeLands, OutcomeLost, MarkerLands, MarkerLost, Settled
  <2>2. ASSUME NEW j \in Joiners PROVE (IF observed[j] > 0 THEN observed[j] - 1 ELSE observed[j]) \in Nat \cup {Free}
    BY <1>0 DEF Free
  <2> QED BY <2>1, <2>2 DEF JoinTypes
<1>25. ASSUME MarkerSettles PROVE JoinTypes'
  <2>1. observed' = [j \in Joiners |-> IF observed[j] > 0 THEN observed[j] - 1 ELSE observed[j]]
    BY <1>25 DEF MarkerSettles, OutcomeLands, OutcomeLost, MarkerLands, MarkerLost, Settled
  <2>2. ASSUME NEW j \in Joiners PROVE (IF observed[j] > 0 THEN observed[j] - 1 ELSE observed[j]) \in Nat \cup {Free}
    BY <1>0 DEF Free
  <2> QED BY <2>1, <2>2 DEF JoinTypes
<1> QED BY <1>1, <1>2, <1>3, <1>4, <1>5, <1>6, <1>7, <1>8, <1>9, <1>10, <1>11, <1>12, <1>13, <1>14, <1>15, <1>16, <1>17, <1>18, <1>19, <1>20, <1>21, <1>22, <1>23, <1>24, <1>25, StepCases DEF StepKinds

(* Lost money aborts the run. *)
LEMMA LossAbortsStep ==
    ASSUME failure \in BOOLEAN, broken \in BOOLEAN, commitFailure \in BOOLEAN, commitBroken \in BOOLEAN, RunTypes, LossAborts, [Next]_vars
    PROVE  LossAborts'
<1>1. ASSUME UNCHANGED vars \/ WarningThrows \/ LegacyJobSettles PROVE NoLoss \/ LossAborts'
  BY <1>1 DEF vars, governorVars, moneyVars, runVars, commitVars, WarningThrows, LegacyJobSettles,
        Outside, NoLoss, Aborted
<1>2. ASSUME NEW c \in Calls, PreAttemptJoined(c) PROVE NoLoss \/ LossAborts'
  BY <1>2 DEF PreAttemptJoined, JoinEnds, runVars, NoLoss, Aborted
<1>3. ASSUME NEW c \in Calls, CheckFails(c) PROVE NoLoss \/ LossAborts'
  BY <1>3 DEF CheckFails, runVars, NoLoss, Aborted
<1>4. ASSUME NEW c \in Calls,
             CheckHeld(c) \/ Evaluate(c) \/ Admitted(c) \/ Unmarked(c) \/ NotAsked(c) \/ Ask(c)
      PROVE  NoLoss \/ LossAborts'
  BY <1>4 DEF CheckHeld, governorVars, moneyVars, runVars, commitVars, Evaluate, Admitted, Release,
        Unmarked, NotAsked, Uninvoked, Ask, NoLoss, Aborted
<1>5. ASSUME NEW c \in Calls, BeginJoined(c) PROVE NoLoss \/ LossAborts'
  BY <1>5 DEF BeginJoined, JoinEnds, runVars, NoLoss, Aborted
<1>6. ASSUME NEW c \in Calls,
             Succeed(c) \/ Fail(c) \/ Deadline(c) \/ RetryClosed(c) \/ NativeRetry(c) \/
             LateReceipt(c)
      PROVE  NoLoss \/ LossAborts'
  BY <1>6 DEF Succeed, AnswerFrame, Charged, Retained, runVars, Settle, SettleAtReservedEstimate,
        commitVars, Fail, Release, Deadline, RetryClosed, NativeRetry, LateReceipt, UpdateCost, NoLoss,
        Aborted
<1>7. ASSUME NEW t \in Turns,
             ChainFails(t) \/ EntryPassed(t) \/ StartAttempt(t) \/ ToolsReturn(t) \/ Abandon(t)
      PROVE  NoLoss \/ LossAborts'
  BY <1>7 DEF ChainFails, StandsStill, governorVars, runVars, commitVars, EntryPassed, StartAttempt,
        ToolsReturn, Abandon, Outside, moneyVars, NoLoss, Aborted
<1>8. ASSUME NEW t \in Turns, ToolsJoined(t) PROVE NoLoss \/ LossAborts'
  BY <1>8 DEF ToolsJoined, JoinEnds, runVars, NoLoss, Aborted
<1>9. ASSUME NEW t \in Turns, TurnCaptured(t) PROVE NoLoss \/ LossAborts'
  BY <1>9 DEF TurnCaptured, JoinEnds, runVars, NoLoss, Aborted
<1>10. ASSUME NEW t \in Turns, DispatchEnds(t) PROVE NoLoss \/ LossAborts'
  BY <1>10 DEF DispatchEnds, JoinEnds, NoLoss, Aborted
<1>11. ASSUME NEW t \in Turns, NEW p \in Providers, CoolsOff(t, p) PROVE NoLoss \/ LossAborts'
  BY <1>11 DEF CoolsOff, Outside, commitVars, moneyVars, NoLoss, Aborted
<1>12. ASSUME NEW j \in Joiners, Loops(j) PROVE NoLoss \/ LossAborts'
  BY <1>12 DEF Loops, JoinLoops, runVars, governorVars, commitVars, NoLoss, Aborted
<1>13. ASSUME OutcomeSettles PROVE NoLoss \/ LossAborts'
  <2>1. CASE AppendFails
    <3>1. Aborted'
      BY <2>1, AppendFailed
    <3>2. (failure' => broken') /\ (commitFailure' => commitBroken')
      BY <1>13 DEF OutcomeSettles, OutcomeLands, OutcomeLost, commitVars, LossAborts
    <3> QED BY <3>1, <3>2 DEF LossAborts
  <2>2. CASE ~AppendFails
    BY <1>13, <2>2 DEF OutcomeSettles, OutcomeLands, OutcomeLost, commitVars, runVars, NoLoss, Aborted
  <2> QED BY <2>1, <2>2
<1>14. ASSUME MarkerSettles PROVE NoLoss \/ LossAborts'
  <2>1. UNCHANGED <<failure, commitFailure, commitBroken>>
    BY <1>14 DEF MarkerSettles, MarkerLands, MarkerLost, commitVars
  <2>2. PICK c \in Calls : MarkerLands([call |-> c, write |-> "pending"]) \/ MarkerLost([call |-> c, write |-> "pending"])
    BY <1>14 DEF MarkerSettles
  <2>3. CASE MarkerLands([call |-> c, write |-> "pending"])
    BY <2>1, <2>3 DEF MarkerLands, runVars, NoLoss, Aborted
  <2>4. CASE MarkerLost([call |-> c, write |-> "pending"])
    <3>1. broken' = TRUE
      BY <2>4 DEF MarkerLost
    <3>2. Aborted'
      <4>1. CASE AppendFails
        BY <4>1, AppendFailed
      <4>2. CASE ~AppendFails
        BY <2>4, <4>2 DEF MarkerLost, MarkerRefused, LossAborts, runVars, Aborted
      <4> QED BY <4>1, <4>2
    <3> QED BY <2>1, <3>1, <3>2 DEF LossAborts
  <2> QED BY <2>2, <2>3, <2>4
<1>15. ASSUME CommitSettles PROVE NoLoss \/ LossAborts'
  <2>1. CASE AppendFails
    <3>1. Aborted'
      BY <2>1, AppendFailed
    <3>2. (failure' => broken') /\ (commitFailure' => commitBroken')
      BY <1>15 DEF CommitSettles, CommitLands, CommitLost, LossAborts
    <3> QED BY <3>1, <3>2 DEF LossAborts
  <2>2. CASE ~AppendFails
    BY <1>15, <2>2 DEF CommitSettles, CommitLands, CommitLost, runVars, NoLoss, Aborted
  <2> QED BY <2>1, <2>2
<1>16. ASSUME WarningAppended PROVE NoLoss \/ LossAborts'
  <2>1. UNCHANGED <<failure, broken, commitFailure, commitBroken>>
    BY <1>16 DEF WarningAppended, commitVars, moneyVars
  <2>2. Aborted => Aborted'
    BY <1>16, AppendFailed DEF WarningAppended, runVars, Aborted
  <2> QED BY <2>1, <2>2 DEF NoLoss
<1>17. ASSUME Cancel PROVE NoLoss \/ LossAborts'
  BY <1>17 DEF Cancel, Outside, commitVars, moneyVars, NoLoss, Aborted
<1>90. NoLoss \/ LossAborts'
  BY <1>1, <1>2, <1>3, <1>4, <1>5, <1>6, <1>7, <1>8, <1>9, <1>10, <1>11, <1>12, <1>13, <1>14, <1>15, <1>16, <1>17, StepCases DEF StepKinds
<1>91. NoLoss => LossAborts'
  BY DEF NoLoss, LossAborts
<1> QED BY <1>90, <1>91

(* How the calls move, but for the warnings. *)
LEMMA CautiousStep ==
    ASSUME StageTypes, CallTypes, TurnTypes, ChainTypes, LedgerTypes, Numbered, Marking, [Next]_vars
    PROVE  (\A x \in Calls : Cautious(x)) \/ Warns
<1>1. ASSUME UNCHANGED vars \/ OutcomeSettles \/ CommitSettles \/ Cancel \/ LegacyJobSettles
      PROVE  (\A x \in Calls : Cautious(x)) \/ Warns
  BY <1>1 DEF vars, callVars, OutcomeSettles, CommitSettles, Cancel, Outside, LegacyJobSettles, Cautious
<1>2. ASSUME NEW c \in Calls, PreAttemptJoined(c) PROVE (\A x \in Calls : Cautious(x)) \/ Warns
  <2>1. stage[c] \in {"join"} /\ \E s \in {"check", "over"} : stage' = [stage EXCEPT ![c] = s]
    BY <1>2, EndStage DEF PreAttemptJoined, At
  <2> QED BY <2>1, OneCautious DEF Before
<1>3. ASSUME NEW c \in Calls, CheckFails(c) PROVE (\A x \in Calls : Cautious(x)) \/ Warns
  <2>1. stage[c] \in {"check"} /\ \E s \in {"over"} : stage' = [stage EXCEPT ![c] = s]
    BY <1>3, EndStage DEF CheckFails, At
  <2> QED BY <2>1, OneCautious DEF Before
<1>4. ASSUME NEW c \in Calls, CheckHeld(c) PROVE (\A x \in Calls : Cautious(x)) \/ Warns
  <2>1. stage[c] \in {"check"} /\ \E s \in {"held"} : stage' = [stage EXCEPT ![c] = s]
    BY <1>4, EndStage DEF CheckHeld, At
  <2> QED BY <2>1, OneCautious DEF Before
<1>5. ASSUME NEW c \in Calls, Evaluate(c) PROVE (\A x \in Calls : Cautious(x)) \/ Warns
  BY <1>5 DEF Warns
<1>6. ASSUME NEW c \in Calls, Admitted(c) PROVE (\A x \in Calls : Cautious(x)) \/ Warns
  <2>1. stage[c] = "told"
    BY <1>6 DEF Admitted, At
  <2>2. stage' = [stage EXCEPT ![c] = "over"] \/ (stage' = [stage EXCEPT ![c] = "begin"] /\ ~Aborted)
    BY <1>6, EndStage DEF Admitted, Begins, Unwanted
  <2> QED BY <2>1, <2>2, OneCautious
<1>7. ASSUME NEW c \in Calls, BeginJoined(c) PROVE (\A x \in Calls : Cautious(x)) \/ Warns
  <2>1. stage[c] \in {"begin"} /\ \E s \in {"over", "marker"} : stage' = [stage EXCEPT ![c] = s]
    BY <1>7, EndStage DEF BeginJoined, At
  <2> QED BY <2>1, OneCautious DEF Before
<1>8. ASSUME NEW c \in Calls, Unmarked(c) PROVE (\A x \in Calls : Cautious(x)) \/ Warns
  <2>1. stage[c] \in {"unmarked"} /\ \E s \in {"over"} : stage' = [stage EXCEPT ![c] = s]
    BY <1>8, EndStage DEF Unmarked, At
  <2> QED BY <2>1, OneCautious DEF Before
<1>9. ASSUME NEW c \in Calls, NotAsked(c) PROVE (\A x \in Calls : Cautious(x)) \/ Warns
  <2>1. \E kind \in {"other", "auth"}, renews \in BOOLEAN : Ends(c, kind, renews, "over")
    BY <1>9 DEF NotAsked, Uninvoked
  <2>2. stage' = [stage EXCEPT ![c] = "over"]
    BY <2>1, EndStage
  <2> QED BY <2>2, OneCautious
<1>10. ASSUME NEW c \in Calls, Ask(c) PROVE (\A x \in Calls : Cautious(x)) \/ Warns
  <2>1. stage[c] \in {"acked"} /\ \E s \in {"asked"} : stage' = [stage EXCEPT ![c] = s]
    BY <1>10, EndStage DEF Ask, At
  <2> QED BY <2>1, OneCautious DEF Before
<1>11. ASSUME NEW c \in Calls, Succeed(c) PROVE (\A x \in Calls : Cautious(x)) \/ Warns
  <2>1. stage' = [stage EXCEPT ![c] = "over"]
    BY <1>11 DEF Succeed, Answered
  <2> QED BY <2>1, OneCautious
<1>12. ASSUME NEW c \in Calls, Fail(c) PROVE (\A x \in Calls : Cautious(x)) \/ Warns
  <2>1. \E kind, renews : Ends(c, kind, renews, "over")
    BY <1>12 DEF Fail
  <2>2. stage' = [stage EXCEPT ![c] = "over"]
    BY <2>1, EndStage
  <2> QED BY <2>2, OneCautious
<1>13. ASSUME NEW c \in Calls, Deadline(c) PROVE (\A x \in Calls : Cautious(x)) \/ Warns
  <2>1. stage[c] \in {"asked"} /\ \E s \in {"late"} : stage' = [stage EXCEPT ![c] = s]
    BY <1>13, EndStage DEF Deadline, At
  <2> QED BY <2>1, OneCautious DEF Before
<1>14. ASSUME NEW c \in Calls, RetryClosed(c) PROVE (\A x \in Calls : Cautious(x)) \/ Warns
  BY <1>14 DEF RetryClosed, Cautious
<1>15. ASSUME NEW c \in Calls, NativeRetry(c) PROVE (\A x \in Calls : Cautious(x)) \/ Warns
  <2>1. PICK d \in Calls : Retried(c, d)
    BY <1>15, Retries
  <2> QED BY <2>1 DEF Retried, Cautious, Before
<1>16. ASSUME NEW c \in Calls, LateReceipt(c) PROVE (\A x \in Calls : Cautious(x)) \/ Warns
  <2>1. stage[c] \in {"late"} /\ \E s \in {"over"} : stage' = [stage EXCEPT ![c] = s]
    BY <1>16, EndStage DEF LateReceipt, At
  <2> QED BY <2>1, OneCautious DEF Before
<1>17. ASSUME NEW t \in Turns,
              ChainFails(t) \/ EntryPassed(t) \/ ToolsJoined(t) \/ ToolsReturn(t) \/ TurnCaptured(t) \/
              DispatchEnds(t)
       PROVE  (\A x \in Calls : Cautious(x)) \/ Warns
  BY <1>17 DEF ChainFails, StandsStill, callVars, EntryPassed, ToolsJoined, JoinFrame, ToolsReturn,
        TurnCaptured, DispatchEnds, Cautious
<1>18. ASSUME NEW t \in Turns, StartAttempt(t) PROVE (\A x \in Calls : Cautious(x)) \/ Warns
  <2>1. PICK d \in Calls : Started(t, d)
    BY <1>18, Starts
  <2> QED BY <2>1 DEF Started, Cautious, Before
<1>19. ASSUME NEW t \in Turns, Abandon(t) PROVE (\A x \in Calls : Cautious(x)) \/ Warns
  BY <1>19 DEF Abandon, Outside, callVars, Cautious
<1>20. ASSUME NEW t \in Turns, NEW p \in Providers,
              CoolsOff(t, p)
       PROVE  (\A x \in Calls : Cautious(x)) \/ Warns
  BY <1>20 DEF CoolsOff, Outside, callVars, Cautious
<1>21. ASSUME NEW j \in Joiners, Loops(j) PROVE (\A x \in Calls : Cautious(x)) \/ Warns
  BY <1>21 DEF Loops, callVars, Cautious
<1>22. ASSUME MarkerSettles PROVE (\A x \in Calls : Cautious(x)) \/ Warns
  <2>1. PICK c \in Calls, s \in {"acked", "unmarked"} :
           ledger # <<>> /\ Head(ledger) = [call |-> c, write |-> "pending"] /\ stage' = [stage EXCEPT ![c] = s]
    BY <1>22 DEF MarkerSettles, MarkerLands, MarkerLost, Settled
  <2>2. Queued(c, "pending")
    <3>1. 1 \in DOMAIN ledger /\ ledger[1] = Head(ledger)
      BY <2>1 DEF LedgerTypes
    <3> QED BY <2>1, <3>1 DEF Queued
  <2>3. stage[c] = "marker"
    BY <2>2 DEF Marking
  <2> QED BY <2>1, <2>3, OneCautious
<1>23. ASSUME WarningAppended PROVE (\A x \in Calls : Cautious(x)) \/ Warns
  BY <1>23 DEF Warns
<1>24. ASSUME WarningThrows PROVE (\A x \in Calls : Cautious(x)) \/ Warns
  BY <1>24 DEF Warns
<1> QED BY <1>1, <1>2, <1>3, <1>4, <1>5, <1>6, <1>7, <1>8, <1>9, <1>10, <1>11, <1>12, <1>13, <1>14, <1>15, <1>16, <1>17, <1>18, <1>19, <1>20, <1>21, <1>22, <1>23, <1>24, StepCases DEF StepKinds

(* What happens to the warning, but for the warnings. *)
LEMMA QuietStep ==
    ASSUME WarningTypes, RunTypes, [Next]_vars
    PROVE  Quiet \/ Warns
<1>1. ASSUME UNCHANGED vars \/ LegacyJobSettles PROVE Quiet \/ Warns
  BY <1>1 DEF vars, governorVars, runVars, callVars, tallyVars, warningVars, LegacyJobSettles, Outside,
        Quiet, Aborted
<1>2. ASSUME NEW c \in Calls,
             PreAttemptJoined(c) \/ CheckFails(c) \/ CheckHeld(c) \/ Admitted(c) \/ BeginJoined(c) \/
             Unmarked(c)
      PROVE  Quiet \/ Warns
  BY <1>2 DEF PreAttemptJoined, warningVars, runVars, tallyVars, CheckFails, CheckHeld, governorVars,
        Admitted, Release, Returned, BeginJoined, Unmarked, Quiet, Aborted
<1>3. ASSUME NEW c \in Calls, Evaluate(c) PROVE Quiet \/ Warns
  BY <1>3 DEF Warns
<1>4. ASSUME NEW c \in Calls, NotAsked(c) \/ Ask(c) \/ RetryClosed(c) PROVE Quiet \/ Warns
  BY <1>4 DEF NotAsked, Uninvoked, Release, runVars, tallyVars, Returned, warningVars, Ask,
        governorVars, RetryClosed, Quiet, Aborted
<1>5. ASSUME NEW c \in Calls, Succeed(c) PROVE Quiet \/ Warns
  BY <1>5 DEF Succeed, AnswerFrame, Charged, Retained, runVars, Settle, SettleAtReservedEstimate, Quiet,
        Aborted
<1>6. ASSUME NEW c \in Calls, Fail(c) PROVE Quiet \/ Warns
  <2>1. UNCHANGED <<warning, overCap, announced, run>> /\ (warningArmed => warningArmed')
    <3>1. \/ \E bill \in Bills : Charged(c, bill)
          \/ Retained(c, "retired", "incomplete")
          \/ Release(c, Live(c[1]))
      BY <1>6 DEF Fail
    <3>2. UNCHANGED <<overCap, announced, run>>
      BY <1>6 DEF Fail, AnswerFrame, runVars
    <3>3. CASE \E bill \in Bills : Charged(c, bill)
      BY <3>2, <3>3 DEF Charged, Settle, SettleAtReservedEstimate, WarningTypes
    <3>4. CASE Retained(c, "retired", "incomplete")
      BY <3>2, <3>4 DEF Retained, SettleAtReservedEstimate
    <3>5. CASE Release(c, Live(c[1]))
      BY <3>2, <3>5 DEF Release, Returned, warningVars
    <3> QED BY <3>1, <3>3, <3>4, <3>5
  <2> QED BY <2>1 DEF Quiet, Aborted
<1>7. ASSUME NEW c \in Calls, Deadline(c) PROVE Quiet \/ Warns
  BY <1>7 DEF Deadline, AnswerFrame, Retained, runVars, SettleAtReservedEstimate, Quiet, Aborted
<1>8. ASSUME NEW c \in Calls, NativeRetry(c) PROVE Quiet \/ Warns
  BY <1>8 DEF NativeRetry, runVars, Release, Retained, Returned, SettleAtReservedEstimate, warningVars,
        Quiet, Aborted
<1>9. ASSUME NEW c \in Calls, LateReceipt(c) PROVE Quiet \/ Warns
  BY <1>9 DEF LateReceipt, AnswerFrame, UpdateCost, warningVars, runVars, Quiet, Aborted
<1>10. ASSUME NEW t \in Turns,
              ChainFails(t) \/ EntryPassed(t) \/ StartAttempt(t) \/ ToolsJoined(t) \/ ToolsReturn(t) \/
              TurnCaptured(t)
       PROVE  Quiet \/ Warns
  BY <1>10 DEF ChainFails, StandsStill, governorVars, runVars, callVars, tallyVars, warningVars,
        EntryPassed, StartAttempt, NewCall, ToolsJoined, JoinFrame, ToolsReturn, TurnCaptured, Quiet,
        Aborted
<1>11. ASSUME NEW t \in Turns, DispatchEnds(t) PROVE Quiet \/ Warns
  BY <1>11 DEF DispatchEnds, JoinFrame, warningVars, callVars, Quiet, Aborted
<1>12. ASSUME NEW t \in Turns, Abandon(t) PROVE Quiet \/ Warns
  BY <1>12 DEF Abandon, Outside, warningVars, callVars, tallyVars, Quiet, Aborted
<1>13. ASSUME NEW t \in Turns, NEW p \in Providers, CoolsOff(t, p) PROVE Quiet \/ Warns
  BY <1>13 DEF CoolsOff, Outside, warningVars, callVars, tallyVars, Quiet, Aborted
<1>14. ASSUME NEW j \in Joiners, Loops(j) PROVE Quiet \/ Warns
  BY <1>14 DEF Loops, JoinLoops, callVars, tallyVars, runVars, governorVars, warningVars, Quiet, Aborted
<1>15. ASSUME OutcomeSettles PROVE Quiet \/ Warns
  <2>1. UNCHANGED <<warningArmed, warning, overCap, announced>>
    BY <1>15 DEF OutcomeSettles, warningVars, callVars, tallyVars
  <2>2. Aborted => Aborted'
    BY <1>15, AppendFailed DEF OutcomeSettles, OutcomeLands, OutcomeLost, runVars, Aborted
  <2> QED BY <2>1, <2>2 DEF Quiet
<1>16. ASSUME MarkerSettles PROVE Quiet \/ Warns
  <2>1. UNCHANGED <<warningArmed, warning, overCap, announced>>
    BY <1>16 DEF MarkerSettles, warningVars, callVars, tallyVars
  <2>2. Aborted => Aborted'
    BY <1>16, AppendFailed DEF MarkerSettles, MarkerLands, MarkerLost, runVars, Aborted
  <2> QED BY <2>1, <2>2 DEF Quiet
<1>17. ASSUME CommitSettles PROVE Quiet \/ Warns
  <2>1. UNCHANGED <<warningArmed, warning, overCap, announced>>
    BY <1>17 DEF CommitSettles, warningVars, callVars, tallyVars
  <2>2. Aborted => Aborted'
    BY <1>17, AppendFailed DEF CommitSettles, CommitLands, CommitLost, runVars, Aborted
  <2> QED BY <2>1, <2>2 DEF Quiet
<1>18. ASSUME WarningAppended PROVE Quiet \/ Warns
  BY <1>18 DEF Warns
<1>19. ASSUME WarningThrows PROVE Quiet \/ Warns
  BY <1>19 DEF Warns
<1>20. ASSUME Cancel PROVE Quiet \/ Warns
  BY <1>20 DEF Cancel, Outside, warningVars, callVars, tallyVars, Quiet, Aborted
<1> QED BY <1>1, <1>2, <1>3, <1>4, <1>5, <1>6, <1>7, <1>8, <1>9, <1>10, <1>11, <1>12, <1>13, <1>14, <1>15, <1>16, <1>17, <1>18, <1>19, <1>20, StepCases DEF StepKinds

(* A warning is armed, on its way, written, or lost with the run. *)
LEMMA WarnedStep ==
    ASSUME StageTypes, CallTypes, TurnTypes, ChainTypes, LedgerTypes, WarningTypes, RunTypes, Numbered, Marking, Warned,
           [Next]_vars
    PROVE  Warned'
<1>1. ASSUME Quiet, \A x \in Calls : Cautious(x) PROVE Warned'
  <2>1. (warningArmed \/ warning \/ announced \/ Aborted)'
    BY <1>1 DEF Warned, Quiet
  <2>2. ASSUME NEW x \in Calls, stage'[x] = "warned" PROVE warning'
    BY <1>1, <2>2 DEF Warned, Quiet, Cautious, Before
  <2>3. ASSUME NEW x \in overCap'
        PROVE  /\ stage'[x] \notin {"none", "join", "check", "held"}
               /\ stage'[x] = "told" => announced' \/ Aborted'
               /\ stage'[x] \in {"begin", "marker", "acked", "asked", "late"} => announced'
    <3>1. x \in Calls /\ x \in overCap /\ Cautious(x) /\ (announced => announced') /\ (Aborted => Aborted')
      BY <1>1, <2>3 DEF Quiet, WarningTypes
    <3>2. /\ stage[x] \notin {"none", "join", "check", "held"}
          /\ stage[x] = "told" => announced \/ Aborted
          /\ stage[x] \in {"begin", "marker", "acked", "asked", "late"} => announced
      BY <3>1 DEF Warned
    <3> QED BY <3>1, <3>2 DEF Cautious, Before
  <2> QED BY <2>1, <2>2, <2>3 DEF Warned, Aborted
<1>2. ASSUME NEW c \in Calls, Evaluate(c) PROVE Warned'
  <2>1. stage[c] \in {"check", "held"} /\ c \notin overCap /\ UNCHANGED <<announced, run>>
    BY <1>2 DEF Evaluate, At, Warned, tallyVars, runVars
  <2>2. CASE UNCHANGED <<warningVars, overCap>> /\ \E s \in {"over", "begin"} : stage' = [stage EXCEPT ![c] = s]
    BY <2>1, <2>2 DEF Warned, warningVars, StageTypes, Aborted, WarningTypes
  <2>3. CASE /\ overCap' = overCap \cup {c} /\ warning' = (warning \/ warningArmed) /\ warningArmed' = (warningArmed /\ warning)
             /\ stage' = [stage EXCEPT ![c] = IF AwaitsWarning THEN "warned" ELSE "told"]
    <3>1. CASE AwaitsWarning
      <4>1. warning' /\ stage' = [stage EXCEPT ![c] = "warned"]
        BY <2>3, <3>1 DEF AwaitsWarning
      <4>2. stage'[c] = "warned" /\ \A x \in Calls \ {c} : stage'[x] = stage[x]
        BY <4>1 DEF StageTypes
      <4> QED BY <2>1, <2>3, <4>1, <4>2 DEF Warned, Aborted, WarningTypes
    <3>2. CASE ~AwaitsWarning
      <4>1. ~warning /\ ~warningArmed /\ ~warning' /\ ~warningArmed' /\ stage' = [stage EXCEPT ![c] = "told"]
        BY <2>3, <3>2 DEF AwaitsWarning
      <4>2. announced \/ Aborted
        BY <4>1 DEF Warned
      <4>3. stage'[c] = "told" /\ \A x \in Calls \ {c} : stage'[x] = stage[x]
        BY <4>1 DEF StageTypes
      <4> QED BY <2>1, <2>3, <4>1, <4>2, <4>3 DEF Warned, Aborted, WarningTypes
    <3> QED BY <3>1, <3>2
  <2>4. \/ /\ UNCHANGED <<warningVars, overCap>>
           /\ \/ \E kind \in {"other", "pause"} : Ends(c, kind, FALSE, "over")
              \/ Begins(c)
        \/ /\ overCap' = overCap \cup {c} /\ warning' = (warning \/ warningArmed) /\ warningArmed' = (warningArmed /\ warning)
           /\ stage' = [stage EXCEPT ![c] = IF AwaitsWarning THEN "warned" ELSE "told"]
    BY <1>2 DEF Evaluate
  <2>5. \A kind \in {"other", "pause"} : Ends(c, kind, FALSE, "over") => stage' = [stage EXCEPT ![c] = "over"]
    BY EndStage
  <2>6. Begins(c) => stage' = [stage EXCEPT ![c] = "begin"]
    BY DEF Begins
  <2> QED BY <2>2, <2>3, <2>4, <2>5, <2>6
<1>3. ASSUME WarningAppended PROVE Warned'
  <2>1. /\ warning' = FALSE /\ UNCHANGED <<warningArmed, overCap>>
        /\ stage' = [x \in Calls |-> IF stage[x] = "warned" THEN "told" ELSE stage[x]]
    BY <1>3 DEF WarningAppended, Told
  <2>2. (announced' \/ Aborted') /\ (announced => announced') /\ (Aborted => Aborted')
    <3>1. CASE AppendFails
      BY <1>3, <3>1, AppendFailed DEF WarningAppended
    <3>2. CASE ~AppendFails
      BY <1>3, <3>2 DEF WarningAppended, runVars, Aborted
    <3> QED BY <3>1, <3>2
  <2>3. \A x \in Calls : stage'[x] = (IF stage[x] = "warned" THEN "told" ELSE stage[x])
    BY <2>1
  <2> QED BY <2>1, <2>2, <2>3 DEF Warned, WarningTypes, Aborted
<1>4. ASSUME WarningThrows PROVE Warned'
  <2>1. /\ warning' = FALSE /\ warningArmed' = TRUE /\ UNCHANGED <<overCap, announced, run>>
        /\ stage' = [x \in Calls |-> IF stage[x] = "warned" THEN "unmarked" ELSE stage[x]]
    BY <1>4 DEF WarningThrows, Told
  <2>2. \A x \in Calls : stage'[x] = (IF stage[x] = "warned" THEN "unmarked" ELSE stage[x])
    BY <2>1
  <2> QED BY <2>1, <2>2 DEF Warned, WarningTypes, Aborted
<1>5. (Quiet /\ \A x \in Calls : Cautious(x)) \/ Warns
  BY QuietStep, CautiousStep
<1> QED BY <1>1, <1>2, <1>3, <1>4, <1>5 DEF Warns

(* In an aborted run no provider is asked and no tool round starts. *)
LEMMA NothingNew ==
    ASSUME StageTypes, TurnTypes, Aborted, CallMoves
    PROVE  /\ \A c \in Calls : stage'[c] = "asked" => stage[c] = "asked"
           /\ \A t \in Turns : step'[t] = "tools" => step[t] = "tools"
<1> DEFINE A == \A c \in Calls : stage'[c] = "asked" => stage[c] = "asked"
           B == \A t \in Turns : step'[t] = "tools" => step[t] = "tools"
<1>1. CASE UNCHANGED callMoveVars /\ UNCHANGED turnMoveVars
  BY <1>1 DEF callMoveVars, turnMoveVars
<1>2. CASE WarningMove
  BY <1>2 DEF WarningMove, turnMoveVars
<1>3. ASSUME NEW c \in Calls, PassMove(c) PROVE A /\ B
  BY <1>3 DEF PassMove, turnMoveVars, StageTypes
<1>4. ASSUME NEW c \in Calls, EndMove(c) PROVE A /\ B
  BY <1>4, CallParts DEF EndMove, FailureMove, turnMoveVars, StageTypes, TurnTypes
<1>5. ASSUME NEW c \in Calls, AnswerMove(c) PROVE A /\ B
  BY <1>5, CallParts DEF AnswerMove, StageTypes, TurnTypes
<1>6. ASSUME NEW c \in Calls, LateMove(c) PROVE A /\ B
  BY <1>6 DEF LateMove, turnMoveVars, StageTypes
<1>7. ASSUME NEW c \in Calls, CloseMove(c) PROVE A /\ B
  BY <1>7, CallParts DEF CloseMove, FailureMove, TurnTypes
<1>8. ASSUME NEW c \in Calls, RetryMove(c) PROVE A /\ B
  BY <1>8 DEF RetryMove, turnMoveVars, StageTypes
<1>9. ASSUME NEW t \in Turns, StartMove(t) PROVE A /\ B
  BY <1>9 DEF StartMove, StageTypes, TurnTypes
<1>10. ASSUME NEW t \in Turns, TurnMove(t) PROVE A /\ B
  BY <1>10 DEF TurnMove, callMoveVars, TurnTypes
<1> QED BY <1>1, <1>2, <1>3, <1>4, <1>5, <1>6, <1>7, <1>8, <1>9, <1>10 DEF CallMoves

-----------------------------------------------------------------------------
(* What the chain promises of one request.                                   *)

(* Content is shown in the last call of a round. *)
LastOfRound ==
    /\ \A c \in Calls : stage[c] # "none" => roundOf[c] <= round[c[1]]
    /\ \A t \in Turns : step[t] \in {"chain", "attempt"} => \A c \in shown : c[1] = t => roundOf[c] < round[t]
    /\ NoSecondVoice

(* No call is new, none shows anything, and turns that can make a call could before. *)
LEMMA NobodySpeaks ==
    ASSUME StageTypes, CallTypes, TurnTypes, InOrder, LastOfRound, UNCHANGED <<shown, roundOf, round>>,
           \A c \in Calls : stage'[c] = "none" <=> stage[c] = "none",
           \A t \in Turns : step'[t] \in {"chain", "attempt"} => step[t] \in {"chain", "attempt"}
    PROVE  LastOfRound'
BY DEF LastOfRound, NoSecondVoice

(* The last call of a turn shows content, and the turn leaves its chain. *)
LEMMA LastSpeaks ==
    ASSUME StageTypes, CallTypes, TurnTypes, Numbered, InOrder, LastOfRound, UNCHANGED <<roundOf, round>>,
           NEW c \in Calls, c[2] = made[c[1]], shown' = shown \cup {c},
           \A d \in Calls : stage'[d] = "none" <=> stage[d] = "none",
           step'[c[1]] \notin {"chain", "attempt"},
           \A t \in Turns \ {c[1]} : step'[t] = step[t]
    PROVE  LastOfRound'
<1>1. \A d \in Calls : stage'[d] # "none" => roundOf'[d] <= round'[d[1]]
  BY DEF LastOfRound
<1>2. \A t \in Turns : step'[t] \in {"chain", "attempt"} => \A d \in shown' : d[1] = t => roundOf'[d] < round'[t]
  BY DEF LastOfRound
<1>3. ASSUME NEW e \in shown', NEW d \in Calls, e[1] = d[1], d[2] > e[2], stage'[d] # "none"
      PROVE  roundOf'[d] > roundOf'[e]
  <2>1. CASE e \in shown
    BY <1>3, <2>1 DEF LastOfRound, NoSecondVoice
  <2>2. CASE e = c
    <3>1. d[2] <= made[d[1]]
      <4>1. d[1] \in Turns /\ d[2] \in Nat /\ made[d[1]] \in Nat /\ ~ (d[2] > made[d[1]])
        BY <1>3, CallParts DEF Numbered, TurnTypes
      <4> QED BY <4>1
    <3>2. d[1] \in Turns /\ d[2] \in Nat /\ made[d[1]] \in Nat
      BY CallParts DEF TurnTypes
    <3> QED BY <1>3, <2>2, <3>1, <3>2
  <2> QED BY <1>3, <2>1, <2>2
<1> QED BY <1>1, <1>2, <1>3 DEF LastOfRound, NoSecondVoice

(* A new call of a turn that could make one. *)
LEMMA NextSpeaker ==
    ASSUME StageTypes, CallTypes, TurnTypes, InOrder, LastOfRound, UNCHANGED <<shown, round>>,
           NEW d \in Calls, stage[d] = "none", roundOf' \in [Calls -> Nat], roundOf'[d] = round[d[1]],
           \A x \in Calls \ {d} : roundOf'[x] = roundOf[x] /\ (stage'[x] = "none" <=> stage[x] = "none"),
           step[d[1]] \in {"chain", "attempt"},
           \A x \in Calls : x[1] = d[1] /\ x[2] > d[2] => stage[x] = "none",
           \A t \in Turns : step'[t] \in {"chain", "attempt"} => step[t] \in {"chain", "attempt"}
    PROVE  LastOfRound'
<1>1. d[1] \in Turns /\ round[d[1]] \in Nat /\ d \notin shown
  BY CallParts DEF TurnTypes, InOrder
<1>2. \A x \in Calls : stage'[x] # "none" => roundOf'[x] <= round'[x[1]]
  BY <1>1 DEF LastOfRound
<1>3. \A t \in Turns : step'[t] \in {"chain", "attempt"} => \A x \in shown' : x[1] = t => roundOf'[x] < round'[t]
  <2>1. \A x \in shown : x # d /\ x \in Calls
    BY <1>1 DEF CallTypes
  <2> QED BY <2>1 DEF LastOfRound
<1>4. ASSUME NEW e \in shown', NEW x \in Calls, e[1] = x[1], x[2] > e[2], stage'[x] # "none"
      PROVE  roundOf'[x] > roundOf'[e]
  <2>1. e \in shown /\ e # d /\ e \in Calls /\ roundOf'[e] = roundOf[e]
    BY <1>1 DEF CallTypes
  <2>2. CASE x = d
    <3>1. roundOf[e] < round[d[1]]
      BY <1>1, <1>4, <2>1, <2>2 DEF LastOfRound
    <3>2. roundOf'[x] = round[d[1]]
      BY <2>2
    <3>3. roundOf[e] \in Nat
      BY <2>1 DEF CallTypes
    <3> QED BY <1>1, <2>1, <3>1, <3>2, <3>3
  <2>3. CASE x # d
    <3>1. stage[x] # "none" /\ roundOf'[x] = roundOf[x]
      BY <1>4, <2>3
    <3> QED BY <1>4, <2>1, <3>1 DEF LastOfRound, NoSecondVoice
  <2> QED BY <2>2, <2>3
<1> QED BY <1>2, <1>3, <1>4 DEF LastOfRound, NoSecondVoice

(* Content is shown in the last call of a round: every step keeps it that way. *)
LEMMA LastOfRoundStep ==
    ASSUME ChainTypes, LedgerTypes, Marking, TurnTypes, StageTypes, CallTypes, Numbered, InOrder, OneAtATime, LastOfRound,
           [Next]_vars
    PROVE  LastOfRound'
<1>1. ASSUME UNCHANGED callMoveVars, UNCHANGED turnMoveVars PROVE LastOfRound'
  BY <1>1, NobodySpeaks DEF callMoveVars, turnMoveVars
<1>2. ASSUME WarningMove PROVE LastOfRound'
  BY <1>2, NobodySpeaks DEF WarningMove, turnMoveVars
<1>3. ASSUME NEW c \in Calls, PassMove(c) PROVE LastOfRound'
  <2>1. \A d \in Calls : stage'[d] = "none" <=> stage[d] = "none"
    BY <1>3 DEF PassMove, StageTypes, Acquiring
  <2> QED BY <1>3, <2>1, NobodySpeaks DEF PassMove, turnMoveVars
<1>4. ASSUME NEW c \in Calls, EndMove(c) PROVE LastOfRound'
  <2>1. /\ c \notin shown /\ UNCHANGED roundOf
        /\ \A d \in Calls : stage'[d] = "none" <=> stage[d] = "none"
    BY <1>4 DEF EndMove, StageTypes, Ongoing, Acquiring, InOrder
  <2>2. CASE c \in closed
    <3>1. UNCHANGED turnMoveVars /\ shown' = shown
      BY <1>4, <2>2 DEF EndMove, InOrder
    <3> QED BY <2>1, <3>1, NobodySpeaks DEF turnMoveVars
  <2>3. CASE c \notin closed
    <3>1. FailureMove(c[1], c \in shown') /\ c[1] \in Turns /\ entry[c[1]] <= Len(Plan) /\ step[c[1]] = "attempt"
          /\ made[c[1]] = c[2] /\ (c \in shown') \in BOOLEAN
      BY <1>4, <2>3, CallParts DEF EndMove, OneAtATime
    <3>2. UNCHANGED round /\ step'[c[1]] \in {"chain", "closing"} /\ (c \in shown' => step'[c[1]] = "closing")
          /\ \A u \in Turns \ {c[1]} : step'[u] = step[u]
      BY <3>1, FailureFacts
    <3>3. CASE shown' = shown
      BY <2>1, <3>1, <3>2, <3>3, NobodySpeaks
    <3>4. CASE shown' = shown \cup {c}
      BY <2>1, <3>1, <3>2, <3>4, LastSpeaks
    <3> QED BY <1>4, <3>3, <3>4 DEF EndMove
  <2> QED BY <2>2, <2>3
<1>5. ASSUME NEW c \in Calls, AnswerMove(c) PROVE LastOfRound'
  <2>1. /\ c[2] = made[c[1]] /\ UNCHANGED <<roundOf, round>> /\ shown' = shown \cup {c} /\ c[1] \in Turns
        /\ \A d \in Calls : stage'[d] = "none" <=> stage[d] = "none"
    BY <1>5, CallParts DEF AnswerMove, StageTypes, InOrder, OneAtATime, Ongoing
  <2>2. step'[c[1]] \notin {"chain", "attempt"} /\ \A u \in Turns \ {c[1]} : step'[u] = step[u]
    BY <1>5, <2>1 DEF AnswerMove, TurnTypes
  <2> QED BY <2>1, <2>2, LastSpeaks
<1>6. ASSUME NEW c \in Calls, LateMove(c) PROVE LastOfRound'
  <2>1. \A d \in Calls : stage'[d] = "none" <=> stage[d] = "none"
    BY <1>6 DEF LateMove, StageTypes
  <2> QED BY <1>6, <2>1, NobodySpeaks DEF LateMove, turnMoveVars
<1>7. ASSUME NEW c \in Calls, CloseMove(c) PROVE LastOfRound'
  <2>1. FailureMove(c[1], FALSE) /\ c[1] \in Turns /\ entry[c[1]] <= Len(Plan) /\ step[c[1]] = "attempt"
    BY <1>7, CallParts DEF CloseMove, OneAtATime, Ongoing
  <2>2. UNCHANGED round /\ \A u \in Turns \ {c[1]} : step'[u] = step[u]
    BY <2>1, FailureFacts
  <2>3. UNCHANGED <<stage, shown, roundOf>>
    BY <1>7 DEF CloseMove
  <2> QED BY <2>1, <2>2, <2>3, NobodySpeaks
<1>8. ASSUME NEW c \in Calls, RetryMove(c) PROVE LastOfRound'
  <2>1. PICK d \in Calls : Retried(c, d)
    BY <1>8, RetryFacts
  <2>2. /\ stage[d] = "none" /\ d[1] = c[1] /\ d[2] = made[d[1]] + 1 /\ UNCHANGED <<shown, round, step>>
        /\ roundOf' \in [Calls -> Nat] /\ roundOf'[d] = round[d[1]]
        /\ \A x \in Calls \ {d} : roundOf'[x] = roundOf[x] /\ (stage'[x] = "none" <=> stage[x] = "none")
    BY <2>1 DEF Retried, turnMoveVars
  <2>3. step[d[1]] = "attempt"
    BY <2>1 DEF Retried, OneAtATime, InOrder, Ongoing
  <2>4. ASSUME NEW x \in Calls, x[1] = d[1], x[2] > d[2] PROVE stage[x] = "none"
    <3>1. x[2] \in Nat /\ made[d[1]] \in Nat
      BY CallParts DEF TurnTypes
    <3> QED BY <2>2, <2>4, <3>1 DEF Numbered
  <2> QED BY <2>2, <2>3, <2>4, NextSpeaker
<1>9. ASSUME NEW t \in Turns, StartMove(t) PROVE LastOfRound'
  <2>1. PICK d \in Calls : Started(t, d)
    BY <1>9, StartFacts
  <2>2. /\ stage[d] = "none" /\ d[1] = t /\ d[2] = made[d[1]] + 1 /\ UNCHANGED <<shown, round>>
        /\ roundOf' \in [Calls -> Nat] /\ roundOf'[d] = round[d[1]] /\ step[d[1]] = "chain"
        /\ \A x \in Calls \ {d} : roundOf'[x] = roundOf[x] /\ (stage'[x] = "none" <=> stage[x] = "none")
        /\ step' = [step EXCEPT ![t] = "attempt"]
    BY <2>1 DEF Started
  <2>3. \A u \in Turns : step'[u] \in {"chain", "attempt"} => step[u] \in {"chain", "attempt"}
    BY <2>2 DEF TurnTypes
  <2>4. ASSUME NEW x \in Calls, x[1] = d[1], x[2] > d[2] PROVE stage[x] = "none"
    <3>1. x[2] \in Nat /\ made[d[1]] \in Nat
      BY CallParts DEF TurnTypes
    <3> QED BY <2>2, <2>4, <3>1 DEF Numbered
  <2> QED BY <2>2, <2>3, <2>4, NextSpeaker
<1>10. ASSUME NEW t \in Turns, TurnMove(t) PROVE LastOfRound'
  <2>1. UNCHANGED <<stage, shown, roundOf>> /\ \A u \in Turns \ {t} : step'[u] = step[u]
    BY <1>10 DEF TurnMove, callMoveVars, TurnTypes
  <2>2. CASE step[t] = "tools" /\ round' = [round EXCEPT ![t] = round[t] + 1]
    <3>1. /\ round[t] \in Nat /\ round'[t] = round[t] + 1 /\ round' \in [Turns -> Nat]
          /\ \A u \in Turns \ {t} : round'[u] = round[u]
      BY <2>2 DEF TurnTypes
    <3>2. \A c \in Calls : c[1] \in Turns /\ roundOf[c] \in Nat /\ round[c[1]] \in Nat
      BY CallParts DEF CallTypes, TurnTypes
    <3>3. \A c \in Calls : stage'[c] # "none" => roundOf'[c] <= round'[c[1]]
      <4> SUFFICES ASSUME NEW c \in Calls, stage[c] # "none" PROVE roundOf[c] <= round'[c[1]]
        BY <2>1
      <4>1. roundOf[c] <= round[c[1]]
        BY DEF LastOfRound
      <4> QED BY <3>1, <3>2, <4>1
    <3>4. \A c \in shown : c \in Calls /\ stage[c] # "none"
      BY DEF InOrder, CallTypes
    <3>5. ASSUME NEW u \in Turns, step'[u] \in {"chain", "attempt"}, NEW c \in shown', c[1] = u PROVE roundOf'[c] < round'[u]
      <4>1. c \in Calls /\ c \in shown /\ roundOf[c] <= round[u]
        BY <2>1, <3>4, <3>5 DEF LastOfRound
      <4>2. CASE u = t
        BY <2>1, <3>1, <3>2, <3>5, <4>1, <4>2
      <4>3. CASE u # t
        BY <2>1, <3>1, <3>5, <4>1, <4>3 DEF LastOfRound
      <4> QED BY <4>2, <4>3
    <3>6. NoSecondVoice'
      BY <2>1 DEF LastOfRound, NoSecondVoice
    <3> QED BY <3>3, <3>5, <3>6 DEF LastOfRound
  <2>3. CASE round' = round /\ (step' = step \/ \E s \in {"tools", "closing", "boundary", "ended"} : step' = [step EXCEPT ![t] = s])
    <3>1. step'[t] \in {"chain", "attempt"} => step[t] \in {"chain", "attempt"}
      BY <2>3 DEF TurnTypes
    <3> QED BY <2>1, <2>3, <3>1, NobodySpeaks
  <2> QED BY <1>10, <2>2, <2>3 DEF TurnMove
<1> QED BY <1>1, <1>2, <1>3, <1>4, <1>5, <1>6, <1>7, <1>8, <1>9, <1>10, CallMovesCover DEF CallMoves

(* The attempts at a provider, by its places in the plan. *)
Attempts(t, p) == {c \in CallsOf(t) \ native : stage[c] # "none" /\ via[c] = p}

Places(p, k) == {i \in 1..k : Plan[i] = p}

InPlan(p) == Cardinality(Places(p, Len(Plan)))

Passed(t, p) == Cardinality(Places(p, entry[t] - 1))

HereFor(t, p) == entry[t] <= Len(Plan) /\ Plan[entry[t]] = p

Used(t, p) == (IF HereFor(t, p) THEN tries[t] - bonus[t] ELSE 0) + (IF p \in refreshed[t] THEN 1 ELSE 0)

(* An entry is tried as often as it may be, and no more. *)
InBudget(t) == entry[t] <= Len(Plan) =>
                  /\ tries[t] <= MaxAttempts[Plan[entry[t]]] + bonus[t]
                  /\ step[t] = "chain" => tries[t] < MaxAttempts[Plan[entry[t]]] + bonus[t]

Meter(t, p) ==
    Cardinality(Attempts(t, p)) <= MaxAttempts[p] * (InPlan(p) * round[t] + Passed(t, p)) + Used(t, p)

Metered == \A t \in Turns : InBudget(t) /\ \A p \in Providers : Meter(t, p)

(* Products grow with their factors. *)
LEMMA Products ==
    ASSUME NEW m \in Nat, NEW x \in Nat, NEW y \in Nat
    PROVE  m * x \in Nat /\ m * (x + 1) = m * x + m /\ (x <= y => m * x <= m * y)
<1>1. m * x \in Nat /\ m * (x + 1) = m * x + m
  OBVIOUS
<1>2. ASSUME x <= y PROVE m * x <= m * y
  <2> DEFINE k == y - x
  <2>1. k \in Nat /\ y = x + k
    BY <1>2
  <2> HIDE DEF k
  <2>2. m * (x + k) = m * x + m * k /\ m * k \in Nat /\ m * x \in Nat
    BY <2>1
  <2> QED BY <2>1, <2>2
<1> QED BY <1>1, <1>2

(* How many places a provider has before an entry. *)
LEMMA PlacesFacts ==
    ASSUME NEW p \in Providers, NEW k \in 0..Len(Plan)
    PROVE  /\ Cardinality(Places(p, k)) \in Nat /\ Cardinality(Places(p, 0)) = 0
           /\ Cardinality(Places(p, k)) <= InPlan(p)
           /\ k < Len(Plan) => Cardinality(Places(p, k + 1)) = Cardinality(Places(p, k)) + (IF Plan[k + 1] = p THEN 1 ELSE 0)
<1>1. Len(Plan) \in Nat
  BY PlanParts
<1>2. \A i \in 0..Len(Plan) : IsFiniteSet(Places(p, i)) /\ Cardinality(Places(p, i)) \in Nat
  <2> SUFFICES ASSUME NEW i \in 0..Len(Plan) PROVE IsFiniteSet(Places(p, i)) /\ Cardinality(Places(p, i)) \in Nat
    OBVIOUS
  <2>1. IsFiniteSet(1..i)
    BY <1>1, FS_Interval
  <2>2. Places(p, i) \subseteq 1..i
    BY DEF Places
  <2> QED BY <2>1, <2>2, FS_Subset, FS_CardinalityType
<1>3. Places(p, 0) = {} /\ Places(p, k) \subseteq Places(p, Len(Plan))
  BY <1>1 DEF Places
<1>4. Cardinality(Places(p, 0)) = 0
  BY <1>3, FS_EmptySet
<1>5. Cardinality(Places(p, k)) <= InPlan(p)
  BY <1>1, <1>2, <1>3, FS_Subset DEF InPlan
<1>6. ASSUME k < Len(Plan)
      PROVE  Cardinality(Places(p, k + 1)) = Cardinality(Places(p, k)) + (IF Plan[k + 1] = p THEN 1 ELSE 0)
  <2>1. CASE Plan[k + 1] = p
    <3>1. Places(p, k + 1) = Places(p, k) \cup {k + 1} /\ k + 1 \notin Places(p, k)
      BY <1>1, <1>6, <2>1 DEF Places
    <3>2. Cardinality(Places(p, k) \cup {k + 1}) = Cardinality(Places(p, k)) + 1
      BY <1>2, <3>1, FS_AddElement
    <3> QED BY <2>1, <3>1, <3>2
  <2>2. CASE Plan[k + 1] # p
    <3>1. Places(p, k + 1) = Places(p, k)
      BY <1>1, <1>6, <2>2 DEF Places
    <3> QED BY <1>2, <2>2, <3>1
  <2> QED BY <2>1, <2>2
<1> QED BY <1>2, <1>4, <1>5, <1>6

(* What the plan says of an entry. *)
LEMMA EntryFactsOf ==
    ASSUME ChainTypes, TurnTypes, NEW t \in Turns, NEW p \in Providers
    PROVE  /\ entry[t] \in Nat /\ entry[t] >= 1 /\ entry[t] <= Len(Plan) + 1 /\ Len(Plan) \in Nat
           /\ tries[t] \in Nat /\ bonus[t] \in Nat /\ round[t] \in Nat
           /\ MaxAttempts[p] \in Nat \ {0} /\ InPlan(p) \in Nat /\ Passed(t, p) \in Nat /\ Passed(t, p) <= InPlan(p)
           /\ HereFor(t, p) => Passed(t, p) + 1 <= InPlan(p)
           /\ Used(t, p) \in Int
<1>1. /\ entry[t] \in Nat /\ entry[t] >= 1 /\ entry[t] <= Len(Plan) + 1 /\ Len(Plan) \in Nat
      /\ tries[t] \in Nat /\ bonus[t] \in Nat /\ round[t] \in Nat /\ MaxAttempts[p] \in Nat \ {0}
  BY PlanParts DEF ChainTypes, TurnTypes
<1>2. entry[t] - 1 \in 0..Len(Plan) /\ Len(Plan) \in 0..Len(Plan)
  BY <1>1
<1>3. InPlan(p) \in Nat /\ Passed(t, p) \in Nat /\ Passed(t, p) <= InPlan(p)
  BY <1>2, PlacesFacts DEF InPlan, Passed
<1>4. ASSUME HereFor(t, p) PROVE Passed(t, p) + 1 <= InPlan(p)
  <2>1. entry[t] \in 0..Len(Plan) /\ entry[t] - 1 < Len(Plan) /\ (entry[t] - 1) + 1 = entry[t] /\ Plan[entry[t]] = p
    BY <1>1, <1>4 DEF HereFor
  <2>2. Cardinality(Places(p, (entry[t] - 1) + 1)) = Passed(t, p) + (IF Plan[(entry[t] - 1) + 1] = p THEN 1 ELSE 0)
    BY <1>2, <2>1, PlacesFacts DEF Passed
  <2>3. Cardinality(Places(p, entry[t])) <= InPlan(p)
    BY <2>1, PlacesFacts
  <2>4. Cardinality(Places(p, entry[t])) = Passed(t, p) + 1
    BY <2>1, <2>2
  <2> QED BY <2>3, <2>4
<1>5. Used(t, p) \in Int
  BY <1>1 DEF Used
<1> QED BY <1>1, <1>3, <1>4, <1>5

(* A turn's attempts at a provider fit in the places it has passed, and in the one it is at. *)
LEMMA MeterBounds ==
    ASSUME ChainTypes, TurnTypes, Metered, NEW t \in Turns, NEW p \in Providers, Cardinality(Attempts(t, p)) \in Nat
    PROVE  Cardinality(Attempts(t, p)) <= MaxAttempts[p] * (InPlan(p) * (round[t] + 1)) + (IF p \in refreshed[t] THEN 1 ELSE 0)
<1> DEFINE m == MaxAttempts[p]
           n == InPlan(p)
           r == round[t]
           b == Passed(t, p)
           here == IF HereFor(t, p) THEN tries[t] - bonus[t] ELSE 0
           extra == IF p \in refreshed[t] THEN 1 ELSE 0
<1>1. m \in Nat /\ n \in Nat /\ r \in Nat /\ b \in Nat /\ b <= n /\ here \in Int /\ extra \in Nat
      /\ (HereFor(t, p) => b + 1 <= n)
  BY EntryFactsOf
<1>2. HereFor(t, p) => here <= m
  <2>1. ASSUME HereFor(t, p) PROVE tries[t] <= MaxAttempts[p] + bonus[t]
    BY <2>1 DEF Metered, InBudget, HereFor
  <2>2. tries[t] \in Nat /\ bonus[t] \in Nat /\ MaxAttempts[p] \in Nat
    BY EntryFactsOf
  <2> QED BY <2>1, <2>2
<1>3. Cardinality(Attempts(t, p)) <= m * (n * r + b) + (here + extra)
  BY DEF Metered, Meter, Used
<1>4. ~ HereFor(t, p) => here = 0
  OBVIOUS
<1> HIDE DEF m, n, r, b, here
<1>5. n * r \in Nat /\ n * (r + 1) = n * r + n
  BY <1>1, Products
<1>6. m * (n * r + b) + here <= m * (n * (r + 1))
  <2>1. n * r + b \in Nat /\ n * r + n \in Nat /\ n * r + b <= n * r + n
    BY <1>1, <1>5
  <2>2. m * (n * r + b) \in Nat /\ m * (n * r + n) \in Nat
    BY <1>1, <2>1, Products
  <2>3. CASE HereFor(t, p)
    <3>1. n * r + b + 1 <= n * r + n /\ (n * r + b) + 1 \in Nat
      BY <1>1, <1>5, <2>3
    <3>2. m * ((n * r + b) + 1) <= m * (n * r + n) /\ m * ((n * r + b) + 1) = m * (n * r + b) + m
      BY <1>1, <2>1, <3>1, Products
    <3> QED BY <1>1, <1>2, <1>5, <2>2, <2>3, <3>2
  <2>4. CASE ~ HereFor(t, p)
    <3>1. m * (n * r + b) <= m * (n * r + n)
      BY <1>1, <2>1, Products
    <3> QED BY <1>4, <1>5, <2>2, <2>4, <3>1
  <2> QED BY <2>3, <2>4
<1>7. m * (n * r + b) \in Nat /\ m * (n * (r + 1)) \in Nat
  <2>1. n * r + b \in Nat /\ n * (r + 1) \in Nat
    BY <1>1, <1>5
  <2> QED BY <1>1, <2>1, Products
<1>8. Cardinality(Attempts(t, p)) <= m * (n * (r + 1)) + extra
  <2> HIDE DEF extra
  <2> QED BY <1>1, <1>3, <1>6, <1>7
<1> QED BY <1>8 DEF m, n, r

(* The meters of a turn that does not move. *)
LEMMA MeterKept ==
    ASSUME Metered, NEW t \in Turns, \A p \in Providers : Attempts(t, p)' = Attempts(t, p),
           entry'[t] = entry[t], tries'[t] = tries[t], bonus'[t] = bonus[t], refreshed'[t] = refreshed[t],
           round'[t] = round[t], step'[t] = "chain" => step[t] = "chain"
    PROVE  InBudget(t)' /\ \A p \in Providers : Meter(t, p)'
<1>1. InBudget(t)'
  BY DEF Metered, InBudget
<1>2. ASSUME NEW p \in Providers PROVE Meter(t, p)'
  <2>1. Passed(t, p)' = Passed(t, p) /\ Used(t, p)' = Used(t, p)
    BY DEF Passed, Used, HereFor
  <2>2. Attempts(t, p)' = Attempts(t, p) /\ round'[t] = round[t] /\ Meter(t, p)
    BY DEF Metered
  <2> QED BY <2>1, <2>2 DEF Meter
<1> QED BY <1>1, <1>2

(* The next entry. *)
LEMMA MeterAdvanced ==
    ASSUME ChainTypes, TurnTypes, Metered, NEW t \in Turns, \A p \in Providers : Attempts(t, p)' = Attempts(t, p),
           \A p \in Providers : Cardinality(Attempts(t, p)) \in Nat,
           entry[t] <= Len(Plan), entry'[t] = entry[t] + 1, tries'[t] = 0, bonus'[t] = 0, refreshed'[t] = refreshed[t],
           round'[t] = round[t]
    PROVE  InBudget(t)' /\ \A p \in Providers : Meter(t, p)'
<1>0. /\ entry[t] \in Nat /\ entry[t] >= 1 /\ Len(Plan) \in Nat
      /\ \A i \in 1..Len(Plan) : Plan[i] \in Providers /\ MaxAttempts[Plan[i]] \in Nat \ {0}
  BY PlanParts DEF ChainTypes
<1>1. InBudget(t)'
  <2>1. ASSUME entry'[t] <= Len(Plan) PROVE MaxAttempts[Plan[entry'[t]]] \in Nat \ {0}
    <3>1. entry'[t] \in 1..Len(Plan)
      BY <1>0, <2>1
    <3> QED BY <1>0, <3>1
  <2> QED BY <2>1 DEF InBudget
<1>2. ASSUME NEW p \in Providers PROVE Meter(t, p)'
  <2> DEFINE m == MaxAttempts[p]
             a == InPlan(p) * round[t]
             b == Passed(t, p)
             extra == IF p \in refreshed[t] THEN 1 ELSE 0
             used == IF HereFor(t, p) THEN tries[t] - bonus[t] ELSE 0
             card == Cardinality(Attempts(t, p))
  <2>1. m \in Nat /\ b \in Nat /\ extra \in Nat /\ used \in Int /\ card \in Nat /\ card <= m * (a + b) + (used + extra)
    <3>1. m \in Nat /\ b \in Nat /\ tries[t] \in Nat /\ bonus[t] \in Nat
      BY EntryFactsOf
    <3>2. Used(t, p) = used + extra /\ extra \in Nat /\ used \in Int
      BY <3>1 DEF Used
    <3>3. card <= m * (a + b) + Used(t, p)
      BY DEF Metered, Meter
    <3> QED BY <3>1, <3>2, <3>3
  <2>2. a \in Nat
    BY EntryFactsOf, Products
  <2>3. Passed(t, p)' = b + (IF HereFor(t, p) THEN 1 ELSE 0)
    <3>1. entry[t] - 1 \in 0..Len(Plan) /\ entry[t] - 1 < Len(Plan) /\ (entry[t] - 1) + 1 = entry[t] /\ entry'[t] - 1 = entry[t]
      BY <1>0
    <3>2. Cardinality(Places(p, (entry[t] - 1) + 1))
            = Cardinality(Places(p, entry[t] - 1)) + (IF Plan[(entry[t] - 1) + 1] = p THEN 1 ELSE 0)
      BY <3>1, PlacesFacts
    <3>3. Passed(t, p)' = Cardinality(Places(p, entry[t]))
      BY <3>1 DEF Passed
    <3> QED BY <3>1, <3>2, <3>3 DEF Passed, HereFor
  <2>4. Used(t, p)' = extra
    BY DEF Used
  <2>5. HereFor(t, p) => used <= m
    <3>1. ASSUME HereFor(t, p) PROVE tries[t] <= MaxAttempts[p] + bonus[t]
      BY <3>1 DEF Metered, InBudget, HereFor
    <3>2. tries[t] \in Nat /\ bonus[t] \in Nat /\ MaxAttempts[p] \in Nat
      BY EntryFactsOf
    <3> QED BY <3>1, <3>2
  <2>6. ~ HereFor(t, p) => used = 0
    OBVIOUS
  <2>7. Cardinality(Attempts(t, p))' = card /\ (InPlan(p) * round[t])' = a
    OBVIOUS
  <2>8. card <= m * (a + Passed(t, p)') + extra
    <3> HIDE DEF m, a, b, extra, used, card
    <3>1. a + b \in Nat
      BY <2>1, <2>2
    <3>2. m * (a + b) \in Nat /\ m * ((a + b) + 1) = m * (a + b) + m /\ (a + b) + 1 = a + (b + 1)
      BY <2>1, <2>2, <3>1, Products
    <3>3. CASE HereFor(t, p)
      <4>1. m * (a + (b + 1)) = m * (a + b) + m
        BY <3>2
      <4>2. Passed(t, p)' = b + 1
        BY <2>3, <3>3
      <4>3. card <= (m * (a + b) + m) + extra
        BY <2>1, <2>5, <3>2, <3>3
      <4> QED BY <4>1, <4>2, <4>3
    <3>4. CASE ~ HereFor(t, p)
      <4>1. Passed(t, p)' = b
        BY <2>1, <2>3, <3>4
      <4>2. card <= m * (a + b) + extra
        BY <2>1, <2>6, <3>2, <3>4
      <4> QED BY <4>1, <4>2
    <3> QED BY <3>3, <3>4
  <2> QED BY <2>4, <2>7, <2>8 DEF Meter
<1> QED BY <1>1, <1>2

(* A failed attempt. *)
LEMMA MeterFailed ==
    ASSUME ChainTypes, TurnTypes, Metered, NEW t \in Turns, NEW committed \in BOOLEAN, entry[t] <= Len(Plan),
           FailureMove(t, committed), \A u \in Turns : \A p \in Providers : Attempts(u, p)' = Attempts(u, p),
           \A u \in Turns : \A p \in Providers : Cardinality(Attempts(u, p)) \in Nat
    PROVE  Metered'
<1>1. /\ UNCHANGED round
      /\ \A u \in Turns \ {t} : /\ step'[u] = step[u] /\ entry'[u] = entry[u] /\ tries'[u] = tries[u]
                                /\ bonus'[u] = bonus[u] /\ refreshed'[u] = refreshed[u]
  BY FailureFacts
<1>2. \A u \in Turns \ {t} : InBudget(u)' /\ \A p \in Providers : Meter(u, p)'
  BY <1>1, MeterKept
<1>3. /\ entry[t] \in Nat /\ entry[t] >= 1 /\ Len(Plan) \in Nat /\ tries[t] \in Nat /\ bonus[t] \in Nat
      /\ Provider(t) \in Providers /\ Provider(t) = Plan[entry[t]] /\ MaxAttempts[Provider(t)] \in Nat \ {0}
      /\ tries[t] <= MaxAttempts[Provider(t)] + bonus[t] /\ refreshed[t] \subseteq Providers
  <2>1. entry[t] \in 1..Len(Plan)
    BY PlanParts DEF ChainTypes
  <2> QED BY <2>1, PlanParts DEF ChainTypes, Provider, Metered, InBudget
<1>4. InBudget(t)' /\ \A p \in Providers : Meter(t, p)'
  <2>1. CASE /\ step' = [step EXCEPT ![t] = "chain"] /\ UNCHANGED refreshed
             /\ entry' = [entry EXCEPT ![t] = entry[t] + 1]
             /\ tries' = [tries EXCEPT ![t] = 0] /\ bonus' = [bonus EXCEPT ![t] = 0]
    <3>1. entry'[t] = entry[t] + 1 /\ tries'[t] = 0 /\ bonus'[t] = 0
      BY <2>1 DEF ChainTypes
    <3> QED BY <1>1, <2>1, <3>1, MeterAdvanced
  <2>2. CASE BudgetLeft(t) /\ UNCHANGED <<entry, tries, bonus, refreshed>>
    <3>1. InBudget(t)'
      BY <1>3, <2>2 DEF BudgetLeft, InBudget
    <3>2. ASSUME NEW p \in Providers PROVE Meter(t, p)'
      <4>1. Passed(t, p)' = Passed(t, p) /\ Used(t, p)' = Used(t, p)
        BY <2>2 DEF Passed, Used, HereFor
      <4>2. Attempts(t, p)' = Attempts(t, p) /\ round'[t] = round[t] /\ Meter(t, p)
        BY <1>1 DEF Metered
      <4> QED BY <4>1, <4>2 DEF Meter
    <3> QED BY <3>1, <3>2
  <2>3. CASE /\ Provider(t) \notin refreshed[t] /\ UNCHANGED <<entry, tries>>
             /\ refreshed' = [refreshed EXCEPT ![t] = refreshed[t] \cup {Provider(t)}]
             /\ bonus' = [bonus EXCEPT ![t] = bonus[t] + 1]
    <3>1. bonus'[t] = bonus[t] + 1 /\ refreshed'[t] = refreshed[t] \cup {Provider(t)}
      BY <2>3 DEF ChainTypes
    <3>2. InBudget(t)'
      BY <1>3, <2>3, <3>1 DEF InBudget
    <3>3. ASSUME NEW p \in Providers PROVE Meter(t, p)'
      <4>1. Passed(t, p)' = Passed(t, p)
        BY <2>3 DEF Passed
      <4>2. HereFor(t, p)' = HereFor(t, p) /\ (HereFor(t, p) <=> p = Provider(t))
        BY <1>3, <2>3 DEF HereFor
      <4>3. Used(t, p)' = Used(t, p)
        BY <1>3, <2>3, <3>1, <4>2 DEF Used
      <4>4. Attempts(t, p)' = Attempts(t, p) /\ round'[t] = round[t] /\ Meter(t, p)
        BY <1>1 DEF Metered
      <4> QED BY <4>1, <4>3, <4>4 DEF Meter
    <3> QED BY <3>2, <3>3
  <2>4. CASE /\ step' = [step EXCEPT ![t] = "closing"] /\ UNCHANGED <<entry, tries, bonus>>
             /\ \/ UNCHANGED refreshed
                \/ refreshed' = [refreshed EXCEPT ![t] = refreshed[t] \cup {Provider(t)}]
    <3>1. step'[t] # "chain" /\ refreshed[t] \subseteq refreshed'[t]
      BY <2>4 DEF ChainTypes, TurnTypes
    <3>2. InBudget(t)'
      BY <1>3, <2>4, <3>1 DEF InBudget
    <3>3. ASSUME NEW p \in Providers PROVE Meter(t, p)'
      <4>1. Passed(t, p)' = Passed(t, p) /\ HereFor(t, p)' = HereFor(t, p)
        BY <2>4 DEF Passed, HereFor
      <4>2. Used(t, p) <= Used(t, p)' /\ Used(t, p) \in Int /\ Used(t, p)' \in Int
        BY <1>3, <2>4, <3>1, <4>1 DEF Used
      <4>3. Attempts(t, p)' = Attempts(t, p) /\ round'[t] = round[t] /\ Meter(t, p) /\ Cardinality(Attempts(t, p)) \in Nat
        BY <1>1 DEF Metered
      <4> DEFINE top == MaxAttempts[p] * (InPlan(p) * round[t] + Passed(t, p))
      <4>4. top \in Nat
        <5>1. InPlan(p) * round[t] \in Nat /\ Passed(t, p) \in Nat /\ MaxAttempts[p] \in Nat
          BY EntryFactsOf, Products
        <5>2. InPlan(p) * round[t] + Passed(t, p) \in Nat
          BY <5>1
        <5> QED BY <5>1, <5>2, Products
      <4>5. top' = top
        BY <4>1, <4>3
      <4> QED BY <4>2, <4>3, <4>4, <4>5 DEF Meter
    <3> QED BY <3>2, <3>3
  <2> QED BY <2>1, <2>2, <2>3, <2>4 DEF FailureMove
<1> QED BY <1>2, <1>4 DEF Metered

(* The attempts are counted in natural numbers, and only a call that is no retry adds one. *)
LEMMA AttemptsFacts ==
    ASSUME CallTypes, NEW t \in Turns, NEW p \in Providers
    PROVE  /\ IsFiniteSet(Attempts(t, p)) /\ Cardinality(Attempts(t, p)) \in Nat
           /\ (/\ \A c \in Calls : stage'[c] = "none" <=> stage[c] = "none"
               /\ UNCHANGED <<via, native>>) => Attempts(t, p)' = Attempts(t, p)
<1>1. CallsOf(t) \subseteq Calls
  BY DEF CallsOf
<1>2. Attempts(t, p) \subseteq Calls
  BY <1>1 DEF Attempts
<1>3. IsFiniteSet(Attempts(t, p)) /\ Cardinality(Attempts(t, p)) \in Nat
  BY <1>2, FiniteCalls, FS_Subset, FS_CardinalityType
<1> QED BY <1>1, <1>3 DEF Attempts

(* Who is called is metered: every step keeps it that way. *)
LEMMA MeteredStep ==
    ASSUME ChainTypes, LedgerTypes, Marking, TurnTypes, StageTypes, CallTypes, Numbered, InOrder, OneAtATime, Metered,
           [Next]_vars
    PROVE  Metered'
<1>0. \A u \in Turns : \A p \in Providers : Cardinality(Attempts(u, p)) \in Nat
  BY AttemptsFacts
<1>1. ASSUME UNCHANGED callMoveVars, UNCHANGED turnMoveVars PROVE Metered'
  <2>1. \A u \in Turns : \A p \in Providers : Attempts(u, p)' = Attempts(u, p)
    BY <1>1, AttemptsFacts DEF callMoveVars
  <2> QED BY <1>1, <2>1, MeterKept DEF turnMoveVars, Metered
<1>2. ASSUME WarningMove PROVE Metered'
  <2>1. \A u \in Turns : \A p \in Providers : Attempts(u, p)' = Attempts(u, p)
    BY <1>2, AttemptsFacts DEF WarningMove
  <2> QED BY <1>2, <2>1, MeterKept DEF WarningMove, turnMoveVars, Metered
<1>3. ASSUME NEW c \in Calls, PassMove(c) PROVE Metered'
  <2>1. \A u \in Turns : \A p \in Providers : Attempts(u, p)' = Attempts(u, p)
    <3>1. \A d \in Calls : stage'[d] = "none" <=> stage[d] = "none"
      BY <1>3 DEF PassMove, StageTypes, Acquiring
    <3> QED BY <1>3, <3>1, AttemptsFacts DEF PassMove
  <2> QED BY <1>3, <2>1, MeterKept DEF PassMove, turnMoveVars, Metered
<1>4. ASSUME NEW c \in Calls, EndMove(c) PROVE Metered'
  <2>1. \A u \in Turns : \A p \in Providers : Attempts(u, p)' = Attempts(u, p)
    <3>1. \A d \in Calls : stage'[d] = "none" <=> stage[d] = "none"
      BY <1>4 DEF EndMove, StageTypes, Ongoing, Acquiring
    <3> QED BY <1>4, <3>1, AttemptsFacts DEF EndMove
  <2>2. CASE c \in closed
    <3>1. UNCHANGED turnMoveVars
      BY <1>4, <2>2 DEF EndMove
    <3> QED BY <2>1, <3>1, MeterKept DEF turnMoveVars, Metered
  <2>3. CASE c \notin closed
    <3>1. FailureMove(c[1], c \in shown') /\ c[1] \in Turns /\ entry[c[1]] <= Len(Plan) /\ (c \in shown') \in BOOLEAN
      BY <1>4, <2>3, CallParts DEF EndMove, OneAtATime
    <3> QED BY <1>0, <2>1, <3>1, MeterFailed
  <2> QED BY <2>2, <2>3
<1>5. ASSUME NEW c \in Calls, AnswerMove(c) PROVE Metered'
  <2>1. \A u \in Turns : \A p \in Providers : Attempts(u, p)' = Attempts(u, p)
    <3>1. \A d \in Calls : stage'[d] = "none" <=> stage[d] = "none"
      BY <1>5 DEF AnswerMove, StageTypes
    <3> QED BY <1>5, <3>1, AttemptsFacts DEF AnswerMove
  <2>2. \A u \in Turns : step'[u] = "chain" => step[u] = "chain"
    BY <1>5 DEF AnswerMove, TurnTypes
  <2> QED BY <1>5, <2>1, <2>2, MeterKept DEF AnswerMove, Metered
<1>6. ASSUME NEW c \in Calls, LateMove(c) PROVE Metered'
  <2>1. \A u \in Turns : \A p \in Providers : Attempts(u, p)' = Attempts(u, p)
    <3>1. \A d \in Calls : stage'[d] = "none" <=> stage[d] = "none"
      BY <1>6 DEF LateMove, StageTypes
    <3> QED BY <1>6, <3>1, AttemptsFacts DEF LateMove
  <2> QED BY <1>6, <2>1, MeterKept DEF LateMove, turnMoveVars, Metered
<1>7. ASSUME NEW c \in Calls, CloseMove(c) PROVE Metered'
  <2>1. \A u \in Turns : \A p \in Providers : Attempts(u, p)' = Attempts(u, p)
    BY <1>7, AttemptsFacts DEF CloseMove
  <2>2. FailureMove(c[1], FALSE) /\ c[1] \in Turns /\ entry[c[1]] <= Len(Plan)
    BY <1>7, CallParts DEF CloseMove, OneAtATime, Ongoing
  <2> QED BY <1>0, <2>1, <2>2, MeterFailed
<1>8. ASSUME NEW c \in Calls, RetryMove(c) PROVE Metered'
  <2>1. PICK d \in Calls : Retried(c, d)
    BY <1>8, RetryFacts
  <2>2. ASSUME NEW u \in Turns, NEW p \in Providers PROVE Attempts(u, p)' = Attempts(u, p)
    <3>1. \A x \in CallsOf(u) : x \in Calls
      BY DEF CallsOf
    <3>2. d \notin Attempts(u, p)' /\ d \notin Attempts(u, p)
      BY <2>1 DEF Attempts, Retried
    <3>3. \A x \in Calls \ {d} : /\ x \in native' <=> x \in native
                                 /\ stage'[x] = "none" <=> stage[x] = "none"
                                 /\ via'[x] = via[x]
      BY <2>1 DEF Retried
    <3>4. \A x \in Calls \ {d} : x \in Attempts(u, p)' <=> x \in Attempts(u, p)
      BY <3>3 DEF Attempts
    <3>5. Attempts(u, p) \subseteq Calls /\ Attempts(u, p)' \subseteq Calls
      BY <3>1 DEF Attempts
    <3> QED BY <3>2, <3>4, <3>5
  <2> QED BY <2>1, <2>2, MeterKept DEF Retried, turnMoveVars, Metered
<1>9. ASSUME NEW t \in Turns, StartMove(t) PROVE Metered'
  <2>1. PICK d \in Calls : Started(t, d)
    BY <1>9, StartFacts
  <2>2. /\ d[1] = t /\ stage[d] = "none" /\ entry[t] <= Len(Plan) /\ Provider(t) \in Providers /\ step[t] = "chain"
        /\ step' = [step EXCEPT ![t] = "attempt"] /\ UNCHANGED <<native, round, entry, bonus, refreshed>>
        /\ tries' = [tries EXCEPT ![t] = tries[t] + 1] /\ via'[d] = Provider(t) /\ stage'[d] = "join"
        /\ \A x \in Calls \ {d} : stage'[x] = stage[x] /\ via'[x] = via[x]
    BY <2>1 DEF Started
  <2>3. ASSUME NEW u \in Turns, NEW p \in Providers
        PROVE  Attempts(u, p)' = IF u = t /\ p = Provider(t) THEN Attempts(u, p) \cup {d} ELSE Attempts(u, p)
    <3>1. \A x \in Calls : x \in CallsOf(u) <=> x[1] = u
      BY DEF CallsOf
    <3>2. CallsOf(u) \subseteq Calls
      BY DEF CallsOf
    <3>3. Attempts(u, p) \subseteq Calls /\ Attempts(u, p)' \subseteq Calls
      BY <3>2 DEF Attempts
    <3>4. \A x \in Calls \ {d} : x \in Attempts(u, p)' <=> x \in Attempts(u, p)
      BY <2>2 DEF Attempts
    <3>5. d \notin Attempts(u, p) /\ d \notin native
      BY <2>2 DEF Attempts, InOrder
    <3>6. d \in Attempts(u, p)' <=> u = t /\ p = Provider(t)
      BY <2>2, <3>1, <3>5 DEF Attempts
    <3> QED BY <3>3, <3>4, <3>5, <3>6
  <2>4. \A u \in Turns \ {t} : step'[u] = step[u] /\ tries'[u] = tries[u]
    BY <2>2 DEF TurnTypes, ChainTypes
  <2>5. \A u \in Turns \ {t} : InBudget(u)' /\ \A p \in Providers : Meter(u, p)'
    BY <2>2, <2>3, <2>4, MeterKept
  <2>6. step'[t] = "attempt" /\ tries'[t] = tries[t] + 1 /\ tries[t] \in Nat /\ bonus[t] \in Nat
    BY <2>2 DEF TurnTypes, ChainTypes
  <2>7. InBudget(t)'
    <3>1. tries[t] < MaxAttempts[Provider(t)] + bonus[t] /\ MaxAttempts[Provider(t)] \in Nat
      BY <2>2, PlanParts DEF Metered, InBudget, Provider
    <3> QED BY <2>2, <2>6, <3>1 DEF InBudget, Provider
  <2>8. ASSUME NEW p \in Providers PROVE Meter(t, p)'
    <3>1. Passed(t, p)' = Passed(t, p) /\ HereFor(t, p)' = HereFor(t, p) /\ (HereFor(t, p) <=> p = Provider(t))
      BY <2>2 DEF Passed, HereFor, Provider
    <3> DEFINE top == MaxAttempts[p] * (InPlan(p) * round[t] + Passed(t, p))
    <3>2. top \in Nat
      <4>1. InPlan(p) * round[t] \in Nat /\ Passed(t, p) \in Nat /\ MaxAttempts[p] \in Nat
        BY EntryFactsOf, Products
      <4>2. InPlan(p) * round[t] + Passed(t, p) \in Nat
        BY <4>1
      <4> QED BY <4>1, <4>2, Products
    <3>3. top' = top
      BY <2>2, <3>1
    <3>4. Used(t, p) \in Int /\ Used(t, p)' = Used(t, p) + (IF p = Provider(t) THEN 1 ELSE 0)
      BY <2>2, <2>6, <3>1 DEF Used
    <3>5. d \notin Attempts(t, p)
      BY <2>2 DEF Attempts
    <3>6. Cardinality(Attempts(t, p)') = Cardinality(Attempts(t, p)) + (IF p = Provider(t) THEN 1 ELSE 0)
      <4>1. IsFiniteSet(Attempts(t, p)) /\ Cardinality(Attempts(t, p)) \in Nat
        BY AttemptsFacts
      <4>2. Cardinality(Attempts(t, p) \cup {d}) = Cardinality(Attempts(t, p)) + 1
        BY <3>5, <4>1, FS_AddElement
      <4> QED BY <2>3, <4>1, <4>2
    <3>7. Meter(t, p) /\ Cardinality(Attempts(t, p)) \in Nat
      BY <1>0 DEF Metered
    <3> QED BY <3>2, <3>3, <3>4, <3>6, <3>7 DEF Meter
  <2> QED BY <2>5, <2>7, <2>8 DEF Metered
<1>10. ASSUME NEW t \in Turns, TurnMove(t) PROVE Metered'
  <2>1. \A u \in Turns : \A p \in Providers : Attempts(u, p)' = Attempts(u, p)
    BY <1>10, AttemptsFacts DEF TurnMove, callMoveVars
  <2>2. \A u \in Turns \ {t} : /\ step'[u] = step[u] /\ entry'[u] = entry[u] /\ tries'[u] = tries[u] /\ bonus'[u] = bonus[u]
                               /\ refreshed'[u] = refreshed[u] /\ round'[u] = round[u]
    BY <1>10 DEF TurnMove, TurnTypes, ChainTypes
  <2>3. \A u \in Turns \ {t} : InBudget(u)' /\ \A p \in Providers : Meter(u, p)'
    BY <2>1, <2>2, MeterKept
  <2>4. CASE /\ \E s \in {"tools", "closing", "boundary", "ended"} : step' = [step EXCEPT ![t] = s]
             /\ UNCHANGED <<round, entry, tries, bonus, refreshed>>
    <3>1. step'[t] # "chain"
      BY <2>4 DEF TurnTypes
    <3>2. InBudget(t)' /\ \A p \in Providers : Meter(t, p)'
      BY <2>1, <2>4, <3>1, MeterKept
    <3> QED BY <2>3, <3>2 DEF Metered
  <2>5. CASE /\ round' = [round EXCEPT ![t] = round[t] + 1] /\ UNCHANGED refreshed
             /\ entry' = [entry EXCEPT ![t] = 1] /\ tries' = [tries EXCEPT ![t] = 0] /\ bonus' = [bonus EXCEPT ![t] = 0]
    <3>1. entry'[t] = 1 /\ tries'[t] = 0 /\ bonus'[t] = 0 /\ round'[t] = round[t] + 1
      BY <2>5 DEF TurnTypes, ChainTypes
    <3>2. InBudget(t)'
      <4>1. MaxAttempts[Plan[1]] \in Nat \ {0}
        BY PlanParts
      <4> QED BY <3>1, <4>1 DEF InBudget
    <3>3. ASSUME NEW p \in Providers PROVE Meter(t, p)'
      <4>1. Passed(t, p)' = 0
        <5>1. Passed(t, p)' = Cardinality(Places(p, 0)) /\ 0 \in 0..Len(Plan)
          BY <3>1, PlanParts DEF Passed
        <5> QED BY <5>1, PlacesFacts
      <4>2. Used(t, p)' = IF p \in refreshed[t] THEN 1 ELSE 0
        BY <2>5, <3>1 DEF Used
      <4>3. Cardinality(Attempts(t, p)) <= MaxAttempts[p] * (InPlan(p) * (round[t] + 1)) + (IF p \in refreshed[t] THEN 1 ELSE 0)
        BY <1>0, MeterBounds
      <4>4. InPlan(p) * (round[t] + 1) \in Nat
        <5>1. InPlan(p) \in Nat /\ round[t] + 1 \in Nat
          BY EntryFactsOf
        <5> QED BY <5>1, Products
      <4>5. InPlan(p) * (round[t] + 1) + 0 = InPlan(p) * (round[t] + 1)
        BY <4>4
      <4> QED BY <2>1, <3>1, <4>1, <4>2, <4>3, <4>5 DEF Meter
    <3> QED BY <2>3, <3>2, <3>3 DEF Metered
  <2>6. CASE /\ entry[t] <= Len(Plan) /\ entry' = [entry EXCEPT ![t] = entry[t] + 1]
             /\ tries' = [tries EXCEPT ![t] = 0] /\ bonus' = [bonus EXCEPT ![t] = 0]
             /\ UNCHANGED <<step, round, refreshed>>
    <3>1. entry'[t] = entry[t] + 1 /\ tries'[t] = 0 /\ bonus'[t] = 0
      BY <2>6 DEF ChainTypes
    <3>2. InBudget(t)' /\ \A p \in Providers : Meter(t, p)'
      BY <1>0, <2>1, <2>6, <3>1, MeterAdvanced
    <3> QED BY <2>3, <3>2 DEF Metered
  <2> QED BY <1>10, <2>4, <2>5, <2>6 DEF TurnMove
<1> QED BY <1>1, <1>2, <1>3, <1>4, <1>5, <1>6, <1>7, <1>8, <1>9, <1>10, CallMovesCover DEF CallMoves

(* Both give what is promised of the chain. *)
LEMMA ChainKeepsItsWordHolds ==
    ASSUME ChainTypes, TurnTypes, CallTypes, LastOfRound, Metered
    PROVE  ChainKeepsItsWord
<1>1. NoSecondVoice
  BY DEF LastOfRound
<1>2. ASSUME NEW t \in Turns, NEW p \in Providers
      PROVE  Cardinality({c \in CallsOf(t) \ native : stage[c] # "none" /\ via[c] = p})
                <= MaxAttempts[p] * Cardinality({i \in DOMAIN Plan : Plan[i] = p}) * (round[t] + 1) + 1
  <2> DEFINE m == MaxAttempts[p]
             n == Cardinality({i \in DOMAIN Plan : Plan[i] = p})
             r == round[t] + 1
             extra == IF p \in refreshed[t] THEN 1 ELSE 0
  <2>1. {i \in DOMAIN Plan : Plan[i] = p} = Places(p, Len(Plan))
    BY PlanParts, ChainAssumption DEF Places
  <2>2. n = InPlan(p) /\ m \in Nat /\ n \in Nat /\ r \in Nat /\ extra \in 0..1
    <3>1. n = InPlan(p)
      BY <2>1 DEF InPlan
    <3>2. InPlan(p) \in Nat /\ m \in Nat /\ round[t] \in Nat
      BY EntryFactsOf
    <3> QED BY <3>1, <3>2
  <2>3. Cardinality(Attempts(t, p)) \in Nat /\ Cardinality(Attempts(t, p)) <= m * (n * r) + extra
    BY <2>2, AttemptsFacts, MeterBounds
  <2> HIDE DEF m, n, r, extra
  <2>4. m * (n * r) = m * n * r /\ m * (n * r) \in Nat
    BY <2>2
  <2>5. Cardinality(Attempts(t, p)) <= m * n * r + 1
    BY <2>2, <2>3, <2>4
  <2> QED BY <2>5 DEF Attempts, m, n, r
<1> QED BY <1>1, <1>2 DEF ChainKeepsItsWord, AttemptsBounded

-----------------------------------------------------------------------------
(* What is on record before a turn goes on.                                  *)

Resolves(c) == claim[c] \in {"incomplete", "finished"}

Noted(c) == \E w \in Outcomes : Queued(c, w) \/ Logged(c, w)

Committing(c) == Logged(c, "committed") \/ \E i \in DOMAIN commits : commits[i] = c

(* A resolved call has its outcome on the log or on its way there. *)
Tracked ==
    \A c \in Calls :
        /\ Resolves(c) => broken \/ Noted(c)
        /\ c \in unknown /\ Estimate(c) > 0 => commitBroken \/ Committing(c)

(* Its outcome is on the log, with its commitment when the usage is not known. *)
Recorded(c) ==
    /\ \E w \in Outcomes : Logged(c, w)
    /\ (Logged(c, "waiting") \/ Logged(c, "incomplete")) /\ Estimate(c) > 0 => Logged(c, "committed")

(* Every earlier call of the turn is on record. *)
Clear(t) == \A c \in Calls \ closed : c[1] = t /\ stage[c] \in {"late", "over"} /\ claim[c] # "none" => Recorded(c)

Cleared ==
    /\ \A c \in Calls \ closed :
          /\ stage[c] \in {"acked", "asked"} => Clear(c[1])
          /\ stage[c] = "marker" => Clear(c[1]) \/ Aborted
    /\ \A t \in Turns :
          /\ step[t] = "tools" => Clear(t)
          /\ step[t] = "ended" => Clear(t) \/ broken \/ commitBroken

(* What is known of a call stays known, or is lost and known to be. *)
LEMMA Lasting ==
    ASSUME LedgerTypes, LogTypes, CommitTypes, BookMoves, NEW c \in Calls
    PROVE  /\ \A w \in Writes \cup {"committed"} : Logged(c, w) => Logged(c, w)'
           /\ broken \/ Noted(c) => broken' \/ Noted(c)'
           /\ commitBroken \/ Committing(c) => commitBroken' \/ Committing(c)'
           /\ (broken => broken') /\ (commitBroken => commitBroken')
<1> DEFINE Stays == /\ \A w \in Writes \cup {"committed"} : Logged(c, w) => Logged(c, w)'
                    /\ broken \/ Noted(c) => broken' \/ Noted(c)'
                    /\ commitBroken \/ Committing(c) => commitBroken' \/ Committing(c)'
                    /\ (broken => broken') /\ (commitBroken => commitBroken')
<1>0. Outcomes \subseteq Writes /\ "pending" \in Writes /\ "pending" \notin Outcomes
  BY DEF Outcomes, Writes
<1>1. ASSUME BooksStill PROVE Stays
  BY <1>1 DEF BooksStill, bookVars, Noted, Committing, Queued, Logged
<1>2. ASSUME NEW d \in Calls, MarkerQueued(d) PROVE Stays
  <2>1. \A x \in Calls, v \in Writes : Queued(x, v) => Queued(x, v)'
    BY <1>0, <1>2, QueuedAppend DEF MarkerQueued
  <2>2. UNCHANGED <<log, commits, broken, commitBroken>>
    BY <1>2 DEF MarkerQueued
  <2>3. (\A w : Logged(c, w)' <=> Logged(c, w)) /\ (Committing(c)' <=> Committing(c))
    BY <2>2 DEF Logged, Committing
  <2> QED BY <1>0, <2>1, <2>2, <2>3 DEF Noted
<1>3. ASSUME NEW d \in Calls, MarkerTaken(d) PROVE Stays
  <2>1. ledger # <<>> /\ Head(ledger).write = "pending" /\ ledger' = Tail(ledger) /\ UNCHANGED <<commits, broken, commitBroken>>
    BY <1>3 DEF MarkerTaken, Settles
  <2>2. \A v \in Outcomes : Queued(c, v) => Queued(c, v)'
    BY <1>0, <2>1, QueuedTail
  <2>3. \A w \in Writes \cup {"committed"} : Logged(c, w) => Logged(c, w)'
    BY <1>0, <1>3, LoggedAppend DEF MarkerTaken
  <2> QED BY <1>0, <2>1, <2>2, <2>3 DEF Noted, Committing
<1>4. ASSUME NEW d \in Calls, MarkerDropped(d) PROVE Stays
  BY <1>4 DEF MarkerDropped, Settles, Logged, Committing
<1>5. ASSUME NEW d \in Calls, NEW w \in Outcomes, OutcomeQueued(d, w) PROVE Stays
  <2>1. UNCHANGED <<log, broken, commitBroken>> /\ ledger' = Append(ledger, [call |-> d, write |-> w])
        /\ (commits' = commits \/ commits' = Append(commits, d))
    BY <1>5 DEF OutcomeQueued
  <2>2. \A v \in Outcomes : Queued(c, v) => Queued(c, v)'
    BY <1>0, <2>1, QueuedAppend
  <2>3. \A v : Logged(c, v)' <=> Logged(c, v)
    BY <2>1 DEF Logged
  <2>4. Committing(c) => Committing(c)'
    <3>1. ASSUME NEW i \in DOMAIN commits, commits[i] = c PROVE \E j \in DOMAIN commits' : commits'[j] = c
      <4>1. CASE commits' = Append(commits, d)
        <5>1. /\ DOMAIN commits' = 1..(Len(commits) + 1) /\ DOMAIN commits = 1..Len(commits) /\ Len(commits) \in Nat
              /\ \A j \in 1..Len(commits) : commits'[j] = commits[j]
          BY <4>1, AppendFacts DEF CommitTypes
        <5> QED BY <3>1, <5>1
      <4> QED BY <2>1, <3>1, <4>1
    <3> QED BY <2>3, <3>1 DEF Committing
  <2> QED BY <1>0, <2>1, <2>2, <2>3, <2>4 DEF Noted
<1>6. ASSUME NEW w \in Entries, OutcomeTaken(w) PROVE Stays
  <2>1. /\ ledger # <<>> /\ Head(ledger) = w /\ ledger' = Tail(ledger) /\ UNCHANGED <<commits, broken, commitBroken>>
        /\ w.write \in Outcomes /\ w.call \in Calls /\ log' = [log EXCEPT ![w.call] = Append(log[w.call], w.write)]
    BY <1>6 DEF OutcomeTaken, Settles, Entries
  <2>2. \A x \in Calls, v \in Writes \cup {"committed"} : Logged(x, v)' <=> Logged(x, v) \/ (x = w.call /\ v = w.write)
    BY <1>0, <2>1, LoggedAppend
  <2>3. \A v \in Outcomes : Queued(c, v) => Queued(c, v)' \/ Logged(c, v)'
    BY <1>0, <2>1, <2>2, QueuedTail
  <2> QED BY <1>0, <2>1, <2>2, <2>3 DEF Noted, Committing
<1>7. ASSUME NEW w \in Entries, OutcomeDropped(w) PROVE Stays
  BY <1>7 DEF OutcomeDropped, Settles, Logged, Committing
<1>8. ASSUME CommitTaken PROVE Stays
  <2>1. /\ commits # <<>> /\ commits' = Tail(commits) /\ UNCHANGED <<ledger, broken, commitBroken>>
        /\ log' = [log EXCEPT ![Head(commits)] = Append(log[Head(commits)], "committed")]
    BY <1>8 DEF CommitTaken
  <2>2. /\ Len(commits) \in Nat \ {0} /\ DOMAIN commits' = 1..(Len(commits) - 1) /\ DOMAIN commits = 1..Len(commits)
        /\ Head(commits) = commits[1] /\ Head(commits) \in Calls /\ \A i \in 1..(Len(commits) - 1) : commits'[i] = commits[i + 1]
    BY <2>1, TailFacts DEF CommitTypes
  <2>3. \A v \in Writes \cup {"committed"} : Logged(c, v)' <=> Logged(c, v) \/ (c = Head(commits) /\ v = "committed")
    BY <2>1, <2>2, LoggedAppend
  <2>4. ASSUME NEW i \in DOMAIN commits, commits[i] = c PROVE Committing(c)'
    <3>1. CASE i = 1
      BY <2>2, <2>3, <2>4, <3>1 DEF Committing
    <3>2. CASE i # 1
      <4>1. i - 1 \in 1..(Len(commits) - 1) /\ commits'[i - 1] = c
        BY <2>2, <2>4, <3>2
      <4> QED BY <2>2, <4>1 DEF Committing
    <3> QED BY <3>1, <3>2
  <2>5. Noted(c) => Noted(c)'
    BY <1>0, <2>1, <2>3 DEF Noted, Queued
  <2> QED BY <2>1, <2>3, <2>4, <2>5 DEF Committing
<1>9. ASSUME CommitDropped PROVE Stays
  BY <1>9 DEF CommitDropped, Noted, Queued, Logged
<1> QED BY <1>1, <1>2, <1>3, <1>4, <1>5, <1>6, <1>7, <1>8, <1>9 DEF BookMoves

(* A resolved call stays tracked. *)
LEMMA TrackedStep ==
    ASSUME LedgerTypes, LogTypes, CommitTypes, ClaimTypes, BookMoves, Claimed, Writing, Tracked,
           \A c \in Calls : stage[c] # "none" => via'[c] = via[c]
    PROVE  Tracked'
<1>0. Outcomes \subseteq Writes
  BY DEF Outcomes, Writes
<1>1. ASSUME NEW c \in Calls, Resolves(c)' PROVE broken' \/ Noted(c)'
  <2>0. \/ UNCHANGED claim
        \/ \E d \in Calls : claim' = [claim EXCEPT ![d] = "pending"]
        \/ \E d \in Calls : \E w \in Outcomes : OutcomeQueued(d, w)
    BY DEF BookMoves, BooksStill, bookVars, MarkerQueued, MarkerTaken, MarkerDropped, OutcomeTaken, OutcomeDropped,
           CommitTaken, CommitDropped
  <2>1. Resolves(c) \/ \E w \in Outcomes : OutcomeQueued(c, w)
    <3>1. ASSUME NEW d \in Calls, NEW w \in Outcomes, OutcomeQueued(d, w), d # c PROVE claim'[c] = claim[c]
      BY <3>1 DEF OutcomeQueued, ClaimTypes
    <3>2. ASSUME NEW d \in Calls, claim' = [claim EXCEPT ![d] = "pending"] PROVE Resolves(c)
      BY <1>1, <3>2 DEF Resolves, ClaimTypes
    <3> QED BY <1>1, <2>0, <3>1, <3>2 DEF Resolves
  <2>2. CASE Resolves(c)
    BY <2>2, Lasting DEF Tracked
  <2>3. ASSUME NEW w \in Outcomes, OutcomeQueued(c, w) PROVE Noted(c)'
    <3>1. Queued(c, w)'
      BY <1>0, <2>3, QueuedAppend DEF OutcomeQueued
    <3> QED BY <3>1 DEF Noted
  <2> QED BY <2>1, <2>2, <2>3
<1>2. ASSUME NEW c \in Calls, c \in unknown', (Estimate(c) > 0)' PROVE commitBroken' \/ Committing(c)'
  <2>0. UNCHANGED unknown \/ \E d \in Calls : \E w \in Outcomes : OutcomeQueued(d, w)
    BY DEF BookMoves, BooksStill, bookVars, MarkerQueued, MarkerTaken, MarkerDropped, Settles, OutcomeTaken, OutcomeDropped,
           CommitTaken, CommitDropped
  <2>1. c \in unknown \/ \E w \in Outcomes : OutcomeQueued(c, w) /\ unknown' # unknown
    <3>1. ASSUME NEW d \in Calls, NEW w \in Outcomes, OutcomeQueued(d, w)
          PROVE  unknown' = unknown \/ unknown' = unknown \cup {d}
      BY <3>1 DEF OutcomeQueued
    <3> QED BY <1>2, <2>0, <3>1
  <2>2. stage[c] # "none"
    <3>1. c \in unknown => claim[c] # "none"
      BY DEF Writing, Written
    <3> QED BY <2>1, <3>1 DEF Claimed, OutcomeQueued
  <2>3. Estimate(c) > 0
    <3>1. via'[c] = via[c]
      BY <2>2
    <3> QED BY <1>2, <3>1 DEF Estimate
  <2>4. CASE c \in unknown
    BY <2>3, <2>4, Lasting DEF Tracked
  <2>5. ASSUME NEW w \in Outcomes, OutcomeQueued(c, w), unknown' # unknown PROVE Committing(c)'
    <3>1. commits' = Append(commits, c)
      <4> HIDE DEF Estimate
      <4> QED BY <2>3, <2>5 DEF OutcomeQueued
    <3>2. Len(commits) + 1 \in DOMAIN commits' /\ commits'[Len(commits) + 1] = c
      BY <3>1, AppendFacts DEF CommitTypes
    <3> QED BY <3>2 DEF Committing
  <2> QED BY <2>1, <2>4, <2>5
<1> QED BY <1>1, <1>2 DEF Tracked

(* Who is on record stays on record: what is written later only follows an outcome that awaited a receipt. *)
LEMMA RecordStays ==
    ASSUME LedgerTypes, LogTypes, CommitTypes, BookMoves, Resolved, NEW c \in Calls, Recorded(c), via'[c] = via[c]
    PROVE  Recorded(c)'
<1>0. Outcomes \subseteq Writes /\ "pending" \notin Outcomes /\ "waiting" \in Outcomes /\ "incomplete" \in Outcomes
      /\ "committed" \notin Writes /\ "pending" \in Writes
  BY DEF Outcomes, Writes
<1>1. \A w \in Writes \cup {"committed"} : Logged(c, w) => Logged(c, w)'
  BY Lasting
<1>2. Estimate(c)' = Estimate(c)
  BY DEF Estimate
<1>3. PICK u \in Outcomes : Logged(c, u)
  BY DEF Recorded
<1>4. ASSUME NEW v \in {"waiting", "incomplete"}, Logged(c, v)', ~ Logged(c, v) PROVE Logged(c, "waiting")
  <2>0. v \in Writes \cup {"committed"} /\ v # "pending" /\ v # "committed"
    BY <1>0
  <2>1. \E w \in Entries : OutcomeTaken(w) /\ w.call = c /\ w.write = v
    <3>1. UNCHANGED log => ~ Logged(c, v)'
      BY <1>4 DEF Logged
    <3>2. ASSUME NEW d \in Calls, MarkerTaken(d) PROVE ~ Logged(c, v)'
      <4>1. log' = [log EXCEPT ![d] = Append(log[d], "pending")]
        BY <3>2 DEF MarkerTaken
      <4>2. Logged(c, v)' <=> Logged(c, v) \/ (c = d /\ v = "pending")
        BY <1>0, <2>0, <4>1, LoggedAppend
      <4> QED BY <1>4, <2>0, <4>2
    <3>3. ASSUME CommitTaken PROVE ~ Logged(c, v)'
      <4>1. log' = [log EXCEPT ![Head(commits)] = Append(log[Head(commits)], "committed")] /\ Head(commits) \in Calls
        BY <3>3, TailFacts DEF CommitTaken, CommitTypes
      <4>2. Logged(c, v)' <=> Logged(c, v) \/ (c = Head(commits) /\ v = "committed")
        BY <1>0, <2>0, <4>1, LoggedAppend
      <4> QED BY <1>4, <2>0, <4>2
    <3>4. ASSUME NEW w \in Entries, OutcomeTaken(w) PROVE w.call = c /\ w.write = v
      <4>1. log' = [log EXCEPT ![w.call] = Append(log[w.call], w.write)] /\ w.call \in Calls /\ w.write \in Writes
        BY <1>0, <3>4 DEF OutcomeTaken, Entries
      <4>2. Logged(c, v)' <=> Logged(c, v) \/ (c = w.call /\ v = w.write)
        BY <1>0, <2>0, <4>1, LoggedAppend
      <4> QED BY <1>4, <2>0, <4>2
    <3>5. \/ UNCHANGED log
          \/ \E d \in Calls : MarkerTaken(d)
          \/ \E w \in Entries : OutcomeTaken(w)
          \/ CommitTaken
      BY DEF BookMoves, BooksStill, bookVars, MarkerQueued, MarkerDropped, OutcomeQueued, OutcomeDropped, CommitDropped
    <3> QED BY <1>4, <3>1, <3>2, <3>3, <3>4, <3>5
  <2>2. 1 \in DOMAIN ledger /\ ledger[1].call = c /\ ledger[1].write = v
    <3>1. ledger # <<>> /\ Head(ledger).call = c /\ Head(ledger).write = v
      BY <2>1 DEF OutcomeTaken, Settles
    <3> QED BY <3>1, TailFacts DEF LedgerTypes
  <2>3. Twice(c)
    BY DEF Resolved
  <2>4. Follows(u, v)
    <3>1. PICK i \in DOMAIN log[c] : log[c][i] = u
      BY <1>3 DEF Logged
    <3> QED BY <1>0, <2>2, <2>3, <3>1 DEF Twice
  <2> QED BY <1>3, <2>4 DEF Follows
<1>5. \E w \in Outcomes : Logged(c, w)'
  BY <1>0, <1>1, <1>3
<1>6. (Logged(c, "waiting") \/ Logged(c, "incomplete"))' /\ Estimate(c)' > 0 => Logged(c, "committed")'
  BY <1>0, <1>1, <1>2, <1>4 DEF Recorded
<1> QED BY <1>5, <1>6 DEF Recorded

(* A call that has ended, and had a marker, had it before it ended. *)
LEMMA EndedCalls ==
    ASSUME LedgerTypes, StageTypes, ClaimTypes, BookMoves, Claimed, NEW c \in Calls,
           stage'[c] \in {"late", "over"}, claim'[c] # "none"
    PROVE  stage[c] \in {"acked", "asked", "late", "over"} /\ claim[c] # "none"
<1> DEFINE Goal == stage[c] \in {"acked", "asked", "late", "over"} /\ claim[c] # "none"
<1>1. Steady(c) /\ claim'[c] = claim[c] => Goal
  BY DEF Steady, Early, Acquiring, Claimed
<1>2. ASSUME BooksStill PROVE Goal
  BY <1>1, <1>2 DEF BooksStill, bookVars
<1>3. ASSUME NEW d \in Calls, MarkerQueued(d) PROVE Goal
  BY <1>1, <1>3 DEF MarkerQueued
<1>4. ASSUME NEW d \in Calls, MarkerTaken(d) PROVE Goal
  BY <1>1, <1>4 DEF MarkerTaken, StageTypes, ClaimTypes, Steady
<1>5. ASSUME NEW d \in Calls, MarkerDropped(d) PROVE Goal
  BY <1>1, <1>5 DEF MarkerDropped, StageTypes, Steady
<1>6. ASSUME NEW d \in Calls, NEW w \in Outcomes, OutcomeQueued(d, w) PROVE Goal
  BY <1>1, <1>6 DEF OutcomeQueued, ClaimTypes, Claimed
<1>7. ASSUME UNCHANGED <<stage, claim>> PROVE Goal
  BY <1>1, <1>7 DEF Steady
<1> QED BY <1>2, <1>3, <1>4, <1>5, <1>6, <1>7 DEF BookMoves, OutcomeTaken, OutcomeDropped, CommitTaken, CommitDropped

(* A turn whose calls are on record, and none of them ends in this step, is still clear. *)
LEMMA ClearStays ==
    ASSUME LedgerTypes, LogTypes, CommitTypes, StageTypes, ClaimTypes, BookMoves, Claimed, Resolved,
           closed \subseteq closed', \A c \in Calls : stage[c] # "none" => via'[c] = via[c], NEW t \in Turns, Clear(t),
           \A c \in Calls \ closed : c[1] = t /\ stage[c] \in {"acked", "asked"} => stage'[c] \notin {"late", "over"}
    PROVE  Clear(t)'
<1> SUFFICES ASSUME NEW c \in Calls \ closed', c[1] = t, stage'[c] \in {"late", "over"}, claim'[c] # "none"
             PROVE  Recorded(c)'
  BY DEF Clear
<1>1. c \in Calls \ closed /\ stage[c] \in {"late", "over"} /\ claim[c] # "none"
  BY EndedCalls
<1>2. Recorded(c) /\ via'[c] = via[c]
  BY <1>1 DEF Clear
<1> QED BY <1>2, RecordStays

(* When nothing waits to be written and nothing was lost, every turn is clear. *)
LEMMA Drained ==
    ASSUME StageTypes, ClaimTypes, Claimed, Writing, Tracked, ledger = <<>>, commits = <<>>, ~broken, ~commitBroken, NEW t \in Turns
    PROVE  Clear(t)
<1> SUFFICES ASSUME NEW c \in Calls, stage[c] \in {"late", "over"}, claim[c] # "none" PROVE Recorded(c)
  BY DEF Clear
<1>1. Resolves(c)
  BY DEF Claimed, Resolves
<1>2. DOMAIN ledger = {} /\ DOMAIN commits = {}
  OBVIOUS
<1>3. PICK w \in Outcomes : Logged(c, w)
  BY <1>1, <1>2 DEF Tracked, Noted, Queued
<1>4. ASSUME Logged(c, "waiting") \/ Logged(c, "incomplete"), Estimate(c) > 0 PROVE Logged(c, "committed")
  <2>1. c \in unknown
    BY <1>4 DEF Writing, Written
  <2> QED BY <1>2, <1>4, <2>1 DEF Tracked, Committing
<1> QED BY <1>3, <1>4 DEF Recorded

(* What a step leaves alone: what is closed, who was called, and turns that act only after a join. *)
Onward ==
    /\ closed \subseteq closed'
    /\ \A c \in Calls : stage[c] # "none" => via'[c] = via[c]
    /\ \A t \in Turns :
          /\ step'[t] = "tools" => \/ step[t] = "tools"
                                   \/ step[t] = "join" /\ ~Aborted /\ commits = <<>> /\ ledger = <<>>
          /\ step'[t] = "ended" => \/ step[t] = "ended"
                                   \/ step[t] = "boundary" /\ commits = <<>> /\ (commitFailure \/ ledger = <<>>)

(* And every step leaves it alone. *)
LEMMA OnwardStep ==
    ASSUME ChainTypes, LedgerTypes, Marking, TurnTypes, StageTypes, CallTypes, Numbered, OneAtATime, [Next]_vars
    PROVE  Onward
<1>1. ASSUME UNCHANGED callMoveVars, UNCHANGED turnMoveVars PROVE Onward
  BY <1>1 DEF callMoveVars, turnMoveVars, Onward
<1>2. ASSUME WarningMove PROVE Onward
  BY <1>2 DEF WarningMove, turnMoveVars, Onward
<1>3. ASSUME NEW c \in Calls, PassMove(c) \/ LateMove(c) PROVE Onward
  <2>1. UNCHANGED <<closed, via, step>>
    BY <1>3 DEF PassMove, LateMove, turnMoveVars
  <2> QED BY <2>1 DEF Onward
<1>4. ASSUME NEW c \in Calls, EndMove(c) PROVE Onward
  <2>1. UNCHANGED <<closed, via>>
    BY <1>4 DEF EndMove
  <2>2. CASE c \in closed
    BY <1>4, <2>1, <2>2 DEF EndMove, turnMoveVars, Onward
  <2>3. CASE c \notin closed
    <3>1. FailureMove(c[1], c \in shown') /\ c[1] \in Turns /\ entry[c[1]] <= Len(Plan) /\ (c \in shown') \in BOOLEAN
      BY <1>4, <2>3, CallParts DEF EndMove, OneAtATime
    <3>2. step'[c[1]] \in {"chain", "closing"} /\ \A u \in Turns \ {c[1]} : step'[u] = step[u]
      BY <3>1, FailureFacts
    <3> QED BY <2>1, <3>1, <3>2 DEF Onward
  <2> QED BY <2>2, <2>3
<1>5. ASSUME NEW c \in Calls, AnswerMove(c) PROVE Onward
  BY <1>5, CallParts DEF AnswerMove, TurnTypes, Onward
<1>6. ASSUME NEW c \in Calls, CloseMove(c) PROVE Onward
  <2>1. FailureMove(c[1], FALSE) /\ c[1] \in Turns /\ entry[c[1]] <= Len(Plan)
    BY <1>6, CallParts DEF CloseMove, OneAtATime, Ongoing
  <2>2. step'[c[1]] \in {"chain", "closing"} /\ \A u \in Turns \ {c[1]} : step'[u] = step[u]
    BY <2>1, FailureFacts
  <2>3. closed \subseteq closed' /\ UNCHANGED via
    BY <1>6 DEF CloseMove
  <2> QED BY <2>1, <2>2, <2>3 DEF Onward
<1>7. ASSUME NEW c \in Calls, RetryMove(c) PROVE Onward
  <2>1. PICK d \in Calls : Retried(c, d)
    BY <1>7, RetryFacts
  <2> QED BY <2>1 DEF Retried, turnMoveVars, Onward
<1>8. ASSUME NEW t \in Turns, StartMove(t) PROVE Onward
  <2>1. PICK d \in Calls : Started(t, d)
    BY <1>8, StartFacts
  <2> QED BY <2>1 DEF Started, TurnTypes, Onward
<1>9. ASSUME NEW t \in Turns, TurnMove(t) PROVE Onward
  <2>1. UNCHANGED <<closed, via>> /\ \A u \in Turns \ {t} : step'[u] = step[u]
    BY <1>9 DEF TurnMove, callMoveVars, TurnTypes
  <2>2. \/ step'[t] \notin {"tools", "ended"}
        \/ step'[t] = step[t]
        \/ step'[t] = "tools" /\ step[t] = "join" /\ ~Aborted /\ commits = <<>> /\ ledger = <<>>
        \/ step'[t] = "ended" /\ step[t] = "boundary" /\ commits = <<>> /\ (commitFailure \/ ledger = <<>>)
    BY <1>9 DEF TurnMove, TurnTypes
  <2> QED BY <2>1, <2>2 DEF Onward
<1> QED BY <1>1, <1>2, <1>3, <1>4, <1>5, <1>6, <1>7, <1>8, <1>9, CallMovesCover DEF CallMoves

(* A call that waits for its marker, or has one, waited for it, or queued it behind nothing. *)
LEMMA GateFacts ==
    ASSUME LedgerTypes, StageTypes, Marking, BookMoves, NEW c \in Calls
    PROVE  /\ stage'[c] \in {"acked", "asked"} => stage[c] \in {"acked", "asked"} \/ (stage[c] = "marker" /\ ~Aborted)
           /\ stage'[c] = "marker" => stage[c] = "marker" \/ (stage[c] = "begin" /\ commits = <<>> /\ ledger = <<>>)
<1> DEFINE Goal ==
             /\ stage'[c] \in {"acked", "asked"} => stage[c] \in {"acked", "asked"} \/ (stage[c] = "marker" /\ ~Aborted)
             /\ stage'[c] = "marker" => stage[c] = "marker" \/ (stage[c] = "begin" /\ commits = <<>> /\ ledger = <<>>)
<1>1. Steady(c) => Goal
  BY DEF Steady, Early, Acquiring
<1>2. ASSUME BooksStill PROVE Goal
  BY <1>1, <1>2 DEF BooksStill
<1>3. ASSUME NEW d \in Calls, MarkerQueued(d) PROVE Goal
  BY <1>1, <1>3 DEF MarkerQueued
<1>4. ASSUME NEW d \in Calls, MarkerTaken(d) PROVE Goal
  <2>1. ledger # <<>> /\ ledger' = Tail(ledger) /\ Head(ledger) = [call |-> d, write |-> "pending"]
        /\ stage' = [stage EXCEPT ![d] = "acked"] /\ ~Aborted
    BY <1>4 DEF MarkerTaken, Settles
  <2>2. stage[d] = "marker"
    BY <2>1, QueuedTail DEF Marking
  <2> QED BY <2>1, <2>2 DEF StageTypes
<1>5. ASSUME NEW d \in Calls, MarkerDropped(d) PROVE Goal
  BY <1>1, <1>5 DEF MarkerDropped, StageTypes, Steady
<1>6. ASSUME NEW d \in Calls, NEW w \in Outcomes, OutcomeQueued(d, w) PROVE Goal
  BY <1>1, <1>6 DEF OutcomeQueued
<1>7. ASSUME UNCHANGED stage PROVE Goal
  BY <1>1, <1>7 DEF Steady
<1> QED BY <1>2, <1>3, <1>4, <1>5, <1>6, <1>7 DEF BookMoves, OutcomeTaken, OutcomeDropped, CommitTaken, CommitDropped

(* Turns are clear when they act: every step keeps it that way. *)
LEMMA ClearedStep ==
    ASSUME LedgerTypes, LogTypes, CommitTypes, StageTypes, ClaimTypes, TurnTypes, CallTypes, BookMoves, Onward,
           OneAtATime, InOrder, Claimed, Marking, Writing, Resolved, Tracked, LossAborts, Cleared,
           Aborted => Aborted'
    PROVE  Cleared'
<1>1. /\ closed \subseteq closed' /\ \A c \in Calls : stage[c] # "none" => via'[c] = via[c]
  BY DEF Onward
<1>2. ASSUME NEW t \in Turns PROVE (broken => broken') /\ (commitBroken => commitBroken')
  <2>1. <<t, 1>> \in Calls
    <3>1. 1 \in Nat \ {0} /\ 1 <= MaxCalls[t]
      BY CallParts
    <3> QED BY <3>1, CallParts
  <2> QED BY <2>1, Lasting
<1>3. ASSUME NEW c \in Calls \ closed, stage[c] \in Ongoing, stage'[c] \notin {"late", "over"}, Clear(c[1]) PROVE Clear(c[1])'
  <2>1. ASSUME NEW d \in Calls \ closed, d[1] = c[1], stage[d] \in {"acked", "asked"} PROVE d = c
    <3>1. d[2] = made[d[1]] /\ c[2] = made[c[1]] /\ c = <<c[1], c[2]>> /\ d = <<d[1], d[2]>>
      BY <1>3, <2>1, CallParts DEF OneAtATime, Ongoing, Acquiring
    <3> QED BY <2>1, <3>1
  <2>2. c[1] \in Turns
    BY CallParts
  <2> QED BY <1>1, <1>3, <2>1, <2>2, ClearStays
<1>4. ASSUME NEW t \in Turns, step[t] # "attempt", Clear(t) PROVE Clear(t)'
  <2>1. ASSUME NEW d \in Calls \ closed, d[1] = t PROVE stage[d] \notin {"acked", "asked"}
    BY <1>4, <2>1 DEF OneAtATime, Ongoing, Acquiring
  <2> QED BY <1>1, <1>4, <2>1, ClearStays
<1>5. ASSUME NEW c \in Calls \ closed', stage'[c] \in {"acked", "asked"} PROVE Clear(c[1])'
  <2>1. stage[c] \in {"acked", "asked"} \/ (stage[c] = "marker" /\ ~Aborted)
    BY <1>5, GateFacts
  <2>2. c \in Calls \ closed /\ Clear(c[1])
    BY <1>1, <2>1 DEF Cleared
  <2> QED BY <1>3, <1>5, <2>1, <2>2 DEF Ongoing, Acquiring
<1>6. ASSUME NEW c \in Calls \ closed', stage'[c] = "marker" PROVE Clear(c[1])' \/ Aborted'
  <2>1. stage[c] = "marker" \/ (stage[c] = "begin" /\ commits = <<>> /\ ledger = <<>>)
    BY <1>6, GateFacts
  <2>2. c \in Calls \ closed /\ c[1] \in Turns
    BY <1>1, CallParts
  <2>3. Clear(c[1]) \/ Aborted
    <3>1. CASE stage[c] = "marker"
      BY <2>2, <3>1 DEF Cleared
    <3>2. CASE stage[c] = "begin" /\ commits = <<>> /\ ledger = <<>> /\ ~Aborted
      BY <2>2, <3>2, Drained DEF LossAborts
    <3> QED BY <2>1, <3>1, <3>2
  <2> QED BY <1>3, <1>6, <2>1, <2>2, <2>3 DEF Ongoing, Acquiring
<1>7. ASSUME NEW t \in Turns, step'[t] = "tools" PROVE Clear(t)'
  <2>1. step[t] = "tools" \/ (step[t] = "join" /\ ~Aborted /\ commits = <<>> /\ ledger = <<>>)
    BY <1>7 DEF Onward
  <2>2. Clear(t)
    <3>1. CASE step[t] = "tools"
      BY <3>1 DEF Cleared
    <3>2. CASE step[t] = "join" /\ ~Aborted /\ commits = <<>> /\ ledger = <<>>
      BY <3>2, Drained DEF LossAborts
    <3> QED BY <2>1, <3>1, <3>2
  <2> QED BY <1>4, <2>1, <2>2
<1>8. ASSUME NEW t \in Turns, step'[t] = "ended" PROVE Clear(t)' \/ broken' \/ commitBroken'
  <2>1. step[t] = "ended" \/ (step[t] = "boundary" /\ commits = <<>> /\ (commitFailure \/ ledger = <<>>))
    BY <1>8 DEF Onward
  <2>2. Clear(t) \/ broken \/ commitBroken
    <3>1. CASE step[t] = "ended"
      BY <3>1 DEF Cleared
    <3>2. CASE commits = <<>> /\ ledger = <<>> /\ ~broken /\ ~commitBroken
      BY <3>2, Drained
    <3> QED BY <2>1, <3>1, <3>2 DEF LossAborts
  <2> QED BY <1>2, <1>4, <2>1, <2>2
<1> QED BY <1>5, <1>6, <1>7, <1>8 DEF Cleared

(* That is what was promised. *)
LEMMA RecordedBeforeActingHolds ==
    ASSUME LogTypes, StageTypes, InOrder, Cleared
    PROVE  RecordedBeforeActing
<1>1. ASSUME NEW t \in Turns, Clear(t), NEW c \in CallsOf(t) \ closed, stage[c] \in {"late", "over"}, claim[c] # "none"
      PROVE  OnRecord(c)
  <2>1. c \in Calls /\ c[1] = t
    BY DEF CallsOf
  <2>2. Recorded(c)
    BY <1>1, <2>1 DEF Clear
  <2>3. \A w : w \in {log[c][i] : i \in DOMAIN log[c]} <=> Logged(c, w)
    BY DEF Logged
  <2> QED BY <2>2, <2>3 DEF Recorded, OnRecord
<1>2. ASSUME NEW t \in Turns, NEW c \in CallsOf(t), stage[c] = "asked" PROVE Clear(t)
  <2>1. c \in Calls \ closed /\ c[1] = t
    BY <1>2 DEF CallsOf, InOrder
  <2> QED BY <1>2, <2>1 DEF Cleared
<1>3. ASSUME NEW t \in Turns, step[t] = "tools" \/ (step[t] = "ended" /\ ~broken /\ ~commitBroken) PROVE Clear(t)
  BY <1>3 DEF Cleared
<1> QED BY <1>1, <1>2, <1>3 DEF RecordedBeforeActing

(* An aborted run stays aborted. *)
LEMMA AbortedStays ==
    ASSUME Aborted, [Next]_vars
    PROVE  Aborted'
<1>1. ASSUME UNCHANGED vars \/ WarningThrows \/ LegacyJobSettles PROVE Aborted'
  BY <1>1 DEF vars, runVars, WarningThrows, LegacyJobSettles, Aborted
<1>2. ASSUME NEW c \in Calls,
             PreAttemptJoined(c) \/ CheckFails(c) \/ CheckHeld(c) \/ Evaluate(c) \/ Admitted(c) \/
             BeginJoined(c)
      PROVE  Aborted'
  BY <1>2 DEF PreAttemptJoined, runVars, CheckFails, CheckHeld, Evaluate, Admitted, BeginJoined, Aborted
<1>3. ASSUME NEW c \in Calls,
             Unmarked(c) \/ NotAsked(c) \/ Ask(c) \/ Succeed(c) \/ Fail(c) \/ Deadline(c)
      PROVE  Aborted'
  BY <1>3 DEF Unmarked, runVars, NotAsked, Uninvoked, Ask, Succeed, AnswerFrame, Fail, Deadline, Aborted
<1>4. ASSUME NEW c \in Calls, RetryClosed(c) \/ NativeRetry(c) \/ LateReceipt(c) PROVE Aborted'
  BY <1>4 DEF RetryClosed, runVars, NativeRetry, LateReceipt, AnswerFrame, Aborted
<1>5. ASSUME NEW t \in Turns,
             ChainFails(t) \/ EntryPassed(t) \/ StartAttempt(t) \/ ToolsJoined(t) \/ ToolsReturn(t) \/
             TurnCaptured(t)
      PROVE  Aborted'
  BY <1>5 DEF ChainFails, StandsStill, runVars, EntryPassed, StartAttempt, ToolsJoined, ToolsReturn,
        TurnCaptured, Aborted
<1>6. ASSUME NEW t \in Turns, DispatchEnds(t) PROVE Aborted'
  BY <1>6 DEF DispatchEnds, Aborted
<1>7. ASSUME NEW t \in Turns, Abandon(t) PROVE Aborted'
  BY <1>7 DEF Abandon, Aborted
<1>8. ASSUME NEW t \in Turns, NEW p \in Providers, CoolsOff(t, p) PROVE Aborted'
  BY <1>8 DEF CoolsOff, Aborted
<1>9. ASSUME NEW j \in Joiners, Loops(j) PROVE Aborted'
  BY <1>9 DEF Loops, JoinLoops, runVars, Aborted
<1>10. ASSUME OutcomeSettles PROVE Aborted'
  BY <1>10 DEF OutcomeSettles, OutcomeLands, OutcomeLost, runVars, AppendFails, Aborted
<1>11. ASSUME MarkerSettles PROVE Aborted'
  BY <1>11 DEF MarkerSettles, MarkerLands, MarkerLost, runVars, AppendFails, Aborted
<1>12. ASSUME CommitSettles PROVE Aborted'
  BY <1>12 DEF CommitSettles, CommitLands, CommitLost, runVars, AppendFails, Aborted
<1>13. ASSUME WarningAppended PROVE Aborted'
  BY <1>13 DEF WarningAppended, runVars, AppendFails, Aborted
<1>14. ASSUME Cancel PROVE Aborted'
  BY <1>14 DEF Cancel, Aborted
<1> QED BY <1>1, <1>2, <1>3, <1>4, <1>5, <1>6, <1>7, <1>8, <1>9, <1>10, <1>11, <1>12, <1>13, <1>14,
        StepCases DEF StepKinds

(* A sum of the community modules is the sum of these proofs. *)
LEMMA SumIsSumOf ==
    ASSUME NEW f, NEW S
    PROVE  MapThenSumSet(LAMBDA x : f[x], S) = SumOf(f, S)
BY DEF MapThenSumSet, MapThenFoldSet, SumOf, PartSums, IsPartSums, Pick

(* The terms of the properties. *)
Exposures == [c \in Calls |-> Exposure(c)]

Overruns == [c \in Calls |-> Overrun(c)]

(* The sums of the properties are the sums of the invariant. *)
LEMMA PropertySums ==
    /\ MapThenSumSet(LAMBDA c : reserved[c], Calls) = SumOf(reserved, Calls)
    /\ MapThenSumSet(Exposure, Calls) = SumOf(Exposures, Calls)
    /\ MapThenSumSet(Overrun, Calls) = SumOf(Overruns, Calls)
    /\ MapThenSumSet(LAMBDA t : Larger(Approved[t], 0), Turns) = SumOf(Granted, Turns)
<1>1. MapThenSumSet(LAMBDA c : reserved[c], Calls) = SumOf(reserved, Calls)
  BY SumIsSumOf
<1>2. MapThenSumSet(Exposure, Calls) = SumOf(Exposures, Calls)
  BY DEF MapThenSumSet, MapThenFoldSet, SumOf, PartSums, IsPartSums, Pick, Exposures
<1>3. MapThenSumSet(Overrun, Calls) = SumOf(Overruns, Calls)
  BY DEF MapThenSumSet, MapThenFoldSet, SumOf, PartSums, IsPartSums, Pick, Overruns
<1>4. MapThenSumSet(LAMBDA t : Larger(Approved[t], 0), Turns) = SumOf(Granted, Turns)
  BY DEF MapThenSumSet, MapThenFoldSet, SumOf, PartSums, IsPartSums, Pick, Granted
<1> QED BY <1>1, <1>2, <1>3, <1>4

(* Reservations: from who holds them. *)
LEMMA ReservationsReturnedHolds ==
    ASSUME AllowanceTypes, Reserves, Debits, Accounts
    PROVE  ReservationsReturned
<1>1. reservedCost = MapThenSumSet(LAMBDA c : reserved[c], Calls)
  BY PropertySums DEF Accounts
<1>2. \A c \in Calls : stage[c] \notin Acquiring \cup {"asked"} => reserved[c] = 0 /\ c \notin debit
  BY DEF Reserves, Debits, Holding, Acquiring
<1>3. \A t \in Turns : allowance[t].inFlight = (debit \cap CallsOf(t) # {})
  <2> SUFFICES ASSUME NEW t \in Turns PROVE allowance[t].inFlight = (debit \cap CallsOf(t) # {})
    OBVIOUS
  <2>1. allowance[t].inFlight \in BOOLEAN /\ debit \subseteq Calls
    BY DEF AllowanceTypes
  <2>2. allowance[t].inFlight <=> \E c \in debit : c[1] = t
    BY DEF Debits
  <2>3. (debit \cap CallsOf(t) # {}) <=> \E c \in debit : c[1] = t
    BY <2>1 DEF CallsOf
  <2> QED BY <2>1, <2>2, <2>3
<1> QED BY <1>1, <1>2, <1>3 DEF ReservationsReturned

(* Charges: call by call, they are no more than what is counted. *)
LEMMA ChargesAreCountedHolds ==
    ASSUME BudgetTypes, CallTypes, InOrder, Billed, Reserves, Accounts
    PROVE  ChargesAreCounted
<1>1. ASSUME NEW c \in Calls PROVE Exposure(c) \in Int /\ Exposure(c) <= Counted[c]
  <2>1. Estimate(c) \in Nat /\ reserved[c] \in Nat /\ paid[c] \in Nat \cup {NoBill}
    BY TermTypes DEF BudgetTypes
  <2>2. Counted[c] = (IF paid[c] >= 0 THEN paid[c] ELSE 0) + (IF c \in unknown THEN Estimate(c) ELSE 0) + reserved[c]
    BY CountedSum
  <2>3. stage[c] = "asked" => reserved[c] = Estimate(c)
    BY DEF Reserves, InOrder, Holding
  <2>4. CASE paid[c] # NoBill
    <3>1. Exposure(c) = paid[c]
      BY <2>4 DEF Exposure
    <3> HIDE DEF Estimate
    <3> QED BY <2>1, <2>2, <2>4, <3>1 DEF NoBill
  <2>5. CASE paid[c] = NoBill /\ (stage[c] = "asked" \/ c \in unknown)
    BY <2>1, <2>2, <2>3, <2>5 DEF Exposure, NoBill
  <2>6. CASE paid[c] = NoBill /\ ~ (stage[c] = "asked" \/ c \in unknown)
    BY <2>1, <2>2, <2>6 DEF Exposure, NoBill
  <2> QED BY <2>4, <2>5, <2>6
<1>2. Exposures \in [Calls -> Int] /\ \A c \in Calls : Exposures[c] <= Counted[c]
  BY <1>1 DEF Exposures
<1>3. SumOf(Exposures, Calls) <= spent + conservative + reservedCost
  BY <1>2, CountedSum
<1> QED BY <1>3, PropertySums DEF ChargesAreCounted

(* The cap: call by call, what is counted is foreseen or overrun. *)
LEMMA CapRespectedHolds ==
    ASSUME BudgetTypes, CallTypes, AllowanceTypes, Billed, Reserves, Accounts, Foreseen, Warned
    PROVE  CapRespected
<1>1. \A c \in overCap : stage[c] \in {"asked", "late"} => announced
  BY DEF Warned
<1>2. ASSUME policy \in {"fail", "pause"}, Cap > 0
      PROVE  spent + conservative + reservedCost <= Cap + SumOf(Granted, Turns) + SumOf(Overruns, Calls)
  <2> DEFINE base == [c \in Calls |-> Within[c] + Beyond[c]]
             all == [c \in Calls |-> base[c] + Overruns[c]]
  <2>1. ASSUME NEW c \in Calls PROVE Overrun(c) \in Nat /\ Counted[c] <= Within[c] + Beyond[c] + Overrun(c)
    <3>1. Estimate(c) \in Nat /\ reserved[c] \in Nat /\ paid[c] \in Nat \cup {NoBill}
      BY TermTypes DEF BudgetTypes
    <3>2. Counted[c] = (IF paid[c] >= 0 THEN paid[c] ELSE 0) + (IF c \in unknown THEN Estimate(c) ELSE 0) + reserved[c]
      BY CountedSum
    <3>3. Within[c] + Beyond[c] = Base(c)
      <4>1. Base(c) \in Nat
        BY BaseTypes
      <4> QED BY <4>1 DEF Within, Beyond
    <3>4. c \in unknown \/ paid[c] # NoBill => reserved[c] = 0
      BY DEF Billed, Reserves, Holding
    <3>5. Overrun(c) \in Nat /\ Counted[c] <= Base(c) + Overrun(c)
      <4>1. CASE c \in unknown
        <5>1. Base(c) = Estimate(c) /\ Overrun(c) = (IF paid[c] = NoBill THEN 0 ELSE paid[c])
          BY <4>1 DEF Base, Overrun
        <5> HIDE DEF Estimate
        <5> QED BY <3>1, <3>2, <3>4, <4>1, <5>1 DEF NoBill
      <4>2. CASE c \notin unknown /\ paid[c] # NoBill
        BY <3>1, <3>2, <3>4, <4>2 DEF Base, Overrun, Larger, NoBill
      <4>3. CASE c \notin unknown /\ paid[c] = NoBill
        BY <3>1, <3>2, <4>3 DEF Base, Overrun, NoBill
      <4> QED BY <4>1, <4>2, <4>3
    <3> QED BY <3>3, <3>5
  <2>2. /\ Within \in [Calls -> Int] /\ Beyond \in [Calls -> Int] /\ Overruns \in [Calls -> Int]
        /\ Left \in [Turns -> Nat] /\ Granted \in [Turns -> Int]
    BY <2>1, BaseTypes DEF Overruns
  <2>3. base \in [Calls -> Int] /\ all \in [Calls -> Int] /\ \A c \in Calls : Counted[c] <= all[c]
    BY <2>1, <2>2 DEF Overruns
  <2>4. (\A c \in Calls : base[c] = Within[c] + Beyond[c]) /\ \A c \in Calls : all[c] = base[c] + Overruns[c]
    OBVIOUS
  <2> HIDE DEF base, all
  <2>5. SumOf(base, Calls) = SumOf(Within, Calls) + SumOf(Beyond, Calls)
    BY <2>2, <2>3, <2>4, FiniteCalls, SumsAdd
  <2>6. SumOf(all, Calls) = SumOf(base, Calls) + SumOf(Overruns, Calls)
    BY <2>2, <2>3, <2>4, FiniteCalls, SumsAdd
  <2>7. SumOf(Counted, Calls) <= SumOf(all, Calls) /\ SumOf(Counted, Calls) = spent + conservative + reservedCost
    BY <2>3, FiniteCalls, SumsCompare, CountedSum
  <2>8. SumOf(Left, Turns) \in Nat
    BY <2>2, FiniteCalls, SumOfNaturals
  <2>9. /\ SumOf(Within, Calls) \in Int /\ SumOf(Beyond, Calls) \in Int /\ SumOf(Overruns, Calls) \in Int
        /\ SumOf(Granted, Turns) \in Int
    BY <2>2, FiniteCalls, SumsCompare
  <2>10. SumOf(Within, Calls) <= Cap /\ SumOf(Beyond, Calls) + SumOf(Left, Turns) <= SumOf(Granted, Turns)
    BY <1>2 DEF Foreseen
  <2>11. Cap \in Nat /\ spent \in Nat /\ conservative \in Nat /\ reservedCost \in Nat
    BY GovernorAssumption DEF BudgetTypes
  <2> QED BY <2>5, <2>6, <2>7, <2>8, <2>9, <2>10, <2>11
<1> QED BY <1>1, <1>2, PropertySums DEF CapRespected

(* OneOutcomeEach, from the invariant. *)
LEMMA OneOutcomeEachHolds ==
    ASSUME LedgerTypes, LogTypes, Claimed, Writing, Resolved
    PROVE  OneOutcomeEach
<1> SUFFICES ASSUME NEW c \in Calls
    PROVE  /\ stage[c] \in {"asked", "late"} => log[c] # <<>> /\ log[c][1] = "pending"
           /\ \A i, j \in DOMAIN log[c] :
                 i < j /\ {log[c][i], log[c][j]} \subseteq Outcomes =>
                     log[c][i] = "waiting" /\ log[c][j] \in {"settled", "incomplete"}
           /\ "released" \in Known(c) => paid[c] = NoBill /\ c \notin shown
  BY DEF OneOutcomeEach
<1>1. Written(c) /\ Twice(c)
  BY DEF Writing, Resolved
<1>2. stage[c] \in {"asked", "late"} => claim[c] # "none"
  BY DEF Claimed
<1>3. "released" \in Known(c) => Queued(c, "released") \/ Logged(c, "released")
  BY DEF Known, Queued, Logged
<1>4. \A i, j \in DOMAIN log[c] :
         i < j /\ {log[c][i], log[c][j]} \subseteq Outcomes => log[c][i] = "waiting" /\ log[c][j] \in {"settled", "incomplete"}
  BY <1>1 DEF Twice, Follows
<1> QED BY <1>1, <1>2, <1>3, <1>4 DEF Written

-----------------------------------------------------------------------------
(* The inductive invariant.                                                  *)

AllTypes ==
    /\ BudgetTypes /\ AllowanceTypes /\ WarningTypes /\ CommitTypes /\ LedgerTypes /\ ClaimTypes /\ LogTypes
    /\ JoinTypes /\ RunTypes /\ ChainTypes /\ StageTypes /\ CallTypes /\ TurnTypes /\ OtherTypes

(* what is true of calls and turns, of the money, and of the books *)
CallsInv == Numbered /\ OneAtATime /\ InOrder /\ LastOfRound /\ Metered

MoneyInv == Billed /\ Reserves /\ Debits /\ Accounts /\ Foreseen

BooksInv == Claimed /\ Marking /\ Writing /\ Resolved /\ Tracked /\ Cleared

FailInv == LossAborts /\ Warned

IInv == AllTypes /\ CallsInv /\ MoneyInv /\ BooksInv /\ FailInv

(* What is its own double is nothing. *)
LEMMA Doubled ==
    ASSUME NEW n \in Int, n = n + n
    PROVE  n = 0
OBVIOUS

(* A sum of noughts. *)
LEMMA SumOfNoughts ==
    ASSUME NEW S, IsFiniteSet(S), NEW f, f = [x \in S |-> 0]
    PROVE  SumOf(f, S) = 0
<1>1. f \in [S -> Int] /\ \A x \in S : f[x] = f[x] + f[x]
  OBVIOUS
<1>2. SumOf(f, S) \in Int
  BY <1>1, SumsCompare
<1>3. SumOf(f, S) = SumOf(f, S) + SumOf(f, S)
  BY <1>1, SumsAdd
<1> QED BY <1>2, <1>3, Doubled

(* The types hold initially. *)
LEMMA InitTypes ==
    ASSUME Init
    PROVE  AllTypes
<1>1. BudgetTypes
  BY GovernorAssumption DEF Init, GovernorInit, BudgetTypes
<1>2. AllowanceTypes
  <2>1. allowance = [t \in Turns |-> Activated(t)] /\ debit = {}
    BY DEF Init, GovernorInit
  <2>2. ASSUME NEW t \in Turns PROVE Activated(t) \in [remaining: Nat, inFlight: BOOLEAN, closed: BOOLEAN, exhausted: BOOLEAN]
    <3>1. (IF HasToken(t) THEN Approved[t] ELSE 0) \in Nat
      BY PlanParts DEF HasToken
    <3> QED BY <3>1 DEF Activated
  <2> QED BY <2>1, <2>2 DEF AllowanceTypes
<1>3. WarningTypes
  BY DEF Init, GovernorInit, WarningTypes
<1>4. CommitTypes
  <2>1. commits = <<>> /\ commitFailure = FALSE /\ commitBroken = FALSE /\ unknown = {}
    BY DEF Init, GovernorInit
  <2>2. <<>> \in Seq(Calls)
    OBVIOUS
  <2> QED BY <2>1, <2>2 DEF CommitTypes
<1>5. LedgerTypes
  <2>1. ledger = <<>> /\ failure = FALSE /\ broken = FALSE
    BY DEF Init, MoneyInit
  <2>2. <<>> \in Seq([call: Calls, write: Writes])
    OBVIOUS
  <2> QED BY <2>1, <2>2 DEF LedgerTypes
<1>6. ClaimTypes /\ LogTypes /\ JoinTypes
  BY DEF Init, MoneyInit, ClaimTypes, LogTypes, JoinTypes
<1>7. RunTypes
  BY PlanParts, GovernorAssumption DEF Init, MoneyInit, GovernorInit, RunTypes
<1>8. ChainTypes
  BY PlanParts DEF Init, ChainInit, ChainTypes
<1>9. StageTypes
  BY DEF Init, StageTypes, Stages
<1>10. CallTypes
  <2>1. Plan[1] \in Providers
    BY PlanParts
  <2> QED BY <2>1 DEF Init, CallTypes
<1>11. TurnTypes
  BY DEF Init, TurnTypes
<1>12. OtherTypes
  BY DEF Init, ChainInit, OtherTypes
<1> QED BY <1>1, <1>2, <1>3, <1>4, <1>5, <1>6, <1>7, <1>8, <1>9, <1>10, <1>11, <1>12 DEF AllTypes

(* And so does the rest: nothing is spent, written, held or foreseen. *)
LEMMA InitInv ==
    ASSUME Init
    PROVE  IInv
<1>1. AllTypes
  BY InitTypes
<1>2. CallsInv
  <2>1. Numbered
    BY CallParts DEF Init, Numbered
  <2>2. OneAtATime
    BY DEF Init, OneAtATime, Ongoing, Acquiring
  <2>3. InOrder
    BY DEF Init, InOrder
  <2>4. LastOfRound
    BY DEF Init, LastOfRound, NoSecondVoice
  <2>5. Metered
    <3> SUFFICES ASSUME NEW t \in Turns PROVE InBudget(t) /\ \A p \in Providers : Meter(t, p)
      BY DEF Metered
    <3>1. entry[t] = 1 /\ tries[t] = 0 /\ bonus[t] = 0 /\ refreshed[t] = {} /\ round[t] = 0
      BY DEF Init, ChainInit
    <3>2. InBudget(t)
      <4>1. MaxAttempts[Plan[1]] \in Nat \ {0}
        BY PlanParts
      <4> QED BY <3>1, <4>1 DEF InBudget
    <3>3. ASSUME NEW p \in Providers PROVE Meter(t, p)
      <4>1. Attempts(t, p) = {}
        BY DEF Init, Attempts, CallsOf
      <4>2. Cardinality(Attempts(t, p)) = 0
        BY <4>1, FS_EmptySet
      <4>3. Passed(t, p) = 0
        <5>1. Passed(t, p) = Cardinality(Places(p, 0)) /\ 0 \in 0..Len(Plan)
          BY <3>1, PlanParts DEF Passed
        <5> QED BY <5>1, PlacesFacts
      <4>4. Used(t, p) = 0
        BY <3>1 DEF Used
      <4>5. InPlan(p) * 0 + 0 = 0 /\ MaxAttempts[p] * 0 = 0
        <5>1. Len(Plan) \in 0..Len(Plan)
          BY PlanParts
        <5>2. InPlan(p) \in Nat /\ MaxAttempts[p] \in Nat
          BY <5>1, PlacesFacts, PlanParts DEF InPlan
        <5> QED BY <5>2
      <4> QED BY <3>1, <4>2, <4>3, <4>4, <4>5 DEF Meter
    <3> QED BY <3>2, <3>3
  <2> QED BY <2>1, <2>2, <2>3, <2>4, <2>5 DEF CallsInv
<1>3. MoneyInv
  <2>1. Billed /\ Debits
    BY DEF Init, GovernorInit, Billed, Debits, Activated, NoBill
  <2>2. Reserves
    BY DEF Init, GovernorInit, Reserves, Holding
  <2>3. \A c \in Calls : stage[c] = "none" /\ paid[c] = NoBill /\ c \notin unknown /\ reserved[c] = 0
    BY DEF Init, GovernorInit
  <2>4. Accounts
    <3>1. PaidFor = [c \in Calls |-> 0] /\ Committed = [c \in Calls |-> 0] /\ reserved = [c \in Calls |-> 0]
      BY <2>3 DEF PaidFor, Committed, Larger, NoBill, Init, GovernorInit
    <3>2. SumOf(PaidFor, Calls) = 0 /\ SumOf(Committed, Calls) = 0 /\ SumOf(reserved, Calls) = 0
      BY <3>1, FiniteCalls, SumOfNoughts
    <3> QED BY <3>2 DEF Init, GovernorInit, Accounts
  <2>5. Foreseen
    <3>1. \A c \in Calls : Base(c) = 0
      BY <2>3 DEF Base
    <3>2. Within = [c \in Calls |-> 0] /\ Beyond = [c \in Calls |-> 0]
      BY <3>1 DEF Within, Beyond
    <3>3. SumOf(Within, Calls) = 0 /\ SumOf(Beyond, Calls) = 0
      BY <3>2, FiniteCalls, SumOfNoughts
    <3>4. ASSUME NEW t \in Turns PROVE Left[t] = Granted[t]
      <4>1. allowance[t].remaining = IF HasToken(t) THEN Approved[t] ELSE 0
        BY DEF Init, GovernorInit, Activated
      <4> QED BY <4>1, PlanParts DEF Left, Granted, HasToken, Larger, NoAllowance
    <3>5. SumOf(Left, Turns) = SumOf(Granted, Turns)
      BY <3>4, SumSame
    <3>6. Granted \in [Turns -> Int]
      BY PlanParts DEF Granted, Larger, NoAllowance
    <3>7. SumOf(Granted, Turns) \in Int
      BY <3>6, FiniteCalls, SumsCompare
    <3> QED BY <3>3, <3>5, <3>7, GovernorAssumption DEF Foreseen
  <2> QED BY <2>1, <2>2, <2>4, <2>5 DEF MoneyInv
<1>4. BooksInv
  <2>1. Claimed
    BY DEF Init, MoneyInit, Claimed, Acquiring
  <2>2. ledger = <<>> /\ commits = <<>> /\ \A c \in Calls : log[c] = <<>> /\ claim[c] = "none" /\ c \notin unknown
    BY DEF Init, GovernorInit, MoneyInit
  <2>3. DOMAIN ledger = {} /\ DOMAIN commits = {} /\ \A c \in Calls : DOMAIN log[c] = {}
    BY <2>2
  <2>4. \A c \in Calls, w \in Writes : ~ Queued(c, w) /\ ~ Logged(c, w)
    BY <2>3 DEF Queued, Logged
  <2>5. Marking
    BY <2>3, <2>4 DEF Marking, Writes
  <2>6. Writing
    BY <2>2, <2>3, <2>4 DEF Writing, Written, Writes, Outcomes
  <2>7. Resolved
    BY <2>3 DEF Resolved, Twice
  <2>8. Tracked
    BY <2>2 DEF Tracked, Resolves
  <2>9. Cleared
    BY DEF Init, Cleared
  <2> QED BY <2>1, <2>5, <2>6, <2>7, <2>8, <2>9 DEF BooksInv
<1>5. FailInv
  BY DEF Init, GovernorInit, MoneyInit, FailInv, LossAborts, Warned
<1> QED BY <1>1, <1>2, <1>3, <1>4, <1>5 DEF IInv

(* Every step keeps it. *)
LEMMA NextInv ==
    ASSUME IInv, [Next]_vars
    PROVE  IInv'
<1>1. /\ BudgetTypes /\ AllowanceTypes /\ WarningTypes /\ CommitTypes /\ LedgerTypes /\ ClaimTypes /\ LogTypes
      /\ JoinTypes /\ RunTypes /\ ChainTypes /\ StageTypes /\ CallTypes /\ TurnTypes /\ OtherTypes
  BY DEF IInv, AllTypes
<1>2. /\ Numbered /\ OneAtATime /\ InOrder /\ LastOfRound /\ Metered /\ Billed /\ Reserves /\ Debits /\ Accounts /\ Foreseen
      /\ Claimed /\ Marking /\ Writing /\ Resolved /\ Tracked /\ Cleared /\ LossAborts /\ Warned
  BY DEF IInv, CallsInv, MoneyInv, BooksInv, FailInv
<1>3. StageTypes' /\ TurnTypes' /\ CallTypes' /\ ChainTypes'
  BY <1>1, <1>2, StageTyped, TurnTyped, CallTyped, ChainTyped
<1>4. Numbered' /\ InOrder' /\ OneAtATime' /\ LastOfRound' /\ Metered'
  BY <1>1, <1>2, NumberedStep, InOrderStep, OneAtATimeStep, LastOfRoundStep, MeteredStep
<1>5. MoneyMoves
  BY <1>1, <1>2, MoneyCover
<1>6. BudgetTypes' /\ AllowanceTypes'
  BY <1>1, <1>2, <1>4, <1>5, BudgetTyped, AllowanceTyped
<1>7. Billed' /\ Reserves' /\ Debits' /\ Accounts'
  BY <1>1, <1>2, <1>4, <1>5, BilledStep, ReservesStep, DebitsStep, AccountsStep
<1>8. Foreseen'
  BY <1>1, <1>2, <1>3, <1>4, <1>5, <1>6, ForeseenStep
<1>9. BookMoves
  BY <1>1, <1>2, BooksCover
<1>10. ledger' \in Seq(Entries) /\ ClaimTypes' /\ LogTypes' /\ commits' \in Seq(Calls) /\ unknown' \subseteq Calls
  BY <1>1, <1>9, BooksTyped
<1>11. failure' \in BOOLEAN /\ broken' \in BOOLEAN /\ commitFailure' \in BOOLEAN /\ commitBroken' \in BOOLEAN
  BY <1>1, FlagsTyped DEF LedgerTypes, CommitTypes
<1>12. LedgerTypes' /\ CommitTypes'
  BY <1>10, <1>11 DEF LedgerTypes, CommitTypes, Entries
<1>13. Claimed' /\ Marking' /\ Writing' /\ Resolved'
  BY <1>1, <1>2, <1>9, ClaimedStep, MarkingStep, WritingStep, ResolvedStep
<1>14. WarningTypes' /\ RunTypes' /\ OtherTypes'
  BY <1>1, <1>2, WarningTyped, RunTyped, OtherTyped
<1>15. JoinTypes'
  BY <1>1, <1>10, JoinTyped
<1>16. LossAborts'
  BY <1>1, <1>2, LossAbortsStep DEF LedgerTypes, CommitTypes
<1>17. Warned'
  BY <1>1, <1>2, WarnedStep
<1>18. AllTypes'
  BY <1>3, <1>6, <1>10, <1>12, <1>14, <1>15 DEF AllTypes
<1>19. Onward
  BY <1>1, <1>2, OnwardStep
<1>20. Tracked'
  BY <1>1, <1>2, <1>9, <1>19, TrackedStep DEF Onward
<1>21. Aborted => Aborted'
  BY AbortedStays
<1>22. Cleared'
  BY <1>1, <1>2, <1>9, <1>19, <1>21, ClearedStep
<1> QED BY <1>4, <1>7, <1>8, <1>13, <1>16, <1>17, <1>18, <1>20, <1>22 DEF IInv, CallsInv, MoneyInv, BooksInv, FailInv

(* So it always holds. *)
THEOREM Invariance == Spec => []IInv
<1>1. Init => IInv
  BY InitInv
<1>2. IInv /\ [Next]_vars => IInv'
  BY NextInv
<1> QED BY <1>1, <1>2, PTL DEF Spec

(* The types of the governor, the ledger, the chains, the calls and the    *)
(* turns: no sum, count, allowance or position ever falls below nought.    *)
THEOREM TypesHold == Spec => []TypeOK
<1>1. IInv => TypeOK
  BY Types DEF IInv, AllTypes
<1> QED BY <1>1, Invariance, PTL

(* Every reservation and every allowance debit is given back: after a      *)
(* refusal, an abort, an unasked call, a closed attempt or an answer.      *)
THEOREM ReservationsAreReturned == Spec => []ReservationsReturned
<1>1. IInv => ReservationsReturned
  BY ReservationsReturnedHolds DEF IInv, AllTypes, MoneyInv
<1> QED BY <1>1, Invariance, PTL

(* What providers charged, or may have charged, is counted by the          *)
(* governor: as spent, as committed or as reserved.                        *)
THEOREM EveryChargeIsCounted == Spec => []ChargesAreCounted
<1>1. IInv => ChargesAreCounted
  BY ChargesAreCountedHolds DEF IInv, AllTypes, CallsInv, MoneyInv
<1> QED BY <1>1, Invariance, PTL

(* The cap: concurrent admissions pass it only by approved allowances and  *)
(* by charges that no estimate foresaw, and under "warn" no provider is    *)
(* asked over it before the warning is on the log.                         *)
THEOREM TheCapIsRespected == Spec => []CapRespected
<1>1. IInv => CapRespected
  BY CapRespectedHolds DEF IInv, AllTypes, MoneyInv, FailInv
<1> QED BY <1>1, Invariance, PTL

(* The books of a call: its marker precedes it, and it is resolved once,   *)
(* or once more when a receipt was awaited.                                *)
THEOREM EachCallIsResolvedOnce == Spec => []OneOutcomeEach
<1>1. IInv => OneOutcomeEach
  BY OneOutcomeEachHolds DEF IInv, AllTypes, BooksInv
<1> QED BY <1>1, Invariance, PTL

(* No provider is asked again, no tool round starts and no turn ends well  *)
(* before the outcomes of the earlier calls are on the log, and with them  *)
(* the commitments for what is not known.                                  *)
THEOREM EarlierCallsAreOnRecord == Spec => []RecordedBeforeActing
<1>1. IInv => RecordedBeforeActing
  BY RecordedBeforeActingHolds DEF IInv, AllTypes, CallsInv, BooksInv
<1> QED BY <1>1, Invariance, PTL

(* What the reader saw is never said again by another provider, and no     *)
(* provider is asked oftener than its places in the plan allow.            *)
THEOREM TheChainKeepsItsWord == Spec => []ChainKeepsItsWord
<1>1. IInv => ChainKeepsItsWord
  BY ChainKeepsItsWordHolds DEF IInv, AllTypes, CallsInv
<1> QED BY <1>1, Invariance, PTL

(* In an aborted run, and once money is uncertain, no provider is asked    *)
(* and no tool round starts.                                               *)
THEOREM NothingNewIsStarted == Spec => NothingNewAfterLoss
<1>1. ASSUME IInv, [Next]_vars, Aborted \/ broken \/ commitBroken
      PROVE  /\ \A c \in Calls : stage'[c] = "asked" => stage[c] = "asked"
             /\ \A t \in Turns : step'[t] = "tools" => step[t] = "tools"
  <2>1. Aborted
    BY <1>1 DEF IInv, FailInv, LossAborts
  <2>2. StageTypes /\ TurnTypes /\ CallMoves
    BY <1>1, CallMovesCover DEF IInv, AllTypes, BooksInv
  <2> QED BY <2>1, <2>2, NothingNew
<1>2. IInv /\ [Next]_vars =>
          [Aborted \/ broken \/ commitBroken =>
              /\ \A c \in Calls : stage'[c] = "asked" => stage[c] = "asked"
              /\ \A t \in Turns : step'[t] = "tools" => step[t] = "tools"]_vars
  BY <1>1
<1> QED BY <1>2, Invariance, PTL DEF Spec, NothingNewAfterLoss
=============================================================================
