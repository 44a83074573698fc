---------------------------- MODULE PagedKV_proofs ----------------------------
(***************************************************************************)
(* Proofs about PagedKV for every number and size of blocks, every set of  *)
(* layers and values: blocks are never lost or shared, and a sequence      *)
(* reads back what it wrote.                                               *)
(***************************************************************************)
EXTENDS PagedKV, SequenceTheorems, FiniteSetTheorems, TLAPS

(***************************************************************************)
(* Arithmetic of positions and blocks.                                     *)
(***************************************************************************)

(* Quotient and remainder determine a position.                            *)
LEMMA DivMod ==
    ASSUME NEW B \in Nat \ {0}, NEW p \in Nat
    PROVE  p \div B \in Nat /\ p % B \in 0..(B - 1) /\ p = B * (p \div B) + (p % B)
  BY SMT

LEMMA SamePlace ==
    ASSUME NEW B \in Nat \ {0}, NEW p \in Nat, NEW q \in Nat,
           p \div B = q \div B, p % B = q % B
    PROVE  p = q
  <1>1. p = B * (p \div B) + (p % B)
    BY DivMod
  <1>2. q = B * (q \div B) + (q % B)
    BY DivMod
  <1>3. QED
    BY <1>1, <1>2, Zenon

LEMMA ProductMonotone ==
    ASSUME NEW B \in Nat, NEW a \in Nat, NEW b \in Nat, a <= b
    PROVE  B * a \in Nat /\ B * b \in Nat /\ B * a <= B * b
  <1>1. b - a \in Nat
    BY SMT
  <1>2. B * (b - a) >= 0
    BY <1>1, SMT
  <1>3. B * b = B * a + B * (b - a)
    BY SMT
  <1>4. QED
    BY <1>1, <1>2, <1>3, SMT

(* A quotient compared through the products it stands for.                 *)
LEMMA QuotientBelow ==
    ASSUME NEW B \in Nat \ {0}, NEW a \in Nat, NEW b \in Nat, NEW r \in Nat,
           NEW s \in 0..(B - 1), NEW n \in Nat,
           B * a + r < n, n + B - 1 = B * b + s
    PROVE  a < b
  <1>1. SUFFICES ASSUME b <= a PROVE FALSE
    BY SMT
  <1>2. B * b <= B * a /\ B * b \in Nat /\ B * a \in Nat
    BY <1>1, ProductMonotone
  <1> DEFINE x == B * a
             y == B * b
  <1>3. x + r < n /\ n + B - 1 = y + s /\ y <= x /\ x \in Nat /\ y \in Nat
    BY <1>2
  <1> HIDE DEF x, y
  <1>4. QED
    BY <1>3, SMT

LEMMA DivMonotone ==
    ASSUME NEW B \in Nat \ {0}, NEW p \in Nat, NEW q \in Nat, p <= q
    PROVE  p \div B <= q \div B
  <1> DEFINE a == p \div B
             b == q \div B
             r == p % B
             s == q % B
  <1>1. /\ a \in Nat /\ b \in Nat /\ r \in 0..(B - 1) /\ s \in 0..(B - 1)
        /\ p = B * a + r /\ q = B * b + s
    BY DivMod
  <1> HIDE DEF a, b, r, s
  <1>2. SUFFICES ASSUME b + 1 <= a PROVE FALSE
    BY <1>1, SMT DEF a, b
  <1>3. B * (b + 1) <= B * a /\ B * a \in Nat /\ B * (b + 1) \in Nat
    BY <1>1, <1>2, ProductMonotone
  <1>4. B * (b + 1) = B * b + B /\ B * b \in Nat
    BY <1>1, SMT
  <1> DEFINE x == B * a
             y == B * b
  <1>5. x \in Nat /\ y \in Nat /\ y + B <= x /\ p = x + r /\ q = y + s
    BY <1>1, <1>3, <1>4
  <1> HIDE DEF x, y
  <1>6. QED
    BY <1>1, <1>5, SMT

(* A token lies in the blocks that div_ceil reserves for it.               *)
LEMMA CeilCovers ==
    ASSUME NEW B \in Nat \ {0}, NEW p \in Nat, NEW n \in Nat, p < n
    PROVE  p \div B < (n + B - 1) \div B
  <1> DEFINE a == p \div B
             b == (n + B - 1) \div B
             r == p % B
             s == (n + B - 1) % B
  <1>1. n + B - 1 \in Nat
    BY SMT
  <1>2. b \in Nat /\ s \in 0..(B - 1) /\ n + B - 1 = B * b + s
    BY <1>1, DivMod
  <1>3. a \in Nat /\ r \in 0..(B - 1) /\ p = B * a + r
    BY DivMod
  <1>4. r \in Nat /\ B * a + r < n
    BY <1>3
  <1> HIDE DEF a, b, r, s
  <1>5. a < b
    BY <1>2, <1>3, <1>4, QuotientBelow
  <1>6. QED
    BY <1>5 DEF a, b

LEMMA BlocksForCovers ==
    ASSUME BlockSize \in Nat \ {0}, NEW n \in Nat, NEW p \in 0..(n - 1)
    PROVE  p \div BlockSize < BlocksFor(n)
  <1>1. p \in Nat /\ p < n
    BY SMT
  <1>2. QED
    BY <1>1, CeilCovers DEF BlocksFor

LEMMA BlocksForMonotone ==
    ASSUME BlockSize \in Nat \ {0}, NEW n \in Nat, NEW k \in Nat, n <= k
    PROVE  BlocksFor(n) \in Nat /\ BlocksFor(k) \in Nat /\ BlocksFor(n) <= BlocksFor(k)
  <1>1. n + BlockSize - 1 \in Nat /\ k + BlockSize - 1 \in Nat
        /\ n + BlockSize - 1 <= k + BlockSize - 1
    BY SMT
  <1>2. QED
    BY <1>1, DivMonotone, DivMod DEF BlocksFor

LEMMA BlocksForZero ==
    ASSUME BlockSize \in Nat \ {0}
    PROVE  BlocksFor(0) = 0
  BY SMT DEF BlocksFor

(***************************************************************************)
(* What a push, a pop, the release of the first block and an extension do  *)
(* to the elements of a sequence without repetitions.                      *)
(***************************************************************************)
LEMMA PushHas ==
    ASSUME NEW S, NEW s \in Seq(S), NEW e \in S, Distinct(s), ~Has(s, e)
    PROVE  /\ Append(s, e) \in Seq(S) /\ Len(Append(s, e)) = Len(s) + 1
           /\ Distinct(Append(s, e))
           /\ \A x : Has(Append(s, e), x) <=> Has(s, x) \/ x = e
  <1> DEFINE t == Append(s, e)
  <1>1. /\ Len(s) \in Nat /\ t \in Seq(S) /\ Len(t) = Len(s) + 1
        /\ \A i \in 1..Len(s) : t[i] = s[i]
        /\ t[Len(s) + 1] = e
    BY AppendProperties, LenProperties
  <1> HIDE DEF t
  <1>2. Distinct(t)
    BY <1>1 DEF Distinct, Has
  <1>3. \A x : Has(t, x) <=> Has(s, x) \/ x = e
    BY <1>1 DEF Has
  <1>4. QED
    BY <1>1, <1>2, <1>3 DEF t

LEMMA PopHas ==
    ASSUME NEW S, NEW s \in Seq(S), s # <<>>, Distinct(s)
    PROVE  /\ Below(s) \in Seq(S) /\ Len(Below(s)) = Len(s) - 1
           /\ Len(s) > 0 /\ s[Len(s)] \in S /\ Has(s, s[Len(s)])
           /\ Distinct(Below(s))
           /\ \A x : Has(Below(s), x) <=> Has(s, x) /\ x # s[Len(s)]
  <1> DEFINE t == Below(s)
  <1>1. Len(s) \in Nat /\ Len(s) > 0 /\ \A i \in 1..Len(s) : s[i] \in S
    BY LenProperties, EmptySeq, ElementOfSeq
  <1>2. /\ t \in Seq(S) /\ Len(t) = Len(s) - 1
        /\ \A i \in 1..(Len(s) - 1) : t[i] = s[i]
    <2> DEFINE n == Len(s) - 1
    <2>1. n \in Nat /\ \A i \in 1..n : s[i] \in S
      BY <1>1
    <2> HIDE DEF n
    <2> DEFINE u == SubSeq(s, 1, n)
    <2>2. /\ u \in Seq(S)
          /\ Len(u) = IF 1 <= n THEN n - 1 + 1 ELSE 0
          /\ \A i \in 1..(n - 1 + 1) : u[i] = s[1 + i - 1]
      BY <2>1, SubSeqProperties
    <2>3. t = u
      BY DEF Below, n
    <2> HIDE DEF u, t
    <2>4. Len(u) = n
      BY <2>1, <2>2
    <2>5. ASSUME NEW i \in 1..n PROVE u[i] = s[i]
      <3>1. i \in 1..(n - 1 + 1) /\ 1 + i - 1 = i
        BY <2>1
      <3>2. QED
        BY <2>2, <3>1
    <2>6. QED
      BY <2>2, <2>3, <2>4, <2>5 DEF n
  <1> HIDE DEF t
  <1>3. Distinct(t)
    BY <1>1, <1>2 DEF Distinct
  <1>4. \A x : Has(t, x) <=> Has(s, x) /\ x # s[Len(s)]
    BY <1>1, <1>2 DEF Has, Distinct
  <1>5. QED
    BY <1>1, <1>2, <1>3, <1>4 DEF t, Has

LEMMA TailHas ==
    ASSUME NEW S, NEW s \in Seq(S), s # <<>>, Distinct(s)
    PROVE  /\ Tail(s) \in Seq(S) /\ Len(Tail(s)) = Len(s) - 1
           /\ Head(s) \in S /\ Has(s, Head(s))
           /\ Distinct(Tail(s))
           /\ \A x : Has(Tail(s), x) <=> Has(s, x) /\ x # Head(s)
  <1> DEFINE t == Tail(s)
  <1>1. /\ Len(s) \in Nat /\ Len(s) > 0 /\ \A i \in 1..Len(s) : s[i] \in S
        /\ Head(s) = s[1]
    BY LenProperties, EmptySeq, ElementOfSeq, HeadTailProperties
  <1>2. /\ t \in Seq(S) /\ Len(t) = Len(s) - 1
        /\ \A i \in 1..(Len(s) - 1) : t[i] = s[i + 1]
    BY <1>1, HeadTailProperties
  <1> HIDE DEF t
  <1>3. Distinct(t)
    BY <1>1, <1>2 DEF Distinct
  <1>4. ASSUME NEW x PROVE Has(t, x) <=> Has(s, x) /\ x # s[1]
    <2>1. ASSUME NEW i \in 1..Len(s), s[i] = x, x # s[1] PROVE Has(t, x)
      <3>1. i - 1 \in 1..Len(t) /\ t[i - 1] = x
        BY <1>1, <1>2, <2>1
      <3>2. QED
        BY <3>1 DEF Has
    <2>2. ASSUME NEW i \in 1..Len(t), t[i] = x PROVE Has(s, x) /\ x # s[1]
      BY <1>1, <1>2, <2>2 DEF Has, Distinct
    <2>3. QED
      BY <2>1, <2>2 DEF Has
  <1>5. QED
    BY <1>1, <1>2, <1>3, <1>4 DEF t, Has

LEMMA ConcatHas ==
    ASSUME NEW S, NEW s \in Seq(S), NEW t \in Seq(S), Distinct(s), Distinct(t),
           \A x : ~(Has(s, x) /\ Has(t, x))
    PROVE  /\ s \o t \in Seq(S) /\ Len(s \o t) = Len(s) + Len(t)
           /\ Distinct(s \o t)
           /\ \A i \in 1..Len(s) : (s \o t)[i] = s[i]
           /\ \A x : Has(s \o t, x) <=> Has(s, x) \/ Has(t, x)
  <1> DEFINE u == s \o t
  <1>1. /\ Len(s) \in Nat /\ Len(t) \in Nat /\ u \in Seq(S) /\ Len(u) = Len(s) + Len(t)
        /\ \A i \in 1..Len(s) : u[i] = s[i]
        /\ \A i \in 1..Len(t) : u[Len(s) + i] = t[i]
    BY ConcatProperties, LenProperties
  <1> HIDE DEF u
  <1>2. ASSUME NEW i \in 1..Len(u)
        PROVE  i \in 1..Len(s) \/ \E j \in 1..Len(t) : i = Len(s) + j
    <2>1. CASE i <= Len(s)
      BY <1>1, <2>1
    <2>2. CASE i > Len(s)
      <3>1. i - Len(s) \in 1..Len(t) /\ i = Len(s) + (i - Len(s))
        BY <1>1, <2>2
      <3>2. QED
        BY <3>1
    <2>3. QED
      BY <1>1, <2>1, <2>2
  <1>3. Distinct(u)
    <2>1. SUFFICES ASSUME NEW i \in 1..Len(u), NEW j \in 1..Len(u), u[i] = u[j]
                   PROVE  i = j
      BY DEF Distinct
    <2>2. CASE i \in 1..Len(s) /\ j \in 1..Len(s)
      BY <1>1, <2>1, <2>2 DEF Distinct
    <2>3. ASSUME NEW k \in 1..Len(t), NEW m \in 1..Len(t), i = Len(s) + k, j = Len(s) + m
          PROVE  i = j
      BY <1>1, <2>1, <2>3 DEF Distinct
    <2>4. ASSUME NEW a \in 1..Len(s), NEW k \in 1..Len(t), u[a] = u[Len(s) + k]
          PROVE  FALSE
      <3>1. s[a] = t[k]
        BY <1>1, <2>4
      <3>2. Has(s, s[a]) /\ Has(t, s[a])
        BY <3>1 DEF Has
      <3>3. QED
        BY <3>2
    <2>5. QED
      BY <1>2, <2>1, <2>2, <2>3, <2>4
  <1>4. \A x : Has(u, x) <=> Has(s, x) \/ Has(t, x)
    <2>1. ASSUME NEW x, NEW j \in 1..Len(t), t[j] = x PROVE Has(u, x)
      <3>1. Len(s) + j \in 1..Len(u) /\ u[Len(s) + j] = x
        BY <1>1, <2>1
      <3>2. QED
        BY <3>1 DEF Has
    <2>2. ASSUME NEW x, NEW i \in 1..Len(u), u[i] = x PROVE Has(s, x) \/ Has(t, x)
      BY <1>1, <1>2, <2>2 DEF Has
    <2>3. ASSUME NEW x, NEW i \in 1..Len(s), s[i] = x PROVE Has(u, x)
      BY <1>1, <2>3 DEF Has
    <2>4. QED
      BY <2>1, <2>2, <2>3 DEF Has
  <1>5. QED
    BY <1>1, <1>3, <1>4 DEF u

(* While one block is not free, free_count is below its cap.               *)
LEMMA FreeBelowTotal ==
    ASSUME MaxBlocks \in Nat, NEW s \in Seq(Blocks), Distinct(s),
           NEW b \in Blocks, ~Has(s, b)
    PROVE  Len(s) < MaxBlocks
  <1> DEFINE T == Blocks \ {b}
  <1>1. MaxBlocks \in Nat \ {0} /\ Len(s) \in Nat /\ s \in [1..Len(s) -> Blocks]
    BY LenProperties DEF Blocks
  <1>2. IsFiniteSet(Blocks) /\ Cardinality(Blocks) = MaxBlocks
    BY <1>1, FS_Interval DEF Blocks
  <1>3. IsFiniteSet(T) /\ Cardinality(T) = MaxBlocks - 1
    BY <1>2, FS_RemoveElement
  <1>4. IsFiniteSet(1..Len(s)) /\ Cardinality(1..Len(s)) = Len(s)
    BY <1>1, FS_Interval
  <1>5. s \in [1..Len(s) -> T]
    BY <1>1 DEF Has
  <1> HIDE DEF T
  <1>6. SUFFICES ASSUME Len(s) >= MaxBlocks PROVE FALSE
    BY <1>1
  <1>7. Cardinality(T) < Cardinality(1..Len(s))
    BY <1>1, <1>3, <1>4, <1>6
  <1>8. \E i, j \in 1..Len(s) : i # j /\ s[i] = s[j]
    BY <1>3, <1>4, <1>5, <1>7, FS_PigeonHole
  <1>9. QED
    BY <1>8 DEF Distinct

(***************************************************************************)
(* The inductive invariant.                                                *)
(***************************************************************************)
LEMMA InitInv == PagedInit => PagedInv
  <1>1. SUFFICES ASSUME PagedInit PROVE PagedInv
    OBVIOUS
  <1>2. /\ free \in Seq(Blocks) /\ Len(free) = MaxBlocks
        /\ \A i \in 1..MaxBlocks : free[i] = MaxBlocks - i
    <2>1. \A i \in 1..MaxBlocks : MaxBlocks - i \in Blocks
      BY PagedAssumption DEF Blocks
    <2>2. free \in [1..MaxBlocks -> Blocks]
      BY <1>1, <2>1 DEF PagedInit
    <2>3. QED
      BY <1>1, <2>2, PagedAssumption, IsASeq, LenProperties DEF PagedInit
  <1>3. call = Rest /\ call.held = <<>> /\ Len(call.held) = 0 /\ call.op = "rest"
    BY <1>1, EmptySeq DEF PagedInit, Rest
  <1>4. \A s \in SeqIds : tables[s] = EmptyTable /\ tables[s].blocks = <<>>
                          /\ Len(tables[s].blocks) = 0
    BY <1>1, EmptySeq DEF PagedInit, EmptyTable
  <1>5. PagedTypeOK
    <2>1. call \in Calls
      BY <1>3, EmptySeq DEF Rest, Calls
    <2>2. tables \in [SeqIds -> [blocks : Seq(Blocks), tokens : Nat]]
      BY <1>1, EmptySeq DEF PagedInit, EmptyTable
    <2>3. written \in [SeqIds -> [Layers -> [Positions -> Values \cup {Absent}]]]
      BY <1>1 DEF PagedInit, Nothing
    <2>4. store \in [Layers -> [Blocks -> [Offsets -> Values \cup {Zero, Absent}]]]
      BY <1>1 DEF PagedInit
    <2>5. QED
      BY <1>1, <1>2, <2>1, <2>2, <2>3, <2>4, PagedAssumption DEF PagedInit, PagedTypeOK
  <1>6. BlocksAccounted
    <2>1. Distinct(free)
      BY <1>2, PagedAssumption DEF Distinct
    <2>2. Distinct(call.held) /\ \A s \in SeqIds : Distinct(tables[s].blocks)
      BY <1>3, <1>4 DEF Distinct
    <2>3. \A b \in Blocks : ~InCall(b) /\ \A s \in SeqIds : ~InTable(s, b)
      BY <1>3, <1>4 DEF InCall, InTable, Has
    <2>4. ASSUME NEW b \in Blocks PROVE InFree(b)
      <3>1. MaxBlocks - b \in 1..Len(free) /\ free[MaxBlocks - b] = b
        BY <1>2, PagedAssumption DEF Blocks
      <3>2. QED
        BY <3>1 DEF InFree, Has
    <2>5. QED
      BY <1>1, <1>2, <2>1, <2>2, <2>3, <2>4 DEF BlocksAccounted, PagedInit
  <1>7. CallShape
    BY <1>3 DEF CallShape
  <1>8. TablesFit
    BY <1>1, <1>4 DEF TablesFit, PagedInit
  <1>9. Resident
    BY <1>4 DEF Resident, InTable, Has
  <1>10. ReadsOwnWrites
    BY <1>1 DEF ReadsOwnWrites, PagedInit
  <1>11. QED
    BY <1>5, <1>6, <1>7, <1>8, <1>9, <1>10 DEF PagedInv

(* Where a block is, in terms of the sequences that may hold it.           *)
LEMMA Whereabouts ==
    ASSUME BlocksAccounted, NEW x \in Blocks
    PROVE  /\ isFree[x] <=> Has(free, x)
           /\ Has(free, x) => ~Has(call.held, x)
           /\ \A s \in SeqIds : Has(tables[s].blocks, x) =>
                 /\ ~Has(free, x)
                 /\ ~Has(call.held, x)
                 /\ \A t \in SeqIds : Has(tables[t].blocks, x) => s = t
           /\ Has(free, x) \/ Has(call.held, x) \/ \E s \in live : Has(tables[s].blocks, x)
  BY DEF BlocksAccounted, InFree, InCall, InTable

(* A step that moves no block and touches no data.                         *)
LEMMA NoBlockMoves ==
    ASSUME PagedInv, call.held = <<>>, call'.held = <<>>,
           UNCHANGED <<free, isFree, freeCount, live, tables, store, written>>
    PROVE  BlocksAccounted' /\ Resident' /\ ReadsOwnWrites'
  <1>1. \A b : InFree(b)' = InFree(b) /\ InCall(b)' = InCall(b)
               /\ \A s : InTable(s, b)' = InTable(s, b)
    BY DEF InFree, InCall, InTable, Has
  <1>2. BlocksAccounted'
    BY <1>1 DEF PagedInv, BlocksAccounted, Distinct
  <1>3. Resident'
    BY <1>1 DEF PagedInv, Resident
  <1>4. ReadsOwnWrites'
    BY DEF PagedInv, ReadsOwnWrites, Mapped, Entry, BlockAt
  <1>5. QED
    BY <1>2, <1>3, <1>4

LEMMA AllocateInv ==
    ASSUME PagedInv, NEW n \in 0..MaxTokens, Allocate(n)
    PROVE  PagedInv'
  <1>1. BlocksFor(n) \in Nat
    BY PagedAssumption, BlocksForMonotone
  <1>2. /\ call'.op = "allocate" /\ call'.seq = nextId /\ call'.need = BlocksFor(n)
        /\ call'.tokens = n /\ call'.held = <<>> /\ Len(call'.held) = 0
        /\ call.held = <<>> /\ nextId < MaxId /\ BlocksFor(n) <= freeCount
    BY EmptySeq DEF Allocate, Begin, Rest
  <1>3. call' \in Calls
    BY <1>1, EmptySeq, PagedAssumption DEF Allocate, Begin, Calls, PagedInv, PagedTypeOK
  <1>4. PagedTypeOK'
    BY <1>3 DEF PagedInv, PagedTypeOK, Allocate
  <1>5. CallShape'
    BY <1>1, <1>2, PagedAssumption DEF CallShape, Allocate, BlocksFor, PagedInv, PagedTypeOK
  <1>6. TablesFit'
    BY DEF PagedInv, TablesFit, Allocate, BlocksFor
  <1>7. QED
    BY <1>2, <1>4, <1>5, <1>6, NoBlockMoves DEF PagedInv, Allocate

LEMMA ExtendInv ==
    ASSUME PagedInv, NEW s \in live, NEW n \in 0..MaxTokens, Extend(s, n)
    PROVE  PagedInv'
  <1>1. s \in SeqIds /\ tables[s].tokens \in Nat
    BY DEF PagedInv, PagedTypeOK
  <1>2. MoreBlocks(s, n) \in Nat
    <2>1. tables[s].tokens + n \in Nat /\ tables[s].tokens <= tables[s].tokens + n
      BY <1>1
    <2>2. QED
      BY <1>1, <2>1, PagedAssumption, BlocksForMonotone DEF MoreBlocks
  <1>3. /\ call'.op = "extend" /\ call'.seq = s /\ call'.need = MoreBlocks(s, n)
        /\ call'.tokens = tables[s].tokens + n /\ call'.held = <<>> /\ Len(call'.held) = 0
        /\ call.held = <<>> /\ MoreBlocks(s, n) <= freeCount
        /\ tables[s].tokens + n <= MaxTokens
    BY EmptySeq DEF Extend, Begin, Rest
  <1>4. call' \in Calls
    BY <1>1, <1>2, EmptySeq, PagedAssumption DEF Extend, Begin, Calls, SeqIds
  <1>5. PagedTypeOK'
    BY <1>4 DEF PagedInv, PagedTypeOK, Extend
  <1>6. CallShape'
    BY <1>1, <1>2, <1>3, PagedAssumption
    DEF CallShape, Extend, MoreBlocks, BlocksFor, PagedInv, PagedTypeOK
  <1>7. TablesFit'
    BY DEF PagedInv, TablesFit, Extend, BlocksFor
  <1>8. QED
    BY <1>3, <1>5, <1>6, <1>7, NoBlockMoves DEF PagedInv, Extend

LEMMA FreeEndInv ==
    ASSUME PagedInv, FreeEnd
    PROVE  PagedInv'
  <1>1. call' = Rest /\ call'.held = <<>> /\ call.held = <<>> /\ call'.op = "rest"
    BY DEF FreeEnd, Rest
  <1>2. PagedTypeOK'
    BY EmptySeq DEF PagedInv, PagedTypeOK, FreeEnd, Calls, Rest
  <1>3. CallShape' /\ TablesFit'
    BY <1>1 DEF PagedInv, CallShape, TablesFit, FreeEnd, Rest, BlocksFor
  <1>4. QED
    BY <1>1, <1>2, <1>3, NoBlockMoves DEF PagedInv, FreeEnd

LEMMA ResetInv ==
    ASSUME PagedInv, Reset
    PROVE  PagedInv'
  <1>1. call'.held = <<>> /\ call.held = <<>> /\ call'.op = "reset"
    BY DEF Reset, Rest
  <1>2. PagedTypeOK'
    BY EmptySeq DEF PagedInv, PagedTypeOK, Reset, Calls, Rest
  <1>3. CallShape' /\ TablesFit'
    BY <1>1 DEF PagedInv, CallShape, TablesFit, Reset, BlocksFor
  <1>4. QED
    BY <1>1, <1>2, <1>3, NoBlockMoves DEF PagedInv, Reset

LEMMA ResetEndInv ==
    ASSUME PagedInv, ResetEnd
    PROVE  PagedInv'
  <1>1. call' = Rest /\ call'.held = <<>> /\ call.held = <<>> /\ call'.op = "rest"
    BY DEF ResetEnd, Rest
  <1>2. PagedTypeOK'
    BY EmptySeq, PagedAssumption DEF PagedInv, PagedTypeOK, ResetEnd, Calls, Rest
  <1>3. CallShape' /\ TablesFit'
    BY <1>1 DEF PagedInv, CallShape, TablesFit, ResetEnd, Rest, BlocksFor
  <1>4. QED
    BY <1>1, <1>2, <1>3, NoBlockMoves DEF PagedInv, ResetEnd

LEMMA TakeInv ==
    ASSUME PagedInv, Take
    PROVE  PagedInv'
  <1> DEFINE blk == free[Len(free)]
  <1> USE DEF PagedInv
  <1>0. BlocksAccounted
    OBVIOUS
  <1>1. /\ free \in Seq(Blocks) /\ free # <<>> /\ Distinct(free)
        /\ call.held \in Seq(Blocks) /\ Distinct(call.held)
    BY DEF PagedTypeOK, Calls, BlocksAccounted, Take
  <1>2. /\ Below(free) \in Seq(Blocks) /\ Len(Below(free)) = Len(free) - 1
        /\ Len(free) > 0 /\ blk \in Blocks /\ Has(free, blk) /\ Distinct(Below(free))
        /\ \A x : Has(Below(free), x) <=> Has(free, x) /\ x # blk
    BY <1>1, PopHas
  <1> HIDE DEF blk
  <1>3. isFree[blk] /\ ~Has(call.held, blk)
    BY <1>2 DEF BlocksAccounted, InFree, InCall
  <1>4. /\ Append(call.held, blk) \in Seq(Blocks)
        /\ Len(Append(call.held, blk)) = Len(call.held) + 1
        /\ Distinct(Append(call.held, blk))
        /\ \A x : Has(Append(call.held, blk), x) <=> Has(call.held, x) \/ x = blk
    BY <1>1, <1>2, <1>3, PushHas
  <1>5. /\ free' = Below(free)
        /\ isFree' = [isFree EXCEPT ![blk] = FALSE]
        /\ freeCount' = IF freeCount = 0 THEN 0 ELSE freeCount - 1
        /\ call' = [call EXCEPT !.held = Append(@, blk)]
        /\ call.op \in {"allocate", "extend"} /\ Len(call.held) < call.need
    BY <1>2, <1>3 DEF Take, blk
  <1>6. UNCHANGED <<live, tables, nextId, store, written>>
    BY DEF Take
  <1>7. call'.held = Append(call.held, blk) /\ call'.op = call.op /\ call'.seq = call.seq
        /\ call'.need = call.need /\ call'.tokens = call.tokens /\ call' \in Calls
    BY <1>4, <1>5 DEF PagedTypeOK, Calls
  <1>8. freeCount' = freeCount - 1 /\ freeCount' = Len(free') /\ freeCount' \in Nat
    BY <1>1, <1>2, <1>5, LenProperties DEF BlocksAccounted, PagedTypeOK
  <1>9. \A x : /\ Has(free', x) <=> Has(free, x) /\ x # blk
               /\ Has(call'.held, x) <=> Has(call.held, x) \/ x = blk
    BY <1>2, <1>4, <1>5, <1>7
  <1>10. PagedTypeOK'
    BY <1>2, <1>5, <1>6, <1>7, <1>8 DEF PagedTypeOK
  <1>11. BlocksAccounted'
    <2>1. Distinct(free') /\ Distinct(call'.held) /\ freeCount' = Len(free')
      BY <1>2, <1>4, <1>5, <1>7, <1>8
    <2>2. \A s \in SeqIds : Distinct(tables'[s].blocks)
      BY <1>6 DEF BlocksAccounted
    <2>3. \A x \in Blocks : isFree'[x] = IF x = blk THEN FALSE ELSE isFree[x]
      BY <1>5 DEF PagedTypeOK
    <2>4. \A s \in SeqIds : ~Has(tables[s].blocks, blk)
      BY <1>2 DEF BlocksAccounted, InFree, InTable
    <2>5. ASSUME NEW x \in Blocks
          PROVE  /\ isFree'[x] <=> Has(free', x)
                 /\ Has(free', x) => ~Has(call'.held, x)
                 /\ Has(free', x) \/ Has(call'.held, x)
                       \/ \E s \in live' : Has(tables'[s].blocks, x)
      <3>1. /\ isFree[x] <=> Has(free, x)
            /\ Has(free, x) => ~Has(call.held, x)
            /\ Has(free, x) \/ Has(call.held, x) \/ \E s \in live : Has(tables[s].blocks, x)
        BY <1>0, Whereabouts, Zenon
      <3>2. live' = live /\ tables' = tables
        BY <1>6
      <3>3. CASE x = blk
        BY <1>2, <1>3, <1>9, <2>3, <3>3, Zenon
      <3>4. CASE x # blk
        <4>1. isFree'[x] = isFree[x]
          BY <2>3, <3>4, Zenon
        <4>2. (Has(free', x) <=> Has(free, x)) /\ (Has(call'.held, x) <=> Has(call.held, x))
          BY <1>9, <3>4, Zenon
        <4>3. QED
          BY <3>1, <3>2, <4>1, <4>2, Zenon
      <3>5. QED
        BY <3>3, <3>4, Zenon
    <2>6. ASSUME NEW x \in Blocks, NEW s \in SeqIds, Has(tables'[s].blocks, x)
          PROVE  /\ ~Has(free', x) /\ ~Has(call'.held, x)
                 /\ \A t \in SeqIds : Has(tables'[t].blocks, x) => s = t
      <3>1. tables' = tables /\ Has(tables[s].blocks, x)
        BY <1>6, <2>6
      <3>2. /\ ~Has(free, x) /\ ~Has(call.held, x)
            /\ \A t \in SeqIds : Has(tables[t].blocks, x) => s = t
        BY <1>0, <3>1, Whereabouts, Zenon
      <3>3. x # blk
        BY <2>4, <3>1, Zenon
      <3>4. ~Has(free', x) /\ ~Has(call'.held, x)
        BY <1>9, <3>2, <3>3, Zenon
      <3>5. QED
        BY <3>1, <3>2, <3>4
    <2>7. QED
      BY <2>1, <2>2, <2>5, <2>6 DEF BlocksAccounted, InFree, InCall, InTable
  <1>12. CallShape'
    BY <1>4, <1>5, <1>6, <1>7, <1>8, LenProperties
    DEF CallShape, BlocksFor, PagedTypeOK, Calls
  <1>13. TablesFit' /\ ReadsOwnWrites'
    BY <1>6 DEF TablesFit, BlocksFor, ReadsOwnWrites, Mapped, Entry, BlockAt
  <1>14. Resident'
    BY <1>6 DEF Resident, InTable
  <1>15. QED
    BY <1>10, <1>11, <1>12, <1>13, <1>14

LEMMA FreeInv ==
    ASSUME PagedInv, Free
    PROVE  PagedInv'
  <1> DEFINE blk == Head(call.held)
  <1> USE DEF PagedInv
  <1>0. BlocksAccounted
    OBVIOUS
  <1>1. /\ free \in Seq(Blocks) /\ Distinct(free) /\ call.held # <<>>
        /\ call.held \in Seq(Blocks) /\ Distinct(call.held)
    BY DEF PagedTypeOK, Calls, BlocksAccounted, Free
  <1>2. /\ Tail(call.held) \in Seq(Blocks) /\ blk \in Blocks /\ Has(call.held, blk)
        /\ Distinct(Tail(call.held))
        /\ \A x : Has(Tail(call.held), x) <=> Has(call.held, x) /\ x # blk
    BY <1>1, TailHas
  <1> HIDE DEF blk
  <1>3. ~isFree[blk] /\ ~Has(free, blk)
    BY <1>2 DEF BlocksAccounted, InFree, InCall
  <1>4. /\ Append(free, blk) \in Seq(Blocks) /\ Len(Append(free, blk)) = Len(free) + 1
        /\ Distinct(Append(free, blk))
        /\ \A x : Has(Append(free, blk), x) <=> Has(free, x) \/ x = blk
    BY <1>1, <1>2, <1>3, PushHas
  <1>5. Len(free) < MaxBlocks
    BY <1>1, <1>2, <1>3, FreeBelowTotal, PagedAssumption
  <1>6. /\ free' = Append(free, blk)
        /\ isFree' = [isFree EXCEPT ![blk] = TRUE]
        /\ freeCount' = IF freeCount < MaxBlocks THEN freeCount + 1 ELSE MaxBlocks
        /\ call' = [call EXCEPT !.held = Tail(@)]
        /\ call.op \in {"free", "reset"}
    BY <1>2, <1>3 DEF Free, blk
  <1>7. UNCHANGED <<live, tables, nextId, store, written>>
    BY DEF Free
  <1>8. call'.held = Tail(call.held) /\ call'.op = call.op /\ call' \in Calls
    BY <1>2, <1>6 DEF PagedTypeOK, Calls
  <1>9. freeCount' = Len(free') /\ freeCount' \in Nat
    BY <1>1, <1>4, <1>5, <1>6, LenProperties DEF BlocksAccounted, PagedTypeOK
  <1>10. \A x : /\ Has(free', x) <=> Has(free, x) \/ x = blk
                /\ Has(call'.held, x) <=> Has(call.held, x) /\ x # blk
    BY <1>2, <1>4, <1>6, <1>8
  <1>11. PagedTypeOK'
    BY <1>4, <1>6, <1>7, <1>8, <1>9 DEF PagedTypeOK
  <1>12. BlocksAccounted'
    <2>1. Distinct(free') /\ Distinct(call'.held) /\ freeCount' = Len(free')
      BY <1>2, <1>4, <1>6, <1>8, <1>9
    <2>2. \A s \in SeqIds : Distinct(tables'[s].blocks)
      BY <1>7 DEF BlocksAccounted
    <2>3. \A x \in Blocks : isFree'[x] = IF x = blk THEN TRUE ELSE isFree[x]
      BY <1>6 DEF PagedTypeOK
    <2>4. \A s \in SeqIds : ~Has(tables[s].blocks, blk)
      BY <1>2 DEF BlocksAccounted, InCall, InTable
    <2>5. ASSUME NEW x \in Blocks
          PROVE  /\ isFree'[x] <=> Has(free', x)
                 /\ Has(free', x) => ~Has(call'.held, x)
                 /\ Has(free', x) \/ Has(call'.held, x)
                       \/ \E s \in live' : Has(tables'[s].blocks, x)
      <3>1. /\ isFree[x] <=> Has(free, x)
            /\ Has(free, x) => ~Has(call.held, x)
            /\ Has(free, x) \/ Has(call.held, x) \/ \E s \in live : Has(tables[s].blocks, x)
        BY <1>0, Whereabouts, Zenon
      <3>2. live' = live /\ tables' = tables
        BY <1>7
      <3>3. CASE x = blk
        <4>1. isFree'[x] /\ Has(free', x)
          BY <1>10, <2>3, <3>3, Zenon
        <4>2. ~Has(call'.held, x)
          BY <1>10, <3>3, Zenon
        <4>3. QED
          BY <4>1, <4>2, Zenon
      <3>4. CASE x # blk
        <4>1. isFree'[x] = isFree[x]
          BY <2>3, <3>4, Zenon
        <4>2. (Has(free', x) <=> Has(free, x)) /\ (Has(call'.held, x) <=> Has(call.held, x))
          BY <1>10, <3>4, Zenon
        <4>3. QED
          BY <3>1, <3>2, <4>1, <4>2, Zenon
      <3>5. QED
        BY <3>3, <3>4, Zenon
    <2>6. ASSUME NEW x \in Blocks, NEW s \in SeqIds, Has(tables'[s].blocks, x)
          PROVE  /\ ~Has(free', x) /\ ~Has(call'.held, x)
                 /\ \A t \in SeqIds : Has(tables'[t].blocks, x) => s = t
      <3>1. tables' = tables /\ Has(tables[s].blocks, x)
        BY <1>7, <2>6
      <3>2. /\ ~Has(free, x) /\ ~Has(call.held, x)
            /\ \A t \in SeqIds : Has(tables[t].blocks, x) => s = t
        BY <1>0, <3>1, Whereabouts, Zenon
      <3>3. x # blk
        BY <2>4, <3>1, Zenon
      <3>4. ~Has(free', x) /\ ~Has(call'.held, x)
        BY <1>10, <3>2, <3>3, Zenon
      <3>5. QED
        BY <3>1, <3>2, <3>4
    <2>7. QED
      BY <2>1, <2>2, <2>5, <2>6 DEF BlocksAccounted, InFree, InCall, InTable
  <1>13. CallShape'
    BY <1>6, <1>8 DEF CallShape
  <1>14. TablesFit' /\ ReadsOwnWrites'
    BY <1>7 DEF TablesFit, BlocksFor, ReadsOwnWrites, Mapped, Entry, BlockAt
  <1>15. Resident'
    BY <1>7 DEF Resident, InTable
  <1>16. QED
    BY <1>11, <1>12, <1>13, <1>14, <1>15

(* A sequence leaves: its blocks go from its table to the running call.    *)
LEMMA RemoveInv ==
    ASSUME PagedInv, NEW s \in live, Remove(s), call.held = <<>>,
           call' \in Calls, call'.held = tables[s].blocks, call'.op \in {"free", "reset"},
           UNCHANGED <<free, isFree, freeCount, nextId, store>>
    PROVE  PagedInv'
  <1> USE DEF PagedInv
  <1>1. s \in SeqIds /\ live' = live \ {s}
        /\ tables' = [tables EXCEPT ![s] = EmptyTable]
        /\ written' = [written EXCEPT ![s] = Nothing]
    BY DEF Remove, PagedTypeOK
  <1>2. \A t \in SeqIds :
           /\ tables'[t] = IF t = s THEN EmptyTable ELSE tables[t]
           /\ written'[t] = IF t = s THEN Nothing ELSE written[t]
    BY <1>1 DEF PagedTypeOK
  <1>3. EmptyTable \in [blocks : Seq(Blocks), tokens : Nat]
        /\ EmptyTable.blocks = <<>> /\ Len(EmptyTable.blocks) = 0
    BY EmptySeq DEF EmptyTable
  <1>4. PagedTypeOK'
    <2>1. tables' \in [SeqIds -> [blocks : Seq(Blocks), tokens : Nat]]
      BY <1>1, <1>3 DEF PagedTypeOK
    <2>2. written' \in [SeqIds -> [Layers -> [Positions -> Values \cup {Absent}]]]
      BY <1>1 DEF PagedTypeOK, Nothing
    <2>3. QED
      BY <1>1, <2>1, <2>2 DEF PagedTypeOK
  <1>5. \A x : /\ ~Has(call.held, x)
               /\ \A t \in SeqIds : Has(tables'[t].blocks, x) <=> Has(tables[t].blocks, x) /\ t # s
    BY <1>2, <1>3, EmptySeq DEF Has
  <1>6. BlocksAccounted'
    <2>1. Distinct(free') /\ Distinct(call'.held) /\ freeCount' = Len(free')
      BY <1>1 DEF BlocksAccounted
    <2>2. Distinct(<<>>)
      BY EmptySeq DEF Distinct
    <2>3. \A t \in SeqIds : Distinct(tables'[t].blocks)
      BY <1>2, <1>3, <2>2 DEF BlocksAccounted
    <2>4. ASSUME NEW x \in Blocks, Has(tables[s].blocks, x)
          PROVE  ~Has(free, x) /\ \A t \in SeqIds : Has(tables[t].blocks, x) => t = s
      BY <1>1, <2>4 DEF BlocksAccounted, InTable, InFree
    <2>5. ASSUME NEW x \in Blocks
          PROVE  Has(free', x) \/ Has(call'.held, x) \/ \E t \in live' : Has(tables'[t].blocks, x)
      BY <1>1, <1>5 DEF BlocksAccounted, InTable, InFree, InCall, PagedTypeOK
    <2>6. QED
      BY <1>5, <2>1, <2>3, <2>4, <2>5 DEF BlocksAccounted, InFree, InCall, InTable
  <1>7. CallShape'
    BY DEF CallShape
  <1>8. TablesFit'
    BY <1>1, <1>2 DEF TablesFit, BlocksFor, PagedTypeOK
  <1>9. Resident'
    BY <1>5 DEF Resident, InTable
  <1>10. ReadsOwnWrites'
    <2>1. \A t \in live' : t \in live /\ tables'[t] = tables[t] /\ written'[t] = written[t]
      BY <1>1, <1>2 DEF PagedTypeOK
    <2>2. QED
      BY <2>1 DEF ReadsOwnWrites, Mapped, Entry, BlockAt
  <1>11. QED
    BY <1>4, <1>6, <1>7, <1>8, <1>9, <1>10

LEMMA FreeSequenceInv ==
    ASSUME PagedInv, NEW s \in live, FreeSequence(s)
    PROVE  PagedInv'
  <1>1. s \in SeqIds /\ tables[s].blocks \in Seq(Blocks)
    BY DEF PagedInv, PagedTypeOK
  <1>2. call.held = <<>> /\ call'.held = tables[s].blocks /\ call'.op = "free"
        /\ call' \in Calls
    BY <1>1 DEF FreeSequence, Rest, Calls
  <1>3. QED
    BY <1>2, RemoveInv DEF FreeSequence

LEMMA ResetSequenceInv ==
    ASSUME PagedInv, NEW s \in live, ResetSequence(s)
    PROVE  PagedInv'
  <1>1. s \in SeqIds /\ tables[s].blocks \in Seq(Blocks) /\ call \in Calls
    BY DEF PagedInv, PagedTypeOK
  <1>2. call.held = <<>> /\ call'.held = tables[s].blocks /\ call'.op = "reset"
        /\ call' \in Calls
    BY <1>1 DEF ResetSequence, Calls
  <1>3. QED
    BY <1>2, RemoveInv DEF ResetSequence

(* The place of a mapped position is in the table and in a block.          *)
LEMMA PlaceOf ==
    ASSUME NEW S, NEW s \in Seq(S), NEW B \in Nat \ {0}, NEW p \in Nat, p \div B < Len(s)
    PROVE  /\ p \div B \in Nat /\ p \div B + 1 \in 1..Len(s)
           /\ s[p \div B + 1] \in S /\ Has(s, s[p \div B + 1])
           /\ p % B \in 0..(B - 1)
  <1>1. p \div B \in Nat /\ p % B \in 0..(B - 1) /\ Len(s) \in Nat
    BY DivMod, LenProperties
  <1> DEFINE i == p \div B + 1
  <1>2. i \in 1..Len(s)
    BY <1>1
  <1> HIDE DEF i
  <1>3. s[i] \in S /\ Has(s, s[i])
    BY <1>2, ElementOfSeq DEF Has
  <1>4. QED
    BY <1>1, <1>2, <1>3 DEF i

LEMMA CommitInv ==
    ASSUME PagedInv, Commit
    PROVE  PagedInv'
  <1> DEFINE s == call.seq
             T == tables[s]
             h == call.held
             N == T.blocks \o h
  <1> USE DEF PagedInv
  <1>0. BlocksAccounted /\ BlockSize \in Nat \ {0}
    BY PagedAssumption
  <1>1. /\ call.op \in {"allocate", "extend"} /\ Len(h) = call.need
        /\ h \in Seq(Blocks) /\ Distinct(h) /\ call.tokens \in Nat /\ call.tokens <= MaxTokens
    BY DEF Commit, PagedTypeOK, Calls, BlocksAccounted, CallShape
  <1>2. /\ s \in SeqIds /\ s < nextId' /\ nextId' \in 0..MaxId
        /\ \A t \in live : t < nextId'
        /\ Len(T.blocks) = BlocksFor(T.tokens)
        /\ T.tokens <= call.tokens
        /\ Len(h) = BlocksFor(call.tokens) - BlocksFor(T.tokens)
    <2>1. CASE call.op = "allocate"
      <3>1. s = nextId /\ nextId < MaxId /\ call.need = BlocksFor(call.tokens)
            /\ nextId' = s + 1
        BY <2>1 DEF CallShape, Commit
      <3>2. s \in SeqIds /\ s \notin live /\ nextId' \in 0..MaxId
            /\ \A t \in live : t < nextId'
        BY <3>1, PagedAssumption DEF PagedTypeOK, SeqIds, TablesFit
      <3>3. T = EmptyTable
        BY <3>2 DEF TablesFit
      <3>4. Len(T.blocks) = 0 /\ T.tokens = 0
        BY <3>3, EmptySeq DEF EmptyTable
      <3>5. BlocksFor(call.tokens) \in Nat /\ BlocksFor(T.tokens) = 0
        BY <1>0, <1>1, <3>4, BlocksForZero, BlocksForMonotone
      <3> HIDE DEF T
      <3>6. Len(h) = BlocksFor(call.tokens) - BlocksFor(T.tokens)
        BY <1>1, <3>1, <3>5
      <3>7. s < nextId'
        BY <3>1 DEF PagedTypeOK
      <3>8. QED
        BY <1>1, <3>2, <3>4, <3>5, <3>6, <3>7
    <2>2. CASE call.op = "extend"
      <3>1. s \in live /\ T.tokens <= call.tokens /\ nextId' = nextId
            /\ call.need = BlocksFor(call.tokens) - BlocksFor(T.tokens)
        BY <2>2 DEF CallShape, Commit
      <3>2. QED
        BY <1>1, <3>1 DEF PagedTypeOK, TablesFit
    <2>3. QED
      BY <1>1, <2>1, <2>2
  <1>3. T.blocks \in Seq(Blocks) /\ Distinct(T.blocks) /\ T.tokens \in Nat
    BY <1>2 DEF PagedTypeOK, BlocksAccounted
  <1>4. \A x : ~(Has(T.blocks, x) /\ Has(h, x))
    <2>1. ASSUME NEW x, Has(h, x) PROVE x \in Blocks
      BY <1>1, <2>1, ElementOfSeq DEF Has
    <2>2. QED
      BY <1>0, <1>2, <2>1, Whereabouts
  <1> HIDE DEF s, T, h
  <1>5. /\ N \in Seq(Blocks) /\ Len(N) = Len(T.blocks) + Len(h) /\ Distinct(N)
        /\ \A i \in 1..Len(T.blocks) : N[i] = T.blocks[i]
        /\ \A x : Has(N, x) <=> Has(T.blocks, x) \/ Has(h, x)
    BY <1>1, <1>3, <1>4, ConcatHas
  <1>6. Len(N) = BlocksFor(call.tokens)
    <2>1. BlocksFor(T.tokens) \in Nat /\ BlocksFor(call.tokens) \in Nat
      BY <1>0, <1>1, <1>2, <1>3, BlocksForMonotone
    <2>2. QED
      BY <1>2, <1>5, <2>1
  <1> HIDE DEF N
  <1>7. /\ tables' = [tables EXCEPT ![s] = [blocks |-> N, tokens |-> call.tokens]]
        /\ live' = live \cup {s} /\ store' = Materialised /\ call' = Rest
        /\ UNCHANGED <<free, isFree, freeCount, written>>
    BY DEF Commit, WithBlocks, N, T, h, s
  <1>8. \A t \in SeqIds : tables'[t] = IF t = s THEN [blocks |-> N, tokens |-> call.tokens]
                                               ELSE tables[t]
    BY <1>7 DEF PagedTypeOK
  <1>9. \A l \in Layers, b \in Blocks, o \in Offsets :
           store'[l][b][o] = IF store[l][b][o] = Absent /\ Has(h, b) THEN Zero
                                                                     ELSE store[l][b][o]
    BY <1>7 DEF Materialised, h
  <1>10. call'.held = <<>> /\ call'.op = "rest" /\ \A x : ~Has(call'.held, x)
    BY <1>7, EmptySeq DEF Rest, Has
  <1>11. \A t \in SeqIds : \A x :
            Has(tables'[t].blocks, x) <=> Has(tables[t].blocks, x) \/ (t = s /\ Has(h, x))
    BY <1>5, <1>8 DEF T
  <1>12. PagedTypeOK'
    <2>1. tables' \in [SeqIds -> [blocks : Seq(Blocks), tokens : Nat]]
      BY <1>1, <1>2, <1>5, <1>7 DEF PagedTypeOK
    <2>2. store' \in [Layers -> [Blocks -> [Offsets -> Values \cup {Zero, Absent}]]]
      BY <1>7 DEF PagedTypeOK, Materialised
    <2>3. call' \in Calls
      BY <1>7, EmptySeq DEF Rest, Calls
    <2>4. QED
      BY <1>2, <1>7, <2>1, <2>2, <2>3 DEF PagedTypeOK
  <1>13. BlocksAccounted'
    <2>1. Distinct(free') /\ freeCount' = Len(free')
      BY <1>7 DEF BlocksAccounted
    <2>2. Distinct(call'.held)
      BY <1>10, EmptySeq DEF Distinct
    <2>3. \A t \in SeqIds : Distinct(tables'[t].blocks)
      BY <1>5, <1>8 DEF BlocksAccounted
    <2>4. ASSUME NEW x \in Blocks
          PROVE  /\ isFree'[x] <=> Has(free', x)
                 /\ Has(free', x) => ~Has(call'.held, x)
                 /\ Has(free', x) \/ Has(call'.held, x)
                       \/ \E t \in live' : Has(tables'[t].blocks, x)
      <3>1. /\ isFree[x] <=> Has(free, x)
            /\ Has(free, x) \/ Has(h, x) \/ \E t \in live : Has(tables[t].blocks, x)
        BY <1>0, Whereabouts DEF h
      <3>2. isFree' = isFree /\ free' = free /\ live' = live \cup {s} /\ live \subseteq SeqIds
        BY <1>7 DEF PagedTypeOK
      <3>3. Has(h, x) => Has(tables'[s].blocks, x)
        BY <1>2, <1>11
      <3>4. \A t \in live : Has(tables[t].blocks, x) => Has(tables'[t].blocks, x)
        BY <1>11, <3>2
      <3>5. isFree'[x] <=> Has(free', x)
        BY <3>1, <3>2, Zenon
      <3>6. QED
        BY <1>10, <3>1, <3>2, <3>3, <3>4, <3>5, Zenon
    <2>5. ASSUME NEW x \in Blocks, NEW t \in SeqIds, Has(tables'[t].blocks, x)
          PROVE  /\ ~Has(free', x) /\ ~Has(call'.held, x)
                 /\ \A u \in SeqIds : Has(tables'[u].blocks, x) => t = u
      <3>1. /\ Has(free, x) => ~Has(h, x)
            /\ \A u \in SeqIds : Has(tables[u].blocks, x) =>
                  /\ ~Has(free, x)
                  /\ ~Has(h, x)
                  /\ \A v \in SeqIds : Has(tables[v].blocks, x) => u = v
        BY <1>0, Whereabouts DEF h
      <3>2. \A u \in SeqIds :
               Has(tables'[u].blocks, x) <=> Has(tables[u].blocks, x) \/ (u = s /\ Has(h, x))
        BY <1>11
      <3>3. free' = free
        BY <1>7
      <3>4. QED
        BY <1>10, <2>5, <3>1, <3>2, <3>3, Zenon
    <2>6. QED
      BY <2>1, <2>2, <2>3, <2>4, <2>5 DEF BlocksAccounted, InFree, InCall, InTable
  <1>14. CallShape'
    BY <1>7, <1>10 DEF CallShape, Rest
  <1>15. TablesFit'
    <2>1. \A t \in live' : t < nextId'
      BY <1>2, <1>7
    <2>2. \A t \in live' : Len(tables'[t].blocks) = BlocksFor(tables'[t].tokens)
      BY <1>2, <1>6, <1>7, <1>8 DEF TablesFit, PagedTypeOK
    <2>3. \A t \in SeqIds \ live' : tables'[t] = EmptyTable /\ written'[t] = Nothing
      BY <1>7, <1>8 DEF TablesFit
    <2>4. QED
      BY <2>1, <2>2, <2>3 DEF TablesFit, BlocksFor
  <1>16. Resident'
    <2>1. SUFFICES ASSUME NEW t \in SeqIds, NEW b \in Blocks, NEW l \in Layers,
                          NEW o \in Offsets, Has(tables'[t].blocks, b)
                   PROVE  store'[l][b][o] # Absent
      BY DEF Resident, InTable
    <2>2. store[l][b][o] # Absent \/ Has(h, b)
      BY <1>11, <2>1 DEF Resident, InTable
    <2>3. QED
      BY <1>9, <2>2, PagedAssumption
  <1>17. \A t \in SeqIds, b \in Blocks, l \in Layers, o \in Offsets :
            Has(tables[t].blocks, b) => store'[l][b][o] = store[l][b][o]
    BY <1>9 DEF Resident, InTable
  <1>18. ReadsOwnWrites'
    <2>1. SUFFICES ASSUME NEW t \in live', NEW l \in Layers
                   PROVE  /\ \A p \in Positions : written'[t][l][p] # Absent =>
                                Mapped(t, p)' /\ Entry(t, l, p)' = written'[t][l][p]
                          /\ \A p \in 0..(tables'[t].tokens - 1) :
                                Mapped(t, p)' /\ Entry(t, l, p)' # Absent
      BY DEF ReadsOwnWrites
    <2>2. t \in SeqIds
      BY <1>2, <1>7 DEF PagedTypeOK
    <2>3. ASSUME NEW p \in Positions, written'[t][l][p] # Absent
          PROVE  Mapped(t, p)' /\ Entry(t, l, p)' = written'[t][l][p]
      <3>1. p \in Nat /\ written' = written
        BY <1>7 DEF Positions
      <3>2. t \in live
        BY <1>7, <2>2, <2>3, <3>1 DEF TablesFit, Nothing
      <3>3. Mapped(t, p) /\ Entry(t, l, p) = written[t][l][p]
        BY <2>3, <3>1, <3>2 DEF ReadsOwnWrites
      <3> DEFINE i == p \div BlockSize + 1
                 b == tables[t].blocks[i]
                 o == p % BlockSize
      <3>4. tables[t].blocks \in Seq(Blocks) /\ p \div BlockSize < Len(tables[t].blocks)
        BY <2>2, <3>3 DEF PagedTypeOK, Mapped
      <3>5. /\ p \div BlockSize \in Nat /\ i \in 1..Len(tables[t].blocks) /\ b \in Blocks
            /\ Has(tables[t].blocks, b) /\ o \in 0..(BlockSize - 1)
        BY <1>0, <3>1, <3>4, PlaceOf
      <3>6. Len(tables[t].blocks) \in Nat /\ Len(tables[t].blocks) <= Len(tables'[t].blocks)
            /\ \A j \in 1..Len(tables[t].blocks) : tables'[t].blocks[j] = tables[t].blocks[j]
        <4>1. Len(tables[t].blocks) \in Nat
          BY <3>4, LenProperties
        <4>2. CASE t = s
          <5>1. Len(h) \in Nat
            BY <1>1, LenProperties
          <5>2. tables[t].blocks = T.blocks /\ tables'[t].blocks = N
            BY <1>8, <2>2, <4>2 DEF T
          <5>3. QED
            BY <1>5, <4>1, <5>1, <5>2
        <4>3. CASE t # s
          BY <1>8, <2>2, <4>1, <4>3
        <4>4. QED
          BY <4>2, <4>3
      <3> HIDE DEF i
      <3>7. tables'[t].blocks[i] = b
        BY <3>5, <3>6
      <3>8. Mapped(t, p)'
        BY <3>4, <3>5, <3>6 DEF Mapped
      <3>9. store'[l][b][o] = store[l][b][o]
        BY <1>17, <2>2, <3>5 DEF Offsets
      <3>10. Entry(t, l, p)' = store'[l][tables'[t].blocks[i]][o]
        BY DEF Entry, BlockAt, OffsetAt, i
      <3>11. Entry(t, l, p) = store[l][b][o]
        BY DEF Entry, BlockAt, OffsetAt, i
      <3>12. QED
        BY <3>1, <3>3, <3>7, <3>8, <3>9, <3>10, <3>11
    <2>4. ASSUME NEW p \in 0..(tables'[t].tokens - 1)
          PROVE  Mapped(t, p)' /\ Entry(t, l, p)' # Absent
      <3>1. tables'[t].blocks \in Seq(Blocks) /\ tables'[t].tokens \in Nat
            /\ Len(tables'[t].blocks) = BlocksFor(tables'[t].tokens)
        BY <1>12, <1>15, <2>2 DEF PagedTypeOK, TablesFit, BlocksFor
      <3>2. p \in Nat /\ p \div BlockSize < Len(tables'[t].blocks)
        BY <1>0, <3>1, BlocksForCovers
      <3> DEFINE b == tables'[t].blocks[p \div BlockSize + 1]
                 o == p % BlockSize
      <3>3. b \in Blocks /\ Has(tables'[t].blocks, b) /\ o \in 0..(BlockSize - 1)
        BY <1>0, <3>1, <3>2, PlaceOf
      <3>4. store'[l][b][o] # Absent
        BY <1>16, <2>2, <3>3 DEF Resident, InTable, Offsets
      <3>5. QED
        BY <3>2, <3>4 DEF Mapped, Entry, BlockAt, OffsetAt
    <2>5. QED
      BY <2>3, <2>4
  <1>19. QED
    BY <1>12, <1>13, <1>14, <1>15, <1>16, <1>18

LEMMA UpdateInv ==
    ASSUME PagedInv, NEW s \in live, NEW l \in Layers, NEW start \in Nat, NEW n \in Nat,
           NEW vals \in [1..n -> Values], Update(s, l, start, vals)
    PROVE  PagedInv'
  <1> DEFINE ps == start..(start + n - 1)
             Hit(b, o, p) == BlockAt(s, p) = b /\ OffsetAt(p) = o
             New(b, o) == vals[(CHOOSE p \in ps : Hit(b, o, p)) - start + 1]
  <1> USE DEF PagedInv
  <1>0. BlocksAccounted /\ BlockSize \in Nat \ {0} /\ s \in SeqIds /\ Len(vals) = n
    BY PagedAssumption, LenProperties DEF PagedTypeOK
  <1>1. /\ call = Rest /\ \A p \in ps : p \in Positions /\ Mapped(s, p)
        /\ store' = [store EXCEPT ![l] = [b \in Blocks |-> [o \in Offsets |->
              IF \E p \in ps : Hit(b, o, p) THEN New(b, o) ELSE store[l][b][o]]]]
        /\ written' = [written EXCEPT ![s] = [written[s] EXCEPT ![l] =
              [p \in Positions |->
                 IF p \in ps THEN vals[p - start + 1] ELSE written[s][l][p]]]]
        /\ UNCHANGED <<free, isFree, freeCount, live, tables, nextId, call>>
    BY <1>0 DEF Update
  <1> HIDE DEF Hit, New
  <1>2. \A p \in ps : vals[p - start + 1] \in Values
    BY SMT
  <1>3. \A b, o : (\E p \in ps : Hit(b, o, p)) => New(b, o) \in Values
    BY <1>2 DEF New
  <1> HIDE DEF ps
  <1>4. \A m \in Layers, b \in Blocks, o \in Offsets : store'[m][b][o] =
           IF m = l /\ \E p \in ps : Hit(b, o, p) THEN New(b, o) ELSE store[m][b][o]
    BY <1>1 DEF PagedTypeOK
  <1>5. \A t \in SeqIds, m \in Layers, p \in Positions : written'[t][m][p] =
           IF t = s /\ m = l /\ p \in ps THEN vals[p - start + 1] ELSE written[t][m][p]
    BY <1>0, <1>1 DEF PagedTypeOK
  <1>6. PagedTypeOK'
    <2>1. store' \in [Layers -> [Blocks -> [Offsets -> Values \cup {Zero, Absent}]]]
      <3>1. [b \in Blocks |-> [o \in Offsets |->
                IF \E p \in ps : Hit(b, o, p) THEN New(b, o) ELSE store[l][b][o]]]
               \in [Blocks -> [Offsets -> Values \cup {Zero, Absent}]]
        BY <1>3 DEF PagedTypeOK
      <3>2. QED
        BY <1>1, <3>1 DEF PagedTypeOK
    <2>2. written' \in [SeqIds -> [Layers -> [Positions -> Values \cup {Absent}]]]
      <3>1. [p \in Positions |->
                IF p \in ps THEN vals[p - start + 1] ELSE written[s][l][p]]
               \in [Positions -> Values \cup {Absent}]
        BY <1>0, <1>2 DEF PagedTypeOK
      <3>2. [written[s] EXCEPT ![l] = [p \in Positions |->
                IF p \in ps THEN vals[p - start + 1] ELSE written[s][l][p]]]
               \in [Layers -> [Positions -> Values \cup {Absent}]]
        BY <1>0, <3>1 DEF PagedTypeOK
      <3>3. QED
        BY <1>1, <3>2 DEF PagedTypeOK
    <2>3. QED
      BY <1>1, <2>1, <2>2 DEF PagedTypeOK
  <1>7. BlocksAccounted'
    BY <1>1 DEF BlocksAccounted, InFree, InCall, InTable
  <1>8. CallShape'
    BY <1>1 DEF CallShape, BlocksFor
  <1>9. TablesFit'
    <2>1. \A t \in SeqIds \ live : written'[t] = written[t]
      BY <1>1 DEF PagedTypeOK
    <2>2. QED
      BY <1>1, <2>1 DEF TablesFit, BlocksFor
  <1>10. Resident'
    <2>1. SUFFICES ASSUME NEW t \in SeqIds, NEW b \in Blocks, NEW m \in Layers,
                          NEW o \in Offsets, Has(tables[t].blocks, b)
                   PROVE  store'[m][b][o] # Absent
      BY <1>1 DEF Resident, InTable
    <2>2. store[m][b][o] # Absent
      BY <2>1 DEF Resident, InTable
    <2>3. QED
      BY <1>3, <1>4, <2>2, PagedAssumption
  <1>11. ASSUME NEW t \in SeqIds, NEW p \in Nat, Mapped(t, p)
         PROVE  /\ BlockAt(t, p) \in Blocks /\ OffsetAt(p) \in Offsets
                /\ Has(tables[t].blocks, BlockAt(t, p))
    <2>1. tables[t].blocks \in Seq(Blocks) /\ p \div BlockSize < Len(tables[t].blocks)
      BY <1>11 DEF PagedTypeOK, Mapped
    <2>2. QED
      BY <1>0, <2>1, PlaceOf DEF BlockAt, OffsetAt, Offsets
  <1>12. \A p \in ps : p \in Nat /\ Mapped(s, p)
    BY <1>1 DEF Positions
  <1>13. ASSUME NEW t \in SeqIds, NEW p \in Nat, Mapped(t, p),
                NEW q \in ps, Hit(BlockAt(t, p), OffsetAt(p), q)
         PROVE  t = s /\ q = p
    <2>1. BlockAt(s, q) = BlockAt(t, p) /\ OffsetAt(q) = OffsetAt(p)
      BY <1>13 DEF Hit
    <2>2. /\ BlockAt(t, p) \in Blocks /\ Has(tables[t].blocks, BlockAt(t, p))
          /\ Has(tables[s].blocks, BlockAt(s, q))
      BY <1>0, <1>11, <1>12, <1>13
    <2>3. t = s
      BY <1>0, <2>1, <2>2, Whereabouts, Zenon
    <2> DEFINE T == tables[s].blocks
               i == p \div BlockSize + 1
               j == q \div BlockSize + 1
    <2>4. T \in Seq(Blocks) /\ Distinct(T)
      BY <1>0 DEF PagedTypeOK, BlocksAccounted
    <2>5. p \div BlockSize < Len(T) /\ q \div BlockSize < Len(T) /\ q \in Nat
      BY <1>12, <1>13, <2>3 DEF Mapped
    <2>6. /\ p \div BlockSize \in Nat /\ i \in 1..Len(T)
          /\ q \div BlockSize \in Nat /\ j \in 1..Len(T)
      BY <1>0, <2>4, <2>5, PlaceOf
    <2>7. T[i] = T[j]
      BY <2>1, <2>3 DEF BlockAt
    <2> HIDE DEF T, i, j
    <2>8. i = j
      BY <2>4, <2>6, <2>7 DEF Distinct
    <2>9. p \div BlockSize = q \div BlockSize
      BY <2>6, <2>8 DEF i, j
    <2>10. p % BlockSize = q % BlockSize
      BY <2>1 DEF OffsetAt
    <2>11. QED
      BY <1>0, <2>3, <2>5, <2>9, <2>10, SamePlace
  <1>14. ReadsOwnWrites'
    <2>1. SUFFICES ASSUME NEW t \in live, NEW m \in Layers
                   PROVE  /\ \A p \in Positions : written'[t][m][p] # Absent =>
                                Mapped(t, p)' /\ Entry(t, m, p)' = written'[t][m][p]
                          /\ \A p \in 0..(tables'[t].tokens - 1) :
                                Mapped(t, p)' /\ Entry(t, m, p)' # Absent
      BY <1>1 DEF ReadsOwnWrites
    <2>2. t \in SeqIds /\ tables' = tables
      BY <1>1 DEF PagedTypeOK
    <2>3. \A p : /\ Mapped(t, p)' <=> Mapped(t, p)
                 /\ Entry(t, m, p)' = store'[m][BlockAt(t, p)][OffsetAt(p)]
                 /\ Entry(t, m, p) = store[m][BlockAt(t, p)][OffsetAt(p)]
      BY <2>2 DEF Mapped, Entry, BlockAt, OffsetAt
    <2>4. ASSUME NEW p \in Positions, written'[t][m][p] # Absent
          PROVE  Mapped(t, p)' /\ Entry(t, m, p)' = written'[t][m][p]
      <3>1. p \in Nat
        BY DEF Positions
      <3>2. CASE t = s /\ m = l /\ p \in ps
        <4>1. written'[t][m][p] = vals[p - start + 1]
          BY <1>5, <2>2, <3>2
        <4>2. Mapped(t, p) /\ BlockAt(t, p) \in Blocks /\ OffsetAt(p) \in Offsets
          BY <1>11, <1>12, <2>2, <3>1, <3>2
        <4>3. Hit(BlockAt(t, p), OffsetAt(p), p)
          BY <3>2 DEF Hit
        <4>4. (CHOOSE q \in ps : Hit(BlockAt(t, p), OffsetAt(p), q)) = p
          BY <1>13, <2>2, <3>1, <3>2, <4>2, <4>3
        <4>5. New(BlockAt(t, p), OffsetAt(p)) = vals[p - start + 1]
          BY <4>4 DEF New
        <4>6. store'[m][BlockAt(t, p)][OffsetAt(p)] = vals[p - start + 1]
          BY <1>4, <3>2, <4>2, <4>3, <4>5
        <4>7. QED
          BY <2>3, <4>1, <4>2, <4>6
      <3>3. CASE ~(t = s /\ m = l /\ p \in ps)
        <4>1. written'[t][m][p] = written[t][m][p]
          BY <1>5, <2>2, <3>3
        <4>2. Mapped(t, p) /\ Entry(t, m, p) = written[t][m][p]
          BY <2>4, <4>1 DEF ReadsOwnWrites
        <4>3. BlockAt(t, p) \in Blocks /\ OffsetAt(p) \in Offsets
          BY <1>11, <2>2, <3>1, <4>2
        <4>4. ~(m = l /\ \E q \in ps : Hit(BlockAt(t, p), OffsetAt(p), q))
          BY <1>13, <2>2, <3>1, <3>3, <4>2
        <4>5. store'[m][BlockAt(t, p)][OffsetAt(p)] = store[m][BlockAt(t, p)][OffsetAt(p)]
          BY <1>4, <4>3, <4>4
        <4>6. QED
          BY <2>3, <4>1, <4>2, <4>5
      <3>4. QED
        BY <3>2, <3>3
    <2>5. ASSUME NEW p \in 0..(tables'[t].tokens - 1)
          PROVE  Mapped(t, p)' /\ Entry(t, m, p)' # Absent
      <3>1. p \in Nat /\ Mapped(t, p)
        BY <2>2 DEF ReadsOwnWrites, PagedTypeOK
      <3>2. /\ BlockAt(t, p) \in Blocks /\ OffsetAt(p) \in Offsets
            /\ Has(tables[t].blocks, BlockAt(t, p))
        BY <1>11, <2>2, <3>1
      <3>3. store'[m][BlockAt(t, p)][OffsetAt(p)] # Absent
        BY <1>10, <2>2, <3>2 DEF Resident, InTable
      <3>4. QED
        BY <2>3, <3>1, <3>3
    <2>6. QED
      BY <2>4, <2>5
  <1>15. QED
    BY <1>6, <1>7, <1>8, <1>9, <1>10, <1>14

LEMMA StutterInv ==
    ASSUME PagedInv, UNCHANGED pagedVars
    PROVE  PagedInv'
  <1>1. PagedTypeOK' /\ BlocksAccounted' /\ CallShape' /\ TablesFit' /\ Resident'
    BY DEF PagedInv, pagedVars, PagedTypeOK, BlocksAccounted, InFree, InCall, InTable,
           CallShape, BlocksFor, TablesFit, Resident
  <1>2. ReadsOwnWrites'
    BY DEF PagedInv, pagedVars, ReadsOwnWrites, Mapped, Entry, BlockAt
  <1>3. QED
    BY <1>1, <1>2 DEF PagedInv

LEMMA StepInv == PagedInv /\ [PagedNext]_pagedVars => PagedInv'
  <1>1. SUFFICES ASSUME PagedInv, [PagedNext]_pagedVars PROVE PagedInv'
    OBVIOUS
  <1>2. CASE UpdateAny
    <2>1. PICK s \in live, l \in Layers :
             \E start \in 0..(BlockSize * Len(tables[s].blocks)), n \in 1..MaxUpdate :
                \E vals \in [1..n -> Values] : Update(s, l, start, vals)
      BY <1>2, Zenon DEF UpdateAny
    <2>2. PICK start \in 0..(BlockSize * Len(tables[s].blocks)), n \in 1..MaxUpdate :
             \E vals \in [1..n -> Values] : Update(s, l, start, vals)
      BY <2>1, Zenon
    <2>3. PICK vals \in [1..n -> Values] : Update(s, l, start, vals)
      BY <2>2, Zenon
    <2>4. start \in Nat /\ n \in Nat
      BY <2>2
    <2>5. QED
      BY <1>1, <2>3, <2>4, UpdateInv
  <1>3. QED
    BY <1>1, <1>2, AllocateInv, ExtendInv, TakeInv, CommitInv, FreeSequenceInv, FreeInv,
       FreeEndInv, ResetInv, ResetSequenceInv, ResetEndInv, StutterInv
    DEF PagedNext

(***************************************************************************)
(* The theorems.                                                           *)
(***************************************************************************)

(* Every state of the cache satisfies the inductive invariant: an          *)
(* allocation that passed its count check gets all its blocks.             *)
THEOREM PagedInvariance == PagedSpec => []PagedInv
  <1>1. QED
    BY InitInv, StepInv, PTL DEF PagedSpec

(* No block is lost or shared, whatever is allocated, extended and freed.  *)
THEOREM PagedAccounted == PagedSpec => []BlocksAccounted
  <1>1. PagedInv => BlocksAccounted
    BY DEF PagedInv
  <1>2. QED
    BY PagedInvariance, <1>1, PTL

(* A sequence reads back what it wrote.                                    *)
THEOREM PagedReads == PagedSpec => []ReadsOwnWrites
  <1>1. PagedInv => ReadsOwnWrites
    BY DEF PagedInv
  <1>2. QED
    BY PagedInvariance, <1>1, PTL
==============================================================================
