------------------------ MODULE GitHubListingProofs ------------------------
(***************************************************************************)
(* The Tail holds the end of what was written, for every capacity, every   *)
(* kind of byte and writes of any size; and a listing that reads its pages *)
(* through it misses no more than has vanished meanwhile and names each    *)
(* issue once, for every number of items and every size of page.           *)
(***************************************************************************)
EXTENDS GitHubListing, SequenceTheorems, FiniteSetTheorems, WellFoundedInduction, TLAPS

\* What is left when n elements are dropped.
LEMMA SkipProperties ==
    ASSUME NEW S, NEW s \in Seq(S), NEW n \in 0..Len(s)
    PROVE  /\ Skip(s, n) \in Seq(S)
           /\ Len(Skip(s, n)) = Len(s) - n
           /\ \A i \in 1..Len(s) - n : Skip(s, n)[i] = s[n + i]
<1>1. Len(s) \in Nat /\ n + 1 \in Int /\ n \in Nat
  BY LenProperties
<1>2. \A i \in n + 1..Len(s) : s[i] \in S
  BY <1>1, ElementOfSeq
<1>3. /\ SubSeq(s, n + 1, Len(s)) \in Seq(S)
      /\ Len(SubSeq(s, n + 1, Len(s))) = IF n + 1 <= Len(s) THEN Len(s) - (n + 1) + 1 ELSE 0
      /\ \A i \in 1..Len(s) - (n + 1) + 1 : SubSeq(s, n + 1, Len(s))[i] = s[n + 1 + i - 1]
  BY <1>1, <1>2, SubSeqProperties
<1>4. Len(Skip(s, n)) = Len(s) - n
  BY <1>1, <1>3 DEF Skip
<1>5. \A i \in 1..Len(s) - n : Skip(s, n)[i] = s[n + i]
  BY <1>1, <1>3 DEF Skip
<1> QED
  BY <1>3, <1>4, <1>5 DEF Skip

\* The last n elements, or all of them.
LEMMA EndProperties ==
    ASSUME NEW S, NEW s \in Seq(S), NEW n \in Nat
    PROVE  /\ EndOf(s, n) \in Seq(S)
           /\ Len(EndOf(s, n)) = IF Len(s) > n THEN n ELSE Len(s)
           /\ \A i \in 1..Len(EndOf(s, n)) : EndOf(s, n)[i] = s[Len(s) - Len(EndOf(s, n)) + i]
<1>1. Len(s) \in Nat
  BY LenProperties
<1>2. CASE Len(s) > n
  <2>1. Len(s) - n \in 0..Len(s)
    BY <1>1, <1>2
  <2>2. EndOf(s, n) = Skip(s, Len(s) - n)
    BY <1>2 DEF EndOf
  <2>3. /\ Skip(s, Len(s) - n) \in Seq(S)
        /\ Len(Skip(s, Len(s) - n)) = Len(s) - (Len(s) - n)
        /\ \A i \in 1..Len(s) - (Len(s) - n) : Skip(s, Len(s) - n)[i] = s[Len(s) - n + i]
    BY <2>1, SkipProperties
  <2> QED
    BY <1>1, <1>2, <2>2, <2>3
<1>3. CASE ~(Len(s) > n)
  BY <1>1, <1>3 DEF EndOf
<1> QED
  BY <1>2, <1>3

\* s ends in e.
Ends(s, e) == Len(e) <= Len(s) /\ \A i \in 1..Len(e) : e[i] = s[Len(s) - Len(e) + i]

LEMMA EndOfEnds ==
    ASSUME NEW S, NEW s \in Seq(S), NEW n \in Nat
    PROVE  /\ EndOf(s, n) \in Seq(S)
           /\ Len(EndOf(s, n)) = IF Len(s) > n THEN n ELSE Len(s)
           /\ Ends(s, EndOf(s, n))
<1>1. Len(s) \in Nat
  BY LenProperties
<1>2. /\ EndOf(s, n) \in Seq(S)
      /\ Len(EndOf(s, n)) = IF Len(s) > n THEN n ELSE Len(s)
      /\ \A i \in 1..Len(EndOf(s, n)) : EndOf(s, n)[i] = s[Len(s) - Len(EndOf(s, n)) + i]
  BY EndProperties
<1>3. Len(EndOf(s, n)) <= Len(s)
  BY <1>1, <1>2
<1> QED
  BY <1>2, <1>3 DEF Ends

LEMMA SkipEnds ==
    ASSUME NEW S, NEW s \in Seq(S), NEW n \in Int, n <= Len(s),
           NEW e, e = IF n > 0 THEN Skip(s, n) ELSE s
    PROVE  /\ e \in Seq(S)
           /\ Len(e) = IF n > 0 THEN Len(s) - n ELSE Len(s)
           /\ Ends(s, e)
<1>1. Len(s) \in Nat
  BY LenProperties
<1>2. CASE n > 0
  <2>1. n \in 0..Len(s)
    BY <1>1, <1>2
  <2>2. /\ Skip(s, n) \in Seq(S)
        /\ Len(Skip(s, n)) = Len(s) - n
        /\ \A i \in 1..Len(s) - n : Skip(s, n)[i] = s[n + i]
    BY <2>1, SkipProperties
  <2>3. Len(s) - (Len(s) - n) = n /\ Len(s) - n <= Len(s)
    BY <1>1, <1>2
  <2> QED
    BY <1>2, <2>2, <2>3 DEF Ends
<1>3. CASE ~(n > 0)
  <2>1. \A i \in 1..Len(s) : Len(s) - Len(s) + i = i
    BY <1>1
  <2> QED
    BY <1>1, <1>3, <2>1 DEF Ends
<1> QED
  BY <1>2, <1>3

LEMMA EndsTransitive ==
    ASSUME NEW S, NEW s \in Seq(S), NEW b \in Seq(S), NEW e \in Seq(S), Ends(s, b), Ends(b, e)
    PROVE  Ends(s, e)
<1>1. Len(s) \in Nat /\ Len(b) \in Nat /\ Len(e) \in Nat
  BY LenProperties
<1>2. Len(e) <= Len(b) /\ Len(b) <= Len(s)
  BY DEF Ends
<1>3. ASSUME NEW i \in 1..Len(e) PROVE e[i] = s[Len(s) - Len(e) + i]
  <2>1. e[i] = b[Len(b) - Len(e) + i]
    BY DEF Ends
  <2>2. Len(b) - Len(e) + i \in 1..Len(b)
    BY <1>1, <1>2
  <2>3. b[Len(b) - Len(e) + i] = s[Len(s) - Len(b) + (Len(b) - Len(e) + i)]
    BY <2>2 DEF Ends
  <2>4. Len(s) - Len(b) + (Len(b) - Len(e) + i) = Len(s) - Len(e) + i
    BY <1>1
  <2> QED
    BY <2>1, <2>3, <2>4
<1>4. Len(e) <= Len(s)
  BY <1>1, <1>2
<1> QED
  BY <1>3, <1>4 DEF Ends

\* An end is determined by its length.
LEMMA EndsEqual ==
    ASSUME NEW S, NEW s \in Seq(S), NEW d \in Seq(S), NEW e \in Seq(S),
           Ends(s, d), Ends(s, e), Len(d) = Len(e)
    PROVE  d = e
<1>1. \A i \in 1..Len(d) : d[i] = e[i]
  BY DEF Ends
<1> QED
  BY <1>1, SeqEqual

\* What s \o p ends in: all of p and an end of s, or an end of p alone.
LEMMA ConcatEnds ==
    ASSUME NEW S, NEW s \in Seq(S), NEW p \in Seq(S), NEW k \in Seq(S), NEW q \in Seq(S),
           Ends(s, k), Ends(p, q), Len(k) = 0 \/ Len(q) = Len(p)
    PROVE  Ends(s \o p, k \o q)
<1>1. Len(s) \in Nat /\ Len(p) \in Nat /\ Len(k) \in Nat /\ Len(q) \in Nat
  BY LenProperties
<1>2. Len(k) <= Len(s) /\ Len(q) <= Len(p)
  BY DEF Ends
<1>3. Len(s \o p) = Len(s) + Len(p) /\ Len(k \o q) = Len(k) + Len(q)
  BY ConcatProperties
<1>4. \A i \in 1..Len(s) + Len(p) : (s \o p)[i] = IF i <= Len(s) THEN s[i] ELSE p[i - Len(s)]
  BY ConcatProperties
<1>5. \A i \in 1..Len(k) + Len(q) : (k \o q)[i] = IF i <= Len(k) THEN k[i] ELSE q[i - Len(k)]
  BY ConcatProperties
<1>6. ASSUME NEW i \in 1..Len(k) + Len(q)
      PROVE  (k \o q)[i] = (s \o p)[Len(s) + Len(p) - (Len(k) + Len(q)) + i]
  <2>0. Len(s) + Len(p) - (Len(k) + Len(q)) + i \in Int
    BY <1>1
  <2>1. PICK j \in Int : j = Len(s) + Len(p) - (Len(k) + Len(q)) + i
    BY <2>0
  <2>2. j \in 1..Len(s) + Len(p)
    BY <1>1, <1>2, <2>1
  <2>3. CASE i <= Len(k)
    <3>0. Len(k) # 0 /\ i \in 1..Len(k)
      BY <1>1, <2>3
    <3>4. Len(q) = Len(p)
      BY <3>0
    <3>1. j = Len(s) - Len(k) + i /\ j <= Len(s) /\ i \in 1..Len(k)
      BY <1>1, <1>2, <2>1, <2>3, <3>0, <3>4
    <3>2. k[i] = s[j]
      BY <3>1 DEF Ends
    <3>3. (k \o q)[i] = k[i] /\ (s \o p)[j] = s[j]
      BY <1>4, <1>5, <2>2, <2>3, <3>1
    <3> QED
      BY <2>1, <3>2, <3>3
  <2>4. CASE ~(i <= Len(k))
    <3>1. /\ i - Len(k) \in 1..Len(q) /\ ~(j <= Len(s))
          /\ j - Len(s) = Len(p) - Len(q) + (i - Len(k))
      BY <1>1, <1>2, <2>1, <2>4
    <3>2. q[i - Len(k)] = p[j - Len(s)]
      BY <3>1 DEF Ends
    <3>3. (k \o q)[i] = q[i - Len(k)] /\ (s \o p)[j] = p[j - Len(s)]
      BY <1>4, <1>5, <2>2, <2>4, <3>1
    <3> QED
      BY <2>1, <3>2, <3>3
  <2> QED
    BY <2>3, <2>4
<1>7. Len(k) + Len(q) <= Len(s) + Len(p)
  BY <1>1, <1>2
<1> QED
  BY <1>3, <1>6, <1>7 DEF Ends

\* What Write makes of Bytes b and a trimmed p.
Written(b, q, n) ==
    (IF Len(b) + Len(q) - n > 0 THEN Skip(b, Len(b) + Len(q) - n) ELSE b) \o q

\* Trimming on both sides of a write is trimming after it.
LEMMA EndOfConcat ==
    ASSUME NEW S, NEW s \in Seq(S), NEW p \in Seq(S), NEW n \in Nat
    PROVE  Written(EndOf(s, n), EndOf(p, n), n) = EndOf(s \o p, n)
<1> DEFINE b    == EndOf(s, n)
           q    == EndOf(p, n)
           kept == IF Len(b) + Len(q) - n > 0 THEN Skip(b, Len(b) + Len(q) - n) ELSE b
<1>1. Len(s) \in Nat /\ Len(p) \in Nat
  BY LenProperties
<1>2. b \in Seq(S) /\ Ends(s, b) /\ Len(b) = IF Len(s) > n THEN n ELSE Len(s)
  BY EndOfEnds
<1>3. q \in Seq(S) /\ Ends(p, q) /\ Len(q) = IF Len(p) > n THEN n ELSE Len(p)
  BY EndOfEnds
<1>0. Len(b) + Len(q) - n \in Int
  BY <1>1, <1>2, <1>3
<1> HIDE DEF b, q
<1>4. PICK x \in Int : x = Len(b) + Len(q) - n
  BY <1>0
<1>5. x <= Len(b)
  BY <1>1, <1>2, <1>3, <1>4
<1>6. kept = IF x > 0 THEN Skip(b, x) ELSE b
  BY <1>4
<1> HIDE DEF kept
<1>7. kept \in Seq(S) /\ Ends(b, kept) /\ Len(kept) = IF x > 0 THEN Len(b) - x ELSE Len(b)
  BY <1>2, <1>5, <1>6, SkipEnds
<1>8. Ends(s, kept)
  BY <1>2, <1>7, EndsTransitive
<1>9. /\ Len(kept) = 0 \/ Len(q) = Len(p)
      /\ Len(kept) + Len(q) = IF Len(s) + Len(p) > n THEN n ELSE Len(s) + Len(p)
  <2>1. PICK ls \in Nat, lp \in Nat : ls = Len(s) /\ lp = Len(p)
    BY <1>1
  <2>2. PICK lb : lb = Len(b)
    OBVIOUS
  <2>3. PICK lq : lq = Len(q)
    OBVIOUS
  <2>4. PICK lk : lk = Len(kept)
    OBVIOUS
  <2>5. /\ lb = IF ls > n THEN n ELSE ls
        /\ lq = IF lp > n THEN n ELSE lp
        /\ x = lb + lq - n
        /\ lk = IF x > 0 THEN lb - x ELSE lb
    BY <1>2, <1>3, <1>4, <1>7, <2>1, <2>2, <2>3, <2>4
  <2>6. lk = 0 \/ lq = lp
    BY <2>5
  <2>7. lk + lq = IF ls + lp > n THEN n ELSE ls + lp
    BY <2>5
  <2> QED
    BY <2>1, <2>2, <2>3, <2>4, <2>6, <2>7
<1>10. Ends(s \o p, kept \o q)
  BY <1>3, <1>7, <1>8, <1>9, ConcatEnds
<1>11. /\ s \o p \in Seq(S) /\ Len(s \o p) = Len(s) + Len(p)
       /\ kept \o q \in Seq(S) /\ Len(kept \o q) = Len(kept) + Len(q)
  BY <1>3, <1>7, ConcatProperties
<1>12. /\ EndOf(s \o p, n) \in Seq(S) /\ Ends(s \o p, EndOf(s \o p, n))
       /\ Len(EndOf(s \o p, n)) = IF Len(s \o p) > n THEN n ELSE Len(s \o p)
  BY <1>11, EndOfEnds
<1>13. Len(kept \o q) = Len(EndOf(s \o p, n))
  BY <1>9, <1>11, <1>12
<1>14. kept \o q = EndOf(s \o p, n)
  BY <1>10, <1>11, <1>12, <1>13, EndsEqual
<1> QED
  BY <1>14 DEF Written, kept, b, q
-----------------------------------------------------------------------------
TailInv ==
    /\ printed \in Seq(Byte)
    /\ TailHoldsEnd

\* A write keeps the Tail at the end of what was written.
LEMMA WriteStep ==
    ASSUME Capacity \in Nat, TailInv, NEW p \in Seq(Byte), Write(p)
    PROVE  TailInv'
<1>1. printed \in Seq(Byte) /\ Len(printed) \in Nat /\ Len(p) \in Nat
  BY LenProperties DEF TailInv
<1>2. bytes = EndOf(printed, Capacity) /\ (truncated <=> Len(printed) > Capacity)
  BY DEF TailInv, TailHoldsEnd
<1>3. PICK q : q = EndOf(p, Capacity)
  OBVIOUS
<1>4. PICK b : b = bytes
  OBVIOUS
<1>6. bytes' = Written(b, q, Capacity)
  BY <1>3, <1>4 DEF Write, Written
<1>7. printed' = printed \o p
  BY DEF Write
<1>8. printed \o p \in Seq(Byte) /\ Len(printed \o p) = Len(printed) + Len(p)
  BY <1>1, ConcatProperties
<1>9. Written(b, q, Capacity) = EndOf(printed \o p, Capacity)
  <2>1. PICK w : w = printed
    OBVIOUS
  <2>2. w \in Seq(Byte) /\ b = EndOf(w, Capacity)
    BY <1>1, <1>2, <1>4, <2>1
  <2>3. Written(EndOf(w, Capacity), EndOf(p, Capacity), Capacity) = EndOf(w \o p, Capacity)
    BY <2>2, EndOfConcat
  <2> QED
    BY <1>3, <2>1, <2>2, <2>3
<1>10. truncated' <=> truncated \/ Len(p) > Capacity \/ Len(b) + Len(q) - Capacity > 0
  BY <1>3, <1>4 DEF Write
<1>11. /\ Len(b) = IF Len(printed) > Capacity THEN Capacity ELSE Len(printed)
       /\ Len(q) = IF Len(p) > Capacity THEN Capacity ELSE Len(p)
  BY <1>1, <1>2, <1>3, <1>4, EndProperties
<1>12. truncated' <=> Len(printed) + Len(p) > Capacity
  <2>0. PICK lw \in Nat, lp \in Nat, lb \in Nat, lq \in Nat :
            lw = Len(printed) /\ lp = Len(p) /\ lb = Len(b) /\ lq = Len(q)
    BY <1>1, <1>11
  <2>1. Len(printed) > Capacity \/ Len(p) > Capacity \/ Len(b) + Len(q) - Capacity > 0
            <=> Len(printed) + Len(p) > Capacity
    <3>1. /\ lb = IF lw > Capacity THEN Capacity ELSE lw
          /\ lq = IF lp > Capacity THEN Capacity ELSE lp
      BY <1>11, <2>0
    <3>2. lw > Capacity \/ lp > Capacity \/ lb + lq - Capacity > 0 <=> lw + lp > Capacity
      BY <3>1
    <3> QED
      BY <2>0, <3>2
  <2>2. truncated' <=> Len(printed) > Capacity \/ Len(p) > Capacity \/ Len(b) + Len(q) - Capacity > 0
    BY <1>2, <1>10
  <2> QED
    BY <2>1, <2>2
<1>13. bytes' = EndOf(printed', Capacity) /\ (truncated' <=> Len(printed') > Capacity)
  BY <1>6, <1>7, <1>8, <1>9, <1>12
<1> QED
  BY <1>7, <1>8, <1>13 DEF TailInv, TailHoldsEnd

\* A Tail holds the end of what a command wrote, and a Tail that is not marked
\* truncated holds all of it, whatever the sizes of the writes: so Run, which
\* refuses truncated output, never hands on a part of it (osrun/run.go:82-88).
THEOREM TailKeepsEnd == ASSUME Capacity \in Nat PROVE TailSpec => []TailHoldsEnd
<1>1. Empty => TailInv
  BY EmptySeq DEF Empty, TailInv, TailHoldsEnd, EndOf
<1>2. TailInv /\ [TailNext]_tail => TailInv'
  <2> SUFFICES ASSUME TailInv, [TailNext]_tail PROVE TailInv'
    OBVIOUS
  <2>1. CASE Reset
    BY <2>1, EmptySeq DEF Reset, TailInv, TailHoldsEnd, EndOf
  <2>2. CASE \E p \in Seq(Byte) : Write(p)
    BY <2>2, WriteStep
  <2>3. CASE UNCHANGED tail
    BY <2>3 DEF tail, TailInv, TailHoldsEnd
  <2> QED
    BY <2>1, <2>2, <2>3 DEF TailNext
<1>3. TailInv => TailHoldsEnd
  BY DEF TailInv
<1> QED
  BY <1>1, <1>2, <1>3, PTL DEF TailSpec
-----------------------------------------------------------------------------
(***************************************************************************)
(* A page is told from its JSON: two arrays with the same text are equal.  *)
(***************************************************************************)
LEMMA BeginProperties ==
    ASSUME NEW items, NEW k \in Nat, NEW l \in Nat, k <= l
    PROVE  /\ Begin(items, k) \in Nat /\ Begin(items, l) \in Nat
           /\ Begin(items, k) > k /\ Begin(items, l) - l >= Begin(items, k) - k
<1> DEFINE longs(m) == {j \in 1..m - 1 : items[j] \in Long}
<1>1. IsFiniteSet(1..k - 1) /\ IsFiniteSet(1..l - 1)
  BY FS_Interval
<1>2. longs(k) \in SUBSET (1..k - 1) /\ longs(l) \in SUBSET (1..l - 1)
  OBVIOUS
<1>3. IsFiniteSet(longs(k)) /\ IsFiniteSet(longs(l))
  BY <1>1, <1>2, FS_Subset
<1>4. longs(k) \in SUBSET longs(l)
  OBVIOUS
<1>5. /\ Cardinality(longs(k)) \in Nat /\ Cardinality(longs(l)) \in Nat
      /\ Cardinality(longs(k)) <= Cardinality(longs(l))
  BY <1>3, <1>4, FS_Subset, FS_CardinalityType
<1>6. Begin(items, k) = 1 + k + Cardinality(longs(k)) /\ Begin(items, l) = 1 + l + Cardinality(longs(l))
  BY DEF Begin
<1> HIDE DEF longs
<1> QED
  BY <1>5, <1>6

LEMMA JSONProperties ==
    ASSUME NEW items \in Seq(Number)
    PROVE  /\ JSON(items) \in Seq(Byte)
           /\ Len(JSON(items)) = Begin(items, Len(items) + 1) - 1
           /\ \A k \in 1..Len(items) :
                 /\ Begin(items, k) \in 1..Len(JSON(items))
                 /\ JSON(items)[Begin(items, k)] = items[k]
<1>1. /\ Len(items) \in Nat /\ DOMAIN items = 1..Len(items)
      /\ \A k \in 1..Len(items) : items[k] \in Number
  BY LenProperties, ElementOfSeq
<1>2. PICK n : n = Begin(items, Len(items) + 1) - 1
  OBVIOUS
<1>3. n \in Nat
  BY <1>1, <1>2, BeginProperties
<1>4. \A k \in 1..Len(items) : Begin(items, k) \in 1..n
  <2> TAKE k \in 1..Len(items)
  <2>1. /\ Begin(items, k) \in Nat /\ Begin(items, Len(items) + 1) \in Nat /\ Begin(items, k) > k
        /\ Begin(items, Len(items) + 1) - (Len(items) + 1) >= Begin(items, k) - k
    BY <1>1, BeginProperties
  <2> QED
    BY <1>1, <1>2, <2>1
<1>5. \A j, k \in 1..Len(items) : Begin(items, j) = Begin(items, k) => j = k
  <2>1. ASSUME NEW j \in 1..Len(items), NEW k \in 1..Len(items), j < k
        PROVE  Begin(items, j) < Begin(items, k)
    <3>1. /\ Begin(items, j) \in Nat /\ Begin(items, k) \in Nat
          /\ Begin(items, k) - k >= Begin(items, j) - j
      BY <2>1, BeginProperties
    <3> QED
      BY <2>1, <3>1
  <2>2. \A k \in 1..Len(items) : Begin(items, k) \in Nat
    BY <1>3, <1>4
  <2> QED
    BY <2>1, <2>2
<1> DEFINE unit(u) == IF \E k \in DOMAIN items : u = Begin(items, k)
                      THEN items[CHOOSE k \in DOMAIN items : u = Begin(items, k)] ELSE 0
<1>6. JSON(items) = [u \in 1..n |-> unit(u)]
  BY <1>2 DEF JSON
<1>7. \A k \in 1..Len(items) : unit(Begin(items, k)) = items[k]
  <2> TAKE k \in 1..Len(items)
  <2>1. \E j \in DOMAIN items : Begin(items, k) = Begin(items, j)
    BY <1>1
  <2>2. PICK c : c = CHOOSE j \in DOMAIN items : Begin(items, k) = Begin(items, j)
    OBVIOUS
  <2>3. c \in 1..Len(items) /\ Begin(items, k) = Begin(items, c)
    BY <1>1, <2>1, <2>2
  <2>4. c = k
    BY <1>5, <2>3
  <2> QED
    BY <2>1, <2>2, <2>4
<1>8. \A u \in 1..n : unit(u) \in Byte
  <2>1. 0 \in Byte /\ Number \subseteq Byte
    BY ListingAssumption DEF Number
  <2> QED
    BY <1>1, <2>1
<1> HIDE DEF unit
<1>9. JSON(items) \in [1..n -> Byte]
  BY <1>6, <1>8
<1>10. JSON(items) \in Seq(Byte) /\ Len(JSON(items)) = n
  BY <1>3, <1>9
<1> QED
  BY <1>2, <1>4, <1>6, <1>7, <1>10

LEMMA JSONPrefix ==
    ASSUME NEW a \in Seq(Number), NEW b \in Seq(Number), JSON(a) = JSON(b), Len(a) <= Len(b)
    PROVE  a = b
<1>1. Len(a) \in Nat /\ Len(b) \in Nat
  BY LenProperties
<1> DEFINE Differ == {k \in Nat : k \in 1..Len(a) /\ a[k] # b[k]}
<1>2. ASSUME Differ # {} PROVE FALSE
  <2>1. PICK d \in Differ : \A e \in Differ : d <= e
    <3>1. Differ \subseteq Nat
      OBVIOUS
    <3> HIDE DEF Differ
    <3>2. \E d \in Differ : \A e \in Differ : ~ (<<e, d>> \in OpToRel(<, Nat))
      BY <1>2, <3>1, WFMin, NatLessThanWellFounded, Zenon
    <3>3. \E d \in Differ : \A e \in Differ : ~ (e < d)
      BY <3>1, <3>2, Zenon DEF OpToRel
    <3> QED
      BY <3>1, <3>3
  <2>2. d \in 1..Len(a) /\ d \in 1..Len(b) /\ a[d] # b[d]
    BY <1>1
  <2>3. \A j \in 1..d - 1 : a[j] = b[j]
    BY <1>1, <2>1, <2>2
  <2>4. {j \in 1..d - 1 : a[j] \in Long} = {j \in 1..d - 1 : b[j] \in Long}
    BY <2>3
  <2>5. Begin(a, d) = Begin(b, d)
    BY <2>4 DEF Begin
  <2>6. JSON(a)[Begin(a, d)] = a[d] /\ JSON(b)[Begin(b, d)] = b[d]
    BY <2>2, JSONProperties
  <2> QED
    BY <2>2, <2>5, <2>6
<1>3. \A k \in 1..Len(a) : a[k] = b[k]
  BY <1>1, <1>2
<1>4. Len(a) = Len(b)
  <2> SUFFICES ASSUME Len(a) < Len(b) PROVE FALSE
    BY <1>1
  <2>0. PICK n \in Nat : n = Len(a) + 1
    BY <1>1
  <2>1. n \in 1..Len(b)
    BY <1>1, <2>0
  <2>2. {j \in 1..n - 1 : a[j] \in Long} = {j \in 1..n - 1 : b[j] \in Long}
    <3>1. \A j \in 1..n - 1 : a[j] = b[j]
      BY <1>1, <1>3, <2>0
    <3> QED
      BY <3>1
  <2>3. Begin(a, n) = Begin(b, n)
    BY <2>2 DEF Begin
  <2>4. Begin(b, n) \in 1..Len(JSON(b)) /\ Len(JSON(b)) \in Nat
    BY <2>1, JSONProperties, LenProperties
  <2>5. Len(JSON(a)) = Begin(a, n) - 1
    BY <2>0, JSONProperties
  <2> QED
    BY <2>3, <2>4, <2>5
<1> QED
  BY <1>3, <1>4, SeqEqual

LEMMA JSONInjective ==
    ASSUME NEW a \in Seq(Number), NEW b \in Seq(Number), JSON(a) = JSON(b)
    PROVE  a = b
<1>1. Len(a) \in Nat /\ Len(b) \in Nat
  BY LenProperties
<1>2. CASE Len(a) <= Len(b)
  BY <1>2, JSONPrefix
<1>3. CASE Len(b) <= Len(a)
  BY <1>3, JSONPrefix
<1> QED
  BY <1>1, <1>2, <1>3
-----------------------------------------------------------------------------
(***************************************************************************)
(* What GitHub's changes and pages do to the first m items of its list.    *)
(***************************************************************************)
First(l, m) == {l[k] : k \in DOMAIN l \cap 1..m}

LEMMA InsertProperties ==
    ASSUME NEW S, NEW l \in Seq(S), NEW k \in 1..Len(l) + 1, NEW e \in S
    PROVE  /\ InsertAt(l, k, e) \in Seq(S) /\ Len(InsertAt(l, k, e)) = Len(l) + 1
           /\ \A i \in 1..Len(l) + 1 :
                 InsertAt(l, k, e)[i] = IF i < k THEN l[i] ELSE IF i = k THEN e ELSE l[i - 1]
<1>1. Len(l) \in Nat /\ \A i \in 1..Len(l) : l[i] \in S
  BY LenProperties, ElementOfSeq
<1> DEFINE a == SubSeq(l, 1, k - 1)
           b == SubSeq(l, k, Len(l))
<1>2. a \in Seq(S) /\ Len(a) = k - 1 /\ \A i \in 1..k - 1 : a[i] = l[i]
  <2>1. 1 \in Int /\ k - 1 \in Int /\ \A i \in 1..k - 1 : l[i] \in S
    BY <1>1
  <2>2. /\ a \in Seq(S) /\ Len(a) = IF 1 <= k - 1 THEN k - 1 - 1 + 1 ELSE 0
        /\ \A i \in 1..k - 1 - 1 + 1 : a[i] = l[1 + i - 1]
    BY <2>1, SubSeqProperties
  <2> QED
    BY <1>1, <2>2
<1>3. b \in Seq(S) /\ Len(b) = Len(l) + 1 - k /\ \A i \in 1..Len(l) + 1 - k : b[i] = l[k + i - 1]
  <2>1. k \in Int /\ Len(l) \in Int /\ \A i \in k..Len(l) : l[i] \in S
    BY <1>1
  <2>2. /\ b \in Seq(S) /\ Len(b) = IF k <= Len(l) THEN Len(l) - k + 1 ELSE 0
        /\ \A i \in 1..Len(l) - k + 1 : b[i] = l[k + i - 1]
    BY <2>1, SubSeqProperties
  <2> QED
    BY <1>1, <2>2
<1>4. <<e>> \in Seq(S) /\ Len(<<e>>) = 1 /\ <<e>>[1] = e
  OBVIOUS
<1>5. InsertAt(l, k, e) = a \o <<e>> \o b
  BY DEF InsertAt
<1> HIDE DEF a, b
<1>6. PICK c : c = a \o <<e>>
  OBVIOUS
<1>7. c \in Seq(S) /\ Len(c) = k /\ \A i \in 1..k : c[i] = IF i < k THEN l[i] ELSE e
  <2>1. /\ c \in Seq(S) /\ Len(c) = Len(a) + Len(<<e>>)
        /\ \A i \in 1..Len(a) + Len(<<e>>) : c[i] = IF i <= Len(a) THEN a[i] ELSE <<e>>[i - Len(a)]
    BY <1>2, <1>4, <1>6, ConcatProperties
  <2> QED
    BY <1>1, <1>2, <1>4, <2>1
<1>8. /\ c \o b \in Seq(S) /\ Len(c \o b) = Len(c) + Len(b)
      /\ \A i \in 1..Len(c) + Len(b) : (c \o b)[i] = IF i <= Len(c) THEN c[i] ELSE b[i - Len(c)]
  BY <1>3, <1>7, ConcatProperties
<1>9. Len(c) + Len(b) = Len(l) + 1
  BY <1>1, <1>3, <1>7
<1>10. ASSUME NEW i \in 1..Len(l) + 1
       PROVE  (c \o b)[i] = IF i < k THEN l[i] ELSE IF i = k THEN e ELSE l[i - 1]
  <2>1. CASE i <= k
    BY <1>7, <1>8, <1>9, <2>1
  <2>2. CASE ~(i <= k)
    <3>1. i - k \in 1..Len(l) + 1 - k /\ k + (i - k) - 1 = i - 1
      BY <1>1, <2>2
    <3>2. b[i - k] = l[i - 1]
      BY <1>3, <3>1
    <3> QED
      BY <1>7, <1>8, <1>9, <2>2, <3>2
  <2> QED
    BY <2>1, <2>2
<1> QED
  BY <1>5, <1>6, <1>8, <1>9, <1>10

LEMMA RemoveProperties ==
    ASSUME NEW S, NEW l \in Seq(S), NEW k \in 1..Len(l)
    PROVE  /\ RemoveAt(l, k) \in Seq(S) /\ Len(RemoveAt(l, k)) = Len(l) - 1
           /\ \A i \in 1..Len(l) - 1 : RemoveAt(l, k)[i] = IF i < k THEN l[i] ELSE l[i + 1]
<1>1. Len(l) \in Nat /\ \A i \in 1..Len(l) : l[i] \in S
  BY LenProperties, ElementOfSeq
<1> DEFINE a == SubSeq(l, 1, k - 1)
           b == SubSeq(l, k + 1, Len(l))
<1>2. a \in Seq(S) /\ Len(a) = k - 1 /\ \A i \in 1..k - 1 : a[i] = l[i]
  <2>1. 1 \in Int /\ k - 1 \in Int /\ \A i \in 1..k - 1 : l[i] \in S
    BY <1>1
  <2>2. /\ a \in Seq(S) /\ Len(a) = IF 1 <= k - 1 THEN k - 1 - 1 + 1 ELSE 0
        /\ \A i \in 1..k - 1 - 1 + 1 : a[i] = l[1 + i - 1]
    BY <2>1, SubSeqProperties
  <2> QED
    BY <1>1, <2>2
<1>3. b \in Seq(S) /\ Len(b) = Len(l) - k /\ \A i \in 1..Len(l) - k : b[i] = l[k + i]
  BY <1>1, SkipProperties DEF Skip
<1>4. RemoveAt(l, k) = a \o b
  BY DEF RemoveAt
<1> HIDE DEF a, b
<1>5. /\ a \o b \in Seq(S) /\ Len(a \o b) = Len(a) + Len(b)
      /\ \A i \in 1..Len(a) + Len(b) : (a \o b)[i] = IF i <= Len(a) THEN a[i] ELSE b[i - Len(a)]
  BY <1>2, <1>3, ConcatProperties
<1>6. Len(a) + Len(b) = Len(l) - 1
  BY <1>1, <1>2, <1>3
<1>7. ASSUME NEW i \in 1..Len(l) - 1
      PROVE  (a \o b)[i] = IF i < k THEN l[i] ELSE l[i + 1]
  <2>1. CASE i < k
    BY <1>1, <1>2, <1>5, <1>6, <2>1
  <2>2. CASE ~(i < k)
    <3>1. i - (k - 1) \in 1..Len(l) - k /\ k + (i - (k - 1)) = i + 1 /\ ~(i <= k - 1)
      BY <1>1, <2>2
    <3>2. b[i - (k - 1)] = l[i + 1]
      BY <1>3, <3>1
    <3> QED
      BY <1>2, <1>5, <1>6, <2>2, <3>1, <3>2
  <2> QED
    BY <2>1, <2>2
<1> QED
  BY <1>4, <1>5, <1>6, <1>7

\* An item that is new to the list comes among the first m or shifts others out.
LEMMA InsertShifts ==
    ASSUME NEW S, NEW l \in Seq(S), IsInjective(l),
           NEW k \in 1..Len(l) + 1, NEW e \in S, e \notin ToSet(l)
    PROVE  /\ IsInjective(InsertAt(l, k, e))
           /\ ToSet(InsertAt(l, k, e)) = ToSet(l) \cup {e}
           /\ \A m \in Nat : First(InsertAt(l, k, e), m) \subseteq First(l, m) \cup {e}
<1>1. Len(l) \in Nat /\ DOMAIN l = 1..Len(l)
  BY LenProperties
<1>2. PICK q : q = InsertAt(l, k, e)
  OBVIOUS
<1>3. /\ q \in Seq(S) /\ Len(q) = Len(l) + 1
      /\ \A i \in 1..Len(l) + 1 : q[i] = IF i < k THEN l[i] ELSE IF i = k THEN e ELSE l[i - 1]
  <2>1. /\ InsertAt(l, k, e) \in Seq(S) /\ Len(InsertAt(l, k, e)) = Len(l) + 1
        /\ \A i \in 1..Len(l) + 1 :
              InsertAt(l, k, e)[i] = IF i < k THEN l[i] ELSE IF i = k THEN e ELSE l[i - 1]
    BY InsertProperties
  <2> QED
    BY <1>2, <2>1, Zenon
<1>4. DOMAIN q = 1..Len(l) + 1
  <2>1. q \in Seq(S) /\ Len(q) = Len(l) + 1
    BY <1>3
  <2>2. DOMAIN q = 1..Len(q)
    BY <2>1, LenProperties
  <2> QED
    BY <2>1, <2>2
<1>5. ASSUME NEW i \in 1..Len(l) + 1, i # k
      PROVE  \E x \in 1..Len(l) : x = (IF i < k THEN i ELSE i - 1) /\ q[i] = l[x]
  <2>1. CASE i < k
    <3>1. i \in 1..Len(l) /\ q[i] = l[i]
      BY <1>1, <1>3, <2>1
    <3> QED
      BY <2>1, <3>1
  <2>2. CASE ~(i < k)
    <3>1. i - 1 \in 1..Len(l)
      BY <1>1, <1>5, <2>2
    <3>2. q[i] = l[i - 1]
      BY <1>3, <1>5, <2>2
    <3> QED
      BY <2>2, <3>1, <3>2
  <2> QED
    BY <2>1, <2>2
<1>6. IsInjective(q)
  <2>1. SUFFICES ASSUME NEW i \in 1..Len(l) + 1, NEW j \in 1..Len(l) + 1, q[i] = q[j] PROVE i = j
    BY <1>4 DEF IsInjective
  <2>2. \A x \in 1..Len(l) : l[x] # e
    BY <1>1 DEF ToSet
  <2>3. \A x, y \in 1..Len(l) : l[x] = l[y] => x = y
    BY <1>1 DEF IsInjective
  <2>4. CASE i = k \/ j = k
    <3>1. ASSUME NEW h \in 1..Len(l) + 1, h # k PROVE q[h] # e
      <4>1. PICK x \in 1..Len(l) : q[h] = l[x]
        BY <1>5, <3>1
      <4> QED
        BY <2>2, <4>1
    <3>2. q[k] = e
      BY <1>3
    <3> QED
      BY <2>1, <2>4, <3>1, <3>2
  <2>5. CASE i # k /\ j # k
    <3>1. PICK x \in 1..Len(l), y \in 1..Len(l) :
              /\ x = (IF i < k THEN i ELSE i - 1) /\ q[i] = l[x]
              /\ y = (IF j < k THEN j ELSE j - 1) /\ q[j] = l[y]
      BY <1>5, <2>5
    <3>2. x = y
      BY <2>1, <2>3, <3>1
    <3> QED
      BY <2>5, <3>1, <3>2
  <2> QED
    BY <2>4, <2>5
<1>7. ToSet(q) = ToSet(l) \cup {e}
  <2>1. ASSUME NEW i \in 1..Len(l) + 1 PROVE q[i] \in ToSet(l) \cup {e}
    BY <1>1, <1>3, <1>5 DEF ToSet
  <2>2. k \in 1..Len(l) + 1 /\ q[k] = e
    BY <1>3
  <2>3. ASSUME NEW x \in 1..Len(l) PROVE \E i \in 1..Len(l) + 1 : q[i] = l[x]
    <3>1. CASE x < k
      <4>1. x \in 1..Len(l) + 1 /\ q[x] = l[x]
        BY <1>1, <1>3, <3>1
      <4> QED
        BY <4>1
    <3>2. CASE ~(x < k)
      <4>1. x + 1 \in 1..Len(l) + 1 /\ ~(x + 1 < k) /\ x + 1 # k /\ x + 1 - 1 = x
        BY <1>1, <3>2
      <4>2. q[x + 1] = l[x]
        BY <1>3, <4>1
      <4> QED
        BY <4>1, <4>2
    <3> QED
      BY <3>1, <3>2
  <2> QED
    BY <1>1, <1>4, <2>1, <2>2, <2>3 DEF ToSet
<1>8. \A m \in Nat : First(q, m) \subseteq First(l, m) \cup {e}
  <2>1. SUFFICES ASSUME NEW m \in Nat, NEW i \in 1..Len(l) + 1, i \in 1..m
                 PROVE  q[i] \in First(l, m) \cup {e}
    BY <1>4 DEF First
  <2>2. CASE i # k
    <3>1. PICK x \in 1..Len(l) : x = (IF i < k THEN i ELSE i - 1) /\ q[i] = l[x]
      BY <1>5, <2>2
    <3>2. x \in 1..m
      BY <2>1, <2>2, <3>1
    <3> QED
      BY <1>1, <3>1, <3>2 DEF First
  <2>3. CASE i = k
    BY <1>3, <2>3
  <2> QED
    BY <2>2, <2>3
<1> QED
  BY <1>2, <1>6, <1>7, <1>8

\* An item that leaves the list lets at most one other up among the first m.
LEMMA RemoveShifts ==
    ASSUME NEW S, NEW l \in Seq(S), IsInjective(l), NEW k \in 1..Len(l)
    PROVE  /\ IsInjective(RemoveAt(l, k))
           /\ ToSet(RemoveAt(l, k)) \subseteq ToSet(l)
           /\ ToSet(l) \ {l[k]} \subseteq ToSet(RemoveAt(l, k))
           /\ \A m \in Nat : First(RemoveAt(l, k), m) \subseteq First(l, m) \cup {l[m + 1]}
<1>1. Len(l) \in Nat /\ DOMAIN l = 1..Len(l)
  BY LenProperties
<1>2. PICK q : q = RemoveAt(l, k)
  OBVIOUS
<1>3. /\ q \in Seq(S) /\ Len(q) = Len(l) - 1
      /\ \A i \in 1..Len(l) - 1 : q[i] = IF i < k THEN l[i] ELSE l[i + 1]
  BY <1>2, RemoveProperties
<1>4. DOMAIN q = 1..Len(l) - 1
  BY <1>3, LenProperties
<1>5. \A i \in 1..Len(l) - 1 : (IF i < k THEN i ELSE i + 1) \in 1..Len(l)
  BY <1>1
<1>6. IsInjective(q)
  <2>1. SUFFICES ASSUME NEW i \in 1..Len(l) - 1, NEW j \in 1..Len(l) - 1, q[i] = q[j] PROVE i = j
    BY <1>4 DEF IsInjective
  <2>2. \A x, y \in 1..Len(l) : l[x] = l[y] => x = y
    BY <1>1 DEF IsInjective
  <2>3. PICK x \in 1..Len(l), y \in 1..Len(l) :
            x = (IF i < k THEN i ELSE i + 1) /\ y = (IF j < k THEN j ELSE j + 1)
    BY <1>5
  <2>4. q[i] = l[x] /\ q[j] = l[y]
    BY <1>3, <2>3
  <2>5. x = y
    BY <2>1, <2>2, <2>4
  <2> QED
    BY <2>3, <2>5
<1>7. ToSet(q) \subseteq ToSet(l)
  <2>1. \A i \in 1..Len(l) - 1 : \E x \in 1..Len(l) : q[i] = l[x]
    BY <1>3, <1>5
  <2> QED
    BY <1>1, <1>4, <2>1 DEF ToSet
<1>8. ToSet(l) \ {l[k]} \subseteq ToSet(q)
  <2>1. SUFFICES ASSUME NEW x \in 1..Len(l), x # k PROVE \E i \in 1..Len(l) - 1 : q[i] = l[x]
    BY <1>1, <1>4 DEF ToSet
  <2>2. CASE x < k
    <3>1. x \in 1..Len(l) - 1 /\ q[x] = l[x]
      BY <1>1, <1>3, <2>2
    <3> QED
      BY <3>1
  <2>3. CASE ~(x < k)
    <3>1. x - 1 \in 1..Len(l) - 1 /\ ~(x - 1 < k) /\ x - 1 + 1 = x
      BY <1>1, <2>1, <2>3
    <3>2. q[x - 1] = l[x]
      BY <1>3, <3>1
    <3> QED
      BY <3>1, <3>2
  <2> QED
    BY <2>2, <2>3
<1>9. \A m \in Nat : First(q, m) \subseteq First(l, m) \cup {l[m + 1]}
  <2>1. SUFFICES ASSUME NEW m \in Nat, NEW i \in 1..Len(l) - 1, i \in 1..m
                 PROVE  q[i] \in First(l, m) \cup {l[m + 1]}
    BY <1>4 DEF First
  <2>2. PICK x \in 1..Len(l) : x = (IF i < k THEN i ELSE i + 1)
    BY <1>5
  <2>3. q[i] = l[x] /\ (x \in 1..m \/ x = m + 1)
    BY <1>3, <2>1, <2>2
  <2> QED
    BY <1>1, <2>2, <2>3 DEF First
<1> QED
  BY <1>2, <1>6, <1>7, <1>8, <1>9

LEMMA PageIsSeq == ASSUME NEW items PROVE items \in Page <=> items \in Seq(Number) /\ Len(items) <= PageSize
<1>1. PageSize \in Nat
  BY ListingAssumption
<1>2. Page = UNION {[1..n -> Number] : n \in 0..PageSize}
  BY DEF Page, BoundedSeq, SeqOf
<1>3. ASSUME items \in Page PROVE items \in Seq(Number) /\ Len(items) <= PageSize
  <2>1. PICK n \in 0..PageSize : items \in [1..n -> Number]
    BY <1>2, <1>3
  <2> QED
    BY <1>1, <2>1
<1>4. ASSUME items \in Seq(Number), Len(items) <= PageSize PROVE items \in Page
  <2>1. Len(items) \in 0..PageSize /\ items \in [1..Len(items) -> Number]
    BY <1>1, <1>4, LenProperties
  <2> QED
    BY <1>2, <2>1
<1> QED
  BY <1>3, <1>4

LEMMA PagesBefore ==
    ASSUME NEW p \in Nat \ {0}
    PROVE  (p - 1) * PageSize \in Nat /\ p * PageSize = (p - 1) * PageSize + PageSize
BY ListingAssumption

\* With a page, the first items of the list are known to its end, and all
\* of them when the page is short.
LEMMA PageProperties ==
    ASSUME NEW l \in Seq(Number), NEW p \in Nat \ {0}
    PROVE  /\ PageOf(l, p) \in Page
           /\ First(l, p * PageSize) = First(l, (p - 1) * PageSize) \cup ToSet(PageOf(l, p))
           /\ Len(PageOf(l, p)) < PageSize => First(l, p * PageSize) = ToSet(l)
<1>1. PICK e \in Nat : e = Len(l) /\ DOMAIN l = 1..e /\ \A i \in 1..e : l[i] \in Number
  BY LenProperties, ElementOfSeq
<1>2. PICK m \in Nat, z \in Nat \ {0} : m = (p - 1) * PageSize /\ z = PageSize /\ p * PageSize = m + z
  BY ListingAssumption, PagesBefore
<1>3. PICK n \in Nat : n = (IF m + z < e THEN m + z ELSE e) /\ n <= e /\ n <= m + z
  OBVIOUS
<1>4. PICK q : q = PageOf(l, p)
  OBVIOUS
<1>5. q = SubSeq(l, m + 1, n)
  BY <1>1, <1>2, <1>3, <1>4 DEF PageOf
<1>6. PICK w \in Nat : /\ w = (IF m < n THEN n - m ELSE 0)
                       /\ q \in Seq(Number) /\ Len(q) = w /\ DOMAIN q = 1..w
                       /\ \A i \in 1..w : q[i] = l[m + i]
  <2>1. m + 1 \in Int /\ n \in Int
    OBVIOUS
  <2>2. \A i \in m + 1..n : i \in 1..e
    BY <1>3
  <2>3. \A i \in m + 1..n : l[i] \in Number
    BY <1>1, <2>2
  <2>4. /\ q \in Seq(Number)
        /\ Len(q) = IF m + 1 <= n THEN n - (m + 1) + 1 ELSE 0
        /\ \A i \in 1..n - (m + 1) + 1 : q[i] = l[m + 1 + i - 1]
    BY <1>5, <2>1, <2>3, SubSeqProperties
  <2>0. (IF m < n THEN n - m ELSE 0) \in Nat
    OBVIOUS
  <2>5. PICK w \in Nat : w = IF m < n THEN n - m ELSE 0
    BY <2>0, Zenon
  <2>6. \A i \in 1..w : i \in 1..n - (m + 1) + 1 /\ m + 1 + i - 1 = m + i
    BY <2>5
  <2>7. (IF m + 1 <= n THEN n - (m + 1) + 1 ELSE 0) = w
    BY <2>5
  <2>8. DOMAIN q = 1..Len(q)
    BY <2>4, LenProperties
  <2> QED
    BY <2>4, <2>5, <2>6, <2>7, <2>8
<1>7. w <= z
  BY <1>3, <1>6
<1>8. q \in Page
  BY <1>2, <1>6, <1>7, PageIsSeq
<1>9. First(l, m + z) = First(l, m) \cup ToSet(q)
  <2>1. ASSUME NEW i \in 1..e, i \in 1..m + z PROVE l[i] \in First(l, m) \cup ToSet(q)
    <3>1. CASE i <= m
      BY <1>1, <3>1 DEF First
    <3>2. CASE ~(i <= m)
      <4>1. i - m \in 1..w /\ m + (i - m) = i
        BY <1>3, <1>6, <2>1, <3>2
      <4>2. q[i - m] = l[i]
        BY <1>6, <4>1
      <4> QED
        BY <1>6, <4>1, <4>2 DEF ToSet
    <3> QED
      BY <3>1, <3>2
  <2>2. ASSUME NEW i \in 1..w PROVE q[i] \in First(l, m + z)
    <3>1. m + i \in 1..e /\ m + i \in 1..m + z
      BY <1>3, <1>6
    <3> QED
      BY <1>1, <1>6, <3>1 DEF First
  <2>3. First(l, m) \subseteq First(l, m + z)
    BY <1>1 DEF First
  <2> QED
    BY <1>1, <1>6, <2>1, <2>2, <2>3 DEF First, ToSet
<1>10. ASSUME w < z PROVE First(l, m + z) = ToSet(l)
  <2>1. e <= m + z
    BY <1>3, <1>6, <1>10
  <2>2. \A i \in 1..e : i \in 1..m + z
    BY <2>1
  <2> QED
    BY <1>1, <2>2 DEF First, ToSet
<1> QED
  BY <1>2, <1>4, <1>6, <1>8, <1>9, <1>10
-----------------------------------------------------------------------------
(***************************************************************************)
(* Types, the Tail, and what GitHub's list, what is unused and what stayed *)
(* have to do with each other.                                             *)
(***************************************************************************)
ListOK ==
    /\ IsInjective(list)
    /\ unused \cap ToSet(list) = {}
    /\ stayed \subseteq ToSet(list)

Silent   == pc # "print" => output = <<>> /\ printed = <<>>
RoomLeft == pc \in {"ask", "print"} => page \in Nat \ {0} /\ Len(all) + PageSize <= page * PageSize

Sound == TypeOK /\ TailHoldsEnd /\ ListOK /\ Silent /\ RoomLeft

TailOK ==
    /\ bytes \in Seq(Byte) /\ Len(bytes) <= Capacity
    /\ truncated \in BOOLEAN /\ printed \in Seq(Byte)
    /\ TailHoldsEnd

LEMMA TailTypes ==
    ASSUME NEW b, NEW w \in Seq(Byte), b = EndOf(w, Capacity)
    PROVE  b \in Seq(Byte) /\ Len(b) <= Capacity
<1>1. Capacity \in Nat
  BY ListingAssumption
<1>2. b \in Seq(Byte) /\ Len(b) = IF Len(w) > Capacity THEN Capacity ELSE Len(w)
  BY <1>1, EndProperties
<1>3. Len(w) \in Nat
  BY LenProperties
<1> QED
  BY <1>1, <1>2, <1>3

\* The parts of what gh has still to print.
LEMMA PrintProperties ==
    ASSUME NEW t \in Seq(Byte), NEW n \in 1..Len(t)
    PROVE  /\ SubSeq(t, 1, n) \in Seq(Byte) /\ SubSeq(t, n + 1, Len(t)) \in Seq(Byte)
           /\ SubSeq(t, 1, n) \o SubSeq(t, n + 1, Len(t)) = t
<1>1. Len(t) \in Nat /\ \A i \in 1..Len(t) : t[i] \in Byte
  BY LenProperties, ElementOfSeq
<1>2. SubSeq(t, n + 1, Len(t)) \in Seq(Byte)
  <2>1. n \in 0..Len(t)
    BY <1>1
  <2> QED
    BY <2>1, SkipProperties DEF Skip
<1>3. SubSeq(t, 1, n) \in Seq(Byte)
  <2>1. 1 \in Int /\ n \in Int /\ \A i \in 1..n : t[i] \in Byte
    BY <1>1
  <2> QED
    BY <2>1, SubSeqProperties
<1>4. SubSeq(t, 1, n) \o SubSeq(t, n + 1, Len(t)) = SubSeq(t, 1, Len(t))
  <2>1. 1 \in 1..Len(t) + 1 /\ n \in 1 - 1..Len(t) /\ Len(t) \in n..Len(t)
    BY <1>1
  <2> QED
    BY <2>1, ConcatAdjacentSubSeq
<1>5. SubSeq(t, 1, Len(t)) = t
  BY SubSeqFull
<1> QED
  BY <1>2, <1>3, <1>4, <1>5

LEMMA PageLimit ==
    ASSUME NEW p \in Nat, NEW q \in Nat, p <= q
    PROVE  p * PageSize \in Nat /\ p * PageSize <= PageSize * q
<1>1. PICK d \in Nat : q = p + d
  <2>1. q - p \in Nat /\ q = p + (q - p)
    OBVIOUS
  <2> QED
    BY <2>1, Zenon
<1>2. PageSize \in Nat
  BY ListingAssumption
<1>3. p * PageSize \in Nat /\ d * PageSize \in Nat
  BY <1>1, <1>2
<1>4. PageSize * (p + d) = p * PageSize + d * PageSize
  BY <1>1, <1>2
<1> QED
  BY <1>1, <1>3, <1>4

LEMMA TailStep ==
    ASSUME TailOK, UNCHANGED tail \/ Reset \/ \E p \in Seq(Byte) : Write(p)
    PROVE  TailOK'
<1>1. Capacity \in Nat
  BY ListingAssumption
<1>2. CASE UNCHANGED tail
  BY <1>2 DEF tail, TailOK, TailHoldsEnd
<1>3. CASE Reset
  <2>1. bytes' = <<>> /\ truncated' = FALSE /\ printed' = <<>>
    BY <1>3 DEF Reset
  <2>2. <<>> \in Seq(Byte) /\ Len(<<>>) = 0
    BY EmptySeq
  <2>3. TailHoldsEnd'
    BY <1>1, <2>1, <2>2 DEF TailHoldsEnd, EndOf
  <2>4. bytes' \in Seq(Byte) /\ Len(bytes') <= Capacity /\ printed' \in Seq(Byte)
    BY <1>1, <2>1, <2>2
  <2>5. truncated' \in BOOLEAN
    BY <2>1
  <2> QED
    BY <2>3, <2>4, <2>5 DEF TailOK
<1>4. CASE \E p \in Seq(Byte) : Write(p)
  <2>1. PICK p \in Seq(Byte) : Write(p)
    BY <1>4
  <2>2. TailInv
    BY DEF TailInv, TailOK
  <2>3. TailInv'
    BY <1>1, <2>1, <2>2, WriteStep
  <2>4. printed' \in Seq(Byte) /\ bytes' = EndOf(printed', Capacity)
    BY <2>3 DEF TailInv, TailHoldsEnd
  <2>5. bytes' \in Seq(Byte) /\ Len(bytes') <= Capacity
    BY <2>4, TailTypes
  <2>6. truncated' \in BOOLEAN
    BY <2>1, Zenon DEF Write
  <2> QED
    BY <2>3, <2>4, <2>5, <2>6 DEF TailInv, TailOK
<1> QED
  BY <1>2, <1>3, <1>4

LEMMA SoundInit == ASSUME Init PROVE Sound
<1>1. PICK n \in 0..MaxNumber : list = [k \in 1..n |-> k] /\ unused = (n + 1)..MaxNumber
  BY DEF Init
<1>2. list \in Seq(Number) /\ DOMAIN list = 1..n
  BY <1>1, ListingAssumption DEF Number
<1>3. unused \subseteq Number
  BY <1>1, ListingAssumption DEF Number
<1>4. ListOK
  BY <1>1, <1>2 DEF Init, ListOK, IsInjective, ToSet
<1>5. PageSize * MaxPages \in Nat /\ Capacity \in Nat /\ MaxPages \in Nat
  BY ListingAssumption
<1>6. /\ all \in Seq(Number) /\ Len(all) = 0 /\ output \in Seq(Byte) /\ issues \in Seq(Number)
      /\ bytes \in Seq(Byte) /\ printed \in Seq(Byte) /\ Len(bytes) = 0 /\ Len(printed) = 0
  BY EmptySeq DEF Init, Empty
<1>7. TypeOK
  <2>1. PICK y \in Nat : y = PageSize * MaxPages
    BY <1>5
  <2>2. Len(all) <= y /\ Len(bytes) <= Capacity /\ page \in 0..MaxPages
    BY <1>5, <1>6 DEF Init
  <2> QED
    BY <1>2, <1>3, <1>6, <2>1, <2>2 DEF Init, Empty, TypeOK
<1>8. TailHoldsEnd
  BY <1>5, <1>6 DEF Init, Empty, TailHoldsEnd, EndOf
<1> QED
  BY <1>4, <1>7, <1>8 DEF Init, Empty, Sound, Silent, RoomLeft

LEMMA SoundStep == ASSUME Sound, [Next]_vars PROVE Sound'
<1>1. /\ TypeOK /\ TailHoldsEnd /\ ListOK /\ Silent /\ RoomLeft /\ TailOK
      /\ PageSize \in Nat \ {0} /\ MaxPages \in Nat \ {0} /\ Capacity \in Nat
  BY ListingAssumption DEF Sound, TypeOK, TailOK
<1>2. ASSUME UNCHANGED tail \/ Reset PROVE TailOK'
  BY <1>1, <1>2, TailStep
<1>3. ASSUME UNCHANGED github, stayed' \subseteq stayed \/ stayed' = ToSet(list) PROVE ListOK'
  BY <1>1, <1>3 DEF github, ListOK
<1>4. <<>> \in Seq(Number) /\ <<>> \in Seq(Byte) /\ Len(<<>>) = 0
  BY EmptySeq
<1>5. CASE Call
  <2>1. TailOK' /\ ListOK'
    BY <1>2, <1>3, <1>5 DEF Call, stdout, tail
  <2>2. stayed' \subseteq Number
    BY <1>1, <1>5 DEF Call, TypeOK, ToSet
  <2>3. TypeOK'
    BY <1>1, <1>4, <1>5, <2>1, <2>2 DEF Call, TypeOK, TailOK, github, stdout
  <2>4. Silent' /\ RoomLeft'
    BY <1>1, <1>4, <1>5 DEF Call, Silent, RoomLeft, stdout, tail
  <2> QED
    BY <2>1, <2>3, <2>4 DEF Sound, TailOK
<1>6. CASE Ask
  <2>1. TailOK' /\ ListOK'
    BY <1>2, <1>3, <1>6 DEF Ask, tail, history
  <2>2. output' \in Seq(Byte)
    <3>1. list \in Seq(Number) /\ page \in Nat \ {0}
      BY <1>1, <1>6 DEF Ask, Goto, TypeOK, RoomLeft
    <3>2. PageOf(list, page) \in Seq(Number)
      BY <3>1, PageProperties, PageIsSeq
    <3> QED
      BY <1>6, <3>2, JSONProperties DEF Ask
  <2>3. TypeOK'
    BY <1>1, <1>6, <2>1, <2>2 DEF Ask, Goto, TypeOK, TailOK, github, history
  <2>4. Silent' /\ RoomLeft'
    BY <1>1, <1>6 DEF Ask, Goto, Silent, RoomLeft
  <2> QED
    BY <2>1, <2>3, <2>4 DEF Sound, TailOK
<1>7. CASE GhWrites
  <2>1. PICK n \in 1..Len(output) :
            /\ Write(SubSeq(output, 1, n))
            /\ output' = SubSeq(output, n + 1, Len(output))
    BY <1>7 DEF GhWrites
  <2>2. output \in Seq(Byte)
    BY <1>1 DEF TypeOK
  <2>3. SubSeq(output, 1, n) \in Seq(Byte) /\ output' \in Seq(Byte)
    BY <2>1, <2>2, PrintProperties
  <2>4. TailOK'
    BY <1>1, <2>1, <2>3, TailStep
  <2>5. ListOK'
    BY <1>3, <1>7 DEF GhWrites, history
  <2>6. TypeOK'
    BY <1>1, <1>7, <2>3, <2>4 DEF GhWrites, TypeOK, TailOK, github, history
  <2>7. Silent' /\ RoomLeft'
    BY <1>1, <1>7 DEF GhWrites, Silent, RoomLeft
  <2> QED
    BY <2>4, <2>5, <2>6, <2>7 DEF Sound, TailOK
<1>8. ASSUME NEW items \in Page, all' = all \o items, pc = "print"
      PROVE  /\ all' \in Seq(Number) /\ Len(all') <= page * PageSize
             /\ page * PageSize \in Nat /\ page * PageSize <= PageSize * MaxPages
  <2>1. items \in Seq(Number) /\ Len(items) <= PageSize
    BY PageIsSeq
  <2>2. all \in Seq(Number) /\ page \in Nat /\ page <= MaxPages
    BY <1>1 DEF TypeOK
  <2>3. all' \in Seq(Number) /\ Len(all') = Len(all) + Len(items)
    BY <1>8, <2>1, <2>2, ConcatProperties
  <2>4. page * PageSize \in Nat /\ page * PageSize <= PageSize * MaxPages
    BY <1>1, <2>2, PageLimit
  <2>5. Len(all) \in Nat /\ Len(items) \in Nat
    BY <2>1, <2>2, LenProperties
  <2>6. PICK x \in Nat : x = page * PageSize
    BY <2>4
  <2>7. Len(all) + PageSize <= x
    BY <1>1, <1>8, <2>6 DEF RoomLeft
  <2>8. Len(all') <= x
    BY <1>1, <2>1, <2>3, <2>5, <2>7
  <2> QED
    BY <2>3, <2>4, <2>6, <2>8
<1>9. ASSUME Discard, UNCHANGED <<github, history>>
      PROVE  TailOK' /\ ListOK' /\ output' = <<>> /\ printed' = <<>>
  BY <1>2, <1>3, <1>9 DEF Discard, Reset, history
<1>10. CASE NextPage
  <2>1. PICK items \in Page : all' = all \o items
    BY <1>10 DEF NextPage
  <2>2. TailOK' /\ ListOK' /\ output' = <<>> /\ printed' = <<>>
    BY <1>9, <1>10 DEF NextPage
  <2>3. pc = "print" /\ pc' = "ask" /\ page < MaxPages /\ page' = page + 1
    BY <1>10 DEF NextPage, Printed, Goto
  <2>4. /\ all' \in Seq(Number) /\ Len(all') <= page * PageSize
        /\ page * PageSize \in Nat /\ page * PageSize <= PageSize * MaxPages
    BY <1>8, <2>1, <2>3
  <2>5. PICK x \in Nat, y \in Nat : x = page * PageSize /\ y = PageSize * MaxPages
    BY <1>1, <2>4
  <2>6. page \in Nat /\ page' \in Nat \ {0} /\ page' \in 0..MaxPages
    BY <1>1, <2>3 DEF TypeOK
  <2>7. page' * PageSize = x + PageSize
    BY <1>1, <2>3, <2>5, <2>6
  <2>8. Len(all') \in Nat
    BY <2>4, LenProperties
  <2>9. Len(all') <= y /\ Len(all') + PageSize <= x + PageSize
    BY <1>1, <2>4, <2>5, <2>8
  <2>10. TypeOK'
    BY <1>1, <1>4, <1>10, <2>2, <2>3, <2>4, <2>5, <2>6, <2>9 DEF NextPage, TypeOK, TailOK, github, history
  <2>11. Silent' /\ RoomLeft'
    BY <2>2, <2>6, <2>7, <2>9 DEF Silent, RoomLeft
  <2> QED
    BY <2>2, <2>10, <2>11 DEF Sound, TailOK
<1>11. CASE LastPage
  <2>1. PICK items \in Page : all' = all \o items
    BY <1>11 DEF LastPage
  <2>2. TailOK' /\ ListOK' /\ output' = <<>> /\ printed' = <<>>
    BY <1>9, <1>11 DEF LastPage
  <2>3. pc = "print" /\ pc' = "check"
    BY <1>11 DEF LastPage, Printed, Goto
  <2>4. /\ all' \in Seq(Number) /\ Len(all') <= page * PageSize
        /\ page * PageSize \in Nat /\ page * PageSize <= PageSize * MaxPages
    BY <1>8, <2>1, <2>3
  <2>5. PICK x \in Nat, y \in Nat : x = page * PageSize /\ y = PageSize * MaxPages
    BY <1>1, <2>4
  <2>6. Len(all') \in Nat
    BY <2>4, LenProperties
  <2>7. Len(all') <= y
    BY <2>4, <2>5, <2>6
  <2>8. TypeOK'
    BY <1>1, <1>4, <1>11, <2>2, <2>3, <2>4, <2>5, <2>7 DEF LastPage, TypeOK, TailOK, github, history
  <2>9. Silent' /\ RoomLeft'
    BY <2>2, <2>3 DEF Silent, RoomLeft
  <2> QED
    BY <2>2, <2>8, <2>9 DEF Sound, TailOK
<1>12. CASE PageRefused \/ GhFails
  <2>1. /\ Discard /\ UNCHANGED <<github, page, all, issues, history>> /\ pc' = "failed"
    BY <1>12 DEF PageRefused, GhFails, Printed, Goto
  <2>2. TailOK' /\ ListOK' /\ output' = <<>> /\ printed' = <<>>
    BY <1>9, <2>1
  <2>3. TypeOK'
    BY <1>1, <1>4, <2>1, <2>2 DEF TypeOK, TailOK, github, history
  <2>4. Silent' /\ RoomLeft'
    BY <2>1, <2>2 DEF Silent, RoomLeft
  <2> QED
    BY <2>2, <2>3, <2>4 DEF Sound, TailOK
<1>13. CASE Check \/ CommentsFail
  <2>1. /\ UNCHANGED <<github, page, all, issues, history, stdout>>
        /\ pc \in {"check", "comments"} /\ pc' \in {"comments", "failed"}
    BY <1>13 DEF Check, CommentsFail, Goto
  <2>2. TailOK' /\ ListOK'
    BY <1>2, <1>3, <2>1 DEF stdout, history
  <2>3. TypeOK'
    BY <1>1, <2>1, <2>2 DEF TypeOK, TailOK, github, history, stdout
  <2>4. Silent' /\ RoomLeft'
    BY <1>1, <2>1 DEF Silent, RoomLeft, stdout, tail
  <2> QED
    BY <2>2, <2>3, <2>4 DEF Sound, TailOK
<1>14. CASE Comments
  <2>1. /\ UNCHANGED <<github, page, all, history, stdout>>
        /\ pc = "comments" /\ pc' = "listed"
    BY <1>14 DEF Comments, Goto
  <2>2. TailOK' /\ ListOK'
    BY <1>2, <1>3, <2>1 DEF stdout, history
  <2>3. issues' \in Seq(Number)
    <3>1. PICK order \in Bijection(1..Cardinality(Issues), Issues) :
              issues' = [k \in DOMAIN order |-> all[order[k]]]
      BY <1>14 DEF Comments
    <3>2. order \in [1..Cardinality(Issues) -> Issues]
      BY <3>1 DEF Bijection, Injection
    <3>3. all \in Seq(Number) /\ Issues \subseteq 1..Len(all)
      BY <1>1, LenProperties DEF TypeOK, Issues
    <3>4. \A k \in Issues : all[k] \in Number
      BY <3>3, ElementOfSeq
    <3>5. Cardinality(Issues) \in Nat
      <4>1. IsFiniteSet(1..Len(all))
        BY <3>3, LenProperties, FS_Interval
      <4> QED
        BY <3>3, <4>1, FS_Subset, FS_CardinalityType
    <3>6. issues' \in [1..Cardinality(Issues) -> Number]
      BY <3>1, <3>2, <3>4
    <3> QED
      BY <3>5, <3>6
  <2>4. TypeOK'
    BY <1>1, <2>1, <2>2, <2>3 DEF TypeOK, TailOK, github, history, stdout
  <2>5. Silent' /\ RoomLeft'
    BY <1>1, <2>1 DEF Silent, RoomLeft, stdout, tail
  <2> QED
    BY <2>2, <2>4, <2>5 DEF Sound, TailOK
<1>15. CASE Appears
  <2>1. PICK n \in unused, k \in 1..Len(list) + 1 : list' = InsertAt(list, k, n) /\ unused' = unused \ {n}
    BY <1>15 DEF Appears
  <2>2. UNCHANGED <<pc, page, all, issues, history, stdout>>
    BY <1>15 DEF Appears
  <2>3. list \in Seq(Number) /\ n \in Number /\ n \notin ToSet(list) /\ IsInjective(list)
    BY <1>1, <2>1 DEF TypeOK, ListOK
  <2>4. list' \in Seq(Number) /\ IsInjective(list') /\ ToSet(list') = ToSet(list) \cup {n}
    BY <2>1, <2>3, InsertProperties, InsertShifts
  <2>5. IsInjective(list)' /\ ToSet(list)' = ToSet(list')
    BY <2>4
  <2>6. ListOK'
    BY <1>1, <2>1, <2>2, <2>4, <2>5 DEF ListOK, history
  <2>7. TailOK'
    BY <1>2, <2>2 DEF stdout
  <2>8. TypeOK'
    BY <1>1, <2>1, <2>2, <2>4, <2>7 DEF TypeOK, TailOK, history, stdout
  <2>9. Silent' /\ RoomLeft'
    BY <1>1, <2>2 DEF Silent, RoomLeft, stdout, tail
  <2> QED
    BY <2>6, <2>7, <2>8, <2>9 DEF Sound, TailOK
<1>16. CASE Vanishes
  <2>1. PICK k \in DOMAIN list : list' = RemoveAt(list, k) /\ stayed' = stayed \ {list[k]}
    BY <1>16 DEF Vanishes
  <2>2. UNCHANGED <<unused, pc, page, all, issues, stdout>> /\ vanished' = vanished + 1
    BY <1>16 DEF Vanishes
  <2>3. list \in Seq(Number) /\ k \in 1..Len(list) /\ IsInjective(list)
    BY <1>1, LenProperties DEF TypeOK, ListOK
  <2>4. /\ list' \in Seq(Number) /\ IsInjective(list') /\ ToSet(list') \subseteq ToSet(list)
        /\ ToSet(list) \ {list[k]} \subseteq ToSet(list')
    BY <2>1, <2>3, RemoveProperties, RemoveShifts
  <2>5. IsInjective(list)' /\ ToSet(list)' = ToSet(list')
    BY <2>4
  <2>6. ListOK'
    BY <1>1, <2>1, <2>2, <2>4, <2>5 DEF ListOK
  <2>7. TailOK'
    BY <1>2, <2>2 DEF stdout
  <2>8. TypeOK'
    BY <1>1, <2>1, <2>2, <2>4, <2>7 DEF TypeOK, TailOK, stdout
  <2>9. Silent' /\ RoomLeft'
    BY <1>1, <2>2 DEF Silent, RoomLeft, stdout, tail
  <2> QED
    BY <2>6, <2>7, <2>8, <2>9 DEF Sound, TailOK
<1>17. CASE UNCHANGED vars
  <2>1. TailOK' /\ ListOK'
    BY <1>2, <1>3, <1>17 DEF vars, stdout, history
  <2>2. TypeOK' /\ Silent' /\ RoomLeft'
    BY <1>1, <1>17, <2>1 DEF vars, github, history, stdout, tail, TypeOK, TailOK, Silent, RoomLeft
  <2> QED
    BY <2>1, <2>2 DEF Sound, TailOK
<1> QED
  BY <1>5, <1>6, <1>7, <1>10, <1>11, <1>12, <1>13, <1>14, <1>15, <1>16, <1>17 DEF Next
-----------------------------------------------------------------------------
(***************************************************************************)
(* What is missed: of the items that stayed, those among the first m of    *)
(* the list that are not found.  When the pages before m have been read,   *)
(* these are never more than have vanished: each item that vanishes lets   *)
(* at most one other slip from the pages ahead into those already read,    *)
(* and an item that appears only pushes others onto the pages ahead.       *)
(***************************************************************************)
Missed(l, s, found, m) == (s \cap First(l, m)) \ found

\* gh prints page P, which was as it should be when GitHub answered.
Printing(P) ==
    /\ printed \o output = JSON(P)
    /\ Cardinality(Missed(list, stayed, ToSet(all) \cup ToSet(P), page * PageSize)) <= vanished
    /\ Len(P) < PageSize => Cardinality(stayed \ (ToSet(all) \cup ToSet(P))) <= vanished

PagesRead == pc = "ask" => Cardinality(Missed(list, stayed, ToSet(all), (page - 1) * PageSize)) <= vanished
PageOnItsWay == pc = "print" => \E P \in Page : Printing(P)
AllRead  == pc \in {"check", "comments"} => Cardinality(stayed \ ToSet(all)) <= vanished
Distinct == pc = "comments" => Unique

IInv ==
    /\ Sound /\ PagesRead /\ PageOnItsWay /\ AllRead /\ Distinct
    /\ MissesNoMoreThanVanished /\ EachIssueOnce

LEMMA FewerItems ==
    ASSUME NEW S \in SUBSET Number, NEW T \in SUBSET S
    PROVE  Cardinality(S) \in Nat /\ Cardinality(T) \in Nat /\ Cardinality(T) <= Cardinality(S)
<1>1. IsFiniteSet(Number)
  BY ListingAssumption, FS_Interval DEF Number
<1>2. IsFiniteSet(S)
  BY <1>1, FS_Subset
<1> QED
  BY <1>2, FS_Subset, FS_CardinalityType

LEMMA OneItemMore ==
    ASSUME NEW S \in SUBSET Number, NEW T \in SUBSET Number, NEW x, T \subseteq S \cup {x}
    PROVE  /\ Cardinality(S) \in Nat /\ Cardinality(T) \in Nat
           /\ Cardinality(T) <= Cardinality(S) + 1
<1>1. IsFiniteSet(Number)
  BY ListingAssumption, FS_Interval DEF Number
<1>2. IsFiniteSet(S) /\ Cardinality(S) \in Nat /\ Cardinality(T) \in Nat
  BY <1>1, FS_Subset, FS_CardinalityType
<1>3. IsFiniteSet(S \cup {x}) /\ Cardinality(S \cup {x}) <= Cardinality(S) + 1
  <2>1. /\ IsFiniteSet(S \cup {x})
        /\ Cardinality(S \cup {x}) = IF x \in S THEN Cardinality(S) ELSE Cardinality(S) + 1
    BY <1>2, FS_AddElement
  <2>2. PICK c \in Nat : c = Cardinality(S)
    BY <1>2
  <2> QED
    BY <2>1, <2>2
<1>4. Cardinality(T) <= Cardinality(S \cup {x}) /\ Cardinality(S \cup {x}) \in Nat
  BY <1>3, FS_Subset, FS_CardinalityType
<1> QED
  BY <1>2, <1>3, <1>4

\* Whatever GitHub does, no more is missed than has vanished.
LEMMA GitHubStep ==
    ASSUME Sound, Appears \/ Vanishes
    PROVE  /\ stayed' \subseteq stayed /\ vanished' \in Nat /\ vanished' >= vanished
           /\ \A found : \A m \in Nat :
                 Cardinality(Missed(list, stayed, found, m)) <= vanished
                     => Cardinality(Missed(list', stayed', found, m)) <= vanished'
<1>1. /\ list \in Seq(Number) /\ unused \subseteq Number /\ stayed \subseteq Number /\ vanished \in Nat
      /\ IsInjective(list) /\ unused \cap ToSet(list) = {} /\ stayed \subseteq ToSet(list)
  BY DEF Sound, TypeOK, ListOK
<1>2. CASE Appears
  <2>1. PICK n \in unused, k \in 1..Len(list) + 1 : list' = InsertAt(list, k, n)
    BY <1>2 DEF Appears
  <2>2. stayed' = stayed /\ vanished' = vanished
    BY <1>2 DEF Appears, history
  <2>3. n \in Number /\ n \notin ToSet(list) /\ n \notin stayed
    BY <1>1, <2>1
  <2>4. ASSUME NEW found, NEW m \in Nat, Cardinality(Missed(list, stayed, found, m)) <= vanished
        PROVE  Cardinality(Missed(list', stayed', found, m)) <= vanished'
    <3>1. First(list', m) \subseteq First(list, m) \cup {n}
      BY <1>1, <2>1, <2>3, InsertShifts
    <3>2. Missed(list', stayed', found, m) \subseteq Missed(list, stayed, found, m)
      BY <2>2, <2>3, <3>1 DEF Missed
    <3>3. Missed(list, stayed, found, m) \subseteq Number
      BY <1>1 DEF Missed
    <3>4. PICK c \in Nat, d \in Nat :
              /\ c = Cardinality(Missed(list, stayed, found, m))
              /\ d = Cardinality(Missed(list', stayed', found, m)) /\ d <= c
      BY <3>2, <3>3, FewerItems
    <3> QED
      BY <1>1, <2>2, <2>4, <3>4
  <2> QED
    BY <1>1, <2>2, <2>4
<1>3. CASE Vanishes
  <2>1. PICK k \in DOMAIN list : list' = RemoveAt(list, k) /\ stayed' = stayed \ {list[k]}
    BY <1>3 DEF Vanishes
  <2>2. vanished' = vanished + 1
    BY <1>3 DEF Vanishes
  <2>3. k \in 1..Len(list)
    BY <1>1, LenProperties
  <2>4. ASSUME NEW found, NEW m \in Nat, Cardinality(Missed(list, stayed, found, m)) <= vanished
        PROVE  Cardinality(Missed(list', stayed', found, m)) <= vanished'
    <3>1. First(list', m) \subseteq First(list, m) \cup {list[m + 1]}
      BY <1>1, <2>1, <2>3, RemoveShifts
    <3>2. Missed(list', stayed', found, m) \subseteq Missed(list, stayed, found, m) \cup {list[m + 1]}
      BY <2>1, <3>1 DEF Missed
    <3>3. Missed(list, stayed, found, m) \subseteq Number /\ Missed(list', stayed', found, m) \subseteq Number
      BY <1>1, <2>1 DEF Missed
    <3>4. PICK c \in Nat, d \in Nat :
              /\ c = Cardinality(Missed(list, stayed, found, m))
              /\ d = Cardinality(Missed(list', stayed', found, m)) /\ d <= c + 1
      BY <3>2, <3>3, OneItemMore
    <3> QED
      BY <1>1, <2>2, <2>4, <3>4
  <2>5. vanished' \in Nat /\ vanished' >= vanished
    BY <1>1, <2>2
  <2> QED
    BY <2>1, <2>4, <2>5
<1> QED
  BY <1>2, <1>3

\* The page that is decoded is the one GitHub answered with.
LEMMA DecodedPage ==
    ASSUME Sound, output = <<>>, NEW P \in Page, Printing(P), NEW items \in Page, Answered(items)
    PROVE  items = P /\ ToSet(all \o items) = ToSet(all) \cup ToSet(P)
<1>1. /\ printed \in Seq(Byte) /\ bytes = EndOf(printed, Capacity)
      /\ truncated <=> Len(printed) > Capacity
  BY DEF Sound, TypeOK, TailHoldsEnd
<1>2. bytes = printed
  BY <1>1 DEF Answered, EndOf
<1>3. printed \o <<>> = printed
  BY <1>1, ConcatEmptySeq
<1>4. JSON(items) = JSON(P)
  BY <1>2, <1>3 DEF Answered, Printing
<1>5. items = P
  BY <1>4, JSONInjective, PageIsSeq
<1>6. all \in Seq(Number) /\ items \in Seq(Number)
  BY PageIsSeq DEF Sound, TypeOK
<1>7. Range(all \o items) = Range(all) \cup Range(items)
  BY <1>6, RangeConcatenation
<1>8. \A q : ToSet(q) = Range(q)
  BY DEF ToSet, Range
<1> QED
  BY <1>5, <1>7, <1>8

\* What Comments makes of the items: every issue among them, once, in order.
LEMMA CommentsList ==
    ASSUME Sound, Distinct, Comments
    PROVE  /\ \A j, k \in DOMAIN issues' : j < k => issues'[j] < issues'[k]
           /\ ToSet(issues') = ToSet(all) \ Pull
<1>1. PICK order \in Bijection(1..Cardinality(Issues), Issues) :
          /\ issues' = [k \in DOMAIN order |-> all[order[k]]]
          /\ \A j, k \in DOMAIN order : j < k => issues'[j] <= issues'[k]
  BY DEF Comments
<1>2. /\ order \in [1..Cardinality(Issues) -> Issues]
      /\ \A j, k \in DOMAIN order : order[j] = order[k] => j = k
      /\ \A x \in Issues : \E k \in DOMAIN order : order[k] = x
  BY <1>1 DEF Bijection, Injection, Surjection, IsInjective
<1>3. DOMAIN issues' = DOMAIN order /\ \A k \in DOMAIN order : issues'[k] = all[order[k]] /\ order[k] \in Issues
  BY <1>1, <1>2
<1>4. all \in Seq(Number) /\ DOMAIN all = 1..Len(all) /\ Issues = {k \in DOMAIN all : all[k] \notin Pull}
  BY LenProperties DEF Sound, TypeOK, Issues
<1>5. \A k \in Issues : all[k] \in Number
  BY <1>4, ElementOfSeq
<1>6. \A j, k \in Issues : all[j] = all[k] => j = k
  BY DEF Distinct, Unique, Comments, Goto
<1>7. ASSUME NEW j \in DOMAIN issues', NEW k \in DOMAIN issues', j < k PROVE issues'[j] < issues'[k]
  <2>1. j \in 1..Cardinality(Issues) /\ k \in 1..Cardinality(Issues)
    BY <1>2, <1>3
  <2>2. j # k /\ order[j] # order[k]
    BY <1>2, <1>3, <1>7, <2>1
  <2>3. issues'[j] # issues'[k]
    BY <1>3, <1>6, <2>2
  <2>4. issues'[j] <= issues'[k] /\ issues'[j] \in Number /\ issues'[k] \in Number
    BY <1>1, <1>3, <1>5, <1>7
  <2> QED
    BY <2>3, <2>4 DEF Number
<1>8. ToSet(issues') = {all[k] : k \in Issues}
  BY <1>2, <1>3 DEF ToSet
<1>9. {all[k] : k \in Issues} = ToSet(all) \ Pull
  BY <1>4 DEF ToSet
<1> QED
  BY <1>7, <1>8, <1>9

LEMMA IInvInit == ASSUME Init PROVE IInv
<1>1. Sound
  BY SoundInit
<1>2. pc = "idle" /\ DOMAIN issues = {} /\ ToSet(issues) = {}
  BY DEF Init, ToSet
<1> QED
  BY <1>1, <1>2 DEF IInv, PagesRead, PageOnItsWay, AllRead, Distinct, MissesNoMoreThanVanished, EachIssueOnce

LEMMA IInvStep == ASSUME IInv, [Next]_vars PROVE IInv'
<1>1. /\ Sound /\ PagesRead /\ PageOnItsWay /\ AllRead /\ Distinct
      /\ MissesNoMoreThanVanished /\ EachIssueOnce
  BY DEF IInv
<1>2. Sound'
  BY <1>1, SoundStep
<1>3. /\ list \in Seq(Number) /\ stayed \subseteq Number /\ stayed \subseteq ToSet(list)
      /\ vanished \in Nat /\ PageSize \in Nat \ {0} /\ printed \in Seq(Byte) /\ output \in Seq(Byte)
      /\ page \in 0..MaxPages /\ MaxPages \in Nat
  BY <1>1, ListingAssumption DEF Sound, TypeOK, ListOK
<1>4. ASSUME UNCHANGED issues PROVE EachIssueOnce'
  BY <1>1, <1>4 DEF EachIssueOnce
<1>5. CASE Call
  <2>1. pc' = "ask" /\ page' = 1 /\ all' = <<>> /\ vanished' = 0 /\ UNCHANGED issues
    BY <1>5 DEF Call
  <2>2. (page' - 1) * PageSize = 0
    BY <1>3, <2>1
  <2>3. First(list', 0) = {}
    BY DEF First
  <2>4. Missed(list', stayed', ToSet(all'), (page' - 1) * PageSize) = {}
    BY <2>2, <2>3 DEF Missed
  <2>5. Cardinality({}) = 0
    BY FS_EmptySet
  <2>6. PagesRead'
    <3>1. Cardinality(Missed(list', stayed', ToSet(all'), (page' - 1) * PageSize)) <= vanished'
      <4>1. Cardinality(Missed(list', stayed', ToSet(all'), (page' - 1) * PageSize)) = 0
        BY <2>4, <2>5, Zenon
      <4>2. 0 <= vanished'
        BY <2>1
      <4> QED
        BY <4>1, <4>2, Zenon
    <3> QED
      BY <3>1 DEF PagesRead
  <2> QED
    BY <1>2, <1>4, <2>1, <2>6 DEF IInv, PageOnItsWay, AllRead, Distinct, MissesNoMoreThanVanished
<1>6. CASE Ask
  <2>1. /\ pc = "ask" /\ pc' = "print" /\ output' = JSON(PageOf(list, page))
        /\ UNCHANGED <<list, page, all, issues, stayed, vanished, printed>>
    BY <1>6 DEF Ask, Goto, github, history, tail
  <2>2. page \in Nat \ {0}
    BY <1>1, <2>1 DEF Sound, RoomLeft
  <2>3. PICK P \in Page : P = PageOf(list, page)
    BY <1>3, <2>2, PageProperties
  <2>4. /\ First(list, page * PageSize) = First(list, (page - 1) * PageSize) \cup ToSet(P)
        /\ Len(P) < PageSize => First(list, page * PageSize) = ToSet(list)
    BY <1>3, <2>2, <2>3, PageProperties
  <2>5. PICK S \in SUBSET Number : S = Missed(list, stayed, ToSet(all), (page - 1) * PageSize)
    BY <1>3 DEF Missed
  <2>6. Cardinality(S) \in Nat /\ Cardinality(S) <= vanished
    BY <1>1, <2>1, <2>5, FewerItems DEF PagesRead
  <2>7. Cardinality(Missed(list, stayed, ToSet(all) \cup ToSet(P), page * PageSize)) <= vanished
    <3>1. Missed(list, stayed, ToSet(all) \cup ToSet(P), page * PageSize) \subseteq S
      BY <2>4, <2>5 DEF Missed
    <3>2. PICK c \in Nat, d \in Nat :
              /\ c = Cardinality(S) /\ d <= c
              /\ d = Cardinality(Missed(list, stayed, ToSet(all) \cup ToSet(P), page * PageSize))
      BY <3>1, FewerItems
    <3>3. vanished \in Nat /\ c <= vanished
      BY <1>3, <2>6, <3>2
    <3>4. d <= vanished
      BY <3>2, <3>3
    <3> QED
      BY <3>2, <3>4
  <2>8. Len(P) < PageSize => Cardinality(stayed \ (ToSet(all) \cup ToSet(P))) <= vanished
    <3>1. ASSUME Len(P) < PageSize PROVE stayed \ (ToSet(all) \cup ToSet(P)) \subseteq S
      BY <1>3, <2>4, <2>5, <3>1 DEF Missed
    <3> QED
      BY <1>3, <2>6, <3>1, FewerItems
  <2>9. printed' \o output' = JSON(P)
    <3>1. printed = <<>>
      BY <1>1, <2>1 DEF Sound, Silent
    <3>2. JSON(P) \in Seq(Byte)
      BY PageIsSeq, JSONProperties
    <3> QED
      BY <2>1, <2>3, <3>1, <3>2, ConcatEmptySeq
  <2>10. Printing(P)'
    BY <2>1, <2>7, <2>8, <2>9 DEF Printing
  <2>11. PageOnItsWay'
    BY <2>10 DEF PageOnItsWay
  <2> QED
    BY <1>2, <1>4, <2>1, <2>11 DEF IInv, PagesRead, AllRead, Distinct, MissesNoMoreThanVanished
<1>7. CASE GhWrites
  <2>1. PICK n \in 1..Len(output) :
            /\ Write(SubSeq(output, 1, n))
            /\ output' = SubSeq(output, n + 1, Len(output))
    BY <1>7 DEF GhWrites
  <2>2. pc = "print" /\ UNCHANGED <<list, pc, page, all, issues, stayed, vanished>>
    BY <1>7 DEF GhWrites, github, history
  <2>3. PICK P \in Page : Printing(P)
    BY <1>1, <2>2 DEF PageOnItsWay
  <2>4. printed' \o output' = printed \o output
    <3>1. printed' = printed \o SubSeq(output, 1, n)
      BY <2>1 DEF Write
    <3>2. /\ SubSeq(output, 1, n) \in Seq(Byte) /\ output' \in Seq(Byte)
          /\ SubSeq(output, 1, n) \o output' = output
      BY <1>3, <2>1, PrintProperties
    <3>3. (printed \o SubSeq(output, 1, n)) \o output' = printed \o (SubSeq(output, 1, n) \o output')
      BY <1>3, <3>2, ConcatAssociative
    <3> QED
      BY <3>1, <3>2, <3>3
  <2>5. Printing(P)'
    BY <2>2, <2>3, <2>4 DEF Printing
  <2>6. PageOnItsWay'
    BY <2>5 DEF PageOnItsWay
  <2> QED
    BY <1>2, <1>4, <2>2, <2>6 DEF IInv, PagesRead, AllRead, Distinct, MissesNoMoreThanVanished
<1>8. ASSUME pc = "print", output = <<>>, NEW items \in Page, Answered(items), all' = all \o items,
             UNCHANGED <<list, stayed, vanished>>
      PROVE  /\ Cardinality(Missed(list', stayed', ToSet(all'), page * PageSize)) <= vanished'
             /\ Len(items) < PageSize => Cardinality(stayed' \ ToSet(all')) <= vanished'
  <2>1. PICK P \in Page : Printing(P)
    BY <1>1, <1>8 DEF PageOnItsWay
  <2>2. items = P /\ ToSet(all') = ToSet(all) \cup ToSet(P)
    BY <1>1, <1>8, <2>1, DecodedPage
  <2> QED
    BY <1>8, <2>1, <2>2 DEF Printing
<1>9. CASE NextPage
  <2>1. PICK items \in Page : Answered(items) /\ all' = all \o items
    BY <1>9 DEF NextPage
  <2>2. /\ pc = "print" /\ output = <<>> /\ pc' = "ask" /\ page' = page + 1
        /\ UNCHANGED <<list, issues, stayed, vanished>>
    BY <1>9 DEF NextPage, Printed, Goto, github, history
  <2>3. page' - 1 = page
    BY <1>3, <2>2
  <2>4. PagesRead'
    BY <1>8, <2>1, <2>2, <2>3 DEF PagesRead
  <2> QED
    BY <1>2, <1>4, <2>2, <2>4 DEF IInv, PageOnItsWay, AllRead, Distinct, MissesNoMoreThanVanished
<1>10. CASE LastPage
  <2>1. PICK items \in Page : Answered(items) /\ Len(items) < PageSize /\ all' = all \o items
    BY <1>10 DEF LastPage
  <2>2. /\ pc = "print" /\ output = <<>> /\ pc' = "check"
        /\ UNCHANGED <<list, issues, stayed, vanished>>
    BY <1>10 DEF LastPage, Printed, Goto, github, history
  <2>3. AllRead'
    BY <1>8, <2>1, <2>2 DEF AllRead
  <2> QED
    BY <1>2, <1>4, <2>2, <2>3 DEF IInv, PagesRead, PageOnItsWay, Distinct, MissesNoMoreThanVanished
<1>11. CASE PageRefused \/ GhFails \/ CommentsFail
  <2>1. pc' = "failed" /\ UNCHANGED issues
    BY <1>11 DEF PageRefused, GhFails, CommentsFail, Printed, Goto
  <2> QED
    BY <1>2, <1>4, <2>1 DEF IInv, PagesRead, PageOnItsWay, AllRead, Distinct, MissesNoMoreThanVanished
<1>12. CASE Check
  <2>1. pc = "check" /\ pc' = (IF Unique THEN "comments" ELSE "failed") /\ UNCHANGED <<all, issues, stayed, vanished>>
    BY <1>12 DEF Check, history
  <2>2. AllRead'
    BY <1>1, <2>1 DEF AllRead
  <2>3. Unique' <=> Unique
    BY <2>1 DEF Unique, Issues
  <2>4. Distinct'
    BY <2>1, <2>3 DEF Distinct
  <2> QED
    BY <1>2, <1>4, <2>1, <2>2, <2>4 DEF IInv, PagesRead, PageOnItsWay, MissesNoMoreThanVanished
<1>13. CASE Comments
  <2>1. pc = "comments" /\ pc' = "listed" /\ UNCHANGED <<all, stayed, vanished>>
    BY <1>13 DEF Comments, Goto, history
  <2>2. /\ \A j, k \in DOMAIN issues' : j < k => issues'[j] < issues'[k]
        /\ ToSet(issues') = ToSet(all) \ Pull
    BY <1>1, <1>13, CommentsList
  <2>3. EachIssueOnce'
    BY <2>2 DEF EachIssueOnce
  <2>4. Cardinality(stayed \ ToSet(all)) <= vanished
    BY <1>1, <2>1 DEF AllRead
  <2>5. {n \in stayed \ Pull : n \notin ToSet(issues')} \subseteq stayed \ ToSet(all)
    BY <2>2
  <2>6. PICK c \in Nat, d \in Nat :
            /\ c = Cardinality(stayed \ ToSet(all)) /\ d <= c
            /\ d = Cardinality({n \in stayed \ Pull : n \notin ToSet(issues')})
    BY <1>3, <2>5, FewerItems
  <2>7. d <= vanished
    BY <1>3, <2>4, <2>6
  <2>8. MissesNoMoreThanVanished'
    BY <2>1, <2>6, <2>7 DEF MissesNoMoreThanVanished
  <2> QED
    BY <1>2, <2>1, <2>3, <2>8 DEF IInv, PagesRead, PageOnItsWay, AllRead, Distinct
<1>14. CASE Appears \/ Vanishes
  <2>1. UNCHANGED <<pc, page, all, issues, output, printed>>
    BY <1>14 DEF Appears, Vanishes, stdout, tail
  <2>2. /\ stayed' \subseteq stayed /\ vanished' \in Nat /\ vanished' >= vanished
        /\ \A found : \A m \in Nat :
              Cardinality(Missed(list, stayed, found, m)) <= vanished
                  => Cardinality(Missed(list', stayed', found, m)) <= vanished'
    BY <1>1, <1>14, GitHubStep
  <2>3. ASSUME NEW S \in SUBSET Number, NEW T \in SUBSET S, Cardinality(S) <= vanished
        PROVE  Cardinality(T) <= vanished'
    <3>1. PICK c \in Nat, d \in Nat : c = Cardinality(S) /\ d = Cardinality(T) /\ d <= c
      BY FewerItems
    <3> QED
      BY <1>3, <2>2, <2>3, <3>1
  <2>4. PagesRead'
    <3>1. ASSUME pc = "ask" PROVE (page - 1) * PageSize \in Nat
      <4>1. page \in Nat \ {0}
        BY <1>1, <3>1 DEF Sound, RoomLeft
      <4> QED
        BY <4>1, PagesBefore
    <3> QED
      BY <1>1, <2>1, <2>2, <3>1 DEF PagesRead
  <2>5. PageOnItsWay'
    <3>1. SUFFICES ASSUME pc = "print" PROVE \E P \in Page : Printing(P)'
      BY <2>1 DEF PageOnItsWay
    <3>2. PICK P \in Page : Printing(P)
      BY <1>1, <3>1 DEF PageOnItsWay
    <3>3. page * PageSize \in Nat
      BY <1>3
    <3>4. Cardinality(Missed(list', stayed', ToSet(all) \cup ToSet(P), page * PageSize)) <= vanished'
      BY <2>2, <3>2, <3>3 DEF Printing
    <3>5. ASSUME Len(P) < PageSize PROVE Cardinality(stayed' \ (ToSet(all) \cup ToSet(P))) <= vanished'
      <4>1. stayed' \ (ToSet(all) \cup ToSet(P)) \subseteq stayed \ (ToSet(all) \cup ToSet(P))
        BY <2>2
      <4> QED
        BY <1>3, <2>3, <3>2, <3>5, <4>1 DEF Printing
    <3>6. Printing(P)'
      BY <2>1, <3>2, <3>4, <3>5 DEF Printing
    <3> QED
      BY <3>6
  <2>6. AllRead'
    <3>1. stayed' \ ToSet(all) \subseteq stayed \ ToSet(all)
      BY <2>2
    <3> QED
      BY <1>1, <1>3, <2>1, <2>3, <3>1 DEF AllRead
  <2>7. Distinct'
    BY <1>1, <2>1 DEF Distinct, Unique, Issues
  <2>8. MissesNoMoreThanVanished'
    <3>1. {n \in stayed' \ Pull : n \notin ToSet(issues)} \subseteq {n \in stayed \ Pull : n \notin ToSet(issues)}
      BY <2>2
    <3> QED
      BY <1>1, <1>3, <2>1, <2>3, <3>1 DEF MissesNoMoreThanVanished
  <2> QED
    BY <1>2, <1>4, <2>1, <2>4, <2>5, <2>6, <2>7, <2>8 DEF IInv
<1>15. CASE UNCHANGED vars
  <2>1. UNCHANGED <<list, pc, page, all, issues, output, printed, stayed, vanished>>
    BY <1>15 DEF vars, github, history, stdout, tail
  <2>2. PagesRead' /\ AllRead' /\ Distinct' /\ MissesNoMoreThanVanished'
    BY <1>1, <2>1 DEF PagesRead, AllRead, Distinct, Unique, Issues, MissesNoMoreThanVanished
  <2>3. PageOnItsWay'
    BY <1>1, <2>1 DEF PageOnItsWay, Printing
  <2> QED
    BY <1>2, <1>4, <2>1, <2>2, <2>3 DEF IInv
<1> QED
  BY <1>5, <1>6, <1>7, <1>9, <1>10, <1>11, <1>12, <1>13, <1>14, <1>15 DEF Next

LEMMA IInvInvariant == Spec => []IInv
BY IInvInit, IInvStep, PTL DEF Spec
-----------------------------------------------------------------------------
\* The listing keeps to its types and to MaxPages pages of PageSize items
\* (pages, github.go:150-168).
THEOREM ListingTypes == Spec => []TypeOK
<1>1. IInv => TypeOK
  BY DEF IInv, Sound
<1> QED
  BY <1>1, IInvInvariant, PTL

\* While gh prints a page, in writes of any size, the Tail holds the end of
\* it and admits every loss, also when a command fails and the next begins.
THEOREM ListingTail == Spec => []TailHoldsEnd
<1>1. IInv => TailHoldsEnd
  BY DEF IInv, Sound
<1> QED
  BY <1>1, IInvInvariant, PTL

\* A listing that succeeds misses no more of the issues that stayed than have
\* vanished since it began, for every number of items, size of page and order
\* of the changes (github.go:71-111 with pages).
THEOREM ListingMissesFew == Spec => []MissesNoMoreThanVanished
<1>1. IInv => MissesNoMoreThanVanished
  BY DEF IInv
<1> QED
  BY <1>1, IInvInvariant, PTL

\* A listing that succeeds names each issue once, in order, and no pull request.
THEOREM ListingNamesOnce == Spec => []EachIssueOnce
<1>1. IInv => EachIssueOnce
  BY DEF IInv
<1> QED
  BY <1>1, IInvInvariant, PTL

\* When nothing has vanished, a listing that succeeds is complete: an issue that
\* it does not name was not there when it began.  So a marker that the reconcile
\* loop (run.go:185-205) misses in it belongs to a creation that had not happened.
NothingMissed == pc = "listed" /\ vanished = 0 => stayed \ Pull \subseteq ToSet(issues)

THEOREM ListingComplete == Spec => []NothingMissed
<1>1. IInv => NothingMissed
  <2>1. SUFFICES ASSUME IInv, pc = "listed", vanished = 0 PROVE stayed \ Pull \subseteq ToSet(issues)
    BY DEF NothingMissed
  <2>2. PICK S : S = {n \in stayed \ Pull : n \notin ToSet(issues)}
    OBVIOUS
  <2>3. S \subseteq Number
    BY <2>1, <2>2 DEF IInv, Sound, TypeOK
  <2>4. Cardinality(S) <= 0
    BY <2>1, <2>2 DEF IInv, MissesNoMoreThanVanished
  <2>5. IsFiniteSet(S) /\ Cardinality(S) \in Nat
    <3>1. IsFiniteSet(Number)
      BY ListingAssumption, FS_Interval DEF Number
    <3> QED
      BY <2>3, <3>1, FS_Subset, FS_CardinalityType
  <2>6. Cardinality(S) = 0
    BY <2>4, <2>5
  <2>7. S = {}
    BY <2>5, <2>6, FS_EmptySet
  <2> QED
    BY <2>2, <2>7
<1> QED
  BY <1>1, IInvInvariant, PTL
=============================================================================
