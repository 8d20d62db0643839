------------------------- MODULE AgentReceiptProofs -------------------------
(***************************************************************************)
(* The search for a receipt, for texts of any length, and the way of any   *)
(* proposals through the State.                                            *)
(***************************************************************************)
EXTENDS AgentReceipt, SequenceTheorems, WellFoundedInduction, TLAPS

(***************************************************************************)
(* The last line.                                                          *)
(***************************************************************************)
LEMMA MaxProperties ==
    ASSUME NEW n \in Nat, NEW S \in SUBSET (0..n), NEW a \in S
    PROVE  Max(S) \in S /\ \A y \in S : Max(S) >= y
<1> DEFINE D == {d \in Nat : n - d \in S}
<1>1. n - a \in D
  OBVIOUS
<1>2. PICK d \in D : \A e \in D : d <= e
  <2>1. D \subseteq Nat /\ D # {}
    BY <1>1
  <2> HIDE DEF D
  <2>2. \E d \in D : \A e \in D : ~ (<<e, d>> \in OpToRel(<, Nat))
    BY <2>1, WFMin, NatLessThanWellFounded, Zenon
  <2>3. \E d \in D : \A e \in D : ~ (e < d)
    BY <2>1, <2>2, Zenon DEF OpToRel
  <2> QED
    BY <2>1, <2>3
<1>3. n - d \in S /\ \A y \in S : n - d >= y
  <2>1. \A y \in S : n - y \in D
    OBVIOUS
  <2> QED
    BY <1>2, <2>1
<1> QED
  BY <1>3 DEF Max

\* A part of a text, symbol by symbol.
LEMMA PartProperties ==
    ASSUME NEW t \in Seq(Symbol), NEW m \in Nat, NEW n \in 0..Len(t), m <= n
    PROVE  /\ SubSeq(t, m + 1, n) \in Seq(Symbol)
           /\ Len(SubSeq(t, m + 1, n)) = n - m
           /\ \A k \in 1..n - m : SubSeq(t, m + 1, n)[k] = t[m + k]
<1>1. Len(t) \in Nat /\ n \in Int /\ m + 1 \in Int
  BY LenProperties
<1>2. \A k \in m + 1..n : t[k] \in Symbol
  BY <1>1, ElementOfSeq
<1>3. /\ SubSeq(t, m + 1, n) \in Seq(Symbol)
      /\ Len(SubSeq(t, m + 1, n)) = IF m + 1 <= n THEN n - (m + 1) + 1 ELSE 0
      /\ \A k \in 1..n - (m + 1) + 1 : SubSeq(t, m + 1, n)[k] = t[m + 1 + k - 1]
  BY <1>1, <1>2, SubSeqProperties
<1> QED
  BY <1>1, <1>3

\* A text whose last symbol but for line breaks is at j ends in the line up to j.
LEMMA LastLineIs ==
    ASSUME NEW t \in Seq(Symbol), NEW j \in 1..Len(t), t[j] # Newline,
           \A k \in j + 1..Len(t) : t[k] = Newline
    PROVE  \E b \in 0..j - 1 :
               /\ LastLine(t) = SubSeq(t, b + 1, j)
               /\ b = 0 \/ t[b] = Newline
               /\ \A k \in b + 1..j : t[k] # Newline
<1> DEFINE ink == {k \in DOMAIN t : t[k] # Newline}
           before(m) == {k \in Breaks(t) : k < m}
<1>1. Len(t) \in Nat /\ DOMAIN t = 1..Len(t)
  BY LenProperties
<1>2. Max(ink) = j
  <2>1. ink \in SUBSET (0..Len(t)) /\ j \in ink
    BY <1>1
  <2>2. Max(ink) \in ink /\ Max(ink) >= j
    BY <1>1, <2>1, MaxProperties
  <2>3. \A k \in ink : k <= j
    BY <1>1
  <2> HIDE DEF ink
  <2>4. PICK m \in ink : m = Max(ink)
    BY <2>2
  <2>5. m \in Int /\ m <= j /\ m >= j
    BY <1>1, <2>1, <2>2, <2>3, <2>4
  <2> QED
    BY <2>4, <2>5
<1>3. /\ Max(before(j)) \in 0..j - 1
      /\ Max(before(j)) = 0 \/ t[Max(before(j))] = Newline
      /\ \A k \in Max(before(j)) + 1..j : t[k] # Newline
  <2>1. before(j) \in SUBSET (0..Len(t)) /\ 0 \in before(j)
    BY <1>1 DEF Breaks
  <2>2. Max(before(j)) \in before(j) /\ \A k \in before(j) : Max(before(j)) >= k
    BY <1>1, <2>1, MaxProperties
  <2>3. \A k \in 1..j - 1 : t[k] = Newline => k \in before(j)
    BY <1>1 DEF Breaks
  <2>4. before(j) \subseteq 0..j - 1 /\ \A k \in before(j) : k = 0 \/ t[k] = Newline
    BY <1>1 DEF Breaks
  <2> HIDE DEF before
  <2> QED
    BY <1>1, <2>2, <2>3, <2>4
<1>4. LastLine(t) = SubSeq(t, Max(before(j)) + 1, j)
  BY <1>1, <1>2 DEF LastLine
<1> QED
  BY <1>3, <1>4

LEMMA LastLineTyped == ASSUME NEW t \in Seq(Symbol) PROVE LastLine(t) \in Seq(Symbol)
<1> DEFINE ink == {k \in DOMAIN t : t[k] # Newline}
<1>1. Len(t) \in Nat /\ DOMAIN t = 1..Len(t)
  BY LenProperties
<1>2. CASE ink = {}
  BY <1>2, EmptySeq DEF LastLine
<1>3. CASE ink # {}
  <2>1. PICK a : a \in ink
    BY <1>3
  <2>2. Max(ink) \in ink /\ \A k \in ink : Max(ink) >= k
    <3>1. ink \in SUBSET (0..Len(t))
      BY <1>1
    <3> HIDE DEF ink
    <3> QED
      BY <1>1, <2>1, <3>1, MaxProperties
  <2>3. PICK j \in 1..Len(t) : t[j] # Newline /\ \A k \in j + 1..Len(t) : t[k] = Newline
    <3>1. Max(ink) \in 1..Len(t) /\ t[Max(ink)] # Newline
      BY <1>1, <2>2
    <3>2. \A k \in 1..Len(t) : t[k] # Newline => Max(ink) >= k
      BY <1>1, <2>2
    <3> HIDE DEF ink
    <3>3. \A k \in Max(ink) + 1..Len(t) : t[k] = Newline
      BY <1>1, <3>1, <3>2
    <3> QED
      BY <3>1, <3>3
  <2>4. PICK b \in 0..j - 1 : LastLine(t) = SubSeq(t, b + 1, j)
    BY <2>3, LastLineIs
  <2> QED
    BY <1>1, <2>3, <2>4, PartProperties
<1> QED
  BY <1>2, <1>3

\* JSON begins with an object or a string and has no line break in it.
LEMMA ValidProperties ==
    ASSUME NEW s \in Seq(Symbol), Valid(s)
    PROVE  /\ Len(s) > 1 /\ s[1] \in {Open, Quote}
           /\ \A k \in 1..Len(s) : s[k] # Newline
<1>1. Len(s) \in Nat
  BY LenProperties
<1>2. PICK depth \in 0..Len(s) \div 2 :
          /\ \A i \in 1..depth : s[i] = Open /\ s[Len(s) + 1 - i] = Close
          /\ \/ IsString(SubSeq(s, depth + 1, Len(s) - depth))
             \/ depth > 0 /\ SubSeq(s, depth + 1, Len(s) - depth) = <<>>
  BY DEF Valid
<1>3. depth \in Nat /\ depth <= Len(s) - depth /\ Len(s) - depth \in 0..Len(s)
  BY <1>1
<1> DEFINE core == SubSeq(s, depth + 1, Len(s) - depth)
<1>4. /\ core \in Seq(Symbol)
      /\ Len(core) = Len(s) - depth - depth
      /\ \A k \in 1..Len(s) - depth - depth : core[k] = s[depth + k]
  BY <1>3, PartProperties
<1>5. IsString(core) =>
          /\ Len(core) > 1 /\ core[1] = Quote
          /\ \A k \in 1..Len(core) : core[k] # Newline
  <2>1. DOMAIN core = 1..Len(core) /\ Len(core) \in Nat
    BY <1>4, LenProperties
  <2> HIDE DEF core
  <2> QED
    BY <2>1 DEF IsString
<1>6. core = <<>> => Len(core) = 0
  BY EmptySeq
<1>7. IsString(core) \/ (depth > 0 /\ core = <<>>)
  BY <1>2
<1> HIDE DEF core
<1>8. Len(s) > 1
  BY <1>1, <1>3, <1>4, <1>5, <1>6, <1>7
<1>9. s[1] \in {Open, Quote}
  <2>1. CASE depth = 0
    <3>1. Len(core) > 1 /\ core[1] = Quote
      BY <1>5, <1>7, <2>1
    <3>2. core[1] = s[1]
      BY <1>1, <1>4, <2>1, <3>1
    <3> QED
      BY <3>1, <3>2
  <2>2. CASE depth > 0
    BY <1>2, <1>3, <2>2
  <2> QED
    BY <1>3, <2>1, <2>2
<1>10. ASSUME NEW k \in 1..Len(s) PROVE s[k] # Newline
  <2>1. CASE k <= depth
    <3>1. k \in 1..depth
      BY <1>3, <2>1
    <3> QED
      BY <1>2, <3>1 DEF Open, Newline
  <2>2. CASE k > Len(s) - depth
    <3>1. Len(s) + 1 - k \in 1..depth /\ Len(s) + 1 - (Len(s) + 1 - k) = k
      BY <1>1, <1>3, <2>2
    <3>2. s[Len(s) + 1 - (Len(s) + 1 - k)] = Close
      BY <1>2, <3>1
    <3> QED
      BY <3>1, <3>2 DEF Close, Newline
  <2>3. CASE k > depth /\ k <= Len(s) - depth
    <3>1. k - depth \in 1..Len(s) - depth - depth /\ depth + (k - depth) = k
      BY <1>1, <1>3, <2>3
    <3>2. core[k - depth] = s[k] /\ k - depth \in 1..Len(core)
      BY <1>4, <3>1
    <3>3. Len(core) # 0
      BY <1>1, <1>3, <1>4, <3>1
    <3> QED
      BY <1>5, <1>6, <1>7, <3>2, <3>3
  <2> QED
    BY <1>1, <1>3, <2>1, <2>2, <2>3
<1> QED
  BY <1>8, <1>9, <1>10
-----------------------------------------------------------------------------
(***************************************************************************)
(* The search.                                                             *)
(***************************************************************************)
Offered(i) == line[i] = Prefix /\ Valid(After(line, i))

SearchInv ==
    /\ text \in Seq(Symbol) /\ answer \in Scan \cup Assessment
    /\ pc \in {"split", "search", "decode", "check", "record", "saved",
               "read", "assessed", "refused", "locked out"}
    /\ line \in Seq(Symbol) /\ at \in 0..Len(line)
    /\ raw \in Seq(Symbol)
    /\ pc = "split" => line = <<>> /\ at = 0
    /\ pc # "split" => line = LastLine(text)
    /\ pc \in {"split", "search"} => raw = <<>>
    /\ pc = "search" => \A i \in 1..at : ~Offered(i)
    /\ ReceiptIsOutermost

\* What follows a place in a line.
LEMMA AfterProperties ==
    ASSUME NEW l \in Seq(Symbol), NEW i \in 1..Len(l)
    PROVE  /\ After(l, i) \in Seq(Symbol)
           /\ Len(After(l, i)) = Len(l) - i
           /\ \A k \in 1..Len(l) - i : After(l, i)[k] = l[i + k]
<1>1. i \in Nat /\ Len(l) \in 0..Len(l) /\ i <= Len(l)
  BY LenProperties
<1>2. /\ SubSeq(l, i + 1, Len(l)) \in Seq(Symbol)
      /\ Len(SubSeq(l, i + 1, Len(l))) = Len(l) - i
      /\ \A k \in 1..Len(l) - i : SubSeq(l, i + 1, Len(l))[k] = l[i + k]
  BY <1>1, PartProperties
<1> QED
  BY <1>2 DEF After

LEMMA SearchInit == Init => SearchInv
<1> SUFFICES ASSUME Init PROVE SearchInv
  OBVIOUS
<1>1. text \in Seq(Symbol) /\ answer \in Scan \cup Assessment
  BY ReceiptAssumption DEF Init
<1> QED
  BY <1>1, EmptySeq DEF Init, SearchInv, ReceiptIsOutermost

\* What the search leaves alone stays as the search left it.
LEMMA SearchKept ==
    ASSUME SearchInv, UNCHANGED <<text, answer, line, at, raw>>,
           pc \notin {"split", "search"}, pc # "refused",
           pc' \in {"check", "record", "saved", "read", "assessed", "refused", "locked out"}
    PROVE  SearchInv'
<1>1. \E i \in {i \in DOMAIN line : Offered(i)} :
          raw = After(line, i) /\ \A j \in {j \in DOMAIN line : Offered(j)} : i <= j
  BY DEF SearchInv, ReceiptIsOutermost, Offered
<1>2. ReceiptIsOutermost'
  BY <1>1 DEF ReceiptIsOutermost, Offered
<1> QED
  BY <1>2 DEF SearchInv

LEMMA SearchStep == SearchInv /\ [Next]_vars => SearchInv'
<1> SUFFICES ASSUME SearchInv, [Next]_vars PROVE SearchInv'
  OBVIOUS
<1>1. Len(line) \in Nat /\ DOMAIN line = 1..Len(line)
  BY LenProperties DEF SearchInv
<1>2. CASE Split
  <2>1. line' = LastLine(text) /\ line' \in Seq(Symbol) /\ at' = 0 /\ raw' = <<>>
    BY <1>2, LastLineTyped DEF Split, Goto, SearchInv
  <2>2. at' \in 0..Len(line')
    BY <2>1, LenProperties
  <2>3. ReceiptIsOutermost'
    BY <1>2 DEF Split, Goto, ReceiptIsOutermost
  <2> QED
    BY <1>2, <2>1, <2>2, <2>3 DEF Split, Goto, SearchInv
<1>3. CASE Search
  <2>1. PICK i \in DOMAIN line :
            /\ IsNext(i)
            /\ IF Valid(After(line, i))
               THEN pc' = "decode" /\ raw' = After(line, i) /\ UNCHANGED at
               ELSE at' = i /\ UNCHANGED <<pc, raw>>
    BY <1>3 DEF Search
  <2>2. pc = "search" /\ UNCHANGED <<text, answer, line, saved>>
    BY <1>3 DEF Search
  <2>3. i \in 1..Len(line) /\ at \in 0..Len(line) /\ line[i] = Prefix
        /\ \A j \in 1..i - 1 : ~Offered(j)
    <3>1. \A j \in 1..at : ~Offered(j)
      BY <2>2 DEF SearchInv
    <3>2. at \in 0..Len(line) /\ i \in at + 1..Len(line) /\ line[i] = Prefix
          /\ \A j \in at + 1..i - 1 : line[j] # Prefix
      BY <2>1 DEF IsNext, SearchInv
    <3>3. \A j \in at + 1..i - 1 : ~Offered(j)
      BY <3>2 DEF Offered
    <3>4. \A j \in 1..i - 1 : j \in 1..at \/ j \in at + 1..i - 1
      BY <1>1, <3>2
    <3> QED
      BY <1>1, <3>1, <3>2, <3>3, <3>4
  <2>4. CASE Valid(After(line, i))
    <3>1. raw' = After(line, i) /\ raw' \in Seq(Symbol) /\ pc' = "decode" /\ at' = at
      BY <2>1, <2>3, <2>4, AfterProperties DEF SearchInv
    <3>2. Offered(i) /\ \A j \in {j \in DOMAIN line : Offered(j)} : i <= j
      BY <1>1, <2>3, <2>4 DEF Offered
    <3>3. ReceiptIsOutermost'
      BY <1>1, <2>2, <2>3, <3>1, <3>2 DEF ReceiptIsOutermost, Offered
    <3> QED
      BY <2>2, <3>1, <3>3 DEF SearchInv
  <2>5. CASE ~Valid(After(line, i))
    <3>1. at' = i /\ pc' = pc /\ raw' = raw
      BY <2>1, <2>5
    <3>2. ~Offered(i)
      BY <2>5 DEF Offered
    <3>3. \A j \in 1..i : ~Offered(j)
      BY <2>3, <3>2
    <3>4. ReceiptIsOutermost'
      BY <2>2, <3>1 DEF ReceiptIsOutermost
    <3>5. \A j \in 1..at' : ~Offered(j)'
      BY <2>2, <3>1, <3>3 DEF Offered
    <3> QED
      BY <1>1, <2>2, <2>3, <3>1, <3>4, <3>5 DEF SearchInv
  <2> QED
    BY <2>4, <2>5
<1>4. CASE Unfinished
  <2>1. pc = "search" /\ pc' = "refused" /\ UNCHANGED <<text, answer, line, at, raw, saved>>
    BY <1>4 DEF Unfinished, Goto
  <2>2. \A i \in 1..Len(line) : ~Offered(i)
    <3>1. at \in 0..Len(line) /\ \A i \in 1..at : ~Offered(i)
      BY <2>1 DEF SearchInv
    <3>2. \A i \in at + 1..Len(line) : ~Offered(i)
      BY <1>4 DEF Unfinished, Offered
    <3>3. \A i \in 1..Len(line) : i \in 1..at \/ i \in at + 1..Len(line)
      BY <1>1, <3>1
    <3> QED
      BY <3>1, <3>2, <3>3
  <2>3. ReceiptIsOutermost'
    BY <1>1, <2>1, <2>2 DEF ReceiptIsOutermost, Offered, SearchInv
  <2> QED
    BY <2>1, <2>3 DEF SearchInv
<1>5. CASE Decode
  BY <1>5, SearchKept DEF Decode
<1>6. CASE CheckAssessment
  BY <1>6, SearchKept DEF CheckAssessment
<1>7. CASE CheckScan
  BY <1>7, SearchKept DEF CheckScan
<1>8. CASE Record
  BY <1>8, SearchKept DEF Record, Goto
<1>9. CASE RecordFails
  BY <1>9, SearchKept DEF RecordFails, Goto
<1>10. CASE File
  BY <1>10, SearchKept DEF File
<1>11. CASE ReadState
  BY <1>11, SearchKept DEF ReadState
<1>12. CASE UNCHANGED vars
  BY <1>12 DEF vars, SearchInv, ReceiptIsOutermost, Offered
<1> QED
  BY <1>2, <1>3, <1>4, <1>5, <1>6, <1>7, <1>8, <1>9, <1>10, <1>11, <1>12 DEF Next

LEMMA SearchHolds == Spec => []SearchInv
<1> QED
  BY SearchInit, SearchStep, PTL DEF Spec

\* For texts of any length, the search ends at the outermost receipt that the
\* last line ends with, and without one only if the line offers none
\* (prompt.go:94-110).
THEOREM SearchIsRight == Spec => []ReceiptIsOutermost
<1>1. SearchInv => ReceiptIsOutermost
  BY DEF SearchInv
<1> QED
  BY <1>1, SearchHolds, PTL

\* For texts of any length, what an agent finishes with is what is read,
\* whatever its strings quote and its prose says of receipts
\* (prompt.go:94-110).
THEOREM FinishedIsRead == Spec => []FinishedIsUnderstood
<1>1. SearchInv => FinishedIsUnderstood
  <2> SUFFICES ASSUME SearchInv,
                      NEW i \in DOMAIN text, NEW j \in i + 1..Len(text),
                      text[i] = Prefix, IsObject(SubSeq(text, i + 1, j)),
                      \A k \in j + 1..Len(text) : text[k] = Newline,
                      \A k \in 1..i : text[k] \in {Open, Quote} => \E m \in k..i : text[m] = Newline,
                      pc \notin {"split", "search"}
               PROVE  raw = SubSeq(text, i + 1, j)
    BY DEF FinishedIsUnderstood
  <2> DEFINE object == SubSeq(text, i + 1, j)
  <2>1. /\ Len(text) \in Nat /\ i \in 1..Len(text) /\ j \in 1..Len(text) /\ i < j
        /\ text \in Seq(Symbol) /\ line = LastLine(text)
    <3>1. text \in Seq(Symbol) /\ line = LastLine(text)
      BY DEF SearchInv
    <3>2. Len(text) \in Nat /\ DOMAIN text = 1..Len(text)
      BY <3>1, LenProperties
    <3> QED
      BY <3>1, <3>2
  <2>2. /\ object \in Seq(Symbol) /\ Len(object) = j - i
        /\ \A k \in 1..j - i : object[k] = text[i + k]
    <3>1. i \in Nat /\ j \in 0..Len(text) /\ i <= j
      BY <2>1
    <3> QED
      BY <2>1, <3>1, PartProperties
  <2>3. Valid(object) /\ \A k \in 1..j - i : object[k] # Newline
    <3>1. Valid(object)
      BY DEF IsObject
    <3> HIDE DEF object
    <3> QED
      BY <2>2, <3>1, ValidProperties
  <2>4. \A k \in i..j : text[k] # Newline
    <3> SUFFICES ASSUME NEW k \in i..j PROVE text[k] # Newline
      OBVIOUS
    <3>1. CASE k = i
      BY <3>1 DEF Prefix, Newline
    <3>2. CASE k > i
      <4>1. k - i \in 1..j - i /\ i + (k - i) = k
        BY <2>1, <3>2
      <4> HIDE DEF object
      <4> QED
        BY <2>2, <2>3, <4>1
    <3> QED
      BY <2>1, <3>1, <3>2
  <2>5. PICK b \in 0..j - 1 :
            /\ line = SubSeq(text, b + 1, j)
            /\ b = 0 \/ text[b] = Newline
            /\ \A k \in b + 1..j : text[k] # Newline
    <3>1. text[j] # Newline
      BY <2>1, <2>4
    <3> QED
      BY <2>1, <3>1, LastLineIs
  <2>6. b \in Nat /\ b < i
    BY <2>1, <2>4, <2>5
  <2>7. /\ line \in Seq(Symbol) /\ Len(line) = j - b /\ DOMAIN line = 1..j - b
        /\ \A k \in 1..j - b : line[k] = text[b + k]
    <3>1. /\ line \in Seq(Symbol) /\ Len(line) = j - b
          /\ \A k \in 1..j - b : line[k] = text[b + k]
      BY <2>1, <2>5, <2>6, PartProperties
    <3> QED
      BY <3>1, LenProperties
  <2> DEFINE c == i - b
  <2>8. c \in 1..j - b /\ line[c] = Prefix
    BY <2>1, <2>6, <2>7
  <2>9. After(line, c) = object
    <3>1. /\ After(line, c) \in Seq(Symbol) /\ Len(After(line, c)) = j - i
          /\ \A k \in 1..j - i : After(line, c)[k] = line[c + k]
      <4>1. line \in Seq(Symbol) /\ c \in 1..Len(line) /\ Len(line) - c = j - i
        BY <2>1, <2>6, <2>7, <2>8
      <4> HIDE DEF c
      <4> QED
        BY <4>1, AfterProperties
    <3>2. \A k \in 1..j - i : line[c + k] = text[i + k]
      <4> SUFFICES ASSUME NEW k \in 1..j - i PROVE line[c + k] = text[i + k]
        OBVIOUS
      <4>1. c + k \in 1..j - b /\ b + (c + k) = i + k
        BY <2>1, <2>6
      <4> HIDE DEF c
      <4> QED
        BY <2>7, <4>1
    <3> HIDE DEF object, c
    <3>3. Len(After(line, c)) = Len(object) /\ Len(After(line, c)) = j - i
      BY <2>2, <3>1
    <3>4. \A k \in 1..Len(After(line, c)) : After(line, c)[k] = object[k]
      BY <2>2, <3>1, <3>2, <3>3
    <3> QED
      BY <2>2, <3>1, <3>3, <3>4, SeqEqual
  <2>10. Offered(c)
    BY <2>3, <2>8, <2>9 DEF Offered
  <2>11. ASSUME NEW d \in 1..j - b, Offered(d), d < c PROVE FALSE
    <3>1. /\ After(line, d) \in Seq(Symbol) /\ Valid(After(line, d))
          /\ After(line, d)[1] = line[d + 1]
      <4>1. line \in Seq(Symbol) /\ d \in 1..Len(line) /\ 1 \in 1..Len(line) - d
        BY <2>1, <2>6, <2>7, <2>11
      <4>2. After(line, d) \in Seq(Symbol) /\ After(line, d)[1] = line[d + 1]
        BY <4>1, AfterProperties
      <4> QED
        BY <2>11, <4>2 DEF Offered
    <3>2. line[d + 1] \in {Open, Quote}
      BY <3>1, ValidProperties
    <3>3. d + 1 \in 1..j - b /\ b + (d + 1) \in 1..i
      BY <2>1, <2>6, <2>11
    <3>4. text[b + (d + 1)] \in {Open, Quote}
      BY <2>7, <3>2, <3>3
    <3>5. PICK m \in b + (d + 1)..i : text[m] = Newline
      BY <3>3, <3>4
    <3>6. m \in b + 1..j
      BY <2>1, <2>6, <3>5
    <3> QED
      BY <2>5, <3>5, <3>6
  <2>12. raw = After(line, c)
    <3> HIDE DEF c
    <3>1. PICK d \in DOMAIN line :
              Offered(d) /\ raw = After(line, d) /\ \A e \in {e \in DOMAIN line : Offered(e)} : d <= e
      BY <2>7, <2>8, <2>10 DEF SearchInv, ReceiptIsOutermost, Offered
    <3>2. d \in 1..j - b /\ d <= c
      BY <2>7, <2>8, <2>10, <3>1
    <3>3. d = c
      BY <2>8, <2>11, <3>1, <3>2
    <3> QED
      BY <3>1, <3>3
  <2> QED
    BY <2>9, <2>12
<1> QED
  BY <1>1, SearchHolds, PTL
-----------------------------------------------------------------------------
(***************************************************************************)
(* The proposals of a scan.                                                *)
(***************************************************************************)
SavedInv ==
    /\ answer \in Scan \cup Assessment
    /\ pc = "record" => answer \in Scan /\ ScanTaken
    /\ saved \in Seq(Proposal) /\ Len(saved) <= MaxProposals
    /\ \A i \in DOMAIN saved : Readable(saved[i])
    /\ AcceptedIsReadable

\* Numbering a proposal and changing its status leave what validateProposal
\* looks at.
LEMMA StillValid ==
    ASSUME NEW p \in Proposal, validateProposal(p),
           NEW id \in {"32 digits"}, NEW s \in Statuses
    PROVE  LET q == [p EXCEPT !.requestId = id, !.status = s]
           IN  q \in Proposal /\ Readable(q)
BY DEF Proposal, Statuses, validateProposal, Readable

LEMMA StillReadable ==
    ASSUME NEW p \in Proposal, Readable(p), NEW s \in Statuses
    PROVE  LET q == [p EXCEPT !.status = s]
           IN  q \in Proposal /\ Readable(q)
BY DEF Proposal, Statuses, validateProposal, Readable

LEMMA SavedInit == Init => SavedInv
<1> SUFFICES ASSUME Init PROVE SavedInv
  OBVIOUS
<1>1. answer \in Scan \cup Assessment
  BY ReceiptAssumption DEF Init
<1>2. saved = <<>> /\ saved \in Seq(Proposal) /\ Len(saved) = 0 /\ DOMAIN saved = {}
  BY EmptySeq DEF Init
<1> QED
  BY <1>1, <1>2, ReceiptAssumption DEF Init, SavedInv, AcceptedIsReadable

LEMMA SavedStep == SavedInv /\ [Next]_vars => SavedInv'
<1> SUFFICES ASSUME SavedInv, [Next]_vars PROVE SavedInv'
  OBVIOUS
<1>1. /\ Len(saved) \in Nat /\ DOMAIN saved = 1..Len(saved)
      /\ \A i \in DOMAIN saved : saved[i] \in Proposal /\ Readable(saved[i])
  BY LenProperties, ElementOfSeq DEF SavedInv
<1>2. CASE Split
  BY <1>2 DEF Split, Goto, SavedInv, AcceptedIsReadable
<1>3. CASE Search
  BY <1>3 DEF Search, SavedInv, AcceptedIsReadable
<1>4. CASE Unfinished
  BY <1>4 DEF Unfinished, Goto, SavedInv, AcceptedIsReadable
<1>5. CASE Decode
  BY <1>5 DEF Decode, SavedInv, AcceptedIsReadable
<1>6. CASE CheckAssessment
  BY <1>6 DEF CheckAssessment, SavedInv, AcceptedIsReadable
<1>7. CASE CheckScan
  BY <1>7 DEF CheckScan, SavedInv, AcceptedIsReadable, ScanTaken
<1>8. CASE Record
  <2>1. /\ answer \in Scan /\ ScanTaken
        /\ pc' = "saved" /\ answer' = answer
    BY <1>8 DEF Record, Goto, SavedInv
  <2>2. PICK status \in {"dry_run", "pending"} :
            saved' = [i \in DOMAIN answer.proposals |->
                         [answer.proposals[i] EXCEPT !.requestId = "32 digits", !.status = status]]
    BY <1>8 DEF Record
  <2>3. /\ answer.proposals \in Seq(Proposal)
        /\ Len(answer.proposals) \in Nat /\ DOMAIN answer.proposals = 1..Len(answer.proposals)
    BY <2>1, LenProperties DEF Scan
  <2>4. \A i \in 1..Len(answer.proposals) :
            /\ answer.proposals[i] \in Proposal /\ validateProposal(answer.proposals[i])
    BY <2>1, <2>3, ElementOfSeq DEF ScanTaken
  <2>5. \A i \in 1..Len(answer.proposals) : saved'[i] \in Proposal /\ Readable(saved'[i])
    BY <2>2, <2>3, <2>4, StillValid DEF Statuses
  <2>6. DOMAIN saved' = 1..Len(answer.proposals)
    BY <2>2, <2>3
  <2>7. saved' \in Seq(Proposal) /\ Len(saved') = Len(answer.proposals)
    <3>1. saved' \in [1..Len(answer.proposals) -> Proposal]
      BY <2>2, <2>3, <2>5
    <3>2. saved' \in Seq(Proposal)
      BY <2>3, <3>1, SeqDef
    <3> QED
      BY <2>3, <2>6, <3>2, LenProperties
  <2>8. \A i \in DOMAIN saved' : Readable(saved[i])'
    BY <2>5, <2>6 DEF Readable, validateProposal
  <2>9. Len(saved') <= MaxProposals
    BY <2>1, <2>7 DEF ScanTaken
  <2> QED
    BY <2>1, <2>7, <2>8, <2>9 DEF SavedInv, AcceptedIsReadable
<1>9. CASE RecordFails
  BY <1>9 DEF RecordFails, Goto, SavedInv, AcceptedIsReadable
<1>10. CASE File
  <2>1. PICK i \in DOMAIN saved, status \in {"posting", "submitted"} :
            saved' = [saved EXCEPT ![i].status = status]
    BY <1>10 DEF File
  <2>2. pc = "saved" /\ pc' = pc /\ answer' = answer
    BY <1>10 DEF File
  <2> DEFINE new == [saved[i] EXCEPT !.status = status]
  <2>3. new \in Proposal /\ Readable(new)
    BY <1>1, <2>1, StillReadable DEF Statuses
  <2>4. saved' = [saved EXCEPT ![i] = new]
    BY <2>1
  <2> HIDE DEF new
  <2>5. /\ saved' \in Seq(Proposal) /\ Len(saved') = Len(saved)
        /\ \A k \in 1..Len(saved) : saved'[k] = IF k = i THEN new ELSE saved[k]
    <3>1. saved \in Seq(Proposal) /\ i \in 1..Len(saved) /\ new \in Proposal
      BY <1>1, <2>1, <2>3 DEF SavedInv
    <3> QED
      BY <2>4, <3>1, ExceptSeq
  <2>6. DOMAIN saved' = 1..Len(saved)
    BY <1>1, <2>4
  <2>7. \A k \in DOMAIN saved' : Readable(saved'[k])
    BY <1>1, <2>3, <2>5, <2>6
  <2> QED
    BY <2>2, <2>5, <2>7 DEF SavedInv, AcceptedIsReadable, Readable, validateProposal
<1>11. CASE ReadState
  <2>1. pc' = "read" /\ UNCHANGED <<answer, saved>>
    BY <1>11 DEF ReadState, SavedInv
  <2> QED
    BY <2>1 DEF SavedInv, AcceptedIsReadable
<1>12. CASE UNCHANGED vars
  BY <1>12 DEF vars, SavedInv, AcceptedIsReadable, ScanTaken
<1> QED
  BY <1>2, <1>3, <1>4, <1>5, <1>6, <1>7, <1>8, <1>9, <1>10, <1>11, <1>12 DEF Next

LEMMA SavedHolds == Spec => []SavedInv
<1> QED
  BY SavedInit, SavedStep, PTL DEF Spec

\* For every max_proposals and every answer: what parseScan lets into the State,
\* ReadState lets out of it (prompt.go:139-146, state.go:46-50).
THEOREM ScanIsReadable == Spec => []AcceptedIsReadable
<1>1. SavedInv => AcceptedIsReadable
  BY DEF SavedInv
<1> QED
  BY <1>1, SavedHolds, PTL

\* Types, for texts of any length and any number of proposals
\* (prompt.go:93-148).
THEOREM ReceiptTypes == Spec => []TypeOK
<1>1. SearchInv /\ SavedInv => TypeOK
  BY DEF SearchInv, SavedInv, TypeOK
<1> QED
  BY <1>1, SearchHolds, SavedHolds, PTL
=============================================================================
