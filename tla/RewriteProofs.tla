--------------------------- MODULE RewriteProofs ----------------------------
(***************************************************************************)
(* For bytes of any size, the machine's 256 values included: what the      *)
(* rewriting of addresses, ports and checksums does to a packet.           *)
(***************************************************************************)
EXTENDS Rewrite, TLAPS

-----------------------------------------------------------------------------
(* Quotients and remainders.                                               *)

(***************************************************************************)
(* A word has at least nine values.                                        *)
(***************************************************************************)
LEMMA WordFacts == Byte \in Nat /\ Byte >= 3 /\ Word \in Nat /\ Word = Byte * Byte /\ Word >= 9
<1>1. Byte * Byte >= 3 * 3
  BY ByteAssumption
<1> QED BY <1>1, ByteAssumption DEF Word

(***************************************************************************)
(* A number is its quotient times the divisor plus its remainder.          *)
(***************************************************************************)
LEMMA Division ==
    ASSUME NEW n \in Nat, NEW w \in Nat \ {0}
    PROVE  n = w * (n \div w) + (n % w) /\ n % w \in 0 .. w - 1 /\ n \div w \in Nat
OBVIOUS

(***************************************************************************)
(* And no other two numbers are.                                           *)
(***************************************************************************)
LEMMA DivisionIsUnique ==
    ASSUME NEW w \in Nat \ {0}, NEW h \in Nat, NEW l \in 0 .. w - 1
    PROVE  (h * w + l) % w = l /\ (h * w + l) \div w = h
OBVIOUS

(***************************************************************************)
(* A number below a * b has a quotient below a.                            *)
(***************************************************************************)
LEMMA QuotientBound ==
    ASSUME NEW a \in Nat \ {0}, NEW b \in Nat \ {0}, NEW n \in 0 .. a * b - 1
    PROVE  n \div b \in 0 .. a - 1
<1> DEFINE q == n \div b
<1>1. n = b * q + (n % b) /\ n % b >= 0 /\ q \in Nat
  BY Division
<1>2. ASSUME q >= a PROVE FALSE
  <2>1. b * q >= b * a
    BY <1>1, <1>2
  <2> QED BY <1>1, <2>1
<1> QED BY <1>1, <1>2

(***************************************************************************)
(* Two words make a long, in one way.                                      *)
(***************************************************************************)
LEMMA LongOfWords ==
    ASSUME NEW h \in Words, NEW l \in Words
    PROVE  h * Word + l \in Longs /\ High(h * Word + l) = h /\ Low(h * Word + l) = l
<1>1. h \in Nat /\ l \in 0 .. Word - 1 /\ Word \in Nat \ {0}
  BY WordFacts DEF Words
<1>2. h * Word <= (Word - 1) * Word
  BY <1>1 DEF Words
<1>3. (Word - 1) * Word = Word * Word - Word
  BY <1>1
<1>4. h * Word + l \in Longs
  BY <1>1, <1>2, <1>3 DEF Longs
<1> QED BY <1>1, <1>4, DivisionIsUnique DEF High, Low

(***************************************************************************)
(* A long is made of two words.                                            *)
(***************************************************************************)
LEMMA WordsOfLong ==
    ASSUME NEW long \in Longs
    PROVE  High(long) \in Words /\ Low(long) \in Words /\ long = High(long) * Word + Low(long)
<1>1. long \in Nat /\ Word \in Nat \ {0} /\ long \in 0 .. Word * Word - 1
  BY WordFacts DEF Longs
<1>2. High(long) \in Words
  BY <1>1, QuotientBound DEF High, Words
<1>3. Low(long) \in Words /\ long = Word * High(long) + Low(long)
  BY <1>1, Division DEF High, Low, Words
<1> QED BY <1>1, <1>2, <1>3 DEF Words

(***************************************************************************)
(* The bytes of a swapped word are those of the word, the other way round. *)
(***************************************************************************)
LEMMA SwapBytes ==
    ASSUME NEW word \in Words
    PROVE  /\ Swap(word) \in Words
           /\ Swap(word) % Byte = word \div Byte
           /\ Swap(word) \div Byte = word % Byte
<1> DEFINE h == word \div Byte
           l == word % Byte
<1>1. Byte \in Nat \ {0} /\ word \in Nat /\ word \in 0 .. Byte * Byte - 1
  BY WordFacts DEF Words
<1>2. l \in 0 .. Byte - 1 /\ h \in 0 .. Byte - 1
  BY <1>1, Division, QuotientBound
<1>3. Swap(word) = l * Byte + h
  BY DEF Swap
<1>4. l * Byte <= (Byte - 1) * Byte /\ (Byte - 1) * Byte = Byte * Byte - Byte
  BY <1>1, <1>2
<1>5. Swap(word) \in Words
  BY <1>1, <1>2, <1>3, <1>4, WordFacts DEF Words
<1> HIDE DEF h, l
<1>6. (l * Byte + h) % Byte = h /\ (l * Byte + h) \div Byte = l
  BY <1>1, <1>2, DivisionIsUnique
<1> QED BY <1>3, <1>5, <1>6 DEF h, l

(***************************************************************************)
(* bpf_htons undoes itself.                                                *)
(***************************************************************************)
LEMMA SwapTwice == ASSUME NEW word \in Words PROVE Swap(Swap(word)) = word
<1> DEFINE s == Swap(word)
           h == word \div Byte
           l == word % Byte
<1>1. s % Byte = h /\ s \div Byte = l
  BY SwapBytes
<1>2. word \in Nat /\ Byte \in Nat \ {0}
  BY WordFacts DEF Words
<1>3. word = Byte * h + l /\ l \in 0 .. Byte - 1 /\ h \in Nat
  BY <1>2, Division
<1>4. Swap(s) = (s % Byte) * Byte + (s \div Byte)
  BY DEF Swap
<1> HIDE DEF s, h, l
<1>5. Swap(s) = word
  BY <1>1, <1>2, <1>3, <1>4
<1> QED BY <1>5 DEF s

(***************************************************************************)
(* An address that is loaded and stored again is the same on the wire.     *)
(***************************************************************************)
LEMMA LoadOnWire ==
    ASSUME NEW address \in Words \X Words
    PROVE  Load(address) \in Longs /\ OnWire(Load(address)) = address
<1>1. address[1] \in Words /\ address[2] \in Words /\ address = <<address[1], address[2]>>
  OBVIOUS
<1>2. Swap(address[1]) \in Words /\ Swap(address[2]) \in Words
  BY <1>1, SwapBytes
<1>3. /\ Load(address) \in Longs
      /\ Low(Load(address)) = Swap(address[1]) /\ High(Load(address)) = Swap(address[2])
  BY <1>2, LongOfWords DEF Load
<1> QED BY <1>1, <1>3, SwapTwice DEF OnWire

-----------------------------------------------------------------------------
(* Folding.                                                                *)

(***************************************************************************)
(* A fold takes High(sum) times all ones off a sum, and does not empty it. *)
(***************************************************************************)
LEMMA FoldStep ==
    ASSUME NEW sum \in Longs
    PROVE  /\ FoldOnce(sum) \in Longs
           /\ FoldOnce(sum) = sum - High(sum) * (Word - 1)
           /\ FoldOnce(sum) <= 2 * (Word - 1)
           /\ sum \in Words => FoldOnce(sum) = sum /\ High(sum) = 0
           /\ sum >= 1 => FoldOnce(sum) >= 1
<1> DEFINE h == High(sum)
           l == Low(sum)
<1>1. h \in Nat /\ l \in Nat /\ h <= Word - 1 /\ l <= Word - 1 /\ sum = h * Word + l
  BY WordsOfLong, WordFacts DEF Words
<1>2. FoldOnce(sum) = l + h
  BY DEF FoldOnce, High, Low
<1> HIDE DEF h, l
<1>3. h * Word = h * (Word - 1) + h
  BY <1>1, WordFacts
<1>4. 2 * (Word - 1) <= Word * Word - 1
  <2>1. Word * Word >= 9 * Word
    BY WordFacts
  <2> QED BY <2>1, WordFacts
<1>5. FoldOnce(sum) \in Longs /\ FoldOnce(sum) <= 2 * (Word - 1)
  BY <1>1, <1>2, <1>4, WordFacts DEF Longs
<1>6. FoldOnce(sum) = sum - h * (Word - 1)
  BY <1>1, <1>2, <1>3, WordFacts
<1>7. ASSUME sum \in Words PROVE h = 0 /\ FoldOnce(sum) = sum
  <2>1. ASSUME h >= 1 PROVE FALSE
    <3>1. h * Word >= Word
      BY <1>1, <2>1, WordFacts
    <3> QED BY <1>1, <1>7, <3>1, WordFacts DEF Words
  <2>2. h = 0
    BY <1>1, <2>1
  <2> QED BY <1>1, <1>2, <2>2, WordFacts
<1>8. ASSUME sum >= 1 PROVE FoldOnce(sum) >= 1
  <2>1. h >= 1 \/ l >= 1
    BY <1>1, <1>8, WordFacts
  <2> QED BY <1>1, <1>2, <2>1
<1> QED BY <1>5, <1>6, <1>7, <1>8 DEF h

(***************************************************************************)
(* Two folds leave a word, whatever a 32-bit sum is: the two of            *)
(* xdp_return.c:150 are enough.                                            *)
(***************************************************************************)
THEOREM TwoFoldsAreEnough ==
    \A sum \in Longs : FoldTwice(sum) \in Words /\ (sum >= 1 => FoldTwice(sum) >= 1)
<1> SUFFICES ASSUME NEW sum \in Longs
             PROVE  FoldTwice(sum) \in Words /\ (sum >= 1 => FoldTwice(sum) >= 1)
  OBVIOUS
<1> DEFINE f == FoldOnce(sum)
<1>1. f \in Longs /\ f <= 2 * (Word - 1) /\ (sum >= 1 => f >= 1)
  BY FoldStep
<1> HIDE DEF f
<1>2. /\ FoldOnce(f) \in Longs /\ FoldOnce(f) = f - High(f) * (Word - 1)
      /\ f >= 1 => FoldOnce(f) >= 1
      /\ f \in Words => FoldOnce(f) = f
  BY <1>1, FoldStep
<1>3. CASE f \in Words
  BY <1>1, <1>2, <1>3 DEF f, FoldTwice
<1>4. CASE f \notin Words
  <2>1. f >= Word
    BY <1>1, <1>4, WordFacts DEF Longs, Words
  <2>2. High(f) >= 1 /\ High(f) \in Nat
    <3>1. High(f) \in Nat /\ f = High(f) * Word + Low(f) /\ Low(f) <= Word - 1 /\ Low(f) \in Nat
      BY <1>1, WordsOfLong, WordFacts DEF Words
    <3>2. ASSUME High(f) = 0 PROVE FALSE
      BY <2>1, <3>1, <3>2, WordFacts
    <3> QED BY <3>1, <3>2
  <2>3. High(f) * (Word - 1) >= Word - 1
    BY <2>2, WordFacts
  <2>4. FoldOnce(f) <= Word - 1 /\ FoldOnce(f) \in Nat
    BY <1>1, <1>2, <2>2, <2>3, WordFacts DEF Longs
  <2> QED BY <1>1, <1>2, <2>4 DEF f, FoldTwice, Words
<1> QED BY <1>3, <1>4

(***************************************************************************)
(* The loop of xdp_forward.c:142 has a value for every 32-bit sum, and it  *)
(* is the value of two folds.                                              *)
(***************************************************************************)
LEMMA FoldAllIsFoldTwice == \A sum \in Longs : FoldAll[sum] = FoldTwice(sum)
<1> DEFINE Loop(f) ==
      [sum \in Longs |-> IF sum \div Word = 0 THEN sum ELSE f[FoldOnce(sum)]]
<1> DEFINE twice == [sum \in Longs |-> FoldTwice(sum)]
<1>1. \A sum \in Longs :
         /\ FoldOnce(sum) \in Longs /\ FoldTwice(sum) \in Longs
         /\ sum \div Word = 0 => FoldTwice(sum) = sum
         /\ FoldTwice(FoldOnce(sum)) = FoldTwice(sum)
  <2> SUFFICES ASSUME NEW sum \in Longs
               PROVE  /\ FoldOnce(sum) \in Longs /\ FoldTwice(sum) \in Longs
                      /\ sum \div Word = 0 => FoldTwice(sum) = sum
                      /\ FoldTwice(FoldOnce(sum)) = FoldTwice(sum)
    OBVIOUS
  <2>1. FoldOnce(sum) \in Longs /\ FoldOnce(FoldOnce(sum)) \in Longs
    BY FoldStep
  <2>2. FoldOnce(FoldOnce(sum)) \in Words
    BY TwoFoldsAreEnough DEF FoldTwice
  <2>3. FoldOnce(FoldOnce(FoldOnce(sum))) = FoldOnce(FoldOnce(sum))
    BY <2>1, <2>2, FoldStep
  <2>4. ASSUME sum \div Word = 0 PROVE FoldOnce(sum) = sum
    <3>1. High(sum) = 0
      BY <2>4 DEF High
    <3>2. FoldOnce(sum) = sum - 0 * (Word - 1) /\ sum \in Nat
      BY <3>1, FoldStep, WordFacts DEF Longs
    <3> QED BY <3>2, WordFacts
  <2> QED BY <2>1, <2>3, <2>4 DEF FoldTwice
<1>2. twice = Loop(twice)
  BY <1>1
<1>3. FoldAll = CHOOSE f : f = Loop(f)
  BY DEF FoldAll
<1>4. FoldAll = Loop(FoldAll)
  <2> HIDE DEF Loop, twice
  <2> QED BY <1>2, <1>3
<1>5. \A sum \in Longs :
         FoldAll[sum] = IF sum \div Word = 0 THEN sum ELSE FoldAll[FoldOnce(sum)]
  BY <1>4
<1> HIDE DEF Loop, twice
<1>6. TAKE sum \in Longs
<1>7. FoldOnce(sum) \in Longs /\ FoldOnce(FoldOnce(sum)) \in Longs
  BY FoldStep
<1>8. FoldOnce(FoldOnce(sum)) \div Word = 0
  <2>1. FoldOnce(FoldOnce(sum)) \in Words
    BY TwoFoldsAreEnough DEF FoldTwice
  <2>2. High(FoldOnce(FoldOnce(sum))) = 0
    BY <1>7, <2>1, FoldStep
  <2> QED BY <2>2 DEF High
<1>9. FoldAll[FoldOnce(FoldOnce(sum))] = FoldOnce(FoldOnce(sum))
  BY <1>5, <1>7, <1>8
<1>10. CASE sum \div Word = 0
  BY <1>1, <1>5, <1>10
<1>11. CASE sum \div Word # 0 /\ FoldOnce(sum) \div Word = 0
  <2>1. FoldAll[sum] = FoldOnce(sum)
    BY <1>5, <1>7, <1>11
  <2>2. FoldTwice(FoldOnce(sum)) = FoldOnce(sum)
    BY <1>1, <1>7, <1>11
  <2> QED BY <1>1, <2>1, <2>2
<1>12. CASE sum \div Word # 0 /\ FoldOnce(sum) \div Word # 0
  BY <1>5, <1>7, <1>9, <1>12 DEF FoldTwice
<1> QED BY <1>10, <1>11, <1>12

-----------------------------------------------------------------------------
(* One's complement arithmetic: words are added modulo all ones.           *)

Congruent(m, n) == \E k \in Int : m = n + k * (Word - 1)

(***************************************************************************)
(* A number is congruent to itself.                                        *)
(***************************************************************************)
LEMMA CongruentSelf == ASSUME NEW m \in Int PROVE Congruent(m, m)
<1>1. m = m + 0 * (Word - 1)
  BY WordFacts
<1> QED BY <1>1 DEF Congruent

(***************************************************************************)
(* Congruence is symmetric.                                                *)
(***************************************************************************)
LEMMA CongruentSym == ASSUME NEW m \in Int, NEW n \in Int, Congruent(m, n) PROVE Congruent(n, m)
<1>1. PICK k \in Int : m = n + k * (Word - 1)
  BY DEF Congruent
<1>2. n = m + (-k) * (Word - 1) /\ -k \in Int
  BY <1>1, WordFacts
<1> QED BY <1>2 DEF Congruent

(***************************************************************************)
(* Congruence is transitive.                                               *)
(***************************************************************************)
LEMMA CongruentTrans ==
    ASSUME NEW m \in Int, NEW n \in Int, NEW o \in Int, Congruent(m, n), Congruent(n, o)
    PROVE  Congruent(m, o)
<1>1. PICK k1 \in Int : m = n + k1 * (Word - 1)
  BY DEF Congruent
<1>2. PICK k2 \in Int : n = o + k2 * (Word - 1)
  BY DEF Congruent
<1>3. m = o + (k1 + k2) * (Word - 1) /\ k1 + k2 \in Int
  BY <1>1, <1>2, WordFacts
<1> QED BY <1>3 DEF Congruent

(***************************************************************************)
(* Sums of congruent numbers are congruent.                                *)
(***************************************************************************)
LEMMA CongruentPlus ==
    ASSUME NEW m \in Int, NEW n \in Int, NEW o \in Int, NEW p \in Int,
           Congruent(m, n), Congruent(o, p)
    PROVE  Congruent(m + o, n + p)
<1>1. PICK k1 \in Int : m = n + k1 * (Word - 1)
  BY DEF Congruent
<1>2. PICK k2 \in Int : o = p + k2 * (Word - 1)
  BY DEF Congruent
<1>3. m + o = n + p + (k1 + k2) * (Word - 1) /\ k1 + k2 \in Int
  BY <1>1, <1>2, WordFacts
<1> QED BY <1>3 DEF Congruent

(***************************************************************************)
(* And multiples of congruent numbers are.                                 *)
(***************************************************************************)
LEMMA CongruentTimes ==
    ASSUME NEW m \in Int, NEW n \in Int, NEW o \in Int, Congruent(m, n)
    PROVE  Congruent(o * m, o * n)
<1>1. PICK k \in Int : m = n + k * (Word - 1)
  BY DEF Congruent
<1>2. o * m = o * n + (o * k) * (Word - 1) /\ o * k \in Int
  BY <1>1, WordFacts
<1> QED BY <1>2 DEF Congruent

(***************************************************************************)
(* Folding changes a sum by multiples of all ones.                         *)
(***************************************************************************)
LEMMA FoldCongruent == ASSUME NEW sum \in Longs PROVE Congruent(FoldTwice(sum), sum)
<1> DEFINE f == FoldOnce(sum)
           g == FoldOnce(f)
           h1 == High(sum)
           h2 == High(f)
<1>1. f \in Longs /\ f = sum - h1 * (Word - 1) /\ h1 \in Int
  BY FoldStep, WordsOfLong DEF Words
<1>2. g = f - h2 * (Word - 1) /\ h2 \in Int
  BY <1>1, FoldStep, WordsOfLong DEF Words
<1>3. sum \in Int
  BY WordFacts DEF Longs
<1> HIDE DEF f, h1, h2, g
<1>4. g = sum + (-(h1 + h2)) * (Word - 1) /\ -(h1 + h2) \in Int
  BY <1>1, <1>2, <1>3, WordFacts
<1>5. Congruent(g, sum)
  BY <1>4 DEF Congruent
<1> QED BY <1>5 DEF f, g, FoldTwice

(***************************************************************************)
(* A receiver finds a sum right exactly if it is a multiple of all ones.   *)
(***************************************************************************)
LEMMA VerifiesMultiples ==
    ASSUME NEW sum \in Longs, sum >= 1
    PROVE  Verifies(sum) <=> Congruent(sum, 0)
<1> DEFINE f == FoldTwice(sum)
<1>1. FoldAll[sum] = f /\ f \in Words /\ f >= 1 /\ Congruent(f, sum) /\ sum \in Int /\ f \in Int
  BY FoldAllIsFoldTwice, TwoFoldsAreEnough, FoldCongruent, WordFacts DEF Longs, Words
<1> HIDE DEF f
<1>2. ASSUME f = Word - 1 PROVE Congruent(sum, 0)
  <2>1. f = 0 + 1 * (Word - 1)
    BY <1>2, WordFacts
  <2>2. Congruent(f, 0)
    BY <2>1 DEF Congruent
  <2> QED BY <1>1, <2>2, CongruentSym, CongruentTrans
<1>3. ASSUME Congruent(sum, 0) PROVE f = Word - 1
  <2>1. Congruent(f, 0)
    BY <1>1, <1>3, CongruentTrans
  <2>2. PICK k \in Int : f = 0 + k * (Word - 1)
    BY <2>1 DEF Congruent
  <2>3. ASSUME k <= 0 PROVE FALSE
    <3>1. k * (Word - 1) <= 0
      BY <2>3, WordFacts
    <3> QED BY <1>1, <2>2, <3>1, WordFacts
  <2>4. ASSUME k >= 2 PROVE FALSE
    <3>1. k * (Word - 1) >= 2 * (Word - 1)
      BY <2>4, WordFacts
    <3> QED BY <1>1, <2>2, <3>1, WordFacts DEF Words
  <2>5. k = 1
    BY <2>3, <2>4
  <2> QED BY <1>1, <2>2, <2>5, WordFacts
<1> QED BY <1>1, <1>2, <1>3 DEF Verifies

(***************************************************************************)
(* A swapped word is the word times the number of bytes: the byte order of *)
(* the machine does not matter to one's complement sums.                   *)
(***************************************************************************)
LEMMA SwapCongruent == ASSUME NEW word \in Words PROVE Congruent(Swap(word), Byte * word)
<1> DEFINE h == word \div Byte
           l == word % Byte
<1>1. word \in Nat /\ Byte \in Nat \ {0}
  BY WordFacts DEF Words
<1>2. word = Byte * h + l /\ l \in 0 .. Byte - 1 /\ h \in Nat
  BY <1>1, Division
<1>3. Swap(word) = l * Byte + h
  BY DEF Swap
<1> HIDE DEF h, l
<1>4. Byte * word = (Byte * Byte) * h + l * Byte
  BY <1>1, <1>2
<1>5. Swap(word) = Byte * word + (-h) * (Word - 1) /\ -h \in Int
  BY <1>1, <1>2, <1>3, <1>4, WordFacts
<1> QED BY <1>5 DEF Congruent

(***************************************************************************)
(* The complement of a folded sum counters the sum.                        *)
(***************************************************************************)
LEMMA ComplementOfFold ==
    ASSUME NEW sum \in Longs
    PROVE  /\ Complement(FoldTwice(sum)) \in Words
           /\ Complement(FoldTwice(sum) % Word) = Complement(FoldTwice(sum))
           /\ Complement(FoldAll[sum]) = Complement(FoldTwice(sum))
           /\ Congruent(Complement(FoldTwice(sum)), -sum)
<1> DEFINE f == FoldTwice(sum)
<1>1. FoldAll[sum] = f /\ f \in Words /\ f \in Nat /\ f < Word /\ Congruent(f, sum) /\ sum \in Int
  BY FoldAllIsFoldTwice, TwoFoldsAreEnough, FoldCongruent, WordFacts DEF Longs, Words
<1> HIDE DEF f
<1>2. f % Word = f
  BY <1>1, WordFacts
<1>3. Complement(f) \in Words
  BY <1>1, WordFacts DEF Complement, Words
<1>4. PICK k \in Int : f = sum + k * (Word - 1)
  BY <1>1 DEF Congruent
<1>5. Complement(f) = -sum + (1 - k) * (Word - 1) /\ 1 - k \in Int
  BY <1>1, <1>4, WordFacts DEF Complement
<1>6. Congruent(Complement(f), -sum)
  BY <1>5 DEF Congruent
<1> QED BY <1>1, <1>2, <1>3, <1>6 DEF f

-----------------------------------------------------------------------------
(* Incremental updates.                                                    *)

HostTotal(long) == Low(long) + High(long)

(***************************************************************************)
(* The words of a long add up to two times all ones at most.               *)
(***************************************************************************)
LEMMA HostTotalType ==
    ASSUME NEW long \in Longs
    PROVE  HostTotal(long) \in Nat /\ HostTotal(long) <= 2 * (Word - 1)
<1>1. Low(long) \in Words /\ High(long) \in Words
  BY WordsOfLong
<1> QED BY <1>1, WordFacts DEF HostTotal, Words

(***************************************************************************)
(* A sum of few words fits into 32 bits.                                   *)
(***************************************************************************)
LEMMA SmallSums == \A sum \in Nat : sum <= 8 * (Word - 1) + 1 => sum \in Longs
<1>1. Word * Word >= 9 * Word
  BY WordFacts
<1> QED BY <1>1, WordFacts DEF Longs

(***************************************************************************)
(* A 16-bit replacement, by either program, takes the old word off the     *)
(* checksum's complement and adds the new one: they agree on the result.   *)
(***************************************************************************)
LEMMA Replace16 ==
    ASSUME NEW check \in Words, NEW old \in Words, NEW new \in Words
    PROVE  /\ csum_replace_u16(check, old, new) \in Words
           /\ csum_replace16(check, old, new) = csum_replace_u16(check, old, new)
           /\ Congruent(csum_replace_u16(check, old, new), check + old - new)
<1> DEFINE sum == Sum16(check, old, new)
<1>1. /\ check \in Nat /\ old \in Nat /\ new \in Nat
      /\ check <= Word - 1 /\ old <= Word - 1 /\ new <= Word - 1
  BY WordFacts DEF Words
<1>2. sum = (Word - 1 - check) + (Word - 1 - old) + new
  BY DEF Sum16, Complement
<1> HIDE DEF sum
<1>3. sum \in Longs
  BY <1>1, <1>2, SmallSums, WordFacts
<1>4. -sum = check + old - new + (-2) * (Word - 1) /\ -sum \in Int
  BY <1>1, <1>2, WordFacts
<1>5. Congruent(-sum, check + old - new)
  BY <1>4 DEF Congruent
<1>6. /\ csum_replace_u16(check, old, new) = Complement(FoldAll[sum])
      /\ csum_replace16(check, old, new) = Complement(FoldTwice(sum) % Word)
  BY DEF csum_replace_u16, csum_replace16, sum
<1>7. /\ csum_replace_u16(check, old, new) \in Words
      /\ csum_replace16(check, old, new) = csum_replace_u16(check, old, new)
      /\ Congruent(csum_replace_u16(check, old, new), -sum)
  BY <1>3, <1>6, ComplementOfFold
<1>8. csum_replace_u16(check, old, new) \in Int /\ check + old - new \in Int
  BY <1>1, <1>7, WordFacts DEF Words
<1> QED BY <1>4, <1>5, <1>7, <1>8, CongruentTrans

(***************************************************************************)
(* The same for a 32-bit replacement.                                      *)
(***************************************************************************)
LEMMA Replace32 ==
    ASSUME NEW check \in Words, NEW old \in Longs, NEW new \in Longs
    PROVE  /\ csum_replace_u32(check, old, new) \in Words
           /\ csum_replace32(check, old, new) = csum_replace_u32(check, old, new)
           /\ Congruent(csum_replace_u32(check, old, new),
                        check + HostTotal(old) - HostTotal(new))
<1> DEFINE sum == Sum32(check, old, new)
<1>1. /\ check \in Nat /\ HostTotal(old) \in Nat /\ HostTotal(new) \in Nat
      /\ check <= Word - 1 /\ HostTotal(old) <= 2 * (Word - 1) /\ HostTotal(new) <= 2 * (Word - 1)
  BY HostTotalType, WordFacts DEF Words
<1>2. sum = (Word - 1 - check) + 2 * (Word - 1) - HostTotal(old) + HostTotal(new)
  <2>1. /\ Low(old) \in Nat /\ High(old) \in Nat /\ Low(new) \in Nat /\ High(new) \in Nat
    BY WordsOfLong, WordFacts DEF Words
  <2> QED BY <1>1, <2>1, WordFacts DEF Sum32, Complement, HostTotal
<1> HIDE DEF sum
<1>3. sum \in Longs
  BY <1>1, <1>2, SmallSums, WordFacts
<1>4. -sum = check + HostTotal(old) - HostTotal(new) + (-3) * (Word - 1) /\ -sum \in Int
  BY <1>1, <1>2, WordFacts
<1>5. Congruent(-sum, check + HostTotal(old) - HostTotal(new))
  BY <1>4 DEF Congruent
<1>6. /\ csum_replace_u32(check, old, new) = Complement(FoldAll[sum])
      /\ csum_replace32(check, old, new) = Complement(FoldTwice(sum) % Word)
  BY DEF csum_replace_u32, csum_replace32, sum
<1>7. /\ csum_replace_u32(check, old, new) \in Words
      /\ csum_replace32(check, old, new) = csum_replace_u32(check, old, new)
      /\ Congruent(csum_replace_u32(check, old, new), -sum)
  BY <1>3, <1>6, ComplementOfFold
<1>8. /\ csum_replace_u32(check, old, new) \in Int
      /\ check + HostTotal(old) - HostTotal(new) \in Int
  BY <1>1, <1>7, WordFacts DEF Words
<1> QED BY <1>4, <1>5, <1>7, <1>8, CongruentTrans

(***************************************************************************)
(* xdp_forward's loops and xdp_return's two folds compute the same updated *)
(* checksums (xdp_forward.c:134-154, xdp_return.c:134-184).                *)
(***************************************************************************)
THEOREM BothProgramsAgree ==
    \A check \in Words :
       /\ \A old, new \in Words :
             csum_replace16(check, old, new) = csum_replace_u16(check, old, new)
       /\ \A old, new \in Longs :
             csum_replace32(check, old, new) = csum_replace_u32(check, old, new)
BY Replace16, Replace32

(***************************************************************************)
(* What becomes of the checksum of a segment whose one address and one     *)
(* port are replaced.                                                      *)
(***************************************************************************)
LEMMA ReplaceBoth ==
    ASSUME NEW check \in Words, NEW old \in Longs, NEW new \in Longs,
           NEW oldPort \in Words, NEW newPort \in Words,
           NEW c, c = csum_replace_u16(csum_replace_u32(check, old, new), oldPort, newPort)
    PROVE  /\ c \in Words
           /\ c = csum_replace16(csum_replace32(check, old, new), oldPort, newPort)
           /\ Congruent(c, check + (HostTotal(old) - HostTotal(new)) + (oldPort - newPort))
<1> DEFINE c1 == csum_replace_u32(check, old, new)
           diff == HostTotal(old) - HostTotal(new)
           portDiff == oldPort - newPort
<1>1. c1 \in Words /\ csum_replace32(check, old, new) = c1 /\ Congruent(c1, check + diff)
  <2>1. check + HostTotal(old) - HostTotal(new) = check + diff
    BY HostTotalType, WordFacts DEF Words
  <2> QED BY <2>1, Replace32
<1>2. diff \in Int /\ portDiff \in Int /\ check \in Int /\ c1 \in Int
  BY <1>1, HostTotalType, WordFacts DEF Words
<1>3. c \in Words /\ csum_replace16(c1, oldPort, newPort) = c
         /\ Congruent(c, c1 + oldPort - newPort)
  BY <1>1, Replace16
<1>4. c1 + oldPort - newPort = c1 + portDiff
  BY <1>2, WordFacts DEF Words
<1>5. c \in Int
  BY <1>3, WordFacts DEF Words
<1> HIDE DEF c1, diff, portDiff
<1>6. Congruent(c1 + portDiff, check + diff + portDiff)
  <2>1. Congruent(portDiff, portDiff) /\ check + diff \in Int
    BY <1>2, CongruentSelf
  <2> QED BY <1>1, <1>2, <2>1, CongruentPlus
<1>7. Congruent(c, check + diff + portDiff)
  BY <1>2, <1>3, <1>4, <1>5, <1>6, CongruentTrans
<1> QED BY <1>1, <1>3, <1>7 DEF c1, diff, portDiff

(***************************************************************************)
(* UDP's rule for zero keeps a missing checksum missing, and changes no    *)
(* other one's congruence.                                                 *)
(***************************************************************************)
LEMMA UdpCheckFacts ==
    ASSUME NEW old \in Words, NEW new \in Words
    PROVE  /\ UdpCheck(old, new) \in Words
           /\ UdpCheck(old, new) = 0 <=> old = 0
           /\ old # 0 => Congruent(UdpCheck(old, new), new)
<1>1. new \in Int /\ Word - 1 \in Words /\ 0 \in Words /\ Word - 1 # 0
  BY WordFacts DEF Words
<1>2. Congruent(new, new)
  BY <1>1, CongruentSelf
<1>3. Congruent(Word - 1, 0)
  <2>1. Word - 1 = 0 + 1 * (Word - 1)
    BY WordFacts
  <2> QED BY <2>1 DEF Congruent
<1> QED BY <1>1, <1>2, <1>3 DEF UdpCheck

-----------------------------------------------------------------------------
(* What a receiver adds up, and what the machine would.                    *)

HostHeader(p) == HostTotal(p.saddr) + HostTotal(p.daddr) + p.ip_check
HostSegment(p) == HostTotal(p.saddr) + HostTotal(p.daddr) + p.source + p.dest + p.check

(***************************************************************************)
(* Fields of a packet.                                                     *)
(***************************************************************************)
LEMMA PacketFields ==
    ASSUME NEW p \in Packet
    PROVE  /\ p.saddr \in Longs /\ p.daddr \in Longs
           /\ p.source \in Words /\ p.dest \in Words /\ p.ip_check \in Words /\ p.check \in Words
           /\ p.rest \in Words /\ p.proto \in Protos
           /\ Words \subseteq Nat /\ \A w \in Words : w <= Word - 1
<1>1. /\ p.saddr \in Longs /\ p.daddr \in Longs
      /\ p.source \in Words /\ p.dest \in Words /\ p.ip_check \in Words /\ p.check \in Words
      /\ p.rest \in Words /\ p.proto \in Protos
  BY PayloadsAssumption DEF Packet
<1>2. Words \subseteq Nat /\ \A w \in Words : w <= Word - 1
  BY WordFacts DEF Words
<1> QED BY <1>1, <1>2

(***************************************************************************)
(* An address adds to a receiver's sum what its words add to the machine's *)
(* times the number of bytes.                                              *)
(***************************************************************************)
LEMMA WireTotal ==
    ASSUME NEW long \in Longs
    PROVE  /\ Total(OnWire(long)) \in Nat /\ Total(OnWire(long)) <= 2 * (Word - 1)
           /\ Congruent(Total(OnWire(long)), Byte * HostTotal(long))
<1> DEFINE l == Low(long)
           h == High(long)
<1>1. l \in Words /\ h \in Words
  BY WordsOfLong
<1>2. Total(OnWire(long)) = Swap(l) + Swap(h) /\ HostTotal(long) = l + h
  BY DEF Total, OnWire, HostTotal
<1> HIDE DEF l, h
<1>3. Swap(l) \in Words /\ Swap(h) \in Words
  BY <1>1, SwapBytes
<1>4. Swap(l) \in Int /\ Swap(h) \in Int /\ Byte * l \in Int /\ Byte * h \in Int
  BY <1>1, <1>3, WordFacts DEF Words
<1>5. Congruent(Swap(l) + Swap(h), Byte * l + Byte * h)
  BY <1>1, <1>4, SwapCongruent, CongruentPlus
<1>6. Byte * l + Byte * h = Byte * (l + h)
  BY <1>1, WordFacts DEF Words
<1> QED BY <1>2, <1>3, <1>5, <1>6, WordFacts DEF Words

(***************************************************************************)
(* The header's sum, as the receiver adds it up.                           *)
(***************************************************************************)
LEMMA HeaderSum ==
    ASSUME NEW p \in Packet
    PROVE  /\ Header(p) + Swap(p.ip_check) \in Longs /\ Header(p) + Swap(p.ip_check) >= 1
           /\ Header(p) \in Nat /\ Header(p) <= 5 * (Word - 1) + 1 /\ Header(p) >= 1
           /\ Congruent(Header(p) + Swap(p.ip_check), Byte * HostHeader(p) + (1 + p.rest))
           /\ Congruent(Header(p), Byte * (HostTotal(p.saddr) + HostTotal(p.daddr)) + (1 + p.rest))
<1> DEFINE s == Total(OnWire(p.saddr))
           d == Total(OnWire(p.daddr))
           hs == HostTotal(p.saddr)
           hd == HostTotal(p.daddr)
           c == p.ip_check
           r == 1 + p.rest
<1>1. /\ s \in Nat /\ s <= 2 * (Word - 1) /\ Congruent(s, Byte * hs) /\ hs \in Nat
      /\ d \in Nat /\ d <= 2 * (Word - 1) /\ Congruent(d, Byte * hd) /\ hd \in Nat
  BY PacketFields, WireTotal, HostTotalType
<1>2. /\ Swap(c) \in Nat /\ Swap(c) <= Word - 1 /\ Congruent(Swap(c), Byte * c) /\ c \in Nat
      /\ r \in Nat /\ r <= Word /\ r >= 1
  <2>1. c \in Words /\ p.rest \in Words /\ Words \subseteq Nat /\ \A w \in Words : w <= Word - 1
    BY PacketFields
  <2>2. Swap(c) \in Words /\ Congruent(Swap(c), Byte * c)
    BY <2>1, SwapBytes, SwapCongruent
  <2>3. r \in Nat /\ r <= Word /\ r >= 1
    <3>1. p.rest \in Nat /\ p.rest <= Word - 1
      BY <2>1
    <3> HIDE <2>1
    <3> QED BY <3>1, WordFacts
  <2> QED BY <2>1, <2>2, <2>3
<1>3. Header(p) = s + d + r /\ HostHeader(p) = hs + hd + c
  BY <1>1, <1>2, PacketFields DEF Header, HostHeader
<1> HIDE DEF s, d, hs, hd, c, r
<1>4. Byte * hs \in Int /\ Byte * hd \in Int /\ Byte * c \in Int
  BY <1>1, <1>2, WordFacts
<1>5. Congruent(s + d, Byte * hs + Byte * hd)
  BY <1>1, <1>4, CongruentPlus
<1>6. Congruent(s + d + r, Byte * hs + Byte * hd + r)
  <2>1. Congruent(r, r) /\ s + d \in Int /\ Byte * hs + Byte * hd \in Int /\ r \in Int
    BY <1>1, <1>2, <1>4, CongruentSelf
  <2> QED BY <1>5, <2>1, CongruentPlus
<1>7. Congruent(s + d + r + Swap(c), Byte * hs + Byte * hd + r + Byte * c)
  <2>1. s + d + r \in Int /\ Byte * hs + Byte * hd + r \in Int /\ Swap(c) \in Int
    BY <1>1, <1>2, <1>4
  <2> QED BY <1>2, <1>4, <1>6, <2>1, CongruentPlus
<1>8. /\ Byte * hs + Byte * hd + r = Byte * (hs + hd) + r
      /\ Byte * hs + Byte * hd + r + Byte * c = Byte * (hs + hd + c) + r
  BY <1>1, <1>2, WordFacts
<1>9. Header(p) + Swap(c) \in Longs
  BY <1>1, <1>2, <1>3, SmallSums, WordFacts
<1>10. /\ Header(p) \in Nat /\ Header(p) <= 5 * (Word - 1) + 1 /\ Header(p) >= 1
       /\ Header(p) + Swap(c) >= 1
  BY <1>1, <1>2, <1>3, WordFacts
<1> QED BY <1>3, <1>6, <1>7, <1>8, <1>9, <1>10 DEF hs, hd, c, r

(***************************************************************************)
(* The segment's.                                                          *)
(***************************************************************************)
LEMMA SegmentSum ==
    ASSUME NEW p \in Packet
    PROVE  /\ Segment(p) + Swap(p.check) \in Longs /\ Segment(p) + Swap(p.check) >= 1
           /\ Congruent(Segment(p) + Swap(p.check), Byte * HostSegment(p) + (1 + p.rest))
<1> DEFINE h == Header(p)
           t == HostTotal(p.saddr) + HostTotal(p.daddr)
           r == 1 + p.rest
           x == p.source
           y == p.dest
           z == p.check
<1>1. /\ h \in Nat /\ h <= 5 * (Word - 1) + 1 /\ h >= 1 /\ Congruent(h, Byte * t + r)
      /\ t \in Nat /\ r \in Nat
  BY HeaderSum, PacketFields, HostTotalType
<1>2. /\ Swap(x) \in Nat /\ Swap(x) <= Word - 1 /\ Congruent(Swap(x), Byte * x) /\ x \in Nat
      /\ Swap(y) \in Nat /\ Swap(y) <= Word - 1 /\ Congruent(Swap(y), Byte * y) /\ y \in Nat
      /\ Swap(z) \in Nat /\ Swap(z) <= Word - 1 /\ Congruent(Swap(z), Byte * z) /\ z \in Nat
  BY PacketFields, SwapBytes, SwapCongruent
<1>3. Segment(p) = h + Swap(x) + Swap(y) /\ HostSegment(p) = t + x + y + z
  BY <1>1, <1>2 DEF Segment, HostSegment
<1> HIDE DEF h, t, r, x, y, z
<1>4. Byte * t + r \in Int /\ Byte * x \in Int /\ Byte * y \in Int /\ Byte * z \in Int
  BY <1>1, <1>2, WordFacts
<1>5. Congruent(h + Swap(x), Byte * t + r + Byte * x)
  BY <1>1, <1>2, <1>4, CongruentPlus
<1>6. Congruent(h + Swap(x) + Swap(y), Byte * t + r + Byte * x + Byte * y)
  <2>1. h + Swap(x) \in Int /\ Byte * t + r + Byte * x \in Int /\ Swap(y) \in Int
    BY <1>1, <1>2, <1>4
  <2> QED BY <1>2, <1>4, <1>5, <2>1, CongruentPlus
<1>7. Congruent(h + Swap(x) + Swap(y) + Swap(z), Byte * t + r + Byte * x + Byte * y + Byte * z)
  <2>1. /\ h + Swap(x) + Swap(y) \in Int /\ Byte * t + r + Byte * x + Byte * y \in Int
        /\ Swap(z) \in Int
    BY <1>1, <1>2, <1>4
  <2> QED BY <1>2, <1>4, <1>6, <2>1, CongruentPlus
<1>8. Byte * t + r + Byte * x + Byte * y + Byte * z = Byte * (t + x + y + z) + r
  BY <1>1, <1>2, WordFacts
<1>9. Segment(p) + Swap(z) \in Longs /\ Segment(p) + Swap(z) >= 1
  BY <1>1, <1>2, <1>3, SmallSums, WordFacts
<1> QED BY <1>3, <1>7, <1>8, <1>9 DEF r, z

(***************************************************************************)
(* Two packets whose sums are congruent get the same verdict.              *)
(***************************************************************************)
LEMMA SameVerdict ==
    ASSUME NEW s1 \in Longs, s1 >= 1, NEW s2 \in Longs, s2 >= 1,
           NEW h1 \in Int, NEW h2 \in Int, NEW r \in Int,
           Congruent(s1, Byte * h1 + r), Congruent(s2, Byte * h2 + r), Congruent(h2, h1)
    PROVE  Verifies(s1) <=> Verifies(s2)
<1>1. /\ s1 \in Int /\ s2 \in Int /\ Byte \in Int
      /\ Byte * h1 \in Int /\ Byte * h2 \in Int /\ Byte * h1 + r \in Int /\ Byte * h2 + r \in Int
  BY WordFacts DEF Longs
<1>2. Congruent(Byte * h2, Byte * h1)
  BY <1>1, CongruentTimes
<1>3. Congruent(r, r)
  BY CongruentSelf
<1>4. Congruent(Byte * h2 + r, Byte * h1 + r)
  BY <1>1, <1>2, <1>3, CongruentPlus
<1>5. Congruent(s2, Byte * h1 + r)
  BY <1>1, <1>4, CongruentTrans
<1>6. Congruent(Byte * h1 + r, s1) /\ Congruent(Byte * h1 + r, s2)
  BY <1>1, <1>5, CongruentSym
<1>7. Congruent(s2, s1) /\ Congruent(s1, s2)
  BY <1>1, <1>5, <1>6, CongruentTrans
<1>8. Congruent(s1, 0) <=> Congruent(s2, 0)
  BY <1>1, <1>7, CongruentTrans
<1> QED BY <1>8, VerifiesMultiples

-----------------------------------------------------------------------------
(* The steps of the two programs.                                          *)

(***************************************************************************)
(* What the loader wrote for a backend, and vip_addr, vip_*_port,          *)
(* lb_bridge_ip, are in the machine's order.                               *)
(***************************************************************************)
LEMMA Configuration ==
    /\ \A b \in Backends : PoolEntry(b) \in [ip : Longs, port : Words]
    /\ \A e \in Ends : Load(e.ip) \in Longs /\ Swap(e.port) \in Words
    /\ Load(VIP) \in Longs /\ Load(BridgeIP) \in Longs
    /\ \A p \in {"tcp", "udp"} : VIPPort[p] \in Words /\ Swap(VIPPort[p]) \in Words
<1>1. \A e \in Ends : Load(e.ip) \in Longs /\ Swap(e.port) \in Words
  <2> TAKE e \in Ends
  <2>1. e.ip \in Words \X Words /\ e.port \in Words
    BY DEF Ends
  <2> QED BY <2>1, LoadOnWire, SwapBytes
<1>2. Load(VIP) \in Longs /\ Load(BridgeIP) \in Longs
  BY VIPAssumption, BridgeAssumption, LoadOnWire
<1>3. \A p \in {"tcp", "udp"} : VIPPort[p] \in Words /\ Swap(VIPPort[p]) \in Words
  BY VIPAssumption, SwapBytes
<1>4. \A b \in Backends : PoolEntry(b) \in [ip : Longs, port : Words]
  BY <1>1, EndsAssumption DEF PoolEntry
<1> QED BY <1>1, <1>2, <1>3, <1>4

(***************************************************************************)
(* A packet the programs rewrite is one, and not the lack of one.          *)
(***************************************************************************)
LEMMA RewrittenIsPacket ==
    ASSUME TypeOK, packet.proto \in {"tcp", "udp"}
    PROVE  packet \in Packet
BY DEF TypeOK, NoPacket

(***************************************************************************)
(* xdp_forward leaves a packet whose sums are congruent to what they were. *)
(***************************************************************************)
LEMMA ForwardedPacket ==
    ASSUME TypeOK, NEW b \in Backends, Forward(PoolEntry(b))
    PROVE  /\ packet \in Packet /\ packet' \in Packet
           /\ packet'.rest = packet.rest /\ packet'.proto = packet.proto
           /\ packet'.daddr = Load(b.ip) /\ packet'.dest = Swap(b.port)
           /\ Congruent(HostHeader(packet'), HostHeader(packet))
           /\ ~Unchecked(packet) => Congruent(HostSegment(packet'), HostSegment(packet))
           /\ Unchecked(packet) <=> Unchecked(packet')
<1> DEFINE e == PoolEntry(b)
           old == packet.daddr
           ipCheck == csum_replace_u32(packet.ip_check, old, e.ip)
           c == csum_replace_u16(csum_replace_u32(packet.check, old, e.ip), packet.dest, e.port)
           check == ForwardedCheck(e)
<1>1. packet \in Packet
  BY RewrittenIsPacket DEF Forward, ForVIP
<1>2. /\ packet.saddr \in Longs /\ old \in Longs /\ packet.source \in Words
      /\ packet.dest \in Words /\ packet.ip_check \in Words /\ packet.check \in Words
      /\ packet.proto \in Protos
  BY <1>1, PacketFields
<1>3. e.ip \in Longs /\ e.port \in Words /\ e.ip = Load(b.ip) /\ e.port = Swap(b.port)
  BY Configuration DEF PoolEntry
<1>4. /\ ipCheck \in Words
      /\ Congruent(ipCheck, packet.ip_check + HostTotal(old) - HostTotal(e.ip))
  BY <1>2, <1>3, Replace32
<1>5. /\ c \in Words
      /\ Congruent(c, packet.check + (HostTotal(old) - HostTotal(e.ip)) + (packet.dest - e.port))
  BY <1>2, <1>3, ReplaceBoth
<1>6. check = IF packet.proto = "udp" THEN UdpCheck(packet.check, c) ELSE c
  BY DEF ForwardedCheck
<1>7. /\ check \in Words
      /\ packet.proto = "udp" => (check = 0 <=> packet.check = 0)
      /\ ~Unchecked(packet) => check = c \/ Congruent(check, c)
  <2> HIDE DEF check, c
  <2>1. /\ UdpCheck(packet.check, c) \in Words
        /\ UdpCheck(packet.check, c) = 0 <=> packet.check = 0
        /\ packet.check # 0 => Congruent(UdpCheck(packet.check, c), c)
    BY <1>2, <1>5, UdpCheckFacts
  <2> QED BY <1>5, <1>6, <2>1 DEF Unchecked
<1>8. packet' = [packet EXCEPT !.daddr = e.ip, !.dest = e.port,
                              !.ip_check = ipCheck, !.check = check]
  BY DEF Forward
<1> HIDE DEF e, ipCheck, c, check
<1>9. /\ packet'.saddr = packet.saddr /\ packet'.daddr = e.ip
      /\ packet'.source = packet.source /\ packet'.dest = e.port
      /\ packet'.ip_check = ipCheck /\ packet'.check = check
      /\ packet'.rest = packet.rest /\ packet'.proto = packet.proto
      /\ packet' \in Packet
  BY <1>1, <1>3, <1>4, <1>7, <1>8 DEF Packet
<1>10. /\ HostTotal(packet.saddr) \in Int /\ HostTotal(old) \in Int /\ HostTotal(e.ip) \in Int
       /\ packet.source \in Int /\ packet.dest \in Int /\ packet.ip_check \in Int
       /\ packet.check \in Int /\ e.port \in Int /\ ipCheck \in Int /\ check \in Int /\ c \in Int
  BY <1>2, <1>3, <1>4, <1>5, <1>7, HostTotalType, WordFacts DEF Words
<1>11. Congruent(HostHeader(packet'), HostHeader(packet))
  <2>1. PICK k \in Int :
           ipCheck = packet.ip_check + HostTotal(old) - HostTotal(e.ip) + k * (Word - 1)
    BY <1>4 DEF Congruent
  <2>2. HostHeader(packet') = HostTotal(packet.saddr) + HostTotal(e.ip) + ipCheck
    BY <1>9 DEF HostHeader
  <2>3. HostHeader(packet) = HostTotal(packet.saddr) + HostTotal(old) + packet.ip_check
    BY DEF HostHeader
  <2>4. HostHeader(packet') = HostHeader(packet) + k * (Word - 1)
    BY <1>10, <2>1, <2>2, <2>3, WordFacts
  <2> QED BY <2>4 DEF Congruent
<1>12. ASSUME ~Unchecked(packet) PROVE Congruent(HostSegment(packet'), HostSegment(packet))
  <2>1. Congruent(check, c)
    BY <1>7, <1>10, <1>12, CongruentSelf
  <2>2. PICK k1 \in Int : check = c + k1 * (Word - 1)
    BY <2>1 DEF Congruent
  <2>3. PICK k2 \in Int :
           c = packet.check + (HostTotal(old) - HostTotal(e.ip)) + (packet.dest - e.port)
               + k2 * (Word - 1)
    BY <1>5 DEF Congruent
  <2>4. HostSegment(packet') =
           HostTotal(packet.saddr) + HostTotal(e.ip) + packet.source + e.port + check
    BY <1>9 DEF HostSegment
  <2>5. HostSegment(packet) =
           HostTotal(packet.saddr) + HostTotal(old) + packet.source + packet.dest + packet.check
    BY DEF HostSegment
  <2>6. HostSegment(packet') = HostSegment(packet) + (k1 + k2) * (Word - 1)
    BY <1>10, <2>2, <2>3, <2>4, <2>5, WordFacts
  <2> QED BY <2>6 DEF Congruent
<1>13. Unchecked(packet) <=> Unchecked(packet')
  BY <1>7, <1>9 DEF Unchecked
<1> QED BY <1>1, <1>3, <1>9, <1>11, <1>12, <1>13

(***************************************************************************)
(* And so does xdp_return.                                                 *)
(***************************************************************************)
LEMMA ReturnedPacket ==
    ASSUME TypeOK, Return
    PROVE  /\ packet \in Packet /\ packet' \in Packet
           /\ packet'.rest = packet.rest /\ packet'.proto = packet.proto
           /\ packet'.saddr = Load(VIP) /\ packet'.source = NewSource
           /\ packet'.daddr = packet.daddr /\ packet'.dest = packet.dest
           /\ Congruent(HostHeader(packet'), HostHeader(packet))
           /\ ~Unchecked(packet) => Congruent(HostSegment(packet'), HostSegment(packet))
           /\ Unchecked(packet) <=> Unchecked(packet')
<1> DEFINE old == packet.saddr
           vip == Load(VIP)
           port == NewSource
           ipCheck == csum_replace32(packet.ip_check, old, vip)
           c == csum_replace16(csum_replace32(packet.check, old, vip), packet.source, port)
           check == ReturnedCheck
<1>1. packet \in Packet /\ packet.proto \in {"tcp", "udp"}
  BY RewrittenIsPacket DEF Return, ForClient
<1>2. /\ packet.daddr \in Longs /\ old \in Longs /\ packet.source \in Words
      /\ packet.dest \in Words /\ packet.ip_check \in Words /\ packet.check \in Words
      /\ packet.proto \in Protos
  BY <1>1, PacketFields
<1>3. vip \in Longs /\ port \in Words
  BY <1>1, Configuration DEF NewSource
<1>4. ipCheck \in Words /\ Congruent(ipCheck, packet.ip_check + HostTotal(old) - HostTotal(vip))
  BY <1>2, <1>3, Replace32
<1>5. /\ c \in Words
      /\ Congruent(c, packet.check + (HostTotal(old) - HostTotal(vip)) + (packet.source - port))
  <2> DEFINE d == csum_replace_u16(csum_replace_u32(packet.check, old, vip), packet.source, port)
  <2>1. /\ d \in Words /\ d = c
        /\ Congruent(d, packet.check + (HostTotal(old) - HostTotal(vip)) + (packet.source - port))
    BY <1>2, <1>3, ReplaceBoth
  <2> QED BY <2>1
<1>6. check = IF packet.proto = "udp" THEN UdpCheck(packet.check, c) ELSE c
  BY DEF ReturnedCheck
<1>7. /\ check \in Words
      /\ packet.proto = "udp" => (check = 0 <=> packet.check = 0)
      /\ ~Unchecked(packet) => check = c \/ Congruent(check, c)
  <2> HIDE DEF check, c
  <2>1. /\ UdpCheck(packet.check, c) \in Words
        /\ UdpCheck(packet.check, c) = 0 <=> packet.check = 0
        /\ packet.check # 0 => Congruent(UdpCheck(packet.check, c), c)
    BY <1>2, <1>5, UdpCheckFacts
  <2> QED BY <1>5, <1>6, <2>1 DEF Unchecked
<1>8. packet' = [packet EXCEPT !.ip_check = ipCheck, !.check = check,
                              !.saddr = vip, !.source = port]
  BY DEF Return
<1> HIDE DEF vip, port, ipCheck, c, check
<1>9. /\ packet'.saddr = vip /\ packet'.daddr = packet.daddr
      /\ packet'.source = port /\ packet'.dest = packet.dest
      /\ packet'.ip_check = ipCheck /\ packet'.check = check
      /\ packet'.rest = packet.rest /\ packet'.proto = packet.proto
      /\ packet' \in Packet
  BY <1>1, <1>3, <1>4, <1>7, <1>8 DEF Packet
<1>10. /\ HostTotal(packet.daddr) \in Int /\ HostTotal(old) \in Int /\ HostTotal(vip) \in Int
       /\ packet.source \in Int /\ packet.dest \in Int /\ packet.ip_check \in Int
       /\ packet.check \in Int /\ port \in Int /\ ipCheck \in Int /\ check \in Int /\ c \in Int
  BY <1>2, <1>3, <1>4, <1>5, <1>7, HostTotalType, WordFacts DEF Words
<1>11. Congruent(HostHeader(packet'), HostHeader(packet))
  <2>1. PICK k \in Int :
           ipCheck = packet.ip_check + HostTotal(old) - HostTotal(vip) + k * (Word - 1)
    BY <1>4 DEF Congruent
  <2>2. HostHeader(packet') = HostTotal(vip) + HostTotal(packet.daddr) + ipCheck
    BY <1>9 DEF HostHeader
  <2>3. HostHeader(packet) = HostTotal(old) + HostTotal(packet.daddr) + packet.ip_check
    BY DEF HostHeader
  <2>4. HostHeader(packet') = HostHeader(packet) + k * (Word - 1)
    BY <1>10, <2>1, <2>2, <2>3, WordFacts
  <2> QED BY <2>4 DEF Congruent
<1>12. ASSUME ~Unchecked(packet) PROVE Congruent(HostSegment(packet'), HostSegment(packet))
  <2>1. Congruent(check, c)
    BY <1>7, <1>10, <1>12, CongruentSelf
  <2>2. PICK k1 \in Int : check = c + k1 * (Word - 1)
    BY <2>1 DEF Congruent
  <2>3. PICK k2 \in Int :
           c = packet.check + (HostTotal(old) - HostTotal(vip)) + (packet.source - port)
               + k2 * (Word - 1)
    BY <1>5 DEF Congruent
  <2>4. HostSegment(packet') =
           HostTotal(vip) + HostTotal(packet.daddr) + port + packet.dest + check
    BY <1>9 DEF HostSegment
  <2>5. HostSegment(packet) =
           HostTotal(old) + HostTotal(packet.daddr) + packet.source + packet.dest + packet.check
    BY DEF HostSegment
  <2>6. HostSegment(packet') = HostSegment(packet) + (k1 + k2) * (Word - 1)
    BY <1>10, <2>2, <2>3, <2>4, <2>5, WordFacts
  <2> QED BY <2>6 DEF Congruent
<1>13. Unchecked(packet) <=> Unchecked(packet')
  BY <1>7, <1>9 DEF Unchecked
<1> QED BY <1>9, <1>11, <1>12, <1>13, <1>1 DEF vip, port

(***************************************************************************)
(* Congruent sums of the machine's are one verdict of the receiver's.      *)
(***************************************************************************)
LEMMA SameVerdicts ==
    ASSUME NEW p \in Packet, NEW q \in Packet, q.rest = p.rest
    PROVE  /\ Congruent(HostHeader(q), HostHeader(p)) => (HeaderVerifies(p) <=> HeaderVerifies(q))
           /\ Congruent(HostSegment(q), HostSegment(p)) =>
                 (SegmentVerifies(p) <=> SegmentVerifies(q))
<1>1. /\ HostHeader(p) \in Int /\ HostHeader(q) \in Int
      /\ HostSegment(p) \in Int /\ HostSegment(q) \in Int /\ 1 + p.rest \in Int
  <2>1. \A r \in Packet :
           /\ HostTotal(r.saddr) \in Int /\ HostTotal(r.daddr) \in Int /\ r.ip_check \in Int
           /\ r.source \in Int /\ r.dest \in Int /\ r.check \in Int /\ r.rest \in Int
    BY PacketFields, HostTotalType
  <2> QED BY <2>1 DEF HostHeader, HostSegment
<1>2. ASSUME Congruent(HostHeader(q), HostHeader(p))
      PROVE  HeaderVerifies(p) <=> HeaderVerifies(q)
  BY <1>1, <1>2, HeaderSum, SameVerdict DEF HeaderVerifies
<1>3. ASSUME Congruent(HostSegment(q), HostSegment(p))
      PROVE  SegmentVerifies(p) <=> SegmentVerifies(q)
  BY <1>1, <1>3, SegmentSum, SameVerdict DEF SegmentVerifies
<1> QED BY <1>2, <1>3

(***************************************************************************)
(* The only steps of the load balancer that change a packet's bytes.       *)
(***************************************************************************)
LEMMA RewritingSteps ==
    ASSUME [Next]_vars, Rewrites, place' # place
    PROVE  Return \/ \E b \in Backends : Forward(PoolEntry(b))
BY DEF Next, Rewrites, ClientSends, PassForward, BackendSends, PassReturn, Arrive, vars

(***************************************************************************)
(* Every step of the load balancer keeps all three.                        *)
(***************************************************************************)
LEMMA StepKeepsVerdicts ==
    ASSUME TypeOK, [Next]_vars, Rewrites, packet' # packet \/ place' # place
    PROVE  /\ HeaderVerifies(packet) <=> HeaderVerifies(packet')
           /\ ~Unchecked(packet) => (SegmentVerifies(packet) <=> SegmentVerifies(packet'))
           /\ Unchecked(packet) <=> Unchecked(packet')
<1>1. place' # place
  BY DEF Next, Rewrites, ClientSends, PassForward, Forward, BackendSends, PassReturn, Return,
         Arrive, vars
<1>2. ASSUME NEW b \in Backends, Forward(PoolEntry(b))
      PROVE  /\ HeaderVerifies(packet) <=> HeaderVerifies(packet')
             /\ ~Unchecked(packet) => (SegmentVerifies(packet) <=> SegmentVerifies(packet'))
             /\ Unchecked(packet) <=> Unchecked(packet')
  BY <1>2, ForwardedPacket, SameVerdicts
<1>3. ASSUME Return
      PROVE  /\ HeaderVerifies(packet) <=> HeaderVerifies(packet')
             /\ ~Unchecked(packet) => (SegmentVerifies(packet) <=> SegmentVerifies(packet'))
             /\ Unchecked(packet) <=> Unchecked(packet')
  BY <1>3, ReturnedPacket, SameVerdicts
<1> QED BY <1>1, <1>2, <1>3, RewritingSteps

-----------------------------------------------------------------------------
(* Types, and the addresses of packets that arrive.                        *)

(***************************************************************************)
(* Packets of the network have the type of packets.                        *)
(***************************************************************************)
LEMMA SentPacket ==
    ASSUME NEW proto \in Protos, NEW from \in Ends, NEW to \in Ends,
           NEW p \in Packets(proto, from, to)
    PROVE  /\ p \in Packet /\ p.proto = proto
           /\ p.saddr = Load(from.ip) /\ p.daddr = Load(to.ip) /\ p.dest = Swap(to.port)
<1>1. /\ Load(from.ip) \in Longs /\ Swap(from.port) \in Words
      /\ Load(to.ip) \in Longs /\ Swap(to.port) \in Words
  BY Configuration
<1> QED BY <1>1 DEF Packets, Packet

\* A packet between a backend and xdp_return is for a client or the load balancer
ReturnsToClient ==
    place \in {"veth", "client"} =>
        \/ \E c \in Clients : packet.daddr = Load(c.ip) /\ packet.dest = Swap(c.port)
        \/ place = "veth" /\ packet.daddr = Load(BridgeIP)

ArrivesRewritten ==
    /\ place = "backend" =>
          \E b \in Backends : packet.daddr = Load(b.ip) /\ packet.dest = Swap(b.port)
    /\ place = "client" =>
          packet.saddr = Load(VIP) /\ packet.source = NewSource /\ packet.proto \in {"tcp", "udp"}

EndsInv == TypeOK /\ ReturnsToClient /\ ArrivesRewritten

(***************************************************************************)
(* EndsInv holds initially: there is no packet.                            *)
(***************************************************************************)
LEMMA InitEndsInv == Init => EndsInv
BY DEF Init, EndsInv, TypeOK, ReturnsToClient, ArrivesRewritten

(***************************************************************************)
(* Every step keeps EndsInv.                                               *)
(***************************************************************************)
LEMMA NextEndsInv == EndsInv /\ [Next]_vars => EndsInv'
<1> SUFFICES ASSUME EndsInv, [Next]_vars PROVE EndsInv'
  OBVIOUS
<1> USE DEF EndsInv
<1> DEFINE VIPEnds == {[ip |-> VIP, port |-> VIPPort["tcp"]], [ip |-> VIP, port |-> VIPPort["udp"]]}
           BridgeEnds == {[ip |-> BridgeIP, port |-> c.port] : c \in Clients}
<1>0. VIPEnds \subseteq Ends /\ BridgeEnds \subseteq Ends /\ Backends \subseteq Ends
      /\ Clients \subseteq Ends
  BY EndsAssumption, VIPAssumption, BridgeAssumption DEF Ends
<1>1. ASSUME NEW proto \in Protos, NEW from \in Clients, NEW to \in VIPEnds \cup Backends,
             ClientSends(proto, from, to)
      PROVE  EndsInv'
  <2>1. packet' \in Packet
    BY <1>0, <1>1, SentPacket DEF ClientSends
  <2> QED BY <1>1, <2>1 DEF ClientSends, TypeOK, ReturnsToClient, ArrivesRewritten
<1>2. ASSUME NEW proto \in Protos, NEW from \in Backends, NEW to \in Clients \cup BridgeEnds,
             BackendSends(proto, from, to)
      PROVE  EndsInv'
  <2>1. packet' \in Packet /\ packet'.daddr = Load(to.ip) /\ packet'.dest = Swap(to.port)
    BY <1>0, <1>2, SentPacket DEF BackendSends
  <2>2. to \in Clients \/ to.ip = BridgeIP
    OBVIOUS
  <2> QED BY <1>2, <2>1, <2>2 DEF BackendSends, TypeOK, ReturnsToClient, ArrivesRewritten
<1>3. ASSUME NEW b \in Backends, Forward(PoolEntry(b)) PROVE EndsInv'
  <2>1. /\ packet \in Packet /\ packet' \in Packet /\ packet.proto \in {"tcp", "udp"}
        /\ packet'.daddr = Load(b.ip) /\ packet'.dest = Swap(b.port)
    BY <1>3, ForwardedPacket DEF Forward, ForVIP
  <2>2. PoolEntry(b).ip \in Longs /\ PoolEntry(b).port \in Words
    BY Configuration
  <2>3. packet.saddr \in Longs /\ packet.source \in Words
    BY <2>1, PacketFields
  <2>4. flow' \in [proto : {"tcp", "udp"}, src_ip : Longs, dst_ip : Longs,
                   src_port : Words, dst_port : Words]
    BY <1>3, <2>1, <2>2, <2>3 DEF Forward
  <2>5. place' = "backend"
    BY <1>3 DEF Forward
  <2> QED BY <2>1, <2>4, <2>5 DEF TypeOK, ReturnsToClient, ArrivesRewritten
<1>4. ASSUME Return PROVE EndsInv'
  <2>1. /\ packet' \in Packet /\ packet'.daddr = packet.daddr /\ packet'.dest = packet.dest
        /\ packet'.saddr = Load(VIP) /\ packet'.source = NewSource /\ packet'.proto = packet.proto
    BY <1>4, ReturnedPacket
  <2>2. /\ place = "veth" /\ place' = "client" /\ flow' = flow
        /\ packet.daddr # Load(BridgeIP) /\ packet.proto \in {"tcp", "udp"}
    BY <1>4 DEF Return, ForClient
  <2>3. NewSource' = NewSource
    BY <2>1 DEF NewSource
  <2>4. TypeOK'
    BY <2>1, <2>2 DEF TypeOK
  <2> QED BY <2>1, <2>2, <2>3, <2>4 DEF ReturnsToClient, ArrivesRewritten
<1>5. CASE PassForward \/ PassReturn
  BY <1>5 DEF PassForward, PassReturn, TypeOK, ReturnsToClient, ArrivesRewritten
<1>6. CASE Arrive
  BY <1>6 DEF Arrive, TypeOK, ReturnsToClient, ArrivesRewritten
<1>7. CASE UNCHANGED vars
  BY <1>7 DEF vars, TypeOK, ReturnsToClient, ArrivesRewritten, NewSource
<1> QED
  BY <1>1, <1>2, <1>3, <1>4, <1>5, <1>6, <1>7 DEF Next

(***************************************************************************)
(* TypeOK: checksums and ports stay words and addresses stay longs: no     *)
(* update of xdp_forward.c:134-154 or xdp_return.c:134-184 overflows.      *)
(***************************************************************************)
THEOREM TypeCorrect == Spec => []TypeOK
<1>1. EndsInv => TypeOK
  BY DEF EndsInv
<1> QED BY <1>1, InitEndsInv, NextEndsInv, PTL DEF Spec

(***************************************************************************)
(* With bytes of any size, an IP header that was right is right after the  *)
(* rewriting, and one that was wrong is wrong (xdp_forward.c:407,          *)
(* xdp_return.c:349).                                                      *)
(***************************************************************************)
THEOREM HeadersKeepTheirVerdict == Spec => HeaderKeepsVerdict
<1>1. TypeOK /\ [Next]_vars =>
          [Rewrites => (HeaderVerifies(packet) <=> HeaderVerifies(packet'))]_vars
  BY StepKeepsVerdicts DEF vars, Rewrites
<1> QED BY <1>1, TypeCorrect, PTL DEF Spec, HeaderKeepsVerdict

(***************************************************************************)
(* The same for the TCP or UDP checksum (xdp_forward.c:235, 410,           *)
(* xdp_return.c:222, 352).                                                 *)
(***************************************************************************)
THEOREM SegmentsKeepTheirVerdict == Spec => SegmentKeepsVerdict
<1>1. TypeOK /\ [Next]_vars =>
         [Rewrites /\ ~Unchecked(packet) =>
              (SegmentVerifies(packet) <=> SegmentVerifies(packet'))]_vars
  BY StepKeepsVerdicts DEF vars, Rewrites
<1> QED BY <1>1, TypeCorrect, PTL DEF Spec, SegmentKeepsVerdict

(***************************************************************************)
(* A datagram without a checksum stays without, and one with a checksum    *)
(* keeps one (xdp_forward.c:234-240, xdp_return.c:222-226).                *)
(***************************************************************************)
THEOREM UncheckedStayUnchecked == Spec => UncheckedStaysUnchecked
<1>1. TypeOK /\ [Next]_vars => [Rewrites => (Unchecked(packet) <=> Unchecked(packet'))]_vars
  BY StepKeepsVerdicts DEF vars, Rewrites
<1> QED BY <1>1, TypeCorrect, PTL DEF Spec, UncheckedStaysUnchecked

(***************************************************************************)
(* On the wire, packets that leave name a backend, or the VIP and a client *)
(* (loader.go:205, xdp_forward.c:405, xdp_return.c:338-339).               *)
(***************************************************************************)
THEOREM WiresNameBothEnds == Spec => []WireNamesBothEnds
<1>1. EndsInv => WireNamesBothEnds
  <2> SUFFICES ASSUME EndsInv PROVE WireNamesBothEnds
    OBVIOUS
  <2>1. \A e \in Backends \cup Clients : OnWire(Load(e.ip)) = e.ip /\ Swap(Swap(e.port)) = e.port
    <3> TAKE e \in Backends \cup Clients
    <3>1. e.ip \in Words \X Words /\ e.port \in Words
      BY EndsAssumption DEF Ends
    <3> QED BY <3>1, LoadOnWire, SwapTwice
  <2>2. OnWire(Load(VIP)) = VIP /\ \A p \in {"tcp", "udp"} : Swap(Swap(VIPPort[p])) = VIPPort[p]
    BY VIPAssumption, LoadOnWire, SwapTwice
  <2> QED BY <2>1, <2>2 DEF EndsInv, ReturnsToClient, ArrivesRewritten, WireNamesBothEnds, NewSource
<1> QED BY <1>1, InitEndsInv, NextEndsInv, PTL DEF Spec
=============================================================================
