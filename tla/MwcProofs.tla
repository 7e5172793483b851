----------------------------- MODULE MwcProofs -----------------------------
(***************************************************************************)
(* The generator keeps its words in their width, deals out every part of a *)
(* saved word once, and draws below a bound without a bias: inductive      *)
(* facts about MwcNext, for every width, multiplier, seed and bound.       *)
(***************************************************************************)
EXTENDS Mwc, TLAPS

LEMMA DivMod ==
    ASSUME NEW c \in Nat, NEW d \in Nat, d > 0
    PROVE  /\ c \div d \in Nat
           /\ c % d \in Nat
           /\ c % d < d
           /\ d * (c \div d) + (c % d) = c
  OBVIOUS

LEMMA DivLess ==
    ASSUME NEW c \in Nat, NEW d \in Nat, NEW m \in Nat, d > 0, c < d * m
    PROVE  c \div d < m
<1> DEFINE q == c \div d
<1>1. q \in Nat /\ d * q <= c
  BY DivMod
<1> HIDE DEF q
<1> SUFFICES ASSUME q >= m PROVE FALSE
  BY <1>1 DEF q
<1>2. d * q >= d * m
  BY <1>1
<1> QED
  BY <1>1, <1>2

LEMMA DivSmall ==
    ASSUME NEW c \in Nat, NEW d \in Nat, d > 0, c < d
    PROVE  c \div d = 0
  OBVIOUS

(* The only value a divisor leaves when it divides exactly.                *)
LEMMA ModOfProduct ==
    ASSUME NEW d \in Nat, NEW q \in Nat, d > 0
    PROVE  (d * q) % d = 0
  BY SMTT(30)

(* Doubling a multiple of a bound gives one.                               *)
LEMMA DoubledIsMultiple ==
    ASSUME NEW t \in Nat, NEW d \in Nat, d > 0, t % d = 0
    PROVE  (2 * t) % d = 0
<1> DEFINE q == t \div d
<1>1. q \in Nat /\ d * q = t
  BY DivMod
<1> HIDE DEF q
<1>2. 2 * t = d * (2 * q) /\ 2 * q \in Nat
  BY <1>1
<1> QED
  BY <1>2, ModOfProduct

-----------------------------------------------------------------------------
LEMMA Powers ==
    /\ Byte \in Nat /\ Byte > 0 /\ Byte % 2 = 0
    /\ Half \in Nat /\ Half > 0 /\ Half = Byte * Byte
    /\ Word \in Nat /\ Word > 0 /\ Word = Half * Half
<1>1. Byte \in Nat /\ Byte > 0
  BY MwcAssumption, PowerAssumption DEF Byte
<1>2. \E h \in Nat : Byte = 2 * h
  <2>1. /\ Bits - 1 \in 0 .. 4 * Bits /\ (Bits - 1) + 1 = Bits
    BY MwcAssumption
  <2>2. 2^((Bits - 1) + 1) = 2 * 2^(Bits - 1) /\ 2^(Bits - 1) \in Nat
    BY <2>1, PowerAssumption
  <2> QED
    BY <2>1, <2>2 DEF Byte
<1>3. Byte % 2 = 0
  BY <1>2, ModOfProduct
<1> QED
  BY <1>1, <1>3 DEF Half, Word

(* A width spans an even number of values.                                 *)
LEMMA Spans ==
    \A k \in Widths : Span[k] \in Nat /\ Span[k] > 0 /\ 2 * (Span[k] \div 2) = Span[k]
<1>1. ASSUME NEW a \in Nat, NEW b \in Nat, a > 0, b > 0, 2 * (a \div 2) = a
      PROVE  a * b \in Nat /\ a * b > 0 /\ 2 * ((a * b) \div 2) = a * b
  <2>1. PICK h \in Nat : a = 2 * h
    BY <1>1, DivMod
  <2>2. a * b = 2 * (h * b) /\ h * b \in Nat
    BY <2>1
  <2>3. (a * b) % 2 = 0
    <3>1. \A q \in Nat : (2 * q) % 2 = 0
      BY ModOfProduct
    <3> QED
      BY <2>2, <3>1
  <2>4. a * b \in Nat /\ a * b > 0
    BY <1>1
  <2> QED
    BY <2>3, <2>4, DivMod
<1>2. 2 * (Byte \div 2) = Byte
  BY Powers, DivMod
<1>3. 2 * (Half \div 2) = Half
  BY <1>1, <1>2, Powers
<1>4. 2 * (Word \div 2) = Word
  BY <1>1, <1>3, Powers
<1>5. Word * Word \in Nat /\ Word * Word > 0 /\ 2 * ((Word * Word) \div 2) = Word * Word
  BY <1>1, <1>4, Powers
<1> QED
  BY <1>2, <1>3, <1>4, <1>5, Powers DEF Widths, Span

(* What is left of a saved word of which i + 1 parts are left is less than *)
(* this.                                                                   *)
Cap(u, i) ==
    CASE u = "16" -> (IF i = 0 THEN Half ELSE Word)
      [] u = "8"  -> (IF i = 0 THEN Byte ELSE IF i = 1 THEN Half
                                         ELSE IF i = 2 THEN Byte * Half ELSE Word)
      [] u = "1"  -> 2^(i + 1)

LEMMA Caps ==
    ASSUME NEW u \in Units
    PROVE  /\ Base[u] \in Nat /\ Base[u] > 0
           /\ Parts[u] \in Nat /\ Parts[u] > 1
           /\ Cap(u, 0) = Base[u]
           /\ Cap(u, Parts[u] - 1) = Word
           /\ \A i \in 1 .. Parts[u] - 1 :
                Cap(u, i - 1) \in Nat /\ Cap(u, i) = Base[u] * Cap(u, i - 1)
<1>1. CASE u = "16"
  <2>1. Base[u] = Half /\ Parts[u] = 2
    BY <1>1 DEF Base, Parts, Units
  <2>2. Cap(u, 0) = Half /\ Cap(u, 1) = Word
    BY <1>1 DEF Cap
  <2> QED
    BY <2>1, <2>2, Powers
<1>2. CASE u = "8"
  <2>1. Base[u] = Byte /\ Parts[u] = 4
    BY <1>2 DEF Base, Parts, Units
  <2>2. /\ Cap(u, 0) = Byte /\ Cap(u, 1) = Half
        /\ Cap(u, 2) = Byte * Half /\ Cap(u, 3) = Word
    BY <1>2 DEF Cap
  <2>3. Byte * Half \in Nat /\ Byte * (Byte * Half) = Word
    BY Powers
  <2>4. \A i \in 1 .. 3 : i = 1 \/ i = 2 \/ i = 3
    OBVIOUS
  <2> QED
    BY <2>1, <2>2, <2>3, <2>4, Powers
<1>3. CASE u = "1"
  <2>1. Base[u] = 2 /\ Parts[u] = 4 * Bits /\ Bits \in Nat /\ Bits > 0
    BY <1>3, MwcAssumption DEF Base, Parts, Units
  <2>2. \A i \in Int : Cap(u, i) = 2^(i + 1)
    BY <1>3 DEF Cap
  <2>3. Cap(u, 0) = 2
    <3>1. 0 \in 0 .. 4 * Bits
      BY <2>1
    <3>2. 2^(0 + 1) = 2 * 2^0 /\ 2^0 = 1
      BY <3>1, PowerAssumption
    <3>3. 2^(0 + 1) = 2
      BY <3>2
    <3>4. Cap(u, 0) = 2^(0 + 1)
      BY <1>3 DEF Cap
    <3> QED
      BY <3>3, <3>4
  <2>4. Cap(u, Parts[u] - 1) = Word
    BY <2>1, <2>2, PowerAssumption
  <2>5. \A i \in 1 .. Parts[u] - 1 :
          Cap(u, i - 1) \in Nat /\ Cap(u, i) = Base[u] * Cap(u, i - 1)
    <3> SUFFICES ASSUME NEW i \in 1 .. Parts[u] - 1
                 PROVE  Cap(u, i - 1) \in Nat /\ Cap(u, i) = Base[u] * Cap(u, i - 1)
      OBVIOUS
    <3>1. i \in 0 .. 4 * Bits /\ i \in Int /\ i - 1 \in Int /\ (i - 1) + 1 = i
      BY <2>1
    <3> QED
      BY <2>1, <2>2, <3>1, PowerAssumption
  <2> QED
    BY <2>1, <2>3, <2>4, <2>5
<1> QED
  BY <1>1, <1>2, <1>3 DEF Units

-----------------------------------------------------------------------------
(* One step of the state stays within a word.                              *)
LEMMA ShiftStays ==
    ASSUME NEW s \in 0 .. Word - 1, NEW mul \in 0 .. Half - 1
    PROVE  Shifted(s, mul) \in 0 .. Word - 1
<1> DEFINE low == s % Half
           high == s \div Half
<1>1. low \in Nat /\ low <= Half - 1 /\ high \in Nat
  BY Powers, DivMod
<1>2. high <= Half - 1
  BY Powers, DivLess, <1>1
<1> HIDE DEF low, high
<1>3. mul * low \in Nat /\ mul * low <= (Half - 1) * (Half - 1)
  <2>1. mul * low <= mul * (Half - 1)
    BY <1>1, Powers
  <2>2. mul * (Half - 1) <= (Half - 1) * (Half - 1)
    BY Powers
  <2> QED
    BY <1>1, <2>1, <2>2, Powers
<1>4. (Half - 1) * (Half - 1) + (Half - 1) <= Word - 1
  <2>1. (Half - 1) * (Half - 1) = Word - 2 * Half + 1
    BY Powers
  <2> QED
    BY <2>1, Powers
<1>5. mul * low + high \in 0 .. Word - 1
  BY <1>1, <1>2, <1>3, <1>4, Powers
<1> QED
  BY <1>5 DEF Shifted, low, high

(* Some mod of a word is a word.                                           *)
LEMMA ValueStays ==
    ASSUME NEW a \in 0 .. Word - 1, NEW b \in 0 .. Word - 1
    PROVE  ValueOf(a, b) \in 0 .. Word - 1
<1>1. b * Half + a \in Nat
  BY Powers
<1> QED
  BY <1>1, Powers, DivMod DEF ValueOf

-----------------------------------------------------------------------------
(* The strengthening.  What is left of a saved word has as many parts as n *)
(* says, and a threshold is a multiple of what is asked for.               *)
DealInv ==
    /\ seen \in [Units -> [word : Nat, dealt : Nat, unit : Nat]]
    /\ \A u \in Units :
         /\ saved[u] < Cap(u, n[u])
         /\ seen[u].dealt + seen[u].unit * (saved[u] \div Base[u]) = seen[u].word

BoundInv ==
    Asked => ask.mmod > 0 /\ threshold > 0 /\ threshold % ask.mmod = 0

GenInv == MwcTypeOK /\ DealInv /\ BoundInv

LEMMA DealtOut == GenInv => EveryPartOnce
<1> SUFFICES ASSUME GenInv, NEW u \in Units, n[u] = 0
             PROVE  seen[u].dealt = seen[u].word
  BY DEF GenInv, DealInv, EveryPartOnce
<1>1. saved[u] \in Nat /\ saved[u] < Base[u]
  <2>1. saved[u] \in 0 .. Word - 1
    BY DEF GenInv, MwcTypeOK
  <2>2. saved[u] < Cap(u, 0)
    BY DEF GenInv, DealInv
  <2> QED
    BY <2>1, <2>2, Caps, Powers
<1>2. saved[u] \div Base[u] = 0
  BY <1>1, Caps, DivSmall
<1>3. seen[u].unit * 0 = 0 /\ seen[u].dealt + 0 = seen[u].dealt
  BY DEF GenInv, DealInv
<1> QED
  BY <1>2, <1>3 DEF GenInv, DealInv

LEMMA DrawnFairly == GenInv => Unbiased
<1> SUFFICES ASSUME GenInv, Asked, ~ ToDouble
             PROVE  2 * threshold >= Span[ask.width]
  BY DEF GenInv, BoundInv, Unbiased
<1>1. ask.width \in Widths /\ threshold \in Nat
  BY DEF GenInv, MwcTypeOK, Asked
<1>2. threshold >= Span[ask.width] \div 2
  BY <1>1, Spans DEF ToDouble
<1> QED
  BY <1>1, <1>2, Spans

-----------------------------------------------------------------------------
LEMMA StateStarts ==
    ASSUME NEW seed \in (0 .. Word - 1) \X (0 .. Word - 1), MwcFrom(seed)
    PROVE  GenInv
<1>1. MwcTypeOK
  <2>1. w \in 0 .. Word - 1 /\ z \in 0 .. Word - 1
    BY DEF MwcFrom
  <2>2. \A u \in Units : n[u] = 0 /\ n[u] < Parts[u]
    BY Caps DEF MwcFrom
  <2>3. saved \in [Units -> 0 .. Word - 1]
    BY Powers DEF MwcFrom
  <2>4. n \in [Units -> Nat] /\ words \in 0 .. MaxWords
    BY MwcAssumption DEF MwcFrom
  <2> QED
    BY <2>1, <2>2, <2>3, <2>4 DEF MwcFrom, MwcTypeOK
<1>2. DealInv
  <2>1. seen \in [Units -> [word : Nat, dealt : Nat, unit : Nat]]
    BY DEF MwcFrom, Nothing
  <2> SUFFICES ASSUME NEW u \in Units
               PROVE  /\ saved[u] < Cap(u, n[u])
                      /\ seen[u].dealt + seen[u].unit * (saved[u] \div Base[u]) = seen[u].word
    BY <2>1 DEF DealInv
  <2>2. saved[u] = 0 /\ n[u] = 0 /\ seen[u] = Nothing
    BY DEF MwcFrom
  <2>3. 0 < Cap(u, 0) /\ 0 \div Base[u] = 0
    BY Caps
  <2> QED
    BY <2>2, <2>3 DEF Nothing
<1>3. BoundInv
  BY DEF MwcFrom, BoundInv, Asked
<1> QED
  BY <1>1, <1>2, <1>3 DEF GenInv

LEMMA WordsStay ==
    ASSUME GenInv
    PROVE  /\ Word32 \in 0 .. Word - 1 /\ Second \in 0 .. Word - 1
           /\ Words64 \subseteq Nat
           /\ Draw32 \/ Draw64 => /\ w' \in 0 .. Word - 1 /\ z' \in 0 .. Word - 1
                                  /\ words' \in 0 .. MaxWords
<1> DEFINE w1 == Shifted(w, MulW)
           z1 == Shifted(z, MulZ)
           w2 == Shifted(w1, MulW)
           z2 == Shifted(z1, MulZ)
<1>1. w1 \in 0 .. Word - 1 /\ z1 \in 0 .. Word - 1
  BY ShiftStays, MwcAssumption DEF GenInv, MwcTypeOK
<1>2. w2 \in 0 .. Word - 1 /\ z2 \in 0 .. Word - 1
  <2> HIDE DEF w1, z1
  <2> QED
    BY <1>1, ShiftStays, MwcAssumption
<1>3. Word32 \in 0 .. Word - 1 /\ Second \in 0 .. Word - 1
  BY <1>1, <1>2, ValueStays DEF Word32, Second
<1>4. Words64 \subseteq Nat
  BY <1>3, Powers DEF Words64
<1>5. ASSUME NEW k \in {1, 2}, Drawn(k) PROVE words' \in 0 .. MaxWords
  BY <1>5, MwcAssumption DEF Drawn, GenInv, MwcTypeOK
<1>6. Draw32 \/ Draw64 => w' \in 0 .. Word - 1 /\ z' \in 0 .. Word - 1
  BY <1>1, <1>2 DEF Draw32, Draw64
<1> QED
  BY <1>3, <1>4, <1>5, <1>6 DEF Draw32, Draw64

-----------------------------------------------------------------------------
(* mwc16, mwc8 and mwc1 deal on: the part taken leaves the rest in place.  *)
LEMMA PartMoves ==
    ASSUME NEW base \in Nat, base > 0, NEW unit \in Nat, NEW dealt \in Nat, NEW q \in Nat
    PROVE  dealt + unit * (q % base) + (unit * base) * (q \div base) = dealt + unit * q
<1> DEFINE a == q % base
           c == q \div base
<1>1. a \in Nat /\ c \in Nat /\ base * c + a = q
  BY DivMod
<1> HIDE DEF a, c
<1>2. unit * q = unit * a + (unit * base) * c
  <2>1. unit * (base * c + a) = unit * (base * c) + unit * a
    BY <1>1
  <2>2. unit * (base * c) = (unit * base) * c
    BY <1>1
  <2> QED
    BY <1>1, <2>1, <2>2
<1>3. dealt + unit * a + (unit * base) * c = dealt + unit * q
  BY <1>1, <1>2
<1> QED
  BY <1>3 DEF a, c

LEMMA TakeKeeps ==
    ASSUME GenInv, NEW u \in Units, Take(u)
    PROVE  /\ w' \in 0 .. Word - 1 /\ z' \in 0 .. Word - 1 /\ words' \in 0 .. MaxWords
           /\ n' \in [Units -> Nat] /\ \A v \in Units : n'[v] < Parts[v]
           /\ saved' \in [Units -> 0 .. Word - 1]
           /\ DealInv'
<1> DEFINE base == Base[u]
<1>1. /\ n \in [Units -> Nat] /\ \A v \in Units : n[v] < Parts[v]
      /\ saved \in [Units -> 0 .. Word - 1]
      /\ w \in 0 .. Word - 1 /\ z \in 0 .. Word - 1 /\ words \in 0 .. MaxWords
      /\ seen \in [Units -> [word : Nat, dealt : Nat, unit : Nat]]
      /\ \A v \in Units :
           /\ saved[v] < Cap(v, n[v])
           /\ seen[v].dealt + seen[v].unit * (saved[v] \div Base[v]) = seen[v].word
  BY DEF GenInv, MwcTypeOK, DealInv
<1>2. base \in Nat /\ base > 0
  BY Caps
<1>3. ASSUME \A v \in Units \ {u} : n'[v] = n[v] /\ saved'[v] = saved[v] /\ seen'[v] = seen[v],
             seen' \in [Units -> [word : Nat, dealt : Nat, unit : Nat]],
             saved'[u] < Cap(u, n'[u]),
             seen'[u].dealt + seen'[u].unit * (saved'[u] \div Base[u]) = seen'[u].word
      PROVE  DealInv'
  <2> SUFFICES ASSUME NEW v \in Units
               PROVE  /\ saved'[v] < Cap(v, n'[v])
                      /\ seen'[v].dealt + seen'[v].unit * (saved'[v] \div Base[v]) = seen'[v].word
    BY <1>3, Zenon DEF DealInv, Cap
  <2>1. CASE v = u
    BY <1>3, <2>1
  <2>2. CASE v # u
    BY <1>1, <1>3, <2>2
  <2> QED
    BY <2>1, <2>2
<1>4. CASE n[u] > 0
  <2> DEFINE q == saved[u] \div base
             m == n[u] - 1
             s == seen[u]
             t == [word |-> s.word, dealt |-> s.dealt + s.unit * (q % base), unit |-> s.unit * base]
  <2>1. saved[u] \in Nat /\ saved[u] < Word /\ n[u] \in 1 .. Parts[u] - 1
    BY <1>1, <1>4, Caps, Powers
  <2>2. q \in Nat /\ q <= saved[u]
    <3>1. \A c, d \in Nat : d > 0 => c \div d \in Nat /\ c \div d <= c
      <4> SUFFICES ASSUME NEW c \in Nat, NEW d \in Nat, d > 0
                   PROVE  c \div d \in Nat /\ c \div d <= c
        OBVIOUS
      <4>1. c \div d \in Nat /\ d * (c \div d) <= c
        BY DivMod
      <4>2. d * (c \div d) >= c \div d
        BY <4>1
      <4> QED
        BY <4>1, <4>2
    <3> QED
      BY <1>2, <2>1, <3>1
  <2>3. q < Cap(u, m)
    <3>1. Cap(u, m) \in Nat /\ Cap(u, n[u]) = base * Cap(u, m)
      BY <2>1, Caps
    <3>2. saved[u] < base * Cap(u, m)
      BY <1>1, <3>1
    <3> QED
      BY <1>2, <2>1, <3>1, <3>2, DivLess
  <2>4. s \in [word : Nat, dealt : Nat, unit : Nat] /\ q % base \in Nat
    BY <1>1, <1>2, <2>2, DivMod
  <2>5. t \in [word : Nat, dealt : Nat, unit : Nat]
    BY <1>2, <2>4
  <2>6. t.dealt + t.unit * (q \div base) = t.word
    <3>1. s.dealt + s.unit * q = s.word
      BY <1>1
    <3>2. s.dealt \in Nat /\ s.unit \in Nat
      BY <2>4
    <3>3. s.dealt + s.unit * (q % base) + (s.unit * base) * (q \div base)
            = s.dealt + s.unit * q
      BY <1>2, <2>2, <3>2, PartMoves
    <3> QED
      BY <3>1, <3>3
  <2> HIDE DEF q, m
  <2>7. /\ n' = [n EXCEPT ![u] = m]
        /\ saved' = [saved EXCEPT ![u] = q]
        /\ UNCHANGED <<w, z, words>>
    BY <1>4 DEF Take, q, m
  <2>8. saved'[u] = q /\ n'[u] = m
    BY <1>1, <2>7
  <2>9. seen' = [seen EXCEPT ![u] = t]
    BY <1>4, <2>8 DEF Take
  <2> HIDE DEF t, s
  <2>10. seen'[u] = t /\ seen' \in [Units -> [word : Nat, dealt : Nat, unit : Nat]]
    BY <1>1, <2>5, <2>9
  <2>11. DealInv'
    <3>1. \A v \in Units \ {u} : n'[v] = n[v] /\ saved'[v] = saved[v] /\ seen'[v] = seen[v]
      BY <1>1, <2>7, <2>9
    <3>2. saved'[u] < Cap(u, n'[u])
      BY <2>3, <2>8
    <3>3. seen'[u].dealt + seen'[u].unit * (saved'[u] \div Base[u]) = seen'[u].word
      BY <2>6, <2>8, <2>10
    <3> QED
      BY <1>3, <2>10, <3>1, <3>2, <3>3
  <2>12. m \in Nat /\ m < Parts[u] /\ q \in 0 .. Word - 1
    <3>1. m \in Nat /\ m < Parts[u]
      BY <1>1, <2>1, Caps DEF m
    <3>2. q \in 0 .. Word - 1
      BY <2>1, <2>2, Powers
    <3> QED
      BY <3>1, <3>2
  <2> QED
    BY <1>1, <2>7, <2>11, <2>12
<1>5. CASE n[u] = 0
  <2> DEFINE t == [word |-> Word32, dealt |-> Word32 % base, unit |-> base]
             m == Parts[u] - 1
  <2>1. /\ Word32 \in 0 .. Word - 1 /\ Word32 \in Nat /\ Word32 < Word
        /\ w' \in 0 .. Word - 1 /\ z' \in 0 .. Word - 1 /\ words' \in 0 .. MaxWords
    BY <1>5, WordsStay, Powers DEF Take
  <2>2. t \in [word : Nat, dealt : Nat, unit : Nat]
    BY <1>2, <2>1, DivMod
  <2>3. t.dealt + t.unit * (Word32 \div base) = t.word
    BY <1>2, <2>1, DivMod
  <2>4. Word32 < Cap(u, m) /\ m \in Nat /\ m < Parts[u]
    BY <2>1, Caps
  <2>5. /\ n' = [n EXCEPT ![u] = m]
        /\ saved' = [saved EXCEPT ![u] = Word32]
        /\ seen' = [seen EXCEPT ![u] = t]
    BY <1>5 DEF Take, PartsLeft
  <2> HIDE DEF t, m
  <2>6. seen'[u] = t /\ seen' \in [Units -> [word : Nat, dealt : Nat, unit : Nat]]
    BY <1>1, <2>2, <2>5
  <2>7. DealInv'
    BY <1>1, <1>3, <2>3, <2>4, <2>5, <2>6
  <2> QED
    BY <1>1, <2>1, <2>4, <2>5, <2>7
<1> QED
  BY <1>1, <1>4, <1>5

-----------------------------------------------------------------------------
CallState ==
    /\ ask \in [width : Widths, mmod : Bounds] \cup {NoAsk}
    /\ ask = NoAsk => got = NotYet
    /\ threshold \in Nat /\ got \in Nat \cup {NotYet}

WordState ==
    /\ w \in 0 .. Word - 1 /\ z \in 0 .. Word - 1
    /\ n \in [Units -> Nat] /\ \A u \in Units : n[u] < Parts[u]
    /\ saved \in [Units -> 0 .. Word - 1]
    /\ words \in 0 .. MaxWords

LEMMA TypeSplit == MwcTypeOK <=> CallState /\ WordState
  BY Zenon DEF MwcTypeOK, CallState, WordState

(* The loop of a modn: what is thrown away or taken keeps its bound.       *)
LEMMA AcceptKeeps ==
    ASSUME GenInv, Asked, NEW val \in Nat, Accept(val), UNCHANGED <<ask, threshold>>
    PROVE  CallState' /\ BoundInv'
<1>1. ask.mmod > 0 /\ ask \in [width : Widths, mmod : Bounds] /\ ask # NoAsk
  BY DEF GenInv, BoundInv, Asked, MwcTypeOK
<1>2. ask.mmod \in Nat
  BY <1>1, MwcAssumption
<1>3. got' \in Nat \cup {NotYet}
  <2>1. val % ask.mmod \in Nat
    BY <1>1, <1>2, DivMod
  <2> QED
    BY <2>1 DEF Accept
<1>4. CallState'
  BY <1>1, <1>3 DEF CallState, GenInv, MwcTypeOK
<1>5. BoundInv'
  BY DEF GenInv, BoundInv, Asked
<1> QED
  BY <1>4, <1>5

LEMMA TryKeeps ==
    ASSUME GenInv, Try
    PROVE  GenInv'
<1>1. Asked /\ UNCHANGED <<ask, threshold>>
  BY DEF Try
<1>2. CASE ask.width = "64" /\ Draw64 /\ (\E val \in Words64 : Accept(val)) /\ UNCHANGED buffers
  <2>1. CallState' /\ BoundInv'
    BY <1>1, <1>2, WordsStay, AcceptKeeps
  <2>2. WordState' /\ DealInv'
    BY <1>2, WordsStay DEF buffers, GenInv, MwcTypeOK, WordState, DealInv
  <2> QED
    BY <2>1, <2>2, TypeSplit, PTL DEF GenInv
<1>3. CASE ask.width = "32" /\ Draw32 /\ Accept(Word32) /\ UNCHANGED buffers
  <2>1. CallState' /\ BoundInv'
    BY <1>1, <1>3, WordsStay, AcceptKeeps
  <2>2. WordState' /\ DealInv'
    BY <1>3, WordsStay DEF buffers, GenInv, MwcTypeOK, WordState, DealInv
  <2> QED
    BY <2>1, <2>2, TypeSplit, PTL DEF GenInv
<1>4. CASE /\ ask.width \in Units /\ Take(ask.width)
           /\ Accept(saved'[ask.width] % Base[ask.width])
  <2>1. WordState' /\ DealInv'
    BY <1>4, TakeKeeps DEF WordState
  <2>2. saved'[ask.width] % Base[ask.width] \in Nat
    <3>1. saved'[ask.width] \in Nat
      BY <1>4, <2>1, Powers DEF WordState
    <3> QED
      BY <1>4, <3>1, Caps, DivMod
  <2>3. CallState' /\ BoundInv'
    BY <1>1, <1>4, <2>2, AcceptKeeps
  <2> QED
    BY <2>1, <2>3, TypeSplit, PTL DEF GenInv
<1> QED
  BY <1>2, <1>3, <1>4 DEF Try

(* A new threshold is what is asked for, or all values where there is a    *)
(* mask; doubling it keeps it a multiple, and in its width.                *)
LEMMA AskKeeps ==
    ASSUME GenInv, NEW width \in Widths, NEW m \in Bounds, Ask(width, m)
    PROVE  CallState' /\ BoundInv'
<1>1. ask' = [width |-> width, mmod |-> m] /\ m \in Nat /\ m > 0 /\ got' = NotYet
  BY MwcAssumption DEF Ask, GenInv, MwcTypeOK
<1>2. /\ threshold' \in Nat /\ threshold' > 0 /\ threshold' % m = 0
  <2>1. PICK masked \in BOOLEAN :
          /\ MayMask(width, m, masked)
          /\ threshold' = IF masked THEN Span[width] ELSE m
    BY DEF Ask
  <2>2. m % m = 0
    <3>1. (m * 1) % m = 0
      BY <1>1, ModOfProduct
    <3> QED
      BY <1>1, <3>1
  <2>3. CASE masked
    BY <2>1, <2>3, Spans DEF MayMask, IsPower2
  <2>4. CASE ~ masked
    BY <1>1, <2>1, <2>2, <2>4
  <2> QED
    BY <2>3, <2>4
<1>3. CallState'
  <2>1. ask' \in [width : Widths, mmod : Bounds] /\ ask' # NoAsk
    BY <1>1 DEF NoAsk, Widths
  <2> QED
    BY <1>1, <1>2, <2>1 DEF CallState
<1>4. BoundInv'
  BY <1>1, <1>2 DEF BoundInv
<1> QED
  BY <1>3, <1>4

LEMMA DoubleKeeps ==
    ASSUME GenInv, Double
    PROVE  CallState' /\ BoundInv'
<1> DEFINE span == Span[ask.width]
           half == span \div 2
           m == ask.mmod
<1>1. /\ ask \in [width : Widths, mmod : Bounds] /\ threshold \in Nat /\ got = NotYet
      /\ m > 0 /\ threshold > 0 /\ threshold % m = 0 /\ threshold < half
      /\ threshold' = (2 * threshold) % span
      /\ UNCHANGED <<ask, got>>
  BY DEF Double, ToDouble, Asked, GenInv, MwcTypeOK, BoundInv
<1>2. m \in Nat /\ span \in Nat /\ span > 0 /\ 2 * half = span
  BY <1>1, Spans, MwcAssumption
<1> HIDE DEF half, span, m
<1>3. half \in Int
  BY <1>2 DEF half
<1>4. 2 * threshold < span
  BY <1>1, <1>2, <1>3
<1>5. threshold' = 2 * threshold
  <2>1. \A c, d \in Nat : c < d => c % d = c
    OBVIOUS
  <2> QED
    BY <1>1, <1>2, <1>4, <2>1
<1>6. threshold' % m = 0
  BY <1>1, <1>2, <1>5, DoubledIsMultiple
<1>7. CallState'
  BY <1>1, <1>5 DEF CallState, NoAsk, Widths
<1>8. BoundInv'
  BY <1>1, <1>2, <1>5, <1>6 DEF BoundInv, m
<1> QED
  BY <1>7, <1>8

LEMMA GenInvSteps == GenInv /\ [MwcNext]_genVars => GenInv'
<1> SUFFICES ASSUME GenInv, [MwcNext]_genVars PROVE GenInv'
  OBVIOUS
<1>0. (CallState /\ WordState) /\ (CallState' /\ WordState' => MwcTypeOK')
  BY TypeSplit, PTL DEF GenInv
<1>1. UNCHANGED <<ask, threshold, got>> => CallState' /\ BoundInv'
  BY <1>0 DEF GenInv, CallState, BoundInv, Asked
<1>2. UNCHANGED <<w, z, words, buffers>> => WordState' /\ DealInv'
  BY <1>0 DEF GenInv, WordState, DealInv, buffers
<1>3. CASE UNCHANGED genVars
  BY <1>0, <1>1, <1>2, <1>3 DEF GenInv, genVars, buffers
<1>4. CASE Draw
  <2>1. UNCHANGED <<ask, threshold, got>>
    BY <1>4 DEF Draw, Call
  <2>2. ASSUME Draw32 \/ Draw64, UNCHANGED buffers PROVE WordState' /\ DealInv'
    BY <1>0, <2>2, WordsStay DEF GenInv, WordState, DealInv, buffers
  <2>3. ASSUME NEW u \in Units, Take(u) PROVE WordState' /\ DealInv'
    BY <2>3, TakeKeeps DEF WordState
  <2> QED
    BY <1>0, <1>1, <1>4, <2>1, <2>2, <2>3 DEF Draw, Call, GenInv
<1>5. CASE SetSeed
  <2>1. w' \in 0 .. Word - 1 /\ z' \in 0 .. Word - 1
    BY <1>5, MwcAssumption DEF SetSeed
  <2>2. WordState' /\ DealInv'
    BY <1>0, <1>5, <2>1 DEF SetSeed, GenInv, WordState, DealInv, buffers
  <2> QED
    BY <1>0, <1>1, <1>5, <2>2 DEF SetSeed, GenInv
<1>6. CASE Reseed
  <2>1. w' \in 0 .. Word - 1 /\ z' \in 0 .. Word - 1
    BY <1>6, MwcAssumption DEF Reseed
  <2>2. WordState'
    <3>1. \A u \in Units : 0 < Parts[u]
      BY Caps
    <3> QED
      BY <1>0, <1>6, <2>1, <3>1, Powers DEF Reseed, WordState
  <2>3. DealInv'
    <3>1. seen' \in [Units -> [word : Nat, dealt : Nat, unit : Nat]]
      BY <1>6 DEF Reseed, Nothing
    <3>2. ASSUME NEW u \in Units
          PROVE  /\ saved'[u] < Cap(u, n'[u])
                 /\ seen'[u].dealt + seen'[u].unit * (saved'[u] \div Base[u]) = seen'[u].word
      <4>1. saved'[u] = 0 /\ n'[u] = 0 /\ seen'[u] = Nothing
        BY <1>6 DEF Reseed
      <4>2. 0 < Cap(u, 0) /\ 0 \div Base[u] = 0
        BY Caps
      <4> QED
        BY <4>1, <4>2 DEF Nothing
    <3> QED
      BY <3>1, <3>2 DEF DealInv
  <2> QED
    BY <1>0, <1>1, <1>6, <2>2, <2>3 DEF Reseed, GenInv
<1>7. ASSUME NEW width \in Widths, AskZero(width) PROVE GenInv'
  <2>1. CallState'
    <3>1. /\ ask' = [width |-> width, mmod |-> 0] /\ 0 \in Bounds
          /\ got' = 0 /\ threshold' = threshold
      BY <1>7 DEF AskZero
    <3>2. ask' \in [width : Widths, mmod : Bounds] /\ ask' # NoAsk
      BY <3>1 DEF NoAsk, Widths
    <3> QED
      BY <1>0, <3>1, <3>2 DEF CallState
  <2>2. BoundInv'
    BY <1>7 DEF AskZero, BoundInv, Asked, NotYet
  <2> QED
    BY <1>0, <1>2, <1>7, <2>1, <2>2 DEF AskZero, GenInv
<1>8. ASSUME NEW width \in Widths, NEW m \in Bounds, Ask(width, m) PROVE GenInv'
  BY <1>0, <1>2, <1>8, AskKeeps DEF Ask, GenInv
<1>9. CASE Double
  BY <1>0, <1>2, <1>9, DoubleKeeps DEF Double, GenInv
<1>10. CASE Return
  <2>1. CallState' /\ BoundInv'
    BY <1>10 DEF Return, CallState, BoundInv, Asked
  <2> QED
    BY <1>0, <1>2, <1>10, <2>1 DEF Return, GenInv
<1> QED
  BY <1>3, <1>4, <1>5, <1>6, <1>7, <1>8, <1>9, <1>10, TryKeeps DEF MwcNext, Modn
=============================================================================
