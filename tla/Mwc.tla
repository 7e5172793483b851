-------------------------------- MODULE Mwc --------------------------------
(***************************************************************************)
(* The multiply-with-carry generator of core-mwc.cpp, which the stressors  *)
(* draw addresses, operands and payloads from.                             *)
(*                                                                         *)
(* Widths are scaled: a byte has Bits bits, and a word four bytes.  What   *)
(* the code writes three times, for parts of 16, 8 and 1 bits of a saved   *)
(* word, is stated once for a unit u; the draws below a bound, written     *)
(* four times, are one loop that doubles a threshold and one that draws.   *)
(* `seen` is an observer: the word a unit is dealt from, and what was      *)
(* dealt of it so far.                                                     *)
(***************************************************************************)
EXTENDS Integers

CONSTANTS
    Bits,           \* 8
    MulZ, MulW,     \* 36969 and 18000
    Seeds,          \* pairs <<w, z>>: the default seeds, and reseed's
    Bounds,         \* the mmod that callers ask for
    MaxWords        \* how many words are drawn

Byte == 2^Bits
Half == Byte * Byte
Word == Half * Half

ASSUME MwcAssumption ==
    /\ Bits \in Nat \ {0}
    /\ MulZ \in 0 .. Half - 1 /\ MulW \in 0 .. Half - 1
    /\ Seeds \subseteq (0 .. Word - 1) \X (0 .. Word - 1)
    /\ Bounds \subseteq Nat /\ MaxWords \in Nat

(* What powers of two are, which the prover does not know.                 *)
ASSUME PowerAssumption ==
    /\ 2^0 = 1
    /\ \A k \in 0 .. 4 * Bits : 2^(k + 1) = 2 * 2^k /\ 2^k \in Nat \ {0}
    /\ Word = 2^(4 * Bits)

VARIABLES
    w, z,           \* the state
    n, saved,       \* n16, n8, n1 and saved16, saved8, saved1
    ask,            \* the call of a modn in progress, or NoAsk
    threshold, got, \* its threshold, and the value it returns, or NotYet
    seen, words

buffers == <<n, saved, seen>>
genVars == <<w, z, n, saved, ask, threshold, got, seen, words>>

Units == {"16", "8", "1"}
Parts == [u \in Units |-> CASE u = "16" -> 2 [] u = "8" -> 4 [] u = "1" -> 4 * Bits]
Base  == [u \in Units |-> CASE u = "16" -> Half [] u = "8" -> Byte [] u = "1" -> 2]

(* The values of a draw, by its width.                                     *)
Widths == {"64", "32", "16", "8"}
Span == [k \in Widths |->
    CASE k = "64" -> Word * Word [] k = "32" -> Word [] k = "16" -> Half [] k = "8" -> Byte]

NoAsk == [width |-> "none", mmod |-> 0]
NotYet == -1
Nothing == [word |-> 0, dealt |-> 0, unit |-> 1]

MwcFrom(seed) ==
    /\ w = seed[1] /\ z = seed[2]
    /\ n = [u \in Units |-> 0] /\ saved = [u \in Units |-> 0]
    /\ ask = NoAsk /\ threshold = 0 /\ got = NotYet
    /\ seen = [u \in Units |-> Nothing]
    /\ words = 0

MwcInit == \E seed \in Seeds : MwcFrom(seed)

-----------------------------------------------------------------------------
Shifted(s, mul) == mul * (s % Half) + s \div Half

ValueOf(sw, sz) == (sz * Half + sw) % Word

(* mwc32: the word drawn next.                                             *)
Word32 == ValueOf(Shifted(w, MulW), Shifted(z, MulZ))

Drawn(k) ==
    /\ words + k <= MaxWords
    /\ words' = words + k

Draw32 ==
    /\ Drawn(1)
    /\ w' = Shifted(w, MulW)
    /\ z' = Shifted(z, MulZ)

(* mwc64: two words; which is the upper one is up to the compiler.         *)
Second == ValueOf(Shifted(Shifted(w, MulW), MulW), Shifted(Shifted(z, MulZ), MulZ))

Words64 == {Word32 * Word + Second, Second * Word + Word32}

Draw64 ==
    /\ Drawn(2)
    /\ w' = Shifted(Shifted(w, MulW), MulW)
    /\ z' = Shifted(Shifted(z, MulZ), MulZ)

PartsLeftBad(u) == Parts[u] - 2

(* How many parts of a new word are dealt after the first.                 *)
PartsLeft(u) == Parts[u] - 1

(* mwc16, mwc8, mwc1: the next part of the saved word, or a new word's.    *)
Take(u) ==
    \/ /\ n[u] > 0
       /\ n' = [n EXCEPT ![u] = @ - 1]
       /\ saved' = [saved EXCEPT ![u] = @ \div Base[u]]
       /\ seen' = [seen EXCEPT ![u] =
                     [word  |-> @.word,
                      dealt |-> @.dealt + @.unit * (saved'[u] % Base[u]),
                      unit  |-> @.unit * Base[u]]]
       /\ UNCHANGED <<w, z, words>>
    \/ /\ n[u] = 0
       /\ Draw32
       /\ n' = [n EXCEPT ![u] = PartsLeft(u)]
       /\ saved' = [saved EXCEPT ![u] = Word32]
       /\ seen' = [seen EXCEPT ![u] = [word |-> Word32, dealt |-> Word32 % Base[u],
                                       unit |-> Base[u]]]

Call(draw) == ask = NoAsk /\ draw /\ UNCHANGED <<ask, threshold, got>>

Draw == \/ Call(Draw32) /\ UNCHANGED buffers
        \/ Call(Draw64) /\ UNCHANGED buffers
        \/ \E u \in Units : Call(Take(u))

(* set_seed forgets no saved word; reseed, which pulls the seeds from the  *)
(* clock, the stack and the process numbers, does.                         *)
SetSeed ==
    /\ ask = NoAsk
    /\ \E seed \in Seeds : w' = seed[1] /\ z' = seed[2]
    /\ UNCHANGED <<buffers, ask, threshold, got, words>>

Reseed ==
    /\ ask = NoAsk
    /\ w' \in {s[1] : s \in Seeds} /\ z' \in {s[2] : s \in Seeds}
    /\ n' = [u \in Units |-> 0] /\ saved' = [u \in Units |-> 0]
    /\ seen' = [u \in Units |-> Nothing]
    /\ UNCHANGED <<ask, threshold, got, words>>

-----------------------------------------------------------------------------
(* Of what a width spans the divisors are the powers of two.               *)
IsPower2(width, m) == Span[width] % m = 0

(* mwc64modn takes a power of two with a mask, which throws nothing away;  *)
(* of 32 bits there is one modn that does and one that does not.           *)
MayMask(width, m, masked) ==
    /\ masked => width \in {"64", "32"} /\ IsPower2(width, m)
    /\ width = "64" /\ IsPower2(width, m) => masked

(* A draw below 0 is 0.                                                    *)
AskZero(width) ==
    /\ ask = NoAsk /\ 0 \in Bounds
    /\ ask' = [width |-> width, mmod |-> 0]
    /\ got' = 0
    /\ UNCHANGED <<w, z, buffers, threshold, words>>

Ask(width, m) ==
    /\ ask = NoAsk /\ m > 0 /\ m < Span[width]
    /\ ask' = [width |-> width, mmod |-> m]
    /\ \E masked \in BOOLEAN :
         /\ MayMask(width, m, masked)
         /\ threshold' = IF masked THEN Span[width] ELSE m
    /\ UNCHANGED <<w, z, buffers, got, words>>

Asked == ask # NoAsk /\ got = NotYet

ToDoubleBad == Asked /\ threshold <= Span[ask.width] \div 2

ToDouble == Asked /\ threshold < Span[ask.width] \div 2

Double ==
    /\ ToDouble
    /\ threshold' = (2 * threshold) % Span[ask.width]
    /\ UNCHANGED <<w, z, buffers, ask, got, words>>

(* Whatever is at or above the threshold is thrown away.                   *)
Accept(val) == got' = IF val >= threshold THEN NotYet ELSE val % ask.mmod

Try ==
    /\ Asked /\ ~ ToDouble
    /\ \/ /\ ask.width = "64" /\ Draw64
          /\ \E val \in Words64 : Accept(val)
          /\ UNCHANGED buffers
       \/ ask.width = "32" /\ Draw32 /\ Accept(Word32) /\ UNCHANGED buffers
       \/ ask.width \in Units /\ Take(ask.width) /\ Accept(saved'[ask.width] % Base[ask.width])
    /\ UNCHANGED <<ask, threshold>>

Return ==
    /\ got # NotYet
    /\ ask' = NoAsk /\ threshold' = 0 /\ got' = NotYet
    /\ UNCHANGED <<w, z, buffers, words>>

Modn == \/ \E width \in Widths : AskZero(width)
        \/ \E width \in Widths, m \in Bounds : Ask(width, m)
        \/ Double
        \/ Try
        \/ Return

MwcNext == Draw \/ SetSeed \/ Reseed \/ Modn

-----------------------------------------------------------------------------
MwcTypeOK ==
    /\ w \in 0 .. Word - 1 /\ z \in 0 .. Word - 1
    /\ n \in [Units -> Nat] /\ \A u \in Units : n[u] < Parts[u]
    /\ saved \in [Units -> 0 .. Word - 1]
    /\ ask \in [width : Widths, mmod : Bounds] \cup {NoAsk}
    /\ ask = NoAsk => got = NotYet
    /\ threshold \in Nat /\ got \in Nat \cup {NotYet}
    /\ words \in 0 .. MaxWords

(* A saved word is dealt out whole before the next one is drawn: each part *)
(* of it once, the lowest first, whatever else is drawn in between and     *)
(* even over a set_seed.                                                   *)
EveryPartOnce ==
    \A u \in Units :
        /\ n[u] = 0 => seen[u].dealt = seen[u].word
        /\ seen[u].dealt + seen[u].unit * (saved[u] \div Base[u]) = seen[u].word

(* "non-modulo biased": values are taken from below a multiple of mmod, so *)
(* that each remainder has as many; the doubling keeps the threshold in    *)
(* the width, and throws away less than half of the values.                *)
Unbiased ==
    Asked =>
        /\ threshold % ask.mmod = 0
        /\ threshold > 0
        /\ ~ ToDouble => 2 * threshold >= Span[ask.width]

(* core-mwc.cpp, on mwc32modn and its three likes: "return 32 bit          *)
(* non-modulo biased value 1..max (inclusive)", "return 0 if mmod is 0".   *)
DrawAsSaid == got # NotYet /\ ask.mmod # 0 => got \in 1 .. ask.mmod
=============================================================================
