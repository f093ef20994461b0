---------------------------- MODULE VideoJobProofs ----------------------------
(***************************************************************************)
(* Proofs about VideoJob and the plans of SpeechTimelines, for every script,  *)
(* every length of audio and every value of the constants: both plans cover  *)
(* the audio, the parts of a video start where their windows of the audio    *)
(* do, what is spoken has a picture, and a job gets what it asked for or is  *)
(* told so.                                                                 *)
(*                                                                         *)
(* The plans are folds: each step is a lemma about one segment put after     *)
(* others, carried along the fold by FoldLemmas.  The parts of a video are   *)
(* a fold too, whose steps stay beside those of the plan.                    *)
(***************************************************************************)
EXTENDS VideoJobProps, FoldLemmas, FiniteSetTheorems, SequenceTheorems

-----------------------------------------------------------------------------
(* Where a word is spoken.                                                  *)

LEMMA LetterCounts ==
    ASSUME NEW w \in Words
    PROVE  Letters[w] \in Nat /\ Letters[w] >= 2 /\ (w = "phone" => Letters[w] = 5)
  BY DEF Letters, Words

\* The characters up to the end of each word.
LEMMA CharsRun ==
    ASSUME NEW text \in Seq(Words), NEW n \in Nat, Len(text) = n
    PROVE  \E f \in [0 .. n -> Int] :
              /\ f[0] = -1 /\ f[n] = Chars(text)
              /\ \A k \in 0 .. n - 1 : f[k + 1] = f[k] + Letters[text[k + 1]] + 1
<1>0. PICK D, base : D = Int /\ base = -1
  OBVIOUS
<1>1. DOMAIN text = 1 .. n
  OBVIOUS
<1>2. \A i \in 1 .. n : Letters[text[i]] \in Int
  BY <1>1, LetterCounts
<1> DEFINE F == [i \in 1 .. n |-> [x \in D |-> x + Letters[text[i]] + 1]]
           h == CHOOSE g : g = [t \in SUBSET (1 .. n) |->
                   IF t = {} THEN -1 ELSE g[t \ {Max(t)}] + Letters[text[Max(t)]] + 1]
<1>3. Chars(text) = h[1 .. n]
  BY <1>1 DEF Chars, FoldLeft, MapThenFoldSet
<1>4. F \in [1 .. n -> [D -> D]] /\ base \in D
  BY <1>0, <1>1, <1>2
<1>5. PICK g \in Folds(n, D, base, F) : TRUE
  <2> HIDE DEF F
  <2>. QED
    BY <1>4, FoldExists
<1>6. g = [t \in SUBSET (1 .. n) |->
            IF t = {} THEN -1 ELSE g[t \ {Max(t)}] + Letters[text[Max(t)]] + 1]
  <2>1. ASSUME NEW t \in SUBSET (1 .. n), t # {}
        PROVE  Max(t) \in 1 .. n /\ g[t \ {Max(t)}] \in D
    BY <2>1, MaxIn DEF Folds
  <2>. QED
    BY <1>0, <1>1, <2>1 DEF Folds
<1>7. h = [t \in SUBSET (1 .. n) |->
            IF t = {} THEN -1 ELSE h[t \ {Max(t)}] + Letters[text[Max(t)]] + 1]
  BY <1>6
<1> HIDE DEF h
<1>8. \A k \in 0 .. n - 1 : \A x \in D : F[k + 1][x] = x + Letters[text[k + 1]] + 1
  OBVIOUS
<1>9. Climbs(h, n, D, base, F)
  <2>1. h[{}] = base
    BY <1>0, <1>1, <1>7, {} \in SUBSET (1 .. n)
  <2>2. ASSUME NEW k \in 0 .. n - 1
        PROVE  h[1 .. k + 1] = h[1 .. k] + Letters[text[k + 1]] + 1
    <3>1. PICK t : /\ t = 1 .. k + 1 /\ t \in SUBSET (1 .. n) /\ t # {}
                   /\ Max(t) = k + 1 /\ t \ {k + 1} = 1 .. k
      BY FirstOnes
    <3>2. h[t] = h[t \ {Max(t)}] + Letters[text[Max(t)]] + 1
      BY <1>7, <3>1
    <3>. QED
      BY <3>1, <3>2
  <2>. QED
    BY <1>8, <2>1, <2>2 DEF Climbs
<1> HIDE DEF F
<1>10. PICK f \in Runs(n, D, base, F) : f[n] = h[1 .. n]
  <2>1. Reaches(n, D, base, F, h[1 .. n])
    BY <1>4, <1>9, FoldRun
  <2>. QED
    BY <2>1 DEF Reaches
<1>11. f \in [0 .. n -> Int] /\ f[0] = -1
  BY <1>0, <1>10 DEF Runs
<1>12. ASSUME NEW k \in 0 .. n - 1 PROVE f[k + 1] = f[k] + Letters[text[k + 1]] + 1
  <2>1. f[k + 1] = F[k + 1][f[k]] /\ f[k] \in D
    BY <1>0, <1>11 DEF Runs
  <2>. QED
    BY <1>8, <2>1
<1>. QED
  BY <1>1, <1>3, <1>10, <1>11, <1>12

\* The characters before a word are at least none, those up to its end no more
\* than the whole text has.
LEMMA CharsUpTo ==
    ASSUME NEW text \in Seq(Words), NEW i \in 1 .. Len(text)
    PROVE  /\ Chars(text) \in Int /\ Chars(SubSeq(text, 1, i - 1)) \in Int
           /\ Chars(SubSeq(text, 1, i - 1)) >= -1
           /\ Chars(SubSeq(text, 1, i - 1)) + Letters[text[i]] + 1 <= Chars(text)
<1>1. PICK n \in Nat : n = Len(text) /\ DOMAIN text = 1 .. n
  OBVIOUS
<1>2. PICK f \in [0 .. n -> Int] :
         /\ f[0] = -1 /\ f[n] = Chars(text)
         /\ \A k \in 0 .. n - 1 : f[k + 1] = f[k] + Letters[text[k + 1]] + 1
  BY <1>1, CharsRun
<1>3. PICK m \in Nat, part \in Seq(Words) :
         /\ m = i - 1 /\ part = SubSeq(text, 1, m) /\ Len(part) = m
         /\ \A k \in 1 .. m : part[k] = text[k]
  BY <1>1
<1>4. PICK e \in [0 .. m -> Int] :
         /\ e[0] = -1 /\ e[m] = Chars(part)
         /\ \A k \in 0 .. m - 1 : e[k + 1] = e[k] + Letters[part[k + 1]] + 1
  BY <1>3, CharsRun
<1>5. ASSUME NEW k \in 0 .. n - 1
      PROVE  Letters[text[k + 1]] \in Int /\ Letters[text[k + 1]] >= 2
  <2>1. k + 1 \in 1 .. n
    OBVIOUS
  <2>2. text[k + 1] \in Words
    BY <1>1, <2>1
  <2>. QED
    BY <2>2, LetterCounts
<1>6. e[m] = f[m]
  <2> DEFINE S == {k \in 0 .. m : e[k] = f[k]}
  <2>1. 0 \in S
    BY <1>2, <1>4
  <2>2. ASSUME NEW k \in 0 .. m - 1, k \in S PROVE k + 1 \in S
    <3>1. k + 1 \in 1 .. m /\ k \in 0 .. n - 1 /\ e[k] = f[k]
      BY <1>1, <1>3, <2>2
    <3>2. part[k + 1] = text[k + 1]
      BY <1>3, <3>1
    <3>3. e[k + 1] = e[k] + Letters[part[k + 1]] + 1
      BY <1>4
    <3>4. f[k + 1] = f[k] + Letters[text[k + 1]] + 1
      BY <1>2, <3>1
    <3>. QED
      BY <3>1, <3>2, <3>3, <3>4
  <2> HIDE DEF S
  <2>3. \A k \in 0 .. m : k \in S
    BY <2>1, <2>2, IndUpTo
  <2>. QED
    BY <2>3 DEF S
<1>7. f[m] >= -1
  <2> DEFINE S == {k \in 0 .. n : f[k] >= -1}
  <2>1. 0 \in S
    BY <1>2
  <2>2. ASSUME NEW k \in 0 .. n - 1, k \in S PROVE k + 1 \in S
    <3>1. /\ f[k + 1] = f[k] + Letters[text[k + 1]] + 1
          /\ Letters[text[k + 1]] \in Int /\ Letters[text[k + 1]] >= 2
          /\ f[k] \in Int /\ f[k] >= -1 /\ f[k + 1] \in Int
      BY <1>2, <1>5, <2>2
    <3>2. \A a, b \in Int : a >= -1 /\ b >= 2 => a + b + 1 >= -1
      OBVIOUS
    <3>3. f[k + 1] >= -1
      BY <3>1, <3>2
    <3>. QED
      BY <3>3
  <2> HIDE DEF S
  <2>3. \A k \in 0 .. n : k \in S
    BY <2>1, <2>2, IndUpTo
  <2>. QED
    BY <1>1, <1>3, <2>3 DEF S
<1>8. f[m + 1] <= f[n]
  <2> DEFINE S == {k \in 0 .. n : f[n - k] <= f[n]}
  <2>1. 0 \in S
    BY <1>2
  <2>2. ASSUME NEW k \in 0 .. n - 1, k \in S PROVE k + 1 \in S
    <3>1. PICK l \in 0 .. n - 1 : l = n - (k + 1) /\ n - k = l + 1
      OBVIOUS
    <3>2. f[l + 1] = f[l] + Letters[text[l + 1]] + 1 /\ f[l + 1] <= f[n]
      BY <1>2, <2>2, <3>1
    <3>3. Letters[text[l + 1]] \in Int /\ Letters[text[l + 1]] >= 2
      BY <1>5
    <3>4. PICK x \in Int, y \in Int, z \in Int :
             f[l] = x /\ f[n] = y /\ Letters[text[l + 1]] = z /\ z >= 2
      <4>1. f[l] \in Int /\ f[n] \in Int
        BY <1>2
      <4>. QED
        BY <3>3, <4>1
    <3>5. x + z + 1 <= y
      BY <3>2, <3>4
    <3>6. x <= y
      BY <3>4, <3>5
    <3>. QED
      BY <3>1, <3>4, <3>6
  <2> HIDE DEF S
  <2>3. \A k \in 0 .. n : k \in S
    BY <2>1, <2>2, IndUpTo
  <2>4. n - i \in 0 .. n /\ n - (n - i) = m + 1
    BY <1>1, <1>3
  <2>. QED
    BY <2>3, <2>4 DEF S
<1>9. m \in 0 .. n - 1 /\ m + 1 = i
  BY <1>1, <1>3
<1>10. f[m + 1] = f[m] + Letters[text[i]] + 1
  BY <1>2, <1>9
<1>. QED
  BY <1>2, <1>3, <1>4, <1>6, <1>7, <1>8, <1>9, <1>10

\* Every place a word is found at is inside the text.
LEMMA OffsetsInside ==
    ASSUME NEW text \in Seq(Words), NEW word, NEW o \in Offsets(text, word)
    PROVE  o \in Nat /\ Chars(text) \in Nat /\ o < Chars(text)
<1>1. PICK i \in DOMAIN text : \E k \in Inside(word, text[i]) :
         o = Chars(SubSeq(text, 1, i - 1)) + 1 + k
  BY DEF Offsets
<1>2. i \in 1 .. Len(text) /\ text[i] \in Words
  OBVIOUS
<1>3. \A k \in Inside(word, text[i]) : /\ k \in Nat /\ Letters[text[i]] \in Int
                                        /\ k < Letters[text[i]]
  BY <1>2, LetterCounts DEF Inside
<1>4. PICK k \in Nat : /\ o = Chars(SubSeq(text, 1, i - 1)) + 1 + k
                       /\ Letters[text[i]] \in Int /\ k < Letters[text[i]]
  BY <1>1, <1>3
<1>. QED
  BY <1>2, <1>4, CharsUpTo

\* A share of the audio is no more than the audio.
LEMMA ShareOf ==
    ASSUME NEW d \in Nat, NEW o \in Nat, NEW c \in Nat, o < c
    PROVE  (d * o) \div c \in 0 .. d
<1>1. d * o \in Nat /\ d * o <= d * c
  OBVIOUS
<1>. QED
  BY <1>1

LEMMA AnchorInside ==
    ASSUME NEW text \in Seq(Words), NEW word, NEW d \in Nat, NEW missing \in 0 .. d
    PROVE  AnchorTime(text, word, d, missing) \in 0 .. d
<1>1. CASE Offsets(text, word) = {}
  BY <1>1 DEF AnchorTime
<1>2. CASE Offsets(text, word) # {}
  <2>1. Offsets(text, word) \in SUBSET Nat
    BY OffsetsInside
  <2>2. Min(Offsets(text, word)) \in Offsets(text, word)
    BY <1>2, <2>1, MinNat
  <2>3. PICK o \in Nat, c \in Nat : o = Min(Offsets(text, word)) /\ c = Chars(text) /\ o < c
    BY <2>2, OffsetsInside
  <2>. QED
    BY <1>2, <2>3, ShareOf DEF AnchorTime
<1>. QED
  BY <1>1, <1>2

-----------------------------------------------------------------------------
(* The intents of a script.                                                 *)

IntentsOf(Does) == [does : Does, word : Words \cup {"neutral"}]

\* n rules, each from words to those Does.
RulesOf(Does, rules, n) ==
    DOMAIN rules = 1 .. n /\ \A i \in 1 .. n : \A w \in DOMAIN rules[i] : rules[i][w] \in Does

LEMMA AddIntentType ==
    ASSUME NEW text \in Seq(Words), NEW Does, NEW rule,
           \A w \in DOMAIN rule : rule[w] \in Does,
           NEW found \in Seq(IntentsOf(Does))
    PROVE  AddIntent(found, rule, text) \in Seq(IntentsOf(Does))
<1> DEFINE I == {i \in 1 .. Len(text) : text[i] \in DOMAIN rule}
           i == IF I # {} THEN Min(I) ELSE 0
<1>1. AddIntent(found, rule, text) =
        IF i = 0 \/ \E k \in DOMAIN found : found[k].word = text[i] THEN found
        ELSE Append(found, [does |-> rule[text[i]], word |-> text[i]])
  BY DEF AddIntent, SelectInSeq
<1>2. i = 0 \/ i \in I
  <2>1. I \in SUBSET Nat
    OBVIOUS
  <2> HIDE DEF I
  <2>. QED
    BY <2>1, MinNat
<1>3. i # 0 => text[i] \in Words /\ rule[text[i]] \in Does
  <2> HIDE DEF i
  <2>. QED
    BY <1>2
<1> HIDE DEF i
<1>4. i # 0 => [does |-> rule[text[i]], word |-> text[i]] \in IntentsOf(Does)
  BY <1>3 DEF IntentsOf
<1>. QED
  BY <1>1, <1>4

LEMMA FoundRun ==
    ASSUME NEW text \in Seq(Words), NEW Does, NEW rules, NEW n \in Nat,
           RulesOf(Does, rules, n)
    PROVE  \E f \in [0 .. n -> Seq(IntentsOf(Does))] :
              /\ f[0] = <<>> /\ f[n] = Found(text, rules)
              /\ \A k \in 0 .. n - 1 : f[k + 1] = AddIntent(f[k], rules[k + 1], text)
<1>0. PICK D, base : D = Seq(IntentsOf(Does)) /\ base = <<>>
  OBVIOUS
<1> DEFINE F == [i \in 1 .. n |-> [x \in D |-> AddIntent(x, rules[i], text)]]
           h == CHOOSE g : g = [t \in SUBSET (1 .. n) |->
                   IF t = {} THEN <<>> ELSE AddIntent(g[t \ {Max(t)}], rules[Max(t)], text)]
<1>3. Found(text, rules) = h[1 .. n]
  BY DEF RulesOf, Found, FoldLeft, MapThenFoldSet
<1>1. ASSUME NEW i \in 1 .. n, NEW x \in D
      PROVE  AddIntent(x, rules[i], text) \in D
  BY <1>0, AddIntentType DEF RulesOf
<1>2. base \in D
  BY <1>0
<1>4. F \in [1 .. n -> [D -> D]] /\ base \in D
  BY <1>1, <1>2
<1>5. PICK g \in Folds(n, D, base, F) : TRUE
  <2> HIDE DEF F
  <2>. QED
    BY <1>4, FoldExists
<1>6. g = [t \in SUBSET (1 .. n) |->
            IF t = {} THEN <<>> ELSE AddIntent(g[t \ {Max(t)}], rules[Max(t)], text)]
  <2>1. ASSUME NEW t \in SUBSET (1 .. n), t # {}
        PROVE  Max(t) \in 1 .. n /\ g[t \ {Max(t)}] \in D
    BY <2>1, MaxIn DEF Folds
  <2>. QED
    BY <1>0, <2>1 DEF Folds
<1>7. h = [t \in SUBSET (1 .. n) |->
            IF t = {} THEN <<>> ELSE AddIntent(h[t \ {Max(t)}], rules[Max(t)], text)]
  BY <1>6
<1> HIDE DEF h
<1>8. \A k \in 0 .. n - 1 : \A x \in D : F[k + 1][x] = AddIntent(x, rules[k + 1], text)
  OBVIOUS
<1>9. Climbs(h, n, D, base, F)
  <2>1. h[{}] = base
    BY <1>0, <1>7, {} \in SUBSET (1 .. n)
  <2>2. ASSUME NEW k \in 0 .. n - 1
        PROVE  h[1 .. k + 1] = AddIntent(h[1 .. k], rules[k + 1], text)
    <3>1. PICK t : /\ t = 1 .. k + 1 /\ t \in SUBSET (1 .. n) /\ t # {}
                   /\ Max(t) = k + 1 /\ t \ {k + 1} = 1 .. k
      BY FirstOnes
    <3>2. h[t] = AddIntent(h[t \ {Max(t)}], rules[Max(t)], text)
      BY <1>7, <3>1
    <3>. QED
      BY <3>1, <3>2
  <2>. QED
    BY <1>8, <2>1, <2>2 DEF Climbs
<1> HIDE DEF F
<1>10. PICK f \in Runs(n, D, base, F) : f[n] = h[1 .. n]
  <2>1. Reaches(n, D, base, F, h[1 .. n])
    BY <1>4, <1>9, FoldRun
  <2>. QED
    BY <2>1 DEF Reaches
<1>11. f \in [0 .. n -> D] /\ f[0] = <<>>
  BY <1>0, <1>10 DEF Runs
<1>12. ASSUME NEW k \in 0 .. n - 1 PROVE f[k + 1] = AddIntent(f[k], rules[k + 1], text)
  <2>1. f[k + 1] = F[k + 1][f[k]] /\ f[k] \in D
    BY <1>11 DEF Runs
  <2>. QED
    BY <1>8, <2>1
<1>. QED
  BY <1>0, <1>3, <1>10, <1>11, <1>12

LEMMA IntentsType ==
    ASSUME NEW text \in Seq(Words), NEW Does, NEW rules, NEW n \in Nat,
           RulesOf(Does, rules, n), NEW rest \in Does, NEW most \in Nat \ {0}
    PROVE  /\ Intents(text, rules, rest, most) \in Seq(IntentsOf(Does))
           /\ Intents(text, rules, rest, most) # <<>>
<1> DEFINE found == Found(text, rules)
           one   == [does |-> rest, word |-> IF text = <<>> THEN "neutral" ELSE text[1]]
<1>1. found \in Seq(IntentsOf(Does))
  <2>1. PICK f \in [0 .. n -> Seq(IntentsOf(Does))] : f[n] = Found(text, rules)
    BY FoundRun
  <2>. QED
    BY <2>1
<1>2. Intents(text, rules, rest, most) =
        IF found # <<>> THEN SubSeq(found, 1, Min({most, Len(found)})) ELSE <<one>>
  BY DEF Intents
<1>3. one \in IntentsOf(Does)
  BY DEF IntentsOf
<1> HIDE DEF found, one
<1>4. CASE found = <<>>
  BY <1>2, <1>3, <1>4
<1>5. CASE found # <<>>
  <2>1. Len(found) \in Nat \ {0} /\ Min({most, Len(found)}) \in 1 .. Len(found)
    BY <1>1, <1>5, MinOfTwo
  <2>2. PICK m \in 1 .. Len(found) : m = Min({most, Len(found)})
    BY <2>1
  <2>3. SubSeq(found, 1, m) \in Seq(IntentsOf(Does)) /\ Len(SubSeq(found, 1, m)) = m
    BY <1>1
  <2>4. SubSeq(found, 1, m) # <<>>
    BY <2>3
  <2>. QED
    BY <1>2, <1>5, <2>2, <2>3, <2>4
<1>. QED
  BY <1>4, <1>5

LEMMA GestureIntentsType ==
    ASSUME NEW text \in Seq(Words)
    PROVE  GestureIntents(text) \in Seq(IntentsOf(Gestures)) /\ GestureIntents(text) # <<>>
<1>1. RulesOf(Gestures, GestureRules, 6)
  BY DEF RulesOf, GestureRules, Gestures, GestureMs
<1>2. "idle_small" \in Gestures
  BY DEF Gestures, GestureMs
<1>. QED
  BY <1>1, <1>2, IntentsType DEF GestureIntents

LEMMA FaceIntentsType ==
    ASSUME NEW text \in Seq(Words)
    PROVE  FaceIntents(text) \in Seq(IntentsOf(Motions)) /\ FaceIntents(text) # <<>>
<1>1. RulesOf(Motions, FaceRules, 5)
  BY DEF RulesOf, FaceRules, Motions, FaceMs
<1>2. "face_idle_soft" \in Motions
  BY DEF Motions, FaceMs
<1>. QED
  BY <1>1, <1>2, IntentsType DEF FaceIntents

-----------------------------------------------------------------------------
(* The order of the intents: each has a place of its own.                   *)

\* n numbered times.
Numbered(n, time) == {<<time[i], i>> : i \in 1 .. n}

LEMMA PlacesDiffer ==
    ASSUME NEW n \in Nat, NEW time \in [1 .. n -> Nat]
    PROVE  LET spoken == Numbered(n, time) IN
           /\ \A p \in spoken : Place(spoken, p) \in 1 .. n
           /\ \A p, q \in spoken : Place(spoken, p) = Place(spoken, q) => p = q
           /\ \A k \in 1 .. n : \E p \in spoken : Place(spoken, p) = k
<1>0. PICK spoken : spoken = Numbered(n, time)
  OBVIOUS
<1> DEFINE pair == [i \in 1 .. n |-> <<time[i], i>>]
           Upto(p) == {q \in spoken : NoLater(q, p)}
           at == [i \in 1 .. n |-> Place(spoken, pair[i])]
<1>1. pair \in Surjection(1 .. n, spoken)
  BY <1>0 DEF Surjection, Numbered
<1>2. IsFiniteSet(1 .. n) /\ Cardinality(1 .. n) = n
  BY FS_Interval
<1>3. IsFiniteSet(spoken) /\ Cardinality(spoken) <= n
  <2> HIDE DEF pair
  <2>. QED
    BY <1>1, <1>2, FS_Surjection
<1>4. ASSUME NEW p \in spoken
      PROVE  /\ IsFiniteSet(Upto(p)) /\ Upto(p) \in SUBSET spoken /\ p \in Upto(p)
             /\ Place(spoken, p) = Cardinality(Upto(p)) /\ Place(spoken, p) \in 1 .. n
  <2>1. Upto(p) \in SUBSET spoken /\ p \in Upto(p)
    BY <1>0 DEF NoLater, Numbered
  <2>2. Place(spoken, p) = Cardinality(Upto(p))
    BY DEF Place
  <2> HIDE DEF Upto
  <2>3. IsFiniteSet(Upto(p)) /\ Cardinality(Upto(p)) <= Cardinality(spoken)
    BY <1>3, <2>1, FS_Subset
  <2>4. Cardinality(Upto(p)) \in Nat /\ Cardinality(Upto(p)) # 0
    BY <2>1, <2>3, FS_CardinalityType, FS_EmptySet
  <2>5. Cardinality(spoken) \in Nat
    BY <1>3, FS_CardinalityType
  <2>. QED
    BY <1>3, <2>1, <2>2, <2>3, <2>4, <2>5
<1>5. ASSUME NEW p \in spoken, NEW q \in spoken, p # q, NoLater(p, q)
      PROVE  Place(spoken, p) # Place(spoken, q)
  <2>1. PICK i \in 1 .. n, j \in 1 .. n : p = <<time[i], i>> /\ q = <<time[j], j>>
    BY <1>0 DEF Numbered
  <2>2. i # j /\ time[i] \in Nat /\ time[j] \in Nat
    BY <1>5, <2>1
  <2>3. time[i] < time[j] \/ (time[i] = time[j] /\ i < j)
    BY <1>5, <2>1, <2>2 DEF NoLater
  <2>a. q \notin Upto(p) /\ q \in Upto(q)
    BY <2>1, <2>2, <2>3 DEF NoLater
  <2>b. ASSUME NEW r \in Upto(p) PROVE r \in Upto(q)
    <3>1. PICK k \in 1 .. n : r = <<time[k], k>>
      BY <1>0 DEF Numbered
    <3>2. time[k] \in Nat /\ (time[k] < time[i] \/ (time[k] = time[i] /\ k <= i))
      BY <2>1, <3>1 DEF NoLater
    <3>3. time[k] < time[j] \/ (time[k] = time[j] /\ k <= j)
      BY <2>2, <2>3, <3>2
    <3>. QED
      BY <2>1, <3>1, <3>3 DEF NoLater
  <2>4. Upto(p) \in SUBSET Upto(q) /\ q \notin Upto(p) /\ q \in Upto(q)
    BY <2>a, <2>b
  <2>5. Upto(p) # Upto(q)
    BY <2>4
  <2>6. Cardinality(Upto(p)) # Cardinality(Upto(q))
    <3> HIDE DEF Upto
    <3>. QED
      BY <1>4, <2>4, <2>5, FS_Subset
  <2>. QED
    BY <1>4, <2>6
<1>6. ASSUME NEW p \in spoken, NEW q \in spoken, Place(spoken, p) = Place(spoken, q)
      PROVE  p = q
  <2>1. NoLater(p, q) \/ NoLater(q, p)
    BY <1>0 DEF NoLater, Numbered
  <2>. QED
    BY <1>5, <1>6, <2>1
<1>7. at \in Injection(1 .. n, 1 .. n)
  <2>1. \A i \in 1 .. n : pair[i] \in spoken /\ at[i] = Place(spoken, pair[i])
    BY <1>0 DEF Numbered
  <2>2. \A i, j \in 1 .. n : pair[i] = pair[j] => i = j
    OBVIOUS
  <2>3. at \in [1 .. n -> 1 .. n]
    BY <1>4, <2>1
  <2> HIDE DEF pair, at
  <2>4. ASSUME NEW i \in 1 .. n, NEW j \in 1 .. n, at[i] = at[j] PROVE i = j
    BY <1>6, <2>1, <2>2, <2>4
  <2>. QED
    BY <2>3, <2>4 DEF Injection, IsInjective
<1>8. at \in Surjection(1 .. n, 1 .. n)
  <2> HIDE DEF at
  <2>. QED
    BY <1>2, <1>7, FS_Injection
<1>9. ASSUME NEW k \in 1 .. n PROVE \E p \in spoken : Place(spoken, p) = k
  <2>1. PICK i \in 1 .. n : at[i] = k
    BY <1>8 DEF Surjection
  <2>. QED
    BY <1>0, <2>1 DEF Numbered
<1>. QED
  BY <1>0, <1>4, <1>6, <1>9

\* Put in order the intents are the same ones.
LEMMA InOrderPermutes ==
    ASSUME NEW text \in Seq(Words), NEW Does, NEW intents \in Seq(IntentsOf(Does)),
           NEW d \in Nat, NEW missing \in 0 .. d
    PROVE  /\ InOrder(intents, text, d, missing) \in Seq(IntentsOf(Does))
           /\ Len(InOrder(intents, text, d, missing)) = Len(intents)
           /\ \A k \in DOMAIN intents : \E i \in DOMAIN intents :
                 InOrder(intents, text, d, missing)[i] = intents[k]
<1>0. PICK n \in Nat : Len(intents) = n /\ DOMAIN intents = 1 .. n
  OBVIOUS
<1> DEFINE time == [i \in 1 .. n |-> AnchorTime(text, intents[i].word, d, missing)]
           spoken == Numbered(n, time)
           which == [k \in 1 .. n |-> (CHOOSE p \in spoken : Place(spoken, p) = k)[2]]
<1>1. DOMAIN intents = 1 .. n /\ \A i \in 1 .. n : intents[i] \in IntentsOf(Does)
  BY <1>0
<1>2. time \in [1 .. n -> Nat]
  <2>1. \A i \in 1 .. n : AnchorTime(text, intents[i].word, d, missing) \in 0 .. d
    BY AnchorInside
  <2>. QED
    BY <2>1
<1>3. InOrder(intents, text, d, missing) = [k \in 1 .. n |-> intents[which[k]]]
  <2>1. spoken = Spoken(intents, text, d, missing)
    BY <1>1 DEF Spoken, Numbered
  <2> HIDE DEF spoken
  <2>. QED
    BY <1>1, <2>1 DEF InOrder
<1>4. /\ \A p \in spoken : Place(spoken, p) \in 1 .. n
      /\ \A p, q \in spoken : Place(spoken, p) = Place(spoken, q) => p = q
      /\ \A k \in 1 .. n : \E p \in spoken : Place(spoken, p) = k
  <2> HIDE DEF time
  <2>. QED
    BY <1>2, PlacesDiffer
<1>5. ASSUME NEW k \in 1 .. n
      PROVE  /\ which[k] \in 1 .. n
             /\ Place(spoken, <<time[which[k]], which[k]>>) = k
  <2> DEFINE p == CHOOSE p \in spoken : Place(spoken, p) = k
  <2>1. p \in spoken /\ Place(spoken, p) = k
    <3> HIDE DEF spoken
    <3>. QED
      BY <1>4
  <2>2. which[k] = p[2]
    OBVIOUS
  <2> HIDE DEF p, which, time
  <2>3. PICK i \in 1 .. n : p = <<time[i], i>>
    BY <2>1 DEF Numbered
  <2>. QED
    BY <2>1, <2>2, <2>3
<1>6. ASSUME NEW k \in 1 .. n PROVE \E i \in 1 .. n : which[i] = k
  <2> DEFINE p == <<time[k], k>>
  <2>1. p \in spoken
    BY DEF Numbered
  <2> HIDE DEF time, which, spoken
  <2>2. PICK i \in 1 .. n : Place(spoken, p) = i
    BY <1>4, <2>1
  <2>3. which[i] \in 1 .. n /\ Place(spoken, <<time[which[i]], which[i]>>) = Place(spoken, p)
    BY <1>5, <2>2
  <2>4. <<time[which[i]], which[i]>> \in spoken
    BY <2>3 DEF Numbered, spoken
  <2>5. <<time[which[i]], which[i]>> = p
    BY <1>4, <2>1, <2>3, <2>4
  <2>. QED
    BY <2>5
<1> HIDE DEF which
<1>7. ASSUME NEW k \in 1 .. n
      PROVE  \E i \in 1 .. n : InOrder(intents, text, d, missing)[i] = intents[k]
  <2>1. PICK i \in 1 .. n : which[i] = k
    BY <1>6
  <2>. QED
    BY <1>3, <2>1
<1>8. \A k \in 1 .. n : intents[which[k]] \in IntentsOf(Does)
  BY <1>1, <1>5
<1>9. \A k \in DOMAIN intents : \E i \in DOMAIN intents :
         InOrder(intents, text, d, missing)[i] = intents[k]
  BY <1>1, <1>7
<1>10. Len(InOrder(intents, text, d, missing)) = Len(intents)
  BY <1>0, <1>3
<1>. QED
  BY <1>3, <1>8, <1>9, <1>10

-----------------------------------------------------------------------------
(* Segments laid one after the other.                                       *)

Segs(G) == [start : Nat, end : Nat, does : G]

\* Inside the audio, one after the other, at most a millisecond open before
\* each; only at the end of the audio is a segment left without length.
Laid(segs, d) ==
    \A i \in DOMAIN segs :
        /\ segs[i].start <= segs[i].end /\ segs[i].end <= d
        /\ segs[i].start < segs[i].end \/ segs[i].end = d
        /\ segs[i].start - (IF i = 1 THEN 0 ELSE segs[i - 1].end) \in {0, 1}

Lays(G, d) == {segs \in Seq(Segs(G)) : Laid(segs, d)}

Doing(segs) == {segs[i].does : i \in DOMAIN segs}

\* A segment that may be put after the others.
Fits(seg, after, d) ==
    /\ after <= seg.start /\ seg.start <= seg.end /\ seg.end <= d
    /\ seg.start < seg.end \/ seg.end = d

LEMMA EndOfLaid ==
    ASSUME NEW d \in Nat, NEW G, NEW segs \in Lays(G, d)
    PROVE  /\ EndOf(segs) \in 0 .. d
           /\ segs # <<>> => EndOf(segs) = segs[Len(segs)].end /\ Len(segs) \in DOMAIN segs
<1>1. CASE segs = <<>>
  BY <1>1 DEF EndOf
<1>2. CASE segs # <<>>
  <2>1. Len(segs) \in DOMAIN segs /\ segs \in Seq(Segs(G)) /\ Laid(segs, d)
    BY <1>2 DEF Lays
  <2>2. segs[Len(segs)] \in Segs(G) /\ EndOf(segs) = segs[Len(segs)].end
    BY <1>2, <2>1 DEF EndOf, Last
  <2>. QED
    BY <2>1, <2>2 DEF Segs, Laid
<1>. QED
  BY <1>1, <1>2

LEMMA AppendLaid ==
    ASSUME NEW d \in Nat, NEW G, NEW segs \in Lays(G, d), NEW seg \in Segs(G),
           Fits(seg, EndOf(segs), d), seg.start <= EndOf(segs) + 1
    PROVE  /\ Append(segs, seg) \in Lays(G, d) /\ Append(segs, seg) # <<>>
           /\ EndOf(Append(segs, seg)) = seg.end
           /\ Doing(segs) \subseteq Doing(Append(segs, seg))
           /\ seg.does \in Doing(Append(segs, seg))
<1>1. PICK n \in Nat : n = Len(segs) /\ DOMAIN segs = 1 .. n
  BY DEF Lays
<1>2. PICK next : next = Append(segs, seg)
  OBVIOUS
<1>3. /\ next \in Seq(Segs(G)) /\ Len(next) = n + 1 /\ DOMAIN next = 1 .. n + 1
      /\ next[n + 1] = seg /\ \A i \in 1 .. n : next[i] = segs[i]
  BY <1>1, <1>2 DEF Lays
<1>4. seg.start \in Nat /\ EndOf(segs) \in Nat /\ seg.start - EndOf(segs) \in {0, 1}
  BY EndOfLaid DEF Fits, Segs
<1>5. ASSUME NEW i \in 1 .. n + 1
      PROVE  /\ next[i].start <= next[i].end /\ next[i].end <= d
             /\ next[i].start < next[i].end \/ next[i].end = d
             /\ next[i].start - (IF i = 1 THEN 0 ELSE next[i - 1].end) \in {0, 1}
  <2>1. CASE i \in 1 .. n
    <3>1. next[i] = segs[i] /\ (i # 1 => next[i - 1] = segs[i - 1])
      BY <1>3, <2>1
    <3>. QED
      BY <1>1, <2>1, <3>1 DEF Lays, Laid
  <2>2. CASE i = n + 1
    <3>1. next[i] = seg /\ (i # 1 => n \in 1 .. n /\ i - 1 = n /\ next[i - 1] = segs[n])
      BY <1>3, <2>2
    <3>2. EndOf(segs) = IF i = 1 THEN 0 ELSE next[i - 1].end
      BY <1>1, <2>2, <3>1 DEF EndOf, Last
    <3>. QED
      BY <1>4, <3>1, <3>2 DEF Fits
  <2>. QED
    BY <2>1, <2>2
<1>6. next \in Lays(G, d)
  BY <1>3, <1>5 DEF Lays, Laid
<1>7. next # <<>> /\ EndOf(next) = seg.end
  BY <1>3 DEF EndOf, Last
<1>8. seg.does \in Doing(next)
  BY <1>3 DEF Doing
<1>9. Doing(segs) \subseteq Doing(next)
  BY <1>1, <1>3 DEF Doing
<1>. QED
  BY <1>2, <1>6, <1>7, <1>8, <1>9

LEMMA PutLaid ==
    ASSUME NEW d \in Nat, NEW G, NEW segs \in Lays(G, d), NEW seg \in Segs(G), NEW rest \in G,
           Fits(seg, EndOf(segs), d)
    PROVE  /\ Put(segs, seg, rest) \in Lays(G, d) /\ Put(segs, seg, rest) # <<>>
           /\ Doing(segs) \subseteq Doing(Put(segs, seg, rest))
           /\ seg.does \in Doing(Put(segs, seg, rest))
<1>1. CASE seg.start <= EndOf(segs) + 1
  <2>1. Put(segs, seg, rest) = Append(segs, seg)
    BY <1>1 DEF Put
  <2>. QED
    BY <1>1, <2>1, AppendLaid
<1>2. CASE ~(seg.start <= EndOf(segs) + 1)
  <2>1. PICK pause : pause = [start |-> EndOf(segs), end |-> seg.start, does |-> rest]
    OBVIOUS
  <2>2. EndOf(segs) \in Nat /\ seg.start \in Nat /\ seg.end \in Nat
    BY EndOfLaid DEF Segs
  <2>3. /\ pause \in Segs(G) /\ pause.start = EndOf(segs) /\ pause.end = seg.start
        /\ pause.start < pause.end /\ pause.end <= d
    BY <1>2, <2>1, <2>2 DEF Segs, Fits
  <2>4. Fits(pause, EndOf(segs), d) /\ pause.start <= EndOf(segs) + 1
    BY <2>2, <2>3 DEF Fits
  <2>5. PICK mid : mid = Append(segs, pause)
    OBVIOUS
  <2>6. /\ mid \in Lays(G, d) /\ EndOf(mid) = seg.start
        /\ Doing(segs) \subseteq Doing(mid)
    BY <2>3, <2>4, <2>5, AppendLaid
  <2>7. Fits(seg, EndOf(mid), d) /\ seg.start <= EndOf(mid) + 1
    BY <2>2, <2>6 DEF Fits
  <2>8. Put(segs, seg, rest) = Append(mid, seg)
    <3>1. segs \in Seq(Segs(G))
      BY DEF Lays
    <3>2. segs \o <<pause, seg>> = Append(Append(segs, pause), seg)
      BY <2>3, <3>1
    <3>. QED
      BY <1>2, <2>1, <2>5, <3>2 DEF Put
  <2>. QED
    BY <2>6, <2>7, <2>8, AppendLaid
<1>. QED
  BY <1>1, <1>2

LEMMA PutTailLaid ==
    ASSUME NEW d \in Nat, NEW G, NEW segs \in Lays(G, d), segs # <<>>, NEW rest \in G,
           NEW little \in {0, 1}
    PROVE  /\ PutTail(segs, d, rest, little) \in Lays(G, d)
           /\ PutTail(segs, d, rest, little) # <<>>
           /\ d - Last(PutTail(segs, d, rest, little)).end \in {0, 1}
           /\ Doing(segs) \subseteq Doing(PutTail(segs, d, rest, little))
<1>1. EndOf(segs) \in 0 .. d
  BY EndOfLaid
<1>2. CASE d <= EndOf(segs) + little
  <2>1. PutTail(segs, d, rest, little) = segs
    BY <1>2 DEF PutTail
  <2>2. d - EndOf(segs) \in {0, 1}
    BY <1>1, <1>2
  <2>. QED
    BY <2>1, <2>2 DEF EndOf
<1>3. CASE ~(d <= EndOf(segs) + little)
  <2>1. PICK tail : tail = [start |-> EndOf(segs), end |-> d, does |-> rest]
    OBVIOUS
  <2>2. tail \in Segs(G) /\ Fits(tail, EndOf(segs), d) /\ tail.start <= EndOf(segs) + 1
    BY <1>1, <1>3, <2>1 DEF Segs, Fits
  <2>3. PutTail(segs, d, rest, little) = Append(segs, tail)
    BY <1>3, <2>1 DEF PutTail
  <2>4. /\ Append(segs, tail) \in Lays(G, d) /\ Append(segs, tail) # <<>>
        /\ EndOf(Append(segs, tail)) = d /\ Doing(segs) \subseteq Doing(Append(segs, tail))
    BY <2>1, <2>2, AppendLaid
  <2>5. d - Last(Append(segs, tail)).end \in {0, 1}
    BY <2>4 DEF EndOf
  <2>. QED
    BY <2>3, <2>4, <2>5
<1>. QED
  BY <1>2, <1>3

-----------------------------------------------------------------------------
(* The timelines of the body and of the face.                               *)

LEMMA GestureMsType == \A g \in Gestures : GestureMs[g] \in Nat /\ GestureMs[g] >= 1
  BY DEF Gestures, GestureMs

LEMMA FaceMsType == \A g \in Motions : FaceMs[g] \in Nat /\ FaceMs[g] >= 1
  BY DEF Motions, FaceMs

LEMMA GestureFits ==
    ASSUME NEW text \in Seq(Words), NEW intent \in IntentsOf(Gestures), NEW d \in Nat,
           NEW after \in 0 .. d
    PROVE  /\ GestureSegment(after, intent, text, d) \in Segs(Gestures)
           /\ Fits(GestureSegment(after, intent, text, d), after, d)
           /\ GestureSegment(after, intent, text, d).does = intent.does
<1>1. PICK ms \in Nat : ms = GestureMs[intent.does] /\ ms >= 1
  BY GestureMsType DEF IntentsOf
<1>2. PICK word \in 0 .. d : word = AnchorTime(text, intent.word, d, d \div 2)
  BY d \div 2 \in 0 .. d, AnchorInside
<1>3. PICK lead \in Nat : lead = (22 * ms) \div 100
  OBVIOUS
<1>4. PICK start \in Nat : /\ start = Max({after, word - lead})
                           /\ after <= start /\ start <= d
  BY MaxOfTwo
<1>5. PICK back \in Nat : back = Max({after, d - ms}) /\ after <= back /\ back <= d
  BY MaxOfTwo
<1>6. GestureSegment(after, intent, text, d) =
        IF start + ms <= d THEN [start |-> start, end |-> start + ms, does |-> intent.does]
        ELSE [start |-> back, end |-> d, does |-> intent.does]
  BY <1>1, <1>2, <1>3, <1>4, <1>5 DEF GestureSegment
<1>7. intent.does \in Gestures
  BY DEF IntentsOf
<1>. QED
  BY <1>1, <1>4, <1>5, <1>6, <1>7 DEF Segs, Fits

LEMMA MotionFits ==
    ASSUME NEW text \in Seq(Words), NEW intent \in IntentsOf(Motions), NEW d \in Nat,
           NEW after \in 0 .. d
    PROVE  /\ MotionSegment(after, intent, text, d) \in Segs(Motions)
           /\ Fits(MotionSegment(after, intent, text, d), after, d)
           /\ MotionSegment(after, intent, text, d).does = intent.does
<1>1. PICK ms \in Nat : ms = FaceMs[intent.does] /\ ms >= 1
  BY FaceMsType DEF IntentsOf
<1>2. PICK word \in 0 .. d : word = AnchorTime(text, intent.word, d, 0)
  BY AnchorInside
<1>3. PICK lead \in Nat : lead = Max({100, Min({450, ms \div 4})})
  <2>1. PICK q \in Nat : q = ms \div 4
    OBVIOUS
  <2>2. PICK m \in Nat : m = Min({450, q})
    BY MinOfTwo
  <2>3. Max({100, m}) \in Nat
    BY MaxOfTwo
  <2>. QED
    BY <2>1, <2>2, <2>3
<1>4. PICK start \in Nat : /\ start = Max({after, word - lead})
                           /\ after <= start /\ start <= d
  BY MaxOfTwo
<1>5. PICK end \in Nat : /\ end = Min({d, start + ms}) /\ start <= end /\ end <= d
                         /\ start < end \/ end = d
  <2>1. PICK full \in Nat : full = start + ms
    OBVIOUS
  <2>2. Min({d, full}) = IF d <= full THEN d ELSE full
    BY MinOfTwo
  <2>. QED
    BY <1>1, <1>4, <2>1, <2>2
<1>6. MotionSegment(after, intent, text, d)
        = [start |-> start, end |-> end, does |-> intent.does]
  BY <1>1, <1>2, <1>3, <1>4, <1>5 DEF MotionSegment
<1>7. intent.does \in Motions
  BY DEF IntentsOf
<1>. QED
  BY <1>4, <1>5, <1>6, <1>7 DEF Segs, Fits

LEMMA AddGestureLaid ==
    ASSUME NEW text \in Seq(Words), NEW intent \in IntentsOf(Gestures), NEW d \in Nat,
           NEW segs \in Lays(Gestures, d)
    PROVE  /\ AddGesture(segs, intent, text, d) \in Lays(Gestures, d)
           /\ AddGesture(segs, intent, text, d) # <<>>
           /\ Doing(segs) \subseteq Doing(AddGesture(segs, intent, text, d))
           /\ intent.does \in Doing(AddGesture(segs, intent, text, d))
<1>1. PICK after \in 0 .. d : after = EndOf(segs)
  BY EndOfLaid
<1>2. PICK seg \in Segs(Gestures) :
         /\ seg = GestureSegment(after, intent, text, d)
         /\ Fits(seg, after, d) /\ seg.does = intent.does
  BY GestureFits
<1>3. "idle_small" \in Gestures
  BY DEF Gestures, GestureMs
<1>. QED
  BY <1>1, <1>2, <1>3, PutLaid DEF AddGesture

LEMMA AddMotionLaid ==
    ASSUME NEW text \in Seq(Words), NEW intent \in IntentsOf(Motions), NEW d \in Nat,
           NEW segs \in Lays(Motions, d)
    PROVE  /\ AddMotion(segs, intent, text, d) \in Lays(Motions, d)
           /\ AddMotion(segs, intent, text, d) # <<>>
           /\ Doing(segs) \subseteq Doing(AddMotion(segs, intent, text, d))
           /\ intent.does \in Doing(AddMotion(segs, intent, text, d))
<1>1. PICK after \in 0 .. d : after = EndOf(segs)
  BY EndOfLaid
<1>2. PICK seg \in Segs(Motions) :
         /\ seg = MotionSegment(after, intent, text, d)
         /\ Fits(seg, after, d) /\ seg.does = intent.does
  BY MotionFits
<1>3. "face_idle_soft" \in Motions
  BY DEF Motions, FaceMs
<1>. QED
  BY <1>1, <1>2, <1>3, PutLaid DEF AddMotion

LEMMA NothingLaid == \A G, d : <<>> \in Lays(G, d)
  BY DEF Lays, Laid

LEMMA BodyRun ==
    ASSUME NEW text \in Seq(Words), NEW d \in Nat, NEW intents \in Seq(IntentsOf(Gestures)),
           NEW n \in Nat, Len(intents) = n
    PROVE  \E f \in [0 .. n -> Lays(Gestures, d)] :
              /\ f[0] = <<>> /\ f[n] = BodySegments(intents, text, d)
              /\ \A k \in 0 .. n - 1 : f[k + 1] = AddGesture(f[k], intents[k + 1], text, d)
<1>0. PICK D, base : D = Lays(Gestures, d) /\ base = <<>>
  OBVIOUS
<1> DEFINE F == [i \in 1 .. n |-> [x \in D |-> AddGesture(x, intents[i], text, d)]]
           h == CHOOSE g : g = [t \in SUBSET (1 .. n) |->
                   IF t = {} THEN <<>> ELSE AddGesture(g[t \ {Max(t)}], intents[Max(t)], text, d)]
<1>3. BodySegments(intents, text, d) = h[1 .. n]
  BY DEF BodySegments, FoldLeft, MapThenFoldSet
<1>1. ASSUME NEW i \in 1 .. n, NEW x \in D
      PROVE  AddGesture(x, intents[i], text, d) \in D
  BY <1>0, AddGestureLaid
<1>2. base \in D
  BY <1>0, NothingLaid
<1>4. F \in [1 .. n -> [D -> D]] /\ base \in D
  BY <1>1, <1>2
<1>5. PICK g \in Folds(n, D, base, F) : TRUE
  <2> HIDE DEF F
  <2>. QED
    BY <1>4, FoldExists
<1>6. g = [t \in SUBSET (1 .. n) |->
            IF t = {} THEN <<>> ELSE AddGesture(g[t \ {Max(t)}], intents[Max(t)], text, d)]
  <2>1. ASSUME NEW t \in SUBSET (1 .. n), t # {}
        PROVE  Max(t) \in 1 .. n /\ g[t \ {Max(t)}] \in D
    BY <2>1, MaxIn DEF Folds
  <2>. QED
    BY <1>0, <2>1 DEF Folds
<1>7. h = [t \in SUBSET (1 .. n) |->
            IF t = {} THEN <<>> ELSE AddGesture(h[t \ {Max(t)}], intents[Max(t)], text, d)]
  BY <1>6
<1> HIDE DEF h
<1>8. \A k \in 0 .. n - 1 : \A x \in D : F[k + 1][x] = AddGesture(x, intents[k + 1], text, d)
  OBVIOUS
<1>9. Climbs(h, n, D, base, F)
  <2>1. h[{}] = base
    BY <1>0, <1>7, {} \in SUBSET (1 .. n)
  <2>2. ASSUME NEW k \in 0 .. n - 1
        PROVE  h[1 .. k + 1] = AddGesture(h[1 .. k], intents[k + 1], text, d)
    <3>1. PICK t : /\ t = 1 .. k + 1 /\ t \in SUBSET (1 .. n) /\ t # {}
                   /\ Max(t) = k + 1 /\ t \ {k + 1} = 1 .. k
      BY FirstOnes
    <3>2. h[t] = AddGesture(h[t \ {Max(t)}], intents[Max(t)], text, d)
      BY <1>7, <3>1
    <3>. QED
      BY <3>1, <3>2
  <2>. QED
    BY <1>8, <2>1, <2>2 DEF Climbs
<1> HIDE DEF F
<1>10. PICK f \in Runs(n, D, base, F) : f[n] = h[1 .. n]
  <2>1. Reaches(n, D, base, F, h[1 .. n])
    BY <1>4, <1>9, FoldRun
  <2>. QED
    BY <2>1 DEF Reaches
<1>11. f \in [0 .. n -> D] /\ f[0] = <<>>
  BY <1>0, <1>10 DEF Runs
<1>12. ASSUME NEW k \in 0 .. n - 1 PROVE f[k + 1] = AddGesture(f[k], intents[k + 1], text, d)
  <2>1. f[k + 1] = F[k + 1][f[k]] /\ f[k] \in D
    BY <1>11 DEF Runs
  <2>. QED
    BY <1>8, <2>1
<1>. QED
  BY <1>0, <1>3, <1>10, <1>11, <1>12

LEMMA FaceRun ==
    ASSUME NEW text \in Seq(Words), NEW d \in Nat, NEW intents \in Seq(IntentsOf(Motions)),
           NEW n \in Nat, Len(intents) = n
    PROVE  \E f \in [0 .. n -> Lays(Motions, d)] :
              /\ f[0] = <<>> /\ f[n] = FaceSegments(intents, text, d)
              /\ \A k \in 0 .. n - 1 : f[k + 1] = AddMotion(f[k], intents[k + 1], text, d)
<1>0. PICK D, base : D = Lays(Motions, d) /\ base = <<>>
  OBVIOUS
<1> DEFINE F == [i \in 1 .. n |-> [x \in D |-> AddMotion(x, intents[i], text, d)]]
           h == CHOOSE g : g = [t \in SUBSET (1 .. n) |->
                   IF t = {} THEN <<>> ELSE AddMotion(g[t \ {Max(t)}], intents[Max(t)], text, d)]
<1>3. FaceSegments(intents, text, d) = h[1 .. n]
  BY DEF FaceSegments, FoldLeft, MapThenFoldSet
<1>1. ASSUME NEW i \in 1 .. n, NEW x \in D
      PROVE  AddMotion(x, intents[i], text, d) \in D
  BY <1>0, AddMotionLaid
<1>2. base \in D
  BY <1>0, NothingLaid
<1>4. F \in [1 .. n -> [D -> D]] /\ base \in D
  BY <1>1, <1>2
<1>5. PICK g \in Folds(n, D, base, F) : TRUE
  <2> HIDE DEF F
  <2>. QED
    BY <1>4, FoldExists
<1>6. g = [t \in SUBSET (1 .. n) |->
            IF t = {} THEN <<>> ELSE AddMotion(g[t \ {Max(t)}], intents[Max(t)], text, d)]
  <2>1. ASSUME NEW t \in SUBSET (1 .. n), t # {}
        PROVE  Max(t) \in 1 .. n /\ g[t \ {Max(t)}] \in D
    BY <2>1, MaxIn DEF Folds
  <2>. QED
    BY <1>0, <2>1 DEF Folds
<1>7. h = [t \in SUBSET (1 .. n) |->
            IF t = {} THEN <<>> ELSE AddMotion(h[t \ {Max(t)}], intents[Max(t)], text, d)]
  BY <1>6
<1> HIDE DEF h
<1>8. \A k \in 0 .. n - 1 : \A x \in D : F[k + 1][x] = AddMotion(x, intents[k + 1], text, d)
  OBVIOUS
<1>9. Climbs(h, n, D, base, F)
  <2>1. h[{}] = base
    BY <1>0, <1>7, {} \in SUBSET (1 .. n)
  <2>2. ASSUME NEW k \in 0 .. n - 1
        PROVE  h[1 .. k + 1] = AddMotion(h[1 .. k], intents[k + 1], text, d)
    <3>1. PICK t : /\ t = 1 .. k + 1 /\ t \in SUBSET (1 .. n) /\ t # {}
                   /\ Max(t) = k + 1 /\ t \ {k + 1} = 1 .. k
      BY FirstOnes
    <3>2. h[t] = AddMotion(h[t \ {Max(t)}], intents[Max(t)], text, d)
      BY <1>7, <3>1
    <3>. QED
      BY <3>1, <3>2
  <2>. QED
    BY <1>8, <2>1, <2>2 DEF Climbs
<1> HIDE DEF F
<1>10. PICK f \in Runs(n, D, base, F) : f[n] = h[1 .. n]
  <2>1. Reaches(n, D, base, F, h[1 .. n])
    BY <1>4, <1>9, FoldRun
  <2>. QED
    BY <2>1 DEF Reaches
<1>11. f \in [0 .. n -> D] /\ f[0] = <<>>
  BY <1>0, <1>10 DEF Runs
<1>12. ASSUME NEW k \in 0 .. n - 1 PROVE f[k + 1] = AddMotion(f[k], intents[k + 1], text, d)
  <2>1. f[k + 1] = F[k + 1][f[k]] /\ f[k] \in D
    BY <1>11 DEF Runs
  <2>. QED
    BY <1>8, <2>1
<1>. QED
  BY <1>0, <1>3, <1>10, <1>11, <1>12

\* Every intent is laid.
LEMMA BodySegmentsLaid ==
    ASSUME NEW text \in Seq(Words), NEW d \in Nat, NEW intents \in Seq(IntentsOf(Gestures)),
           NEW n \in Nat, n # 0, Len(intents) = n
    PROVE  /\ BodySegments(intents, text, d) \in Lays(Gestures, d)
           /\ BodySegments(intents, text, d) # <<>>
           /\ \A k \in 1 .. n : intents[k].does \in Doing(BodySegments(intents, text, d))
<1>1. PICK f \in [0 .. n -> Lays(Gestures, d)] :
         /\ f[0] = <<>> /\ f[n] = BodySegments(intents, text, d)
         /\ \A k \in 0 .. n - 1 : f[k + 1] = AddGesture(f[k], intents[k + 1], text, d)
  BY BodyRun
<1> DEFINE S == {k \in 0 .. n : /\ k # 0 => f[k] # <<>>
                                /\ \A j \in 1 .. k : intents[j].does \in Doing(f[k])}
<1>2. 0 \in S
  OBVIOUS
<1>3. ASSUME NEW k \in 0 .. n - 1, k \in S PROVE k + 1 \in S
  <2>1. intents[k + 1] \in IntentsOf(Gestures) /\ f[k] \in Lays(Gestures, d)
    BY <1>1
  <2>2. /\ f[k + 1] # <<>> /\ Doing(f[k]) \subseteq Doing(f[k + 1])
        /\ intents[k + 1].does \in Doing(f[k + 1])
    BY <1>1, <2>1, AddGestureLaid
  <2>3. ASSUME NEW j \in 1 .. k + 1 PROVE intents[j].does \in Doing(f[k + 1])
    <3>1. CASE j = k + 1
      BY <2>2, <3>1
    <3>2. CASE j \in 1 .. k
      BY <1>3, <2>2, <3>2
    <3>. QED
      BY <3>1, <3>2
  <2>. QED
    BY <2>2, <2>3
<1>4. n \in S
  <2> HIDE DEF S
  <2>1. \A k \in 0 .. n : k \in S
    BY <1>2, <1>3, IndUpTo
  <2>. QED
    BY <2>1
<1>. QED
  BY <1>1, <1>4

LEMMA FaceSegmentsLaid ==
    ASSUME NEW text \in Seq(Words), NEW d \in Nat, NEW intents \in Seq(IntentsOf(Motions)),
           NEW n \in Nat, n # 0, Len(intents) = n
    PROVE  /\ FaceSegments(intents, text, d) \in Lays(Motions, d)
           /\ FaceSegments(intents, text, d) # <<>>
<1>1. PICK f \in [0 .. n -> Lays(Motions, d)] :
         /\ f[n] = FaceSegments(intents, text, d)
         /\ \A k \in 0 .. n - 1 : f[k + 1] = AddMotion(f[k], intents[k + 1], text, d)
  BY FaceRun
<1>2. PICK m \in 0 .. n - 1 : m + 1 = n
  OBVIOUS
<1>3. f[m] \in Lays(Motions, d) /\ intents[m + 1] \in IntentsOf(Motions)
  BY <1>1, <1>2
<1>4. f[n] = AddMotion(f[m], intents[m + 1], text, d)
  BY <1>1, <1>2
<1>. QED
  BY <1>1, <1>3, <1>4, AddMotionLaid

\* The plan of the body covers the audio and makes every gesture planned.
LEMMA BodyTimelineLaid ==
    ASSUME NEW text \in Seq(Words), NEW d \in Nat
    PROVE  /\ BodyTimeline(text, d) \in Lays(Gestures, d)
           /\ BodyTimeline(text, d) # <<>>
           /\ d - Last(BodyTimeline(text, d)).end \in {0, 1}
           /\ \A k \in DOMAIN GestureIntents(text) :
                 GestureIntents(text)[k].does \in Doing(BodyTimeline(text, d))
<1>1. PICK intents \in Seq(IntentsOf(Gestures)) : intents = GestureIntents(text) /\ intents # <<>>
  BY GestureIntentsType
<1>2. PICK n \in Nat : n # 0 /\ Len(intents) = n /\ DOMAIN intents = 1 .. n
  BY <1>1
<1>3. PICK missing \in 0 .. d : missing = d \div 2
  OBVIOUS
<1>4. PICK order \in Seq(IntentsOf(Gestures)) :
         /\ order = InOrder(intents, text, d, missing) /\ Len(order) = n
         /\ \A k \in 1 .. n : \E i \in 1 .. n : order[i] = intents[k]
  <2>1. /\ InOrder(intents, text, d, missing) \in Seq(IntentsOf(Gestures))
        /\ Len(InOrder(intents, text, d, missing)) = Len(intents)
        /\ \A k \in DOMAIN intents : \E i \in DOMAIN intents :
              InOrder(intents, text, d, missing)[i] = intents[k]
    BY InOrderPermutes
  <2>2. \A k \in 1 .. n : \E i \in 1 .. n : InOrder(intents, text, d, missing)[i] = intents[k]
    BY <1>2, <2>1
  <2>. QED
    BY <1>2, <2>1, <2>2
<1>5. PICK segs \in Lays(Gestures, d) :
         /\ segs = BodySegments(order, text, d) /\ segs # <<>>
         /\ \A k \in 1 .. n : order[k].does \in Doing(segs)
  BY <1>2, <1>4, BodySegmentsLaid
<1>6. "idle_small" \in Gestures
  BY DEF Gestures, GestureMs
<1>7. BodyTimeline(text, d) = PutTail(segs, d, "idle_small", 1)
  BY <1>1, <1>3, <1>4, <1>5 DEF BodyTimeline
<1>8. ASSUME NEW k \in DOMAIN GestureIntents(text)
      PROVE  GestureIntents(text)[k].does \in Doing(segs)
  BY <1>1, <1>2, <1>4, <1>5
<1>. QED
  BY <1>5, <1>6, <1>7, <1>8, PutTailLaid

LEMMA FaceTimelineLaid ==
    ASSUME NEW text \in Seq(Words), NEW d \in Nat
    PROVE  /\ FaceTimeline(text, d) \in Lays(Motions, d)
           /\ FaceTimeline(text, d) # <<>>
           /\ d - Last(FaceTimeline(text, d)).end \in {0, 1}
<1>1. PICK intents \in Seq(IntentsOf(Motions)) : intents = FaceIntents(text) /\ intents # <<>>
  BY FaceIntentsType
<1>2. PICK n \in Nat : n # 0 /\ Len(intents) = n
  BY <1>1
<1>3. PICK order \in Seq(IntentsOf(Motions)) :
         order = InOrder(intents, text, d, 0) /\ Len(order) = n
  <2>1. PICK missing \in 0 .. d : missing = 0
    OBVIOUS
  <2>2. /\ InOrder(intents, text, d, missing) \in Seq(IntentsOf(Motions))
        /\ Len(InOrder(intents, text, d, missing)) = Len(intents)
    BY InOrderPermutes
  <2>. QED
    BY <1>2, <2>1, <2>2
<1>4. PICK segs \in Lays(Motions, d) : segs = FaceSegments(order, text, d) /\ segs # <<>>
  BY <1>2, <1>3, FaceSegmentsLaid
<1>5. "face_idle_soft" \in Motions
  BY DEF Motions, FaceMs
<1>6. FaceTimeline(text, d) = PutTail(segs, d, "face_idle_soft", 0)
  BY <1>1, <1>3, <1>4 DEF FaceTimeline
<1>. QED
  BY <1>4, <1>5, <1>6, PutTailLaid

-----------------------------------------------------------------------------
(* The segments a text job renders.                                         *)

LEMMA DominantType ==
    ASSUME NEW d \in Nat, NEW segs \in Lays(Gestures, d), segs # <<>>
    PROVE  DominantGesture(segs) \in Gestures
<1>1. PICK n \in Nat : n # 0 /\ Len(segs) = n /\ DOMAIN segs = 1 .. n
  BY DEF Lays
<1> DEFINE w == [i \in 1 .. n |-> (segs[i].end - segs[i].start) * Strength[segs[i].does]]
           Best(s) == \A k \in DOMAIN segs :
                         (segs[k].end - segs[k].start) * Strength[segs[k].does]
                             <= (s.end - s.start) * Strength[s.does]
           I == {i \in 1 .. Len(segs) : Best(segs[i])}
<1>2. \A i \in 1 .. n : segs[i] \in Segs(Gestures)
  BY <1>1 DEF Lays
<1>3. \A g \in Gestures : Strength[g] \in Int
  BY DEF Gestures, GestureMs, Strength
<1>4. w \in [1 .. n -> Int]
  <2>1. ASSUME NEW i \in 1 .. n
        PROVE  (segs[i].end - segs[i].start) * Strength[segs[i].does] \in Int
    <3>1. PICK a \in Int, b \in Int : a = segs[i].end - segs[i].start /\ b = Strength[segs[i].does]
      BY <1>2, <1>3 DEF Segs
    <3>. QED
      BY <3>1
  <2>. QED
    BY <2>1
<1>5. PICK m \in 1 .. n : \A i \in 1 .. n : w[i] <= w[m]
  <2> HIDE DEF w
  <2>. QED
    BY <1>1, <1>4, OneLargest
<1>6. m \in I
  BY <1>1, <1>5
<1>7. DominantGesture(segs) = segs[Min(I)].does
  <2>1. DominantGesture(segs) = segs[IF I # {} THEN Min(I) ELSE 0].does
    BY DEF DominantGesture, SelectInSeq
  <2> HIDE DEF I
  <2>. QED
    BY <1>6, <2>1
<1>8. I \in SUBSET (1 .. n) /\ I \in SUBSET Nat
  BY <1>1
<1>9. Min(I) \in 1 .. n
  <2> HIDE DEF I
  <2>. QED
    BY <1>6, <1>8, MinNat
<1>. QED
  BY <1>2, <1>7, <1>9 DEF Segs

LEMMA PlanMsType ==
    ASSUME NEW j \in Inputs
    PROVE  /\ j \in Jobs /\ j.audio \in Nat /\ PlanMs(j) \in Nat /\ PlanMs(j) >= 1
           /\ j.probed \in BOOLEAN /\ j.text \in Seq(Words) /\ (j.probed => j.audio >= 1)
  BY VideoAssumption DEF VideoAssumption, Jobs, PlanMs

\* What is rendered covers the planned length.
LEMMA SegmentsLaid ==
    ASSUME NEW j \in Inputs
    PROVE  /\ Segments(j) \in Lays(Gestures, PlanMs(j))
           /\ Segments(j) # <<>>
           /\ PlanMs(j) - Last(Segments(j)).end \in {0, 1}
<1>1. PICK d \in Nat : d = PlanMs(j)
  BY PlanMsType
<1>2. PICK body \in Lays(Gestures, d) :
         body = BodyTimeline(j.text, d) /\ body # <<>> /\ d - Last(body).end \in {0, 1}
  BY PlanMsType, BodyTimelineLaid
<1>3. CASE j.mode # "dominant"
  BY <1>1, <1>2, <1>3 DEF Segments
<1>4. CASE j.mode = "dominant"
  <2>1. PICK g \in Gestures : g = DominantGesture(body)
    BY <1>2, DominantType
  <2>2. PICK seg : seg = [start |-> 0, end |-> d, does |-> g]
    OBVIOUS
  <2>3. Segments(j) = <<seg>>
    BY <1>1, <1>2, <1>4, <2>1, <2>2 DEF Segments
  <2>4. seg \in Segs(Gestures) /\ seg.start = 0 /\ seg.end = d
    BY <2>2 DEF Segs
  <2>5. <<seg>> \in Lays(Gestures, d)
    BY <2>4 DEF Lays, Laid
  <2>6. Last(<<seg>>) = seg /\ <<seg>> # <<>>
    BY DEF Last
  <2>. QED
    BY <1>1, <2>3, <2>4, <2>5, <2>6
<1>. QED
  BY <1>3, <1>4

\* A later segment starts no earlier than an earlier one ends.
LEMMA LaidInTurn ==
    ASSUME NEW d \in Nat, NEW G, NEW segs \in Lays(G, d), NEW i \in DOMAIN segs,
           NEW k \in DOMAIN segs, k < i
    PROVE  segs[k].end <= segs[i].start
<1>1. PICK n \in Nat : DOMAIN segs = 1 .. n
  BY DEF Lays
<1>2. PICK m \in Nat : m = i - 1 - k
  BY <1>1
<1>3. \A l \in 1 .. n : /\ segs[l].start \in Nat /\ segs[l].end \in Nat
                        /\ segs[l].start <= segs[l].end
                        /\ l # 1 => segs[l - 1].end <= segs[l].start
  <2>1. ASSUME NEW l \in 1 .. n PROVE segs[l] \in Segs(G)
    BY <1>1 DEF Lays
  <2>2. ASSUME NEW l \in 1 .. n, l # 1 PROVE segs[l - 1].end <= segs[l].start
    <3>1. segs[l].start - segs[l - 1].end \in {0, 1}
      BY <1>1, <2>2 DEF Lays, Laid
    <3>2. segs[l].start \in Nat /\ segs[l - 1].end \in Nat
      BY <2>1, <2>2 DEF Segs
    <3>. QED
      BY <3>1, <3>2
  <2>. QED
    BY <1>1, <2>1, <2>2 DEF Lays, Laid, Segs
<1> DEFINE S == {l \in 0 .. m : segs[k].end <= segs[k + 1 + l].start}
<1>4. 0 \in S
  BY <1>1, <1>2, <1>3
<1>5. ASSUME NEW l \in 0 .. m - 1, l \in S PROVE l + 1 \in S
  <2>1. k + 1 + l \in 1 .. n /\ k + 1 + (l + 1) \in 1 .. n /\ k + 1 + (l + 1) - 1 = k + 1 + l
    BY <1>1, <1>2
  <2>2. segs[k].end <= segs[k + 1 + l].start /\ segs[k].end \in Nat
    BY <1>1, <1>3, <1>5
  <2>3. segs[k + 1 + l].end <= segs[k + 1 + (l + 1)].start
    <3>1. PICK l2 \in 1 .. n : l2 = k + 1 + (l + 1)
      BY <2>1
    <3>2. l2 # 1 /\ l2 - 1 = k + 1 + l
      BY <1>1, <1>5, <3>1
    <3>. QED
      BY <1>3, <3>1, <3>2
  <2>. QED
    BY <1>3, <2>1, <2>2, <2>3
<1>6. m \in S
  <2> HIDE DEF S
  <2>1. \A l \in 0 .. m : l \in S
    BY <1>4, <1>5, IndUpTo
  <2>. QED
    BY <2>1
<1>7. k + 1 + m = i
  BY <1>1, <1>2
<1>. QED
  BY <1>6, <1>7

-----------------------------------------------------------------------------
(* How long a part is, and how far the parts are from their windows.        *)

\* The lengths, in frames, a part may have.
LengthsOf(ms) == IF ms = 0 THEN {0, 1} ELSE PartFrames(ms)

LEMMA FramesNear ==
    ASSUME NEW ms \in Nat
    PROVE  Frames(ms) \in Nat /\ 40 * Frames(ms) >= ms - 20 /\ 40 * Frames(ms) <= ms + 20
<1>1. PICK q \in Nat, r \in 0 .. 39 : q = ms \div 40 /\ r = ms % 40 /\ ms = 40 * q + r
  OBVIOUS
<1>2. Frames(ms) = IF r < 20 \/ (r = 20 /\ q % 2 = 0) THEN q ELSE q + 1
  BY <1>1 DEF Frames
<1>. QED
  BY <1>1, <1>2

\* A part is up to three half frames shorter than its slice, or one frame longer.
LEMMA PartNear ==
    ASSUME NEW ms \in Nat, NEW n \in LengthsOf(ms)
    PROVE  n \in Nat /\ 40 * n >= ms - 60 /\ (ms # 0 => 40 * n <= ms + 39)
<1>1. CASE ms = 0
  BY <1>1 DEF LengthsOf
<1>2. CASE ms # 0
  <2>1. PICK q \in Nat : q = Frames(ms) /\ 40 * q >= ms - 20 /\ 40 * q <= ms + 20
    BY FramesNear
  <2>2. PICK m \in Nat : /\ m = Max({1, Frames(ms)}) /\ m >= 1
                         /\ 40 * m >= ms - 20 /\ 40 * m <= ms + 39
    <3>1. Max({1, q}) = IF 1 >= q THEN 1 ELSE q
      BY MaxOfTwo
    <3>. QED
      BY <1>2, <2>1, <3>1
  <2>3. PICK l \in Nat : /\ l = Max({m - 1, 1})
                         /\ 40 * l >= ms - 60 /\ 40 * l <= ms + 39
    <3>1. Max({m - 1, 1}) = IF m - 1 >= 1 THEN m - 1 ELSE 1
      BY MaxOfTwo
    <3>. QED
      BY <1>2, <2>2, <3>1
  <2>4. PartFrames(ms) = {m, l}
    BY <2>2, <2>3 DEF PartFrames
  <2>. QED
    BY <1>2, <2>2, <2>3, <2>4 DEF LengthsOf
<1>. QED
  BY <1>1, <1>2

\* A slice is never shorter than what is heard of its window.  It is longer by
\* a packet at most, when the window has some sound.
LEMMA SliceNear ==
    ASSUME NEW j \in Inputs, NEW seg \in Segs(Gestures), NEW ms \in SliceMs(j, seg)
    PROVE  /\ ms \in Nat
           /\ seg.start >= seg.end => ms = j.audio
           /\ seg.start < seg.end /\ seg.start < j.audio =>
                 /\ ms # 0
                 /\ ms >= (IF seg.end <= j.audio THEN seg.end ELSE j.audio) - seg.start
                 /\ seg.end <= j.audio => ms <= seg.end - seg.start + PacketMs
<1>1. PICK a \in Nat, s \in Nat, e \in Nat, p \in Nat :
         a = j.audio /\ s = seg.start /\ e = seg.end /\ p = PacketMs
  BY PlanMsType, VideoAssumption DEF Segs, VideoAssumption
<1>2. CASE s >= e
  <2>1. ms = a
    BY <1>1, <1>2 DEF SliceMs
  <2>. QED
    BY <1>1, <1>2, <2>1
<1>3. CASE s < e /\ s >= a
  <2>1. ms = 0
    BY <1>1, <1>3 DEF SliceMs
  <2>. QED
    BY <1>1, <1>3, <2>1
<1>4. CASE s < e /\ s < a
  <2>1. PICK c \in Nat : /\ c = Min({e, a}) /\ c <= e /\ c <= a /\ c > s
                         /\ e <= a => c = e
                         /\ c = IF e <= a THEN e ELSE a
    <3>1. Min({e, a}) = IF e <= a THEN e ELSE a
      BY MinOfTwo
    <3>. QED
      BY <1>4, <3>1
  <2>2. PICK x \in Nat, y \in Nat : x = c - s + p /\ y = a - s
    BY <1>4, <2>1
  <2>3. PICK l \in Nat : l = Min({x, y}) /\ l >= c - s /\ l <= c - s + p
    <3>1. Min({x, y}) = IF x <= y THEN x ELSE y
      BY MinOfTwo
    <3>2. x >= c - s /\ y >= c - s
      BY <2>1, <2>2
    <3>. QED
      BY <2>1, <2>2, <3>1, <3>2
  <2>4. SliceMs(j, seg) = {c - s, l}
    <3>1. SliceMs(j, seg) = {Min({seg.end, j.audio}) - seg.start,
                             Min({Min({seg.end, j.audio}) - seg.start + PacketMs,
                                  j.audio - seg.start})}
      BY <1>1, <1>4 DEF SliceMs
    <3>2. Min({seg.end, j.audio}) = c
      BY <1>1, <2>1
    <3>3. Min({c - seg.start + PacketMs, j.audio - seg.start}) = l
      BY <1>1, <2>2, <2>3
    <3>4. c - seg.start = c - s
      BY <1>1
    <3>. QED
      BY <3>1, <3>2, <3>3, <3>4
  <2>5. ms \in Nat /\ ms # 0 /\ ms >= c - s /\ ms <= c - s + p
    BY <1>4, <2>1, <2>3, <2>4
  <2>6. ms >= (IF e <= a THEN e ELSE a) - s /\ (e <= a => ms <= e - s + p)
    BY <2>1, <2>5
  <2>. QED
    BY <1>1, <1>4, <2>5, <2>6
<1>. QED
  BY <1>1, <1>2, <1>3, <1>4

\* What may have been rendered for a segment of a text job.
RenderedFor(j, seg) == {40 * n : n \in UNION {LengthsOf(ms) : ms \in SliceMs(j, seg)}}

LEMMA RenderedNear ==
    ASSUME NEW j \in Inputs, NEW seg \in Segs(Gestures), NEW m \in RenderedFor(j, seg)
    PROVE  /\ m \in Nat
           /\ seg.start >= seg.end => m >= j.audio - 60
           /\ seg.start < seg.end /\ seg.start < j.audio =>
                 /\ m >= (IF seg.end <= j.audio THEN seg.end ELSE j.audio) - seg.start - 60
                 /\ seg.end <= j.audio => m <= seg.end - seg.start + PacketMs + 39
<1>1. PICK ms \in SliceMs(j, seg), n \in UNION {LengthsOf(l) : l \in SliceMs(j, seg)} :
         m = 40 * n /\ n \in LengthsOf(ms)
  BY DEF RenderedFor
<1>2. ms \in Nat
  BY SliceNear
<1>3. n \in Nat /\ 40 * n >= ms - 60 /\ (ms # 0 => 40 * n <= ms + 39)
  BY <1>1, <1>2, PartNear
<1>4. PICK a \in Nat, s \in Nat, e \in Nat, p \in Nat :
         a = j.audio /\ s = seg.start /\ e = seg.end /\ p = PacketMs
  BY PlanMsType, VideoAssumption DEF Segs, VideoAssumption
<1>5. m \in Nat /\ m >= ms - 60 /\ (ms # 0 => m <= ms + 39)
  BY <1>1, <1>3
<1>6. /\ s >= e => ms = a
      /\ s < e /\ s < a => /\ ms # 0
                           /\ ms >= (IF e <= a THEN e ELSE a) - s
                           /\ e <= a => ms <= e - s + p
  BY <1>4, SliceNear
<1>7. s >= e => m >= a - 60
  BY <1>2, <1>5, <1>6
<1>8. s < e /\ s < a => /\ m >= (IF e <= a THEN e ELSE a) - s - 60
                        /\ e <= a => m <= e - s + p + 39
  BY <1>2, <1>5, <1>6
<1>. QED
  BY <1>4, <1>5, <1>7, <1>8

\* Where the segments end, and nought before the first.
EndAt(segs, k) == IF k = 0 THEN 0 ELSE segs[k].end

\* The segment after the first k of those laid up to d.
NextLaid(segs, k, d) ==
    /\ segs[k + 1] \in Segs(Gestures) /\ segs[k + 1].start \in Nat
    /\ EndAt(segs, k) \in Nat /\ EndAt(segs, k + 1) \in Nat
    /\ segs[k + 1].end = EndAt(segs, k + 1)
    /\ segs[k + 1].start <= EndAt(segs, k + 1) /\ EndAt(segs, k + 1) <= d
    /\ segs[k + 1].start < EndAt(segs, k + 1) \/ EndAt(segs, k + 1) = d
    /\ EndAt(segs, k) <= segs[k + 1].start
    /\ segs[k + 1].start <= EndAt(segs, k) + 1

LEMMA EndsLaid ==
    ASSUME NEW d \in Nat, NEW segs \in Lays(Gestures, d), NEW n \in Nat, DOMAIN segs = 1 .. n,
           NEW k \in 0 .. n - 1
    PROVE  NextLaid(segs, k, d)
<1>1. PICK l \in 1 .. n : l = k + 1 /\ l - 1 = k /\ (l = 1 <=> k = 0)
  OBVIOUS
<1>2. ASSUME NEW i \in 1 .. n PROVE segs[i] \in Segs(Gestures) /\ segs[i].end \in Nat
  <2>1. segs[i] \in Segs(Gestures)
    BY DEF Lays
  <2>. QED
    BY <2>1 DEF Segs
<1>3. segs[l] \in Segs(Gestures) /\ segs[l].start \in Nat /\ segs[l].end \in Nat
  BY <1>2 DEF Segs
<1>4. /\ segs[l].start <= segs[l].end /\ segs[l].end <= d
      /\ segs[l].start < segs[l].end \/ segs[l].end = d
      /\ segs[l].start - (IF l = 1 THEN 0 ELSE segs[l - 1].end) \in {0, 1}
  BY DEF Lays, Laid
<1>5. EndAt(segs, k) \in Nat /\ EndAt(segs, k) = (IF l = 1 THEN 0 ELSE segs[l - 1].end)
  BY <1>1, <1>2 DEF EndAt
<1>6. EndAt(segs, l) = segs[l].end
  BY <1>1 DEF EndAt
<1>7. EndAt(segs, k) <= segs[l].start /\ segs[l].start <= EndAt(segs, k) + 1
  <2>1. PICK x \in Nat, y \in Nat : EndAt(segs, k) = x /\ segs[l].start = y /\ y - x \in {0, 1}
    BY <1>3, <1>4, <1>5
  <2>2. x <= y /\ y <= x + 1
    BY <2>1
  <2>. QED
    BY <2>1, <2>2
<1>. QED
  BY <1>1, <1>3, <1>4, <1>5, <1>6, <1>7 DEF NextLaid

\* A step that is never more than b beyond another, nor 61 behind it.
Beside(f, e, m, b) ==
    \A k \in 0 .. m - 1 : /\ f[k + 1] - f[k] >= e[k + 1] - e[k] - 61
                          /\ f[k + 1] - f[k] <= e[k + 1] - e[k] + b

LEMMA StepsBeside ==
    ASSUME NEW m \in Nat, NEW b \in Nat, NEW f \in [0 .. m -> Int], NEW e \in [0 .. m -> Int],
           f[0] = 0, e[0] = 0, Beside(f, e, m, b)
    PROVE  f[m] - e[m] >= -61 * m /\ f[m] - e[m] <= m * b
<1> DEFINE S == {k \in 0 .. m : f[k] - e[k] >= -61 * k /\ f[k] - e[k] <= k * b}
<1>1. 0 \in S
  <2>1. 0 * b = 0 /\ f[0] - e[0] = 0
    OBVIOUS
  <2>. QED
    BY <2>1
<1>2. ASSUME NEW k \in 0 .. m - 1, k \in S PROVE k + 1 \in S
  <2>1. PICK u \in Int, v \in Int : k * b = u /\ (k + 1) * b = v /\ u + b = v
    OBVIOUS
  <2>2. PICK x \in Int, y \in Int : f[k] = x /\ e[k] = y /\ x - y >= -61 * k /\ x - y <= u
    BY <1>2, <2>1
  <2>3. PICK x1 \in Int, y1 \in Int :
           f[k + 1] = x1 /\ e[k + 1] = y1 /\ x1 - x >= y1 - y - 61 /\ x1 - x <= y1 - y + b
    BY <2>2 DEF Beside
  <2>4. x1 - y1 >= -61 * (k + 1) /\ x1 - y1 <= v
    BY <2>1, <2>2, <2>3
  <2>. QED
    BY <2>1, <2>3, <2>4
<1>3. m \in S
  <2> HIDE DEF S
  <2>1. \A k \in 0 .. m : k \in S
    BY <1>1, <1>2, IndUpTo
  <2>. QED
    BY <2>1
<1>. QED
  BY <1>3

\* How long the parts are, one after the other.
PartsOf(f, n, segs, j) ==
    /\ f \in [0 .. n -> Int] /\ f[0] = 0
    /\ \A k \in 0 .. n - 1 : f[k + 1] - f[k] \in RenderedFor(j, segs[k + 1])

\* The part of a segment before one that has sound.
LEMMA PartBefore ==
    ASSUME NEW j \in Inputs, NEW segs \in Lays(Gestures, PlanMs(j)),
           NEW n \in Nat, DOMAIN segs = 1 .. n, NEW m \in 0 .. n, NEW f, PartsOf(f, m, segs, j),
           NEW k \in 0 .. m - 1, NEW s \in Nat, s < j.audio, s < PlanMs(j),
           EndAt(segs, k + 1) <= s
    PROVE  /\ f[k + 1] - f[k] >= EndAt(segs, k + 1) - EndAt(segs, k) - 61
           /\ f[k + 1] - f[k] <= EndAt(segs, k + 1) - EndAt(segs, k) + (PacketMs + 39)
<1>1. PlanMs(j) \in Nat /\ j.audio \in Nat /\ PacketMs \in Nat
  BY PlanMsType, VideoAssumption DEF VideoAssumption
<1>0. NextLaid(segs, k, PlanMs(j))
  BY <1>1, k \in 0 .. n - 1, EndsLaid
<1>2. PICK seg \in Segs(Gestures) : segs[k + 1] = seg
  BY <1>0 DEF NextLaid
<1>3. PICK x \in Nat, y \in Nat, z \in Nat :
         /\ EndAt(segs, k) = x /\ seg.start = y /\ EndAt(segs, k + 1) = z /\ seg.end = z
         /\ y < z \/ PlanMs(j) = z
         /\ x <= y /\ y <= x + 1
  BY <1>0, <1>2 DEF NextLaid
<1>4. y < z /\ z < j.audio
  BY <1>1, <1>3
<1>5. PICK g \in Int, h \in Int, l \in RenderedFor(j, seg) : f[k] = g /\ f[k + 1] = h /\ h - g = l
  <2>1. m \in Nat /\ k \in 0 .. m /\ k + 1 \in 0 .. m
    OBVIOUS
  <2>2. f[k] \in Int /\ f[k + 1] \in Int /\ f[k + 1] - f[k] \in RenderedFor(j, seg)
    BY <1>2, <2>1 DEF PartsOf
  <2>. QED
    BY <2>2
<1>6. l \in Nat /\ l >= z - y - 60 /\ l <= z - y + PacketMs + 39
  <2>1. /\ l \in Nat
        /\ seg.start < seg.end /\ seg.start < j.audio =>
              /\ l >= (IF seg.end <= j.audio THEN seg.end ELSE j.audio) - seg.start - 60
              /\ seg.end <= j.audio => l <= seg.end - seg.start + PacketMs + 39
    BY RenderedNear
  <2>. QED
    BY <1>1, <1>3, <1>4, <2>1
<1>7. h - g >= z - x - 61 /\ h - g <= z - x + (PacketMs + 39)
  BY <1>1, <1>3, <1>5, <1>6
<1>. QED
  BY <1>3, <1>5, <1>7

LEMMA MuchOf ==
    ASSUME NEW m \in Nat, NEW p \in Nat
    PROVE  /\ m * (p + 39) \in Nat /\ m * (p + 60) \in Nat
           /\ m * (p + 60) = m * (p + 39) + 21 * m
           /\ m * (p + 60) >= 60 * m
<1>1. m * (p + 39) = m * p + m * 39 /\ m * (p + 60) = m * p + m * 60 /\ m * p \in Nat
  OBVIOUS
<1>. QED
  BY <1>1

\* The parts before the window of a segment that has sound are as long as the
\* audio before it, but for what they round and the packets they run over.
LEMMA PartsLead ==
    ASSUME NEW j \in Inputs, NEW segs \in Lays(Gestures, PlanMs(j)),
           NEW n \in Nat, DOMAIN segs = 1 .. n, NEW m \in 0 .. n - 1,
           NEW f, PartsOf(f, m, segs, j),
           segs[m + 1].start < segs[m + 1].end, segs[m + 1].start < j.audio
    PROVE  /\ f[m] - segs[m + 1].start <= m * (PacketMs + 60) + (m + 1)
           /\ f[m] - segs[m + 1].start >= -(m * (PacketMs + 60) + (m + 1))
<1>1. PlanMs(j) \in Nat /\ j.audio \in Nat /\ PacketMs \in Nat
  BY PlanMsType, VideoAssumption DEF VideoAssumption
<1>2. PICK s \in Nat, x \in Nat :
         /\ segs[m + 1].start = s /\ EndAt(segs, m) = x /\ s < PlanMs(j) /\ s < j.audio
         /\ x <= s /\ s <= x + 1
  <2>1. PICK s \in Nat, x \in Nat, y \in Nat :
           /\ segs[m + 1].start = s /\ EndAt(segs, m) = x /\ EndAt(segs, m + 1) = y
           /\ segs[m + 1].end = y /\ y <= PlanMs(j) /\ x <= s /\ s <= x + 1
    <3>1. NextLaid(segs, m, PlanMs(j))
      BY <1>1, EndsLaid
    <3>. QED
      BY <3>1 DEF NextLaid
  <2>2. s < PlanMs(j) /\ s < j.audio
    BY <1>1, <2>1
  <2>. QED
    BY <2>1, <2>2
<1>3. ASSUME NEW k \in 0 .. m - 1
      PROVE  /\ f[k + 1] - f[k] >= EndAt(segs, k + 1) - EndAt(segs, k) - 61
             /\ f[k + 1] - f[k] <= EndAt(segs, k + 1) - EndAt(segs, k) + (PacketMs + 39)
  <2>1. PICK l \in DOMAIN segs, i \in DOMAIN segs :
           k + 1 = l /\ m + 1 = i /\ l < i /\ l # 0 /\ k \in 0 .. n - 1
    OBVIOUS
  <2>2. segs[l].end <= segs[i].start
    BY <1>1, <2>1, LaidInTurn
  <2>3. EndAt(segs, k + 1) <= s
    BY <1>2, <2>1, <2>2 DEF EndAt
  <2>. QED
    BY <1>2, <2>1, <2>3, PartBefore
<1> DEFINE fm == [k \in 0 .. m |-> f[k]]
           em == [k \in 0 .. m |-> EndAt(segs, k)]
<1>0. m \in Nat
  OBVIOUS
<1>4. fm \in [0 .. m -> Int] /\ fm[0] = 0 /\ \A k \in 0 .. m : fm[k] = f[k]
  BY DEF PartsOf
<1>5. em \in [0 .. m -> Int] /\ em[0] = 0 /\ \A k \in 0 .. m : em[k] = EndAt(segs, k)
  <2>1. ASSUME NEW k \in 0 .. m PROVE EndAt(segs, k) \in Int
    <3>1. PICK l \in 0 .. n - 1 : l = k
      OBVIOUS
    <3>2. NextLaid(segs, l, PlanMs(j))
      BY <1>1, EndsLaid
    <3>. QED
      BY <3>1, <3>2 DEF NextLaid
  <2>2. EndAt(segs, 0) = 0
    BY DEF EndAt
  <2>. QED
    BY <2>1, <2>2
<1> HIDE DEF fm, em
<1>6. PICK b \in Nat : PacketMs + 39 = b
  BY <1>1
<1>7. Beside(fm, em, m, b)
  <2>1. ASSUME NEW k \in 0 .. m - 1
        PROVE  fm[k + 1] = f[k + 1] /\ fm[k] = f[k]
               /\ em[k + 1] = EndAt(segs, k + 1) /\ em[k] = EndAt(segs, k)
    BY <1>4, <1>5
  <2>. QED
    BY <1>3, <1>6, <2>1 DEF Beside
<1>8. PICK g \in Int : f[m] = g /\ g - x >= -61 * m /\ g - x <= m * (PacketMs + 39)
  <2>1. fm[m] - em[m] >= -61 * m /\ fm[m] - em[m] <= m * b
    BY <1>0, <1>4, <1>5, <1>6, <1>7, StepsBeside
  <2>2. fm[m] = f[m] /\ em[m] = x /\ fm[m] \in Int
    BY <1>2, <1>4, <1>5
  <2>. QED
    BY <1>6, <2>1, <2>2
<1>9. PICK u \in Nat, v \in Nat : /\ m * (PacketMs + 39) = u /\ m * (PacketMs + 60) = v
                                  /\ u + 21 * m = v /\ v >= 60 * m
  BY <1>1, MuchOf
<1>10. g - s <= v + (m + 1) /\ g - s >= -(v + (m + 1))
  BY <1>2, <1>8, <1>9
<1>. QED
  BY <1>2, <1>8, <1>9, <1>10

\* What has been heard by the end of a segment, up to the end of the audio.
LEMMA CoverStep ==
    ASSUME NEW a \in Nat, NEW x \in Nat, NEW y \in Nat, NEW z \in Nat, NEW k \in Nat,
           NEW g \in Int, NEW l \in Nat, g >= 0, g >= a - 61 * k \/ g >= x - 61 * k,
           y <= x + 1, y <= z,
           y >= z => l >= a - 60,
           y < z /\ y < a => l >= (IF z <= a THEN z ELSE a) - y - 60
    PROVE  /\ g + l >= 0
           /\ g + l >= a - 61 * (k + 1) \/ g + l >= z - 61 * (k + 1)
<1>1. CASE y >= z
  BY <1>1
<1>2. CASE y < z /\ y >= a
  BY <1>2
<1>3. CASE y < z /\ y < a /\ z <= a
  BY <1>3
<1>4. CASE y < z /\ y < a /\ z > a
  BY <1>4
<1>. QED
  BY <1>1, <1>2, <1>3, <1>4

\* The parts are as long as what they are of, but for what they round.
LEMMA PartsCover ==
    ASSUME NEW j \in Inputs, NEW segs \in Lays(Gestures, PlanMs(j)),
           NEW n \in Nat, DOMAIN segs = 1 .. n, NEW f, PartsOf(f, n, segs, j)
    PROVE  /\ f[n] \in Int /\ f[n] >= 0
           /\ f[n] >= j.audio - 61 * n \/ f[n] >= EndAt(segs, n) - 61 * n
<1>1. PlanMs(j) \in Nat /\ j.audio \in Nat
  BY PlanMsType
<1> DEFINE S == {k \in 0 .. n : /\ f[k] >= 0
                                /\ f[k] >= j.audio - 61 * k \/ f[k] >= EndAt(segs, k) - 61 * k}
<1>2. 0 \in S
  <2>1. f[0] = 0 /\ EndAt(segs, 0) = 0
    BY DEF PartsOf, EndAt
  <2>. QED
    BY <2>1
<1>3. ASSUME NEW k \in 0 .. n - 1, k \in S PROVE k + 1 \in S
  <2>1. /\ segs[k + 1] \in Segs(Gestures) /\ segs[k + 1].start \in Nat
        /\ EndAt(segs, k) \in Nat /\ EndAt(segs, k + 1) \in Nat
        /\ segs[k + 1].end = EndAt(segs, k + 1)
        /\ segs[k + 1].start <= EndAt(segs, k + 1)
        /\ segs[k + 1].start <= EndAt(segs, k) + 1
    <3>1. NextLaid(segs, k, PlanMs(j))
      BY <1>1, EndsLaid
    <3>. QED
      BY <3>1 DEF NextLaid
  <2>2. PICK a \in Nat, x \in Nat, y \in Nat, z \in Nat :
           /\ j.audio = a /\ EndAt(segs, k) = x /\ segs[k + 1].start = y
           /\ EndAt(segs, k + 1) = z /\ segs[k + 1].end = z /\ y <= z /\ y <= x + 1
    BY <1>1, <2>1
  <2>3. PICK g \in Int, h \in Int, l \in RenderedFor(j, segs[k + 1]) :
           f[k] = g /\ f[k + 1] = h /\ h - g = l
    BY DEF PartsOf
  <2>4. /\ l \in Nat
        /\ segs[k + 1].start >= segs[k + 1].end => l >= j.audio - 60
        /\ segs[k + 1].start < segs[k + 1].end /\ segs[k + 1].start < j.audio =>
              l >= (IF segs[k + 1].end <= j.audio THEN segs[k + 1].end ELSE j.audio)
                      - segs[k + 1].start - 60
    BY <2>1, RenderedNear
  <2>5. /\ l \in Nat /\ y >= z => l >= a - 60
        /\ y < z /\ y < a => l >= (IF z <= a THEN z ELSE a) - y - 60
    BY <2>2, <2>4
  <2>6. g >= 0 /\ (g >= a - 61 * k \/ g >= x - 61 * k)
    BY <1>3, <2>2, <2>3
  <2>7. /\ g + l >= 0
        /\ g + l >= a - 61 * (k + 1) \/ g + l >= z - 61 * (k + 1)
    BY <2>2, <2>4, <2>5, <2>6, k \in Nat, CoverStep
  <2>8. g + l = h
    BY <2>3, <2>4
  <2>. QED
    BY <2>2, <2>3, <2>7, <2>8
<1>4. n \in S
  <2> HIDE DEF S
  <2>1. \A k \in 0 .. n : k \in S
    BY <1>2, <1>3, IndUpTo
  <2>. QED
    BY <2>1
<1>5. f[n] \in Int
  BY DEF PartsOf
<1>. QED
  BY <1>4, <1>5

-----------------------------------------------------------------------------
(* The clip of a window.                                                    *)

LEMMA FramesGrow ==
    ASSUME NEW x \in Nat, NEW y \in Nat, x <= y
    PROVE  Frames(x) <= Frames(y)
<1>1. PICK p \in Nat, r \in 0 .. 39 : p = x \div 40 /\ r = x % 40 /\ x = 40 * p + r
  OBVIOUS
<1>2. PICK q \in Nat, t \in 0 .. 39 : q = y \div 40 /\ t = y % 40 /\ y = 40 * q + t
  OBVIOUS
<1>3. Frames(x) = IF r < 20 \/ (r = 20 /\ p % 2 = 0) THEN p ELSE p + 1
  BY <1>1 DEF Frames
<1>4. Frames(y) = IF t < 20 \/ (t = 20 /\ q % 2 = 0) THEN q ELSE q + 1
  BY <1>2 DEF Frames
<1>5. CASE p = q
  <2>1. r <= t
    BY <1>1, <1>2, <1>5
  <2>. QED
    BY <1>3, <1>4, <1>5, <2>1
<1>6. CASE p < q
  BY <1>3, <1>4, <1>6
<1>. QED
  BY <1>1, <1>2, <1>5, <1>6

\* A window has as many frames wherever it starts.
LEMMA FramesOfWindow ==
    ASSUME NEW x \in Nat
    PROVE  Frames(x + 4000) = Frames(x) + 100
<1>1. PICK q \in Nat, r \in 0 .. 39 : q = x \div 40 /\ r = x % 40 /\ x = 40 * q + r
  OBVIOUS
<1>2. PICK y \in Nat : x + 4000 = y /\ y = 40 * (q + 100) + r
  BY <1>1
<1>3. y \div 40 = q + 100 /\ y % 40 = r
  BY <1>2
<1>4. Frames(x) = IF r < 20 \/ (r = 20 /\ q % 2 = 0) THEN q ELSE q + 1
  BY <1>1 DEF Frames
<1>5. Frames(y) = IF r < 20 \/ (r = 20 /\ (q + 100) % 2 = 0) THEN q + 100 ELSE q + 101
  BY <1>3 DEF Frames
<1>6. (q + 100) % 2 = q % 2
  OBVIOUS
<1>. QED
  BY <1>2, <1>4, <1>5, <1>6

\* A window of 4 s from s on.
IsWindow(c, s) == c.start = s /\ c.end = s + 4000

LEMMA LivePortraitNear ==
    ASSUME NEW j \in Inputs, NEW s \in Nat, NEW c, IsWindow(c, s), LivePortraitFrames(j, c) > 0
    PROVE  /\ LivePortraitFrames(j, c) \in Nat
           /\ j.probed /\ s + 4000 <= j.audio => LivePortraitFrames(j, c) = 100
           /\ j.probed \/ s = 0 => \/ LivePortraitFrames(j, c) = 100
                                   \/ 40 * LivePortraitFrames(j, c) >= j.audio - s - 40
<1>1. PICK a \in Nat, h \in Nat : /\ j.audio = a /\ h = (IF j.probed THEN j.audio ELSE 4000)
                                  /\ j.probed \in BOOLEAN
  BY PlanMsType
<1>2. PICK fs \in Nat, fe \in Nat, fh \in Nat :
         /\ Frames(s) = fs /\ Frames(s + 4000) = fe /\ Frames(h) = fh
         /\ fe = fs + 100 /\ 40 * fs <= s + 20 /\ 40 * fh >= h - 20
         /\ s + 4000 <= h => fh >= fe
  <2>1. PICK fs \in Nat, fh \in Nat : /\ Frames(s) = fs /\ Frames(h) = fh
                                     /\ 40 * fs <= s + 20 /\ 40 * fh >= h - 20
    <3>1. Frames(s) \in Nat /\ 40 * Frames(s) <= s + 20
      BY FramesNear
    <3>2. Frames(h) \in Nat /\ 40 * Frames(h) >= h - 20
      BY FramesNear
    <3>. QED
      BY <3>1, <3>2
  <2>2. PICK e \in Nat : e = s + 4000
    OBVIOUS
  <2>3. Frames(e) = fs + 100
    BY <2>1, <2>2, FramesOfWindow
  <2>4. e <= h => Frames(e) <= fh
    BY <2>1, FramesGrow
  <2>. QED
    BY <2>1, <2>2, <2>3, <2>4
<1>3. PICK rows \in Nat : rows = Max({1, fh}) /\ rows >= fh /\ (rows = fh \/ rows = 1)
  <2>1. Max({1, fh}) = IF 1 >= fh THEN 1 ELSE fh
    BY MaxOfTwo
  <2>. QED
    BY <2>1
<1>4. /\ Min({fe, rows}) = IF fe <= rows THEN fe ELSE rows
      /\ Min({fs, rows}) = IF fs <= rows THEN fs ELSE rows
  BY MinOfTwo
<1>5. LivePortraitFrames(j, c) = Min({fe, rows}) - Min({fs, rows})
  <2>1. (IF j.probed THEN j.audio ELSE ChunkMs) = h
    BY <1>1 DEF ChunkMs
  <2>2. Frames(IF j.probed THEN j.audio ELSE ChunkMs) = fh
    BY <1>2, <2>1
  <2>3. Frames(c.end) = fe /\ Frames(c.start) = fs
    BY <1>2 DEF IsWindow
  <2>. QED
    BY <1>3, <2>2, <2>3, Zenon DEF LivePortraitFrames
<1>6. fe <= rows => LivePortraitFrames(j, c) = 100
  BY <1>2, <1>4, <1>5
<1>7. fe > rows => LivePortraitFrames(j, c) = rows - fs /\ rows - fs > 0
  BY <1>2, <1>4, <1>5
<1>8. j.probed => h = a
  BY <1>1
<1>9. CASE j.probed
  BY <1>1, <1>2, <1>3, <1>6, <1>7, <1>8, <1>9
<1>10. CASE ~j.probed
  <2>1. s = 0 => fh >= fe
    BY <1>1, <1>2, <1>10
  <2>. QED
    BY <1>1, <1>2, <1>3, <1>6, <1>7, <1>10, <2>1
<1>. QED
  BY <1>1, <1>9, <1>10

LEMMA MuseTalkNear ==
    ASSUME NEW j \in Inputs, NEW s \in Nat, NEW c, IsWindow(c, s)
    PROVE  /\ MuseTalkFrames(j, c) \in Nat
           /\ s + 4000 <= j.audio => MuseTalkFrames(j, c) = 100
           /\ MuseTalkFrames(j, c) = 100 \/ 40 * MuseTalkFrames(j, c) >= j.audio - s - 20
<1>1. PICK a \in Nat : j.audio = a
  BY PlanMsType
<1>2. PICK e \in Nat : e = Min({s + 4000, a}) /\ e = (IF s + 4000 <= a THEN s + 4000 ELSE a)
  <2>1. Min({s + 4000, a}) = IF s + 4000 <= a THEN s + 4000 ELSE a
    BY MinOfTwo
  <2>. QED
    BY <2>1
<1>3. PICK d \in Int : d = e - s
  OBVIOUS
<1>4. PICK x \in Nat : x = Max({0, d}) /\ x >= d /\ (d >= 0 => x = d)
  <2>1. PICK z \in Nat : 0 = z
    OBVIOUS
  <2>2. Max({z, d}) = IF z >= d THEN z ELSE d
    BY MaxOfTwo
  <2>. QED
    BY <2>1, <2>2
<1>5. MuseTalkFrames(j, c) = Frames(x)
  BY <1>1, <1>2, <1>3, <1>4 DEF MuseTalkFrames, IsWindow
<1>6. Frames(x) \in Nat /\ 40 * Frames(x) >= x - 20 /\ 40 * Frames(x) <= x + 20
  BY FramesNear
<1>7. s + 4000 <= a => x = 4000
  BY <1>2, <1>3, <1>4
<1>8. s + 4000 > a => x >= a - s
  BY <1>2, <1>3, <1>4
<1>. QED
  BY <1>1, <1>5, <1>6, <1>7, <1>8

\* A clip is full as long as there is audio, and ends with it, but for two half
\* frames, when there is not.
LEMMA ClipNear ==
    ASSUME NEW j \in Inputs, NEW s \in Nat, NEW c, IsWindow(c, s), NEW m \in ClipMs(j, c)
    PROVE  /\ m \in Nat /\ \E q \in Nat : m = 40 * q
           /\ j.probed /\ s + 4000 <= j.audio => m = 4000
           /\ j.probed \/ s = 0 => m >= 4000 \/ m >= j.audio - s - 40
<1>1. PICK a \in Nat : j.audio = a /\ j.probed \in BOOLEAN
  BY PlanMsType
<1>2. PICK live : LivePortraitFrames(j, c) = live
  OBVIOUS
<1>3. PICK muse \in Nat : /\ MuseTalkFrames(j, c) = muse
                          /\ s + 4000 <= a => muse = 100
                          /\ muse = 100 \/ 40 * muse >= a - s - 20
  BY <1>1, MuseTalkNear
<1>4. PICK d \in Nat : d = a \div 40 /\ 40 * d >= a - 39 /\ (s + 4000 <= a => d >= 100)
  OBVIOUS
<1>5. PICK t \in Nat : t = Max({1, d}) /\ t >= d
  <2>1. Max({1, d}) = IF 1 >= d THEN 1 ELSE d
    BY MaxOfTwo
  <2>. QED
    BY <2>1
<1>6. \/ m = 4000
      \/ live > 0 /\ (m = 40 * live \/ m = 40 * Min({live, t}))
      \/ m = 40 * muse /\ muse > 0
      \/ muse <= 0 /\ (m = 480 \/ m = 520)
  BY <1>1, <1>2, <1>3, <1>4, <1>5 DEF ClipMs, ChunkMs
<1>7. CASE m = 4000
  BY <1>7, 4000 = 40 * 100
<1>8. CASE live > 0 /\ (m = 40 * live \/ m = 40 * Min({live, t}))
  <2>1. PICK n \in Nat : /\ live = n
                         /\ j.probed /\ s + 4000 <= a => n = 100
                         /\ j.probed \/ s = 0 => n = 100 \/ 40 * n >= a - s - 40
    BY <1>1, <1>2, <1>8, LivePortraitNear
  <2>2. Min({n, t}) = IF n <= t THEN n ELSE t
    BY MinOfTwo
  <2>3. PICK q \in Nat : m = 40 * q /\ (q = n \/ (q = t /\ t < n))
    BY <1>8, <2>1, <2>2
  <2>4. j.probed /\ s + 4000 <= a => q = 100
    BY <1>4, <1>5, <2>1, <2>3
  <2>5. j.probed \/ s = 0 => 40 * q >= 4000 \/ 40 * q >= a - s - 40
    BY <1>4, <1>5, <2>1, <2>3
  <2>. QED
    BY <1>1, <2>3, <2>4, <2>5
<1>9. CASE m = 40 * muse /\ muse > 0
  BY <1>1, <1>3, <1>9
<1>10. CASE muse <= 0 /\ (m = 480 \/ m = 520)
  <2>1. m \in Nat /\ \E q \in Nat : m = 40 * q
    BY <1>10, 480 = 40 * 12, 520 = 40 * 13
  <2>. QED
    BY <1>1, <1>3, <1>10, <2>1
<1>. QED
  BY <1>6, <1>7, <1>8, <1>9, <1>10

-----------------------------------------------------------------------------
(* The parts put together.                                                  *)

PartType == [start : Nat, end : Nat, ms : Nat, face : {0}, does : Gestures \cup {"none"}]

\* Nothing is cut but from the overlap of a later window, and no more than there is.
LEMMA CutNear ==
    ASSUME parts \in Seq(PartType), NEW k \in DOMAIN parts, NEW ms \in Cuts(k)
    PROVE  /\ parts[k].ms \in Nat /\ ms \in Nat /\ ms <= parts[k].ms
           /\ k = 1 \/ job.kind = "text" => ms = 0
           /\ k # 1 /\ job.kind # "text" /\ parts[k].end = parts[k].start + 4000 =>
                 /\ ms <= 500 + CutMs
                 /\ ms >= 500 - CutMs \/ ms = parts[k].ms
<1>1. PICK x \in Nat, b \in Nat, e \in Nat :
         parts[k].ms = x /\ parts[k].start = b /\ parts[k].end = e
  <2>1. parts[k] \in PartType
    OBVIOUS
  <2>2. parts[k].ms \in Nat /\ parts[k].start \in Nat /\ parts[k].end \in Nat
    BY <2>1 DEF PartType
  <2>. QED
    BY <2>2
<1>2. CASE k = 1 \/ job.kind = "text"
  <2>1. TrimMs(k) = 0
    BY <1>2 DEF TrimMs
  <2>2. ms = 0
    BY <2>1 DEF Cuts
  <2>. QED
    BY <1>1, <1>2, <2>2
<1>3. CASE k # 1 /\ job.kind # "text"
  <2>1. TrimMs(k) = Min({500, (2 * (e - b)) \div 5})
    BY <1>1, <1>3 DEF TrimMs, OverlapMs
  <2>2. PICK d \in Int : d = (2 * (e - b)) \div 5 /\ (e = b + 4000 => d = 1600)
    OBVIOUS
  <2>3. PICK asked \in Int : TrimMs(k) = asked /\ (e = b + 4000 => asked = 500)
    <3>1. Min({500, d}) = IF 500 <= d THEN 500 ELSE d
      BY MinOfTwo
    <3>. QED
      BY <2>1, <2>2, <3>1
  <2>4. CASE asked = 0
    BY <1>1, <1>3, <2>3, <2>4 DEF Cuts
  <2>5. CASE asked # 0
    <3>1. PICK n \in Nat : /\ ms = Min({40 * n, x})
                           /\ asked - CutMs <= 40 * n /\ 40 * n <= asked + CutMs
      <4>1. PICK t : t = {k1 \in 0 .. asked + CutMs :
                             asked - CutMs <= 40 * k1 /\ 40 * k1 <= asked + CutMs}
        OBVIOUS
      <4>2. Cuts(k) = {Min({40 * n, x}) : n \in t}
        BY <1>1, <2>3, <2>5, <4>1, Zenon DEF Cuts
      <4>3. PICK n \in t : ms = Min({40 * n, x})
        BY <4>2
      <4>4. CutMs \in Nat
        BY VideoAssumption DEF VideoAssumption
      <4>5. n \in Nat /\ asked - CutMs <= 40 * n /\ 40 * n <= asked + CutMs
        BY <4>1, <4>4
      <4>. QED
        BY <4>3, <4>5
    <3>2. Min({40 * n, x}) = IF 40 * n <= x THEN 40 * n ELSE x
      BY MinOfTwo
    <3>3. /\ ms \in Nat /\ ms <= x /\ ms <= asked + CutMs
          /\ ms >= asked - CutMs \/ ms = x
      BY <3>1, <3>2, VideoAssumption DEF VideoAssumption
    <3>. QED
      BY <1>1, <1>3, <2>3, <3>3
  <2>. QED
    BY <2>4, <2>5
<1>. QED
  BY <1>2, <1>3

\* What has been trimmed so far was trimmed as it may be.
CutsMade ==
    /\ pc \notin {"encode", "leave"} => cuts = <<>>
    /\ cuts \in Seq(Nat) /\ Len(cuts) <= Len(parts)
    /\ \A i \in DOMAIN cuts : cuts[i] \in Cuts(i)

LEMMA Trimmed ==
    ASSUME parts \in Seq(PartType), CutsMade, NEW k \in DOMAIN cuts
    PROVE  /\ k \in DOMAIN parts /\ cuts[k] \in Cuts(k)
           /\ parts[k].ms \in Nat /\ cuts[k] \in Nat /\ cuts[k] <= parts[k].ms
<1>1. k \in DOMAIN parts /\ cuts[k] \in Cuts(k)
  BY DEF CutsMade
<1>. QED
  BY <1>1, CutNear

Played(k) == parts[k].ms - cuts[k]

\* What is played up to the end of each part.
LEMMA PlayedRun ==
    ASSUME parts \in Seq(PartType), CutsMade, NEW n \in 0 .. Len(cuts), NEW i, i - 1 = n
    PROVE  \E f \in [0 .. n -> Int] :
              /\ f[0] = 0 /\ f[n] = PlayedBefore(i)
              /\ \A k \in 0 .. n - 1 : f[k + 1] = f[k] + Played(k + 1)
<1>0. PICK D, base : D = Int /\ base = 0
  OBVIOUS
<1>1. n \in Nat /\ 1 .. n \subseteq DOMAIN cuts /\ \A l \in 1 .. n : Played(l) \in Int
  <2>1. Len(cuts) \in Nat /\ DOMAIN cuts = 1 .. Len(cuts)
    BY DEF CutsMade
  <2>2. n \in Nat /\ 1 .. n \subseteq DOMAIN cuts
    BY <2>1
  <2>. QED
    BY <2>2, Trimmed DEF Played
<1> DEFINE s == [k \in 1 .. i - 1 |-> k]
           F == [l \in 1 .. n |-> [x \in D |-> x + Played(l)]]
           h == CHOOSE g : g = [t \in SUBSET DOMAIN s |->
                   IF t = {} THEN 0
                   ELSE g[t \ {Max(t)}] + parts[s[Max(t)]].ms - cuts[s[Max(t)]]]
<1>2. DOMAIN s = 1 .. n /\ \A l \in 1 .. n : s[l] = l
  OBVIOUS
<1>3. PlayedBefore(i) = h[DOMAIN s]
  BY DEF PlayedBefore, FoldLeft, MapThenFoldSet
<1>4. F \in [1 .. n -> [D -> D]] /\ base \in D
  BY <1>0, <1>1
<1> HIDE DEF s
<1>5. PICK g \in Folds(n, D, base, F) : TRUE
  <2> HIDE DEF F
  <2>. QED
    BY <1>1, <1>4, FoldExists
<1>6. g = [t \in SUBSET DOMAIN s |->
            IF t = {} THEN 0 ELSE g[t \ {Max(t)}] + parts[s[Max(t)]].ms - cuts[s[Max(t)]]]
  <2>1. g \in [SUBSET (1 .. n) -> D]
    BY DEF Folds
  <2>2. g[{}] = 0
    BY <1>0, {} \in SUBSET (1 .. n) DEF Folds
  <2>3. ASSUME NEW t \in SUBSET (1 .. n), t # {}
        PROVE  g[t] = g[t \ {Max(t)}] + parts[s[Max(t)]].ms - cuts[s[Max(t)]]
    <3>1. PICK l \in 1 .. n : Max(t) = l
      BY <1>1, <2>3, MaxIn
    <3>2. PICK x \in Int : g[t \ {l}] = x
      BY <1>0, <2>1
    <3>3. g[t] = F[l][x]
      BY <2>3, <3>1, <3>2 DEF Folds
    <3>4. g[t] = x + Played(l)
      BY <1>0, <3>3
    <3>5. parts[l].ms \in Nat /\ cuts[l] \in Nat
      BY <1>1, Trimmed
    <3>6. g[t] = x + parts[l].ms - cuts[l]
      BY <3>4, <3>5 DEF Played
    <3>. QED
      BY <1>2, <3>1, <3>2, <3>6
  <2>. QED
    BY <1>2, <2>1, <2>2, <2>3
<1>7. h = [t \in SUBSET DOMAIN s |->
            IF t = {} THEN 0 ELSE h[t \ {Max(t)}] + parts[s[Max(t)]].ms - cuts[s[Max(t)]]]
  BY <1>6
<1> HIDE DEF h
<1>8. \A k \in 0 .. n - 1 : \A x \in D : F[k + 1][x] = x + Played(k + 1)
  OBVIOUS
<1> HIDE DEF F
<1>9. Climbs(h, n, D, base, F)
  <2>1. h[{}] = base
    BY <1>0, <1>2, <1>7, {} \in SUBSET (1 .. n)
  <2>2. ASSUME NEW k \in 0 .. n - 1, h[1 .. k] \in D
        PROVE  h[1 .. k + 1] = F[k + 1][h[1 .. k]]
    <3>1. PICK l \in 1 .. n : k + 1 = l
      OBVIOUS
    <3>2. PICK t : /\ t = 1 .. k + 1 /\ t \in SUBSET (1 .. n) /\ t # {}
                   /\ Max(t) = k + 1 /\ t \ {k + 1} = 1 .. k
      BY <1>1, FirstOnes
    <3>3. h[t] = h[1 .. k] + parts[l].ms - cuts[l]
      <4>1. t \in SUBSET DOMAIN s /\ Max(t) = l /\ t \ {Max(t)} = 1 .. k
        BY <1>2, <3>1, <3>2
      <4>2. h[t] = h[t \ {Max(t)}] + parts[s[Max(t)]].ms - cuts[s[Max(t)]]
        BY <1>7, <3>2, <4>1
      <4>3. s[Max(t)] = l
        BY <1>2, <4>1
      <4>. QED
        BY <4>1, <4>2, <4>3
    <3>4. parts[l].ms \in Nat /\ cuts[l] \in Nat
      BY <1>1, Trimmed
    <3>5. h[t] = h[1 .. k] + Played(l)
      BY <1>0, <2>2, <3>3, <3>4 DEF Played
    <3>. QED
      BY <1>8, <2>2, <3>1, <3>2, <3>5
  <2>. QED
    BY <2>1, <2>2 DEF Climbs
<1>10. PICK f \in Runs(n, D, base, F) : f[n] = h[1 .. n]
  <2>1. Reaches(n, D, base, F, h[1 .. n])
    BY <1>1, <1>4, <1>9, FoldRun
  <2>. QED
    BY <2>1 DEF Reaches
<1>11. f \in [0 .. n -> Int] /\ f[0] = 0
  BY <1>0, <1>10 DEF Runs
<1>12. ASSUME NEW k \in 0 .. n - 1 PROVE f[k + 1] = f[k] + Played(k + 1)
  <2>1. f[k + 1] = F[k + 1][f[k]] /\ f[k] \in D
    BY <1>0, <1>11 DEF Runs
  <2>. QED
    BY <1>8, <2>1
<1>. QED
  BY <1>2, <1>3, <1>10, <1>11, <1>12

-----------------------------------------------------------------------------
(* The inductive invariant: what each step keeps, beside what is asked for. *)

Styles == {"default", "subtle", "expressive"}

\* The variables of the job are those of the job under way.
AtWork ==
    /\ parts \in Seq(PartType)
    /\ (pc = "idle") <=> (job = NoJob)
    /\ pc \in {"plan", "segment", "render"} => job.kind = "text"
    /\ pc = "chunk" => job.kind = "chunks"
    /\ pc \in {"idle", "plan"} => parts = <<>> /\ skipped = <<>>
    /\ pc = "idle" => counted = 0 /\ lost = {}
    /\ pc # "leave" => video = NoVideo

\* What the settings had before the job is what they are to have after it.
StyleKept == pc # "idle" => saved[1] = "default"

\* The parts begun.
Begun == IF pc = "render" THEN Len(parts) + 1 ELSE Len(parts)

\* A part of a text job is its segment.
PartOf(part, j, seg) ==
    /\ part.start = seg.start /\ part.end = seg.end
    /\ part.ms \in RenderedFor(j, seg)
    /\ part.does = IF seg.does \in j.templates THEN seg.does ELSE Fallback

PartsOfText ==
    job.kind = "text" =>
        /\ Begun <= Len(Segments(job))
        /\ pc = "render" => slice \in SliceMs(job, Segment)
        /\ pc = "encode" => Len(parts) = Len(Segments(job))
        /\ \A i \in DOMAIN parts : PartOf(parts[i], job, Segments(job)[i])

\* What could not be made is written down, and is made up for.
MissingNoted ==
    pc \in {"segment", "render", "encode"} /\ job.kind = "text" =>
        /\ Fallback \in job.templates
        /\ (skipped = <<>>) <=> \A i \in 1 .. Begun : Segments(job)[i].does \in job.templates

\* A part of a chunk job is its window.
ChunkPart(part, j, k) ==
    part.start = Chunk(k).start /\ part.end = Chunk(k).end /\ part.ms \in ClipMs(j, Chunk(k))

PartsOfChunks ==
    job.kind = "chunks" =>
        /\ Len(parts) <= ChunkCount(job)
        /\ pc = "encode" => Len(parts) = ChunkCount(job)
        /\ \A i \in DOMAIN parts : ChunkPart(parts[i], job, i)

VInv == /\ TypeOK /\ AtWork /\ StyleKept /\ PartsOfText /\ MissingNoted /\ PartsOfChunks
        /\ CutsMade /\ SpokenToTheEnd /\ RenderedAsAsked

-----------------------------------------------------------------------------
(* What follows from the invariant.                                         *)

LEMMA InputsType ==
    ASSUME NEW j \in Inputs
    PROVE  /\ j # NoJob /\ j.kind \in {"text", "chunks"} /\ j.style \in Styles
           /\ j.templates \in SUBSET Gestures
<1>1. j \in Jobs
  BY VideoAssumption DEF VideoAssumption
<1>2. j.kind \in {"text", "chunks"} /\ NoJob.kind = "none"
  BY <1>1 DEF Jobs, NoJob
<1>. QED
  BY <1>1, <1>2 DEF Jobs, Styles

LEMMA LaidTiles ==
    ASSUME NEW d \in Nat, NEW G, NEW segs \in Lays(G, d), segs # <<>>,
           d - Last(segs).end \in {0, 1}
    PROVE  Tiles(segs, d)
  BY DEF Tiles, Lays, Laid

LEMMA TimelinesTiled ==
    ASSUME TypeOK, AtWork
    PROVE  TimelinesTile
<1> SUFFICES ASSUME pc = "plan" PROVE TimelinesTile
  BY DEF TimelinesTile
<1>1. job \in Inputs
  BY DEF TypeOK, AtWork
<1>2. PICK d \in Nat, text \in Seq(Words) : PlanMs(job) = d /\ job.text = text
  BY <1>1, PlanMsType
<1>3. Tiles(BodyTimeline(text, d), d)
  BY BodyTimelineLaid, LaidTiles
<1>4. Tiles(FaceTimeline(text, d), d)
  BY FaceTimelineLaid, LaidTiles
<1>5. ASSUME NEW k \in DOMAIN GestureIntents(text)
      PROVE  \E i \in DOMAIN BodyTimeline(text, d) :
                BodyTimeline(text, d)[i].does = GestureIntents(text)[k].does
  <2>1. GestureIntents(text)[k].does \in Doing(BodyTimeline(text, d))
    BY BodyTimelineLaid
  <2>. QED
    BY <2>1 DEF Doing
<1>. QED
  BY <1>2, <1>3, <1>4, <1>5 DEF TimelinesTile

\* The parts of a text job are played whole.
LEMMA TextRun ==
    ASSUME TypeOK, AtWork, PartsOfText, CutsMade, job.kind = "text", job \in Inputs,
           NEW n \in 0 .. Len(cuts), NEW i, i - 1 = n
    PROVE  \E f : PartsOf(f, n, Segments(job), job) /\ f[n] = PlayedBefore(i)
<1>1. PICK f \in [0 .. n -> Int] :
         /\ f[0] = 0 /\ f[n] = PlayedBefore(i)
         /\ \A k \in 0 .. n - 1 : f[k + 1] = f[k] + Played(k + 1)
  BY PlayedRun DEF AtWork
<1>2. ASSUME NEW k \in 0 .. n - 1
      PROVE  f[k + 1] - f[k] \in RenderedFor(job, Segments(job)[k + 1])
  <2>1. PICK l \in DOMAIN cuts : k + 1 = l
    <3>1. k + 1 \in 1 .. Len(cuts) /\ DOMAIN cuts = 1 .. Len(cuts)
      BY DEF CutsMade
    <3>. QED
      BY <3>1
  <2>2. cuts[l] = 0
    BY Trimmed, CutNear DEF AtWork
  <2>3. parts[l].ms \in Nat /\ parts[l].ms \in RenderedFor(job, Segments(job)[l])
    BY Trimmed DEF AtWork, PartsOfText, PartOf
  <2>4. PICK ms \in Nat : parts[l].ms = ms /\ Played(l) = ms
    BY <2>2, <2>3 DEF Played
  <2>5. f[k] \in Int /\ f[l] = f[k] + ms
    BY <1>1, <2>1, <2>4
  <2>6. f[l] - f[k] = ms
    BY <2>5
  <2>. QED
    BY <2>1, <2>3, <2>4, <2>6
<1>. QED
  BY <1>1, <1>2 DEF PartsOf

\* What a window adds to the video.
LEMMA ChunkPlayed ==
    ASSUME TypeOK, AtWork, PartsOfChunks, CutsMade, job.kind = "chunks", job \in Inputs,
           NEW k \in Nat, k + 1 \in 1 .. Len(cuts)
    PROVE  /\ Played(k + 1) \in Nat
           /\ job.probed /\ 3500 * k + 4000 <= job.audio =>
                 IF k = 0 THEN Played(k + 1) = 4000
                 ELSE Played(k + 1) >= 3500 - CutMs /\ Played(k + 1) <= 3500 + CutMs
           /\ k = 0 => Played(k + 1) >= 4000 \/ Played(k + 1) >= job.audio - 40
           /\ job.probed /\ k # 0 =>
                 \/ Played(k + 1) >= 3500 - CutMs
                 \/ Played(k + 1) >= job.audio - 3500 * k - 540 - CutMs
           /\ job.probed /\ k # 0 /\ 3500 * k + 500 <= job.audio =>
                 cuts[k + 1] >= 500 - CutMs /\ cuts[k + 1] <= 500 + CutMs
<1>1. PICK l \in DOMAIN cuts : k + 1 = l /\ (l = 1 <=> k = 0) /\ l \in DOMAIN parts
  <2>1. DOMAIN cuts = 1 .. Len(cuts)
    BY DEF CutsMade
  <2>2. k + 1 \in DOMAIN parts
    BY <2>1, Trimmed DEF AtWork
  <2>. QED
    BY <2>1, <2>2
<1>2. PICK s \in Nat : s = 3500 * k
  OBVIOUS
<1>3. ChunkPart(parts[l], job, l)
  BY <1>1 DEF PartsOfChunks
<1>4. IsWindow(Chunk(l), s)
  BY <1>1, <1>2 DEF IsWindow, Chunk, ChunkMs, OverlapMs
<1>5. parts[l].start = s /\ parts[l].end = s + 4000 /\ parts[l].ms \in ClipMs(job, Chunk(l))
  BY <1>3, <1>4 DEF ChunkPart, IsWindow
<1>6. PICK a \in Nat : job.audio = a
  BY PlanMsType
<1>7. PICK m \in Nat :
         /\ parts[l].ms = m /\ \E q \in Nat : m = 40 * q
         /\ job.probed /\ s + 4000 <= a => m = 4000
         /\ job.probed \/ s = 0 => m >= 4000 \/ m >= a - s - 40
  <2>1. PICK m, w : parts[l].ms = m /\ Chunk(l) = w /\ IsWindow(w, s) /\ m \in ClipMs(job, w)
    BY <1>4, <1>5
  <2>2. PICK j \in Inputs : job = j
    OBVIOUS
  <2>3. /\ m \in Nat /\ \E q \in Nat : m = 40 * q
        /\ j.probed /\ s + 4000 <= j.audio => m = 4000
        /\ j.probed \/ s = 0 => m >= 4000 \/ m >= j.audio - s - 40
    BY <2>1, <2>2, ClipNear
  <2>. QED
    BY <1>6, <2>1, <2>2, <2>3
<1>8. PICK u \in Nat : /\ cuts[l] = u /\ u <= m
                       /\ l = 1 => u = 0
                       /\ l # 1 => u <= 500 + CutMs /\ (u >= 500 - CutMs \/ u = m)
  <2>1. cuts[l] \in Cuts(l)
    BY Trimmed DEF AtWork
  <2>. QED
    BY <1>1, <1>5, <1>7, <2>1, CutNear DEF AtWork
<1>9. PICK c \in Nat : CutMs = c /\ c >= 20
  BY VideoAssumption DEF VideoAssumption
<1>10. Played(l) = m - u
  BY <1>7, <1>8 DEF Played
<1>11. job.probed /\ l # 1 /\ s + 500 <= a => u >= 500 - c
  <2> SUFFICES ASSUME job.probed, l # 1, s + 500 <= a, u = m PROVE m >= 500 - c
    BY <1>8, <1>9
  <2>0. PICK q \in Nat : m = 40 * q
    BY <1>7
  <2>1. m >= 4000 \/ m >= 460
    BY <1>7
  <2>2. 40 * q >= 460 => q >= 12
    OBVIOUS
  <2>. QED
    BY <1>9, <2>0, <2>1, <2>2
<1>12. /\ m - u \in Nat
       /\ job.probed /\ s + 4000 <= a =>
             IF k = 0 THEN m - u = 4000 ELSE m - u >= 3500 - c /\ m - u <= 3500 + c
       /\ k = 0 => m - u >= 4000 \/ m - u >= a - 40
       /\ job.probed /\ k # 0 => m - u >= 3500 - c \/ m - u >= a - s - 540 - c
       /\ job.probed /\ k # 0 /\ s + 500 <= a => u >= 500 - c /\ u <= 500 + c
  BY <1>1, <1>2, <1>7, <1>8, <1>9, <1>11
<1>. QED
  BY <1>1, <1>2, <1>6, <1>8, <1>9, <1>10, <1>12

\* How far off k cuts may be together.
Off(k) == k * CutMs

LEMMA OffBy ==
    ASSUME NEW k \in Nat
    PROVE  CutMs \in Nat /\ Off(k) \in Nat /\ Off(k + 1) = Off(k) + CutMs /\ (k = 0 => Off(k) = 0)
<1>1. PICK c \in Nat : CutMs = c
  BY VideoAssumption DEF VideoAssumption
<1>2. k * c \in Nat /\ (k + 1) * c = k * c + c /\ (k = 0 => k * c = 0)
  OBVIOUS
<1>. QED
  BY <1>1, <1>2 DEF Off

\* After window k (from 0) the video is where the window ends.
AtWindow(x, k) == x >= 4000 + 3500 * k - Off(k) /\ x <= 4000 + 3500 * k + Off(k)

LEMMA AtNext ==
    ASSUME NEW k \in Nat, NEW h, h = k + 1, NEW x \in Int, NEW y \in Nat, AtWindow(x, k),
           y >= 3500 - CutMs, y <= 3500 + CutMs
    PROVE  AtWindow(x + y, h)
<1>1. PICK c \in Nat, w \in Nat : CutMs = c /\ Off(k) = w /\ Off(h) = w + c
  BY OffBy
<1>. QED
  BY <1>1 DEF AtWindow

\* After window k the audio is heard to its end, or as far as windows go.
HeardBy(x, k, j) ==
    /\ x >= 0
    /\ \/ x >= j.audio - 40 - Off(k)
       \/ x >= 4000 + (IF j.probed THEN 3500 * k ELSE 0) - Off(k)

\* What a window adds when the windows before it are heard.
Adds(y, h, j) == j.probed => y >= 3500 - CutMs \/ y >= j.audio - 3500 * h - 540 - CutMs

LEMMA HeardNext ==
    ASSUME NEW j \in Inputs, NEW k \in Nat, NEW h, h = k + 1, NEW x \in Int, NEW y \in Nat,
           HeardBy(x, k, j), Adds(y, h, j)
    PROVE  HeardBy(x + y, h, j)
<1>1. PICK c \in Nat, w \in Nat : CutMs = c /\ Off(k) = w /\ Off(h) = w + c
  BY OffBy
<1>2. PICK a \in Nat : j.audio = a
  BY PlanMsType
<1>3. CASE j.probed
  BY <1>1, <1>2, <1>3 DEF HeardBy, Adds
<1>4. CASE ~j.probed
  BY <1>1, <1>2, <1>4 DEF HeardBy, Adds
<1>. QED
  BY <1>3, <1>4

\* There is audio for the whole of window k.
FullWindow(j, k) == j.probed /\ 3500 * k + 4000 <= j.audio

\* As long as there is audio a window begins where the one before it ends.
LEMMA ChunkRun ==
    ASSUME TypeOK, AtWork, PartsOfChunks, CutsMade, job.kind = "chunks", job \in Inputs,
           NEW n \in Nat, n + 1 \in 1 .. Len(cuts), NEW i, i - 1 = n + 1, FullWindow(job, n)
    PROVE  PlayedBefore(i) \in Int /\ AtWindow(PlayedBefore(i), n)
<1>0. parts \in Seq(PartType)
  BY DEF AtWork
<1>1. PICK l \in 0 .. Len(cuts) : n + 1 = l /\ i - 1 = l
  BY DEF CutsMade
<1>2. PICK f \in [0 .. l -> Int] :
         /\ f[0] = 0 /\ f[l] = PlayedBefore(i)
         /\ \A k \in 0 .. l - 1 : f[k + 1] = f[k] + Played(k + 1)
  BY <1>0, <1>1, PlayedRun
<1>3. ASSUME NEW k \in 0 .. n
      PROVE  /\ k \in Nat /\ k + 1 \in 1 .. Len(cuts)
             /\ f[k + 1] = f[k] + Played(k + 1) /\ f[k] \in Int /\ f[k + 1] \in Int
  BY <1>1, <1>2 DEF CutsMade
<1>4. ASSUME NEW k \in 0 .. n
      PROVE  /\ Played(k + 1) \in Nat
             /\ k = 0 => Played(k + 1) = 4000
             /\ k # 0 => Played(k + 1) >= 3500 - CutMs /\ Played(k + 1) <= 3500 + CutMs
  <2>1. FullWindow(job, k)
    <3>1. job.audio \in Nat
      BY PlanMsType
    <3>. QED
      BY <3>1 DEF FullWindow
  <2>. QED
    BY <1>3, <2>1, ChunkPlayed DEF FullWindow
<1> DEFINE S == {k \in 0 .. n : AtWindow(f[k + 1], k)}
<1>5. 0 \in S
  <2>1. PICK z \in 0 .. n : 0 = z
    OBVIOUS
  <2>2. f[z + 1] = 4000
    BY <1>2, <1>3, <1>4, <2>1
  <2>3. Off(z) = 0
    BY <2>1, OffBy
  <2>4. AtWindow(f[z + 1], z)
    BY <2>1, <2>2, <2>3 DEF AtWindow
  <2>. QED
    BY <2>1, <2>4
<1> HIDE DEF S
<1>6. ASSUME NEW k \in 0 .. n - 1, k \in S PROVE k + 1 \in S
  <2>1. PICK h \in 0 .. n : k + 1 = h /\ h # 0 /\ k \in Nat
    OBVIOUS
  <2>2. PICK x \in Int, y \in Nat : f[h] = x /\ Played(h + 1) = y /\ f[h + 1] = x + y
    <3>1. f[h] \in Int /\ Played(h + 1) \in Nat /\ f[h + 1] = f[h] + Played(h + 1)
      BY <1>3, <1>4
    <3>. QED
      BY <3>1
  <2>3. y >= 3500 - CutMs /\ y <= 3500 + CutMs
    BY <1>4, <2>1, <2>2
  <2>4. AtWindow(x, k)
    <3>1. AtWindow(f[k + 1], k)
      BY <1>6 DEF S
    <3>. QED
      BY <2>1, <2>2, <3>1
  <2>5. AtWindow(x + y, h)
    BY <2>1, <2>3, <2>4, AtNext
  <2>. QED
    BY <2>1, <2>2, <2>5 DEF S
<1>7. n \in S
  <2>1. \A k \in 0 .. n : k \in S
    BY <1>5, <1>6, n \in Nat, IndUpTo, Zenon
  <2>. QED
    BY <2>1
<1>8. f[n + 1] = PlayedBefore(i) /\ f[n + 1] \in Int
  BY <1>1, <1>2
<1>. QED
  BY <1>7, <1>8 DEF S

\* What is played of n + 1 windows reaches the end of the audio or that of the
\* last of them.
LEMMA ChunksHeard ==
    ASSUME TypeOK, AtWork, PartsOfChunks, CutsMade, job.kind = "chunks", job \in Inputs,
           NEW n \in Nat, n + 1 \in 1 .. Len(cuts), NEW i, i - 1 = n + 1
    PROVE  PlayedBefore(i) \in Int /\ HeardBy(PlayedBefore(i), n, job)
<1>0. parts \in Seq(PartType)
  BY DEF AtWork
<1>1. PICK l \in 0 .. Len(cuts) : n + 1 = l /\ i - 1 = l
  BY DEF CutsMade
<1>2. PICK f \in [0 .. l -> Int] :
         /\ f[0] = 0 /\ f[l] = PlayedBefore(i)
         /\ \A k \in 0 .. l - 1 : f[k + 1] = f[k] + Played(k + 1)
  BY <1>0, <1>1, PlayedRun
<1>3. ASSUME NEW k \in 0 .. n
      PROVE  /\ k \in Nat /\ k + 1 \in 1 .. Len(cuts)
             /\ f[k + 1] = f[k] + Played(k + 1) /\ f[k] \in Int /\ f[k + 1] \in Int
  BY <1>1, <1>2 DEF CutsMade
<1>4. ASSUME NEW k \in 0 .. n
      PROVE  /\ Played(k + 1) \in Nat
             /\ k = 0 => Played(k + 1) >= 4000 \/ Played(k + 1) >= job.audio - 40
             /\ job.probed /\ k # 0 =>
                   \/ Played(k + 1) >= 3500 - CutMs
                   \/ Played(k + 1) >= job.audio - 3500 * k - 540 - CutMs
  BY <1>3, ChunkPlayed
<1> DEFINE S == {k \in 0 .. n : HeardBy(f[k + 1], k, job)}
<1>5. 0 \in S
  <2>1. PICK z \in 0 .. n : 0 = z
    OBVIOUS
  <2>2. PICK y \in Nat : f[z + 1] = y /\ (y >= 4000 \/ y >= job.audio - 40)
    BY <1>2, <1>3, <1>4, <2>1
  <2>3. Off(z) = 0
    BY <2>1, OffBy
  <2>4. PICK a \in Nat : job.audio = a
    BY PlanMsType
  <2>5. HeardBy(y, z, job)
    BY <2>1, <2>2, <2>3, <2>4 DEF HeardBy
  <2>. QED
    BY <2>1, <2>2, <2>5
<1> HIDE DEF S
<1>6. ASSUME NEW k \in 0 .. n - 1, k \in S PROVE k + 1 \in S
  <2>1. PICK h \in 0 .. n : k + 1 = h /\ h # 0 /\ k \in Nat
    OBVIOUS
  <2>2. PICK x \in Int, y \in Nat : f[h] = x /\ Played(h + 1) = y /\ f[h + 1] = x + y
    <3>1. f[h] \in Int /\ Played(h + 1) \in Nat /\ f[h + 1] = f[h] + Played(h + 1)
      BY <1>3, <1>4
    <3>. QED
      BY <3>1
  <2>3. Adds(y, h, job)
    BY <1>4, <2>1, <2>2 DEF Adds
  <2>4. HeardBy(x, k, job)
    BY <1>6, <2>1, <2>2 DEF S
  <2>5. HeardBy(x + y, h, job)
    BY <2>1, <2>3, <2>4, HeardNext
  <2>. QED
    BY <2>1, <2>2, <2>5 DEF S
<1>7. n \in S
  <2>1. \A k \in 0 .. n : k \in S
    BY <1>5, <1>6, n \in Nat, IndUpTo, Zenon
  <2>. QED
    BY <2>1
<1>8. f[n + 1] = PlayedBefore(i) /\ f[n + 1] \in Int
  BY <1>1, <1>2
<1>. QED
  BY <1>7, <1>8 DEF S

LEMMA AbsWithin ==
    ASSUME NEW x \in Int, NEW b \in Int, x <= b, x >= -b
    PROVE  Abs(x) <= b
  BY DEF Abs

\* There is audio after the overlap of window k.
PastOverlap(j, k) == j.probed /\ 3500 * k + 500 <= j.audio

\* Such a window, if it is not the first, follows one that is full.
LEMMA ChunkLate ==
    ASSUME TypeOK, AtWork, PartsOfChunks, CutsMade, job.kind = "chunks", job \in Inputs,
           NEW l \in Nat, l # 0, l + 1 \in 1 .. Len(cuts), NEW i, i - 1 = l, PastOverlap(job, l)
    PROVE  /\ PlayedBefore(i) - (3500 * l + cuts[l + 1]) <= Off(l)
           /\ PlayedBefore(i) - (3500 * l + cuts[l + 1]) >= -Off(l)
<1>1. PICK a \in Nat, n \in Nat : job.audio = a /\ n + 1 = l
  BY PlanMsType
<1>2. n + 1 \in 1 .. Len(cuts) /\ FullWindow(job, n)
  BY <1>1 DEF PastOverlap, FullWindow, CutsMade
<1>3. PICK x \in Int : PlayedBefore(i) = x /\ AtWindow(x, n)
  <2>1. i - 1 = n + 1
    BY <1>1
  <2>2. PlayedBefore(i) \in Int /\ AtWindow(PlayedBefore(i), n)
    BY <1>2, <2>1, ChunkRun
  <2>. QED
    BY <2>2
<1>4. PICK u \in Nat : cuts[l + 1] = u /\ u >= 500 - CutMs /\ u <= 500 + CutMs
  <2>1. cuts[l + 1] >= 500 - CutMs /\ cuts[l + 1] <= 500 + CutMs
    BY ChunkPlayed DEF PastOverlap
  <2>2. cuts[l + 1] \in Nat
    BY DEF CutsMade
  <2>. QED
    BY <2>1, <2>2
<1>5. PICK c \in Nat, w \in Nat : CutMs = c /\ Off(n) = w /\ Off(l) = w + c
  <2>1. Off(n + 1) = Off(n) + CutMs /\ Off(n) \in Nat /\ CutMs \in Nat
    BY OffBy
  <2>. QED
    BY <1>1, <2>1
<1>6. x - (3500 * l + u) <= w + c /\ x - (3500 * l + u) >= -(w + c)
  BY <1>1, <1>3, <1>4, <1>5 DEF AtWindow
<1>. QED
  BY <1>3, <1>4, <1>5, <1>6

\* Before the first part nothing is played and nothing is cut.
LEMMA FirstPart ==
    ASSUME AtWork, CutsMade, NEW i \in DOMAIN cuts, i = 1
    PROVE  PlayedBefore(i) = 0 /\ cuts[i] = 0
<1>1. PICK z \in 0 .. Len(cuts) : 0 = z /\ i - 1 = z
  BY DEF CutsMade
<1>2. PlayedBefore(i) = 0
  BY <1>1, PlayedRun DEF AtWork
<1>3. cuts[i] = 0
  BY Trimmed, CutNear DEF AtWork
<1>. QED
  BY <1>2, <1>3

LEMMA PartsStayInStep ==
    ASSUME TypeOK, AtWork, PartsOfText, PartsOfChunks, CutsMade
    PROVE  PartsInStep
<1> SUFFICES ASSUME pc = "encode", NEW i \in DOMAIN cuts
             PROVE  LET late == PlayedBefore(i) - (parts[i].start + cuts[i]) IN
                    IF job.kind = "chunks"
                    THEN job.probed /\ (i = 1 \/ parts[i].start + 500 <= job.audio)
                             => Abs(late) <= (i - 1) * CutMs
                    ELSE parts[i].start < Min({parts[i].end, job.audio})
                             => Abs(late) <= (i - 1) * (PacketMs + 60) + i
  BY DEF PartsInStep, OverlapMs
<1>1. job \in Inputs
  BY DEF TypeOK, AtWork
<1>2. PICK m \in 0 .. Len(cuts) : i - 1 = m /\ m + 1 = i /\ m + 1 \in 1 .. Len(cuts)
  BY DEF CutsMade
<1>b. i \in DOMAIN parts /\ parts[i] \in PartType /\ cuts[i] \in Nat
  BY Trimmed DEF AtWork
<1>3. CASE job.kind = "chunks" /\ job.probed /\ (i = 1 \/ parts[i].start + 500 <= job.audio)
  <2>1. parts[i].start = 3500 * m
    <3>1. ChunkPart(parts[i], job, i)
      BY <1>b, <1>3 DEF PartsOfChunks
    <3>2. Chunk(i).start = 3500 * m
      BY <1>2 DEF Chunk, ChunkMs, OverlapMs
    <3>. QED
      BY <3>1, <3>2 DEF ChunkPart
  <2>2. CASE m = 0
    <3>1. PlayedBefore(i) = 0 /\ cuts[i] = 0
      BY <1>2, <2>2, FirstPart
    <3>2. PICK b \in Nat : Off(m) = b
      BY <1>2, OffBy DEF CutsMade
    <3>3. Abs(PlayedBefore(i) - (parts[i].start + cuts[i])) <= b
      <4>1. PlayedBefore(i) - (parts[i].start + cuts[i]) = 0
        BY <2>1, <2>2, <3>1
      <4>. QED
        BY <3>2, <4>1 DEF Abs
    <3>. QED
      BY <1>2, <1>3, <3>2, <3>3 DEF Off
  <2>3. CASE m # 0
    <3>1. m \in Nat /\ m # 0 /\ i # 1
      BY <1>2, <2>3 DEF CutsMade
    <3>2. job.kind = "chunks" /\ PastOverlap(job, m)
      BY <1>3, <2>1, <3>1 DEF PastOverlap
    <3>3. PICK u \in Nat : cuts[i] = u /\ cuts[m + 1] = u
      BY <1>2, <1>b
    <3>4. PlayedBefore(i) - (3500 * m + u) <= Off(m) /\ PlayedBefore(i) - (3500 * m + u) >= -Off(m)
      <4>1. /\ PlayedBefore(i) - (3500 * m + cuts[m + 1]) <= Off(m)
            /\ PlayedBefore(i) - (3500 * m + cuts[m + 1]) >= -Off(m)
        BY <1>1, <1>2, <3>1, <3>2, ChunkLate
      <4>. QED
        BY <3>3, <4>1
    <3>5. PICK x \in Int : PlayedBefore(i) = x
      BY <1>2, PlayedRun DEF AtWork
    <3>6. PICK b \in Nat : Off(m) = b
      BY <3>1, OffBy
    <3>7. Abs(x - (3500 * m + u)) <= b
      BY <3>1, <3>4, <3>5, <3>6, AbsWithin
    <3>. QED
      BY <1>2, <1>3, <2>1, <3>3, <3>5, <3>6, <3>7 DEF Off
  <2>. QED
    BY <2>2, <2>3
<1>4. CASE job.kind = "text" /\ parts[i].start < Min({parts[i].end, job.audio})
  <2>1. PICK segs \in Lays(Gestures, PlanMs(job)) : Segments(job) = segs
    BY <1>1, SegmentsLaid
  <2>2. PICK n \in Nat : DOMAIN segs = 1 .. n /\ Len(parts) = n /\ m \in 0 .. n - 1
    <3>1. Len(parts) = Len(segs)
      BY <1>4, <2>1 DEF PartsOfText
    <3>2. DOMAIN segs = 1 .. Len(segs) /\ Len(segs) \in Nat
      BY DEF Lays
    <3>3. Len(cuts) <= Len(parts) /\ Len(cuts) \in Nat
      BY DEF CutsMade
    <3>. QED
      BY <1>2, <3>1, <3>2, <3>3
  <2>3. PICK f : PartsOf(f, m, segs, job) /\ f[m] = PlayedBefore(i)
    BY <1>1, <1>2, <1>4, <2>1, TextRun
  <2>4. segs[m + 1].start = parts[i].start /\ segs[m + 1].end = parts[i].end
    BY <1>2, <1>b, <1>4, <2>1 DEF PartsOfText, PartOf
  <2>5. PICK s \in Nat, e \in Nat, a \in Nat :
           parts[i].start = s /\ parts[i].end = e /\ job.audio = a
    <3>1. parts[i].start \in Nat /\ parts[i].end \in Nat /\ job.audio \in Nat
      BY <1>1, <1>b, PlanMsType DEF PartType
    <3>. QED
      BY <3>1
  <2>6. s < e /\ s < a
    <3>1. Min({e, a}) = IF e <= a THEN e ELSE a
      BY MinOfTwo
    <3>. QED
      BY <1>4, <2>5, <3>1
  <2>7. /\ f[m] - segs[m + 1].start <= m * (PacketMs + 60) + (m + 1)
        /\ f[m] - segs[m + 1].start >= -(m * (PacketMs + 60) + (m + 1))
    BY <1>1, <2>2, <2>3, <2>4, <2>5, <2>6, PartsLead
  <2>8. PICK g \in Int : PlayedBefore(i) = g /\ f[m] = g
    BY <2>3 DEF PartsOf
  <2>9. PICK b \in Nat : m * (PacketMs + 60) = b
    BY <1>2, VideoAssumption, MuchOf DEF VideoAssumption
  <2>10. g - s <= b + (m + 1) /\ g - s >= -(b + (m + 1))
    BY <2>4, <2>5, <2>7, <2>8, <2>9
  <2>11. Abs(g - s) <= b + (m + 1)
    BY <2>10, AbsWithin
  <2>12. cuts[i] = 0
    BY <1>b, <1>4, Trimmed, CutNear DEF AtWork
  <2>13. Abs(PlayedBefore(i) - (parts[i].start + cuts[i])) <= (i - 1) * (PacketMs + 60) + i
    BY <1>2, <2>5, <2>8, <2>9, <2>11, <2>12
  <2>. QED
    BY <1>4, <2>13
<1>. QED
  BY <1>1, <1>3, <1>4, InputsType

\* The windows of a chunk job end no earlier than its audio, or are as many as
\* there may be.
LEMMA WindowsEnd ==
    ASSUME NEW j \in Inputs
    PROVE  /\ ChunkCount(j) \in Nat /\ ChunkCount(j) >= 1
           /\ j.probed => \/ 3500 * ChunkCount(j) >= j.audio
                          \/ ChunkCount(j) = MaxChunks
<1>1. PICK a \in Nat, w \in Nat : j.audio = a /\ MaxChunks = w /\ w >= 1 /\ (j.probed => a >= 1)
  BY PlanMsType, VideoAssumption DEF VideoAssumption
<1>2. CASE j.probed
  <2>1. PICK q \in Nat : (a + 3500 - 1) \div 3500 = q /\ 3500 * q >= a /\ q >= 1
    BY <1>1, <1>2
  <2>2. Min({w, q}) = IF w <= q THEN w ELSE q
    BY MinOfTwo
  <2>3. ChunkCount(j) = Min({w, q})
    BY <1>1, <1>2, <2>1 DEF ChunkCount, ChunkMs, OverlapMs
  <2>. QED
    BY <1>1, <1>2, <2>1, <2>2, <2>3
<1>3. CASE ~j.probed
  <2>1. Min({w, 16}) = IF w <= 16 THEN w ELSE 16
    BY MinOfTwo
  <2>2. ChunkCount(j) = Min({w, 16})
    BY <1>1, <1>3 DEF ChunkCount
  <2>. QED
    BY <1>1, <1>3, <2>1, <2>2
<1>. QED
  BY <1>2, <1>3

LEMMA MinBelow ==
    ASSUME NEW a \in Int, NEW b \in Int
    PROVE  Min({a, b}) \in Int /\ Min({a, b}) <= a /\ Min({a, b}) <= b
<1>1. Min({a, b}) = IF a <= b THEN a ELSE b
  BY MinOfTwo
<1>. QED
  BY <1>1

LEMMA NotCut ==
    ASSUME NEW m \in Nat, NEW a \in Nat, NEW n \in {m, Min({m, a})}
    PROVE  n \in Nat /\ (n = m \/ n = a)
<1>1. Min({m, a}) = IF m <= a THEN m ELSE a
  BY MinOfTwo
<1>. QED
  BY <1>1

\* The length Encode may give the video: whole, or up to the end of the audio.
Muxed(n) == LET ms == PlayedBefore(Len(parts) + 1) IN n \in {ms, Min({ms, job.audio})}

\* What Encode puts together is heard to the end.
LEMMA HeardToTheEnd ==
    ASSUME TypeOK, AtWork, PartsOfText, PartsOfChunks, CutsMade, pc = "encode",
           Len(cuts) = Len(parts), NEW n, Muxed(n)
    PROVE  /\ n \in Nat
           /\ LET planned == IF job.kind = "text" THEN PlanMs(job)
                             ELSE IF job.probed THEN Chunk(MaxChunks).end ELSE ChunkMs
                  rounded == IF job.kind = "text" THEN 61 * Len(parts) + 1
                             ELSE 40 + (Len(parts) - 1) * CutMs
              IN  n >= Min({job.audio, planned}) - rounded
<1>1. job \in Inputs
  BY DEF TypeOK, AtWork
<1>2. PICK a \in Nat, l \in Nat : job.audio = a /\ Len(parts) = l /\ Len(cuts) = l
  BY <1>1, PlanMsType DEF AtWork
<1>3. ASSUME NEW m \in Nat, PlayedBefore(Len(parts) + 1) = m PROVE n \in Nat /\ (n = m \/ n = a)
  <2>1. n \in {m, Min({m, a})}
    BY <1>2, <1>3 DEF Muxed
  <2>. QED
    BY <2>1, NotCut
<1>4. CASE job.kind = "text"
  <2>1. PICK segs \in Lays(Gestures, PlanMs(job)) :
           Segments(job) = segs /\ segs # <<>> /\ PlanMs(job) - Last(segs).end \in {0, 1}
    BY <1>1, SegmentsLaid
  <2>2. l # 0 /\ DOMAIN segs = 1 .. l /\ Last(segs) = segs[l]
    <3>1. Len(parts) = Len(segs)
      BY <1>4, <2>1 DEF PartsOfText
    <3>2. DOMAIN segs = 1 .. Len(segs) /\ Len(segs) # 0
      BY <2>1 DEF Lays
    <3>. QED
      BY <1>2, <3>1, <3>2 DEF Last
  <2>3. PICK f : PartsOf(f, l, segs, job) /\ f[l] = PlayedBefore(l + 1)
    BY <1>1, <1>2, <1>4, <2>1, TextRun
  <2>4. PICK m \in Nat : PlayedBefore(l + 1) = m /\ (m >= a - 61 * l \/ m >= segs[l].end - 61 * l)
    <3>1. /\ f[l] \in Int /\ f[l] >= 0
          /\ f[l] >= job.audio - 61 * l \/ f[l] >= EndAt(segs, l) - 61 * l
      BY <1>1, <2>2, <2>3, PartsCover
    <3>. QED
      BY <1>2, <2>2, <2>3, <3>1 DEF EndAt
  <2>5. PICK p \in Nat, e \in Nat : PlanMs(job) = p /\ segs[l].end = e /\ p - e \in {0, 1}
    <3>1. segs[l] \in Segs(Gestures)
      BY <2>2 DEF Lays
    <3>. QED
      BY <1>1, <2>1, <2>2, <3>1, PlanMsType DEF Segs
  <2>6. m >= a - (61 * l + 1) \/ m >= p - (61 * l + 1)
    BY <2>4, <2>5
  <2>7. PICK r \in Nat : 61 * l + 1 = r
    OBVIOUS
  <2>8. n \in Nat /\ (n = m \/ n = a)
    BY <1>2, <1>3, <2>4
  <2>9. m >= a - r \/ m >= p - r
    BY <2>6, <2>7
  <2>10. n >= Min({a, p}) - r
    <3>0. a \in Int /\ p \in Int
      OBVIOUS
    <3>1. Min({a, p}) \in Int /\ Min({a, p}) <= a /\ Min({a, p}) <= p
      BY <3>0, MinBelow, Zenon
    <3>. QED
      BY <2>8, <2>9, <3>1
  <2>. QED
    BY <1>2, <1>4, <2>5, <2>7, <2>8, <2>10
<1>5. CASE job.kind = "chunks"
  <2>1. PICK w \in Nat : MaxChunks = w /\ w >= 1
    BY VideoAssumption DEF VideoAssumption
  <2>2. l >= 1 /\ (job.probed => 3500 * l >= a \/ l = w)
    <3>1. ChunkCount(job) = l
      BY <1>2, <1>5 DEF PartsOfChunks
    <3>2. /\ ChunkCount(job) >= 1
          /\ job.probed => \/ 3500 * ChunkCount(job) >= job.audio
                           \/ ChunkCount(job) = MaxChunks
      BY <1>1, WindowsEnd
    <3>. QED
      BY <1>2, <2>1, <3>1, <3>2
  <2>3. PICK k \in Nat : k + 1 = l /\ l - 1 = k
    BY <2>2
  <2>4. PICK o \in Nat : Off(k) = o /\ (Len(parts) - 1) * CutMs = o
    BY <1>2, <2>3, OffBy DEF Off
  <2>5. PICK m \in Nat :
           /\ PlayedBefore(Len(parts) + 1) = m
           /\ \/ m >= a - 40 - o
              \/ m >= 4000 + (IF job.probed THEN 3500 * k ELSE 0) - o
    <3>1. PICK i : i = Len(parts) + 1 /\ i - 1 = k + 1 /\ k + 1 \in 1 .. Len(cuts)
      BY <1>2, <2>3
    <3>2. PlayedBefore(i) \in Int /\ HeardBy(PlayedBefore(i), k, job)
      BY <1>1, <1>5, <3>1, ChunksHeard
    <3>. QED
      BY <1>2, <2>4, <3>1, <3>2 DEF HeardBy
  <2>6. PICK p \in Nat : /\ p = IF job.probed THEN 500 + 3500 * w ELSE 4000
                         /\ (IF job.probed THEN Chunk(MaxChunks).end ELSE ChunkMs) = p
    BY <2>1 DEF Chunk, ChunkMs, OverlapMs
  <2>7. m >= a - (40 + o) \/ m >= p - (40 + o)
    <3>1. CASE job.probed
      BY <2>2, <2>3, <2>5, <2>6, <3>1
    <3>2. CASE ~job.probed
      BY <2>2, <2>3, <2>5, <2>6, <3>2
    <3>. QED
      BY <3>1, <3>2
  <2>8. n \in Nat /\ (n = m \/ n = a)
    BY <1>2, <1>3, <2>5
  <2>9. Min({a, p}) \in Int /\ Min({a, p}) <= a /\ Min({a, p}) <= p
    <3>1. a \in Int /\ p \in Int
      OBVIOUS
    <3>. QED
      BY <3>1, MinBelow, Zenon
  <2>10. n >= Min({a, p}) - (40 + o)
    BY <2>7, <2>8, <2>9
  <2>11. job.kind # "text"
    BY <1>5
  <2>12. (IF job.kind = "text" THEN PlanMs(job)
          ELSE IF job.probed THEN Chunk(MaxChunks).end ELSE ChunkMs) = p
    BY <2>6, <2>11
  <2>13. (IF job.kind = "text" THEN 61 * Len(parts) + 1
          ELSE 40 + (Len(parts) - 1) * CutMs) = 40 + o
    BY <2>4, <2>11
  <2>. QED
    BY <1>2, <2>8, <2>10, <2>12, <2>13
<1>. QED
  BY <1>1, <1>4, <1>5, InputsType

-----------------------------------------------------------------------------
(* The steps.                                                               *)

LEMMA AppendPart ==
    ASSUME NEW s \in Seq(PartType), NEW part \in PartType, NEW n \in Nat, Len(s) = n
    PROVE  /\ Append(s, part) \in Seq(PartType)
           /\ Len(Append(s, part)) = n + 1
           /\ DOMAIN s = 1 .. n /\ DOMAIN Append(s, part) = 1 .. n + 1
           /\ Append(s, part)[n + 1] = part
           /\ \A i \in 1 .. n : Append(s, part)[i] = s[i]
  OBVIOUS

LEMMA SegmentType ==
    ASSUME AtWork, job \in Inputs, Len(parts) < Len(Segments(job))
    PROVE  /\ Segment \in Segs(Gestures)
           /\ Len(parts) + 1 \in 1 .. Len(Segments(job))
<1>1. PICK segs \in Lays(Gestures, PlanMs(job)) : Segments(job) = segs
  BY SegmentsLaid
<1>2. Len(parts) + 1 \in 1 .. Len(segs) /\ DOMAIN segs = 1 .. Len(segs)
  BY <1>1 DEF AtWork, Lays
<1>3. segs[Len(parts) + 1] \in Segs(Gestures)
  BY <1>2 DEF Lays
<1>. QED
  BY <1>1, <1>2, <1>3 DEF Segment

\* The part rendered for a segment.
LEMMA RenderedPart ==
    ASSUME TypeOK, AtWork, PartsOfText, RenderSegment
    PROVE  /\ job \in Inputs /\ job.kind = "text" /\ Len(parts) < Len(Segments(job))
           /\ \E part \in PartType : /\ PartOf(part, job, Segment)
                                     /\ parts' = Append(parts, part)
<1>1. job \in Inputs /\ job.kind = "text" /\ pc = "render" /\ Len(parts) \in Nat
  BY DEF RenderSegment, TypeOK, AtWork
<1>2. Begun <= Len(Segments(job)) /\ slice \in SliceMs(job, Segment) /\ Len(Segments(job)) \in Nat
  BY <1>1, SegmentsLaid DEF PartsOfText, Lays
<1>3. Len(parts) < Len(Segments(job))
  BY <1>1, <1>2 DEF Begun
<1>4. Segment \in Segs(Gestures)
  BY <1>1, <1>3, SegmentType
<1>5. PICK seg \in Segs(Gestures) : Segment = seg
  BY <1>4
<1>6. PICK n \in LengthsOf(slice) :
         parts' = Append(parts, [start |-> seg.start, end |-> seg.end, ms |-> 40 * n,
                                 does  |-> IF seg.does \in job.templates THEN seg.does
                                           ELSE Fallback,
                                 face  |-> 0])
  BY <1>5 DEF RenderSegment, LengthsOf
<1>7. 40 * n \in RenderedFor(job, seg)
  BY <1>2, <1>5 DEF RenderedFor
<1>8. PICK ms \in Nat : 40 * n = ms /\ ms \in RenderedFor(job, seg)
  BY <1>1, <1>7, RenderedNear
<1>9. PICK g \in Gestures : (IF seg.does \in job.templates THEN seg.does ELSE Fallback) = g
  <2>1. Fallback \in Gestures /\ seg.does \in Gestures
    BY DEF Fallback, Gestures, GestureMs, Segs
  <2>. QED
    BY <2>1
<1>10. PICK part : part = [start |-> seg.start, end |-> seg.end, ms |-> ms, does |-> g, face |-> 0]
  OBVIOUS
<1>11. part \in PartType
  BY <1>10 DEF PartType, Segs
<1>12. PartOf(part, job, seg)
  BY <1>8, <1>9, <1>10 DEF PartOf
<1>13. parts' = Append(parts, part)
  BY <1>6, <1>8, <1>9, <1>10
<1>. QED
  BY <1>1, <1>3, <1>5, <1>11, <1>12, <1>13

\* The part of a window, rendered or lost.
WindowAdded == \E part \in PartType : /\ ChunkPart(part, job, Len(parts) + 1)
                                      /\ parts' = Append(parts, part)

LEMMA WindowPart ==
    ASSUME AtWork, job \in Inputs, NEW ms \in ClipMs(job, Chunk(Len(parts) + 1))
    PROVE  NextChunk(ms) \in PartType /\ ChunkPart(NextChunk(ms), job, Len(parts) + 1)
<1>1. PICK n \in Nat, b \in Nat : Len(parts) = n /\ n * 3500 = b
  BY DEF AtWork
<1>2. PICK c : Chunk(n + 1) = c
  OBVIOUS
<1>3. c = [start |-> b, end |-> b + 4000]
  BY <1>1, <1>2 DEF Chunk, ChunkMs, OverlapMs
<1>4. IsWindow(c, b) /\ ms \in ClipMs(job, c)
  BY <1>1, <1>2, <1>3 DEF IsWindow
<1>5. PICK x \in Nat : ms = x
  BY <1>4, ClipNear
<1>6. NextChunk(ms) = [start |-> b, end |-> b + 4000, ms |-> x, does |-> "none", face |-> 0]
  BY <1>1, <1>2, <1>3, <1>5 DEF NextChunk
<1>7. NextChunk(ms) \in PartType
  BY <1>6 DEF PartType
<1>8. ChunkPart(NextChunk(ms), job, n + 1)
  BY <1>2, <1>3, <1>4, <1>5, <1>6 DEF ChunkPart
<1>. QED
  BY <1>1, <1>7, <1>8

LEMMA RenderedWindow ==
    ASSUME TypeOK, AtWork, RenderChunk
    PROVE  WindowAdded
<1>1. job \in Inputs
  BY DEF TypeOK, AtWork, RenderChunk
<1>2. PICK ms \in ClipMs(job, Chunk(Len(parts) + 1)) : parts' = Append(parts, NextChunk(ms))
  BY DEF RenderChunk
<1>. QED
  BY <1>1, <1>2, WindowPart DEF WindowAdded

LEMMA LostWindow ==
    ASSUME TypeOK, AtWork, AttemptFails
    PROVE  \/ tries + 1 < Attempts /\ UNCHANGED <<parts, lost>> /\ tries' = tries + 1
           \/ WindowAdded /\ lost' = lost \cup {Len(parts')} /\ tries' = 0
<1>1. job \in Inputs
  BY DEF TypeOK, AtWork, AttemptFails
<1>2. CASE tries + 1 < Attempts
  BY <1>2 DEF AttemptFails, Retry
<1>3. CASE ~(tries + 1 < Attempts)
  <2>1. parts' = Append(parts, NextChunk(ChunkMs)) /\ lost' = lost \cup {Len(parts')} /\ tries' = 0
    BY <1>3 DEF AttemptFails, LoseChunk
  <2>2. ChunkMs \in ClipMs(job, Chunk(Len(parts) + 1))
    BY DEF ClipMs
  <2>. QED
    BY <1>1, <2>1, <2>2, WindowPart DEF WindowAdded
<1>. QED
  BY <1>2, <1>3

LEMMA WorkStep ==
    ASSUME VInv, Next
    PROVE  AtWork'
<1>0. TypeOK /\ AtWork /\ PartsOfText
  BY DEF VInv
<1>1. ASSUME NEW j \in Inputs, Take(j) PROVE AtWork'
  <2>1. /\ pc = "idle" /\ job' = j /\ parts' = parts /\ skipped' = skipped /\ video' = video
        /\ pc' = IF j.kind = "text" THEN "plan" ELSE "chunk"
    BY <1>1 DEF Take, Goto, work
  <2>2. j # NoJob /\ j.kind \in {"text", "chunks"}
    BY InputsType
  <2>. QED
    BY <1>0, <2>1, <2>2 DEF AtWork
<1>2. CASE Plan
  BY <1>0, <1>2 DEF Plan, Leave, Goto, AtWork
<1>3. CASE Slice
  BY <1>0, <1>3 DEF Slice, Goto, AtWork
<1>4. CASE RenderSegment
  <2>1. PICK part \in PartType : parts' = Append(parts, part)
    BY <1>0, <1>4, RenderedPart
  <2>2. parts' \in Seq(PartType)
    BY <1>0, <2>1, AppendPart DEF AtWork
  <2>. QED
    BY <1>0, <1>4, <2>2 DEF RenderSegment, Goto, AtWork
<1>5. CASE RenderFails \/ SegmentsDone \/ ClipFails \/ ChunksDone \/ Encode \/ EncodeFails
  BY <1>0, <1>5 DEF RenderFails, SegmentsDone, ClipFails, ChunksDone, Encode, EncodeFails, Leave,
                    Goto, AtWork
<1>6. CASE RenderChunk \/ AttemptFails
  <2>1. parts' = parts \/ WindowAdded
    BY <1>0, <1>6, RenderedWindow, LostWindow
  <2>2. parts' \in Seq(PartType)
    BY <1>0, <2>1, AppendPart DEF AtWork, WindowAdded
  <2>3. pc = "chunk" /\ pc' = pc /\ job' = job /\ video' = video
    BY <1>6 DEF RenderChunk, AttemptFails
  <2>. QED
    BY <1>0, <2>2, <2>3 DEF AtWork
<1>7. CASE LeaveJob
  BY <1>0, <1>7 DEF LeaveJob, Forget, Goto, AtWork
<1>8. CASE Trim
  <2>1. pc = "encode" /\ UNCHANGED <<job, pc, parts, skipped, counted, lost, video>>
    BY <1>8 DEF Trim
  <2>. QED
    BY <1>0, <2>1 DEF AtWork
<1>. QED
  BY <1>1, <1>2, <1>3, <1>4, <1>5, <1>6, <1>7, <1>8 DEF Next

LEMMA KeptStep ==
    ASSUME VInv, Next
    PROVE  StyleKept' /\ style' = IF pc' = "idle" THEN "default" ELSE job'.style
<1>0. /\ TypeOK /\ AtWork /\ StyleKept
      /\ style = IF pc = "idle" THEN "default" ELSE job.style
  BY DEF VInv, RenderedAsAsked
<1>1. ASSUME NEW j \in Inputs, Take(j)
      PROVE  StyleKept' /\ style' = IF pc' = "idle" THEN "default" ELSE job'.style
  <2>1. saved'[1] = style /\ style = "default" /\ pc' # "idle"
    BY <1>0, <1>1 DEF Take, Goto, TypeOK
  <2>. QED
    BY <1>1, <2>1 DEF Take, StyleKept
<1>2. CASE Plan
  <2>1. saved'[1] = saved[1] /\ pc = "plan" /\ pc' # "idle" /\ job' = job
    BY <1>0, <1>2 DEF Plan, Goto, Leave, TypeOK
  <2>2. style' = style
    BY <1>0, <1>2, <2>1 DEF Plan
  <2>. QED
    BY <1>0, <2>1, <2>2 DEF StyleKept
<1>3. CASE \/ Slice \/ RenderSegment \/ RenderFails \/ SegmentsDone
           \/ RenderChunk \/ AttemptFails \/ ClipFails \/ ChunksDone
           \/ Trim \/ Encode \/ EncodeFails
  <2>1. pc # "idle" /\ pc' # "idle" /\ job' = job /\ style' = style /\ saved' = saved
    BY <1>3 DEF Slice, RenderSegment, RenderFails, SegmentsDone, RenderChunk, AttemptFails,
                ClipFails, ChunksDone, Trim, Encode, EncodeFails, Goto, Leave
  <2>. QED
    BY <1>0, <2>1 DEF StyleKept
<1>4. CASE LeaveJob
  BY <1>0, <1>4 DEF LeaveJob, Goto, StyleKept
<1>. QED
  BY <1>1, <1>2, <1>3, <1>4 DEF Next

LEMMA CutsStep ==
    ASSUME VInv, Next
    PROVE  CutsMade'
<1>0. TypeOK /\ AtWork /\ CutsMade
  BY DEF VInv
<1>w. AtWork'
  BY WorkStep
<1>1. CASE cuts' = <<>>
  <2>1. Len(parts') \in Nat
    BY <1>w DEF AtWork
  <2>2. cuts' \in Seq(Nat) /\ Len(cuts') = 0 /\ DOMAIN cuts' = {}
    BY <1>1
  <2>. QED
    BY <1>1, <2>1, <2>2 DEF CutsMade
<1>2. CASE UNCHANGED <<job, parts, cuts>> /\ pc' \in {"encode", "leave"}
  <2>1. \A k : Cuts(k)' = Cuts(k)
    BY <1>2 DEF Cuts, TrimMs
  <2>. QED
    BY <1>0, <1>2, <2>1 DEF CutsMade
<1>3. CASE Trim
  <2>1. PICK ms \in Cuts(Len(cuts) + 1) : cuts' = Append(cuts, ms)
    BY <1>3 DEF Trim
  <2>2. PICK n \in Nat, p \in Nat : Len(cuts) = n /\ Len(parts) = p /\ n + 1 <= p
    BY <1>0, <1>3 DEF Trim, AtWork, CutsMade
  <2>3. n + 1 \in DOMAIN parts
    BY <1>0, <2>2 DEF AtWork
  <2>4. ms \in Nat
    BY <1>0, <2>1, <2>2, <2>3, CutNear DEF AtWork
  <2>5. /\ cuts' \in Seq(Nat) /\ Len(cuts') = n + 1 /\ DOMAIN cuts' = 1 .. n + 1
        /\ cuts'[n + 1] = ms /\ \A i \in 1 .. n : cuts'[i] = cuts[i]
    BY <1>0, <2>1, <2>2, <2>4 DEF CutsMade
  <2>6. UNCHANGED <<job, parts>> /\ pc' = "encode"
    BY <1>3 DEF Trim
  <2>7. \A k : Cuts(k)' = Cuts(k)
    BY <2>6 DEF Cuts, TrimMs
  <2>8. ASSUME NEW i \in 1 .. n + 1 PROVE cuts'[i] \in Cuts(i)
    <3>1. CASE i = n + 1
      BY <2>1, <2>2, <2>5, <3>1
    <3>2. CASE i \in 1 .. n
      BY <1>0, <2>2, <2>5, <3>2 DEF CutsMade
    <3>. QED
      BY <3>1, <3>2
  <2>. QED
    BY <2>2, <2>5, <2>6, <2>7, <2>8 DEF CutsMade
<1>4. CASE Encode \/ EncodeFails
  <2>1. UNCHANGED <<job, parts, cuts>> /\ pc' = "leave"
    BY <1>4 DEF Encode, EncodeFails, Leave, Goto
  <2>. QED
    BY <1>2, <2>1
<1>5. CASE LeaveJob
  BY <1>1, <1>5 DEF LeaveJob, Forget
<1>6. CASE Next /\ ~Trim /\ ~Encode /\ ~EncodeFails /\ ~LeaveJob
  <2>1. cuts' = cuts /\ pc \notin {"encode", "leave"}
    BY <1>6 DEF Next, Take, Plan, Slice, RenderSegment, RenderFails, SegmentsDone, RenderChunk,
                AttemptFails, ClipFails, ChunksDone, work
  <2>. QED
    BY <1>0, <1>1, <2>1 DEF CutsMade
<1>. QED
  BY <1>3, <1>4, <1>5, <1>6

LEMMA TypeStep ==
    ASSUME VInv, Next
    PROVE  TypeOK'
<1>0. TypeOK /\ AtWork /\ PartsOfText /\ PartsOfChunks /\ CutsMade
  BY DEF VInv
<1>w. AtWork'
  BY WorkStep
<1>p. (\A i \in DOMAIN parts :
          parts[i] \in [start : Nat, end : Nat, ms : Nat, face : {0},
                        does : Gestures \cup {"none"}])'
  <2>1. parts' \in Seq(PartType)
    BY <1>w DEF AtWork
  <2>2. \A i \in DOMAIN parts' : parts'[i] \in PartType
    BY <2>1
  <2>. QED
    BY <2>2 DEF PartType
<1>c. (cuts \in Seq(Nat) /\ Len(cuts) <= Len(parts))'
  BY CutsStep DEF CutsMade
<1>s. ASSUME NEW s \in Styles
      PROVE  \A i \in 1 .. 2 : /\ [saved EXCEPT ![i] = s] \in Seq(Styles)
                               /\ Len([saved EXCEPT ![i] = s]) = 2
  <2>1. saved \in Seq(Styles) /\ Len(saved) = 2
    BY <1>0 DEF TypeOK, Styles
  <2>. QED
    BY <2>1, ExceptSeq
<1>1. ASSUME NEW j \in Inputs, Take(j) PROVE TypeOK'
  <2>1. j.style \in Styles /\ j.kind \in {"text", "chunks"} /\ style \in Styles
    BY <1>0, InputsType DEF TypeOK, Styles
  <2>2. style' \in Styles /\ saved' \in Seq(Styles) /\ Len(saved') = 2
    BY <1>1, <1>s, <2>1 DEF Take
  <2>3. pc' \in {"plan", "chunk"} /\ job' = j /\ UNCHANGED work
    BY <1>1 DEF Take, Goto
  <2>4. counted = 0 /\ lost = {} /\ parts = <<>>
    BY <1>0, <1>1 DEF Take, AtWork
  <2>5. 0 = Len(<<>>) - Cardinality({})
    BY FS_EmptySet
  <2>. QED
    BY <1>0, <1>p, <1>c, <2>2, <2>3, <2>4, <2>5 DEF TypeOK, Styles, work
<1>2. CASE Plan
  <2>1. job \in Inputs
    BY <1>0, <1>2 DEF Plan, TypeOK, AtWork
  <2>2. style' \in Styles /\ saved' \in Seq(Styles) /\ Len(saved') = 2
    BY <1>0, <1>2, <1>s, <2>1, InputsType DEF Plan, TypeOK, Styles
  <2>3. video' \in [state : {"none", "completed", "degraded", "raised"}, ms : Nat]
    BY <1>0, <1>2 DEF Plan, Leave, Raised, TypeOK
  <2>4. pc' \in {"segment", "leave"}
    BY <1>2 DEF Plan, Leave, Goto
  <2>. QED
    BY <1>0, <1>2, <1>p, <1>c, <2>2, <2>3, <2>4 DEF Plan, TypeOK, Styles
<1>3. CASE Slice
  <2>1. job \in Inputs /\ Len(parts) < Len(Segments(job))
    BY <1>0, <1>3 DEF Slice, TypeOK, AtWork
  <2>2. Segment \in Segs(Gestures)
    BY <1>0, <2>1, SegmentType
  <2>3. slice' \in Nat
    BY <1>3, <2>1, <2>2, SliceNear DEF Slice
  <2>4. skipped' \in Seq(Gestures)
    <3>1. PICK g \in Gestures : Segment.does = g
      BY <2>2 DEF Segs
    <3>2. skipped' = skipped \/ skipped' = Append(skipped, g)
      BY <1>3, <3>1 DEF Slice, Resolve
    <3>3. skipped \in Seq(Gestures)
      BY <1>0 DEF TypeOK
    <3>. QED
      BY <3>2, <3>3
  <2>. QED
    BY <1>0, <1>3, <1>p, <1>c, <2>3, <2>4 DEF Slice, Goto, TypeOK
<1>4. CASE RenderSegment
  <2>1. /\ job.kind = "text"
        /\ \E part \in PartType : parts' = Append(parts, part)
    BY <1>0, <1>4, RenderedPart
  <2>2. DOMAIN parts \subseteq DOMAIN parts'
    BY <1>0, <2>1, AppendPart DEF AtWork
  <2>. QED
    BY <1>0, <1>4, <1>p, <1>c, <2>1, <2>2 DEF RenderSegment, Goto, TypeOK
<1>5. CASE RenderFails \/ SegmentsDone \/ ClipFails \/ ChunksDone \/ EncodeFails
  <2>1. video' \in [state : {"none", "completed", "degraded", "raised"}, ms : Nat]
    BY <1>0, <1>5 DEF RenderFails, SegmentsDone, ClipFails, ChunksDone, EncodeFails, Leave,
                       Raised, TypeOK
  <2>2. pc' \in {"encode", "leave"}
    BY <1>5 DEF RenderFails, SegmentsDone, ClipFails, ChunksDone, EncodeFails, Leave, Goto
  <2>3. UNCHANGED <<job, style, saved, slice, parts, skipped, tries, counted, lost>>
    BY <1>5 DEF RenderFails, SegmentsDone, ClipFails, ChunksDone, EncodeFails
  <2>. QED
    BY <1>0, <1>p, <1>c, <2>1, <2>2, <2>3 DEF TypeOK
<1>6. CASE Encode
  <2>1. PICK n : Muxed(n) /\ video' = [state |-> Verdict, ms |-> n]
    BY <1>6 DEF Encode, Leave, Muxed
  <2>2. n \in Nat
    BY <1>0, <1>6, <2>1, HeardToTheEnd DEF Encode
  <2>3. video' \in [state : {"none", "completed", "degraded", "raised"}, ms : Nat]
    BY <2>1, <2>2 DEF Verdict
  <2>4. pc' = "leave" /\ UNCHANGED <<job, style, saved, slice, parts, skipped, tries, counted, lost>>
    BY <1>6 DEF Encode, Leave, Goto
  <2>. QED
    BY <1>0, <1>p, <1>c, <2>3, <2>4 DEF TypeOK
<1>7. CASE RenderChunk \/ AttemptFails
  <2>1. PICK n \in Nat : Len(parts) = n /\ DOMAIN parts = 1 .. n
    BY <1>0 DEF AtWork
  <2>2. /\ pc = "chunk" /\ job.kind = "chunks"
        /\ UNCHANGED <<job, pc, style, saved, slice, skipped, video>>
    BY <1>0, <1>7 DEF RenderChunk, AttemptFails, AtWork
  <2>3. ASSUME WindowAdded PROVE Len(parts') = n + 1 /\ DOMAIN parts' = 1 .. n + 1
    BY <1>0, <2>1, <2>3, AppendPart DEF AtWork, WindowAdded
  <2>4. lost \subseteq 1 .. n /\ IsFiniteSet(lost) /\ Cardinality(lost) \in Nat
    <3>1. IsFiniteSet(1 .. n) /\ lost \subseteq 1 .. n
      BY <1>0, <2>1, FS_Interval DEF TypeOK
    <3>. QED
      BY <3>1, FS_Subset, FS_CardinalityType
  <2>5. counted \in Nat /\ counted = n - Cardinality(lost)
    BY <1>0, <2>1, <2>2 DEF TypeOK
  <2>6. /\ tries' \in 0 .. Attempts - 1 /\ counted' \in Nat
        /\ lost' \subseteq DOMAIN parts' /\ counted' = Len(parts') - Cardinality(lost')
    <3>1. CASE RenderChunk
      <4>1. WindowAdded
        BY <1>0, <3>1, RenderedWindow
      <4>. QED
        BY <2>1, <2>3, <2>4, <2>5, <3>1, <4>1 DEF RenderChunk, Attempts
    <3>2. CASE AttemptFails /\ UNCHANGED <<parts, lost>> /\ tries' = tries + 1 /\ tries + 1 < Attempts
      BY <1>0, <2>1, <2>4, <2>5, <3>2 DEF AttemptFails, TypeOK, Attempts
    <3>3. CASE AttemptFails /\ WindowAdded /\ lost' = lost \cup {Len(parts')} /\ tries' = 0
      <4>1. lost' = lost \cup {n + 1} /\ counted' = counted
        BY <2>3, <3>3 DEF AttemptFails
      <4>2. Cardinality(lost \cup {n + 1}) = Cardinality(lost) + 1
        <5>1. n + 1 \notin lost
          BY <2>4
        <5>. QED
          BY <2>4, <5>1, FS_AddElement
      <4>. QED
        <5>1. PICK c \in Nat : Cardinality(lost) = c /\ Cardinality(lost') = c + 1
          BY <2>4, <4>1, <4>2
        <5>2. PICK m \in Nat : n + 1 = m /\ Len(parts') = m /\ DOMAIN parts' = 1 .. m
          BY <2>3, <3>3
        <5>3. lost' \subseteq DOMAIN parts'
          BY <2>4, <4>1, <5>2
        <5>. QED
          BY <2>5, <3>3, <4>1, <5>1, <5>2, <5>3 DEF Attempts
    <3>. QED
      BY <1>0, <1>7, <3>1, <3>2, <3>3, LostWindow
  <2>. QED
    BY <1>0, <1>p, <1>c, <2>2, <2>6 DEF TypeOK
<1>8. CASE LeaveJob
  <2>1. style' \in Styles
    BY <1>0, <1>8 DEF LeaveJob, TypeOK, Styles
  <2>2. <<"default", "default">> \in Seq(Styles) /\ Len(<<"default", "default">>) = 2
    BY DEF Styles
  <2>3. NoJob.kind = "none"
    BY DEF NoJob
  <2>4. NoVideo \in [state : {"none", "completed", "degraded", "raised"}, ms : Nat]
    BY DEF NoVideo
  <2>. QED
    BY <1>0, <1>8, <1>p, <1>c, <2>1, <2>2, <2>3, <2>4 DEF LeaveJob, Forget, Goto, TypeOK, Styles, Attempts
<1>9. CASE Trim
  <2>1. UNCHANGED <<job, pc, style, saved, slice, parts, skipped, tries, counted, lost, video>>
    BY <1>9 DEF Trim
  <2>. QED
    BY <1>0, <1>c, <2>1 DEF TypeOK
<1>. QED
  BY <1>1, <1>2, <1>3, <1>4, <1>5, <1>6, <1>7, <1>8, <1>9 DEF Next

LEMMA TextStep ==
    ASSUME VInv, Next
    PROVE  PartsOfText'
<1>0. TypeOK /\ AtWork /\ PartsOfText
  BY DEF VInv
<1>1. ASSUME NEW j \in Inputs, Take(j) PROVE PartsOfText'
  <2>1. /\ job' = j /\ parts' = <<>> /\ pc' \in {"plan", "chunk"}
    BY <1>0, <1>1 DEF Take, Goto, AtWork, work
  <2>2. 0 <= Len(Segments(j))
    BY SegmentsLaid DEF Lays
  <2>3. Begun' = 0 /\ DOMAIN parts' = {}
    BY <2>1 DEF Begun
  <2>. QED
    BY <2>1, <2>2, <2>3 DEF PartsOfText
<1>2. CASE Plan
  <2>1. UNCHANGED <<job, parts>> /\ pc = "plan" /\ pc' \in {"segment", "leave"}
    BY <1>2 DEF Plan, Leave, Goto
  <2>. QED
    BY <1>0, <2>1 DEF PartsOfText, Begun
<1>3. CASE Slice
  <2>1. /\ UNCHANGED <<job, parts>> /\ pc = "segment" /\ pc' = "render"
        /\ Len(parts) < Len(Segments(job)) /\ slice' \in SliceMs(job, Segment)
    BY <1>3 DEF Slice, Goto
  <2>2. Segment' = Segment
    BY <2>1 DEF Segment
  <2>3. Begun' <= Len(Segments(job))
    <3>1. job \in Inputs
      BY <1>0, <2>1 DEF TypeOK, AtWork
    <3>2. Len(Segments(job)) \in Nat /\ Len(parts) \in Nat
      BY <1>0, <3>1, SegmentsLaid DEF AtWork, Lays
    <3>. QED
      BY <2>1, <3>2 DEF Begun
  <2>. QED
    BY <1>0, <2>1, <2>2, <2>3 DEF PartsOfText
<1>4. CASE RenderSegment
  <2>1. job \in Inputs /\ job.kind = "text" /\ Len(parts) < Len(Segments(job))
    BY <1>0, <1>4, RenderedPart
  <2>2. PICK part \in PartType : PartOf(part, job, Segment) /\ parts' = Append(parts, part)
    BY <1>0, <1>4, RenderedPart
  <2>3. PICK n \in Nat, l \in Nat : Len(parts) = n /\ Len(Segments(job)) = l /\ n + 1 <= l
    <3>1. Len(parts) \in Nat /\ Len(Segments(job)) \in Nat
      BY <1>0, <2>1, SegmentsLaid DEF AtWork, Lays
    <3>. QED
      BY <2>1, <3>1
  <2>4. /\ Len(parts') = n + 1 /\ DOMAIN parts' = 1 .. n + 1 /\ DOMAIN parts = 1 .. n
        /\ parts'[n + 1] = part /\ \A i \in 1 .. n : parts'[i] = parts[i]
    BY <1>0, <2>2, <2>3, AppendPart DEF AtWork
  <2>5. job' = job /\ pc' = "segment"
    BY <1>4 DEF RenderSegment, Goto
  <2>6. ASSUME NEW i \in 1 .. n + 1 PROVE PartOf(parts'[i], job, Segments(job)[i])
    <3>1. CASE i = n + 1
      BY <2>2, <2>3, <2>4, <3>1 DEF Segment
    <3>2. CASE i \in 1 .. n
      BY <1>0, <2>1, <2>4, <3>2 DEF PartsOfText
    <3>. QED
      BY <3>1, <3>2
  <2>7. Begun' <= Len(Segments(job))
    BY <2>3, <2>4, <2>5 DEF Begun
  <2>. QED
    BY <2>4, <2>5, <2>6, <2>7 DEF PartsOfText
<1>5. CASE RenderFails \/ SegmentsDone
  <2>1. UNCHANGED <<job, parts>> /\ Len(parts) \in Nat
    BY <1>0, <1>5 DEF RenderFails, SegmentsDone, AtWork
  <2>2. \/ pc = "render" /\ pc' = "leave"
        \/ pc = "segment" /\ pc' = "encode" /\ Len(parts) = Len(Segments(job))
    BY <1>5 DEF RenderFails, SegmentsDone, Leave, Goto
  <2>3. job.kind = "text" /\ job \in Inputs
    BY <1>0, <2>2 DEF AtWork, TypeOK
  <2>4. Len(Segments(job)) \in Nat
    BY <2>3, SegmentsLaid DEF Lays
  <2>5. Begun' <= Len(Segments(job))
    BY <1>0, <2>1, <2>2, <2>3, <2>4 DEF PartsOfText, Begun
  <2>. QED
    BY <1>0, <2>1, <2>2, <2>3, <2>5 DEF PartsOfText
<1>6. CASE RenderChunk \/ AttemptFails \/ ClipFails \/ ChunksDone
  <2>1. job' = job /\ pc = "chunk"
    BY <1>6 DEF RenderChunk, AttemptFails, ClipFails, ChunksDone
  <2>. QED
    BY <1>0, <2>1 DEF AtWork, PartsOfText
<1>7. CASE Encode \/ EncodeFails
  <2>1. UNCHANGED <<job, parts>> /\ pc = "encode" /\ pc' = "leave"
    BY <1>7 DEF Encode, EncodeFails, Leave, Goto
  <2>. QED
    BY <1>0, <2>1 DEF PartsOfText, Begun
<1>8. CASE LeaveJob
  BY <1>8 DEF LeaveJob, Forget, PartsOfText, NoJob
<1>9. CASE Trim
  <2>1. UNCHANGED <<job, parts, pc>> /\ pc = "encode"
    BY <1>9 DEF Trim
  <2>. QED
    BY <1>0, <2>1 DEF PartsOfText, Begun
<1>. QED
  BY <1>1, <1>2, <1>3, <1>4, <1>5, <1>6, <1>7, <1>8, <1>9 DEF Next

LEMMA NotedStep ==
    ASSUME VInv, Next
    PROVE  MissingNoted'
<1>0. TypeOK /\ AtWork /\ MissingNoted
  BY DEF VInv
<1>1. ASSUME NEW j \in Inputs, Take(j) PROVE MissingNoted'
  <2>1. pc' \in {"plan", "chunk"}
    BY <1>1 DEF Take, Goto
  <2>. QED
    BY <2>1 DEF MissingNoted
<1>2. CASE Plan
  <2>1. CASE pc' = "segment"
    <3>1. /\ job' = job /\ Fallback \in job.templates /\ skipped' = <<>> /\ parts' = <<>>
      BY <1>0, <1>2, <2>1 DEF Plan, Leave, Goto, AtWork
    <3>2. Begun' = 0
      BY <2>1, <3>1 DEF Begun
    <3>. QED
      BY <3>1, <3>2 DEF MissingNoted
  <2>2. CASE pc' # "segment"
    BY <1>2, <2>2 DEF Plan, Leave, Goto, MissingNoted
  <2>. QED
    BY <2>1, <2>2
<1>3. CASE Slice
  <2>1. PICK n \in Nat : Len(parts) = n
    BY <1>0 DEF AtWork
  <2>2. /\ pc = "segment" /\ pc' = "render" /\ UNCHANGED <<job, parts>> /\ job.kind = "text"
        /\ skipped' = IF Segment.does \in job.templates THEN skipped
                      ELSE Append(skipped, Segment.does)
    BY <1>0, <1>3 DEF Slice, Resolve, Goto, AtWork
  <2>3. Begun = n /\ Begun' = n + 1
    BY <2>1, <2>2 DEF Begun
  <2>4. Segment = Segments(job)[n + 1]
    BY <2>1 DEF Segment
  <2>5. /\ Fallback \in job.templates
        /\ (skipped = <<>>) <=> \A i \in 1 .. n : Segments(job)[i].does \in job.templates
    BY <1>0, <2>2, <2>3 DEF MissingNoted
  <2>6. (\A i \in 1 .. n + 1 : Segments(job)[i].does \in job.templates)
           <=> /\ \A i \in 1 .. n : Segments(job)[i].does \in job.templates
               /\ Segment.does \in job.templates
    BY <2>4
  <2>7. (skipped' = <<>>) <=> (skipped = <<>> /\ Segment.does \in job.templates)
    <3>1. skipped \in Seq(Gestures)
      BY <1>0 DEF TypeOK
    <3>. QED
      BY <2>2, <3>1
  <2>8. (skipped' = <<>>) <=> \A i \in 1 .. n + 1 : Segments(job)[i].does \in job.templates
    BY <2>5, <2>6, <2>7
  <2>. QED
    BY <2>2, <2>3, <2>5, <2>8 DEF MissingNoted
<1>4. CASE RenderSegment
  <2>1. /\ job.kind = "text" /\ pc = "render" /\ pc' = "segment"
        /\ UNCHANGED <<job, skipped>>
    BY <1>0, <1>4 DEF RenderSegment, Goto, AtWork
  <2>2. PICK part \in PartType : parts' = Append(parts, part)
    BY <1>0, <1>4, RenderedPart DEF VInv
  <2>3. Begun' = Begun
    BY <1>0, <2>1, <2>2 DEF Begun, AtWork
  <2>. QED
    BY <1>0, <2>1, <2>3 DEF MissingNoted
<1>5. CASE SegmentsDone
  <2>1. /\ job.kind = "text" /\ pc = "segment" /\ pc' = "encode"
        /\ UNCHANGED <<job, skipped, parts>>
    BY <1>0, <1>5 DEF SegmentsDone, Goto, AtWork
  <2>2. Begun' = Begun
    BY <2>1 DEF Begun
  <2>. QED
    BY <1>0, <2>1, <2>2 DEF MissingNoted
<1>6. CASE RenderChunk \/ AttemptFails \/ ClipFails \/ ChunksDone
  <2>1. job' = job /\ pc = "chunk"
    BY <1>6 DEF RenderChunk, AttemptFails, ClipFails, ChunksDone
  <2>. QED
    BY <1>0, <2>1 DEF AtWork, MissingNoted
<1>7. CASE RenderFails \/ Encode \/ EncodeFails \/ LeaveJob
  <2>1. pc' \in {"leave", "idle"}
    BY <1>7 DEF RenderFails, Encode, EncodeFails, LeaveJob, Leave, Goto
  <2>. QED
    BY <2>1 DEF MissingNoted
<1>8. CASE Trim
  <2>1. UNCHANGED <<job, parts, pc, skipped>>
    BY <1>8 DEF Trim
  <2>2. Begun' = Begun
    BY <2>1 DEF Begun
  <2>. QED
    BY <1>0, <2>1, <2>2 DEF MissingNoted
<1>. QED
  BY <1>1, <1>2, <1>3, <1>4, <1>5, <1>6, <1>7, <1>8 DEF Next

LEMMA ChunkStep ==
    ASSUME VInv, Next
    PROVE  PartsOfChunks'
<1>0. TypeOK /\ AtWork /\ PartsOfChunks
  BY DEF VInv
<1>1. ASSUME NEW j \in Inputs, Take(j) PROVE PartsOfChunks'
  <2>1. job' = j /\ parts' = <<>> /\ pc' \in {"plan", "chunk"}
    BY <1>0, <1>1 DEF Take, Goto, AtWork, work
  <2>2. ChunkCount(j) \in Nat
    BY WindowsEnd
  <2>3. DOMAIN parts' = {} /\ Len(parts') <= ChunkCount(job')
    BY <2>1, <2>2
  <2>. QED
    BY <2>1, <2>3 DEF PartsOfChunks
<1>2. CASE RenderChunk \/ AttemptFails
  <2>1. /\ pc = "chunk" /\ pc' = pc /\ job' = job /\ job.kind = "chunks" /\ job \in Inputs
        /\ Len(parts) < ChunkCount(job)
    BY <1>0, <1>2 DEF RenderChunk, AttemptFails, AtWork, TypeOK
  <2>2. parts' = parts \/ WindowAdded
    BY <1>0, <1>2, RenderedWindow, LostWindow
  <2>3. PICK n \in Nat, m \in Nat : Len(parts) = n /\ ChunkCount(job) = m /\ n + 1 <= m
    BY <1>0, <2>1, WindowsEnd DEF AtWork
  <2>4. CASE parts' = parts
    BY <1>0, <2>1, <2>4 DEF PartsOfChunks
  <2>5. CASE WindowAdded
    <3>1. PICK part \in PartType : ChunkPart(part, job, n + 1) /\ parts' = Append(parts, part)
      BY <2>3, <2>5 DEF WindowAdded
    <3>2. /\ Len(parts') = n + 1 /\ DOMAIN parts' = 1 .. n + 1 /\ DOMAIN parts = 1 .. n
          /\ parts'[n + 1] = part /\ \A i \in 1 .. n : parts'[i] = parts[i]
      BY <1>0, <2>3, <3>1, AppendPart DEF AtWork
    <3>3. ASSUME NEW i \in 1 .. n + 1 PROVE ChunkPart(parts'[i], job, i)
      <4>1. CASE i = n + 1
        BY <3>1, <3>2, <4>1
      <4>2. CASE i \in 1 .. n
        BY <1>0, <2>1, <3>2, <4>2 DEF PartsOfChunks
      <4>. QED
        BY <4>1, <4>2
    <3>. QED
      BY <2>1, <2>3, <3>2, <3>3 DEF PartsOfChunks
  <2>. QED
    BY <2>2, <2>4, <2>5
<1>3. CASE ChunksDone
  <2>1. UNCHANGED <<job, parts>> /\ Len(parts) = ChunkCount(job)
    BY <1>3 DEF ChunksDone
  <2>. QED
    BY <1>0, <2>1 DEF PartsOfChunks
<1>4. CASE Plan \/ Slice \/ RenderSegment \/ RenderFails \/ SegmentsDone
  <2>1. job' = job /\ pc \in {"plan", "segment", "render"}
    BY <1>4 DEF Plan, Slice, RenderSegment, RenderFails, SegmentsDone
  <2>. QED
    BY <1>0, <2>1 DEF AtWork, PartsOfChunks
<1>5. CASE Encode \/ EncodeFails
  <2>1. UNCHANGED <<job, parts>> /\ pc' = "leave"
    BY <1>5 DEF Encode, EncodeFails, Leave, Goto
  <2>. QED
    BY <1>0, <2>1 DEF PartsOfChunks
<1>6. CASE LeaveJob
  BY <1>6 DEF LeaveJob, Forget, PartsOfChunks, NoJob
<1>7. CASE ClipFails
  <2>1. UNCHANGED <<job, parts>> /\ pc' = "leave"
    BY <1>7 DEF ClipFails, Leave, Goto
  <2>. QED
    BY <1>0, <2>1 DEF PartsOfChunks
<1>8. CASE Trim
  <2>1. UNCHANGED <<job, parts, pc>>
    BY <1>8 DEF Trim
  <2>. QED
    BY <1>0, <2>1 DEF PartsOfChunks
<1>. QED
  BY <1>1, <1>2, <1>3, <1>4, <1>5, <1>6, <1>7, <1>8 DEF Next

\* No other step ends a job with a video.
LEMMA OnlyEncodeEnds ==
    ASSUME VInv, Next, ~Encode
    PROVE  video'.state \notin {"completed", "degraded"}
<1>0. TypeOK /\ AtWork
  BY DEF VInv
<1>1. NoVideo.state = "none" /\ Raised.state = "raised"
  BY DEF NoVideo, Raised
<1>2. CASE pc = "leave"
  <2>1. LeaveJob
    BY <1>2 DEF Next, Take, Plan, Slice, RenderSegment, RenderFails, SegmentsDone, RenderChunk,
                AttemptFails, ClipFails, ChunksDone, Trim, EncodeFails, Encode
  <2>. QED
    BY <1>1, <2>1 DEF LeaveJob, Forget
<1>3. CASE pc # "leave"
  <2>1. video = NoVideo
    BY <1>0, <1>3 DEF AtWork
  <2>2. video' = video \/ video' = Raised
    BY <1>3 DEF Next, Take, Plan, Slice, RenderSegment, RenderFails, SegmentsDone, RenderChunk,
                AttemptFails, ClipFails, ChunksDone, Trim, EncodeFails, LeaveJob, Leave, work
  <2>. QED
    BY <1>1, <2>1, <2>2
<1>. QED
  BY <1>2, <1>3

LEMMA SpokenStep ==
    ASSUME VInv, Next
    PROVE  SpokenToTheEnd'
<1>0. TypeOK /\ AtWork /\ PartsOfText /\ PartsOfChunks /\ CutsMade
  BY DEF VInv
<1>1. CASE Encode
  <2>1. PICK n : Muxed(n) /\ video' = [state |-> Verdict, ms |-> n]
    BY <1>1 DEF Encode, Leave, Muxed
  <2>2. /\ pc = "encode" /\ UNCHANGED <<job, parts>> /\ video'.ms = n
        /\ Len(cuts) = Len(parts)
    BY <1>1, <2>1 DEF Encode
  <2>3. LET planned == IF job.kind = "text" THEN PlanMs(job)
                       ELSE IF job.probed THEN Chunk(MaxChunks).end ELSE ChunkMs
            rounded == IF job.kind = "text" THEN 61 * Len(parts) + 1
                       ELSE 40 + (Len(parts) - 1) * CutMs
        IN  n >= Min({job.audio, planned}) - rounded
    BY <1>0, <2>1, <2>2, HeardToTheEnd
  <2>. QED
    BY <2>2, <2>3 DEF SpokenToTheEnd
<1>2. CASE ~Encode
  BY <1>2, OnlyEncodeEnds DEF SpokenToTheEnd
<1>. QED
  BY <1>1, <1>2

LEMMA AskedStep ==
    ASSUME VInv, Next
    PROVE  RenderedAsAsked'
<1>0. TypeOK /\ AtWork /\ PartsOfText /\ MissingNoted
  BY DEF VInv
<1>s. style' = IF pc' = "idle" THEN "default" ELSE job'.style
  BY KeptStep
<1>1. CASE Encode /\ job.kind = "text"
  <2>1. pc = "encode" /\ UNCHANGED <<job, parts>>
    BY <1>1 DEF Encode
  <2>2. PICK n \in Nat : /\ Len(parts) = n /\ DOMAIN parts = 1 .. n
                         /\ Len(Segments(job)) = n /\ Begun = n
    BY <1>0, <1>1, <2>1 DEF AtWork, PartsOfText, Begun
  <2>3. ASSUME NEW i \in 1 .. n
        PROVE  (parts[i].does = Segments(job)[i].does)
                  <=> (Segments(job)[i].does \in job.templates)
    <3>1. PartOf(parts[i], job, Segments(job)[i])
      BY <1>0, <1>1, <2>2 DEF PartsOfText
    <3>2. Fallback \in job.templates
      BY <1>0, <1>1, <2>1 DEF MissingNoted
    <3>. QED
      BY <3>1, <3>2 DEF PartOf
  <2>4. (skipped = <<>>) <=> \A i \in 1 .. n : Segments(job)[i].does \in job.templates
    BY <1>0, <1>1, <2>1, <2>2 DEF MissingNoted
  <2>5. (video'.state = "completed") <=> (skipped = <<>>)
    BY <1>1 DEF Encode, Leave, Verdict
  <2>6. (video'.state = "completed")
           <=> \A i \in DOMAIN parts : parts[i].does = Segments(job)[i].does
    BY <2>2, <2>3, <2>4, <2>5
  <2>. QED
    BY <1>s, <2>1, <2>2, <2>6 DEF RenderedAsAsked
<1>2. CASE Encode /\ job.kind # "text"
  <2>1. job' = job
    BY <1>2 DEF Encode
  <2>. QED
    BY <1>s, <1>2, <2>1 DEF RenderedAsAsked
<1>3. CASE ~Encode
  BY <1>s, <1>3, OnlyEncodeEnds DEF RenderedAsAsked
<1>. QED
  BY <1>1, <1>2, <1>3

LEMMA VInit ==
    ASSUME Init
    PROVE  VInv
<1>1. NoJob.kind = "none" /\ NoVideo.state = "none"
  BY DEF NoJob, NoVideo
<1>2. NoVideo \in [state : {"none", "completed", "degraded", "raised"}, ms : Nat]
  BY DEF NoVideo
<1>3. <<"default", "default">> \in Seq({"default", "subtle", "expressive"})
      /\ Len(<<"default", "default">>) = 2
  OBVIOUS
<1>4. TypeOK
  BY <1>1, <1>2, <1>3 DEF Init, TypeOK, Attempts
<1>5. AtWork
  BY DEF Init, AtWork
<1>6. StyleKept /\ PartsOfText /\ MissingNoted /\ PartsOfChunks /\ CutsMade
  BY <1>1 DEF Init, StyleKept, PartsOfText, MissingNoted, PartsOfChunks, CutsMade
<1>7. SpokenToTheEnd /\ RenderedAsAsked
  BY <1>1 DEF Init, SpokenToTheEnd, RenderedAsAsked
<1>. QED
  BY <1>4, <1>5, <1>6, <1>7 DEF VInv

LEMMA VStutter ==
    ASSUME VInv, UNCHANGED vars
    PROVE  VInv'
<1>0. UNCHANGED <<job, pc, style, saved, slice, parts, skipped, tries, counted, lost, cuts,
                 video>>
  BY DEF vars, work
<1>1. (TypeOK /\ AtWork)'
  BY <1>0 DEF VInv, TypeOK, AtWork
<1>2. StyleKept' /\ MissingNoted'
  BY <1>0 DEF VInv, StyleKept, MissingNoted, Begun
<1>3. PartsOfText' /\ PartsOfChunks'
  BY <1>0 DEF VInv, PartsOfText, PartsOfChunks, Begun, Segment
<1>4. SpokenToTheEnd' /\ RenderedAsAsked'
  BY <1>0 DEF VInv, SpokenToTheEnd, RenderedAsAsked
<1>5. CutsMade'
  BY <1>0 DEF VInv, CutsMade, Cuts, TrimMs
<1>. QED
  BY <1>1, <1>2, <1>3, <1>4, <1>5 DEF VInv

-----------------------------------------------------------------------------
(* The theorems.                                                            *)

\* The variables of a job are those of the job under way, its parts are its
\* segments or its windows, and what could not be made is written down, whatever
\* fails and whichever job comes next.
THEOREM VideoInv == Spec => []VInv
<1>1. VInv /\ Next => VInv'
  BY TypeStep, WorkStep, KeptStep, TextStep, NotedStep, ChunkStep, CutsStep, SpokenStep,
     AskedStep DEF VInv
<1>2. VInv /\ [Next]_vars => VInv'
  BY <1>1, VStutter
<1>. QED
  BY <1>2, VInit, PTL DEF Spec

\* Every variable keeps its type, and telemetry counts each chunk rendered once.
THEOREM VideoTypes == Spec => []TypeOK
  BY VideoInv, PTL DEF VInv

\* Both plans of a text job (RuleBasedGesturePlanner, text_to_timeline,
\* text_to_face_motion_timeline) cover its audio without gap or overlap, and
\* every planned gesture is made, for every script and every length.
THEOREM PlansTile == Spec => []TimelinesTile
<1>1. VInv => TimelinesTile
  BY TimelinesTiled DEF VInv
<1>. QED
  BY <1>1, VideoInv, PTL

\* What EncodingWorker puts together plays every part where its window of the
\* audio is, up to what its stream copies are off, for any number of parts, any
\* PacketMs and any CutMs of half a frame or more, whichever clips the engines
\* make of the windows.
THEOREM PlayedInStep == Spec => []PartsInStep
<1>1. VInv => PartsInStep
  BY PartsStayInStep DEF VInv
<1>. QED
  BY <1>1, VideoInv, PTL

\* A job that ends with a video has a picture for all that is spoken, but for
\* what is rounded away: the clip a trim leaves nothing of is one the clip before
\* it makes up for.
THEOREM HeardOut == Spec => []SpokenToTheEnd
  BY VideoInv, PTL DEF VInv

\* Every job is rendered in its own style, and a text job reads as completed
\* exactly when every segment has its gesture.
THEOREM AskedIsRendered == Spec => []RenderedAsAsked
  BY VideoInv, PTL DEF VInv
=============================================================================
