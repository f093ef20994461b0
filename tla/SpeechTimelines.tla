--------------------------- MODULE SpeechTimelines ---------------------------
(***************************************************************************)
(* The plans the text pipeline makes of a script before it renders: the     *)
(* gestures of the body (RuleBasedGesturePlanner, text_to_timeline) and the *)
(* motions of the face (RuleBasedFaceMotionPlanner,                         *)
(* text_to_face_motion_timeline), as pure functions of the script and of    *)
(* the length of its audio.                                                 *)
(*                                                                         *)
(* A script is a sequence of lower-case words with a blank between two of   *)
(* them; <<>> is one without words, punctuation only.  Every rule keeps one *)
(* or a few of its words.  Times are in milliseconds, rounded down.         *)
(***************************************************************************)
EXTENDS Integers, Sequences, FiniteSets, SequencesExt

\* The letters of each word; "phone" is here because it contains "one".
Letters == [one |-> 3, two |-> 3, three |-> 5, why |-> 3, vs |-> 2,
            therefore |-> 9, important |-> 9, today |-> 5, great |-> 5,
            good |-> 4, ok |-> 2, avatar |-> 6, phone |-> 5]

Words == DOMAIN Letters

-----------------------------------------------------------------------------
(* The planners: the first word of each family, a word only once.           *)

GestureRules == << [one |-> "count_one", two |-> "count_two", three |-> "count_three"],
                   [why |-> "question"],
                   [vs |-> "comparison"],
                   [therefore |-> "conclusion"],
                   [important |-> "emphasis_small"],
                   [today |-> "open_palms"] >>

FaceRules == << [why |-> "question_face"],
                [important |-> "brow_raise_small", great |-> "brow_raise_small"],
                [good |-> "smile_small", great |-> "smile_small"],
                [ok |-> "nod_small"],
                [therefore |-> "nod_small"] >>

\* The first word of the text that the rule is about, unless another rule was.
AddIntent(found, rule, text) ==
    LET i == SelectInSeq(text, LAMBDA w : w \in DOMAIN rule)
    IN  IF i = 0 \/ \E k \in DOMAIN found : found[k].word = text[i]
        THEN found
        ELSE Append(found, [does |-> rule[text[i]], word |-> text[i]])

Found(text, rules) ==
    FoldLeft(LAMBDA found, rule : AddIntent(found, rule, text), <<>>, rules)

\* The intents of the rules, at most so many; the rest pose when there is none.
Intents(text, rules, rest, most) ==
    LET found == Found(text, rules)
    IN  IF found # <<>> THEN SubSeq(found, 1, Min({most, Len(found)}))
        ELSE << [does |-> rest, word |-> IF text = <<>> THEN "neutral" ELSE text[1]] >>

GestureIntents(text) == Intents(text, GestureRules, "idle_small", 3)
FaceIntents(text)    == Intents(text, FaceRules, "face_idle_soft", 4)

-----------------------------------------------------------------------------
(* Where a word is spoken, by its place in the text.                        *)

Chars(text) == FoldLeft(LAMBDA n, w : n + Letters[w] + 1, -1, text)

\* str.find: the text of a word may also occur inside another one.
Inside(word, other) == IF word = other THEN {0}
                       ELSE IF word = "one" /\ other = "phone" THEN {2}
                       ELSE {}

Offsets(text, word) ==
    UNION {{Chars(SubSeq(text, 1, i - 1)) + 1 + k : k \in Inside(word, text[i])}
              : i \in DOMAIN text}

\* A word that is not in the text counts as spoken at the time missing.
AnchorTime(text, word, d, missing) ==
    IF Offsets(text, word) = {} THEN missing
    ELSE (d * Min(Offsets(text, word))) \div Chars(text)

\* When each intent is spoken, with its number.
Spoken(intents, text, d, missing) ==
    {<<AnchorTime(text, intents[i].word, d, missing), i>> : i \in DOMAIN intents}

\* Spoken no later: before it, or with it and planned before it.
NoLater(q, p) == q[1] < p[1] \/ (q[1] = p[1] /\ q[2] <= p[2])

Place(spoken, p) == Cardinality({q \in spoken : NoLater(q, p)})

\* The intents in the order in which their words are spoken.
InOrder(intents, text, d, missing) ==
    LET spoken == Spoken(intents, text, d, missing)
    IN  [k \in DOMAIN intents |-> intents[(CHOOSE p \in spoken : Place(spoken, p) = k)[2]]]

-----------------------------------------------------------------------------
(* Segments one after the other, the gaps between them filled with rest.    *)

EndOf(segs) == IF segs = <<>> THEN 0 ELSE Last(segs).end

\* A gap of one millisecond or less is left open.
Put(segs, seg, rest) ==
    IF seg.start <= EndOf(segs) + 1 THEN Append(segs, seg)
    ELSE segs \o << [start |-> EndOf(segs), end |-> seg.start, does |-> rest], seg >>

\* Rest up to the end of the audio, when more than a little is left.
PutTail(segs, d, rest, little) ==
    IF d <= EndOf(segs) + little THEN segs
    ELSE Append(segs, [start |-> EndOf(segs), end |-> d, does |-> rest])

GestureMs == [count_one |-> 2500, count_two |-> 2500, count_three |-> 3000,
              question |-> 2500, comparison |-> 3500, conclusion |-> 3500,
              emphasis_small |-> 2000, open_palms |-> 3000, idle_small |-> 4000]

Gestures == DOMAIN GestureMs

\* Variant: the gesture before it is forgotten when it is moved back.
GestureSegmentMovedFar(after, intent, text, d) ==
    LET ms    == GestureMs[intent.does]
        word  == AnchorTime(text, intent.word, d, d \div 2)
        start == Max({after, word - (22 * ms) \div 100})
    IN  IF start + ms <= d THEN [start |-> start, end |-> start + ms, does |-> intent.does]
        ELSE [start |-> Max({0, d - ms}), end |-> d, does |-> intent.does]

\* A gesture starts 22% of its length before its word, never inside the one
\* before it; one that would outlast the audio is moved back and cut.
GestureSegment(after, intent, text, d) ==
    LET ms    == GestureMs[intent.does]
        word  == AnchorTime(text, intent.word, d, d \div 2)
        start == Max({after, word - (22 * ms) \div 100})
    IN  IF start + ms <= d THEN [start |-> start, end |-> start + ms, does |-> intent.does]
        ELSE [start |-> Max({after, d - ms}), end |-> d, does |-> intent.does]

AddGesture(segs, intent, text, d) ==
    Put(segs, GestureSegment(EndOf(segs), intent, text, d), "idle_small")

BodySegments(intents, text, d) ==
    FoldLeft(LAMBDA segs, intent : AddGesture(segs, intent, text, d), <<>>, intents)

BodyTimeline(text, d) ==
    PutTail(BodySegments(InOrder(GestureIntents(text), text, d, d \div 2), text, d),
            d, "idle_small", 1)

FaceMs == [question_face |-> 1200, brow_raise_small |-> 800, smile_small |-> 1000,
           nod_small |-> 1000, face_idle_soft |-> 2500]

Motions == DOMAIN FaceMs

\* A motion of the face starts a quarter of its length before its word, and is
\* cut where it would outlast the audio.
MotionSegment(after, intent, text, d) ==
    LET ms    == FaceMs[intent.does]
        lead  == Max({100, Min({450, ms \div 4})})
        start == Max({after, AnchorTime(text, intent.word, d, 0) - lead})
    IN  [start |-> start, end |-> Min({d, start + ms}), does |-> intent.does]

AddMotion(segs, intent, text, d) ==
    Put(segs, MotionSegment(EndOf(segs), intent, text, d), "face_idle_soft")

FaceSegments(intents, text, d) ==
    FoldLeft(LAMBDA segs, intent : AddMotion(segs, intent, text, d), <<>>, intents)

FaceTimeline(text, d) ==
    PutTail(FaceSegments(InOrder(FaceIntents(text), text, d, 0), text, d),
            d, "face_idle_soft", 0)

\* The motion planned for a moment of the audio.
MotionAt(timeline, t) ==
    LET i == SelectInSeq(timeline, LAMBDA s : s.start <= t /\ t < s.end)
    IN  IF i = 0 THEN "none" ELSE timeline[i].does

-----------------------------------------------------------------------------
(* Dominant mode: the segment with the largest length times intensity.      *)

\* In thousandths.  The rest put into a gap has none and counts as one; the
\* rest that was planned has 200, but then it is the only intent.
Strength == [count_one |-> 850, count_two |-> 850, count_three |-> 850,
             question |-> 750, comparison |-> 800, conclusion |-> 700,
             emphasis_small |-> 900, open_palms |-> 550, idle_small |-> 1]

DominantGesture(timeline) ==
    LET Weight(s) == (s.end - s.start) * Strength[s.does]
    IN  timeline[SelectInSeq(timeline, LAMBDA s :
                    \A k \in DOMAIN timeline : Weight(timeline[k]) <= Weight(s))].does
=============================================================================
