----------------------------- MODULE MCVideoJob -----------------------------
(* Constant values for checking VideoJob with TLC.                          *)
EXTENDS VideoJobProps

TextJob(text, audio, probed, mode, templates, styled) ==
    [kind |-> "text", text |-> text, audio |-> audio, probed |-> probed,
     mode |-> mode, templates |-> templates, style |-> styled, worker |-> TRUE]

ChunkJob(audio, probed, worker, styled) ==
    [kind |-> "chunks", text |-> <<>>, audio |-> audio, probed |-> probed,
     mode |-> "timeline", templates |-> {}, style |-> styled, worker |-> worker]

\* No word, no keyword, one to four gestures in several orders, a keyword
\* inside another word, and one that names two motions of the face.
Scripts == { <<>>, <<"avatar", "good">>,
             <<"avatar", "why", "avatar", "therefore">>,
             <<"today", "avatar", "one", "vs", "two">>,
             <<"important", "avatar", "three", "why", "today">>,
             <<"phone", "therefore", "avatar", "one">>,
             <<"great", "avatar", "ok", "good", "vs">> }

\* Clips too short for one gesture, for several, and long enough for all.
Lengths == {1000, 5010, 9500, 20000}

SomeTemplates == {"idle_small", "question", "count_one", "open_palms"}

TextInputs ==
    {TextJob(s, ms, TRUE, "timeline", ts, "default") :
        s \in Scripts, ms \in Lengths, ts \in {Gestures, SomeTemplates}}
    \cup {TextJob(s, 9500, TRUE, "dominant", SomeTemplates, "expressive") : s \in Scripts}
    \cup {TextJob(s, ms, FALSE, "timeline", Gestures, "subtle") :
             s \in Scripts, ms \in {3000, 12000}}
    \cup {TextJob(<<"avatar", "why">>, 5010, TRUE, mode, ts, "expressive") :
             mode \in {"timeline", "other"}, ts \in {{}, {"question"}, {"idle_small"}}}
    \cup {TextJob(<<"one">>, 2501, TRUE, "timeline", Gestures, "default"),
          TextJob(<<"ok", "one", "avatar", "ok">>, 2939, TRUE, "timeline", Gestures, "default")}

\* Within one window, with some or none of it left beyond the overlap for the
\* last one, at the end of one, past the cap on the windows.
ChunkInputs ==
    {ChunkJob(ms, probed, worker, s) :
        ms \in {400, 3700, 4001, 6980, 7490, 9000, 20000}, probed \in BOOLEAN,
        worker \in BOOLEAN, s \in {"default", "subtle"}}

AllInputs == TextInputs \cup ChunkInputs

\* A short clip with a smile at its end.
FaceInputs ==
    {TextJob(<<"avatar", "why", "avatar", "avatar", "good">>, ms, TRUE, "timeline",
             Gestures, "default") : ms \in {5010, 9500}}
=============================================================================
