--------------------------- MODULE SessionDescription ---------------------------
(***************************************************************************)
(* SessionDescription (sdp): lines of a key and a value, in the section of the        *)
(* session or in one of its times or medias.  A section has its grammar: which keys,     *)
(* in which order they are saved, which of them stand more than once, and which begin    *)
(* a section of their own.  The sections are shared: a media that was added to a        *)
(* session can still be written to.                                                     *)
(***************************************************************************)
EXTENDS Naturals, Sequences, FiniteSets, SequencesExt, TLC

CONSTANTS
    TextLines,      \* the lines of texts from outside: <<key, <<word, number>>>>, with a third member "\r" of the value; <<"bad">> is no line
    MaxLines,       \* bound: lines of such a text
    MaxSections, MaxSteps,  \* bounds: sections, and lines of a text and operations
    SdpOddities     \* what a description does not do, of those below

\* [secs: the sections, the session's first, of each key the items in their order; whole: of a text, that all of it
\*  was placed; ok: what load returned; text: what was loaded; phase; steps; asked: what get gave and should give]
VARIABLE sdp

Session == "session"
Time == "time"
Media == "media"
sequc(def) == CASE def = Session -> <<"v", "o", "s", "i", "u", "e", "p", "c", "b", "t", "z", "k", "a", "m">>
                [] def = Time -> <<"t", "r">>
                [] def = Media -> <<"m", "i", "c", "b", "k", "a">>
KeysOf(def) == ToSet(sequc(def))
First(def) == sequc(def)[1]
Multiple(def) == CASE def = Session -> {"c", "b", "t", "a", "m"} [] def = Time -> {"r"} [] def = Media -> {"c", "b", "a"}
Child(def, key) == def = Session /\ key \in {"t", "m"}
DefOf(key) == IF key = "t" THEN Time ELSE Media

Section(def) == [def |-> def, items |-> [k \in KeysOf(def) |-> << >>]]
Stripped(x) == IF Len(x) = 3 THEN SubSeq(x, 1, 2) ELSE x
Put(secs, s, key, x) == [secs EXCEPT ![s].items[key] = Append(@, x)]

\* Section::add_line: 8: not here, 2: once too often, 4: it begins a child, 0: taken
flag_of(sec, key) ==
    CASE key \notin KeysOf(sec.def) -> 8
      [] key \in KeysOf(sec.def) /\ sec.items[key] # << >> /\ key \notin Multiple(sec.def) ->
             IF key = First(sec.def) THEN 8 ELSE 2
      [] Child(sec.def, key) -> 4
      [] OTHER -> 0
add_line(secs, s, key, x) == IF flag_of(secs[s], key) = 0 THEN Put(secs, s, key, Stripped(x)) ELSE secs
add_child(secs, key) == Append(Put(secs, 1, key, Len(secs) + 1), Section(DefOf(key)))
-----------------------------------------------------------------------------
\* load: each line goes to the section it is in, or to that of the session; the first that fits in neither ends it
load_line(a, l) ==
    LET here == flag_of(a.secs[a.at], l[1])
        up == here = 8 /\ a.at # 1
        s == IF up THEN 1 ELSE a.at
        flag == IF up THEN flag_of(a.secs[1], l[1]) ELSE here
        grown == add_child(a.secs, l[1])
    IN CASE flag = 0 -> [a EXCEPT !.secs = add_line(@, s, l[1], l[2]), !.at = s]
         [] flag = 4 -> [a EXCEPT !.secs = add_line(grown, Len(grown), l[1], l[2]), !.at = Len(grown)]
         [] OTHER -> [a EXCEPT !.ended = TRUE]
\* a line without a key sets failbit, which is cleared again when it was the last one
load(secs, text) ==
    LET step(a, i) == IF a.ended THEN a
                      ELSE IF text[i] = <<"bad">> THEN [a EXCEPT !.ended = TRUE, !.ok = (i = Len(text))]
                      ELSE load_line(a, text[i])
    IN FoldLeft(LAMBDA a, i : step(a, i), [secs |-> secs, at |-> 1, ended |-> FALSE, ok |-> TRUE], [i \in DOMAIN text |-> i])

\* save: the keys in the order of the grammar, a child in the place of its item
lines_of(sec, key) == [i \in DOMAIN sec.items[key] |-> <<key, sec.items[key][i]>>]
save_child(sec) == FlattenSeq([i \in DOMAIN sequc(sec.def) |-> lines_of(sec, sequc(sec.def)[i])])
save_key(secs, key) ==
    IF Child(Session, key)
    THEN FlattenSeq([i \in DOMAIN secs[1].items[key] |-> save_child(secs[secs[1].items[key][i]])])
    ELSE lines_of(secs[1], key)
save(secs) == FlattenSeq([i \in DOMAIN sequc(Session) |-> save_key(secs, sequc(Session)[i])])
\* an empty value makes a line of two characters, which load does not take
Printed(text) == [i \in DOMAIN text |-> IF text[i][2][1] = "" THEN <<"bad">> ELSE text[i]]
-----------------------------------------------------------------------------
\* count_attr, attr_cnt and attr_get: the attributes "key:value" of a section, counted from 0
attrs(sec, key) == SelectSeq(sec.items["a"], LAMBDA x : x[1] = key)
attr_get(sec, key, idx) == IF idx < Len(attrs(sec, key)) THEN <<attrs(sec, key)[idx + 1]>> ELSE << >>
\* the search of get_rtpmap and get_fmtp: the last one if none has the format; 0 asks for the only one
find_fmt_Last(sec, key, fmt) ==
    LET all == attrs(sec, key) IN IF all = << >> \/ (fmt = 0 /\ Len(all) > 1) THEN << >> ELSE <<all[Len(all)]>>
find_fmt(sec, key, fmt) ==
    LET all == attrs(sec, key)
        with == {i \in DOMAIN all : all[i][2] = fmt}
    IN IF fmt = 0 THEN (IF Len(all) > 1 THEN << >> ELSE attr_get(sec, key, 0))
       ELSE IF all = << >> THEN << >>
       ELSE <<all[IF with = {} THEN Len(all) ELSE CHOOSE i \in with : \A j \in with : i <= j]>>
\* get_rtpmap returns whether the stream is not good
get_rtpmap(sec, fmt) == [ok |-> find_fmt(sec, "rtpmap", fmt) = << >>, got |-> find_fmt(sec, "rtpmap", fmt)]
-----------------------------------------------------------------------------
SdpInit ==
    \E t \in {<< >>} \cup UNION {[1..n -> TextLines] : n \in 1..MaxLines} :
        sdp = [secs |-> <<Section(Session)>>, text |-> t, ok |-> TRUE, whole |-> TRUE, phase |-> "new", steps |-> 0,
               asked |-> TRUE]

Stepped(s) == [s EXCEPT !.steps = @ + 1]
Owned == {s \in 2..Len(sdp.secs) : \E k \in {"t", "m"} : \E i \in DOMAIN sdp.secs[1].items[k] : sdp.secs[1].items[k][i] = s}
Headed(secs, s) == secs[s].items[First(secs[s].def)] # << >>
AllHeaded == \A s \in Owned : Headed(sdp.secs, s)

\* where the lines of a text belong: behind a line that begins a section, as long as they have its keys
Begins(t, i) == t[i][1] \in {"t", "m"}
Owner(t, i) == LET starts == {j \in 1..i : Begins(t, j) /\ \A k \in j + 1..i : ~Begins(t, k) /\ t[k][1] \in KeysOf(DefOf(t[j][1]))}
               IN IF starts = {} THEN 0 ELSE CHOOSE j \in starts : TRUE
OwnedBy(t, o, key) == LET of == SelectSeq([i \in DOMAIN t |-> i], LAMBDA i : Owner(t, i) = o /\ t[i][1] = key)
                      IN [n \in DOMAIN of |-> Stripped(t[of[n]][2])]
Starts(t, key) == SelectSeq([i \in DOMAIN t |-> i], LAMBDA i : t[i][1] = key)
Said(t) == [k \in KeysOf(Session) |->
              IF Child(Session, k)
              THEN [n \in DOMAIN Starts(t, k) |-> [c \in KeysOf(DefOf(k)) |-> OwnedBy(t, Starts(t, k)[n], c)]]
              ELSE OwnedBy(t, 0, k)]
\* a text that every grammar of its sections allows
Wellformed(t) ==
    /\ \A i \in DOMAIN t : t[i] # <<"bad">>
    /\ \A i \in DOMAIN t : t[i][1] \in KeysOf(IF Owner(t, i) = 0 THEN Session ELSE DefOf(t[Owner(t, i)][1]))
    /\ \A i, j \in DOMAIN t : i < j /\ t[i][1] = t[j][1] /\ Owner(t, i) = Owner(t, j)
            => t[i][1] \in Multiple(IF Owner(t, i) = 0 THEN Session ELSE DefOf(t[Owner(t, i)][1]))
\* what a description holds
Held(secs) == [k \in KeysOf(Session) |->
                 IF Child(Session, k) THEN [n \in DOMAIN secs[1].items[k] |-> secs[secs[1].items[k][n]].items]
                 ELSE secs[1].items[k]]
BadInTheMiddle(t) == \E i \in DOMAIN t : t[i] = <<"bad">> /\ i < Len(t) /\ Wellformed(SubSeq(t, 1, i - 1))

Load ==
    /\ sdp.phase = "new" /\ sdp.text # << >>
    /\ Wellformed(sdp.text) \/ BadInTheMiddle(sdp.text) \/ "unplaced" \in SdpOddities
    /\ LET a == load(sdp.secs, sdp.text)
       IN sdp' = [sdp EXCEPT !.secs = a.secs, !.ok = a.ok, !.phase = "loaded", !.steps = Len(sdp.text),
                             !.whole = (a.ok <=> Wellformed(sdp.text)) /\ (a.ok => Held(a.secs) = Said(sdp.text))]

\* the program writes a description of its own, or to one that was loaded
Rests == sdp.ok /\ sdp.phase = IF sdp.text = << >> THEN "new" ELSE "loaded"
Writing == Rests /\ sdp.steps < MaxSteps
ValuesFor(key) == IF key = "a" THEN {<<"rtpmap", 96>>, <<"rtpmap", 97>>, <<"u", 0>>} ELSE {<<"u", 0>>}
desc_add(s, key, x) == /\ Writing
                       /\ sdp' = Stepped([sdp EXCEPT !.secs = add_line(@, s, key, x)])
DescAdd == \E s \in DOMAIN sdp.secs : \E key \in {"v", "a", "k"} \cup {First(sdp.secs[s].def)} : \E x \in ValuesFor(key) : desc_add(s, key, x)
ChildAdd == /\ Writing /\ Len(sdp.secs) < MaxSections
            /\ \E key \in {"t", "m"} : sdp' = Stepped([sdp EXCEPT !.secs = add_child(@, key)])
\* a media on its own, and added, perhaps more than once
MediaMake == /\ Writing /\ Len(sdp.secs) < MaxSections
             /\ sdp' = Stepped([sdp EXCEPT !.secs = Append(@, Section(Media))])
media_add == /\ Writing
             /\ \E s \in 2..Len(sdp.secs) : sdp.secs[s].def = Media /\ sdp' = Stepped([sdp EXCEPT !.secs = Put(@, 1, "m", s)])

\* saved and loaded by another description
SaveLoad ==
    /\ Rests
    /\ AllHeaded \/ "headless" \in SdpOddities
    /\ LET text == Printed(save(sdp.secs))
           a == load(<<Section(Session)>>, text)
       IN sdp' = [sdp EXCEPT !.whole = a.ok /\ ~a.ended /\ Held(a.secs) = Held(sdp.secs), !.phase = "saved"]

Ask ==
    /\ Rests
    /\ \E s \in Owned : \E fmt \in {0, 96, 97} :
        LET sec == sdp.secs[s]
            all == attrs(sec, "rtpmap")
            r == get_rtpmap(sec, fmt)
            one == IF fmt = 0 THEN Len(all) = 1 ELSE \E i \in DOMAIN all : all[i][2] = fmt
        IN /\ sec.def = Media /\ (one \/ all = << >> \/ fmt = 0 \/ "missing" \in SdpOddities)
           /\ sdp' = [sdp EXCEPT !.phase = "asked",
                                 !.asked = (r.got # << >>) = one /\ (one /\ fmt # 0 => r.got[1][2] = fmt)
                                           /\ ("inverted" \in SdpOddities => r.ok = one)]

SdpNext == Load \/ DescAdd \/ ChildAdd \/ MediaMake \/ media_add \/ SaveLoad \/ Ask
-----------------------------------------------------------------------------
(* A text that its grammar allows is taken whole, each line into the section it         *)
(* belongs to; one with a line that is none is refused; what a description holds,        *)
(* however it was written, is there again after it was saved and loaded; and the map        *)
(* that is asked for by its format is the one that is found                               *)
(* (SessionDescription.cpp:387-430, 614-635).                                              *)
DescriptionsKeep == sdp.whole /\ sdp.asked
=============================================================================
