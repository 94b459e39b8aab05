------------------------------- MODULE HttpHeads -------------------------------
(***************************************************************************)
(* The head of a request or a response: HttpHead, which keeps the fields it knows       *)
(* (with HttpHeadIArchive, HttpHeadOArchive and HttpHeadVisitor of HttpArchive.h)        *)
(* apart from the others, and CMsgHead, which keeps them all in one map.               *)
(* To its users a head is a line and, of each name, the values given to it; told          *)
(* keeps those.  A text is a line and a sequence of pairs of a name and a value.          *)
(***************************************************************************)
EXTENDS Naturals, Sequences, FiniteSets, SequencesExt, TLC

CONSTANTS
    Lengths,    \* values of Content-Length, one of which may be "bad": no number
    FieldWords, \* values of the other fields
    MaxLines,   \* bound: fields of a text from outside
    MaxSteps,   \* bound: operations on a head
    Limit,      \* the numbers of a range are below it (2^64)
    Ranges,     \* the values of Range: <<b, "to", e>>, <<b, "on">>, <<e, "last">>, <<b, "only">>
    Reasons,    \* reason phrases; "" is none
    Methods,    \* methods, one of which may be unknown to method_str
    Oddities    \* what a head does not do as it is told, of those below

\* [kind, line, typed: the fields of their own members, pragma, other: other_fields_ (all fields of a CMsgHead),
\*  told: what the fields were made, text: what get_content printed, shown: it shows a line and fields it was told of,
\*  sound: set_content has not failed since, steps]
VARIABLE head

Optional == {"Host", "Content-Length", "Range"}
Typed == Optional \cup {"Pragma"}
Names == Typed \cup {"X"}
Kinds == {"request", "response", "cmsg"}
None == << >>

Put(f, n, x) == [m \in DOMAIN f \cup {n} |-> IF m = n THEN x ELSE f[m]]
Without(f, n) == [m \in DOMAIN f \ {n} |-> f[m]]
ValuesOf(text, n) == LET of == SelectSeq(text, LAMBDA l : l[1] = n) IN [i \in DOMAIN of |-> of[i][2]]
NamesOf(text) == {text[i][1] : i \in DOMAIN text}
AllOf(text) == [n \in NamesOf(text) |-> ValuesOf(text, n)]
-----------------------------------------------------------------------------
(* the first line *)

Lines(kind) == IF kind = "request" THEN Methods ELSE Reasons
KnownMethods == {"GET", "POST", "PUT", "HEAD"}
\* HttpRequestHead::set_line: a method it does not know is invalid_method
request_set_line(m) == IF m \in KnownMethods THEN m ELSE "invalid_method"
\* HttpResponseHead::set_line: the line was trimmed, and without a blank behind the code the stream has failed
response_set_line(r) == r # ""
LineRead(kind, l) == IF kind = "request" THEN request_set_line(l) ELSE l
LineFails(kind, l) == kind # "request" /\ ~response_set_line(l)
-----------------------------------------------------------------------------
(* RangeUnitT: where it begins, where it ends (one behind the last), whether it does *)

RangeUnit(b, e, has) == [b |-> b, e |-> e, has_end |-> has]
unit_from_string(t) ==
    CASE t[2] = "to" -> RangeUnit(t[1], (t[3] + 1) % Limit, TRUE)
      [] t[2] = "on" -> RangeUnit(t[1], 0, FALSE)
      [] t[2] = "last" -> RangeUnit((Limit - t[1]) % Limit, 0, FALSE)
      [] t[2] = "only" -> RangeUnit(t[1], (t[1] + 1) % Limit, TRUE)
unit_to_string(u) == IF u.has_end THEN <<u.b, "to", (u.e + Limit - 1) % Limit>> ELSE <<u.b, "on">>

TextsOf(n) ==
    CASE n = "Content-Length" -> Lengths
      [] n = "Range" -> {t \in Ranges : t[2] \in {"to", "on"} \/ "range" \in Oddities}
      [] OTHER -> FieldWords
\* parse2 and format2 of a field's type
Parses(n, x) == ~(n = "Content-Length" /\ x = "bad")
Parsed(n, x) == IF n = "Range" THEN unit_from_string(x) ELSE x
Formatted(n, v) == IF n = "Range" THEN unit_to_string(v) ELSE v
-----------------------------------------------------------------------------
(* HttpHeadIArchive: the fields found by their names, each taken out once it was loaded *)

\* load(optional<T>), then load_end: a: what is left, the head so far, and whether all went well
load_optional(a, n) ==
    LET vs == IF n \in DOMAIN a.fields THEN a.fields[n] ELSE << >>
    IN IF ~a.ok THEN a
       ELSE IF vs = << >> THEN [a EXCEPT !.head.typed[n] = None]
       ELSE IF Len(vs) > 1 \/ ~Parses(n, vs[1]) THEN [a EXCEPT !.ok = FALSE]
       ELSE [a EXCEPT !.head.typed[n] = <<Parsed(n, vs[1])>>, !.fields = Without(@, n)]
\* load of a collection, within sub_start and sub_end: as many items as the field has values
load_vector(a, n) ==
    IF ~a.ok THEN a
    ELSE [a EXCEPT !.head.pragma = IF n \in DOMAIN a.fields THEN a.fields[n] ELSE << >>,
                   !.fields = Without(@, n)]
serialize_load(h, fields) ==
    LET start == [head |-> h, fields |-> fields, ok |-> TRUE]
    IN load_vector(FoldLeft(load_optional, start, <<"Host", "Content-Length", "Range">>), "Pragma")
load_other(a) == IF a.ok THEN [a EXCEPT !.head.other = a.fields @@ @] ELSE a

(* HttpHeadOArchive: every field by its name; those of other_fields_ must not have one of them *)
saved_fields(h) ==
    [n \in Typed |-> CASE n \in Optional -> IF h.typed[n] = None THEN << >> ELSE <<Formatted(n, h.typed[n][1])>>
                       [] n = "Pragma" -> h.pragma]
save_other(h) == IF DOMAIN h.other \cap Typed = {} THEN h.other @@ saved_fields(h) ELSE << >>
-----------------------------------------------------------------------------
(* the head *)

\* set_content of an HttpHead, and of a CMsgHead: the first of several values counts
http_set_content(h, line, text) ==
    LET cleared == [h EXCEPT !.other = << >>]
        a == load_other(serialize_load([cleared EXCEPT !.line = LineRead(h.kind, line)], AllOf(text)))
    IN IF LineFails(h.kind, line) THEN [head |-> cleared, ok |-> FALSE] ELSE [head |-> a.head, ok |-> a.ok]
cmsg_set_content(h, line, text) ==
    IF LineFails(h.kind, line) THEN [head |-> h, ok |-> FALSE]
    ELSE [head |-> [h EXCEPT !.line = line, !.other = [n \in NamesOf(text) |-> <<ValuesOf(text, n)[1]>>]], ok |-> TRUE]
set_content(h, line, text) == IF h.kind = "cmsg" THEN cmsg_set_content(h, line, text) ELSE http_set_content(h, line, text)

\* get_content: a line for every value
get_content(h) ==
    LET all == IF h.kind = "cmsg" THEN h.other ELSE save_other(h)
        printed(n) == IF n \in DOMAIN all THEN [i \in DOMAIN all[n] |-> <<n, all[n][i]>>] ELSE << >>
    IN FoldLeft(LAMBDA s, n : s \o printed(n), << >>, <<"Content-Length", "Host", "Pragma", "Range", "X">>)

\* set_field and delete_field (HttpHeadVisitor and its handlers), CMsgField::set and reset
set_field(h, n, x) ==
    CASE h.kind = "cmsg" -> [h EXCEPT !.other = Put(@, n, <<x>>)]
      [] h.kind # "cmsg" /\ n \in Optional -> [h EXCEPT !.typed[n] = <<Parsed(n, x)>>]
      [] h.kind # "cmsg" /\ n = "Pragma" -> [h EXCEPT !.pragma = <<x>>]
      [] OTHER -> [h EXCEPT !.other = Put(@, n, <<x>>)]
\* RegularHandler::set does nothing for an empty value: what is no optional cannot be deleted
delete_field(h, n) ==
    CASE h.kind # "cmsg" /\ n \in Optional -> [h EXCEPT !.typed[n] = None]
      [] h.kind # "cmsg" /\ n = "Pragma" -> h
      [] OTHER -> [h EXCEPT !.other = Without(@, n)]

\* add_fields loads the head from them: a field of its own they do not have is reset
add_fields(h, fields) ==
    IF DOMAIN fields = {} THEN [head |-> h, ok |-> TRUE]
    ELSE LET a == load_other(serialize_load(h, fields)) IN [head |-> a.head, ok |-> a.ok]
-----------------------------------------------------------------------------
NewHead(kind, line) ==
    [kind |-> kind, line |-> line, typed |-> [n \in Optional |-> None], pragma |-> << >>, other |-> << >>,
     told |-> << >>, text |-> << >>, shown |-> TRUE, sound |-> TRUE, steps |-> 0]
HeadsInit == \E kind \in Kinds : \E l \in Lines(kind) : head = NewHead(kind, l)

Stepped(h) == [h EXCEPT !.steps = @ + 1]
Fields == UNION {{<<n, x>> : x \in TextsOf(n)} : n \in Names}
\* the texts from outside: any fields, in any order, some of them twice
Texts == UNION {[1..n -> Fields] : n \in 0..MaxLines}
Repeated(text) == \E n \in Optional : Len(ValuesOf(text, n)) > 1

SetField ==
    /\ head.steps < MaxSteps /\ head.sound
    /\ \E n \in Names : \E x \in TextsOf(n) :
        Parses(n, x) /\ head' = Stepped([set_field(head, n, x) EXCEPT !.told = Put(@, n, <<x>>)])

DeleteField ==
    /\ head.steps < MaxSteps /\ head.sound
    /\ \E n \in Names :
        /\ n = "Pragma" => head.kind = "cmsg" \/ "pragma" \in Oddities
        /\ head' = Stepped([delete_field(head, n) EXCEPT !.told = Without(@, n)])

AddFields ==
    /\ head.steps < MaxSteps /\ head.sound /\ head.kind # "cmsg"
    /\ \E text \in Texts :
        LET a == add_fields(head, AllOf(text))
        IN /\ "add" \in Oddities \/ DOMAIN head.told \cap Typed \subseteq NamesOf(text)
           /\ a.ok
           /\ head' = Stepped([a.head EXCEPT !.told = AllOf(text) @@ @])

SetContent ==
    /\ head.steps < MaxSteps
    /\ \E l \in Lines(head.kind), text \in Texts :
        LET a == set_content(head, l, text)
        IN head' = Stepped([a.head EXCEPT !.told = IF head.kind = "cmsg" THEN [n \in NamesOf(text) |-> <<ValuesOf(text, n)[1]>>]
                                                    ELSE AllOf(text),
                                          !.sound = a.ok,
                                          !.shown = (a.ok \/ Repeated(text) \/ (\E i \in DOMAIN text : ~Parses(text[i][1], text[i][2])))
                                                    /\ (a.ok => a.head.line = l)])

GetContent ==
    /\ head.steps < MaxSteps /\ head.sound
    /\ LET text == get_content(head)
           back == set_content(head, head.line, text)
       IN head' = Stepped([head EXCEPT !.text = text,
                                       !.shown = back.ok /\ AllOf(text) = head.told /\ back.head.line = head.line])

HeadsNext == SetField \/ DeleteField \/ AddFields \/ SetContent \/ GetContent
-----------------------------------------------------------------------------
Shown(h) ==
    IF h.kind = "cmsg" THEN h.other
    ELSE LET all == saved_fields(h) IN h.other @@ [n \in {m \in Typed : all[m] # << >>} |-> all[n]]

(* A head has the fields it was told of and no others, however often it was filled       *)
(* before and by whichever way: a text, a field set or deleted, fields added; no field      *)
(* is kept twice, so that it can always be printed; what is printed is read back as it       *)
(* was; and a text is only refused for a field that stands twice or is no number            *)
(* (HttpHead.cpp:49-160, HttpArchive.h:60-330).                                         *)
HeadIsAsTold ==
    head.sound => /\ Shown(head) = head.told
                  /\ head.kind # "cmsg" => DOMAIN head.other \cap Typed = {}
                  /\ head.shown
=============================================================================
