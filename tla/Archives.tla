------------------------------- MODULE Archives -------------------------------
(***************************************************************************)
(* A value saved to an archive and loaded from it.  BasicArchiveT leads both          *)
(* through the value by its type; what happens at a name, at the beginning and the     *)
(* end of an object and at a plain value is the archive's.  Between the two the        *)
(* document may have been written by another program: fields in another order,         *)
(* fields nobody asks for, optional fields left out, fields as attributes; or its       *)
(* end is missing.                                                                 *)
(***************************************************************************)
EXTENDS StreamArchives

CONSTANTS
    Numbers, Texts, Octets,     \* the values of plain fields
    Rooms,                      \* how much a stream may take
    Depth,                      \* set_depth (65536)
    Oddities                    \* documents that are not read as they were saved, of those below

\* [ar: the archive, type, value, how: what was done to the document, phase, got: what was loaded]
VARIABLE archive

-----------------------------------------------------------------------------
(***************************************************************************)
(* The archives that write names: json and xml.                             *)
(*                                                                         *)
(* JsonOArchive prints while it is led through a value; JsonIArchive finds  *)
(* its way in the tokens that jsmn made of a text.  A text is a sequence of *)
(* cells: <<"mark", one of "{" "}" "[" "]" ",">>, <<"name", a name>>,       *)
(* <<"num", a number>> or <<"str", a string>>.                              *)
(*                                                                         *)
(* XmlOArchive builds a tree of elements; XmlIArchive keeps a stack of      *)
(* where it is in one.  TinyXml keeps, prints and parses the tree: a text   *)
(* loses the blanks at its ends, and of an empty one nothing is left.       *)
(***************************************************************************)
\* the archive: out, and splits: of each open object or array what closes it and what comes before its next member
Printed(ar, s) == [ar EXCEPT !.out = @ \o s]
Mark(c) == <<"mark", c>>
Back(s) == s[Len(s)]
BackTo(s, c) == [s EXCEPT ![Len(s)] = c]

json_save(ar, type, v) ==
    IF type # Octet /\ type # Str /\ ar.splits # << >> /\ Back(ar.splits) = "c" THEN ar
    ELSE Printed(ar, <<IF type = Str THEN <<"str", v>> ELSE <<"num", v>>>>)

json_save_start(ar, name) ==
    LET n == Len(ar.splits)
    IN IF name = "count" /\ Back(ar.splits) = "{"
       THEN [ar EXCEPT !.splits = BackTo(SubSeq(@, 1, n - 1), "]") \o <<"c">>]
       ELSE Printed(ar, <<Mark(Back(ar.splits))>> \o
                        (IF name # "item" \/ ar.splits[n - 1] # "]" THEN <<<<"name", name>>>> ELSE << >>))

json_save_end(ar) == [ar EXCEPT !.splits = BackTo(@, IF Back(@) = "c" THEN "[" ELSE ",")]

json_sub_start(ar) == [ar EXCEPT !.splits = @ \o <<"}", "{">>]
json_sub_end(ar) ==
    LET n == Len(ar.splits)
        opened == IF Back(ar.splits) # "," THEN <<Mark(Back(ar.splits))>> ELSE << >>
    IN [Printed(ar, Append(opened, Mark(ar.splits[n - 1]))) EXCEPT !.splits = SubSeq(@, 1, n - 2)]
-----------------------------------------------------------------------------
\* jsmn_parse: the tokens in the order they begin, the size of one how many others it has directly within
Token(type, text) == [type |-> type, text |-> text, size |-> 0, start |-> 0, end |-> 0]
Counted(toks, open) == IF open = << >> THEN toks ELSE [toks EXCEPT ![Head(open)].size = @ + 1]
Matches(type, c) == type = (IF c = "}" THEN "object" ELSE "array")
Read(p, cell) ==
    IF p.bad THEN p
    ELSE IF cell[1] # "mark"
    THEN [p EXCEPT !.toks = Append(Counted(@, p.open),
            Token(IF cell[1] = "num" THEN "primitive" ELSE "string", cell))]
    ELSE CASE cell[2] \in {"{", "["} ->
                 [p EXCEPT !.toks = Append(Counted(@, p.open), Token(IF cell[2] = "{" THEN "object" ELSE "array", cell)),
                           !.open = <<Len(p.toks) + 1>> \o @]
           [] cell[2] \in {"}", "]"} ->
                 IF p.open # << >> /\ Matches(p.toks[Head(p.open)].type, cell[2])
                 THEN [p EXCEPT !.open = Tail(@)] ELSE [p EXCEPT !.bad = TRUE]
           [] OTHER -> p
jsmn_parse(cells) ==
    LET p == FoldLeft(Read, [toks |-> << >>, open |-> << >>, bad |-> FALSE], cells)
    IN [p EXCEPT !.bad = @ \/ p.open # << >> \/ p.toks = << >>]

\* the size of a token becomes that of all it holds, itself as well; the names of an object are strings
RECURSIVE adjust(_, _)
adjust(toks, t) ==
    LET child(i, acc) ==
            LET named == IF toks[t].type = "object" /\ i % 2 = 1 /\ acc.toks[acc.c].type = "primitive"
                         THEN [acc.toks EXCEPT ![acc.c].type = "string"] ELSE acc.toks
                next == adjust(named, acc.c)
            IN [toks |-> next, c |-> acc.c + next[acc.c].size]
        all == FoldLeft(LAMBDA acc, i : child(i, acc), [toks |-> toks, c |-> t + 1],
                        [i \in 1..toks[t].size |-> i])
    IN IF toks[t].type \in {"object", "array"}
       THEN [all.toks EXCEPT ![t].size = all.c - t]
       ELSE [toks EXCEPT ![t].size = @ + 1]

load_json(ar) ==
    LET p == jsmn_parse(ar.rest)
    IN IF p.bad THEN Fails(ar, 1)
       ELSE [ar EXCEPT !.toks = adjust(p.toks, 1), !.stack = <<1>>]
-----------------------------------------------------------------------------
\* the token a name stands before, in object ip: the names are those of odd place
RECURSIVE FindMember(_, _, _, _)
FindMember(toks, i, ie, name) ==
    IF i >= ie THEN 0
    ELSE IF toks[i].text = <<"name", name>> THEN i + 1
    ELSE FindMember(toks, IF i + 1 < ie THEN i + 1 + toks[i + 1].size ELSE i + 1, ie, name)

RECURSIVE Members(_, _, _)
Members(toks, i, ie) == IF i < ie /\ i + toks[i].size <= ie THEN 1 + Members(toks, i + toks[i].size, ie) ELSE 0

\* 0 stands for size_t(-1): no such token
json_load_start(ar, name) ==
    LET ip == ar.stack[1]
        vp == ar.toks[ip]
        ie == ip + vp.size
        push(i) == [ar EXCEPT !.stack = <<i>> \o @]
    IN IF ip = 0 THEN [push(0) EXCEPT !.wild = TRUE]
       ELSE IF vp.type = "object" THEN push(FindMember(ar.toks, ip + 1, ie, name))
       ELSE IF vp.type = "array" THEN
            IF name = "count"
            THEN [push(ip) EXCEPT !.toks[ip].start = ip + 1, !.toks[ip].end = Members(ar.toks, ip + 1, ie)]
            ELSE IF name # "item" \/ vp.start \notin ip + 1..ie - 1
            THEN [push(0) EXCEPT !.wild = TRUE]
            ELSE [push(vp.start) EXCEPT !.toks[ip].start = @ + ar.toks[vp.start].size]
       ELSE [push(0) EXCEPT !.wild = TRUE, !.state = 2]

json_load_end(ar) == [ar EXCEPT !.stack = Tail(@)]

json_load(ar, type) ==
    LET i == ar.stack[1]
        v == ar.toks[i]
    IN IF i = 0 THEN Loaded([ar EXCEPT !.wild = TRUE], IF type = Str THEN << >> ELSE 0)
       ELSE IF type = Str
       THEN IF v.type = "string" THEN Loaded(ar, v.text[2]) ELSE Loaded(Fails(ar, 2), << >>)
       ELSE CASE v.type = "primitive" -> Loaded(ar, v.text[2])
              [] v.type = "array" -> Loaded(ar, v.end)
              [] OTHER -> Loaded(Fails(ar, 2), 0)

-----------------------------------------------------------------------------
(* xml *)


\* a node: an element, or a text, whose name is "#text"
Element(name) == [name |-> name, text |-> << >>, attrs |-> << >>, kids |-> << >>]
Text(s) == [Element("#text") EXCEPT !.text = <<s>>]
LinkEndChild(e, kid) == [e EXCEPT !.kids = Append(@, kid)]

Least(s) == CHOOSE i \in s : \A j \in s : i <= j
Trimmed(s) ==
    LET kept == {i \in DOMAIN s : s[i] # 32}
    IN IF kept = {} THEN << >> ELSE SubSeq(s, Least(kept), CHOOSE i \in kept : \A j \in kept : j <= i)

\* the saver: nodes are its open elements, the innermost first
xml_save(ar, type, v) ==
    IF type = Str /\ Trimmed(v) = << >> THEN ar
    ELSE [ar EXCEPT !.nodes[1] = LinkEndChild(@, Text(IF type = Str THEN Trimmed(v) ELSE v))]
xml_save_start(ar, name) == [ar EXCEPT !.nodes = <<Element(name)>> \o @]
xml_save_end(ar) ==
    [ar EXCEPT !.nodes = IF @[1].name = "" THEN Tail(@)
                         ELSE <<LinkEndChild(@[2], @[1])>> \o SubSeq(@, 3, Len(@))]
\* save(boost::optional): an absent one takes its element back
xml_forget(ar) == [ar EXCEPT !.nodes[1].name = ""]
-----------------------------------------------------------------------------
\* TinyXml on a tree
FirstChildElement(e, name) == {i \in DOMAIN e.kids : e.kids[i].name = name}
GetText(e) == IF e.kids # << >> /\ e.kids[1].name = "#text" THEN e.kids[1].text ELSE << >>

\* a place in the tree: elem the element, << >> for none, text of an attribute or a text, count, at the child an
\* iteration is at, name of the elements of an abnormal collection
Value(type) == [type |-> type, elem |-> << >>, text |-> << >>, count |-> 0, at |-> 0, name |-> ""]
AtElement(e) == [Value("elem") EXCEPT !.elem = <<e>>]
CountOf(n) == [Value("count") EXCEPT !.count = n]

Found(e, name) ==
    CASE FirstChildElement(e, name) # {} ->
             [AtElement(e.kids[Least(FirstChildElement(e, name))]) EXCEPT !.at = Least(FirstChildElement(e, name))]
      [] FirstChildElement(e, name) = {} /\ (\E i \in DOMAIN e.attrs : e.attrs[i][1] = name) ->
             [Value("attr") EXCEPT !.text = <<e.attrs[CHOOSE i \in DOMAIN e.attrs : e.attrs[i][1] = name][2]>>]
      [] OTHER -> IF name = "_TEXT_" /\ GetText(e) # << >> THEN [Value("text") EXCEPT !.text = GetText(e)]
                  ELSE Value("none")

\* the values is_archive.load_start pushes; "count" also leaves the set that its items are taken from
xml_load_start(ar, name) ==
    LET vp == ar.stack[1]
        push(s) == [ar EXCEPT !.stack = s \o @]
        elem == vp.elem[1]
        v == Found(elem, name)
        set(i) == [Value("set") EXCEPT !.at = i]
        next(e, from, called) ==    \* IterateChildren: of a name, or of any
            LET js == {j \in DOMAIN e.kids : j > from /\ (called = "" \/ e.kids[j].name = called)}
            IN IF js = {} THEN 0 ELSE Least(js)
    IN CASE vp.type = "elem" ->
                IF name # "count" \/ v.type \notin {"none", "elem"} THEN push(<<v>>)
                ELSE push(<<CountOf(Len(elem.kids) - v.at), set(v.at)>>)
         [] vp.type = "set" ->
                LET e == ar.stack[2].elem[1]
                    i == next(e, vp.at, "")
                    moved == [push(<<IF i # 0 /\ e.kids[i].name # "#text" THEN AtElement(e.kids[i]) ELSE Value("none")>>)
                                EXCEPT !.stack[2].at = i]
                IN [moved EXCEPT !.wild = @ \/ name # "item"]
         [] vp.type = "set2" ->
                LET e == ar.stack[3].elem[1]
                    i == next(e, ar.stack[2].at, vp.name)
                IN IF name = "count"
                   THEN push(<<CountOf(IF vp.name = "" THEN 0 ELSE Cardinality(FirstChildElement(e, vp.name)))>>)
                   ELSE [push(<<IF i = 0 THEN Value("none") ELSE AtElement(e.kids[i])>>) EXCEPT !.stack[3].at = i]
         [] OTHER -> IF name = "count" THEN push(<<CountOf(0), Value("set")>>) ELSE push(<<Value("none")>>)

xml_load_end(ar) ==
    [ar EXCEPT !.stack = SubSeq(@, IF @[1].type \in {"set", "set2"} THEN 3 ELSE 2, Len(@))]

\* a collection whose items are elements of one name beside one another
start_abnormal_collection(ar) ==
    LET vp == ar.stack[1]
    IN IF ar.state # 0 THEN ar
       ELSE [ar EXCEPT !.stack = <<[Value("set2") EXCEPT !.name = IF vp.elem # << >> THEN vp.elem[1].name ELSE ""]>> \o
                                 <<[vp EXCEPT !.elem = << >>, !.at = 0]>> \o Tail(@)]

\* a text is read as an element by the string's load: the union holds the text itself
xml_load(ar, type) ==
    LET v == ar.stack[1]
        value == IF v.type = "elem" THEN GetText(v.elem[1]) ELSE v.text
        nothing == IF type = Str THEN << >> ELSE 0
        lost == IF type = Str THEN ar ELSE Fails(ar, 2)
    IN CASE v.type = "count" -> Loaded([ar EXCEPT !.wild = @ \/ type = Str], v.count)
         [] v.type \in {"elem", "attr"} ->
                IF value = << >> THEN Loaded(Fails(ar, 2), nothing) ELSE Loaded(ar, value[1])
         [] OTHER -> Loaded([lost EXCEPT !.wild = TRUE], nothing)

load_xml(ar) ==
    IF ar.rest = << >> THEN Fails(ar, 1) ELSE [ar EXCEPT !.stack = <<AtElement(ar.rest[1])>>]
-----------------------------------------------------------------------------
Opt(t) == <<"opt", t>>
List(t) == <<"list", t, Num>>
ListOf(t, size) == <<"list", t, size>>  \* make_sized<size>
Many(t) == <<"many", t>>                \* XmlIArchive::abnormal_collection
Obj(fields) == <<"obj", fields>>
Plain == {Num, Octet, Str, Sized, Triple}

\* the archive's part at each point of a value; the archives that keep an order have none
save_start(ar, name) == CASE ar.kind = "json" -> json_save_start(ar, name)
                          [] ar.kind = "xml" -> xml_save_start(ar, name)
                          [] OTHER -> ar
save_end(ar) == CASE ar.kind = "json" -> json_save_end(ar) [] ar.kind = "xml" -> xml_save_end(ar) [] OTHER -> ar
sub_start(ar) == IF ar.kind = "json" THEN json_sub_start(ar) ELSE ar
sub_end(ar) == IF ar.kind = "json" THEN json_sub_end(ar) ELSE ar
save(ar, type, v) == CASE ar.kind = "json" -> json_save(ar, type, v)
                       [] ar.kind = "xml" -> xml_save(ar, type, v)
                       [] OTHER -> save_plain(ar, type, v)
load_start(ar, name) == CASE ar.kind = "json" -> json_load_start(ar, name)
                          [] ar.kind = "xml" -> xml_load_start(ar, name)
                          [] OTHER -> ar
load_end(ar) == CASE ar.kind = "json" -> json_load_end(ar) [] ar.kind = "xml" -> xml_load_end(ar) [] OTHER -> ar
load(ar, type) == CASE ar.kind = "json" -> json_load(ar, type)
                    [] ar.kind = "xml" -> xml_load(ar, type)
                    [] OTHER -> load_plain(ar, type)

Deeper(ar) == [ar EXCEPT !.depth = @ - 1]
Back1(ar) == [ar EXCEPT !.depth = @ + 1]

\* operator << : nothing more once the archive has failed
RECURSIVE Save(_, _, _)
SaveNamed(ar, name, type, v) == IF ar.state # 0 THEN ar ELSE save_end(Save(save_start(ar, name), type, v))
save_collection(ar, type, v) ==
    LET count == IF type[3] = Octet THEN Len(v) % 256 ELSE Len(v)
        counted == SaveNamed(ar, "count", type[3], count)
    IN FoldLeft(LAMBDA a, i : SaveNamed(a, "item", type[2], v[i]), counted, [i \in 1..count |-> i])
save_fields(ar, fields, v) ==
    FoldLeft(LAMBDA a, f : IF f[2][1] = "opt" /\ a.kind = "json" /\ v[f[1]] = << >> THEN a
                           ELSE IF f[2][1] = "many"
                           THEN FoldLeft(LAMBDA b, x : SaveNamed(b, f[1], f[2][2], x), a, v[f[1]])
                           ELSE SaveNamed(a, f[1], f[2], v[f[1]]), ar, fields)
Within(ar, f(_)) ==
    LET started == sub_start(Deeper(ar))
    IN Back1(sub_end(IF started.depth >= 0 THEN f(started) ELSE started))
Save(ar, type, v) ==
    IF ar.state # 0 THEN ar
    ELSE CASE type \in Plain -> save(ar, type, v)
           [] type[1] = "opt" -> IF v # << >> THEN Save(ar, type[2], v[1]) ELSE xml_forget(ar)
           [] type[1] = "list" -> Within(ar, LAMBDA a : save_collection(a, type, v))
           [] type[1] = "obj" -> Within(ar, LAMBDA a : save_fields(a, type[2], v))

RECURSIVE Load(_, _)
LoadNamed(ar, name, type) ==
    LET r == Load(load_start(ar, name), type)
    IN IF ar.state # 0 THEN Loaded(ar, << >>) ELSE Loaded(load_end(r.ar), r.v)
load_collection(ar, type) ==
    LET count == LoadNamed(ar, "count", type[3])
        n == IF count.ar.state # 0 THEN 0 ELSE count.v
        step(acc) == LET r == LoadNamed(acc.ar, "item", type[2])
                     IN IF acc.ar.state # 0 THEN acc
                        ELSE Loaded(r.ar, IF r.ar.state = 0 THEN Append(acc.v, r.v) ELSE acc.v)
    IN FoldLeft(LAMBDA acc, i : step(acc), Loaded(count.ar, << >>), [i \in 1..n |-> i])
load_fields(ar, fields) ==
    FoldLeft(LAMBDA acc, f : LET r == LoadNamed(acc.ar, f[1], f[2]) IN Loaded(r.ar, acc.v @@ (f[1] :> r.v)),
             Loaded(ar, << >>), fields)
\* nothing in the place: json_load_start pushed size_t(-1), xml_load_start t_none
Missing(ar) == CASE ar.kind = "json" -> ar.stack[1] = 0 [] ar.kind = "xml" -> ar.stack[1].type = "none" [] OTHER -> FALSE
Load(ar, type) ==
    LET in == Deeper(ar)
        out(r) == Loaded(Back1(r.ar), r.v)
    IN IF ar.state # 0 THEN Loaded(ar, << >>)
       ELSE CASE type \in Plain -> load(ar, type)
              [] type[1] = "opt" -> IF Missing(ar) THEN Loaded(ar, << >>)
                                    ELSE LET r == Load(ar, type[2]) IN Loaded(r.ar, <<r.v>>)
              [] type[1] = "list" -> IF in.depth < 0 THEN Loaded(ar, << >>) ELSE out(load_collection(in, type))
              [] type[1] = "many" -> IF in.depth < 0 THEN Loaded(ar, << >>)
                                     ELSE out(load_collection(start_abnormal_collection(in), List(type[2])))
              [] type[1] = "obj" -> IF in.depth < 0 THEN Loaded(ar, << >>) ELSE out(load_fields(in, type[2]))
-----------------------------------------------------------------------------
\* the documents
Flat == Obj(<<<<"a", Num>>, <<"b", Str>>, <<"c", Octet>>>>)
Pair == Obj(<<<<"a", Num>>, <<"b", Str>>>>)
Nested(size) == Obj(<<<<"c", Num>>, <<"l", ListOf(Pair, size)>>, <<"d", Num>>>>)
Grid == Obj(<<<<"l", List(List(Num))>>, <<"a", Num>>>>)
Maybe == Obj(<<<<"a", Opt(Num)>>, <<"b", Str>>>>)
Counting == Obj(<<<<"count", Num>>, <<"b", Str>>>>)
Texted == Obj(<<<<"_TEXT_", Str>>>>)
Packed == Obj(<<<<"a", Triple>>, <<"b", Sized>>>>)
Repeated == Obj(<<<<"a", Num>>, <<"m", Many(Num)>>>>)

Some == CHOOSE n \in Numbers : \A m \in Numbers : m <= n
Numbered == UNION {[1..n -> Numbers] : n \in 0..2}
Fills(kind, type) ==
    LET texts == Texts \ (IF kind = "xml" /\ "trimmed" \notin Oddities THEN {s \in Texts : Trimmed(s) # s \/ s = << >>} ELSE {})
        octets == Octets \ (IF kind = "text" /\ "blank" \notin Oddities THEN {32} ELSE {})
        pairs == [a : {Some}, b : texts]
    IN CASE type = Flat -> [a : Numbers, b : texts, c : octets]
         [] type = Maybe -> [a : {<< >>, <<Some>>}, b : texts]
         [] type = Counting -> [count : Numbers, b : texts]
         [] type = Texted -> [_TEXT_ : texts]
         [] type = Packed -> [a : {66051}, b : Texts]
         [] type = Grid -> [l : {<< >>, <<<< >>>>} \cup {<<s, t>> : s, t \in {<<Some>>, << >>, <<0, Some>>}}, a : Numbers]
         [] type = Repeated -> [a : Numbers, m : Numbered]
         [] OTHER -> [c : Numbers, l : UNION {[1..n -> pairs] : n \in 0..2}, d : {Some}]

Types(kind) ==
    {Flat, Nested(Num), Grid}
    \cup (IF kind \in {"native", "big"} THEN {Packed, Nested(Octet)} ELSE {})
    \cup (IF kind \in {"json", "xml"} THEN {Maybe} ELSE {})
    \cup (IF kind = "xml" THEN {Repeated} ELSE {})
    \cup (IF kind = "xml" \/ (kind = "json" /\ "octet_count" \in Oddities) THEN {Nested(Octet)} ELSE {})
    \cup (IF "count" \in Oddities THEN {Counting} ELSE {})
    \cup (IF "text" \in Oddities /\ kind = "xml" THEN {Texted} ELSE {})

New(kind, room) ==
    [kind |-> kind, state |-> 0, depth |-> Depth, out |-> << >>, room |-> room, rest |-> << >>, wild |-> FALSE,
     delimiter |-> "none", splits |-> << >>, toks |-> << >>, stack |-> << >>,
     nodes |-> IF kind = "xml" THEN <<Element("root")>> ELSE << >>]

\* a text, a tree and bytes do not fail for room: the json archive does not look, the xml archive prints at the end
RoomsOf(kind) == IF kind \in {"json", "xml"} THEN {1000} ELSE Rooms
ArchivesInit ==
    \E kind \in {"native", "big", "text", "json", "xml"} : \E type \in Types(kind), room \in RoomsOf(kind) :
        \E v \in Fills(kind, type) :
            archive = [ar |-> New(kind, room), type |-> type, value |-> v, how |-> "same", phase |-> "new", got |-> << >>]
-----------------------------------------------------------------------------
\* how another program would have written it: its fields the other way round, or with one more before them
RECURSIVE Reversed(_)
Reversed(type) ==
    IF type[1] = "obj" THEN Obj(Reverse([i \in DOMAIN type[2] |-> <<type[2][i][1], Reversed(type[2][i][2])>>]))
    ELSE IF type[1] = "list" THEN <<"list", Reversed(type[2]), type[3]>> ELSE type
Strayed(type) == Obj(<<<<"z", Pair>>>> \o type[2])
Ways(kind) == {"same", "cut"} \cup (IF kind \in {"json", "xml"} THEN {"reversed", "stray"} ELSE {})
                       \cup (IF kind = "xml" THEN {"attributes"} ELSE {})
                       \cup (IF kind \in {"json", "xml"} /\ "lost" \in Oddities THEN {"lost"} ELSE {})
Written(type, how) ==
    CASE how = "reversed" -> Reversed(type) [] how = "stray" -> Strayed(type)
      [] how = "lost" -> Obj(SubSeq(type[2], 1, Len(type[2]) - 1)) [] OTHER -> type
\* the plain elements of the root as its attributes
Attributed(root) ==
    LET plain(k) == k.name # "m" /\ k.kids # << >> /\ k.kids[1].name = "#text"
    IN [root EXCEPT !.attrs = [i \in 1..Len(SelectSeq(root.kids, plain)) |->
                                  LET k == SelectSeq(root.kids, plain)[i] IN <<k.name, k.kids[1].text[1]>>],
                    !.kids = SelectSeq(@, LAMBDA k : ~plain(k))]

SaveIt ==
    /\ archive.phase = "new"
    /\ \E how \in Ways(archive.ar.kind) :
        LET v == archive.value @@ ("z" :> [a |-> Some, b |-> <<1>>])
        IN archive' = [archive EXCEPT !.ar = Save(@, Written(archive.type, how), v), !.how = how, !.phase = "saved"]

\* the document that is read: what was printed, or the tree
Document(a) ==
    CASE a.ar.kind = "xml" /\ a.how = "cut" -> << >>
      [] a.ar.kind = "xml" /\ a.how # "cut" ->
             <<CASE a.how = "attributes" -> Attributed(a.ar.nodes[1])
                 [] a.type = Texted -> LinkEndChild(Element("root"), Text(a.value._TEXT_))
                 [] OTHER -> a.ar.nodes[1]>>
      [] a.ar.kind # "xml" /\ a.how = "cut" -> SubSeq(a.ar.out, 1, Len(a.ar.out) - 1)
      [] OTHER -> a.ar.out

Opened(ar) == CASE ar.kind = "json" -> load_json(ar) [] ar.kind = "xml" -> load_xml(ar) [] OTHER -> ar
LoadIt ==
    /\ archive.phase = "saved"
    /\ LET blank == [New(archive.ar.kind, archive.ar.room) EXCEPT !.rest = Document(archive)]
           r == Load(Opened(blank), archive.type)
       IN archive' = [archive EXCEPT !.ar = r.ar, !.got = r.v,
                                     !.phase = IF archive.ar.state = 0 THEN "loaded" ELSE "broken"]

ArchivesNext == SaveIt \/ LoadIt
-----------------------------------------------------------------------------
(* A value that was saved whole is loaded as it was, in whatever way the document   *)
(* says it, with nothing left over; a document whose end is missing, or that did      *)
(* not fit, is not taken for whole (a text may end anywhere in a number); and no         *)
(* load reads what is not there (BasicArchiveT.h:168-255).                          *)
LoadsWhatWasSaved ==
    archive.phase \in {"loaded", "broken"} =>
        /\ ~archive.ar.wild
        /\ IF archive.phase = "broken" \/ archive.how = "cut" THEN archive.ar.kind = "text" \/ archive.ar.state # 0
           ELSE archive.ar.state = 0 /\ archive.got = archive.value /\
                (archive.ar.kind \in {"native", "big", "text"} => archive.ar.rest = << >>)
=============================================================================
