------------------------------- MODULE DataViews -------------------------------
(***************************************************************************)
(* util::dataview: the nodes a program registers and what is asked of them by path:     *)
(* how many children and which, the type and the value of a child, and the head and     *)
(* the data of a table.  A catalog keeps nodes (CatalogReg); an object serializes        *)
(* itself to an archive that looks for the path (ObjectArchive); a pointer asks what      *)
(* it points to; a catalog of the program's own gets its tables from CatalogNode.          *)
(***************************************************************************)
EXTENDS Naturals, Sequences, FiniteSets, SequencesExt, TLC

CONSTANTS
    Nodes,          \* the nodes the program may register
    MaxNodes,       \* bound: nodes registered
    Reads,          \* the program's values: 0 to Reads
    MaxRows,        \* bound: rows of a table that is appended to
    MaxSessions,    \* bound: sessions of DataViewProxy
    TableWidth,     \* the most children of a table of CatalogNode (10)
    ViewOddities    \* what is not answered as it should be, of those below

\* [kids: of the root CatalogReg, now: the program's variable, null: its pointers are, table: [heads, rows, count],
\*  sessions: uid to lines, currentid, told: lines that were added]
VARIABLE view

succeed == "succeed"
no_such_item == "no_such_item"
invalid_param == "invalid_param"
unsupported == "unsupported"
try_again == "try_again"

\* kind: "reg", "object", "pointer", "own" or "data"; of a datum its type
Catalog(kind, name, kids) == [kind |-> kind, name |-> name, kids |-> kids, type |-> "nodata"]
Datum(name, type) == [kind |-> "data", name |-> name, kids |-> << >>, type |-> type]
IsCat(n) == n.kind # "data"

Answer(ec, out) == [ec |-> ec, out |-> out]
\* a value with its type; what is listed of a child, by each of the ObjectArchives
Value(type) == <<type, view.now>>
Column(n) == <<n.name, n.type>>
GetChildrenNum(n) == <<<<n.name, IsCat(n)>>>>
GetChildren(n) == <<<<n.name, IsCat(n)>>>>
GetTableHead(n) == IF IsCat(n) THEN << >> ELSE <<Column(n)>>
GetTableData(n) == IF IsCat(n) THEN << >> ELSE <<Value(n.type)>>
GetChildDataType(n) == Answer(succeed, <<n.type>>)
GetChildData(n) == Answer(succeed, <<Value(n.type)>>)
\* the data of a node that was registered: nothing sets its type
get_data(n) == Answer(succeed, <<Value("nodata")>>)

Enums == {"num", "children", "head", "rows"}    \* the others: "type" and "data"
Item(q, n) == CASE q = "num" -> GetChildrenNum(n) [] q = "children" -> GetChildren(n)
                [] q = "head" -> GetTableHead(n) [] q = "rows" -> GetTableData(n)
Items(q, kids) == FlattenSeq([i \in DOMAIN kids |-> Item(q, kids[i])])
Asked(q, n) == IF q = "type" THEN GetChildDataType(n) ELSE GetChildData(n)
Named(kids, name) == {i \in DOMAIN kids : kids[i].name = name}
Found(kids, name) == kids[CHOOSE i \in Named(kids, name) : \A j \in Named(kids, name) : i <= j]
-----------------------------------------------------------------------------
RECURSIVE Ask(_, _, _)

\* CatalogReg: the six of them lead to the child of the name; get_data of a DataNode sets no type
reg_child_Any(q, kids, path) ==
    IF Named(kids, path[1]) = {} THEN Answer(no_such_item, << >>)
    ELSE LET kid == Found(kids, path[1])
         IN IF IsCat(kid) THEN Ask(q, kid, Tail(path))
            ELSE IF q \in Enums THEN Answer(invalid_param, << >>) ELSE get_data(kid)
reg_child(q, kids, path) ==
    IF Named(kids, path[1]) = {} THEN Answer(no_such_item, << >>)
    ELSE LET kid == Found(kids, path[1])
             last == Len(path) = 1
         IN CASE q \in Enums /\ IsCat(kid) -> Ask(q, kid, Tail(path))
              [] q \notin Enums /\ ~last /\ IsCat(kid) -> Ask(q, kid, Tail(path))
              [] q = "type" /\ last /\ ~IsCat(kid) -> Asked(q, kid)
              [] q = "data" /\ last /\ ~IsCat(kid) -> get_data(kid)
              [] OTHER -> Answer(invalid_param, << >>)
reg_ask(q, kids, path) ==
    CASE path # << >> -> reg_child(q, kids, path)
      [] path = << >> /\ q \in {"num", "children"} -> Answer(succeed, Items(q, kids))
      [] path = << >> /\ q \in {"head", "rows"} -> Answer(unsupported, << >>)
      [] path = << >> /\ q \notin Enums -> Answer(invalid_param, << >>)

\* ObjectArchive: search leads each member to handle_sub or, once the path was found, to handle_item
handle_sub(q, kid, path) ==
    CASE IsCat(kid) /\ q \in Enums -> Ask(q, kid, path)
      [] ~IsCat(kid) /\ q \notin Enums /\ path = << >> -> Asked(q, kid)
      [] OTHER -> Answer(invalid_param, << >>)
search(a, q, kid, path) ==
    CASE a.found -> [a EXCEPT !.out = IF q \in Enums THEN @ \o Item(q, kid) ELSE @]
      [] ~a.found /\ kid.name = path[1] ->
             LET r == handle_sub(q, kid, Tail(path)) IN [found |-> TRUE, ec |-> r.ec, out |-> a.out \o r.out]
      [] OTHER -> a
search_and_handle(q, kids, path) ==
    IF path = << >>
    THEN IF q \in Enums THEN Answer(succeed, Items(q, kids)) ELSE Answer(invalid_param, << >>)
    ELSE LET a == FoldLeft(LAMBDA acc, kid : search(acc, q, kid, path), [found |-> FALSE, ec |-> no_such_item, out |-> << >>], kids)
         IN Answer(a.ec, a.out)

\* a pointer is another object each time, or none
PointerNode(q, kids, path) == IF view.null THEN Answer(try_again, << >>) ELSE search_and_handle(q, kids, path)

\* CatalogNode: a row of its children, if they are few and all of them data; else the columns to the first that is not
row(q, kids) ==
    LET cats == {i \in DOMAIN kids : IsCat(kids[i])}
        upto == CHOOSE n \in 0..Len(kids) : (n \in cats \/ (cats = {} /\ n = Len(kids))) /\ \A i \in cats : n <= i
    IN IF Len(kids) > TableWidth THEN Answer(unsupported, << >>)
       ELSE Answer(IF cats # {} THEN unsupported ELSE succeed,
                   [i \in 1..upto |-> IF q = "head" THEN Column(kids[i]) ELSE Value(kids[i].type)])
own_ask(q, n, path) ==
    IF q \in {"head", "rows"} /\ path = << >> THEN row(q, n.kids)
    ELSE IF q \in {"num", "children"} /\ path = << >> THEN Answer(succeed, Items(q, n.kids))
    ELSE IF q \notin Enums /\ Len(path) = 1 /\ Named(n.kids, path[1]) # {} /\ ~IsCat(Found(n.kids, path[1]))
         THEN Asked(q, Found(n.kids, path[1]))
    ELSE Answer(invalid_param, << >>)

Ask(q, n, path) ==
    CASE n.kind = "reg" -> reg_ask(q, n.kids, path)
      [] n.kind = "object" -> search_and_handle(q, n.kids, path)
      [] n.kind = "pointer" -> PointerNode(q, n.kids, path)
      [] n.kind = "own" -> own_ask(q, n, path)
root(q, path) == reg_ask(q, view.kids, path)
-----------------------------------------------------------------------------
(* TableData::append: a table that has no columns takes those of the other; count stays *)

\* the columns are kept as their rows, from the first on
NoTable == [of |-> << >>, columns |-> << >>, count |-> 0]
Columns(row_) == [i \in DOMAIN row_ |-> <<row_[i]>>]
Longer(c, d) == c \o d
append(t, columns) ==
    IF t.columns = << >> THEN [t EXCEPT !.columns = columns]
    ELSE [t EXCEPT !.columns = [i \in DOMAIN @ |-> Longer(@[i], columns[i])]]

ViewInit == view = [kids |-> << >>, now |-> 0, null |-> TRUE, table |-> NoTable, rows |-> << >>, sessions |-> [u \in {} |-> << >>],
                    currentid |-> 0, told |-> [u \in {} |-> << >>]]

\* CatalogReg::add_child and clear
add_child(n) == IF Named(view.kids, n.name) # {} THEN view.kids ELSE Append(view.kids, n)
reg_node == /\ Len(view.kids) < MaxNodes
            /\ \E n \in Nodes : view' = [view EXCEPT !.kids = add_child(n)]
clear == view' = [view EXCEPT !.kids = << >>, !.table = NoTable, !.rows = << >>]

\* the program changes its values and its pointers
Change == \E now \in 0..Reads, null \in BOOLEAN :
              view' = [view EXCEPT !.now = now, !.null = null]

\* a table is read, and read again and appended
Tables == {p \in {<<a>> : a \in {view.kids[i].name : i \in DOMAIN view.kids}} : root("rows", p).ec = succeed}
get_table_data ==
    \E p \in Tables :
        LET cells == root("rows", p).out
            t == IF view.table.of = p THEN view.table ELSE [NoTable EXCEPT !.of = p]
            rows == IF view.table.of = p THEN view.rows ELSE << >>
        IN /\ Len(rows) < MaxRows
           /\ view' = [view EXCEPT !.table = [append(t, Columns(cells)) EXCEPT !.count = IF "count" \in ViewOddities THEN 1 ELSE Len(rows) + 1],
                                   !.rows = Append(rows, cells)]

\* DataViewProxy: a login makes a session, that a logout finds and leaves; lines are added to a copy of it
login == /\ view.currentid < MaxSessions
         /\ LET more(lines) == view.currentid :> << >> @@ lines
            IN view' = [view EXCEPT !.sessions = more(@), !.told = more(@), !.currentid = @ + 1]
\* the lines are those of a session that is thrown away; making it took an id as well
add_line_to_session(u, path) ==
    /\ view.currentid < MaxSessions
    /\ view' = [view EXCEPT !.currentid = @ + 1,
                            !.told[u] = IF "lines" \in ViewOddities /\ root("data", path).ec = succeed THEN Append(@, path) ELSE @]

Sessions == \E u \in DOMAIN view.sessions : \E path \in {<<"d">>} : add_line_to_session(u, path)
ViewNext == reg_node \/ clear \/ Change \/ get_table_data \/ login \/ Sessions
-----------------------------------------------------------------------------
(* what should be answered *)

RECURSIVE PathsOf(_)
PathsOf(kids) == {<< >>} \cup UNION {{<<kids[i].name>> \o p : p \in PathsOf(kids[i].kids)} : i \in DOMAIN kids}
\* those of the tree, and some that leave it
Paths == LET all == PathsOf(view.kids) IN all \cup {Append(p, name) : p \in all, name \in {"d", "y"}}
\* the nodes on the way of a path, from the root on; fewer of them if it leads nowhere
RECURSIVE Way(_, _)
Way(kids, path) == IF path = << >> \/ Named(kids, path[1]) = {} THEN << >>
                   ELSE <<Found(kids, path[1])>> \o Way(Found(kids, path[1]).kids, Tail(path))
RECURSIVE LastOf(_, _)
LastOf(kids, path) == path = << >> \/ (Named(kids, path[1]) = {Len(kids)} /\ LastOf(kids[Len(kids)].kids, Tail(path)))
\* what is answered as it should be
Fair(q, path) ==
    LET way == Way(view.kids, path)
    IN /\ Len(way) = Len(path)
       /\ \A i \in DOMAIN way : way[i].kind = "pointer" => ~view.null
       /\ \A i \in DOMAIN way : way[i].kind = "own" => i = Len(way) \/ (i = Len(way) - 1 /\ ~IsCat(way[i + 1]))
       \* what an object has behind the member of the path is taken for more of the member's
       /\ "siblings" \in ViewOddities
            \/ \A i \in 1..(Len(way) - 1) : way[i].kind \in {"object", "pointer"} /\ q \in Enums => LastOf(way[i].kids, SubSeq(path, i + 1, Len(path)))
       \* a datum within an object within an object is not found
       /\ "deep" \in ViewOddities
            \/ (q \notin Enums => ~\E i \in 1..(Len(way) - 1) : way[i].kind \in {"object", "pointer"} /\ i + 1 < Len(way))
       \* the value of a registered datum has no type
       /\ "untyped" \in ViewOddities \/ ~(q = "data" /\ way # << >> /\ ~IsCat(way[Len(way)])
                                           /\ (Len(way) = 1 \/ way[Len(way) - 1].kind = "reg"))

Right(q, path) ==
    LET way == Way(view.kids, path)
        n == IF path = << >> THEN Catalog("reg", "", view.kids) ELSE way[Len(way)]
        all == Items(q, n.kids)
        plain == n.kind # "own" \/ (Len(n.kids) <= TableWidth /\ \A i \in DOMAIN n.kids : ~IsCat(n.kids[i]))
    IN CASE q \in {"num", "children"} -> IF IsCat(n) THEN Answer(succeed, all) ELSE Answer(invalid_param, << >>)
         [] q \in {"head", "rows"} /\ IsCat(n) /\ n.kind # "reg" /\ plain -> Answer(succeed, all)
         [] q \notin Enums /\ ~IsCat(n) -> Asked(q, n)
         [] OTHER -> Answer("any", << >>)
Agrees(r, right) == IF right.ec = "any" THEN r.ec # succeed ELSE r = right

(* Each question is answered about the node its path names, and all of them by the     *)
(* same tree: the number of children is that of the children, the columns of a table      *)
(* are its data in their order, a value is the program's of now; what is not there is     *)
(* said not to be; a table that is read again and again has its rows in their order;       *)
(* and sessions have uids of their own (WrapObject.h:88-133, CatalogReg.cpp:17-165,          *)
(* Table.h:282-296).                                                                  *)
ViewsAgree ==
    /\ \A q \in Enums \cup {"type", "data"} : \A path \in Paths :
        /\ Fair(q, path) => Agrees(root(q, path), Right(q, path))
        /\ Len(Way(view.kids, path)) < Len(path) => root(q, path).ec # succeed
    /\ \A i, j \in DOMAIN view.kids : view.kids[i].name = view.kids[j].name => i = j
    /\ view.table.columns = [i \in DOMAIN view.table.columns |-> [k \in DOMAIN view.rows |-> view.rows[k][i]]]
    /\ view.table.count = Len(view.rows)
    /\ view.told = view.sessions
=============================================================================
