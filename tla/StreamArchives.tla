---------------------------- MODULE StreamArchives ----------------------------
(***************************************************************************)
(* The archives that write values one behind the other: BinaryOArchive and        *)
(* BinaryIArchive (of either byte order) and TextOArchive and TextIArchive, with    *)
(* StreamOArchive and StreamIArchive below them.                                  *)
(* An archive is a record: state (0 good, 1 the stream failed, 2 bad data, 3 not     *)
(* supported), out: what was saved, room: how much the stream takes, rest: what     *)
(* was not loaded yet.  An operator that loads returns the archive and the value.   *)
(***************************************************************************)
EXTENDS Integers, Sequences, FiniteSets, SequencesExt, TLC

CONSTANT Piece      \* how much of a string is loaded at once (1024)

\* a type is a sequence: its kind and its parts
Num == <<"num">>        \* size_t, and every number of several bytes: two here
Octet == <<"octet">>    \* unsigned char
Str == <<"str">>        \* std::string
Sized == <<"sized">>    \* SizedString<uint8_t>: its size is one byte
Triple == <<"triple">>  \* UInt24

Fails(ar, state) == [ar EXCEPT !.state = state]
Loaded(ar, v) == [ar |-> ar, v |-> v]
Lesser(a, b) == IF a < b THEN a ELSE b

save_binary(ar, s) ==
    IF ar.state # 0 THEN ar
    ELSE [ar EXCEPT !.out = @ \o SubSeq(s, 1, Lesser(Len(s), ar.room - Len(@))),
                    !.state = IF Len(ar.out) + Len(s) > ar.room THEN 1 ELSE 0]

load_binary(ar, n) ==
    IF ar.state # 0 THEN Loaded(ar, << >>)
    ELSE IF Len(ar.rest) < n THEN Loaded([ar EXCEPT !.state = 1, !.rest = << >>], ar.rest)
    ELSE Loaded([ar EXCEPT !.rest = SubSeq(@, n + 1, Len(@))], SubSeq(ar.rest, 1, n))
-----------------------------------------------------------------------------
\* numbers in bytes: in the order of the host, which is little endian, or in big endian
Width(type) == CASE type = Num -> 2 [] type = Octet -> 1 [] type = Triple -> 3
Encoded(n, w) == [i \in 1..w |-> (n \div 256 ^ (i - 1)) % 256]
Decoded(s) == FoldRight(LAMBDA b, n : 256 * n + b, s, 0)
Ordered(ar, s) == IF ar.kind = "big" THEN Reverse(s) ELSE s

binary_save_number(ar, type, n) == save_binary(ar, Ordered(ar, Encoded(n, Width(type))))
binary_load_number(ar, type) ==
    LET r == load_binary(ar, Width(type))
    IN IF r.ar.state # 0 THEN Loaded(r.ar, 0) ELSE Loaded(r.ar, Decoded(Ordered(ar, r.v)))
-----------------------------------------------------------------------------
\* text: cells of a digit, a blank or a character, each a pair
Gap == <<"gap", 32>>
Char(c) == IF c = 32 THEN Gap ELSE <<"char", c>>
RECURSIVE Digits(_)
Digits(n) == IF n < 10 THEN <<<<"digit", n>>>> ELSE Append(Digits(n \div 10), <<"digit", n % 10>>)

newtoken(ar) ==
    LET first == ar.delimiter = "none"
        kept == [ar EXCEPT !.delimiter = "space"]
    IN IF first THEN kept ELSE save_binary(kept, <<Gap>>)

text_save_number(ar, type, n) == save_binary(newtoken(ar), IF type = Octet THEN <<Char(n)>> ELSE Digits(n))

\* is_ >> t: blanks are passed, then a number takes its digits and a character itself; is_.get() takes one more
Blanks(s) == CHOOSE n \in 0..Len(s) : (\A i \in 1..n : s[i] = Gap) /\ (n = Len(s) \/ s[n + 1] # Gap)
Run(s) == CHOOSE n \in 0..Len(s) :
    (\A i \in 1..n : s[i][1] = "digit") /\ (n = Len(s) \/ s[n + 1][1] # "digit")
text_load_number(ar, type) ==
    LET s == SubSeq(ar.rest, Blanks(ar.rest) + 1, Len(ar.rest))
        n == IF type = Octet THEN Lesser(1, Len(s)) ELSE Run(s)
    IN IF ar.state # 0 THEN Loaded(ar, 0)
       ELSE IF n = 0 THEN Loaded([ar EXCEPT !.state = 1, !.rest = << >>], 0)
       ELSE Loaded([ar EXCEPT !.rest = SubSeq(s, n + 2, Len(s))],
                   FoldLeft(LAMBDA v, c : 10 * v + c[2], 0, SubSeq(s, 1, n)))
-----------------------------------------------------------------------------
save_number(ar, type, n) == IF ar.kind = "text" THEN text_save_number(ar, type, n) ELSE binary_save_number(ar, type, n)
load_number(ar, type) == IF ar.kind = "text" THEN text_load_number(ar, type) ELSE binary_load_number(ar, type)

Cells(ar, s) == IF ar.kind = "text" THEN [i \in DOMAIN s |-> Char(s[i])] ELSE s
Chars(ar, s) == IF ar.kind = "text" THEN [i \in DOMAIN s |-> s[i][2]] ELSE s

save_string(ar, s) ==
    LET sized == save_number(ar, Num, Len(s))
    IN save_binary(IF ar.kind = "text" THEN newtoken(sized) ELSE sized, Cells(ar, s))

RECURSIVE load_pieces(_, _, _)
load_pieces(ar, len, got) ==
    LET r == load_binary(ar, Lesser(len, Piece))
        all == got \o Chars(ar, r.v)
    IN IF len <= Piece \/ r.ar.state # 0 THEN Loaded(r.ar, all) ELSE load_pieces(r.ar, len - Piece, all)
load_string(ar) ==
    LET n == load_number(ar, Num)
    IN IF n.ar.state # 0 THEN Loaded(n.ar, << >>) ELSE load_pieces(n.ar, n.v, << >>)

\* SizedString: its size is cut to a byte, and it is made that long before its characters are loaded
save_sized(ar, s) ==
    LET size == Len(s) % 256
    IN save_binary(save_number(ar, Octet, size), Cells(ar, SubSeq(s, 1, size)))
load_sized(ar) ==
    LET n == load_number(ar, Octet)
        r == load_binary(n.ar, n.v)
    IN IF r.ar.state # 0 THEN Loaded(r.ar, [i \in 1..n.v |-> 0]) ELSE Loaded(r.ar, Chars(ar, r.v))

save_plain(ar, type, v) ==
    CASE type = Str -> save_string(ar, v)
      [] type = Sized -> save_sized(ar, v)
      [] OTHER -> save_number(ar, type, v)
load_plain(ar, type) ==
    CASE type = Str -> load_string(ar)
      [] type = Sized -> load_sized(ar)
      [] OTHER -> load_number(ar, type)
=============================================================================
