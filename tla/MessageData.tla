------------------------------ MODULE MessageData ------------------------------
(***************************************************************************)
(* What a message of Mmsp or Rtmp is on the wire.  A message is a layout, that is    *)
(* a sequence of fields, saved and loaded one behind the other by the binary            *)
(* archives of StreamArchives; around it MessageHelper fills an Mmsp message up           *)
(* to whole chunks of 8 bytes and compares what was loaded with what the header says.    *)
(* Numbers nobody counts by are their bytes.  A message is read alone: MessageSocket     *)
(* shows from_data one message at a time.                                          *)
(***************************************************************************)
EXTENDS StreamArchives

CONSTANTS
    Names,      \* the texts of strings, without the NUL at their end
    Oddities    \* messages that are not read as they were sent, of those below

\* [name: which message, value, how: what became of it, phase,
\*  wire: [chunks, data], got: what was loaded, agrees: the assert of ~MessageHelper held]
VARIABLE message

Bytes(w) == <<"bytes", w>>          \* a number, a double or an array
Count(w) == <<"count", w>>          \* a number another field goes by
Wide == <<"wide">>                  \* MmspString up to its NUL
WideOf(k) == <<"wide", k>>          \* MmspString of the size field k says
TokenOf(k) == <<"token", k>>        \* of OpenFile: field 3, the token, says whether sizes count
EntriesOf(k) == <<"entries", k>>    \* as many entries as field k says
Later == <<"later">>                \* a number older peers leave out
Union == <<"union">>                \* of UserControl: one word or two, by field 1
Amf == <<"amf">>                    \* RtmpAmfValue
Arguments == <<"arguments">>        \* the OptionalArguments of a command
-----------------------------------------------------------------------------
(* the messages of Mmsp *)

MmspReportMessageHeader == <<Bytes(4)>>
Words(n) == [i \in 1..n |-> Bytes(4)]
MmspDataPing == Words(2)
MmspDataReportConnectedEx ==
    MmspReportMessageHeader \o Words(3) \o <<Bytes(8)>> \o Words(4) \o [i \in 1..4 |-> Count(4)]
        \o [i \in 1..4 |-> WideOf(9 + i)]
MmspDataReportConnectedFunnel == MmspReportMessageHeader \o Words(2) \o <<Wide>>
MmspDataReportDisconnectedFunnel == MmspReportMessageHeader \o Words(1)
MmspDataReportEndOfStream == MmspReportMessageHeader \o Words(1)
MmspDataReportFunnelInfo == MmspReportMessageHeader \o Words(9)
MmspDataReportOpenFile ==
    MmspReportMessageHeader \o Words(5) \o <<Bytes(8), Bytes(4), Bytes(16), Bytes(4), Bytes(8)>> \o Words(2) \o <<Bytes(36)>>
MmspDataReportReadBlock == MmspReportMessageHeader \o Words(2)
MmspDataReportRedirect == MmspReportMessageHeader \o <<Bytes(2), Count(2), WideOf(3)>>
MmspDataSecurityChallenge == Words(2) \o <<Count(4), WideOf(3)>>
MmspDataReportStartPlaying == MmspReportMessageHeader \o Words(3)
MmspDataReportStartStriding == MmspReportMessageHeader \o Words(2)
MmspDataReportStreamChange == MmspReportMessageHeader \o Words(5)
MmspDataReportStreamSwitch == MmspReportMessageHeader

MmspDataCancelReadBlock == Words(1)
MmspDataCloseFile == Words(2)
MmspDataConnect == Words(3) \o <<Wide>>
MmspDataConnectFunnel == Words(5) \o <<Wide>>
MmspDataFunnelInfo == Words(1)
MmspDataOpenFile == Words(2) \o <<Count(4), Count(4), TokenOf(3), TokenOf(4)>>
MmspDataPong == Words(2)
MmspDataReadBlock == Words(6) \o <<Bytes(8), Bytes(8)>> \o Words(2)
MmspDataSecurityResponse == Words(2) \o <<Count(4), WideOf(3)>>
MmspDataStartPlaying == Words(2) \o <<Bytes(8)>> \o Words(4) \o <<Later, Later, Later>>
MmspDataStartStriding == Words(2) \o <<Bytes(8)>> \o Words(4) \o <<Bytes(8)>>
MmspDataStopPlaying == Words(2)
MmspDataStreamSwitch == <<Count(4), EntriesOf(1)>>

MmspLayouts ==
    [Ping |-> MmspDataPing, ReportConnectedEx |-> MmspDataReportConnectedEx,
     ReportConnectedFunnel |-> MmspDataReportConnectedFunnel,
     ReportDisconnectedFunnel |-> MmspDataReportDisconnectedFunnel, ReportEndOfStream |-> MmspDataReportEndOfStream,
     ReportFunnelInfo |-> MmspDataReportFunnelInfo, ReportOpenFile |-> MmspDataReportOpenFile,
     ReportReadBlock |-> MmspDataReportReadBlock, ReportRedirect |-> MmspDataReportRedirect,
     SecurityChallenge |-> MmspDataSecurityChallenge, ReportStartPlaying |-> MmspDataReportStartPlaying,
     ReportStartStriding |-> MmspDataReportStartStriding, ReportStreamChange |-> MmspDataReportStreamChange,
     ReportStreamSwitch |-> MmspDataReportStreamSwitch, CancelReadBlock |-> MmspDataCancelReadBlock,
     CloseFile |-> MmspDataCloseFile, Connect |-> MmspDataConnect, ConnectFunnel |-> MmspDataConnectFunnel,
     FunnelInfo |-> MmspDataFunnelInfo, OpenFile |-> MmspDataOpenFile, Pong |-> MmspDataPong,
     ReadBlock |-> MmspDataReadBlock, SecurityResponse |-> MmspDataSecurityResponse,
     StartPlaying |-> MmspDataStartPlaying, StartStriding |-> MmspDataStartStriding,
     StopPlaying |-> MmspDataStopPlaying, StreamSwitch |-> MmspDataStreamSwitch]
-----------------------------------------------------------------------------
(* the messages of Rtmp *)

RtmpMessageUserControl == <<Count(2), Union>>
RtmpCommandMessage == <<Amf, Amf, Amf, Arguments>>
RtmpDataMessage == <<Amf, Amf>>
RtmpMessageDataSetChunkSize == Words(1)
RtmpMessageDataAbortMessage == Words(1)
RtmpMessageDataAcknowledgement == Words(1)
RtmpMessageDataWindowAcknowledgementSize == Words(1)
RtmpMessageDataSetPeerBandwidth == <<Bytes(4), Bytes(1)>>

RtmpLayouts ==
    [UserControl |-> RtmpMessageUserControl,
     Command0 |-> RtmpCommandMessage, Command3 |-> <<Bytes(1)>> \o RtmpCommandMessage,
     Data0 |-> RtmpDataMessage, Data3 |-> <<Bytes(1)>> \o RtmpDataMessage,
     SetChunkSize |-> RtmpMessageDataSetChunkSize, Abort |-> RtmpMessageDataAbortMessage,
     Acknowledgement |-> RtmpMessageDataAcknowledgement,
     WindowSize |-> RtmpMessageDataWindowAcknowledgementSize, PeerBandwidth |-> RtmpMessageDataSetPeerBandwidth]

Layouts == MmspLayouts @@ RtmpLayouts
IsMmsp(name) == name \in DOMAIN MmspLayouts
Order(name) == IF IsMmsp(name) THEN "native" ELSE "big"
Events == {0, 1, 2, 4, 6, 7, 26, 27, 31, 32}    \* RtmpUserControlMessageType but SetBufferLength
SetBufferLength == 3
-----------------------------------------------------------------------------
(* a number others go by, and a collection: serialize_collection *)

SaveCount(ar, w, n) == save_binary(ar, Ordered(ar, Encoded(n, w)))
LoadCount(ar, w) ==
    LET r == load_binary(ar, w)
    IN Loaded(r.ar, IF r.ar.state # 0 THEN 0 ELSE Decoded(Ordered(ar, r.v)))

\* as many items as it says, up to the one that fails
LoadItems(ar, n, item(_)) ==
    FoldLeft(LAMBDA acc, i : IF acc.ar.state # 0 THEN acc
                             ELSE LET r == item(acc.ar)
                                  IN Loaded(r.ar, IF r.ar.state = 0 THEN Append(acc.v, r.v) ELSE acc.v),
             Loaded(ar, << >>), [i \in 1..n |-> i])
SaveItems(ar, v, item(_, _)) == FoldLeft(LAMBDA a, x : item(a, x), ar, v)

LoadBytes(ar, w) == LET r == load_binary(ar, w) IN IF r.ar.state # 0 THEN Loaded(r.ar, [i \in 1..w |-> 0]) ELSE r
LoadWide(ar) == LoadCount(ar, 2)
SaveWide(ar, c) == SaveCount(ar, 2, c)

\* MmspString::load without a size: up to its NUL, or until the archive fails
RECURSIVE LoadToNul(_, _)
LoadToNul(ar, got) ==
    LET r == LoadWide(ar)
    IN IF r.ar.state # 0 THEN Loaded(r.ar, got)
       ELSE IF r.v = 0 THEN Loaded(r.ar, Append(got, 0)) ELSE LoadToNul(r.ar, Append(got, r.v))
-----------------------------------------------------------------------------
(* RtmpAmfValue: <<its Type, its content>> *)

NUMBER == 0
BOOL == 1
TEXT == 2
OBJECT == 3
NULL_ == 5
UNDEFINED == 6
REFERENCE == 7
MIXEDARRAY == 8
OBJECT_END == 9
ARRAY == 10
DATE == 11
LONG_TEXT == 12

\* the length of a string has 16 bits, and as many of its characters are saved
SaveText(ar, w, s) ==
    LET n == IF w = 2 THEN Len(s) % 65536 ELSE Len(s)
    IN save_binary(SaveCount(ar, w, n), SubSeq(s, 1, n))
LoadText(ar, w) ==
    LET n == LoadCount(ar, w) IN LoadItems(n.ar, n.v, LAMBDA a : LET r == load_binary(a, 1) IN Loaded(r.ar, IF r.v = << >> THEN 0 ELSE r.v[1]))

RECURSIVE SaveAmf(_, _)
SaveProperty(ar, p) == SaveAmf(SaveText(ar, 2, p[1]), p[2])
\* RtmpAmfObject::save adds the end to whatever it holds
SaveObject(ar, ps) == SaveProperty(SaveItems(ar, ps, SaveProperty), <<<< >>, <<OBJECT_END>>>>)
SaveAmf(ar, v) ==
    LET typed == save_binary(ar, <<v[1]>>)
    IN CASE v[1] \in {NUMBER, BOOL, REFERENCE, DATE} -> save_binary(typed, v[2])
         [] v[1] = TEXT -> SaveText(typed, 2, v[2])
         [] v[1] = LONG_TEXT -> SaveText(typed, 4, v[2])
         [] v[1] = OBJECT -> SaveObject(typed, v[2])
         [] v[1] = MIXEDARRAY -> SaveItems(SaveCount(typed, 4, v[2]), SubSeq(v[3], 1, v[2]), SaveProperty)
         [] v[1] = ARRAY -> SaveItems(SaveCount(typed, 4, Len(v[2])), v[2], SaveAmf)
         [] v[1] \in {NULL_, UNDEFINED, OBJECT_END} -> typed
         [] OTHER -> Fails(typed, 2)

RECURSIVE LoadAmf(_)
Property(name, data) == Loaded(data.ar, <<name.v, data.v>>)
LoadNamed(name) == Property(name, LoadAmf(name.ar))
LoadProperty(ar) == LoadNamed(LoadText(ar, 2))
\* RtmpAmfObject::load: up to the property that is the end, which it keeps
RECURSIVE LoadProperties(_, _)
MoreProperties(r, got) ==
    IF r.ar.state # 0 THEN Loaded(r.ar, got)
    ELSE IF r.v[2][1] = OBJECT_END THEN Loaded(r.ar, Append(got, r.v)) ELSE LoadProperties(r.ar, Append(got, r.v))
LoadProperties(ar, got) == MoreProperties(LoadProperty(ar), got)

Typed(type, r) == Loaded(r.ar, <<type, r.v>>)
LoadArray(n) == Typed(ARRAY, LoadItems(n.ar, n.v, LoadAmf))
\* the count of a RtmpAmfECMAArray is kept beside its properties
LoadMixed(n) == LET r == LoadItems(n.ar, n.v, LoadProperty) IN Loaded(r.ar, <<MIXEDARRAY, n.v, r.v>>)
LoadContent(ar, type) ==
    CASE type = NUMBER -> Typed(type, LoadBytes(ar, 8))
      [] type = BOOL -> Typed(type, LoadBytes(ar, 1))
      [] type = REFERENCE -> Typed(type, LoadBytes(ar, 2))
      [] type = DATE -> Typed(type, LoadBytes(ar, 10))
      [] type = TEXT -> Typed(type, LoadText(ar, 2))
      [] type = LONG_TEXT -> Typed(type, LoadText(ar, 4))
      [] type = OBJECT -> Typed(type, LoadProperties(ar, << >>))
      [] type = MIXEDARRAY -> LoadMixed(LoadCount(ar, 4))
      [] type = ARRAY -> LoadArray(LoadCount(ar, 4))
      [] type \in {NULL_, UNDEFINED, OBJECT_END} -> Loaded(ar, <<type>>)
      [] OTHER -> Loaded(Fails(ar, 2), <<type>>)
LoadType(t) == IF t.ar.state # 0 THEN Loaded(t.ar, <<UNDEFINED>>) ELSE LoadContent(t.ar, t.v[1])
LoadAmf(ar) == LoadType(load_binary(ar, 1))

\* RtmpCommandMessage::load: arguments while there are; what stopped it is forgotten
RECURSIVE LoadArguments(_, _)
MoreArguments(r, got) ==
    IF r.ar.state # 0 THEN Loaded([r.ar EXCEPT !.state = 0], got) ELSE LoadArguments(r.ar, Append(got, r.v))
LoadArguments(ar, got) == MoreArguments(LoadAmf(ar), got)
-----------------------------------------------------------------------------
(* a field of a message, the fields before it saved or loaded as v *)

SaveField(ar, f, x) ==
    CASE f[1] \in {"bytes", "later"} -> save_binary(ar, x)
      [] f[1] = "count" -> SaveCount(ar, f[2], x)
      [] f[1] \in {"wide", "token"} -> SaveItems(ar, x, SaveWide)
      [] f[1] = "entries" -> SaveItems(ar, x, LAMBDA a, e : save_binary(a, e[1] \o e[2] \o e[3]))
      [] f[1] = "union" -> SaveItems(ar, x, save_binary)
      [] f[1] = "amf" -> SaveAmf(ar, x)
      [] f[1] = "arguments" -> SaveItems(ar, x, SaveAmf)

\* an MmspString is read by its size once it was told one
LoadString_Bytes(ar, f, v) == IF f = Wide THEN LoadToNul(ar, << >>) ELSE LoadItems(ar, v[f[2]], LoadWide)
LoadString(ar, f, v) ==
    IF f = Wide \/ (f[1] = "token" /\ v[3] = 0) THEN LoadToNul(ar, << >>)
    ELSE LoadItems(ar, IF f[1] = "token" THEN v[f[2]] \div 2 ELSE v[f[2]], LoadWide)
LoadUnion(ar, v) ==
    CASE v[1] = SetBufferLength -> LoadItems(ar, 2, LAMBDA a : LoadBytes(a, 4))
      [] v[1] \in Events -> LoadItems(ar, 1, LAMBDA a : LoadBytes(a, 4))
      [] OTHER -> Loaded(Fails(ar, 2), << >>)
LoadEntry(ar) ==
    LET r == LoadBytes(ar, 6) IN Loaded(r.ar, <<SubSeq(r.v, 1, 2), SubSeq(r.v, 3, 4), SubSeq(r.v, 5, 6)>>)
LoadField(ar, f, v) ==
    CASE f[1] = "bytes" -> LoadBytes(ar, f[2])
      [] f[1] = "count" -> LoadCount(ar, f[2])
      [] f[1] \in {"wide", "token"} -> LoadString(ar, f, v)
      [] f[1] = "entries" -> LoadItems(ar, v[f[2]], LoadEntry)
      [] f[1] = "later" -> LoadBytes(ar, 4)
      [] f[1] = "union" -> LoadUnion(ar, v)
      [] f[1] = "amf" -> LoadAmf(ar)
      [] f[1] = "arguments" -> IF ar.state # 0 THEN Loaded(ar, << >>) ELSE LoadArguments(ar, << >>)

\* the numbers older peers leave out come last: that they are missing is forgotten
SaveFields(ar, layout, value) == FoldLeft(LAMBDA a, i : SaveField(a, layout[i], value[i]), ar, [i \in DOMAIN value |-> i])
Added(acc, r) == Loaded(r.ar, Append(acc.v, r.v))
LoadEach(acc, fields) == FoldLeft(LAMBDA a, f : Added(a, LoadField(a.ar, f, a.v)), acc, fields)
Forgiven(acc) == Loaded([acc.ar EXCEPT !.state = 0], acc.v)
LoadLater(acc, fields) == IF fields = << >> \/ acc.ar.state # 0 THEN LoadEach(acc, fields) ELSE Forgiven(LoadEach(acc, fields))
LoadFields(ar, layout) ==
    LoadLater(LoadEach(Loaded(ar, << >>), SelectSeq(layout, LAMBDA f : f # Later)), SelectSeq(layout, LAMBDA f : f = Later))
-----------------------------------------------------------------------------
(* the message around them: MessageHelper and MmspMessageHelper *)

Archive(name) == [kind |-> Order(name), state |-> 0, out |-> << >>, room |-> 1000, rest |-> << >>]

\* MmspMessageHeader::chunk_size: how many bytes are missing to a whole chunk
Missing(n) == (8 - (n % 8)) % 8
Pad(ar, n) == save_binary(ar, [i \in 1..n |-> 0])
PadOver(ar, n) == load_binary(ar, n).ar

\* MmspMessageHeader::data_size, both ways
ChunksOf(n) == n \div 8 + 1
SizeOf(chunks) == (chunks - 1) * 8

to_data(name, layout, value) ==
    LET saved == SaveFields(Archive(name), layout, value)
        whole == IF IsMmsp(name) THEN Pad(saved, Missing(Len(saved.out))) ELSE saved
    IN [chunks |-> ChunksOf(Len(whole.out)), data |-> whole.out]

\* what is behind the fields is read over: to a whole chunk, then to the size the header says
Used(wire, ar) == Len(wire.data) - Len(ar.rest)
Aligns(wire, ar) == PadOver(ar, Missing(Used(wire, ar)))
Finishes(wire, ar) ==
    IF SizeOf(wire.chunks) > Used(wire, ar) THEN PadOver(ar, SizeOf(wire.chunks) - Used(wire, ar)) ELSE ar
FitsChunks(wire, ar) == ar.state = 0 /\ Used(wire, ar) = SizeOf(wire.chunks)
Finished(name, wire, r) ==
    [got |-> r.v, agrees |-> IF IsMmsp(name) THEN FitsChunks(wire, Finishes(wire, Aligns(wire, r.ar)))
                             ELSE r.ar.state = 0 /\ r.ar.rest = << >>]
from_data(name, wire) == Finished(name, wire, LoadFields([Archive(name) EXCEPT !.rest = wire.data], Layouts[name]))
-----------------------------------------------------------------------------
(* the messages that are sent *)

Number(i) == [j \in 1..8 |-> 10 * i + j]
Nul(s) == Append(s, 0)
\* the texts of a message's strings, in their order; then the sizes that go with them
Strings(layout) == {i \in DOMAIN layout : layout[i][1] \in {"wide", "token"}}
Terminated(f, s) == IF f = Wide THEN Nul(s) ELSE s
Filled(layout, texts) ==
    [i \in DOMAIN layout |->
        CASE layout[i][1] = "bytes" -> [j \in 1..layout[i][2] |-> (10 * i + j) % 256]
          [] layout[i][1] = "later" -> SubSeq(Number(i), 1, 4)
          [] layout[i][1] = "wide" -> Terminated(layout[i], texts[i])
          [] layout[i][1] = "token" -> texts[i]
          [] layout[i][1] = "count" ->
                 LET of == CHOOSE k \in Strings(layout) : i \in {layout[k][j] : j \in 2..Len(layout[k])}
                 IN Len(texts[of]) * (IF layout[of][1] = "token" THEN 2 ELSE 1)]

\* OpenFile as MmspClient sends it: no token, its name up to the NUL, nothing behind it
Tokenless(s) == <<<<1, 2, 3, 4>>, <<5, 6, 7, 8>>, 0, 0, Nul(s), << >>>>
Aligned(s) == (Len(s) + 1) % 4 = 0
Entry(i) == <<<<i, 1>>, <<i, 2>>, <<i, 3>>>>

Number8 == <<NUMBER, <<63, 240, 0, 0, 0, 0, 0, 0>>>>
TextV == <<TEXT, <<97, 98>>>>
Named(v) == <<<<99>>, v>>
Objects == {<<OBJECT, << >>>>, <<OBJECT, <<Named(Number8), Named(<<OBJECT, <<Named(TextV)>>>>)>>>>}
Values ==
    {Number8, TextV, <<NULL_>>, <<UNDEFINED>>, <<BOOL, <<1>>>>, <<REFERENCE, <<0, 1>>>>, <<LONG_TEXT, <<97>>>>,
     <<DATE, [i \in 1..10 |-> i]>>, <<ARRAY, <<Number8, TextV>>>>, <<MIXEDARRAY, 1, <<Named(TextV)>>>>}
    \cup Objects
    \cup (IF "uncounted" \in Oddities THEN {<<MIXEDARRAY, 0, <<Named(TextV)>>>>} ELSE {})
    \cup (IF "resent" \in Oddities THEN {<<OBJECT, <<Named(TextV), <<<< >>, <<OBJECT_END>>>>>>>>} ELSE {})
Commands == {<<TextV, Number8, o, args>> : o \in Objects \cup {<<NULL_>>},
                                           args \in {<< >>} \cup {<<v>> : v \in Values} \cup {<<v, TextV>> : v \in Values}}

Fills(name) ==
    LET layout == Layouts[name]
    IN CASE name = "OpenFile" ->
              {Tokenless(s) : s \in {t \in Names : ~Aligned(t) \/ "aligned" \in Oddities}}
              \cup {Filled(layout, 5 :> s @@ 6 :> t) : s \in Names \ {<< >>}, t \in Names}
         [] name = "StreamSwitch" -> {<<n, [i \in 1..n |-> Entry(i)]>> : n \in 0..2}
         [] name = "UserControl" -> {<<e, <<<<1, 2, 3, 4>>>>>> : e \in Events} \cup {<<SetBufferLength, <<<<1, 2, 3, 4>>, <<5, 6, 7, 8>>>>>>}
         [] name = "Command0" -> Commands
         [] name = "Command3" -> {<<<<0>>>> \o c : c \in Commands}
         [] name = "Data0" -> {<<TextV, v>> : v \in Values}
         [] name = "Data3" -> {<<<<0>>, TextV, v>> : v \in Values}
         [] OTHER -> {Filled(layout, texts) : texts \in [Strings(layout) -> Names]}

MessageInit ==
    \E name \in DOMAIN Layouts : \E v \in Fills(name) :
        message = [name |-> name, value |-> v, how |-> "same", phase |-> "new",
                   wire |-> [chunks |-> 0, data |-> << >>], got |-> << >>, agrees |-> FALSE]

HasLater(name) == Later \in Range(Layouts[name])
\* sent whole; by an older peer, without the last numbers; or cut short
Send ==
    /\ message.phase = "new"
    /\ \E kept \in IF HasLater(message.name) THEN {Len(message.value), Len(message.value) - 1, Len(message.value) - 3}
                   ELSE {Len(message.value)} :
        message' = [message EXCEPT !.wire = to_data(message.name, Layouts[message.name], SubSeq(message.value, 1, kept)),
                                   !.value = SubSeq(@, 1, kept) \o [i \in 1..Len(@) - kept |-> <<0, 0, 0, 0>>],
                                   !.phase = "sent"]
Lost ==
    /\ message.phase = "sent" /\ message.how = "same" /\ ~HasLater(message.name) /\ message.wire.data # << >>
    /\ \E n \in {Len(message.wire.data) \div 2, Len(message.wire.data) - 9, Len(message.wire.data) - 8, Len(message.wire.data) - 1} :
        /\ n >= 0
        /\ message' = [message EXCEPT !.wire.data = SubSeq(@, 1, n), !.how = "cut"]
Receive ==
    /\ message.phase = "sent"
    /\ \E r \in {from_data(message.name, message.wire)} :
          message' = [message EXCEPT !.got = r.got, !.agrees = r.agrees, !.phase = "read"]

MessageNext == Send \/ Lost \/ Receive
-----------------------------------------------------------------------------
\* what a program sees of a loaded message: MmspString::to_string leaves the NULs at the end out, and an object's end is no property
RECURSIVE Seen(_)
NoNuls(s) == IF s # << >> /\ s[Len(s)] = 0 THEN SubSeq(s, 1, Len(s) - 1) ELSE s
SeenProperty(p) == <<p[1], Seen(p[2])>>
Seen(v) ==
    CASE v[1] = OBJECT -> <<OBJECT, [i \in DOMAIN SelectSeq(v[2], LAMBDA p : p[2] # <<OBJECT_END>>) |->
                                        SeenProperty(SelectSeq(v[2], LAMBDA p : p[2] # <<OBJECT_END>>)[i])]>>
      [] v[1] = MIXEDARRAY -> <<MIXEDARRAY, [i \in DOMAIN v[3] |-> SeenProperty(v[3][i])]>>
      [] v[1] = ARRAY -> <<ARRAY, [i \in DOMAIN v[2] |-> Seen(v[2][i])]>>
      [] OTHER -> v
SeenField(f, x) ==
    CASE f[1] \in {"wide", "token"} -> NoNuls(x)
      [] f = Amf -> Seen(x)
      [] f = Arguments -> [i \in DOMAIN x |-> Seen(x[i])]
      [] OTHER -> x
SeenAll(name, v) == [i \in DOMAIN v |-> SeenField(Layouts[name][i], v[i])]
Fixed(name, v) == SubSeq(v, 1, Len(v) - 1)

(* A message is read as it was sent, whatever its strings, its values and what an       *)
(* older peer left out, and the header agrees with what was read; of a message cut         *)
(* short either the assert of ~MessageHelper tells, or it is a command that has lost       *)
(* its last arguments and holds no wrong one (MessageHelper.h, RtmpAmfType.h,              *)
(* RtmpMessageDataCommand.h:45-48, MmspString.h:63-78).                                *)
MessagesReadAsSent ==
    message.phase = "read" =>
        LET sent == SeenAll(message.name, message.value)
            got == SeenAll(message.name, message.got)
            last == Len(sent)
        IN IF message.how = "same" THEN message.agrees /\ got = sent
           ELSE \/ ~message.agrees
                \/ /\ Layouts[message.name][last] = Arguments
                   /\ Fixed(message.name, got) = Fixed(message.name, sent)
                   /\ IsStrictPrefix(got[last], sent[last])
=============================================================================
