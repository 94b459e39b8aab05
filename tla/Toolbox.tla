-------------------------------- MODULE Toolbox --------------------------------
(***************************************************************************)
(* What the components are built from: the registry of the modules of a Daemon,      *)
(* events, archives, the data of messages, the heads of requests and responses, and    *)
(* the descriptions of sessions, and the data views.  They share nothing, so a            *)
(* behaviour is of one.                                                                   *)
(***************************************************************************)
EXTENDS ModuleRegistry

CONSTANTS
    Listeners, Leaves, MaxRaises, LeavesNested, Observed, MaxObservables, MaxEventSteps,
    Piece, Numbers, ArchivedTexts, Octets, Rooms, Depth, ArchiveOddities,
    MessageNames, MessageOddities,
    Lengths, FieldWords, HeadLines, HeadSteps, Limit, Ranges, Reasons, Methods, HeadOddities,
    TextLines, TextLength, MaxSections, SdpSteps, SdpOddities,
    Nodes, MaxNodes, MaxViewed, MaxRows, MaxSessions, TableWidth, ViewOddities

VARIABLES events, archive, message, head, sdp, view

vars == <<registry, events, archive, message, head, sdp, view>>

E == INSTANCE Events WITH Names <- Observed, MaxSteps <- MaxEventSteps
A == INSTANCE Archives WITH Texts <- ArchivedTexts, Oddities <- ArchiveOddities
M == INSTANCE MessageData WITH Names <- MessageNames, Oddities <- MessageOddities
H == INSTANCE HttpHeads WITH MaxLines <- HeadLines, MaxSteps <- HeadSteps, Oddities <- HeadOddities
D == INSTANCE SessionDescription WITH MaxLines <- TextLength, MaxSteps <- SdpSteps
V == INSTANCE DataViews WITH Reads <- MaxViewed

Init ==
    \/ RegistryInit /\ events = Absent /\ archive = Absent /\ message = Absent /\ head = Absent /\ sdp = Absent /\ view = Absent
    \/ registry = Absent /\ E!EventsInit /\ archive = Absent /\ message = Absent /\ head = Absent /\ sdp = Absent /\ view = Absent
    \/ registry = Absent /\ events = Absent /\ A!ArchivesInit /\ message = Absent /\ head = Absent /\ sdp = Absent /\ view = Absent
    \/ registry = Absent /\ events = Absent /\ archive = Absent /\ M!MessageInit /\ head = Absent /\ sdp = Absent /\ view = Absent
    \/ registry = Absent /\ events = Absent /\ archive = Absent /\ message = Absent /\ H!HeadsInit /\ sdp = Absent /\ view = Absent
    \/ registry = Absent /\ events = Absent /\ archive = Absent /\ message = Absent /\ head = Absent /\ D!SdpInit /\ view = Absent
    \/ registry = Absent /\ events = Absent /\ archive = Absent /\ message = Absent /\ head = Absent /\ sdp = Absent /\ V!ViewInit

Next ==
    \/ registry # Absent /\ RegistryNext /\ UNCHANGED <<events, archive, message, head, sdp, view>>
    \/ events # Absent /\ E!EventsNext /\ UNCHANGED <<registry, archive, message, head, sdp, view>>
    \/ archive # Absent /\ A!ArchivesNext /\ UNCHANGED <<registry, events, message, head, sdp, view>>
    \/ message # Absent /\ M!MessageNext /\ UNCHANGED <<registry, events, archive, head, sdp, view>>
    \/ head # Absent /\ H!HeadsNext /\ UNCHANGED <<registry, events, archive, message, sdp, view>>
    \/ sdp # Absent /\ D!SdpNext /\ UNCHANGED <<registry, events, archive, message, head, view>>
    \/ view # Absent /\ V!ViewNext /\ UNCHANGED <<registry, events, archive, message, head, sdp>>

Spec == Init /\ [][Next]_vars

\* each thread runs
FairSpec == Spec /\ \A t \in Users : WF_registry(registry # Absent /\ RegistryStep(t))
-----------------------------------------------------------------------------
(* Every call of the registry comes back, also those whose modules use others in         *)
(* their constructors (ModuleRegistry.h:102: "to allow for nested calls").                *)
RegistryCallsReturn == []<>(registry # Absent => CallsReturn)

(* A raise meets the listeners that were there when it began and still are, once          *)
(* each (Event.cpp:41-47).                                                               *)
EventsMeetAll == events # Absent => E!RaisesMeetAll

(* A value is loaded from an archive as it was saved (BasicArchiveT.h:168-255).            *)
ArchivesKeep == archive # Absent => A!LoadsWhatWasSaved

(* A message is read from its bytes as it was sent (MessageHelper.h:56-112).               *)
MessagesKeep == message # Absent => M!MessagesReadAsSent

(* What is written in one of the formats of the code is read as it was meant.             *)
FormatsKeep == ArchivesKeep /\ MessagesKeep

(* A head has the fields it was told of and no others (HttpHead.cpp:49-160).                *)
HeadsAsTold == head # Absent => H!HeadIsAsTold

(* A session's description holds what its text says (SessionDescription.cpp:387-430).       *)
DescriptionsAsSaid == sdp # Absent => D!DescriptionsKeep

(* The texts of http, rtsp and sdp are taken for what they say.                            *)
TextsAsTold == HeadsAsTold /\ DescriptionsAsSaid

(* The data views answer about the node that a path names (CatalogReg.cpp:19-155).          *)
ViewsAnswer == view # Absent => V!ViewsAgree
-----------------------------------------------------------------------------
\* the instance
TheUses == {<<"a", "b">>, <<"c", "b">>}
TheTexts == {<< >>, <<1>>, <<2, 3, 4>>, <<5, 32>>, <<1, 2, 3, 4, 5>>}
TheNames == {<< >>, <<65>>, <<65, 66>>, <<65, 66, 67>>, <<257, 66, 67, 68>>}
TheRanges == {<<0, "to", 7>>, <<2, "on">>, <<3, "last">>, <<1, "only">>}
TheLines == {<<"v", <<"u", 0>>>>, <<"t", <<"u", 0>>>>, <<"r", <<"u", 0>>>>, <<"a", <<"u", 0>>>>, <<"a", <<"rtpmap", 96>>>>,
             <<"m", <<"u", 0>>>>, <<"k", <<"u", 0>>>>, <<"z", <<"u", 0, "\r">>>>, <<"bad">>}
TheNodes ==
    LET x == V!Datum("x", "int")
        y == V!Datum("y", "text")
        p == V!Catalog("object", "p", <<y>>)
    IN {V!Catalog("object", "o", <<x, p>>), V!Catalog("pointer", "q", <<x, y>>), V!Catalog("reg", "r", <<y, p>>), V!Datum("d", "int"),
        V!Catalog("own", "w", <<x, y>>), V!Catalog("own", "w", <<x, p>>), V!Catalog("own", "w", <<x, y, x>>)}
=============================================================================
