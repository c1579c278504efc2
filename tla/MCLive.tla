-------------------------------- MODULE MCLive --------------------------------
(***************************************************************************)
(* The components that owe something eventually, for TLC: mail that comes, *)
(* notices to staff, the calendar, a telephone call, the line under it, the *)
(* proxy's socket.  They meet in the deal's row only, which DealDesk models, *)
(* so a run explores one after the other: part says which one moves, and   *)
(* the others stay where they begin.                                       *)
(***************************************************************************)
EXTENDS MailIntake, StaffNotices, VoiceCall, VoiceLine, FakeTls,
        CalendarSync

VARIABLE part

Desk == <<ivars, nvars, kvars>>
Wire == <<vvars, lvars, zvars>>
livevars == <<part, Desk, Wire>>
Parts == {"mail", "notices", "calendar", "call", "line", "tls"}

LiveInit ==
    /\ part \in Parts
    /\ MailInit /\ NoticesInit /\ CallInit /\ LineInit /\ TlsInit
    /\ CalendarInit /\ (part # "calendar" => refused = {})
    /\ part # "tls" => wire = Bytes(Handshake)

OtherThanMail == <<part, nvars, kvars, Wire>>
OtherThanNotices == <<part, ivars, kvars, Wire>>
OtherThanCalendar == <<part, ivars, nvars, Wire>>
OtherThanCall == <<part, Desk, lvars, zvars>>
OtherThanLine == <<part, Desk, vvars, zvars>>
OtherThanTls == <<part, Desk, vvars, lvars>>

MailPart == part = "mail" /\ MailNext /\ UNCHANGED OtherThanMail
NoticesPart == part = "notices" /\ NoticesNext /\ UNCHANGED OtherThanNotices
CalendarPart == part = "calendar" /\ CalendarNext /\ UNCHANGED OtherThanCalendar
CallPart == part = "call" /\ CallNext /\ UNCHANGED OtherThanCall
LinePart == part = "line" /\ LineNext /\ UNCHANGED OtherThanLine
TlsPart == part = "tls" /\ TlsNext /\ UNCHANGED OtherThanTls

LiveNext == \/ MailPart \/ NoticesPart \/ CalendarPart
            \/ CallPart \/ LinePart \/ TlsPart

\* The fairness of the parts: MailFairness, NoticesFairness,
\* CallFairness, LineFairness and that of TlsSpec and CalendarSpec.
MailMoves(s) == part = "mail" /\ SyncStep(s) /\ UNCHANGED OtherThanMail
NoticeMoves(n) == part = "notices" /\ PostNotice(n) /\ UNCHANGED OtherThanNotices
CheckMoves == part = "notices" /\ CheckTtl /\ UNCHANGED OtherThanNotices
SyncMoves == part = "calendar" /\ SyncCalendar /\ UNCHANGED OtherThanCalendar
HandlerMoves(c) == part = "call" /\ CallHandler(c) /\ UNCHANGED OtherThanCall
LimitMoves(c) == part = "call" /\ LimitFires(c) /\ UNCHANGED OtherThanCall
ReferMoves(c) == part = "call" /\ ReferAnswered(c) /\ UNCHANGED OtherThanCall
EndMoves(c, st) == part = "call" /\ CallEnd(c, st) /\ UNCHANGED OtherThanCall
StreamMoves == part = "line" /\ Streaming /\ UNCHANGED OtherThanLine
ToolMoves == part = "line" /\ ToolReturns /\ UNCHANGED OtherThanLine
PlayMoves == part = "line" /\ Playing /\ UNCHANGED OtherThanLine
GuardMoves == part = "line" /\ GuardFires /\ UNCHANGED OtherThanLine
ReadMoves == part = "tls" /\ Read /\ UNCHANGED OtherThanTls
ArriveMoves == part = "tls" /\ Arriving /\ UNCHANGED OtherThanTls

LiveSpec ==
    /\ LiveInit /\ [][LiveNext]_livevars
    /\ \A s \in Syncs : WF_livevars(MailMoves(s))
    /\ \A n \in Notices : WF_livevars(NoticeMoves(n))
    /\ WF_livevars(CheckMoves) /\ WF_livevars(SyncMoves)
    /\ \A c \in Calls : /\ WF_livevars(HandlerMoves(c)) /\ WF_livevars(LimitMoves(c))
                       /\ WF_livevars(ReferMoves(c))
                       /\ \A st \in EndStates : WF_livevars(EndMoves(c, st))
    /\ WF_livevars(StreamMoves) /\ WF_livevars(ToolMoves)
    /\ WF_livevars(PlayMoves) /\ WF_livevars(GuardMoves)
    /\ WF_livevars(ReadMoves) /\ WF_livevars(ArriveMoves)
=============================================================================
