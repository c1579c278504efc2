-------------------------------- MODULE MCSafe --------------------------------
(***************************************************************************)
(* The components that have safety properties only, for TLC: suppliers,    *)
(* cabinets, the mailer, the sorting of letters, files of a deal, media in  *)
(* chats, the staff room and its topics, the chat gateway's accounts, SIP   *)
(* registration, audio, the mail archive, parsers.                         *)
(* As in MCLive, part says which one moves and the others stay where they  *)
(* begin.                                                                  *)
(***************************************************************************)
EXTENDS SupplierDesk, CarrierCabinets, MailSender, DealFiles, StaffPeer, StaffRoom, StaffTopics,
        TopicHistory, MailDump, ClientArchive, ParserRuns, ChatAccounts, SipRegistrar,
        G711, AudioStream, MailTriage, InboundMedia

VARIABLE part

Supply == <<svars, uvars, mvars, fvars>>
Inbound == <<wvars, bvars>>
Staff == <<pvars, rvars, tvars, hvars>>
Scripts == <<dvars, avars, qvars>>
Wires == <<yvars, gvars, xvars, ovars>>
safevars == <<part, Supply, Inbound, Staff, Scripts, Wires>>
Parts == {"supplier", "cabinets", "mailer", "files", "triage", "media", "peer", "room", "topics", "history",
          "dump", "archive", "parsers", "accounts", "sip", "codec", "audio"}

PlainLetter == [from |-> "firm", heads |-> {}, words |-> {}, ref |-> FALSE, price |-> FALSE]
PlainParcel == [door |-> "client", kind |-> "photo", caption |-> FALSE]
PlainLuck == [loads |-> "bytes", key |-> TRUE, size |-> "fits",
              hears |-> [i \in 1..SpeechModels |-> "text"]]

\* A part that does not move begins in one state.
SafeInit ==
    /\ part \in Parts
    /\ CabinetsInit /\ (part # "cabinets" => mode = "off" /\ ~apiQuotes)
    /\ SenderInit /\ (part # "mailer" => mailAuth = "oauth2" /\ mailProxy)
    /\ TopicsInit /\ (part # "topics" => env = {} /\ \A k \in TopicKinds : forum[k] = 0)
    /\ HistoryInit /\ (part # "history" => ~ranBefore /\ \A i \in DOMAIN room : room[i] = "text")
    /\ ArchiveInit /\ (part # "archive" => \A l \in ArchLetters : traits[l].news)
    /\ DumpInit
    /\ (part # "dump" => \A l \in Mails : fileName[l] = CHOOSE n \in FileNames : TRUE)
    /\ SupplierInit /\ FilesInit /\ PeerInit /\ RoomInit /\ ParserInit
    /\ AccountsInit /\ SipInit /\ CodecInit /\ AudioInit
    /\ (part = "triage" \/ (letterIn = PlainLetter /\ gptOn = TRUE)) /\ TriageInit
    /\ (part = "media" \/ (parcel = PlainParcel /\ luck = PlainLuck)) /\ MediaInit

SupplyMoves ==
    /\ \/ part = "supplier" /\ SupplierNext /\ UNCHANGED <<uvars, mvars, fvars>>
       \/ part = "cabinets" /\ CabinetsNext /\ UNCHANGED <<svars, mvars, fvars>>
       \/ part = "mailer" /\ SenderNext /\ UNCHANGED <<svars, uvars, fvars>>
       \/ part = "files" /\ FilesNext /\ UNCHANGED <<svars, uvars, mvars>>
    /\ UNCHANGED <<part, Inbound, Staff, Scripts, Wires>>

InboundMoves ==
    /\ \/ part = "triage" /\ TriageNext /\ UNCHANGED bvars
       \/ part = "media" /\ MediaNext /\ UNCHANGED wvars
    /\ UNCHANGED <<part, Supply, Staff, Scripts, Wires>>

\* Bound: a stop or a sync, when there are any, with one message in the room.
RoomBound == roomStops + roomSyncs = 0 \/ Cardinality({n \in Notes : notes[n].said}) <= 1

StaffMoves ==
    /\ \/ part = "peer" /\ PeerNext /\ UNCHANGED <<rvars, tvars, hvars>>
       \/ part = "room" /\ RoomNext /\ RoomBound' /\ UNCHANGED <<pvars, tvars, hvars>>
       \/ part = "topics" /\ TopicsNext /\ UNCHANGED <<pvars, rvars, hvars>>
       \/ part = "history" /\ HistoryNext /\ UNCHANGED <<pvars, rvars, tvars>>
    /\ UNCHANGED <<part, Supply, Inbound, Scripts, Wires>>

ScriptMoves ==
    /\ \/ part = "dump" /\ DumpNext /\ UNCHANGED <<avars, qvars>>
       \/ part = "archive" /\ ArchiveNext /\ UNCHANGED <<dvars, qvars>>
       \/ part = "parsers" /\ ParserNext /\ UNCHANGED <<dvars, avars>>
    /\ UNCHANGED <<part, Supply, Inbound, Staff, Wires>>

WireMoves ==
    /\ \/ part = "accounts" /\ AccountsNext /\ UNCHANGED <<gvars, xvars, ovars>>
       \/ part = "sip" /\ SipNext /\ UNCHANGED <<yvars, xvars, ovars>>
       \/ part = "codec" /\ CodecNext /\ UNCHANGED <<yvars, gvars, ovars>>
       \/ part = "audio" /\ AudioNext /\ UNCHANGED <<yvars, gvars, xvars>>
    /\ UNCHANGED <<part, Supply, Inbound, Staff, Scripts>>

SafeNext == SupplyMoves \/ InboundMoves \/ StaffMoves \/ ScriptMoves \/ WireMoves
SafeSpec == SafeInit /\ [][SafeNext]_safevars

\* Every variable of every part keeps its type.
SafeTypeOK ==
    /\ part \in Parts
    /\ SupplierTypeOK /\ CabinetsTypeOK /\ SenderTypeOK /\ FilesTypeOK
    /\ TriageTypeOK /\ MediaTypeOK
    /\ PeerTypeOK /\ RoomTypeOK /\ TopicsTypeOK /\ HistoryTypeOK
    /\ DumpTypeOK /\ ArchiveTypeOK /\ ParserTypeOK
    /\ AccountsTypeOK /\ SipTypeOK /\ CodecTypeOK /\ AudioTypeOK
=============================================================================
