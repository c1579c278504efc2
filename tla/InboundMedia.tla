----------------------------- MODULE InboundMedia -----------------------------
(***************************************************************************)
(* From a photo, a file or a voice to the words the assistant works on.    *)
(* Three doors: a client's private chat, the listener of the staff group,  *)
(* and the management bot, which takes voices only.  Downloads and calls   *)
(* of OpenAI fail, return nothing or throw; a voice is tried with one      *)
(* model after another.                                                    *)
(***************************************************************************)
EXTENDS Naturals, FiniteSets

CONSTANTS
    SpeechModels        \* how many models a voice is tried with, 3 or 2

ASSUME MediaAssumption == SpeechModels \in Nat \ {0}

VARIABLES
    parcel,             \* the message: its door, its kind, its caption
    luck,               \* what fails on the way: what there is to find out
    mediaAt,            \* where its processing stands
    nextModel,          \* the model to try next
    gist                \* what reaches the assistant, and whether it did

bvars == <<parcel, luck, mediaAt, nextModel, gist>>

Doors == {"client", "listener", "bot"}
Kinds == {"photo", "image", "pdf", "office", "voice", "unknown"}
Voice == parcel.kind = "voice"

\* loads: the download throws, gives nothing, or gives the bytes; hears: what each
\* model of a voice, or the one reader of another kind, makes of them.
MediaInit ==
    /\ parcel \in [door: Doors, kind: Kinds, caption: BOOLEAN]
    /\ parcel.door = "bot" => parcel.kind = "voice"
    /\ luck \in [loads: {"throws", "nothing", "bytes"}, key: BOOLEAN, size: {"fits", "large"},
                hears: [1..SpeechModels -> {"throws", "nothing", "text"}]]
    /\ mediaAt = "new" /\ nextModel = 1 /\ gist = {}

MediaGoes(at) == mediaAt' = at /\ UNCHANGED <<parcel, luck>>
Caption == IF parcel.caption THEN {"caption"} ELSE {}

-----------------------------------------------------------------------------
\* A sticker, a round video, an archive: classifyTelegramMedia finds no kind; or
\* the bytes do not come.  Without a caption nothing is left of such a message.
NoMedia ==
    /\ mediaAt = "new"
    /\ \/ parcel.kind = "unknown"
       \/ luck.loads = "nothing" /\ parcel.door # "bot"
    /\ gist' = Caption
    /\ MediaGoes(IF parcel.caption THEN "done" ELSE "lost") /\ UNCHANGED nextModel

\* downloadMedia throws: the client's handler is over, the listener goes on with
\* the caption, the bot with a request to write.
DownloadThrows ==
    /\ mediaAt = "new" /\ parcel.kind # "unknown"
    /\ luck.loads = "throws" \/ (luck.loads = "nothing" /\ parcel.door = "bot")
    /\ gist' = CASE parcel.door = "client" -> {}
                  [] parcel.door = "listener" -> Caption
                  [] parcel.door = "bot" -> IF parcel.caption THEN Caption ELSE {"please write"}
    /\ MediaGoes(IF gist' = {} THEN "lost" ELSE "done") /\ UNCHANGED nextModel

\* The listener reads no files, only voices: of the others the caption.
ListenerPasses ==
    /\ mediaAt = "new" /\ parcel.door = "listener" /\ luck.loads = "bytes"
    /\ ~Voice /\ parcel.kind # "unknown"
    /\ gist' = Caption
    /\ MediaGoes(IF parcel.caption THEN "done" ELSE "lost") /\ UNCHANGED nextModel

Downloaded ==
    /\ mediaAt = "new" /\ parcel.kind # "unknown" /\ luck.loads = "bytes"
    /\ parcel.door # "listener" \/ Voice
    /\ MediaGoes(IF Voice THEN "voice" ELSE "file") /\ UNCHANGED <<nextModel, gist>>

\* A PDF and an office file are read here; a picture is described by OpenAI if
\* there is a key and the picture is not too large.
ReadFile ==
    /\ mediaAt = "file"
    /\ gist' = IF luck.hears[1] = "text"
                     /\ (parcel.kind \in {"photo", "image"} => luck.key /\ luck.size = "fits")
                THEN {"contents"} ELSE {}
    /\ MediaGoes("compose") /\ UNCHANGED nextModel

\* transcribeAudio without a key, or of too long a record.
SkipVoice ==
    /\ mediaAt = "voice" /\ (~luck.key \/ luck.size = "large")
    /\ MediaGoes("compose") /\ UNCHANGED <<nextModel, gist>>

\* Mutant: a model that throws ends the loop.
TryModel_throws ==
    /\ mediaAt = "voice" /\ luck.key /\ luck.size = "fits"
    /\ IF luck.hears[nextModel] = "text" THEN gist' = {"contents"} ELSE UNCHANGED gist
    /\ IF luck.hears[nextModel] \in {"text", "throws"} \/ nextModel = SpeechModels
       THEN MediaGoes("compose") /\ UNCHANGED nextModel
       ELSE MediaGoes("voice") /\ nextModel' = nextModel + 1

\* One model after the other, until one returns text.
TryModel ==
    /\ mediaAt = "voice" /\ luck.key /\ luck.size = "fits"
    /\ IF luck.hears[nextModel] = "text" THEN gist' = {"contents"} ELSE UNCHANGED gist
    /\ IF luck.hears[nextModel] = "text" \/ nextModel = SpeechModels
       THEN MediaGoes("compose") /\ UNCHANGED nextModel
       ELSE MediaGoes("voice") /\ nextModel' = nextModel + 1

\* composeInboundText.  A client's message says what was sent and, when it could
\* not be read, asks the assistant to ask again; a colleague's voice is only its
\* transcript, or its caption, or the request to write.
Compose ==
    /\ mediaAt = "compose"
    /\ gist' = IF parcel.door = "client"
                THEN Caption \cup gist \cup {"label"}
                       \cup (IF gist = {} THEN {"please write"} ELSE {})
                ELSE IF gist = {} /\ ~parcel.caption THEN {"please write"}
                ELSE Caption \cup gist
    /\ MediaGoes("done") /\ UNCHANGED nextModel

MediaNext ==
    \/ NoMedia \/ DownloadThrows \/ ListenerPasses \/ Downloaded
    \/ ReadFile \/ SkipVoice \/ TryModel \/ Compose
MediaSpec == MediaInit /\ [][MediaNext]_bvars

-----------------------------------------------------------------------------
\* Every variable keeps its type.
MediaTypeOK ==
    /\ parcel.door \in Doors /\ parcel.kind \in Kinds
    /\ mediaAt \in {"new", "file", "voice", "compose", "done", "lost"}
    /\ nextModel \in 1..SpeechModels
    /\ gist \subseteq {"caption", "contents", "label", "please write"}

SomeModelHears == \E i \in 1..SpeechModels : luck.hears[i] = "text"

\* A voice that came whole and that any of the models understands reaches the
\* assistant in words; so does every caption, whatever becomes of the file,
\* unless a client's download throws; and what a client sent without a caption
\* is dropped in silence only if it is of no known kind or did not come.
WordsGetThrough ==
    /\ mediaAt = "done" /\ Voice /\ luck.loads = "bytes" /\ luck.key /\ luck.size = "fits" /\ SomeModelHears
         => "contents" \in gist
    /\ mediaAt \in {"done", "lost"} /\ parcel.caption /\ "caption" \notin gist
         => parcel.door = "client" /\ luck.loads = "throws"
    /\ mediaAt = "lost" /\ parcel.door = "client"
         => parcel.kind = "unknown" \/ luck.loads # "bytes"
=============================================================================
