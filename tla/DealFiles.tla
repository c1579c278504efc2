------------------------------ MODULE DealFiles ------------------------------
(***************************************************************************)
(* The files of one deal: the array metadata.attachments, which an upload  *)
(* appends to in one statement, and which the OCR worker, the folder       *)
(* button of the cabinet and the orchestrator's handlers rewrite as a      *)
(* whole from a copy they read before.  A file comes from the cabinet, or  *)
(* with a chat message that the gateway hands to /process first.           *)
(***************************************************************************)
EXTENDS Naturals, FiniteSets

CONSTANTS
    Files,
    OcrAttempts,    \* `attempts` of an OCR job
    FileTroubles,   \* bound: failing steps and deaths of a process
    FileHands       \* bound: folder clicks and handlers that rewrite the array

ASSUME FileAssumption ==
    /\ IsFiniteSet(Files) /\ OcrAttempts \in Nat \ {0}
    /\ FileTroubles \in Nat /\ FileHands \in Nat

VARIABLES
    upload,         \* per file: how far its upload got
    stored,         \* files whose bytes are in S3 or on the disk
    attachments,    \* per file: its entry in the array, or Unlisted
    ocr,            \* per file: its OCR job, and the copy of the array it holds
    mover,          \* PATCH of a folder: the file, and the copy it holds
    turn,           \* a handler of the orchestrator, and the copy it holds
    raced,          \* files whose entry was written while another one held a copy
    fileTroubles, fileHands

fbounds == <<fileTroubles, fileHands>>
fhands == <<mover, turn, raced>>
fvars == <<upload, stored, attachments, ocr, fhands, fbounds>>

Unlisted == [folder |-> "none", ocr |-> "none"]
Entries == [folder: {"first", "moved"}, ocr: {"queued", "done", "empty"}]
Arrays == [Files -> Entries \cup {Unlisted}]
NoCopy == [f \in Files |-> Unlisted]
NoJob == [state |-> "absent", fails |-> 0, copy |-> NoCopy]

FilesInit ==
    /\ upload = [f \in Files |-> "away"]
    /\ stored = {} /\ attachments = NoCopy
    /\ ocr = [f \in Files |-> NoJob]
    /\ mover = [on |-> {}, copy |-> NoCopy]
    /\ turn = [on |-> FALSE, copy |-> NoCopy]
    /\ raced = {} /\ fileTroubles = 0 /\ fileHands = 0

UploadIs(f, state) == upload[f] = state
Uploaded(f, state) == upload' = [upload EXCEPT ![f] = state]
JobIs(f, states) == ocr[f].state \in states
FileTrouble == fileTroubles < FileTroubles /\ fileTroubles' = fileTroubles + 1
AnotherHand == fileHands < FileHands /\ fileHands' = fileHands + 1

\* Who else has read the array and will write it.
OcrCopies == {f \in Files : JobIs(f, {"holding"})}
Race(f, others) == raced' = IF others THEN raced \cup {f} ELSE raced

-----------------------------------------------------------------------------
\* The file of a chat message: /process has run, and its result is cached.
ChatProcessed(f) ==
    /\ UploadIs(f, "away")
    /\ Uploaded(f, "processed")
    /\ UNCHANGED <<stored, attachments, ocr, fhands, fbounds>>

\* The gateway dies before it stores the file: the retried job finds the cached
\* result and is over.
GatewayLosesFile(f) ==
    /\ UploadIs(f, "processed")
    /\ FileTrouble
    /\ Uploaded(f, "lost")
    /\ UNCHANGED <<stored, attachments, ocr, fhands, fileHands>>

StoreFile(f) ==
    /\ upload[f] \in {"away", "processed"}
    /\ Uploaded(f, "stored")
    /\ stored' = stored \cup {f}
    /\ UNCHANGED <<attachments, ocr, fhands, fbounds>>

AppendFile(f) ==
    /\ UploadIs(f, "stored")
    /\ Uploaded(f, "appended")
    /\ attachments' = [attachments EXCEPT ![f] = [folder |-> "first", ocr |-> "queued"]]
    /\ Race(f, OcrCopies # {} \/ mover.on # {} \/ turn.on)
    /\ UNCHANGED <<stored, ocr, mover, turn, fbounds>>

EnqueueOcr(f) ==
    /\ UploadIs(f, "appended")
    /\ Uploaded(f, "answered")
    /\ ocr' = [ocr EXCEPT ![f].state = "waiting"]
    /\ UNCHANGED <<stored, attachments, fhands, fbounds>>

\* "ocr_enqueue_failed": the answer says so, the row keeps saying "queued".
EnqueueFails(f) ==
    /\ UploadIs(f, "appended")
    /\ FileTrouble
    /\ Uploaded(f, "answered")
    /\ UNCHANGED <<stored, attachments, ocr, fhands, fileHands>>

UploadDies(f) ==
    /\ upload[f] \in {"stored", "appended"}
    /\ FileTrouble
    /\ Uploaded(f, "lost")
    /\ UNCHANGED <<stored, attachments, ocr, fhands, fileHands>>

-----------------------------------------------------------------------------
TakeFile(f) ==
    /\ JobIs(f, {"waiting"})
    /\ ocr' = [ocr EXCEPT ![f].state = "active"]
    /\ UNCHANGED <<upload, stored, attachments, fhands, fbounds>>

\* applyOcrToDeal, the two statements.
ReadForOcr(f) ==
    /\ JobIs(f, {"active"})
    /\ ocr' = [ocr EXCEPT ![f].state = "holding", ![f].copy = attachments]
    /\ UNCHANGED <<upload, stored, attachments, fhands, fbounds>>

\* Mutant: only the entry that was parsed is written back.
Parsed_only(copy, f, text) ==
    [g \in Files |-> IF g = f /\ copy[f] # Unlisted
                     THEN [copy[f] EXCEPT !.ocr = IF text THEN "done" ELSE "empty"]
                     ELSE Unlisted]

Parsed(copy, f, text) ==
    IF copy[f] = Unlisted THEN copy
    ELSE [copy EXCEPT ![f].ocr = IF text THEN "done" ELSE "empty"]
WriteFromOcr(f) ==
    /\ JobIs(f, {"holding"})
    /\ \E text \in BOOLEAN : attachments' = Parsed(ocr[f].copy, f, text)
    /\ ocr' = [ocr EXCEPT ![f].state = "written", ![f].copy = NoCopy]
    /\ Race(f, OcrCopies # {f} \/ mover.on # {} \/ turn.on)
    /\ UNCHANGED <<upload, stored, mover, turn, fbounds>>

\* The alert, under an id of its own, and a new quote, whose failure is logged.
FinishOcr(f) ==
    /\ JobIs(f, {"written"})
    /\ ocr' = [ocr EXCEPT ![f].state = "done"]
    /\ UNCHANGED <<upload, stored, attachments, fhands, fbounds>>

\* The bytes, the database or the alert's queue fail: the job is repeated.
FailOcr(f) ==
    /\ JobIs(f, {"active", "holding", "written"})
    /\ FileTrouble
    /\ ocr' = [ocr EXCEPT ![f] = [state |-> IF ocr[f].fails + 1 < OcrAttempts
                                            THEN "waiting" ELSE "failed",
                                  fails |-> ocr[f].fails + 1, copy |-> NoCopy]]
    /\ UNCHANGED <<upload, stored, attachments, fhands, fileHands>>

-----------------------------------------------------------------------------
\* PATCH /deals/:id/attachments/:attId.
ReadForMove(f) ==
    /\ mover.on = {} /\ attachments[f] # Unlisted
    /\ AnotherHand
    /\ mover' = [on |-> {f}, copy |-> attachments]
    /\ UNCHANGED <<upload, stored, attachments, ocr, turn, raced, fileTroubles>>

WriteMove(f) ==
    /\ mover.on = {f}
    /\ attachments' = [mover.copy EXCEPT ![f].folder = "moved"]
    /\ mover' = [on |-> {}, copy |-> NoCopy]
    /\ Race(f, OcrCopies # {} \/ turn.on)
    /\ UNCHANGED <<upload, stored, ocr, turn, fbounds>>

\* update_deal with the metadata a handler read when it began.
ReadForTurn ==
    /\ ~turn.on
    /\ AnotherHand
    /\ turn' = [on |-> TRUE, copy |-> attachments]
    /\ UNCHANGED <<upload, stored, attachments, ocr, mover, raced, fileTroubles>>

WriteFromTurn ==
    /\ turn.on
    /\ attachments' = turn.copy
    /\ turn' = [on |-> FALSE, copy |-> NoCopy]
    /\ UNCHANGED <<upload, stored, ocr, mover, raced, fbounds>>

FileStep(f) ==
    \/ StoreFile(f) \/ AppendFile(f) \/ EnqueueOcr(f)
    \/ TakeFile(f) \/ ReadForOcr(f) \/ WriteFromOcr(f) \/ FinishOcr(f)
FilesNext ==
    \/ ReadForTurn \/ WriteFromTurn
    \/ \E f \in Files : \/ FileStep(f) \/ ChatProcessed(f) \/ GatewayLosesFile(f)
                        \/ EnqueueFails(f) \/ UploadDies(f) \/ FailOcr(f)
                        \/ ReadForMove(f) \/ WriteMove(f)

FilesSpec == FilesInit /\ [][FilesNext]_fvars

-----------------------------------------------------------------------------
\* Every variable keeps its type.
FilesTypeOK ==
    /\ upload \in [Files -> {"away", "processed", "stored", "appended", "answered", "lost"}]
    /\ stored \subseteq Files /\ attachments \in Arrays
    /\ ocr \in [Files -> [state: {"absent", "waiting", "active", "holding", "written", "done",
                                  "failed"}, fails: 0..OcrAttempts, copy: Arrays]]
    /\ mover.on \subseteq Files /\ mover.copy \in Arrays
    /\ turn.on \in BOOLEAN /\ turn.copy \in Arrays
    /\ raced \subseteq Files
    /\ fileTroubles \in 0..FileTroubles /\ fileHands \in 0..FileHands

\* The array is rewritten by many hands, and still an accepted file is on it,
\* with its bytes stored and its text once it was read, unless its entry was
\* written while another hand held a copy: no hand loses what it has seen.
OnlyRacesLoseFiles ==
    \A f \in Files :
        /\ attachments[f] # Unlisted => f \in stored
        /\ upload[f] = "answered" /\ f \notin raced => attachments[f] # Unlisted
        /\ JobIs(f, {"written", "done"}) /\ f \notin raced => attachments[f].ocr # "queued"
=============================================================================
