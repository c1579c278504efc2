------------------------------ MODULE MailDump ------------------------------
(***************************************************************************)
(* The dump of one old mailbox to the archive on disk.  Its report is what *)
(* an operator reads before the paid mailbox is closed for good: a letter  *)
(* that is neither on disk nor counted is lost with the mailbox.           *)
(***************************************************************************)
EXTENDS Naturals

CONSTANTS
    DumpFolders,    \* bound: folders of the mailbox, taken in the order 1, 2, ...
    DumpLetters,    \* bound: letters of a folder, by uid
    DumpSlice,      \* letters fetched at once
    FileNames,      \* bound: names of files, a hash of the letter's Message-ID or of its uid
    NoFile,         \* there is no such file
    TornFile,       \* a write that did not end left the beginning of one
    DumpTroubles,   \* bound: things that go wrong
    DumpRuns        \* bound: runs of the script

ASSUME DumpAssumption ==
    /\ DumpFolders \in Nat \ {0} /\ DumpLetters \in Nat \ {0} /\ DumpSlice \in Nat \ {0}
    /\ DumpTroubles \in Nat /\ DumpRuns \in Nat \ {0}
    /\ {NoFile, TornFile} \cap ((1..DumpFolders) \X (1..DumpLetters)) = {} /\ NoFile # TornFile

VARIABLES
    fileName,       \* the name of the two files of each letter; never changes
    dump,           \* the run: where it is, in which folder, slice and letter
    disk,           \* per name: the letter that the .eml is of, and the .json
    report,         \* what the last report says of the mailbox
    unsaid,         \* history: what went wrong and is not in the errors of this run
    dumpTroubles, dumpRuns

dvars == <<fileName, dump, disk, report, unsaid, dumpTroubles, dumpRuns>>

\* A letter, by its folder and uid.
Mails == (1..DumpFolders) \X (1..DumpLetters)
Kept == Mails \cup {NoFile, TornFile}

\* let: the uid that is due; from: the first of its slice; first: where --limit begins,
\* which takes the last letters of a folder; selected: the folder is open on the
\* connection in use.
NotDumping == [at |-> "none", folder |-> 1, first |-> 1, tries |-> 0, from |-> 1, let |-> 1,
               attempt |-> 0, selected |-> FALSE, errors |-> 0]
SliceEnd == IF dump.from + DumpSlice - 1 <= DumpLetters THEN dump.from + DumpSlice - 1
            ELSE DumpLetters
Due == <<dump.folder, dump.let>>
Here == disk[fileName[Due]]

DumpInit ==
    /\ fileName \in [Mails -> FileNames] /\ dump = NotDumping
    /\ disk = [n \in FileNames |-> [eml |-> NoFile, json |-> NoFile]]
    /\ report = "none" /\ unsaid = {} /\ dumpTroubles = 0 /\ dumpRuns = 0

Goes(d) == dump' = d /\ UNCHANGED fileName
Trouble == dumpTroubles < DumpTroubles /\ dumpTroubles' = dumpTroubles + 1
Quietly(what) == unsaid' = unsaid \cup {what}

\* The next folder; after the last one the report, with what errors holds.
FolderOver(d) == IF d.folder < DumpFolders
                 THEN [d EXCEPT !.at = "lock", !.folder = @ + 1, !.tries = 0, !.selected = FALSE]
                 ELSE [d EXCEPT !.at = "report"]
\* The next slice of the folder.
SliceOver(d) == IF SliceEnd < DumpLetters
                THEN [d EXCEPT !.from = SliceEnd + 1, !.let = SliceEnd + 1, !.attempt = 0, !.at = "slice"]
                ELSE FolderOver(d)
\* An exception that reaches main: the mailbox is reported with one error.
Failed(d) == [d EXCEPT !.at = "report", !.errors = 1]

-----------------------------------------------------------------------------
\* The connection and the list of folders; without them the mailbox fails.  The
\* operator may limit the run to the last letters of a folder.
StartDump ==
    /\ dump.at = "none" /\ dumpRuns < DumpRuns
    /\ dumpRuns' = dumpRuns + 1
    /\ unsaid' = {}
    /\ \/ /\ \E first \in 1..DumpLetters : Goes([NotDumping EXCEPT !.at = "lock", !.first = first])
          /\ UNCHANGED dumpTroubles
       \/ Trouble /\ Goes(Failed(NotDumping))
    /\ UNCHANGED <<disk, report>>

\* The folder is opened; or it is not, and after a reconnect it is tried again,
\* four times in all.  What is left out then is in the log, not in the errors.
OpenFolder ==
    /\ dump.at = "lock"
    /\ \/ /\ Goes([dump EXCEPT !.at = "search", !.selected = TRUE])
          /\ UNCHANGED <<unsaid, dumpTroubles>>
       \/ /\ Trouble
          /\ \/ /\ dump.tries < 3
                /\ Goes([dump EXCEPT !.tries = @ + 1]) /\ UNCHANGED unsaid
             \/ dump.tries = 3 /\ Goes(FolderOver(dump)) /\ Quietly("folder given up")
             \/ Goes(Failed(dump)) /\ UNCHANGED unsaid
    /\ UNCHANGED <<disk, report, dumpRuns>>

\* status and search.  A search that returns no list is an empty folder.
SearchFolder ==
    /\ dump.at = "search"
    /\ \/ /\ Goes([dump EXCEPT !.at = "slice", !.from = dump.first, !.let = dump.first, !.attempt = 0])
          /\ UNCHANGED <<unsaid, dumpTroubles>>
       \/ /\ Trouble
          /\ \/ Goes(FolderOver(dump)) /\ Quietly("search failed")
             \/ Goes(Failed(dump)) /\ UNCHANGED unsaid
    /\ UNCHANGED <<disk, report, dumpRuns>>

\* An attempt begins.  If the connection is found dead it is replaced, and the
\* folder is not opened on the new one: the lock is still there.
Attempt ==
    /\ dump.at = "slice"
    /\ \/ Goes([dump EXCEPT !.at = "fetch", !.let = dump.from]) /\ UNCHANGED dumpTroubles
       \/ Trouble /\ Goes([dump EXCEPT !.at = "fetch", !.let = dump.from, !.selected = FALSE])
    /\ UNCHANGED <<disk, report, unsaid, dumpRuns>>

NextLetter(d) == [d EXCEPT !.at = "fetch", !.let = @ + 1]
Fetching == dump.at = "fetch" /\ dump.selected /\ dump.let <= SliceEnd
Exist == Here.eml # NoFile /\ Here.json # NoFile
Writing == Fetching /\ ~Exist

\* Both files exist: the letter counts as saved before, whoever they are of and
\* whether or not they are whole.
SkipSaved ==
    /\ Fetching /\ Exist
    /\ Goes(NextLetter(dump))
    /\ IF Here.json = TornFile THEN Quietly("torn file") ELSE UNCHANGED unsaid
    /\ UNCHANGED <<disk, report, dumpTroubles, dumpRuns>>

SaveEml ==
    /\ Writing
    /\ Goes([dump EXCEPT !.at = "json"])
    /\ disk' = [disk EXCEPT ![fileName[Due]].eml = Due]
    /\ UNCHANGED <<report, unsaid, dumpTroubles, dumpRuns>>

SaveJson ==
    /\ dump.at = "json"
    /\ Goes(NextLetter(dump))
    /\ disk' = [disk EXCEPT ![fileName[Due]].json = Due]
    /\ UNCHANGED <<report, unsaid, dumpTroubles, dumpRuns>>

\* A write that does not end: nothing of the file is on disk, or a part of it.
Breaks == \/ UNCHANGED disk
          \/ Writing /\ disk' = [disk EXCEPT ![fileName[Due]].eml = TornFile]
          \/ dump.at = "json" /\ disk' = [disk EXCEPT ![fileName[Due]].json = TornFile]

\* No source, or a file that cannot be written: one error, and the next letter.
SaveFails ==
    /\ Trouble
    /\ Writing \/ dump.at = "json"
    /\ Breaks
    /\ Goes([NextLetter(dump) EXCEPT !.errors = @ + 1])
    /\ UNCHANGED <<report, unsaid, dumpRuns>>

SliceDone ==
    /\ dump.at = "fetch" /\ dump.selected /\ dump.let > SliceEnd
    /\ Goes(SliceOver(dump))
    /\ UNCHANGED <<disk, report, unsaid, dumpTroubles, dumpRuns>>

\* A connection with no folder open has no letters to give: the slice passes for
\* fetched, and so do the ones after it.
FetchNothing ==
    /\ dump.at = "fetch" /\ ~dump.selected
    /\ Goes(SliceOver(dump)) /\ Quietly("folder not open")
    /\ UNCHANGED <<disk, report, dumpTroubles, dumpRuns>>

\* Mutant: the letters of a slice that was tried three times are not counted.
SliceLost_uncounted(d) == SliceOver(d)
SliceLost(d) == SliceOver([d EXCEPT !.errors = @ + (SliceEnd - dump.from + 1)])

\* The fetch breaks, or cannot begin: a reconnect and the lock again, or the
\* mailbox fails; the slice is tried three times.
FetchBreaks ==
    /\ dump.at = "fetch" /\ Trouble
    /\ \/ dump.attempt < 2 /\ Goes([dump EXCEPT !.at = "slice", !.attempt = @ + 1, !.selected = TRUE])
       \/ dump.attempt = 2 /\ Goes(SliceLost([dump EXCEPT !.selected = TRUE]))
       \/ Goes(Failed(dump))
    /\ UNCHANGED <<disk, report, unsaid, dumpRuns>>

WriteReport ==
    /\ dump.at = "report"
    /\ report' = IF dump.errors = 0 THEN "clean" ELSE "errors"
    /\ Goes([dump EXCEPT !.at = "none"])
    /\ UNCHANGED <<disk, unsaid, dumpTroubles, dumpRuns>>

DumpKilled ==
    /\ dump.at # "none" /\ Trouble
    /\ Goes(NotDumping) /\ Breaks
    /\ UNCHANGED <<report, unsaid, dumpRuns>>

DumpNext ==
    \/ StartDump \/ OpenFolder \/ SearchFolder \/ Attempt \/ SkipSaved \/ SaveEml \/ SaveJson
    \/ SaveFails \/ SliceDone \/ FetchNothing \/ FetchBreaks \/ WriteReport \/ DumpKilled
DumpSpec == DumpInit /\ [][DumpNext]_dvars

-----------------------------------------------------------------------------
\* Every variable keeps its type.
DumpTypeOK ==
    /\ fileName \in [Mails -> FileNames]
    /\ dump \in [at: {"none", "lock", "search", "slice", "fetch", "json", "report"},
                 folder: 1..DumpFolders, tries: 0..3, first: 1..DumpLetters, from: 1..DumpLetters,
                 let: 1..(DumpLetters + 1), attempt: 0..2, selected: BOOLEAN,
                 errors: Nat]
    /\ disk \in [FileNames -> [eml: Kept, json: Kept]]
    /\ report \in {"none", "clean", "errors"}
    /\ unsaid \subseteq {"folder given up", "search failed", "folder not open", "torn file"}
    /\ dumpTroubles \in 0..DumpTroubles /\ dumpRuns \in 0..DumpRuns

\* The two files of a letter are whole, and of one letter: of itself, or of one that
\* shares its name.
Saved(letter) ==
    LET file == disk[fileName[letter]]
    IN  file.eml = file.json /\ file.eml \in Mails /\ fileName[file.eml] = fileName[letter]

\* A report without errors means that every letter the run was asked for is on disk
\* with both its files whole, over broken fetches, torn writes and runs cut short.
\* Not so when a folder was given up, a search failed, the folder was not open on a
\* new connection or the .json was torn in an earlier run: the code counts none of
\* these, and unsaid names them.  The letters are those of the whole mailbox only
\* without --limit, which the report does not tell; and of two letters of a folder
\* with one Message-ID one is on disk, the other is counted as skipped.
CleanReportIsWhole ==
    dump.at = "report" /\ dump.errors = 0 /\ unsaid = {}
        => \A f \in 1..DumpFolders : \A u \in dump.first..DumpLetters : Saved(<<f, u>>)
=============================================================================
