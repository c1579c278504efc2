--------------------------- MODULE Archive_proofs ---------------------------
(***************************************************************************)
(* What holds of the scripts that save a mailbox and make a table of       *)
(* clients of it: of the dump for every number of folders and letters, of  *)
(* the ingest for every archive, and of both for every number of runs and  *)
(* of troubles.                                                            *)
(***************************************************************************)
EXTENDS MailDump, ClientArchive, TLAPS

-----------------------------------------------------------------------------
(* The dump of a mailbox.                                                   *)

Folders == 1..DumpFolders
Letters == 1..DumpLetters
Places == {"none", "lock", "search", "slice", "fetch", "json", "report"}
Tries == 0..3
Attempts == 0..2
Uids == 1..(DumpLetters + 1)
Dumps == [at: Places, folder: Folders, tries: Tries, first: Letters, from: Letters, let: Uids,
          attempt: Attempts, selected: BOOLEAN, errors: Nat]
Disks == [FileNames -> [eml: Kept, json: Kept]]
Losses == {"folder given up", "search failed", "folder not open", "torn file"}

\* The two files of a name: a .json stands beside a whole .eml, and is its own unless
\* it is torn; and an .eml is of a letter of that name.
Paired(n, file) ==
    /\ file.json # NoFile => file.eml \in Mails /\ file.json \in {file.eml, TornFile}
    /\ file.eml \in Mails => fileName[file.eml] = n
FilesInv == \A n \in FileNames : Paired(n, disk[n])

\* A letter that the run was asked for is saved.
Held(first, f, u) == u >= first => Saved(<<f, u>>)

\* What a run that has nothing to report so far has saved: the folders it is past, the
\* slices of its folder that it is past, the letters of its slice that it is past;
\* and everything, once it is at its report.
Ledger(d, what) ==
    d.errors = 0 /\ what = {} =>
        /\ d.at # "none" => \A f \in Folders : f < d.folder => \A u \in Letters : Held(d.first, f, u)
        /\ d.at \in {"slice", "fetch", "json"} =>
                \A u \in Letters : u < d.from => Held(d.first, d.folder, u)
        /\ d.at \in {"fetch", "json"} =>
                \A u \in Letters : u < d.let => Held(d.first, d.folder, u)
        /\ d.at = "report" => \A f \in Folders, u \in Letters : Held(d.first, f, u)

DumpInv ==
    /\ DumpTypeOK /\ FilesInv
    /\ dump.at = "json" => dump.let <= SliceEnd /\ Here.eml = Due /\ Here.json = NoFile
    /\ Ledger(dump, unsaid)

LEMMA DumpTypes ==
    ASSUME DumpTypeOK
    PROVE  /\ DumpFolders \in Nat \ {0} /\ DumpLetters \in Nat \ {0} /\ DumpSlice \in Nat \ {0}
           /\ dump \in Dumps /\ disk \in Disks
           /\ SliceEnd \in Letters /\ dump.from <= SliceEnd
           /\ NotDumping \in Dumps
<1>1. dump \in Dumps /\ disk \in Disks
  BY DEF DumpTypeOK, Dumps, Disks, Folders, Letters, Places, Tries, Attempts, Uids
<1>2. DumpFolders \in Nat \ {0} /\ DumpLetters \in Nat \ {0} /\ DumpSlice \in Nat \ {0}
  BY DumpAssumption
<1>3. dump.from \in 1..DumpLetters
  BY <1>1 DEF Dumps, Letters
<1>4. SliceEnd \in Letters /\ dump.from <= SliceEnd
  BY <1>2, <1>3 DEF SliceEnd, Letters
<1>5. 1 \in Folders /\ 1 \in Letters /\ 1 \in Uids /\ 0 \in Tries /\ 0 \in Attempts
  BY <1>2 DEF Folders, Letters, Uids, Tries, Attempts
<1>6. NotDumping \in Dumps
  BY <1>5 DEF NotDumping, Dumps, Places
<1> QED BY <1>1, <1>2, <1>4, <1>6

\* The places and the counters a run may take.
LEMMA DumpValues ==
    ASSUME DumpTypeOK
    PROVE  /\ 1 \in Folders /\ 1 \in Letters /\ 1 \in Uids /\ 0 \in Tries /\ 0 \in Attempts
           /\ \A t \in Tries : t < 3 => t + 1 \in Tries
           /\ \A t \in Attempts : t < 2 => t + 1 \in Attempts
           /\ \A u \in Letters : u \in Uids /\ u + 1 \in Uids
           /\ \A u \in Letters : u < DumpLetters => u + 1 \in Letters
           /\ \A f \in Folders : f < DumpFolders => f + 1 \in Folders
           /\ {"lock", "search", "slice", "fetch", "json", "report"} \subseteq Places
<1>1. DumpFolders \in Nat \ {0} /\ DumpLetters \in Nat \ {0}
  BY DumpTypes
<1> QED BY <1>1 DEF Folders, Letters, Uids, Tries, Attempts, Places

\* Where a run goes when a folder, or a slice, is over.
LEMMA FolderOverIs ==
    ASSUME DumpTypeOK, NEW d \in Dumps
    PROVE  /\ FolderOver(d) \in Dumps /\ FolderOver(d).errors = d.errors /\ FolderOver(d).first = d.first
           /\ \/ d.folder < DumpFolders /\ FolderOver(d).at = "lock" /\ FolderOver(d).folder = d.folder + 1
              \/ d.folder = DumpFolders /\ FolderOver(d).at = "report" /\ FolderOver(d).folder = d.folder
<1>1. CASE d.folder < DumpFolders
  <2>1. d.folder + 1 \in Folders /\ "lock" \in Places /\ 0 \in Tries
    BY <1>1, DumpValues DEF Dumps
  <2>2. PICK at \in Places : at = "lock"
    BY <2>1
  <2>3. PICK t \in Tries : t = 0
    BY <2>1
  <2>4. PICK f \in Folders : f = d.folder + 1
    BY <2>1
  <2>5. FolderOver(d) = [d EXCEPT !.at = at, !.folder = f, !.tries = t, !.selected = FALSE]
    BY <1>1, <2>2, <2>3, <2>4 DEF FolderOver, Dumps
  <2>6. FolderOver(d) \in Dumps /\ FolderOver(d).errors = d.errors /\ FolderOver(d).first = d.first
        /\ FolderOver(d).at = at /\ FolderOver(d).folder = f
    BY <2>5 DEF Dumps
  <2> QED BY <1>1, <2>2, <2>4, <2>6
<1>2. CASE ~(d.folder < DumpFolders)
  BY <1>2, DumpTypes DEF FolderOver, Dumps, Folders, Places
<1> QED BY <1>1, <1>2

LEMMA SliceOverIs ==
    ASSUME DumpTypeOK, NEW d \in Dumps
    PROVE  /\ SliceOver(d) \in Dumps /\ SliceOver(d).errors = d.errors /\ SliceOver(d).first = d.first
           /\ \/ /\ SliceEnd < DumpLetters /\ SliceOver(d).at = "slice"
                 /\ SliceOver(d).folder = d.folder /\ SliceOver(d).from = SliceEnd + 1
              \/ SliceEnd = DumpLetters /\ SliceOver(d) = FolderOver(d)
<1>1. CASE SliceEnd < DumpLetters
  <2>1. SliceEnd + 1 \in Letters /\ SliceEnd + 1 \in Uids /\ 0 \in Attempts /\ "slice" \in Places
    BY <1>1, DumpTypes, DumpValues
  <2>2. PICK at \in Places : at = "slice"
    BY <2>1
  <2>3. PICK t \in Attempts : t = 0
    BY <2>1
  <2>4. PICK u \in Letters : u \in Uids /\ u = SliceEnd + 1
    BY <2>1
  <2>5. SliceOver(d) = [d EXCEPT !.from = u, !.let = u, !.attempt = t, !.at = at]
    BY <1>1, <2>2, <2>3, <2>4 DEF SliceOver
  <2>6. SliceOver(d) \in Dumps /\ SliceOver(d).errors = d.errors /\ SliceOver(d).at = at
        /\ SliceOver(d).first = d.first
        /\ SliceOver(d).folder = d.folder /\ SliceOver(d).from = u
    BY <2>4, <2>5 DEF Dumps
  <2> QED BY <1>1, <2>2, <2>4, <2>6
<1>2. CASE ~(SliceEnd < DumpLetters)
  BY <1>2, DumpTypes, FolderOverIs DEF SliceOver, Letters
<1> QED BY <1>1, <1>2

LEMMA FailedIs ==
    ASSUME NEW d \in Dumps
    PROVE  Failed(d) \in Dumps /\ Failed(d).at = "report" /\ Failed(d).errors = 1
BY DEF Failed, Dumps, Places

\* A run that has nothing to report and is past its folder has saved that folder.
LEMMA FolderLedger ==
    ASSUME DumpTypeOK, NEW d \in Dumps, NEW what, d.at # "none",
           d.errors = 0 /\ what = {} => \A f \in Folders : f <= d.folder => \A u \in Letters : Held(d.first, f, u)
    PROVE  Ledger(FolderOver(d), what)
<1>1. d.folder \in Folders /\ DumpFolders \in Nat
  BY DumpTypes DEF Dumps
<1>2. CASE d.folder < DumpFolders /\ FolderOver(d).at = "lock" /\ FolderOver(d).folder = d.folder + 1
  BY <1>1, <1>2, FolderOverIs DEF Ledger, Folders
<1>3. CASE d.folder = DumpFolders /\ FolderOver(d).at = "report" /\ FolderOver(d).folder = d.folder
  BY <1>1, <1>3, FolderOverIs DEF Ledger, Folders
<1> QED BY <1>2, <1>3, FolderOverIs

LEMMA NextLetterIs ==
    ASSUME DumpTypeOK, dump.let <= SliceEnd, NEW e, e = NextLetter(dump)
    PROVE  /\ e \in Dumps /\ e.at = "fetch" /\ e.let = dump.let + 1 /\ e.from = dump.from
           /\ e.folder = dump.folder /\ e.errors = dump.errors /\ e.first = dump.first
           /\ dump.let \in Letters
<1>1. dump \in Dumps /\ dump.let \in Uids /\ SliceEnd \in Letters
  BY DumpTypes DEF Dumps
<1>2. dump.let \in Letters
  BY <1>1, DumpTypes DEF Letters, Uids
<1>3. PICK u \in Uids : u = dump.let + 1
  BY <1>2, DumpValues
<1>4. e = [dump EXCEPT !.at = "fetch", !.let = u]
  BY <1>1, <1>3 DEF NextLetter
<1> QED BY <1>1, <1>2, <1>3, <1>4 DEF Dumps, Places

\* The letters before the next one are this one and the ones before it.
LEMMA PastTheLetter ==
    ASSUME DumpTypeOK, NEW u \in Letters, u < dump.let + 1
    PROVE  u = dump.let \/ u < dump.let
<1>1. dump.let \in Uids
  BY DumpTypes DEF Dumps
<1> QED BY <1>1 DEF Letters, Uids

\* The letter that is due, its name, and what is on disk under it.
LEMMA DueIs ==
    ASSUME DumpTypeOK, dump.let <= SliceEnd
    PROVE  Due \in Mails /\ fileName[Due] \in FileNames
<1>1. dump.folder \in Folders /\ dump.let \in Letters
  BY DumpTypes, NextLetterIs DEF Dumps
<1>2. Due \in Mails
  BY <1>1 DEF Due, Mails, Folders, Letters
<1> QED BY <1>2 DEF DumpTypeOK

LEMMA HereIs ==
    ASSUME DumpTypeOK, fileName[Due] \in FileNames, NEW kept \in Kept
    PROVE  /\ [disk EXCEPT ![fileName[Due]].eml = kept]
                = [disk EXCEPT ![fileName[Due]] = [eml |-> kept, json |-> Here.json]]
           /\ [disk EXCEPT ![fileName[Due]].json = kept]
                = [disk EXCEPT ![fileName[Due]] = [eml |-> Here.eml, json |-> kept]]
           /\ Here.eml \in Kept /\ Here.json \in Kept
<1>1. Here \in [eml: Kept, json: Kept]
  BY DumpTypes DEF Disks, Here
<1>2. /\ [Here EXCEPT !.eml = kept] = [eml |-> kept, json |-> Here.json]
      /\ [Here EXCEPT !.json = kept] = [eml |-> Here.eml, json |-> kept]
  BY <1>1
<1>3. /\ [disk EXCEPT ![fileName[Due]].eml = kept]
           = [disk EXCEPT ![fileName[Due]] = [Here EXCEPT !.eml = kept]]
      /\ [disk EXCEPT ![fileName[Due]].json = kept]
           = [disk EXCEPT ![fileName[Due]] = [Here EXCEPT !.json = kept]]
  BY DEF Here
<1> QED BY <1>1, <1>2, <1>3

\* Where a letter is to be written there is no .json.
LEMMA WritingIs ==
    ASSUME DumpTypeOK, FilesInv, Writing
    PROVE  /\ Due \in Mails /\ fileName[Due] \in FileNames /\ Here.json = NoFile
           /\ dump.at = "fetch" /\ dump.let <= SliceEnd
<1>1. dump.at = "fetch" /\ dump.let <= SliceEnd /\ ~Exist
  BY DEF Writing, Fetching
<1>2. Due \in Mails /\ fileName[Due] \in FileNames
  BY <1>1, DueIs
<1>3. Paired(fileName[Due], Here)
  BY <1>2 DEF FilesInv, Here
<1>4. NoFile \notin Mails
  BY DumpAssumption DEF Mails
<1> QED BY <1>1, <1>2, <1>3, <1>4 DEF Exist, Paired

\* A file that is written spoils no letter that is saved: the two files of a saved letter
\* are not written again.
LEMMA FileWritten ==
    ASSUME DumpTypeOK, FilesInv, UNCHANGED fileName,
           NEW n \in FileNames, NEW file \in [eml: Kept, json: Kept],
           disk' = [disk EXCEPT ![n] = file], Paired(n, file), disk[n].json = NoFile
    PROVE  /\ disk' \in Disks /\ disk'[n] = file /\ FilesInv'
           /\ \A letter \in Mails : Saved(letter) => Saved(letter)'
<1>1. disk \in Disks
  BY DumpTypes
<1>2. disk' \in Disks /\ disk'[n] = file /\ \A m \in FileNames : m # n => disk'[m] = disk[m]
  BY <1>1 DEF Disks
<1>3. ASSUME NEW m \in FileNames
      PROVE  Paired(m, disk[m])'
  <2>1. Paired(m, disk'[m])
    BY <1>2 DEF FilesInv
  <2> QED BY <2>1 DEF Paired
<1>4. ASSUME NEW letter \in Mails, Saved(letter)
      PROVE  Saved(letter)'
  <2>1. NoFile \notin Mails
    BY DumpAssumption DEF Mails
  <2>2. fileName[letter] # n
    BY <1>4, <2>1 DEF Saved
  <2>3. fileName[letter] \in FileNames
    BY DEF DumpTypeOK
  <2>4. disk'[fileName[letter]] = disk[fileName[letter]]
    BY <1>2, <2>2, <2>3
  <2> QED BY <1>4, <2>4 DEF Saved
<1> QED BY <1>2, <1>3, <1>4 DEF FilesInv

LEMMA DumpTypesNext ==
    ASSUME dump' \in Dumps, disk' \in Disks, report' \in {"none", "clean", "errors"},
           unsaid' \subseteq Losses, fileName' \in [Mails -> FileNames],
           dumpTroubles' \in 0..DumpTroubles, dumpRuns' \in 0..DumpRuns
    PROVE  DumpTypeOK'
BY DEF DumpTypeOK, Dumps, Disks, Folders, Letters, Places, Tries, Attempts, Uids, Losses

LEMMA SavedNow ==
    ASSUME NEW letter \in Mails, UNCHANGED fileName,
           disk'[fileName[letter]].eml = letter, disk'[fileName[letter]].json = letter
    PROVE  Saved(letter)'
BY DEF Saved

\* What was saved is saved still.
LEMMA HeldStays ==
    ASSUME \A letter \in Mails : Saved(letter) => Saved(letter)',
           NEW first, NEW f \in Folders, NEW u \in Letters, Held(first, f, u)
    PROVE  u >= first => Saved(<<f, u>>)'
<1>1. <<f, u>> \in Mails
  BY DEF Mails, Folders, Letters
<1> QED BY <1>1 DEF Held

LEMMA LedgerStays ==
    ASSUME DumpTypeOK, Ledger(dump, unsaid), dump.at = "fetch", dump'.at = "json",
           \A letter \in Mails : Saved(letter) => Saved(letter)', UNCHANGED unsaid,
           dump'.let = dump.let, dump'.from = dump.from, dump'.folder = dump.folder,
           dump'.errors = dump.errors, dump'.first = dump.first
    PROVE  Ledger(dump, unsaid)'
<1>1. \A f \in Folders, u \in Letters : Held(dump.first, f, u) => (u >= dump.first => Saved(<<f, u>>)')
  BY HeldStays
<1>2. dump.folder \in Folders
  BY DumpTypes DEF Dumps
<1>3. SUFFICES ASSUME dump.errors = 0, unsaid = {}
               PROVE  Ledger(dump, unsaid)'
  BY DEF Ledger
<1>4. \A f \in Folders : f < dump.folder => \A u \in Letters : u >= dump.first => Saved(<<f, u>>)'
  BY <1>1, <1>3 DEF Ledger
<1>5. \A u \in Letters : u < dump.from \/ u < dump.let => (u >= dump.first => Saved(<<dump.folder, u>>)')
  BY <1>1, <1>2, <1>3 DEF Ledger
<1> QED BY <1>4, <1>5 DEF Ledger, Held

LEMMA LedgerGrows ==
    ASSUME DumpTypeOK, Ledger(dump, unsaid), dump.at = "json", dump'.at = "fetch",
           \A letter \in Mails : Saved(letter) => Saved(letter)', UNCHANGED unsaid,
           dump'.let = dump.let + 1, dump'.from = dump.from, dump'.folder = dump.folder,
           dump'.errors = dump.errors, dump'.first = dump.first,
           NEW f \in Folders, f = dump.folder, NEW k \in Letters, k = dump.let, Saved(<<f, k>>)'
    PROVE  Ledger(dump, unsaid)'
<1>1. \A g \in Folders, u \in Letters : Held(dump.first, g, u) => (u >= dump.first => Saved(<<g, u>>)')
  BY HeldStays
<1>2. SUFFICES ASSUME dump.errors = 0, unsaid = {}
               PROVE  Ledger(dump, unsaid)'
  BY DEF Ledger
<1>3. \A g \in Folders : g < dump.folder => \A u \in Letters : u >= dump.first => Saved(<<g, u>>)'
  BY <1>1, <1>2 DEF Ledger
<1>4. \A u \in Letters : u < dump.from \/ u < dump.let => (u >= dump.first => Saved(<<f, u>>)')
  BY <1>1, <1>2 DEF Ledger
<1>5. \A u \in Letters : u < dump.let + 1 => (u >= dump.first => Saved(<<f, u>>)')
  <2> SUFFICES ASSUME NEW u \in Letters, u < dump.let + 1, u >= dump.first
               PROVE  Saved(<<f, u>>)'
    OBVIOUS
  <2>1. u = k \/ u < dump.let
    BY PastTheLetter
  <2>2. CASE u = k
    BY <2>2
  <2>3. CASE u < dump.let
    BY <1>4, <2>3
  <2> QED BY <2>1, <2>2, <2>3
<1>6. \A u \in Letters : u < dump'.from \/ u < dump'.let => (u >= dump'.first => Saved(<<f, u>>)')
  BY <1>4, <1>5
<1> QED BY <1>3, <1>6 DEF Ledger, Held

\* A run that has nothing to report and is past its slice has saved it.
LEMMA SliceLedger ==
    ASSUME DumpTypeOK, Ledger(dump, unsaid), dump.at = "fetch",
           dump.errors = 0 /\ unsaid = {} => \A u \in Letters : u <= SliceEnd => Held(dump.first, dump.folder, u)
    PROVE  Ledger(SliceOver(dump), unsaid)
<1>1. dump \in Dumps /\ SliceEnd \in Letters /\ DumpLetters \in Nat
  BY DumpTypes
<1>2. CASE /\ SliceEnd < DumpLetters /\ SliceOver(dump).at = "slice"
           /\ SliceOver(dump).folder = dump.folder /\ SliceOver(dump).from = SliceEnd + 1
  <2>1. \A u \in Letters : u < SliceEnd + 1 => u <= SliceEnd
    BY <1>1 DEF Letters
  <2> QED BY <1>1, <1>2, <2>1, SliceOverIs DEF Ledger
<1>3. CASE SliceEnd = DumpLetters /\ SliceOver(dump) = FolderOver(dump)
  <2>1. ASSUME dump.errors = 0, unsaid = {}, NEW f \in Folders, f <= dump.folder, NEW u \in Letters
        PROVE  Held(dump.first, f, u)
    <3>1. u <= SliceEnd
      BY <1>1, <1>3 DEF Letters
    <3>2. f = dump.folder \/ f < dump.folder
      BY <1>1, <2>1 DEF Dumps, Folders
    <3> QED BY <2>1, <3>1, <3>2 DEF Ledger
  <2> QED BY <1>1, <1>3, <2>1, FolderLedger
<1> QED BY <1>1, <1>2, <1>3, SliceOverIs

LEMMA DumpInitInv == DumpInit => DumpInv
<1> SUFFICES ASSUME DumpInit
             PROVE  DumpInv
  OBVIOUS
<1>1. dump.at = "none" /\ dump.errors = 0
  BY DEF DumpInit, NotDumping
<1>2. DumpTypeOK
  BY DumpAssumption DEF DumpInit, DumpTypeOK, NotDumping, Kept
<1>3. FilesInv
  <2>1. NoFile \notin Mails
    BY DumpAssumption DEF Mails
  <2> QED BY <2>1 DEF DumpInit, FilesInv, Paired
<1> QED BY <1>1, <1>2, <1>3 DEF DumpInv, Ledger

\* A step that leaves the disk alone keeps the invariant if what it goes to has saved
\* what it claims.
LEMMA DumpGoes ==
    ASSUME DumpInv, UNCHANGED <<disk, fileName>>, dump' \in Dumps, dump'.at # "json", Ledger(dump', unsaid'),
           report' \in {"none", "clean", "errors"},
           unsaid' \subseteq Losses,
           dumpTroubles' \in 0..DumpTroubles, dumpRuns' \in 0..DumpRuns
    PROVE  DumpInv'
<1>1. DumpTypeOK'
  BY DEF DumpInv, DumpTypeOK, Dumps, Folders, Letters, Places, Tries, Attempts, Uids, Losses
<1>2. Ledger(dump, unsaid)'
  BY DEF Ledger, Held, Saved
<1>3. FilesInv'
  BY DEF DumpInv, FilesInv, Paired
<1> QED BY <1>1, <1>2, <1>3 DEF DumpInv

\* A step that has nothing to claim of the disk may leave a torn file on it.
LEMMA DumpBreaks ==
    ASSUME DumpInv, Breaks, UNCHANGED fileName, dump' \in Dumps, dump'.at # "json",
           dump'.errors # 0 \/ dump'.at = "none",
           UNCHANGED <<report, unsaid, dumpRuns>>, dumpTroubles' \in 0..DumpTroubles
    PROVE  DumpInv'
<1>a. DumpTypeOK /\ FilesInv
  BY DEF DumpInv
<1>1. disk' \in Disks /\ FilesInv'
  <2>1. CASE UNCHANGED disk
    BY <1>a, <2>1, DumpTypes DEF FilesInv, Paired
  <2>2. ASSUME Writing
        PROVE  Due \in Mails /\ fileName[Due] \in FileNames /\ Here.json = NoFile
    BY <1>a, <2>2, WritingIs
  <2>3. ASSUME dump.at = "json"
        PROVE  /\ Due \in Mails /\ fileName[Due] \in FileNames
               /\ Here.json = NoFile /\ Here.eml \in Mails
    BY <1>a, <2>3, DueIs DEF DumpInv
  <2>4. TornFile \in Kept /\ TornFile \notin Mails /\ NoFile # TornFile
    BY DumpAssumption DEF Kept, Mails
  <2>5. CASE Writing /\ disk' = [disk EXCEPT ![fileName[Due]].eml = TornFile]
    <3> DEFINE file == [eml |-> TornFile, json |-> NoFile]
    <3>1. Paired(fileName[Due], file) /\ file \in [eml: Kept, json: Kept]
      BY <2>4 DEF Paired, Kept
    <3>2. disk' = [disk EXCEPT ![fileName[Due]] = file]
      BY <1>a, <2>2, <2>4, <2>5, HereIs
    <3> HIDE DEF file
    <3>3. disk[fileName[Due]].json = NoFile
      BY <2>2, <2>5 DEF Here
    <3> QED BY <1>a, <2>2, <2>5, <3>1, <3>2, <3>3, FileWritten
  <2>6. CASE dump.at = "json" /\ disk' = [disk EXCEPT ![fileName[Due]].json = TornFile]
    <3> DEFINE file == [eml |-> Here.eml, json |-> TornFile]
    <3>1. Paired(fileName[Due], file) /\ file \in [eml: Kept, json: Kept]
      <4>1. Paired(fileName[Due], Here)
        BY <1>a, <2>3, <2>6 DEF FilesInv, Here
      <4> QED BY <2>3, <2>4, <2>6, <4>1 DEF Paired, Kept
    <3>2. disk' = [disk EXCEPT ![fileName[Due]] = file]
      BY <1>a, <2>3, <2>4, <2>6, HereIs
    <3> HIDE DEF file
    <3>3. disk[fileName[Due]].json = NoFile
      BY <2>3, <2>6 DEF Here
    <3> QED BY <1>a, <2>3, <2>6, <3>1, <3>2, <3>3, FileWritten
  <2> QED BY <2>1, <2>5, <2>6 DEF Breaks
<1>2. DumpTypeOK'
  BY <1>a, <1>1, DumpTypesNext DEF DumpTypeOK, Losses
<1>3. Ledger(dump, unsaid)'
  BY DEF Ledger
<1> QED BY <1>1, <1>2, <1>3 DEF DumpInv

LEMMA NamesStay == DumpNext => UNCHANGED fileName
BY DEF DumpNext, StartDump, OpenFolder, SearchFolder, Attempt, SkipSaved, SaveEml, SaveJson, SaveFails,
       SliceDone, FetchNothing, FetchBreaks, WriteReport, DumpKilled, Goes

LEMMA DumpStepInv == DumpInv /\ [DumpNext]_dvars => DumpInv'
<1> SUFFICES ASSUME DumpInv, [DumpNext]_dvars
             PROVE  DumpInv'
  OBVIOUS
<1>a. DumpTypeOK /\ FilesInv /\ Ledger(dump, unsaid)
  BY DEF DumpInv
<1>f. UNCHANGED fileName
  BY NamesStay DEF dvars
<1>b. /\ DumpFolders \in Nat \ {0} /\ DumpLetters \in Nat \ {0}
      /\ dump \in Dumps /\ disk \in Disks /\ SliceEnd \in Letters /\ NotDumping \in Dumps
      /\ report \in {"none", "clean", "errors"}
      /\ unsaid \subseteq Losses
      /\ dumpTroubles \in 0..DumpTroubles /\ dumpRuns \in 0..DumpRuns
      /\ DumpTroubles \in Nat /\ DumpRuns \in Nat
  BY <1>a, DumpTypes, DumpAssumption DEF DumpTypeOK, Losses
<1>v. /\ 1 \in Folders /\ 1 \in Letters /\ 1 \in Uids /\ 0 \in Tries /\ 0 \in Attempts
      /\ \A t \in Tries : t < 3 => t + 1 \in Tries
      /\ \A t \in Attempts : t < 2 => t + 1 \in Attempts
      /\ \A u \in Letters : u \in Uids /\ u + 1 \in Uids
  BY <1>a, DumpValues
<1>t. Trouble => dumpTroubles' \in 0..DumpTroubles
  <2>1. dumpTroubles \in 0..DumpTroubles /\ DumpTroubles \in Nat
    BY <1>b
  <2> QED BY <2>1 DEF Trouble
<1>1. CASE StartDump
  <2>1. /\ dumpRuns' \in 0..DumpRuns /\ unsaid' = {} /\ UNCHANGED <<disk, report>>
        /\ dumpTroubles' \in 0..DumpTroubles
    <3>1. dumpRuns \in 0..DumpRuns /\ DumpRuns \in Nat /\ dumpRuns < DumpRuns /\ dumpRuns' = dumpRuns + 1
      BY <1>b, <1>1 DEF StartDump
    <3>2. dumpRuns' \in 0..DumpRuns
      BY <3>1
    <3> QED BY <1>b, <1>t, <1>1, <3>2 DEF StartDump
  <2>2. ASSUME NEW first \in Letters, dump' = [NotDumping EXCEPT !.at = "lock", !.first = first]
        PROVE  DumpInv'
    <3>1. dump' \in Dumps /\ dump'.at = "lock" /\ dump'.folder = 1
      BY <1>b, <2>2 DEF Dumps, NotDumping, Places
    <3>2. Ledger(dump', unsaid')
      BY <3>1 DEF Ledger, Folders
    <3> QED BY <1>b, <2>1, <3>1, <3>2, DumpGoes, <1>f
  <2>3. CASE dump' = Failed(NotDumping)
    <3>1. dump' \in Dumps /\ dump'.at = "report" /\ dump'.errors = 1
      BY <1>b, <2>3, FailedIs
    <3>2. Ledger(dump', unsaid')
      BY <3>1 DEF Ledger
    <3> QED BY <1>b, <2>1, <3>1, <3>2, DumpGoes, <1>f
  <2> QED BY <1>1, <2>2, <2>3 DEF StartDump, Goes, Letters
<1>2. CASE OpenFolder
  <2>1. dump.at = "lock" /\ UNCHANGED <<disk, report, dumpRuns>> /\ dumpTroubles' \in 0..DumpTroubles
    BY <1>b, <1>t, <1>2 DEF OpenFolder
  <2>2. CASE dump' = [dump EXCEPT !.at = "search", !.selected = TRUE] /\ UNCHANGED unsaid
    <3>1. /\ dump' \in Dumps /\ dump'.at = "search" /\ dump'.folder = dump.folder
          /\ dump'.errors = dump.errors /\ dump'.first = dump.first
      BY <1>b, <2>2 DEF Dumps, Places
    <3>2. Ledger(dump', unsaid')
      BY <1>a, <2>1, <2>2, <3>1 DEF Ledger
    <3> QED BY <1>b, <2>1, <2>2, <3>1, <3>2, DumpGoes, <1>f
  <2>3. CASE dump.tries < 3 /\ dump' = [dump EXCEPT !.tries = @ + 1] /\ UNCHANGED unsaid
    <3>1. /\ dump' \in Dumps /\ dump'.at = "lock" /\ dump'.folder = dump.folder
          /\ dump'.errors = dump.errors /\ dump'.first = dump.first
      <4>1. dump.tries + 1 \in Tries
        BY <1>b, <1>v, <2>3 DEF Dumps
      <4>2. dump' = [dump EXCEPT !.tries = dump.tries + 1]
        BY <2>3
      <4> QED BY <1>b, <2>1, <4>1, <4>2 DEF Dumps
    <3>2. Ledger(dump', unsaid')
      BY <1>a, <2>1, <2>3, <3>1 DEF Ledger
    <3> QED BY <1>b, <2>1, <2>3, <3>1, <3>2, DumpGoes, <1>f
  <2>4. CASE dump' = FolderOver(dump) /\ Quietly("folder given up")
    <3>1. dump' \in Dumps /\ dump'.at # "json"
      BY <1>a, <1>b, <2>4, FolderOverIs
    <3>2. unsaid' # {} /\ unsaid' \subseteq Losses
      BY <1>b, <2>4 DEF Quietly, Losses
    <3> QED BY <1>b, <2>1, <3>1, <3>2, DumpGoes, <1>f DEF Ledger
  <2>5. CASE dump' = Failed(dump) /\ UNCHANGED unsaid
    <3>1. dump' \in Dumps /\ dump'.at = "report" /\ dump'.errors = 1
      BY <1>b, <2>5, FailedIs
    <3>2. Ledger(dump', unsaid')
      BY <3>1 DEF Ledger
    <3> QED BY <1>b, <2>1, <2>5, <3>1, <3>2, DumpGoes, <1>f
  <2> QED BY <1>2, <2>2, <2>3, <2>4, <2>5 DEF OpenFolder, Goes
<1>3. CASE SearchFolder
  <2>1. dump.at = "search" /\ UNCHANGED <<disk, report, dumpRuns>> /\ dumpTroubles' \in 0..DumpTroubles
    BY <1>b, <1>t, <1>3 DEF SearchFolder
  <2>2. CASE dump' = [dump EXCEPT !.at = "slice", !.from = dump.first, !.let = dump.first,
                                     !.attempt = 0]
             /\ UNCHANGED unsaid
    <3>1. /\ dump' \in Dumps /\ dump'.at = "slice" /\ dump'.folder = dump.folder
          /\ dump'.errors = dump.errors /\ dump'.first = dump.first /\ dump'.from = dump.first
      <4>1. ASSUME NEW at \in Places, NEW u \in Letters, u \in Uids, NEW t \in Attempts
            PROVE  [dump EXCEPT !.at = at, !.from = u, !.let = u, !.attempt = t] \in Dumps
        BY <1>b, <4>1 DEF Dumps
      <4>2. dump' \in Dumps
        <5>1. dump.first \in Letters /\ dump.first \in Uids
          BY <1>b, <1>v DEF Dumps
        <5> QED BY <1>v, <2>2, <4>1, <5>1 DEF Places
      <4> QED BY <1>b, <2>2, <4>2 DEF Dumps
    <3>2. Ledger(dump', unsaid')
      <4>1. \A u \in Letters : u < dump.first => Held(dump.first, dump.folder, u)
        BY <1>b DEF Held, Letters, Dumps
      <4> QED BY <1>a, <2>1, <2>2, <3>1, <4>1 DEF Ledger
    <3> QED BY <1>b, <2>1, <2>2, <3>1, <3>2, DumpGoes, <1>f
  <2>3. CASE dump' = FolderOver(dump) /\ Quietly("search failed")
    <3>1. dump' \in Dumps /\ dump'.at # "json"
      BY <1>a, <1>b, <2>3, FolderOverIs
    <3>2. unsaid' # {} /\ unsaid' \subseteq Losses
      BY <1>b, <2>3 DEF Quietly, Losses
    <3> QED BY <1>b, <2>1, <3>1, <3>2, DumpGoes, <1>f DEF Ledger
  <2>4. CASE dump' = Failed(dump) /\ UNCHANGED unsaid
    <3>1. dump' \in Dumps /\ dump'.at = "report" /\ dump'.errors = 1
      BY <1>b, <2>4, FailedIs
    <3>2. Ledger(dump', unsaid')
      BY <3>1 DEF Ledger
    <3> QED BY <1>b, <2>1, <2>4, <3>1, <3>2, DumpGoes, <1>f
  <2> QED BY <1>3, <2>2, <2>3, <2>4 DEF SearchFolder, Goes
<1>4. CASE Attempt
  <2>1. dump.at = "slice" /\ UNCHANGED <<disk, report, unsaid, dumpRuns>> /\ dumpTroubles' \in 0..DumpTroubles
    BY <1>b, <1>t, <1>4 DEF Attempt
  <2>2. /\ dump' \in Dumps /\ dump'.at = "fetch" /\ dump'.folder = dump.folder
        /\ dump'.errors = dump.errors /\ dump'.first = dump.first /\ dump'.from = dump.from /\ dump'.let = dump.from
    <3>1. dump.from \in Uids
      BY <1>b, <1>v DEF Dumps
    <3>2. CASE dump' = [dump EXCEPT !.at = "fetch", !.let = dump.from]
      BY <1>b, <3>1, <3>2 DEF Dumps, Places
    <3>3. CASE dump' = [dump EXCEPT !.at = "fetch", !.let = dump.from, !.selected = FALSE]
      BY <1>b, <3>1, <3>3 DEF Dumps, Places
    <3> QED BY <1>4, <3>2, <3>3 DEF Attempt, Goes
  <2>3. Ledger(dump', unsaid')
    BY <1>a, <2>1, <2>2 DEF Ledger
  <2> QED BY <1>b, <2>1, <2>2, <2>3, DumpGoes, <1>f
<1>5. CASE SkipSaved
  <2>1. /\ dump.at = "fetch" /\ dump.let <= SliceEnd /\ Exist /\ dump' = NextLetter(dump)
        /\ UNCHANGED <<disk, report, dumpTroubles, dumpRuns>>
    BY <1>5 DEF SkipSaved, Fetching, Goes
  <2>2. /\ dump' \in Dumps /\ dump'.at = "fetch" /\ dump'.let = dump.let + 1 /\ dump'.from = dump.from
        /\ dump'.folder = dump.folder /\ dump'.errors = dump.errors /\ dump'.first = dump.first
        /\ dump.let \in Letters /\ dump.folder \in Folders
    BY <1>a, <1>b, <2>1, NextLetterIs DEF Dumps
  <2>3. CASE Here.json = TornFile
    <3>1. unsaid' = unsaid \cup {"torn file"}
      BY <1>5, <2>3 DEF SkipSaved, Quietly
    <3>2. unsaid' # {} /\ unsaid' \subseteq Losses
      BY <1>b, <3>1 DEF Losses
    <3>3. Ledger(dump', unsaid')
      BY <3>2 DEF Ledger
    <3> QED BY <1>b, <2>1, <2>2, <3>2, <3>3, DumpGoes, <1>f
  <2>4. CASE Here.json # TornFile
    <3>1. UNCHANGED unsaid
      BY <1>5, <2>4 DEF SkipSaved
    <3>2. Held(dump.first, dump.folder, dump.let)
      <4>1. fileName[Due] \in FileNames
        BY <1>a, <2>1, DueIs
      <4>2. Paired(fileName[Due], Here)
        BY <1>a, <4>1 DEF FilesInv, Here
      <4>3. Saved(Due)
        BY <2>1, <2>4, <4>2 DEF Saved, Paired, Exist, Here
      <4>4. Due = <<dump.folder, dump.let>>
        BY DEF Due
      <4>5. Saved(<<dump.folder, dump.let>>)
        BY <4>3, <4>4
      <4> QED BY <4>5 DEF Held
    <3>3. ASSUME dump.errors = 0, unsaid = {}, NEW u \in Letters, u < dump.let + 1
          PROVE  Held(dump.first, dump.folder, u)
      <4>1. u = dump.let \/ u < dump.let
        BY <1>a, <3>3, PastTheLetter
      <4>2. CASE u = dump.let
        BY <3>2, <4>2
      <4>3. CASE u < dump.let
        BY <1>a, <2>1, <3>3, <4>3 DEF Ledger
      <4> QED BY <4>1, <4>2, <4>3
    <3>4. Ledger(dump', unsaid')
      BY <1>a, <2>1, <2>2, <3>1, <3>3 DEF Ledger
    <3> QED BY <1>b, <2>1, <2>2, <3>1, <3>4, DumpGoes, <1>f
  <2> QED BY <2>3, <2>4
<1>6. CASE SaveEml
  <2>1. /\ Writing /\ dump' = [dump EXCEPT !.at = "json"]
        /\ disk' = [disk EXCEPT ![fileName[Due]].eml = Due]
        /\ UNCHANGED <<report, unsaid, dumpTroubles, dumpRuns>>
    BY <1>6 DEF SaveEml, Goes
  <2>2. /\ Due \in Mails /\ fileName[Due] \in FileNames /\ Here.json = NoFile
        /\ dump.at = "fetch" /\ dump.let <= SliceEnd
    BY <1>a, <2>1, WritingIs
  <2>3. /\ dump' \in Dumps /\ dump'.at = "json" /\ dump'.let = dump.let /\ dump'.from = dump.from
        /\ dump'.folder = dump.folder /\ dump'.errors = dump.errors /\ dump'.first = dump.first
    BY <1>b, <2>1 DEF Dumps, Places
  <2> DEFINE file == [eml |-> Due, json |-> NoFile]
  <2>4. disk' = [disk EXCEPT ![fileName[Due]] = file]
    BY <1>a, <2>1, <2>2, HereIs DEF Kept
  <2>5. Paired(fileName[Due], file) /\ file \in [eml: Kept, json: Kept] /\ file.eml = Due /\ file.json = NoFile
    BY <2>2 DEF Paired, Kept
  <2> HIDE DEF file
  <2>6. /\ disk' \in Disks /\ disk'[fileName[Due]] = file /\ FilesInv'
        /\ \A letter \in Mails : Saved(letter) => Saved(letter)'
    <3>1. disk[fileName[Due]].json = NoFile
      BY <2>2 DEF Here
    <3> QED BY <1>a, <1>f, <2>2, <2>4, <2>5, <3>1, FileWritten
  <2>7. Ledger(dump, unsaid)'
    BY <1>a, <2>1, <2>2, <2>3, <2>6, LedgerStays
  <2>8. SliceEnd' = SliceEnd /\ Due' = Due /\ Here' = file
    BY <1>f, <2>3, <2>6 DEF SliceEnd, Due, Here
  <2>9. DumpTypeOK'
    BY <1>b, <1>f, <2>1, <2>3, <2>6, <1>a, DumpTypesNext DEF DumpTypeOK
  <2> QED BY <2>2, <2>3, <2>5, <2>6, <2>7, <2>8, <2>9 DEF DumpInv
<1>7. CASE SaveJson
  <2>1. /\ dump.at = "json" /\ dump' = NextLetter(dump)
        /\ disk' = [disk EXCEPT ![fileName[Due]].json = Due]
        /\ UNCHANGED <<report, unsaid, dumpTroubles, dumpRuns>>
    BY <1>7 DEF SaveJson, Goes
  <2>2. dump.let <= SliceEnd /\ Here.eml = Due /\ Here.json = NoFile
    BY <2>1 DEF DumpInv
  <2>3. /\ dump' \in Dumps /\ dump'.at = "fetch" /\ dump'.let = dump.let + 1 /\ dump'.from = dump.from
        /\ dump'.folder = dump.folder /\ dump'.errors = dump.errors /\ dump'.first = dump.first
        /\ dump.let \in Letters /\ dump.folder \in Folders
    BY <1>a, <1>b, <2>1, <2>2, NextLetterIs DEF Dumps
  <2>4. Due \in Mails /\ fileName[Due] \in FileNames
    BY <1>a, <2>2, DueIs
  <2> DEFINE file == [eml |-> Due, json |-> Due]
  <2>5. disk' = [disk EXCEPT ![fileName[Due]] = file]
    BY <1>a, <2>1, <2>2, <2>4, HereIs DEF Kept
  <2>6. Paired(fileName[Due], file) /\ file \in [eml: Kept, json: Kept] /\ file.eml = Due /\ file.json = Due
    BY <2>4 DEF Paired, Kept
  <2> HIDE DEF file
  <2>7. /\ disk' \in Disks /\ disk'[fileName[Due]] = file /\ FilesInv'
        /\ \A letter \in Mails : Saved(letter) => Saved(letter)'
    <3>1. disk[fileName[Due]].json = NoFile
      BY <2>2 DEF Here
    <3> QED BY <1>a, <1>f, <2>4, <2>5, <2>6, <3>1, FileWritten
  <2>8. PICK f \in Folders : f = dump.folder
    BY <2>3
  <2>a. PICK k \in Letters : k = dump.let
    BY <2>3
  <2>b. <<f, k>> = Due
    BY <2>8, <2>a DEF Due
  <2>c. Saved(<<f, k>>)'
    <3>1. /\ <<f, k>> \in Mails /\ disk'[fileName[<<f, k>>]].eml = <<f, k>>
          /\ disk'[fileName[<<f, k>>]].json = <<f, k>>
      BY <2>4, <2>6, <2>7, <2>b
    <3> QED BY <1>f, <3>1, SavedNow
  <2>9. Ledger(dump, unsaid)'
    BY <1>a, <2>1, <2>3, <2>7, <2>8, <2>a, <2>c, LedgerGrows
  <2>10. DumpTypeOK'
    BY <1>b, <1>f, <2>1, <2>3, <2>7, <1>a, DumpTypesNext DEF DumpTypeOK
  <2> QED BY <2>3, <2>7, <2>9, <2>10 DEF DumpInv
<1>8. CASE SaveFails
  <2>1. /\ dump.at \in {"fetch", "json"} /\ dump.let <= SliceEnd /\ Breaks
        /\ dump' = [NextLetter(dump) EXCEPT !.errors = @ + 1]
        /\ UNCHANGED <<report, unsaid, dumpRuns>> /\ dumpTroubles' \in 0..DumpTroubles
    BY <1>t, <1>8 DEF SaveFails, Writing, Fetching, Goes, DumpInv
  <2>2. NextLetter(dump) \in Dumps /\ NextLetter(dump).at = "fetch" /\ NextLetter(dump).errors = dump.errors
    BY <1>a, <2>1, NextLetterIs
  <2>a. dump.errors \in Nat
    BY <1>b DEF Dumps
  <2>b. PICK n \in Nat : n = dump.errors + 1 /\ n # 0
    BY <2>a
  <2>3. dump' = [NextLetter(dump) EXCEPT !.errors = n]
    BY <2>1, <2>2, <2>b
  <2>4. dump' \in Dumps /\ dump'.at = "fetch" /\ dump'.errors = n
    BY <2>2, <2>3 DEF Dumps
  <2>5. dump'.errors # 0
    BY <2>b, <2>4
  <2> QED BY <1>f, <2>1, <2>4, <2>5, DumpBreaks
<1>9. CASE SliceDone
  <2>1. /\ dump.at = "fetch" /\ dump.let > SliceEnd /\ dump' = SliceOver(dump)
        /\ UNCHANGED <<disk, report, unsaid, dumpTroubles, dumpRuns>>
    BY <1>9 DEF SliceDone, Goes
  <2>2. dump.errors = 0 /\ unsaid = {} => \A u \in Letters : u <= SliceEnd => Held(dump.first, dump.folder, u)
    <3> SUFFICES ASSUME dump.errors = 0, unsaid = {}, NEW u \in Letters, u <= SliceEnd
                 PROVE  Held(dump.first, dump.folder, u)
      OBVIOUS
    <3>1. u < dump.let
      BY <1>b, <2>1 DEF Dumps, Letters, Uids
    <3> QED BY <1>a, <2>1, <3>1 DEF Ledger
  <2>3. dump' \in Dumps /\ dump'.at # "json"
    BY <1>a, <1>b, <2>1, SliceOverIs, FolderOverIs
  <2>4. Ledger(dump', unsaid')
    BY <1>a, <2>1, <2>2, SliceLedger
  <2> QED BY <1>b, <2>1, <2>3, <2>4, DumpGoes, <1>f
<1>10. CASE FetchNothing
  <2>1. /\ dump.at = "fetch" /\ dump' = SliceOver(dump) /\ unsaid' = unsaid \cup {"folder not open"}
        /\ UNCHANGED <<disk, report, dumpTroubles, dumpRuns>>
    BY <1>10 DEF FetchNothing, Goes, Quietly
  <2>2. dump' \in Dumps /\ dump'.at # "json"
    BY <1>a, <1>b, <2>1, SliceOverIs, FolderOverIs
  <2>3. unsaid' # {} /\ unsaid' \subseteq Losses
    BY <1>b, <2>1 DEF Losses
  <2>4. Ledger(dump', unsaid')
    BY <2>3 DEF Ledger
  <2> QED BY <1>b, <2>1, <2>2, <2>3, <2>4, DumpGoes, <1>f
<1>11. CASE FetchBreaks
  <2>1. /\ dump.at = "fetch" /\ UNCHANGED <<disk, report, unsaid, dumpRuns>>
        /\ dumpTroubles' \in 0..DumpTroubles
    BY <1>t, <1>11 DEF FetchBreaks
  <2>2. CASE dump.attempt < 2 /\ dump' = [dump EXCEPT !.at = "slice", !.attempt = @ + 1, !.selected = TRUE]
    <3>1. PICK t \in Attempts : t = dump.attempt + 1
      BY <1>b, <1>v, <2>2 DEF Dumps
    <3>2. dump' = [dump EXCEPT !.at = "slice", !.attempt = t, !.selected = TRUE]
      BY <2>2, <3>1
    <3>3. /\ dump' \in Dumps /\ dump'.at = "slice" /\ dump'.folder = dump.folder
          /\ dump'.errors = dump.errors /\ dump'.first = dump.first /\ dump'.from = dump.from
      BY <1>b, <3>2 DEF Dumps, Places
    <3>4. Ledger(dump', unsaid')
      BY <1>a, <2>1, <3>3 DEF Ledger
    <3> QED BY <1>b, <2>1, <3>3, <3>4, DumpGoes, <1>f
  <2>3. CASE dump' = SliceLost([dump EXCEPT !.selected = TRUE])
    <3> DEFINE open == [dump EXCEPT !.selected = TRUE]
               lost == [open EXCEPT !.errors = @ + (SliceEnd - dump.from + 1)]
    <3>1. open \in Dumps /\ open.errors = dump.errors
      BY <1>b DEF Dumps
    <3>a. dump.errors \in Nat /\ dump.from \in Letters /\ SliceEnd \in Letters /\ dump.from <= SliceEnd
      BY <1>a, <1>b, DumpTypes DEF Dumps
    <3>b. dump.errors + (SliceEnd - dump.from + 1) \in Nat \ {0}
      <4>1. dump.from \in Nat /\ SliceEnd \in Nat
        <5>1. DumpLetters \in Nat
          BY <1>b
        <5>2. Letters \subseteq Nat
          BY <5>1 DEF Letters
        <5> QED BY <3>a, <5>2
      <4>2. ASSUME NEW e \in Nat, NEW i \in Nat, NEW j \in Nat, i <= j
            PROVE  e + (j - i + 1) \in Nat \ {0}
        BY <4>2
      <4> QED BY <3>a, <4>1, <4>2
    <3>2. PICK n \in Nat : n = dump.errors + (SliceEnd - dump.from + 1) /\ n # 0
      BY <3>b
    <3>3. lost = [open EXCEPT !.errors = n]
      BY <3>1, <3>2
    <3>4. lost \in Dumps /\ lost.errors = n
      BY <3>1, <3>3 DEF Dumps
    <3>5. dump' = SliceOver(lost)
      BY <2>3 DEF SliceLost
    <3> HIDE DEF lost
    <3>6. dump' \in Dumps /\ dump'.at # "json" /\ dump'.errors # 0
      BY <1>a, <3>2, <3>4, <3>5, SliceOverIs, FolderOverIs
    <3>7. Ledger(dump', unsaid')
      BY <3>6 DEF Ledger
    <3> QED BY <1>b, <2>1, <3>6, <3>7, DumpGoes, <1>f
  <2>4. CASE dump' = Failed(dump)
    <3>1. dump' \in Dumps /\ dump'.at = "report" /\ dump'.errors = 1
      BY <1>b, <2>4, FailedIs
    <3>2. Ledger(dump', unsaid')
      BY <3>1 DEF Ledger
    <3> QED BY <1>b, <2>1, <3>1, <3>2, DumpGoes, <1>f
  <2> QED BY <1>11, <2>2, <2>3, <2>4 DEF FetchBreaks, Goes
<1>12. CASE WriteReport
  <2>1. /\ dump' = [dump EXCEPT !.at = "none"] /\ report' \in {"none", "clean", "errors"}
        /\ UNCHANGED <<disk, unsaid, dumpTroubles, dumpRuns>>
    BY <1>12 DEF WriteReport, Goes
  <2>2. dump' \in Dumps /\ dump'.at = "none"
    BY <1>b, <2>1 DEF Dumps, Places
  <2>3. Ledger(dump', unsaid')
    BY <2>2 DEF Ledger
  <2> QED BY <1>b, <2>1, <2>2, <2>3, DumpGoes, <1>f
<1>13. CASE DumpKilled
  <2>1. /\ dump' = NotDumping /\ dumpTroubles' \in 0..DumpTroubles /\ Breaks
        /\ UNCHANGED <<report, unsaid, dumpRuns>>
    BY <1>t, <1>13 DEF DumpKilled, Goes
  <2>2. dump' \in Dumps /\ dump'.at = "none"
    BY <1>b, <2>1 DEF NotDumping
  <2> QED BY <1>f, <2>1, <2>2, DumpBreaks
<1>14. CASE UNCHANGED dvars
  <2>1. DumpTypeOK'
    BY <1>a, <1>14 DEF dvars, DumpTypeOK
  <2>2. FilesInv'
    BY <1>a, <1>14 DEF dvars, FilesInv, Paired
  <2>3. Ledger(dump, unsaid)'
    BY <1>a, <1>14 DEF dvars, Ledger, Held, Saved
  <2>4. (dump.at = "json" => dump.let <= SliceEnd /\ Here.eml = Due /\ Here.json = NoFile)'
    BY <1>14 DEF dvars, DumpInv, SliceEnd, Here, Due
  <2> QED BY <2>1, <2>2, <2>3, <2>4 DEF DumpInv
<1> QED
  BY <1>1, <1>2, <1>3, <1>4, <1>5, <1>6, <1>7, <1>8, <1>9, <1>10, <1>11, <1>12, <1>13, <1>14
     DEF DumpNext

\* However many folders and letters the mailbox has, whichever of them share a name,
\* whatever the size of a slice and the limit of a run, and however many things go
\* wrong over however many runs: a report without errors means that every letter the
\* run was asked for is on disk whole, itself or one that shares its name, but for the
\* four losses the code does not count.
THEOREM CleanReportsAreWhole == DumpSpec => []CleanReportIsWhole
<1>1. DumpInv => CleanReportIsWhole
  <2> SUFFICES ASSUME DumpInv, dump.at = "report", dump.errors = 0, unsaid = {},
                      NEW f \in Folders, NEW u \in dump.first..DumpLetters
               PROVE  Saved(<<f, u>>)
    BY DEF CleanReportIsWhole, Folders
  <2>1. DumpTypeOK /\ dump \in Dumps
    BY DumpTypes DEF DumpInv
  <2>2. dump.first \in 1..DumpLetters /\ DumpLetters \in Nat
    BY <2>1, DumpTypes DEF Dumps, Letters
  <2>3. u \in Letters /\ u >= dump.first
    BY <2>2 DEF Letters
  <2> QED BY <2>3 DEF DumpInv, Ledger, Held
<1> QED
  BY DumpInitInv, DumpStepInv, <1>1, PTL DEF DumpSpec

-----------------------------------------------------------------------------
(* The table of clients.                                                    *)

Ids == 1..ClientIds
Owners == 0..ClientIds
ScriptSteps == {"none", "next", "find", "name", "phone", "store", "thread", "calc",
                "facts", "recalc", "purge", "unlink"}
ScriptStates == [at: ScriptSteps, letter: ArchLetters \cup {NoContact}, client: Owners,
                 todo: SUBSET ArchLetters, cache: [Addresses -> Owners]]
MailRows == [stored: BOOLEAN, client: Owners, counted: BOOLEAN, calcs: Nat, facts: BOOLEAN]
Persons == [used: BOOLEAN, addr: Addresses \cup {NoContact}, phone: Phones \cup {NoContact}]
Identities == [addr: [Addresses -> Owners], phone: [Phones -> Owners]]

ArchiveTypes ==
    /\ traits \in [ArchLetters -> Traits] /\ files \subseteq ArchLetters
    /\ mail \in [ArchLetters -> MailRows] /\ people \in [Ids -> Persons]
    /\ idents \in Identities /\ script \in ScriptStates
    /\ halfDone \subseteq ArchLetters
    /\ archRuns \in 0..ArchRuns /\ archTroubles \in 0..ArchTroubles

\* A letter that is being read is one of the archive and has no row before its row is
\* written; the row has no request before the request is written, and the client
\* the run found; the client whose identities are being written exists; and what is
\* read again has its row.
ReadingInv ==
    /\ script.at \in {"find", "name", "phone", "store", "thread", "calc", "facts"}
         => script.letter \in ArchLetters
    /\ script.at \in {"find", "name", "phone", "store"} => ~mail[script.letter].stored
    /\ script.at \in {"name", "phone"} => script.client \in Ids /\ people[script.client].used
    /\ script.at \in {"thread", "calc"} => Row.stored /\ Row.client = script.client /\ Row.calcs = 0
    /\ script.at = "recalc" => \A l \in script.todo : mail[l].stored
    /\ \A l \in ArchLetters : ~mail[l].stored => mail[l].calcs = 0

ArchiveInv == ArchiveTypes /\ ReadingInv /\ ArchiveIsSound

LEMMA ArchiveInitInv == ArchiveInit => ArchiveInv
<1> SUFFICES ASSUME ArchiveInit
             PROVE  ArchiveInv
  OBVIOUS
<1> USE ArchAssumption DEF ArchiveInit, NoScript, NotStored, Unused, Nobody
<1>0. 0 \in Owners
  BY DEF Owners
<1>1. ArchiveTypes
  <2>1. script \in ScriptStates
    BY <1>0 DEF ScriptStates, ScriptSteps
  <2>2. mail \in [ArchLetters -> MailRows] /\ people \in [Ids -> Persons] /\ idents \in Identities
    BY <1>0 DEF MailRows, Persons, Identities, Ids
  <2>3. archRuns \in 0..ArchRuns /\ archTroubles \in 0..ArchTroubles
    OBVIOUS
  <2> QED BY <2>1, <2>2, <2>3 DEF ArchiveTypes
<1>2. ReadingInv
  BY DEF ReadingInv
<1>3. ArchiveIsSound
  BY DEF ArchiveIsSound, OneClientPerAddress, CalcOnce
<1> QED BY <1>1, <1>2, <1>3 DEF ArchiveInv

\* The contacts of a letter are contacts, or none.
LEMMA MineIs ==
    ASSUME ArchiveTypes, script.letter \in ArchLetters
    PROVE  /\ Mine.addr \in Addresses \cup {NoContact} /\ Mine.phone \in Phones \cup {NoContact}
           /\ Mine \in Traits /\ Mine = traits[script.letter]
BY DEF ArchiveTypes, Traits, Mine

LEMMA BelongsIs ==
    ASSUME ArchiveTypes, script.letter \in ArchLetters, NEW i \in Owners, Belongs(i)
    PROVE  script' \in ScriptStates /\ script'.at = "store" /\ script'.letter = script.letter
<1>1. PICK c \in [Addresses -> Owners] :
        script' = [script EXCEPT !.at = "store", !.client = i, !.cache = c]
  <2>1. script.cache \in [Addresses -> Owners]
    BY DEF ArchiveTypes, ScriptStates
  <2>2. CASE Mine.addr = NoContact
    BY <2>1, <2>2 DEF Belongs
  <2>3. CASE Mine.addr # NoContact
    BY <2>1, <2>3, MineIs DEF Belongs
  <2> QED BY <2>2, <2>3
<1> QED BY <1>1 DEF ArchiveTypes, ScriptStates, ScriptSteps

\* Who has the address keeps it; otherwise the client gets it.
LEMMA ClaimAddrIs ==
    ASSUME ArchiveTypes, script.letter \in ArchLetters, Mine.addr # NoContact, NEW i \in Ids,
           idents' = ClaimAddr(i)
    PROVE  /\ idents' \in Identities
           /\ \A a \in Addresses : idents'.addr[a] \in {idents.addr[a], i}
<1>1. Mine.addr \in Addresses /\ idents \in Identities /\ i \in Owners
  BY MineIs DEF ArchiveTypes, Ids, Owners
<1>2. PICK o \in Owners : /\ o \in {idents.addr[Mine.addr], i}
                          /\ idents' = [idents EXCEPT !.addr = [idents.addr EXCEPT ![Mine.addr] = o]]
  <2>1. CASE idents.addr[Mine.addr] = Nobody
    BY <1>1, <2>1 DEF ClaimAddr, Claim, Identities
  <2>2. CASE idents.addr[Mine.addr] # Nobody
    BY <1>1, <2>2 DEF ClaimAddr, Claim, Identities
  <2> QED BY <2>1, <2>2
<1> QED BY <1>1, <1>2 DEF Identities

\* A step that writes neither a row of a letter nor a client, and reads no letter
\* half way.
LEMMA ScriptGoes ==
    ASSUME ArchiveInv, UNCHANGED <<traits, mail, people, idents>>, files' \subseteq files,
           script' \in ScriptStates, halfDone' = Halved,
           script'.at \in {"none", "next", "recalc", "purge"},
           script'.at = "recalc" => \A l \in script'.todo : mail[l].stored,
           archRuns' \in 0..ArchRuns, archTroubles' \in 0..ArchTroubles
    PROVE  ArchiveInv'
<1>1. halfDone' \subseteq ArchLetters /\ halfDone \subseteq halfDone'
  BY DEF ArchiveInv, ArchiveTypes, ReadingInv, Halved
<1>2. ArchiveTypes'
  BY <1>1 DEF ArchiveInv, ArchiveTypes
<1>3. ReadingInv'
  BY DEF ArchiveInv, ReadingInv
<1>4. OneClientPerAddress'
  BY DEF ArchiveInv, ArchiveIsSound, OneClientPerAddress
<1>5. CalcOnce'
  BY <1>1 DEF ArchiveInv, ArchiveIsSound, CalcOnce, Halved
<1> QED BY <1>2, <1>3, <1>4, <1>5 DEF ArchiveInv, ArchiveIsSound

\* A step that writes neither a row of a letter nor what it owes.
LEMMA LetterGoes ==
    ASSUME ArchiveInv, UNCHANGED <<traits, files, mail, halfDone, archRuns, archTroubles>>,
           script.at \notin {"thread", "calc"}, people' \in [Ids -> Persons], idents' \in Identities,
           script' \in ScriptStates, OneClientPerAddress', ReadingInv'
    PROVE  ArchiveInv'
<1>1. ArchiveTypes'
  BY DEF ArchiveInv, ArchiveTypes
<1>2. CalcOnce'
  BY DEF ArchiveInv, ArchiveIsSound, CalcOnce
<1> QED BY <1>1, <1>2 DEF ArchiveInv, ArchiveIsSound

\* A step that writes one row of a letter: what the others owe stays as it was.
LEMMA RowGoes ==
    ASSUME ArchiveInv, NEW l \in ArchLetters, NEW row \in MailRows, mail' = [mail EXCEPT ![l] = row],
           UNCHANGED <<traits, files, people, idents, archRuns, archTroubles>>,
           halfDone' \subseteq ArchLetters, halfDone \subseteq halfDone' \cup {l},
           script.at \in {"thread", "calc"} => script.letter = l,
           script' \in ScriptStates, ReadingInv',
           row.calcs <= 1,
           row.stored /\ row.client # Nobody /\ traits[l].calc /\ l \notin halfDone'
              => row.calcs = 1 \/ (script'.letter = l /\ script'.at \in {"thread", "calc"})
    PROVE  ArchiveInv'
<1>1. mail' \in [ArchLetters -> MailRows] /\ mail'[l] = row
      /\ \A k \in ArchLetters : k # l => mail'[k] = mail[k]
  BY DEF ArchiveInv, ArchiveTypes
<1>2. ArchiveTypes'
  BY <1>1 DEF ArchiveInv, ArchiveTypes
<1>3. OneClientPerAddress'
  BY DEF ArchiveInv, ArchiveIsSound, OneClientPerAddress
<1>4. ASSUME NEW k \in ArchLetters
      PROVE  (/\ mail[k].calcs <= 1
              /\ mail[k].stored /\ mail[k].client # Nobody /\ traits[k].calc /\ k \notin halfDone
                  => mail[k].calcs = 1 \/ (script.letter = k /\ script.at \in {"thread", "calc"}))'
  <2>1. CASE k = l
    BY <1>1, <2>1
  <2>2. CASE k # l
    BY <1>1, <2>2 DEF ArchiveInv, ArchiveIsSound, CalcOnce
  <2> QED BY <2>1, <2>2
<1> QED BY <1>2, <1>3, <1>4 DEF ArchiveInv, ArchiveIsSound, CalcOnce

LEMMA ArchiveStepInv == ArchiveInv /\ [ArchiveNext]_avars => ArchiveInv'
<1> SUFFICES ASSUME ArchiveInv, [ArchiveNext]_avars
             PROVE  ArchiveInv'
  OBVIOUS
<1>a. ArchiveTypes /\ ReadingInv /\ OneClientPerAddress /\ CalcOnce
  BY DEF ArchiveInv, ArchiveIsSound
<1>b. /\ script \in ScriptStates /\ files \subseteq ArchLetters /\ halfDone \subseteq ArchLetters
      /\ people \in [Ids -> Persons] /\ idents \in Identities /\ mail \in [ArchLetters -> MailRows]
      /\ archRuns \in 0..ArchRuns /\ archTroubles \in 0..ArchTroubles
      /\ ArchRuns \in Nat /\ ArchTroubles \in Nat
      /\ NoScript \in ScriptStates /\ NoScript.at = "none"
  BY <1>a, ArchAssumption DEF ArchiveTypes, NoScript, ScriptStates, ScriptSteps, Owners, Nobody
<1>s. ASSUME NEW step \in {"next", "recalc", "purge"}, NEW todo \in SUBSET ArchLetters,
             step = "recalc" => \A l \in todo : mail[l].stored, Starts(step, todo)
      PROVE  ArchiveInv'
  <2>1. /\ script.at = "none" /\ archRuns' = archRuns + 1 /\ archRuns < ArchRuns
        /\ script' = [NoScript EXCEPT !.at = step, !.todo = todo]
        /\ UNCHANGED <<traits, files, mail, people, idents, halfDone, archTroubles>>
    BY <1>s DEF Starts, ScriptAt
  <2>2. script' \in ScriptStates /\ script'.at = step /\ script'.todo = todo
    BY <1>b, <2>1 DEF ScriptStates, ScriptSteps
  <2>3. archRuns' \in 0..ArchRuns /\ halfDone' = Halved
    BY <1>b, <2>1 DEF Halved
  <2> QED BY <1>b, <1>s, <2>1, <2>2, <2>3, ScriptGoes
<1>1. CASE StartIngest
  BY <1>b, <1>s, <1>1 DEF StartIngest
<1>2. CASE StartRecalc
  BY <1>s, <1>2 DEF StartRecalc
<1>3. CASE StartPurge
  BY <1>s, <1>3 DEF StartPurge
<1>4. ASSUME NEW l \in ArchLetters, TakeEml(l)
      PROVE  ArchiveInv'
  <2> DEFINE then == IF mail[l].stored THEN "next"
                     ELSE IF traits[l].addr = NoContact /\ traits[l].phone = NoContact THEN "store" ELSE "find"
             todo == script.todo \ {l}
  <2>1. /\ script.at = "next"
        /\ script' = [script EXCEPT !.todo = todo, !.letter = l, !.client = Nobody, !.at = then]
        /\ UNCHANGED <<traits, files, mail, people, idents, halfDone, archRuns, archTroubles>>
    BY <1>4 DEF TakeEml, ScriptAt, abounds
  <2>2. then \in {"next", "store", "find"} /\ (then # "next" => ~mail[l].stored)
    OBVIOUS
  <2>3. todo \in SUBSET ArchLetters /\ Nobody \in Owners
    BY <1>b, ArchAssumption DEF ScriptStates, Owners, Nobody
  <2> HIDE DEF then, todo
  <2>4. script' \in ScriptStates /\ script'.at = then /\ script'.letter = l
    BY <1>b, <2>1, <2>2, <2>3 DEF ScriptStates, ScriptSteps
  <2>5. ReadingInv'
    BY <1>a, <2>1, <2>2, <2>4 DEF ReadingInv
  <2>6. OneClientPerAddress'
    BY <1>a, <2>1 DEF OneClientPerAddress
  <2> QED BY <1>b, <2>1, <2>4, <2>5, <2>6, LetterGoes
<1>5. CASE KnownByAddr
  <2>1. /\ script.at = "find" /\ Belongs(ByAddr)
        /\ UNCHANGED <<traits, files, mail, people, idents, halfDone, archRuns, archTroubles>>
    BY <1>5 DEF KnownByAddr, ScriptAt, abounds
  <2>2. script.letter \in ArchLetters
    BY <1>a, <2>1 DEF ReadingInv
  <2>3. ByAddr \in Owners
    BY <1>a, <1>b, <2>2, MineIs, ArchAssumption DEF ByAddr, ScriptStates, Identities, Nobody, Owners
  <2>4. script' \in ScriptStates /\ script'.at = "store" /\ script'.letter = script.letter
    BY <1>a, <2>1, <2>2, <2>3, BelongsIs
  <2>5. ReadingInv'
    BY <1>a, <2>1, <2>2, <2>4 DEF ReadingInv
  <2>6. OneClientPerAddress'
    BY <1>a, <2>1 DEF OneClientPerAddress
  <2> QED BY <1>b, <2>1, <2>4, <2>5, <2>6, LetterGoes
<1>6. CASE KnownByPrimary
  <2>1. PICK i \in Primary : Belongs(i) /\ idents' = ClaimAddr(i)
    BY <1>6 DEF KnownByPrimary
  <2>2. /\ script.at = "find" /\ UNCHANGED <<traits, files, mail, people, halfDone, archRuns, archTroubles>>
        /\ script.letter \in ArchLetters
    BY <1>a, <1>6 DEF KnownByPrimary, ScriptAt, ReadingInv, abounds
  <2>3. i \in Ids /\ i \in Owners /\ people[i].used /\ Mine.addr # NoContact
    BY <2>1 DEF Primary, Ids, Owners
  <2>4. script' \in ScriptStates /\ script'.at = "store" /\ script'.letter = script.letter
    BY <1>a, <2>1, <2>2, <2>3, BelongsIs
  <2>5. idents' \in Identities /\ \A a \in Addresses : idents'.addr[a] \in {idents.addr[a], i}
    BY <1>a, <2>1, <2>2, <2>3, ClaimAddrIs
  <2>6. ReadingInv'
    BY <1>a, <2>2, <2>4 DEF ReadingInv
  <2>7. OneClientPerAddress'
    BY <1>a, <2>2, <2>3, <2>5 DEF OneClientPerAddress
  <2> QED BY <1>b, <2>2, <2>4, <2>5, <2>6, <2>7, LetterGoes
<1>7. CASE KnownByPhone
  <2>1. /\ script.at = "find" /\ Belongs(ByPhone)
        /\ UNCHANGED <<traits, files, mail, people, idents, halfDone, archRuns, archTroubles>>
    BY <1>7 DEF KnownByPhone, ScriptAt, abounds
  <2>2. script.letter \in ArchLetters
    BY <1>a, <2>1 DEF ReadingInv
  <2>3. ByPhone \in Owners
    BY <1>a, <1>b, <2>2, MineIs, ArchAssumption DEF ByPhone, Identities, Nobody, Owners
  <2>4. script' \in ScriptStates /\ script'.at = "store" /\ script'.letter = script.letter
    BY <1>a, <2>1, <2>2, <2>3, BelongsIs
  <2>5. ReadingInv'
    BY <1>a, <2>1, <2>2, <2>4 DEF ReadingInv
  <2>6. OneClientPerAddress'
    BY <1>a, <2>1 DEF OneClientPerAddress
  <2> QED BY <1>b, <2>1, <2>4, <2>5, <2>6, LetterGoes
<1>8. CASE NewClient
  <2>1. PICK i \in Ids : /\ ~people[i].used /\ people' = [people EXCEPT ![i] = NewRow]
                         /\ script' = [script EXCEPT !.at = "name", !.client = i]
    BY <1>8 DEF NewClient, Ids
  <2>2. /\ script.at = "find" /\ Primary = {} /\ script.letter \in ArchLetters
        /\ UNCHANGED <<traits, files, mail, idents, halfDone, archRuns, archTroubles>>
    BY <1>a, <1>8 DEF NewClient, ScriptAt, ReadingInv, abounds
  <2>3. NewRow \in Persons /\ NewRow.used /\ NewRow.addr = Mine.addr
    BY <1>a, <2>2, MineIs DEF NewRow, Persons
  <2>4. /\ people' \in [Ids -> Persons] /\ people'[i] = NewRow
        /\ \A j \in Ids : j # i => people'[j] = people[j]
    BY <1>b, <2>1, <2>3
  <2>5. i \in Owners
    BY DEF Ids, Owners
  <2>6. script' \in ScriptStates /\ script'.at = "name" /\ script'.client = i /\ script'.letter = script.letter
    BY <1>b, <2>1, <2>5 DEF ScriptStates, ScriptSteps
  <2>7. ReadingInv'
    BY <1>a, <2>2, <2>3, <2>4, <2>6 DEF ReadingInv
  <2>8. OneClientPerAddress'
    <3>1. ASSUME NEW j \in Ids, j # i, people[j].used, people[j].addr = Mine.addr
          PROVE  Mine.addr = NoContact
      BY <2>2, <3>1 DEF Primary, Ids
    <3>2. \A j, k \in Ids : people'[j].used /\ people'[k].used /\ people'[j].addr = people'[k].addr
                              /\ people'[j].addr # NoContact => j = k
      <4> SUFFICES ASSUME NEW j \in Ids, NEW k \in Ids, j # k,
                          people'[j].used, people'[k].used, people'[j].addr = people'[k].addr
                   PROVE  people'[j].addr = NoContact
        OBVIOUS
      <4>1. CASE j = i
        BY <2>3, <2>4, <3>1, <4>1
      <4>2. CASE k = i
        BY <2>3, <2>4, <3>1, <4>2
      <4>3. CASE j # i /\ k # i
        BY <1>a, <2>4, <4>3 DEF OneClientPerAddress, Ids
      <4> QED BY <4>1, <4>2, <4>3
    <3>3. \A a \in Addresses : idents.addr[a] # Nobody => people'[idents.addr[a]].used
      <4> SUFFICES ASSUME NEW a \in Addresses, idents.addr[a] # Nobody
                   PROVE  people'[idents.addr[a]].used
        OBVIOUS
      <4>1. idents.addr[a] \in Ids
        BY <1>b, ArchAssumption DEF Identities, Owners, Ids, Nobody
      <4>2. people[idents.addr[a]].used
        BY <1>a DEF OneClientPerAddress
      <4> QED BY <2>3, <2>4, <4>1, <4>2
    <3> QED BY <2>2, <3>2, <3>3 DEF OneClientPerAddress, Ids
  <2> QED BY <1>b, <2>2, <2>4, <2>6, <2>7, <2>8, LetterGoes
<1>9. CASE NameAddr
  <2> DEFINE c == IF Mine.addr = NoContact THEN script.cache
                  ELSE [script.cache EXCEPT ![Mine.addr] = script.client]
  <2>1. /\ script.at = "name" /\ script' = [script EXCEPT !.at = "phone", !.cache = c]
        /\ idents' = IF Mine.addr = NoContact THEN idents ELSE ClaimAddr(script.client)
        /\ UNCHANGED <<traits, files, mail, people, halfDone, archRuns, archTroubles>>
    BY <1>9 DEF NameAddr, ScriptAt, abounds
  <2>2. script.letter \in ArchLetters /\ script.client \in Ids /\ people[script.client].used
    BY <1>a, <2>1 DEF ReadingInv
  <2>3. script.client \in Owners /\ script.cache \in [Addresses -> Owners]
    BY <1>b DEF ScriptStates
  <2>4. c \in [Addresses -> Owners]
    BY <1>a, <2>2, <2>3, MineIs
  <2> HIDE DEF c
  <2>5. script' \in ScriptStates /\ script'.at = "phone" /\ script'.client = script.client
        /\ script'.letter = script.letter
    BY <1>b, <2>1, <2>4 DEF ScriptStates, ScriptSteps
  <2>6. idents' \in Identities /\ \A a \in Addresses : idents'.addr[a] \in {idents.addr[a], script.client}
    <3>1. CASE Mine.addr = NoContact
      BY <1>b, <2>1, <3>1
    <3>2. CASE Mine.addr # NoContact
      BY <1>a, <2>1, <2>2, <3>2, ClaimAddrIs
    <3> QED BY <3>1, <3>2
  <2>7. ReadingInv'
    BY <1>a, <2>1, <2>2, <2>5 DEF ReadingInv
  <2>8. OneClientPerAddress'
    BY <1>a, <2>1, <2>2, <2>6 DEF OneClientPerAddress
  <2> QED BY <1>b, <2>1, <2>5, <2>6, <2>7, <2>8, LetterGoes
<1>10. CASE NamePhone
  <2>1. /\ script.at = "phone" /\ script' = [script EXCEPT !.at = "store"]
        /\ idents' = IF Mine.phone = NoContact THEN idents
                     ELSE [idents EXCEPT !.phone[Mine.phone] = Claim(@, script.client)]
        /\ UNCHANGED <<traits, files, mail, people, halfDone, archRuns, archTroubles>>
    BY <1>10 DEF NamePhone, ScriptAt, abounds
  <2>2. script.letter \in ArchLetters /\ script.client \in Owners
    BY <1>a, <1>b, <2>1 DEF ReadingInv, ScriptStates
  <2>3. idents' \in Identities /\ idents'.addr = idents.addr
    <3>1. CASE Mine.phone = NoContact
      BY <1>b, <2>1, <3>1
    <3>2. CASE Mine.phone # NoContact
      <4>1. Mine.phone \in Phones
        BY <1>a, <2>2, <3>2, MineIs
      <4>2. PICK o \in Owners : idents' = [idents EXCEPT !.phone = [idents.phone EXCEPT ![Mine.phone] = o]]
        <5>1. Claim(idents.phone[Mine.phone], script.client) \in Owners
          BY <1>b, <2>2, <4>1 DEF Claim, Identities
        <5> QED BY <2>1, <3>2, <5>1
      <4> QED BY <1>b, <4>1, <4>2 DEF Identities
    <3> QED BY <3>1, <3>2
  <2>4. script' \in ScriptStates /\ script'.at = "store" /\ script'.letter = script.letter
    BY <1>b, <2>1 DEF ScriptStates, ScriptSteps
  <2>5. ReadingInv'
    BY <1>a, <2>1, <2>2, <2>4 DEF ReadingInv
  <2>6. OneClientPerAddress'
    BY <1>a, <2>1, <2>3 DEF OneClientPerAddress
  <2> QED BY <1>b, <2>1, <2>3, <2>4, <2>5, <2>6, LetterGoes
\* The four writes of a letter.
<1>w. ASSUME NEW step \in {"store", "thread", "calc", "facts"},
             NEW then \in {"thread", "calc", "facts", "next"}, NEW row \in MailRows, Write(step, then, row)
      PROVE  /\ script.at = step /\ script.letter \in ArchLetters /\ Row \in MailRows /\ Row = mail[script.letter]
             /\ mail' = [mail EXCEPT ![script.letter] = row] /\ Row' = row
             /\ script' \in ScriptStates /\ script'.at = then /\ script'.letter = script.letter
             /\ script'.client = script.client /\ script.client \in Owners
             /\ mail'[script.letter] = row
             /\ \A l \in ArchLetters : l # script.letter => mail'[l] = mail[l]
             /\ UNCHANGED <<traits, files, people, idents, halfDone, archRuns, archTroubles>>
  <2>1. /\ script.at = step /\ mail' = [mail EXCEPT ![script.letter] = row]
        /\ script' = [script EXCEPT !.at = then]
        /\ UNCHANGED <<traits, files, people, idents, halfDone, archRuns, archTroubles>>
    BY <1>w DEF Write, ScriptAt, abounds
  <2>2. script.letter \in ArchLetters
    BY <1>a, <2>1 DEF ReadingInv
  <2>3. /\ script' \in ScriptStates /\ script'.at = then /\ script'.letter = script.letter
        /\ script'.client = script.client /\ script.client \in Owners
    BY <1>b, <2>1 DEF ScriptStates, ScriptSteps
  <2> QED BY <1>b, <2>1, <2>2, <2>3 DEF Row
<1>11. CASE StoreLetter
  <2> DEFINE row == [Row EXCEPT !.stored = TRUE, !.client = script.client]
  <2>0. Write("store", "thread", row)
    BY <1>11 DEF StoreLetter
  <2>1. script.at = "store" /\ script.letter \in ArchLetters /\ script.client \in Owners
    BY <1>a, <1>b, <2>0 DEF Write, ScriptAt, ReadingInv, ScriptStates
  <2>2. Row \in MailRows /\ Row.calcs = 0
    BY <1>a, <1>b, <2>1 DEF Row, ReadingInv
  <2>3. row \in MailRows /\ row.client = script.client /\ row.calcs = 0 /\ row.stored
    BY <2>1, <2>2 DEF MailRows
  <2> HIDE DEF row
  <2>4. ReadingInv'
    BY <1>a, <1>w, <2>0, <2>3 DEF ReadingInv
  <2> QED BY <1>b, <1>w, <2>0, <2>3, <2>4, RowGoes
<1>12. CASE CountThread
  <2> DEFINE row == [Row EXCEPT !.counted = TRUE]
  <2>0. Write("thread", "calc", row)
    BY <1>12 DEF CountThread
  <2>1. script.at = "thread" /\ script.letter \in ArchLetters
    BY <1>a, <2>0 DEF Write, ScriptAt, ReadingInv
  <2>2. Row \in MailRows /\ Row.calcs = 0 /\ Row.client = script.client /\ Row = mail[script.letter]
    BY <1>a, <1>b, <2>1 DEF Row, ReadingInv
  <2>3. row \in MailRows /\ row.client = script.client /\ row.calcs = 0 /\ row.stored = Row.stored
    BY <2>2 DEF MailRows
  <2> HIDE DEF row
  <2>4. ReadingInv'
    BY <1>a, <1>w, <2>0, <2>3 DEF ReadingInv
  <2> QED BY <1>b, <1>w, <2>0, <2>3, <2>4, RowGoes
<1>13. CASE StoreCalc
  <2> DEFINE n == IF script.client # Nobody /\ Mine.calc THEN 1 ELSE 0
             row == [Row EXCEPT !.calcs = @ + n]
  <2>0. Write("calc", "facts", row)
    BY <1>13 DEF StoreCalc
  <2>1. script.at = "calc" /\ script.letter \in ArchLetters
    BY <1>a, <2>0 DEF Write, ScriptAt, ReadingInv
  <2>2. Row \in MailRows /\ Row.calcs = 0 /\ Row.client = script.client /\ Row = mail[script.letter]
    BY <1>a, <1>b, <2>1 DEF Row, ReadingInv
  <2>3. n \in {0, 1} /\ n \in Nat /\ (script.client # Nobody /\ traits[script.letter].calc => n = 1)
    BY DEF Mine
  <2> HIDE DEF n
  <2>4. row = [Row EXCEPT !.calcs = n]
    BY <2>2, <2>3
  <2>5. row \in MailRows /\ row.client = script.client /\ row.calcs = n /\ row.stored = Row.stored
    BY <2>2, <2>3, <2>4 DEF MailRows
  <2>6. Row.stored
    BY <1>a, <2>1 DEF ReadingInv
  <2> HIDE DEF row
  <2>7. ReadingInv'
    <3>1. row.stored
      BY <2>5, <2>6
    <3> QED BY <1>a, <1>w, <2>0, <2>5, <3>1 DEF ReadingInv
  <2> QED BY <1>b, <1>w, <2>0, <2>3, <2>5, <2>7, RowGoes
<1>14. CASE StoreFacts
  <2> DEFINE row == [Row EXCEPT !.facts = script.client # Nobody]
  <2>0. Write("facts", "next", row)
    BY <1>14 DEF StoreFacts
  <2>1. script.at = "facts" /\ script.letter \in ArchLetters
    BY <1>a, <2>0 DEF Write, ScriptAt, ReadingInv
  <2>2. Row \in MailRows /\ Row = mail[script.letter]
    BY <1>b, <2>1 DEF Row
  <2>3. row \in MailRows /\ row.client = Row.client /\ row.calcs = Row.calcs /\ row.stored = Row.stored
    BY <2>2 DEF MailRows
  <2> HIDE DEF row
  <2>4. ReadingInv'
    BY <1>a, <1>w, <2>0, <2>2, <2>3 DEF ReadingInv
  <2>5. row.calcs <= 1 /\ (row.stored /\ row.client # Nobody /\ traits[script.letter].calc
                            /\ script.letter \notin halfDone => row.calcs = 1)
    BY <1>a, <2>1, <2>2, <2>3 DEF CalcOnce
  <2> QED BY <1>b, <1>w, <2>0, <2>1, <2>3, <2>4, <2>5, RowGoes
<1>15. ASSUME NEW l \in ArchLetters, RecalcLetter(l)
       PROVE  ArchiveInv'
  <2> DEFINE n == IF traits[l].calc /\ mail[l].calcs = 0 THEN 1 ELSE mail[l].calcs
             row == [mail[l] EXCEPT !.calcs = n]
             todo == script.todo \ {l}
  <2>1. /\ script.at = "recalc" /\ l \in script.todo /\ script' = [script EXCEPT !.todo = todo]
        /\ mail' = [mail EXCEPT ![l] = row] /\ halfDone' = halfDone \ {l}
        /\ UNCHANGED <<traits, files, people, idents, archRuns, archTroubles>>
    BY <1>b, <1>15 DEF RecalcLetter, ScriptAt, abounds
  <2>2. mail[l] \in MailRows /\ mail[l].calcs \in Nat /\ mail[l].calcs <= 1
    BY <1>a, <1>b DEF MailRows, CalcOnce
  <2>3. n \in Nat /\ n <= 1 /\ (traits[l].calc => n = 1)
    BY <2>2
  <2>4. todo \in SUBSET ArchLetters /\ todo \subseteq script.todo
    BY <1>b DEF ScriptStates
  <2> HIDE DEF n, todo
  <2>5. row \in MailRows /\ row.calcs = n /\ row.stored = mail[l].stored
    BY <2>2, <2>3 DEF MailRows
  <2> HIDE DEF row
  <2>6. script' \in ScriptStates /\ script'.at = "recalc" /\ script'.todo = todo /\ todo \subseteq script.todo
    BY <1>b, <2>1, <2>4 DEF ScriptStates
  <2>7. mail[l].stored
    BY <1>a, <2>1 DEF ReadingInv
  <2>r. mail'[l] = row /\ \A k \in ArchLetters : k # l => mail'[k] = mail[k]
    BY <1>b, <2>1
  <2>8. ReadingInv'
    <3>1. row.stored
      BY <2>5, <2>7
    <3>2. \A k \in script'.todo : mail'[k].stored
      BY <1>a, <1>b, <2>1, <2>6, <2>r, <3>1 DEF ReadingInv, ScriptStates
    <3>3. \A k \in ArchLetters : ~mail'[k].stored => mail'[k].calcs = 0
      BY <1>a, <2>r, <3>1 DEF ReadingInv
    <3> QED BY <2>6, <3>2, <3>3 DEF ReadingInv
  <2>9. halfDone' \subseteq ArchLetters /\ halfDone \subseteq halfDone' \cup {l}
    BY <1>b, <2>1
  <2> QED BY <2>1, <2>3, <2>5, <2>6, <2>8, <2>9, RowGoes
<1>16. ASSUME NEW l \in ArchLetters, PurgeRow(l)
       PROVE  ArchiveInv'
  <2> DEFINE todo == script.todo \ {l}
  <2>1. /\ script.at = "purge" /\ mail' = [mail EXCEPT ![l] = NotStored]
        /\ script' = [script EXCEPT !.todo = todo, !.letter = l, !.at = "unlink"]
        /\ UNCHANGED <<traits, files, people, idents, halfDone, archRuns, archTroubles>>
    BY <1>16 DEF PurgeRow, ScriptAt, abounds
  <2>2. NotStored \in MailRows /\ ~NotStored.stored /\ NotStored.calcs = 0
    BY ArchAssumption DEF NotStored, MailRows, Owners, Nobody
  <2>3. todo \in SUBSET ArchLetters
    BY <1>b DEF ScriptStates
  <2> HIDE DEF todo
  <2>4. script' \in ScriptStates /\ script'.at = "unlink"
    BY <1>b, <2>1, <2>3 DEF ScriptStates, ScriptSteps
  <2>5. ReadingInv'
    BY <1>a, <1>b, <2>1, <2>2, <2>4 DEF ReadingInv
  <2>6. NotStored.calcs <= 1 /\ halfDone' \subseteq ArchLetters /\ halfDone \subseteq halfDone' \cup {l}
    BY <1>b, <2>1, <2>2
  <2> QED BY <2>1, <2>2, <2>4, <2>5, <2>6, RowGoes
<1>17. CASE PurgeFile
  <2>1. /\ script.at = "unlink" /\ files' \subseteq files /\ script' = [script EXCEPT !.at = "purge"]
        /\ UNCHANGED <<traits, mail, people, idents, halfDone, archRuns, archTroubles>>
    BY <1>17 DEF PurgeFile, ScriptAt, abounds
  <2>2. script' \in ScriptStates /\ script'.at = "purge" /\ halfDone' = Halved
    BY <1>b, <2>1 DEF ScriptStates, ScriptSteps, Halved
  <2> QED BY <1>b, <2>1, <2>2, ScriptGoes
<1>18. CASE PurgeOrphans
  <2>1. PICK gone \in SUBSET {i \in 1..ClientIds : people[i].used
                             /\ \A l \in ArchLetters : mail[l].client # i} :
         /\ people' = [i \in 1..ClientIds |-> IF i \in gone THEN Unused ELSE people[i]]
         /\ idents' = [addr |-> [a \in Addresses |->
                                   IF idents.addr[a] \in gone THEN Nobody ELSE idents.addr[a]],
                       phone |-> [p \in Phones |->
                                   IF idents.phone[p] \in gone THEN Nobody ELSE idents.phone[p]]]
    BY <1>18 DEF PurgeOrphans
  <2>2. /\ script.at = "purge" /\ script' = NoScript
        /\ UNCHANGED <<traits, files, mail, halfDone, archRuns, archTroubles>>
    BY <1>18 DEF PurgeOrphans, ScriptAt, abounds
  <2>3. Unused \in Persons /\ ~Unused.used /\ Nobody \in Owners
    BY ArchAssumption DEF Unused, Persons, Nobody, Owners
  <2>4. people' \in [Ids -> Persons] /\ \A i \in Ids : people'[i] = IF i \in gone THEN Unused ELSE people[i]
    BY <1>b, <2>1, <2>3 DEF Ids
  <2>5. /\ idents' \in Identities
        /\ \A a \in Addresses : idents'.addr[a] = IF idents.addr[a] \in gone THEN Nobody ELSE idents.addr[a]
    BY <1>b, <2>1, <2>3 DEF Identities
  <2>6. ReadingInv'
    BY <1>a, <1>b, <2>2 DEF ReadingInv
  <2>7. \A i, j \in Ids : people'[i].used /\ people'[j].used /\ people'[i].addr = people'[j].addr
                            /\ people'[i].addr # NoContact => i = j
    BY <1>a, <2>3, <2>4 DEF OneClientPerAddress, Ids
  <2>8. \A a \in Addresses : idents'.addr[a] # Nobody => people'[idents'.addr[a]].used
    <3> SUFFICES ASSUME NEW a \in Addresses, idents'.addr[a] # Nobody
                 PROVE  people'[idents'.addr[a]].used
      OBVIOUS
    <3>1. idents'.addr[a] = idents.addr[a] /\ idents.addr[a] \notin gone
      BY <2>5
    <3>2. idents.addr[a] \in Ids /\ people[idents.addr[a]].used
      BY <1>a, <1>b, <3>1, ArchAssumption DEF OneClientPerAddress, Identities, Owners, Ids, Nobody
    <3> QED BY <2>4, <3>1, <3>2
  <2>9. OneClientPerAddress'
    BY <2>7, <2>8 DEF OneClientPerAddress, Ids
  <2> QED BY <1>b, <2>2, <2>4, <2>5, <2>6, <2>9, LetterGoes
<1>19. CASE ScriptEnds
  <2>1. /\ script.at \in {"next", "recalc"} /\ script' = NoScript
        /\ UNCHANGED <<traits, files, mail, people, idents, halfDone, archRuns, archTroubles>>
    BY <1>19 DEF ScriptEnds, abounds
  <2>2. halfDone' = Halved
    BY <2>1 DEF Halved
  <2> QED BY <1>b, <2>1, <2>2, ScriptGoes
<1>20. CASE QueryFails
  <2>1. /\ script' = [script EXCEPT !.at = "next"] /\ halfDone' = Halved
        /\ archTroubles < ArchTroubles /\ archTroubles' = archTroubles + 1
        /\ UNCHANGED <<traits, files, mail, people, idents, archRuns>>
    BY <1>20 DEF QueryFails
  <2>2. script' \in ScriptStates /\ script'.at = "next"
    BY <1>b, <2>1 DEF ScriptStates, ScriptSteps
  <2>3. archTroubles' \in 0..ArchTroubles
    BY <1>b, <2>1
  <2> QED BY <1>b, <2>1, <2>2, <2>3, ScriptGoes
<1>21. CASE ScriptKilled
  <2>1. /\ script' = NoScript /\ halfDone' = Halved
        /\ archTroubles < ArchTroubles /\ archTroubles' = archTroubles + 1
        /\ UNCHANGED <<traits, files, mail, people, idents, archRuns>>
    BY <1>21 DEF ScriptKilled
  <2>2. archTroubles' \in 0..ArchTroubles
    BY <1>b, <2>1
  <2> QED BY <1>b, <2>1, <2>2, ScriptGoes
<1>22. CASE UNCHANGED avars
  <2>1. UNCHANGED <<traits, files, mail, people, idents, script, halfDone, archRuns, archTroubles>>
    BY <1>22 DEF avars
  <2>2. ArchiveTypes' /\ ReadingInv' /\ OneClientPerAddress' /\ CalcOnce'
    BY <1>a, <2>1 DEF ArchiveTypes, ReadingInv, Row, OneClientPerAddress, CalcOnce
  <2> QED BY <2>2 DEF ArchiveInv, ArchiveIsSound
<1> QED
  BY <1>1, <1>2, <1>3, <1>4, <1>5, <1>6, <1>7, <1>8, <1>9, <1>10, <1>11, <1>12, <1>13, <1>14,
     <1>15, <1>16, <1>17, <1>18, <1>19, <1>20, <1>21, <1>22 DEF ArchiveNext, Identify

\* However many letters, addresses and clients there are, however often the scripts run
\* and wherever a run stops: an address has one client, who owns an identity
\* exists, and a client's request for a price is in the table once.
THEOREM ArchiveStaysSound == ArchiveSpec => []ArchiveIsSound
<1>1. ArchiveInv => ArchiveIsSound
  BY DEF ArchiveInv
<1> QED
  BY ArchiveInitInv, ArchiveStepInv, <1>1, PTL DEF ArchiveSpec
=============================================================================
