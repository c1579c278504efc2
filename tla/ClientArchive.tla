--------------------------- MODULE ClientArchive ---------------------------
(***************************************************************************)
(* The scripts that read the mail archive into the table of clients: the   *)
(* ingest, its --recalc-only, and the purge of newsletters.  An operator   *)
(* starts them one at a time, again and again over the same files.  Every  *)
(* query commits for itself, so a run that stops leaves a letter half done *)
(* and the next run meets what it left.                                    *)
(***************************************************************************)
EXTENDS Naturals

CONSTANTS
    ArchLetters,    \* bound: letters of the archive, copies counted once
    Addresses,      \* bound: addresses of clients
    Phones,         \* bound: telephones of clients; an INN is looked up likewise
    NoContact,
    ClientIds,      \* bound: clients are numbered 1..ClientIds
    ArchRuns,       \* bound: runs of a script
    ArchTroubles    \* bound: queries that fail and runs that are killed

ASSUME ArchAssumption ==
    /\ NoContact \notin Addresses \cup Phones
    /\ ClientIds \in Nat \ {0} /\ ArchRuns \in Nat /\ ArchTroubles \in Nat

VARIABLES
    traits,         \* what the letters are; never changes
    files,          \* letters whose .eml is on disk
    mail,           \* mail_messages, with the calcs and facts of each letter
    people,         \* clients, by id
    idents,         \* client_identities: who owns an address, a telephone
    script,         \* the run
    halfDone,       \* history: stored letters whose run stopped before their calc
    archRuns, archTroubles

avars == <<traits, files, mail, people, idents, script, halfDone, archRuns, archTroubles>>
abounds == <<archRuns, archTroubles>>

Traits == [news: {FALSE}, addr: Addresses \cup {NoContact}, phone: Phones \cup {NoContact}, calc: BOOLEAN]
          \cup [news: {TRUE}, addr: {NoContact}, phone: {NoContact}, calc: {FALSE}]
Nobody == 0
NotStored == [stored |-> FALSE, client |-> Nobody, counted |-> FALSE, calcs |-> 0, facts |-> FALSE]
Unused == [used |-> FALSE, addr |-> NoContact, phone |-> NoContact]
NoScript == [at |-> "none", letter |-> NoContact, client |-> Nobody, todo |-> {},
             cache |-> [a \in Addresses |-> Nobody]]

ArchiveInit ==
    /\ traits \in [ArchLetters -> Traits] /\ files = ArchLetters
    /\ mail = [l \in ArchLetters |-> NotStored]
    /\ people = [i \in 1..ClientIds |-> Unused]
    /\ idents = [addr |-> [a \in Addresses |-> Nobody], phone |-> [p \in Phones |-> Nobody]]
    /\ script = NoScript /\ halfDone = {} /\ archRuns = 0 /\ archTroubles = 0

Mine == traits[script.letter]
ScriptAt(step) == script.at = step
Starts(step, todo) ==
    /\ ScriptAt("none") /\ archRuns < ArchRuns
    /\ archRuns' = archRuns + 1
    /\ script' = [NoScript EXCEPT !.at = step, !.todo = todo]
    /\ UNCHANGED <<traits, files, mail, people, idents, halfDone, archTroubles>>
\* The client is found: remembered for the address, and the letter goes on.
Belongs(i) == script' = [script EXCEPT !.at = "store", !.client = i, !.cache =
                 IF Mine.addr = NoContact THEN @ ELSE [@ EXCEPT ![Mine.addr] = i]]
\* ON CONFLICT DO NOTHING.
Claim(owner, i) == IF owner = Nobody THEN i ELSE owner
ClaimAddr(i) == [idents EXCEPT !.addr[Mine.addr] = Claim(@, i)]

-----------------------------------------------------------------------------
StartIngest == Starts("next", files)

\* A letter that is stored is not taken again; a newsletter, or a letter without a
\* contact, has no client.
TakeEml(l) ==
    /\ ScriptAt("next") /\ l \in script.todo
    /\ script' = [script EXCEPT !.todo = @ \ {l}, !.letter = l, !.client = Nobody, !.at =
         IF mail[l].stored THEN "next"
         ELSE IF traits[l].addr = NoContact /\ traits[l].phone = NoContact THEN "store" ELSE "find"]
    /\ UNCHANGED <<traits, files, mail, people, idents, halfDone, abounds>>

ByAddr == IF Mine.addr = NoContact THEN Nobody
          ELSE IF script.cache[Mine.addr] # Nobody THEN script.cache[Mine.addr]
          ELSE idents.addr[Mine.addr]
\* Mutant: the address of a client is looked up among the identities only.
Primary_identities == {}
\* Clients whose row has the address.
Primary == IF Mine.addr = NoContact THEN {}
           ELSE {i \in 1..ClientIds : people[i].used /\ people[i].addr = Mine.addr}
ByPhone == IF Mine.phone = NoContact THEN Nobody ELSE idents.phone[Mine.phone]

KnownByAddr ==
    /\ ScriptAt("find") /\ ByAddr # Nobody
    /\ Belongs(ByAddr)
    /\ UNCHANGED <<traits, files, mail, people, idents, halfDone, abounds>>

\* A client whose row was written and whose identity was not gets it now.
KnownByPrimary ==
    /\ ScriptAt("find") /\ ByAddr = Nobody
    /\ \E i \in Primary : Belongs(i) /\ idents' = ClaimAddr(i)
    /\ UNCHANGED <<traits, files, mail, people, halfDone, abounds>>

\* The address is remembered for this run, and gets no identity.
KnownByPhone ==
    /\ ScriptAt("find") /\ ByAddr = Nobody /\ Primary = {} /\ ByPhone # Nobody
    /\ Belongs(ByPhone)
    /\ UNCHANGED <<traits, files, mail, people, idents, halfDone, abounds>>

NewRow == [used |-> TRUE, addr |-> Mine.addr, phone |-> Mine.phone]
NewClient ==
    /\ ScriptAt("find") /\ ByAddr = Nobody /\ Primary = {} /\ ByPhone = Nobody
    /\ \E i \in 1..ClientIds :
         /\ \A j \in 1..ClientIds : ~people[j].used => i <= j
         /\ ~people[i].used
         /\ people' = [people EXCEPT ![i] = NewRow]
         /\ script' = [script EXCEPT !.at = "name", !.client = i]
    /\ UNCHANGED <<traits, files, mail, idents, halfDone, abounds>>

\* The identities of a new client: the address, then the telephone.
NameAddr ==
    /\ ScriptAt("name")
    /\ idents' = IF Mine.addr = NoContact THEN idents ELSE ClaimAddr(script.client)
    /\ script' = [script EXCEPT !.at = "phone", !.cache =
         IF Mine.addr = NoContact THEN @ ELSE [@ EXCEPT ![Mine.addr] = script.client]]
    /\ UNCHANGED <<traits, files, mail, people, halfDone, abounds>>

NamePhone ==
    /\ ScriptAt("phone")
    /\ idents' = IF Mine.phone = NoContact THEN idents
                 ELSE [idents EXCEPT !.phone[Mine.phone] = Claim(@, script.client)]
    /\ script' = [script EXCEPT !.at = "store"]
    /\ UNCHANGED <<traits, files, mail, people, halfDone, abounds>>

\* The row of the letter, the count of its thread, the request for a price and the
\* facts: four writes.
Write(step, then, row) ==
    /\ ScriptAt(step)
    /\ mail' = [mail EXCEPT ![script.letter] = row]
    /\ script' = [script EXCEPT !.at = then]
    /\ UNCHANGED <<traits, files, people, idents, halfDone, abounds>>
Row == mail[script.letter]
StoreLetter == Write("store", "thread", [Row EXCEPT !.stored = TRUE, !.client = script.client])
CountThread == Write("thread", "calc", [Row EXCEPT !.counted = TRUE])
StoreCalc == Write("calc", "facts",
    [Row EXCEPT !.calcs = @ + IF script.client # Nobody /\ Mine.calc THEN 1 ELSE 0])
StoreFacts == Write("facts", "next", [Row EXCEPT !.facts = script.client # Nobody])

-----------------------------------------------------------------------------
\* --recalc-only: what a stopped run owes, and not what it wrote.
StartRecalc == Starts("recalc", {l \in ArchLetters : mail[l].stored /\ mail[l].client # Nobody})

\* Mutant: it does not look whether the letter has its calc.
RecalcLetter_again(l) ==
    /\ ScriptAt("recalc") /\ l \in script.todo
    /\ script' = [script EXCEPT !.todo = @ \ {l}]
    /\ mail' = [mail EXCEPT ![l].calcs = @ + IF traits[l].calc THEN 1 ELSE 0]
    /\ halfDone' = halfDone \ {l}
    /\ UNCHANGED <<traits, files, people, idents, abounds>>

RecalcLetter(l) ==
    /\ ScriptAt("recalc") /\ l \in script.todo
    /\ script' = [script EXCEPT !.todo = @ \ {l}]
    /\ mail' = [mail EXCEPT ![l].calcs = IF traits[l].calc /\ @ = 0 THEN 1 ELSE @]
    /\ halfDone' = halfDone \ {l}
    /\ UNCHANGED <<traits, files, people, idents, abounds>>

StartPurge == Starts("purge", {l \in ArchLetters : mail[l].stored /\ traits[l].news})

PurgeRow(l) ==
    /\ ScriptAt("purge") /\ l \in script.todo
    /\ mail' = [mail EXCEPT ![l] = NotStored]
    /\ script' = [script EXCEPT !.todo = @ \ {l}, !.letter = l, !.at = "unlink"]
    /\ UNCHANGED <<traits, files, people, idents, halfDone, abounds>>

PurgeFile ==
    /\ ScriptAt("unlink")
    /\ files' = files \ {script.letter}
    /\ script' = [script EXCEPT !.at = "purge"]
    /\ UNCHANGED <<traits, mail, people, idents, halfDone, abounds>>

\* Clients of the archive with no letter and no deal go, and their identities.
PurgeOrphans ==
    /\ ScriptAt("purge") /\ script.todo = {}
    /\ \E gone \in SUBSET {i \in 1..ClientIds : people[i].used
                             /\ \A l \in ArchLetters : mail[l].client # i} :
         /\ people' = [i \in 1..ClientIds |-> IF i \in gone THEN Unused ELSE people[i]]
         /\ idents' = [addr |-> [a \in Addresses |->
                                   IF idents.addr[a] \in gone THEN Nobody ELSE idents.addr[a]],
                       phone |-> [p \in Phones |->
                                   IF idents.phone[p] \in gone THEN Nobody ELSE idents.phone[p]]]
    /\ script' = NoScript
    /\ UNCHANGED <<traits, files, mail, halfDone, abounds>>

ScriptEnds ==
    /\ script.at \in {"next", "recalc"} /\ script.todo = {}
    /\ script' = NoScript
    /\ UNCHANGED <<traits, files, mail, people, idents, halfDone, abounds>>

\* What stops a letter between its row and its calc.
Halved == IF script.at \in {"thread", "calc"} THEN halfDone \cup {script.letter} ELSE halfDone

\* A query fails: a warning, and the next file.
QueryFails ==
    /\ script.at \in {"find", "name", "phone", "store", "thread", "calc", "facts"}
    /\ archTroubles < ArchTroubles /\ archTroubles' = archTroubles + 1
    /\ halfDone' = Halved
    /\ script' = [script EXCEPT !.at = "next"]
    /\ UNCHANGED <<traits, files, mail, people, idents, archRuns>>

ScriptKilled ==
    /\ ~ScriptAt("none")
    /\ archTroubles < ArchTroubles /\ archTroubles' = archTroubles + 1
    /\ halfDone' = Halved
    /\ script' = NoScript
    /\ UNCHANGED <<traits, files, mail, people, idents, archRuns>>

Identify == KnownByAddr \/ KnownByPrimary \/ KnownByPhone \/ NewClient \/ NameAddr \/ NamePhone
ArchiveNext ==
    \/ StartIngest \/ Identify \/ StoreLetter \/ CountThread \/ StoreCalc \/ StoreFacts
    \/ StartRecalc \/ StartPurge \/ PurgeFile \/ PurgeOrphans \/ ScriptEnds
    \/ QueryFails \/ ScriptKilled
    \/ \E l \in ArchLetters : TakeEml(l) \/ RecalcLetter(l) \/ PurgeRow(l)
ArchiveSpec == ArchiveInit /\ [][ArchiveNext]_avars

-----------------------------------------------------------------------------
\* Every variable keeps its type.
ArchiveTypeOK ==
    /\ traits \in [ArchLetters -> Traits] /\ files \subseteq ArchLetters
    /\ mail \in [ArchLetters -> [stored: BOOLEAN, client: 0..ClientIds, counted: BOOLEAN,
                                 calcs: Nat, facts: BOOLEAN]]
    /\ people \in [1..ClientIds -> [used: BOOLEAN, addr: Addresses \cup {NoContact},
                                    phone: Phones \cup {NoContact}]]
    /\ idents \in [addr: [Addresses -> 0..ClientIds], phone: [Phones -> 0..ClientIds]]
    /\ script.at \in {"none", "next", "find", "name", "phone", "store", "thread", "calc",
                      "facts", "recalc", "purge", "unlink"}
    /\ script.letter \in ArchLetters \cup {NoContact} /\ script.client \in 0..ClientIds
    /\ script.todo \subseteq ArchLetters /\ script.cache \in [Addresses -> 0..ClientIds]
    /\ halfDone \subseteq ArchLetters
    /\ archRuns \in 0..ArchRuns /\ archTroubles \in 0..ArchTroubles

\* However often the archive is read, and wherever a run stopped, an address has one
\* client; and who owns an identity exists.
OneClientPerAddress ==
    /\ \A i, j \in 1..ClientIds :
         people[i].used /\ people[j].used /\ people[i].addr = people[j].addr
             /\ people[i].addr # NoContact => i = j
    /\ \A a \in Addresses : idents.addr[a] # Nobody => people[idents.addr[a]].used

\* A client's letter that asks for a price is in the table of requests once: not
\* twice over repeated runs and recalcs, and missing only when its run stopped
\* between the letter and the request and no recalc came since.
CalcOnce ==
    \A l \in ArchLetters :
        /\ mail[l].calcs <= 1
        /\ mail[l].stored /\ mail[l].client # Nobody /\ traits[l].calc /\ l \notin halfDone
              => mail[l].calcs = 1 \/ (script.letter = l /\ script.at \in {"thread", "calc"})

\* The archive makes no twins and drops nothing it can help: both of the above.
ArchiveIsSound == OneClientPerAddress /\ CalcOnce
=============================================================================
