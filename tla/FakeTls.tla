------------------------------ MODULE FakeTls -------------------------------
(***************************************************************************)
(* The socket of an MTProto proxy that looks like TLS (mtprotoFakeTls.ts): *)
(* the server's bytes come in chunks cut anywhere, are a handshake of      *)
(* three records and then records of which only application data counts,   *)
(* and a reader takes them by number.  One connection; every continuation  *)
(* of a promise runs before the next event of the socket.                  *)
(***************************************************************************)
EXTENDS Integers, Sequences

CONSTANTS
    Header,         \* bytes of a record's header, its length among them (5)
    Records,        \* bound: records after the handshake
    PayloadMax,     \* bound: bytes of one
    ReadLen         \* how many bytes the reader asks for, again and again

ASSUME TlsAssumption ==
    /\ Header \in Nat \ {0} /\ ReadLen \in Nat \ {0}
    /\ Records \in Nat /\ PayloadMax \in Nat

VARIABLES
    wire,           \* the bytes of the connection, never changes
    came,           \* how many of them came in
    tls,            \* FakeTlsNetSockets
    got             \* history: the application's bytes that the reader took

zvars == <<wire, came, tls, got>>

\* A byte knows its record, its place in it and what the header says; the record
\* of a handshake has one byte of body here.
Handshake == <<[app |-> FALSE, len |-> 1], [app |-> FALSE, len |-> 1], [app |-> TRUE, len |-> 1]>>
Wires == UNION {[1..n -> [app: BOOLEAN, len: 0..PayloadMax]] : n \in 0..Records}
NoBytes == <<>>
BytesOf(i, r) == [at \in 1..(Header + r.len) |->
                      [record |-> i, at |-> at, app |-> r.app, len |-> r.len]]
Bytes(records) ==
    LET upTo[i \in 0..Len(records)] ==
            IF i = 0 THEN NoBytes ELSE upTo[i - 1] \o BytesOf(i, records[i])
    IN  upTo[Len(records)]

\* stream, rawHold and appMode as in the code; ready: canRead is resolved; waiting:
\* a readExactly in progress, and what it has; want: how much it still asks.
NoSocket == [at |-> "off", stream |-> NoBytes, rawHold |-> NoBytes, ready |-> FALSE,
             part |-> NoBytes, want |-> 0, shaken |-> 0, closed |-> FALSE]
AppMode(t) == t.at = "app"

TlsInit ==
    /\ \E w \in Wires : wire = Bytes(Handshake \o w)
    /\ came = 0 /\ tls = NoSocket /\ got = NoBytes

-----------------------------------------------------------------------------
\* How many bytes of hold are whole records.
Whole(hold) ==
    LET ends == {i \in 1..Len(hold) : hold[i].at = Header + hold[i].len}
    IN  IF ends = {} THEN 0 ELSE CHOOSE i \in ends : \A j \in ends : j <= i
\* The payload of the application's records.
Keep(kept, b) == IF b.app /\ b.at > Header THEN Append(kept, b) ELSE kept
Payload(bytes) ==
    LET upTo[i \in 0..Len(bytes)] == IF i = 0 THEN NoBytes ELSE Keep(upTo[i - 1], bytes[i])
    IN  upTo[Len(bytes)]

\* ingestAppRecords: what is whole moves from the hold to the stream.
Ingest(t, chunk) ==
    LET hold == t.rawHold \o chunk
        n == Whole(hold)
    IN  [t EXCEPT !.rawHold = SubSeq(hold, n + 1, Len(hold)),
                  !.stream = @ \o Payload(SubSeq(hold, 1, n))]

\* connect up to the first read of the handshake: a header.
Connect ==
    /\ tls.at = "off"
    /\ tls' = [NoSocket EXCEPT !.at = "header", !.want = Header]
    /\ UNCHANGED <<wire, came, got>>

\* A data event.  The reader is woken even if no record is whole.
BytesArrive(n) ==
    /\ tls.at # "off" /\ ~tls.closed
    /\ n > 0 /\ came + n <= Len(wire)
    /\ LET chunk == SubSeq(wire, came + 1, came + n)
           taken == IF AppMode(tls) THEN Ingest(tls, chunk) ELSE [tls EXCEPT !.stream = @ \o chunk]
       IN  tls' = [taken EXCEPT !.ready = TRUE]
    /\ came' = came + n
    /\ UNCHANGED <<wire, got>>

Least(a, b) == IF a <= b THEN a ELSE b
\* Mutant: read makes the promise anew whenever it took something, as readAll does.
Taken_renewed(t, n) ==
    [t EXCEPT !.stream = SubSeq(@, n + 1, Len(@)), !.part = @ \o SubSeq(t.stream, 1, n),
              !.want = @ - n, !.ready = FALSE]
\* read: n bytes leave the stream; an empty stream has to wait for a new promise.
Taken(t, n) ==
    [t EXCEPT !.stream = SubSeq(@, n + 1, Len(@)), !.part = @ \o SubSeq(t.stream, 1, n),
              !.want = @ - n, !.ready = n < Len(t.stream)]

\* What follows when a readExactly has all it asked: in the handshake the body of
\* the record, or the next record; after the third one the bytes left over are
\* records of the application.  Then the reader asks again.
Go(t) ==
    IF t.want > 0 THEN t
    ELSE CASE t.at = "header" ->
                [t EXCEPT !.at = "body", !.part = NoBytes, !.want = t.part[Header].len]
           [] t.at = "body" /\ t.shaken < 2 ->
                [t EXCEPT !.at = "header", !.part = NoBytes, !.want = Header, !.shaken = @ + 1]
           [] t.at = "body" /\ t.shaken = 2 ->
                Ingest([t EXCEPT !.at = "app", !.part = NoBytes, !.want = ReadLen, !.shaken = 3,
                                 !.stream = NoBytes], t.stream)
           [] OTHER -> [t EXCEPT !.part = NoBytes, !.want = ReadLen]

\* One turn of readExactly.
Read ==
    /\ tls.at # "off" /\ ~tls.closed /\ tls.ready
    /\ LET n == Least(tls.want, Len(tls.stream))
       IN  /\ tls' = Go(Taken(tls, n))
           /\ got' = IF AppMode(tls) THEN got \o SubSeq(tls.stream, 1, n) ELSE got
    /\ UNCHANGED <<wire, came>>

\* error or close, or a handshake that is not the proxy's: the next read throws, whatever the stream still has.
Closes ==
    /\ tls.at # "off" /\ ~tls.closed
    /\ tls' = [tls EXCEPT !.closed = TRUE, !.ready = TRUE]
    /\ UNCHANGED <<wire, came, got>>

Arriving == \E n \in 1..Len(wire) : BytesArrive(n)
TlsNext == Connect \/ Arriving \/ Read \/ Closes
\* The proxy sends what it has to send; a continuation that can run, runs.
TlsSpec == TlsInit /\ [][TlsNext]_zvars /\ WF_zvars(Read) /\ WF_zvars(Arriving)

-----------------------------------------------------------------------------
\* Every variable keeps its type.
TlsTypeOK ==
    /\ came \in 0..Len(wire)
    /\ tls.at \in {"off", "header", "body", "app"} /\ tls.shaken \in 0..3
    /\ tls.want \in 0..Len(wire) + Header + ReadLen /\ tls.ready \in BOOLEAN /\ tls.closed \in BOOLEAN

Sent == Payload(SubSeq(wire, Len(Bytes(Handshake)) + 1, Len(wire)))
\* However the bytes are cut into chunks - a record over two, two in one, the first
\* of the application behind the last of the handshake - the reader gets the
\* payload, all of it and in order, and is not left waiting with bytes in the stream.
WireIsRead == tls.at # "off" ~> (tls.closed \/ got = Sent)
=============================================================================
