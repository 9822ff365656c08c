---------------------------- MODULE ClientHello ----------------------------
(***************************************************************************)
(* The parser that finds the server name of a TLS connection               *)
(* (pkg/protocol/tls/client_hello.go) on the bytes the proxy can peek.     *)
(* Bytes are small naturals and a length field is one of them, whatever    *)
(* its width: the parser's bounds are about lengths, not about encodings.  *)
(* RandomLen stands for the 34 bytes of version and random, MaxRecord for  *)
(* maxTLSRecordLen.                                                        *)
(***************************************************************************)
EXTENDS Integers, Sequences, SequencesExt, FiniteSets

CONSTANTS RandomLen, MaxRecord,
          Hellos        \* ClientHellos: [sid, suites, methods, exts, names, name], the
                        \* last two being what the client means

VARIABLES sent,         \* the hello the client means, and how it cut it
          stream,       \* what the reader can peek before the stream ends
          parsed        \* what PeekClientHelloServerName returned

----------------------------------------------------------------------------
Truncated == [name |-> <<>>, tls |-> TRUE, err |-> TRUE]
Found(n) == [name |-> n, tls |-> TRUE, err |-> FALSE]
NotTLS == [name |-> <<>>, tls |-> FALSE, err |-> FALSE]

Drop(s, n) == SubSeq(s, n + 1, Len(s))

\* A vector with a length prefix at the front of s: whether it fits, its data
\* and what follows.
Fits(s) == s # <<>> /\ Len(s) >= 1 + s[1]
Data(s) == SubSeq(s, 2, 1 + s[1])
After(s) == Drop(s, 1 + s[1])

\* The loop of parseServerNameExtension over the list of names.
firstHostName[names \in Seq(Nat)] ==
    IF Len(names) < 2 THEN (IF names = <<>> THEN Found(<<>>) ELSE Truncated)
    ELSE IF ~Fits(Tail(names)) THEN Truncated
    ELSE IF Head(names) = 0 THEN Found(Data(Tail(names)))
    ELSE firstHostName[After(Tail(names))]

parseServerNameExtension(data) ==
    IF ~Fits(data) THEN Truncated ELSE firstHostName[Data(data)]

\* The loop over the extensions: the first one of type 0 decides.
serverNameIn[exts \in Seq(Nat)] ==
    IF Len(exts) < 2 THEN Found(<<>>)
    ELSE IF ~Fits(Tail(exts)) THEN Truncated
    ELSE IF Head(exts) = 0 THEN parseServerNameExtension(Data(Tail(exts)))
    ELSE serverNameIn[After(Tail(exts))]

\* ParseClientHelloServerName from the hello on: session id, cipher suites and
\* compression methods are skipped; extensions may be absent.
parseHello(hello) ==
    LET sid == Drop(hello, RandomLen)
        suites == After(sid)
        methods == After(suites)
        exts == After(methods)
    IN  IF Len(hello) < RandomLen \/ ~Fits(sid) THEN Truncated
        ELSE IF ~Fits(suites) THEN Truncated
        ELSE IF ~Fits(methods) THEN Truncated
        ELSE IF exts = <<>> THEN Found(<<>>)
        ELSE IF ~Fits(exts) THEN Truncated
        ELSE serverNameIn[Data(exts)]

\* Fault: the length of the hello is not compared with the record.
parseRecordUnchecked(body) ==
    IF Len(body) < 2 \/ body[1] # 1 THEN Found(<<>>) ELSE parseHello(Drop(body, 2))

\* ParseClientHelloServerName on the body of the record.
parseRecord(body) ==
    IF Len(body) < 2 \/ body[1] # 1 THEN Found(<<>>)
    ELSE IF ~Fits(Tail(body)) THEN Truncated
    ELSE parseHello(Data(Tail(body)))

\* PeekClientHelloServerName: type, version, length, then the whole record.
PeekClientHelloServerName(s) ==
    IF Len(s) < 3 THEN [NotTLS EXCEPT !.err = TRUE]
    ELSE IF s[1] # 22 \/ s[2] # 3 \/ s[3] = 0 \/ s[3] > MaxRecord THEN NotTLS
    ELSE IF ~Fits(Drop(s, 2)) THEN Truncated
    ELSE parseRecord(Data(Drop(s, 2)))

----------------------------------------------------------------------------
(* What clients send.                                                      *)

Prefixed(v) == <<Len(v)>> \o v

\* The bytes of a list of extensions, and of the list of names in one.
Items(list) == FlattenSeq([i \in DOMAIN list |-> <<list[i].type>> \o Prefixed(list[i].data)])
Item == [type : Nat, data : Seq(Nat)]
FirstOf(list) == {i \in DOMAIN list : list[i].type = 0 /\ \A j \in 1 .. (i - 1) : list[j].type # 0}

\* What a hello means: the first extension of type 0 lists names, of which the
\* first of type 0 is the name of the server.
HellosAssumption ==
    /\ RandomLen \in Nat /\ MaxRecord \in Nat
    /\ \A h \in Hellos :
        /\ {h.sid, h.suites, h.methods} \subseteq Seq(Nat) /\ {h.exts, h.names} \subseteq Seq(Item)
        /\ IF FirstOf(h.exts) = {} THEN h.names = <<>>
           ELSE \A e \in FirstOf(h.exts) : h.exts[e].data = Prefixed(Items(h.names))
        /\ IF FirstOf(h.names) = {} THEN h.name = <<>>
           ELSE \A n \in FirstOf(h.names) : h.name = h.names[n].data

Encoding(h) ==
    LET hello == [i \in 1..RandomLen |-> 9] \o Prefixed(h.sid) \o Prefixed(h.suites) \o Prefixed(h.methods)
                 \o IF h.exts = <<>> THEN <<>> ELSE Prefixed(Items(h.exts))
    IN  <<1>> \o Prefixed(hello)

\* The handshake message in records of at most cut bytes, of which the first
\* arrives up to byte seen before the client stops.
Stream(h, cut, seen) ==
    LET m == Encoding(h)
        first == SubSeq(m, 1, IF cut < Len(m) THEN cut ELSE Len(m))
        rest == Drop(m, Len(first))
        bytes == <<22, 3>> \o Prefixed(first) \o IF rest = <<>> THEN <<>> ELSE <<22, 3>> \o Prefixed(rest)
    IN  SubSeq(bytes, 1, IF seen < Len(bytes) THEN seen ELSE Len(bytes))

Init == \E h \in Hellos : \E cut \in 1..(Len(Encoding(h)) + 1), seen \in 0..(Len(Encoding(h)) + 6) :
            /\ sent = [hello |-> h, cut |-> cut, seen |-> seen]
            /\ stream = Stream(h, cut, seen)
            /\ parsed = [name |-> <<>>, tls |-> FALSE, err |-> TRUE]

\* The connection loop peeks and parses.
Peek == /\ parsed' = PeekClientHelloServerName(stream)
        /\ UNCHANGED <<sent, stream>>

Next == Peek
vars == <<sent, stream, parsed>>
Spec == Init /\ [][Next]_vars

----------------------------------------------------------------------------
\* However the client cuts its hello into records and wherever the stream
\* stops, the parser finds the name the client means, or reports a truncated
\* hello; it never takes a part of a hello for one without a name, except when
\* the first record has less than the handshake header.
NeverTheWrongName ==
    (parsed.tls /\ ~parsed.err) =>
        \/ parsed.name = sent.hello.name
        \/ sent.cut < 2
=============================================================================
