------------------------------ MODULE TLSParse ------------------------------
(***************************************************************************)
(* tlsparse.go: from the bytes of a TCP segment to the server name of the  *)
(* TLS ClientHello that it may hold.  Bytes are numbers below 256 and a    *)
(* cursor (cryptobyte.String) is the sequence of the bytes still to read.  *)
(* A parser returns the set of what it has parsed, one value when it       *)
(* succeeds and none when it fails with ErrTLSParse, so the next parser is *)
(* applied to the members of that set.                                     *)
(***************************************************************************)
EXTENDS Integers, Sequences

CONSTANT RandomSize \* size of the random field (32 in the code)

-----------------------------------------------------------------------------
(* cryptobyte.String: the numbers are big endian. *)

Skip(cursor, n) == SubSeq(cursor, n + 1, Len(cursor))

\* ReadBytes, and ReadUint8, ReadUint16 and ReadUint24
ReadBytes(cursor, n) ==
    IF Len(cursor) < n THEN {} ELSE {[data |-> SubSeq(cursor, 1, n), rest |-> Skip(cursor, n)]}
Number(bytes) ==
    IF Len(bytes) = 1 THEN bytes[1]
    ELSE IF Len(bytes) = 2 THEN 256 * bytes[1] + bytes[2]
    ELSE 65536 * bytes[1] + 256 * bytes[2] + bytes[3]

\* ReadUint8LengthPrefixed, ReadUint16LengthPrefixed and ReadUint24LengthPrefixed
ReadPrefixed(cursor, n) ==
    UNION {ReadBytes(size.rest, Number(size.data)) : size \in ReadBytes(cursor, n)}

-----------------------------------------------------------------------------
\* The rest of the record, if its protocol version and content type are known.
UnmarshalTLSRecordHeader(cursor) ==
    {r.data : r \in UNION {ReadPrefixed(h.rest, 2) :
                             h \in {g \in ReadBytes(cursor, 3) :
                                      /\ Number(Tail(g.data)) \in 769..772
                                      /\ g.data[1] \in 20..23}}}

\* The extensions of a ClientHello, which has nothing after them.
UnmarshalTLSClientHello(cursor) ==
    LET random == ReadBytes(cursor, 2 + RandomSize)
        session == UNION {ReadPrefixed(f.rest, 1) : f \in random}
        ciphers == UNION {ReadPrefixed(f.rest, 2) : f \in session}
        compression == UNION {ReadPrefixed(f.rest, 1) : f \in ciphers}
        extensions == UNION {ReadPrefixed(f.rest, 2) : f \in compression}
    IN  {f.data : f \in {g \in extensions : g.rest = <<>>}}

\* Only a ClientHello is supported.
UnmarshalTLSHandshakeMsg(cursor) ==
    UNION {UnmarshalTLSClientHello(m.data) :
             m \in UNION {ReadPrefixed(h.rest, 3) :
                            h \in {g \in ReadBytes(cursor, 1) : g.data = <<1>>}}}

\* The loop over the extensions, from the byte after position i.
UnmarshalTLSExtensions(cursor) ==
    LET From[i \in 0..Len(cursor)] ==
          IF i = Len(cursor) THEN {<<>>}
          ELSE UNION {UNION {{<<[type |-> Number(h.data), data |-> e.data]>> \o more :
                                more \in From[Len(cursor) - Len(e.rest)]} :
                               e \in ReadPrefixed(h.rest, 2)} :
                        h \in ReadBytes(Skip(cursor, i), 2)}
    IN  From[0]

\* The data of the first server_name extension.
FindTLSServerNameExtension(exts) ==
    LET names == SelectSeq(exts, LAMBDA ext : ext.type = 0)
    IN  {names[i].data : i \in DOMAIN names \cap {1}}

\* The loop over the server name list, from the byte after position i.  What
\* follows a name of another type is read as if it were the next name.
HostNames(list) ==
    LET From[i \in 0..Len(list)] ==
          IF i = Len(list) THEN {<<>>}
          ELSE IF list[i + 1] # 0 THEN From[i + 1]
          ELSE UNION {{<<n.data>> \o more : more \in From[Len(list) - Len(n.rest)]} :
                        n \in ReadPrefixed(Skip(list, i + 1), 2)}
    IN  From[0]

\* if !cursor.Empty(); the variant forgets what comes after the list.
TrailingIgnored(list) == TRUE
WholeList(list) == list.rest = <<>>

\* The last host_name wins.
UnmarshalTLSServerNameExtension(cursor) ==
    LET lists == {list.data : list \in {l \in ReadPrefixed(cursor, 2) : WholeList(l)}}
        names == UNION {HostNames(list) : list \in lists}
    IN  {n[Len(n)] : n \in names \ {<<>>}}

ExtractTLSServerName(rawInput) ==
    LET records == UnmarshalTLSRecordHeader(rawInput)
        hellos == UNION {UnmarshalTLSHandshakeMsg(record) : record \in records}
        exts == UNION {UnmarshalTLSExtensions(hello) : hello \in hellos}
        snexts == UNION {FindTLSServerNameExtension(ext) : ext \in exts}
    IN  UNION {UnmarshalTLSServerNameExtension(snext) : snext \in snexts}
=============================================================================
