---------------------------------- MODULE Wire ----------------------------------
(***************************************************************************)
(* The binary form of RFC 4251 (standards/rfc4251.h): octets, integers of  *)
(* 4 and 8 octets, most significant first, strings and lists of names. An  *)
(* integer is the sequence of its octets in this order, as memory has it   *)
(* after htonl; an octet is below Base.                                    *)
(***************************************************************************)
EXTENDS Strings

CONSTANT Base               \* 256

BaseAssumption == Base \in Nat \ 0 .. 2      \* 8, the length of the longest, is an int

Comma == ","
Value(bytes) == FoldLeft(LAMBDA n, o : n * Base + o, 0, bytes)

\* What an int makes of a size_t of 4 octets.
AsInt(n) == IF n < (Base * Base * Base * Base) \div 2 THEN n ELSE n - Base * Base * Base * Base

----------------------------------------------------------------------------
(* writer: what each leaf appends.                                         *)

RECURSIVE WriteInteger(_, _)
WriteInteger(n, octets) ==
    IF octets = 0 THEN <<>> ELSE Append(WriteInteger(n \div Base, octets - 1), n % Base)
WriteOctet(n) == << n % Base >>
WriteUint32(n) == WriteInteger(n, 4)
WriteUint64(n) ==
    LET wrap == Base * Base * Base * Base IN WriteInteger(n \div wrap, 4) \o WriteInteger(n % wrap, 4)
WriteString(s) == WriteUint32(Len(s)) \o s
Joined(names) ==
    FlattenSeq([k \in DOMAIN names |-> IF k = 1 THEN names[k] ELSE << Comma >> \o names[k]])
WriteNameList(names) == WriteString(Joined(names))

Write(leaf) ==
    CASE leaf.type = "byte" -> WriteOctet(leaf.value)
      [] leaf.type = "uint32" -> WriteUint32(leaf.value)
      [] leaf.type = "uint64" -> WriteUint64(leaf.value)
      [] leaf.type = "string" -> WriteString(leaf.value)
      [] leaf.type = "name_list" -> WriteNameList(leaf.value)

\* serialize: the fields of a message one after the other.
Serialize(message) == FlattenSeq([k \in DOMAIN message |-> Write(message[k])])

----------------------------------------------------------------------------
(* reader: [data, next, status], where status is "reads" or "would_block". *)

Reader(data) == [data |-> data, next |-> 0, status |-> "reads"]
Given(r, value) == [reader |-> r, value |-> value]

\* advance, whose argument is an int: a length of half of all integers or more goes backwards.
Advance(r, n) ==
    IF r.next + AsInt(n) <= Len(r.data) THEN [r EXCEPT !.next = @ + AsInt(n)]
    ELSE [r EXCEPT !.status = "would_block"]

Bytes(r, n) == LET end == Min({r.next + n, Len(r.data)}) IN From(UpTo(r.data, end), r.next)
ReadInteger(r, octets) == Given(Advance(r, octets), Value(Bytes(r, octets)))
ReadString(r) ==
    LET size == ReadInteger(r, 4)
    IN  IF size.reader.status # "reads" THEN Given(size.reader, <<>>)
        ELSE Given(Advance(size.reader, size.value), Bytes(size.reader, size.value))
ReadNameList(r) == LET s == ReadString(r) IN Given(s.reader, SplitStrict(s.value, Comma))

Read(r, type) ==
    CASE type = "byte" -> ReadInteger(r, 1)
      [] type = "uint32" -> ReadInteger(r, 4)
      [] type = "uint64" -> ReadInteger(r, 8)
      [] type = "string" -> ReadString(r)
      [] type = "name_list" -> ReadNameList(r)

\* deserialize: the first field that is not there throws.
Deserialize(data, types) ==
    FoldLeft(LAMBDA acc, type :
                 IF acc.reader.status # "reads" THEN acc
                 ELSE LET got == Read(acc.reader, type)
                      IN  IF got.reader.status # "reads" THEN [acc EXCEPT !.reader = got.reader]
                          ELSE [reader |-> got.reader,
                                message |-> Append(acc.message, [type |-> type, value |-> got.value])],
             [reader |-> Reader(data), message |-> <<>>], types)

----------------------------------------------------------------------------
\* Names that can be told apart in a list: none has a comma, and the list is not empty (an empty
\* one comes back as the list of one empty name).
Listable(leaf) ==
    leaf.type = "name_list" => leaf.value # <<>> /\ \A k \in DOMAIN leaf.value : Comma \notin ToSet(leaf.value[k])

\* A message is read as it was written, with nothing left over, when all of it has arrived; of
\* one that is cut anywhere the reader says so, and gives no field that is not there. What
\* arrives behind a message does not change it.
MessagesAreWhole(message, behind) ==
    LET types == [k \in DOMAIN message |-> message[k].type]
        data == Serialize(message)
        all == Deserialize(data \o behind, types)
    IN  (\A k \in DOMAIN message : Listable(message[k])) =>
            /\ all.message = message /\ all.reader.status = "reads" /\ all.reader.next = Len(data)
            /\ \A n \in 0 .. Len(data) - 1 :
                  LET part == Deserialize(UpTo(data, n), types)
                  IN  part.reader.status = "would_block" /\ IsPrefix(part.message, message)
================================================================================
