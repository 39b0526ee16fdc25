----------------------------- MODULE TagAccess -----------------------------
(***************************************************************************)
(* How the Modbus and S7 clients turn tags into requests and bytes into    *)
(* values: the batching of reads into ranges, the extraction of each tag   *)
(* from the answer, what happens to the tags when a request fails or the   *)
(* context ends, and the encoding of writes.  Connections, retries and     *)
(* breakers are in ModbusPool and S7Pool.                                  *)
(*                                                                         *)
(* A tag is a record of its memory area, the address there (registers or   *)
(* coils for Modbus, bytes for S7), the registers it occupies (count), the *)
(* bytes of its type (size), whether it is a boolean, its byte order and   *)
(* bit.  The tags of a call are known by their position in its list, that  *)
(* is, no two have the same ID.                                            *)
(*                                                                         *)
(* Memory is symbolic: each bit holds a symbol, at first the one that      *)
(* stands for its place.  A number is the sequence of its bytes, most      *)
(* significant first; a boolean is the set of the bits that make it true.  *)
(* So a value that is equal to the right one is made of the right bits.    *)
(* Scaling, and the conversion between Go's number types, are left out;    *)
(* read and write scale inversely up to rounding.                          *)
(***************************************************************************)
EXTENDS Integers, SequencesExt

CONSTANTS
    ModbusDevices, S7Devices, \* devices: each is the set of its tags
    Space,    \* number of addresses of a Modbus area, 2^16 in the code
    Bits,     \* bits in a byte
    MaxGap,   \* MaxGapSize, MaxGapBytes
    MaxRead,  \* MaxRegistersPerRead, MaxCoilsPerRead, MaxBytesPerRange
    MaxItems, \* MaxMultiReadItems
    MaxTags   \* bound: tags in a list, and writes, taken together

\* The last lines: a range and one more tag are smaller than the space of addresses,
\* so that sizes do not wrap round.
ASSUME BatchAssumption ==
    /\ Space \in Nat \ {0} /\ Bits \in Nat \ {0} /\ MaxItems \in Nat \ {0}
    /\ MaxGap \in Nat /\ MaxRead \in Nat \ {0} /\ MaxTags \in Nat
    /\ \A t \in UNION ModbusDevices :
          MaxRead + MaxGap + t.count < Space /\ 2 * t.count + MaxGap < Space

VARIABLES
    device, \* the device at hand
    memory, \* the bits that were written, as a function from places to symbols
    writes, \* the tags written, in order
    list,   \* the tags of the present call of ReadTags
    mode,   \* "idle"; "ranges": ReadTags of Modbus; "optimized", "fallback" and
            \* "singles": of S7; "done" and "error": it has returned
    todo,   \* ranges, or positions of tags, that are still to be read
    got,    \* Modbus: points of the group that is being read
    resultMap, \* S7, the optimized way: the points read so far, by position
    points, \* points that ReadTags will return
    alive,  \* FALSE when the context of the call is done
    fault   \* TRUE when a request of the call has failed or its context ended

callVars == <<list, mode, todo, got, resultMap, points, alive, fault>>
tagVars == <<device, memory, writes, callVars>>

-----------------------------------------------------------------------------
(* Memory and values                                                       *)

Zero == <<>>   \* a bit that is 0

Bit(a, p, b) == IF <<a, p, b>> \in DOMAIN memory THEN memory[<<a, p, b>>] ELSE <<a, p, b>>

\* n bytes of area a from byte p on; a byte is the sequence of its bits, from the
\* least significant one.
Bytes(a, p, n) == [i \in 1..n |-> [b \in 1..Bits |-> Bit(a, p + i - 1, b - 1)]]

\* The answer to a read of n coils: packed into bytes from the least significant
\* bit on, and filled up with zeros.
Coils(a, c, n) ==
    [i \in 1..((n + Bits - 1) \div Bits) |->
        [b \in 1..Bits |-> LET k == (i - 1) * Bits + b - 1
                           IN  IF k < n THEN Bit(a, c + k, 0) ELSE Zero]]

\* The boolean that is true when one of these bits is.
Truth(bits) == bits \ {Zero}

ModbusArea == {"coil", "discrete", "holding", "input"}

Coil(t) == t.area \in {"coil", "discrete"}

\* What ValidateForProtocol and parseSymbolicAddress accept: types of two, four or
\* eight bytes in enough registers, a bit of a byte.
ASSUME TagAssumption ==
    /\ \A t \in UNION ModbusDevices :
          /\ t \in [area : ModbusArea, addr : 0..(Space - 1), count : Nat \ {0}, size : {2, 4, 8},
                    bool : BOOLEAN, order : {"BE", "LE", "MB", "ML"}, bit : -1..(Bits - 1)]
          /\ t.size <= 2 * t.count /\ (t.bool => t.size = 2)
    /\ \A t \in UNION S7Devices :
          /\ t \in [area : STRING \ ModbusArea, addr : Nat, count : {0}, size : {1, 2, 4, 8},
                    bool : BOOLEAN, order : {"BE"}, bit : -1..(Bits - 1)]
          /\ t.bool => t.size = 1 /\ t.bit # -1

\* reorderBytes: where byte i of n comes from.
Source(order, n, i) ==
    LET k == (i - 1) % 4   \* in its group of four
    IN  IF order = "LE" THEN n + 1 - i
        ELSE IF order = "MB" THEN IF i % 2 = 1 THEN i + 1 ELSE i - 1
        ELSE IF order = "ML" /\ i - k + 3 <= n THEN IF k < 2 THEN i + 2 ELSE i - 2
        ELSE i

reorderBytes(data, order) == [i \in 1..Len(data) |-> data[Source(order, Len(data), i)]]

\* parseValue of the Modbus client, of bytes in order.
ModbusValue(t, ordered) ==
    IF ~t.bool THEN SubSeq(ordered, 1, t.size)
    ELSE IF t.bit = -1 THEN Truth(ToSet(ordered[1]) \cup ToSet(ordered[2]))
    ELSE Truth({ordered[2][t.bit + 1]})

\* parseValue of the S7 client.
S7Value(t, data) == IF t.bool THEN Truth({data[1][t.bit + 1]}) ELSE SubSeq(data, 1, t.size)

Point(i, v) == [tag |-> i, quality |-> "good", value |-> v]

\* createErrorDataPoint.
Bad(i) == [tag |-> i, quality |-> "bad", value |-> <<>>]

\* A nil pointer in the place of a point: it names no tag.
Nil == [tag |-> 0, quality |-> "nil", value |-> <<>>]
BadPoints(seq) == [k \in 1..Len(seq) |-> Bad(seq[k])]

-----------------------------------------------------------------------------
(* Ranges                                                                  *)

Modbus == mode = "ranges"

\* buildContiguousRanges, buildCoilRanges: sums and differences of uint16, the gap
\* is an int.
ModbusEnd(t) == (t.addr + t.count - 1) % Space
ModbusMerges(r, t) ==
    /\ t.addr - r.end - 1 <= MaxGap
    /\ (ModbusEnd(t) - r.start + 1) % Space <= MaxRead

\* buildS7ContiguousRanges: end is the last byte here, too.
S7End(t) == t.addr + t.size - 1
S7Merges(r, t) ==
    LET total == r.end - r.start + 1
        grown == S7End(t) + 1 - r.start
    IN  /\ t.addr - (r.end + 1) <= MaxGap
        /\ (IF grown < total THEN total ELSE grown) <= MaxRead

End(t) == IF t.area \in ModbusArea THEN ModbusEnd(t) ELSE S7End(t)
Merges(r, t) == IF t.area \in ModbusArea THEN ModbusMerges(r, t) ELSE S7Merges(r, t)

\* Variant: the last tag of a range ends it.
ExtendToLast(r, i, end) == [r EXCEPT !.end = end, !.tags = Append(@, i)]

Extend(r, i, end) == [r EXCEPT !.end = IF end > @ THEN end ELSE @, !.tags = Append(@, i)]

\* Tag t at position i comes into the last range, or into a new one.
Insert(rs, t, i) ==
    IF rs # <<>> /\ Last(rs).area = t.area /\ Merges(Last(rs), t)
    THEN [rs EXCEPT ![Len(rs)] = Extend(@, i, End(t))]
    ELSE Append(rs, [area |-> t.area, start |-> t.addr, end |-> End(t), tags |-> <<i>>])

\* The ranges of the tags at the positions in order, tags of one area together.
Ranges(tags, order) ==
    LET rs[k \in 0..Len(order)] ==
            IF k = 0 THEN <<>> ELSE Insert(rs[k - 1], tags[order[k]], order[k])
    IN  rs[Len(order)]

\* The areas come in the order of a map, the tags of each by address; of two with the
\* same address Modbus (sortTagsByAddress is stable) keeps the order, S7 (sort.Slice)
\* need not.
Orders(tags) ==
    {order \in SetToSeqs(1..Len(tags)) :
        \A j, k \in 1..Len(tags) :
            LET t == tags[order[j]]
                u == tags[order[k]]
            IN  j < k /\ t.area = u.area =>
                    /\ \A m \in j..k : tags[order[m]].area = t.area
                    /\ t.addr <= u.addr
                    /\ t.addr = u.addr /\ t.area \in ModbusArea => order[j] < order[k]}

\* The ways in which the tags may be divided into ranges.
RangesOf(tags) == {Ranges(tags, order) : order \in Orders(tags)}

-----------------------------------------------------------------------------
(* The answer to a range                                                   *)

\* readRegisterRange: the tags are cut out of one buffer, in which parseValue
\* reorders the bytes of each in place.
From(r, i) == 2 * ((list[i].addr - r.start) % Space)
To(r, i) == From(r, i) + 2 * list[i].count

Reordered(buffer, r, i) ==
    LET ordered == reorderBytes(SubSeq(buffer, From(r, i) + 1, To(r, i)), list[i].order)
    IN  [b \in 1..Len(buffer) |-> IF b \in (From(r, i) + 1)..To(r, i)
                                  THEN ordered[b - From(r, i)] ELSE buffer[b]]

Registers(r, data) ==
    LET buffer[k \in 0..Len(r.tags)] ==
            IF k = 0 THEN data
            ELSE IF To(r, r.tags[k]) > Len(data) THEN buffer[k - 1]
            ELSE Reordered(buffer[k - 1], r, r.tags[k])
    IN  [k \in 1..Len(r.tags) |->
            LET i == r.tags[k]
            IN  IF To(r, i) > Len(data) THEN Bad(i)
                ELSE Point(i, ModbusValue(list[i],
                                          SubSeq(buffer[k], From(r, i) + 1, To(r, i))))]

\* readCoilRange: the tags are cut out of the packed bits.
CoilPoints(r, data) ==
    [k \in 1..Len(r.tags) |->
        LET offset == (list[r.tags[k]].addr - r.start) % Space
            byte == offset \div Bits + 1
        IN  IF byte > Len(data) THEN Bad(r.tags[k])
            ELSE Point(r.tags[k], Truth({data[byte][(offset % Bits) + 1]}))]

Count(r) == (r.end - r.start + 1) % Space

\* The device refuses what goes beyond its addresses.
Answers(r) == Count(r) > 0 /\ r.start + Count(r) <= Space

RangePoints(r) ==
    IF ~Answers(r) THEN BadPoints(r.tags)
    ELSE IF Coil(r) THEN CoilPoints(r, Coils(r.area, r.start, Count(r)))
    ELSE Registers(r, Bytes(r.area, 2 * r.start, 2 * Count(r)))

\* Variant: the offset of the tag is not made relative to the range.
ItemPointsAbsolute(r, data) ==
    [k \in 1..Len(r.tags) |->
        LET t == list[r.tags[k]]
        IN  IF t.addr + t.size > Len(data) THEN Bad(r.tags[k])
            ELSE Point(r.tags[k], S7Value(t, SubSeq(data, t.addr + 1, t.addr + t.size)))]

\* readContiguousRanges: the tags of one item.
ItemPoints(r, data) ==
    [k \in 1..Len(r.tags) |->
        LET t == list[r.tags[k]]
            from == t.addr - r.start
        IN  IF from + t.size > Len(data) THEN Bad(r.tags[k])
            ELSE Point(r.tags[k], S7Value(t, SubSeq(data, from + 1, from + t.size)))]

S7RangePoints(r) == ItemPoints(r, Bytes(r.area, r.start, r.end - r.start + 1))

\* A byte that is 0.
False == [b \in 1..Bits |-> Zero]

\* readTagBatch: a tag is an item of its own.  The item of a boolean is a bit
\* (S7WLBit): the device answers with a byte that is 1 or 0, and parseValue takes the
\* bit at bitOffset of it.
ItemBytes(t) == IF t.bool THEN <<[False EXCEPT ![1] = Bit(t.area, t.addr, t.bit)]>>
                     ELSE Bytes(t.area, t.addr, t.size)
TagPoint(i) == Point(i, S7Value(list[i], ItemBytes(list[i])))

\* readData: whatever is not a data block is read from the inputs.
Block(a) == a \notin {"M", "Q", "I", "T", "C"}
Single(a) == IF Block(a) THEN a ELSE "I"
SinglePoint(i) ==
    Point(i, S7Value(list[i], Bytes(Single(list[i].area), list[i].addr, list[i].size)))

-----------------------------------------------------------------------------
(* ReadTags                                                                *)

TagInit ==
    /\ device \in ModbusDevices \cup S7Devices
    /\ memory = <<>> /\ writes = <<>>
    /\ list = <<>> /\ mode = "idle" /\ todo = <<>>
    /\ got = <<>> /\ resultMap = <<>> /\ points = <<>>
    /\ alive = TRUE /\ fault = FALSE

\* parseTagAddress succeeds; the configuration only asks for an address.
Parses(t) == t.area # "invalid"

Positions(tags) == [i \in 1..Len(tags) |-> i]

Begin(tags, m, todos) ==
    /\ list' = tags /\ mode' = m /\ todo' \in todos
    /\ UNCHANGED <<device, memory, writes, got, resultMap, points, alive, fault>>

\* ReadTags is called with some tags of the device.  One address that cannot be
\* parsed makes the optimized way of S7 fail before it starts.
ReadTags(tags) ==
    /\ mode = "idle" /\ Len(writes) + Len(tags) <= MaxTags
    /\ \/ device \in ModbusDevices /\ Begin(tags, "ranges", RangesOf(tags))
       \/ /\ device \in S7Devices
          /\ IF \A i \in 1..Len(tags) : Parses(tags[i])
             THEN Begin(tags, "optimized", RangesOf(tags))
             ELSE Begin(tags, "fallback", {Positions(tags)})

\* The context ends: the call notices at its next look.
Cancel ==
    /\ mode \in {"ranges", "optimized", "fallback", "singles"} /\ alive
    /\ alive' = FALSE /\ fault' = TRUE
    /\ UNCHANGED <<device, memory, writes, list, mode, todo, got, resultMap, points>>

\* Modbus: new points of the group.  With the last range of the group they are
\* added to the result, with the last one of all ReadTags returns.
Collect(new) ==
    LET rest == Tail(todo)
        ends == rest = <<>> \/ Head(rest).area # Head(todo).area
    IN  /\ todo' = rest
        /\ IF ends THEN points' = points \o (got \o new) /\ got' = <<>>
                   ELSE got' = got \o new /\ UNCHANGED points
        /\ mode' = IF rest = <<>> THEN "done" ELSE mode
        /\ UNCHANGED <<device, memory, writes, list, resultMap, alive>>

ReadRange ==
    /\ Modbus /\ alive
    /\ Collect(RangePoints(Head(todo)))
    /\ UNCHANGED fault

\* The request fails: readTagGroup goes on with the next range.
ReadRangeFails ==
    /\ Modbus /\ alive
    /\ Collect(BadPoints(Head(todo).tags))
    /\ fault' = TRUE

\* The tags of area a, in the order of the list.
Group(a) ==
    LET group[k \in 0..Len(list)] ==
            IF k = 0 THEN <<>>
            ELSE IF list[k].area = a THEN Append(group[k - 1], k) ELSE group[k - 1]
    IN  group[Len(list)]

\* How many of the next ranges belong to the present group.
Present ==
    CHOOSE n \in 1..Len(todo) :
        /\ \A k \in 1..n : todo[k].area = Head(todo).area
        /\ n < Len(todo) => todo[n + 1].area # Head(todo).area

\* The context is done: readTagGroup returns it as an error, and ReadTags, which
\* goes on with the next group, replaces what the group has read by bad points.
GroupCancelled ==
    /\ Modbus /\ ~alive
    /\ LET rest == SubSeq(todo, Present + 1, Len(todo))
       IN  /\ todo' = rest
           /\ mode' = IF rest = <<>> THEN "done" ELSE mode
    /\ points' = points \o BadPoints(Group(Head(todo).area))
    /\ got' = <<>>
    /\ UNCHANGED <<device, memory, writes, list, resultMap, alive, fault>>

Chunk == SubSeq(todo, 1, IF Len(todo) > MaxItems THEN MaxItems ELSE Len(todo))
Rest == SubSeq(todo, Len(Chunk) + 1, Len(todo))

\* What the items of the chunk give; bad are those for which the device reports an
\* error.
ChunkPoints(bad) ==
    UNION {ToSet(IF k \in bad THEN BadPoints(Chunk[k].tags) ELSE S7RangePoints(Chunk[k])) :
           k \in 1..Len(Chunk)}

\* S7: one AGReadMulti.  After the last chunk the points are taken out of the map in
\* the order of the tags; one that is missing would be replaced by a bad one.
ReadChunk(bad) ==
    LET new == ChunkPoints(bad)
        tags == {p.tag : p \in new}
        all == [i \in DOMAIN resultMap \cup tags |->
                    IF i \in tags THEN CHOOSE p \in new : p.tag = i ELSE resultMap[i]]
    IN  /\ mode = "optimized" /\ alive
        /\ todo' = Rest /\ resultMap' = all
        /\ fault' = (fault \/ bad # {})
        /\ IF Rest # <<>> THEN UNCHANGED <<mode, points>>
           ELSE /\ mode' = "done"
                /\ points' = [i \in 1..Len(list) |-> IF i \in DOMAIN all THEN all[i] ELSE Bad(i)]
        /\ UNCHANGED <<device, memory, writes, list, got, alive>>

\* AGReadMulti fails or the context is done: all tags are read again, one by one.
Fallback ==
    /\ mode = "optimized"
    /\ fault' = TRUE
    /\ mode' = "fallback" /\ resultMap' = <<>> /\ todo' = Positions(list)
    /\ UNCHANGED <<device, memory, writes, list, got, points, alive>>

\* readTagsFallback returns the error of the context, with what it has.
FallbackCancelled ==
    /\ mode = "fallback" /\ ~alive
    /\ mode' = "error"
    /\ UNCHANGED <<device, memory, writes, list, todo, got, resultMap, points, alive, fault>>

Answered(new, rest, next) ==
    /\ points' = points \o new
    /\ todo' = rest
    /\ mode' = IF rest = <<>> THEN "done" ELSE next
    /\ UNCHANGED <<device, memory, writes, list, got, resultMap, alive>>

ChunkParses == \A k \in 1..Len(Chunk) : Parses(list[Chunk[k]])

\* readTagBatch: an AGReadMulti with an item for each tag.
ReadBatch(bad) ==
    /\ mode = "fallback" /\ alive /\ ChunkParses
    /\ Answered([k \in 1..Len(Chunk) |->
                    IF k \in bad THEN Bad(Chunk[k]) ELSE TagPoint(Chunk[k])],
                Rest, "fallback")
    /\ fault' = (fault \/ bad # {})

\* It fails, too: the tags of the batch are read with ReadTag,
BatchFails ==
    /\ mode = "fallback" /\ alive
    /\ mode' = "singles" /\ fault' = (fault \/ ChunkParses)
    /\ UNCHANGED <<device, memory, writes, list, todo, got, resultMap, points, alive>>

\* which gives a point, a bad one, or nil when it is not connected or the context
\* ends while it waits for its next attempt.
ReadSingle(quality) ==
    LET i == Head(todo)
        new == IF quality = "good" THEN SinglePoint(i)
               ELSE IF quality = "bad" THEN Bad(i) ELSE Nil
    IN  /\ mode = "singles"
        /\ quality = "good" => Parses(list[i])
        /\ Answered(<<new>>, Tail(todo),
                    IF i % MaxItems = 0 THEN "fallback" ELSE "singles")
        /\ fault' = (fault \/ quality = "nil" \/ (quality = "bad" /\ Parses(list[i])))

\* The caller has the result.
Return ==
    /\ mode \in {"done", "error"}
    /\ mode' = "idle" /\ list' = <<>> /\ todo' = <<>>
    /\ got' = <<>> /\ resultMap' = <<>> /\ points' = <<>>
    /\ alive' = TRUE /\ fault' = FALSE
    /\ UNCHANGED <<device, memory, writes>>

-----------------------------------------------------------------------------
(* WriteTag.  opMu keeps the requests of one client apart: a write falls   *)
(* between two requests of a read.                                         *)

\* The symbol of a boolean written by write n, and the bytes of a number.
Written(n) == <<n, "bool">>
Number(n, size) == [i \in 1..size |-> [b \in 1..Bits |-> <<n, "number", i, b>>]]

\* valueToBytes of the Modbus client: a boolean is a register with 1 or 0.
ModbusBytes(t, n) == IF t.bool THEN <<False, [False EXCEPT ![1] = Written(n)]>>
                               ELSE Number(n, t.size)

\* Variant: the bytes are sent as they are.
EncodedBigEndian(t, n) == ModbusBytes(t, n)

Encoded(t, n) == reorderBytes(ModbusBytes(t, n), t.order)

\* Memory with new bits.
With(new) == [c \in DOMAIN new \cup DOMAIN memory |->
                  IF c \in DOMAIN new THEN new[c] ELSE memory[c]]

Put(a, p, data) ==
    With([c \in {a} \X (p..(p + Len(data) - 1)) \X (0..(Bits - 1)) |->
              data[c[2] - p + 1][c[3] + 1]])

Wrote(t) ==
    /\ Len(writes) + (IF list = <<>> THEN 1 ELSE Len(list)) < MaxTags
    /\ writes' = Append(writes, t)
    /\ UNCHANGED <<device, callVars>>

\* writeSingleCoilLocked, writeHoldingRegisterLocked; the rest is read-only.
ModbusWriteTag(t) ==
    LET n == Len(writes) + 1
    IN  /\ device \in ModbusDevices /\ Wrote(t)
        /\ \/ /\ t.area = "coil"
              /\ memory' = With([c \in {<<t.area, t.addr, 0>>} |-> Written(n)])
           \/ /\ t.area = "holding" /\ t.addr + Len(Encoded(t, n)) \div 2 <= Space
              /\ memory' = Put(t.area, 2 * t.addr, Encoded(t, n))

\* writeBoolWithRMW reads the byte, changes the bit and writes the byte, writeData
\* writes the bytes; whatever is not a data block is written to the inputs.
S7WriteTag(t) ==
    LET n == Len(writes) + 1
        a == Single(t.area)
        byte == Bytes(a, t.addr, 1)[1]
    IN  /\ device \in S7Devices /\ Wrote(t)
        /\ Parses(t) /\ t.area # "I"
        /\ memory' = Put(a, t.addr,
                         IF t.bool THEN <<[byte EXCEPT ![t.bit + 1] = Written(n)]>>
                                   ELSE Number(n, t.size))

-----------------------------------------------------------------------------

Lists == UNION {[1..n -> device] : n \in 1..MaxTags}

TagNext ==
    \/ \E tags \in Lists : ReadTags(tags)
    \/ Cancel \/ ReadRange \/ ReadRangeFails \/ GroupCancelled
    \/ \E bad \in SUBSET (1..MaxItems) : ReadChunk(bad) \/ ReadBatch(bad)
    \/ Fallback \/ FallbackCancelled \/ BatchFails
    \/ \E quality \in {"good", "bad", "nil"} : ReadSingle(quality)
    \/ Return
    \/ \E t \in device : ModbusWriteTag(t) \/ S7WriteTag(t)

TagSpec == TagInit /\ [][TagNext]_tagVars

-----------------------------------------------------------------------------
(* Properties                                                              *)

\* What the device holds for tag t now.
Actual(t) ==
    IF Coil(t) THEN Truth({Bit(t.area, t.addr, 0)})
    ELSE IF t.area \in ModbusArea
         THEN ModbusValue(t, reorderBytes(Bytes(t.area, 2 * t.addr, 2 * t.count), t.order))
         ELSE S7Value(t, Bytes(t.area, t.addr, t.size))

\* Tag i shares registers with one that was parsed before it and whose bytes are
\* not in the order of the wire: reorderBytes has moved what i is parsed from.
Disturbed(i) ==
    /\ list[i].area \in {"holding", "input"}
    /\ \E j \in 1..Len(list) :
          /\ list[j].area = list[i].area /\ list[j].order # "BE"
          /\ list[j].addr < list[i].addr \/ (list[j].addr = list[i].addr /\ j < i)
          /\ list[i].addr < list[j].addr + list[j].count

\* readData takes tag i, which is not in a data block, from the inputs.
Misread(i) == mode = "singles" /\ Single(list[i].area) # list[i].area

\* readTagBatch has asked for one bit, and parseValue looks for it at its old place.
Masked(i) == mode = "fallback" /\ list[i].bool /\ list[i].bit # 0

\* The points the call has by now.
HasRead == ToSet(points) \cup ToSet(got) \cup ToSet(resultMap)

\* There is nothing to read for tag t.
Nowhere(t) == ~Parses(t) \/ (t.area \in ModbusArea /\ t.addr + t.count > Space)

\* A point of good quality holds what the device holds for its tag when it is read:
\* neither the merging of tags that touch, overlap or contain one another into
\* ranges, nor the packing of coils, nor the way through the fallbacks, nor a write
\* between two requests makes it another tag's value or a stale one.  Four defects of
\* the code are excepted: Disturbed; Misread; that a boolean of S7 whose bit is not bit
\* 0 is always false when it is read as an item of its own; and that a tag of several
\* coils that goes beyond the last one may be read from the bits that fill up the
\* answer to another.
GoodValuesRight ==
    [][\A p \in HasRead' \ HasRead :
          p.quality = "good" =>
              \/ p.value = Actual(list[p.tag])
              \/ Masked(p.tag) /\ p.value = {}
              \/ Disturbed(p.tag) \/ Misread(p.tag) \/ Nowhere(list[p.tag])]_tagVars

\* ReadTags that returns without an error has as many entries as tags: exactly one
\* point for each tag, also after a cancelled group, a failed range or a fallback that
\* starts again, but for the tags of S7 at whose place there is nil, which happens only
\* after a failure.  When no request failed all are good, even beside a tag whose
\* address cannot be parsed or one that reaches beyond the last register, where the
\* uint16 sums wrap round.
AllTagsAnswered ==
    mode = "done" =>
        /\ Len(points) = Len(list)
        /\ {p.tag : p \in ToSet(points) \ {Nil}} = {i \in 1..Len(list) : points[i] # Nil}
        /\ Nil \in ToSet(points) => fault /\ device \in S7Devices
        /\ fault \/ \A p \in ToSet(points) : p.quality = "good" \/ Nowhere(list[p.tag])

\* What the code does not write as it reads it: a bit of a register (the register is
\* written as a whole), a number in fewer registers than the tag has when the order
\* reverses or swaps registers, and S7 areas that are no data blocks.
Asymmetric(t) ==
    \/ t.area = "holding" /\ t.bool /\ t.bit # -1
    \/ t.area = "holding" /\ t.size < 2 * t.count /\ t.order \in {"LE", "ML"}
    \/ t.area \notin ModbusArea /\ ~Block(t.area)

\* The bits that belong to tag t.
Footprint(t) ==
    IF Coil(t) THEN {<<t.area, t.addr, 0>>}
    ELSE IF t.area \in ModbusArea
         THEN {t.area} \X ((2 * t.addr)..(2 * t.addr + t.size - 1)) \X (0..(Bits - 1))
    ELSE IF t.bool THEN {<<t.area, t.addr, t.bit>>}
    ELSE {t.area} \X (t.addr..(t.addr + t.size - 1)) \X (0..(Bits - 1))

\* A value that was written is the value that is read back until a later write
\* touches the tag, and no write changes a bit that is not the tag's: the byte order
\* of valueToBytes undoes that of parseValue, and writeBoolWithRMW keeps the other
\* bits of the byte.
WriteReadsBack ==
    (\A n \in 1..Len(writes) : ~Asymmetric(writes[n])) =>
        /\ \A t \in device, n \in 1..Len(writes) :
              writes[n] = t =>
                  \/ \E m \in (n + 1)..Len(writes) :
                        Footprint(writes[m]) \cap Footprint(t) # {}
                  \/ Actual(t) = IF t.bool \/ Coil(t) THEN {Written(n)} ELSE Number(n, t.size)
        /\ \A place \in DOMAIN memory :
              memory[place] = place \/ \E n \in 1..Len(writes) : place \in Footprint(writes[n])
=============================================================================
