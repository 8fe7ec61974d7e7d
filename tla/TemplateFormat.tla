--------------------------- MODULE TemplateFormat ---------------------------
(***************************************************************************)
(* The stored form of a template (fpc_recovered.c): a header, then blocks, *)
(* each with a tag, its length and a checksum: the template's own numbers, *)
(* the retained graph, the collection and its captures, the ages.          *)
(*                                                                         *)
(* A stream is a sequence of cells; a cell holds one field, whatever its   *)
(* width, and lengths count cells. Allocation never fails here.            *)
(***************************************************************************)
EXTENDS Integers, Sequences, SequencesExt, FiniteSets, FiniteSetsExt, Functions, Bitwise

CONSTANTS
  CellBits,       \* of a cell, as the checksum reads it
  CrcPoly,        \* the generator of the checksum, reflected
  CrcOnes,        \* all ones in its width: its start value, and its complement
  Version,        \* 0x001a0000
  FlagsWord,      \* 0x0ce1, the collection's word for Flags
  MostCaptures,   \* 80
  MostCapacity,   \* 65535, of a collection that is read
  MostFeatures,   \* 32767
  MostPrepared,   \* 300, features of a scan
  MostPending,    \* 10
  Flags           \* parts of a capture that are stored

ASSUME FormatAssumption ==
  /\ {CellBits, CrcPoly, CrcOnes, Version, FlagsWord, MostCaptures, MostCapacity,
      MostFeatures, MostPrepared, MostPending} \subseteq Nat
  /\ Flags \subseteq {"levels", "compact", "scores", "angles", "descriptors", "membership"}

\* A tag names what a block holds.
TagOf == [template |-> 1, graph |-> 2, ages |-> 3, collection |-> 4]

\* Variant: captures are not numbered.
CaptureTagAlike(i) == 5
CaptureTag(i) == 5 + i

-----------------------------------------------------------------------------
(* fpc_crc32. *)

Shifted(c) == IF c % 2 = 1 THEN (c \div 2) ^^ CrcPoly ELSE c \div 2

\* What the rounds for the bits of a cell make of the register.
Fed == [c \in 0 .. CrcOnes |->
          LET through[k \in 0 .. CellBits] == IF k = 0 THEN c ELSE Shifted(through[k - 1])
          IN  through[CellBits]]

Crc(cells) ==
  LET register[i \in 0 .. Len(cells)] ==
        IF i = 0 THEN CrcOnes ELSE Fed[register[i - 1] ^^ cells[i]]
  IN  register[Len(cells)] ^^ CrcOnes

Overhead == 3   \* tag, length and checksum

Block(tag, payload) ==
  LET head == <<tag, Len(payload) + Overhead>> \o payload IN Append(head, Crc(head))

\* The length of the block that starts at a cell, or 0 if it is none.
BlockLength(data, at) ==
  IF Len(data) - at + 1 < Overhead THEN 0
  ELSE LET n == data[at + 1]
       IN  IF /\ Overhead <= n /\ n <= Len(data) - at + 1
              /\ Crc(SubSeq(data, at, at + n - 2)) = data[at + n - 1]
           THEN n ELSE 0

\* checked_block
CheckedBlock(data, at, tag) ==
  IF at <= Len(data) /\ data[at] = tag THEN BlockLength(data, at) ELSE 0

PayloadOf(data, at, n) == SubSeq(data, at + 2, at + n - 2)

\* fpc_template_validate: blocks up to the end, and their total in the header.
Validated(data) ==
  LET blocks[at \in 3 .. Len(data) + 1] ==
        \/ at = Len(data) + 1
        \/ BlockLength(data, at) > 0 /\ blocks[at + BlockLength(data, at)]
  IN  Len(data) >= 2 /\ data[2] = Len(data) /\ data[1] = Version /\ blocks[3]

Refused == [status |-> 140]
Loaded(v) == [status |-> 0, value |-> v]

-----------------------------------------------------------------------------
(* Captures. *)

\* The arrays of a capture with n features, in their order, and their lengths.
\* `pack` features share a cell of the membership.
Pack == 8
Arrays == SelectSeq(<<"coordinates", "scores", "angles", "descriptors", "membership">>,
                    LAMBDA a : a \in Flags \cup {"coordinates"})
ArrayLength(a, h, n) ==
  CASE a = "coordinates" -> 2 * n
    [] a = "descriptors" -> n * h.bytes
    [] a = "membership"  -> (n + Pack - 1) \div Pack
    [] OTHER             -> n

LevelCells(h) == 5 + (IF h.width > 0 THEN h.width - 1 ELSE 0)

\* fpc_capture_payload
CapturePayload(v) ==
  IF "levels" \notin Flags THEN <<v.count>>
  ELSE <<v.count, v.mode, v.bytes, v.levels, v.width>> \o FlattenSeq(v.fields)
       \o FlattenSeq([k \in DOMAIN Arrays |-> v.arrays[Arrays[k]]])

\* fpc_capture_load_payload
LoadCapture(data) ==
  IF Len(data) < 1 \/ (Len(data) > 0 /\ data[1] > MostFeatures) THEN Refused
  ELSE IF "levels" \notin Flags
  THEN IF Len(data) = 1 THEN Loaded([count |-> data[1]]) ELSE Refused
  ELSE IF Len(data) < 5 THEN Refused
  ELSE LET n == data[1]
           h == [mode |-> data[2], bytes |-> data[3], levels |-> data[4], width |-> data[5]]
           start[k \in 1 .. Len(Arrays) + 1] ==
             IF k = 1 THEN 6 + h.levels * LevelCells(h)
             ELSE start[k - 1] + ArrayLength(Arrays[k - 1], h, n)
           fields == [l \in 1 .. h.levels |->
                        SubSeq(data, 6 + (l - 1) * LevelCells(h), 5 + l * LevelCells(h))]
       IN  IF \/ Len(data) # start[Len(Arrays) + 1] - 1
              \/ \E l \in 1 .. h.levels : fields[l][1] > MostFeatures
              \/ SumFunction([l \in 1 .. h.levels |-> fields[l][1]]) # n
           THEN Refused
           ELSE Loaded([count |-> n, mode |-> h.mode, bytes |-> h.bytes, levels |-> h.levels,
                        width |-> h.width, fields |-> fields,
                        arrays |-> [a \in Range(Arrays) |->
                          LET k == CHOOSE k \in DOMAIN Arrays : Arrays[k] = a
                          IN  SubSeq(data, start[k], start[k + 1] - 1)]])

\* fpc_capture_from_prepared: the features of a scan; those of an enrolment are
\* all members from the start.
FromPrepared(features, enrolled) ==
  LET n == Len(features)
      Bit(i) == IF enrolled THEN 2^((i - 1) % Pack) ELSE 0
      Cell(k) == SumFunction([i \in {j \in 1 .. n : (j - 1) \div Pack = k - 1} |-> Bit(i)])
  IN  IF n > MostPrepared THEN [status |-> -1]
      ELSE LoadCapture(CapturePayload(
        [count |-> n, mode |-> 1, bytes |-> 1, levels |-> 1, width |-> 0,
         fields |-> <<<<n, 4, 4, 8, 8>>>>,
         arrays |-> [coordinates |-> FlattenSeq([i \in 1 .. n |-> features[i].at]),
                     scores      |-> [i \in 1 .. n |-> 0], angles |-> [i \in 1 .. n |-> 0],
                     descriptors |-> [i \in 1 .. n |-> features[i].descriptor],
                     membership  |-> [k \in 1 .. (n + Pack - 1) \div Pack |-> Cell(k)]]]))

\* fpc_collection_serialize_default
Collection(c) ==
  Block(TagOf.collection, <<FlagsWord, Len(c.captures), c.capacity>>)
  \o FlattenSeq([i \in DOMAIN c.captures |-> Block(CaptureTag(i - 1), CapturePayload(c.captures[i]))])

\* fpc_collection_load_default: the collection and the cell after it.
LoadCollection(data, from) ==
  LET n == CheckedBlock(data, from, TagOf.collection)
      count    == data[from + 3]
      capacity == data[from + 4]
      at[i \in 0 .. count] ==    \* where capture i starts, or 0
        IF i = 0 THEN from + n
        ELSE IF at[i - 1] = 0 THEN 0
        ELSE LET m == CheckedBlock(data, at[i - 1], CaptureTag(i - 1))
             IN  IF m = 0 THEN 0
                 ELSE IF LoadCapture(PayloadOf(data, at[i - 1], m)).status # 0 THEN 0
                 ELSE at[i - 1] + m
  IN  IF n # Overhead + 3 THEN Refused
      ELSE IF \/ data[from + 2] # FlagsWord \/ count \notin 1 .. MostCaptures
              \/ count > capacity \/ capacity > MostCapacity
           THEN Refused
      ELSE IF at[count] = 0 THEN Refused
      ELSE Loaded([capacity |-> capacity, next |-> at[count],
                   captures |-> [i \in 1 .. count |->
                     LoadCapture(PayloadOf(data, at[i - 1], at[i] - at[i - 1])).value]])

-----------------------------------------------------------------------------
(* The retained graph; arrays start at 1 here. *)

Edges(capacity) == (capacity * (capacity - 1)) \div 2

\* fpc_retained_graph_payload, without captures that are pending.
GraphPayload(g) ==
  <<g.used, g.capacity, g.protected, g.limit, g.threshold, 0>> \o g.order \o g.scores

\* fpc_retained_graph_load_payload
LoadGraph(data) ==
  IF Len(data) < 6 THEN Refused
  ELSE LET used == data[1] capacity == data[2]
       IN  IF \/ used = 0 \/ capacity < 2 \/ used > capacity \/ used > MostCaptures
              \/ data[6] > MostPending \/ Len(data) # 6 + capacity + Edges(capacity)
           THEN Refused
           ELSE Loaded([used |-> used, capacity |-> capacity, protected |-> data[3],
                        limit |-> data[4], threshold |-> data[5], pending |-> data[6],
                        order |-> SubSeq(data, 7, 6 + capacity),
                        scores |-> SubSeq(data, 7 + capacity, Len(data))])

-----------------------------------------------------------------------------
(* Templates. *)

\* fpc_template_serialize_default
Serialize(t, retention) ==
  LET body == Block(TagOf.template, <<t.metadata, Len(t.captures)>>)
              \o Block(TagOf.graph, GraphPayload(t.graph))
              \o Collection(t)
              \o Block(TagOf.ages, SubSeq(t.graph.ages, 1, retention))
  IN  <<Version, 2 + Len(body)>> \o body

\* What is left to load once the template's own block of m cells is known.
LoadParts(data, m, retention) ==
  LET count == data[6]
      gn    == CheckedBlock(data, 3 + m, TagOf.graph)
      graph == LoadGraph(PayloadOf(data, 3 + m, gn))
      coll  == LoadCollection(data, 3 + m + gn)
      an    == CheckedBlock(data, coll.value.next, TagOf.ages)
      ages  == PayloadOf(data, coll.value.next, an)
  IN  IF count = 0 \/ gn = 0 THEN Refused
      ELSE IF graph.status # 0 THEN Refused
      ELSE IF graph.value.pending # 0 \/ graph.value.used # count THEN Refused
      ELSE IF coll.status # 0 THEN Refused
      ELSE IF \/ Len(coll.value.captures) # count \/ an = 0
              \/ coll.value.next + an # Len(data) + 1 \/ Len(ages) # retention
           THEN Refused
      ELSE Loaded([metadata |-> data[5], capacity |-> coll.value.capacity,
                   captures |-> coll.value.captures,
                   graph |-> [f \in (DOMAIN graph.value \ {"pending"}) \cup {"ages"} |->
                                IF f = "ages" THEN ages ELSE graph.value[f]]])

\* fpc_template_load_default
Load(data, retention) ==
  IF ~Validated(data) THEN Refused
  ELSE LET m == CheckedBlock(data, 3, TagOf.template)
       IN  IF m # Overhead + 2 THEN Refused ELSE LoadParts(data, m, retention)

-----------------------------------------------------------------------------
(* What they promise, for given inputs. *)

\* Where block k of a stream starts; after the last one it ends.
Start(data, k) ==
  LET at[j \in 1 .. k] ==
        IF j = 1 THEN 3
        ELSE IF at[j - 1] > Len(data) THEN at[j - 1] ELSE at[j - 1] + data[at[j - 1] + 1]
  IN  at[k]

\* What may have happened to a stream.
Damaged(data, damage) ==
  CASE damage.how = "none" -> data
    [] damage.how = "changed" ->
         IF damage.at \in DOMAIN data THEN [data EXCEPT ![damage.at] = @ ^^ damage.by] ELSE data
    [] damage.how = "cut" -> SubSeq(data, 1, IF damage.at < Len(data) THEN damage.at ELSE Len(data))
    [] damage.how = "swapped" ->
         LET one == Start(data, damage.at)
             two == Start(data, damage.at + 1)
             end == Start(data, damage.at + 2)
         IN  SubSeq(data, 1, one - 1) \o SubSeq(data, two, end - 1) \o SubSeq(data, one, two - 1)
             \o SubSeq(data, end, Len(data))

\* A template comes back as it was stored, and not at all if a field of it has
\* changed, if it was cut off, or if two blocks have changed places.
FormatSound(t, retention, damage) ==
  LET stored == Serialize(t, retention)
      found  == Damaged(stored, damage)
  IN  Load(found, retention) = IF found = stored THEN Loaded(t) ELSE Refused
=============================================================================
