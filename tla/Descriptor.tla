----------------------------- MODULE Descriptor -----------------------------
(***************************************************************************)
(* The bytes of a message: generate_block lays the fields out one after    *)
(* the other, a step for each, get_next_block cuts the block into packets, *)
(* and the receiver's Message_Descriptor writes the packets back into the  *)
(* fields, which may begin and end anywhere in a packet.  One step is one  *)
(* round of decode_msg's loop; body is what the loop has not reached yet.  *)
(*                                                                         *)
(* A field is a scalar of some width in bytes, or an array: its length in  *)
(* two bytes, least significant first, and then its elements.  A byte of   *)
(* the model knows the field and the place in it that it was sent from;    *)
(* the receiver only ever looks at its value, and only in a length.        *)
(***************************************************************************)
EXTENDS Integers, Sequences

CONSTANTS
  PacketSize,    \* CAN_MESSAGE_MAX_LEN, the bytes of a packet
  Layouts        \* the messages: sequences of fields

ScalarField == [array : {FALSE}, width : Nat \ {0}, count : {1}]
ArrayField  == [array : {TRUE}, width : Nat \ {0}, count : Nat]

VARIABLES
  layout,                  \* the message that is sent
  block,                   \* its bytes, as far as they are laid out
  generated,               \* the fields that are
  offset,                  \* bytes of the block that have been sent
  body,                    \* bytes of the current packet still to decode
  field_size,              \* bytes of each field, 0 for an array not begun
  field_offset,            \* the field being decoded
  field_internal_offset,   \* bytes of it decoded
  decoding_len,            \* its length has been cut in two by a packet's end
  switched,                \* arrays whose field_ptrs entry is values by now
  capacity,                \* bytes of memory behind each field
  memory                   \* bytes written to each field

descriptor == <<field_size, field_offset, field_internal_offset, decoding_len,
                switched, capacity, memory>>
sent == <<layout, block, generated>>
descriptor_vars == <<sent, offset, body, descriptor>>

MaxSize == 255

Fields == DOMAIN layout
Bytes(f) == layout[f].width * layout[f].count

\* The bytes of a field's values; what they hold does not matter.
Content(f) == [k \in 1 .. Bytes(f) |-> [of |-> f, at |-> k, value |-> 1]]

\* A plausible bug: most significant byte first.
LengthSwapped(f) ==
  << [of |-> f, at |-> -1, value |-> (layout[f].count \div 256) % 256],
     [of |-> f, at |-> 0, value |-> layout[f].count % 256] >>

\* The two bytes of an array's length: size, the number of its elements.
Length(f) ==
  << [of |-> f, at |-> -1, value |-> layout[f].count % 256],
     [of |-> f, at |-> 0, value |-> (layout[f].count \div 256) % 256] >>

FieldBytes(f) == IF layout[f].array THEN Length(f) \o Content(f) ELSE Content(f)

ASSUME LayoutAssumption ==
  /\ PacketSize \in Nat \ {0}
  /\ \A m \in Layouts : m \in Seq(ScalarField \cup ArrayField)

DescriptorInit ==
  /\ layout \in Layouts
  /\ block = <<>> /\ generated = 0
  /\ offset = 0
  /\ body = <<>>
  /\ field_size = [f \in Fields |-> IF layout[f].array THEN 0 ELSE layout[f].width]
  /\ field_offset = 1 /\ field_internal_offset = 0
  /\ decoding_len = FALSE
  /\ switched = {}
  /\ capacity = field_size
  /\ memory = [f \in Fields |-> <<>>]

\* One field of generate_block_impl.  A message's size is a uint8_t: one that is
\* longer is not sent.
GenerateField ==
  LET f == generated + 1
  IN  /\ f \in Fields
      /\ Len(block) + Len(FieldBytes(f)) <= MaxSize
      /\ block' = block \o FieldBytes(f)
      /\ generated' = f
      /\ UNCHANGED <<layout, offset, body, descriptor>>

\* get_next_block: a full packet, or what is left.
NextBlock ==
  LET end == IF Len(block) - offset > PacketSize THEN offset + PacketSize
             ELSE Len(block)
  IN  /\ generated = Len(layout)
      /\ body = <<>>
      /\ offset < Len(block)
      /\ body' = SubSeq(block, offset + 1, end)
      /\ offset' = end
      /\ UNCHANGED <<sent, descriptor>>

----------------------------------------------------------------------------
(* One round of decode_msg's loop. *)

Drop(n) == SubSeq(body, n + 1, Len(body))

AtLength ==
  /\ body # <<>>
  /\ field_offset \in Fields
  /\ field_size[field_offset] = 0 /\ field_internal_offset = 0

\* override_with_new_bytes: memory for as many whole elements as fit the bytes.
Allocate(bytes) ==
  LET width == layout[field_offset].width
  IN  /\ field_offset \notin switched
      /\ switched' = switched \cup {field_offset}
      /\ capacity' = [capacity EXCEPT ![field_offset] = (bytes \div width) * width]
      /\ UNCHANGED memory

ReadLength ==
  LET bytes == body[1].value + 256 * body[2].value
  IN  /\ AtLength
      /\ Len(body) >= 2
      /\ field_size' = [field_size EXCEPT ![field_offset] = bytes]
      /\ Allocate(bytes)
      /\ body' = Drop(2)
      /\ UNCHANGED <<sent, offset, field_offset, field_internal_offset, decoding_len>>

ReadLowByte ==
  /\ AtLength
  /\ Len(body) = 1
  /\ field_size' = [field_size EXCEPT ![field_offset] = body[1].value]
  /\ decoding_len' = TRUE
  /\ body' = <<>>
  /\ UNCHANGED <<sent, offset, field_offset, field_internal_offset, switched,
                 capacity, memory>>

\* A plausible bug: neither the index nor the flag moves on.
ReadHighByteAgain ==
  LET bytes == field_size[field_offset] + 256 * body[1].value
  IN  /\ body # <<>> /\ ~AtLength /\ decoding_len
      /\ field_size' = [field_size EXCEPT ![field_offset] = bytes]
      /\ capacity' = [capacity EXCEPT ![field_offset] = bytes]
      /\ UNCHANGED <<sent, offset, body, field_offset, field_internal_offset,
                     decoding_len, switched, memory>>

ReadHighByte ==
  LET bytes == field_size[field_offset] + 256 * body[1].value
  IN  /\ body # <<>> /\ ~AtLength /\ decoding_len
      /\ field_size' = [field_size EXCEPT ![field_offset] = bytes]
      /\ Allocate(bytes)
      /\ decoding_len' = FALSE
      /\ body' = Drop(1)
      /\ UNCHANGED <<sent, offset, field_offset, field_internal_offset>>

\* What fits of the packet is copied; a field that is full is done.
Copy ==
  LET f    == field_offset
      left == field_size[f] - field_internal_offset
      n    == IF left < Len(body) THEN left ELSE Len(body)
  IN  /\ body # <<>> /\ ~AtLength /\ ~decoding_len
      /\ f \in Fields
      /\ memory' = [memory EXCEPT ![f] = @ \o SubSeq(body, 1, n)]
      /\ body' = Drop(n)
      /\ IF n = left
           THEN field_offset' = f + 1 /\ field_internal_offset' = 0
           ELSE field_internal_offset' = field_internal_offset + n /\ UNCHANGED field_offset
      /\ UNCHANGED <<sent, offset, field_size, decoding_len, switched, capacity>>

DescriptorNext ==
  GenerateField \/ NextBlock \/ ReadLength \/ ReadLowByte \/ ReadHighByte \/ Copy

DescriptorSpec == DescriptorInit /\ [][DescriptorNext]_descriptor_vars

\* One task sends and one decodes; both go on while there is something to do.
FairSpec == DescriptorSpec /\ WF_descriptor_vars(DescriptorNext)

----------------------------------------------------------------------------
\* Messages whose arrays are of bytes: the length that is sent is in elements,
\* and the one that is read in bytes.
OneByteElements ==
  \A m \in Layouts : \A f \in DOMAIN m : m[f].array => m[f].width = 1

\* Messages with no empty array, but for the last field: what follows one is
\* taken for its length again.
EmptyOnlyLast ==
  \A m \in Layouts : \A f \in DOMAIN m : m[f].array /\ m[f].count = 0 => f = Len(m)

\* Every byte lands in the field and at the place it was sent from, inside the
\* memory of the field ("Decode the given message into the message that created
\* this descriptor", Message_Descriptor.hpp), however packets cut the fields.
InPlace ==
  \A f \in Fields :
    /\ Len(memory[f]) <= capacity[f]
    /\ \A k \in 1 .. Len(memory[f]) : memory[f][k].of = f /\ memory[f][k].at = k

\* The loop, which has no increment of its own, ends on every packet, and after
\* the last one every field is complete.
Finishes ==
  <>(/\ generated = Len(layout) /\ offset = Len(block)
     /\ \A f \in Fields : memory[f] = Content(f))
=============================================================================
