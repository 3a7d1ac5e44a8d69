----------------------------- MODULE Instruction -----------------------------
(***************************************************************************)
(* SquadInstruction::unpack (instruction.rs): the instruction data of a    *)
(* transaction, a sequence of bytes, decoded into a tag and its            *)
(* arguments.  Every read is at a fixed offset into rest, the bytes after  *)
(* the tag.  An index or slice past the end of rest, and an unwrap of a    *)
(* failed from_utf8, try_into or get, panic: the transaction aborts, here  *)
(* the value Panic.  An empty input or an unknown tag is the error         *)
(* InvalidInstruction.  A decoded instruction is a record [tag, args]      *)
(* whose args carry the field names of the enum variant; a String is the   *)
(* sequence of its UTF-8 bytes, which from_utf8 leaves as they are.        *)
(***************************************************************************)
EXTENDS AccountLayout, TLC

Panic              == [error |-> "Panic"]
InvalidInstruction == [error |-> "InvalidInstruction"]

(* rest[a..b] of the code (0-based, end exclusive) and its bounds check.   *)
Slice(s, a, b) == SubSeq(s, a + 1, b)
InBounds(s, b) == b <= Len(s)

(* The well-formed byte sequences of String::from_utf8 (RFC 3629): a lead *)
(* byte range followed by the continuation ranges it allows; overlong     *)
(* forms and surrogates are refused.                                       *)
Utf8Forms ==
    { << 0 .. 127 >>,
      << 194 .. 223, 128 .. 191 >>,
      << {224}, 160 .. 191, 128 .. 191 >>,
      << (225 .. 236) \cup (238 .. 239), 128 .. 191, 128 .. 191 >>,
      << {237}, 128 .. 159, 128 .. 191 >>,
      << {240}, 144 .. 191, 128 .. 191, 128 .. 191 >>,
      << 241 .. 243, 128 .. 191, 128 .. 191, 128 .. 191 >>,
      << {244}, 128 .. 143, 128 .. 191, 128 .. 191 >> }

(* Read from the first byte, each lead byte starts one form, the form's   *)
(* continuation bytes follow it, and the byte after them is again a lead. *)
Utf8Valid(s) ==
    LET Lead(i) == s[i] \notin 128 .. 191 IN
    /\ Len(s) > 0 => Lead(1)
    /\ \A i \in 1 .. Len(s) :
          Lead(i) =>
             \E f \in Utf8Forms :
                /\ s[i] \in f[1]
                /\ i + Len(f) - 1 <= Len(s)
                /\ \A j \in 2 .. Len(f) : s[i + j - 1] \in f[j]
                /\ i + Len(f) <= Len(s) => Lead(i + Len(f))

(* i64::from_le_bytes: two's complement of the eight bytes.                *)
I64FromLE(b) ==
    IF b[8] < 128 THEN FromLE(b)
    ELSE -(FromLE([i \in 1 .. 8 |-> 255 - b[i]]) + 1)

-----------------------------------------------------------------------------
(***************************************************************************)
(* Fixed fields: where each argument of a variant sits in rest and how it *)
(* is read.  labels is unpack_proposal_labels: chunks_exact(44) of the     *)
(* slice, each chunk a String.                                             *)
(***************************************************************************)
U8(at)     == [at |-> at, to |-> at + 1, as |-> "u8"]
Str(a, b)  == [at |-> a,  to |-> b,      as |-> "str"]
I64(a, b)  == [at |-> a,  to |-> b,      as |-> "i64"]
Labels(a, b) == [at |-> a, to |-> b,     as |-> "labels"]

LabelLen == 44

CreateSquadLayout ==
    [allocation_type |-> U8(0), vote_support |-> U8(1), vote_quorum |-> U8(2),
     core_threshold |-> U8(3), squad_name |-> Str(4, 28),
     description |-> Str(28, 64), token |-> Str(64, 70),
     random_id |-> Str(70, 80)]

CreateMultisigLayout ==
    [vote_quorum |-> U8(0), squad_name |-> Str(1, 25),
     description |-> Str(25, 61), random_id |-> Str(61, 71),
     members_num |-> U8(71)]

CreateProposalLayout ==
    [proposal_type |-> U8(0), title |-> Str(1, 37),
     description |-> Str(37, 533), link |-> Str(533, 581),
     votes_num |-> U8(581), vote_labels |-> Labels(582, 802),
     start_timestamp |-> I64(802, 810), close_timestamp |-> I64(810, 818)]

VoteLayout == [vote |-> U8(0)]

LabelChunks(raw) ==
    [i \in 1 .. Len(raw) \div LabelLen |->
        Slice(raw, LabelLen * (i - 1), LabelLen * i)]

FieldOk(rest, f) ==
    /\ InBounds(rest, f.to)
    /\ f.as = "str"    => Utf8Valid(Slice(rest, f.at, f.to))
    /\ f.as = "labels" => \A c \in ToSet(LabelChunks(Slice(rest, f.at, f.to))) :
                              Utf8Valid(c)

FieldValue(rest, f) ==
    LET raw == Slice(rest, f.at, f.to) IN
    CASE f.as = "u8"     -> raw[1]
      [] f.as = "str"    -> raw
      [] f.as = "i64"    -> I64FromLE(raw)
      [] f.as = "labels" -> LabelChunks(raw)

LayoutOk(rest, L)   == \A n \in DOMAIN L : FieldOk(rest, L[n])
LayoutArgs(rest, L) == [n \in DOMAIN L |-> FieldValue(rest, L[n])]

-----------------------------------------------------------------------------
(***************************************************************************)
(* Arguments read with a length test or a count.                          *)
(***************************************************************************)

(* unpack_proposal_amount_in / _out: the u64 at 818 (826) if rest is long  *)
(* enough to hold it, 0 otherwise.                                         *)
AmountInStrict(rest) ==
    IF Len(rest) > 826 THEN FromLE(Slice(rest, 818, 826)) ELSE 0

AmountIn(rest) ==
    IF Len(rest) >= 826 THEN FromLE(Slice(rest, 818, 826)) ELSE 0

AmountOut(rest) ==
    IF Len(rest) >= 834 THEN FromLE(Slice(rest, 826, 834)) ELSE 0

(* unpack_wsol_random_id: the first 16 bytes as a String, or the string    *)
(* "0000000000000000" if rest is shorter.                                  *)
DefaultRandomId == [i \in 1 .. 16 |-> 48]

WsolRandomIdOk(rest) == Len(rest) >= 16 => Utf8Valid(Slice(rest, 0, 16))

WsolRandomId(rest) ==
    IF Len(rest) >= 16 THEN Slice(rest, 0, 16) ELSE DefaultRandomId

(* unpack_add_members_allocation_table: members_num * 8 is a u8 product;  *)
(* with overflow checks it panics past 255, without them it wraps.  The   *)
(* slice rest[9 .. size + 9] must exist, and each of the members_num       *)
(* chunks_exact(8) of it must be there for the unwrap.                     *)
AllocSliceSize(n, wrap) == IF wrap THEN (n * 8) % 256 ELSE n * 8

AllocationTableOk(rest, wrap) ==
    LET n == rest[1] IN
    /\ wrap \/ n * 8 <= 255
    /\ InBounds(rest, AllocSliceSize(n, wrap) + 9)
    /\ n * 8 <= AllocSliceSize(n, wrap)

AllocationTable(rest) ==
    [i \in 1 .. rest[1] |-> FromLE(Slice(rest, 9 + 8 * (i - 1), 9 + 8 * i))]

-----------------------------------------------------------------------------
(***************************************************************************)
(* unpack: the tag selects the variant; rest is then read in full.         *)
(***************************************************************************)
Tags == 0 .. 7

Layout(tag) ==
    CASE tag = 0 -> CreateSquadLayout
      [] tag = 1 -> CreateMultisigLayout
      [] tag = 2 -> CreateProposalLayout
      [] tag \in {3, 4} -> VoteLayout
      [] tag \in {5, 6, 7} -> << >>

ExtraOk(tag, rest, wrap) ==
    CASE tag \in {5, 6} -> WsolRandomIdOk(rest)
      [] tag = 7 -> InBounds(rest, 1) /\ AllocationTableOk(rest, wrap)
      [] OTHER -> TRUE

ExtraArgs(tag, rest) ==
    CASE tag = 2 -> [amount |-> AmountIn(rest), minimum_out |-> AmountOut(rest)]
      [] tag \in {5, 6} -> [random_id |-> WsolRandomId(rest)]
      [] tag = 7 -> [members_num |-> rest[1],
                     allocation_table |-> AllocationTable(rest)]
      [] OTHER -> << >>

Unpack(input, wrap) ==
    IF input = << >> \/ Head(input) \notin Tags THEN InvalidInstruction
    ELSE LET tag == Head(input)
             rest == Tail(input) IN
         IF LayoutOk(rest, Layout(tag)) /\ ExtraOk(tag, rest, wrap)
         THEN [tag |-> tag,
               args |-> LayoutArgs(rest, Layout(tag)) @@ ExtraArgs(tag, rest)]
         ELSE Panic

=============================================================================
