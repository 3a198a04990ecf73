-------------------------------- MODULE Wire --------------------------------
(***************************************************************************)
(* The canonical codec of consensus objects (cmfd-consensus wire.rs):      *)
(* transactions, ForgeMatrix proofs and blocks inside a CMFD frame.        *)
(*                                                                         *)
(* A byte string is a sequence of cells.  One cell stands for one fixed-   *)
(* width field, or for a run of fixed-width fields that no check looks at  *)
(* (the concatenation of fixed-width fields can be split in one way only). *)
(* What is written with a length, a count or a tag keeps it.  An object's  *)
(* layout is a schema; one writer and one reader interpret every schema,   *)
(* as the code's Writer and Reader serve every encode and decode function. *)
(***************************************************************************)
EXTENDS Codec

CONSTANTS MaxProofBytes,         \* MAX_PROOF_BYTES
          MaxInputs,             \* MAX_TRANSACTION_INPUTS
          MaxOutputs,            \* MAX_TRANSACTION_OUTPUTS
          MaxBlockTransactions,  \* MAX_BLOCK_TRANSACTIONS
          MaxCoinbaseOutputs,    \* MAX_COINBASE_OUTPUTS
          MaxBlockInputs,        \* MAX_BLOCK_AGGREGATE_INPUTS
          MaxBlockOutputs,       \* MAX_BLOCK_AGGREGATE_OUTPUTS
          MaxSignatureChecks     \* MAX_BLOCK_SIGNATURE_CHECKS

WireHeaderCells == 6
FrameMagic == 100
WireVersion == 1
TransactionKind == 1
BlockKind == 3
SignatureCells == 1

(***************************************************************************)
(* Schemas.                                                                *)
(***************************************************************************)
Cell == [t |-> "cell"]                        \* a fixed-width field
Net == [t |-> "net"]                          \* a network id that must be the expected one
Ctx == [t |-> "ctx"]                          \* the expected network id, written but not kept
Sig == [t |-> "sig"]                          \* a signature of exactly SignatureCells
Alt(f) == [t |-> "alt", alts |-> f]           \* a tag, then the layout of that tag
Many(max, s) == [t |-> "many", max |-> max, of |-> s]    \* a count, then that many
Sized(max, s) == [t |-> "sized", max |-> max, of |-> s]  \* a length, then a payload
Blob(max) == [t |-> "blob", max |-> max]      \* a length, then that many raw bytes
Tup(ss) == [t |-> "tup", parts |-> ss]

(* encode_channel_terms / decode_channel_terms: the network id is checked. *)
ChannelTerms == Tup(<<Net, Cell>>)

(* Witness tags: 0 key, 1 settlement, 2 refund. *)
KeyWitness == Tup(<<Cell, Sig>>)
SettlementWitness == Tup(<<ChannelTerms, Cell, Sig, Sig>>)
Witness == Alt([tag \in 0..2 |->
    CASE tag = 0 -> KeyWitness
      [] tag = 1 -> SettlementWitness
      [] tag = 2 -> ChannelTerms])

Input == Tup(<<Cell, Witness>>)

(* Lock tags: 0 key, 1 inference channel. *)
Output == Tup(<<Cell, Alt([tag \in 0..1 |-> Cell]), Cell>>)

TransactionPayload == Tup(<<Net, Cell, Many(MaxInputs, Input), Many(MaxOutputs, Output)>>)

(* Proof tags: 1 V1 legacy, 2 V2 reference, which has one digest more. *)
ProofPayload == Tup(<<Alt([tag \in 1..2 |->
    IF tag = 1 THEN Tup(<<Ctx, Cell>>) ELSE Tup(<<Ctx, Cell, Cell>>)])>>)

Challenge == Tup(<<Net, Cell>>)

CoinbaseLayout == Tup(<<Cell, Many(MaxCoinbaseOutputs, Output)>>)

BlockPayload == Tup(<<Cell, Challenge, Sized(MaxProofBytes, ProofPayload), CoinbaseLayout,
                      Many(MaxBlockTransactions, Sized(MaxTransactionBytes, TransactionPayload))>>)

(***************************************************************************)
(* Writer and Reader.                                                      *)
(***************************************************************************)
EnsurePayloadSize(n, max) == WireHeaderCells + n <= max

RECURSIVE Write(_, _, _), WriteAll(_, _, _), Read(_, _, _), ReadAll(_, _, _)

(* The bytes of value v under schema s, for objects of network net. *)
Write(s, v, net) ==
    CASE s.t = "cell" -> Ok(<<v>>)
      [] s.t = "net" -> IF v = net THEN Ok(<<v>>) ELSE Err("WrongNetworkId")
      [] s.t = "ctx" -> Ok(<<net>>)
      [] s.t = "sig" -> IF Len(v) = SignatureCells THEN Ok(v) ELSE Err("SignatureLength")
      [] s.t = "blob" -> Ok(<<Len(v)>> \o v)
      [] s.t = "alt" -> Then(Write(s.alts[v[1]], v[2], net), LAMBDA w : Ok(<<v[1]>> \o w))
      [] s.t = "tup" -> WriteAll(s.parts, v, net)
      [] s.t = "many" -> IF Len(v) > s.max THEN Err("CountLimit")
                         ELSE Then(WriteAll([i \in 1..Len(v) |-> s.of], v, net),
                                   LAMBDA w : Ok(<<Len(v)>> \o w))
      [] s.t = "sized" -> Then(Write(s.of, v, net), LAMBDA w :
                               IF EnsurePayloadSize(Len(w), s.max) THEN Ok(<<Len(w)>> \o w)
                               ELSE Err("SizeLimit"))

WriteAll(ss, vs, net) ==
    IF ss = <<>> THEN Ok(<<>>)
    ELSE Then(Write(Head(ss), Head(vs), net), LAMBDA w :
         Then(WriteAll(Tail(ss), Tail(vs), net), LAMBDA ws : Ok(w \o ws)))

(* What the reader finds under schema s at the front of b: the value and   *)
(* the bytes left.                                                         *)
Got(v, rest) == Ok([v |-> v, rest |-> rest])

Read(s, b, net) ==
    CASE b = <<>> /\ s.t # "tup" -> Err("Truncated")
      [] s.t = "cell" -> Got(b[1], Tail(b))
      [] s.t = "net" -> IF b[1] = net THEN Got(b[1], Tail(b)) ELSE Err("WrongNetworkId")
      [] s.t = "ctx" -> IF b[1] = net THEN Got(0, Tail(b)) ELSE Err("WrongNetworkId")
      [] s.t = "sig" -> Got(SubSeq(b, 1, SignatureCells), SubSeq(b, SignatureCells + 1, Len(b)))
      [] s.t = "blob" -> IF b[1] > s.max THEN Err("SizeLimit")
                         ELSE IF Len(b) - 1 < b[1] THEN Err("Truncated")
                         ELSE Got(SubSeq(b, 2, b[1] + 1), SubSeq(b, b[1] + 2, Len(b)))
      [] s.t = "alt" -> IF b[1] \notin DOMAIN s.alts THEN Err("UnknownTag")
                        ELSE Then(Read(s.alts[b[1]], Tail(b), net),
                                  LAMBDA r : Got(<<b[1], r.v>>, r.rest))
      [] s.t = "tup" -> ReadAll(s.parts, b, net)
      [] s.t = "many" -> IF b[1] > s.max THEN Err("CountLimit")
                         ELSE ReadAll([i \in 1..b[1] |-> s.of], Tail(b), net)
      [] s.t = "sized" ->
            IF ~EnsurePayloadSize(b[1], s.max) THEN Err("SizeLimit")
            ELSE IF Len(b) - 1 < b[1] THEN Err("Truncated")
            ELSE Then(Read(s.of, SubSeq(b, 2, b[1] + 1), net), LAMBDA r :
                      IF r.rest = <<>> THEN Got(r.v, SubSeq(b, b[1] + 2, Len(b)))
                      ELSE Err("TrailingBytes"))

ReadAll(ss, b, net) ==
    IF ss = <<>> THEN Got(<<>>, b)
    ELSE Then(Read(Head(ss), b, net), LAMBDA r :
         Then(ReadAll(Tail(ss), r.rest, net), LAMBDA rs : Got(<<r.v>> \o rs.v, rs.rest)))

(* Mutant of ReadWhole: bytes after the object are ignored. *)
ReadWholePrefix(s, b, net) ==
    Then(Read(s, b, net), LAMBDA r : Ok(r.v))

(* A whole payload: nothing may be left (Reader::finish). *)
ReadWhole(s, b, net) ==
    Then(Read(s, b, net),
         LAMBDA r : IF r.rest = <<>> THEN Ok(r.v) ELSE Err("TrailingBytes"))

(***************************************************************************)
(* Frames.                                                                 *)
(***************************************************************************)

(* network_magic: four bytes of a digest of the network id, so two         *)
(* networks may share it.                                                  *)
NetworkMagic(net) == net % 2

EncodeFrame(kind, net, payload, max) ==
    IF ~EnsurePayloadSize(Len(payload), max) THEN Err("SizeLimit")
    ELSE Ok(<<FrameMagic, NetworkMagic(net), WireVersion, kind, 0, Len(payload)>> \o payload)

DecodeFrame(b, net, kind, max) ==
    CASE Len(b) < WireHeaderCells -> Err("Truncated")
      [] Len(b) > max -> Err("SizeLimit")
      [] b[1] # FrameMagic -> Err("InvalidMagic")
      [] b[2] # NetworkMagic(net) -> Err("WrongNetworkMagic")
      [] b[3] # WireVersion -> Err("UnsupportedVersion")
      [] b[4] # kind -> Err("UnexpectedKind")
      [] b[5] # 0 -> Err("NonZeroFlags")
      [] ~EnsurePayloadSize(b[6], max) -> Err("SizeLimit")
      [] Len(b) - WireHeaderCells < b[6] -> Err("Truncated")
      [] Len(b) - WireHeaderCells > b[6] -> Err("TrailingBytes")
      [] OTHER -> Ok(SubSeq(b, WireHeaderCells + 1, Len(b)))

(***************************************************************************)
(* Transactions and blocks.                                                *)
(***************************************************************************)
EncodeTransaction(tx) ==
    Then(Write(TransactionPayload, tx, tx[1]),
         LAMBDA p : EncodeFrame(TransactionKind, tx[1], p, MaxTransactionBytes))

DecodeTransaction(b, net) ==
    Then(DecodeFrame(b, net, TransactionKind, MaxTransactionBytes),
         LAMBDA p : ReadWhole(TransactionPayload, p, net))

SignatureChecks(input) == CASE input[2][1] = 0 -> 1 [] input[2][1] = 1 -> 2 [] input[2][1] = 2 -> 0

SumOver(seq, Count(_)) ==
    LET sum[i \in 0..Len(seq)] == IF i = 0 THEN 0 ELSE sum[i - 1] + Count(seq[i])
    IN  sum[Len(seq)]

(* add_block_resources over every transaction of a block. *)
BlockResources(txs) ==
    LET In(tx) == Len(tx[3])
        Out(tx) == Len(tx[4])
        Checks(tx) == SumOver(tx[3], SignatureChecks)
    IN  /\ SumOver(txs, In) <= MaxBlockInputs
        /\ SumOver(txs, Out) <= MaxBlockOutputs
        /\ SumOver(txs, Checks) <= MaxSignatureChecks

EncodeBlock(block) ==
    Then(Write(BlockPayload, block, block[2][1]), LAMBDA p :
        IF BlockResources(block[5]) THEN EncodeFrame(BlockKind, block[2][1], p, MaxBlockBytes)
        ELSE Err("CountLimit"))

DecodeBlock(b, net) ==
    Then(DecodeFrame(b, net, BlockKind, MaxBlockBytes), LAMBDA p :
    Then(ReadWhole(BlockPayload, p, net), LAMBDA block :
        IF BlockResources(block[5]) THEN Ok(block) ELSE Err("CountLimit")))
=============================================================================
