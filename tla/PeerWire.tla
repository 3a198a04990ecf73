------------------------------ MODULE PeerWire ------------------------------
(***************************************************************************)
(* The payloads of the peer protocol's messages (cmfd-node peer.rs).       *)
(* Consensus objects travel as the canonical encodings of module Wire      *)
(* inside the payload and are encoded again on receipt.                    *)
(***************************************************************************)
EXTENDS Wire, PeerFrame, FiniteSets

CONSTANTS MaxHeaderLocators,   \* MAX_HEADER_LOCATORS
          MaxInventoryItems    \* MAX_INVENTORY_ITEMS

(* Hello: its four fields (PeerFrame). *)
HelloLayout == Tup(<<Net, Cell, Cell, Cell>>)

(* Challenge: network id, transaction root, height, the rest. *)
TemplateChallenge == Tup(<<Net, Cell, Cell, Cell>>)
TemplateOutput == Tup(<<Cell, Alt([tag \in 0..1 |-> Cell]), Cell>>)
TemplateLayout == Tup(<<TemplateChallenge, Cell, Many(MaxCoinbaseOutputs, TemplateOutput),
                        Many(MaxBlockTransactions, Blob(MaxTransactionBytes))>>)

(* The payload of the messages that are plain fields. *)
PlainLayout(kind) ==
    CASE kind = Kinds.GetHeaders -> Tup(<<Many(MaxHeaderLocators, Cell), Cell>>)
      [] kind \in {Kinds.Inventory, Kinds.TransactionInventory} ->
            Tup(<<Many(MaxInventoryItems, Cell)>>)
      [] kind \in {Kinds.GetBlock, Kinds.GetTransaction, Kinds.GetMiningTemplate} -> Tup(<<Cell>>)
      [] kind = Kinds.BlockSubmissionResult ->
            Tup(<<Cell, Alt([status \in 0..2 |-> Tup(<<>>)]), Cell>>)
      [] kind = Kinds.GetMempool -> Tup(<<>>)
      [] kind = Kinds.Hello -> HelloLayout

ValidateIdentifiers(ids, max, nonempty) ==
    /\ nonempty => ids # <<>>
    /\ Len(ids) <= max
    /\ Cardinality({ids[i] : i \in 1..Len(ids)}) = Len(ids)

(* The checks both encode_message and decode_message apply to plain fields. *)
PlainValid(kind, body) ==
    CASE kind = Kinds.Hello -> ValidateHello(body)
      [] kind = Kinds.GetHeaders -> ValidateIdentifiers(body[1], MaxHeaderLocators, TRUE)
      [] kind \in {Kinds.Inventory, Kinds.TransactionInventory} ->
            ValidateIdentifiers(body[1], MaxInventoryItems, FALSE)
      [] OTHER -> TRUE

(* merkle_root over the coinbase commitment and the txids, as a number that *)
(* changes with the coinbase and with the number of transactions.           *)
MerkleRoot(coinbaseHeight, outputs, txs) ==
    20 + coinbaseHeight + 2 * Len(outputs) + 6 * Len(txs)

(* A template is <<challenge, coinbase height, outputs, transactions>>. *)
ValidateTemplate(t, net) ==
    LET challenge == t[1]
    IN  /\ challenge[1] = net
        /\ t[2] = challenge[3]
        /\ Len(t[3]) <= MaxCoinbaseOutputs
        /\ Len(t[4]) <= MaxBlockTransactions
        /\ \A i \in 1..Len(t[4]) : t[4][i][1] = net
        /\ MerkleRoot(t[2], t[3], t[4]) = challenge[2]

(* The values of a sequence of results, or the first error's name. *)
All(results, error) ==
    IF \A i \in DOMAIN results : results[i].ok
    THEN Ok([i \in DOMAIN results |-> results[i].val]) ELSE Err(error)

EncodeTemplate(t) ==
    IF ~ValidateTemplate(t, t[1][1]) THEN Err("InvalidMiningTemplate")
    ELSE Then(All([i \in 1..Len(t[4]) |-> EncodeTransaction(t[4][i])], "ConsensusWire"),
              LAMBDA blobs : Write(TemplateLayout, <<t[1], t[2], t[3], blobs>>, t[1][1]))

(* A consensus object is accepted only in the encoding this node would     *)
(* produce.                                                                *)
Canonical(decoded, Encode(_), payload) ==
    IF decoded.ok /\ Encode(decoded.val) # Ok(payload) THEN Err("NonCanonical") ELSE decoded

DecodeCanonicalTransaction(b, net) ==
    Canonical(DecodeTransaction(b, net), EncodeTransaction, b)

DecodeTemplate(p, net) ==
    LET Checked(t) == IF ValidateTemplate(t, net) THEN Ok(t) ELSE Err("InvalidMiningTemplate")
    IN  Then(ReadWhole(TemplateLayout, p, net), LAMBDA r :
        Then(All([i \in 1..Len(r[4]) |-> DecodeCanonicalTransaction(r[4][i], net)],
                 "ConsensusWire"),
             LAMBDA txs : Checked(<<r[1], r[2], r[3], txs>>)))

EncodeMessage(m) ==
    CASE m.kind \in {Kinds.Block, Kinds.SubmitBlock} -> EncodeBlock(m.body)
      [] m.kind = Kinds.Transaction -> EncodeTransaction(m.body)
      [] m.kind = Kinds.MiningTemplate -> EncodeTemplate(m.body)
      [] OTHER -> IF PlainValid(m.kind, m.body)
                  THEN Write(PlainLayout(m.kind), m.body,
                             IF m.kind = Kinds.Hello THEN HelloNetwork(m.body) ELSE 0)
                  ELSE Err("InvalidFields")

DecodeBody(kind, p, net) ==
    CASE kind \in {Kinds.Block, Kinds.SubmitBlock} ->
            Canonical(DecodeBlock(p, net), EncodeBlock, p)
      [] kind = Kinds.Transaction ->
            IF Len(p) > MaxTransactionBytes THEN Err("PayloadTooLarge")
            ELSE DecodeCanonicalTransaction(p, net)
      [] kind = Kinds.MiningTemplate -> DecodeTemplate(p, net)
      [] kind \notin KnownKinds -> Err("UnknownKind")
      [] OTHER -> Then(ReadWhole(PlainLayout(kind), p, net), LAMBDA body :
                       IF PlainValid(kind, body) THEN Ok(body) ELSE Err("InvalidFields"))

DecodeMessage(kind, p, net) ==
    Then(DecodeBody(kind, p, net), LAMBDA body : Ok(Message(kind, body)))
=============================================================================
