------------------------------ MODULE PeerFrame ------------------------------
(***************************************************************************)
(* The frames of the peer protocol (cmfd-node peer.rs): a header of six    *)
(* fields and the payload of one message.  How the payload of each kind of *)
(* message is laid out is module PeerWire's, and a constant here.          *)
(***************************************************************************)
EXTENDS Codec

CONSTANTS EncodePayload(_),        \* the payload of a message, or an error
          DecodePayload(_, _, _)   \* the message of a kind, a payload and a network, or an error

PeerMagic == 101
PeerVersion == 3
PeerHeaderCells == 6
MaxPeerPayload == MaxBlockBytes

Kinds == [Hello |-> 1, GetHeaders |-> 2, Inventory |-> 3, GetBlock |-> 4, Block |-> 5,
          GetMempool |-> 6, TransactionInventory |-> 7, GetTransaction |-> 8,
          Transaction |-> 9, SubmitBlock |-> 10, BlockSubmissionResult |-> 11,
          GetMiningTemplate |-> 12, MiningTemplate |-> 13]

KnownKinds == {Kinds[k] : k \in DOMAIN Kinds}

Message(kind, body) == [kind |-> kind, body |-> body]

(* Hello: network id, consensus fingerprint, node nonce, and the tip,      *)
(* height and work that the protocol never checks.                         *)
HelloNetwork(h) == h[1]
HelloFingerprint(h) == h[2]
HelloNonce(h) == h[3]

ValidateHello(h) == HelloNonce(h) # 0

(***************************************************************************)
(* Frames: magic, version, kind, flags, sequence, payload length, payload. *)
(***************************************************************************)

(* A payload, or the one error of a payload that cannot be written or read. *)
Payload(r) == IF r.ok THEN r ELSE Err("InvalidPayload")

EncodePeerFrame(sequence, m) ==
    Then(Payload(EncodePayload(m)), LAMBDA p :
        IF Len(p) > MaxPeerPayload THEN Err("PayloadTooLarge")
        ELSE Ok(<<PeerMagic, PeerVersion, m.kind, 0, sequence, Len(p)>> \o p))

PayloadLimit(kind) == IF kind = Kinds.Transaction THEN MaxTransactionBytes ELSE MaxPeerPayload

(* validate_frame_header and the length check PeerConnection::receive makes *)
(* before it reads the payload.                                             *)
HeaderValid(h) ==
    /\ h[1] = PeerMagic
    /\ h[2] = PeerVersion
    /\ h[3] \in KnownKinds
    /\ h[4] = 0
    /\ h[6] <= PayloadLimit(h[3])

(* decode_peer_frame: [seq, msg] or an error. *)
DecodePeerFrame(b, net) ==
    CASE Len(b) < PeerHeaderCells -> Err("Truncated")
      [] b[1] # PeerMagic -> Err("InvalidMagic")
      [] b[2] # PeerVersion -> Err("UnsupportedVersion")
      [] b[4] # 0 -> Err("NonZeroFlags")
      [] b[6] > PayloadLimit(b[3]) -> Err("PayloadTooLarge")
      [] Len(b) < PeerHeaderCells + b[6] -> Err("Truncated")
      [] Len(b) > PeerHeaderCells + b[6] -> Err("TrailingBytes")
      [] OTHER -> Then(Payload(DecodePayload(b[3], SubSeq(b, PeerHeaderCells + 1, Len(b)), net)),
                       LAMBDA m : Ok([seq |-> b[5], msg |-> m]))
=============================================================================
