--------------------------- MODULE RpcPacketProofs ---------------------------
(***************************************************************************)
(* The invariants of RpcPacket, for payloads of any length and any padding.*)
(***************************************************************************)
EXTENDS RpcPacket, RpcWireProofs

----------------------------------------------------------------------------
(* The inductive invariant: the wire is framed by what was sent, and the   *)
(* outcome of the last parse is that of the wire as it is.                 *)
IInv ==
    /\ TypeOK
    /\ sent = None => result = "none" /\ ~intact
    /\ sent # None => Framed(wire, sent)
    /\ intact => Len(sent) + 16 <= Len(wire)
    /\ result = "ok" => Parses(wire) /\ payload = ReadPayload(wire)
    /\ result \in {"too_short", "no_terminator"} => ~Parses(wire)

(* Nothing is on the wire at first, so IInv holds. *)
THEOREM InitIInv == Init => IInv
  <1> SUFFICES ASSUME Init
               PROVE  IInv
    OBVIOUS
  <1>1. <<>> \in Seq(Bit)
    BY EmptySeq
  <1>2. TypeOK
    BY <1>1 DEF Init, TypeOK, Results
  <1>3. QED
    BY <1>2 DEF Init, IInv

(* Every step keeps IInv: the wire holds a framed tail of what was sent,
   and a result is that of parsing it. *)
THEOREM NextIInv == IInv /\ [Next]_vars => IInv'
  <1> SUFFICES ASSUME IInv, [Next]_vars
               PROVE  IInv'
    OBVIOUS
  <1> USE DEF IInv
  <1>1. ASSUME NEW bits \in GamePayloads, GameSends(bits)
        PROVE  IInv'
    <2>1. bits \in Seq(Bit) /\ Len(bits) \in Nat
      BY GamePayloadsAssumption, LenProperties
    <2>2. Slack(HeaderPhase + Len(bits) + 16) \in 0..7
      BY <2>1, SlackRange DEF HeaderPhase
    <2>3. PICK junk \in [1..Slack(HeaderPhase + Len(bits) + 16) -> Bit] :
             wire' = bits \o Terminator \o junk
      BY <1>1 DEF GameSends
    <2>4. junk \in Seq(Bit) /\ Len(junk) <= 7
      BY <2>2, <2>3
    <2>5. Framed(wire', bits) /\ Len(wire') = Len(bits) + 16 + Len(junk) /\ Len(junk) \in Nat
      BY <2>1, <2>3, <2>4, TailIsFramed, LenProperties
    <2>6. Len(bits) + 16 <= Len(wire')
      BY <2>1, <2>5
    <2>7. wire' \in Seq(Bit)
      BY <2>5 DEF Framed
    <2>8. bits # None
      BY <2>1, NoneAssumption
    <2>9. result = "none" /\ result' = "none" /\ sent' = bits /\ intact' = TRUE /\ payload' = payload
      BY <1>1 DEF GameSends
    <2>10. TypeOK'
      BY <2>1, <2>7, <2>9 DEF TypeOK, Results
    <2>11. QED
      BY <2>5, <2>6, <2>8, <2>9, <2>10
  <1>2. ASSUME NEW bytes \in 1..3, CutShort(bytes)
        PROVE  IInv'
    <2>1. wire \in Seq(Bit) /\ Len(wire) \in Nat /\ Framed(wire, sent)
      BY <1>2, LenProperties DEF CutShort, TypeOK
    <2>2. Len(wire) - 8 * bytes \in 0..Len(wire)
      BY <1>2, <2>1 DEF CutShort
    <2>3. wire' = SubSeq(wire, 1, Len(wire) - 8 * bytes)
      BY <1>2 DEF CutShort
    <2>4. Framed(wire', sent)
      BY <2>1, <2>2, <2>3, PrefixIsFramed
    <2>5. wire' \in Seq(Bit)
      BY <2>4 DEF Framed
    <2>6. UNCHANGED <<sent, payload, result>> /\ intact' = FALSE /\ result = "none"
      BY <1>2 DEF CutShort
    <2>7. TypeOK'
      BY <2>5, <2>6 DEF TypeOK
    <2>8. QED
      BY <2>4, <2>6, <2>7
  <1>3. ASSUME FromBytes
        PROVE  IInv'
    <2>1. wire \in Seq(Bit) /\ Framed(wire, sent) /\ UNCHANGED <<wire, sent, intact>> /\ sent # None
      BY <1>3 DEF FromBytes, TypeOK
    <2>2. CASE TooShort(wire) \/ Paddings(wire) = {}
      <3>1. ~Parses(wire)
        BY <2>2 DEF Parses
      <3>2. result' \in {"too_short", "no_terminator"} /\ payload' = None
        BY <1>3, <3>1 DEF FromBytes
      <3>3. TypeOK'
        BY <2>1, <3>2 DEF TypeOK, Results
      <3>4. ~Parses(wire)'
        BY <2>1, <3>1
      <3>5. QED
        BY <2>1, <3>2, <3>3, <3>4
    <2>3. CASE Parses(wire)
      <3>1. result' = "ok" /\ payload' = ReadPayload(wire)
        BY <1>3, <2>3 DEF FromBytes, Parses
      <3>2. PICK n \in 0..Len(sent) : ReadPayload(wire) = BitsToBytes(SubSeq(sent, 1, n))
        BY <2>1, <2>3, ReadOfFramed
      <3>3. SubSeq(sent, 1, n) \in Seq(Bit)
        BY <2>1, PrefixBits DEF Framed
      <3>4. payload' \in Seq(Bit) /\ Len(payload') % 8 = 0
        BY <3>1, <3>2, <3>3, BytesAreWhole
      <3>5. TypeOK'
        BY <2>1, <3>1, <3>4 DEF TypeOK, Results
      <3>6. Parses(wire)' /\ payload' = ReadPayload(wire)'
        BY <2>1, <2>3, <3>1
      <3>7. QED
        BY <2>1, <3>1, <3>5, <3>6
    <2>4. QED
      BY <2>2, <2>3 DEF Parses
  <1>4. ASSUME NEW bytes \in OwnPayloads, Construct(bytes)
        PROVE  IInv'
    <2>1. bytes \in Seq(Bit) /\ Len(bytes) % 8 = 0
      BY OwnPayloadsAssumption
    <2>2. TypeOK'
      BY <1>4, <2>1 DEF Construct, TypeOK, Results
    <2>3. QED
      BY <1>4, <2>2 DEF Construct
  <1>5. ASSUME ToBytes
        PROVE  IInv'
    <2>1. payload \in Seq(Bit) /\ payload # None
      BY <1>5 DEF ToBytes, TypeOK
    <2>2. wire' = WriteTail(payload) /\ sent' = payload /\ intact' = TRUE /\ result' = "none"
            /\ payload' = payload
      BY <1>5 DEF ToBytes
    <2>3. Framed(wire', sent') /\ Len(sent') + 16 <= Len(wire')
      BY <2>1, <2>2, WrittenTail
    <2>4. wire' \in Seq(Bit)
      BY <2>3 DEF Framed
    <2>5. TypeOK'
      BY <2>1, <2>2, <2>4 DEF TypeOK, Results
    <2>6. QED
      BY <2>1, <2>2, <2>3, <2>5
  <1>6. ASSUME UNCHANGED vars
        PROVE  IInv'
    BY <1>6 DEF vars, TypeOK
  <1>7. QED
    BY <1>1, <1>2, <1>3, <1>4, <1>5, <1>6 DEF Next

(* Every packet, parsed or built, keeps its payload in whole bytes.        *)
THEOREM SpecTypeOK == Spec => []TypeOK
  <1>1. IInv => TypeOK
    BY DEF IInv
  <1>2. QED
    BY <1>1, InitIInv, NextIInv, PTL DEF Spec

(* No payload is mistaken for a terminator: every intact packet parses, to *)
(* the payload that was sent (rpc.rs 110-131).                             *)
THEOREM IntactComesBack == Spec => []IntactPayloadComesBack
  <1>1. IInv => IntactPayloadComesBack
    <2> SUFFICES ASSUME IInv, intact
                 PROVE  Parses(wire) /\ ReadPayload(wire) = BitsToBytes(sent)
      BY DEF IInv, IntactPayloadComesBack
    <2>1. Framed(wire, sent) /\ Len(sent) + 16 <= Len(wire)
      BY DEF IInv
    <2>2. QED
      BY <2>1, ReadOfFramed
  <1>2. QED
    BY <1>1, InitIInv, NextIInv, PTL DEF Spec

(* A shortened packet that is accepted yields a prefix of what was sent.   *)
THEOREM AcceptedPrefix == Spec => []AcceptedIsPrefix
  <1>1. IInv => AcceptedIsPrefix
    BY ReadOfFramed DEF IInv, AcceptedIsPrefix
  <1>2. QED
    BY <1>1, InitIInv, NextIInv, PTL DEF Spec

(* What the crate writes it reads back, for every packet it can hold       *)
(* (rpc.rs 180-203).                                                       *)
THEOREM RewriteStable == Spec => []RewriteIsStable
  <1>1. TypeOK => RewriteIsStable
    <2> SUFFICES ASSUME TypeOK, payload # None
                 PROVE  /\ (HeaderPhase + Len(WriteTail(payload))) % 8 = 0
                        /\ Parses(WriteTail(payload))
                        /\ ReadPayload(WriteTail(payload)) = payload
      BY DEF RewriteIsStable
    <2>1. payload \in Seq(Bit) /\ Len(payload) % 8 = 0
      BY DEF TypeOK
    <2>2. /\ Framed(WriteTail(payload), payload) /\ Len(payload) + 16 <= Len(WriteTail(payload))
          /\ (HeaderPhase + Len(WriteTail(payload))) % 8 = 0
      BY <2>1, WrittenTail
    <2>3. BitsToBytes(payload) = payload
      BY <2>1, WholeBytesStay
    <2>4. QED
      BY <2>2, <2>3, ReadOfFramed
  <1>2. QED
    BY <1>1, SpecTypeOK, PTL
=============================================================================
