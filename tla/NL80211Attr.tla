---------------------------- MODULE NL80211Attr ----------------------------
(***************************************************************************)
(* Netlink attributes (net/nl80211_attribute.cpp, .h) and the attribute part *)
(* of packets (net/nl80211_packet.cpp).  The whole purpose of these classes  *)
(* is a byte layout, so an attribute is its byte buffer data_, the members   *)
(* are operators on buffers, and what a member with a bool and an out        *)
(* parameter returns is a sequence of at most one value, empty for false.    *)
(* The header of a packet is a record: sequence numbers and ports belong to  *)
(* NetlinkTransport.  Buffers come from wificond or from the kernel and are  *)
(* well formed; integers are little endian, and the values of a run stay     *)
(* below 2^31 so that TLC can compute them.                                  *)
(***************************************************************************)
EXTENDS Integers, Sequences, SequencesExt

Byte == 0 .. 255

NLA_HDRLEN == 4
NLA_ALIGN(n) == 4 * ((n + 3) \div 4)

Zeros(n) == [i \in 1 .. n |-> 0]

\* What a byte of an integer counts, the lowest first.
Place == <<1, 256, 65536, 16777216>>

IntBytes(v, width) ==
    [i \in 1 .. width |-> IF i <= 4 THEN (v \div Place[i]) % 256
                          ELSE IF v < 0 THEN 255 ELSE 0]

Unsigned(b) ==
    LET rest[i \in 1 .. Len(b) + 1] ==
          IF i > Len(b) THEN 0 ELSE b[i] + 256 * rest[i + 1]
    IN  rest[1]

Signed(b) ==
    IF b[Len(b)] < 128 THEN Unsigned(b)
    ELSE -1 - Unsigned([i \in DOMAIN b |-> 255 - b[i]])

nla_len(buf, p) == buf[p] + 256 * buf[p + 1]
nla_type(buf, p) == buf[p + 2] + 256 * buf[p + 3]

-----------------------------------------------------------------------------
(* Construction *)

BaseNL80211Attr(id, raw_buffer) ==
    IntBytes(NLA_HDRLEN + Len(raw_buffer), 2) \o IntBytes(id, 2)
        \o raw_buffer \o Zeros(NLA_ALIGN(Len(raw_buffer)) - Len(raw_buffer))

IntAttr(id, value, width) == BaseNL80211Attr(id, IntBytes(value, width))

\* A string is stored with its terminator.
StringAttr(id, str) == BaseNL80211Attr(id, Append(str, 0))

NestedAttr(id) == BaseNL80211Attr(id, <<>>)

WithLength(attr, len) == IntBytes(len, 2) \o SubSeq(attr, 3, Len(attr))

AddAttribute(nested, attr) ==
    WithLength(nested, nla_len(nested, 1) + Len(attr)) \o attr

AddFlagAttribute(nested, id) == AddAttribute(nested, BaseNL80211Attr(id, <<>>))

\* A nested attribute with these sub-attributes, added in this order.
Nest(id, attrs) ==
    LET added[n \in 0 .. Len(attrs)] ==
          IF n = 0 THEN NestedAttr(id) ELSE AddAttribute(added[n - 1], attrs[n])
    IN  added[Len(attrs)]

-----------------------------------------------------------------------------
(* Access *)

IsValid(attr) ==
    /\ Len(attr) >= NLA_HDRLEN
    /\ NLA_ALIGN(nla_len(attr, 1)) = Len(attr)

IsValidInt(attr, width) ==
    /\ IsValid(attr)
    /\ Len(attr) = NLA_ALIGN(width) + NLA_HDRLEN
    /\ nla_len(attr, 1) = width + NLA_HDRLEN

GetAttributeId(attr) == nla_type(attr, 1)

RawValue(attr) == SubSeq(attr, NLA_HDRLEN + 1, nla_len(attr, 1))

StringValue(attr) ==
    LET raw == RawValue(attr)
    IN  SubSeq(raw, 1, Max({0} \cup {i \in DOMAIN raw : raw[i] # 0}))

\* What a nested attribute holds: a buffer of attributes, like a packet's.
Content(attr) == SubSeq(attr, NLA_HDRLEN + 1, Len(attr))

\* One turn of the loop over a buffer: the attribute at the position reached, and
\* the position after it; the last attribute may be cut off.
NextAttribute(buf, s) ==
    LET next == s.at + NLA_ALIGN(nla_len(buf, s.at))
    IN  IF s.at + NLA_HDRLEN - 1 > Len(buf) THEN s
        ELSE [at |-> next,
              attrs |-> Append(s.attrs, SubSeq(buf, s.at, Min({next - 1, Len(buf)})))]

\* The attributes of a buffer in order.  Each has a header, which bounds the turns.
AttributesOf(buf) ==
    LET turns == Len(buf) \div NLA_HDRLEN
        after[n \in 0 .. turns] ==
          IF n = 0 THEN [at |-> 1, attrs |-> <<>>] ELSE NextAttribute(buf, after[n - 1])
    IN  after[turns].attrs

\* What Op makes of the value of a call that succeeded.
IfFound(found, Op(_)) == IF found = <<>> THEN <<>> ELSE Op(found[1])

\* The first attribute with the id, if it is valid.
GetAttributeImpl(buf, id) ==
    LET attrs == AttributesOf(buf)
        found == {i \in DOMAIN attrs : GetAttributeId(attrs[i]) = id}
    IN  IF found # {} /\ IsValid(attrs[Min(found)]) THEN <<attrs[Min(found)]>> ELSE <<>>

HasAttribute(buf, id) == GetAttributeImpl(buf, id) # <<>>

GetInt(buf, id, width) ==
    IfFound(GetAttributeImpl(buf, id),
            LAMBDA a : IF IsValidInt(a, width) THEN <<Unsigned(RawValue(a))>> ELSE <<>>)

GetSigned(buf, id, width) ==
    IfFound(GetAttributeImpl(buf, id),
            LAMBDA a : IF IsValidInt(a, width) THEN <<Signed(RawValue(a))>> ELSE <<>>)

GetBytes(buf, id) ==
    IfFound(GetAttributeImpl(buf, id), LAMBDA a : <<RawValue(a)>>)

GetString(buf, id) ==
    IfFound(GetAttributeImpl(buf, id), LAMBDA a : <<StringValue(a)>>)

\* A nested attribute, as the buffer of what it holds.
GetNested(buf, id) ==
    IfFound(GetAttributeImpl(buf, id), LAMBDA a : <<Content(a)>>)

\* All or nothing.
GetListOf(buf, Valid(_), Value(_)) ==
    LET attrs == AttributesOf(buf)
    IN  IF \A i \in DOMAIN attrs : Valid(attrs[i])
        THEN <<[i \in DOMAIN attrs |-> Value(attrs[i])]>> ELSE <<>>

GetListOfNestedAttributes(buf) == GetListOf(buf, IsValid, Content)

GetListOfAttributes(buf, width) ==
    GetListOf(buf, LAMBDA a : IsValidInt(a, width), LAMBDA a : a)

(* Mutant: an attribute that is there already is not merged.                *)
MergeKeepsFirst(attr, other) == attr

\* On an error the attribute stays as it was; the caller ignores the result.
Merge(attr, other) ==
    IF ~IsValid(other) \/ GetAttributeId(attr) # GetAttributeId(other) THEN attr
    ELSE LET ours == SubSeq(attr, 1, nla_len(attr, 1))
             total == ours \o RawValue(other)
         IN  WithLength(total, Len(total)) \o Zeros(NLA_ALIGN(Len(total)) - Len(total))

-----------------------------------------------------------------------------
(* Packets *)

NL80211Packet(type, command) ==
    [type |-> type, command |-> command, flags |-> {"NLM_F_REQUEST"}, body |-> <<>>]

AddFlag(packet, flag) == [packet EXCEPT !.flags = @ \cup {flag}]

PacketAdd(packet, attr) == [packet EXCEPT !.body = @ \o attr]

\* Fails on a broken attribute, otherwise a copy of each.
GetAllAttributes(packet) ==
    GetListOf(packet.body, IsValid,
              LAMBDA a : BaseNL80211Attr(GetAttributeId(a), RawValue(a)))
=============================================================================
