----------------------------- MODULE Descriptors -----------------------------
(***************************************************************************)
(* How libusb0.dll parses the descriptors of a configuration (descriptors.c). *)
(* A configuration comes as one buffer, a sequence of descriptors; the     *)
(* numbers of interfaces and of endpoints in it say what to expect, and    *)
(* descriptors of other types, which are kept as "extra", may be anywhere. *)
(*                                                                         *)
(* A descriptor is [type, length, alt, count]: alt is its byte 3, the      *)
(* alternate setting of an interface, and count its byte 4, the number of  *)
(* interfaces or endpoints, whatever these bytes are in other types.  The  *)
(* length is the true one, or invalid (less than 2).                       *)
(***************************************************************************)
EXTENDS Integers, Sequences, SequencesExt

(* usbi.h, lusb0_usb.h. *)
DESC_HEADER_LENGTH == 2
INTERFACE_DESC_LENGTH == 9
ENDPOINT_DESC_LENGTH == 7
USB_MAXINTERFACES == 32
USB_MAXENDPOINTS == 32

(* The types the parsers know, those of a class or a vendor ("class"), and  *)
(* that of a descriptor that was left zero ("none").                       *)
Proper == {"device", "config", "interface", "endpoint"}
Types == Proper \cup {"class", "none"}
Descriptor == [type : Types, length : Nat, alt : Nat, count : Nat]

(* struct usb_endpoint_descriptor, usb_interface_descriptor and            *)
(* usb_config_descriptor; an interface is the sequence of its settings.    *)
(* endpoint: whether the pointer to the endpoints was ever assigned; a     *)
(* wild one is what the memory held, and nothing is said of what a program *)
(* finds there.                                                            *)
EndpointDescriptor == [descriptor : Descriptor, extra : Seq(Descriptor)]
InterfaceDescriptor ==
    [descriptor : Descriptor, extra : Seq(Descriptor),
     endpoint : {"set", "wild"}, endpoints : Seq(EndpointDescriptor)]
ConfigDescriptor == [extra : Seq(Descriptor), interfaces : Seq(Seq(InterfaceDescriptor))]

(* The result of a parser: whether it went well, what it has found, and    *)
(* the rest of the buffer.  What is left behind by one that fails is not   *)
(* told apart.                                                             *)
Parsed(value, rest) == [ok |-> TRUE, value |-> value, rest |-> rest]
Failed == [ok |-> FALSE, value |-> <<>>, rest |-> <<>>]

Size(buffer) ==
    LET upto[k \in 0 .. Len(buffer)] == IF k = 0 THEN 0 ELSE upto[k - 1] + buffer[k].length
    IN upto[Len(buffer)]

NoDescriptor == [type |-> "none", length |-> 0, alt |-> 0, count |-> 0]
NoEndpoint == [descriptor |-> NoDescriptor, extra |-> <<>>]

(* The loops that skip descriptors of a class or a vendor.                 *)
Skip(buffer) ==
    LET stops == {k \in DOMAIN buffer : buffer[k].type \in Proper
                                          \/ buffer[k].length < DESC_HEADER_LENGTH}
        n == IF stops = {} THEN Len(buffer) ELSE (CHOOSE k \in stops : \A j \in stops : k <= j) - 1
        rest == SubSeq(buffer, n + 1, Len(buffer))
    IN IF rest # <<>> /\ Head(rest).length < DESC_HEADER_LENGTH THEN Failed
       ELSE Parsed(SubSeq(buffer, 1, n), rest)

(* Something else where an endpoint is expected leaves the endpoint empty. *)
usb_parse_endpoint(buffer) ==
    IF Head(buffer).type # "endpoint" THEN Parsed(NoEndpoint, buffer)
    ELSE LET extra == Skip(Tail(buffer)) IN
         IF ~extra.ok THEN Failed
         ELSE Parsed([descriptor |-> IF Head(buffer).length >= ENDPOINT_DESC_LENGTH
                                     THEN Head(buffer) ELSE NoDescriptor,
                      extra |-> extra.value], extra.rest)

(* What one parser has found, and one thing more.                          *)
Extended(before, next) ==
    IF before.ok /\ next.ok THEN Parsed(Append(before.value, next.value), next.rest) ELSE Failed

(* The first n endpoints.  At the end of the buffer the header is read     *)
(* beyond it: with what is found there the endpoint is empty, or the       *)
(* parser has run out.                                                     *)
NextEndpoint(buffer, beyond) ==
    IF buffer # <<>> THEN usb_parse_endpoint(buffer)
    ELSE IF beyond THEN Parsed(NoEndpoint, buffer) ELSE Failed
Endpoints(buffer, n, beyond) ==
    LET after[k \in 0 .. n] ==
            IF k = 0 THEN Parsed(<<>>, buffer)
            ELSE LET before == after[k - 1]
                 IN Extended(before, NextEndpoint(before.rest, beyond))
    IN after[n]

\* Mutant: every interface that follows is taken for an alternate setting.
IsInterface(buffer) ==
    Size(buffer) >= INTERFACE_DESC_LENGTH /\ Head(buffer).type = "interface"
IsAlternate(buffer) ==
    /\ Size(buffer) >= INTERFACE_DESC_LENGTH
    /\ Head(buffer).type = "interface"
    /\ Head(buffer).alt # 0

(* One setting of an interface.  Its first descriptor is taken for that of *)
(* an interface whatever its type.  If a descriptor of a configuration or  *)
(* a device comes next, the parser returns at once, and the pointer to the *)
(* endpoints stays unset whatever their number.                            *)
AltSetting(buffer, beyond) ==
    LET extra == Skip(Tail(buffer))
        endpoints == Endpoints(extra.rest, Head(buffer).count, beyond)
        With(pointer, found) == [descriptor |-> Head(buffer), extra |-> extra.value,
                                 endpoint |-> pointer, endpoints |-> found]
    IN IF ~extra.ok THEN Failed
       ELSE IF extra.rest # <<>> /\ Head(extra.rest).type \in {"config", "device"}
       THEN Parsed(With("wild", <<>>), extra.rest)
       ELSE IF Head(buffer).count > USB_MAXENDPOINTS \/ ~endpoints.ok THEN Failed
       ELSE Parsed(With("set", endpoints.value), endpoints.rest)

(* The alternate settings of an interface, as long as one follows: not     *)
(* more of them than descriptors.                                          *)
usb_parse_interface(buffer, beyond) ==
    LET after[k \in 0 .. Len(buffer)] ==
            IF k = 0 THEN Parsed(<<>>, buffer)
            ELSE LET before == after[k - 1]
                     follows == IF k = 1 THEN Size(before.rest) >= INTERFACE_DESC_LENGTH
                                ELSE IsAlternate(before.rest)
                 IN IF ~before.ok \/ ~follows THEN before
                    ELSE Extended(before, AltSetting(before.rest, beyond))
    IN after[Len(buffer)]

(* n interfaces; of the descriptors skipped before each, the first lot is  *)
(* kept.                                                                   *)
Interfaces(buffer, n, beyond) ==
    LET after[k \in 0 .. n] ==
            IF k = 0 THEN Parsed([extra |-> <<>>, interfaces |-> <<>>], buffer)
            ELSE LET before == after[k - 1]
                     skipped == Skip(before.rest)
                     next == usb_parse_interface(skipped.rest, beyond)
                 IN IF before.ok /\ skipped.ok /\ next.ok
                    THEN Parsed([extra |-> IF before.value.extra = <<>> THEN skipped.value
                                           ELSE before.value.extra,
                                 interfaces |-> Append(before.value.interfaces, next.value)],
                                next.rest)
                    ELSE Failed
    IN after[n]

usb_parse_configuration(buffer, beyond) ==
    IF Head(buffer).count > USB_MAXINTERFACES THEN Failed
    ELSE Interfaces(Tail(buffer), Head(buffer).count, beyond)

(***************************************************************************)
(* The reference: the buffer a device sends for a parsed configuration.    *)
(***************************************************************************)
FlatEndpoint(e) ==
    (IF e.descriptor = NoDescriptor THEN <<>> ELSE <<e.descriptor>>) \o e.extra
FlatSetting(s) ==
    <<s.descriptor>> \o s.extra \o
    FlattenSeq([k \in DOMAIN s.endpoints |-> FlatEndpoint(s.endpoints[k])])
FlatInterface(i) == FlattenSeq([k \in DOMAIN i |-> FlatSetting(i[k])])
Flat(c) == c.extra \o FlattenSeq([k \in DOMAIN c.interfaces |-> FlatInterface(c.interfaces[k])])

(* Its numbers are right, and its descriptors are where they belong: one   *)
(* without interfaces has no place for others.                             *)
IsExtra(extra) ==
    \A d \in ToSet(extra) : d.type \notin Proper /\ d.length >= DESC_HEADER_LENGTH
IsEndpoint(e) ==
    /\ e.descriptor.type = "endpoint" /\ e.descriptor.length >= ENDPOINT_DESC_LENGTH
    /\ IsExtra(e.extra)
IsSetting(s, k) ==
    /\ s.descriptor.type = "interface" /\ s.descriptor.length = INTERFACE_DESC_LENGTH
    /\ s.descriptor.alt = k - 1
    /\ s.endpoint = "set" /\ s.descriptor.count = Len(s.endpoints) /\ Len(s.endpoints) <= USB_MAXENDPOINTS
    /\ IsExtra(s.extra)
    /\ \A e \in ToSet(s.endpoints) : IsEndpoint(e)
IsConfiguration(head, c) ==
    /\ head.type = "config"
    /\ head.count = Len(c.interfaces) /\ Len(c.interfaces) <= USB_MAXINTERFACES
    /\ IsExtra(c.extra) /\ (c.interfaces = <<>> => c.extra = <<>>)
    /\ \A i \in ToSet(c.interfaces) : i # <<>> /\ \A k \in DOMAIN i : IsSetting(i[k], k)
=============================================================================
