------------------------------- MODULE MCCore -------------------------------
(***************************************************************************)
(* The Rust core and the Rust relay client for TLC: the machines of Core   *)
(* and the byte formats.  They share no state, so a behaviour works on the *)
(* one part that `focus` names and the others stay as they are.            *)
(***************************************************************************)
EXTENDS Core, Sequences

Strings(T, m) == UNION {[1..k -> T] : k \in 0..m}

(* Identities of the store, and blobs that are and are not envelopes *)
MCValue == Strings({0, 1}, 1) \cup {<<1, 0>>}
MCRaw == {<<>>, <<1>>, <<0, 1>>, <<1, 1>>}

(* Values of each format: with and without its optional part, of several lengths *)
Sample ==
    [c \in {"bundle", "pqxdh", "records", "backup", "sealed", "challenge", "base64", "qr", "pow",
           "identity", "padding", "solve"} |->
        CASE c = "bundle" -> [fields : {<<<<x>>, <<y, 1>>>> : x \in 0..1, y \in 0..2},
                              option : {<<>>, <<<<0, 1>>>>, <<<<1, 2>>>>}]
          [] c = "pqxdh" -> [fields : {<<r, 1, <<x>>, 1, <<2>>, s, 1, <<x, 3>>, s>> :
                                          r \in 0..2, x \in {0, 1}, s \in {<<>>, <<1>>}},
                             option : {<<>>, <<1, <<2>>>>}]
          [] c = "records" -> Strings(Strings({0, 2}, 2), 2) \ {<<>>}
          [] c = "backup" -> Strings(Strings({0, 2}, 2), 2)
          [] c = "sealed" -> Strings({0, 1, 2}, 2)
          [] c = "challenge" -> [context : Strings({0, 1, 2}, 2), nonce : {<<0, 1>>, <<3, 2>>},
                                 difficulty : {1, 5}]
          [] c = "base64" -> Strings({0, 6, 9, 15}, 4)
          [] c = "qr" -> [1..3 -> {0, 6, 9, 15}]
          [] c = "identity" -> [key : Strings({1, 2}, 2), plaintext : Strings({0, 1}, 2)]
          [] c = "padding" -> {[i \in 1..k |-> x] : k \in 0..9, x \in 0..1}
          [] c = "solve" -> [hash : [0..2 -> {<<0, 0>>, <<0, 1>>, <<1, 0>>, <<0, 4>>}], difficulty : 1..8]
          [] c = "pow" -> [digest : [1..3 -> {0, 1, 2, 4, 8, 15}], difficulty : 1..12]]

VARIABLES focus

VARIABLES codec, side, value, secret, sent, bytes, out, stage
format == <<codec, side, value, secret, sent, bytes, out, stage>>
B == INSTANCE Codecs

CoreInit ==
    /\ focus \in {"prekeys", "ratchet", "fanout", "store", "client", "format"}
    /\ IF focus = "prekeys" THEN Init ELSE WithLowWatermark(0)
    /\ R!Init /\ FanoutInit /\ S!Init /\ C!Init
    /\ IF focus = "format" THEN B!Init
       ELSE /\ codec = "none" /\ side = "none" /\ value = <<>> /\ secret = FALSE
            /\ sent = <<>> /\ bytes = <<>> /\ out = <<>> /\ stage = "none"

CoreNext ==
    /\ UNCHANGED focus
    /\ \/ focus = "prekeys" /\ Next /\ UNCHANGED <<ratchet, fanout, store, client, format>>
       \/ focus = "ratchet" /\ R!Next /\ UNCHANGED <<vars, fanout, store, client, format>>
       \/ focus = "fanout" /\ FanoutNext /\ UNCHANGED <<vars, ratchet, store, client, format>>
       \/ focus = "store" /\ S!Next /\ UNCHANGED <<vars, ratchet, fanout, client, format>>
       \/ focus = "client" /\ C!Next /\ UNCHANGED <<vars, ratchet, fanout, store, format>>
       \/ focus = "format" /\ B!Next /\ UNCHANGED <<vars, ratchet, fanout, store, client>>

CoreSpec == CoreInit /\ [][CoreNext]_<<focus, vars, ratchet, fanout, store, client, format>>

-----------------------------------------------------------------------------
(* Every variable of every part has its type. *)
CoreTypeOK ==
    /\ TypeOK /\ R!TypeOK /\ FanoutTypeOK /\ S!TypeOK /\ C!TypeOK
    /\ focus = "format" => B!TypeOK

(* Codecs: the decoders of a format agree on all bytes. *)
DecodersAgree == focus = "format" => B!DecodersAgree

(* Codecs: every decoder reads what was written, and damaged bytes never give a part of it. *)
ReadsWhatWasWritten == focus = "format" => B!ReadsWhatWasWritten

(* Codecs: the three tests of a proof of work are the test of leading zeros. *)
WorkIsLeadingZeros == focus = "format" => B!WorkIsLeadingZeros
=============================================================================
