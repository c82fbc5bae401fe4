---------------------------- MODULE ExtensionCodec ----------------------------
(***************************************************************************)
(* The extension-block parser ssl_parse_extensions (t1_lib.cc, which is    *)
(* not part of this repository's sources: modelled from spec section 4.3), *)
(* as tls13_process_new_session_ticket and the handshake handlers call it. *)
(*                                                                         *)
(* A block is a sequence of bytes. Widths are scaled down: an extension is *)
(* one type byte, one length byte and that many payload bytes (the wire    *)
(* format's u16 type and u16 length-prefixed body). The parser first       *)
(* splits the block, rejecting any length prefix that overruns the block   *)
(* and any duplicate type (tls1_check_duplicate_extensions), then walks    *)
(* the extensions: a type the caller's table does not know is an error    *)
(* unless the caller passes ignore_unknown; a known one sets its slot.     *)
(***************************************************************************)
EXTENDS Naturals, Sequences, SequencesExt

\* Result of Split on a block whose lengths do not account for its bytes.
Malformed == "malformed"

\* CBS_get_u16 + CBS_get_u16_length_prefixed, repeated until the block is
\* empty: the extensions in order, or Malformed.
RECURSIVE SplitFrom(_, _)
SplitFrom(rest, acc) ==
  IF rest = <<>> THEN acc
  ELSE IF Len(rest) < 2 \/ rest[2] > Len(rest) - 2 THEN Malformed
  ELSE SplitFrom(SubSeq(rest, 3 + rest[2], Len(rest)),
                 Append(acc, [type |-> rest[1],
                              body |-> SubSeq(rest, 3, 2 + rest[2])]))

Split(block) == SplitFrom(block, <<>>)

\* tls1_check_duplicate_extensions: no type occurs twice.
DistinctTypes(exts) ==
  \A i, j \in 1 .. Len(exts) : i # j => exts[i].type # exts[j].type

\* ssl_parse_extensions(cbs, &alert, ext_types, ..., ignore_unknown):
\* ok, the alert on failure, and for each known type present its body
\* (present = the types of known whose out_present was set).
ssl_parse_extensions(block, known, ignore_unknown) ==
  LET exts == Split(block)
      fail(alert) == [ok |-> FALSE, alert |-> alert, present |-> {},
                      data |-> [t \in {} |-> <<>>]]
  IN
  IF exts = Malformed \/ ~DistinctTypes(exts) THEN fail("decode_error")
  ELSE IF ~ignore_unknown /\ \E i \in 1 .. Len(exts) : exts[i].type \notin known
       THEN fail("unsupported_extension")
  ELSE LET found == {i \in 1 .. Len(exts) : exts[i].type \in known}
       IN [ok      |-> TRUE,
           alert   |-> "none",
           present |-> {exts[i].type : i \in found},
           data    |-> [t \in {exts[i].type : i \in found} |->
                          exts[CHOOSE i \in found : exts[i].type = t].body]]
=============================================================================
