---------------------------- MODULE MCTLS13Client ----------------------------
(***************************************************************************)
(* Model-checking instance of TLS13Client: three groups of which the      *)
(* client supports two (so a HelloRetryRequest can name the offered group, *)
(* the other supported one, or an unsupported one), three TLS 1.3 ciphers *)
(* of which two share a PRF hash (resumption accepts a different cipher    *)
(* of the same hash, which 0-RTT must still reject) plus one that is not  *)
(* a TLS 1.3 suite, and one ALPN protocol (two in MCTwoAlpns).                                *)
(***************************************************************************)
EXTENDS TLS13Client

CONSTANTS G1, G2, G3, AES128, CHACHA, AES256, RC4, ALPN1, ALPN2

MCGroups == {G1, G2, G3}
MCSupportedGroups == {G1, G2}
MCCiphers == {AES128, CHACHA, AES256, RC4}
MCTLS13Ciphers == {AES128, CHACHA, AES256}
MCPRF == [c \in MCCiphers |-> IF c = AES256 THEN "sha384" ELSE "sha256"]
MCAlpns == {ALPN1}

\* Two protocols, so that 0-RTT sent under one can meet a server that
\* selects the other, not only one that selects none.
MCTwoAlpns == {ALPN1, ALPN2}
MCGroupId == [g \in MCGroups |-> CASE g = G1 -> 1 [] g = G2 -> 2 [] g = G3 -> 3]

\* HelloRetryRequest extension blocks (type 0 key_share, 1 cookie, 2 an
\* unknown one): empty; a share for G1 (the one sent), G2, G3 (not
\* supported); a cookie, an empty cookie; share and cookie; a share with
\* a trailing byte; a duplicate share; an unknown extension; a length
\* that overruns the block; the share of G1 behind an empty cookie.
MCHRRBlocks ==
  {<<>>, <<0, 1, 1>>, <<0, 1, 2>>, <<0, 1, 3>>, <<1, 2, 1, 7>>, <<1, 1, 0>>,
   <<0, 1, 2, 1, 2, 1, 7>>, <<0, 2, 2, 2>>, <<0, 1, 2, 0, 1, 2>>, <<2, 0>>,
   <<0, 3, 2>>, <<1, 1, 0, 0, 1, 1>>}

\* A session either passes both the version and the context check of
\* do_read_server_hello or fails both (they fail the same way).
MCSessions == {s \in [version_ok : BOOLEAN, cipher : MCTLS13Ciphers,
                        context_valid : BOOLEAN, alpn : Alpns \cup {NoAlpn}] : s.version_ok = s.context_valid}

\* The server's messages: every well-formed variant the handlers tell
\* apart, and one malformed message of each type. G3 behaves as G2 in a
\* ServerHello (a share the client did not send) and is left to the
\* HelloRetryRequest; supported_versions appears on one ServerHello.
AllServerMsgs == HelloRetryRequests \cup ServerHellos \cup EncryptedExtensions
                   \cup OtherServerMsgs
MalformedMsgs ==
  {m \in AllServerMsgs : ~m.wf /\ \A f \in DOMAIN m \ {"type", "wf"} :
                                  IF f = "extensions" THEN m[f] = <<>>
                                  ELSE m[f] \in {FALSE, NoGroup, NoAlpn, AES128}}
MCServerMsgs ==
  MalformedMsgs \cup
  {m \in AllServerMsgs :
     /\ m.wf
     /\ m.type = "SH" => /\ m.group # G3
                         /\ m.supported_versions =>
                               m.cipher = AES128 /\ ~m.psk /\ m.group = G1}
=============================================================================
