----------------------------- MODULE TLS13Client -----------------------------
(***************************************************************************)
(* The client side of the TLS 1.3 handshake of BoringSSL                   *)
(* (src/src/boringssl/src/ssl/tls13_client.cc): the thirteen state         *)
(* handlers do_*, the driver loop tls13_client_handshake that runs them    *)
(* until one returns something other than ssl_hs_ok, and the caller that   *)
(* re-enters the driver once the reason it stopped for is resolved.        *)
(*                                                                         *)
(* The server, the record layer and the asynchronous callbacks (peer       *)
(* certificate verification, cert_cb, the private-key signer, the Channel  *)
(* ID lookup) are the environment: the server may put any message of       *)
(* ServerMsgs in the single-slot inbox while the client waits for one,     *)
(* and every callback may answer with any of its results.                  *)
(*                                                                         *)
(* Bytes are abstracted: a message is a record of the fields the handlers  *)
(* branch on, with wf = FALSE standing for every decode error of that      *)
(* message; a secret is the record of what it was derived from; a record  *)
(* the client writes is logged in sent with the write key it was sealed    *)
(* under.                                                                  *)
(***************************************************************************)
EXTENDS Naturals, Sequences, SequencesExt, ExtensionCodec

CONSTANTS
  Groups,            \* key-exchange group ids the server may name
  SupportedGroups,   \* tls1_get_grouplist: the client's groups
  InitialGroup,      \* group of the key share in the first ClientHello
  GroupId,           \* group -> its (scaled u16) NamedGroup id on the wire
  KeyShareType,      \* TLSEXT_TYPE_key_share
  CookieType,        \* TLSEXT_TYPE_cookie
  HRRBlocks,         \* extension blocks a HelloRetryRequest may carry
  Ciphers,           \* cipher suite values the server may pick
  TLS13Ciphers,      \* the ones SSL_get_cipher_by_value knows and allows at TLS 1.3
  PRF,               \* cipher -> algorithm_prf (the hash of the key schedule)
  Alpns,             \* application protocols
  ExperimentVersion, \* ssl->version == TLS1_3_EXPERIMENT_VERSION
  ChannelIdOffered,  \* the client sent channel_id in its ClientHello
  MaxEarlyWrites,    \* bound on 0-RTT application records the caller writes
  NoGroup, NoAlpn, None

ASSUME SupportedGroups \subseteq Groups /\ InitialGroup \in SupportedGroups
ASSUME TLS13Ciphers \subseteq Ciphers /\ DOMAIN PRF = Ciphers
ASSUME ExperimentVersion \in BOOLEAN /\ ChannelIdOffered \in BOOLEAN
ASSUME DOMAIN GroupId = Groups /\ KeyShareType # CookieType

VARIABLES
  tls13_state,        \* hs->tls13_state
  wait,               \* "running" inside the driver loop, else what it returned
  inbox,              \* the message get_message would return, or None
  transcript,         \* messages folded into the transcript hash, in order
  sent,               \* records the client wrote: [msg, key]
  write_key,          \* client write epoch: "null", "early", "handshake", "application"
  read_key,           \* client read epoch: "null", "handshake", "application"
  key_share,          \* group of hs->key_share, NoGroup after reset
  retry_group,        \* hs->retry_group
  cookie,             \* hs->cookie was stowed
  received_hello_retry_request,
  early_data_offered, \* hs->early_data_offered
  in_early_data,      \* hs->in_early_data
  can_early_write,    \* hs->can_early_write
  early_data_accepted,\* ssl->early_data_accepted
  session_reused,     \* ssl->s3->session_reused
  session,            \* ssl->session: the session offered for resumption
  early_session,      \* hs->early_session: the session 0-RTT was sent under
  offered,            \* history: the session offered in the first ClientHello
  new_session,        \* hs->new_session
  key_schedule,       \* None until tls13_init_key_schedule, then the inputs folded in
  hs_secrets,         \* context the handshake traffic secrets were derived in
  app_secrets,        \* context the application traffic secrets were derived in
  resumption_secret,  \* tls13_derive_resumption_secret ran
  cert_request,       \* hs->cert_request
  has_certificate,    \* ssl_has_certificate(ssl) once the certificate is selected
  alpn_selected,      \* ssl->s3->alpn_selected
  channel_id_valid,   \* ssl->s3->tlsext_channel_id_valid
  rejected_signals    \* history: ssl_hs_early_data_rejected results returned

vars == <<tls13_state, wait, inbox, transcript, sent, write_key, read_key,
          key_share, retry_group, cookie, received_hello_retry_request,
          early_data_offered, in_early_data, can_early_write,
          early_data_accepted, session_reused, session, early_session, offered,
          new_session, key_schedule, hs_secrets, app_secrets,
          resumption_secret, cert_request, has_certificate, alpn_selected,
          channel_id_valid, rejected_signals>>

States == {"read_hello_retry_request", "send_second_client_hello",
           "read_server_hello", "process_change_cipher_spec",
           "read_encrypted_extensions", "read_certificate_request",
           "read_server_certificate", "read_server_certificate_verify",
           "read_server_finished", "send_end_of_early_data",
           "send_client_certificate", "send_client_certificate_verify",
           "complete_second_flight", "done"}

\* ssl_hs_wait_t values the driver can return, plus "running" and the
\* outcome "complete" (the loop left with state_done).
Waits == {"running", "read_message", "read_change_cipher_spec", "flush",
          "early_data_rejected", "certificate_verify", "x509_lookup",
          "private_key_operation", "channel_id_lookup", "error", "complete"}

(***************************************************************************)
(* Sessions and server messages.                                           *)
(***************************************************************************)
Sessions == [version_ok : BOOLEAN, cipher : TLS13Ciphers,
             context_valid : BOOLEAN, alpn : Alpns \cup {NoAlpn}]

\* wf = FALSE stands for a bad server_version, length prefix or trailing
\* bytes (lines 67-70); the extension block is parsed by ExtensionCodec.
HelloRetryRequests == [type : {"HRR"}, wf : BOOLEAN, extensions : HRRBlocks]
ServerHellos ==
  [type : {"SH"}, wf : BOOLEAN, cipher : Ciphers, psk : BOOLEAN,
   group : Groups \cup {NoGroup}, supported_versions : BOOLEAN]
EncryptedExtensions ==
  [type : {"EE"}, wf : BOOLEAN, alpn : Alpns \cup {NoAlpn},
   early_data : BOOLEAN, channel_id : BOOLEAN]
OtherServerMsgs == [type : {"CR", "Cert", "CV", "Fin"}, wf : BOOLEAN]

ServerMsgs == HelloRetryRequests \cup ServerHellos \cup EncryptedExtensions
                \cup OtherServerMsgs

(***************************************************************************)
(* Variable groups, so that each action can say what it leaves alone.     *)
(***************************************************************************)
helloVars   == <<key_share, retry_group, cookie, received_hello_retry_request>>
earlyVars   == <<early_data_offered, in_early_data, can_early_write,
                 early_data_accepted, early_session>>
sessionVars == <<session_reused, session, offered, new_session>>
secretVars  == <<key_schedule, hs_secrets, app_secrets, resumption_secret>>
keyVars     == <<write_key, read_key>>
authVars    == <<cert_request, has_certificate, alpn_selected, channel_id_valid>>

\* A record the client writes, sealed under the current write key.
Record(msg) == [msg |-> msg, key |-> write_key]

\* ssl_hs_error: the driver returns the error to the caller, which tears the
\* connection down; ssl3_send_alert first, where the code calls it.
Fatal(alert) ==
  /\ wait' = "error"
  /\ sent' = IF alert THEN Append(sent, Record("alert")) ELSE sent

\* ssl_hs_error after ssl3_send_alert with the description the properties
\* tell apart (the HelloRetryRequest's): the record is the alert's name.
FatalAlert(desc) ==
  /\ wait' = "error"
  /\ sent' = Append(sent, Record(desc))

\* get_message found no complete message: the handler returns
\* ssl_hs_read_message and will be re-entered in the same state.
NeedMessage ==
  /\ inbox = None
  /\ wait' = "read_message"

\* next_message: the message just handled is consumed.
Consume == inbox' = None

Running(state) == wait = "running" /\ tls13_state = state

(***************************************************************************)
(* Mutations: plausible bugs in the handlers below, one per property the  *)
(* runs check, so that each property is shown to catch a wrong handler.   *)
(* None of them is used by Spec.                                           *)
(***************************************************************************)

\* SSL_SESSION_dup with SSL_SESSION_INCLUDE_NONAUTH on resumption: the
\* whole offered session is carried over, not only its authentication.
NewSessionForFullDup(m) ==
  IF m.psk THEN [s \in DOMAIN session \cup {"auth"} |->
                   IF s = "auth" THEN "resumed"
                   ELSE IF s = "cipher" THEN m.cipher ELSE session[s]]
           ELSE [cipher |-> m.cipher, alpn |-> NoAlpn, auth |-> "none"]

\* The early secret always from zeroes: the PSK is not folded in.
EarlySecretInputAlwaysZero(psk) == "zero"

\* The PRF-hash check of the resumed session left out.
PskAcceptableNoPrfCheck(m) ==
  /\ session # None
  /\ session.version_ok
  /\ session.context_valid

\* The 0-RTT cross-check compares the cipher but not the ALPN.
EarlyDataParametersMatchNoAlpn(m) ==
  /\ early_session.cipher = new_session.cipher
  /\ ~m.channel_id

\* The second ClientHello goes out without restoring the null cipher.
do_send_second_client_hello_keeps_key ==
  /\ Running("send_second_client_hello")
  /\ key_share' = IF retry_group # NoGroup THEN retry_group ELSE key_share
  /\ transcript' = Append(transcript, "CH")
  /\ sent' = Append(sent, Record("CH"))
  /\ tls13_state' = "read_server_hello"
  /\ wait' = "flush"
  /\ UNCHANGED <<inbox, write_key, read_key, retry_group, cookie,
                 received_hello_retry_request, earlyVars, rejected_signals,
                 sessionVars, secretVars, authVars>>

\* CertificateRequest read without the resumption check of line 441.
do_read_certificate_request_on_resumption ==
  /\ Running("read_certificate_request")
  /\ \/ /\ NeedMessage
        /\ UNCHANGED <<tls13_state, inbox, transcript, sent, cert_request>>
     \/ /\ inbox # None /\ inbox.type # "CR"
        /\ tls13_state' = "read_server_certificate"
        /\ UNCHANGED <<wait, inbox, transcript, sent, cert_request>>
     \/ /\ inbox # None /\ inbox.type = "CR" /\ ~inbox.wf
        /\ Fatal(TRUE)
        /\ UNCHANGED <<tls13_state, inbox, transcript, cert_request>>
     \/ /\ inbox # None /\ inbox.type = "CR" /\ inbox.wf
        /\ cert_request' = TRUE
        /\ transcript' = Append(transcript, "CR")
        /\ Consume
        /\ tls13_state' = "read_server_certificate"
        /\ UNCHANGED <<wait, sent>>
  /\ UNCHANGED <<keyVars, helloVars, earlyVars, rejected_signals, sessionVars,
                 secretVars, has_certificate, alpn_selected, channel_id_valid>>

\* do_send_end_of_early_data switches to the handshake key after 0-RTT
\* without the ChangeCipherSpec of the experiment version.
do_send_end_of_early_data_no_ccs ==
  LET eoed == IF early_data_accepted THEN Append(sent, Record("end_of_early_data"))
                                     ELSE sent
  IN
  /\ Running("send_end_of_early_data")
  /\ can_early_write' = (can_early_write /\ ~early_data_accepted)
  /\ sent' = eoed
  /\ write_key' = IF early_data_offered THEN "handshake" ELSE write_key
  /\ tls13_state' = "send_client_certificate"
  /\ UNCHANGED <<wait, inbox, transcript, read_key, helloVars,
                 early_data_offered, in_early_data, early_data_accepted,
                 early_session, rejected_signals, sessionVars, secretVars,
                 authVars>>

\* The CertificateVerify queued before the private-key operation is known
\* to have completed, so a retry queues it again on re-entry.
do_send_client_certificate_verify_queues_on_retry ==
  /\ Running("send_client_certificate_verify")
  /\ \/ /\ ~has_certificate
        /\ tls13_state' = "complete_second_flight"
        /\ UNCHANGED <<wait, transcript, sent>>
     \/ /\ has_certificate
        /\ transcript' = Append(transcript, "ClientCV")
        /\ sent' = Append(sent, Record("ClientCV"))
        /\ \E r \in {"success", "retry"} :
             /\ tls13_state' = IF r = "success" THEN "complete_second_flight"
                                ELSE tls13_state
             /\ wait' = IF r = "success" THEN wait ELSE "private_key_operation"
  /\ UNCHANGED <<inbox, keyVars, helloVars, earlyVars, rejected_signals,
                 sessionVars, secretVars, authVars>>

\* A message other than CertificateRequest left for the next state without
\* moving to it: the handler is entered again and again on the same message.
do_read_certificate_request_stays ==
  /\ Running("read_certificate_request")
  /\ \/ /\ NeedMessage
        /\ UNCHANGED <<tls13_state, inbox, transcript, sent, cert_request>>
     \/ /\ inbox # None /\ inbox.type # "CR"
        /\ UNCHANGED <<tls13_state, wait, inbox, transcript, sent, cert_request>>
     \/ /\ inbox # None /\ inbox.type = "CR" /\ ~inbox.wf
        /\ Fatal(TRUE)
        /\ UNCHANGED <<tls13_state, inbox, transcript, cert_request>>
     \/ /\ inbox # None /\ inbox.type = "CR" /\ inbox.wf
        /\ cert_request' = TRUE
        /\ transcript' = Append(transcript, "CR")
        /\ Consume
        /\ tls13_state' = "read_server_certificate"
        /\ UNCHANGED <<wait, sent>>
  /\ UNCHANGED <<keyVars, helloVars, earlyVars, rejected_signals, sessionVars,
                 secretVars, has_certificate, alpn_selected, channel_id_valid>>

\* ext_early_data_parse_serverhello without its session_reused check.
ServerHelloTlsextValidNoResumeCheck(m) ==
  /\ m.wf
  /\ m.early_data => early_data_offered /\ ~received_hello_retry_request
  /\ m.channel_id => ChannelIdOffered

\* The caller goes on after ssl_hs_early_data_rejected without leaving
\* the early data state.
ResumeKeepsEarlyData ==
  /\ wait \in Waits \ {"running", "error", "complete"}
  /\ wait = "read_message" => inbox # None
  /\ wait' = "running"
  /\ UNCHANGED <<tls13_state, inbox, transcript, sent, keyVars, helloVars,
                 earlyVars, rejected_signals, sessionVars, secretVars, authVars>>

(***************************************************************************)
(* do_read_hello_retry_request (lines 54-157).                             *)
(***************************************************************************)

\* The types do_read_hello_retry_request passes to ssl_parse_extensions.
HelloRetryRequestTypes == {KeyShareType, CookieType}

\* The cookie extension holds a u16-length-prefixed (scaled: one length
\* byte), non-empty cookie and nothing else (lines 93-100).
CookieValid(body) == Len(body) >= 2 /\ body[1] = Len(body) - 1

\* The group of a key_share body of one (scaled u16) group id, among the
\* client's groups (tls1_get_grouplist, lines 114-125).
SupportedGroupNamed(id) == \E g \in SupportedGroups : GroupId[g] = id

\* The check of lines 131-136 left out: a HelloRetryRequest may ask again
\* for the group whose share the client already sent.
HelloRetryRequestAlertSameShare(m) ==
  LET r == ssl_parse_extensions(m.extensions, HelloRetryRequestTypes, FALSE)
      ks == r.data[KeyShareType]
  IN IF ~m.wf \/ m.extensions = <<>> THEN "decode_error"
     ELSE IF ~r.ok THEN r.alert
     ELSE IF CookieType \in r.present /\ ~CookieValid(r.data[CookieType])
          THEN "decode_error"
     ELSE IF KeyShareType \notin r.present THEN "none"
     ELSE IF Len(ks) # 1 THEN "decode_error"
     ELSE IF ~SupportedGroupNamed(ks[1]) THEN "illegal_parameter"
     ELSE "none"

\* The checks of lines 67-139 in the order the code makes them: the alert
\* the handler sends, or "none" when the HelloRetryRequest is accepted.
HelloRetryRequestAlert(m) ==
  LET r == ssl_parse_extensions(m.extensions, HelloRetryRequestTypes, FALSE)
      ks == r.data[KeyShareType]
  IN IF ~m.wf \/ m.extensions = <<>> THEN "decode_error"
     ELSE IF ~r.ok THEN r.alert
     ELSE IF CookieType \in r.present /\ ~CookieValid(r.data[CookieType])
          THEN "decode_error"
     ELSE IF KeyShareType \notin r.present THEN "none"
     ELSE IF Len(ks) # 1 THEN "decode_error"
     ELSE IF ~SupportedGroupNamed(ks[1]) \/ GroupId[key_share] = ks[1]
          THEN "illegal_parameter"
     ELSE "none"

\* The group a well-formed, accepted HelloRetryRequest names, or NoGroup.
RequestedGroup(m) ==
  LET r == ssl_parse_extensions(m.extensions, HelloRetryRequestTypes, FALSE)
  IN IF KeyShareType \in r.present
     THEN CHOOSE g \in SupportedGroups : GroupId[g] = r.data[KeyShareType][1]
     ELSE NoGroup

do_read_hello_retry_request ==
  /\ Running("read_hello_retry_request")
  /\ \/ /\ NeedMessage
        /\ UNCHANGED <<tls13_state, inbox, transcript, sent, helloVars, rejected_signals>>
     \/ /\ inbox # None /\ inbox.type # "HRR"
        /\ tls13_state' = "read_server_hello"
        /\ UNCHANGED <<wait, inbox, transcript, sent, helloVars, rejected_signals>>
     \/ /\ inbox # None /\ inbox.type = "HRR"
        /\ HelloRetryRequestAlert(inbox) # "none"
        /\ FatalAlert(HelloRetryRequestAlert(inbox))
        /\ UNCHANGED <<tls13_state, inbox, transcript, helloVars, rejected_signals>>
     \/ /\ inbox # None /\ inbox.type = "HRR"
        /\ HelloRetryRequestAlert(inbox) = "none"
        /\ cookie' = (cookie \/ CookieType \in
                       ssl_parse_extensions(inbox.extensions, HelloRetryRequestTypes, FALSE).present)
        /\ key_share' = IF RequestedGroup(inbox) # NoGroup THEN NoGroup ELSE key_share
        /\ retry_group' = IF RequestedGroup(inbox) # NoGroup THEN RequestedGroup(inbox)
                                                         ELSE retry_group
        /\ transcript' = Append(transcript, "HRR")
        /\ Consume
        /\ received_hello_retry_request' = TRUE
        /\ tls13_state' = "send_second_client_hello"
        /\ wait' = IF in_early_data THEN "early_data_rejected" ELSE "running"
        /\ rejected_signals' = IF in_early_data THEN rejected_signals + 1
                                                ELSE rejected_signals
        /\ UNCHANGED sent
  /\ UNCHANGED <<keyVars, earlyVars, sessionVars,
                 secretVars, authVars>>

(***************************************************************************)
(* do_send_second_client_hello (lines 159-171). ssl_write_client_hello     *)
(* (handshake_client.cc) builds the second ClientHello: it carries a fresh *)
(* share for retry_group if the server named one, else replays the old    *)
(* share; it is hashed into the transcript and queued under the null      *)
(* cipher restored just before.                                            *)
(***************************************************************************)
do_send_second_client_hello ==
  /\ Running("send_second_client_hello")
  /\ write_key' = "null"
  /\ key_share' = IF retry_group # NoGroup THEN retry_group ELSE key_share
  /\ transcript' = Append(transcript, "CH")
  /\ sent' = Append(sent, [msg |-> "CH", key |-> "null"])
  /\ tls13_state' = "read_server_hello"
  /\ wait' = "flush"
  /\ UNCHANGED <<inbox, read_key, retry_group, cookie,
                 received_hello_retry_request, earlyVars, rejected_signals,
                 sessionVars, secretVars, authVars>>

(***************************************************************************)
(* do_read_server_hello (lines 173-356).                                   *)
(***************************************************************************)

\* The pre_shared_key checks of lines 255-287: a session was offered, its
\* version is the negotiated one, its PRF hash is the new cipher's, and it
\* belongs to this SSL_CTX's session id context.
PskAcceptable(m) ==
  /\ session # None
  /\ session.version_ok
  /\ PRF[session.cipher] = PRF[m.cipher]
  /\ session.context_valid

\* Everything checked before the key schedule is set up (lines 187-303):
\* decoding and version, a known TLS 1.3 cipher, supported_versions only in
\* the experimental version, and an acceptable PSK if one was named.
ServerHelloAcceptable(m) ==
  /\ m.wf
  /\ m.cipher \in TLS13Ciphers
  /\ m.supported_versions => ExperimentVersion
  /\ m.psk => PskAcceptable(m)

\* The early-secret input of lines 314-321: the resumption master secret
\* of the session on PSK resumption, hash_len zero bytes otherwise.
EarlySecretInput(psk) == IF psk THEN "psk" ELSE "zero"

\* The session state lines 288-306 establish: on resumption a copy of the
\* session's authentication state (SSL_SESSION_DUP_AUTH_ONLY) with
\* ssl->session released, otherwise a fresh session; either way the
\* negotiated cipher.
NewSessionFor(m) ==
  [cipher |-> m.cipher, alpn |-> NoAlpn,
   auth   |-> IF m.psk THEN "resumed" ELSE "none"]

\* Lines 323-338, after the key schedule holds the early secret: BoringSSL
\* does not support psk_ke, so a ServerHello without key_share fails with
\* missing_extension; ssl_ext_key_share_parse_serverhello rejects a share
\* for a group other than the one the client sent (with an alert of its
\* own, outside src/). "none" when the share is the client's.
ServerHelloKeyShareAlert(m) ==
  IF m.group = NoGroup THEN "missing_extension"
  ELSE IF m.group # key_share THEN "alert" ELSE "none"

\* Lines 340-356: the DHE output folded in, the ServerHello hashed and the
\* handshake secrets derived over the transcript ending with it; then
\* process_change_cipher_spec, once the server's ChangeCipherSpec is read
\* in the experiment version.
DeriveHandshakeSecrets(m) ==
  /\ key_schedule' = <<EarlySecretInput(m.psk), m.group>>
  /\ transcript' = Append(transcript, "SH")
  /\ hs_secrets' = [schedule |-> key_schedule', transcript |-> transcript']
  /\ Consume
  /\ tls13_state' = "process_change_cipher_spec"
  /\ wait' = IF ExperimentVersion THEN "read_change_cipher_spec" ELSE "running"

do_read_server_hello ==
  /\ Running("read_server_hello")
  /\ \/ /\ NeedMessage
        /\ UNCHANGED <<tls13_state, inbox, transcript, sent, key_share,
                       sessionVars, secretVars>>
     \/ /\ inbox # None
        /\ ~(inbox.type = "SH" /\ ServerHelloAcceptable(inbox))
        /\ Fatal(TRUE)
        /\ UNCHANGED <<tls13_state, inbox, transcript, key_share,
                       sessionVars, secretVars>>
     \/ /\ inbox # None /\ inbox.type = "SH"
        /\ ServerHelloAcceptable(inbox)
        /\ session_reused' = inbox.psk
        /\ new_session' = NewSessionFor(inbox)
        /\ session' = IF inbox.psk THEN None ELSE session
        /\ \/ /\ ServerHelloKeyShareAlert(inbox) # "none"
              /\ key_schedule' = <<EarlySecretInput(inbox.psk)>>
              /\ FatalAlert(ServerHelloKeyShareAlert(inbox))
              /\ UNCHANGED <<tls13_state, inbox, transcript, hs_secrets>>
           \/ /\ ServerHelloKeyShareAlert(inbox) = "none"
              /\ DeriveHandshakeSecrets(inbox)
              /\ UNCHANGED sent
        /\ UNCHANGED key_share
        /\ UNCHANGED <<app_secrets, resumption_secret>>
  /\ UNCHANGED <<keyVars, retry_group, cookie, received_hello_retry_request,
                 offered, earlyVars, rejected_signals, authVars>>

(***************************************************************************)
(* do_process_change_cipher_spec (lines 358-378): the server handshake     *)
(* read key, and the client handshake write key unless 0-RTT was offered.  *)
(***************************************************************************)
do_process_change_cipher_spec ==
  /\ Running("process_change_cipher_spec")
  /\ read_key' = "handshake"
  /\ \/ /\ early_data_offered
        /\ UNCHANGED <<write_key, sent>>
     \/ /\ ~early_data_offered
        /\ sent' = IF ExperimentVersion THEN Append(sent, Record("CCS")) ELSE sent
        /\ write_key' = "handshake"
  /\ tls13_state' = "read_encrypted_extensions"
  /\ UNCHANGED <<wait, inbox, transcript, helloVars, earlyVars,
                 rejected_signals, sessionVars, secretVars, authVars>>

(***************************************************************************)
(* do_read_encrypted_extensions (lines 380-436).                           *)
(***************************************************************************)

\* ssl_parse_serverhello_tlsext (t1_lib.cc) accepts only extensions the
\* last ClientHello sent: early_data needs 0-RTT offered in a ClientHello
\* that was not a retry (a second ClientHello never offers it) and a
\* resumed session; channel_id needs it offered; wf = FALSE stands for its
\* other errors.
ServerHelloTlsextValid(m) ==
  /\ m.wf
  /\ m.early_data => /\ early_data_offered /\ ~received_hello_retry_request
                     /\ session_reused
  /\ m.channel_id => ChannelIdOffered

\* Lines 412-424: 0-RTT data was sent under early_session, so an accepted
\* 0-RTT needs the same cipher and ALPN, and no Channel ID.
EarlyDataParametersMatch(m) ==
  /\ early_session.cipher = new_session.cipher
  /\ early_session.alpn = m.alpn
  /\ ~m.channel_id

do_read_encrypted_extensions ==
  /\ Running("read_encrypted_extensions")
  /\ \/ /\ NeedMessage
        /\ UNCHANGED <<tls13_state, inbox, transcript, sent, early_data_accepted,
                       rejected_signals, new_session, alpn_selected, channel_id_valid>>
     \/ /\ inbox # None
        /\ ~(inbox.type = "EE" /\ ServerHelloTlsextValid(inbox))
        /\ Fatal(TRUE)
        /\ UNCHANGED <<tls13_state, inbox, transcript, early_data_accepted,
                       rejected_signals, new_session, alpn_selected, channel_id_valid>>
     \/ /\ inbox # None /\ inbox.type = "EE"
        /\ ServerHelloTlsextValid(inbox)
        /\ alpn_selected' = inbox.alpn
        /\ early_data_accepted' = inbox.early_data
        /\ channel_id_valid' = inbox.channel_id
        /\ new_session' = IF inbox.alpn # NoAlpn
                            THEN [new_session EXCEPT !.alpn = inbox.alpn]
                            ELSE new_session
        /\ \/ /\ inbox.early_data /\ ~EarlyDataParametersMatch(inbox)
              /\ Fatal(FALSE)
              /\ UNCHANGED <<tls13_state, inbox, transcript, rejected_signals>>
           \/ /\ inbox.early_data => EarlyDataParametersMatch(inbox)
              /\ transcript' = Append(transcript, "EE")
              /\ Consume
              /\ tls13_state' = "read_certificate_request"
              /\ wait' = IF in_early_data /\ ~inbox.early_data
                           THEN "early_data_rejected" ELSE "running"
              /\ rejected_signals' = IF in_early_data /\ ~inbox.early_data
                                       THEN rejected_signals + 1
                                       ELSE rejected_signals
              /\ UNCHANGED sent
  /\ UNCHANGED <<keyVars, helloVars, early_data_offered, in_early_data,
                 can_early_write, early_session, session_reused, session,
                 offered, secretVars, cert_request, has_certificate>>

(***************************************************************************)
(* do_read_certificate_request (lines 438-497): skipped on resumption,     *)
(* optional otherwise.                                                     *)
(***************************************************************************)
do_read_certificate_request ==
  /\ Running("read_certificate_request")
  /\ \/ /\ session_reused
        /\ tls13_state' = "read_server_finished"
        /\ UNCHANGED <<wait, inbox, transcript, sent, cert_request>>
     \/ /\ ~session_reused
        /\ NeedMessage
        /\ UNCHANGED <<tls13_state, inbox, transcript, sent, cert_request>>
     \/ /\ ~session_reused /\ inbox # None /\ inbox.type # "CR"
        /\ tls13_state' = "read_server_certificate"
        /\ UNCHANGED <<wait, inbox, transcript, sent, cert_request>>
     \/ /\ ~session_reused /\ inbox # None /\ inbox.type = "CR"
        /\ ~inbox.wf
        /\ Fatal(TRUE)
        /\ UNCHANGED <<tls13_state, inbox, transcript, cert_request>>
     \/ /\ ~session_reused /\ inbox # None /\ inbox.type = "CR"
        /\ inbox.wf
        /\ cert_request' = TRUE
        /\ transcript' = Append(transcript, "CR")
        /\ Consume
        /\ tls13_state' = "read_server_certificate"
        /\ UNCHANGED <<wait, sent>>
  /\ UNCHANGED <<keyVars, helloVars, earlyVars, rejected_signals, sessionVars,
                 secretVars, has_certificate, alpn_selected, channel_id_valid>>

(***************************************************************************)
(* do_read_server_certificate (lines 499-514).                             *)
(***************************************************************************)
do_read_server_certificate ==
  /\ Running("read_server_certificate")
  /\ \/ /\ NeedMessage
        /\ UNCHANGED <<tls13_state, inbox, transcript, sent>>
     \/ /\ inbox # None
        /\ ~(inbox.type = "Cert" /\ inbox.wf)
        /\ Fatal(TRUE)
        /\ UNCHANGED <<tls13_state, inbox, transcript>>
     \/ /\ inbox # None /\ inbox.type = "Cert" /\ inbox.wf
        /\ transcript' = Append(transcript, "Cert")
        /\ Consume
        /\ tls13_state' = "read_server_certificate_verify"
        /\ UNCHANGED <<wait, sent>>
  /\ UNCHANGED <<keyVars, helloVars, earlyVars, rejected_signals, sessionVars,
                 secretVars, authVars>>

(***************************************************************************)
(* do_read_server_certificate_verify (lines 516-542). ssl_verify_peer_cert *)
(* runs first, on every entry, and may ask to be retried.                  *)
(***************************************************************************)
VerifyResults == {"ok", "invalid", "retry"}

do_read_server_certificate_verify ==
  /\ Running("read_server_certificate_verify")
  /\ \/ /\ NeedMessage
        /\ UNCHANGED <<inbox, transcript, sent, new_session>>
     \/ /\ inbox # None
        /\ \E verify \in VerifyResults :
             \/ /\ verify = "invalid"
                /\ Fatal(TRUE)
                /\ UNCHANGED <<inbox, transcript, new_session>>
             \/ /\ verify = "retry"
                /\ wait' = "certificate_verify"
                /\ UNCHANGED <<inbox, transcript, sent, new_session>>
             \/ /\ verify = "ok"
                /\ ~(inbox.type = "CV" /\ inbox.wf)
                /\ Fatal(TRUE)
                /\ UNCHANGED <<inbox, transcript, new_session>>
             \/ /\ verify = "ok"
                /\ inbox.type = "CV" /\ inbox.wf
                /\ new_session' = [new_session EXCEPT !.auth = "certificate"]
                /\ transcript' = Append(transcript, "CV")
                /\ Consume
                /\ UNCHANGED <<wait, sent>>
  /\ tls13_state' = IF wait' = "running" THEN "read_server_finished"
                                         ELSE tls13_state
  /\ UNCHANGED <<keyVars, helloVars, earlyVars, rejected_signals,
                 session_reused, session, offered, secretVars, authVars>>

(***************************************************************************)
(* do_read_server_finished (lines 544-562): check the Finished MAC, then   *)
(* fold a zero input into the key schedule (the master secret) and derive  *)
(* the application traffic secrets over the transcript through Finished.   *)
(***************************************************************************)
do_read_server_finished ==
  /\ Running("read_server_finished")
  /\ \/ /\ NeedMessage
        /\ UNCHANGED <<tls13_state, inbox, transcript, sent, key_schedule,
                       app_secrets>>
     \/ /\ inbox # None
        /\ ~(inbox.type = "Fin" /\ inbox.wf)
        /\ Fatal(TRUE)
        /\ UNCHANGED <<tls13_state, inbox, transcript, key_schedule, app_secrets>>
     \/ /\ inbox # None /\ inbox.type = "Fin" /\ inbox.wf
        /\ transcript' = Append(transcript, "Fin")
        /\ key_schedule' = Append(key_schedule, "zero")
        /\ app_secrets' = [schedule |-> key_schedule', transcript |-> transcript']
        /\ Consume
        /\ tls13_state' = "send_end_of_early_data"
        /\ UNCHANGED <<wait, sent>>
  /\ UNCHANGED <<keyVars, helloVars, earlyVars, rejected_signals, sessionVars,
                 hs_secrets, resumption_secret, authVars>>

(***************************************************************************)
(* do_send_end_of_early_data (lines 564-586): end accepted 0-RTT with the  *)
(* end_of_early_data alert under the early key, then, if 0-RTT was         *)
(* offered, switch to the client handshake write key deferred by           *)
(* do_process_change_cipher_spec.                                          *)
(***************************************************************************)
do_send_end_of_early_data ==
  LET eoed == IF early_data_accepted THEN Append(sent, Record("end_of_early_data"))
                                     ELSE sent
  IN
  /\ Running("send_end_of_early_data")
  /\ can_early_write' = (can_early_write /\ ~early_data_accepted)
  /\ \/ /\ early_data_offered
        /\ sent' = IF ExperimentVersion THEN Append(eoed, Record("CCS")) ELSE eoed
        /\ write_key' = "handshake"
     \/ /\ ~early_data_offered
        /\ sent' = eoed
        /\ UNCHANGED write_key
  /\ tls13_state' = "send_client_certificate"
  /\ UNCHANGED <<wait, inbox, transcript, read_key, helloVars,
                 early_data_offered, in_early_data, early_data_accepted,
                 early_session, rejected_signals, sessionVars, secretVars,
                 authVars>>

(***************************************************************************)
(* do_send_client_certificate (lines 588-618). cert_cb returns 1 (go on),  *)
(* 0 (error) or -1 (retry later); a client without cert_cb behaves as 1.   *)
(* The certificate selected may be empty: has_certificate is its outcome.  *)
(***************************************************************************)
CertCbResults == {1, 0, -1}

do_send_client_certificate ==
  /\ Running("send_client_certificate")
  /\ \/ /\ ~cert_request
        /\ tls13_state' = "complete_second_flight"
        /\ UNCHANGED <<wait, transcript, sent, has_certificate>>
     \/ /\ cert_request
        /\ \E rv \in CertCbResults :
             \/ /\ rv = 0
                /\ Fatal(TRUE)
                /\ UNCHANGED <<tls13_state, transcript, has_certificate>>
             \/ /\ rv = -1
                /\ wait' = "x509_lookup"
                /\ UNCHANGED <<tls13_state, transcript, sent, has_certificate>>
             \/ /\ rv = 1
                /\ has_certificate' \in BOOLEAN
                /\ transcript' = Append(transcript, "ClientCert")
                /\ sent' = Append(sent, Record("ClientCert"))
                /\ tls13_state' = "send_client_certificate_verify"
                /\ UNCHANGED wait
  /\ UNCHANGED <<inbox, keyVars, helloVars, earlyVars, rejected_signals,
                 sessionVars, secretVars, cert_request, alpn_selected,
                 channel_id_valid>>

(***************************************************************************)
(* do_send_client_certificate_verify (lines 620-643): sign with the        *)
(* private key, which may complete, ask for a retry, or fail.              *)
(***************************************************************************)
PrivateKeyResults == {"success", "retry", "failure"}

do_send_client_certificate_verify ==
  /\ Running("send_client_certificate_verify")
  /\ \/ /\ ~has_certificate
        /\ tls13_state' = "complete_second_flight"
        /\ UNCHANGED <<wait, transcript, sent>>
     \/ /\ has_certificate
        /\ \E r \in PrivateKeyResults :
             \/ /\ r = "success"
                /\ transcript' = Append(transcript, "ClientCV")
                /\ sent' = Append(sent, Record("ClientCV"))
                /\ tls13_state' = "complete_second_flight"
                /\ UNCHANGED wait
             \/ /\ r = "retry"
                /\ wait' = "private_key_operation"
                /\ UNCHANGED <<tls13_state, transcript, sent>>
             \/ /\ r = "failure"
                /\ Fatal(FALSE)
                /\ UNCHANGED <<tls13_state, transcript>>
  /\ UNCHANGED <<inbox, keyVars, helloVars, earlyVars, rejected_signals,
                 sessionVars, secretVars, authVars>>

(***************************************************************************)
(* do_complete_second_flight (lines 645-684): the Channel ID assertion if  *)
(* negotiated (its lookup may fail or still be pending), the Finished      *)
(* message, then the application traffic keys and the resumption secret.  *)
(***************************************************************************)
ChannelIdResults == {"failure", "pending", "ready"}

\* Lines 668-683, after |flight| has been queued.
SendFinished(flight) ==
  LET t == transcript \o flight
  IN /\ transcript' = Append(t, "ClientFin")
     /\ sent' = sent \o [i \in 1 .. Len(flight) |-> Record(flight[i])]
                     \o <<Record("ClientFin")>>
     /\ read_key' = "application"
     /\ write_key' = "application"
     /\ resumption_secret' = TRUE
     /\ tls13_state' = "done"
     /\ wait' = "flush"

do_complete_second_flight ==
  /\ Running("complete_second_flight")
  /\ \/ /\ ~channel_id_valid
        /\ SendFinished(<<>>)
     \/ /\ channel_id_valid
        /\ \E r \in ChannelIdResults :
             \/ /\ r = "failure"
                /\ Fatal(FALSE)
                /\ UNCHANGED <<tls13_state, transcript, keyVars, resumption_secret>>
             \/ /\ r = "pending"
                /\ wait' = "channel_id_lookup"
                /\ UNCHANGED <<tls13_state, transcript, sent, keyVars,
                               resumption_secret>>
             \/ /\ r = "ready"
                /\ SendFinished(<<"ChannelID">>)
  /\ UNCHANGED <<inbox, helloVars, earlyVars, rejected_signals, sessionVars,
                 key_schedule, hs_secrets, app_secrets, authVars>>

(***************************************************************************)
(* tls13_client_handshake (lines 686-746): the loop runs the handler of    *)
(* the current state (the actions above) while they return ssl_hs_ok and  *)
(* returns ssl_hs_ok to its caller once the state is state_done.           *)
(***************************************************************************)
tls13_client_handshake ==
  /\ Running("done")
  /\ wait' = "complete"
  /\ UNCHANGED <<tls13_state, inbox, transcript, sent, keyVars, helloVars,
                 earlyVars, rejected_signals, sessionVars, secretVars, authVars>>

(***************************************************************************)
(* The caller (ssl_run_handshake, handshake.cc) re-enters the driver once  *)
(* what it stopped for is resolved: a message has arrived, output was     *)
(* flushed, an asynchronous callback is ready to be asked again. On       *)
(* ssl_hs_early_data_rejected it stops 0-RTT writes and discards the      *)
(* buffered early data before it goes on.                                  *)
(***************************************************************************)
Suspended == Waits \ {"running", "error", "complete"}

Resume ==
  /\ wait \in Suspended
  /\ wait = "read_message" => inbox # None
  /\ wait' = "running"
  /\ \/ /\ wait = "early_data_rejected"
        /\ in_early_data' = FALSE
        /\ can_early_write' = FALSE
     \/ /\ wait # "early_data_rejected"
        /\ UNCHANGED <<in_early_data, can_early_write>>
  /\ UNCHANGED <<tls13_state, inbox, transcript, sent, keyVars, helloVars,
                 early_data_offered, early_data_accepted, early_session,
                 rejected_signals, sessionVars, secretVars, authVars>>

\* The application writes 0-RTT data (SSL_write) while the handshake waits
\* and hs->can_early_write allows it; it goes out under the current key.
EarlyWrite ==
  /\ wait \in Suspended
  /\ can_early_write
  /\ Len(SelectSeq(sent, LAMBDA r : r.msg = "app_data")) < MaxEarlyWrites
  /\ sent' = Append(sent, Record("app_data"))
  /\ UNCHANGED <<tls13_state, wait, inbox, transcript, keyVars, helloVars,
                 earlyVars, rejected_signals, sessionVars, secretVars, authVars>>

\* The server's next message reaches the client while it waits for one.
ServerSend ==
  /\ wait = "read_message"
  /\ inbox = None
  /\ inbox' \in ServerMsgs
  /\ UNCHANGED <<tls13_state, wait, transcript, sent, keyVars, helloVars,
                 earlyVars, rejected_signals, sessionVars, secretVars, authVars>>

(***************************************************************************)
(* The handshake enters tls13_client_handshake after ssl_client_hello was  *)
(* sent (under the null cipher) with a key share for InitialGroup, maybe a *)
(* session to resume and 0-RTT under it, in which case the client is in    *)
(* early data with the early traffic key installed. handshake_client.cc    *)
(* has already read the server's first message, a ServerHello or          *)
(* HelloRetryRequest, and left it unconsumed.                              *)
(***************************************************************************)
Init ==
  /\ tls13_state = "read_hello_retry_request"
  /\ wait = "running"
  /\ inbox \in {m \in ServerMsgs : m.type \in {"HRR", "SH"}}
  /\ transcript = <<"CH">>
  /\ sent = <<[msg |-> "CH", key |-> "null"]>>
  /\ offered \in Sessions \cup {None}
  /\ session = offered
  /\ early_data_offered \in IF offered = None THEN {FALSE} ELSE BOOLEAN
  /\ early_session = IF early_data_offered THEN offered ELSE None
  /\ in_early_data = early_data_offered
  /\ can_early_write = early_data_offered
  /\ write_key = IF early_data_offered THEN "early" ELSE "null"
  /\ read_key = "null"
  /\ key_share = InitialGroup
  /\ retry_group = NoGroup
  /\ cookie = FALSE
  /\ received_hello_retry_request = FALSE
  /\ early_data_accepted = FALSE
  /\ session_reused = FALSE
  /\ new_session = None
  /\ key_schedule = None
  /\ hs_secrets = None
  /\ app_secrets = None
  /\ resumption_secret = FALSE
  /\ cert_request = FALSE
  /\ has_certificate = FALSE
  /\ alpn_selected = NoAlpn
  /\ channel_id_valid = FALSE
  /\ rejected_signals = 0

Handlers ==
  \/ do_read_hello_retry_request
  \/ do_send_second_client_hello
  \/ do_read_server_hello
  \/ do_process_change_cipher_spec
  \/ do_read_encrypted_extensions
  \/ do_read_certificate_request
  \/ do_read_server_certificate
  \/ do_read_server_certificate_verify
  \/ do_read_server_finished
  \/ do_send_end_of_early_data
  \/ do_send_client_certificate
  \/ do_send_client_certificate_verify
  \/ do_complete_second_flight
  \/ tls13_client_handshake

\* The handshake has ended, with the connection established or torn down.
Finished == wait \in {"complete", "error"}

Terminated == Finished /\ UNCHANGED vars

Next ==
  \/ Handlers
  \/ Resume
  \/ EarlyWrite
  \/ ServerSend
  \/ Terminated

Spec == Init /\ [][Next]_vars

(***************************************************************************)
(* Fairness. The driver loop runs while no handler has suspended it; the   *)
(* caller calls SSL_do_handshake again while the handshake is suspended    *)
(* (a blocking caller does, a non-blocking one does once the socket or the *)
(* callback is ready); the transport eventually delivers the server's next *)
(* message. A callback may ask for a retry any number of times, but not    *)
(* forever: a step that does not suspend on certificate_verify,            *)
(* x509_lookup, private_key_operation or channel_id_lookup is only enabled *)
(* while the handler runs, between suspensions, hence strong fairness.     *)
(* 0-RTT writes are the application's and get no fairness.                 *)
(***************************************************************************)
AsyncRetries ==
  {"certificate_verify", "x509_lookup", "private_key_operation",
   "channel_id_lookup"}

Fairness ==
  /\ WF_vars(Handlers)
  /\ WF_vars(Resume)
  /\ WF_vars(ServerSend)
  /\ SF_vars(Handlers /\ wait' \notin AsyncRetries)

FairSpec == Spec /\ Fairness

(***************************************************************************)
(* Invariants and properties.                                              *)
(***************************************************************************)
Keys == {"null", "early", "handshake", "application"}
Messages == {"CH", "HRR", "SH", "EE", "CR", "Cert", "CV", "Fin",
             "ClientCert", "ClientCV", "ChannelID", "ClientFin"}
\* "alert" is a fatal alert whose description no property tells apart.
Alerts == {"alert", "decode_error", "illegal_parameter", "unsupported_extension",
           "missing_extension"}
SecretContexts == [schedule : Seq({"psk", "zero"} \cup Groups),
                   transcript : Seq(Messages)]

TypeOK ==
  /\ tls13_state \in States
  /\ wait \in Waits
  /\ inbox \in ServerMsgs \cup {None}
  /\ transcript \in Seq(Messages)
  /\ sent \in Seq([msg : Messages \cup Alerts \cup {"CCS", "end_of_early_data",
                                                "app_data"}, key : Keys])
  /\ write_key \in Keys /\ read_key \in Keys \ {"early"}
  /\ key_share \in Groups \cup {NoGroup} /\ retry_group \in Groups \cup {NoGroup}
  /\ {cookie, received_hello_retry_request, early_data_offered, in_early_data,
      can_early_write, early_data_accepted, session_reused, resumption_secret,
      cert_request, has_certificate, channel_id_valid} \subseteq BOOLEAN
  /\ {session, early_session, offered} \subseteq Sessions \cup {None}
  /\ new_session \in [cipher : TLS13Ciphers, alpn : Alpns \cup {NoAlpn},
                      auth : {"none", "resumed", "certificate"}] \cup {None}
  /\ key_schedule \in Seq({"psk", "zero"} \cup Groups) \cup {None}
  /\ {hs_secrets, app_secrets} \subseteq SecretContexts \cup {None}
  /\ alpn_selected \in Alpns \cup {NoAlpn}
  /\ rejected_signals \in Nat

\* The handshake traffic secrets are derived from the early secret of the
\* session actually resumed (zeroes on a full handshake), then the DHE
\* output for the group of the share the client last sent (the retry group
\* after a HelloRetryRequest that named one), over the transcript ending
\* with the ServerHello. do_read_server_hello, do_read_hello_retry_request
\* and do_send_second_client_hello all contribute.
HandshakeSecretsBound ==
  hs_secrets # None =>
    /\ hs_secrets.schedule = <<IF session_reused THEN "psk" ELSE "zero", key_share>>
    /\ retry_group # NoGroup => key_share = retry_group
    /\ IsPrefix(hs_secrets.transcript, transcript)
    /\ Last(hs_secrets.transcript) = "SH"

\* A HelloRetryRequest is answered as spec section 8 requires: one with an
\* empty extension block is rejected with decode_error, one whose only
\* extension is a share for the group the first ClientHello already sent
\* is rejected with illegal_parameter, and the client only ever retries
\* with a group it supports other than that one (the checks of
\* do_read_hello_retry_request, lines 67-139, on the bytes the server sent).
RejectedHelloRetryRequest ==
  /\ wait = "error" /\ tls13_state = "read_hello_retry_request"
  /\ inbox # None /\ inbox.type = "HRR"

HelloRetryRequestChecked ==
  /\ retry_group \in (SupportedGroups \ {InitialGroup}) \cup {NoGroup}
  /\ RejectedHelloRetryRequest =>
       /\ inbox.extensions = <<>> => Last(sent).msg = "decode_error"
       /\ (/\ inbox.wf /\ Split(inbox.extensions) # Malformed
           /\ Split(inbox.extensions) =
                <<[type |-> KeyShareType, body |-> <<GroupId[InitialGroup]>>]>>)
            => Last(sent).msg = "illegal_parameter"

\* The application traffic secrets are only derived after a handshake of
\* the TLS 1.3 shape: at most one HelloRetryRequest, then ServerHello,
\* EncryptedExtensions, and, unless the session was resumed, an optional
\* CertificateRequest, the server Certificate and CertificateVerify, then
\* Finished; and the server is authenticated, by a verified certificate or
\* by the resumed session. The skip rules of do_read_certificate_request
\* and the retry of do_read_server_certificate_verify decide this.
ServerFlights ==
  LET hellos == {<<"CH">>, <<"CH", "HRR", "CH">>}
      auth   == IF session_reused THEN {<<>>}
                ELSE {<<"Cert", "CV">>, <<"CR", "Cert", "CV">>}
  IN {h \o <<"SH", "EE">> \o a \o <<"Fin">> : h \in hellos, a \in auth}

ServerAuthenticatedBeforeAppKeys ==
  app_secrets # None =>
    /\ app_secrets.transcript \in ServerFlights
    /\ app_secrets.schedule = hs_secrets.schedule \o <<"zero">>
    /\ new_session.auth = IF session_reused THEN "resumed" ELSE "certificate"

\* Every record the client writes is sealed under the key its message
\* belongs to: ClientHellos (the second one too, after 0-RTT switched the
\* key) under the null cipher, 0-RTT data and end_of_early_data under the
\* early key, the second flight under the client handshake key. The key
\* switches of do_send_second_client_hello, do_process_change_cipher_spec,
\* do_send_end_of_early_data and the caller's 0-RTT writes decide this.
ExpectedKey(msg) ==
  CASE msg = "CH" -> {"null"}
    [] msg \in {"app_data", "end_of_early_data"} -> {"early"}
    [] msg \in {"ClientCert", "ClientCV", "ChannelID", "ClientFin"} -> {"handshake"}
    [] OTHER -> Keys

RecordsUnderExpectedKey ==
  \A i \in 1 .. Len(sent) : sent[i].key \in ExpectedKey(sent[i].msg)

\* The client's second flight: Certificate if the server sent a
\* CertificateRequest, CertificateVerify if a certificate was then
\* selected, Channel ID if negotiated, then Finished, each once and in
\* this order, whatever retries cert_cb, the private-key signer and the
\* Channel ID lookup asked for on the way (do_send_client_certificate,
\* do_send_client_certificate_verify, do_complete_second_flight); what was
\* written is what was hashed, and the flight is whole once done.
ClientFlightMsgs == {"ClientCert", "ClientCV", "ChannelID", "ClientFin"}

ExpectedFlight ==
  (IF cert_request THEN <<"ClientCert">> ELSE <<>>)
    \o (IF cert_request /\ has_certificate THEN <<"ClientCV">> ELSE <<>>)
    \o (IF channel_id_valid THEN <<"ChannelID">> ELSE <<>>)
    \o <<"ClientFin">>

ClientFlightWellFormed ==
  LET written == SelectSeq([i \in 1 .. Len(sent) |-> sent[i].msg],
                           LAMBDA x : x \in ClientFlightMsgs)
      hashed  == SelectSeq(transcript, LAMBDA x : x \in ClientFlightMsgs)
  IN /\ written = hashed
     /\ IsPrefix(written, ExpectedFlight)
     /\ tls13_state = "done" => written = ExpectedFlight

\* Under that fairness every handshake ends, established or torn down,
\* and stays ended: no sequence of retries, suspensions and server
\* messages keeps tls13_client_handshake from reaching state_done or an
\* error (the loop of lines 687-744 and every handler's next state).
HandshakeTerminates == <>[]Finished

\* In the experiment version (TLS1_3_EXPERIMENT_VERSION) the client sends
\* a ChangeCipherSpec before its first record under the handshake key:
\* do_process_change_cipher_spec does so when 0-RTT was not offered,
\* do_send_end_of_early_data when it was deferred; a record under the
\* handshake key with no ChangeCipherSpec before it is one a middlebox-
\* compatible peer would not expect.
ChangeCipherSpecBeforeHandshakeKey ==
  ExperimentVersion =>
    \A i \in 1 .. Len(sent) :
      sent[i].key = "handshake" =>
        \E j \in 1 .. i - 1 : sent[j].msg = "CCS"

\* A PSK is only accepted for the session the client offered, and only if
\* that session's version, PRF hash and context match; the handshake then
\* no longer holds the original session (ssl_set_session(ssl, NULL)).
ResumptionCompatible ==
  session_reused =>
    /\ offered # None
    /\ offered.version_ok /\ offered.context_valid
    /\ PRF[offered.cipher] = PRF[new_session.cipher]
    /\ session = None

\* Once EncryptedExtensions accepted 0-RTT, the handshake continues only
\* with the cipher and ALPN the 0-RTT data was sent under, no Channel ID,
\* on a resumed session.
EarlyDataParametersKept ==
  (early_data_accepted /\ Contains(transcript, "EE")) =>
    /\ early_session.cipher = new_session.cipher
    /\ early_session.alpn = alpn_selected
    /\ ~channel_id_valid
    /\ session_reused

\* The caller is told at most once that 0-RTT was rejected, and a
\* handshake that completes with 0-RTT offered has told it exactly when
\* the server did not accept it (HelloRetryRequest or EncryptedExtensions).
EarlyDataRejectedOnce ==
  /\ rejected_signals <= 1
  /\ (wait = "complete" /\ early_data_offered) =>
       (rejected_signals = 1 <=> ~early_data_accepted)

\* "If not sending early data, set client traffic keys now so that alerts
\* are encrypted" (do_process_change_cipher_spec): once the client reads
\* under the server handshake key and no longer writes 0-RTT data, a fatal
\* alert it sends is sealed under the client handshake key.
AlertSent == Len(sent') > Len(sent) /\ Last(sent').msg \in Alerts

AlertsUnderHandshakeKey ==
  [][(AlertSent /\ read_key = "handshake" /\ ~can_early_write)
       => Last(sent').key = "handshake"]_sent


(***************************************************************************)
(* Refinement: the handshake implements TLS13HandshakeAbstract. The phase  *)
(* is read off the secrets derived so far (handshake secrets at           *)
(* ServerHello, application secrets at the server's Finished, the         *)
(* resumption secret with the client's Finished) and the error return;    *)
(* resumption counts once the handshake secrets exist, so that a          *)
(* ServerHello rejected after session_reused was set negotiates nothing;  *)
(* 0-RTT is accepted once do_read_encrypted_extensions has got past its   *)
(* cross-check, and rejected once the caller has been told.               *)
(***************************************************************************)
AbsPhase ==
  CASE wait = "error"     -> "failed"
    [] resumption_secret  -> "established"
    [] app_secrets # None -> "authenticated"
    [] hs_secrets # None  -> "negotiated"
    [] OTHER              -> "start"

AbsEarly ==
  CASE ~early_data_offered -> "none"
    [] early_data_accepted /\ tls13_state # "read_encrypted_extensions" -> "accepted"
    [] rejected_signals > 0 -> "rejected"
    [] OTHER -> "offered"

Abs == INSTANCE TLS13HandshakeAbstract
         WITH phase <- AbsPhase,
              resumed <- session_reused /\ hs_secrets # None,
              early <- AbsEarly,
              psk_offered <- offered # None

\* Every behaviour of the handshake, with its server, callbacks and caller,
\* is one the abstract handshake allows: the order negotiate, authenticate,
\* establish; resumption only of an offered session; 0-RTT decided once,
\* accepted only on a resumption, decided before the server is
\* authenticated; no step out of failure or establishment.
AbstractHandshake == Abs!Spec

=============================================================================
