# TLA+ model of the BoringSSL TLS 1.3 client handshake

This directory models the client side of the TLS 1.3 handshake in
`src/src/boringssl/src/ssl/tls13_client.cc`. It is written in TLA+ and checked with TLC.

## 1. Inventory

### Components

| Component | Source | State it keeps | Status |
|---|---|---|---|
| Handshake state machine | `tls13_client.cc` 35-746 | `hs->tls13_state`, the wait reason, key-share group, retry group, cookie, HRR flag, 0-RTT flags, `cert_request`, negotiated cipher/ALPN/Channel ID | modelled (`TLS13Client`) |
| Caller of the driver (`ssl_run_handshake`, outside `src/`) | spec §2, §4 | which wait it is resolving, early-data-rejected handling | modelled from the spec (`Resume`, `EarlyWrite`) |
| Key schedule (`tls13_enc.cc`, outside `src/`) | calls at 313-340, 490-500, 550-560, 668-683 | running secret, handshake/application secrets, read/write epochs | partly: a secret is the record of its inputs and transcript |
| Transcript hasher | `ssl_hash_message` calls | transcript hash | partly: the sequence of messages hashed |
| Extension codec (`t1_lib.cc`, outside `src/`) | `ssl_parse_extensions` calls, spec §4.3 | none (pure) | modelled from the spec (`ExtensionCodec`); the HelloRetryRequest handler and the ticket module parse real blocks with it, the other handshake messages use a `wf` flag |
| Session / ticket manager | `tls13_process_new_session_ticket` 785-848 | ticket session, lifetime, early-data limit, ownership | modelled (`TLS13Ticket`) |
| State names | `tls13_client_handshake_state` 748-783 | none | not modelled (only formats strings) |
| TLS 1.3 cleanup | `ssl_clear_tls13_state` 850-856 | frees key-share buffers | not modelled (memory only) |
| Record layer, crypto, certificate verifier, private-key signer, session cache | outside `src/` | external | environment choices |

### Operations and how they interact

The driver `tls13_client_handshake` (686-746) loops over `hs->tls13_state`. It calls one
handler per state until a handler returns something other than `ssl_hs_ok`. The caller
then resolves the wait and re-enters the loop. Waits include: read a message, flush, an
async x509 lookup, a private-key operation, Channel ID, or early data rejected.

The handlers are `do_read_hello_retry_request`, `do_send_second_client_hello`,
`do_read_server_hello`, `do_process_change_cipher_spec`,
`do_read_encrypted_extensions`, `do_read_certificate_request`,
`do_read_server_certificate`, `do_read_server_certificate_verify`,
`do_read_server_finished`, `do_send_end_of_early_data`, `do_send_client_certificate`,
`do_send_client_certificate_verify` and `do_complete_second_flight`.

Each handler interacts with the key schedule by advancing it and installing keys, with
the transcript by hashing messages, and with the session by resuming or creating one.

### What makes it hard

Each of these is listed in `PROJECT.json` under "hazards", at its line:

- the order of hashing and deriving;
- the HRR group replacing the key share;
- the CertificateRequest skip rules on resumption;
- re-entry after an async retry with the message still unconsumed;
- the write key deferred while 0-RTT is in progress, and the null cipher restored for the
  second ClientHello;
- the two places that can report `ssl_hs_early_data_rejected`;
- PSK compatibility checks;
- the 0-RTT parameter cross-check in EncryptedExtensions;
- a partial failure after `session_reused` is set: a ServerHello without key_share must still fail closed, and no handshake secret may be derived without DHE;
- the re-base of the NewSessionTicket's u32 timeout (clamped, clock moving either way),
  the early-data limit of each ticket, and session ownership through `new_session_cb`;
- lenient parsing of ticket extensions, and strict parsing of the HelloRetryRequest's, whose cookie is checked before its key share;
- a session copy for a NewSessionTicket that fails to allocate, answered with no alert;
- termination when every callback can ask for a retry.

## 2. Modules and how they correspond to the code

`TLS13Client.tla` is the state machine. Each do_* handler is one action with the
handler's name. Every protocol early return becomes a disjunct: either a `Fatal(alert)`
(the alert is logged in `sent` under the current write key, then `wait = "error"`), or
a wait. Allocation and internal failures with no protocol meaning are left out:
- the cookie `CBS_stow` (102-104);
- `SSL_SESSION_dup` and `ssl_get_new_session` in the ServerHello (290-293, 300-302);
- the `early_alpn` copy (403-408);
- failing hash and key-schedule calls.

The `wf` flag of Certificate, CertificateVerify and Finished stands for their decode
checks at 505, 533 and 550. `EarlyDataParametersMatch` leaves out the
`received_custom_extension` check of line 420. That only lets the model accept more.

- **State.** The `VARIABLES` hold the `hs`/`ssl` fields the code reads or writes. Each is
  commented with its C name.
- **Messages.** The inbox holds one abstract server message: a record of the fields the
  handler branches on, plus `wf`. Decode errors from `CBS_get_*` and
  `ssl_parse_extensions` are `wf = FALSE`. The HelloRetryRequest is the exception: it
  carries a real extension block (`HRRBlocks`). `HelloRetryRequestAlert` runs the checks
  of lines 67-139 on it in the code's order: `ExtensionCodec`'s `ssl_parse_extensions`
  in strict mode over key_share and cookie, then `CookieValid`, then the key share's
  length, `SupportedGroupNamed` and the comparison with the share already sent. Its
  result is the alert the handler sends (`FatalAlert` logs the alert's name), or
  `"none"`, and `RequestedGroup` is the group that becomes `retry_group`. The missing-key_share
  alert of the ServerHello is named too (`missing_extension`). Other fatal alerts are
  logged as `"alert"`: no property tells their descriptions apart.
- **Async points.** `VerifyResults`, `CertCbResults`, `PrivateKeyResults` and
  `ChannelIdResults` are the callback answers. The action picks one with `\E`, and a
  retry leaves `tls13_state` (and the message) unchanged, as the code does.
- **Driver.** `tls13_client_handshake` (the driver) sets the final wait when
  `state_done` is reached.
- **Environment.** `Resume` (the caller), `EarlyWrite` (the application's 0-RTT
  `SSL_write`) and `ServerSend` (the server delivering the next message) are the
  environment. They are modelled from the spec.

`TLS13HandshakeAbstract.tla` is what the handshake promises its caller:
`Negotiate`, `AcceptEarlyData`/`RejectEarlyData`, `Authenticate`, `Establish` and
`Fail` over a phase, a resumption flag and the 0-RTT status. `TLS13Client` maps onto it
(`Abs == INSTANCE TLS13HandshakeAbstract WITH ...`):

- the phase is read off the secrets derived so far and the error wait;
- resumption counts once the handshake secrets exist;
- 0-RTT counts as accepted once EncryptedExtensions passed its cross-check, and as
  rejected once the caller was told.

`TLS13Ticket.tla` is `tls13_process_new_session_ticket` as one action,
`tls13_process_new_session_ticket`, with every early return as a disjunct. Its helpers
are:

- `TicketCopy`: the `SSL_SESSION_dup` plus `ssl_session_rebase_time`;
- `CapTimeout`: the lifetime cap;
- `TicketSession`: the early-data limit and the resumable marks;
- `HandOff`: `new_session_cb` ownership;
- `FailTicket`: a return of 0.

`Tick` is the wall clock, which may move either way. The u32 fields keep their
arithmetic in `0 .. 2^Width - 1`. The ticket's extension block is real bytes, parsed by
`ExtensionCodec`'s `ssl_parse_extensions` in lenient mode.

`ExtensionCodec.tla` holds `SplitFrom`, a RECURSIVE walk of type byte, length byte and
body, and `ssl_parse_extensions`. The parse rejects malformed blocks and duplicates
(`decode_error`), and rejects unknown types in strict mode
(`unsupported_extension`). Widths are scaled to one byte each. The codec has no run of its own. Comparing it with
a second reference written from the same spec section would check the model against
itself, with no code of `src/` involved. It is checked at its call sites instead:

- in strict mode by the HelloRetryRequest handler (`HelloRetryRequestChecked`);
- in lenient mode by the ticket handler (`TicketUnknownExtensionsTolerated`).

`MCTLS13Client.tla` instantiates the model for TLC:

- three groups, of which the client supports two;
- four ciphers: AES128 and CHACHA use sha256, AES256 uses sha384, and RC4 is not a
  TLS 1.3 cipher;
- one ALPN;
- twelve HelloRetryRequest extension blocks, over type 0 (key_share), 1 (cookie) and 2
  (unknown), with G1, G2, G3 on the wire as 1, 2, 3: empty; a share for each group; a
  cookie; an empty cookie; share and cookie; a share with a trailing byte; a duplicate
  share; an unknown extension; an overrunning length; the share of G1 behind an empty
  cookie;
- a small explicit set of offerable sessions covering each PSK check;
- a server message set holding one malformed message per type and every well-formed
  variant that changes control flow.

## 3. Runs

| Run | Config | Expect | Checks |
|---|---|---|---|
| `client_safety` | `MCTLS13Client.cfg` | pass | `TypeOK`, `HandshakeSecretsBound`, `ServerAuthenticatedBeforeAppKeys`, `RecordsUnderExpectedKey`, `ResumptionCompatible`, `EarlyDataParametersKept`, `EarlyDataRejectedOnce`, `ClientFlightWellFormed` |
| `two_alpns` | `MCTLS13ClientTwoAlpns.cfg` | pass | `EarlyDataParametersKept` with two ALPN protocols |
| `experiment_variant` | `MCTLS13ClientExperiment.cfg` | pass | `ChangeCipherSpecBeforeHandshakeKey` with `ExperimentVersion = TRUE` |
| `ticket` | `MCTLS13Ticket.cfg` | pass | `TicketTypeOK`, `TicketLifetimeCapped`, `EarlyDataLimitFromOwnTicket`, `SessionOwnership` |
| `termination` | `MCTLS13ClientLiveness.cfg` | pass | `HandshakeTerminates` under `FairSpec` |
| `refinement` | `MCTLS13ClientRefinement.cfg` | pass | `AbstractHandshake` (`Abs!Spec`) |
| `alert_key` | `MCTLS13ClientAlerts.cfg` | violation | `AlertsUnderHandshakeKey` |
| `ticket_alloc_alert` | `MCTLS13TicketAlerts.cfg` | violation | `FailedTicketAlerted` |

What each property of `client_safety` states:

- **HandshakeSecretsBound.** The handshake and application secrets are derived from the
  PSK, or from zeroes without a PSK, then from the key-share group. This holds in that
  order and over the transcript up to ServerHello (for the handshake secrets) or
  server Finished (for the application secrets). It also covers the partial failure at
  line 323: a ServerHello without key_share fails there after the PSK was accepted, and
  a PSK-only handshake (psk_ke, which BoringSSL does not support) would derive secrets
  without a group. `ServerHelloKeyShareAlert` (323-338) and `DeriveHandshakeSecrets`
  (340-356) are the two outcomes of that step.
- **HelloRetryRequestChecked.** Spec §8's two HelloRetryRequest properties, on the bytes
  the server sent: an empty extension block is rejected with decode_error, a block
  whose only extension is a share for the group already sent is rejected with
  illegal_parameter; and `retry_group` is only ever a supported group other than the
  first. A share for G1 behind an empty cookie gets decode_error, because the cookie is
  checked first; the property reads spec §8's "always" as applying to an otherwise
  well-formed message.
- **ServerAuthenticatedBeforeAppKeys.** The application secrets exist only after the
  server was authenticated, by a certificate and CertificateVerify or by resumption,
  and the server flight matches the case.
- **RecordsUnderExpectedKey.** Each record the client wrote is sealed under the key the
  spec gives for it:
  - the first ClientHello and the second ClientHello under null;
  - 0-RTT data and end_of_early_data under the early key;
  - the second flight under the handshake key.
- **ResumptionCompatible.** A reused session was the one offered, and it has a
  matching version, PRF and context.
- **EarlyDataParametersKept.** Accepted 0-RTT means the negotiated cipher and ALPN are
  the early session's, and no Channel ID was negotiated.
- **EarlyDataRejectedOnce.** The caller is told at most once that 0-RTT was rejected.
  It is told only if 0-RTT was offered and then not accepted.
- **ClientFlightWellFormed.** The client's second flight is Certificate (if requested),
  CertificateVerify (if a certificate was selected), Channel ID (if negotiated), then
  Finished. Each is sent once and in this order, whatever retries `cert_cb`, the
  signer or the Channel ID lookup asked for. What is written is what is hashed.

`ticket` runs up to two NewSessionTickets: well-formed or not, each lifetime, eight
extension blocks (none, a limit, an empty limit, an unknown extension, a duplicate, an
overrun), with and without early data enabled and a callback, and the clock moving
either way.

- `TicketLifetimeCapped`: a stored ticket never outlives the server's lifetime, and a
  live one never outlives the established session.
- `EarlyDataLimitFromOwnTicket`: the 0-RTT limit comes only from the ticket's own
  message.
- `SessionOwnership`: every copy is kept or freed exactly once.
- `TicketUnknownExtensionsTolerated`: an unknown extension type never fails a ticket.
  The call at line 824 passes ignore_unknown, unlike the strict calls at 85 and 239.
  `TicketExtensions` is that call, and its mutant parses strictly.

It reaches about 2.39M distinct states in about 25 s.

`two_alpns` gives the sessions and EncryptedExtensions two protocols (`MCTwoAlpns`), so 0-RTT sent under ALPN1 can meet a server that selects ALPN2. It reaches 5,498,690 distinct states in about 35 s, and the ALPN cross-check mutant fails it.

`termination` checks `<>[]Finished` under `FairSpec` in about 80 s.

`refinement` checks `Abs!Spec` over the same 2.34M states.

`experiment_variant` checks a different question. With the experiment version, the client writes a ChangeCipherSpec before its first record under the handshake key. It does this in `do_process_change_cipher_spec` when 0-RTT was not offered, and in `do_send_end_of_early_data` when the key switch was deferred. Its mutant drops the ChangeCipherSpec from the deferred path.

`client_safety` reaches 2,344,551 distinct states at depth 37 in about 25 s.

Each property has a mutant in `PROJECT.json`, a plausible bug in the code that TLC
catches:

- a duplicated full session;
- the HelloRetryRequest's same-group check dropped;
- the PSK input ignored;
- CertificateRequest accepted on resumption;
- the early key kept for the second ClientHello;
- the PRF check dropped;
- the ALPN cross-check dropped;
- the caller not clearing 0-RTT state;
- CertificateVerify queued before the signer finished;
- a handler that does not advance (for termination);
- `early_data` accepted without resumption (for the refinement);
- in `TLS13Ticket`, an unclamped u32 subtraction in the re-base, a copy of the last
  ticket, a session released whatever the callback returned, an alert on an
  allocation failure, and the ticket extensions parsed strictly;

### Finding: `alert_key`

`alert_key` shows a disagreement between the code and the spec.

- **What the code does.** `do_process_change_cipher_spec` (line 365) installs the
  handshake write key only when `!hs->early_data_offered`. The code comment says this is
  done "so that alerts are encrypted".
- **What the spec says.** Spec §4.1 says the key is installed "unless 0-RTT data is
  still being sent".
- **The gap.** 0-RTT can be offered and already over: an HRR rejected it, or the server
  did not accept it in EncryptedExtensions. In that case a fatal alert is sealed under
  the early key (or the null key after an HRR) until `do_send_end_of_early_data` runs.
  TLC's counterexample is:
  1. 0-RTT is offered.
  2. The ServerHello and EncryptedExtensions arrive without early_data.
  3. A malformed CertificateRequest arrives.
  4. The decode_error alert is sealed under the early key.

  A server that rejected 0-RTT discards records it cannot decrypt, so the alert is lost.

### Finding: `ticket_alloc_alert`

- **What the code does.** `tls13_process_new_session_ticket` returns 0 when
  `SSL_SESSION_dup` of the established session fails (lines 786-790). It sends no alert.
- **What the spec says.** Spec §7 says resource exhaustion, "allocation failure in
  session duplication" named, is fatal with alert `internal_error`.
  `do_read_server_hello` does send `internal_error` for its own `SSL_SESSION_dup` failure
  (line 292).
- **What TLC shows.** `FailedTicketAlerted` (a failed ticket has been answered by an
  alert) fails in two steps: the first NewSessionTicket's copy fails to allocate. The
  connection still fails, because the read that delivered the ticket fails, but the
  peer is not told why.

## 4. Bounds and why they are enough

- **Groups.** There are three groups. G3 is unsupported, so the HRR checks for an
  unsupported group and for the same group both have a case.
- **Ciphers.** The four ciphers give a non-TLS 1.3 cipher and two PRFs, so the PRF
  mismatch on resumption can happen.
- **Sessions.** The offered sessions include:
  - none;
  - a session with and without early data;
  - a bad version or context;
  - a different PRF.
- **0-RTT writes.** `MaxEarlyWrites = 1` is enough for 0-RTT data to precede
  end_of_early_data.
- **Server messages.** Every handler sees each of its outcomes: malformed, each reject
  branch, and accept.
- **Repetition.** The handshake has no loop beyond one HRR, and the code rejects a
  second HRR, so the depth is bounded by the protocol itself.

## 5. Fairness

`Spec` has none, and the safety runs use it. `FairSpec` (the `termination` run) adds:

- **The driver.** `WF_vars(Handlers)`: the loop runs while nothing has suspended it.
- **The caller.** `WF_vars(Resume)`: it calls `SSL_do_handshake` again while
  suspended.
- **The transport.** `WF_vars(ServerSend)`: it delivers the server's next message,
  although the server may send anything.
- **Callbacks.** `SF_vars(Handlers /\ wait' \notin AsyncRetries)`: a callback may
  return retry any number of times, but not forever. A non-retry answer is only
  possible while the handler runs, between suspensions, so weak fairness would not
  force it.

0-RTT writes are the application's and get no fairness. Without the transport's
fairness, a server that stops sending leaves the handshake suspended in
`read_message`. That is allowed: the spec makes timeouts the transport's job.

## 6. Not modelled

- **Outside `src/`.** Byte-level encoding, the record layer, HKDF and the hash
  functions, certificate chain validation and the session cache are not in this
  repository's sources. They appear only as the outcomes the handlers branch on.
- **`tls13_client_handshake_state` (748-783).** It maps states to names for logging
  only.
- **`ssl_clear_tls13_state` (850-856).** It frees key-share buffers. No property can
  tell memory apart.
- **Ticket and handshake not composed.** The ticket module starts from an arbitrary
  established session. The only coupling is `established_session`, which
  `SSL_SESSION_dup` copies field for field. The fields the ticket code reads (time,
  timeout) are not ones the handshake model keeps. So composing the two would add
  states but no property that could tell a wrong composition apart.
- **ServerHello and EncryptedExtensions bytes.** These still carry a `wf` flag and the
  fields their handlers branch on. The duplicate and unknown-extension rules they share
  with the HelloRetryRequest are checked on the HelloRetryRequest. Their own
  extension bodies are parsed by code outside `src/`
  (`ssl_ext_key_share_parse_serverhello`, `ssl_ext_pre_shared_key_parse_serverhello`,
  `ssl_parse_serverhello_tlsext`).

## 7. Open questions

- **`MaxEarlyWrites = 2`.** More writes only repeat `app_data` under the early key.
  `RecordsUnderExpectedKey` already checks that for one write, so the bound is kept at 1.
- **What is left outside the model.** Everything else the file does is modelled. The
  rest is in section 6: state names, cleanup, and the code outside `src/`.
