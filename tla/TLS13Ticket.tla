------------------------------ MODULE TLS13Ticket ------------------------------
(***************************************************************************)
(* Post-handshake NewSessionTicket processing of the TLS 1.3 client:       *)
(* tls13_process_new_session_ticket (tls13_client.cc lines 785-848), run   *)
(* once per NewSessionTicket the server sends after the handshake. Each    *)
(* call copies the established session, re-bases its time to the current  *)
(* clock, reads the ticket, caps the lifetime at the server's, takes the   *)
(* early-data limit from the ticket's extensions (parsed by ExtensionCodec *)
(* in lenient mode) and hands the session to new_session_cb, which keeps  *)
(* it or leaves it to be freed.                                            *)
(*                                                                         *)
(* The u32 fields keep their arithmetic but not their width: U32 is        *)
(* 0 .. 2^Width - 1. The clock is the wall clock of ssl_get_current_time   *)
(* and may move either way between calls.                                  *)
(***************************************************************************)
EXTENDS Naturals, Sequences, ExtensionCodec

CONSTANTS
  Width,             \* scaled width of a u32 field
  MaxTime,           \* the clock reads 0 .. MaxTime
  MaxTickets,        \* bound on NewSessionTickets the server sends
  Lifetimes,         \* ticket_lifetime values the server may send
  ExtBlocks,         \* extension blocks the server may send
  EarlyDataInfoType  \* TLSEXT_TYPE_ticket_early_data_info

U32 == 0 .. 2 ^ Width - 1

ASSUME Lifetimes \subseteq U32 /\ MaxTickets \in Nat \ {0}

\* A NewSessionTicket: wf = FALSE stands for a body that fails one of the
\* CBS reads of lines 796-800 or has trailing bytes.
NewSessionTickets ==
  [wf : {TRUE}, lifetime : Lifetimes, extensions : ExtBlocks]
    \cup [wf : {FALSE}, lifetime : {0}, extensions : {<<>>}]

VARIABLES
  now,               \* ssl_get_current_time, in seconds
  established,       \* ssl->s3->established_session
  enable_early_data, \* ssl->cert->enable_early_data
  has_new_session_cb,\* ssl->ctx->new_session_cb != NULL
  alive,             \* no call has failed: a failed call fails the read
  received,          \* history: the NewSessionTickets processed, in order
  stored,            \* sessions new_session_cb took ownership of, in order
  allocated,         \* sessions SSL_SESSION_dup created
  freed,             \* sessions the UniquePtr freed on return
  alerts             \* alerts sent

tvars == <<now, established, enable_early_data, has_new_session_cb, alive,
           received, stored, allocated, freed, alerts>>

\* SSL_SESSION fields this code reads or writes; ticket is the index in
\* received of the NewSessionTicket whose ticket bytes were stowed.
Sessions == [time : 0 .. MaxTime, timeout : U32, max_early_data : U32,
             ticket_age_add_valid : BOOLEAN, not_resumable : BOOLEAN,
             ticket : Nat]

\* The elapsed time subtracted without the clamp at zero: the u32
\* timeout wraps.
RebaseTimeWraps(s) ==
  IF s.time > now THEN [s EXCEPT !.time = now, !.timeout = 0]
  ELSE [s EXCEPT !.time = now,
                 !.timeout = (s.timeout - (now - s.time)) % (2 ^ Width)]

\* ssl_session_rebase_time (ssl_session.cc): move the session's time to
\* now and shorten its timeout by the time elapsed, clamped at zero; a
\* clock that went back marks the session expired.
RebaseTime(s) ==
  IF s.time > now THEN [s EXCEPT !.time = now, !.timeout = 0]
  ELSE [s EXCEPT !.time = now,
                 !.timeout = IF s.timeout < now - s.time THEN 0
                             ELSE s.timeout - (now - s.time)]

\* An allocation failure reported with an alert it has no value for.
FailTicketAlwaysAlerts(alert, copied) ==
  /\ alerts' = Append(alerts, alert)
  /\ freed' = IF copied THEN freed + 1 ELSE freed
  /\ alive' = FALSE
  /\ UNCHANGED stored

\* A failed call: the UniquePtr frees the copy (if there is one) and the
\* read that delivered the ticket fails.
FailTicket(alert, copied) ==
  /\ alerts' = IF alert = "none" THEN alerts ELSE Append(alerts, alert)
  /\ freed' = IF copied THEN freed + 1 ELSE freed
  /\ alive' = FALSE
  /\ UNCHANGED stored

\* The session released whenever there is a callback, whatever it returns.
HandOffReleaseAlways(s) ==
  \/ /\ has_new_session_cb
     /\ stored' = Append(stored, s)
     /\ UNCHANGED freed
  \/ /\ has_new_session_cb
     /\ UNCHANGED <<stored, freed>>
  \/ /\ ~has_new_session_cb
     /\ freed' = freed + 1
     /\ UNCHANGED stored

\* Lines 839-845: new_session_cb returns 1 to take ownership (release);
\* otherwise, or without a callback, the copy is freed on return.
HandOff(s) ==
  \/ /\ has_new_session_cb
     /\ stored' = Append(stored, s)
     /\ UNCHANGED freed
  \/ /\ freed' = freed + 1
     /\ UNCHANGED stored
  \* the callback declined, or there is none

\* Lines 828-835: ticket_early_data_info carries a u32 (scaled to one
\* byte) and nothing else.
EarlyDataInfoValid(body) == Len(body) = 1

\* The copy taken from the last ticket stored instead of the established
\* session.
TicketCopyFromLastStored ==
  IF stored = <<>> THEN RebaseTime(established) ELSE RebaseTime(Last(stored))

\* SSL_SESSION_dup(established_session, SSL_SESSION_INCLUDE_NONAUTH),
\* re-based (lines 786-792).
TicketCopy == RebaseTime(established)

\* Lines 807-811: cap the renewable lifetime by the server's.
CapTimeout(s, server_timeout) ==
  IF s.timeout > server_timeout THEN [s EXCEPT !.timeout = server_timeout]
  ELSE s

\* The ticket's extensions parsed in strict mode, as the handshake
\* messages' are.
TicketExtensionsStrict(m) ==
  ssl_parse_extensions(m.extensions, {EarlyDataInfoType}, FALSE)

\* Lines 813-826: the extensions parsed for ticket_early_data_info alone,
\* ignoring every other type.
TicketExtensions(m) ==
  ssl_parse_extensions(m.extensions, {EarlyDataInfoType}, TRUE)

\* Lines 813-839 on a successful parse: the early-data limit, if the
\* ticket carries it and early data is enabled, and the session resumable.
TicketSession(s, r) ==
  [s EXCEPT
     !.max_early_data =
        IF EarlyDataInfoType \in r.present /\ enable_early_data
        THEN r.data[EarlyDataInfoType][1] ELSE s.max_early_data,
     !.ticket_age_add_valid = TRUE,
     !.not_resumable = FALSE]

(***************************************************************************)
(* tls13_process_new_session_ticket (lines 785-848).                       *)
(***************************************************************************)
tls13_process_new_session_ticket ==
  /\ alive /\ Len(received) < MaxTickets
  /\ \E m \in NewSessionTickets :
       LET r == TicketExtensions(m)
           s == CapTimeout(TicketCopy, m.lifetime)
       IN
       /\ received' = Append(received, m)
       /\ \/ \* SSL_SESSION_dup fails: return 0 without an alert
             /\ FailTicket("none", FALSE)
             /\ UNCHANGED allocated
          \/ /\ allocated' = allocated + 1
             /\ \/ /\ ~m.wf
                   /\ FailTicket("decode_error", TRUE)
                \/ /\ m.wf /\ ~r.ok
                   /\ FailTicket(r.alert, TRUE)
                \/ /\ m.wf /\ r.ok
                   /\ EarlyDataInfoType \in r.present /\ enable_early_data
                   /\ ~EarlyDataInfoValid(r.data[EarlyDataInfoType])
                   /\ FailTicket("decode_error", TRUE)
                \/ /\ m.wf /\ r.ok
                   /\ ~(EarlyDataInfoType \in r.present /\ enable_early_data
                        /\ ~EarlyDataInfoValid(r.data[EarlyDataInfoType]))
                   /\ HandOff([TicketSession(s, r) EXCEPT !.ticket = Len(received')])
                   /\ UNCHANGED <<alive, alerts>>
  /\ UNCHANGED <<now, established, enable_early_data, has_new_session_cb>>

\* The wall clock moves, either way, between two tickets.
Tick ==
  /\ now' \in (0 .. MaxTime) \ {now}
  /\ UNCHANGED <<established, enable_early_data, has_new_session_cb, alive,
                 received, stored, allocated, freed, alerts>>

\* The handshake just completed: the clock reads the established session's
\* time, whose ticket_max_early_data is zero (ssl_get_new_session, or the
\* SSL_SESSION_DUP_AUTH_ONLY copy of a resumption).
Init ==
  /\ established \in [time : {1}, timeout : U32, max_early_data : {0},
                      ticket_age_add_valid : BOOLEAN, not_resumable : BOOLEAN,
                      ticket : {0}]
  /\ now = established.time
  /\ enable_early_data \in BOOLEAN
  /\ has_new_session_cb \in BOOLEAN
  /\ alive = TRUE
  /\ received = <<>> /\ stored = <<>>
  /\ allocated = 0 /\ freed = 0
  /\ alerts = <<>>

Next == tls13_process_new_session_ticket \/ Tick

Spec == Init /\ [][Next]_tvars

-----------------------------------------------------------------------------

TicketTypeOK ==
  /\ now \in 0 .. MaxTime
  /\ established \in Sessions
  /\ alive \in BOOLEAN
  /\ received \in Seq(NewSessionTickets) /\ Len(received) <= MaxTickets
  /\ stored \in Seq(Sessions)
  /\ allocated \in Nat /\ freed \in Nat
  /\ alerts \in Seq({"decode_error", "unsupported_extension"})

\* A ticket never outlives what the server advertised for it, and one not
\* yet expired (timeout 0) never outlives the established session it was
\* copied from, whichever way the clock moved between the handshake and
\* its arrival: ssl_session_rebase_time, then the cap of lines 809-811.
TicketLifetimeCapped ==
  \A i \in 1 .. Len(stored) :
    /\ stored[i].timeout <= received[stored[i].ticket].lifetime
    /\ stored[i].timeout > 0 =>
         stored[i].time + stored[i].timeout <= established.time + established.timeout

\* A stored session allows 0-RTT only when early data is enabled and its
\* own NewSessionTicket carried ticket_early_data_info with that limit; a
\* limit never carries over from an earlier ticket (each call copies the
\* established session, lines 786-787 and 828-830).
EarlyDataLimitFromOwnTicket ==
  \A i \in 1 .. Len(stored) :
    stored[i].max_early_data > 0 =>
      LET r == ssl_parse_extensions(received[stored[i].ticket].extensions,
                                    {EarlyDataInfoType}, TRUE)
      IN /\ enable_early_data
         /\ EarlyDataInfoType \in r.present
         /\ r.data[EarlyDataInfoType] = <<stored[i].max_early_data>>

\* Every session copy ends owned exactly once: kept by new_session_cb
\* (released from the UniquePtr) or freed on return, never both, never
\* neither (lines 786-787, 839-845).
SessionOwnership == allocated = Len(stored) + freed

\* A NewSessionTicket never fails for an extension type the client does
\* not know: ticket extensions are parsed leniently (ignore_unknown at
\* line 824), so a server may add new ticket extensions, unlike the
\* HelloRetryRequest and ServerHello blocks parsed strictly (lines 85, 239).
TicketUnknownExtensionsTolerated ==
  \A i \in 1 .. Len(alerts) : alerts[i] # "unsupported_extension"

\* Spec section 7: resource exhaustion, an allocation failure in session
\* duplication included, is fatal and answered with internal_error, so a
\* NewSessionTicket whose processing failed has been answered by an alert
\* (the early returns of tls13_process_new_session_ticket, lines 788-836).
FailedTicketAlerted == ~alive => alerts # <<>>
=============================================================================
