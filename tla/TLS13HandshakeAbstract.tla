------------------------- MODULE TLS13HandshakeAbstract -------------------------
(***************************************************************************)
(* What the TLS 1.3 client handshake promises its caller (spec sections 2  *)
(* and 4.1), with no messages, keys or callbacks: it negotiates (resuming  *)
(* only if a session was offered), authenticates the server, then is       *)
(* established; it may fail at any point before it is established. 0-RTT, *)
(* if offered, is decided once, accepted only on a resumption and before   *)
(* the server is authenticated, or rejected, at the latest by then.        *)
(***************************************************************************)
VARIABLES
  phase,        \* "start", "negotiated", "authenticated", "established", "failed"
  resumed,      \* the negotiated handshake resumes the offered session
  early,        \* 0-RTT: "none", "offered", "accepted", "rejected"
  psk_offered   \* the ClientHello offered a session

avars == <<phase, resumed, early, psk_offered>>

Init ==
  /\ phase = "start"
  /\ resumed = FALSE
  /\ psk_offered \in BOOLEAN
  /\ early \in IF psk_offered THEN {"none", "offered"} ELSE {"none"}

Negotiate ==
  /\ phase = "start"
  /\ phase' = "negotiated"
  /\ resumed' \in IF psk_offered THEN BOOLEAN ELSE {FALSE}
  /\ UNCHANGED <<early, psk_offered>>

AcceptEarlyData ==
  /\ phase = "negotiated" /\ resumed
  /\ early = "offered"
  /\ early' = "accepted"
  /\ UNCHANGED <<phase, resumed, psk_offered>>

RejectEarlyData ==
  /\ phase \in {"start", "negotiated"}
  /\ early = "offered"
  /\ early' = "rejected"
  /\ UNCHANGED <<phase, resumed, psk_offered>>

Authenticate ==
  /\ phase = "negotiated"
  /\ early # "offered"
  /\ phase' = "authenticated"
  /\ UNCHANGED <<resumed, early, psk_offered>>

Establish ==
  /\ phase = "authenticated"
  /\ phase' = "established"
  /\ UNCHANGED <<resumed, early, psk_offered>>

Fail ==
  /\ phase \notin {"established", "failed"}
  /\ phase' = "failed"
  /\ UNCHANGED <<resumed, early, psk_offered>>

Next ==
  \/ Negotiate \/ AcceptEarlyData \/ RejectEarlyData
  \/ Authenticate \/ Establish \/ Fail

Spec == Init /\ [][Next]_avars
=============================================================================
